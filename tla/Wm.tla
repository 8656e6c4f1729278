-------------------------------- MODULE Wm --------------------------------
(***************************************************************************)
(* The window manager (user/boringwm/core.c, main.c) beside the display        *)
(* server.  It talks to the server by requests that it waits for; an input     *)
(* that arrives meanwhile is put aside, and there is room for one.  The        *)
(* server keeps that bound: it passes on no second input before the first is   *)
(* acknowledged.  Windows fill one column; the master area that                *)
(* wm_layout puts beside it is left out.  A window is named by its             *)
(* application, which registers once.                                          *)
(***************************************************************************)
EXTENDS Display, SequencesExt

CONSTANTS
    ClientMax,          \* BORING_WM_CLIENT_MAX
    InnerGap,           \* BORING_WM_INNER
    BorderSize,         \* BORING_WM_BORDER
    InputKind,          \* bound: what the user does, of the kinds below
    PointerRow,         \* bound: rows the pointer moves to
    DamageRow,          \* bound: rows of a surface that COMMIT_DAMAGE names
    InputMax            \* bound: inputs the server reads

ASSUME WmAssumption ==
    /\ ClientMax \in Nat /\ InnerGap \in Nat /\ BorderSize \in Nat /\ InputMax \in Nat
    /\ InputKind \subseteq {"next", "previous", "later", "earlier", "close", "key", "other", "move"}
    /\ PointerRow \subseteq Row /\ DamageRow \subseteq Row

VARIABLES
    wm,             \* wm_core, and where its one thread is
    to_display,     \* requests under way to the server
    to_wm,          \* answers and inputs under way to the window manager
    inputs          \* inputs read so far

desktopVars == <<displayVars, wm, to_display, to_wm, inputs>>

NoInput == <<"none">>
Inputs == ((InputKind \ {"move"}) \X {0}) \cup ((InputKind \cap {"move"}) \X PointerRow)

WmStart == [pc |-> "start", index |-> 1, app |-> NoApp, old_focus |-> NoApp, acked |-> TRUE,
            deferred |-> NoInput, taken |-> NoInput, order |-> <<>>, focus |-> NoApp, closing |-> {},
            surface |-> [a \in App |-> NoToken]]

DesktopInit ==
    /\ DisplayInit
    /\ wm = WmStart
    /\ to_display = <<>> /\ to_wm = <<>> /\ inputs = 0

----------------------------------------------------------------------------
(* core.c                                                                  *)

Clients(w) == Range(w.order)
Lesser(m, n) == IF m <= n THEN m ELSE n

\* column and rectangle: the window at a position, the early ones taking the
\* rows that are left over.
column(n, i) ==
    LET gap == IF n > 1 /\ Rows >= n THEN Lesser(InnerGap, (Rows - n) \div (n - 1)) ELSE 0
        span == Rows - gap * (n - 1)
        h == span \div n + (IF i - 1 < span % n THEN 1 ELSE 0)
    IN  [y |-> (i - 1) * (span \div n) + Lesser(i - 1, span % n) + gap * (i - 1),
         height |-> h, border |-> IF h = 0 THEN 0 ELSE Lesser(BorderSize, (h - 1) \div 2)]

wm_add(w, a, token) ==
    [w EXCEPT !.order = Append(@, a), !.focus = a, !.old_focus = w.focus,
              !.closing = @ \ {a}, !.surface[a] = token]

\* The window that took the place of the removed one is focused, or the first.
wm_remove(w, a) ==
    LET position == CHOOSE i \in DOMAIN w.order : w.order[i] = a
        rest == RemoveAt(w.order, position)
    IN  [w EXCEPT !.order = rest, !.closing = @ \ {a}, !.surface[a] = NoToken,
                  !.focus = IF @ # a THEN @ ELSE IF rest = <<>> THEN NoApp
                            ELSE rest[((position - 1) % Len(rest)) + 1]]

focused_position(w) == {i \in DOMAIN w.order : w.order[i] = w.focus}

\* wm_focus_step: around the end.
wm_focus_step(w, kind) ==
    {w.order[(IF kind = "next" THEN i % Len(w.order)
              ELSE (i + Len(w.order) - 2) % Len(w.order)) + 1] : i \in focused_position(w)}

\* wm_reorder: the new orders, none at either end.
wm_reorder(w, kind) ==
    {LET j == IF kind = "later" THEN i + 1 ELSE i - 1
     IN  [w.order EXCEPT ![i] = w.order[j], ![j] = w.order[i]] :
        i \in {k \in focused_position(w) : IF kind = "later" THEN k < Len(w.order) ELSE k > 1}}

\* wm_pointer: the window under the pointer, unless it has the focus.
wm_pointer(w, row) ==
    {w.order[i] : i \in {k \in DOMAIN w.order :
                           /\ w.order[k] # w.focus
                           /\ row \in PlacedRows(column(Len(w.order), k))}}

----------------------------------------------------------------------------
(* main.c: requests to the server                                          *)

Asks(w, messages) == wm' = w /\ to_display' = to_display \o messages

Acknowledge == [type |-> "ack"]
Unbind(w, a) == [type |-> "unbind", surface |-> w.surface[a], window |-> a]
Place(w) ==
    LET a == w.order[w.index] rect == column(Len(w.order), w.index)
    IN  [type |-> "place", surface |-> w.surface[a], window |-> a, y |-> rect.y,
         height |-> rect.height, border |-> rect.border, order |-> w.index - 1,
         color |-> IF w.focus = a THEN "focused" ELSE "unfocused"]

\* sync_layout from w.index on: the next window, or the presentation.
LayoutFrom(w) ==
    IF w.index > Len(w.order) THEN Asks([w EXCEPT !.pc = "present"], <<[type |-> "present"]>>)
    ELSE Asks([w EXCEPT !.pc = "place"], <<Place(w)>>)
sync_layout(w) == LayoutFrom([w EXCEPT !.index = 1])

\* drop: a window of this application is unbound, the connection closed; every
\* caller goes on with sync_layout.
Dropped(w, a) ==
    IF a \in Clients(w)
      THEN Asks([w EXCEPT !.pc = "unbind", !.app = a], <<Unbind(w, a)>>) /\ UNCHANGED apps
      ELSE sync_layout(w) /\ apps' = [apps EXCEPT ![a].wm = FALSE]

\* Mutant: the acknowledgement at the end is left out.
ForgetsAck(w) == Asks([w EXCEPT !.pc = "idle", !.acked = TRUE], <<>>)

\* The end of handle_input, or of a request.
Returns(w) ==
    Asks([w EXCEPT !.pc = "idle", !.acked = TRUE], IF w.acked THEN <<>> ELSE <<Acknowledge>>)

\* app_send: it fails for one that is gone, or that has left its queue full.
MaySend(a, sent) == sent => apps[a].alive

\* A message to a window, after which nothing is left to do.
SendOrDrop(w, a) ==
    \E sent \in BOOLEAN : /\ MaySend(a, sent)
                          /\ IF sent THEN Returns(w) /\ UNCHANGED apps ELSE Dropped(w, a)

----------------------------------------------------------------------------
(* main.c: inputs                                                          *)

\* sync_focus.
FocusRequest(w) == [type |-> "focus", window |-> w.focus]
sync_focus(w) == Asks([w EXCEPT !.pc = "focus"], <<FocusRequest(w)>>)

\* handle_input with wm_key.  A focus moved by the pointer is acknowledged
\* before it is shown, anything else after.
handle_input(e, w) ==
    CASE e[1] \in {"next", "previous"} /\ w.order # <<>> ->
            /\ \E a \in wm_focus_step(w, e[1]) : sync_focus([w EXCEPT !.focus = a])
            /\ UNCHANGED apps
      [] e[1] = "move" /\ wm_pointer(w, e[2]) # {} ->
            /\ \E a \in wm_pointer(w, e[2]) :
                  LET next == [w EXCEPT !.focus = a, !.acked = TRUE, !.pc = "focus"]
                  IN  Asks(next, <<Acknowledge, FocusRequest(next)>>)
            /\ UNCHANGED apps
      [] e[1] \in {"later", "earlier"} /\ wm_reorder(w, e[1]) # {} ->
            /\ \E order \in wm_reorder(w, e[1]) : sync_layout([w EXCEPT !.order = order])
            /\ UNCHANGED apps
      [] e[1] = "close" /\ w.focus # NoApp /\ w.focus \notin w.closing ->
            SendOrDrop([w EXCEPT !.closing = @ \cup {w.focus}], w.focus)
      [] e[1] = "key" /\ w.focus # NoApp -> SendOrDrop(w, w.focus)
      [] OTHER -> Returns(w) /\ UNCHANGED apps

Untouched == UNCHANGED <<surfaces, placements, layout_damage, managed, screen, inputs>>

\* boring_main, the top of its loop: the input put aside is taken once, then
\* boring_event_wait blocks until a connection has something: wm.taken is what
\* this turn has taken, and no input again once an event is there.
HandleDeferred ==
    /\ wm.pc = "idle" /\ wm.taken = NoInput /\ wm.deferred # NoInput
    /\ handle_input(wm.deferred, [wm EXCEPT !.deferred = NoInput, !.taken = wm.deferred,
                                            !.acked = FALSE])
    /\ Untouched /\ UNCHANGED to_wm

\* boring_event_wait has returned.
Awake == [wm EXCEPT !.taken = NoInput]

ReceiveInput ==
    /\ wm.pc = "idle" /\ to_wm # <<>>
    /\ IF Head(to_wm).type = "input"
         THEN handle_input(Head(to_wm).input, [Awake EXCEPT !.acked = FALSE])
         ELSE Asks([wm EXCEPT !.pc = "failed"], <<>>) /\ UNCHANGED apps
    /\ to_wm' = Tail(to_wm)
    /\ Untouched

----------------------------------------------------------------------------
(* main.c: applications                                                    *)

\* request, REGISTER: the application names a surface; wm_add, then BIND.
\* A refusal makes it give up.
request_register(a, token) ==
    /\ wm.pc = "idle" /\ apps[a].alive /\ apps[a].wm /\ apps[a].phase = "delegated"
    /\ IF (\E b \in Clients(wm) : wm.surface[b] = token) \/ Len(wm.order) >= ClientMax
         THEN /\ apps' = [apps EXCEPT ![a].phase = "refused"]
              /\ Asks(Awake, <<>>)
         ELSE /\ Asks([wm_add(Awake, a, token) EXCEPT !.pc = "bind", !.app = a],
                      <<[type |-> "bind", surface |-> token, window |-> a, owner |-> a]>>)
              /\ apps' = [apps EXCEPT ![a].phase = "registering"]
    /\ Untouched /\ UNCHANGED to_wm

\* request, UNREGISTER.
request_unregister(a) ==
    /\ wm.pc = "idle" /\ apps[a].alive /\ apps[a].wm /\ apps[a].phase = "managed"
    /\ Asks([Awake EXCEPT !.pc = "unregister", !.app = a], <<Unbind(wm, a)>>)
    /\ apps' = [apps EXCEPT ![a].phase = "registering"]
    /\ Untouched /\ UNCHANGED to_wm

\* A connection hangs up.
HangUp(a) ==
    /\ wm.pc = "idle" /\ ~apps[a].alive /\ apps[a].wm
    /\ Dropped(Awake, a)
    /\ Untouched /\ UNCHANGED to_wm

----------------------------------------------------------------------------
(* main.c: display_rpc returns                                             *)

Waiting == wm.pc \in {"hello", "bind", "place", "unbind", "unregister", "present", "focus"}

\* BIND is answered: a refusal takes the window back.
Bound(ok) ==
    LET a == wm.app
        kept == [wm EXCEPT !.old_focus = NoApp, !.app = NoApp]
        removed == [wm_remove(kept, a) EXCEPT
                       !.focus = IF wm.old_focus \in Clients(wm) THEN wm.old_focus ELSE NoApp]
    IN  IF ~apps[a].alive
          THEN Dropped(IF ok THEN kept ELSE removed, a)
          ELSE /\ apps' = [apps EXCEPT ![a].phase = IF ok THEN "managed" ELSE "refused"]
               /\ IF ok THEN sync_layout(kept) ELSE Returns(removed)

\* UNBIND of UNREGISTER is answered.
Unregistered ==
    LET next == wm_remove([wm EXCEPT !.app = NoApp], wm.app)
    IN  \E sent \in BOOLEAN :
          /\ MaySend(wm.app, sent)
          /\ apps' = [apps EXCEPT ![wm.app] =
                         IF sent THEN [@ EXCEPT !.phase = "unregistered"] ELSE [@ EXCEPT !.wm = FALSE]]
          /\ sync_layout(next)

\* PLACE is answered: CONFIGURE, and the next window; or all over again.
Placed(ok) ==
    LET a == wm.order[wm.index]
    IN  \E sent \in BOOLEAN :
          /\ MaySend(a, sent) /\ (~ok => ~sent)
          /\ IF sent THEN LayoutFrom([wm EXCEPT !.index = @ + 1]) /\ UNCHANGED apps
             ELSE Dropped(wm, a)

Replied(ok) ==
    CASE wm.pc = "hello" -> /\ IF ok THEN sync_layout(wm) ELSE Asks([wm EXCEPT !.pc = "failed"], <<>>)
                            /\ UNCHANGED apps
      [] wm.pc = "bind" -> Bound(ok)
      [] wm.pc = "place" -> Placed(ok)
      [] wm.pc = "unbind" -> /\ sync_layout(wm_remove([wm EXCEPT !.app = NoApp], wm.app))
                             /\ apps' = [apps EXCEPT ![wm.app].wm = FALSE]
      [] wm.pc = "unregister" -> Unregistered
      [] wm.pc = "present" -> /\ IF ok THEN Returns([wm EXCEPT !.index = 1])
                                 ELSE Asks([wm EXCEPT !.pc = "failed"], <<>>)
                              /\ UNCHANGED apps
      [] OTHER -> /\ IF ok THEN Returns(wm) ELSE sync_layout(wm)
                  /\ UNCHANGED apps

display_rpc ==
    /\ Waiting /\ to_wm # <<>>
    /\ LET m == Head(to_wm)
       IN  IF m.type = "reply" THEN Replied(m.ok)
           ELSE /\ wm' = IF wm.deferred = NoInput THEN [wm EXCEPT !.deferred = m.input]
                         ELSE [wm EXCEPT !.pc = "failed"]
                /\ UNCHANGED <<to_display, apps>>
    /\ to_wm' = Tail(to_wm)
    /\ Untouched

\* boring_main: it introduces itself.
Hello ==
    /\ wm.pc = "start"
    /\ Asks([wm EXCEPT !.pc = "hello"], <<[type |-> "manager"]>>)
    /\ Untouched /\ UNCHANGED <<to_wm, apps>>

WmStep ==
    \/ Hello \/ HandleDeferred \/ ReceiveInput \/ display_rpc
    \/ \E a \in App : \/ request_unregister(a) \/ HangUp(a)
                      \/ \E i \in SurfaceSlot : /\ surfaces[i].owner # NoApp
                                                /\ request_register(a, Token(i))

----------------------------------------------------------------------------
(* server.c                                                                *)

WmAlive == wm.pc \notin {"dead", "failed"}

\* receive and control: the next message of the window manager.
ServeManager ==
    /\ to_display # <<>> /\ WmAlive
    /\ LET r == Head(to_display)
       IN  IF r.type = "ack" /\ managed.input_pending
             THEN /\ managed' = [managed EXCEPT !.input_pending = FALSE]
                  /\ UNCHANGED <<surfaces, placements, layout_damage, screen, apps, to_wm>>
             ELSE /\ control(r)
                  /\ to_wm' = Append(to_wm, [type |-> "reply", ok |-> Possible(r)])
    /\ to_display' = Tail(to_display)
    /\ UNCHANGED <<wm, inputs>>

\* input: an event, read only when the last one was acknowledged.
ServeInput(e) ==
    /\ inputs < InputMax /\ ~managed.input_pending
    /\ inputs' = inputs + 1
    /\ screen' = IF e[1] = "move" THEN CursorMoved(e[2]) ELSE screen
    /\ IF managed.manager
         THEN /\ managed' = [managed EXCEPT !.input_pending = TRUE]
              /\ to_wm' = IF WmAlive THEN Append(to_wm, [type |-> "input", input |-> e]) ELSE to_wm
         ELSE UNCHANGED <<managed, to_wm>>
    /\ UNCHANGED <<surfaces, placements, layout_damage, apps, wm, to_display>>

\* Nothing else is ready, and a changed focus is to be shown.
ServeFocus ==
    /\ managed.focus_present_pending /\ ~managed.input_pending /\ to_display = <<>>
    /\ FocusFrame
    /\ UNCHANGED <<wm, to_display, to_wm, inputs>>

ServeManagerGone ==
    /\ ~WmAlive /\ managed.manager
    /\ ManagerGone
    /\ UNCHANGED <<wm, inputs, to_display, to_wm>>

\* Faults: a process ends.
WmDies ==
    /\ WmAlive
    /\ wm' = [WmStart EXCEPT !.pc = "dead"] /\ to_display' = <<>> /\ to_wm' = <<>>
    /\ UNCHANGED <<displayVars, inputs>>
AppDies(a) == apps[a].alive /\ apps' = [apps EXCEPT ![a] = Ended(a)]
              /\ UNCHANGED <<surfaces, placements, layout_damage, managed, screen,
                             wm, to_display, to_wm, inputs>>

AppStep(a) ==
    /\ \/ boring_display_surface_add(a) \/ display_delegate(a)
       \/ boring_display_surface_commit(a) \/ \E row \in DamageRow : present_damage(a, row)
       \/ boring_display_surface_destroy(a) \/ forget_peer(a)
    /\ UNCHANGED <<wm, to_display, to_wm, inputs>>

DesktopNext ==
    \/ WmStep \/ ServeManager \/ ServeFocus \/ ServeManagerGone \/ WmDies
    \/ \E e \in Inputs : ServeInput(e)
    \/ \E a \in App : AppStep(a) \/ AppDies(a)

DesktopSpec == DesktopInit /\ [][DesktopNext]_desktopVars

----------------------------------------------------------------------------
(* Properties                                                              *)

DesktopTypeOK ==
    /\ surfaces \in [SurfaceSlot -> [owner : App \cup {NoApp}, generation : Nat]]
    /\ Range(wm.order) \subseteq App /\ wm.focus \in App \cup {NoApp}
    /\ screen.cursor \in Row /\ inputs \in 0..InputMax

\* The server and the window manager agree on the windows, whatever dies while a
\* layout is under way: a placement belongs to the surface that is in its slot now,
\* a bound one to the application that owns it (display_managed_forget, BIND); when
\* the window manager has nothing under way, the windows it knows whose surface
\* still exists are exactly the bound ones, and one of them has the focus
\* (wm_remove, drop).  It never gives up for the lack of room for an input
\* (display_rpc, "WM input queue bound").
DesktopAgrees ==
    /\ \A i \in SurfaceSlot : placements[i] # NoPlacement =>
          LET p == placements[i]
          IN  /\ p.surface = Token(i) /\ p.owner # NoApp /\ p.owner = surfaces[i].owner
              /\ p.window \in {NoApp, p.owner}
              /\ p.visible => p.window # NoApp
    /\ wm.pc = "idle" => 
          /\ \A a \in Clients(wm) :
                Live(wm.surface[a]) => placements[wm.surface[a][1]].window = a
          /\ \A i \in SurfaceSlot : placements[i].window # NoApp =>
                placements[i].window \in Clients(wm) /\ wm.surface[placements[i].window] = Token(i)
    /\ wm.pc = "idle" => IF wm.order = <<>> THEN wm.focus = NoApp ELSE wm.focus \in Clients(wm)
    /\ wm.pc # "failed"

\* Every row of a window shows what composition from nothing would give, the
\* pointer over it, once no change of the layout or the focus waits to be shown:
\* the regions that PRESENT, COMMIT_DAMAGE, a focus frame and a move of the pointer
\* repaint are enough, in every order and with full repaints in between
\* (present_layout, present_damage, present_focus_borders, present_cursor_move).
WindowsShown ==
    (/\ \A i \in SurfaceSlot : ~layout_damage.changes[i].changed
     /\ ~managed.focus_present_pending)
    => LET scene == Scene(surfaces, placements, managed.wallpaper)
       IN  \A r \in Row : Covering(surfaces, placements, r) # {} =>
              screen.fb[r] = IF r = screen.cursor THEN <<"cursor">> ELSE scene[r]

\* Where the input that was passed on is: on its way, put aside, in hand, or
\* acknowledged and the acknowledgement on its way.
InputPlaces ==
    {<<"sent", i>> : i \in {k \in DOMAIN to_wm : to_wm[k].type = "input"}}
    \cup (IF wm.deferred # NoInput THEN {<<"deferred">>} ELSE {})
    \cup (IF ~wm.acked THEN {<<"in hand">>} ELSE {})
    \cup {<<"acknowledged", i>> : i \in {k \in DOMAIN to_display : to_display[k].type = "ack"}}

\* The input that the server waits for is in exactly one place, and there is none
\* when it waits for nothing: an acknowledgement is neither lost nor sent twice,
\* although the one of a pointer's focus goes out before the work and every other
\* after it, and drops restart the layout in between (input_pending,
\* acknowledge_input, display_rpc).  And the window manager does not block with an
\* input in its hands (boring_main takes the one put aside once, before
\* boring_event_wait), unless the one it took there was a move of the pointer:
\* that is acknowledged early, so the server may pass on the next while sync_focus
\* still waits for its answer.  Then no input is read until an application speaks.
InputAccounted ==
    WmAlive =>
      /\ Cardinality(InputPlaces) = IF managed.input_pending THEN 1 ELSE 0
      /\ wm.pc = "idle" /\ wm.taken # NoInput =>
            wm.acked /\ (wm.deferred # NoInput => wm.taken[1] = "move")
=============================================================================
