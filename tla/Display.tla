------------------------------ MODULE Display ------------------------------
(***************************************************************************)
(* The display server (user/boring-display/core.c, managed.c, server.c):      *)
(* surfaces of applications, their placement by a window manager, and what     *)
(* the screen shows.  The server handles one request at a time and never       *)
(* waits for anybody, so a request of an application, which waits for its      *)
(* answer, is one action.  Rows stand for the pixels of the screen.            *)
(***************************************************************************)
EXTENDS Naturals, Sequences, FiniteSets, FiniteSetsExt

CONSTANTS
    App,                \* applications, each with a connection
    NoApp,
    SurfaceMax,         \* BORING_DISPLAY_SURFACE_MAX
    Rows                \* number of rows of the screen

ASSUME DisplayAssumption == NoApp \notin App /\ SurfaceMax \in Nat /\ Rows \in Nat \ {0}

VARIABLES
    surfaces,           \* core.surfaces: who owns a slot, and its generation
    placements,         \* managed.placements, by slot
    layout_damage,      \* per slot: whether its placement changed, and the rows it had
    managed,            \* the rest of managed and of the server's flags
    screen,             \* pixels, what the framebuffer shows, cursor and underlay
    apps                \* what an application has done so far, and its surface

displayVars == <<surfaces, placements, layout_damage, managed, screen, apps>>

SurfaceSlot == 1..SurfaceMax
Row == 0..(Rows - 1)
NoToken == <<0, 0>>
Token(i) == <<i, surfaces[i].generation>>
Live(token) == \E i \in SurfaceSlot : surfaces[i].owner # NoApp /\ Token(i) = token

NoPlacement == [surface |-> NoToken, window |-> NoApp, owner |-> NoApp, delegated |-> FALSE,
                visible |-> FALSE, y |-> 0, height |-> 0, border |-> 0, color |-> "none",
                order |-> 0]
NoDamage == [changes |-> [i \in SurfaceSlot |-> [changed |-> FALSE, old |-> {}]], full |-> FALSE]

DisplayInit ==
    /\ surfaces = [i \in SurfaceSlot |-> [owner |-> NoApp, generation |-> 1]]
    /\ placements = [i \in SurfaceSlot |-> NoPlacement]
    /\ layout_damage = NoDamage
    /\ managed = [manager |-> FALSE, seen |-> FALSE, wallpaper |-> FALSE,
                  input_pending |-> FALSE, focus_present_pending |-> FALSE]
    /\ LET plain == [r \in Row |-> <<"background", FALSE>>]
           shown == [plain EXCEPT ![0] = <<"cursor">>]
       IN  screen = [pixels |-> shown, fb |-> shown, cursor |-> 0, under |-> plain[0]]
    /\ apps = [a \in App |-> [phase |-> "new", surface |-> NoToken, display |-> TRUE,
                              wm |-> TRUE, alive |-> TRUE]]

----------------------------------------------------------------------------
(* Composition                                                             *)

PlacedRows(p) == p.y..(p.y + p.height - 1)

\* The placements that display_managed_compose_scene_region draws at a row; the
\* one with the highest order, or then the highest slot, is drawn last.
Covering(ss, ps, r) ==
    {i \in SurfaceSlot : /\ ps[i].visible /\ ss[i].owner # NoApp
                         /\ ps[i].surface = <<i, ss[i].generation>>
                         /\ r \in PlacedRows(ps[i])}

Topmost(S, ps) ==
    CHOOSE i \in S : \A j \in S : ps[j].order < ps[i].order \/ (ps[j].order = ps[i].order /\ j <= i)

Drawn(p, r) ==
    IF r - p.y >= p.border /\ r - p.y < p.height - p.border
      THEN <<"content", p.surface>> ELSE <<"border", p.color>>

Scene(ss, ps, wallpaper) ==
    [r \in Row |-> LET S == Covering(ss, ps, r)
                   IN  IF S = {} THEN <<"background", wallpaper>>
                       ELSE LET p == ps[Topmost(S, ps)] IN Drawn(p, r)]

\* The underlay goes back, the given rows are composed, the cursor is drawn
\* again, and those rows are copied to the framebuffer: the way of
\* present_layout, present_damage and present_focus_borders.
ComposedIn(rows, scene) ==
    LET clean == [screen.pixels EXCEPT ![screen.cursor] = screen.under]
        drawn == [r \in Row |-> IF r \in rows THEN scene[r] ELSE clean[r]]
        pixels == [drawn EXCEPT ![screen.cursor] = <<"cursor">>]
    IN  [screen EXCEPT !.pixels = pixels, !.under = drawn[screen.cursor],
                       !.fb = [r \in Row |-> IF r \in rows THEN pixels[r] ELSE @[r]]]

\* present: the whole scene.
present == screen' = ComposedIn(Row, Scene(surfaces', placements', managed'.wallpaper))

\* present_cursor_move.
CursorMoved(r) ==
    LET clean == [screen.pixels EXCEPT ![screen.cursor] = screen.under]
        pixels == [clean EXCEPT ![r] = <<"cursor">>]
    IN  [screen EXCEPT !.pixels = pixels, !.under = clean[r], !.cursor = r,
                       !.fb = [@ EXCEPT ![screen.cursor] = pixels[screen.cursor], ![r] = pixels[r]]]

----------------------------------------------------------------------------
(* Requests of applications                                                *)

MayAsk(a, phase) == apps[a].alive /\ apps[a].display /\ apps[a].phase = phase

\* A process that has ended keeps its connections until their ends hang up.
Ended(a) == [apps[a] EXCEPT !.phase = "ended", !.surface = NoToken, !.alive = FALSE]

Owned(a) == {i \in SurfaceSlot : surfaces[i].owner = a}
FreeSurfaces == {i \in SurfaceSlot : surfaces[i].owner = NoApp}

\* CREATE: the first free slot; without one the application gives up.
boring_display_surface_add(a) ==
    /\ MayAsk(a, "new")
    /\ IF FreeSurfaces = {}
         THEN apps' = [apps EXCEPT ![a] = Ended(a)] /\ UNCHANGED surfaces
         ELSE LET i == Min(FreeSurfaces)
              IN  /\ surfaces' = [surfaces EXCEPT ![i].owner = a]
                  /\ apps' = [apps EXCEPT ![a].phase = "created", ![a].surface = Token(i)]
    /\ UNCHANGED <<placements, layout_damage, managed, screen>>

\* DELEGATE: its surface may be placed by the window manager.
display_delegate(a) ==
    LET i == apps[a].surface[1]
    IN  /\ MayAsk(a, "created")
        /\ placements' = [placements EXCEPT ![i] = [NoPlacement EXCEPT
                              !.surface = apps[a].surface, !.owner = a, !.delegated = TRUE]]
        /\ apps' = [apps EXCEPT ![a].phase = "delegated"]
        /\ UNCHANGED <<surfaces, layout_damage, managed, screen>>

\* COMMIT, and COMMIT_DAMAGE with a row of the surface, which may be hidden.
boring_display_surface_commit(a) ==
    /\ apps[a].alive /\ apps[a].display /\ Live(apps[a].surface)
    /\ UNCHANGED <<surfaces, placements, layout_damage, managed, apps>>
    /\ present

present_damage(a, row) ==
    LET p == placements[apps[a].surface[1]]
        shown == IF p.visible /\ row < p.height - 2 * p.border THEN {p.y + p.border + row} ELSE {}
    IN  /\ apps[a].alive /\ apps[a].display /\ Live(apps[a].surface)
        /\ screen' = ComposedIn(shown, Scene(surfaces, placements, managed.wallpaper))
        /\ UNCHANGED <<surfaces, placements, layout_damage, managed, apps>>

\* Mutant: a placement outlives its surface.
ForgetsSurface(S) ==
    /\ surfaces' = [i \in SurfaceSlot |-> IF i \in S
                       THEN [owner |-> NoApp, generation |-> surfaces[i].generation + 1]
                       ELSE surfaces[i]]
    /\ UNCHANGED placements

\* The slots of a set are given up; display_managed_forget.
Forgets(S) ==
    /\ surfaces' = [i \in SurfaceSlot |-> IF i \in S
                       THEN [owner |-> NoApp, generation |-> surfaces[i].generation + 1]
                       ELSE surfaces[i]]
    /\ placements' = [i \in SurfaceSlot |-> IF i \in S THEN NoPlacement ELSE placements[i]]

\* DESTROY, after which an application leaves.
boring_display_surface_destroy(a) ==
    /\ MayAsk(a, "unregistered")
    /\ Forgets(Owned(a))
    /\ apps' = [apps EXCEPT ![a] = Ended(a)]
    /\ UNCHANGED <<layout_damage, managed>>
    /\ present

\* forget_peer of an application: its connection hangs up.
forget_peer(a) ==
    /\ ~apps[a].alive /\ apps[a].display
    /\ Forgets(Owned(a))
    /\ apps' = [apps EXCEPT ![a].display = FALSE]
    /\ UNCHANGED <<layout_damage, managed>>
    /\ present

\* forget_peer of the window manager.
ManagerGone ==
    /\ managed' = [managed EXCEPT !.manager = FALSE, !.input_pending = FALSE,
                                  !.focus_present_pending = FALSE]
    /\ layout_damage' = NoDamage
    /\ UNCHANGED <<surfaces, placements, apps>>
    /\ present

----------------------------------------------------------------------------
(* Requests of the window manager: display_managed_layout_control           *)

\* display_managed_control finds a delegated surface.
Delegated(r) == Live(r.surface) /\ placements[r.surface[1]].delegated

CaptureRows(p) == IF p.visible THEN PlacedRows(p) ELSE {}

\* layout_capture: the first change since the last presentation counts.
layout_capture(i) ==
    layout_damage' = IF layout_damage.changes[i].changed THEN layout_damage
                     ELSE [layout_damage EXCEPT !.changes[i] =
                              [changed |-> TRUE, old |-> CaptureRows(placements[i])]]

ControlBind(r) ==
    LET i == r.surface[1]
    IN  /\ Delegated(r) /\ placements[i].owner = r.owner /\ placements[i].window = NoApp
        /\ placements' = [placements EXCEPT ![i].window = r.window]
        /\ UNCHANGED <<layout_damage, managed, screen>>

ControlUnbind(r) ==
    LET i == r.surface[1]
    IN  /\ Delegated(r) /\ placements[i].window = r.window
        /\ placements' = [placements EXCEPT ![i].window = NoApp, ![i].visible = FALSE]
        /\ layout_capture(i)
        /\ UNCHANGED <<managed, screen>>

\* What PLACE asks of the place itself; a surface is as large as the screen.
PlaceFits(r) == /\ r.y + r.height <= Rows /\ 2 * r.border <= r.height
                /\ r.order < SurfaceMax

\* Mutant: a change of place is not recorded.
PlaceUncaptured(r) ==
    LET i == r.surface[1]
    IN  /\ Delegated(r) /\ placements[i].window = r.window /\ PlaceFits(r)
        /\ placements' = [placements EXCEPT ![i] = [@ EXCEPT
                             !.y = r.y, !.height = r.height, !.border = r.border,
                             !.color = r.color, !.order = r.order, !.visible = r.height # 0]]
        /\ UNCHANGED <<managed, screen, layout_damage>>

ControlPlace(r) ==
    LET i == r.surface[1]
    IN  /\ Delegated(r) /\ placements[i].window = r.window /\ PlaceFits(r)
        /\ placements' = [placements EXCEPT ![i] = [@ EXCEPT
                             !.y = r.y, !.height = r.height, !.border = r.border,
                             !.color = r.color, !.order = r.order, !.visible = r.height # 0]]
        /\ layout_capture(i)
        /\ UNCHANGED <<managed, screen>>

\* display_managed_layout_regions: the rows of the changed placements, before
\* and after.  Rows that overlap make one region.
LayoutRows ==
    IF layout_damage.full \/ ~managed.wallpaper THEN Row
    ELSE UNION {layout_damage.changes[i].old \cup CaptureRows(placements[i]) :
                   i \in {j \in SurfaceSlot : layout_damage.changes[j].changed}}

\* PRESENT: the first one also brings the wallpaper.
ControlPresent ==
    /\ managed' = [managed EXCEPT !.wallpaper = TRUE, !.focus_present_pending = FALSE]
    /\ screen' = ComposedIn(LayoutRows, Scene(surfaces, placements, TRUE))
    /\ layout_damage' = NoDamage
    /\ UNCHANGED placements

\* PRESENT_FOCUS: the colours now, the frame when the server has nothing to do.
ControlFocus(r) ==
    /\ \E i \in SurfaceSlot : placements[i].visible /\ placements[i].window = r.window
    /\ placements' = [i \in SurfaceSlot |->
                        IF ~placements[i].visible THEN placements[i]
                        ELSE [placements[i] EXCEPT !.color =
                                IF placements[i].window = r.window THEN "focused" ELSE "unfocused"]]
    /\ managed' = [managed EXCEPT !.focus_present_pending = TRUE]
    /\ UNCHANGED <<layout_damage, screen>>

\* MANAGER: the process behind the service boring.wm, once.
ControlManager ==
    /\ ~managed.manager /\ ~managed.seen
    /\ managed' = [managed EXCEPT !.manager = TRUE, !.seen = TRUE]
    /\ UNCHANGED <<placements, layout_damage, screen>>

Allowed(r) ==
    CASE r.type = "manager" -> ControlManager
      [] r.type = "bind" -> ControlBind(r)
      [] r.type = "unbind" -> ControlUnbind(r)
      [] r.type = "place" -> ControlPlace(r)
      [] r.type = "present" -> ControlPresent
      [] OTHER -> ControlFocus(r)

Possible(r) ==
    CASE r.type = "manager" -> ~managed.manager /\ ~managed.seen
      [] r.type = "bind" -> /\ Delegated(r) /\ placements[r.surface[1]].owner = r.owner
                            /\ placements[r.surface[1]].window = NoApp
      [] r.type \in {"unbind", "place"} -> /\ Delegated(r)
                                           /\ placements[r.surface[1]].window = r.window
                                           /\ r.type = "place" => PlaceFits(r)
      [] r.type = "present" -> TRUE
      [] OTHER -> \E i \in SurfaceSlot : placements[i].visible /\ placements[i].window = r.window

\* control: what a request changes; a refused one changes nothing.
control(r) ==
    /\ IF Possible(r) THEN Allowed(r)
       ELSE UNCHANGED <<placements, layout_damage, managed, screen>>
    /\ UNCHANGED <<surfaces, apps>>

----------------------------------------------------------------------------
(* The focus frame                                                         *)

Overlapping ==
    \E i, j \in SurfaceSlot : /\ i # j /\ placements[i].visible /\ placements[j].visible
                              /\ PlacedRows(placements[i]) \cap PlacedRows(placements[j]) # {}

BorderRows ==
    UNION {{r \in PlacedRows(placements[i]) : Drawn(placements[i], r)[1] = "border"} :
              i \in {j \in SurfaceSlot : placements[j].visible}}

\* present_focus_borders: the borders, or everything if windows overlap.
FocusFrame ==
    /\ screen' = ComposedIn(IF Overlapping THEN Row ELSE BorderRows,
                            Scene(surfaces, placements, managed.wallpaper))
    /\ managed' = [managed EXCEPT !.focus_present_pending = FALSE]
    /\ UNCHANGED <<surfaces, placements, layout_damage, apps>>
=============================================================================
