----------------------------- MODULE IpcProofs -----------------------------
(***************************************************************************)
(* Every side of a connection has exactly one holder, every reference to a *)
(* shared buffer is counted, and no blocked call misses its wake-up: for   *)
(* any number of processes, services, connections, handles and messages.   *)
(***************************************************************************)
EXTENDS Ipc, Induction, FiniteSetTheorems

----------------------------------------------------------------------------
(* The inductive invariant                                                 *)

EndOf(c, side) == [type |-> "endpoint", object |-> c, side |-> side]
ListenerOf(s) == [type |-> "listener", object |-> s]

Entries == [type : {"endpoint"}, object : Connection, side : Side]
           \cup [type : {"listener"}, object : Service]
           \cup {NoHandle}
Services == [active : {TRUE}, owner : Process, name : Name, pending : Seq(Connection)]
Conns == [active : {TRUE}, owner : [Side -> Process], open : [Side -> BOOLEAN],
          queue : [Side -> Seq(Message)], accepted : BOOLEAN]
Calls == [op : {"accept", "receive"}, handle : Slot]

\* The tables: V the services, C the connections, H the handles.
Tables(V, C, H) ==
    /\ V \in [Service -> Services \cup {NoService}]
    /\ C \in [Connection -> Conns \cup {NoConnection}]
    /\ H \in [Process -> [Slot -> Entries]]

\* A side that a handle has to name, and one that waits for its accept.
Attached(C, c, side) ==
    C[c] # NoConnection /\ C[c].open[side] /\ (side = "server" => C[c].accepted)
Waiting(C, c) == C[c] # NoConnection /\ C[c].open["server"] /\ ~C[c].accepted

\* A place of the pending queue of a service.
At(V, s, i, c) == V[s] # NoService /\ i \in 1..Len(V[s].pending) /\ V[s].pending[i] = c

\* A connection has an open side, and nothing is queued for a closed one.
QueuesOK(C) ==
    \A c \in Connection : C[c] # NoConnection =>
        /\ \E side \in Side : C[c].open[side]
        /\ \A side \in Side : ~C[c].open[side] => C[c].queue[side] = <<>>
        /\ \A side \in Side : Len(C[c].queue[side]) <= QueueMax

\* One handle for each attached side, in the table of its owner.
EndsOK(C, H) ==
    /\ \A p \in Process, h \in Slot, c \in Connection, side \in Side :
         H[p][h] = EndOf(c, side) => Attached(C, c, side) /\ C[c].owner[side] = p
    /\ \A c \in Connection, side \in Side :
         Attached(C, c, side) => \E h \in Slot : H[C[c].owner[side]][h] = EndOf(c, side)

\* One place for each connection that waits, in a queue of the right service.
PendingOK(V, C) ==
    /\ \A s \in Service : V[s] # NoService => Len(V[s].pending) <= PendingMax
    /\ \A s \in Service, i \in Nat, c \in Connection :
         At(V, s, i, c) => Waiting(C, c) /\ C[c].owner["server"] = V[s].owner
    /\ \A s, r \in Service, i, j \in Nat, c \in Connection :
         At(V, s, i, c) /\ At(V, r, j, c) => s = r /\ i = j
    /\ \A c \in Connection :
         Waiting(C, c) => \E s \in Service, i \in Nat : At(V, s, i, c)

\* One listener for each service, in the table of its owner.
ListenersOK(V, H) ==
    /\ \A p \in Process, h \in Slot, s \in Service :
         H[p][h] = ListenerOf(s) => V[s] # NoService /\ V[s].owner = p
    /\ \A s \in Service :
         V[s] # NoService => \E h \in Slot : H[V[s].owner][h] = ListenerOf(s)
    /\ \A s, r \in Service :
         V[s] # NoService /\ V[r] # NoService /\ V[s].name = V[r].name => s = r

\* No object has two handles in a table; only the processes of L have handles.
HandlesOK(H, L) ==
    /\ \A p \in Process, h, g \in Slot : H[p][h] = H[p][g] /\ H[p][h] # NoHandle => h = g
    /\ \A p \in Process, h \in Slot : H[p][h] # NoHandle => p \in L

Good(V, C, H, L) ==
    /\ Tables(V, C, H)
    /\ QueuesOK(C)
    /\ EndsOK(C, H)
    /\ PendingOK(V, C)
    /\ ListenersOK(V, H)
    /\ HandlesOK(H, L)

\* The messages that carry an object, and the counts R that include them.
Carried(C, o) ==
    {x \in Connection \X Side \X (1..QueueMax) :
        /\ C[x[1]] # NoConnection
        /\ x[3] \in DOMAIN C[x[1]].queue[x[2]]
        /\ C[x[1]].queue[x[2]][x[3]].buffer = o}
Counted(R, C) == \A o \in Object : R[o] = Held(o) + Cardinality(Carried(C, o))

\* What the blocked call of p waits for has not happened.
StillFalse(p, V, C) ==
    LET e == handle[p][call[p].handle]
    IN  IF call[p].op = "accept" THEN V[e.object].pending = <<>>
        ELSE C[e.object].queue[e.side] = <<>> /\ C[e.object].open[Peer(e.side)]
Asleep(V, C, woken) == \A p \in blocked \ woken : StillFalse(p, V, C)

\* The call a process is inside names a handle of its kind.
CallsOK ==
    /\ call \in [Process -> Calls \cup {InUser}]
    /\ blocked \subseteq alive
    /\ \A p \in blocked : call[p] # InUser
    /\ \A p \in Process : call[p] # InUser =>
          handle[p][call[p].handle].type =
              IF call[p].op = "accept" THEN "listener" ELSE "endpoint"

IpcInv ==
    /\ BufferTypeOK
    /\ sent \in [Connection -> [Side -> 0..MessageMax]]
    /\ Good(service, conn, handle, alive)
    /\ Counted(refs, conn)
    /\ CallsOK
    /\ Asleep(service, conn, {})
----------------------------------------------------------------------------
(* Records                                                                 *)

\* The two sides are each other's peer.
LEMMA Sides ==
    /\ Peer("client") = "server" /\ Peer("server") = "client"
    /\ \A side \in Side : Peer(side) \in Side /\ Peer(side) # side /\ Peer(Peer(side)) = side
    /\ \A side, other \in Side : other = side \/ other = Peer(side)
<1>1. Peer("client") = "server" BY DEF Peer, Side
<1>2. Peer("server") = "client" BY DEF Peer, Side
<1> QED BY <1>1, <1>2 DEF Side

\* A handle entry is what its type says, and tells what it names.
LEMMA EntryFacts ==
    /\ \A e \in Entries :
         /\ e.type \in {"endpoint", "listener", "none"}
         /\ e.type = "endpoint" => /\ e.object \in Connection /\ e.side \in Side
                                   /\ e = EndOf(e.object, e.side)
         /\ e.type = "listener" => e.object \in Service /\ e = ListenerOf(e.object)
         /\ e.type = "none" <=> e = NoHandle
    /\ \A c, side : /\ EndOf(c, side).type = "endpoint" /\ EndOf(c, side).object = c
                    /\ EndOf(c, side).side = side /\ EndOf(c, side) # NoHandle
    /\ \A s : /\ ListenerOf(s).type = "listener" /\ ListenerOf(s).object = s
              /\ ListenerOf(s) # NoHandle
    /\ NoHandle.type = "none"
    /\ \A c \in Connection, side \in Side : EndOf(c, side) \in Entries
    /\ \A s \in Service : ListenerOf(s) \in Entries
    /\ NoHandle \in Entries
<1>1. \A e \in Entries :
         /\ e.type \in {"endpoint", "listener", "none"}
         /\ e.type = "endpoint" => /\ e.object \in Connection /\ e.side \in Side
                                   /\ e = EndOf(e.object, e.side)
         /\ e.type = "listener" => e.object \in Service /\ e = ListenerOf(e.object)
         /\ e.type = "none" <=> e = NoHandle
  BY DEF EndOf, ListenerOf, NoHandle, Entries
<1>2. \A c, side : /\ EndOf(c, side).type = "endpoint" /\ EndOf(c, side).object = c
                   /\ EndOf(c, side).side = side /\ EndOf(c, side) # NoHandle
  BY DEF EndOf, NoHandle
<1>3. \A s : /\ ListenerOf(s).type = "listener" /\ ListenerOf(s).object = s
             /\ ListenerOf(s) # NoHandle
  BY DEF ListenerOf, NoHandle
<1>4. NoHandle.type = "none" BY DEF NoHandle
<1>5. /\ \A c \in Connection, side \in Side : EndOf(c, side) \in Entries
      /\ \A s \in Service : ListenerOf(s) \in Entries
      /\ NoHandle \in Entries
  BY DEF EndOf, ListenerOf, Entries
<1> QED BY <1>1, <1>2, <1>3, <1>4, <1>5

\* The fields of a connection in use.
LEMMA ConnFacts ==
    ASSUME NEW k \in Conns
    PROVE  /\ k # NoConnection
           /\ k.owner \in [Side -> Process] /\ k.open \in [Side -> BOOLEAN]
           /\ k.queue \in [Side -> Seq(Message)] /\ k.accepted \in BOOLEAN
<1>1. k.active = TRUE BY DEF Conns
<1>2. NoConnection.active = FALSE BY DEF NoConnection
<1>3. k # NoConnection BY <1>1, <1>2
<1> QED BY <1>3 DEF Conns

\* The fields of a registered service.
LEMMA ServiceFacts ==
    ASSUME NEW v \in Services
    PROVE  /\ v # NoService /\ v.owner \in Process /\ v.name \in Name
           /\ v.pending \in Seq(Connection)
<1>1. v.active = TRUE BY DEF Services
<1>2. NoService.active = FALSE BY DEF NoService
<1>3. v # NoService BY <1>1, <1>2
<1> QED BY <1>3 DEF Services

\* The entries of well-typed tables.
LEMMA TableFacts ==
    ASSUME NEW V, NEW C, NEW H, Tables(V, C, H)
    PROVE  /\ \A c \in Connection : C[c] # NoConnection <=> C[c] \in Conns
           /\ \A s \in Service : V[s] # NoService <=> V[s] \in Services
           /\ \A p \in Process, h \in Slot : H[p][h] \in Entries
<1>1. \A c \in Connection : C[c] # NoConnection <=> C[c] \in Conns
  BY ConnFacts DEF Tables
<1>2. \A s \in Service : V[s] # NoService <=> V[s] \in Services
  BY ServiceFacts DEF Tables
<1> QED BY <1>1, <1>2 DEF Tables

----------------------------------------------------------------------------
(* What the invariant says                                                 *)

\* A set whose elements are all the same.
LEMMA OneElement ==
    ASSUME NEW S, NEW x \in S, \A y \in S : y = x
    PROVE  Cardinality(S) = 1
<1>1. S = {x} OBVIOUS
<1> QED BY <1>1, FS_Singleton

\* The invariant gives: an open side has exactly one holder, its owner.
LEMMA InvSides == IpcInv => SidesOwned
<1> SUFFICES ASSUME IpcInv, NEW c \in Connection
             PROVE  /\ conn[c] # NoConnection => \E side \in Side : conn[c].open[side]
                    /\ conn[c] = NoConnection =>
                         /\ \A side \in Side : HandlesOf(c, side) = {}
                         /\ PendingAt(c) = {}
                    /\ conn[c] # NoConnection =>
                         /\ \A side \in Side :
                              /\ \A x \in HandlesOf(c, side) : x[1] = conn[c].owner[side]
                              /\ Cardinality(HandlesOf(c, side)) =
                                   IF conn[c].open[side] /\ (side = "server" => conn[c].accepted)
                                   THEN 1 ELSE 0
                         /\ Cardinality(PendingAt(c)) =
                              IF conn[c].open["server"] /\ ~conn[c].accepted THEN 1 ELSE 0
                         /\ \A x \in PendingAt(c) : service[x[1]].owner = conn[c].owner["server"]
  BY DEF SidesOwned
<1>1. /\ Tables(service, conn, handle) /\ QueuesOK(conn) /\ EndsOK(conn, handle)
      /\ PendingOK(service, conn) /\ HandlesOK(handle, alive)
  BY DEF IpcInv, Good
<1>2. \A side \in Side : \A x \in HandlesOf(c, side) :
         /\ x \in Process \X Slot /\ handle[x[1]][x[2]] = EndOf(c, side)
         /\ Attached(conn, c, side) /\ conn[c].owner[side] = x[1]
  BY <1>1 DEF HandlesOf, EndsOK, EndOf
<1>3. \A x \in PendingAt(c) :
         /\ x \in Service \X (1..PendingMax) /\ At(service, x[1], x[2], c)
         /\ Waiting(conn, c) /\ conn[c].owner["server"] = service[x[1]].owner
  <2> SUFFICES ASSUME NEW x \in PendingAt(c)
               PROVE  /\ x \in Service \X (1..PendingMax) /\ At(service, x[1], x[2], c)
                      /\ Waiting(conn, c) /\ conn[c].owner["server"] = service[x[1]].owner
    OBVIOUS
  <2>1. /\ x \in Service \X (1..PendingMax) /\ service[x[1]] # NoService
        /\ x[2] \in DOMAIN service[x[1]].pending /\ service[x[1]].pending[x[2]] = c
    BY DEF PendingAt
  <2>2. service[x[1]].pending \in Seq(Connection)
    BY <1>1, <2>1, TableFacts, ServiceFacts
  <2>3. At(service, x[1], x[2], c) /\ x[2] \in Nat /\ x[1] \in Service BY <2>1, <2>2 DEF At
  <2> QED BY <1>1, <2>1, <2>3 DEF PendingOK
<1>4. conn[c] = NoConnection =>
         (\A side \in Side : HandlesOf(c, side) = {}) /\ PendingAt(c) = {}
  BY <1>2, <1>3 DEF Attached, Waiting
<1>5. ASSUME conn[c] # NoConnection, NEW side \in Side
      PROVE  Cardinality(HandlesOf(c, side)) =
                IF conn[c].open[side] /\ (side = "server" => conn[c].accepted) THEN 1 ELSE 0
  <2>1. CASE Attached(conn, c, side)
    <3>1. conn[c].owner[side] \in Process
      BY <1>1, <1>5, TableFacts, ConnFacts
    <3>2. PICK h \in Slot : handle[conn[c].owner[side]][h] = EndOf(c, side)
      BY <1>1, <2>1 DEF EndsOK
    <3>3. <<conn[c].owner[side], h>> \in HandlesOf(c, side)
      BY <3>1, <3>2 DEF HandlesOf, EndOf
    <3>4. \A x \in HandlesOf(c, side) : x = <<conn[c].owner[side], h>>
      <4> SUFFICES ASSUME NEW x \in HandlesOf(c, side)
                   PROVE  x = <<conn[c].owner[side], h>>
        OBVIOUS
      <4>1. /\ x \in Process \X Slot /\ handle[x[1]][x[2]] = EndOf(c, side)
            /\ conn[c].owner[side] = x[1]
        BY <1>2
      <4>2. x[2] = h BY <1>1, <3>2, <4>1, EntryFacts DEF HandlesOK
      <4> QED BY <4>1, <4>2
    <3>5. Cardinality(HandlesOf(c, side)) = 1 BY <3>3, <3>4, OneElement
    <3> QED BY <2>1, <3>5 DEF Attached
  <2>2. CASE ~Attached(conn, c, side)
    <3>1. HandlesOf(c, side) = {} BY <1>2, <2>2
    <3> QED BY <1>5, <2>2, <3>1, FS_EmptySet DEF Attached
  <2> QED BY <2>1, <2>2
<1>6. ASSUME conn[c] # NoConnection
      PROVE  Cardinality(PendingAt(c)) =
                IF conn[c].open["server"] /\ ~conn[c].accepted THEN 1 ELSE 0
  <2>1. CASE Waiting(conn, c)
    <3>1. PICK s \in Service, i \in Nat : At(service, s, i, c) BY <1>1, <2>1 DEF PendingOK
    <3>2. <<s, i>> \in PendingAt(c)
      <4>1. service[s] # NoService /\ i \in 1..Len(service[s].pending)
            /\ service[s].pending[i] = c
        BY <3>1 DEF At
      <4>2. service[s].pending \in Seq(Connection) /\ Len(service[s].pending) <= PendingMax
        BY <1>1, <4>1, TableFacts, ServiceFacts DEF PendingOK
      <4>3. i \in DOMAIN service[s].pending /\ i \in 1..PendingMax
        BY <4>1, <4>2, IpcAssumption
      <4> QED BY <4>1, <4>3 DEF PendingAt
    <3>3. \A x \in PendingAt(c) : x = <<s, i>>
      <4> SUFFICES ASSUME NEW x \in PendingAt(c) PROVE x = <<s, i>> OBVIOUS
      <4>1. x \in Service \X (1..PendingMax) /\ At(service, x[1], x[2], c) BY <1>3
      <4>2. x[1] \in Service /\ x[2] \in Nat /\ x = <<x[1], x[2]>> BY <4>1
      <4>3. x[1] = s /\ x[2] = i BY <1>1, <3>1, <4>1, <4>2 DEF PendingOK
      <4> QED BY <4>2, <4>3
    <3>4. Cardinality(PendingAt(c)) = 1 BY <3>2, <3>3, OneElement
    <3> QED BY <2>1, <3>4 DEF Waiting
  <2>2. CASE ~Waiting(conn, c)
    <3>1. PendingAt(c) = {} BY <1>3, <2>2
    <3> QED BY <1>6, <2>2, <3>1, FS_EmptySet DEF Waiting
  <2> QED BY <2>1, <2>2
<1>7. conn[c] # NoConnection => \E side \in Side : conn[c].open[side] BY <1>1 DEF QueuesOK
<1> QED BY <1>2, <1>3, <1>4, <1>5, <1>6, <1>7

\* The invariant gives: services and pending connections belong to processes that are
\* there.
LEMMA InvRegistry == IpcInv => RegistryLive
<1> SUFFICES ASSUME IpcInv, NEW s \in Service, service[s] # NoService
             PROVE  /\ service[s].owner \in alive
                    /\ Cardinality({x \in Process \X Slot :
                           handle[x[1]][x[2]] = [type |-> "listener", object |-> s]}) = 1
                    /\ \A r \in Service : service[r] # NoService /\ r # s
                                            => service[r].name # service[s].name
  BY DEF RegistryLive
<1>1. /\ Tables(service, conn, handle) /\ ListenersOK(service, handle)
      /\ HandlesOK(handle, alive)
  BY DEF IpcInv, Good
<1>2. service[s].owner \in Process BY <1>1, TableFacts, ServiceFacts
<1>3. PICK h \in Slot : handle[service[s].owner][h] = ListenerOf(s) BY <1>1 DEF ListenersOK
<1>4. service[s].owner \in alive BY <1>1, <1>2, <1>3, EntryFacts DEF HandlesOK
<1> DEFINE S == {x \in Process \X Slot : handle[x[1]][x[2]] = [type |-> "listener", object |-> s]}
<1>5. <<service[s].owner, h>> \in S BY <1>2, <1>3 DEF ListenerOf
<1>6. \A x \in S : x = <<service[s].owner, h>>
  <2> SUFFICES ASSUME NEW x \in S PROVE x = <<service[s].owner, h>> OBVIOUS
  <2>1. x \in Process \X Slot /\ handle[x[1]][x[2]] = ListenerOf(s) BY DEF ListenerOf
  <2>2. x[1] \in Process /\ x[2] \in Slot /\ x = <<x[1], x[2]>> BY <2>1
  <2>3. service[s].owner = x[1] BY <1>1, <2>1, <2>2 DEF ListenersOK
  <2>4. x[2] = h BY <1>1, <1>3, <2>1, <2>2, <2>3, EntryFacts DEF HandlesOK
  <2> QED BY <2>2, <2>3, <2>4
<1> HIDE DEF S
<1>7. Cardinality(S) = 1 BY <1>5, <1>6, OneElement
<1>8. \A r \in Service : service[r] # NoService /\ r # s => service[r].name # service[s].name
  BY <1>1 DEF ListenersOK
<1> QED BY <1>4, <1>7, <1>8 DEF S

\* The invariant implies the two safety properties that the run checks.
LEMMA InvImplies == IpcInv => RefsExact /\ NoLostWakeup
<1> SUFFICES ASSUME IpcInv PROVE RefsExact /\ NoLostWakeup OBVIOUS
<1>1. SidesOwned /\ RegistryLive BY InvSides, InvRegistry
<1>2. RefsExact BY <1>1 DEF RefsExact, IpcInv, Counted, Carried
<1>3. NoLostWakeup BY DEF NoLostWakeup, IpcInv, Asleep, StillFalse
<1> QED BY <1>2, <1>3
----------------------------------------------------------------------------
(* Counting                                                                *)

\* A one-to-one image has the size of its source.
LEMMA ImageCount ==
    ASSUME NEW S, IsFiniteSet(S), NEW f, DOMAIN f = S,
           \A x, y \in S : f[x] = f[y] => x = y
    PROVE  /\ IsFiniteSet({f[x] : x \in S})
           /\ Cardinality({f[x] : x \in S}) = Cardinality(S)
<1> DEFINE T == {f[x] : x \in S}
           g == [x \in S |-> f[x]]
<1>1. g \in [S -> T] /\ \A x \in S : g[x] = f[x] OBVIOUS
<1>2. \A t \in T : \E x \in S : g[x] = t OBVIOUS
<1> HIDE DEF g, T
<1>3. \A a, b \in S : g[a] = g[b] => a = b BY <1>1
<1>4. g \in Surjection(S, T) BY <1>1, <1>2 DEF Surjection
<1>5. g \in Injection(S, T) BY <1>1, <1>3 DEF Injection, IsInjective
<1>6. IsFiniteSet(T) /\ Cardinality(T) = Cardinality(S) BY <1>4, <1>5, FS_Surjection
<1> QED BY <1>6 DEF T

\* The size of a set in two parts.
LEMMA PartsCount ==
    ASSUME NEW A, NEW B, IsFiniteSet(A), IsFiniteSet(B), A \cap B = {}
    PROVE  /\ IsFiniteSet(A \cup B)
           /\ Cardinality(A \cup B) = Cardinality(A) + Cardinality(B)
           /\ Cardinality(A) \in Nat /\ Cardinality(B) \in Nat
<1>1. IsFiniteSet(A \cup B)
      /\ Cardinality(A \cup B) = Cardinality(A) + Cardinality(B) - Cardinality(A \cap B)
  BY FS_Union
<1>2. Cardinality(A \cap B) = 0 BY FS_EmptySet
<1>3. Cardinality(A) \in Nat /\ Cardinality(B) \in Nat BY FS_CardinalityType
<1> QED BY <1>1, <1>2, <1>3

\* The places of a table of all processes that hold o.
Places(T, D, o) == {x \in Process \X D : T[x[1]][x[2]] = o}

\* The places of a table that hold an object can be counted.
LEMMA PlacesFinite ==
    ASSUME NEW T, NEW D, IsFiniteSet(D), NEW o
    PROVE  IsFiniteSet(Places(T, D, o)) /\ Cardinality(Places(T, D, o)) \in Nat
<1>1. IsFiniteSet(Process \X D) BY BufferAssumption, FS_Product
<1>2. Places(T, D, o) \in SUBSET (Process \X D) BY DEF Places
<1>3. IsFiniteSet(Places(T, D, o)) BY <1>1, <1>2, FS_Subset
<1> QED BY <1>3, FS_CardinalityType

\* One entry of a table changes.
Put(T, p, s, v) == [T EXCEPT ![p][s] = v]
CountAfter(T, U, D, p, s, v, o) ==
    Cardinality(Places(U, D, o)) =
        Cardinality(Places(T, D, o)) - (IF T[p][s] = o THEN 1 ELSE 0)
            + (IF v = o THEN 1 ELSE 0)

\* Writing one entry of a table of handles or mappings changes the count of its old and
\* new object by one.
LEMMA UpdateCount ==
    ASSUME NEW D, IsFiniteSet(D), NEW X, NEW T \in [Process -> [D -> X]],
           NEW p \in Process, NEW s \in D, NEW v \in X, NEW o
    PROVE  /\ Put(T, p, s, v) \in [Process -> [D -> X]]
           /\ CountAfter(T, Put(T, p, s, v), D, p, s, v, o)
<1> DEFINE U == Put(T, p, s, v)
<1>1. U \in [Process -> [D -> X]] BY DEF Put
<1>2. \A q \in Process, r \in D :
         U[q][r] = IF q = p /\ r = s THEN v ELSE T[q][r]
  BY DEF Put
<1> HIDE DEF U
<1> DEFINE x == <<p, s>>
           A == Places(T, D, o) \ {x}
<1>3. x \in Process \X D /\ x[1] = p /\ x[2] = s OBVIOUS
<1>4. \A y \in Process \X D : y # x => U[y[1]][y[2]] = T[y[1]][y[2]]
  <2> TAKE y \in Process \X D
  <2>1. y = <<y[1], y[2]>> /\ y[1] \in Process /\ y[2] \in D OBVIOUS
  <2> HAVE y # x
  <2>2. ~(y[1] = p /\ y[2] = s) BY <2>1
  <2> QED BY <1>2, <2>1, <2>2
<1>5. U[p][s] = v BY <1>2
<1> HIDE DEF x
<1>6. Places(U, D, o) \ {x} = A BY <1>4 DEF Places
<1>7. x \in Places(T, D, o) <=> T[p][s] = o BY <1>3 DEF Places
<1>8. x \in Places(U, D, o) <=> v = o BY <1>3, <1>5 DEF Places
<1>9. IsFiniteSet(Places(T, D, o)) /\ IsFiniteSet(Places(U, D, o))
      /\ Cardinality(Places(T, D, o)) \in Nat /\ Cardinality(Places(U, D, o)) \in Nat
  BY PlacesFinite
<1>10. Cardinality(A) = IF T[p][s] = o THEN Cardinality(Places(T, D, o)) - 1
                        ELSE Cardinality(Places(T, D, o))
  BY <1>7, <1>9, FS_RemoveElement
<1>11. Cardinality(A) = IF v = o THEN Cardinality(Places(U, D, o)) - 1
                        ELSE Cardinality(Places(U, D, o))
  BY <1>6, <1>8, <1>9, FS_RemoveElement, ZenonT(60)
<1>12. Cardinality(Places(U, D, o)) =
          Cardinality(Places(T, D, o)) - (IF T[p][s] = o THEN 1 ELSE 0)
              + (IF v = o THEN 1 ELSE 0)
  BY <1>9, <1>10, <1>11
<1> QED BY <1>1, <1>12 DEF CountAfter, U

CountLess(T, U, D, p, o) ==
    Cardinality(Places(U, D, o)) = Cardinality(Places(T, D, o)) - Uses(T[p], o)

\* The whole table of a process is cleared.
LEMMA ForgetCount ==
    ASSUME NEW D, IsFiniteSet(D), NEW X, NoObject \in X, NEW T \in [Process -> [D -> X]],
           NEW p \in Process, NEW o, o # NoObject
    PROVE  /\ Forgotten(T, p) \in [Process -> [D -> X]]
           /\ CountLess(T, Forgotten(T, p), D, p, o)
<1> DEFINE U == Forgotten(T, p)
           N == {s \in D : T[p][s] = o}
           f == [s \in N |-> <<p, s>>]
           A == {f[s] : s \in N}
           B == Places(U, D, o)
<1>1. U \in [Process -> [D -> X]] /\ (\A s \in D : U[p][s] = NoObject)
      /\ (\A q \in Process : q # p => U[q] = T[q])
  BY DEF Forgotten
<1>2. Uses(T[p], o) = Cardinality(N) BY DEF Uses
<1>3. IsFiniteSet(N) BY FS_Subset
<1>4. DOMAIN f = N /\ \A x, y \in N : f[x] = f[y] => x = y OBVIOUS
<1>5. Places(T, D, o) = A \cup B
  <2> HIDE DEF U
  <2>1. ASSUME NEW x \in Places(T, D, o) PROVE x \in A \cup B
    <3>1. x \in Process \X D /\ T[x[1]][x[2]] = o /\ x = <<x[1], x[2]>> BY DEF Places
    <3>2. CASE x[1] = p
      <4>1. x[2] \in N /\ f[x[2]] = x BY <3>1, <3>2
      <4> QED BY <4>1
    <3>3. CASE x[1] # p BY <1>1, <3>1, <3>3 DEF Places
    <3> QED BY <3>2, <3>3
  <2>2. ASSUME NEW x \in A PROVE x \in Places(T, D, o)
    <3>1. PICK r \in N : x = f[r] OBVIOUS
    <3>2. x = <<p, r>> /\ r \in D /\ T[p][r] = o BY <3>1
    <3> QED BY <3>2 DEF Places
  <2>3. ASSUME NEW x \in B PROVE x \in Places(T, D, o)
    <3>1. x \in Process \X D /\ U[x[1]][x[2]] = o BY DEF Places
    <3>2. x[1] # p BY <1>1, <3>1
    <3> QED BY <1>1, <3>1, <3>2 DEF Places
  <2> QED BY <2>1, <2>2, <2>3
<1>6. A \cap B = {}
  <2> HIDE DEF U
  <2>1. \A x \in A : x[1] = p
    <3> TAKE x \in A
    <3>1. PICK r \in N : x = f[r] OBVIOUS
    <3> QED BY <3>1
  <2>2. \A x \in B : x[1] # p BY <1>1 DEF Places
  <2> QED BY <2>1, <2>2
<1>7. IsFiniteSet(A) /\ Cardinality(A) = Cardinality(N)
  <2> HIDE DEF f, N
  <2> QED BY <1>3, <1>4, ImageCount
<1>8. IsFiniteSet(B) BY PlacesFinite
<1> HIDE DEF A, B
<1>9. Cardinality(Places(T, D, o)) = Cardinality(A) + Cardinality(B)
      /\ Cardinality(A) \in Nat /\ Cardinality(B) \in Nat
  BY <1>5, <1>6, <1>7, <1>8, PartsCount
<1> QED BY <1>1, <1>2, <1>7, <1>9 DEF B, CountLess

\* The queues of the connections, and the messages in them that carry o.
QueueOf(C) == [x \in Connection \X Side |->
                 IF C[x[1]] = NoConnection THEN <<>> ELSE C[x[1]].queue[x[2]]]
Queues == [Connection \X Side -> Seq(Message)]
Short(Q) == \A x \in Connection \X Side : Len(Q[x]) <= QueueMax
Triples == Connection \X Side \X (1..QueueMax)
In(Q, o) ==
    {x \in Triples : /\ x[3] \in DOMAIN Q[<<x[1], x[2]>>]
                     /\ Q[<<x[1], x[2]>>][x[3]].buffer = o}
Pos(q, o) == {i \in DOMAIN q : q[i].buffer = o}

\* The queues of all connections, those of free slots being empty, carry what Carried
\* counts.
LEMMA QueueFacts ==
    ASSUME NEW C \in [Connection -> Conns \cup {NoConnection}], QueuesOK(C)
    PROVE  /\ QueueOf(C) \in Queues /\ Short(QueueOf(C))
           /\ \A c \in Connection, side \in Side :
                 QueueOf(C)[<<c, side>>] =
                    IF C[c] = NoConnection THEN <<>> ELSE C[c].queue[side]
           /\ \A o : Carried(C, o) = In(QueueOf(C), o)
<1>1. \A c \in Connection, side \in Side :
         QueueOf(C)[<<c, side>>] = IF C[c] = NoConnection THEN <<>> ELSE C[c].queue[side]
  BY DEF QueueOf
<1>2. \A c \in Connection : C[c] # NoConnection => C[c] \in Conns OBVIOUS
<1>3. \A c \in Connection, side \in Side :
         /\ QueueOf(C)[<<c, side>>] \in Seq(Message)
         /\ Len(QueueOf(C)[<<c, side>>]) <= QueueMax
  <2> SUFFICES ASSUME NEW c \in Connection, NEW side \in Side
               PROVE  /\ QueueOf(C)[<<c, side>>] \in Seq(Message)
                      /\ Len(QueueOf(C)[<<c, side>>]) <= QueueMax
    OBVIOUS
  <2>1. CASE C[c] = NoConnection
    <3>1. QueueMax \in Nat BY IpcAssumption
    <3>2. QueueOf(C)[<<c, side>>] = <<>> BY <1>1, <2>1
    <3>3. Len(<<>>) <= QueueMax /\ <<>> \in Seq(Message) BY <3>1
    <3> QED BY <3>2, <3>3
  <2>2. CASE C[c] # NoConnection BY <1>1, <1>2, <2>2, ConnFacts DEF QueuesOK
  <2> QED BY <2>1, <2>2
<1>4. QueueOf(C) \in Queues
  <2>1. DOMAIN QueueOf(C) = Connection \X Side BY DEF QueueOf
  <2>2. \A x \in Connection \X Side : QueueOf(C)[x] \in Seq(Message) BY <1>3
  <2>3. QueueOf(C) = [x \in Connection \X Side |-> QueueOf(C)[x]] BY DEF QueueOf
  <2> QED BY <2>2, <2>3 DEF Queues
<1>5. Short(QueueOf(C)) BY <1>3 DEF Short
<1>6. ASSUME NEW o PROVE Carried(C, o) = In(QueueOf(C), o)
  <2>1. \A x \in Triples : /\ x[1] \in Connection /\ x[2] \in Side
                           /\ QueueOf(C)[<<x[1], x[2]>>] =
                                IF C[x[1]] = NoConnection THEN <<>> ELSE C[x[1]].queue[x[2]]
    BY <1>1 DEF Triples
  <2>2. DOMAIN <<>> = {} OBVIOUS
  <2>3. \A x \in Triples :
           (/\ C[x[1]] # NoConnection
            /\ x[3] \in DOMAIN C[x[1]].queue[x[2]]
            /\ C[x[1]].queue[x[2]][x[3]].buffer = o)
           <=> (/\ x[3] \in DOMAIN QueueOf(C)[<<x[1], x[2]>>]
                /\ QueueOf(C)[<<x[1], x[2]>>][x[3]].buffer = o)
    BY <2>1, <2>2
  <2> QED BY <2>3 DEF Carried, In, Triples
<1> QED BY <1>1, <1>4, <1>5, <1>6

\* The queued messages that carry an object can be counted.
LEMMA InFinite ==
    ASSUME NEW Q, NEW o
    PROVE  IsFiniteSet(In(Q, o)) /\ Cardinality(In(Q, o)) \in Nat
<1>1. IsFiniteSet(Connection) /\ IsFiniteSet(1..QueueMax)
  <2>1. ConnectionMax \in Int /\ QueueMax \in Int BY IpcAssumption
  <2> QED BY <2>1, FS_Interval DEF Connection
<1>2. IsFiniteSet(Side)
  <2>1. IsFiniteSet({"client"}) BY FS_Singleton
  <2>2. IsFiniteSet({"client"} \cup {"server"}) BY <2>1, FS_AddElement
  <2>3. Side = {"client"} \cup {"server"} BY DEF Side
  <2> QED BY <2>2, <2>3
<1> DEFINE P == (Connection \X Side) \X (1..QueueMax)
           f == [x \in Triples |-> <<<<x[1], x[2]>>, x[3]>>]
<1>3. IsFiniteSet(P)
  <2>1. IsFiniteSet(Connection \X Side) BY <1>1, <1>2, FS_Product
  <2> QED BY <1>1, <2>1, FS_Product
<1>4. f \in Injection(Triples, P)
  <2>1. f \in [Triples -> P] BY DEF Triples
  <2>2. \A x, y \in Triples : f[x] = f[y] => x = y BY DEF Triples
  <2> HIDE DEF f, P
  <2> QED BY <2>1, <2>2 DEF Injection, IsInjective
<1>5. IsFiniteSet(Triples)
  <2> HIDE DEF f, P
  <2> QED BY <1>3, <1>4, FS_Injection
<1>6. In(Q, o) \in SUBSET Triples BY DEF In
<1>7. IsFiniteSet(In(Q, o)) BY <1>5, <1>6, FS_Subset
<1> QED BY <1>7, FS_CardinalityType

\* The positions of a queue that carry an object can be counted.
LEMMA PosFinite ==
    ASSUME NEW q \in Seq(Message), NEW o
    PROVE  IsFiniteSet(Pos(q, o)) /\ Cardinality(Pos(q, o)) \in Nat
<1>1. DOMAIN q = 1..Len(q) /\ Len(q) \in Nat OBVIOUS
<1>2. IsFiniteSet(DOMAIN q) BY <1>1, FS_Interval
<1>3. Pos(q, o) \in SUBSET DOMAIN q BY DEF Pos
<1>4. IsFiniteSet(Pos(q, o)) BY <1>2, <1>3, FS_Subset
<1> QED BY <1>4, FS_CardinalityType

\* The messages of one queue, and those of the others.
LEMMA InSplit ==
    ASSUME NEW Q \in Queues, Short(Q), NEW c \in Connection, NEW side \in Side, NEW o
    PROVE  LET Rest == {x \in In(Q, o) : <<x[1], x[2]>> # <<c, side>>}
           IN  /\ IsFiniteSet(Rest) /\ Cardinality(Rest) \in Nat
               /\ Cardinality(In(Q, o)) =
                    Cardinality(Rest) + Cardinality(Pos(Q[<<c, side>>], o))
<1> DEFINE Rest == {x \in In(Q, o) : <<x[1], x[2]>> # <<c, side>>}
           q == Q[<<c, side>>]
           f == [i \in Pos(q, o) |-> <<c, side, i>>]
           Img == {f[i] : i \in Pos(q, o)}
<1>1. <<c, side>> \in Connection \X Side /\ q \in Seq(Message) /\ Len(q) <= QueueMax
  BY DEF Queues, Short
<1>2. Len(q) \in Nat /\ DOMAIN q = 1..Len(q) /\ QueueMax \in Nat BY <1>1, IpcAssumption
<1> HIDE DEF q
<1>3. \A i \in Pos(q, o) : i \in DOMAIN q /\ i \in 1..QueueMax /\ q[i].buffer = o
  BY <1>1, <1>2 DEF Pos
<1>4. In(Q, o) = Rest \cup Img
  <2>1. ASSUME NEW x \in In(Q, o), ~(x \in Rest) PROVE x \in Img
    <3>1. /\ x \in Triples /\ x[1] = c /\ x[2] = side
          /\ x[3] \in DOMAIN Q[<<x[1], x[2]>>] /\ Q[<<x[1], x[2]>>][x[3]].buffer = o
      BY <2>1 DEF In
    <3>2. x[3] \in Pos(q, o) BY <3>1 DEF Pos, q
    <3>3. x = <<c, side, x[3]>> BY <3>1 DEF Triples
    <3>4. f[x[3]] = x BY <3>2, <3>3
    <3> QED BY <3>2, <3>4
  <2>2. ASSUME NEW x \in Img PROVE x \in In(Q, o)
    <3>1. PICK i \in Pos(q, o) : x = f[i] OBVIOUS
    <3>2. x = <<c, side, i>> /\ i \in DOMAIN q /\ i \in 1..QueueMax /\ q[i].buffer = o
      BY <1>3, <3>1
    <3>3. x \in Triples /\ x[1] = c /\ x[2] = side /\ x[3] = i BY <3>2 DEF Triples
    <3> QED BY <3>2, <3>3 DEF In, q
  <2> QED BY <2>1, <2>2
<1>5. Rest \cap Img = {}
  <2>1. \A x \in Img : <<x[1], x[2]>> = <<c, side>>
    <3> TAKE x \in Img
    <3>1. PICK i \in Pos(q, o) : x = f[i] OBVIOUS
    <3>2. x = <<c, side, i>> BY <3>1
    <3> QED BY <3>2
  <2> QED BY <2>1
<1>6. IsFiniteSet(Img) /\ Cardinality(Img) = Cardinality(Pos(q, o))
  <2>1. IsFiniteSet(Pos(q, o)) BY <1>1, PosFinite
  <2>2. DOMAIN f = Pos(q, o) /\ \A i, j \in Pos(q, o) : f[i] = f[j] => i = j OBVIOUS
  <2> HIDE DEF f
  <2> QED BY <2>1, <2>2, ImageCount
<1>7. IsFiniteSet(Rest) BY InFinite, FS_Subset
<1> HIDE DEF Rest, Img
<1>8. Cardinality(In(Q, o)) = Cardinality(Rest) + Cardinality(Img)
      /\ Cardinality(Rest) \in Nat
  BY <1>4, <1>5, <1>6, <1>7, PartsCount
<1> QED BY <1>6, <1>7, <1>8 DEF Rest, q

\* When one queue changes, the count changes by its messages.
LEMMA InChange ==
    ASSUME NEW Q \in Queues, Short(Q), NEW R \in Queues, Short(R),
           NEW c \in Connection, NEW side \in Side, NEW o,
           \A d \in Connection, e \in Side : <<d, e>> # <<c, side>> => R[<<d, e>>] = Q[<<d, e>>]
    PROVE  Cardinality(In(R, o)) = Cardinality(In(Q, o))
              - Cardinality(Pos(Q[<<c, side>>], o)) + Cardinality(Pos(R[<<c, side>>], o))
<1> DEFINE A == {x \in In(Q, o) : <<x[1], x[2]>> # <<c, side>>}
           B == {x \in In(R, o) : <<x[1], x[2]>> # <<c, side>>}
<1>1. A = B
  <2>1. \A x \in Triples : x[1] \in Connection /\ x[2] \in Side BY DEF Triples
  <2> QED BY <2>1 DEF In
<1>2. Cardinality(A) \in Nat
      /\ Cardinality(In(Q, o)) = Cardinality(A) + Cardinality(Pos(Q[<<c, side>>], o))
  BY InSplit
<1>3. Cardinality(In(R, o)) = Cardinality(B) + Cardinality(Pos(R[<<c, side>>], o))
  BY InSplit
<1> HIDE DEF A, B
<1>4. Cardinality(Pos(Q[<<c, side>>], o)) \in Nat /\ Cardinality(Pos(R[<<c, side>>], o)) \in Nat
  <2>1. Q[<<c, side>>] \in Seq(Message) /\ R[<<c, side>>] \in Seq(Message) BY DEF Queues
  <2> QED BY <2>1, PosFinite
<1> QED BY <1>1, <1>2, <1>3, <1>4

\* A message put at the end of a queue adds one position for the buffer it carries.
LEMMA PosAppend ==
    ASSUME NEW q \in Seq(Message), NEW m \in Message, NEW o
    PROVE  Cardinality(Pos(Append(q, m), o)) =
              Cardinality(Pos(q, o)) + (IF m.buffer = o THEN 1 ELSE 0)
<1> DEFINE r == Append(q, m)
           n == Len(q)
<1>1. n \in Nat /\ DOMAIN q = 1..n /\ DOMAIN r = 1..(n + 1) /\ r[n + 1] = m
      /\ \A i \in 1..n : r[i] = q[i]
  OBVIOUS
<1> HIDE DEF r, n
<1>2. n + 1 \notin Pos(q, o) BY <1>1 DEF Pos
<1>3. IsFiniteSet(Pos(q, o)) /\ Cardinality(Pos(q, o)) \in Nat BY PosFinite
<1>4. CASE m.buffer = o
  <2>1. Pos(r, o) = Pos(q, o) \cup {n + 1} BY <1>1, <1>4 DEF Pos
  <2> QED BY <1>2, <1>3, <1>4, <2>1, FS_AddElement DEF r
<1>5. CASE m.buffer # o
  <2>1. Pos(r, o) = Pos(q, o) BY <1>1, <1>5 DEF Pos
  <2> QED BY <1>3, <1>5, <2>1 DEF r
<1> QED BY <1>4, <1>5

\* A message taken from the head of a queue takes one position for the buffer it
\* carries.
LEMMA PosTail ==
    ASSUME NEW q \in Seq(Message), q # <<>>, NEW o
    PROVE  Cardinality(Pos(Tail(q), o)) =
              Cardinality(Pos(q, o)) - (IF Head(q).buffer = o THEN 1 ELSE 0)
<1> DEFINE r == Tail(q)
           n == Len(q)
           f == [i \in Pos(r, o) |-> i + 1]
           Img == {f[i] : i \in Pos(r, o)}
<1>1. n \in Nat /\ n > 0 /\ DOMAIN q = 1..n /\ r \in Seq(Message) /\ Len(r) = n - 1
      /\ DOMAIN r = 1..(n - 1) /\ Head(q) = q[1] /\ \A i \in 1..(n - 1) : r[i] = q[i + 1]
  OBVIOUS
<1> HIDE DEF r, n
<1>2. Img = Pos(q, o) \ {1}
  <2>1. ASSUME NEW x \in Img PROVE x \in Pos(q, o) \ {1}
    <3>1. PICK i \in Pos(r, o) : x = f[i] OBVIOUS
    <3>2. x = i + 1 /\ i \in 1..(n - 1) /\ r[i].buffer = o BY <1>1, <3>1 DEF Pos
    <3> QED BY <1>1, <3>2 DEF Pos
  <2>2. ASSUME NEW x \in Pos(q, o) \ {1} PROVE x \in Img
    <3>1. x \in 1..n /\ x # 1 /\ q[x].buffer = o BY <1>1 DEF Pos
    <3>2. x - 1 \in 1..(n - 1) /\ (x - 1) + 1 = x BY <1>1, <3>1
    <3>3. r[x - 1] = q[x] BY <1>1, <3>2
    <3>4. x - 1 \in Pos(r, o) BY <1>1, <3>1, <3>2, <3>3 DEF Pos
    <3>5. f[x - 1] = x BY <3>2, <3>4
    <3> QED BY <3>4, <3>5
  <2> QED BY <2>1, <2>2
<1>3. IsFiniteSet(Pos(r, o)) BY <1>1, PosFinite
<1>4. DOMAIN f = Pos(r, o) /\ \A i, j \in Pos(r, o) : f[i] = f[j] => i = j
  <2>1. \A i \in Pos(r, o) : i \in Int BY <1>1 DEF Pos
  <2> QED BY <2>1
<1>5. Cardinality(Img) = Cardinality(Pos(r, o))
  <2> HIDE DEF f
  <2> QED BY <1>3, <1>4, ImageCount
<1>6. IsFiniteSet(Pos(q, o)) /\ Cardinality(Pos(q, o)) \in Nat BY PosFinite
<1>7. 1 \in Pos(q, o) <=> Head(q).buffer = o BY <1>1 DEF Pos
<1>8. Cardinality(Pos(q, o) \ {1}) =
         IF 1 \in Pos(q, o) THEN Cardinality(Pos(q, o)) - 1 ELSE Cardinality(Pos(q, o))
  BY <1>6, FS_RemoveElement
<1>9. Cardinality(Pos(r, o)) =
         Cardinality(Pos(q, o)) - (IF Head(q).buffer = o THEN 1 ELSE 0)
  <2> HIDE DEF Img
  <2> QED BY <1>2, <1>5, <1>6, <1>7, <1>8
<1> QED BY <1>9 DEF r

\* An empty queue carries nothing.
LEMMA PosEmpty == \A o : Cardinality(Pos(<<>>, o)) = 0
<1>1. DOMAIN <<>> = {} OBVIOUS
<1>2. \A o : Pos(<<>>, o) = {} BY <1>1 DEF Pos
<1> QED BY <1>2, FS_EmptySet
----------------------------------------------------------------------------
(* Closing a side                                                          *)

States == [service : [Service -> Services \cup {NoService}],
           conn : [Connection -> Conns \cup {NoConnection}],
           refs : [Object -> Int], woken : SUBSET Process]

\* The side is closed, its queue dropped, and the connection goes with its
\* second side.
ClosedSide(C, D, c, side) ==
    /\ D \in [Connection -> Conns \cup {NoConnection}]
    /\ \A d \in Connection : d # c => D[d] = C[d]
    /\ ~C[c].open[Peer(side)] => D[c] = NoConnection
    /\ C[c].open[Peer(side)] =>
         /\ D[c] \in Conns
         /\ D[c].owner = C[c].owner /\ D[c].accepted = C[c].accepted
         /\ D[c].open[Peer(side)] /\ ~D[c].open[side]
         /\ D[c].queue[side] = <<>> /\ D[c].queue[Peer(side)] = C[c].queue[Peer(side)]

\* close_connection_side: the side is closed, its queue released, the peer woken, and
\* the slot is free when both sides are closed.
LEMMA CloseSideFacts ==
    ASSUME NEW st \in States, QueuesOK(st.conn), NEW c \in Connection, NEW side \in Side,
           st.conn[c] # NoConnection, st.conn[c].open[side]
    PROVE  LET t == close_connection_side(st, c, side)
           IN  /\ t \in States /\ t.service = st.service
               /\ ClosedSide(st.conn, t.conn, c, side)
               /\ \A o \in Object :
                     t.refs[o] = st.refs[o] - Cardinality(Pos(st.conn[c].queue[side], o))
               /\ t.woken = st.woken \cup {st.conn[c].owner[Peer(side)]}
<1> DEFINE k == st.conn[c]
           k2 == [k EXCEPT !.queue[side] = <<>>, !.open[side] = FALSE]
           k3 == connection_maybe_destroy(k2)
           r2 == release_queue(st.refs, k.queue[side])
           w2 == st.woken \cup {k.owner[Peer(side)]}
           t == [st EXCEPT !.refs = r2, !.conn[c] = k3, !.woken = w2]
<1>1. /\ k \in Conns /\ k.owner \in [Side -> Process] /\ k.open \in [Side -> BOOLEAN]
      /\ k.queue \in [Side -> Seq(Message)] /\ k.accepted \in BOOLEAN
  BY ConnFacts DEF States
<1>2. Peer(side) \in Side /\ Peer(side) # side /\ \A x \in Side : x = side \/ x = Peer(side)
  BY Sides
<1>3. close_connection_side(st, c, side) = t BY DEF close_connection_side
<1>4. /\ k2 \in Conns /\ k2.owner = k.owner /\ k2.accepted = k.accepted
      /\ k2.queue = [k.queue EXCEPT ![side] = <<>>]
      /\ k2.open = [k.open EXCEPT ![side] = FALSE]
  <2>1. [k.queue EXCEPT ![side] = <<>>] \in [Side -> Seq(Message)] BY <1>1
  <2>2. [k.open EXCEPT ![side] = FALSE] \in [Side -> BOOLEAN] BY <1>1
  <2> HIDE DEF k
  <2> QED BY <1>1, <2>1, <2>2 DEF Conns
<1>5. /\ k2.queue[side] = <<>> /\ k2.queue[Peer(side)] = k.queue[Peer(side)]
      /\ k2.open[side] = FALSE /\ k2.open[Peer(side)] = k.open[Peer(side)]
  BY <1>1, <1>2, <1>4
<1> HIDE DEF k2
<1>6. ~k.open[Peer(side)] => k3 = NoConnection
  <2> SUFFICES ASSUME ~k.open[Peer(side)] PROVE k3 = NoConnection OBVIOUS
  <2>1. k.queue[Peer(side)] = <<>> BY <1>2 DEF QueuesOK
  <2>2. \A x \in Side : ~k2.open[x] /\ k2.queue[x] = <<>> BY <1>2, <1>5, <2>1
  <2> QED BY <2>2 DEF connection_maybe_destroy
<1>7. k.open[Peer(side)] => k3 = k2
  BY <1>2, <1>5 DEF connection_maybe_destroy
<1>8. k3 \in Conns \cup {NoConnection}
  BY <1>4 DEF connection_maybe_destroy
<1> HIDE DEF k3
<1>9. /\ r2 \in [Object -> Int]
      /\ \A o \in Object : r2[o] = st.refs[o] - Cardinality(Pos(k.queue[side], o))
  <2>1. \A o : Cardinality(Pos(k.queue[side], o)) \in Nat BY <1>1, PosFinite
  <2>2. st.refs \in [Object -> Int] BY DEF States
  <2>3. r2 = [o \in Object |-> st.refs[o] - Cardinality(Pos(k.queue[side], o))]
    BY DEF release_queue, Pos
  <2> HIDE DEF r2
  <2> QED BY <2>1, <2>2, <2>3
<1>10. w2 \in SUBSET Process BY <1>1, <1>2 DEF States
<1> HIDE DEF r2, w2
<1>11. /\ t \in States /\ t.service = st.service /\ t.refs = r2 /\ t.woken = w2
       /\ t.conn = [st.conn EXCEPT ![c] = k3]
  BY <1>8, <1>9, <1>10 DEF States
<1> HIDE DEF t
<1>12. /\ t.conn \in [Connection -> Conns \cup {NoConnection}] /\ t.conn[c] = k3
       /\ \A d \in Connection : d # c => t.conn[d] = st.conn[d]
  BY <1>8, <1>11 DEF States
<1>13. ClosedSide(st.conn, t.conn, c, side)
  BY <1>4, <1>5, <1>6, <1>7, <1>12 DEF ClosedSide
<1> QED BY <1>3, <1>9, <1>11, <1>13 DEF w2

\* What the predicates of the invariant need of a closed side.
SideGone(C, D, c, side) ==
    /\ QueuesOK(D)
    /\ \A d \in Connection, x \in Side : <<d, x>> # <<c, side>> =>
          /\ Attached(D, d, x) <=> Attached(C, d, x)
          /\ D[d] # NoConnection => D[d].owner[x] = C[d].owner[x]
          /\ QueueOf(D)[<<d, x>>] = QueueOf(C)[<<d, x>>]
    /\ ~Attached(D, c, side)
    /\ QueueOf(D)[<<c, side>>] = <<>>
    /\ D[c] # NoConnection => D[c].owner = C[c].owner
    /\ \A d \in Connection : d # c => (Waiting(D, d) <=> Waiting(C, d))
    /\ side = "client" => (Waiting(D, c) <=> Waiting(C, c))
    /\ side = "server" => ~Waiting(D, c)

\* What closing one side means for the slot: either freed, or still there with the other
\* side as it was.
LEMMA ClosedFacts ==
    ASSUME NEW C \in [Connection -> Conns \cup {NoConnection}], QueuesOK(C), NEW D,
           NEW c \in Connection, NEW side \in Side, C[c] # NoConnection, C[c].open[side],
           ClosedSide(C, D, c, side)
    PROVE  SideGone(C, D, c, side)
<1> DEFINE e == Peer(side)
<1>0. /\ D \in [Connection -> Conns \cup {NoConnection}]
      /\ \A d \in Connection : d # c => D[d] = C[d]
      /\ ~C[c].open[e] => D[c] = NoConnection
      /\ C[c].open[e] =>
           /\ D[c] \in Conns
           /\ D[c].owner = C[c].owner /\ D[c].accepted = C[c].accepted
           /\ D[c].open[e] /\ ~D[c].open[side]
           /\ D[c].queue[side] = <<>> /\ D[c].queue[e] = C[c].queue[e]
  BY DEF ClosedSide
<1>1. e \in Side /\ e # side /\ \A x \in Side : x = side \/ x = e BY Sides
<1>2. side = "client" => e = "server" BY Sides
<1> HIDE DEF e
<1>3. D[c] # NoConnection <=> C[c].open[e] BY <1>0, ConnFacts
<1>4. C[c] \in Conns OBVIOUS
<1>5. QueuesOK(D)
  <2> SUFFICES ASSUME NEW d \in Connection, D[d] # NoConnection
               PROVE  /\ \E x \in Side : D[d].open[x]
                      /\ \A x \in Side : ~D[d].open[x] => D[d].queue[x] = <<>>
                      /\ \A x \in Side : Len(D[d].queue[x]) <= QueueMax
    BY DEF QueuesOK
  <2>1. CASE d # c BY <1>0, <2>1 DEF QueuesOK
  <2>2. CASE d = c
    <3>1. QueueMax \in Nat /\ Len(<<>>) = 0 BY IpcAssumption
    <3>2. Len(C[c].queue[e]) <= QueueMax BY <1>1 DEF QueuesOK
    <3>3. \A x \in Side : Len(D[d].queue[x]) <= QueueMax
      BY <1>0, <1>1, <1>3, <2>2, <3>1, <3>2
    <3> QED BY <1>0, <1>1, <1>3, <2>2, <3>3
  <2> QED BY <2>1, <2>2
<1>6. \A d \in Connection, x \in Side : <<d, x>> # <<c, side>> =>
         /\ Attached(D, d, x) <=> Attached(C, d, x)
         /\ D[d] # NoConnection => D[d].owner[x] = C[d].owner[x]
  <2> SUFFICES ASSUME NEW d \in Connection, NEW x \in Side, <<d, x>> # <<c, side>>
               PROVE  /\ Attached(D, d, x) <=> Attached(C, d, x)
                      /\ D[d] # NoConnection => D[d].owner[x] = C[d].owner[x]
    OBVIOUS
  <2>1. CASE d # c BY <1>0, <2>1 DEF Attached
  <2>2. CASE d = c
    <3>1. x = e BY <1>1, <2>2
    <3> QED BY <1>0, <1>3, <2>2, <3>1 DEF Attached
  <2> QED BY <2>1, <2>2
<1>7. ~Attached(D, c, side) BY <1>0, <1>3 DEF Attached
<1>8. \A d \in Connection, x \in Side :
         QueueOf(D)[<<d, x>>] = IF D[d] = NoConnection THEN <<>> ELSE D[d].queue[x]
  BY DEF QueueOf
<1>9. \A d \in Connection, x \in Side :
         QueueOf(C)[<<d, x>>] = IF C[d] = NoConnection THEN <<>> ELSE C[d].queue[x]
  BY DEF QueueOf
<1>10. QueueOf(D)[<<c, side>>] = <<>> BY <1>0, <1>3, <1>8
<1>11. \A d \in Connection, x \in Side : <<d, x>> # <<c, side>> =>
          QueueOf(D)[<<d, x>>] = QueueOf(C)[<<d, x>>]
  <2> SUFFICES ASSUME NEW d \in Connection, NEW x \in Side, <<d, x>> # <<c, side>>
               PROVE  QueueOf(D)[<<d, x>>] = QueueOf(C)[<<d, x>>]
    OBVIOUS
  <2>1. CASE d # c BY <1>0, <1>8, <1>9, <2>1
  <2>2. CASE d = c
    <3>1. x = e BY <1>1, <2>2
    <3>2. ~C[c].open[e] => C[c].queue[e] = <<>> BY <1>1 DEF QueuesOK
    <3> QED BY <1>0, <1>3, <1>8, <1>9, <2>2, <3>1, <3>2
  <2> QED BY <2>1, <2>2
<1>12. D[c] # NoConnection => D[c].owner = C[c].owner BY <1>0, <1>3
<1>13. \A d \in Connection : d # c => (Waiting(D, d) <=> Waiting(C, d))
  BY <1>0 DEF Waiting
<1>14. side = "client" => (Waiting(D, c) <=> Waiting(C, c))
  BY <1>0, <1>2, <1>3 DEF Waiting
<1>15. side = "server" => ~Waiting(D, c) BY <1>0, <1>3 DEF Waiting
<1> QED BY <1>5, <1>6, <1>7, <1>10, <1>11, <1>12, <1>13, <1>14, <1>15 DEF SideGone

\* The counts given up are those of the dropped messages.
LEMMA ClosedCounted ==
    ASSUME NEW C \in [Connection -> Conns \cup {NoConnection}], QueuesOK(C), NEW D,
           NEW c \in Connection, NEW side \in Side, C[c] # NoConnection, C[c].open[side],
           ClosedSide(C, D, c, side),
           NEW R, NEW R2, Counted(R, C),
           \A o \in Object : R2[o] = R[o] - Cardinality(Pos(C[c].queue[side], o)),
           \A o \in Object : Held(o) \in Int
    PROVE  Counted(R2, D)
<1>0. D \in [Connection -> Conns \cup {NoConnection}] BY DEF ClosedSide
<1>g. SideGone(C, D, c, side) BY ClosedFacts
<1>1. QueuesOK(D) BY <1>g DEF SideGone
<1>2. /\ QueueOf(C) \in Queues /\ Short(QueueOf(C)) /\ \A o : Carried(C, o) = In(QueueOf(C), o)
      /\ QueueOf(C)[<<c, side>>] = C[c].queue[side]
  BY QueueFacts
<1>3. /\ QueueOf(D) \in Queues /\ Short(QueueOf(D)) /\ \A o : Carried(D, o) = In(QueueOf(D), o)
  BY <1>0, <1>1, QueueFacts
<1>4. QueueOf(D)[<<c, side>>] = <<>>
      /\ \A d \in Connection, x \in Side : <<d, x>> # <<c, side>> =>
            QueueOf(D)[<<d, x>>] = QueueOf(C)[<<d, x>>]
  BY <1>g DEF SideGone
<1>5. ASSUME NEW o \in Object PROVE R2[o] = Held(o) + Cardinality(Carried(D, o))
  <2>1. Cardinality(In(QueueOf(D), o)) = Cardinality(In(QueueOf(C), o))
           - Cardinality(Pos(QueueOf(C)[<<c, side>>], o))
           + Cardinality(Pos(QueueOf(D)[<<c, side>>], o))
    BY <1>2, <1>3, <1>4, InChange
  <2>2. Cardinality(Pos(QueueOf(D)[<<c, side>>], o)) = 0 BY <1>4, PosEmpty
  <2>3. Cardinality(In(QueueOf(C), o)) \in Nat BY InFinite
  <2>4. C[c].queue[side] \in Seq(Message) BY ConnFacts
  <2>5. Cardinality(Pos(C[c].queue[side], o)) \in Nat BY <2>4, PosFinite
  <2>6. R[o] = Held(o) + Cardinality(In(QueueOf(C), o)) BY <1>2 DEF Counted
  <2>7. Cardinality(Carried(D, o)) =
           Cardinality(In(QueueOf(C), o)) - Cardinality(Pos(C[c].queue[side], o))
    BY <1>2, <1>3, <2>1, <2>2, <2>3, <2>5
  <2>8. R2[o] = R[o] - Cardinality(Pos(C[c].queue[side], o)) OBVIOUS
  <2>9. Held(o) \in Int OBVIOUS
  <2> QED BY <2>3, <2>5, <2>6, <2>7, <2>8, <2>9
<1> QED BY <1>5 DEF Counted

\* A handle is removed from a table.
Without(H, p, h) == [H EXCEPT ![p][h] = NoHandle]

\* Clearing one handle of one process leaves all others.
LEMMA WithoutFacts ==
    ASSUME NEW H \in [Process -> [Slot -> Entries]], NEW p \in Process, NEW h \in Slot
    PROVE  /\ Without(H, p, h) \in [Process -> [Slot -> Entries]]
           /\ Without(H, p, h)[p][h] = NoHandle
           /\ \A q \in Process, g \in Slot :
                 <<q, g>> # <<p, h>> => Without(H, p, h)[q][g] = H[q][g]
           /\ \A q \in Process : q # p => Without(H, p, h)[q] = H[q]
<1>1. NoHandle \in Entries BY EntryFacts
<1> QED BY <1>1 DEF Without

\* Clearing a handle keeps the table of handles well formed.
LEMMA WithoutHandles ==
    ASSUME NEW H \in [Process -> [Slot -> Entries]], NEW p \in Process, NEW h \in Slot,
           NEW L, HandlesOK(H, L)
    PROVE  HandlesOK(Without(H, p, h), L)
<1> DEFINE U == Without(H, p, h)
<1>1. \A q \in Process, g \in Slot :
         U[q][g] # NoHandle => U[q][g] = H[q][g] /\ H[q][g] # NoHandle
  <2> SUFFICES ASSUME NEW q \in Process, NEW g \in Slot, U[q][g] # NoHandle
               PROVE  U[q][g] = H[q][g]
    OBVIOUS
  <2>1. <<q, g>> # <<p, h>> BY WithoutFacts
  <2> QED BY <2>1, WithoutFacts
<1> HIDE DEF U
<1>2. \A q \in Process, g, f \in Slot : U[q][g] = U[q][f] /\ U[q][g] # NoHandle => g = f
  BY <1>1 DEF HandlesOK
<1>3. \A q \in Process, g \in Slot : U[q][g] # NoHandle => q \in L
  BY <1>1 DEF HandlesOK
<1> QED BY <1>2, <1>3 DEF HandlesOK, U

\* An endpoint is closed with its side.
LEMMA CloseEndGood ==
    ASSUME NEW V, NEW C, NEW H, NEW L, Good(V, C, H, L), NEW D,
           NEW p \in Process, NEW h \in Slot, NEW c \in Connection, NEW side \in Side,
           H[p][h] = EndOf(c, side), ClosedSide(C, D, c, side)
    PROVE  Good(V, D, Without(H, p, h), L)
<1> DEFINE U == Without(H, p, h)
<1>1. /\ Tables(V, C, H) /\ QueuesOK(C) /\ EndsOK(C, H) /\ PendingOK(V, C)
      /\ ListenersOK(V, H) /\ HandlesOK(H, L)
      /\ C \in [Connection -> Conns \cup {NoConnection}]
      /\ H \in [Process -> [Slot -> Entries]]
  BY DEF Good, Tables
<1>2. Attached(C, c, side) /\ C[c].owner[side] = p BY <1>1 DEF EndsOK
<1>3. C[c] # NoConnection /\ C[c].open[side] BY <1>2 DEF Attached
<1>g. SideGone(C, D, c, side) BY <1>1, <1>3, ClosedFacts
<1>4. QueuesOK(D) BY <1>g DEF SideGone
<1>5. \A d \in Connection, x \in Side : <<d, x>> # <<c, side>> =>
         /\ Attached(D, d, x) <=> Attached(C, d, x)
         /\ D[d] # NoConnection => D[d].owner[x] = C[d].owner[x]
  BY <1>g DEF SideGone
<1>6. ~Attached(D, c, side) BY <1>g DEF SideGone
<1>7. D[c] # NoConnection => D[c].owner = C[c].owner BY <1>g DEF SideGone
<1>8. \A d \in Connection : d # c => (Waiting(D, d) <=> Waiting(C, d)) /\ D[d] = C[d]
  <2>1. \A d \in Connection : d # c => D[d] = C[d] BY DEF ClosedSide
  <2> QED BY <2>1 DEF Waiting
<1>9. Waiting(D, c) <=> Waiting(C, c)
  <2>1. CASE side = "client" BY <1>g, <2>1 DEF SideGone
  <2>2. CASE side = "server"
    <3>1. ~Waiting(D, c) BY <1>g, <2>2 DEF SideGone
    <3>2. ~Waiting(C, c) BY <1>2, <2>2 DEF Attached, Waiting
    <3> QED BY <3>1, <3>2
  <2> QED BY <2>1, <2>2 DEF Side
<1>10. /\ U \in [Process -> [Slot -> Entries]] /\ U[p][h] = NoHandle
       /\ \A q \in Process, g \in Slot : <<q, g>> # <<p, h>> => U[q][g] = H[q][g]
  BY <1>1, WithoutFacts
<1> HIDE DEF U
<1>11. \A q \in Process, g \in Slot :
          U[q][g] # NoHandle => U[q][g] = H[q][g] /\ <<q, g>> # <<p, h>>
  BY <1>10
<1>12. EndsOK(D, U)
  <2>1. ASSUME NEW q \in Process, NEW g \in Slot, NEW d \in Connection, NEW x \in Side,
               U[q][g] = EndOf(d, x)
        PROVE  Attached(D, d, x) /\ D[d].owner[x] = q
    <3>1. H[q][g] = EndOf(d, x) /\ <<q, g>> # <<p, h>> BY <1>11, <2>1, EntryFacts
    <3>2. Attached(C, d, x) /\ C[d].owner[x] = q BY <1>1, <3>1 DEF EndsOK
    <3>3. <<d, x>> # <<c, side>>
      <4> SUFFICES ASSUME d = c, x = side PROVE FALSE OBVIOUS
      <4>1. q = p BY <1>2, <3>2
      <4>2. g = h BY <1>1, <3>1, <4>1, EntryFacts DEF HandlesOK
      <4> QED BY <3>1, <4>1, <4>2
    <3>4. Attached(D, d, x) BY <1>5, <3>2, <3>3
    <3> QED BY <1>5, <3>2, <3>3, <3>4 DEF Attached
  <2>2. ASSUME NEW d \in Connection, NEW x \in Side, Attached(D, d, x)
        PROVE  \E g \in Slot : U[D[d].owner[x]][g] = EndOf(d, x)
    <3>1. <<d, x>> # <<c, side>> BY <1>6, <2>2
    <3>2. Attached(C, d, x) /\ D[d].owner[x] = C[d].owner[x] BY <1>5, <2>2, <3>1 DEF Attached
    <3>3. PICK g \in Slot : H[C[d].owner[x]][g] = EndOf(d, x) BY <1>1, <3>2 DEF EndsOK
    <3>4. C[d].owner[x] \in Process
      <4>1. C[d] \in Conns BY <1>1, <3>2 DEF Attached
      <4> QED BY <4>1, ConnFacts
    <3>5. <<C[d].owner[x], g>> # <<p, h>>
      <4> SUFFICES ASSUME C[d].owner[x] = p, g = h PROVE FALSE OBVIOUS
      <4>1. EndOf(d, x) = EndOf(c, side) BY <3>3
      <4>2. d = c /\ x = side BY <4>1, EntryFacts
      <4> QED BY <3>1, <4>2
    <3>6. U[C[d].owner[x]][g] = EndOf(d, x) BY <1>10, <3>3, <3>4, <3>5
    <3> QED BY <3>2, <3>6
  <2> QED BY <2>1, <2>2 DEF EndsOK
<1>13. PendingOK(V, D)
  <2>1. \A d \in Connection : Waiting(D, d) <=> Waiting(C, d) BY <1>8, <1>9
  <2>2. \A d \in Connection : Waiting(D, d) => D[d].owner = C[d].owner
    BY <1>7, <1>8 DEF Waiting
  <2> QED BY <1>1, <2>1, <2>2 DEF PendingOK
<1>14. ListenersOK(V, U)
  <2>1. ASSUME NEW q \in Process, NEW g \in Slot, NEW s \in Service, U[q][g] = ListenerOf(s)
        PROVE  V[s] # NoService /\ V[s].owner = q
    <3>1. H[q][g] = ListenerOf(s) BY <1>11, <2>1, EntryFacts
    <3> QED BY <1>1, <3>1 DEF ListenersOK
  <2>2. ASSUME NEW s \in Service, V[s] # NoService
        PROVE  \E g \in Slot : U[V[s].owner][g] = ListenerOf(s)
    <3>1. PICK g \in Slot : H[V[s].owner][g] = ListenerOf(s) BY <1>1, <2>2 DEF ListenersOK
    <3>2. V[s].owner \in Process BY <1>1, <2>2, TableFacts, ServiceFacts
    <3>3. <<V[s].owner, g>> # <<p, h>>
      <4> SUFFICES ASSUME V[s].owner = p, g = h PROVE FALSE OBVIOUS
      <4>1. ListenerOf(s) = EndOf(c, side) BY <3>1
      <4>2. ListenerOf(s).type = "listener" /\ EndOf(c, side).type = "endpoint" BY EntryFacts
      <4> QED BY <4>1, <4>2
    <3> QED BY <1>10, <3>1, <3>2, <3>3
  <2> QED BY <1>1, <2>1, <2>2 DEF ListenersOK
<1>15. HandlesOK(U, L) BY <1>1, WithoutHandles DEF U
<1>16. Tables(V, D, U) BY <1>1, <1>10 DEF Tables, ClosedSide
<1> QED BY <1>4, <1>12, <1>13, <1>14, <1>15, <1>16 DEF Good, U

\* The head of a pending queue is taken.
Popped(V, W, s) ==
    /\ W \in [Service -> Services \cup {NoService}]
    /\ V[s] # NoService /\ W[s] # NoService
    /\ W[s].owner = V[s].owner /\ W[s].name = V[s].name
    /\ Len(W[s].pending) <= PendingMax
    /\ \A r \in Service : r # s => W[r] = V[r]
    /\ \A i \in Nat, c \in Connection : At(W, s, i, c) <=> (i > 0 /\ At(V, s, i + 1, c))

\* pending_pop: every other connection keeps its place in some pending queue.
LEMMA PoppedPlaces ==
    ASSUME NEW V, NEW W, NEW s \in Service, Popped(V, W, s), NEW C, PendingOK(V, C),
           NEW c \in Connection, At(V, s, 1, c)
    PROVE  /\ \A r \in Service : W[r] # NoService <=> V[r] # NoService
           /\ \A r \in Service : W[r] # NoService =>
                 /\ W[r].owner = V[r].owner /\ W[r].name = V[r].name
                 /\ Len(W[r].pending) <= PendingMax
           /\ \A r \in Service, i \in Nat, d \in Connection : At(W, r, i, d) =>
                 d # c /\ \E j \in Nat : At(V, r, j, d) /\ j = IF r = s THEN i + 1 ELSE i
           /\ \A d \in Connection : d # c /\ (\E r \in Service, j \in Nat : At(V, r, j, d))
                 => \E r \in Service, i \in Nat : At(W, r, i, d)
<1>1. \A r \in Service : W[r] # NoService <=> V[r] # NoService BY DEF Popped
<1>2. \A r \in Service : W[r] # NoService =>
         /\ W[r].owner = V[r].owner /\ W[r].name = V[r].name
         /\ Len(W[r].pending) <= PendingMax
  BY DEF Popped, PendingOK
<1>3. \A r \in Service, i \in Nat, d \in Connection : r # s => (At(W, r, i, d) <=> At(V, r, i, d))
  BY DEF Popped, At
<1>4. ASSUME NEW r \in Service, NEW i \in Nat, NEW d \in Connection, At(W, r, i, d)
      PROVE  d # c /\ \E j \in Nat : At(V, r, j, d) /\ j = IF r = s THEN i + 1 ELSE i
  <2>1. CASE r = s
    <3>1. i > 0 /\ At(V, s, i + 1, d) BY <1>4, <2>1 DEF Popped
    <3>2. i + 1 \in Nat /\ 1 \in Nat /\ i + 1 # 1 BY <3>1
    <3>3. d # c
      <4> SUFFICES ASSUME d = c PROVE FALSE OBVIOUS
      <4>1. At(V, s, i + 1, c) BY <3>1
      <4>2. i + 1 = 1 BY <3>2, <4>1 DEF PendingOK
      <4> QED BY <3>2, <4>2
    <3> QED BY <2>1, <3>1, <3>2, <3>3
  <2>2. CASE r # s
    <3>1. At(V, r, i, d) BY <1>3, <1>4, <2>2
    <3>2. d # c BY <2>2, <3>1 DEF PendingOK
    <3> QED BY <2>2, <3>1, <3>2
  <2> QED BY <2>1, <2>2
<1>5. ASSUME NEW d \in Connection, d # c, NEW r \in Service, NEW j \in Nat, At(V, r, j, d)
      PROVE  \E q \in Service, i \in Nat : At(W, q, i, d)
  <2>1. CASE r = s
    <3>1. j # 1 /\ j # 0 BY <1>5, <2>1 DEF At
    <3>2. j - 1 \in Nat /\ j - 1 > 0 /\ (j - 1) + 1 = j BY <3>1
    <3>3. At(W, s, j - 1, d) BY <1>5, <2>1, <3>2 DEF Popped
    <3> QED BY <3>2, <3>3
  <2>2. CASE r # s BY <1>3, <1>5, <2>2
  <2> QED BY <2>1, <2>2
<1> QED BY <1>1, <1>2, <1>4, <1>5

\* The registry does not change with the pending queues.
LEMMA PoppedListeners ==
    ASSUME NEW V, NEW W, NEW s \in Service, Popped(V, W, s), NEW H, ListenersOK(V, H)
    PROVE  ListenersOK(W, H)
<1>1. \A r \in Service : W[r] # NoService <=> V[r] # NoService BY DEF Popped
<1>2. \A r \in Service : W[r] # NoService => W[r].owner = V[r].owner /\ W[r].name = V[r].name
  BY DEF Popped
<1> QED BY <1>1, <1>2 DEF ListenersOK

\* A connection that waits is rejected.
LEMMA RejectGood ==
    ASSUME NEW V, NEW C, NEW H, NEW L, Good(V, C, H, L), NEW W, NEW D,
           NEW s \in Service, NEW c \in Connection, At(V, s, 1, c),
           Popped(V, W, s), ClosedSide(C, D, c, "server")
    PROVE  Good(W, D, H, L)
<1>1. /\ Tables(V, C, H) /\ QueuesOK(C) /\ EndsOK(C, H) /\ PendingOK(V, C)
      /\ ListenersOK(V, H) /\ HandlesOK(H, L)
      /\ C \in [Connection -> Conns \cup {NoConnection}]
  BY DEF Good, Tables
<1>2. Waiting(C, c) BY <1>1 DEF PendingOK
<1>3. C[c] # NoConnection /\ C[c].open["server"] /\ "server" \in Side
  BY <1>2 DEF Waiting, Side
<1>g. SideGone(C, D, c, "server") BY <1>1, <1>3, ClosedFacts
<1>4. QueuesOK(D) BY <1>g DEF SideGone
<1>5. \A d \in Connection, x \in Side : <<d, x>> # <<c, "server">> =>
         /\ Attached(D, d, x) <=> Attached(C, d, x)
         /\ D[d] # NoConnection => D[d].owner[x] = C[d].owner[x]
  BY <1>g DEF SideGone
<1>6. ~Attached(D, c, "server") /\ ~Attached(C, c, "server")
  BY <1>g, <1>2 DEF SideGone, Attached, Waiting
<1>7. \A d \in Connection : d # c => (Waiting(D, d) <=> Waiting(C, d)) /\ D[d] = C[d]
  <2>1. \A d \in Connection : d # c => D[d] = C[d] BY DEF ClosedSide
  <2> QED BY <2>1 DEF Waiting
<1>8. ~Waiting(D, c) BY <1>g DEF SideGone
<1>9. EndsOK(D, H)
  <2>1. \A d \in Connection, x \in Side : Attached(D, d, x) <=> Attached(C, d, x)
    BY <1>5, <1>6
  <2>2. \A d \in Connection, x \in Side : Attached(D, d, x) => D[d].owner[x] = C[d].owner[x]
    BY <1>5, <1>6 DEF Attached
  <2> QED BY <1>1, <2>1, <2>2 DEF EndsOK
<1>10. PendingOK(W, D)
  <2>1. \A r \in Service : W[r] # NoService =>
           W[r].owner = V[r].owner /\ Len(W[r].pending) <= PendingMax
    BY <1>1, PoppedPlaces
  <2>2. \A r \in Service, i \in Nat, d \in Connection : At(W, r, i, d) =>
           d # c /\ \E j \in Nat : At(V, r, j, d) /\ j = IF r = s THEN i + 1 ELSE i
    BY <1>1, PoppedPlaces
  <2>3. ASSUME NEW r \in Service, NEW i \in Nat, NEW d \in Connection, At(W, r, i, d)
        PROVE  Waiting(D, d) /\ D[d].owner["server"] = W[r].owner
    <3>1. PICK j \in Nat : At(V, r, j, d) BY <2>2, <2>3
    <3>2. Waiting(C, d) /\ C[d].owner["server"] = V[r].owner BY <1>1, <3>1 DEF PendingOK
    <3>3. W[r] # NoService BY <2>3 DEF At
    <3> QED BY <1>7, <2>1, <2>2, <2>3, <3>2, <3>3
  <2>4. ASSUME NEW r \in Service, NEW q \in Service, NEW i \in Nat, NEW j \in Nat,
               NEW d \in Connection, At(W, r, i, d), At(W, q, j, d)
        PROVE  r = q /\ i = j
    <3>1. PICK k \in Nat : At(V, r, k, d) /\ k = IF r = s THEN i + 1 ELSE i BY <2>2, <2>4
    <3>2. PICK l \in Nat : At(V, q, l, d) /\ l = IF q = s THEN j + 1 ELSE j BY <2>2, <2>4
    <3>3. r = q /\ k = l BY <1>1, <3>1, <3>2 DEF PendingOK
    <3> QED BY <3>1, <3>2, <3>3
  <2>5. ASSUME NEW d \in Connection, Waiting(D, d)
        PROVE  \E r \in Service, i \in Nat : At(W, r, i, d)
    <3>1. d # c /\ Waiting(C, d) BY <1>7, <1>8, <2>5
    <3>2. \E r \in Service, j \in Nat : At(V, r, j, d) BY <1>1, <3>1 DEF PendingOK
    <3> QED BY <1>1, <3>1, <3>2, PoppedPlaces
  <2> QED BY <2>1, <2>3, <2>4, <2>5 DEF PendingOK
<1>11. ListenersOK(W, H) BY <1>1, PoppedListeners
<1>12. Tables(W, D, H) BY <1>1 DEF Tables, Popped, ClosedSide
<1> QED BY <1>1, <1>4, <1>9, <1>10, <1>11, <1>12 DEF Good

\* A service without pending connections goes with its listener.
LEMMA ClearServiceGood ==
    ASSUME NEW V, NEW C, NEW H, NEW L, Good(V, C, H, L), NEW p \in Process, NEW h \in Slot,
           NEW s \in Service, H[p][h] = ListenerOf(s), V[s].pending = <<>>,
           NEW W, W = [V EXCEPT ![s] = NoService]
    PROVE  Good(W, C, Without(H, p, h), L)
<1> DEFINE U == Without(H, p, h)
<1>1. /\ Tables(V, C, H) /\ QueuesOK(C) /\ EndsOK(C, H) /\ PendingOK(V, C)
      /\ ListenersOK(V, H) /\ HandlesOK(H, L)
      /\ V \in [Service -> Services \cup {NoService}]
      /\ H \in [Process -> [Slot -> Entries]]
  BY DEF Good, Tables
<1>2. V[s] # NoService /\ V[s].owner = p BY <1>1 DEF ListenersOK
<1>3. /\ W \in [Service -> Services \cup {NoService}] /\ W[s] = NoService
      /\ \A r \in Service : r # s => W[r] = V[r]
  BY <1>1
<1>4. /\ U \in [Process -> [Slot -> Entries]] /\ U[p][h] = NoHandle
      /\ \A q \in Process, g \in Slot : <<q, g>> # <<p, h>> => U[q][g] = H[q][g]
  BY <1>1, WithoutFacts
<1> HIDE DEF U
<1>5. \A q \in Process, g \in Slot :
         U[q][g] # NoHandle => U[q][g] = H[q][g] /\ <<q, g>> # <<p, h>>
  BY <1>4
<1>6. EndsOK(C, U)
  <2>1. ASSUME NEW q \in Process, NEW g \in Slot, NEW d \in Connection, NEW x \in Side,
               U[q][g] = EndOf(d, x)
        PROVE  Attached(C, d, x) /\ C[d].owner[x] = q
    <3>1. H[q][g] = EndOf(d, x) BY <1>5, <2>1, EntryFacts
    <3> QED BY <1>1, <3>1 DEF EndsOK
  <2>2. ASSUME NEW d \in Connection, NEW x \in Side, Attached(C, d, x)
        PROVE  \E g \in Slot : U[C[d].owner[x]][g] = EndOf(d, x)
    <3>1. PICK g \in Slot : H[C[d].owner[x]][g] = EndOf(d, x) BY <1>1, <2>2 DEF EndsOK
    <3>2. C[d].owner[x] \in Process BY <1>1, <2>2, TableFacts, ConnFacts DEF Attached
    <3>3. <<C[d].owner[x], g>> # <<p, h>>
      <4> SUFFICES ASSUME C[d].owner[x] = p, g = h PROVE FALSE OBVIOUS
      <4>1. EndOf(d, x) = ListenerOf(s) BY <3>1
      <4>2. ListenerOf(s).type = "listener" /\ EndOf(d, x).type = "endpoint" BY EntryFacts
      <4> QED BY <4>1, <4>2
    <3> QED BY <1>4, <3>1, <3>2, <3>3
  <2> QED BY <2>1, <2>2 DEF EndsOK
<1>7. PendingOK(W, C)
  <2>1. \A i \in Nat, d \in Connection : ~At(V, s, i, d)
    <3>1. Len(V[s].pending) = 0 /\ \A i \in Nat : ~(i \in 1..0) OBVIOUS
    <3> QED BY <3>1 DEF At
  <2>2. \A r \in Service, i \in Nat, d \in Connection : At(W, r, i, d) <=> At(V, r, i, d)
    <3> SUFFICES ASSUME NEW r \in Service, NEW i \in Nat, NEW d \in Connection
                 PROVE  At(W, r, i, d) <=> At(V, r, i, d)
      OBVIOUS
    <3>1. CASE r = s
      <4>1. ~At(W, s, i, d) BY <1>3 DEF At
      <4> QED BY <2>1, <3>1, <4>1
    <3>2. CASE r # s BY <1>3, <3>2 DEF At
    <3> QED BY <3>1, <3>2
  <2>3. \A r \in Service, i \in Nat, d \in Connection : At(W, r, i, d) => W[r] = V[r]
    BY <1>3, <2>1, <2>2
  <2>4. \A r \in Service : W[r] # NoService => Len(W[r].pending) <= PendingMax
    BY <1>1, <1>3 DEF PendingOK
  <2>5. ASSUME NEW r \in Service, NEW i \in Nat, NEW d \in Connection, At(W, r, i, d)
        PROVE  Waiting(C, d) /\ C[d].owner["server"] = W[r].owner
    <3>1. At(V, r, i, d) /\ W[r] = V[r] BY <2>2, <2>3, <2>5
    <3>2. Waiting(C, d) /\ C[d].owner["server"] = V[r].owner BY <1>1, <3>1 DEF PendingOK
    <3> QED BY <3>1, <3>2
  <2>6. \A r, q \in Service, i, j \in Nat, d \in Connection :
           At(W, r, i, d) /\ At(W, q, j, d) => r = q /\ i = j
    BY <1>1, <2>2 DEF PendingOK
  <2>7. \A d \in Connection : Waiting(C, d) => \E r \in Service, i \in Nat : At(W, r, i, d)
    BY <1>1, <2>2 DEF PendingOK
  <2> QED BY <2>4, <2>5, <2>6, <2>7 DEF PendingOK
<1>8. ListenersOK(W, U)
  <2>1. ASSUME NEW q \in Process, NEW g \in Slot, NEW r \in Service, U[q][g] = ListenerOf(r)
        PROVE  W[r] # NoService /\ W[r].owner = q
    <3>1. H[q][g] = ListenerOf(r) /\ <<q, g>> # <<p, h>> BY <1>5, <2>1, EntryFacts
    <3>2. V[r] # NoService /\ V[r].owner = q BY <1>1, <3>1 DEF ListenersOK
    <3>3. r # s
      <4> SUFFICES ASSUME r = s PROVE FALSE OBVIOUS
      <4>1. q = p BY <1>2, <3>2
      <4>2. g = h BY <1>1, <3>1, <4>1, EntryFacts DEF HandlesOK
      <4> QED BY <3>1, <4>1, <4>2
    <3> QED BY <1>3, <3>2, <3>3
  <2>2. ASSUME NEW r \in Service, W[r] # NoService
        PROVE  \E g \in Slot : U[W[r].owner][g] = ListenerOf(r)
    <3>1. r # s /\ W[r] = V[r] BY <1>3, <2>2
    <3>2. PICK g \in Slot : H[V[r].owner][g] = ListenerOf(r)
      BY <1>1, <2>2, <3>1 DEF ListenersOK
    <3>3. V[r].owner \in Process BY <1>1, <2>2, <3>1, TableFacts, ServiceFacts
    <3>4. <<V[r].owner, g>> # <<p, h>>
      <4> SUFFICES ASSUME V[r].owner = p, g = h PROVE FALSE OBVIOUS
      <4>1. ListenerOf(r) = ListenerOf(s) BY <3>2
      <4>2. r = s BY <4>1, EntryFacts
      <4> QED BY <3>1, <4>2
    <3> QED BY <1>4, <3>1, <3>2, <3>3, <3>4
  <2>3. \A r, q \in Service :
           W[r] # NoService /\ W[q] # NoService /\ W[r].name = W[q].name => r = q
    BY <1>1, <1>3 DEF ListenersOK
  <2> QED BY <2>1, <2>2, <2>3 DEF ListenersOK
<1>9. HandlesOK(U, L) BY <1>1, WithoutHandles DEF U
<1>10. Tables(W, C, U) BY <1>1, <1>3, <1>4 DEF Tables
<1> QED BY <1>1, <1>6, <1>7, <1>8, <1>9, <1>10 DEF Good, U
----------------------------------------------------------------------------
(* Closing and the sleepers                                                *)

\* What a blocked process waits on.
LEMMA SleeperFacts ==
    ASSUME CallsOK, alive \subseteq Process, handle \in [Process -> [Slot -> Entries]],
           NEW q \in blocked
    PROVE  /\ q \in Process /\ call[q] \in Calls /\ call[q].handle \in Slot
           /\ \/ /\ call[q].op = "accept"
                 /\ \E s \in Service :
                      /\ handle[q][call[q].handle] = ListenerOf(s)
                      /\ \A V, C : StillFalse(q, V, C) <=> V[s].pending = <<>>
              \/ /\ call[q].op = "receive"
                 /\ \E c \in Connection, side \in Side :
                      /\ handle[q][call[q].handle] = EndOf(c, side)
                      /\ \A V, C : StillFalse(q, V, C) <=>
                            C[c].queue[side] = <<>> /\ C[c].open[Peer(side)]
<1> DEFINE e == handle[q][call[q].handle]
<1>1. q \in Process /\ call[q] # InUser BY DEF CallsOK
<1>2. call[q] \in Calls BY <1>1 DEF CallsOK
<1>3. call[q].op \in {"accept", "receive"} /\ call[q].handle \in Slot BY <1>2 DEF Calls
<1>4. e \in Entries BY <1>1, <1>3
<1>5. e.type = IF call[q].op = "accept" THEN "listener" ELSE "endpoint"
  BY <1>1 DEF CallsOK
<1> HIDE DEF e
<1>6. CASE call[q].op = "accept"
  <2>1. e.object \in Service /\ e = ListenerOf(e.object) BY <1>4, <1>5, <1>6, EntryFacts
  <2>2. \A V, C : StillFalse(q, V, C) <=> V[e.object].pending = <<>>
    BY <1>6 DEF StillFalse, e
  <2> QED BY <1>1, <1>2, <1>3, <1>6, <2>1, <2>2 DEF e
<1>7. CASE call[q].op = "receive"
  <2>1. e.object \in Connection /\ e.side \in Side /\ e = EndOf(e.object, e.side)
    BY <1>4, <1>5, <1>7, EntryFacts
  <2>2. \A V, C : StillFalse(q, V, C) <=>
           C[e.object].queue[e.side] = <<>> /\ C[e.object].open[Peer(e.side)]
    BY <1>7 DEF StillFalse, e
  <2> QED BY <1>1, <1>2, <1>3, <1>7, <2>1, <2>2 DEF e
<1> QED BY <1>3, <1>6, <1>7

\* H is the handle table with handles of p taken away, p is not blocked.
Partial(H, p) ==
    /\ CallsOK /\ alive \subseteq Process /\ handle \in [Process -> [Slot -> Entries]]
    /\ p \notin blocked
    /\ \A q \in Process : q # p => H[q] = handle[q]
    /\ refs \in [Object -> Int]

\* Closing only gives references up.
Lower(R) == \A o \in Object : R[o] <= refs[o]

\* Releasing the messages of a queue only lowers the references of objects.
LEMMA LowerStill ==
    ASSUME refs \in [Object -> Int], NEW R \in [Object -> Int], Lower(R),
           NEW R2 \in [Object -> Int], NEW q \in Seq(Message),
           \A o \in Object : R2[o] = R[o] - Cardinality(Pos(q, o))
    PROVE  Lower(R2)
<1> SUFFICES ASSUME NEW o \in Object PROVE R2[o] <= refs[o] BY DEF Lower
<1>1. Cardinality(Pos(q, o)) \in Nat BY PosFinite
<1>2. R[o] <= refs[o] /\ R[o] \in Int /\ refs[o] \in Int BY DEF Lower
<1>3. R2[o] = R[o] - Cardinality(Pos(q, o)) OBVIOUS
<1> QED BY <1>1, <1>2, <1>3

\* Closing a side that no sleeper holds wakes the sleeper of the other side.
LEMMA ClosedAsleep ==
    ASSUME NEW V, NEW C, NEW D, NEW H, NEW p, Partial(H, p), EndsOK(C, H),
           NEW c \in Connection, NEW side \in Side, ClosedSide(C, D, c, side),
           \A q \in blocked, h \in Slot : handle[q][h] # EndOf(c, side),
           NEW woken, Asleep(V, C, woken)
    PROVE  Asleep(V, D, woken \cup {C[c].owner[Peer(side)]})
<1> SUFFICES ASSUME NEW q \in blocked, q \notin woken, q # C[c].owner[Peer(side)]
             PROVE  StillFalse(q, V, D)
  BY DEF Asleep
<1>1. StillFalse(q, V, C) BY DEF Asleep
<1>2. CallsOK /\ alive \subseteq Process /\ handle \in [Process -> [Slot -> Entries]]
      /\ q # p /\ \A r \in Process : r # p => H[r] = handle[r]
  BY DEF Partial
<1>3. q \in Process /\ call[q].handle \in Slot BY <1>2, SleeperFacts
<1>4. ASSUME NEW s \in Service, \A W, E : StillFalse(q, W, E) <=> W[s].pending = <<>>
      PROVE  StillFalse(q, V, D)
  BY <1>1, <1>4
<1>5. ASSUME NEW d \in Connection, NEW x \in Side,
             handle[q][call[q].handle] = EndOf(d, x),
             \A W, E : StillFalse(q, W, E) <=> E[d].queue[x] = <<>> /\ E[d].open[Peer(x)]
      PROVE  StillFalse(q, V, D)
  <2>1. H[q][call[q].handle] = EndOf(d, x) BY <1>2, <1>3, <1>5
  <2>2. C[d].owner[x] = q BY <1>3, <1>5, <2>1 DEF EndsOK
  <2>3. d # c
    <3> SUFFICES ASSUME d = c PROVE FALSE OBVIOUS
    <3>1. x # side BY <1>3, <1>5
    <3>2. x = Peer(side) BY <3>1, Sides
    <3> QED BY <2>2, <3>2
  <2>4. D[d] = C[d] BY <2>3 DEF ClosedSide
  <2> QED BY <1>1, <1>5, <2>4
<1> QED BY <1>2, <1>4, <1>5, SleeperFacts

\* A service that no sleeper listens on may change.
LEMMA ServiceAsleep ==
    ASSUME NEW V, NEW W, NEW C, NEW H, NEW p, Partial(H, p), NEW s \in Service,
           \A r \in Service : r # s => W[r] = V[r],
           \A q \in blocked, h \in Slot : handle[q][h] # ListenerOf(s),
           NEW woken, Asleep(V, C, woken)
    PROVE  Asleep(W, C, woken)
<1> SUFFICES ASSUME NEW q \in blocked, q \notin woken PROVE StillFalse(q, W, C)
  BY DEF Asleep
<1>1. StillFalse(q, V, C) BY DEF Asleep
<1>2. CallsOK /\ alive \subseteq Process /\ handle \in [Process -> [Slot -> Entries]]
  BY DEF Partial
<1>3. q \in Process /\ call[q].handle \in Slot BY <1>2, SleeperFacts
<1>4. ASSUME NEW r \in Service, handle[q][call[q].handle] = ListenerOf(r),
             \A T, E : StillFalse(q, T, E) <=> T[r].pending = <<>>
      PROVE  StillFalse(q, W, C)
  <2>1. r # s BY <1>3, <1>4
  <2> QED BY <1>1, <1>4, <2>1
<1>5. ASSUME NEW d \in Connection, NEW x \in Side,
             \A T, E : StillFalse(q, T, E) <=> E[d].queue[x] = <<>> /\ E[d].open[Peer(x)]
      PROVE  StillFalse(q, W, C)
  BY <1>1, <1>5
<1> QED BY <1>2, <1>4, <1>5, SleeperFacts

\* Closing does not touch what is queued for a side that stays open.
Kept(C) == \A c \in Connection, side \in Side : C[c] # NoConnection /\ C[c].open[side] =>
              /\ conn[c] # NoConnection /\ conn[c].open[side]
              /\ C[c].queue[side] = conn[c].queue[side]

\* Closing a side takes no message from a side that stays open.
LEMMA KeptStill ==
    ASSUME NEW C, NEW D, Kept(C), NEW c \in Connection, NEW side \in Side,
           ClosedSide(C, D, c, side), C[c] # NoConnection
    PROVE  Kept(D)
<1> SUFFICES ASSUME NEW d \in Connection, NEW x \in Side, D[d] # NoConnection, D[d].open[x]
             PROVE  /\ conn[d] # NoConnection /\ conn[d].open[x]
                    /\ D[d].queue[x] = conn[d].queue[x]
  BY DEF Kept
<1>1. CASE d # c BY <1>1 DEF Kept, ClosedSide
<1>2. CASE d = c
  <2>1. C[c].open[Peer(side)] BY <1>2 DEF ClosedSide
  <2>2. /\ D[c].queue[Peer(side)] = C[c].queue[Peer(side)] /\ ~D[c].open[side]
    BY <2>1 DEF ClosedSide
  <2>3. x = Peer(side) BY <1>2, <2>2, Sides
  <2> QED BY <1>2, <2>1, <2>2, <2>3 DEF Kept
<1> QED BY <1>1, <1>2

\* The state while handles of p are being closed.
Fine(st, H) ==
    /\ st \in States
    /\ Good(st.service, st.conn, H, alive)
    /\ Counted(st.refs, st.conn) /\ Lower(st.refs) /\ Kept(st.conn)
    /\ Asleep(st.service, st.conn, st.woken)

HeldInts == \A o \in Object : Held(o) \in Int

\* One turn of boring_ipc_process_cleanup at a connection: closing the end and clearing
\* the handle keeps the loop invariant.
LEMMA CloseEndFine ==
    ASSUME NEW st, NEW H, NEW p \in Process, Partial(H, p), Fine(st, H), HeldInts,
           NEW h \in Slot, NEW c \in Connection, NEW side \in Side, H[p][h] = EndOf(c, side)
    PROVE  Fine(close_connection_side(st, c, side), Without(H, p, h))
<1> DEFINE t == close_connection_side(st, c, side)
<1>1. /\ st \in States /\ Good(st.service, st.conn, H, alive)
      /\ Counted(st.refs, st.conn) /\ Asleep(st.service, st.conn, st.woken)
  BY DEF Fine
<1>2. QueuesOK(st.conn) /\ EndsOK(st.conn, H) /\ HandlesOK(H, alive)
      /\ st.conn \in [Connection -> Conns \cup {NoConnection}]
  BY <1>1 DEF Good, Tables
<1>3. /\ Attached(st.conn, c, side) /\ st.conn[c].owner[side] = p BY <1>2 DEF EndsOK
<1>4. st.conn[c] # NoConnection /\ st.conn[c].open[side] BY <1>3 DEF Attached
<1>5. /\ t \in States /\ t.service = st.service
      /\ ClosedSide(st.conn, t.conn, c, side)
      /\ \A o \in Object :
            t.refs[o] = st.refs[o] - Cardinality(Pos(st.conn[c].queue[side], o))
      /\ t.woken = st.woken \cup {st.conn[c].owner[Peer(side)]}
  BY <1>1, <1>2, <1>4, CloseSideFacts
<1> HIDE DEF t
<1>6. Good(t.service, t.conn, Without(H, p, h), alive) BY <1>1, <1>5, CloseEndGood
<1>7. Counted(t.refs, t.conn) BY <1>1, <1>2, <1>4, <1>5, ClosedCounted DEF HeldInts
<1>8. \A q \in blocked, g \in Slot : handle[q][g] # EndOf(c, side)
  <2> SUFFICES ASSUME NEW q \in blocked, NEW g \in Slot, handle[q][g] = EndOf(c, side)
               PROVE  FALSE
    OBVIOUS
  <2>1. q \in Process /\ q # p /\ H[q] = handle[q] BY DEF Partial, CallsOK
  <2>2. st.conn[c].owner[side] = q BY <1>2, <2>1 DEF EndsOK
  <2> QED BY <1>3, <2>1, <2>2
<1>9. Asleep(t.service, t.conn, t.woken) BY <1>1, <1>2, <1>5, <1>8, ClosedAsleep
<1>10. Lower(t.refs)
  <2>1. st.conn[c] \in Conns BY <1>2, <1>4
  <2>2. st.conn[c].queue[side] \in Seq(Message) BY <2>1, ConnFacts
  <2>3. st.refs \in [Object -> Int] /\ t.refs \in [Object -> Int] BY <1>1, <1>5 DEF States
  <2>4. refs \in [Object -> Int] /\ Lower(st.refs) BY DEF Partial, Fine
  <2> QED BY <1>5, <2>2, <2>3, <2>4, LowerStill
<1>11. Kept(t.conn)
  <2>1. Kept(st.conn) BY DEF Fine
  <2> QED BY <1>4, <1>5, <2>1, KeptStill
<1> QED BY <1>5, <1>6, <1>7, <1>9, <1>10, <1>11 DEF Fine, t

\* The pending queue of s after its first n connections have been rejected.
Left(V, s, n) ==
    [V EXCEPT ![s] = [V[s] EXCEPT !.pending = SubSeq(V[s].pending, n + 1, Len(V[s].pending))]]
IsLeft(W, V, s, n) ==
    /\ W \in [Service -> Services \cup {NoService}]
    /\ W[s] # NoService /\ W[s].owner = V[s].owner /\ W[s].name = V[s].name
    /\ W[s].pending \in Seq(Connection)
    /\ Len(W[s].pending) = Len(V[s].pending) - n
    /\ \A i \in 1..(Len(V[s].pending) - n) : W[s].pending[i] = V[s].pending[n + i]
    /\ \A r \in Service : r # s => W[r] = V[r]

\* The pending queue after n turns of unregister_service is its rest from n + 1 on.
LEMMA LeftFacts ==
    ASSUME NEW V \in [Service -> Services \cup {NoService}], NEW s \in Service,
           V[s] # NoService, NEW n \in Nat, n <= Len(V[s].pending)
    PROVE  IsLeft(Left(V, s, n), V, s, n)
<1> DEFINE W == Left(V, s, n)
           q == V[s].pending
           r == SubSeq(q, n + 1, Len(q))
           v == [V[s] EXCEPT !.pending = r]
<1>1. V[s] \in Services OBVIOUS
<1>2. q \in Seq(Connection) /\ Len(q) \in Nat BY <1>1, ServiceFacts
<1>3. r \in Seq(Connection) /\ Len(r) = Len(q) - n
      /\ \A i \in 1..(Len(q) - n) : r[i] = q[n + i]
  <2> HIDE DEF q
  <2>1. n + 1 \in 1..(Len(q) + 1) BY <1>2 DEF q
  <2> QED BY <1>2, <2>1
<1>4. W = [V EXCEPT ![s] = v] BY DEF Left
<1> HIDE DEF r
<1>5. v \in Services /\ v.owner = V[s].owner /\ v.name = V[s].name /\ v.pending = r
  BY <1>1, <1>3 DEF Services
<1> HIDE DEF v
<1>6. W \in [Service -> Services \cup {NoService}] /\ W[s] = v
      /\ \A x \in Service : x # s => W[x] = V[x]
  BY <1>4, <1>5
<1> HIDE DEF W
<1>7. v # NoService BY <1>5, ServiceFacts
<1> QED BY <1>3, <1>5, <1>6, <1>7 DEF W, IsLeft

\* A turn of unregister_service pops the head of what is left.
LEMMA LeftPopped ==
    ASSUME NEW V \in [Service -> Services \cup {NoService}], NEW s \in Service,
           V[s] # NoService, Len(V[s].pending) <= PendingMax,
           NEW n \in Nat, n + 1 <= Len(V[s].pending)
    PROVE  /\ Popped(Left(V, s, n), Left(V, s, n + 1), s)
           /\ At(Left(V, s, n), s, 1, V[s].pending[n + 1])
           /\ V[s].pending[n + 1] \in Connection
<1> DEFINE A == Left(V, s, n)
           B == Left(V, s, n + 1)
           q == V[s].pending
           m == Len(q)
<1>1. V[s] \in Services OBVIOUS
<1>2. q \in Seq(Connection) /\ m \in Nat BY <1>1, ServiceFacts
<1>3. n <= m /\ n + 1 \in Nat /\ PendingMax \in Nat BY <1>2, IpcAssumption
<1>4. /\ A[s] # NoService /\ A[s].owner = V[s].owner /\ A[s].name = V[s].name
      /\ Len(A[s].pending) = m - n
      /\ \A i \in 1..(m - n) : A[s].pending[i] = q[n + i]
      /\ \A r \in Service : r # s => A[r] = V[r]
  <2>1. IsLeft(A, V, s, n) BY <1>3, LeftFacts
  <2> HIDE DEF A
  <2> QED BY <2>1 DEF IsLeft
<1>5. /\ B \in [Service -> Services \cup {NoService}]
      /\ B[s] # NoService /\ B[s].owner = V[s].owner /\ B[s].name = V[s].name
      /\ Len(B[s].pending) = m - (n + 1)
      /\ \A i \in 1..(m - (n + 1)) : B[s].pending[i] = q[(n + 1) + i]
      /\ \A r \in Service : r # s => B[r] = V[r]
  <2>1. IsLeft(B, V, s, n + 1) BY <1>3, LeftFacts
  <2> HIDE DEF B
  <2> QED BY <2>1 DEF IsLeft
<1> HIDE DEF A, B
<1>6. ASSUME NEW i \in Nat, NEW c \in Connection
      PROVE  At(B, s, i, c) <=> (i > 0 /\ At(A, s, i + 1, c))
  <2>1. At(B, s, i, c) <=> i \in 1..(m - (n + 1)) /\ q[(n + 1) + i] = c BY <1>5 DEF At
  <2>2. At(A, s, i + 1, c) <=> i + 1 \in 1..(m - n) /\ q[n + (i + 1)] = c BY <1>4 DEF At
  <2>3. n + (i + 1) = (n + 1) + i OBVIOUS
  <2>4. i \in 1..(m - (n + 1)) <=> (i > 0 /\ i + 1 \in 1..(m - n)) BY <1>2
  <2> QED BY <2>1, <2>2, <2>3, <2>4
<1>7. Len(B[s].pending) <= PendingMax BY <1>2, <1>3, <1>5
<1>8. Popped(A, B, s) BY <1>4, <1>5, <1>6, <1>7 DEF Popped
<1>9. At(A, s, 1, q[n + 1])
  <2>1. 1 \in 1..(m - n) BY <1>2
  <2> QED BY <1>4, <2>1 DEF At
<1>10. q[n + 1] \in Connection
  <2>1. n + 1 \in 1..m BY <1>2
  <2> QED BY <1>2, <2>1
<1> QED BY <1>8, <1>9, <1>10 DEF A, B

\* The loop of unregister_service starts with the whole queue and ends with none.
LEMMA LeftNone ==
    ASSUME NEW V \in [Service -> Services \cup {NoService}], NEW s \in Service,
           V[s] # NoService
    PROVE  Left(V, s, 0) = V /\ Left(V, s, Len(V[s].pending))[s].pending = <<>>
<1> DEFINE q == V[s].pending
<1>1. V[s] \in Services OBVIOUS
<1>2. q \in Seq(Connection) /\ Len(q) \in Nat BY <1>1, ServiceFacts
<1>3. SubSeq(q, 0 + 1, Len(q)) = q BY <1>2
<1>4. [V[s] EXCEPT !.pending = q] = V[s] BY <1>1 DEF Services
<1>5. Left(V, s, 0) = V BY <1>3, <1>4 DEF Left
<1> DEFINE W == Left(V, s, Len(q))
<1>6. W[s].pending \in Seq(Connection) /\ Len(W[s].pending) = Len(q) - Len(q)
  <2>1. IsLeft(W, V, s, Len(q)) BY <1>2, LeftFacts
  <2> HIDE DEF W
  <2> QED BY <2>1 DEF IsLeft
<1>7. W[s].pending = <<>> BY <1>2, <1>6
<1> QED BY <1>5, <1>7

\* One connection of a pending queue is rejected.
LEMMA RejectFine ==
    ASSUME NEW st \in States, NEW H, NEW p \in Process, Partial(H, p), HeldInts,
           NEW s \in Service, NEW V, NEW W, NEW c \in Connection,
           Good(V, st.conn, H, alive), At(V, s, 1, c), Popped(V, W, s),
           Counted(st.refs, st.conn), Lower(st.refs), Kept(st.conn),
           Asleep(st.service, st.conn, st.woken)
    PROVE  LET t == reject_pending(st, c)
           IN  /\ t \in States /\ t.service = st.service
               /\ Good(W, t.conn, H, alive)
               /\ Counted(t.refs, t.conn) /\ Lower(t.refs) /\ Kept(t.conn)
               /\ Asleep(t.service, t.conn, t.woken)
<1> DEFINE t == close_connection_side(st, c, "server")
<1>1. QueuesOK(st.conn) /\ EndsOK(st.conn, H) /\ PendingOK(V, st.conn)
      /\ st.conn \in [Connection -> Conns \cup {NoConnection}]
  BY DEF Good, Tables
<1>2. Waiting(st.conn, c) BY <1>1 DEF PendingOK
<1>3. /\ st.conn[c] # NoConnection /\ st.conn[c].open["server"] /\ ~st.conn[c].accepted
      /\ "server" \in Side
  BY <1>2 DEF Waiting, Side
<1>4. reject_pending(st, c) = t BY <1>3 DEF reject_pending
<1>5. /\ t \in States /\ t.service = st.service
      /\ ClosedSide(st.conn, t.conn, c, "server")
      /\ \A o \in Object :
            t.refs[o] = st.refs[o] - Cardinality(Pos(st.conn[c].queue["server"], o))
      /\ t.woken = st.woken \cup {st.conn[c].owner[Peer("server")]}
  BY <1>1, <1>3, CloseSideFacts
<1> HIDE DEF t
<1>6. Good(W, t.conn, H, alive) BY <1>5, RejectGood
<1>7. Counted(t.refs, t.conn) BY <1>1, <1>3, <1>5, ClosedCounted DEF HeldInts
<1>8. \A q \in blocked, g \in Slot : handle[q][g] # EndOf(c, "server")
  <2> SUFFICES ASSUME NEW q \in blocked, NEW g \in Slot, handle[q][g] = EndOf(c, "server")
               PROVE  FALSE
    OBVIOUS
  <2>1. q \in Process /\ q # p /\ H[q] = handle[q] BY DEF Partial, CallsOK
  <2>2. Attached(st.conn, c, "server") BY <1>1, <1>3, <2>1 DEF EndsOK
  <2> QED BY <1>3, <2>2 DEF Attached
<1>9. Asleep(t.service, t.conn, t.woken) BY <1>1, <1>3, <1>5, <1>8, ClosedAsleep
<1>10. Lower(t.refs)
  <2>1. st.conn[c] \in Conns BY <1>1, <1>3
  <2>2. st.conn[c].queue["server"] \in Seq(Message) BY <1>3, <2>1, ConnFacts
  <2>3. st.refs \in [Object -> Int] /\ t.refs \in [Object -> Int] BY <1>5 DEF States
  <2>4. refs \in [Object -> Int] BY DEF Partial
  <2> QED BY <1>5, <2>2, <2>3, <2>4, LowerStill
<1>11. Kept(t.conn) BY <1>3, <1>5, KeptStill
<1> QED BY <1>4, <1>5, <1>6, <1>7, <1>9, <1>10, <1>11

\* The state t after i connections of the queue of s in st have been rejected.
Rejecting(t, st, H, s, i) ==
    /\ t \in States /\ t.service = st.service
    /\ Good(Left(st.service, s, i), t.conn, H, alive)
    /\ Counted(t.refs, t.conn) /\ Lower(t.refs) /\ Kept(t.conn)
    /\ Asleep(t.service, t.conn, t.woken)

\* The loop of unregister_service, for any function that follows it.
LEMMA RejectLoop ==
    ASSUME NEW st, NEW H, NEW p \in Process, Partial(H, p), Fine(st, H), HeldInts,
           NEW s \in Service, st.service[s] # NoService,
           NEW f, f[0] = st,
           \A i \in 1..Len(st.service[s].pending) :
              Rejecting(f[i - 1], st, H, s, i - 1)
                 => f[i] = reject_pending(f[i - 1], st.service[s].pending[i])
    PROVE  \A i \in 0..Len(st.service[s].pending) : Rejecting(f[i], st, H, s, i)
<1> DEFINE q == st.service[s].pending
           n == Len(q)
           T == {i \in Nat : i <= n => Rejecting(f[i], st, H, s, i)}
<1>1. /\ st \in States /\ Good(st.service, st.conn, H, alive)
      /\ Counted(st.refs, st.conn) /\ Lower(st.refs) /\ Kept(st.conn)
      /\ Asleep(st.service, st.conn, st.woken)
  BY DEF Fine
<1>2. st.service \in [Service -> Services \cup {NoService}] /\ PendingOK(st.service, st.conn)
  BY <1>1 DEF Good, Tables
<1>3. n \in Nat /\ n <= PendingMax
  <2>1. st.service[s] \in Services BY <1>2
  <2>2. q \in Seq(Connection) BY <2>1, ServiceFacts
  <2> QED BY <1>2, <2>2 DEF PendingOK
<1>4. 0 \in T
  <2>1. Left(st.service, s, 0) = st.service BY <1>2, LeftNone
  <2> QED BY <1>1, <2>1 DEF Rejecting
<1>5. ASSUME NEW i \in Nat, i \in T PROVE i + 1 \in T
  <2> SUFFICES ASSUME i + 1 <= n PROVE Rejecting(f[i + 1], st, H, s, i + 1) OBVIOUS
  <2>1. Rejecting(f[i], st, H, s, i) BY <1>3, <1>5
  <2>2. i + 1 \in 1..n /\ (i + 1) - 1 = i BY <1>3
  <2>3. f[i + 1] = reject_pending(f[i], q[i + 1]) BY <2>1, <2>2
  <2>4. /\ Popped(Left(st.service, s, i), Left(st.service, s, i + 1), s)
        /\ At(Left(st.service, s, i), s, 1, q[i + 1]) /\ q[i + 1] \in Connection
    BY <1>2, <1>3, LeftPopped
  <2> DEFINE t == reject_pending(f[i], q[i + 1])
  <2>5. /\ t \in States /\ t.service = f[i].service
        /\ Good(Left(st.service, s, i + 1), t.conn, H, alive)
        /\ Counted(t.refs, t.conn) /\ Lower(t.refs) /\ Kept(t.conn)
        /\ Asleep(t.service, t.conn, t.woken)
    <3> HIDE DEF q
    <3> QED BY <2>1, <2>4, RejectFine DEF Rejecting
  <2> QED BY <2>1, <2>3, <2>5 DEF Rejecting
<1>6. Nat \subseteq T
  <2> HIDE DEF T
  <2> QED BY <1>4, <1>5, SetInduction
<1> QED BY <1>3, <1>6

\* A listener is closed with its service.
LEMMA UnregisterFine ==
    ASSUME NEW st, NEW H, NEW p \in Process, Partial(H, p), Fine(st, H), HeldInts,
           NEW h \in Slot, NEW s \in Service, H[p][h] = ListenerOf(s)
    PROVE  Fine(unregister_service(st, s), Without(H, p, h))
<1> DEFINE q == st.service[s].pending
           n == Len(q)
<1>1. /\ st \in States /\ Good(st.service, st.conn, H, alive)
      /\ st.service \in [Service -> Services \cup {NoService}]
      /\ ListenersOK(st.service, H)
  BY DEF Fine, Good, Tables
<1>2. st.service[s] # NoService /\ st.service[s].owner = p BY <1>1 DEF ListenersOK
<1>3. n \in Nat
  <2>1. st.service[s] \in Services BY <1>1, <1>2
  <2>2. q \in Seq(Connection) BY <2>1, ServiceFacts
  <2> QED BY <2>2
<1> HIDE DEF q, n
<1> DEFINE F == [x \in States \X (1..n) |->
                   IF reject_pending(x[1], q[x[2]]) \in States
                     THEN reject_pending(x[1], q[x[2]]) ELSE x[1]]
<1>4. \A t \in States, i \in 1..n :
         /\ F[<<t, i>>] \in States
         /\ reject_pending(t, q[i]) \in States => F[<<t, i>>] = reject_pending(t, q[i])
  OBVIOUS
<1> HIDE DEF F
<1>5. PICK g : Iterates(g, F, States, st, n)
  <2>1. StaysIn(F, States, n) BY <1>4 DEF StaysIn
  <2> QED BY <1>1, <1>3, <2>1, Iteration
<1>6. /\ g \in [0..n -> States] /\ g[0] = st
      /\ \A i \in 1..n : g[i] = F[<<g[i - 1], i>>]
  BY <1>5 DEF Iterates
<1>7. ASSUME NEW i \in 1..n, Rejecting(g[i - 1], st, H, s, i - 1)
      PROVE  g[i] = reject_pending(g[i - 1], q[i])
  <2>1. i - 1 \in Nat /\ (i - 1) + 1 = i /\ (i - 1) + 1 <= n BY <1>3
  <2>2. PendingOK(st.service, st.conn) BY <1>1 DEF Good
  <2>3. Len(q) <= PendingMax BY <1>2, <2>2 DEF PendingOK, q
  <2>4. /\ Popped(Left(st.service, s, i - 1), Left(st.service, s, (i - 1) + 1), s)
        /\ At(Left(st.service, s, i - 1), s, 1, q[(i - 1) + 1]) /\ q[(i - 1) + 1] \in Connection
    BY <1>1, <1>2, <2>1, <2>3, LeftPopped DEF q, n
  <2>5. /\ Popped(Left(st.service, s, i - 1), Left(st.service, s, i), s)
        /\ At(Left(st.service, s, i - 1), s, 1, q[i]) /\ q[i] \in Connection
    BY <2>1, <2>4
  <2>6. reject_pending(g[i - 1], q[i]) \in States
    BY <1>7, <2>5, RejectFine DEF Rejecting
  <2>7. g[i - 1] \in States BY <1>7 DEF Rejecting
  <2> QED BY <1>4, <1>6, <2>6, <2>7
<1>8. \A i \in 0..n : Rejecting(g[i], st, H, s, i)
  BY <1>2, <1>6, <1>7, RejectLoop DEF q, n
<1>9. \A i \in 1..n : g[i] = reject_pending(g[i - 1], q[i])
  <2> TAKE i \in 1..n
  <2>1. i - 1 \in 0..n BY <1>3
  <2> QED BY <1>7, <1>8, <2>1
\* The function of the definition exists, since g is one.
<1> DEFINE rejected == CHOOSE f : f = [i \in 0..n |->
                          IF i = 0 THEN st ELSE reject_pending(f[i - 1], q[i])]
<1>10. g = [i \in 0..n |-> IF i = 0 THEN st ELSE reject_pending(g[i - 1], q[i])]
  BY <1>3, <1>6, <1>9
<1>11. rejected = [i \in 0..n |->
                     IF i = 0 THEN st ELSE reject_pending(rejected[i - 1], q[i])]
  BY <1>10
<1>12. unregister_service(st, s) = [rejected[n] EXCEPT !.service[s] = NoService]
  BY DEF unregister_service, q, n
<1> HIDE DEF rejected
<1>13. /\ rejected[0] = st
       /\ \A i \in 1..n : rejected[i] = reject_pending(rejected[i - 1], q[i])
  BY <1>3, <1>11
<1>14. \A i \in 0..n : Rejecting(rejected[i], st, H, s, i)
  BY <1>2, <1>13, RejectLoop DEF q, n
<1> DEFINE t == rejected[n]
           V == Left(st.service, s, n)
           u == [t EXCEPT !.service[s] = NoService]
<1>15. /\ t \in States /\ t.service = st.service /\ Good(V, t.conn, H, alive)
       /\ Counted(t.refs, t.conn) /\ Lower(t.refs) /\ Kept(t.conn)
       /\ Asleep(t.service, t.conn, t.woken)
  BY <1>3, <1>14 DEF Rejecting
<1> HIDE DEF t
<1>16. V[s].pending = <<>> BY <1>1, <1>2, LeftNone DEF q, n
<1>17. [V EXCEPT ![s] = NoService] = [st.service EXCEPT ![s] = NoService]
  BY <1>1 DEF Left
<1> HIDE DEF V
<1>18. Good([V EXCEPT ![s] = NoService], t.conn, Without(H, p, h), alive)
  BY <1>15, <1>16, ClearServiceGood
<1>19. /\ u \in States /\ u.service = [st.service EXCEPT ![s] = NoService]
       /\ u.conn = t.conn /\ u.refs = t.refs /\ u.woken = t.woken
  BY <1>1, <1>15 DEF States
<1> HIDE DEF u
<1>20. Asleep(u.service, t.conn, t.woken)
  <2>1. \A r \in Service : r # s => u.service[r] = t.service[r] BY <1>1, <1>15, <1>19
  <2>2. \A x \in blocked, g1 \in Slot : handle[x][g1] # ListenerOf(s)
    <3> SUFFICES ASSUME NEW x \in blocked, NEW g1 \in Slot, handle[x][g1] = ListenerOf(s)
                 PROVE  FALSE
      OBVIOUS
    <3>1. x \in Process /\ x # p /\ H[x] = handle[x] BY DEF Partial, CallsOK
    <3>2. st.service[s].owner = x BY <1>1, <3>1 DEF ListenersOK
    <3> QED BY <1>2, <3>1, <3>2
  <2> QED BY <1>15, <2>1, <2>2, ServiceAsleep
<1>21. Fine(u, Without(H, p, h)) BY <1>15, <1>17, <1>18, <1>19, <1>20 DEF Fine
<1> QED BY <1>12, <1>21 DEF u, t

\* A handle is closed, whatever it names.
LEMMA CloseEntryFine ==
    ASSUME NEW st, NEW H, NEW p \in Process, Partial(H, p), Fine(st, H), HeldInts,
           NEW h \in Slot
    PROVE  Fine(CloseEntry(st, H[p][h]), Without(H, p, h))
<1> DEFINE e == H[p][h]
<1>1. H \in [Process -> [Slot -> Entries]] BY DEF Fine, Good, Tables
<1>2. e \in Entries BY <1>1
<1>3. CASE e.type = "listener"
  <2>1. e.object \in Service /\ e = ListenerOf(e.object) BY <1>2, <1>3, EntryFacts
  <2>2. CloseEntry(st, e) = unregister_service(st, e.object) BY <1>3 DEF CloseEntry
  <2>3. Fine(unregister_service(st, e.object), Without(H, p, h)) BY <2>1, UnregisterFine
  <2> QED BY <2>2, <2>3
<1>4. CASE e.type = "endpoint"
  <2>1. e.object \in Connection /\ e.side \in Side /\ e = EndOf(e.object, e.side)
    BY <1>2, <1>4, EntryFacts
  <2>2. CloseEntry(st, e) = close_connection_side(st, e.object, e.side)
    BY <1>4 DEF CloseEntry
  <2>3. Fine(close_connection_side(st, e.object, e.side), Without(H, p, h))
    BY <2>1, CloseEndFine
  <2> QED BY <2>2, <2>3
<1>5. CASE e.type = "none"
  <2>1. e = NoHandle BY <1>2, <1>5, EntryFacts
  <2>2. CloseEntry(st, e) = st BY <1>5 DEF CloseEntry
  <2>3. Without(H, p, h) = H BY <1>1, <2>1 DEF Without
  <2> QED BY <2>2, <2>3
<1> QED BY <1>2, <1>3, <1>4, <1>5, EntryFacts

\* The handles of p up to slot n are gone.
Emptied(p, n) ==
    [handle EXCEPT ![p] = [h \in Slot |-> IF h <= n THEN NoHandle ELSE handle[p][h]]]

\* boring_ipc_process_cleanup clears the handles of a process slot by slot.
LEMMA EmptiedFacts ==
    ASSUME NEW p \in Process, handle \in [Process -> [Slot -> Entries]]
    PROVE  /\ Emptied(p, 0) = handle
           /\ \A n \in Nat : n + 1 \in Slot =>
                /\ Emptied(p, n)[p][n + 1] = handle[p][n + 1]
                /\ Without(Emptied(p, n), p, n + 1) = Emptied(p, n + 1)
           /\ \A n : \A q \in Process : q # p => Emptied(p, n)[q] = handle[q]
           /\ Emptied(p, HandleMax) = [handle EXCEPT ![p] = [h \in Slot |-> NoHandle]]
<1>0. HandleMax \in Nat BY IpcAssumption
<1>1. Emptied(p, 0) = handle
  <2>1. \A h \in Slot : ~(h <= 0) BY <1>0 DEF Slot
  <2>2. [h \in Slot |-> IF h <= 0 THEN NoHandle ELSE handle[p][h]] = handle[p] BY <2>1
  <2> QED BY <2>2 DEF Emptied
<1>2. ASSUME NEW n \in Nat, n + 1 \in Slot
      PROVE  /\ Emptied(p, n)[p][n + 1] = handle[p][n + 1]
             /\ Without(Emptied(p, n), p, n + 1) = Emptied(p, n + 1)
  <2> DEFINE A == [h \in Slot |-> IF h <= n THEN NoHandle ELSE handle[p][h]]
             B == [h \in Slot |-> IF h <= n + 1 THEN NoHandle ELSE handle[p][h]]
  <2>1. Emptied(p, n) = [handle EXCEPT ![p] = A] /\ Emptied(p, n + 1) = [handle EXCEPT ![p] = B]
    BY DEF Emptied
  <2>2. A[n + 1] = handle[p][n + 1] BY <1>2
  <2>3. [A EXCEPT ![n + 1] = NoHandle] = B
    <3>1. \A h \in Slot : h <= n + 1 <=> (h <= n \/ h = n + 1) BY <1>0 DEF Slot
    <3> QED BY <3>1
  <2> HIDE DEF A, B
  <2>4. Emptied(p, n)[p] = A BY <2>1
  <2>5. Without(Emptied(p, n), p, n + 1) =
           [Emptied(p, n) EXCEPT ![p] = [A EXCEPT ![n + 1] = NoHandle]]
    BY <2>4 DEF Without
  <2>6. [Emptied(p, n) EXCEPT ![p] = B] = [handle EXCEPT ![p] = B] BY <2>1
  <2> QED BY <2>1, <2>2, <2>3, <2>4, <2>5, <2>6
<1>3. \A n : \A q \in Process : q # p => Emptied(p, n)[q] = handle[q] BY DEF Emptied
<1>4. Emptied(p, HandleMax) = [handle EXCEPT ![p] = [h \in Slot |-> NoHandle]]
  <2>1. \A h \in Slot : h <= HandleMax BY <1>0 DEF Slot
  <2>2. [h \in Slot |-> IF h <= HandleMax THEN NoHandle ELSE handle[p][h]]
          = [h \in Slot |-> NoHandle]
    BY <2>1
  <2> QED BY <2>2 DEF Emptied
<1> QED BY <1>1, <1>2, <1>3, <1>4

\* The loop of boring_ipc_process_cleanup, for any function that follows it.
LEMMA CleanupLoop ==
    ASSUME NEW p \in Process, Partial(handle, p), HeldInts, Fine(Current, handle),
           NEW f, f[0] = Current,
           \A h \in Slot : Fine(f[h - 1], Emptied(p, h - 1))
                             => f[h] = CloseEntry(f[h - 1], handle[p][h])
    PROVE  \A n \in 0..HandleMax : Fine(f[n], Emptied(p, n))
<1> DEFINE T == {n \in Nat : n <= HandleMax => Fine(f[n], Emptied(p, n))}
<1>0. HandleMax \in Nat /\ handle \in [Process -> [Slot -> Entries]]
  BY IpcAssumption DEF Partial
<1>1. 0 \in T BY <1>0, EmptiedFacts
<1>2. ASSUME NEW n \in Nat, n \in T PROVE n + 1 \in T
  <2> SUFFICES ASSUME n + 1 <= HandleMax PROVE Fine(f[n + 1], Emptied(p, n + 1)) OBVIOUS
  <2>1. Fine(f[n], Emptied(p, n)) BY <1>0, <1>2
  <2>2. n + 1 \in Slot /\ (n + 1) - 1 = n BY <1>0 DEF Slot
  <2>3. f[n + 1] = CloseEntry(f[n], handle[p][n + 1]) BY <2>1, <2>2
  <2>4. Partial(Emptied(p, n), p) BY <1>0, EmptiedFacts DEF Partial
  <2>5. Fine(CloseEntry(f[n], Emptied(p, n)[p][n + 1]), Without(Emptied(p, n), p, n + 1))
    BY <2>1, <2>2, <2>4, CloseEntryFine
  <2>6. /\ Emptied(p, n)[p][n + 1] = handle[p][n + 1]
        /\ Without(Emptied(p, n), p, n + 1) = Emptied(p, n + 1)
    BY <1>0, <2>2, EmptiedFacts
  <2> QED BY <2>3, <2>5, <2>6
<1>3. Nat \subseteq T
  <2> HIDE DEF T
  <2> QED BY <1>1, <1>2, SetInduction
<1> QED BY <1>0, <1>3

\* boring_ipc_process_cleanup ends with all handles of the process cleared and
\* everything else consistent.
LEMMA CleanupFine ==
    ASSUME NEW p \in Process, Partial(handle, p), HeldInts, Fine(Current, handle)
    PROVE  Fine(boring_ipc_process_cleanup(p), Emptied(p, HandleMax))
<1>0. HandleMax \in Nat /\ Slot = 1..HandleMax /\ handle \in [Process -> [Slot -> Entries]]
      /\ Current \in States
  BY IpcAssumption DEF Slot, Partial, Fine
<1> DEFINE R(t, h) == CloseEntry(t, handle[p][h])
           F == [x \in States \X (1..HandleMax) |->
                   IF R(x[1], x[2]) \in States THEN R(x[1], x[2]) ELSE x[1]]
<1>1. \A t \in States, h \in 1..HandleMax :
         /\ F[<<t, h>>] \in States
         /\ R(t, h) \in States => F[<<t, h>>] = R(t, h)
  <2> HIDE DEF R
  <2> QED OBVIOUS
<1> HIDE DEF F
<1>2. PICK g : Iterates(g, F, States, Current, HandleMax)
  <2>1. StaysIn(F, States, HandleMax) BY <1>1 DEF StaysIn
  <2> QED BY <1>0, <2>1, Iteration
<1>3. /\ g \in [0..HandleMax -> States] /\ g[0] = Current
      /\ \A h \in 1..HandleMax : g[h] = F[<<g[h - 1], h>>]
  BY <1>2 DEF Iterates
<1>4. ASSUME NEW h \in Slot, Fine(g[h - 1], Emptied(p, h - 1))
      PROVE  g[h] = CloseEntry(g[h - 1], handle[p][h])
  <2>1. h - 1 \in Nat /\ (h - 1) + 1 = h BY <1>0
  <2>2. Emptied(p, h - 1)[p][(h - 1) + 1] = handle[p][(h - 1) + 1]
    BY <1>0, <2>1, EmptiedFacts
  <2>3. Partial(Emptied(p, h - 1), p) BY <1>0, EmptiedFacts DEF Partial
  <2>4. Fine(CloseEntry(g[h - 1], Emptied(p, h - 1)[p][h]), Without(Emptied(p, h - 1), p, h))
    BY <1>4, <2>3, CloseEntryFine
  <2>5. R(g[h - 1], h) \in States BY <2>1, <2>2, <2>4 DEF Fine
  <2>6. g[h - 1] \in States BY <1>4 DEF Fine
  <2>7. F[<<g[h - 1], h>>] = R(g[h - 1], h)
    <3> HIDE DEF R
    <3> QED BY <1>0, <1>1, <2>5, <2>6
  <2> QED BY <1>0, <1>3, <2>7
<1>5. \A n \in 0..HandleMax : Fine(g[n], Emptied(p, n)) BY <1>3, <1>4, CleanupLoop
<1>6. \A h \in 1..HandleMax : g[h] = R(g[h - 1], h)
  <2> TAKE h \in 1..HandleMax
  <2>1. h - 1 \in 0..HandleMax BY <1>0
  <2> QED BY <1>0, <1>4, <1>5, <2>1
\* The function of the definition exists, since g is one.
<1> DEFINE closed == CHOOSE f : f = [h \in 0..HandleMax |->
                        IF h = 0 THEN Current ELSE R(f[h - 1], h)]
<1>7. g = [h \in 0..HandleMax |-> IF h = 0 THEN Current ELSE R(g[h - 1], h)]
  <2> HIDE DEF R
  <2> QED BY <1>0, <1>3, <1>6
<1>8. closed = [h \in 0..HandleMax |-> IF h = 0 THEN Current ELSE R(closed[h - 1], h)]
  <2> HIDE DEF R
  <2> QED BY <1>7
<1>9. boring_ipc_process_cleanup(p) = closed[HandleMax] BY DEF boring_ipc_process_cleanup
<1> HIDE DEF closed
<1>10. closed[0] = Current /\ \A h \in Slot : closed[h] = R(closed[h - 1], h)
  <2> HIDE DEF R
  <2> QED BY <1>0, <1>8
<1>11. \A n \in 0..HandleMax : Fine(closed[n], Emptied(p, n)) BY <1>10, CleanupLoop
<1> QED BY <1>0, <1>9, <1>11

----------------------------------------------------------------------------
(* Opening                                                                 *)

\* The table with a new handle.
With(H, p, h, e) == [H EXCEPT ![p][h] = e]

\* Only the named entry changes.
LEMMA WithFacts ==
    ASSUME NEW H \in [Process -> [Slot -> Entries]], NEW p \in Process, NEW h \in Slot,
           NEW e \in Entries
    PROVE  /\ With(H, p, h, e) \in [Process -> [Slot -> Entries]]
           /\ With(H, p, h, e)[p][h] = e
           /\ \A q \in Process, g \in Slot :
                 <<q, g>> # <<p, h>> => With(H, p, h, e)[q][g] = H[q][g]
BY DEF With

\* A handle for what had none in the table, for a live process.
LEMMA WithHandles ==
    ASSUME NEW H \in [Process -> [Slot -> Entries]], NEW p \in Process, NEW h \in Slot,
           NEW e \in Entries, NEW L, HandlesOK(H, L), p \in L, \A g \in Slot : H[p][g] # e
    PROVE  HandlesOK(With(H, p, h, e), L)
<1> DEFINE G == With(H, p, h, e)
<1>1. /\ G[p][h] = e
      /\ \A q \in Process, g \in Slot : <<q, g>> # <<p, h>> => G[q][g] = H[q][g]
  BY WithFacts
<1> HIDE DEF G
<1>2. ASSUME NEW q \in Process, NEW f \in Slot, NEW g \in Slot, G[q][f] = G[q][g],
             G[q][f] # NoHandle
      PROVE  f = g
  BY <1>1, <1>2 DEF HandlesOK
<1>3. ASSUME NEW q \in Process, NEW f \in Slot, G[q][f] # NoHandle PROVE q \in L
  BY <1>1, <1>3 DEF HandlesOK
<1>4. HandlesOK(G, L) BY <1>2, <1>3 DEF HandlesOK
<1> QED BY <1>4 DEF G

\* The records of a new service and of a new connection.
NewService(p, n) == [active |-> TRUE, owner |-> p, name |-> n, pending |-> <<>>]
NewConn(p, q) == [active |-> TRUE, owner |-> [client |-> p, server |-> q],
                  open |-> [side \in Side |-> TRUE], queue |-> [side \in Side |-> <<>>],
                  accepted |-> FALSE]

\* They have the right types.
LEMMA NewRecords ==
    ASSUME NEW p \in Process
    PROVE  /\ \A n \in Name :
                /\ NewService(p, n) \in Services /\ NewService(p, n).owner = p
                /\ NewService(p, n).name = n /\ NewService(p, n).pending = <<>>
           /\ \A q \in Process :
                /\ NewConn(p, q) \in Conns
                /\ NewConn(p, q).owner["client"] = p /\ NewConn(p, q).owner["server"] = q
                /\ ~NewConn(p, q).accepted
                /\ \A side \in Side : /\ NewConn(p, q).open[side]
                                      /\ NewConn(p, q).queue[side] = <<>>
<1>1. <<>> \in Seq(Connection) /\ <<>> \in Seq(Message) OBVIOUS
<1>2. ASSUME NEW n \in Name
      PROVE  /\ NewService(p, n) \in Services /\ NewService(p, n).owner = p
             /\ NewService(p, n).name = n /\ NewService(p, n).pending = <<>>
  <2>1. NewService(p, n) \in Services BY <1>1 DEF NewService, Services
  <2> QED BY <2>1 DEF NewService
<1>3. ASSUME NEW q \in Process
      PROVE  /\ NewConn(p, q) \in Conns
             /\ NewConn(p, q).owner["client"] = p /\ NewConn(p, q).owner["server"] = q
             /\ ~NewConn(p, q).accepted
             /\ \A side \in Side : /\ NewConn(p, q).open[side]
                                   /\ NewConn(p, q).queue[side] = <<>>
  <2>1. [client |-> p, server |-> q] \in [Side -> Process] BY DEF Side
  <2>2. [side \in Side |-> TRUE] \in [Side -> BOOLEAN] OBVIOUS
  <2>3. [side \in Side |-> <<>>] \in [Side -> Seq(Message)] BY <1>1
  <2>4. ASSUME NEW o \in [Side -> Process], NEW b \in [Side -> BOOLEAN],
               NEW r \in [Side -> Seq(Message)]
        PROVE  [active |-> TRUE, owner |-> o, open |-> b, queue |-> r,
                accepted |-> FALSE] \in Conns
    BY DEF Conns
  <2>5. NewConn(p, q) \in Conns BY <2>1, <2>2, <2>3, <2>4 DEF NewConn
  <2>6. /\ NewConn(p, q).owner["client"] = p /\ NewConn(p, q).owner["server"] = q
        /\ ~NewConn(p, q).accepted
    BY DEF NewConn
  <2>7. \A side \in Side : /\ NewConn(p, q).open[side]
                           /\ NewConn(p, q).queue[side] = <<>>
    BY DEF NewConn
  <2> QED BY <2>5, <2>6, <2>7
<1> QED BY <1>2, <1>3

\* A new service with its listener.
LEMMA RegisterGood ==
    ASSUME NEW V, NEW C, NEW H, NEW L, Good(V, C, H, L), NEW p \in Process, p \in L,
           NEW h \in Slot, H[p][h] = NoHandle, NEW s \in Service, V[s] = NoService,
           NEW n \in Name, \A r \in Service : V[r] # NoService => V[r].name # n,
           NEW W, W = [V EXCEPT ![s] = NewService(p, n)]
    PROVE  Good(W, C, With(H, p, h, ListenerOf(s)), L)
<1> DEFINE G == With(H, p, h, ListenerOf(s))
<1>1. /\ Tables(V, C, H) /\ QueuesOK(C) /\ EndsOK(C, H) /\ PendingOK(V, C)
      /\ ListenersOK(V, H) /\ HandlesOK(H, L)
  BY DEF Good
<1>2. /\ V \in [Service -> Services \cup {NoService}]
      /\ C \in [Connection -> Conns \cup {NoConnection}]
      /\ H \in [Process -> [Slot -> Entries]]
  BY <1>1 DEF Tables
<1>3. ListenerOf(s) \in Entries BY EntryFacts
<1>4. /\ G \in [Process -> [Slot -> Entries]]
      /\ G[p][h] = ListenerOf(s)
      /\ \A q \in Process, g \in Slot : <<q, g>> # <<p, h>> => G[q][g] = H[q][g]
  BY <1>2, <1>3, WithFacts
<1>5. W[s] \in Services /\ W[s] # NoService /\ W[s].owner = p /\ W[s].name = n
      /\ W[s].pending = <<>>
  <2>1. W[s] = NewService(p, n) BY <1>2
  <2> QED BY <2>1, NewRecords, ServiceFacts
<1>6. W \in [Service -> Services \cup {NoService}] BY <1>2, <1>5
<1>7. \A r \in Service : r # s => W[r] = V[r] BY <1>2
<1>8. \A g \in Slot : H[p][g] # ListenerOf(s) BY <1>1 DEF ListenersOK
<1>9. HandlesOK(G, L) BY <1>1, <1>2, <1>3, <1>8, WithHandles
<1> HIDE DEF G
<1>10. \A c, x : ListenerOf(s) # EndOf(c, x) /\ EndOf(c, x) # NoHandle BY EntryFacts
<1>11. EndsOK(C, G)
  <2>1. ASSUME NEW q \in Process, NEW g \in Slot, NEW c \in Connection, NEW x \in Side,
               G[q][g] = EndOf(c, x)
        PROVE  Attached(C, c, x) /\ C[c].owner[x] = q
    BY <1>1, <1>4, <1>10, <2>1 DEF EndsOK
  <2>2. ASSUME NEW c \in Connection, NEW x \in Side, Attached(C, c, x)
        PROVE  \E g \in Slot : G[C[c].owner[x]][g] = EndOf(c, x)
    <3>1. PICK g \in Slot : H[C[c].owner[x]][g] = EndOf(c, x) BY <1>1, <2>2 DEF EndsOK
    <3>2. C[c].owner[x] \in Process BY <1>1, <2>2, TableFacts, ConnFacts DEF Attached
    <3> QED BY <1>4, <1>10, <3>1, <3>2
  <2> QED BY <2>1, <2>2 DEF EndsOK
<1>12. \A r \in Service : \A i, c : At(W, r, i, c) <=> At(V, r, i, c)
  <2>1. \A i, c : ~At(W, s, i, c) BY <1>5 DEF At
  <2>2. \A i, c : ~At(V, s, i, c) BY DEF At
  <2>3. \A r \in Service : \A i, c : r # s => (At(W, r, i, c) <=> At(V, r, i, c)) BY <1>7 DEF At
  <2> QED BY <2>1, <2>2, <2>3
<1>13. PendingOK(W, C)
  <2>1. \A r \in Service : W[r] # NoService => Len(W[r].pending) <= PendingMax
    BY <1>1, <1>5, <1>7, IpcAssumption DEF PendingOK
  <2>2. ASSUME NEW r \in Service, NEW i \in Nat, NEW c \in Connection, At(W, r, i, c)
        PROVE  Waiting(C, c) /\ C[c].owner["server"] = W[r].owner
    <3>1. At(V, r, i, c) BY <1>12, <2>2
    <3>2. r # s BY <3>1 DEF At
    <3> QED BY <1>1, <1>7, <3>1, <3>2 DEF PendingOK
  <2>3. \A r, t \in Service, i, j \in Nat, c \in Connection :
          At(W, r, i, c) /\ At(W, t, j, c) => r = t /\ i = j
    BY <1>1, <1>12 DEF PendingOK
  <2>4. \A c \in Connection : Waiting(C, c) => \E r \in Service, i \in Nat : At(W, r, i, c)
    BY <1>1, <1>12 DEF PendingOK
  <2> QED BY <2>1, <2>2, <2>3, <2>4 DEF PendingOK
<1>14. ListenersOK(W, G)
  <2>0. \A r : ListenerOf(r) # NoHandle /\ (ListenerOf(r) = ListenerOf(s) => r = s)
    BY EntryFacts
  <2>1. ASSUME NEW q \in Process, NEW g \in Slot, NEW r \in Service, G[q][g] = ListenerOf(r)
        PROVE  W[r] # NoService /\ W[r].owner = q
    BY <1>1, <1>4, <1>5, <1>7, <2>0, <2>1 DEF ListenersOK
  <2>2. ASSUME NEW r \in Service, W[r] # NoService
        PROVE  \E g \in Slot : G[W[r].owner][g] = ListenerOf(r)
    <3>1. CASE r = s BY <1>4, <1>5, <3>1
    <3>2. CASE r # s
      <4>1. PICK g \in Slot : H[V[r].owner][g] = ListenerOf(r)
        BY <1>1, <1>7, <2>2, <3>2 DEF ListenersOK
      <4>2. V[r].owner \in Process BY <1>1, <1>7, <2>2, <3>2, TableFacts, ServiceFacts
      <4> QED BY <1>4, <1>7, <2>0, <3>2, <4>1, <4>2
    <3> QED BY <3>1, <3>2
  <2>3. \A r, t \in Service :
          W[r] # NoService /\ W[t] # NoService /\ W[r].name = W[t].name => r = t
    BY <1>1, <1>5, <1>7 DEF ListenersOK
  <2> QED BY <2>1, <2>2, <2>3 DEF ListenersOK
<1> QED BY <1>1, <1>2, <1>4, <1>6, <1>9, <1>11, <1>13, <1>14 DEF Good, Tables, G

\* A new connection, with the handle of its client, at the end of a pending queue.
LEMMA ConnectGood ==
    ASSUME NEW V, NEW C, NEW H, NEW L, Good(V, C, H, L), NEW p \in Process, p \in L,
           NEW h \in Slot, H[p][h] = NoHandle, NEW c \in Connection, C[c] = NoConnection,
           NEW s \in Service, V[s] # NoService, Len(V[s].pending) < PendingMax,
           NEW W, W = [V EXCEPT ![s].pending = Append(@, c)],
           NEW D, D = [C EXCEPT ![c] = NewConn(p, V[s].owner)]
    PROVE  Good(W, D, With(H, p, h, EndOf(c, "client")), L)
<1> DEFINE G == With(H, p, h, EndOf(c, "client"))
<1>1. /\ Tables(V, C, H) /\ QueuesOK(C) /\ EndsOK(C, H) /\ PendingOK(V, C)
      /\ ListenersOK(V, H) /\ HandlesOK(H, L)
  BY DEF Good
<1>2. /\ V \in [Service -> Services \cup {NoService}]
      /\ C \in [Connection -> Conns \cup {NoConnection}]
      /\ H \in [Process -> [Slot -> Entries]]
  BY <1>1 DEF Tables
<1>3. EndOf(c, "client") \in Entries BY EntryFacts DEF Side
<1>4. /\ G \in [Process -> [Slot -> Entries]]
      /\ G[p][h] = EndOf(c, "client")
      /\ \A q \in Process, g \in Slot : <<q, g>> # <<p, h>> => G[q][g] = H[q][g]
  BY <1>2, <1>3, WithFacts
<1>5. /\ V[s] \in Services /\ V[s].owner \in Process /\ V[s].pending \in Seq(Connection)
      /\ Len(V[s].pending) \in Nat
  BY <1>1, TableFacts, ServiceFacts
<1>6. /\ D[c] \in Conns /\ D[c] # NoConnection
      /\ D[c].owner["client"] = p /\ D[c].owner["server"] = V[s].owner /\ ~D[c].accepted
      /\ \A x \in Side : D[c].open[x] /\ D[c].queue[x] = <<>>
  <2>1. D[c] = NewConn(p, V[s].owner) BY <1>2
  <2> QED BY <1>5, <2>1, NewRecords, ConnFacts
<1>7. D \in [Connection -> Conns \cup {NoConnection}] BY <1>2, <1>6
<1>8. \A d \in Connection : d # c => D[d] = C[d] BY <1>2
<1>9. /\ W[s] \in Services /\ W[s] # NoService
      /\ W[s].owner = V[s].owner /\ W[s].name = V[s].name
      /\ W[s].pending = Append(V[s].pending, c)
  <2>1. W[s] = [V[s] EXCEPT !.pending = Append(V[s].pending, c)] BY <1>2
  <2>2. Append(V[s].pending, c) \in Seq(Connection) BY <1>5
  <2>3. W[s] \in Services BY <1>5, <2>1, <2>2, ZenonT(60) DEF Services
  <2>4. W[s] # NoService BY <2>3, ServiceFacts
  <2>5. W[s].owner = V[s].owner /\ W[s].name = V[s].name
        /\ W[s].pending = Append(V[s].pending, c)
    BY <1>5, <2>1 DEF Services
  <2> QED BY <2>3, <2>4, <2>5
<1>10. \A r \in Service : r # s => W[r] = V[r] BY <1>2
<1>11. W \in [Service -> Services \cup {NoService}] BY <1>2, <1>9
<1>12. \A g \in Slot : H[p][g] # EndOf(c, "client") BY <1>1 DEF EndsOK, Attached, Side
<1>13. HandlesOK(G, L) BY <1>1, <1>2, <1>3, <1>12, WithHandles
<1> HIDE DEF G
<1>14. \A r : ListenerOf(r) # EndOf(c, "client") /\ ListenerOf(r) # NoHandle BY EntryFacts
<1>15. QueuesOK(D)
  <2>1. Len(<<>>) <= QueueMax BY IpcAssumption
  <2> QED BY <1>1, <1>6, <1>8, <2>1 DEF QueuesOK, Side
<1>16. EndsOK(D, G)
  <2>0. \A d, x : /\ EndOf(d, x) # NoHandle
                  /\ EndOf(d, x) = EndOf(c, "client") => d = c /\ x = "client"
    BY EntryFacts
  <2>1. ASSUME NEW q \in Process, NEW g \in Slot, NEW d \in Connection, NEW x \in Side,
               G[q][g] = EndOf(d, x)
        PROVE  Attached(D, d, x) /\ D[d].owner[x] = q
    <3>1. CASE <<q, g>> = <<p, h>>
      <4>1. d = c /\ x = "client" /\ q = p BY <1>4, <2>0, <2>1, <3>1
      <4> QED BY <1>6, <4>1 DEF Attached, Side
    <3>2. CASE <<q, g>> # <<p, h>>
      <4>1. H[q][g] = EndOf(d, x) BY <1>4, <2>1, <3>2
      <4>2. Attached(C, d, x) /\ C[d].owner[x] = q BY <1>1, <4>1 DEF EndsOK
      <4>3. d # c BY <4>2 DEF Attached
      <4> QED BY <1>8, <4>2, <4>3 DEF Attached
    <3> QED BY <3>1, <3>2
  <2>2. ASSUME NEW d \in Connection, NEW x \in Side, Attached(D, d, x)
        PROVE  \E g \in Slot : G[D[d].owner[x]][g] = EndOf(d, x)
    <3>1. CASE d = c
      <4>1. x = "client" BY <1>6, <2>2, <3>1 DEF Attached, Side
      <4> QED BY <1>4, <1>6, <3>1, <4>1
    <3>2. CASE d # c
      <4>1. Attached(C, d, x) /\ D[d] = C[d] BY <1>8, <2>2, <3>2 DEF Attached
      <4>2. PICK g \in Slot : H[C[d].owner[x]][g] = EndOf(d, x) BY <1>1, <4>1 DEF EndsOK
      <4>3. C[d].owner[x] \in Process BY <1>1, <4>1, TableFacts, ConnFacts DEF Attached
      <4> QED BY <1>4, <2>0, <4>1, <4>2, <4>3
    <3> QED BY <3>1, <3>2
  <2> QED BY <2>1, <2>2 DEF EndsOK
<1>17. \A r \in Service : \A i, d : At(V, r, i, d) => At(W, r, i, d) /\ (d \in Connection /\ i \in Nat => d # c)
  <2>1. \A r \in Service : \A i, d : At(V, r, i, d) => At(W, r, i, d)
    BY <1>5, <1>9, <1>10 DEF At
  <2>2. \A r \in Service, i \in Nat, d \in Connection : At(V, r, i, d) => d # c
    BY <1>1 DEF PendingOK, Waiting
  <2> QED BY <2>1, <2>2
<1>18. \A r \in Service, i \in Nat, d \in Connection :
         At(W, r, i, d) => At(V, r, i, d) \/ (r = s /\ i = Len(V[s].pending) + 1 /\ d = c)
  BY <1>5, <1>9, <1>10 DEF At
<1>19. At(W, s, Len(V[s].pending) + 1, c) BY <1>5, <1>9 DEF At
<1>20. PendingOK(W, D)
  <2>1. \A r \in Service : W[r] # NoService => Len(W[r].pending) <= PendingMax
    <3>1. Len(W[s].pending) = Len(V[s].pending) + 1 BY <1>5, <1>9
    <3>2. Len(W[s].pending) <= PendingMax BY <1>5, <3>1, IpcAssumption
    <3> QED BY <1>1, <1>10, <3>2 DEF PendingOK
  <2>2. ASSUME NEW r \in Service, NEW i \in Nat, NEW d \in Connection, At(W, r, i, d)
        PROVE  Waiting(D, d) /\ D[d].owner["server"] = W[r].owner
    <3>1. CASE At(V, r, i, d)
      <4>1. Waiting(C, d) /\ C[d].owner["server"] = V[r].owner /\ d # c
        BY <1>1, <1>17, <3>1 DEF PendingOK
      <4> QED BY <1>8, <1>9, <1>10, <4>1 DEF Waiting
    <3>2. CASE r = s /\ d = c BY <1>6, <1>9, <3>2 DEF Waiting, Side
    <3> QED BY <1>18, <2>2, <3>1, <3>2
  <2>3. ASSUME NEW r \in Service, NEW t \in Service, NEW i \in Nat, NEW j \in Nat,
               NEW d \in Connection, At(W, r, i, d), At(W, t, j, d)
        PROVE  r = t /\ i = j
    <3>1. At(V, r, i, d) \/ (r = s /\ i = Len(V[s].pending) + 1 /\ d = c) BY <1>18, <2>3
    <3>2. At(V, t, j, d) \/ (t = s /\ j = Len(V[s].pending) + 1 /\ d = c) BY <1>18, <2>3
    <3>3. /\ At(V, r, i, d) => d # c
          /\ At(V, t, j, d) => d # c
      BY <1>17
    <3>4. At(V, r, i, d) /\ At(V, t, j, d) => r = t /\ i = j BY <1>1 DEF PendingOK
    <3> QED BY <3>1, <3>2, <3>3, <3>4
  <2>4. ASSUME NEW d \in Connection, Waiting(D, d)
        PROVE  \E r \in Service, i \in Nat : At(W, r, i, d)
    <3>1. CASE d = c BY <1>5, <1>19, <3>1
    <3>2. CASE d # c
      <4>1. Waiting(C, d) BY <1>8, <2>4, <3>2 DEF Waiting
      <4> QED BY <1>1, <1>17, <4>1 DEF PendingOK
    <3> QED BY <3>1, <3>2
  <2> QED BY <2>1, <2>2, <2>3, <2>4 DEF PendingOK
<1>21. ListenersOK(W, G)
  <2>0. \A r \in Service : /\ W[r] # NoService <=> V[r] # NoService
                           /\ W[r].owner = V[r].owner /\ W[r].name = V[r].name
    BY <1>9, <1>10
  <2>1. ASSUME NEW q \in Process, NEW g \in Slot, NEW r \in Service, G[q][g] = ListenerOf(r)
        PROVE  W[r] # NoService /\ W[r].owner = q
    <3>1. H[q][g] = ListenerOf(r) BY <1>4, <1>14, <2>1
    <3> QED BY <1>1, <2>0, <3>1 DEF ListenersOK
  <2>2. ASSUME NEW r \in Service, W[r] # NoService
        PROVE  \E g \in Slot : G[W[r].owner][g] = ListenerOf(r)
    <3>1. PICK g \in Slot : H[V[r].owner][g] = ListenerOf(r)
      BY <1>1, <2>0, <2>2 DEF ListenersOK
    <3>2. V[r].owner \in Process BY <1>1, <2>0, <2>2, TableFacts, ServiceFacts
    <3> QED BY <1>4, <1>14, <2>0, <3>1, <3>2
  <2>3. \A r, t \in Service :
          W[r] # NoService /\ W[t] # NoService /\ W[r].name = W[t].name => r = t
    BY <1>1, <2>0 DEF ListenersOK
  <2> QED BY <2>1, <2>2, <2>3 DEF ListenersOK
<1> QED BY <1>4, <1>7, <1>11, <1>13, <1>15, <1>16, <1>20, <1>21 DEF Good, Tables, G

\* The connection is accepted.
Accepted(C, D, c) ==
    /\ D \in [Connection -> Conns \cup {NoConnection}]
    /\ \A d \in Connection : d # c => D[d] = C[d]
    /\ D[c] \in Conns
    /\ D[c].owner = C[c].owner /\ D[c].open = C[c].open /\ D[c].queue = C[c].queue
    /\ D[c].accepted

\* The head of a pending queue is accepted by the owner of the service.
LEMMA AcceptGood ==
    ASSUME NEW V, NEW C, NEW H, NEW L, Good(V, C, H, L), NEW p \in Process, p \in L,
           NEW h \in Slot, H[p][h] = NoHandle, NEW c \in Connection, NEW s \in Service,
           At(V, s, 1, c), V[s].owner = p, NEW W, Popped(V, W, s), NEW D, Accepted(C, D, c)
    PROVE  Good(W, D, With(H, p, h, EndOf(c, "server")), L)
<1> DEFINE G == With(H, p, h, EndOf(c, "server"))
<1>1. /\ Tables(V, C, H) /\ QueuesOK(C) /\ EndsOK(C, H) /\ PendingOK(V, C)
      /\ ListenersOK(V, H) /\ HandlesOK(H, L)
  BY DEF Good
<1>2. H \in [Process -> [Slot -> Entries]] BY <1>1 DEF Tables
<1>3. EndOf(c, "server") \in Entries BY EntryFacts DEF Side
<1>4. /\ G \in [Process -> [Slot -> Entries]]
      /\ G[p][h] = EndOf(c, "server")
      /\ \A q \in Process, g \in Slot : <<q, g>> # <<p, h>> => G[q][g] = H[q][g]
  BY <1>2, <1>3, WithFacts
<1>5. Waiting(C, c) /\ C[c].owner["server"] = p BY <1>1 DEF PendingOK
<1>6. /\ D \in [Connection -> Conns \cup {NoConnection}]
      /\ \A d \in Connection : d # c => D[d] = C[d]
      /\ D[c] \in Conns /\ D[c] # NoConnection
      /\ D[c].owner = C[c].owner /\ D[c].open = C[c].open /\ D[c].queue = C[c].queue
      /\ D[c].accepted
  BY ConnFacts DEF Accepted
<1>7. \A g \in Slot : H[p][g] # EndOf(c, "server")
  BY <1>1, <1>5 DEF EndsOK, Attached, Waiting, Side
<1>8. HandlesOK(G, L) BY <1>1, <1>2, <1>3, <1>7, WithHandles
<1> HIDE DEF G
<1>9. QueuesOK(D) BY <1>1, <1>5, <1>6 DEF QueuesOK, Waiting
<1>10. \A d \in Connection, x \in Side :
         /\ <<d, x>> # <<c, "server">> => (Attached(D, d, x) <=> Attached(C, d, x))
         /\ Attached(D, d, x) => D[d].owner = C[d].owner
  BY <1>5, <1>6 DEF Attached, Waiting, Side
<1>11. Attached(D, c, "server") /\ D[c].owner["server"] = p
  BY <1>5, <1>6 DEF Attached, Waiting
<1>12. \A d \in Connection : Waiting(D, d) <=> d # c /\ Waiting(C, d)
  BY <1>6 DEF Waiting
<1>13. EndsOK(D, G)
  <2>0. \A d, x : /\ EndOf(d, x) # NoHandle
                  /\ EndOf(d, x) = EndOf(c, "server") => d = c /\ x = "server"
    BY EntryFacts
  <2>1. ASSUME NEW q \in Process, NEW g \in Slot, NEW d \in Connection, NEW x \in Side,
               G[q][g] = EndOf(d, x)
        PROVE  Attached(D, d, x) /\ D[d].owner[x] = q
    <3>1. CASE <<q, g>> = <<p, h>>
      <4>1. d = c /\ x = "server" /\ q = p BY <1>4, <2>0, <2>1, <3>1
      <4> QED BY <1>11, <4>1
    <3>2. CASE <<q, g>> # <<p, h>>
      <4>1. H[q][g] = EndOf(d, x) BY <1>4, <2>1, <3>2
      <4>2. Attached(C, d, x) /\ C[d].owner[x] = q BY <1>1, <4>1 DEF EndsOK
      <4>3. <<d, x>> # <<c, "server">> BY <1>5, <4>2 DEF Attached, Waiting
      <4> QED BY <1>10, <4>2, <4>3
    <3> QED BY <3>1, <3>2
  <2>2. ASSUME NEW d \in Connection, NEW x \in Side, Attached(D, d, x)
        PROVE  \E g \in Slot : G[D[d].owner[x]][g] = EndOf(d, x)
    <3>1. CASE <<d, x>> = <<c, "server">> BY <1>4, <1>11, <3>1
    <3>2. CASE <<d, x>> # <<c, "server">>
      <4>1. Attached(C, d, x) /\ D[d].owner = C[d].owner BY <1>10, <2>2, <3>2
      <4>2. PICK g \in Slot : H[C[d].owner[x]][g] = EndOf(d, x) BY <1>1, <4>1 DEF EndsOK
      <4>3. C[d].owner[x] \in Process BY <1>1, <4>1, TableFacts, ConnFacts DEF Attached
      <4> QED BY <1>4, <2>0, <4>1, <4>2, <4>3
    <3> QED BY <3>1, <3>2
  <2> QED BY <2>1, <2>2 DEF EndsOK
<1>14. /\ \A r \in Service : W[r] # NoService <=> V[r] # NoService
       /\ \A r \in Service : W[r] # NoService =>
             /\ W[r].owner = V[r].owner /\ W[r].name = V[r].name
             /\ Len(W[r].pending) <= PendingMax
       /\ \A r \in Service, i \in Nat, d \in Connection : At(W, r, i, d) =>
             d # c /\ \E j \in Nat : At(V, r, j, d) /\ j = IF r = s THEN i + 1 ELSE i
       /\ \A d \in Connection : d # c /\ (\E r \in Service, j \in Nat : At(V, r, j, d))
             => \E r \in Service, i \in Nat : At(W, r, i, d)
  BY <1>1, PoppedPlaces
<1>15. PendingOK(W, D)
  <2>1. ASSUME NEW r \in Service, NEW i \in Nat, NEW d \in Connection, At(W, r, i, d)
        PROVE  Waiting(D, d) /\ D[d].owner["server"] = W[r].owner
    <3>1. PICK j \in Nat : At(V, r, j, d) BY <1>14, <2>1
    <3>2. d # c /\ Waiting(C, d) /\ C[d].owner["server"] = V[r].owner
      BY <1>1, <1>14, <2>1, <3>1 DEF PendingOK
    <3>3. W[r] # NoService BY <2>1 DEF At
    <3> QED BY <1>6, <1>12, <1>14, <3>2, <3>3
  <2>2. ASSUME NEW r \in Service, NEW t \in Service, NEW i \in Nat, NEW j \in Nat,
               NEW d \in Connection, At(W, r, i, d), At(W, t, j, d)
        PROVE  r = t /\ i = j
    <3>1. PICK k \in Nat : At(V, r, k, d) /\ k = IF r = s THEN i + 1 ELSE i BY <1>14, <2>2
    <3>2. PICK l \in Nat : At(V, t, l, d) /\ l = IF t = s THEN j + 1 ELSE j BY <1>14, <2>2
    <3>3. r = t /\ k = l BY <1>1, <3>1, <3>2 DEF PendingOK
    <3> QED BY <3>1, <3>2, <3>3
  <2>3. ASSUME NEW d \in Connection, Waiting(D, d)
        PROVE  \E r \in Service, i \in Nat : At(W, r, i, d)
    BY <1>1, <1>12, <1>14, <2>3 DEF PendingOK
  <2> QED BY <1>14, <2>1, <2>2, <2>3 DEF PendingOK
<1>16. ListenersOK(W, H) BY <1>1, PoppedListeners
<1>17. ListenersOK(W, G)
  <2>0. \A r : ListenerOf(r) # EndOf(c, "server") /\ ListenerOf(r) # NoHandle BY EntryFacts
  <2>1. ASSUME NEW q \in Process, NEW g \in Slot, NEW r \in Service, G[q][g] = ListenerOf(r)
        PROVE  W[r] # NoService /\ W[r].owner = q
    BY <1>4, <1>16, <2>0, <2>1 DEF ListenersOK
  <2>2. ASSUME NEW r \in Service, W[r] # NoService
        PROVE  \E g \in Slot : G[W[r].owner][g] = ListenerOf(r)
    <3>1. PICK g \in Slot : H[W[r].owner][g] = ListenerOf(r) BY <1>16, <2>2 DEF ListenersOK
    <3>2. W[r].owner \in Process
      <4>1. V[r] # NoService /\ W[r].owner = V[r].owner BY <1>14, <2>2
      <4> QED BY <1>1, <4>1, TableFacts, ServiceFacts
    <3> QED BY <1>4, <2>0, <3>1, <3>2
  <2>3. \A r, t \in Service :
          W[r] # NoService /\ W[t] # NoService /\ W[r].name = W[t].name => r = t
    BY <1>16 DEF ListenersOK
  <2> QED BY <2>1, <2>2, <2>3 DEF ListenersOK
<1>18. W \in [Service -> Services \cup {NoService}] BY DEF Popped
<1> QED BY <1>4, <1>6, <1>8, <1>9, <1>13, <1>15, <1>17, <1>18 DEF Good, Tables, G

----------------------------------------------------------------------------
(* Messages                                                                *)

\* Only what is queued for one open side changes.
Requeued(C, D, c, side, q) ==
    /\ D \in [Connection -> Conns \cup {NoConnection}]
    /\ \A d \in Connection : d # c => D[d] = C[d]
    /\ C[c] # NoConnection /\ C[c].open[side]
    /\ D[c] \in Conns
    /\ D[c].owner = C[c].owner /\ D[c].open = C[c].open /\ D[c].accepted = C[c].accepted
    /\ D[c].queue[side] = q /\ D[c].queue[Peer(side)] = C[c].queue[Peer(side)]

\* The record of the connection is the old one with another queue.
LEMMA RequeuedFacts ==
    ASSUME NEW C \in [Connection -> Conns \cup {NoConnection}], NEW c \in Connection,
           NEW side \in Side, C[c] # NoConnection, C[c].open[side], NEW q \in Seq(Message),
           NEW D, D = [C EXCEPT ![c] = [C[c] EXCEPT !.queue[side] = q]]
    PROVE  Requeued(C, D, c, side, q)
<1>1. C[c] \in Conns OBVIOUS
<1>2. C[c].queue \in [Side -> Seq(Message)] BY <1>1, ConnFacts
<1> DEFINE k == [C[c] EXCEPT !.queue[side] = q]
           r == [C[c].queue EXCEPT ![side] = q]
<1>3. D[c] = k /\ \A d \in Connection : d # c => D[d] = C[d] OBVIOUS
<1>4. r \in [Side -> Seq(Message)] /\ r[side] = q /\ r[Peer(side)] = C[c].queue[Peer(side)]
  BY <1>2, Sides
<1>5. k = [C[c] EXCEPT !.queue = r] BY <1>1 DEF Conns
<1> HIDE DEF k, r
<1>6. k \in Conns BY <1>1, <1>4, <1>5 DEF Conns
<1>7. /\ k.owner = C[c].owner /\ k.open = C[c].open /\ k.accepted = C[c].accepted
      /\ k.queue = r
  BY <1>1, <1>5 DEF Conns
<1>8. D \in [Connection -> Conns \cup {NoConnection}] BY <1>3, <1>6 DEF k
<1> QED BY <1>3, <1>4, <1>6, <1>7, <1>8 DEF Requeued

\* It changes nothing about who holds what.
LEMMA RequeuedGood ==
    ASSUME NEW V, NEW C, NEW H, NEW L, Good(V, C, H, L), NEW D, NEW c \in Connection,
           NEW side \in Side, NEW q, Len(q) <= QueueMax, Requeued(C, D, c, side, q)
    PROVE  Good(V, D, H, L)
<1>1. /\ Tables(V, C, H) /\ QueuesOK(C) /\ EndsOK(C, H) /\ PendingOK(V, C)
      /\ ListenersOK(V, H) /\ HandlesOK(H, L)
  BY DEF Good
<1>2. \A d \in Connection :
         /\ D[d] # NoConnection <=> C[d] # NoConnection
         /\ D[d] # NoConnection => /\ D[d].owner = C[d].owner /\ D[d].open = C[d].open
                                   /\ D[d].accepted = C[d].accepted
  BY ConnFacts DEF Requeued
<1>3. /\ \A d \in Connection, x \in Side : Attached(D, d, x) <=> Attached(C, d, x)
      /\ \A d \in Connection : Waiting(D, d) <=> Waiting(C, d)
  BY <1>2 DEF Attached, Waiting
<1>4. QueuesOK(D)
  <2> SUFFICES ASSUME NEW d \in Connection, D[d] # NoConnection
               PROVE  /\ \E x \in Side : D[d].open[x]
                      /\ \A x \in Side : ~D[d].open[x] => D[d].queue[x] = <<>>
                      /\ \A x \in Side : Len(D[d].queue[x]) <= QueueMax
    BY DEF QueuesOK
  <2>1. CASE d # c BY <1>1, <2>1 DEF QueuesOK, Requeued
  <2>2. CASE d = c
    <3>1. /\ C[c] # NoConnection /\ C[c].open[side] /\ D[c].open = C[c].open
          /\ D[c].queue[side] = q /\ D[c].queue[Peer(side)] = C[c].queue[Peer(side)]
      BY DEF Requeued
    <3>2. ~C[c].open[Peer(side)] => C[c].queue[Peer(side)] = <<>>
      BY <1>1, <3>1, Sides DEF QueuesOK
    <3>3. Len(C[c].queue[Peer(side)]) <= QueueMax BY <1>1, <3>1, Sides DEF QueuesOK
    <3> QED BY <2>2, <3>1, <3>2, <3>3, Sides
  <2> QED BY <2>1, <2>2
<1>5. EndsOK(D, H)
  <2>1. \A d \in Connection, x \in Side : Attached(D, d, x) => D[d].owner = C[d].owner
    BY <1>2 DEF Attached
  <2> QED BY <1>1, <1>3, <2>1 DEF EndsOK
<1>6. PendingOK(V, D)
  <2>1. \A d \in Connection : Waiting(D, d) => D[d].owner = C[d].owner BY <1>2 DEF Waiting
  <2>2. \A s \in Service, i \in Nat, d \in Connection :
         At(V, s, i, d) => Waiting(D, d) /\ D[d].owner["server"] = V[s].owner
    BY <1>1, <1>3, <2>1 DEF PendingOK
  <2>3. \A d \in Connection : Waiting(D, d) => \E s \in Service, i \in Nat : At(V, s, i, d)
    BY <1>1, <1>3 DEF PendingOK
  <2> QED BY <1>1, <2>2, <2>3 DEF PendingOK
<1> QED BY <1>1, <1>4, <1>5, <1>6 DEF Good, Tables, Requeued

\* The messages that carry an object, after the change.
LEMMA RequeuedCarried ==
    ASSUME NEW C \in [Connection -> Conns \cup {NoConnection}], QueuesOK(C), NEW D,
           QueuesOK(D), NEW c \in Connection, NEW side \in Side, NEW q,
           Requeued(C, D, c, side, q), NEW o
    PROVE  Cardinality(Carried(D, o)) = Cardinality(Carried(C, o))
              - Cardinality(Pos(C[c].queue[side], o)) + Cardinality(Pos(q, o))
<1>1. D \in [Connection -> Conns \cup {NoConnection}] BY DEF Requeued
<1>2. /\ QueueOf(C) \in Queues /\ Short(QueueOf(C))
      /\ \A d \in Connection, x \in Side :
            QueueOf(C)[<<d, x>>] = IF C[d] = NoConnection THEN <<>> ELSE C[d].queue[x]
      /\ Carried(C, o) = In(QueueOf(C), o)
  BY QueueFacts
<1>3. /\ QueueOf(D) \in Queues /\ Short(QueueOf(D))
      /\ \A d \in Connection, x \in Side :
            QueueOf(D)[<<d, x>>] = IF D[d] = NoConnection THEN <<>> ELSE D[d].queue[x]
      /\ Carried(D, o) = In(QueueOf(D), o)
  BY <1>1, QueueFacts
<1>4. /\ C[c] # NoConnection /\ D[c] # NoConnection
      /\ D[c].queue[side] = q /\ D[c].queue[Peer(side)] = C[c].queue[Peer(side)]
      /\ \A d \in Connection : d # c => D[d] = C[d]
  BY ConnFacts DEF Requeued
<1>5. ASSUME NEW d \in Connection, NEW x \in Side, <<d, x>> # <<c, side>>
      PROVE  QueueOf(D)[<<d, x>>] = QueueOf(C)[<<d, x>>]
  BY <1>2, <1>3, <1>4, <1>5, Sides
<1>6. QueueOf(C)[<<c, side>>] = C[c].queue[side] /\ QueueOf(D)[<<c, side>>] = q
  BY <1>2, <1>3, <1>4
<1>7. Cardinality(In(QueueOf(D), o)) = Cardinality(In(QueueOf(C), o))
        - Cardinality(Pos(QueueOf(C)[<<c, side>>], o))
        + Cardinality(Pos(QueueOf(D)[<<c, side>>], o))
  BY <1>2, <1>3, <1>5, InChange
<1> QED BY <1>2, <1>3, <1>6, <1>7

----------------------------------------------------------------------------
(* Steps                                                                   *)

\* Handle slots and mapping slots are finite.
LEMMA FiniteSlots == IsFiniteSet(BufferSlot) /\ IsFiniteSet(MappingSlot)
<1>1. BufferHandleMax \in Nat /\ MappingMax \in Nat BY BufferAssumption
<1>2. IsFiniteSet(1..BufferHandleMax) /\ IsFiniteSet(1..MappingMax)
  BY <1>1, FS_Interval
<1> QED BY <1>2 DEF BufferSlot, MappingSlot

\* The references of processes, in terms of places.
LEMMA HeldFacts ==
    /\ \A o : /\ Held(o) = Cardinality(Places(bhandle, BufferSlot, o))
                           + Cardinality(Places(bmap, MappingSlot, o))
              /\ Cardinality(Places(bhandle, BufferSlot, o)) \in Nat
              /\ Cardinality(Places(bmap, MappingSlot, o)) \in Nat
              /\ Held(o) \in Nat
    /\ HeldInts
<1>1. \A o : /\ Cardinality(Places(bhandle, BufferSlot, o)) \in Nat
             /\ Cardinality(Places(bmap, MappingSlot, o)) \in Nat
  BY FiniteSlots, PlacesFinite
<1>2. \A o : Held(o) = Cardinality(Places(bhandle, BufferSlot, o))
                           + Cardinality(Places(bmap, MappingSlot, o))
  BY DEF Held, Places
<1>3. \A o : Held(o) \in Nat BY <1>1, <1>2
<1> QED BY <1>1, <1>2, <1>3 DEF HeldInts

\* What the invariant gives to a call.
LEMMA InvFacts ==
    ASSUME IpcInv
    PROVE  /\ alive \subseteq Process /\ refs \in [Object -> 0..ReferenceMax]
           /\ bhandle \in [Process -> [BufferSlot -> Object \cup {NoObject}]]
           /\ bmap \in [Process -> [MappingSlot -> Object \cup {NoObject}]]
           /\ Tables(service, conn, handle)
           /\ service \in [Service -> Services \cup {NoService}]
           /\ conn \in [Connection -> Conns \cup {NoConnection}]
           /\ handle \in [Process -> [Slot -> Entries]]
           /\ Good(service, conn, handle, alive) /\ QueuesOK(conn)
           /\ EndsOK(conn, handle) /\ PendingOK(service, conn) /\ ListenersOK(service, handle)
           /\ HandlesOK(handle, alive)
           /\ CallsOK /\ blocked \subseteq alive
           /\ call \in [Process -> Calls \cup {InUser}]
BY DEF IpcInv, BufferTypeOK, Good, Tables, CallsOK

\* The calls, when nobody goes to sleep and the tables of those inside a call
\* stay.
Undisturbed ==
    /\ call' \in [Process -> Calls \cup {InUser}]
    /\ blocked' \subseteq blocked /\ blocked' \subseteq alive'
    /\ \A q \in Process : q \in blocked' => call'[q] = call[q]
    /\ \A q \in Process : call'[q] # InUser => call'[q] = call[q] /\ handle'[q] = handle[q]

\* A sleeper that is not woken still waits.
LEMMA StaysAsleep ==
    ASSUME IpcInv, Undisturbed,
           \A q \in blocked', s \in Service :
              handle[q][call[q].handle] = ListenerOf(s) /\ service[s].pending = <<>>
                 => service'[s].pending = <<>>,
           \A q \in blocked', c \in Connection, side \in Side :
              handle[q][call[q].handle] = EndOf(c, side) /\ conn[c].queue[side] = <<>>
              /\ conn[c].open[Peer(side)] => conn'[c].queue[side] = <<>> /\ conn'[c].open[Peer(side)]
    PROVE  CallsOK' /\ Asleep(service, conn, {})'
<1>1. CallsOK /\ alive \subseteq Process /\ handle \in [Process -> [Slot -> Entries]]
      /\ blocked \subseteq alive
  BY InvFacts
<1>2. CallsOK'
  <2>1. \A q \in Process : call[q] # InUser =>
          handle[q][call[q].handle].type =
              IF call[q].op = "accept" THEN "listener" ELSE "endpoint"
    BY <1>1 DEF CallsOK
  <2>2. \A q \in Process : call'[q] # InUser =>
          handle'[q][call'[q].handle].type =
              IF call'[q].op = "accept" THEN "listener" ELSE "endpoint"
    BY <2>1 DEF Undisturbed
  <2>3. \A q \in blocked' : call'[q] # InUser BY <1>1 DEF CallsOK, Undisturbed
  <2> QED BY <2>2, <2>3 DEF CallsOK, Undisturbed
<1>3. ASSUME NEW q \in blocked' PROVE StillFalse(q, service, conn)'
  <2>1. q \in blocked /\ q \in Process /\ call'[q] = call[q] /\ call[q] # InUser
        /\ handle'[q] = handle[q]
    BY <1>1, <1>3 DEF Undisturbed, CallsOK
  <2>2. StillFalse(q, service, conn) BY <2>1 DEF IpcInv, Asleep
  <2>3. CASE call[q].op = "accept"
    <3>1. PICK s \in Service : handle[q][call[q].handle] = ListenerOf(s)
      <4>1. \/ call[q].op = "accept" /\ \E s \in Service : handle[q][call[q].handle] = ListenerOf(s)
            \/ call[q].op = "receive"
        BY <1>1, <2>1, SleeperFacts
      <4> QED BY <2>3, <4>1
    <3>2. ListenerOf(s).object = s BY EntryFacts
    <3>3. service[s].pending = <<>> BY <2>2, <2>3, <3>1, <3>2 DEF StillFalse
    <3>4. service'[s].pending = <<>> BY <1>3, <3>1, <3>3
    <3> QED BY <2>1, <2>3, <3>1, <3>2, <3>4 DEF StillFalse
  <2>4. CASE call[q].op # "accept"
    <3>1. PICK c \in Connection, side \in Side : handle[q][call[q].handle] = EndOf(c, side)
      <4>1. \/ call[q].op = "accept"
            \/ /\ call[q].op = "receive"
               /\ \E c \in Connection, side \in Side : handle[q][call[q].handle] = EndOf(c, side)
        BY <1>1, <2>1, SleeperFacts
      <4> QED BY <2>4, <4>1
    <3>2. EndOf(c, side).object = c /\ EndOf(c, side).side = side BY EntryFacts
    <3>3. conn[c].queue[side] = <<>> /\ conn[c].open[Peer(side)]
      BY <2>2, <2>4, <3>1, <3>2 DEF StillFalse
    <3>4. conn'[c].queue[side] = <<>> /\ conn'[c].open[Peer(side)] BY <1>3, <3>1, <3>3
    <3> QED BY <2>1, <2>4, <3>1, <3>2, <3>4 DEF StillFalse
  <2> QED BY <2>3, <2>4
<1>4. Asleep(service, conn, {})' BY <1>3 DEF Asleep
<1> QED BY <1>2, <1>4

\* What may happen to the messages queued for a side in one step.
Drains(c, side) ==
    conn[c] # NoConnection /\ conn[c].queue[side] # <<>> =>
       \/ /\ conn'[c] # NoConnection /\ conn'[c].open[side]
          /\ \/ IsPrefix(conn[c].queue[side], conn'[c].queue[side])
             \/ conn'[c].queue[side] = Tail(conn[c].queue[side]) /\ ret' = "received"
       \/ /\ conn[c].open[side]
          /\ \A x \in HandlesOf(c, side) : handle'[x[1]][x[2]] = NoHandle
          /\ conn'[c] # NoConnection => conn'[c].open[side] = FALSE
Drained == \A c \in Connection, side \in Side : Drains(c, side)

\* A queue is a prefix of itself and of what an append makes of it.
LEMMA PrefixFacts ==
    ASSUME NEW q \in Seq(Message)
    PROVE  IsPrefix(q, q) /\ \A m \in Message : IsPrefix(q, Append(q, m))
<1>1. IsPrefix(q, q) BY DEF IsPrefix
<1>2. ASSUME NEW m \in Message PROVE IsPrefix(q, Append(q, m))
  <2>1. Len(q) \in Nat /\ Len(Append(q, m)) = Len(q) + 1 OBVIOUS
  <2>2. SubSeq(q, 1, Len(q)) = [i \in 1..Len(q) |-> q[i]] OBVIOUS
  <2>3. SubSeq(Append(q, m), 1, Len(q)) = [i \in 1..Len(q) |-> q[i]] BY <2>1
  <2> QED BY <2>1, <2>2, <2>3 DEF IsPrefix
<1> QED BY <1>1, <1>2

\* A side whose queue stays.
LEMMA SameDrains ==
    ASSUME IpcInv, NEW c \in Connection, NEW side \in Side,
           conn[c] = NoConnection \/
             (conn'[c] # NoConnection /\ conn'[c].open = conn[c].open
              /\ conn'[c].queue[side] = conn[c].queue[side])
    PROVE  Drains(c, side)
<1> SUFFICES ASSUME conn[c] # NoConnection, conn[c].queue[side] # <<>>
             PROVE  /\ conn'[c] # NoConnection /\ conn'[c].open[side]
                    /\ IsPrefix(conn[c].queue[side], conn'[c].queue[side])
  BY DEF Drains
<1>1. conn[c].open[side] BY InvFacts DEF QueuesOK
<1>2. conn[c].queue[side] \in Seq(Message) BY InvFacts, TableFacts, ConnFacts
<1> QED BY <1>1, <1>2, PrefixFacts

\* A step that leaves the connections alone.
LEMMA QuietDrains ==
    ASSUME IpcInv, conn' = conn
    PROVE  Drained
<1> SUFFICES ASSUME NEW c \in Connection, NEW side \in Side PROVE Drains(c, side)
  BY DEF Drained
<1> QED BY SameDrains

\* A step that appends to a queue, or takes the head of one.
LEMMA RequeuedDrains ==
    ASSUME IpcInv, NEW c \in Connection, NEW side \in Side, NEW q,
           Requeued(conn, conn', c, side, q),
           IsPrefix(conn[c].queue[side], q)
             \/ (q = Tail(conn[c].queue[side]) /\ ret' = "received")
    PROVE  Drained
<1> SUFFICES ASSUME NEW d \in Connection, NEW x \in Side PROVE Drains(d, x)
  BY DEF Drained
<1>1. /\ conn'[c] # NoConnection /\ conn'[c].open = conn[c].open /\ conn[c].open[side]
      /\ conn'[c].queue[side] = q /\ conn'[c].queue[Peer(side)] = conn[c].queue[Peer(side)]
      /\ \A e \in Connection : e # c => conn'[e] = conn[e]
  BY ConnFacts DEF Requeued
<1>2. CASE d # c BY <1>1, <1>2, SameDrains
<1>3. CASE d = c /\ x = side BY <1>1, <1>3 DEF Drains
<1>4. CASE d = c /\ x # side
  <2>1. x = Peer(side) BY <1>4, Sides
  <2> QED BY <1>1, <1>4, <2>1, SameDrains
<1> QED BY <1>2, <1>3, <1>4

\* Closing: the queue of a side that stays open is untouched, and a side that is
\* closed has lost its handle.
LEMMA ClosedDrains ==
    ASSUME IpcInv, NEW p \in Process, NEW st, NEW H, Fine(st, H), conn' = st.conn, handle' = H,
           \A q \in Process, g \in Slot : handle'[q][g] = handle[q][g] \/ handle'[q][g] = NoHandle
    PROVE  Drained
<1> SUFFICES ASSUME NEW c \in Connection, NEW side \in Side, conn[c] # NoConnection,
                    conn[c].queue[side] # <<>>
             PROVE  Drains(c, side)
  BY DEF Drained, Drains
<1>1. conn[c].open[side] BY InvFacts DEF QueuesOK
<1>2. EndsOK(conn', handle') /\ Kept(conn')
      /\ conn' \in [Connection -> Conns \cup {NoConnection}]
  BY DEF Fine, Good, Tables
<1>3. CASE conn'[c] # NoConnection /\ conn'[c].open[side]
  <2>1. conn'[c].queue[side] = conn[c].queue[side] BY <1>2, <1>3 DEF Kept
  <2>2. conn[c].queue[side] \in Seq(Message) BY InvFacts, TableFacts, ConnFacts
  <2>3. IsPrefix(conn[c].queue[side], conn'[c].queue[side]) BY <2>1, <2>2, PrefixFacts
  <2> QED BY <1>3, <2>3 DEF Drains
<1>4. CASE ~(conn'[c] # NoConnection /\ conn'[c].open[side])
  <2>1. ASSUME NEW x \in HandlesOf(c, side) PROVE handle'[x[1]][x[2]] = NoHandle
    <3>1. /\ x[1] \in Process /\ x[2] \in Slot /\ handle[x[1]][x[2]] = EndOf(c, side)
      BY DEF HandlesOf, EndOf
    <3>2. handle'[x[1]][x[2]] # EndOf(c, side) BY <1>2, <1>4, <3>1 DEF EndsOK, Attached
    <3> QED BY <3>1, <3>2
  <2>2. conn'[c] # NoConnection => conn'[c].open[side] = FALSE
    <3> SUFFICES ASSUME conn'[c] # NoConnection PROVE conn'[c].open[side] = FALSE OBVIOUS
    <3>1. conn'[c] \in Conns BY <1>2
    <3>2. conn'[c].open[side] \in BOOLEAN BY <3>1, ConnFacts
    <3> QED BY <1>4, <3>2
  <2> QED BY <1>1, <2>1, <2>2 DEF Drains
<1> QED BY <1>3, <1>4

\* The parts of the invariant after a step.
LEMMA InvNext ==
    ASSUME BufferTypeOK', sent' \in [Connection -> [Side -> 0..MessageMax]],
           Good(service', conn', handle', alive'),
           \A o \in Object : refs'[o] = Held(o)' + Cardinality(Carried(conn', o)),
           CallsOK', Asleep(service, conn, {})'
    PROVE  IpcInv'
BY DEF IpcInv, Counted

\* Connections whose queues did not change carry the same.
LEMMA SameCarried ==
    ASSUME NEW C \in [Connection -> Conns \cup {NoConnection}], QueuesOK(C),
           NEW D \in [Connection -> Conns \cup {NoConnection}], QueuesOK(D),
           \A c \in Connection, side \in Side : QueueOf(D)[<<c, side>>] = QueueOf(C)[<<c, side>>]
    PROVE  \A o : Carried(D, o) = Carried(C, o)
<1>1. QueueOf(C) \in Queues /\ QueueOf(D) \in Queues
      /\ \A o : Carried(C, o) = In(QueueOf(C), o) /\ Carried(D, o) = In(QueueOf(D), o)
  BY QueueFacts
<1>2. QueueOf(C) = QueueOf(D)
  <2>1. \A x \in Connection \X Side : QueueOf(D)[x] = QueueOf(C)[x]
    <3> SUFFICES ASSUME NEW x \in Connection \X Side PROVE QueueOf(D)[x] = QueueOf(C)[x]
      OBVIOUS
    <3>1. x[1] \in Connection /\ x[2] \in Side /\ x = <<x[1], x[2]>> OBVIOUS
    <3> QED BY <3>1
  <2> QED BY <1>1, <2>1 DEF Queues
<1> QED BY <1>1, <1>2

\* A call that leaves the buffers and the queues alone keeps the counts.
LEMMA SameCounts ==
    ASSUME IpcInv, UNCHANGED bufferVars,
           \A o : Carried(conn', o) = Carried(conn, o)
    PROVE  BufferTypeOK' /\ \A o \in Object : refs'[o] = Held(o)' + Cardinality(Carried(conn', o))
<1>1. refs' = refs /\ bhandle' = bhandle /\ bmap' = bmap /\ alive' = alive BY DEF bufferVars
<1>2. BufferTypeOK' BY <1>1 DEF IpcInv, BufferTypeOK
<1>3. \A o : Held(o)' = Held(o) BY <1>1 DEF Held
<1>4. \A o \in Object : refs[o] = Held(o) + Cardinality(Carried(conn, o))
  BY DEF IpcInv, Counted
<1> QED BY <1>1, <1>2, <1>3, <1>4

\* A process in Ring 3 disturbs no one by changing its own table.
LEMMA CallingUndisturbed ==
    ASSUME IpcInv, NEW p \in Process, Calling(p), UNCHANGED <<alive, call>>,
           blocked' \subseteq blocked,
           \A q \in Process : q # p => handle'[q] = handle[q]
    PROVE  Undisturbed
BY InvFacts DEF Undisturbed, Calling

\* SERVICE_REGISTER.
LEMMA RegisterStep ==
    ASSUME IpcInv, NEW p \in Process, NEW n \in Name, boring_ipc_service_register(p, n)
    PROVE  IpcInv' /\ Drained
<1>1. PICK s \in Service, h \in Slot :
         /\ find_free_service(s) /\ find_free_handle(p, h)
         /\ service' = [service EXCEPT ![s] = NewService(p, n)]
         /\ handle' = With(handle, p, h, ListenerOf(s))
  BY DEF boring_ipc_service_register, NewService, With, ListenerOf
<1>2. /\ Calling(p) /\ \A r \in Service : ~find_service(n, r)
      /\ UNCHANGED bufferVars /\ conn' = conn /\ sent' = sent /\ blocked' = blocked
      /\ call' = call
  BY DEF boring_ipc_service_register
<1>3. alive' = alive BY <1>2 DEF bufferVars
<1>4. service[s] = NoService /\ handle[p][h] = NoHandle
  BY <1>1 DEF find_free_service, find_free_handle, FirstFree
<1>5. \A r \in Service : service[r] # NoService => service[r].name # n
  BY <1>2 DEF find_service
<1>6. p \in alive /\ p \notin blocked BY <1>2 DEF Calling
<1>7. Good(service', conn, handle', alive)
  BY <1>1, <1>4, <1>5, <1>6, InvFacts, RegisterGood
<1>8. \A q \in Process : q # p => handle'[q] = handle[q] BY <1>1, InvFacts DEF With
<1>9. Undisturbed BY <1>2, <1>3, <1>8, CallingUndisturbed
<1>10. CallsOK' /\ Asleep(service, conn, {})'
  <2>1. \A q \in blocked', r \in Service :
           handle[q][call[q].handle] = ListenerOf(r) /\ service[r].pending = <<>>
              => service'[r].pending = <<>>
    <3> SUFFICES ASSUME NEW q \in blocked, NEW r \in Service,
                        handle[q][call[q].handle] = ListenerOf(r), service[r].pending = <<>>
                 PROVE  service'[r].pending = <<>>
      BY <1>2
    <3>1. q \in Process /\ call[q].handle \in Slot BY InvFacts, SleeperFacts
    <3>2. service[r] # NoService BY <3>1, InvFacts DEF ListenersOK
    <3> QED BY <1>1, <1>4, <3>2, InvFacts
  <2>2. \A q \in blocked', c \in Connection, side \in Side :
           handle[q][call[q].handle] = EndOf(c, side) /\ conn[c].queue[side] = <<>>
           /\ conn[c].open[Peer(side)] => conn'[c].queue[side] = <<>> /\ conn'[c].open[Peer(side)]
    BY <1>2
  <2> QED BY <1>9, <2>1, <2>2, StaysAsleep
<1>11. BufferTypeOK' /\ \A o \in Object : refs'[o] = Held(o)' + Cardinality(Carried(conn', o))
  BY <1>2, SameCounts
<1>12. sent' \in [Connection -> [Side -> 0..MessageMax]] BY <1>2 DEF IpcInv
<1>13. Good(service', conn', handle', alive') BY <1>2, <1>3, <1>7
<1>14. IpcInv' BY <1>10, <1>11, <1>12, <1>13, InvNext
<1> QED BY <1>2, <1>14, QuietDrains

\* SERVICE_CONNECT: the owner of the service is woken.
LEMMA ConnectStep ==
    ASSUME IpcInv, NEW p \in Process, NEW n \in Name, boring_ipc_service_connect(p, n)
    PROVE  IpcInv' /\ Drained
<1>1. PICK s \in Service, c \in Connection, h \in Slot :
         /\ find_service(n, s)
         /\ Len(service[s].pending) < PendingMax
         /\ find_free_connection(c) /\ find_free_handle(p, h)
         /\ conn' = [conn EXCEPT ![c] = NewConn(p, service[s].owner)]
         /\ sent' = [sent EXCEPT ![c] = [side \in Side |-> 0]]
         /\ handle' = With(handle, p, h, EndOf(c, "client"))
         /\ service' = [service EXCEPT ![s].pending = Append(@, c)]
         /\ blocked' = blocked \ {service[s].owner}
  BY DEF boring_ipc_service_connect, NewConn, With, EndOf, task_wake_process
<1>2. Calling(p) /\ UNCHANGED bufferVars /\ call' = call
  BY DEF boring_ipc_service_connect
<1>3. alive' = alive BY <1>2 DEF bufferVars
<1>4. conn[c] = NoConnection /\ handle[p][h] = NoHandle /\ service[s] # NoService
  BY <1>1 DEF find_free_connection, find_free_handle, FirstFree, find_service
<1>5. p \in alive /\ p \notin blocked BY <1>2 DEF Calling
<1>6. Good(service', conn', handle', alive)
  BY <1>1, <1>4, <1>5, InvFacts, ConnectGood
<1>7. \A q \in Process : q # p => handle'[q] = handle[q] BY <1>1, InvFacts DEF With
<1>8. blocked' \subseteq blocked BY <1>1
<1>9. Undisturbed BY <1>2, <1>3, <1>7, <1>8, CallingUndisturbed
<1>10. CallsOK' /\ Asleep(service, conn, {})'
  <2>1. ASSUME NEW q \in blocked', NEW r \in Service,
               handle[q][call[q].handle] = ListenerOf(r), service[r].pending = <<>>
        PROVE  service'[r].pending = <<>>
    <3>1. q \in blocked /\ q # service[s].owner BY <1>1, <2>1
    <3>2. q \in Process /\ call[q].handle \in Slot BY <3>1, InvFacts, SleeperFacts
    <3>3. service[r].owner = q BY <2>1, <3>2, InvFacts DEF ListenersOK
    <3>4. r # s BY <3>1, <3>3
    <3> QED BY <1>1, <2>1, <3>4, InvFacts
  <2>2. ASSUME NEW q \in blocked', NEW d \in Connection, NEW side \in Side,
               handle[q][call[q].handle] = EndOf(d, side)
        PROVE  conn'[d] = conn[d]
    <3>1. q \in blocked BY <1>1, <2>2
    <3>2. q \in Process /\ call[q].handle \in Slot BY <3>1, InvFacts, SleeperFacts
    <3>3. conn[d] # NoConnection BY <2>2, <3>2, InvFacts DEF EndsOK, Attached
    <3> QED BY <1>1, <1>4, <3>3, InvFacts
  <2>3. \A q \in blocked', r \in Service :
           handle[q][call[q].handle] = ListenerOf(r) /\ service[r].pending = <<>>
              => service'[r].pending = <<>>
    BY <2>1
  <2>4. \A q \in blocked', d \in Connection, side \in Side :
           handle[q][call[q].handle] = EndOf(d, side) /\ conn[d].queue[side] = <<>>
           /\ conn[d].open[Peer(side)] => conn'[d].queue[side] = <<>> /\ conn'[d].open[Peer(side)]
    BY <2>2
  <2> QED BY <1>9, <2>3, <2>4, StaysAsleep
<1>11. \A o : Carried(conn', o) = Carried(conn, o)
  <2>1. QueuesOK(conn) /\ QueuesOK(conn') /\ conn' \in [Connection -> Conns \cup {NoConnection}]
        /\ conn \in [Connection -> Conns \cup {NoConnection}]
    BY <1>6, InvFacts DEF Good, Tables
  <2>2. service[s].owner \in Process BY <1>4, InvFacts, TableFacts, ServiceFacts
  <2>3. conn'[c] # NoConnection /\ \A side \in Side : conn'[c].queue[side] = <<>>
    <3>1. conn'[c] = NewConn(p, service[s].owner) BY <1>1, <2>1
    <3> QED BY <2>2, <3>1, NewRecords, ConnFacts
  <2>4. \A d \in Connection : d # c => conn'[d] = conn[d] BY <1>1, <2>1
  <2>5. ASSUME NEW d \in Connection, NEW side \in Side
        PROVE  QueueOf(conn')[<<d, side>>] = QueueOf(conn)[<<d, side>>]
    BY <1>4, <2>1, <2>3, <2>4, QueueFacts
  <2> QED BY <2>1, <2>5, SameCarried
<1>12. BufferTypeOK' /\ \A o \in Object : refs'[o] = Held(o)' + Cardinality(Carried(conn', o))
  BY <1>2, <1>11, SameCounts
<1>13. sent' \in [Connection -> [Side -> 0..MessageMax]]
  <2>1. sent \in [Connection -> [Side -> 0..MessageMax]] BY DEF IpcInv
  <2>2. [side \in Side |-> 0] \in [Side -> 0..MessageMax] BY IpcAssumption
  <2> QED BY <1>1, <2>1, <2>2
<1>14. Good(service', conn', handle', alive') BY <1>3, <1>6
<1>15. IpcInv' BY <1>10, <1>12, <1>13, <1>14, InvNext
<1>16. ASSUME NEW d \in Connection, NEW side \in Side PROVE Drains(d, side)
  <2>1. d = c \/ conn'[d] = conn[d] BY <1>1, InvFacts
  <2> QED BY <1>4, <2>1, SameDrains
<1>17. Drained BY <1>16 DEF Drained
<1> QED BY <1>15, <1>17

\* The part of the state that a call leaves alone when it only goes to sleep or
\* returns.
Quiet == UNCHANGED <<bufferVars, service, conn, handle, sent>>

\* Everything but the calls stays.
LEMMA QuietFacts ==
    ASSUME IpcInv, Quiet, CallsOK', Asleep(service, conn, {})'
    PROVE  IpcInv'
<1>1. /\ UNCHANGED bufferVars /\ service' = service /\ conn' = conn /\ handle' = handle
      /\ sent' = sent /\ alive' = alive
  BY DEF Quiet, bufferVars
<1>2. Good(service', conn', handle', alive') BY <1>1, InvFacts
<1>3. \A o : Carried(conn', o) = Carried(conn, o) BY <1>1
<1>4. BufferTypeOK' /\ \A o \in Object : refs'[o] = Held(o)' + Cardinality(Carried(conn', o))
  BY <1>1, <1>3, SameCounts
<1>5. sent' \in [Connection -> [Side -> 0..MessageMax]] BY <1>1 DEF IpcInv
<1> QED BY <1>2, <1>4, <1>5, InvNext

\* A call that returns with nothing done, and a wake-up.
LEMMA ReturnStep ==
    ASSUME IpcInv, NEW p \in Process, p \notin blocked', Quiet, blocked' \subseteq blocked,
           call' = call \/ call' = [call EXCEPT ![p] = InUser]
    PROVE  IpcInv'
<1>1. handle' = handle /\ service' = service /\ conn' = conn /\ alive' = alive
  BY DEF Quiet, bufferVars
<1>2. /\ call \in [Process -> Calls \cup {InUser}] /\ blocked \subseteq alive
      /\ alive \subseteq Process
  BY InvFacts
<1>3. Undisturbed
  <2>1. call' \in [Process -> Calls \cup {InUser}] BY <1>2
  <2>2. \A q \in Process : q # p => call'[q] = call[q] BY <1>2
  <2>3. call'[p] = call[p] \/ call'[p] = InUser BY <1>2
  <2> QED BY <1>1, <1>2, <2>1, <2>2, <2>3 DEF Undisturbed
<1>4. \A q \in blocked', s \in Service :
         handle[q][call[q].handle] = ListenerOf(s) /\ service[s].pending = <<>>
            => service'[s].pending = <<>>
  BY <1>1
<1>5. \A q \in blocked', c \in Connection, side \in Side :
         handle[q][call[q].handle] = EndOf(c, side) /\ conn[c].queue[side] = <<>>
         /\ conn[c].open[Peer(side)] => conn'[c].queue[side] = <<>> /\ conn'[c].open[Peer(side)]
  BY <1>1
<1>6. CallsOK' /\ Asleep(service, conn, {})' BY <1>3, <1>4, <1>5, StaysAsleep
<1> QED BY <1>6, QuietFacts

\* A call goes to sleep while its condition is false.
LEMMA BlockStep ==
    ASSUME IpcInv, NEW p \in Process, p \in alive, NEW op \in {"accept", "receive"},
           NEW h \in Slot, Quiet, blocked' = blocked \cup {p},
           call' = [call EXCEPT ![p] = [op |-> op, handle |-> h]],
           handle[p][h].type = IF op = "accept" THEN "listener" ELSE "endpoint",
           IF op = "accept" THEN service[handle[p][h].object].pending = <<>>
           ELSE /\ conn[handle[p][h].object].queue[handle[p][h].side] = <<>>
                /\ conn[handle[p][h].object].open[Peer(handle[p][h].side)]
    PROVE  IpcInv'
<1>1. handle' = handle /\ service' = service /\ conn' = conn /\ alive' = alive
  BY DEF Quiet, bufferVars
<1>2. call \in [Process -> Calls \cup {InUser}] /\ blocked \subseteq alive /\ CallsOK
      /\ alive \subseteq Process
  BY InvFacts
<1>3. [op |-> op, handle |-> h] \in Calls BY DEF Calls
<1>4. \A k \in Calls : k # InUser
  <2>1. \A k \in Calls : k.op \in {"accept", "receive"} BY DEF Calls
  <2>2. InUser.op = "user" BY DEF InUser
  <2> QED BY <2>1, <2>2
<1>5. /\ call'[p] = [op |-> op, handle |-> h] /\ call'[p].op = op /\ call'[p].handle = h
      /\ call'[p] # InUser
      /\ \A q \in Process : q # p => call'[q] = call[q]
  BY <1>2, <1>3, <1>4
<1>6. CallsOK'
  <2>1. call' \in [Process -> Calls \cup {InUser}] BY <1>2, <1>3
  <2>2. \A q \in blocked' : call'[q] # InUser BY <1>2, <1>5 DEF CallsOK
  <2>3. ASSUME NEW q \in Process, call'[q] # InUser
        PROVE  handle'[q][call'[q].handle].type =
                  IF call'[q].op = "accept" THEN "listener" ELSE "endpoint"
    <3>1. CASE q = p BY <1>1, <1>5, <3>1
    <3>2. CASE q # p BY <1>1, <1>2, <1>5, <2>3, <3>2 DEF CallsOK
    <3> QED BY <3>1, <3>2
  <2>4. blocked' \subseteq alive' BY <1>1, <1>2
  <2> QED BY <2>1, <2>2, <2>3, <2>4 DEF CallsOK
<1>7. ASSUME NEW q \in blocked' PROVE StillFalse(q, service, conn)'
  <2>1. CASE q = p BY <1>1, <1>5, <2>1 DEF StillFalse
  <2>2. CASE q # p
    <3>1. q \in blocked /\ q \in Process BY <1>2, <1>7, <2>2
    <3>2. StillFalse(q, service, conn) BY <3>1 DEF IpcInv, Asleep
    <3>3. call'[q] = call[q] BY <1>5, <2>2, <3>1
    <3> QED BY <1>1, <3>2, <3>3 DEF StillFalse
  <2> QED BY <2>1, <2>2
<1>8. Asleep(service, conn, {})' BY <1>7 DEF Asleep
<1> QED BY <1>6, <1>8, QuietFacts

\* The pending queue without its head.
LEMMA TailPopped ==
    ASSUME NEW V \in [Service -> Services \cup {NoService}], NEW s \in Service,
           V[s] # NoService, V[s].pending # <<>>, Len(V[s].pending) <= PendingMax
    PROVE  /\ Popped(V, [V EXCEPT ![s].pending = Tail(@)], s)
           /\ At(V, s, 1, Head(V[s].pending))
           /\ Head(V[s].pending) \in Connection
<1>1. V[s] \in Services /\ V[s].pending \in Seq(Connection)
  <2>1. V[s] \in Services OBVIOUS
  <2> QED BY <2>1, ServiceFacts
<1> DEFINE W == [V EXCEPT ![s].pending = Tail(@)]
           q == V[s].pending
<1>2. /\ Tail(q) \in Seq(Connection) /\ Len(Tail(q)) = Len(q) - 1 /\ Len(q) \in Nat
      /\ Len(q) >= 1
      /\ \A i \in 1..Len(Tail(q)) : Tail(q)[i] = q[i + 1]
      /\ Head(q) = q[1] /\ Head(q) \in Connection
  BY <1>1
<1>3. W[s] = [V[s] EXCEPT !.pending = Tail(q)] /\ \A r \in Service : r # s => W[r] = V[r]
  OBVIOUS
<1>4. W[s] \in Services BY <1>1, <1>2, <1>3 DEF Services
<1>5. W[s].owner = V[s].owner /\ W[s].name = V[s].name /\ W[s].pending = Tail(q)
  BY <1>1, <1>3 DEF Services
<1>6. W[s] # NoService BY <1>4, ServiceFacts
<1>7. W \in [Service -> Services \cup {NoService}] BY <1>4
<1> HIDE DEF W
<1>8. \A i \in Nat, c \in Connection : At(W, s, i, c) <=> (i > 0 /\ At(V, s, i + 1, c))
  <2> SUFFICES ASSUME NEW i \in Nat, NEW c \in Connection
               PROVE  At(W, s, i, c) <=> (i > 0 /\ At(V, s, i + 1, c))
    OBVIOUS
  <2>1. At(W, s, i, c) <=> i \in 1..Len(Tail(q)) /\ Tail(q)[i] = c
    BY <1>5, <1>6 DEF At
  <2>2. At(V, s, i + 1, c) <=> i + 1 \in 1..Len(q) /\ q[i + 1] = c
    BY DEF At
  <2>3. i \in 1..Len(Tail(q)) <=> i > 0 /\ i + 1 \in 1..Len(q) BY <1>2
  <2> QED BY <1>2, <2>1, <2>2, <2>3
<1>9. Len(W[s].pending) <= PendingMax BY <1>2, <1>5, IpcAssumption
<1>10. Popped(V, W, s) BY <1>3, <1>5, <1>6, <1>7, <1>8, <1>9 DEF Popped
<1>11. At(V, s, 1, Head(q)) BY <1>2 DEF At
<1> QED BY <1>2, <1>10, <1>11 DEF W

\* Accepting the connection.
LEMMA AcceptedFacts ==
    ASSUME NEW C \in [Connection -> Conns \cup {NoConnection}], NEW c \in Connection,
           C[c] # NoConnection
    PROVE  Accepted(C, [C EXCEPT ![c].accepted = TRUE], c)
<1> DEFINE D == [C EXCEPT ![c].accepted = TRUE]
           k == [C[c] EXCEPT !.accepted = TRUE]
<1>1. C[c] \in Conns OBVIOUS
<1>2. D[c] = k /\ \A d \in Connection : d # c => D[d] = C[d] OBVIOUS
<1>3. k \in Conns BY <1>1 DEF Conns
<1>4. k.owner = C[c].owner /\ k.open = C[c].open /\ k.queue = C[c].queue
  BY <1>1 DEF Conns
<1>5. k.accepted BY <1>1 DEF Conns
<1>6. D \in [Connection -> Conns \cup {NoConnection}] BY <1>3
<1> QED BY <1>2, <1>3, <1>4, <1>5, <1>6 DEF Accepted

\* Nobody sleeps on a handle of a process that runs.
LEMMA SleeperHandles ==
    ASSUME IpcInv, NEW q \in blocked
    PROVE  /\ q \in Process /\ call[q].handle \in Slot
           /\ \A s \in Service : handle[q][call[q].handle] = ListenerOf(s) =>
                 service[s] # NoService /\ service[s].owner = q
           /\ \A c \in Connection, side \in Side : handle[q][call[q].handle] = EndOf(c, side) =>
                 /\ conn[c] # NoConnection /\ conn[c].open[side] /\ conn[c].owner[side] = q
                 /\ side = "server" => conn[c].accepted
<1>1. q \in Process /\ call[q].handle \in Slot BY InvFacts, SleeperFacts
<1>2. EndsOK(conn, handle) /\ ListenersOK(service, handle) BY InvFacts
<1>3. \A s \in Service : handle[q][call[q].handle] = ListenerOf(s) =>
         service[s] # NoService /\ service[s].owner = q
  BY <1>1, <1>2 DEF ListenersOK
<1>4. \A c \in Connection, side \in Side : handle[q][call[q].handle] = EndOf(c, side) =>
         Attached(conn, c, side) /\ conn[c].owner[side] = q
  BY <1>1, <1>2 DEF EndsOK
<1> QED BY <1>1, <1>3, <1>4 DEF Attached

\* SERVICE_ACCEPT finds a connection.
LEMMA AcceptStep ==
    ASSUME IpcInv, NEW p \in Process, p \in alive, p \notin blocked, NEW l \in Slot,
           handle[p][l].type = "listener", boring_ipc_service_accept(p, l),
           Return(p, "accepted"), UNCHANGED <<bufferVars, sent>>
    PROVE  IpcInv' /\ Drained
<1> DEFINE s == handle[p][l].object
           c == Head(service[s].pending)
<1>1. handle[p][l] = ListenerOf(s) /\ s \in Service
  <2>1. handle[p][l] \in Entries BY InvFacts
  <2> QED BY <2>1, EntryFacts
<1>2. PICK h \in Slot : /\ find_free_handle(p, h)
                        /\ handle' = With(handle, p, h, EndOf(c, "server"))
  BY DEF boring_ipc_service_accept, With, EndOf
<1>3. /\ service[s].pending # <<>>
      /\ service' = [service EXCEPT ![s].pending = Tail(@)]
      /\ conn' = [conn EXCEPT ![c].accepted = TRUE]
  BY DEF boring_ipc_service_accept
<1>4. /\ call' = [call EXCEPT ![p] = InUser] /\ blocked' = blocked
      /\ UNCHANGED bufferVars /\ sent' = sent /\ alive' = alive
  BY DEF Return, bufferVars
<1> HIDE DEF s, c
<1>5. service[s] # NoService /\ service[s].owner = p BY <1>1, InvFacts DEF ListenersOK
<1>6. Len(service[s].pending) <= PendingMax BY <1>1, <1>5, InvFacts DEF PendingOK
<1>7. Popped(service, service', s) /\ At(service, s, 1, c) /\ c \in Connection
  <2>1. service \in [Service -> Services \cup {NoService}] BY InvFacts
  <2> QED BY <1>1, <1>3, <1>5, <1>6, <2>1, TailPopped DEF c
<1>8. Waiting(conn, c) BY <1>1, <1>7, InvFacts DEF PendingOK
<1>9. Accepted(conn, conn', c)
  <2>1. conn[c] # NoConnection BY <1>8 DEF Waiting
  <2> QED BY <1>3, <1>7, <2>1, InvFacts, AcceptedFacts
<1>10. handle[p][h] = NoHandle BY <1>2 DEF find_free_handle, FirstFree
<1>11. Good(service', conn', handle', alive)
  BY <1>1, <1>2, <1>5, <1>7, <1>9, <1>10, InvFacts, AcceptGood
<1>12. Undisturbed
  <2>1. /\ call \in [Process -> Calls \cup {InUser}] /\ blocked \subseteq alive
        /\ handle \in [Process -> [Slot -> Entries]]
    BY InvFacts
  <2>2. call' \in [Process -> Calls \cup {InUser}] BY <1>4, <2>1
  <2>3. \A q \in Process : q # p => call'[q] = call[q] /\ handle'[q] = handle[q]
    BY <1>2, <1>4, <2>1 DEF With
  <2>4. call'[p] = InUser BY <1>4, <2>1
  <2> QED BY <1>4, <2>1, <2>2, <2>3, <2>4 DEF Undisturbed
<1>13. CallsOK' /\ Asleep(service, conn, {})'
  <2>1. ASSUME NEW q \in blocked', NEW r \in Service,
               handle[q][call[q].handle] = ListenerOf(r)
        PROVE  service'[r] = service[r]
    <3>1. q # p /\ service[r].owner = q BY <1>4, <2>1, SleeperHandles
    <3>2. r # s BY <1>5, <3>1
    <3> QED BY <1>7, <3>2 DEF Popped
  <2>2. ASSUME NEW q \in blocked', NEW d \in Connection, NEW side \in Side,
               handle[q][call[q].handle] = EndOf(d, side)
        PROVE  conn'[d].queue = conn[d].queue /\ conn'[d].open = conn[d].open
    BY <1>9 DEF Accepted
  <2>3. \A q \in blocked', r \in Service :
           handle[q][call[q].handle] = ListenerOf(r) /\ service[r].pending = <<>>
              => service'[r].pending = <<>>
    BY <2>1
  <2>4. \A q \in blocked', d \in Connection, side \in Side :
           handle[q][call[q].handle] = EndOf(d, side) /\ conn[d].queue[side] = <<>>
           /\ conn[d].open[Peer(side)] => conn'[d].queue[side] = <<>> /\ conn'[d].open[Peer(side)]
    BY <2>2
  <2> QED BY <1>12, <2>3, <2>4, StaysAsleep
<1>14. \A o : Carried(conn', o) = Carried(conn, o)
  <2>1. /\ conn \in [Connection -> Conns \cup {NoConnection}] /\ QueuesOK(conn)
        /\ conn' \in [Connection -> Conns \cup {NoConnection}] /\ QueuesOK(conn')
    BY <1>11, InvFacts DEF Good, Tables
  <2>2. conn[c] # NoConnection /\ conn'[c] # NoConnection /\ conn'[c].queue = conn[c].queue
        /\ \A d \in Connection : d # c => conn'[d] = conn[d]
    BY <1>8, <1>9, ConnFacts DEF Waiting, Accepted
  <2>3. ASSUME NEW d \in Connection, NEW side \in Side
        PROVE  QueueOf(conn')[<<d, side>>] = QueueOf(conn)[<<d, side>>]
    BY <2>1, <2>2, QueueFacts
  <2> QED BY <2>1, <2>3, SameCarried
<1>15. BufferTypeOK' /\ \A o \in Object : refs'[o] = Held(o)' + Cardinality(Carried(conn', o))
  BY <1>4, <1>14, SameCounts
<1>16. sent' \in [Connection -> [Side -> 0..MessageMax]] BY <1>4 DEF IpcInv
<1>17. Good(service', conn', handle', alive') BY <1>4, <1>11
<1>18. IpcInv' BY <1>13, <1>15, <1>16, <1>17, InvNext
<1>19. ASSUME NEW d \in Connection, NEW side \in Side PROVE Drains(d, side)
  <2>1. CASE d = c
    <3>1. conn'[c] # NoConnection /\ conn'[c].open = conn[c].open /\ conn'[c].queue = conn[c].queue
      BY <1>9, ConnFacts DEF Accepted
    <3> QED BY <2>1, <3>1, SameDrains
  <2>2. CASE d # c
    <3>1. conn'[d] = conn[d] BY <1>9, <2>2 DEF Accepted
    <3> QED BY <3>1, SameDrains
  <2> QED BY <2>1, <2>2
<1>20. Drained BY <1>19 DEF Drained
<1> QED BY <1>18, <1>20

\* A turn of SERVICE_ACCEPT.
LEMMA AcceptTurnStep ==
    ASSUME IpcInv, NEW p \in Process, p \in alive, p \notin blocked, NEW l \in Slot,
           AcceptTurn(p, l)
    PROVE  IpcInv' /\ Drained
<1>1. handle[p][l].type = "listener" /\ UNCHANGED <<bufferVars, sent>> BY DEF AcceptTurn
<1>2. CASE boring_ipc_service_accept(p, l) /\ Return(p, "accepted")
  BY <1>1, <1>2, AcceptStep
<1>3. CASE /\ IF service[handle[p][l].object].pending = <<>>
                THEN task_block_current(p, "accept", l)
                ELSE Return(p, "NO_SPACE")
           /\ UNCHANGED <<service, conn, handle>>
  <2>1. Quiet BY <1>1, <1>3 DEF Quiet
  <2>4. Drained BY <2>1, QuietDrains DEF Quiet
  <2>2. CASE blocked' = blocked /\ call' = [call EXCEPT ![p] = InUser]
    BY <2>1, <2>2, <2>4, ReturnStep
  <2>3. CASE /\ service[handle[p][l].object].pending = <<>>
             /\ blocked' = blocked \cup {p}
             /\ call' = [call EXCEPT ![p] = [op |-> "accept", handle |-> l]]
    BY <1>1, <2>1, <2>3, <2>4, BlockStep
  <2> QED BY <1>3, <2>2, <2>3 DEF task_block_current, Return
<1> QED BY <1>2, <1>3 DEF AcceptTurn

\* The side a handle names, when it is open.
LEMMA OpenFacts ==
    ASSUME IpcInv, NEW p \in Process, NEW h \in Slot, OpenEndpoint(p, h)
    PROVE  LET c == handle[p][h].object
               side == handle[p][h].side
           IN  /\ c \in Connection /\ side \in Side /\ handle[p][h] = EndOf(c, side)
               /\ conn[c] # NoConnection /\ conn[c] \in Conns /\ conn[c].open[side]
               /\ conn[c].owner[side] = p
               /\ \A x \in Side : conn[c].queue[x] \in Seq(Message)
<1> DEFINE c == handle[p][h].object
           side == handle[p][h].side
<1>1. handle[p][h] \in Entries /\ conn \in [Connection -> Conns \cup {NoConnection}]
      /\ EndsOK(conn, handle)
  BY InvFacts
<1>2. c \in Connection /\ side \in Side /\ handle[p][h] = EndOf(c, side)
  BY <1>1, EntryFacts DEF OpenEndpoint, Endpoint
<1>3. conn[c] # NoConnection /\ conn[c].open[side] BY DEF OpenEndpoint
<1> HIDE DEF c, side
<1>4. conn[c] \in Conns BY <1>1, <1>2, <1>3
<1>5. conn[c].owner[side] = p BY <1>1, <1>2 DEF EndsOK
<1>6. \A x \in Side : conn[c].queue[x] \in Seq(Message) BY <1>4, ConnFacts
<1> QED BY <1>2, <1>3, <1>4, <1>5, <1>6 DEF c, side

\* Whoever does not own the changed side sleeps on.
LEMMA RequeuedAsleep ==
    ASSUME IpcInv, Undisturbed, service' = service, NEW c \in Connection, NEW side \in Side,
           NEW q, Requeued(conn, conn', c, side, q), conn[c].owner[side] \notin blocked'
    PROVE  CallsOK' /\ Asleep(service, conn, {})'
<1>1. ASSUME NEW r \in blocked', NEW d \in Connection, NEW x \in Side,
             handle[r][call[r].handle] = EndOf(d, x)
      PROVE  conn'[d].queue[x] = conn[d].queue[x] /\ conn'[d].open = conn[d].open
  <2>1. r \in blocked BY <1>1 DEF Undisturbed
  <2>2. conn[d].owner[x] = r BY <1>1, <2>1, SleeperHandles
  <2>3. <<d, x>> # <<c, side>> BY <1>1, <2>2
  <2>4. CASE d # c BY <2>4 DEF Requeued
  <2>5. CASE d = c
    <3>1. x = Peer(side) BY <2>3, <2>5, Sides
    <3> QED BY <2>5, <3>1 DEF Requeued
  <2> QED BY <2>4, <2>5
<1>2. \A r \in blocked', s \in Service :
         handle[r][call[r].handle] = ListenerOf(s) /\ service[s].pending = <<>>
            => service'[s].pending = <<>>
  OBVIOUS
<1>3. \A r \in blocked', d \in Connection, x \in Side :
         handle[r][call[r].handle] = EndOf(d, x) /\ conn[d].queue[x] = <<>>
         /\ conn[d].open[Peer(x)] => conn'[d].queue[x] = <<>> /\ conn'[d].open[Peer(x)]
  BY <1>1
<1> QED BY <1>2, <1>3, StaysAsleep

\* IPC_SEND: the message takes its reference and the receiver is woken.
LEMMA SendStep ==
    ASSUME IpcInv, NEW p \in Process, NEW h \in Slot, NEW b \in 0..BufferHandleMax,
           boring_ipc_send(p, h, b)
    PROVE  IpcInv' /\ Drained
<1> DEFINE c == handle[p][h].object
           side == handle[p][h].side
           to == Peer(side)
           o == IF b = 0 THEN NoObject ELSE bhandle[p][b]
           m == [payload |-> sent[c][to] + 1, buffer |-> o]
<1>1. /\ Calling(p) /\ OpenEndpoint(p, h) /\ conn[c].open[to]
      /\ Len(conn[c].queue[to]) < QueueMax /\ sent[c][to] < MessageMax
      /\ b # 0 => o # NoObject /\ refs[o] < ReferenceMax
      /\ refs' = IF b = 0 THEN refs ELSE [refs EXCEPT ![o] = @ + 1]
      /\ conn' = [conn EXCEPT ![c].queue[to] = Append(@, m)]
      /\ sent' = [sent EXCEPT ![c][to] = @ + 1]
      /\ blocked' = blocked \ {conn[c].owner[to]}
      /\ UNCHANGED <<alive, bhandle, bmap, service, handle, call>>
  BY DEF boring_ipc_send, task_wake_process
<1>2. /\ c \in Connection /\ side \in Side /\ conn[c] # NoConnection /\ conn[c] \in Conns
      /\ \A x \in Side : conn[c].queue[x] \in Seq(Message)
  BY <1>1, OpenFacts
<1>3. to \in Side BY <1>2, Sides
<1>4. sent \in [Connection -> [Side -> 0..MessageMax]] BY DEF IpcInv
<1>5. o \in Object \cup {NoObject} /\ (b # 0 => o \in Object)
  <2>1. b # 0 => b \in BufferSlot BY BufferAssumption DEF BufferSlot
  <2>2. bhandle \in [Process -> [BufferSlot -> Object \cup {NoObject}]] BY InvFacts
  <2> QED BY <1>1, <2>1, <2>2
<1> HIDE DEF c, side, to, o
<1>6. m \in Message /\ m.buffer = o
  <2>1. sent[c][to] \in 0..MessageMax BY <1>2, <1>3, <1>4
  <2>2. sent[c][to] + 1 \in 1..MessageMax BY <1>1, <2>1, IpcAssumption
  <2> QED BY <1>5, <2>2 DEF Message
<1> HIDE DEF m
<1> DEFINE q == conn[c].queue[to]
           r == Append(q, m)
<1>7. q \in Seq(Message) /\ r \in Seq(Message) /\ Len(r) <= QueueMax
  BY <1>1, <1>2, <1>3, <1>6, IpcAssumption
<1>8. Requeued(conn, conn', c, to, r)
  <2>1. conn \in [Connection -> Conns \cup {NoConnection}] BY InvFacts
  <2>2. conn' = [conn EXCEPT ![c] = [conn[c] EXCEPT !.queue[to] = r]] BY <1>1, <2>1
  <2> HIDE DEF r
  <2> QED BY <1>1, <1>2, <1>3, <1>7, <2>1, <2>2, RequeuedFacts
<1>9. Good(service, conn', handle, alive)
  <2> HIDE DEF r
  <2> QED BY <1>2, <1>3, <1>7, <1>8, InvFacts, RequeuedGood
<1>10. Undisturbed BY <1>1, CallingUndisturbed
<1>11. CallsOK' /\ Asleep(service, conn, {})'
  <2> HIDE DEF r
  <2> QED BY <1>1, <1>2, <1>3, <1>8, <1>10, RequeuedAsleep
<1>12. ASSUME NEW x \in Object
       PROVE  Cardinality(Carried(conn', x)) =
                 Cardinality(Carried(conn, x)) + (IF o = x THEN 1 ELSE 0)
  <2>1. /\ conn \in [Connection -> Conns \cup {NoConnection}] /\ QueuesOK(conn)
        /\ QueuesOK(conn')
    BY <1>9, InvFacts DEF Good
  <2>2. Cardinality(Carried(conn', x)) = Cardinality(Carried(conn, x))
           - Cardinality(Pos(q, x)) + Cardinality(Pos(r, x))
    <3> HIDE DEF r
    <3> QED BY <1>2, <1>3, <1>8, <2>1, RequeuedCarried
  <2>3. Cardinality(Pos(r, x)) = Cardinality(Pos(q, x)) + (IF o = x THEN 1 ELSE 0)
    <3> HIDE DEF q
    <3> QED BY <1>6, <1>7, PosAppend
  <2>4. Cardinality(Pos(q, x)) \in Nat BY <1>7, PosFinite
  <2>5. Cardinality(Carried(conn, x)) \in Nat BY <2>1, QueueFacts, InFinite
  <2> HIDE DEF q, r
  <2> QED BY <2>2, <2>3, <2>4, <2>5
<1>13. \A x \in Object : refs'[x] = refs[x] + (IF o = x THEN 1 ELSE 0)
  <2>1. refs \in [Object -> 0..ReferenceMax] BY InvFacts
  <2>2. CASE b = 0
    <3>1. \A x \in Object : o # x BY <2>2, BufferAssumption DEF o, NoObject, Object
    <3> QED BY <1>1, <2>1, <2>2, <3>1
  <2>3. CASE b # 0 BY <1>1, <1>5, <2>1, <2>3
  <2> QED BY <2>2, <2>3
<1>14. \A x \in Object : refs'[x] = Held(x)' + Cardinality(Carried(conn', x))
  <2> SUFFICES ASSUME NEW x \in Object
               PROVE  refs'[x] = Held(x)' + Cardinality(Carried(conn', x))
    OBVIOUS
  <2>1. Held(x)' = Held(x) BY <1>1 DEF Held
  <2>2. Held(x) \in Nat BY HeldFacts
  <2>3. Cardinality(Carried(conn, x)) \in Nat BY InvFacts, QueueFacts, InFinite
  <2>4. refs[x] = Held(x) + Cardinality(Carried(conn, x)) BY DEF IpcInv, Counted
  <2> QED BY <1>12, <1>13, <2>1, <2>2, <2>3, <2>4
<1>15. BufferTypeOK'
  <2>1. refs \in [Object -> 0..ReferenceMax] BY InvFacts
  <2>2. refs' \in [Object -> 0..ReferenceMax] BY <1>1, <1>5, <2>1, BufferAssumption
  <2> QED BY <1>1, <2>2, InvFacts DEF BufferTypeOK
<1>16. sent' \in [Connection -> [Side -> 0..MessageMax]]
  <2>1. sent[c][to] + 1 \in 0..MessageMax BY <1>1, <1>2, <1>3, <1>4, IpcAssumption
  <2> QED BY <1>1, <1>4, <2>1
<1>17. Good(service', conn', handle', alive') BY <1>1, <1>9
<1>18. IpcInv' BY <1>11, <1>14, <1>15, <1>16, <1>17, InvNext
<1>19. Drained
  <2>1. IsPrefix(q, r)
    <3> HIDE DEF q
    <3> QED BY <1>6, <1>7, PrefixFacts
  <2> HIDE DEF r
  <2> QED BY <1>2, <1>3, <1>8, <2>1, RequeuedDrains
<1> QED BY <1>18, <1>19

\* The references of processes when a slot of a buffer handle table changes.
LEMMA HandlePut ==
    ASSUME IpcInv, NEW p \in Process, NEW s \in BufferSlot, NEW o \in Object \cup {NoObject},
           bhandle' = Put(bhandle, p, s, o), bmap' = bmap, NEW x \in Object
    PROVE  /\ bhandle' \in [Process -> [BufferSlot -> Object \cup {NoObject}]]
           /\ Held(x)' = Held(x) - (IF bhandle[p][s] = x THEN 1 ELSE 0)
                                 + (IF o = x THEN 1 ELSE 0)
<1> DEFINE X == Object \cup {NoObject}
<1>1. bhandle \in [Process -> [BufferSlot -> X]] /\ o \in X BY InvFacts
<1> HIDE DEF X
<1>2. /\ bhandle' \in [Process -> [BufferSlot -> X]]
      /\ CountAfter(bhandle, bhandle', BufferSlot, p, s, o, x)
  BY <1>1, FiniteSlots, UpdateCount
<1>3. /\ Held(x) = Cardinality(Places(bhandle, BufferSlot, x))
                     + Cardinality(Places(bmap, MappingSlot, x))
      /\ Cardinality(Places(bhandle, BufferSlot, x)) \in Nat
      /\ Cardinality(Places(bmap, MappingSlot, x)) \in Nat
  BY HeldFacts
<1>4. Held(x)' = Cardinality(Places(bhandle', BufferSlot, x))
                     + Cardinality(Places(bmap, MappingSlot, x))
  BY DEF Held, Places
<1>5. Cardinality(Places(bhandle', BufferSlot, x)) =
          Cardinality(Places(bhandle, BufferSlot, x)) - (IF bhandle[p][s] = x THEN 1 ELSE 0)
              + (IF o = x THEN 1 ELSE 0)
  BY <1>2 DEF CountAfter
<1>6. Held(x)' = Held(x) - (IF bhandle[p][s] = x THEN 1 ELSE 0) + (IF o = x THEN 1 ELSE 0)
  BY <1>3, <1>4, <1>5
<1> QED BY <1>2, <1>6 DEF X

\* The same of a slot of a mapping table.
LEMMA MapPut ==
    ASSUME IpcInv, NEW p \in Process, NEW s \in MappingSlot, NEW o \in Object \cup {NoObject},
           bmap' = Put(bmap, p, s, o), bhandle' = bhandle, NEW x \in Object
    PROVE  /\ bmap' \in [Process -> [MappingSlot -> Object \cup {NoObject}]]
           /\ Held(x)' = Held(x) - (IF bmap[p][s] = x THEN 1 ELSE 0)
                                 + (IF o = x THEN 1 ELSE 0)
<1> DEFINE X == Object \cup {NoObject}
<1>1. bmap \in [Process -> [MappingSlot -> X]] /\ o \in X BY InvFacts
<1> HIDE DEF X
<1>2. /\ bmap' \in [Process -> [MappingSlot -> X]]
      /\ CountAfter(bmap, bmap', MappingSlot, p, s, o, x)
  BY <1>1, FiniteSlots, UpdateCount
<1>3. /\ Held(x) = Cardinality(Places(bhandle, BufferSlot, x))
                     + Cardinality(Places(bmap, MappingSlot, x))
      /\ Cardinality(Places(bhandle, BufferSlot, x)) \in Nat
      /\ Cardinality(Places(bmap, MappingSlot, x)) \in Nat
  BY HeldFacts
<1>4. Held(x)' = Cardinality(Places(bhandle, BufferSlot, x))
                     + Cardinality(Places(bmap', MappingSlot, x))
  BY DEF Held, Places
<1>5. Cardinality(Places(bmap', MappingSlot, x)) =
          Cardinality(Places(bmap, MappingSlot, x)) - (IF bmap[p][s] = x THEN 1 ELSE 0)
              + (IF o = x THEN 1 ELSE 0)
  BY <1>2 DEF CountAfter
<1>6. Held(x)' = Held(x) - (IF bmap[p][s] = x THEN 1 ELSE 0) + (IF o = x THEN 1 ELSE 0)
  BY <1>3, <1>4, <1>5
<1> QED BY <1>2, <1>6 DEF X

\* No object has the number that stands for none.
LEMMA ObjectFacts == \A x \in Object : x # NoObject
BY BufferAssumption DEF NoObject, Object

\* IPC_RECEIVE finds a message: its reference moves to the new handle.
LEMMA ReceiveStep ==
    ASSUME IpcInv, NEW p \in Process, p \notin blocked, NEW h \in Slot,
           boring_ipc_receive(p, h), Return(p, "received"),
           UNCHANGED <<alive, bmap, service, handle, sent>>
    PROVE  IpcInv' /\ Drained
<1> DEFINE c == handle[p][h].object
           side == handle[p][h].side
           q == conn[c].queue[side]
           r == Tail(q)
           o == Head(q).buffer
<1>1. /\ OpenEndpoint(p, h) /\ q # <<>> /\ refs' = refs
      /\ conn' = [conn EXCEPT ![c] = connection_maybe_destroy([@ EXCEPT !.queue[side] = r])]
      /\ IF o = NoObject THEN bhandle' = bhandle
         ELSE \E s \in BufferSlot : /\ FirstFree(bhandle[p], NoObject, s)
                                    /\ bhandle' = [bhandle EXCEPT ![p][s] = o]
  BY DEF boring_ipc_receive
<1>2. call' = [call EXCEPT ![p] = InUser] /\ blocked' = blocked BY DEF Return
<1>3. /\ c \in Connection /\ side \in Side /\ conn[c] # NoConnection /\ conn[c] \in Conns
      /\ conn[c].open[side] /\ conn[c].owner[side] = p
      /\ \A x \in Side : conn[c].queue[x] \in Seq(Message)
  BY <1>1, OpenFacts
<1> HIDE DEF c, side
<1>4. q \in Seq(Message) BY <1>3
<1>5. r \in Seq(Message) /\ Head(q) \in Message /\ Len(r) = Len(q) - 1 /\ Len(q) \in Nat
  <2> HIDE DEF q
  <2> QED BY <1>1, <1>4
<1>6. o \in Object \cup {NoObject} BY <1>5 DEF Message
<1>7. Len(r) <= QueueMax
  <2>1. Len(q) <= QueueMax BY <1>3, InvFacts DEF QueuesOK
  <2> HIDE DEF q, r
  <2> QED BY <1>5, <2>1, IpcAssumption
<1> HIDE DEF q, r, o
<1>8. Requeued(conn, conn', c, side, r)
  <2>1. conn \in [Connection -> Conns \cup {NoConnection}] BY InvFacts
  <2> DEFINE k == [conn[c] EXCEPT !.queue[side] = r]
             D == [conn EXCEPT ![c] = k]
  <2>2. Requeued(conn, D, c, side, r)
    <3> HIDE DEF k
    <3> QED BY <1>3, <1>5, <2>1, RequeuedFacts DEF k
  <2>3. D[c] = k BY <1>3, <2>1
  <2>4. k.open[side] BY <1>3, <2>2, <2>3 DEF Requeued
  <2>5. connection_maybe_destroy(k) = k BY <1>3, <2>4 DEF connection_maybe_destroy
  <2>6. conn' = D BY <1>1, <2>5
  <2> QED BY <2>2, <2>6
<1>9. Good(service, conn', handle, alive) BY <1>3, <1>7, <1>8, InvFacts, RequeuedGood
<1>10. Undisturbed
  <2>1. call \in [Process -> Calls \cup {InUser}] /\ blocked \subseteq alive BY InvFacts
  <2>2. call' \in [Process -> Calls \cup {InUser}] BY <1>2, <2>1
  <2>3. \A x \in Process : x # p => call'[x] = call[x] BY <1>2, <2>1
  <2>4. call'[p] = InUser BY <1>2, <2>1
  <2> QED BY <1>2, <2>1, <2>2, <2>3, <2>4 DEF Undisturbed
<1>11. CallsOK' /\ Asleep(service, conn, {})'
  BY <1>2, <1>3, <1>8, <1>10, RequeuedAsleep
<1>12. ASSUME NEW x \in Object
       PROVE  Cardinality(Carried(conn', x)) =
                 Cardinality(Carried(conn, x)) - (IF o = x THEN 1 ELSE 0)
  <2>1. /\ conn \in [Connection -> Conns \cup {NoConnection}] /\ QueuesOK(conn)
        /\ QueuesOK(conn')
    BY <1>9, InvFacts DEF Good
  <2>2. Cardinality(Carried(conn', x)) = Cardinality(Carried(conn, x))
           - Cardinality(Pos(q, x)) + Cardinality(Pos(r, x))
    BY <1>3, <1>8, <2>1, RequeuedCarried DEF q
  <2>3. Cardinality(Pos(r, x)) = Cardinality(Pos(q, x)) - (IF o = x THEN 1 ELSE 0)
    BY <1>1, <1>4, PosTail DEF r, o
  <2>4. Cardinality(Pos(q, x)) \in Nat BY <1>4, PosFinite
  <2>5. Cardinality(Carried(conn, x)) \in Nat BY <2>1, QueueFacts, InFinite
  <2> QED BY <2>2, <2>3, <2>4, <2>5
<1>13. /\ bhandle' \in [Process -> [BufferSlot -> Object \cup {NoObject}]]
       /\ \A x \in Object : Held(x)' = Held(x) + (IF o = x THEN 1 ELSE 0)
  <2>1. CASE o = NoObject
    <3>1. bhandle' = bhandle BY <1>1, <2>1
    <3>2. \A x : Held(x)' = Held(x) BY <3>1 DEF Held
    <3>3. \A x \in Object : o # x /\ Held(x) \in Nat
      BY <2>1, BufferAssumption, HeldFacts DEF NoObject, Object
    <3> QED BY <3>1, <3>2, <3>3, InvFacts
  <2>2. CASE o # NoObject
    <3>1. o \in Object BY <1>6, <2>2
    <3>2. PICK s \in BufferSlot : /\ FirstFree(bhandle[p], NoObject, s)
                                  /\ bhandle' = [bhandle EXCEPT ![p][s] = o]
      BY <1>1, <2>2
    <3>3. bhandle[p][s] = NoObject BY <3>2 DEF FirstFree
    <3>4. bhandle' = Put(bhandle, p, s, o) BY <3>2 DEF Put
    <3>5. \A x \in Object :
             /\ bhandle' \in [Process -> [BufferSlot -> Object \cup {NoObject}]]
             /\ Held(x)' = Held(x) - (IF bhandle[p][s] = x THEN 1 ELSE 0)
                                   + (IF o = x THEN 1 ELSE 0)
      BY <1>6, <3>4, HandlePut
    <3>6. \A x \in Object : bhandle[p][s] # x /\ Held(x) \in Nat
      BY <3>3, ObjectFacts, HeldFacts
    <3>7. \A x \in Object : Held(x)' = Held(x) + (IF o = x THEN 1 ELSE 0) BY <3>5, <3>6
    <3> QED BY <3>1, <3>5, <3>7
  <2> QED BY <2>1, <2>2
<1>14. \A x \in Object : refs'[x] = Held(x)' + Cardinality(Carried(conn', x))
  <2> SUFFICES ASSUME NEW x \in Object
               PROVE  refs'[x] = Held(x)' + Cardinality(Carried(conn', x))
    OBVIOUS
  <2>1. Held(x) \in Nat BY HeldFacts
  <2>2. Cardinality(Carried(conn, x)) \in Nat BY InvFacts, QueueFacts, InFinite
  <2>3. refs[x] = Held(x) + Cardinality(Carried(conn, x)) BY DEF IpcInv, Counted
  <2>4. Cardinality(Carried(conn', x)) =
           Cardinality(Carried(conn, x)) - (IF o = x THEN 1 ELSE 0)
    BY <1>12
  <2>5. Held(x)' = Held(x) + (IF o = x THEN 1 ELSE 0) BY <1>13
  <2> QED BY <1>1, <2>1, <2>2, <2>3, <2>4, <2>5
<1>15. BufferTypeOK' BY <1>1, <1>13, InvFacts DEF BufferTypeOK
<1>16. sent' \in [Connection -> [Side -> 0..MessageMax]] BY DEF IpcInv
<1>17. Good(service', conn', handle', alive') BY <1>9
<1>18. IpcInv' BY <1>11, <1>14, <1>15, <1>16, <1>17, InvNext
<1>19. Drained
  <2>1. r = Tail(conn[c].queue[side]) /\ ret' = "received" BY DEF r, q, Return
  <2> QED BY <1>3, <1>8, <2>1, RequeuedDrains
<1> QED BY <1>18, <1>19

\* A turn of IPC_RECEIVE.
LEMMA ReceiveTurnStep ==
    ASSUME IpcInv, NEW p \in Process, p \in alive, p \notin blocked, NEW h \in Slot,
           ReceiveTurn(p, h)
    PROVE  IpcInv' /\ Drained
<1> DEFINE c == handle[p][h].object
           side == handle[p][h].side
<1>1. OpenEndpoint(p, h) /\ UNCHANGED <<alive, bmap, service, handle, sent>>
  BY DEF ReceiveTurn
<1>2. CASE boring_ipc_receive(p, h) /\ Return(p, "received") BY <1>1, <1>2, ReceiveStep
<1>3. CASE /\ \/ Return(p, "NO_SPACE") \/ Return(p, "PEER_CLOSED")
              \/ /\ conn[c].queue[side] = <<>> /\ conn[c].open[Peer(side)]
                 /\ task_block_current(p, "receive", h)
           /\ UNCHANGED <<conn, refs, bhandle>>
  <2>1. Quiet BY <1>1, <1>3 DEF Quiet, bufferVars
  <2>4. Drained BY <2>1, QuietDrains DEF Quiet
  <2>2. CASE blocked' = blocked /\ call' = [call EXCEPT ![p] = InUser]
    BY <2>1, <2>2, <2>4, ReturnStep
  <2>3. CASE /\ conn[c].queue[side] = <<>> /\ conn[c].open[Peer(side)]
             /\ blocked' = blocked \cup {p}
             /\ call' = [call EXCEPT ![p] = [op |-> "receive", handle |-> h]]
    <3>1. handle[p][h].type = "endpoint" BY <1>1 DEF OpenEndpoint, Endpoint
    <3> QED BY <2>1, <2>3, <2>4, <3>1, BlockStep
  <2> QED BY <1>3, <2>2, <2>3 DEF task_block_current, Return
<1> QED BY <1>2, <1>3 DEF ReceiveTurn

\* Counts that follow the references of processes.
LEMMA BufferKeeps ==
    ASSUME IpcInv, UNCHANGED ipcVars, alive' = alive, BufferTypeOK',
           \A x \in Object : refs'[x] = refs[x] + (Held(x)' - Held(x)) /\ Held(x)' \in Nat
    PROVE  IpcInv'
<1>1. /\ service' = service /\ conn' = conn /\ handle' = handle /\ sent' = sent
      /\ blocked' = blocked /\ call' = call
  BY DEF ipcVars
<1>2. Good(service', conn', handle', alive') BY <1>1, InvFacts
<1>3. CallsOK' BY <1>1, InvFacts DEF CallsOK
<1>4. Asleep(service, conn, {})'
  <2>1. Asleep(service, conn, {}) BY DEF IpcInv
  <2> QED BY <1>1, <2>1 DEF Asleep, StillFalse
<1>5. ASSUME NEW x \in Object PROVE refs'[x] = Held(x)' + Cardinality(Carried(conn', x))
  <2>1. Held(x) \in Nat BY HeldFacts
  <2>2. Cardinality(Carried(conn, x)) \in Nat BY InvFacts, QueueFacts, InFinite
  <2>3. refs[x] = Held(x) + Cardinality(Carried(conn, x)) BY DEF IpcInv, Counted
  <2>4. refs'[x] = refs[x] + (Held(x)' - Held(x)) /\ Held(x)' \in Nat OBVIOUS
  <2>5. Carried(conn', x) = Carried(conn, x) BY <1>1
  <2> QED BY <2>1, <2>2, <2>3, <2>4, <2>5
<1>6. sent' \in [Connection -> [Side -> 0..MessageMax]] BY <1>1 DEF IpcInv
<1> QED BY <1>2, <1>3, <1>4, <1>5, <1>6, InvNext

\* A count is not below the references of processes.
LEMMA CountedHolds ==
    ASSUME IpcInv, NEW x \in Object
    PROVE  refs[x] \in 0..ReferenceMax /\ Held(x) \in Nat /\ Held(x) <= refs[x]
<1>1. Held(x) \in Nat BY HeldFacts
<1>2. Cardinality(Carried(conn, x)) \in Nat BY InvFacts, QueueFacts, InFinite
<1>3. refs[x] = Held(x) + Cardinality(Carried(conn, x)) BY DEF IpcInv, Counted
<1>4. refs[x] \in 0..ReferenceMax BY InvFacts
<1> QED BY <1>1, <1>2, <1>3, <1>4

\* BUFFER_CREATE.
LEMMA CreateStep ==
    ASSUME IpcInv, NEW p \in Process, user_buffer_create(p), UNCHANGED ipcVars
    PROVE  IpcInv'
<1>1. PICK o \in Object, s \in BufferSlot :
         /\ refs[o] = 0 /\ bhandle[p][s] = NoObject
         /\ refs' = [refs EXCEPT ![o] = 1]
         /\ bhandle' = Put(bhandle, p, s, o)
  BY DEF user_buffer_create, FirstFree, Put
<1>2. alive' = alive /\ bmap' = bmap BY DEF user_buffer_create
<1>3. ASSUME NEW x \in Object
      PROVE  /\ bhandle' \in [Process -> [BufferSlot -> Object \cup {NoObject}]]
             /\ Held(x)' = Held(x) + (IF o = x THEN 1 ELSE 0) /\ Held(x) \in Nat
  <2>1. /\ bhandle' \in [Process -> [BufferSlot -> Object \cup {NoObject}]]
        /\ Held(x)' = Held(x) - (IF bhandle[p][s] = x THEN 1 ELSE 0)
                              + (IF o = x THEN 1 ELSE 0)
    BY <1>1, <1>2, HandlePut
  <2>2. bhandle[p][s] # x /\ Held(x) \in Nat BY <1>1, ObjectFacts, HeldFacts
  <2> QED BY <2>1, <2>2
<1>4. refs \in [Object -> 0..ReferenceMax] BY InvFacts
<1>5. \A x \in Object : refs'[x] = refs[x] + (IF o = x THEN 1 ELSE 0) /\ refs[x] \in Nat
  BY <1>1, <1>4, BufferAssumption
<1>6. refs' \in [Object -> 0..ReferenceMax] BY <1>1, <1>4, BufferAssumption
<1>7. BufferTypeOK' BY <1>1, <1>2, <1>3, <1>6, InvFacts DEF BufferTypeOK
<1>8. \A x \in Object : refs'[x] = refs[x] + (Held(x)' - Held(x)) /\ Held(x)' \in Nat
  <2> SUFFICES ASSUME NEW x \in Object
               PROVE  refs'[x] = refs[x] + (Held(x)' - Held(x)) /\ Held(x)' \in Nat
    OBVIOUS
  <2>1. Held(x)' = Held(x) + (IF o = x THEN 1 ELSE 0) /\ Held(x) \in Nat BY <1>3
  <2> QED BY <1>5, <2>1
<1> QED BY <1>2, <1>7, <1>8, BufferKeeps

\* BUFFER_CLOSE.
LEMMA CloseHandleStep ==
    ASSUME IpcInv, NEW p \in Process, NEW h \in BufferSlot, user_buffer_close(p, h),
           UNCHANGED ipcVars
    PROVE  IpcInv'
<1> DEFINE o == bhandle[p][h]
<1>1. /\ o # NoObject /\ bhandle' = Put(bhandle, p, h, NoObject)
      /\ refs' = [refs EXCEPT ![o] = @ - 1] /\ alive' = alive /\ bmap' = bmap
  BY DEF user_buffer_close, object_unref, Put
<1>2. o \in Object
  <2>1. bhandle \in [Process -> [BufferSlot -> Object \cup {NoObject}]] BY InvFacts
  <2> QED BY <1>1, <2>1
<1>3. ASSUME NEW x \in Object
      PROVE  /\ bhandle' \in [Process -> [BufferSlot -> Object \cup {NoObject}]]
             /\ Held(x)' = Held(x) - (IF o = x THEN 1 ELSE 0) /\ Held(x)' \in Nat
  <2>1. NoObject \in Object \cup {NoObject} OBVIOUS
  <2>2. /\ bhandle' \in [Process -> [BufferSlot -> Object \cup {NoObject}]]
        /\ Held(x)' = Held(x) - (IF o = x THEN 1 ELSE 0) + (IF NoObject = x THEN 1 ELSE 0)
    BY <1>1, <2>1, HandlePut
  <2>3. NoObject # x /\ Held(x) \in Nat BY ObjectFacts, HeldFacts
  <2>4. Held(x)' \in Nat
    <3>1. Held(x)' = Cardinality(Places(bhandle', BufferSlot, x))
                       + Cardinality(Places(bmap', MappingSlot, x))
      BY DEF Held, Places
    <3>2. /\ Cardinality(Places(bhandle', BufferSlot, x)) \in Nat
          /\ Cardinality(Places(bmap', MappingSlot, x)) \in Nat
      BY FiniteSlots, PlacesFinite
    <3> QED BY <3>1, <3>2
  <2> QED BY <2>2, <2>3, <2>4
<1> HIDE DEF o
<1>4. refs \in [Object -> 0..ReferenceMax] BY InvFacts
<1>5. Held(o) >= 1 /\ Held(o) \in Nat
  <2>1. PICK z \in Object : z = o BY <1>2
  <2>2. Held(z)' = Held(z) - 1 /\ Held(z)' \in Nat BY <1>3, <2>1
  <2>3. Held(z) \in Nat BY HeldFacts
  <2>4. Held(z) >= 1 BY <2>2, <2>3
  <2> QED BY <2>1, <2>3, <2>4
<1>6. refs[o] >= 1 /\ refs[o] \in 0..ReferenceMax BY <1>2, <1>5, CountedHolds
<1>7. refs' \in [Object -> 0..ReferenceMax]
  BY <1>1, <1>2, <1>4, <1>6, BufferAssumption
<1>8. BufferTypeOK' BY <1>1, <1>2, <1>3, <1>7, InvFacts DEF BufferTypeOK
<1>9. \A x \in Object : refs'[x] = refs[x] - (IF o = x THEN 1 ELSE 0) /\ refs[x] \in Nat
  BY <1>1, <1>4
<1>10. \A x \in Object : refs'[x] = refs[x] + (Held(x)' - Held(x)) /\ Held(x)' \in Nat
  <2> SUFFICES ASSUME NEW x \in Object
               PROVE  refs'[x] = refs[x] + (Held(x)' - Held(x)) /\ Held(x)' \in Nat
    OBVIOUS
  <2>1. Held(x)' = Held(x) - (IF o = x THEN 1 ELSE 0) /\ Held(x)' \in Nat BY <1>3
  <2>2. Held(x) \in Nat BY HeldFacts
  <2> QED BY <1>9, <2>1, <2>2
<1> QED BY <1>1, <1>8, <1>10, BufferKeeps

\* BUFFER_UNMAP.
LEMMA UnmapStep ==
    ASSUME IpcInv, NEW p \in Process, NEW m \in MappingSlot, user_buffer_unmap(p, m),
           UNCHANGED ipcVars
    PROVE  IpcInv'
<1> DEFINE o == bmap[p][m]
<1>1. /\ o # NoObject /\ bmap' = Put(bmap, p, m, NoObject)
      /\ refs' = [refs EXCEPT ![o] = @ - 1] /\ alive' = alive /\ bhandle' = bhandle
  BY DEF user_buffer_unmap, object_unref, Put
<1>2. o \in Object
  <2>1. bmap \in [Process -> [MappingSlot -> Object \cup {NoObject}]] BY InvFacts
  <2> QED BY <1>1, <2>1
<1>3. ASSUME NEW x \in Object
      PROVE  /\ bmap' \in [Process -> [MappingSlot -> Object \cup {NoObject}]]
             /\ Held(x)' = Held(x) - (IF o = x THEN 1 ELSE 0) /\ Held(x)' \in Nat
  <2>1. NoObject \in Object \cup {NoObject} OBVIOUS
  <2>2. /\ bmap' \in [Process -> [MappingSlot -> Object \cup {NoObject}]]
        /\ Held(x)' = Held(x) - (IF o = x THEN 1 ELSE 0) + (IF NoObject = x THEN 1 ELSE 0)
    BY <1>1, <2>1, MapPut
  <2>3. NoObject # x /\ Held(x) \in Nat BY ObjectFacts, HeldFacts
  <2>4. Held(x)' \in Nat
    <3>1. Held(x)' = Cardinality(Places(bhandle', BufferSlot, x))
                       + Cardinality(Places(bmap', MappingSlot, x))
      BY DEF Held, Places
    <3>2. /\ Cardinality(Places(bhandle', BufferSlot, x)) \in Nat
          /\ Cardinality(Places(bmap', MappingSlot, x)) \in Nat
      BY FiniteSlots, PlacesFinite
    <3> QED BY <3>1, <3>2
  <2> QED BY <2>2, <2>3, <2>4
<1> HIDE DEF o
<1>4. refs \in [Object -> 0..ReferenceMax] BY InvFacts
<1>5. Held(o) >= 1 /\ Held(o) \in Nat
  <2>1. PICK z \in Object : z = o BY <1>2
  <2>2. Held(z)' = Held(z) - 1 /\ Held(z)' \in Nat BY <1>3, <2>1
  <2>3. Held(z) \in Nat BY HeldFacts
  <2>4. Held(z) >= 1 BY <2>2, <2>3
  <2> QED BY <2>1, <2>3, <2>4
<1>6. refs[o] >= 1 /\ refs[o] \in 0..ReferenceMax BY <1>2, <1>5, CountedHolds
<1>7. refs' \in [Object -> 0..ReferenceMax]
  BY <1>1, <1>2, <1>4, <1>6, BufferAssumption
<1>8. BufferTypeOK' BY <1>1, <1>2, <1>3, <1>7, InvFacts DEF BufferTypeOK
<1>9. \A x \in Object : refs'[x] = refs[x] - (IF o = x THEN 1 ELSE 0) /\ refs[x] \in Nat
  BY <1>1, <1>4
<1>10. \A x \in Object : refs'[x] = refs[x] + (Held(x)' - Held(x)) /\ Held(x)' \in Nat
  <2> SUFFICES ASSUME NEW x \in Object
               PROVE  refs'[x] = refs[x] + (Held(x)' - Held(x)) /\ Held(x)' \in Nat
    OBVIOUS
  <2>1. Held(x)' = Held(x) - (IF o = x THEN 1 ELSE 0) /\ Held(x)' \in Nat BY <1>3
  <2>2. Held(x) \in Nat BY HeldFacts
  <2> QED BY <1>9, <2>1, <2>2
<1> QED BY <1>1, <1>8, <1>10, BufferKeeps

\* BUFFER_MAP.
LEMMA MapStep ==
    ASSUME IpcInv, NEW p \in Process, NEW h \in BufferSlot, user_buffer_map(p, h),
           UNCHANGED ipcVars
    PROVE  IpcInv'
<1> DEFINE o == bhandle[p][h]
<1>1. PICK m \in MappingSlot : bmap[p][m] = NoObject /\ bmap' = Put(bmap, p, m, o)
  BY DEF user_buffer_map, FirstFree, Put
<1>2. /\ o # NoObject /\ refs[o] < ReferenceMax
      /\ refs' = [refs EXCEPT ![o] = @ + 1] /\ alive' = alive /\ bhandle' = bhandle
  BY DEF user_buffer_map
<1>3. o \in Object
  <2>1. bhandle \in [Process -> [BufferSlot -> Object \cup {NoObject}]] BY InvFacts
  <2> QED BY <1>2, <2>1
<1> HIDE DEF o
<1>4. ASSUME NEW x \in Object
      PROVE  /\ bmap' \in [Process -> [MappingSlot -> Object \cup {NoObject}]]
             /\ Held(x)' = Held(x) + (IF o = x THEN 1 ELSE 0) /\ Held(x) \in Nat
  <2>1. o \in Object \cup {NoObject} BY <1>3
  <2>2. /\ bmap' \in [Process -> [MappingSlot -> Object \cup {NoObject}]]
        /\ Held(x)' = Held(x) - (IF bmap[p][m] = x THEN 1 ELSE 0) + (IF o = x THEN 1 ELSE 0)
    BY <1>1, <1>2, <2>1, MapPut
  <2>3. bmap[p][m] # x /\ Held(x) \in Nat BY <1>1, ObjectFacts, HeldFacts
  <2> QED BY <2>2, <2>3
<1>5. refs \in [Object -> 0..ReferenceMax] BY InvFacts
<1>6. \A x \in Object : refs'[x] = refs[x] + (IF o = x THEN 1 ELSE 0) /\ refs[x] \in Nat
  BY <1>2, <1>5
<1>7. refs' \in [Object -> 0..ReferenceMax] BY <1>2, <1>3, <1>5, BufferAssumption
<1>8. BufferTypeOK' BY <1>2, <1>3, <1>4, <1>7, InvFacts DEF BufferTypeOK
<1>9. \A x \in Object : refs'[x] = refs[x] + (Held(x)' - Held(x)) /\ Held(x)' \in Nat
  <2> SUFFICES ASSUME NEW x \in Object
               PROVE  refs'[x] = refs[x] + (Held(x)' - Held(x)) /\ Held(x)' \in Nat
    OBVIOUS
  <2>1. Held(x)' = Held(x) + (IF o = x THEN 1 ELSE 0) /\ Held(x) \in Nat BY <1>4
  <2> QED BY <1>6, <2>1
<1> QED BY <1>2, <1>8, <1>9, BufferKeeps

\* A call starts closing from the state it finds.
LEMMA FineCurrent ==
    ASSUME IpcInv, NEW p \in Process, Calling(p)
    PROVE  /\ Partial(handle, p) /\ HeldInts /\ Fine(Current, handle)
           /\ p \in alive /\ p \notin blocked
<1>1. refs \in [Object -> Int] BY InvFacts
<1>2. p \in alive /\ p \notin blocked BY DEF Calling
<1>3. Partial(handle, p) BY <1>1, <1>2, InvFacts DEF Partial
<1>4. /\ Current.service = service /\ Current.conn = conn /\ Current.refs = refs
      /\ Current.woken = {}
  BY DEF Current
<1>5. Current \in States
  <2>1. {} \in SUBSET Process OBVIOUS
  <2>2. service \in [Service -> Services \cup {NoService}]
        /\ conn \in [Connection -> Conns \cup {NoConnection}]
    BY InvFacts
  <2> QED BY <1>1, <2>1, <2>2 DEF Current, States
<1>6. Counted(refs, conn) /\ Asleep(service, conn, {}) BY DEF IpcInv
<1>7. Lower(refs) BY <1>1 DEF Lower
<1>8. Kept(conn) BY DEF Kept
<1>9. Fine(Current, handle) BY <1>4, <1>5, <1>6, <1>7, <1>8, InvFacts DEF Fine
<1> QED BY <1>2, <1>3, <1>9, HeldFacts

\* What closing leaves behind, for the calls.
LEMMA ClosedCalls ==
    ASSUME IpcInv, NEW p \in Process, Calling(p), NEW st, NEW H, Fine(st, H),
           \A q \in Process : q # p => handle'[q] = handle[q],
           service' = st.service, conn' = st.conn, blocked' = blocked \ st.woken,
           call' = call, alive' = alive \/ alive' = alive \ {p}
    PROVE  CallsOK' /\ Asleep(service, conn, {})'
<1>1. /\ CallsOK /\ blocked \subseteq alive /\ alive \subseteq Process
      /\ call \in [Process -> Calls \cup {InUser}]
  BY InvFacts
<1>2. p \notin blocked /\ call[p] = InUser BY DEF Calling
<1>3. CallsOK'
  <2>1. \A q \in Process : call'[q] # InUser => call'[q] = call[q] /\ handle'[q] = handle[q]
    BY <1>2
  <2>2. blocked' \subseteq alive' BY <1>1, <1>2
  <2>3. \A q \in blocked' : call'[q] # InUser BY <1>1 DEF CallsOK
  <2> QED BY <1>1, <2>1, <2>2, <2>3 DEF CallsOK
<1>4. ASSUME NEW q \in blocked' PROVE StillFalse(q, service, conn)'
  <2>1. q \in blocked \ st.woken /\ q \in Process /\ q # p BY <1>1, <1>2, <1>4
  <2>2. StillFalse(q, st.service, st.conn) BY <2>1 DEF Fine, Asleep
  <2>3. call'[q] = call[q] /\ handle'[q] = handle[q] BY <2>1
  <2> QED BY <2>2, <2>3 DEF StillFalse
<1>5. Asleep(service, conn, {})' BY <1>4 DEF Asleep
<1> QED BY <1>3, <1>5

\* IPC_CLOSE.
LEMMA CloseStep ==
    ASSUME IpcInv, NEW p \in Process, NEW h \in Slot, boring_ipc_close(p, h)
    PROVE  IpcInv' /\ Drained
<1> DEFINE st == CloseEntry(Current, handle[p][h])
<1>1. /\ Calling(p) /\ service' = st.service /\ conn' = st.conn /\ refs' = st.refs
      /\ blocked' = blocked \ st.woken /\ handle' = Without(handle, p, h)
      /\ UNCHANGED <<alive, bhandle, bmap, sent, call>>
  BY DEF boring_ipc_close, task_wake_process, Without
<1>2. Fine(st, Without(handle, p, h)) BY <1>1, FineCurrent, CloseEntryFine
<1> HIDE DEF st
<1>3. \A q \in Process : q # p => handle'[q] = handle[q] BY <1>1, InvFacts, WithoutFacts
<1>4. CallsOK' /\ Asleep(service, conn, {})' BY <1>1, <1>2, <1>3, ClosedCalls
<1>5. Good(service', conn', handle', alive') BY <1>1, <1>2 DEF Fine
<1>6. /\ conn' \in [Connection -> Conns \cup {NoConnection}] /\ QueuesOK(conn')
  BY <1>5 DEF Good, Tables
<1>7. ASSUME NEW x \in Object
      PROVE  /\ refs'[x] = Held(x)' + Cardinality(Carried(conn', x))
             /\ refs'[x] \in 0..ReferenceMax
  <2>1. Held(x)' = Held(x) /\ Held(x) \in Nat BY <1>1, HeldFacts DEF Held
  <2>2. Cardinality(Carried(conn', x)) \in Nat BY <1>6, QueueFacts, InFinite
  <2>3. refs'[x] = Held(x) + Cardinality(Carried(conn', x)) BY <1>1, <1>2 DEF Fine, Counted
  <2>4. refs'[x] <= refs[x] BY <1>1, <1>2 DEF Fine, Lower
  <2>5. refs[x] \in 0..ReferenceMax BY InvFacts
  <2> QED BY <2>1, <2>2, <2>3, <2>4, <2>5, BufferAssumption
<1>8. BufferTypeOK'
  <2>1. refs' \in [Object -> Int] BY <1>1, <1>2 DEF Fine, States
  <2>2. refs' \in [Object -> 0..ReferenceMax] BY <1>7, <2>1
  <2> QED BY <1>1, <2>2, InvFacts DEF BufferTypeOK
<1>9. sent' \in [Connection -> [Side -> 0..MessageMax]] BY <1>1 DEF IpcInv
<1>10. IpcInv' BY <1>4, <1>5, <1>7, <1>8, <1>9, InvNext
<1>11. \A q \in Process, g \in Slot : handle'[q][g] = handle[q][g] \/ handle'[q][g] = NoHandle
  <2>1. handle \in [Process -> [Slot -> Entries]] BY InvFacts
  <2> QED BY <1>1, <2>1 DEF Without
<1>12. Drained BY <1>1, <1>2, <1>11, ClosedDrains
<1> QED BY <1>10, <1>12

\* A table has finitely many uses of an object.
LEMMA UsesFacts ==
    ASSUME NEW D, IsFiniteSet(D), NEW X, NEW T \in [Process -> [D -> X]], NEW p \in Process,
           NEW o
    PROVE  Uses(T[p], o) \in Nat
<1>1. DOMAIN T[p] = D OBVIOUS
<1>2. {s \in DOMAIN T[p] : T[p][s] = o} \subseteq D BY <1>1
<1>3. IsFiniteSet({s \in DOMAIN T[p] : T[p][s] = o}) BY <1>2, FS_Subset
<1> QED BY <1>3, FS_CardinalityType DEF Uses

\* EXIT: all handles, then the mappings and the buffer handles.
LEMMA ExitStep ==
    ASSUME IpcInv, NEW p \in Process, m36_exit(p)
    PROVE  IpcInv' /\ Drained
<1> DEFINE st == boring_ipc_process_cleanup(p)
<1>1. /\ Calling(p) /\ service' = st.service /\ conn' = st.conn
      /\ refs' = user_memory_process_cleanup(st.refs, p)
      /\ blocked' = blocked \ st.woken /\ alive' = alive \ {p}
      /\ handle' = [handle EXCEPT ![p] = [h \in Slot |-> NoHandle]]
      /\ bhandle' = Forgotten(bhandle, p) /\ bmap' = Forgotten(bmap, p)
      /\ UNCHANGED <<sent, call>>
  BY DEF m36_exit, task_wake_process
<1>2. handle' = Emptied(p, HandleMax) BY <1>1, InvFacts, EmptiedFacts
<1>3. Fine(st, handle') BY <1>1, <1>2, FineCurrent, CleanupFine
<1> HIDE DEF st
<1>4. \A q \in Process : q # p => handle'[q] = handle[q] BY <1>1, InvFacts
<1>5. CallsOK' /\ Asleep(service, conn, {})' BY <1>1, <1>3, <1>4, ClosedCalls
<1>6. Good(service', conn', handle', alive')
  <2>1. Good(service', conn', handle', alive) BY <1>1, <1>3 DEF Fine
  <2>2. \A h \in Slot : handle'[p][h] = NoHandle BY <1>1, InvFacts
  <2>3. HandlesOK(handle', alive) BY <2>1 DEF Good
  <2>4. HandlesOK(handle', alive') BY <1>1, <2>2, <2>3 DEF HandlesOK
  <2> QED BY <2>1, <2>4 DEF Good
<1>7. /\ conn' \in [Connection -> Conns \cup {NoConnection}] /\ QueuesOK(conn')
  BY <1>6 DEF Good, Tables
<1> DEFINE X == Object \cup {NoObject}
<1>8. /\ bhandle \in [Process -> [BufferSlot -> X]] /\ bmap \in [Process -> [MappingSlot -> X]]
      /\ NoObject \in X
  BY InvFacts
<1> HIDE DEF X
<1>9. ASSUME NEW x \in Object
      PROVE  /\ bhandle' \in [Process -> [BufferSlot -> X]]
             /\ bmap' \in [Process -> [MappingSlot -> X]]
             /\ Held(x)' = Held(x) - Uses(bhandle[p], x) - Uses(bmap[p], x)
             /\ Uses(bhandle[p], x) \in Nat /\ Uses(bmap[p], x) \in Nat
             /\ Held(x) \in Nat /\ Held(x)' \in Nat
  <2>1. x # NoObject BY ObjectFacts
  <2>2. /\ bhandle' \in [Process -> [BufferSlot -> X]]
        /\ Cardinality(Places(bhandle', BufferSlot, x)) =
             Cardinality(Places(bhandle, BufferSlot, x)) - Uses(bhandle[p], x)
    <3>1. IsFiniteSet(BufferSlot) /\ bhandle \in [Process -> [BufferSlot -> X]] /\ NoObject \in X
      BY <1>8, FiniteSlots
    <3>2. /\ Forgotten(bhandle, p) \in [Process -> [BufferSlot -> X]]
          /\ CountLess(bhandle, Forgotten(bhandle, p), BufferSlot, p, x)
      BY <2>1, <3>1, ForgetCount
    <3> QED BY <1>1, <3>2 DEF CountLess
  <2>3. /\ bmap' \in [Process -> [MappingSlot -> X]]
        /\ Cardinality(Places(bmap', MappingSlot, x)) =
             Cardinality(Places(bmap, MappingSlot, x)) - Uses(bmap[p], x)
    <3>1. IsFiniteSet(MappingSlot) /\ bmap \in [Process -> [MappingSlot -> X]] /\ NoObject \in X
      BY <1>8, FiniteSlots
    <3>2. /\ Forgotten(bmap, p) \in [Process -> [MappingSlot -> X]]
          /\ CountLess(bmap, Forgotten(bmap, p), MappingSlot, p, x)
      BY <2>1, <3>1, ForgetCount
    <3> QED BY <1>1, <3>2 DEF CountLess
  <2>4. Uses(bhandle[p], x) \in Nat /\ Uses(bmap[p], x) \in Nat
    BY <1>8, FiniteSlots, UsesFacts
  <2>5. /\ Held(x) = Cardinality(Places(bhandle, BufferSlot, x))
                     + Cardinality(Places(bmap, MappingSlot, x))
        /\ Cardinality(Places(bhandle, BufferSlot, x)) \in Nat
        /\ Cardinality(Places(bmap, MappingSlot, x)) \in Nat
        /\ Held(x) \in Nat
    BY HeldFacts
  <2>6. Held(x)' = Cardinality(Places(bhandle', BufferSlot, x))
                     + Cardinality(Places(bmap', MappingSlot, x))
    BY DEF Held, Places
  <2>7. /\ Cardinality(Places(bhandle', BufferSlot, x)) \in Nat
        /\ Cardinality(Places(bmap', MappingSlot, x)) \in Nat
    BY FiniteSlots, PlacesFinite
  <2>8. Held(x)' = Held(x) - Uses(bhandle[p], x) - Uses(bmap[p], x) /\ Held(x)' \in Nat
    BY <2>2, <2>3, <2>4, <2>5, <2>6, <2>7
  <2> QED BY <2>2, <2>3, <2>4, <2>5, <2>8
<1>10. ASSUME NEW x \in Object
       PROVE  /\ refs'[x] = Held(x)' + Cardinality(Carried(conn', x))
              /\ refs'[x] \in 0..ReferenceMax
  <2>1. refs'[x] = st.refs[x] - Uses(bmap[p], x) - Uses(bhandle[p], x)
    BY <1>1 DEF user_memory_process_cleanup
  <2>2. Cardinality(Carried(conn', x)) \in Nat BY <1>7, QueueFacts, InFinite
  <2>3. st.refs[x] = Held(x) + Cardinality(Carried(conn', x))
    BY <1>1, <1>3 DEF Fine, Counted
  <2>4. st.refs[x] <= refs[x] BY <1>3 DEF Fine, Lower
  <2>5. refs[x] \in 0..ReferenceMax BY InvFacts
  <2>6. /\ Held(x)' = Held(x) - Uses(bhandle[p], x) - Uses(bmap[p], x)
        /\ Uses(bhandle[p], x) \in Nat /\ Uses(bmap[p], x) \in Nat
        /\ Held(x) \in Nat /\ Held(x)' \in Nat
    BY <1>9
  <2>7. refs'[x] = Held(x)' + Cardinality(Carried(conn', x)) BY <2>1, <2>2, <2>3, <2>6
  <2>8. refs'[x] \in Nat /\ refs'[x] <= refs[x] BY <2>1, <2>2, <2>3, <2>4, <2>5, <2>6, <2>7
  <2> QED BY <2>5, <2>7, <2>8, BufferAssumption
<1>11. BufferTypeOK'
  <2>1. refs' \in [Object -> 0..ReferenceMax]
    <3>1. DOMAIN refs' = Object /\ refs' = [x \in Object |-> refs'[x]]
      BY <1>1 DEF user_memory_process_cleanup
    <3> QED BY <1>10, <3>1
  <2>2. bhandle' \in [Process -> [BufferSlot -> X]] /\ bmap' \in [Process -> [MappingSlot -> X]]
    BY <1>1, <1>8 DEF Forgotten
  <2>3. alive' \subseteq Process BY <1>1, InvFacts
  <2> QED BY <2>1, <2>2, <2>3 DEF BufferTypeOK, X
<1>12. sent' \in [Connection -> [Side -> 0..MessageMax]] BY <1>1 DEF IpcInv
<1>13. IpcInv' BY <1>5, <1>6, <1>10, <1>11, <1>12, InvNext
<1>14. \A q \in Process, g \in Slot : handle'[q][g] = handle[q][g] \/ handle'[q][g] = NoHandle
  BY <1>1, InvFacts
<1>15. Drained BY <1>1, <1>3, <1>14, ClosedDrains
<1> QED BY <1>13, <1>15

\* The kernel starts with empty tables.
LEMMA InitInv == Init => IpcInv
<1> SUFFICES ASSUME Init PROVE IpcInv OBVIOUS
<1>1. /\ alive = Process /\ refs = [o \in Object |-> 0]
      /\ bhandle = [p \in Process |-> [s \in BufferSlot |-> NoObject]]
      /\ bmap = [p \in Process |-> [s \in MappingSlot |-> NoObject]]
  BY DEF Init, BufferInit
<1>2. /\ service = [s \in Service |-> NoService]
      /\ conn = [c \in Connection |-> NoConnection]
      /\ handle = [p \in Process |-> [h \in Slot |-> NoHandle]]
      /\ sent = [c \in Connection |-> [s \in Side |-> 0]]
      /\ blocked = {} /\ call = [p \in Process |-> InUser]
  BY DEF Init
<1>3. BufferTypeOK BY <1>1, BufferAssumption DEF BufferTypeOK
<1>4. sent \in [Connection -> [Side -> 0..MessageMax]] BY <1>2, IpcAssumption
<1>5. Good(service, conn, handle, alive)
  <2>1. Tables(service, conn, handle) BY <1>2, EntryFacts DEF Tables
  <2>2. QueuesOK(conn) BY <1>2 DEF QueuesOK
  <2>3. EndsOK(conn, handle) BY <1>2, EntryFacts DEF EndsOK, Attached
  <2>4. PendingOK(service, conn) BY <1>2 DEF PendingOK, At, Waiting
  <2>5. ListenersOK(service, handle) BY <1>2, EntryFacts DEF ListenersOK
  <2>6. HandlesOK(handle, alive) BY <1>2 DEF HandlesOK
  <2> QED BY <2>1, <2>2, <2>3, <2>4, <2>5, <2>6 DEF Good
<1>6. Counted(refs, conn)
  <2> SUFFICES ASSUME NEW o \in Object
               PROVE  refs[o] = Held(o) + Cardinality(Carried(conn, o))
    BY DEF Counted
  <2>1. Carried(conn, o) = {} BY <1>2 DEF Carried
  <2>2. o # NoObject BY ObjectFacts
  <2>3. Places(bhandle, BufferSlot, o) = {} BY <1>1, <2>2 DEF Places
  <2>4. Places(bmap, MappingSlot, o) = {} BY <1>1, <2>2 DEF Places
  <2>5. Held(o) = Cardinality(Places(bhandle, BufferSlot, o))
                     + Cardinality(Places(bmap, MappingSlot, o))
    BY HeldFacts
  <2> QED BY <1>1, <2>1, <2>3, <2>4, <2>5, FS_EmptySet
<1>7. CallsOK BY <1>2 DEF CallsOK
<1>8. Asleep(service, conn, {}) BY <1>2 DEF Asleep
<1> QED BY <1>3, <1>4, <1>5, <1>6, <1>7, <1>8 DEF IpcInv

\* A woken call starts its next turn with the handle it was made with.
LEMMA ResumeStep ==
    ASSUME IpcInv, NEW p \in Process, ResumeCall(p)
    PROVE  IpcInv' /\ Drained
<1>1. p \in alive /\ p \notin blocked /\ call[p] # InUser BY DEF ResumeCall
<1>2. call[p] \in Calls BY <1>1, InvFacts
<1>3. call[p].handle \in Slot BY <1>2 DEF Calls
<1>4. CASE AcceptTurn(p, call[p].handle) BY <1>1, <1>3, <1>4, AcceptTurnStep
<1>5. CASE ReceiveTurn(p, call[p].handle) BY <1>1, <1>3, <1>5, ReceiveTurnStep
<1> QED BY <1>4, <1>5 DEF ResumeCall

\* The invariant is inductive.
LEMMA NextInv == IpcInv /\ [Next]_vars => IpcInv' /\ Drained
<1> SUFFICES ASSUME IpcInv, [Next]_vars PROVE IpcInv' /\ Drained OBVIOUS
<1>1. CASE UNCHANGED vars
  <2>1. UNCHANGED ipcVars /\ refs' = refs /\ alive' = alive /\ bhandle' = bhandle
        /\ bmap' = bmap
    BY <1>1 DEF vars, bufferVars
  <2>2. BufferTypeOK' BY <2>1, InvFacts DEF BufferTypeOK
  <2>3. \A x \in Object : refs'[x] = refs[x] + (Held(x)' - Held(x)) /\ Held(x)' \in Nat
    <3> SUFFICES ASSUME NEW x \in Object
                 PROVE  refs'[x] = refs[x] + (Held(x)' - Held(x)) /\ Held(x)' \in Nat
      OBVIOUS
    <3>1. Held(x)' = Held(x) BY <2>1 DEF Held
    <3>2. Held(x) \in Nat /\ refs[x] \in 0..ReferenceMax BY CountedHolds
    <3> QED BY <2>1, <3>1, <3>2, BufferAssumption
  <2>4. Drained BY <2>1, QuietDrains DEF ipcVars
  <2> QED BY <2>1, <2>2, <2>3, <2>4, BufferKeeps
<1>2. ASSUME NEW p \in Process, NEW n \in Name,
             boring_ipc_service_register(p, n) \/ boring_ipc_service_connect(p, n)
      PROVE  IpcInv' /\ Drained
  BY <1>2, RegisterStep, ConnectStep
<1>3. ASSUME NEW p \in Process, NEW h \in Slot, service_accept(p, h) \/ ipc_receive(p, h)
      PROVE  IpcInv' /\ Drained
  BY <1>3, AcceptTurnStep, ReceiveTurnStep DEF service_accept, ipc_receive, Calling
<1>4. ASSUME NEW p \in Process, NEW h \in Slot, NEW b \in 0..BufferHandleMax,
             boring_ipc_send(p, h, b)
      PROVE  IpcInv' /\ Drained
  BY <1>4, SendStep
<1>5. ASSUME NEW p \in Process, NEW h \in Slot, boring_ipc_close(p, h) PROVE IpcInv' /\ Drained
  BY <1>5, CloseStep
<1>6. ASSUME NEW p \in Process, m36_exit(p) PROVE IpcInv' /\ Drained BY <1>6, ExitStep
<1>7. ASSUME NEW p \in Process, ResumeCall(p) PROVE IpcInv' /\ Drained BY <1>7, ResumeStep
<1>8. ASSUME NEW p \in Process, SpuriousWake(p) PROVE IpcInv' /\ Drained
  <2>1. Quiet /\ blocked' = blocked \ {p} /\ call' = call
    BY <1>8 DEF SpuriousWake, Quiet, task_wake_process
  <2>2. p \notin blocked' /\ blocked' \subseteq blocked BY <2>1
  <2>3. Drained BY <2>1, QuietDrains DEF Quiet
  <2> QED BY <2>1, <2>2, <2>3, ReturnStep
<1>9. ASSUME NEW p \in Process, UserBufferCall(p) PROVE IpcInv' /\ Drained
  <2>1. UNCHANGED ipcVars BY <1>9 DEF UserBufferCall
  <2>6. Drained BY <2>1, QuietDrains DEF ipcVars
  <2>2. ASSUME user_buffer_create(p) PROVE IpcInv' BY <2>1, <2>2, CreateStep
  <2>3. ASSUME NEW h \in BufferSlot, user_buffer_map(p, h) PROVE IpcInv'
    BY <2>1, <2>3, MapStep
  <2>4. ASSUME NEW h \in BufferSlot, user_buffer_close(p, h) PROVE IpcInv'
    BY <2>1, <2>4, CloseHandleStep
  <2>5. ASSUME NEW m \in MappingSlot, user_buffer_unmap(p, m) PROVE IpcInv'
    BY <2>1, <2>5, UnmapStep
  <2> QED BY <1>9, <2>2, <2>3, <2>4, <2>5, <2>6 DEF UserBufferCall
<1> QED BY <1>1, <1>2, <1>3, <1>4, <1>5, <1>6, <1>7, <1>8, <1>9 DEF Next

\* A sequence within a bound.
LEMMA Bounded ==
    ASSUME NEW S, NEW q \in Seq(S), NEW n \in Nat, Len(q) <= n
    PROVE  q \in BoundedSeq(S, n)
<1>1. q \in [1..Len(q) -> S] /\ Len(q) \in 0..n OBVIOUS
<1> QED BY <1>1 DEF BoundedSeq, SeqOf

\* The types the run checks.
LEMMA InvTypes == IpcInv => TypeOK
<1> SUFFICES ASSUME IpcInv PROVE TypeOK OBVIOUS
<1>1. ASSUME NEW s \in Service, service[s] # NoService
      PROVE  /\ service[s].owner \in Process /\ service[s].name \in Name
             /\ service[s].pending \in BoundedSeq(Connection, PendingMax)
  <2>1. /\ service[s].owner \in Process /\ service[s].name \in Name
        /\ service[s].pending \in Seq(Connection)
    BY <1>1, InvFacts, TableFacts, ServiceFacts
  <2>2. Len(service[s].pending) <= PendingMax BY <1>1, InvFacts DEF PendingOK
  <2> QED BY <2>1, <2>2, Bounded, IpcAssumption
<1>2. ASSUME NEW c \in Connection, conn[c] # NoConnection
      PROVE  /\ conn[c].owner \in [Side -> Process] /\ conn[c].open \in [Side -> BOOLEAN]
             /\ conn[c].queue \in [Side -> BoundedSeq(Message, QueueMax)]
  <2>1. /\ conn[c].owner \in [Side -> Process] /\ conn[c].open \in [Side -> BOOLEAN]
        /\ conn[c].queue \in [Side -> Seq(Message)]
    BY <1>2, InvFacts, TableFacts, ConnFacts
  <2>2. \A side \in Side : Len(conn[c].queue[side]) <= QueueMax BY <1>2, InvFacts DEF QueuesOK
  <2>3. \A side \in Side : conn[c].queue[side] \in BoundedSeq(Message, QueueMax)
    BY <2>1, <2>2, Bounded, IpcAssumption
  <2> QED BY <2>1, <2>3
<1>3. blocked \subseteq alive BY InvFacts
<1> QED BY <1>1, <1>2, <1>3 DEF TypeOK, IpcInv

\* Every reachable state of services, connections, handles and messages has
\* the types of src/kernel/core/ipc.c.
THEOREM IpcTypes == Spec => []TypeOK
<1>1. Init => IpcInv BY InitInv
<1>2. IpcInv /\ [Next]_vars => IpcInv' BY NextInv
<1>3. IpcInv => TypeOK BY InvTypes
<1> QED BY <1>1, <1>2, <1>3, PTL DEF Spec

\* The count of a shared buffer is the number of handles, mappings and queued
\* messages that refer to it, and every open side of a connection and every
\* service has exactly one holder, whoever closed or exited in whichever order:
\* close_connection_side, unregister_service, boring_ipc_process_cleanup and
\* user_memory_process_cleanup lose and forge nothing.
THEOREM IpcRefsExact == Spec => []RefsExact
<1>1. Init => IpcInv BY InitInv
<1>2. IpcInv /\ [Next]_vars => IpcInv' BY NextInv
<1>3. IpcInv => RefsExact BY InvImplies
<1> QED BY <1>1, <1>2, <1>3, PTL DEF Spec

\* A process blocked in SERVICE_ACCEPT or IPC_RECEIVE sleeps only while there
\* is nothing for it: every connect, send, close and exit wakes whom it must.
THEOREM IpcNoLostWakeup == Spec => []NoLostWakeup
<1>1. Init => IpcInv BY InitInv
<1>2. IpcInv /\ [Next]_vars => IpcInv' BY NextInv
<1>3. IpcInv => NoLostWakeup BY InvImplies
<1> QED BY <1>1, <1>2, <1>3, PTL DEF Spec
\* Messages leave a queue one at a time, in order, by a receive of its owner, and
\* are dropped only when the owner itself closes or exits: closing one side of a
\* connection never loses what that side had sent.
THEOREM IpcDrainAfterClose == Spec => DrainAfterClose
<1>1. IpcInv /\ [Next]_vars => [Drained]_vars BY NextInv
<1>2. Drained =>
         \A c \in Connection, side \in Side :
           LET q == conn[c].queue[side]
               r == conn'[c].queue[side]
           IN  conn[c] # NoConnection /\ q # <<>> =>
                 \/ /\ conn'[c] # NoConnection
                    /\ conn'[c].open[side]
                    /\ \/ IsPrefix(q, r)
                       \/ /\ r = Tail(q)
                          /\ ret' = "received"
                 \/ /\ conn[c].open[side]
                    /\ \A x \in HandlesOf(c, side) : handle'[x[1]][x[2]] = NoHandle
                    /\ conn'[c] # NoConnection => conn'[c].open[side] = FALSE
  BY DEF Drained, Drains
<1>3. Init => IpcInv BY InitInv
<1>4. IpcInv /\ [Next]_vars => IpcInv' BY NextInv
<1> QED BY <1>1, <1>2, <1>3, <1>4, PTL DEF Spec, DrainAfterClose
=============================================================================
