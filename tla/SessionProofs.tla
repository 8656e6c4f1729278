--------------------------- MODULE SessionProofs ---------------------------
(***************************************************************************)
(* What a session works with, its terminals and its desktop.  The counts of  *)
(* the pairs are exact, and no reader of a pseudo terminal sleeps while it    *)
(* could return, for any number of processes, descriptors and pairs.  Every   *)
(* input that the display server passes on is in one place until it is        *)
(* acknowledged, for any number of applications, windows and rows.          *)
(***************************************************************************)
EXTENDS Pty, Wm, Induction, FiniteSetTheorems

----------------------------------------------------------------------------
(* Pseudo terminals and descriptor tables                                  *)

\* The ends of a pair.
LEMMA PeerFacts ==
    ASSUME NEW e \in End
    PROVE  /\ peer_endpoint(e) \in End /\ peer_endpoint(e) # e
           /\ \A d \in End : d = e \/ d = peer_endpoint(e)
           /\ peer_endpoint(peer_endpoint(e)) = e
BY DEF End, peer_endpoint

\* A process inside a call watches descriptors of its own; the sleeping ones
\* are inside a call, and who is not alive has no descriptor.
CallsOK ==
    /\ DOMAIN call = Process
    /\ \A p \in Process :
          \/ call[p] = InUser
          \/ /\ call[p] \in [op : {"read", "event"}, fds : SUBSET Fd]
             /\ state[p] = "alive"
             /\ \A f \in call[p].fds : fd[p][f].kind = "pty"
             /\ call[p].op = "read" => \E f \in Fd : call[p].fds = {f}
    /\ \A p \in blocked : call[p] # InUser
    /\ \A p \in Process : state[p] # "alive" => fd[p] = [f \in Fd |-> Unused]

\* Nobody waits where another one does.
Exclusive == \A p, q \in Process : p # q => Watched(p) \cap Watched(q) = {}

\* A process that sleeps is the waiter of every end it watches, and none of
\* them is ready.
Asleep(st, q) ==
    \A f \in call[q].fds :
        LET k == fd[q][f].pair
            e == fd[q][f].end
        IN  /\ st.waiter[k][e] = q
            /\ st.queued[k][e] = 0
            /\ st.refs[k][peer_endpoint(e)] > 0

Sleepers(st) == \A q \in blocked \ st.woken : Asleep(st, q)

PtyInv ==
    /\ TypeOK /\ CallsOK /\ RefsExact /\ WaiterIsWaiting
    /\ ExclusiveReaders => Exclusive /\ Sleepers(Current)

----------------------------------------------------------------------------
(* Closing a descriptor                                                    *)

PairStates ==
    [used : [Pair -> BOOLEAN], refs : [Pair -> [End -> Int]],
     queued : [Pair -> [End -> 0..RingCapacity]],
     waiter : [Pair -> [End -> Process \cup {NoProcess}]], woken : SUBSET Process]

AllZero == [d \in End |-> 0]
NoWaiters == [d \in End |-> NoProcess]

\* What wake_endpoint does, field by field.
LEMMA WakeFacts ==
    ASSUME NEW st \in PairStates, NEW k \in Pair, NEW e \in End,
           NEW n, n = wake_endpoint(st, k, e)
    PROVE  /\ n \in PairStates
           /\ n.used = st.used /\ n.refs = st.refs /\ n.queued = st.queued
           /\ n.waiter = [st.waiter EXCEPT ![k][e] = NoProcess]
           /\ n.woken = st.woken \cup ({st.waiter[k][e]} \ {NoProcess})
<1> DEFINE W == [st.waiter EXCEPT ![k][e] = NoProcess]
           X == st.woken \cup ({st.waiter[k][e]} \ {NoProcess})
<1>1. W \in [Pair -> [End -> Process \cup {NoProcess}]] BY DEF PairStates
<1>2. X \in SUBSET Process BY DEF PairStates
<1>3. n = [[st EXCEPT !.woken = X] EXCEPT !.waiter = W] BY DEF wake_endpoint, PairStates
<1> HIDE DEF W, X
<1>4. [st EXCEPT !.woken = X] \in PairStates BY <1>2 DEF PairStates
<1>5. n \in PairStates BY <1>1, <1>3, <1>4 DEF PairStates
<1>6. n.used = st.used /\ n.refs = st.refs /\ n.queued = st.queued /\ n.waiter = W /\ n.woken = X
  BY <1>3, <1>4 DEF PairStates
<1> QED BY <1>5, <1>6 DEF W, X

\* What pair_reset does, field by field.
IsReset(n, st, k) ==
    /\ n \in PairStates
    /\ n.used = [st.used EXCEPT ![k] = FALSE]
    /\ n.refs = [st.refs EXCEPT ![k] = AllZero]
    /\ n.queued = [st.queued EXCEPT ![k] = AllZero]
    /\ n.waiter = [st.waiter EXCEPT ![k] = NoWaiters]
    /\ n.woken = st.woken

\* pair_reset clears one pair and leaves the others.
LEMMA ResetFacts ==
    ASSUME NEW st \in PairStates, NEW k \in Pair
    PROVE  IsReset(pair_reset(st, k), st, k)
<1> SUFFICES ASSUME NEW n, n = pair_reset(st, k) PROVE IsReset(n, st, k) OBVIOUS
<1> DEFINE U == [st.used EXCEPT ![k] = FALSE]
           R == [st.refs EXCEPT ![k] = AllZero]
           Q == [st.queued EXCEPT ![k] = AllZero]
           W == [st.waiter EXCEPT ![k] = NoWaiters]
<1>1. /\ U \in [Pair -> BOOLEAN] /\ R \in [Pair -> [End -> Int]]
      /\ Q \in [Pair -> [End -> 0..RingCapacity]]
      /\ W \in [Pair -> [End -> Process \cup {NoProcess}]]
  BY PtyAssumption DEF PairStates, AllZero, NoWaiters
<1>2. n = [used |-> U, refs |-> R, queued |-> Q, waiter |-> W, woken |-> st.woken]
  BY DEF pair_reset, PairStates, AllZero, NoWaiters
<1> HIDE DEF U, R, Q, W
<1>3. n \in PairStates BY <1>1, <1>2 DEF PairStates
<1>4. n.used = U /\ n.refs = R /\ n.queued = Q /\ n.waiter = W /\ n.woken = st.woken BY <1>2
<1> QED BY <1>3, <1>4 DEF U, R, Q, W, IsReset

\* What pty_close does, field by field.
IsClosed(n, st, k, e) ==
    LET last == st.refs[k][e] - 1 = 0
        reset == last /\ st.refs[k][peer_endpoint(e)] = 0
    IN  /\ n \in PairStates
        /\ n.refs = [st.refs EXCEPT ![k][e] = @ - 1]
        /\ n.used = IF reset THEN [st.used EXCEPT ![k] = FALSE] ELSE st.used
        /\ n.queued = IF reset THEN [st.queued EXCEPT ![k] = AllZero] ELSE st.queued
        /\ n.waiter = IF last THEN [st.waiter EXCEPT ![k] = NoWaiters] ELSE st.waiter
        /\ n.woken = IF last
                       THEN st.woken \cup ({st.waiter[k][peer_endpoint(e)]} \ {NoProcess})
                       ELSE st.woken

\* pty_close: one reference less, the peer woken at the last one, and the pair free when
\* both ends are.
LEMMA CloseFacts ==
    ASSUME NEW st \in PairStates, NEW k \in Pair, NEW e \in End
    PROVE  IsClosed(pty_close(st, k, e), st, k, e)
<1> SUFFICES ASSUME NEW n, n = pty_close(st, k, e) PROVE IsClosed(n, st, k, e) OBVIOUS
<1> USE DEF IsClosed
<1> DEFINE d == peer_endpoint(e)
           last == st.refs[k][e] - 1 = 0
           reset == last /\ st.refs[k][d] = 0
           refs1 == [st.refs EXCEPT ![k][e] = @ - 1]
           waiter1 == [st.waiter EXCEPT ![k][e] = NoProcess]
           waiter2 == [waiter1 EXCEPT ![k][d] = NoProcess]
           woken1 == st.woken \cup ({waiter1[k][d]} \ {NoProcess})
           st1 == [st EXCEPT !.refs[k][e] = @ - 1]
           st2 == IF st1.refs[k][e] = 0
                    THEN wake_endpoint([st1 EXCEPT !.waiter[k][e] = NoProcess], k, d)
                    ELSE st1
<1>0. /\ d \in End /\ d # e /\ \A x \in End : x = e \/ x = d
      /\ RingCapacity \in Nat
  BY PeerFacts, PtyAssumption
<1>1. n = IF \A end \in End : st2.refs[k][end] = 0 THEN pair_reset(st2, k) ELSE st2
  BY DEF pty_close
<1>2. /\ st1.refs = refs1 /\ st1.used = st.used /\ st1.queued = st.queued
      /\ st1.waiter = st.waiter /\ st1.woken = st.woken /\ st1 \in PairStates
  <2>1. st1 = [st EXCEPT !.refs = refs1] BY DEF PairStates
  <2>2. refs1 \in [Pair -> [End -> Int]] BY DEF PairStates
  <2> HIDE DEF st1, refs1
  <2> QED BY <2>1, <2>2 DEF PairStates
<1>3. refs1[k][e] = st.refs[k][e] - 1 /\ refs1[k][d] = st.refs[k][d] /\ refs1[k] \in [End -> Int]
  BY <1>0 DEF PairStates
<1>4. CASE ~last
  <2>1. n = st1
    <3>1. st2 = st1 BY <1>2, <1>3, <1>4
    <3>2. ~ \A end \in End : st2.refs[k][end] = 0 BY <1>2, <1>3, <1>4, <3>1
    <3> QED BY <1>1, <3>1, <3>2
  <2> HIDE DEF st1, st2
  <2> QED BY <1>2, <1>4, <2>1
<1>5. CASE last
  <2> DEFINE sm == [st1 EXCEPT !.waiter[k][e] = NoProcess]
  <2>1. sm \in PairStates /\ sm.used = st.used /\ sm.refs = refs1 /\ sm.queued = st.queued
        /\ sm.waiter = waiter1 /\ sm.woken = st.woken
    <3>1. sm = [st1 EXCEPT !.waiter = waiter1]
      <4> HIDE DEF st1
      <4> QED BY <1>2 DEF PairStates
    <3>2. waiter1 \in [Pair -> [End -> Process \cup {NoProcess}]] BY DEF PairStates
    <3> HIDE DEF st1, waiter1, refs1, sm
    <3> QED BY <1>2, <3>1, <3>2 DEF PairStates
  <2>2. st2 = wake_endpoint(sm, k, d) BY <1>2, <1>3, <1>5
  <2> HIDE DEF sm, st1, st2
  <2>3. /\ st2 \in PairStates
        /\ st2.used = st.used /\ st2.refs = refs1 /\ st2.queued = st.queued
        /\ st2.waiter = waiter2 /\ st2.woken = woken1
    <3> HIDE DEF refs1, waiter1
    <3> QED BY <1>0, <2>1, <2>2, WakeFacts
  <2>4. waiter1[k][d] = st.waiter[k][d] BY <1>0 DEF PairStates
  <2>5. waiter2 = [st.waiter EXCEPT ![k] = NoWaiters]
    BY <1>0 DEF PairStates, NoWaiters
  <2>6. woken1 = st.woken \cup ({st.waiter[k][d]} \ {NoProcess}) BY <2>4
  <2>7. (\A end \in End : st2.refs[k][end] = 0) <=> reset
    <3> HIDE DEF refs1, d
    <3> QED BY <1>0, <1>3, <1>5, <2>3
  <2>8. CASE ~reset
    <3>1. n = st2 BY <1>1, <2>7, <2>8
    <3> HIDE DEF refs1, waiter1, waiter2, woken1
    <3> QED BY <1>5, <2>3, <2>5, <2>6, <2>8, <3>1 DEF refs1
  <2>9. CASE reset
    <3>1. n = pair_reset(st2, k) BY <1>1, <2>7, <2>9
    <3>2. /\ n \in PairStates
          /\ n.used = [st.used EXCEPT ![k] = FALSE]
          /\ n.refs = [refs1 EXCEPT ![k] = AllZero]
          /\ n.queued = [st.queued EXCEPT ![k] = AllZero]
          /\ n.waiter = [waiter2 EXCEPT ![k] = NoWaiters]
          /\ n.woken = woken1
      <4>1. /\ n \in PairStates
            /\ n.used = [st2.used EXCEPT ![k] = FALSE]
            /\ n.refs = [st2.refs EXCEPT ![k] = AllZero]
            /\ n.queued = [st2.queued EXCEPT ![k] = AllZero]
            /\ n.waiter = [st2.waiter EXCEPT ![k] = NoWaiters]
            /\ n.woken = st2.woken
        <5>1. IsReset(n, st2, k) BY <2>3, <3>1, ResetFacts
        <5> QED BY <5>1 DEF IsReset
      <4> HIDE DEF refs1, waiter1, waiter2, woken1
      <4> QED BY <2>3, <4>1
    <3>3. [refs1 EXCEPT ![k] = AllZero] = refs1
      <4>1. \A x \in End : refs1[k][x] = 0 BY <1>0, <1>3, <2>9
      <4>2. refs1 \in [Pair -> [End -> Int]] BY DEF PairStates
      <4> HIDE DEF refs1
      <4>3. refs1[k] = AllZero BY <4>1, <4>2 DEF AllZero
      <4> QED BY <4>2, <4>3
    <3>4. [waiter2 EXCEPT ![k] = NoWaiters]
            = [st.waiter EXCEPT ![k] = NoWaiters]
      BY <2>5 DEF PairStates
    <3> HIDE DEF refs1, waiter1, waiter2, woken1
    <3> QED BY <1>5, <2>6, <2>9, <3>2, <3>3, <3>4 DEF refs1
  <2> QED BY <2>8, <2>9
<1> QED BY <1>4, <1>5

----------------------------------------------------------------------------
(* References                                                              *)

Tables == [Process -> [Fd -> Slots]]

\* Who holds an end, in any descriptor table.
HoldersIn(T, k, e) ==
    {x \in Process \X Fd : /\ T[x[1]][x[2]].kind = "pty"
                          /\ T[x[1]][x[2]].pair = k
                          /\ T[x[1]][x[2]].end = e}

Exact(st, T) ==
    \A k \in Pair :
        /\ \A e \in End : st.refs[k][e] = Cardinality(HoldersIn(T, k, e))
        /\ ~st.used[k] => \A e \in End : st.queued[k][e] = 0 /\ st.waiter[k][e] = NoProcess
        /\ st.used[k] <=> \E e \in End : st.refs[k][e] > 0

\* A descriptor of a PTY names a pair and an end.
LEMMA SlotFacts ==
    ASSUME NEW s \in Slots, s.kind = "pty"
    PROVE  s.pair \in Pair /\ s.end \in End
BY DEF Slots, Unused, Console, PtySlot

\* The descriptor that is installed names the pair and the end it was made for.
LEMMA SlotIs ==
    ASSUME NEW k, NEW e, NEW a
    PROVE  /\ PtySlot(k, e, a).kind = "pty" /\ PtySlot(k, e, a).pair = k
           /\ PtySlot(k, e, a).end = e
BY DEF PtySlot

\* An unused descriptor is not one of a PTY.
LEMMA UnusedFacts == Unused \in Slots /\ Unused.kind # "pty"
BY DEF Slots, Unused

\* No end has more holders than there are descriptors.
LEMMA HoldersFinite ==
    ASSUME NEW T, NEW k, NEW e
    PROVE  /\ IsFiniteSet(HoldersIn(T, k, e))
           /\ Cardinality(HoldersIn(T, k, e)) \in 0..(Cardinality(Process) * FdMax)
<1>1. IsFiniteSet(Process) /\ FdMax \in Nat BY PtyAssumption
<1>2. IsFiniteSet(Fd) /\ Cardinality(Fd) = FdMax
  <2>1. 0 \in Int /\ FdMax - 1 \in Int BY <1>1
  <2>2. /\ IsFiniteSet(0..(FdMax - 1))
        /\ Cardinality(0..(FdMax - 1)) = IF 0 > FdMax - 1 THEN 0 ELSE FdMax - 1 - 0 + 1
    BY <2>1, FS_Interval
  <2> QED BY <1>1, <2>2, PtyAssumption DEF Fd
<1>3. /\ IsFiniteSet(Process \X Fd)
      /\ Cardinality(Process \X Fd) = Cardinality(Process) * FdMax
  BY <1>1, <1>2, FS_Product
<1>4. HoldersIn(T, k, e) \in SUBSET (Process \X Fd) BY DEF HoldersIn
<1>5. /\ IsFiniteSet(HoldersIn(T, k, e))
      /\ Cardinality(HoldersIn(T, k, e)) <= Cardinality(Process \X Fd)
  BY <1>3, <1>4, FS_Subset
<1>6. Cardinality(HoldersIn(T, k, e)) \in Nat BY <1>5, FS_CardinalityType
<1>7. Cardinality(Process \X Fd) \in Nat BY <1>3, FS_CardinalityType
<1> QED BY <1>3, <1>5, <1>6, <1>7

\* One descriptor less names the end it named.
OneLess(T, p, f) ==
    LET k == T[p][f].pair
        e == T[p][f].end
        U == [T EXCEPT ![p][f] = Unused]
    IN  /\ U \in Tables
        /\ <<p, f>> \in HoldersIn(T, k, e)
        /\ HoldersIn(U, k, e) = HoldersIn(T, k, e) \ {<<p, f>>}
        /\ Cardinality(HoldersIn(U, k, e)) = Cardinality(HoldersIn(T, k, e)) - 1
        /\ \A j, d : (j # k \/ d # e) => HoldersIn(U, j, d) = HoldersIn(T, j, d)

\* Clearing a descriptor takes one holder from its end and none from others.
LEMMA HoldersLess ==
    ASSUME NEW T \in Tables, NEW p \in Process, NEW f \in Fd, T[p][f].kind = "pty"
    PROVE  OneLess(T, p, f)
<1> DEFINE k == T[p][f].pair
           e == T[p][f].end
           U == [T EXCEPT ![p][f] = Unused]
<1>1. U \in Tables BY UnusedFacts DEF Tables
<1>2. \A x \in Process \X Fd : U[x[1]][x[2]] = IF x = <<p, f>> THEN Unused ELSE T[x[1]][x[2]]
  BY DEF Tables
<1>3. <<p, f>> \in HoldersIn(T, k, e) BY DEF HoldersIn
<1>4. HoldersIn(U, k, e) = HoldersIn(T, k, e) \ {<<p, f>>}
  <2> HIDE DEF U
  <2> QED BY <1>2, UnusedFacts DEF HoldersIn
<1>5. ASSUME NEW j, NEW d, j # k \/ d # e PROVE HoldersIn(U, j, d) = HoldersIn(T, j, d)
  <2>1. <<p, f>> \notin HoldersIn(T, j, d) BY <1>5 DEF HoldersIn
  <2> HIDE DEF U
  <2> QED BY <1>2, <2>1, UnusedFacts DEF HoldersIn
<1>6. Cardinality(HoldersIn(U, k, e)) = Cardinality(HoldersIn(T, k, e)) - 1
  <2>1. IsFiniteSet(HoldersIn(T, k, e)) BY HoldersFinite
  <2> HIDE DEF U, k, e
  <2> QED BY <1>3, <1>4, <2>1, FS_RemoveElement
<1> QED BY <1>1, <1>3, <1>4, <1>5, <1>6 DEF OneLess

\* pty_close for a descriptor keeps the counts exact.
LEMMA CloseExact ==
    ASSUME NEW T \in Tables, NEW p \in Process, NEW f \in Fd, T[p][f].kind = "pty",
           NEW st \in PairStates, Exact(st, T)
    PROVE  Exact(pty_close(st, T[p][f].pair, T[p][f].end), [T EXCEPT ![p][f] = Unused])
<1> DEFINE k == T[p][f].pair
           e == T[p][f].end
           U == [T EXCEPT ![p][f] = Unused]
           n == pty_close(st, k, e)
           d == peer_endpoint(e)
<1>1. k \in Pair /\ e \in End
  <2>1. T[p][f] \in Slots BY DEF Tables
  <2> QED BY <2>1, SlotFacts
<1>2. IsClosed(n, st, k, e) BY <1>1, CloseFacts
<1>3. d \in End /\ d # e /\ \A x \in End : x = e \/ x = d BY <1>1, PeerFacts
<1>4. /\ Cardinality(HoldersIn(U, k, e)) = Cardinality(HoldersIn(T, k, e)) - 1
      /\ \A j, x : (j # k \/ x # e) => HoldersIn(U, j, x) = HoldersIn(T, j, x)
  <2>1. OneLess(T, p, f) BY HoldersLess
  <2> QED BY <2>1 DEF OneLess
<1> HIDE DEF n, k, e, U, d
<1>5. \A j \in Pair, x \in End :
          n.refs[j][x] = IF j = k /\ x = e THEN st.refs[k][e] - 1 ELSE st.refs[j][x]
  BY <1>1, <1>2 DEF IsClosed, PairStates
<1>6. \A j \in Pair, x \in End : n.refs[j][x] = Cardinality(HoldersIn(U, j, x))
  BY <1>1, <1>4, <1>5 DEF Exact
<1>7. \A j \in Pair, x \in End : n.refs[j][x] \in Nat /\ st.refs[j][x] \in Nat
  BY <1>6, HoldersFinite DEF Exact
<1>8. ASSUME NEW j \in Pair
      PROVE  /\ ~n.used[j] => \A x \in End : n.queued[j][x] = 0 /\ n.waiter[j][x] = NoProcess
             /\ n.used[j] <=> \E x \in End : n.refs[j][x] > 0
  <2>1. CASE j # k
    <3>1. /\ n.used[j] = st.used[j] /\ n.queued[j] = st.queued[j] /\ n.waiter[j] = st.waiter[j]
          /\ \A x \in End : n.refs[j][x] = st.refs[j][x]
      BY <1>1, <1>2, <1>5, <2>1 DEF IsClosed, PairStates
    <3> QED BY <3>1 DEF Exact
  <2>2. CASE j = k /\ st.refs[k][e] - 1 = 0 /\ st.refs[k][d] = 0
    <3>1. /\ n.used[k] = FALSE /\ n.queued[k] = AllZero /\ n.waiter[k] = NoWaiters
      BY <1>1, <1>2, <2>2 DEF IsClosed, PairStates, d
    <3>2. \A x \in End : n.refs[k][x] = 0 BY <1>1, <1>3, <1>5, <2>2
    <3> QED BY <2>2, <3>1, <3>2 DEF AllZero, NoWaiters
  <2>3. CASE j = k /\ ~(st.refs[k][e] - 1 = 0 /\ st.refs[k][d] = 0)
    <3>1. n.used[k] = st.used[k] /\ n.queued[k] = st.queued[k]
      BY <1>1, <1>2, <2>3 DEF IsClosed, PairStates, d
    <3>2. \E x \in End : n.refs[k][x] > 0
      <4>1. n.refs[k][e] = st.refs[k][e] - 1 /\ n.refs[k][d] = st.refs[k][d]
        BY <1>1, <1>3, <1>5
      <4> QED BY <1>1, <1>3, <1>7, <2>3, <4>1
    <3>3. st.used[k]
      <4>1. st.refs[k][e] > 0 BY <1>1, <1>5, <1>7
      <4> QED BY <1>1, <4>1 DEF Exact
    <3> QED BY <2>3, <3>1, <3>2, <3>3
  <2> QED BY <2>1, <2>2, <2>3
<1>9. Exact(n, U) BY <1>6, <1>8 DEF Exact
<1> QED BY <1>9 DEF n, k, e, U

----------------------------------------------------------------------------
(* Waiters                                                                 *)

WaitersOK(st) ==
    \A k \in Pair, e \in End :
        st.waiter[k][e] # NoProcess => <<k, e>> \in Watched(st.waiter[k][e])

\* pty_close for a descriptor of p, which is in no call, leaves nobody asleep
\* at an end that lost its other end.
LEMMA CloseWakes ==
    ASSUME TypeOK, CallsOK,
           NEW T \in Tables, NEW p \in Process, NEW f \in Fd, T[p][f].kind = "pty",
           call[p] = InUser, \A q \in Process \ {p} : T[q] = fd[q],
           NEW st \in PairStates, Exact(st, T), WaitersOK(st), Sleepers(st)
    PROVE  Sleepers(pty_close(st, T[p][f].pair, T[p][f].end))
<1> DEFINE k == T[p][f].pair
           e == T[p][f].end
           U == [T EXCEPT ![p][f] = Unused]
           n == pty_close(st, k, e)
           d == peer_endpoint(e)
<1>1. k \in Pair /\ e \in End
  <2>1. T[p][f] \in Slots BY DEF Tables
  <2> QED BY <2>1, SlotFacts
<1>2. IsClosed(n, st, k, e) BY <1>1, CloseFacts
<1>3. d \in End /\ d # e /\ (\A x \in End : x = e \/ x = d) /\ peer_endpoint(d) = e
  BY <1>1, PeerFacts
<1>4. Exact(n, U) BY CloseExact
<1>5. \A q \in Process, g \in Fd : <<q, g>> # <<p, f>> => U[q][g] = T[q][g]
  BY DEF Tables
<1> HIDE DEF n, k, e, U, d
<1>6. \A j \in Pair, x \in End :
          n.refs[j][x] = IF j = k /\ x = e THEN st.refs[k][e] - 1 ELSE st.refs[j][x]
  BY <1>1, <1>2 DEF IsClosed, PairStates
<1>0. SUFFICES Sleepers(n) BY DEF n, k, e
<1>7. SUFFICES ASSUME NEW q \in blocked \ n.woken, NEW g \in call[q].fds,
                      NEW j, j = fd[q][g].pair, NEW x, x = fd[q][g].end
               PROVE  n.waiter[j][x] = q /\ n.queued[j][x] = 0 /\ n.refs[j][peer_endpoint(x)] > 0
  BY DEF Sleepers, Asleep
<1>8. q \in Process /\ q # p /\ g \in Fd /\ fd[q][g].kind = "pty" /\ q \notin st.woken
  <2>1. q \in Process /\ call[q] # InUser BY DEF TypeOK, CallsOK
  <2>2. q \notin st.woken BY <1>2, <1>7 DEF IsClosed
  <2> QED BY <2>1, <2>2 DEF CallsOK
<1>9. j \in Pair /\ x \in End
  <2>1. fd[q][g] \in Slots BY <1>8 DEF TypeOK
  <2> QED BY <1>7, <1>8, <2>1, SlotFacts
<1>10. st.waiter[j][x] = q /\ st.queued[j][x] = 0 /\ st.refs[j][peer_endpoint(x)] > 0
  BY <1>7, <1>8 DEF Sleepers, Asleep
<1>11. n.refs[j][x] >= 1
  <2>1. <<q, g>> \in HoldersIn(U, j, x)
    <3>1. U[q][g] = fd[q][g] BY <1>5, <1>8
    <3> QED BY <1>7, <1>8, <3>1 DEF HoldersIn
  <2>2. IsFiniteSet(HoldersIn(U, j, x)) BY HoldersFinite
  <2>3. Cardinality(HoldersIn(U, j, x)) # 0 BY <2>1, <2>2, FS_EmptySet
  <2>4. Cardinality(HoldersIn(U, j, x)) \in Nat BY HoldersFinite
  <2>5. n.refs[j][x] = Cardinality(HoldersIn(U, j, x)) BY <1>4, <1>9 DEF Exact
  <2> QED BY <2>3, <2>4, <2>5
<1>12. ~(j = k /\ st.refs[k][e] - 1 = 0)
  <2> SUFFICES ASSUME j = k, st.refs[k][e] - 1 = 0 PROVE FALSE OBVIOUS
  <2>1. n.woken = st.woken \cup ({st.waiter[k][d]} \ {NoProcess})
    BY <1>2 DEF IsClosed, d
  <2>2. CASE x = d
    <3>1. q # NoProcess BY <1>8, PtyAssumption
    <3> QED BY <1>7, <1>10, <2>1, <2>2, <3>1
  <2>3. CASE x = e
    <3>1. n.refs[k][e] = 0 BY <1>1, <1>6
    <3> QED BY <1>11, <2>3, <3>1
  <2> QED BY <1>3, <1>9, <2>2, <2>3
<1>13. n.waiter[j][x] = q /\ n.queued[j][x] = 0
  BY <1>1, <1>2, <1>9, <1>10, <1>12 DEF IsClosed, PairStates
<1>14. n.refs[j][peer_endpoint(x)] > 0
  <2>1. peer_endpoint(x) \in End BY <1>9, PeerFacts
  <2>2. CASE j = k /\ peer_endpoint(x) = e
    <3>1. st.refs[k][e] - 1 # 0 /\ st.refs[k][e] > 0 /\ st.refs[k][e] \in Int
      BY <1>1, <1>10, <1>12, <2>2 DEF PairStates
    <3> QED BY <1>1, <1>6, <2>2, <3>1
  <2>3. CASE ~(j = k /\ peer_endpoint(x) = e)
    BY <1>6, <1>9, <1>10, <2>1, <2>3
  <2> QED BY <2>2, <2>3
<1> QED BY <1>13, <1>14

\* pty_close leaves no waiter at a free pair.
LEMMA CloseWaiters ==
    ASSUME NEW st \in PairStates, WaitersOK(st), NEW k \in Pair, NEW e \in End
    PROVE  WaitersOK(pty_close(st, k, e))
<1> DEFINE n == pty_close(st, k, e)
<1>1. IsClosed(n, st, k, e) BY CloseFacts
<1> HIDE DEF n
<1>2. \A j \in Pair, x \in End : n.waiter[j][x] = NoProcess \/ n.waiter[j][x] = st.waiter[j][x]
  BY <1>1 DEF IsClosed, PairStates, NoWaiters
<1>3. WaitersOK(n) BY <1>2 DEF WaitersOK
<1> QED BY <1>3 DEF n

----------------------------------------------------------------------------
(* Closing every descriptor of a process                                   *)

\* The tables when the first i descriptors of p are closed.
Emptied(p, i) ==
    [fd EXCEPT ![p] = [f \in Fd |-> IF f < i THEN Unused ELSE fd[p][f]]]

Good(st, T) ==
    Exact(st, T) /\ WaitersOK(st) /\ (ExclusiveReaders => Sleepers(st))

\* One turn of the loop that closes all descriptors at exit keeps the loop invariant.
LEMMA CloseSlotGood ==
    ASSUME TypeOK, CallsOK, NEW p \in Process, call[p] = InUser,
           NEW i \in 1..FdMax, NEW st \in PairStates, Good(st, Emptied(p, i - 1))
    PROVE  Good(CloseSlot(st, fd[p][i - 1]), Emptied(p, i))
<1> DEFINE f == i - 1
           T == Emptied(p, i - 1)
           U == Emptied(p, i)
<1>0. f \in Fd /\ f \in Nat /\ FdMax \in Nat BY PtyAssumption DEF Fd
<1>1. T \in Tables
  BY UnusedFacts DEF TypeOK, Tables, Emptied
<1>2. T[p][f] = fd[p][f] /\ \A q \in Process \ {p} : T[q] = fd[q]
  BY <1>0 DEF TypeOK, Emptied
<1>3. U = [T EXCEPT ![p][f] = Unused]
  <2>1. T[p] = [g \in Fd |-> IF g < f THEN Unused ELSE fd[p][g]] BY DEF TypeOK, Emptied
  <2>2. [T[p] EXCEPT ![f] = Unused] = [g \in Fd |-> IF g < i THEN Unused ELSE fd[p][g]]
    BY <1>0, <2>1 DEF Fd
  <2>3. [T EXCEPT ![p][f] = Unused] = [T EXCEPT ![p] = [T[p] EXCEPT ![f] = Unused]]
    BY <1>1 DEF Tables
  <2>4. U = [fd EXCEPT ![p] = [g \in Fd |-> IF g < i THEN Unused ELSE fd[p][g]]] BY DEF Emptied
  <2>5. T = [fd EXCEPT ![p] = T[p]] BY DEF TypeOK, Emptied
  <2>6. \A V : [[fd EXCEPT ![p] = T[p]] EXCEPT ![p] = V] = [fd EXCEPT ![p] = V] BY DEF TypeOK
  <2> HIDE DEF T, U
  <2>7. [T EXCEPT ![p] = [T[p] EXCEPT ![f] = Unused]]
          = [fd EXCEPT ![p] = [T[p] EXCEPT ![f] = Unused]]
    BY <2>5, <2>6
  <2> QED BY <2>2, <2>3, <2>4, <2>7
<1>4. CASE fd[p][f].kind = "pty"
  <2> DEFINE n == pty_close(st, T[p][f].pair, T[p][f].end)
  <2>1. CloseSlot(st, fd[p][f]) = n BY <1>2, <1>4 DEF CloseSlot
  <2>2. T[p][f] \in Slots /\ T[p][f].kind = "pty" BY <1>0, <1>1, <1>2, <1>4 DEF Tables
  <2>3. T[p][f].pair \in Pair /\ T[p][f].end \in End BY <2>2, SlotFacts
  <2> HIDE DEF T, U, f
  <2>4. Exact(n, U) BY <1>0, <1>1, <1>3, <2>2, CloseExact DEF Good, T
  <2>5. WaitersOK(n) BY <2>3, CloseWaiters DEF Good
  <2>6. ExclusiveReaders => Sleepers(n)
    BY <1>0, <1>1, <1>2, <2>2, CloseWakes DEF Good, T
  <2> HIDE DEF n
  <2> QED BY <2>1, <2>4, <2>5, <2>6 DEF Good, U, f
<1>5. CASE fd[p][f].kind # "pty"
  <2>1. CloseSlot(st, fd[p][f]) = st BY <1>5 DEF CloseSlot
  <2>2. \A x \in Process \X Fd : U[x[1]][x[2]] = IF x = <<p, f>> THEN Unused ELSE T[x[1]][x[2]]
    <3> HIDE DEF T, U, f
    <3> QED BY <1>0, <1>1, <1>3 DEF Tables
  <2>3. \A k, e : HoldersIn(U, k, e) = HoldersIn(T, k, e)
    <3> HIDE DEF T, U, f
    <3> QED BY <1>2, <1>5, <2>2, UnusedFacts DEF HoldersIn
  <2> HIDE DEF T, U
  <2>4. Exact(st, U) BY <2>3 DEF Good, Exact, T
  <2> QED BY <2>1, <2>4 DEF Good, U
<1> QED BY <1>4, <1>5

\* One turn of that loop keeps the types.
LEMMA CloseSlotState ==
    ASSUME NEW st \in PairStates, NEW slot \in Slots
    PROVE  CloseSlot(st, slot) \in PairStates
<1>1. CASE slot.kind = "pty"
  <2>1. slot.pair \in Pair /\ slot.end \in End BY <1>1, SlotFacts
  <2>2. IsClosed(pty_close(st, slot.pair, slot.end), st, slot.pair, slot.end)
    BY <2>1, CloseFacts
  <2> QED BY <1>1, <2>2 DEF CloseSlot, IsClosed
<1>2. CASE slot.kind # "pty" BY <1>2 DEF CloseSlot
<1> QED BY <1>1, <1>2

\* The record that the closing loop folds over, at its start, is the state.
LEMMA CurrentFacts ==
    ASSUME TypeOK
    PROVE  /\ Current \in PairStates
           /\ Current.used = used /\ Current.refs = refs /\ Current.queued = queued
           /\ Current.waiter = waiter /\ Current.woken = {}
<1>1. refs \in [Pair -> [End -> Int]]
  <2>1. 0..(Cardinality(Process) * FdMax) \subseteq Int OBVIOUS
  <2> QED BY <2>1 DEF TypeOK
<1> QED BY <1>1 DEF TypeOK, Current, PairStates

\* The loop of kernel_fd_table_destroy.
LEMMA DestroyGood ==
    ASSUME TypeOK, CallsOK, NEW p \in Process, call[p] = InUser, Good(Current, fd)
    PROVE  /\ kernel_fd_table_destroy(p) \in PairStates
           /\ Good(kernel_fd_table_destroy(p), [fd EXCEPT ![p] = [f \in Fd |-> Unused]])
<1> DEFINE F == [x \in PairStates \X (1..FdMax) |-> CloseSlot(x[1], fd[p][x[2] - 1])]
<1>0. FdMax \in Nat /\ \A i \in 1..FdMax : i - 1 \in Fd BY PtyAssumption DEF Fd
<1>1. Current \in PairStates BY CurrentFacts
<1>2. \A st \in PairStates, i \in 1..FdMax :
          /\ F[<<st, i>>] = CloseSlot(st, fd[p][i - 1])
          /\ F[<<st, i>>] \in PairStates
  <2> SUFFICES ASSUME NEW st \in PairStates, NEW i \in 1..FdMax
               PROVE  /\ F[<<st, i>>] = CloseSlot(st, fd[p][i - 1])
                      /\ F[<<st, i>>] \in PairStates
    OBVIOUS
  <2>1. F[<<st, i>>] = CloseSlot(st, fd[p][i - 1]) OBVIOUS
  <2>2. fd[p][i - 1] \in Slots BY <1>0 DEF TypeOK
  <2>3. CloseSlot(st, fd[p][i - 1]) \in PairStates BY <2>2, CloseSlotState
  <2> QED BY <2>1, <2>3
<1> HIDE DEF F
<1>3. PICK g : Iterates(g, F, PairStates, Current, FdMax)
  <2>1. StaysIn(F, PairStates, FdMax) BY <1>2 DEF StaysIn
  <2> QED BY <1>0, <1>1, <2>1, Iteration
<1>4. /\ g \in [0..FdMax -> PairStates] /\ g[0] = Current
      /\ \A i \in 1..FdMax : g[i] = CloseSlot(g[i - 1], fd[p][i - 1])
  <2>1. /\ g \in [0..FdMax -> PairStates] /\ g[0] = Current
        /\ \A i \in 1..FdMax : g[i] = F[<<g[i - 1], i>>]
    BY <1>3 DEF Iterates
  <2>2. \A i \in 1..FdMax : g[i - 1] \in PairStates BY <1>0, <2>1
  <2> QED BY <1>2, <2>1, <2>2
\* The function of the definition exists, since g is one; both agree.
<1> DEFINE closed == CHOOSE h : h = [i \in 0..FdMax |->
                        IF i = 0 THEN Current ELSE CloseSlot(h[i - 1], fd[p][i - 1])]
<1>5. g = [i \in 0..FdMax |-> IF i = 0 THEN Current ELSE CloseSlot(g[i - 1], fd[p][i - 1])]
  BY <1>0, <1>4
<1>6. closed = [i \in 0..FdMax |->
                  IF i = 0 THEN Current ELSE CloseSlot(closed[i - 1], fd[p][i - 1])]
  BY <1>5
<1>7. kernel_fd_table_destroy(p) = closed[FdMax] BY DEF kernel_fd_table_destroy
<1> HIDE DEF closed
<1>8. /\ closed[0] = Current
      /\ \A i \in 1..FdMax : closed[i] = CloseSlot(closed[i - 1], fd[p][i - 1])
  BY <1>0, <1>6
<1> DEFINE N == {n \in Nat : n <= FdMax => /\ closed[n] \in PairStates
                                           /\ Good(closed[n], Emptied(p, n))}
<1>9. 0 \in N
  <2>1. \A f \in Fd : ~(f < 0) BY PtyAssumption DEF Fd
  <2>2. fd[p] \in [Fd -> Slots] BY DEF TypeOK
  <2>3. [f \in Fd |-> IF f < 0 THEN Unused ELSE fd[p][f]] = fd[p] BY <2>1, <2>2
  <2>4. Emptied(p, 0) = fd BY <2>3 DEF Emptied, TypeOK
  <2> QED BY <1>1, <1>8, <2>4
<1>10. ASSUME NEW n \in Nat, n \in N PROVE n + 1 \in N
  <2> SUFFICES ASSUME n + 1 <= FdMax
               PROVE  closed[n + 1] \in PairStates /\ Good(closed[n + 1], Emptied(p, n + 1))
    OBVIOUS
  <2>1. closed[n] \in PairStates /\ Good(closed[n], Emptied(p, n)) BY <1>0, <1>10
  <2>2. n + 1 \in 1..FdMax /\ (n + 1) - 1 = n BY <1>0
  <2>3. closed[n + 1] = CloseSlot(closed[n], fd[p][n]) BY <1>8, <2>2
  <2>4. fd[p][n] \in Slots BY <1>0, <2>2 DEF TypeOK
  <2>5. closed[n + 1] \in PairStates BY <2>1, <2>3, <2>4, CloseSlotState
  <2>6. Good(CloseSlot(closed[n], fd[p][(n + 1) - 1]), Emptied(p, n + 1))
    BY <2>1, <2>2, CloseSlotGood
  <2> QED BY <2>2, <2>3, <2>5, <2>6
<1>11. FdMax \in N
  <2> HIDE DEF N
  <2>1. Nat \subseteq N BY <1>9, <1>10, SetInduction
  <2> QED BY <1>0, <2>1
<1>12. closed[FdMax] \in PairStates /\ Good(closed[FdMax], Emptied(p, FdMax)) BY <1>0, <1>11
<1>13. Emptied(p, FdMax) = [fd EXCEPT ![p] = [f \in Fd |-> Unused]]
  <2>1. \A f \in Fd : f < FdMax BY <1>0 DEF Fd
  <2>2. [f \in Fd |-> IF f < FdMax THEN Unused ELSE fd[p][f]] = [f \in Fd |-> Unused] BY <2>1
  <2> QED BY <2>2 DEF Emptied
<1> QED BY <1>7, <1>12, <1>13

----------------------------------------------------------------------------
(* The steps                                                               *)

\* RefsExact, said of the record of pairs and of the descriptors.
LEMMA ExactNow == TypeOK => (RefsExact <=> Exact(Current, fd))
<1> SUFFICES ASSUME TypeOK PROVE RefsExact <=> Exact(Current, fd) OBVIOUS
<1>1. \A k, e : Holders(k, e) = HoldersIn(fd, k, e) BY DEF Holders, HoldersIn
<1> QED BY <1>1, CurrentFacts DEF RefsExact, Exact

\* The invariant on waiters, said of that record.
LEMMA WaitersNow == TypeOK => (WaiterIsWaiting <=> WaitersOK(Current))
BY CurrentFacts DEF WaiterIsWaiting, WaitersOK

\* The invariant gives the loop invariant at the start of the closing loop.
LEMMA GoodNow == PtyInv => Good(Current, fd)
BY ExactNow, WaitersNow DEF PtyInv, Good

\* A step of p, outside of any call, that leaves the pairs in a good state for
\* the tables it leaves.
LEMMA ApplyStep ==
    ASSUME PtyInv, NEW p \in Process, call[p] = InUser,
           NEW st \in PairStates, Apply(st), UNCHANGED call,
           fd' \in Tables, Good(st, fd'),
           \A q \in Process \ {p} : fd'[q] = fd[q] /\ state'[q] = state[q],
           state' \in [Process -> {"new", "alive", "finished"}],
           state'[p] # "alive" => fd'[p] = [f \in Fd |-> Unused]
    PROVE  PtyInv'
<1> USE DEF PtyInv
<1>1. /\ used' = st.used /\ refs' = st.refs /\ queued' = st.queued /\ waiter' = st.waiter
      /\ blocked' = blocked \ st.woken
  BY DEF Apply
<1>2. \A q \in blocked : q \in Process /\ q # p /\ call[q] # InUser /\ state[q] = "alive"
  BY DEF TypeOK, CallsOK
<1>3. TypeOK'
  <2>1. refs' \in [Pair -> [End -> 0..(Cardinality(Process) * FdMax)]]
    <3>1. \A k \in Pair, e \in End : st.refs[k][e] \in 0..(Cardinality(Process) * FdMax)
      BY HoldersFinite DEF Good, Exact
    <3> QED BY <1>1, <3>1 DEF PairStates
  <2>2. blocked' \subseteq {q \in Process : state'[q] = "alive"} BY <1>1, <1>2
  <2> QED BY <1>1, <2>1, <2>2 DEF TypeOK, PairStates, Tables
<1>4. CallsOK'
  <2>1. ASSUME NEW q \in Process
        PROVE  \/ call[q] = InUser
               \/ /\ call[q] \in [op : {"read", "event"}, fds : SUBSET Fd]
                  /\ state'[q] = "alive"
                  /\ \A f \in call[q].fds : fd'[q][f].kind = "pty"
                  /\ call[q].op = "read" => \E f \in Fd : call[q].fds = {f}
    <3>1. CASE q = p BY <3>1
    <3>2. CASE q # p BY <3>2 DEF CallsOK
    <3> QED BY <3>1, <3>2
  <2>2. \A q \in Process : state'[q] # "alive" => fd'[q] = [f \in Fd |-> Unused]
    BY DEF CallsOK
  <2>3. \A q \in blocked' : call[q] # InUser BY <1>1, <1>2
  <2> QED BY <2>1, <2>2, <2>3 DEF CallsOK
<1>5. \A q \in Process : Watched(q)' = Watched(q)
  <2> SUFFICES ASSUME NEW q \in Process PROVE Watched(q)' = Watched(q) OBVIOUS
  <2>1. CASE call[q] = InUser BY <2>1 DEF Watched
  <2>2. CASE call[q] # InUser
    <3>1. fd'[q] = fd[q] BY <2>2
    <3> QED BY <3>1 DEF Watched
  <2> QED BY <2>1, <2>2
<1>6. RefsExact'
  <2>1. \A k, e : Holders(k, e)' = HoldersIn(fd', k, e) BY DEF Holders, HoldersIn
  <2> QED BY <1>1, <2>1 DEF RefsExact, Good, Exact
<1>7. WaiterIsWaiting'
  <2> SUFFICES ASSUME NEW k \in Pair, NEW e \in End, st.waiter[k][e] # NoProcess
               PROVE  <<k, e>> \in Watched(st.waiter[k][e])'
    BY <1>1 DEF WaiterIsWaiting
  <2>1. st.waiter[k][e] \in Process BY DEF PairStates
  <2>2. <<k, e>> \in Watched(st.waiter[k][e]) BY DEF Good, WaitersOK
  <2> QED BY <1>5, <2>1, <2>2
<1>8. ExclusiveReaders => Exclusive' BY <1>5 DEF Exclusive
<1>9. ExclusiveReaders => Sleepers(Current)'
  <2> SUFFICES ASSUME ExclusiveReaders, NEW q \in blocked \ st.woken, NEW f \in call[q].fds
               PROVE  /\ st.waiter[fd'[q][f].pair][fd'[q][f].end] = q
                      /\ st.queued[fd'[q][f].pair][fd'[q][f].end] = 0
                      /\ st.refs[fd'[q][f].pair][peer_endpoint(fd'[q][f].end)] > 0
    BY <1>1, SMTT(30) DEF Sleepers, Asleep, Current
  <2>1. fd'[q] = fd[q] BY <1>2
  <2>2. Asleep(st, q) BY DEF Good, Sleepers
  <2> QED BY <2>1, <2>2 DEF Asleep
<1> QED BY <1>3, <1>4, <1>6, <1>7, <1>8, <1>9

\* kernel_fd_close by a process.
LEMMA CloseStep ==
    ASSUME PtyInv, NEW p \in Process, NEW f \in Fd, kernel_fd_close(p, f)
    PROVE  PtyInv'
<1> DEFINE st == pty_close(Current, fd[p][f].pair, fd[p][f].end)
<1>1. /\ call[p] = InUser /\ state[p] = "alive" /\ fd[p][f].kind = "pty"
      /\ Apply(st) /\ fd' = [fd EXCEPT ![p][f] = Unused] /\ UNCHANGED <<state, call>>
  BY DEF kernel_fd_close, Calling, Running, CloseSlot
<1>2. /\ fd \in Tables /\ Current \in PairStates /\ Good(Current, fd)
      /\ fd[p][f] \in Slots /\ TypeOK /\ CallsOK
  BY CurrentFacts, GoodNow DEF PtyInv, TypeOK, Tables
<1>3. fd[p][f].pair \in Pair /\ fd[p][f].end \in End BY <1>1, <1>2, SlotFacts
<1>4. Exact(st, fd') BY <1>1, <1>2, CloseExact DEF Good
<1>5. WaitersOK(st) BY <1>2, <1>3, CloseWaiters DEF Good
<1>6. ExclusiveReaders => Sleepers(st) BY <1>1, <1>2, CloseWakes DEF Good
<1>7. st \in PairStates
  <2>1. IsClosed(st, Current, fd[p][f].pair, fd[p][f].end) BY <1>2, <1>3, CloseFacts
  <2> HIDE DEF st
  <2> QED BY <2>1 DEF IsClosed
<1>8. fd' \in Tables
  <2>1. OneLess(fd, p, f) BY <1>1, <1>2, HoldersLess
  <2> QED BY <1>1, <2>1 DEF OneLess
<1>9. \A q \in Process \ {p} : fd'[q] = fd[q] BY <1>1, <1>2 DEF Tables
<1> HIDE DEF st
<1>10. Good(st, fd') BY <1>4, <1>5, <1>6 DEF Good
<1>11. state' \in [Process -> {"new", "alive", "finished"}] /\ state'[p] = "alive"
  BY <1>1 DEF PtyInv, TypeOK
<1> QED BY <1>1, <1>7, <1>8, <1>9, <1>10, <1>11, ApplyStep

\* process_mark_finished: all descriptors of an exiting process are closed.
LEMMA FinishStep ==
    ASSUME PtyInv, NEW p \in Process, process_mark_finished(p)
    PROVE  PtyInv'
<1> DEFINE st == kernel_fd_table_destroy(p)
<1>1. /\ call[p] = InUser /\ Apply(st) /\ fd' = [fd EXCEPT ![p] = [f \in Fd |-> Unused]]
      /\ state' = [state EXCEPT ![p] = "finished"] /\ UNCHANGED call
  BY DEF process_mark_finished, Calling
<1>2. fd \in Tables /\ Good(Current, fd) /\ TypeOK /\ CallsOK
  BY GoodNow DEF PtyInv, TypeOK, Tables
<1>3. st \in PairStates /\ Good(st, fd') BY <1>1, <1>2, DestroyGood
<1>4. fd' \in Tables BY <1>1, <1>2, UnusedFacts DEF Tables
<1>5. \A q \in Process \ {p} : fd'[q] = fd[q] /\ state'[q] = state[q]
  BY <1>1, <1>2 DEF Tables, TypeOK
<1>6. /\ state' \in [Process -> {"new", "alive", "finished"}]
      /\ fd'[p] = [f \in Fd |-> Unused]
  BY <1>1, <1>2 DEF Tables, TypeOK
<1> HIDE DEF st
<1> QED BY <1>1, <1>3, <1>4, <1>5, <1>6, ApplyStep

\* pty_write: bytes go to the peer's ring and its waiter is woken.
LEMMA WriteStep ==
    ASSUME PtyInv, NEW p \in Process, NEW f \in Fd, NEW b \in 1..RingCapacity, pty_write(p, f, b)
    PROVE  PtyInv'
<1> DEFINE k == fd[p][f].pair
           e == peer_endpoint(fd[p][f].end)
           room == RingCapacity - queued[k][e]
           more == queued[k][e] + (IF b < room THEN b ELSE room)
           s0 == [Current EXCEPT !.queued[k][e] = more]
           st == wake_endpoint(s0, k, e)
<1>0. fd \in Tables /\ Current \in PairStates /\ Good(Current, fd) /\ TypeOK /\ CallsOK
  BY CurrentFacts, GoodNow DEF PtyInv, TypeOK, Tables
<1>1. /\ call[p] = InUser /\ state[p] = "alive" /\ fd[p][f].kind = "pty"
      /\ refs[k][e] > 0 /\ room > 0 /\ UNCHANGED <<state, fd, call>>
  BY DEF pty_write, Calling, Running, IsPty
<1>2. k \in Pair /\ fd[p][f].end \in End /\ e \in End
  <2>1. fd[p][f] \in Slots BY <1>0 DEF Tables
  <2> QED BY <1>1, <2>1, SlotFacts, PeerFacts
<1>3. Current.queued[k][e] = queued[k][e] /\ queued[k][e] \in 0..RingCapacity /\ RingCapacity \in Nat
  BY <1>0, <1>2, CurrentFacts, PtyAssumption DEF TypeOK
<1>4. more \in 0..RingCapacity BY <1>1, <1>3
<1>5. Apply(st) BY <1>3 DEF pty_write
<1> HIDE DEF k, e, room, more
<1>6. /\ s0 \in PairStates /\ s0.used = used /\ s0.refs = refs /\ s0.waiter = waiter
      /\ s0.woken = {} /\ s0.queued = [queued EXCEPT ![k][e] = more]
  <2> DEFINE Q == [Current.queued EXCEPT ![k][e] = more]
  <2>1. s0 = [Current EXCEPT !.queued = Q]
    <3> HIDE DEF Q
    <3> QED BY <1>0 DEF PairStates, Q
  <2>2. Q \in [Pair -> [End -> 0..RingCapacity]] BY <1>0, <1>4 DEF PairStates
  <2>3. Q = [queued EXCEPT ![k][e] = more] BY <1>0, CurrentFacts
  <2> HIDE DEF Q, s0
  <2>4. s0 \in PairStates BY <1>0, <2>1, <2>2 DEF PairStates
  <2>5. /\ s0.used = Current.used /\ s0.refs = Current.refs /\ s0.waiter = Current.waiter
        /\ s0.woken = Current.woken /\ s0.queued = Q
    BY <1>0, <2>1 DEF PairStates
  <2> QED BY <1>0, <2>3, <2>4, <2>5, CurrentFacts
<1> HIDE DEF s0
<1>7. /\ st \in PairStates /\ st.used = used /\ st.refs = refs
      /\ st.queued = [queued EXCEPT ![k][e] = more]
      /\ st.waiter = [waiter EXCEPT ![k][e] = NoProcess]
      /\ st.woken = {waiter[k][e]} \ {NoProcess}
  BY <1>2, <1>6, WakeFacts
<1> HIDE DEF st
<1>8. \A j \in Pair, x \in End :
         /\ st.queued[j][x] = IF j = k /\ x = e THEN more ELSE queued[j][x]
         /\ st.waiter[j][x] = IF j = k /\ x = e THEN NoProcess ELSE waiter[j][x]
  BY <1>0, <1>2, <1>7 DEF TypeOK
<1>9. used[k]
  <2>1. RefsExact BY DEF PtyInv
  <2> QED BY <1>1, <1>2, <2>1 DEF RefsExact, k, e
<1>10. Exact(st, fd)
  <2>1. \A j \in Pair :
          /\ \A x \in End : refs[j][x] = Cardinality(HoldersIn(fd, j, x))
          /\ ~used[j] => \A x \in End : queued[j][x] = 0 /\ waiter[j][x] = NoProcess
          /\ used[j] <=> \E x \in End : refs[j][x] > 0
    BY <1>0, CurrentFacts DEF Good, Exact
  <2> QED BY <1>7, <1>8, <1>9, <2>1 DEF Exact
<1>11. WaitersOK(st)
  BY <1>0, <1>8, CurrentFacts DEF Good, WaitersOK
<1>12. ExclusiveReaders => Sleepers(st)
  <2> SUFFICES ASSUME ExclusiveReaders, NEW q \in blocked \ st.woken, NEW g \in call[q].fds
               PROVE  /\ st.waiter[fd[q][g].pair][fd[q][g].end] = q
                      /\ st.queued[fd[q][g].pair][fd[q][g].end] = 0
                      /\ st.refs[fd[q][g].pair][peer_endpoint(fd[q][g].end)] > 0
    BY DEF Sleepers, Asleep
  <2>1. q \in Process /\ g \in Fd /\ fd[q][g].kind = "pty" BY <1>0 DEF TypeOK, CallsOK
  <2>2. fd[q][g] \in Slots BY <1>0, <2>1 DEF Tables
  <2>3. fd[q][g].pair \in Pair /\ fd[q][g].end \in End BY <2>1, <2>2, SlotFacts
  <2>4. /\ waiter[fd[q][g].pair][fd[q][g].end] = q
        /\ queued[fd[q][g].pair][fd[q][g].end] = 0
        /\ refs[fd[q][g].pair][peer_endpoint(fd[q][g].end)] > 0
    BY <1>0, CurrentFacts DEF Good, Sleepers, Asleep
  <2>5. ~(fd[q][g].pair = k /\ fd[q][g].end = e)
    <3>1. q # NoProcess BY <2>1, PtyAssumption
    <3> QED BY <1>7, <2>4, <3>1
  <2> QED BY <1>7, <1>8, <2>3, <2>4, <2>5
<1>13. Good(st, fd') BY <1>1, <1>10, <1>11, <1>12 DEF Good
<1>14. /\ state' \in [Process -> {"new", "alive", "finished"}] /\ state'[p] = "alive"
       /\ fd' \in Tables
  BY <1>0, <1>1 DEF TypeOK
<1> QED BY <1>1, <1>5, <1>7, <1>13, <1>14, ApplyStep

\* A pair somebody holds is in use.
LEMMA HeldIsUsed ==
    ASSUME TypeOK, Good(Current, fd), NEW k \in Pair, NEW e \in End,
           NEW y, y \in HoldersIn(fd, k, e)
    PROVE  used[k]
<1>1. refs[k][e] = Cardinality(HoldersIn(fd, k, e)) BY CurrentFacts DEF Good, Exact
<1>2. IsFiniteSet(HoldersIn(fd, k, e)) /\ Cardinality(HoldersIn(fd, k, e)) \in Nat
  BY HoldersFinite
<1>3. Cardinality(HoldersIn(fd, k, e)) # 0 BY <1>2, FS_EmptySet
<1>4. refs[k][e] > 0 BY <1>1, <1>2, <1>3
<1> QED BY <1>4, CurrentFacts DEF Good, Exact

\* Who sleeps has a descriptor of each end it watches, whose pair is in use.
LEMMA SleeperFacts ==
    ASSUME TypeOK, CallsOK, Good(Current, fd), NEW q \in blocked, NEW g \in call[q].fds
    PROVE  /\ q \in Process /\ g \in Fd /\ call[q] # InUser
           /\ fd[q][g].pair \in Pair /\ fd[q][g].end \in End
           /\ used[fd[q][g].pair]
           /\ ExclusiveReaders =>
                 /\ waiter[fd[q][g].pair][fd[q][g].end] = q
                 /\ queued[fd[q][g].pair][fd[q][g].end] = 0
                 /\ refs[fd[q][g].pair][peer_endpoint(fd[q][g].end)] > 0
<1>1. q \in Process /\ call[q] # InUser BY DEF TypeOK, CallsOK
<1>2. g \in Fd /\ fd[q][g].kind = "pty" BY <1>1 DEF CallsOK
<1>3. fd[q][g] \in Slots BY <1>1, <1>2 DEF TypeOK
<1>4. fd[q][g].pair \in Pair /\ fd[q][g].end \in End BY <1>2, <1>3, SlotFacts
<1>5. <<q, g>> \in HoldersIn(fd, fd[q][g].pair, fd[q][g].end) BY <1>1, <1>2 DEF HoldersIn
<1>6. used[fd[q][g].pair] BY <1>4, <1>5, HeldIsUsed
<1>7. ExclusiveReaders =>
         /\ waiter[fd[q][g].pair][fd[q][g].end] = q
         /\ queued[fd[q][g].pair][fd[q][g].end] = 0
         /\ refs[fd[q][g].pair][peer_endpoint(fd[q][g].end)] > 0
  BY CurrentFacts DEF Good, Sleepers, Asleep
<1> QED BY <1>1, <1>2, <1>4, <1>6, <1>7

\* m36_pty_create: a free pair, two descriptors, a reference for each.
LEMMA CreateStep ==
    ASSUME PtyInv, NEW p \in Process, m36_pty_create(p)
    PROVE  PtyInv'
<1>0. fd \in Tables /\ Good(Current, fd) /\ TypeOK /\ CallsOK
  BY GoodNow DEF PtyInv, TypeOK, Tables
<1>1. PICK k \in Pair, f \in Fd, g \in Fd :
         /\ ~used[k] /\ fd[p][f] = Unused /\ fd[p][g] = Unused /\ f # g
         /\ fd' = [fd EXCEPT ![p][f] = PtySlot(k, "master", {"read", "write"}),
                             ![p][g] = PtySlot(k, "slave", {"read", "write"})]
         /\ used' = [used EXCEPT ![k] = TRUE]
         /\ refs' = [refs EXCEPT ![k] = [e \in End |-> 1]]
         /\ queued' = [queued EXCEPT ![k] = [e \in End |-> 0]]
         /\ waiter' = [waiter EXCEPT ![k] = [e \in End |-> NoProcess]]
  BY DEF m36_pty_create, kernel_fd_free_slot
<1>2. call[p] = InUser /\ state[p] = "alive" /\ UNCHANGED <<state, blocked, call>>
  BY DEF m36_pty_create, Calling, Running
<1> DEFINE st == [used |-> used', refs |-> refs', queued |-> queued', waiter |-> waiter',
                  woken |-> {}]
           Kept(j, x) == HoldersIn(fd, j, x)
<1>3. Apply(st) BY <1>2 DEF Apply
<1>4. st \in PairStates
  <2>1. 0..(Cardinality(Process) * FdMax) \subseteq Int OBVIOUS
  <2>2. used' \in [Pair -> BOOLEAN] /\ waiter' \in [Pair -> [End -> Process \cup {NoProcess}]]
    BY <1>0, <1>1 DEF TypeOK
  <2>3. refs' \in [Pair -> [End -> Int]]
    <3>1. refs \in [Pair -> [End -> Int]] BY <1>0, <2>1 DEF TypeOK
    <3>2. [e \in End |-> 1] \in [End -> Int] OBVIOUS
    <3> QED BY <1>1, <3>1, <3>2
  <2>4. queued' \in [Pair -> [End -> 0..RingCapacity]]
    <3>1. [e \in End |-> 0] \in [End -> 0..RingCapacity] BY PtyAssumption
    <3> QED BY <1>0, <1>1, <3>1 DEF TypeOK
  <2> QED BY <2>2, <2>3, <2>4 DEF PairStates
<1>5. \A y \in Process \X Fd :
         fd'[y[1]][y[2]] = IF y = <<p, f>> THEN PtySlot(k, "master", {"read", "write"})
                           ELSE IF y = <<p, g>> THEN PtySlot(k, "slave", {"read", "write"})
                           ELSE fd[y[1]][y[2]]
  BY <1>0, <1>1 DEF Tables
<1>6. /\ fd' \in Tables /\ \A q \in Process \ {p} : fd'[q] = fd[q]
  <2>1. \A e \in End : PtySlot(k, e, {"read", "write"}) \in Slots BY DEF Slots
  <2>2. "master" \in End /\ "slave" \in End BY DEF End
  <2>3. /\ PtySlot(k, "master", {"read", "write"}) \in Slots
        /\ PtySlot(k, "slave", {"read", "write"}) \in Slots
    BY <2>1, <2>2
  <2> HIDE DEF st
  <2> QED BY <1>0, <1>1, <2>3 DEF Tables
<1>7. \A x \in End : HoldersIn(fd, k, x) = {} /\ refs[k][x] = 0
  <2> SUFFICES ASSUME NEW x \in End PROVE HoldersIn(fd, k, x) = {} /\ refs[k][x] = 0 OBVIOUS
  <2>1. refs[k][x] = Cardinality(HoldersIn(fd, k, x)) /\ ~(refs[k][x] > 0)
    BY <1>0, <1>1, CurrentFacts DEF Good, Exact
  <2>2. IsFiniteSet(HoldersIn(fd, k, x)) /\ Cardinality(HoldersIn(fd, k, x)) \in Nat
    BY HoldersFinite
  <2> QED BY <2>1, <2>2, FS_EmptySet
<1>8. \A j \in Pair \ {k}, x \in End : HoldersIn(fd', j, x) = HoldersIn(fd, j, x)
  <2> SUFFICES ASSUME NEW j \in Pair \ {k}, NEW x \in End, NEW y \in Process \X Fd
               PROVE  y \in HoldersIn(fd', j, x) <=> y \in HoldersIn(fd, j, x)
    BY DEF HoldersIn
  <2>1. CASE y = <<p, f>> \/ y = <<p, g>>
    <3>1. fd[y[1]][y[2]] = Unused BY <1>1, <2>1
    <3>2. fd'[y[1]][y[2]].pair = k BY <1>5, <2>1, SlotIs
    <3> QED BY <3>1, <3>2, UnusedFacts DEF HoldersIn
  <2>2. CASE ~(y = <<p, f>> \/ y = <<p, g>>)
    <3>1. fd'[y[1]][y[2]] = fd[y[1]][y[2]] BY <1>5, <2>2
    <3> QED BY <3>1 DEF HoldersIn
  <2> QED BY <2>1, <2>2
<1>9. HoldersIn(fd', k, "master") = {<<p, f>>} /\ HoldersIn(fd', k, "slave") = {<<p, g>>}
  <2>0. /\ "master" \in End /\ "slave" \in End /\ "master" # "slave"
        /\ <<p, f>> \in Process \X Fd /\ <<p, g>> \in Process \X Fd /\ <<p, f>> # <<p, g>>
    BY <1>1 DEF End
  <2>1. ASSUME NEW y \in Process \X Fd, y # <<p, f>>, y # <<p, g>>, NEW x \in End
        PROVE  y \notin HoldersIn(fd', k, x)
    <3>1. fd'[y[1]][y[2]] = fd[y[1]][y[2]] BY <1>5, <2>1
    <3>2. y \notin HoldersIn(fd, k, x) BY <1>7
    <3> QED BY <3>1, <3>2 DEF HoldersIn
  <2>2. /\ fd'[p][f] = PtySlot(k, "master", {"read", "write"})
        /\ fd'[p][g] = PtySlot(k, "slave", {"read", "write"})
    BY <1>5, <2>0
  <2>3. /\ <<p, f>> \in HoldersIn(fd', k, "master") /\ <<p, f>> \notin HoldersIn(fd', k, "slave")
        /\ <<p, g>> \in HoldersIn(fd', k, "slave") /\ <<p, g>> \notin HoldersIn(fd', k, "master")
    BY <2>0, <2>2, SlotIs DEF HoldersIn
  <2>4. \A x : HoldersIn(fd', k, x) \subseteq Process \X Fd BY DEF HoldersIn
  <2> QED BY <2>0, <2>1, <2>3, <2>4
<1>10. Exact(st, fd')
  <2> SUFFICES ASSUME NEW j \in Pair
               PROVE  /\ \A x \in End : refs'[j][x] = Cardinality(HoldersIn(fd', j, x))
                      /\ ~used'[j] => \A x \in End : queued'[j][x] = 0 /\ waiter'[j][x] = NoProcess
                      /\ used'[j] <=> \E x \in End : refs'[j][x] > 0
    BY DEF Exact
  <2>1. CASE j # k
    <3>1. refs'[j] = refs[j] /\ used'[j] = used[j] /\ queued'[j] = queued[j] /\ waiter'[j] = waiter[j]
      BY <1>0, <1>1, <2>1 DEF TypeOK
    <3>2. /\ \A x \in End : refs[j][x] = Cardinality(HoldersIn(fd, j, x))
          /\ ~used[j] => \A x \in End : queued[j][x] = 0 /\ waiter[j][x] = NoProcess
          /\ used[j] <=> \E x \in End : refs[j][x] > 0
      BY <1>0, CurrentFacts DEF Good, Exact
    <3> QED BY <1>8, <2>1, <3>1, <3>2
  <2>2. CASE j = k
    <3>1. used'[k] = TRUE /\ \A x \in End : refs'[k][x] = 1 BY <1>0, <1>1 DEF TypeOK
    <3>2. \A x \in End : Cardinality(HoldersIn(fd', k, x)) = 1 BY <1>9, FS_Singleton DEF End
    <3>3. \E x \in End : refs'[k][x] > 0 BY <3>1 DEF End
    <3> QED BY <2>2, <3>1, <3>2, <3>3
  <2> QED BY <2>1, <2>2
<1>11. \A j \in Pair, x \in End : waiter'[j][x] = waiter[j][x] /\ queued'[j][x] = queued[j][x]
  <2>1. \A x \in End : waiter[k][x] = NoProcess /\ queued[k][x] = 0
    BY <1>0, <1>1, CurrentFacts DEF Good, Exact
  <2> QED BY <1>0, <1>1, <2>1 DEF TypeOK
<1>12. WaitersOK(st) BY <1>0, <1>11, CurrentFacts DEF Good, WaitersOK
<1>13. ExclusiveReaders => Sleepers(st)
  <2> SUFFICES ASSUME ExclusiveReaders, NEW q \in blocked, NEW h \in call[q].fds
               PROVE  /\ waiter'[fd[q][h].pair][fd[q][h].end] = q
                      /\ queued'[fd[q][h].pair][fd[q][h].end] = 0
                      /\ refs'[fd[q][h].pair][peer_endpoint(fd[q][h].end)] > 0
    BY DEF Sleepers, Asleep
  <2>1. /\ fd[q][h].pair \in Pair /\ fd[q][h].end \in End /\ used[fd[q][h].pair]
        /\ waiter[fd[q][h].pair][fd[q][h].end] = q
        /\ queued[fd[q][h].pair][fd[q][h].end] = 0
        /\ refs[fd[q][h].pair][peer_endpoint(fd[q][h].end)] > 0
    BY <1>0, SleeperFacts
  <2>2. refs'[fd[q][h].pair] = refs[fd[q][h].pair] BY <1>0, <1>1, <2>1 DEF TypeOK
  <2> QED BY <1>11, <2>1, <2>2
<1> HIDE DEF st
<1>14. Good(st, fd') BY <1>10, <1>12, <1>13 DEF Good
<1>15. state' \in [Process -> {"new", "alive", "finished"}] /\ state'[p] = "alive"
  BY <1>0, <1>2 DEF TypeOK
<1> QED BY <1>2, <1>3, <1>4, <1>6, <1>14, <1>15, ApplyStep

\* m36_spawn: the child inherits ends, each with a reference.
LEMMA SpawnStep ==
    ASSUME PtyInv, NEW p \in Process, NEW c \in Process, NEW src \in [Stdio -> Fd],
           m36_spawn(p, c, src)
    PROVE  PtyInv'
<1> DEFINE child == [f \in Fd |-> IF f \in Stdio THEN kernel_fd_clone_stdio(p, src[f], f)
                                  ELSE Unused]
           Named(j, x) == {f \in Stdio : /\ child[f].kind = "pty"
                                         /\ child[f].pair = j
                                         /\ child[f].end = x}
           st == [used |-> used, refs |-> refs', queued |-> queued, waiter |-> waiter,
                  woken |-> {}]
<1>0. fd \in Tables /\ Good(Current, fd) /\ TypeOK /\ CallsOK
  BY GoodNow DEF PtyInv, TypeOK, Tables
<1>1. /\ state[c] = "new" /\ \A f \in Stdio : CanClone(p, src[f], f)
      /\ state' = [state EXCEPT ![c] = "alive"] /\ fd' = [fd EXCEPT ![c] = child]
      /\ refs' = [j \in Pair |-> [x \in End |-> refs[j][x] + Cardinality(Named(j, x))]]
      /\ UNCHANGED <<used, queued, waiter, blocked, call>>
  BY DEF m36_spawn
<1>2. call[c] = InUser /\ fd[c] = [f \in Fd |-> Unused] BY <1>0, <1>1 DEF CallsOK
<1>3. Stdio \subseteq Fd /\ IsFiniteSet(Stdio)
  <2>1. Stdio \subseteq Fd BY PtyAssumption DEF Stdio, Fd
  <2>2. 0 \in Int /\ FirstRegular - 1 \in Int BY PtyAssumption
  <2> QED BY <2>1, <2>2, FS_Interval DEF Stdio
<1>c. /\ child = [f \in Fd |-> child[f]]
      /\ \A f \in Stdio : child[f] = kernel_fd_clone_stdio(p, src[f], f)
      /\ \A f \in Fd \ Stdio : child[f] = Unused
  BY <1>3
<1> HIDE DEF child
<1>4. \A f \in Stdio : /\ child[f] \in Slots
                       /\ child[f].kind = "pty" =>
                             /\ fd[p][src[f]].kind = "pty" /\ src[f] \in Fd
                             /\ child[f].pair = fd[p][src[f]].pair
                             /\ child[f].end = fd[p][src[f]].end
  <2> SUFFICES ASSUME NEW f \in Stdio
               PROVE  /\ child[f] \in Slots
                      /\ child[f].kind = "pty" =>
                            /\ fd[p][src[f]].kind = "pty" /\ src[f] \in Fd
                            /\ child[f].pair = fd[p][src[f]].pair
                            /\ child[f].end = fd[p][src[f]].end
    OBVIOUS
  <2>1. src[f] \in Fd /\ fd[p][src[f]] \in Slots /\ child[f] = kernel_fd_clone_stdio(p, src[f], f)
    BY <1>0, <1>c DEF Tables
  <2>2. CASE fd[p][src[f]].kind = "pty"
    <3>1. fd[p][src[f]].pair \in Pair /\ fd[p][src[f]].end \in End BY <2>1, <2>2, SlotFacts
    <3>2. child[f] = PtySlot(fd[p][src[f]].pair, fd[p][src[f]].end, {Required(f)})
      BY <2>1, <2>2 DEF kernel_fd_clone_stdio
    <3>3. {Required(f)} \in SUBSET {"read", "write"} BY DEF Required
    <3>4. child[f] \in Slots
      BY <3>1, <3>2, <3>3 DEF Slots
    <3>5. /\ child[f].pair = fd[p][src[f]].pair /\ child[f].end = fd[p][src[f]].end
      BY <3>2 DEF PtySlot
    <3> QED BY <2>1, <2>2, <3>4, <3>5
  <2>3. CASE fd[p][src[f]].kind # "pty"
    <3>1. child[f] = Console(f) BY <2>1, <2>3 DEF kernel_fd_clone_stdio
    <3>2. Console(f) \in Slots /\ Console(f).kind # "pty" BY DEF Slots, Console
    <3> QED BY <3>1, <3>2
  <2> QED BY <2>2, <2>3
<1>t. \A f \in Stdio : child[f] \in Slots BY <1>4
<1>5. child \in [Fd -> Slots] /\ \A f \in Fd \ Stdio : child[f] = Unused
  <2>1. \A f \in Fd \ Stdio : child[f] = Unused BY <1>c
  <2>2. child = [f \in Fd |-> child[f]] BY <1>c
  <2>3. ASSUME NEW f \in Fd PROVE child[f] \in Slots
    <3>1. CASE f \in Stdio BY <1>t, <3>1
    <3>2. CASE f \notin Stdio BY <2>1, <3>2, UnusedFacts
    <3> QED BY <3>1, <3>2
  <2>4. child \in [Fd -> Slots] BY <2>2, <2>3
  <2> QED BY <2>1, <2>4
<1>6. fd' \in Tables /\ fd'[c] = child /\ \A q \in Process \ {c} : fd'[q] = fd[q]
  BY <1>0, <1>1, <1>5 DEF Tables
<1>7. \A j, x : /\ HoldersIn(fd', j, x) = HoldersIn(fd, j, x) \cup ({c} \X Named(j, x))
                /\ HoldersIn(fd, j, x) \cap ({c} \X Named(j, x)) = {}
  <2> SUFFICES ASSUME NEW j, NEW x
               PROVE  /\ HoldersIn(fd', j, x) = HoldersIn(fd, j, x) \cup ({c} \X Named(j, x))
                      /\ HoldersIn(fd, j, x) \cap ({c} \X Named(j, x)) = {}
    OBVIOUS
  <2>1. \A y \in HoldersIn(fd, j, x) : y[1] # c BY <1>2, UnusedFacts DEF HoldersIn
  <2>2. \A y \in Process \X Fd : y[1] # c => (y \in HoldersIn(fd', j, x) <=> y \in HoldersIn(fd, j, x))
    BY <1>6 DEF HoldersIn
  <2>3. \A y \in Process \X Fd : y[1] = c => (y \in HoldersIn(fd', j, x) <=> y[2] \in Named(j, x))
    BY <1>5, <1>6, UnusedFacts DEF HoldersIn
  <2>4. HoldersIn(fd', j, x) \subseteq Process \X Fd /\ HoldersIn(fd, j, x) \subseteq Process \X Fd
    BY DEF HoldersIn
  <2>5. \A y \in {c} \X Named(j, x) : y \in Process \X Fd /\ y[1] = c /\ y[2] \in Named(j, x)
    BY <1>3
  <2>6. \A y \in Process \X Fd : y[1] = c /\ y[2] \in Named(j, x) => y \in {c} \X Named(j, x)
    OBVIOUS
  <2> HIDE DEF Named
  <2> QED BY <2>1, <2>2, <2>3, <2>4, <2>5, <2>6
<1>8. \A j, x : IsFiniteSet(Named(j, x)) /\ Cardinality(Named(j, x)) \in Nat
  <2> SUFFICES ASSUME NEW j, NEW x
               PROVE  IsFiniteSet(Named(j, x)) /\ Cardinality(Named(j, x)) \in Nat
    OBVIOUS
  <2>1. Named(j, x) \in SUBSET Stdio OBVIOUS
  <2> HIDE DEF Named
  <2>2. IsFiniteSet(Named(j, x)) BY <1>3, <2>1, FS_Subset
  <2> QED BY <2>2, FS_CardinalityType
<1>9. \A j \in Pair, x \in End :
         /\ refs[j][x] = Cardinality(HoldersIn(fd, j, x)) /\ refs[j][x] \in Nat
         /\ refs'[j][x] = refs[j][x] + Cardinality(Named(j, x))
         /\ Named(j, x) # {} => refs[j][x] > 0
  <2> SUFFICES ASSUME NEW j \in Pair, NEW x \in End
               PROVE  /\ refs[j][x] = Cardinality(HoldersIn(fd, j, x)) /\ refs[j][x] \in Nat
                      /\ refs'[j][x] = refs[j][x] + Cardinality(Named(j, x))
                      /\ Named(j, x) # {} => refs[j][x] > 0
    OBVIOUS
  <2>1. refs[j][x] = Cardinality(HoldersIn(fd, j, x)) BY <1>0, CurrentFacts DEF Good, Exact
  <2>2. refs[j][x] \in Nat BY <2>1, HoldersFinite
  <2>3. refs'[j][x] = refs[j][x] + Cardinality(Named(j, x))
    <3> HIDE DEF Named
    <3> QED BY <1>1
  <2>4. ASSUME Named(j, x) # {} PROVE refs[j][x] > 0
    <3>1. PICK f \in Stdio : child[f].kind = "pty" /\ child[f].pair = j /\ child[f].end = x
      BY <2>4
    <3>2. <<p, src[f]>> \in HoldersIn(fd, j, x)
      <4>1. /\ fd[p][src[f]].kind = "pty" /\ src[f] \in Fd
            /\ fd[p][src[f]].pair = j /\ fd[p][src[f]].end = x
        <5> HIDE DEF Named
        <5> QED BY <1>4, <3>1
      <4> QED BY <4>1 DEF HoldersIn
    <3>3. IsFiniteSet(HoldersIn(fd, j, x)) BY HoldersFinite
    <3>4. Cardinality(HoldersIn(fd, j, x)) # 0 BY <3>2, <3>3, FS_EmptySet
    <3> QED BY <2>1, <2>2, <3>4
  <2> QED BY <2>1, <2>2, <2>3, <2>4
<1>10. \A j \in Pair, x \in End : refs'[j][x] = Cardinality(HoldersIn(fd', j, x))
  <2> SUFFICES ASSUME NEW j \in Pair, NEW x \in End
               PROVE  refs'[j][x] = Cardinality(HoldersIn(fd', j, x))
    OBVIOUS
  <2> DEFINE A == HoldersIn(fd, j, x)
             B == {c} \X Named(j, x)
  <2>1. IsFiniteSet(A) BY HoldersFinite
  <2>2. IsFiniteSet(B) /\ Cardinality(B) = Cardinality(Named(j, x))
    <3>1. IsFiniteSet({c}) /\ Cardinality({c}) = 1 BY FS_Singleton
    <3>2. IsFiniteSet(Named(j, x)) /\ Cardinality(Named(j, x)) \in Nat BY <1>8, ZenonT(60)
    <3> HIDE DEF Named
    <3>3. IsFiniteSet(B) /\ Cardinality(B) = Cardinality({c}) * Cardinality(Named(j, x))
      BY <3>1, <3>2, FS_Product
    <3> QED BY <3>1, <3>2, <3>3
  <2>3. HoldersIn(fd', j, x) = A \cup B /\ A \cap B = {} BY <1>7
  <2> HIDE DEF A, B, Named
  <2>4. Cardinality(A \cup B) = Cardinality(A) + Cardinality(B) - Cardinality(A \cap B)
    BY <2>1, <2>2, FS_Union
  <2>5. Cardinality(A \cap B) = 0 BY <2>3, FS_EmptySet
  <2>6. Cardinality(A) \in Nat /\ Cardinality(B) \in Nat BY <2>1, <2>2, FS_CardinalityType
  <2> QED BY <1>9, <2>2, <2>3, <2>4, <2>5, <2>6 DEF A
<1>11. \A j \in Pair : (\E x \in End : refs'[j][x] > 0) <=> (\E x \in End : refs[j][x] > 0)
  <2> SUFFICES ASSUME NEW j \in Pair, NEW x \in End
               PROVE  refs'[j][x] > 0 <=> refs[j][x] > 0
    OBVIOUS
  <2>1. Cardinality(Named(j, x)) \in Nat BY <1>8, ZenonT(60)
  <2>2. Named(j, x) = {} => Cardinality(Named(j, x)) = 0
    <3> HIDE DEF Named
    <3> QED BY FS_EmptySet
  <2> HIDE DEF Named
  <2> QED BY <1>9, <2>1, <2>2
<1>12. Exact(st, fd')
  <2>1. \A j \in Pair :
          /\ ~used[j] => \A x \in End : queued[j][x] = 0 /\ waiter[j][x] = NoProcess
          /\ used[j] <=> \E x \in End : refs[j][x] > 0
    BY <1>0, CurrentFacts DEF Good, Exact
  <2> HIDE DEF Named
  <2> QED BY <1>10, <1>11, <2>1 DEF Exact
<1>13. WaitersOK(st)
  <2> HIDE DEF Named
  <2> QED BY <1>0, CurrentFacts DEF Good, WaitersOK
<1>14. ExclusiveReaders => Sleepers(st)
  <2> SUFFICES ASSUME ExclusiveReaders, NEW q \in blocked, NEW h \in call[q].fds
               PROVE  /\ waiter[fd[q][h].pair][fd[q][h].end] = q
                      /\ queued[fd[q][h].pair][fd[q][h].end] = 0
                      /\ refs'[fd[q][h].pair][peer_endpoint(fd[q][h].end)] > 0
    BY DEF Sleepers, Asleep
  <2>1. /\ fd[q][h].pair \in Pair /\ fd[q][h].end \in End
        /\ waiter[fd[q][h].pair][fd[q][h].end] = q
        /\ queued[fd[q][h].pair][fd[q][h].end] = 0
        /\ refs[fd[q][h].pair][peer_endpoint(fd[q][h].end)] > 0
    BY <1>0, SleeperFacts
  <2>2. peer_endpoint(fd[q][h].end) \in End BY <2>1, PeerFacts
  <2>3. \A j \in Pair, x \in End : refs[j][x] > 0 => refs'[j][x] > 0
    <3> HIDE DEF Named
    <3> QED BY <1>8, <1>9
  <2> QED BY <2>1, <2>2, <2>3
<1>15. st \in PairStates
  <2>1. refs' \in [Pair -> [End -> Int]]
    <3>1. \A j \in Pair, x \in End : refs[j][x] + Cardinality(Named(j, x)) \in Int
      <4> HIDE DEF Named
      <4> QED BY <1>8, <1>9
    <3> HIDE DEF Named
    <3> QED BY <1>1, <3>1
  <2> QED BY <1>0, <2>1 DEF TypeOK, PairStates
<1>16. Apply(st)
  <2> HIDE DEF Named
  <2> QED BY <1>1 DEF Apply
<1> HIDE DEF st
<1>17. Good(st, fd') BY <1>12, <1>13, <1>14 DEF Good
<1>18. /\ state' \in [Process -> {"new", "alive", "finished"}] /\ state'[c] = "alive"
       /\ \A q \in Process \ {c} : state'[q] = state[q]
  BY <1>0, <1>1 DEF TypeOK
<1> QED BY <1>1, <1>2, <1>6, <1>15, <1>16, <1>17, <1>18, ApplyStep

----------------------------------------------------------------------------
(* Blocking calls                                                          *)

\* The ends descriptors F of p name.
EndsOf(p, F) == {<<fd[p][f].pair, fd[p][f].end>> : f \in F}

\* The waiter of an end once p has withdrawn its own watches.
Left(p, j, x) == IF waiter[j][x] = p THEN NoProcess ELSE waiter[j][x]

\* A turn of a blocking call of p over descriptors F leaves p in the call c, and
\* p, nobody or who was there before as the waiter of an end.
Turn(p, F, c) ==
    /\ UNCHANGED <<state, fd, used, refs>>
    /\ queued' \in [Pair -> [End -> 0..RingCapacity]]
    /\ \A j \in Pair, x \in End : queued'[j][x] <= queued[j][x]
    /\ call' = [call EXCEPT ![p] = c]
    /\ waiter' \in [Pair -> [End -> Process \cup {NoProcess}]]
    /\ \/ c = InUser /\ blocked' = blocked
       \/ /\ c \in [op : {"read", "event"}, fds : {F}]
          /\ c.op = "read" => \E f \in Fd : F = {f}
          /\ \A f \in F : ~pty_poll(p, f)
          /\ blocked' \in {blocked, blocked \cup {p}}
    /\ \A j \in Pair, x \in End :
          \/ waiter'[j][x] = Left(p, j, x) /\ (<<j, x>> \in EndsOf(p, F) => c = InUser)
          \/ <<j, x>> \in EndsOf(p, F)
               /\ waiter'[j][x] = IF c = InUser THEN NoProcess ELSE p

\* The ends a process has a descriptor of.
LEMMA EndFacts ==
    ASSUME TypeOK, Good(Current, fd), NEW p \in Process, NEW f \in Fd, fd[p][f].kind = "pty"
    PROVE  fd[p][f].pair \in Pair /\ fd[p][f].end \in End /\ used[fd[p][f].pair]
<1>1. fd[p][f] \in Slots BY DEF TypeOK
<1>2. fd[p][f].pair \in Pair /\ fd[p][f].end \in End BY <1>1, SlotFacts
<1>3. <<p, f>> \in HoldersIn(fd, fd[p][f].pair, fd[p][f].end) BY DEF HoldersIn
<1> QED BY <1>2, <1>3, HeldIsUsed

\* A turn keeps the invariant, whoever else waits.
LEMMA TurnKeeps ==
    ASSUME PtyInv, NEW p \in Process, Running(p), NEW F \in SUBSET Fd,
           \A f \in F : fd[p][f].kind = "pty",
           ExclusiveReaders =>
               \A q \in Process \ {p} : EndsOf(p, F) \cap Watched(q) = {},
           NEW c, Turn(p, F, c)
    PROVE  PtyInv'
<1>0. TypeOK /\ CallsOK /\ Good(Current, fd) /\ RefsExact /\ WaiterIsWaiting
      /\ state[p] = "alive" /\ p \notin blocked /\ p # NoProcess
  BY GoodNow, PtyAssumption DEF PtyInv, Running
<1>1. call' = [call EXCEPT ![p] = c] /\ UNCHANGED <<state, fd, used, refs>> BY DEF Turn
<1>2. \A f \in F : fd[p][f].pair \in Pair /\ fd[p][f].end \in End /\ used[fd[p][f].pair]
  BY <1>0, EndFacts
<1>3. /\ blocked' \subseteq blocked \cup {p} /\ (p \in blocked' => c # InUser)
      /\ c # InUser => c.fds = F /\ \A f \in F : ~pty_poll(p, f)
  <2>1. CASE c = InUser /\ blocked' = blocked BY <1>0, <2>1
  <2>2. CASE /\ c \in [op : {"read", "event"}, fds : {F}]
             /\ \A f \in F : ~pty_poll(p, f)
             /\ blocked' \in {blocked, blocked \cup {p}}
    <3>1. c.op # "user" /\ c.fds = F BY <2>2
    <3>2. c # InUser BY <3>1 DEF InUser
    <3> QED BY <2>2, <3>1, <3>2
  <2> QED BY <2>1, <2>2 DEF Turn
<1>4. call'[p] = c /\ \A q \in Process \ {p} : call'[q] = call[q] BY <1>0, <1>1 DEF CallsOK
<1>5. /\ Watched(p)' = IF c = InUser THEN {} ELSE EndsOf(p, F)
      /\ \A q \in Process \ {p} : Watched(q)' = Watched(q)
  BY <1>1, <1>3, <1>4 DEF Watched, EndsOf
<1>6. TypeOK'
  <2>1. blocked' \subseteq {q \in Process : state'[q] = "alive"} BY <1>0, <1>1, <1>3 DEF TypeOK
  <2> QED BY <1>0, <1>1, <2>1 DEF TypeOK, Turn
<1>7. CallsOK'
  <2>1. DOMAIN call' = Process BY <1>0, <1>1 DEF CallsOK
  <2>2. ASSUME NEW q \in Process
        PROVE  \/ call'[q] = InUser
               \/ /\ call'[q] \in [op : {"read", "event"}, fds : SUBSET Fd]
                  /\ state[q] = "alive"
                  /\ \A f \in call'[q].fds : fd[q][f].kind = "pty"
                  /\ call'[q].op = "read" => \E f \in Fd : call'[q].fds = {f}
    <3>1. CASE q # p BY <1>0, <1>4, <3>1 DEF CallsOK
    <3>2. CASE q = p BY <1>0, <1>4, <3>2 DEF Turn
    <3> QED BY <3>1, <3>2
  <2>3. \A q \in blocked' : call'[q] # InUser BY <1>0, <1>3, <1>4 DEF CallsOK, TypeOK
  <2> QED BY <1>0, <1>1, <2>1, <2>2, <2>3 DEF CallsOK
<1>8. \A j \in Pair, x \in End : <<j, x>> \in EndsOf(p, F) => used[j]
  BY <1>2 DEF EndsOf
<1>9. RefsExact'
  <2>1. \A k, e : Holders(k, e)' = Holders(k, e) BY <1>1 DEF Holders
  <2>2. \A j \in Pair, x \in End : ~used[j] => queued'[j][x] = 0 /\ waiter'[j][x] = NoProcess
    <3> SUFFICES ASSUME NEW j \in Pair, NEW x \in End, ~used[j]
                 PROVE  queued'[j][x] = 0 /\ waiter'[j][x] = NoProcess
      OBVIOUS
    <3>1. queued[j][x] = 0 /\ waiter[j][x] = NoProcess BY <1>0 DEF RefsExact
    <3>2. queued'[j][x] \in 0..RingCapacity /\ queued'[j][x] <= queued[j][x] BY DEF Turn
    <3>3. waiter'[j][x] = Left(p, j, x) BY <1>8 DEF Turn
    <3> QED BY <3>1, <3>2, <3>3, PtyAssumption DEF Left
  <2> QED BY <1>0, <1>1, <2>1, <2>2 DEF RefsExact
<1>10. WaiterIsWaiting'
  <2> SUFFICES ASSUME NEW j \in Pair, NEW x \in End, waiter'[j][x] # NoProcess,
                      NEW w, w = waiter'[j][x]
               PROVE  <<j, x>> \in Watched(w)'
    BY DEF WaiterIsWaiting
  <2>1. CASE w = Left(p, j, x)
    <3>1. waiter[j][x] # p /\ w = waiter[j][x] BY <2>1 DEF Left
    <3>2. w \in Process \ {p} BY <1>0, <3>1 DEF TypeOK
    <3>3. <<j, x>> \in Watched(w) BY <1>0, <3>1 DEF WaiterIsWaiting
    <3> QED BY <1>5, <3>2, <3>3
  <2>2. CASE <<j, x>> \in EndsOf(p, F) /\ w = p /\ c # InUser BY <1>5, <2>2
  <2> QED BY <2>1, <2>2 DEF Turn
<1>11. ExclusiveReaders => Exclusive'
  <2> SUFFICES ASSUME ExclusiveReaders, NEW q \in Process, NEW r \in Process, q # r
               PROVE  Watched(q)' \cap Watched(r)' = {}
    BY DEF Exclusive
  <2>1. Watched(q) \cap Watched(r) = {} BY DEF PtyInv, Exclusive
  <2> QED BY <1>5, <2>1
<1>12. ExclusiveReaders => Sleepers(Current)'
  <2> SUFFICES ASSUME ExclusiveReaders, NEW q \in blocked', NEW f \in call'[q].fds
               PROVE  /\ waiter'[fd[q][f].pair][fd[q][f].end] = q
                      /\ queued'[fd[q][f].pair][fd[q][f].end] = 0
                      /\ refs[fd[q][f].pair][peer_endpoint(fd[q][f].end)] > 0
    BY <1>1 DEF Sleepers, Asleep, Current
  <2> DEFINE j == fd[q][f].pair
             x == fd[q][f].end
  <2>1. CASE q # p
    <3>1. q \in blocked /\ q \in Process /\ f \in call[q].fds
      BY <1>0, <1>3, <1>4, <2>1 DEF TypeOK
    <3>2. /\ j \in Pair /\ x \in End /\ call[q] # InUser
          /\ waiter[j][x] = q /\ queued[j][x] = 0 /\ refs[j][peer_endpoint(x)] > 0
      BY <1>0, <3>1, SleeperFacts
    <3>3. <<j, x>> \in Watched(q) BY <3>1, <3>2 DEF Watched
    <3>4. <<j, x>> \notin EndsOf(p, F) BY <2>1, <3>1, <3>3
    <3>5. /\ queued'[j][x] \in 0..RingCapacity /\ queued'[j][x] <= queued[j][x]
          /\ waiter'[j][x] = Left(p, j, x)
      BY <3>2, <3>4 DEF Turn
    <3>6. queued'[j][x] = 0 BY <3>2, <3>5, PtyAssumption
    <3> QED BY <2>1, <3>2, <3>5, <3>6 DEF Left
  <2>2. CASE q = p
    <3>1. c # InUser /\ f \in F /\ ~pty_poll(p, f) BY <1>3, <1>4, <2>2
    <3>2. j \in Pair /\ x \in End BY <1>2, <2>2, <3>1
    <3>3. queued[j][x] \in 0..RingCapacity /\ queued'[j][x] \in 0..RingCapacity
          /\ queued'[j][x] <= queued[j][x]
      BY <1>0, <3>2 DEF TypeOK, Turn
    <3>4. refs[j][peer_endpoint(x)] \in 0..(Cardinality(Process) * FdMax)
      BY <1>0, <3>2, PeerFacts DEF TypeOK
    <3>5. ~(queued[j][x] > 0) /\ refs[j][peer_endpoint(x)] # 0 BY <2>2, <3>1 DEF pty_poll
    <3>6. queued'[j][x] = 0 BY <3>3, <3>5, PtyAssumption
    <3>7. refs[j][peer_endpoint(x)] > 0
      <4>1. Cardinality(Process) * FdMax \in Int
        BY PtyAssumption, FS_CardinalityType
      <4> QED BY <3>4, <3>5, <4>1
    <3>8. <<j, x>> \in EndsOf(p, F) BY <2>2, <3>1 DEF EndsOf
    <3>9. waiter'[j][x] = p BY <3>1, <3>2, <3>8 DEF Turn
    <3> QED BY <2>2, <3>6, <3>7, <3>9
  <2> QED BY <2>1, <2>2
<1> QED BY <1>6, <1>7, <1>9, <1>10, <1>11, <1>12 DEF PtyInv

\* What a process withdraws are all the watches it has.
LEMMA CancelledIs ==
    ASSUME TypeOK, WaiterIsWaiting, NEW p \in Process
    PROVE  /\ Cancelled(p) \in [Pair -> [End -> Process \cup {NoProcess}]]
           /\ \A j \in Pair, x \in End : Cancelled(p)[j][x] = Left(p, j, x)
<1>1. p # NoProcess BY PtyAssumption
<1> QED BY <1>1 DEF TypeOK, WaiterIsWaiting, Cancelled, Left

\* Arming puts the process at the ends it watches and takes it from all others.
LEMMA ArmedIs ==
    ASSUME TypeOK, WaiterIsWaiting, NEW p \in Process, NEW F
    PROVE  /\ Armed(p, F) \in [Pair -> [End -> Process \cup {NoProcess}]]
           /\ \A j \in Pair, x \in End :
                 Armed(p, F)[j][x] = IF <<j, x>> \in EndsOf(p, F) THEN p ELSE Left(p, j, x)
<1>1. \A j, x : (<<j, x>> \in EndsOf(p, F)) <=> \E f \in F : fd[p][f].pair = j /\ fd[p][f].end = x
  BY DEF EndsOf
<1> QED BY <1>1, CancelledIs DEF Armed

\* Returning from the call without having changed a ring, and going to wait.
LEMMA ReturnTurn ==
    ASSUME PtyInv, NEW p \in Process, NEW F \in SUBSET Fd, NEW r, Return(p, r),
           UNCHANGED <<state, fd, used, refs>>,
           queued' \in [Pair -> [End -> 0..RingCapacity]],
           \A j \in Pair, x \in End : queued'[j][x] <= queued[j][x]
    PROVE  Turn(p, F, InUser)
<1>1. TypeOK /\ WaiterIsWaiting BY DEF PtyInv
<1> QED BY <1>1, CancelledIs DEF Return, Turn

\* A pass that found nothing and arms the waiters, whether or not it sleeps, keeps the
\* invariant.
LEMMA WaitTurn ==
    ASSUME PtyInv, NEW p \in Process, NEW F \in SUBSET Fd, NEW c,
           waiter' = Armed(p, F), call' = [call EXCEPT ![p] = c],
           c \in [op : {"read", "event"}, fds : {F}],
           c.op = "read" => \E f \in Fd : F = {f},
           \A f \in F : ~pty_poll(p, f),
           blocked' \in {blocked, blocked \cup {p}},
           UNCHANGED <<state, fd, used, refs, queued>>
    PROVE  Turn(p, F, c)
<1>1. TypeOK /\ WaiterIsWaiting BY DEF PtyInv
<1>2. c # InUser
  <2>1. c.op # "user" OBVIOUS
  <2> QED BY <2>1 DEF InUser
<1>3. \A j \in Pair, x \in End : queued'[j][x] <= queued[j][x]
  BY <1>1, PtyAssumption DEF TypeOK
<1>4. queued' \in [Pair -> [End -> 0..RingCapacity]] BY <1>1 DEF TypeOK
<1> QED BY <1>1, <1>2, <1>3, <1>4, ArmedIs DEF Turn

\* A pass of the loop of READ.
LEMMA ReadTurnKeeps ==
    ASSUME PtyInv, NEW p \in Process, Running(p), NEW f \in Fd, fd[p][f].kind = "pty",
           ExclusiveReaders =>
               \A q \in Process \ {p} : EndsOf(p, {f}) \cap Watched(q) = {},
           ReadTurn(p, f)
    PROVE  PtyInv'
<1> DEFINE k == fd[p][f].pair
           e == fd[p][f].end
<1>1. TypeOK /\ WaiterIsWaiting /\ Good(Current, fd) BY GoodNow DEF PtyInv
<1>2. k \in Pair /\ e \in End BY <1>1, EndFacts
<1>3. {f} \in SUBSET Fd /\ UNCHANGED <<state, fd, used, refs>> BY DEF ReadTurn
<1>4. <<k, e>> \in EndsOf(p, {f}) BY DEF EndsOf
<1>5. \A j \in Pair, x \in End : queued[j][x] \in 0..RingCapacity BY <1>1 DEF TypeOK
<1>6. ASSUME NEW n \in 1..queued[k][e], queued' = [queued EXCEPT ![k][e] = @ - n],
             Return(p, "read")
      PROVE  Turn(p, {f}, InUser)
  <2> HIDE DEF k, e
  <2>1. queued[k][e] - n \in 0..RingCapacity /\ queued[k][e] - n <= queued[k][e]
    BY <1>2, <1>5, PtyAssumption
  <2>2. \A j \in Pair, x \in End :
           queued'[j][x] = IF j = k /\ x = e THEN queued[k][e] - n ELSE queued[j][x]
    BY <1>1, <1>2, <1>6 DEF TypeOK
  <2>3. queued' \in [Pair -> [End -> 0..RingCapacity]]
    BY <1>1, <1>2, <1>6, <2>1 DEF TypeOK
  <2>4. \A j \in Pair, x \in End : queued'[j][x] <= queued[j][x]
    BY <1>5, <2>1, <2>2, PtyAssumption
  <2> QED BY <1>3, <1>6, <2>3, <2>4, ReturnTurn
<1>7. UNCHANGED queued =>
         /\ queued' \in [Pair -> [End -> 0..RingCapacity]]
         /\ \A j \in Pair, x \in End : queued'[j][x] <= queued[j][x]
  BY <1>1, <1>5, PtyAssumption DEF TypeOK
<1>8. ASSUME UNCHANGED queued, Return(p, "eof") PROVE Turn(p, {f}, InUser)
  BY <1>3, <1>7, <1>8, ReturnTurn
<1>9. ASSUME queued[k][e] = 0, refs[k][peer_endpoint(e)] # 0, UNCHANGED queued,
             waiter' = Armed(p, {f}), blocked' = blocked \cup {p},
             call' = [call EXCEPT ![p] = [op |-> "read", fds |-> {f}]]
      PROVE  Turn(p, {f}, [op |-> "read", fds |-> {f}])
  <2>1. ~pty_poll(p, f) BY <1>9 DEF pty_poll
  <2>2. [op |-> "read", fds |-> {f}] \in [op : {"read", "event"}, fds : {{f}}] OBVIOUS
  <2> QED BY <1>3, <1>9, <2>1, <2>2, WaitTurn
<1>10. ASSUME UNCHANGED <<queued, blocked>>,
              waiter' = [Cancelled(p) EXCEPT ![k][e] = NoProcess],
              call' = [call EXCEPT ![p] = InUser]
       PROVE  Turn(p, {f}, InUser)
  <2> HIDE DEF k, e
  <2>1. /\ waiter' \in [Pair -> [End -> Process \cup {NoProcess}]]
        /\ \A j \in Pair, x \in End :
              waiter'[j][x] = IF j = k /\ x = e THEN NoProcess ELSE Left(p, j, x)
    BY <1>1, <1>2, <1>10, CancelledIs
  <2> QED BY <1>3, <1>4, <1>7, <1>10, <2>1 DEF Turn
<1>11. \E c : Turn(p, {f}, c) BY <1>6, <1>8, <1>9, <1>10 DEF ReadTurn
<1> QED BY <1>3, <1>11, TurnKeeps

\* A pass of the loop of EVENT_WAIT.
LEMMA EventTurnKeeps ==
    ASSUME PtyInv, NEW p \in Process, Running(p), NEW F \in SUBSET Fd,
           \A f \in F : fd[p][f].kind = "pty",
           ExclusiveReaders =>
               \A q \in Process \ {p} : EndsOf(p, F) \cap Watched(q) = {},
           EventTurn(p, F)
    PROVE  PtyInv'
<1>1. TypeOK BY DEF PtyInv
<1>2. UNCHANGED <<state, fd, used, refs, queued>> BY DEF EventTurn
<1>3. ASSUME Return(p, "ready") PROVE Turn(p, F, InUser)
  <2>1. /\ queued' \in [Pair -> [End -> 0..RingCapacity]]
        /\ \A j \in Pair, x \in End : queued'[j][x] <= queued[j][x]
    BY <1>1, <1>2, PtyAssumption DEF TypeOK
  <2> QED BY <1>2, <1>3, <2>1, ReturnTurn
<1>4. ASSUME \A f \in F : ~pty_poll(p, f), waiter' = Armed(p, F),
             call' = [call EXCEPT ![p] = [op |-> "event", fds |-> F]],
             blocked' \in {blocked, blocked \cup {p}}
      PROVE  Turn(p, F, [op |-> "event", fds |-> F])
  <2>1. [op |-> "event", fds |-> F] \in [op : {"read", "event"}, fds : {F}] OBVIOUS
  <2>2. [op |-> "event", fds |-> F].op # "read" OBVIOUS
  <2> QED BY <1>2, <1>4, <2>1, <2>2, WaitTurn
<1>5. \E c : Turn(p, F, c) BY <1>3, <1>4 DEF EventTurn
<1> QED BY <1>5, TurnKeeps

\* The process that is first to wait somewhere.
LEMMA ReadStep ==
    ASSUME PtyInv, NEW p \in Process, NEW f \in Fd, syscall_fd_read(p, f)
    PROVE  PtyInv'
<1>1. /\ Running(p) /\ fd[p][f].kind = "pty" /\ ReadTurn(p, f) /\ MayWaitAt(p, {f})
  BY DEF syscall_fd_read, Calling, IsPty
<1>2. ExclusiveReaders => \A q \in Process \ {p} : EndsOf(p, {f}) \cap Watched(q) = {}
  BY <1>1 DEF MayWaitAt, EndsOf
<1> QED BY <1>1, <1>2, ReadTurnKeeps

\* EVENT_WAIT is called on a set of descriptors.
LEMMA WaitStep ==
    ASSUME PtyInv, NEW p \in Process, NEW F \in SUBSET Fd, event_wait(p, F)
    PROVE  PtyInv'
<1>1. /\ Running(p) /\ EventTurn(p, F) /\ MayWaitAt(p, F)
      /\ \A f \in F : fd[p][f].kind = "pty"
  BY DEF event_wait, Calling, IsPty
<1>2. ExclusiveReaders => \A q \in Process \ {p} : EndsOf(p, F) \cap Watched(q) = {}
  BY <1>1 DEF MayWaitAt, EndsOf
<1> QED BY <1>1, <1>2, EventTurnKeeps

\* A blocked call continues after it was woken.
LEMMA ResumeStep ==
    ASSUME PtyInv, NEW p \in Process, ResumeCall(p)
    PROVE  PtyInv'
<1> DEFINE F == call[p].fds
<1>1. Running(p) /\ call[p] # InUser BY DEF ResumeCall
<1>2. F \in SUBSET Fd /\ \A f \in F : fd[p][f].kind = "pty" BY <1>1 DEF PtyInv, CallsOK
<1>3. Watched(p) = EndsOf(p, F) BY <1>1 DEF Watched, EndsOf
<1>4. ExclusiveReaders => \A q \in Process \ {p} : EndsOf(p, F) \cap Watched(q) = {}
  BY <1>3 DEF PtyInv, Exclusive
<1>5. CASE call[p].op = "read"
  <2>1. PICK f \in F : ReadTurn(p, f) BY <1>5 DEF ResumeCall
  <2>2. EndsOf(p, {f}) \subseteq EndsOf(p, F) BY DEF EndsOf
  <2>3. f \in Fd /\ fd[p][f].kind = "pty" BY <1>2
  <2>4. ExclusiveReaders => \A q \in Process \ {p} : EndsOf(p, {f}) \cap Watched(q) = {}
    BY <1>4, <2>2
  <2> QED BY <1>1, <2>1, <2>3, <2>4, ReadTurnKeeps
<1>6. CASE call[p].op # "read"
  <2>1. EventTurn(p, F) BY <1>6 DEF ResumeCall
  <2> QED BY <1>1, <1>2, <1>4, <2>1, EventTurnKeeps
<1> QED BY <1>5, <1>6

\* A wake-up meant for another reason.
LEMMA WakeStep ==
    ASSUME PtyInv, NEW p \in Process, Wake(p)
    PROVE  PtyInv'
<1>1. blocked' \subseteq blocked /\ UNCHANGED <<state, fd, pairVars, call>> BY DEF Wake
<1> USE <1>1 DEF PtyInv, pairVars
<1>2. TypeOK' BY DEF TypeOK
<1>3. CallsOK' BY DEF CallsOK
<1>4. RefsExact' BY DEF RefsExact, Holders
<1>5. \A q : Watched(q)' = Watched(q) BY DEF Watched
<1>6. WaiterIsWaiting'
  <2> SUFFICES ASSUME NEW j \in Pair, NEW x \in End, waiter'[j][x] # NoProcess,
                      NEW w, w = waiter'[j][x]
               PROVE  <<j, x>> \in Watched(w)'
    BY DEF WaiterIsWaiting
  <2> QED BY <1>5 DEF WaiterIsWaiting
<1>7. ExclusiveReaders => Exclusive' BY <1>5 DEF Exclusive
<1>8. ExclusiveReaders => Sleepers(Current)'
  BY DEF Sleepers, Asleep, Current
<1> QED BY <1>2, <1>3, <1>4, <1>6, <1>7, <1>8

\* The invariant holds initially.
LEMMA PtyInit == Init => PtyInv
<1> SUFFICES ASSUME Init PROVE PtyInv OBVIOUS
<1>1. Stdio \subseteq Fd /\ RingCapacity \in Nat /\ 0 \in 0..RingCapacity
  BY PtyAssumption DEF Stdio, Fd
<1>2. Cardinality(Process) \in Nat /\ FdMax \in Nat BY PtyAssumption, FS_CardinalityType
<1>3. kernel_fd_table_init \in [Fd -> Slots] /\ [f \in Fd |-> Unused] \in [Fd -> Slots]
  <2>1. \A f \in Stdio : Console(f) \in Slots BY DEF Slots
  <2> QED BY <2>1, UnusedFacts DEF kernel_fd_table_init
<1>4. TypeOK
  <2>1. 0 \in 0..(Cardinality(Process) * FdMax)
    <3>1. Cardinality(Process) * FdMax \in Nat BY <1>2
    <3> QED BY <3>1
  <2>2. state \in [Process -> {"new", "alive", "finished"}] BY DEF Init
  <2>3. fd \in [Process -> [Fd -> Slots]] BY <1>3 DEF Init
  <2>4. used \in [Pair -> BOOLEAN] BY DEF Init
  <2>5. refs \in [Pair -> [End -> 0..(Cardinality(Process) * FdMax)]] BY <2>1 DEF Init
  <2>6. queued \in [Pair -> [End -> 0..RingCapacity]] BY <1>1 DEF Init
  <2>7. waiter \in [Pair -> [End -> Process \cup {NoProcess}]] BY DEF Init
  <2> QED BY <2>2, <2>3, <2>4, <2>5, <2>6, <2>7 DEF TypeOK, Init
<1>5. CallsOK BY DEF Init, CallsOK
<1>6. \A p \in Process : Watched(p) = {} BY DEF Init, Watched
<1>7. \A p \in Process, f \in Fd : fd[p][f].kind # "pty"
  <2>1. \A f : Console(f).kind # "pty" BY DEF Console
  <2> QED BY <2>1, UnusedFacts DEF Init, kernel_fd_table_init
<1>8. RefsExact
  <2>1. \A k, e : Holders(k, e) = {} BY <1>7 DEF Holders
  <2>2. Cardinality({}) = 0 BY FS_EmptySet
  <2>3. \A k \in Pair, e \in End :
           refs[k][e] = 0 /\ queued[k][e] = 0 /\ waiter[k][e] = NoProcess
    BY DEF Init
  <2>4. \A k \in Pair : ~used[k] BY DEF Init
  <2>5. \A k, e : Cardinality(Holders(k, e)) = 0 BY <2>1, <2>2
  <2> QED BY <2>3, <2>4, <2>5 DEF RefsExact
<1>9. WaiterIsWaiting BY DEF WaiterIsWaiting, Init
<1>10. Exclusive /\ Sleepers(Current) BY <1>6 DEF Exclusive, Sleepers, Init
<1> QED BY <1>4, <1>5, <1>8, <1>9, <1>10 DEF PtyInv

\* Every step of every process keeps the invariant.
LEMMA PtyStep == PtyInv /\ [Next]_vars => PtyInv'
<1> SUFFICES ASSUME PtyInv, [Next]_vars PROVE PtyInv' OBVIOUS
<1>1. CASE UNCHANGED vars
  <2> USE <1>1 DEF vars, pairVars, PtyInv
  <2>1. TypeOK' BY DEF TypeOK
  <2>2. CallsOK' BY DEF CallsOK
  <2>3. RefsExact' BY DEF RefsExact, Holders
  <2>4. \A q : Watched(q)' = Watched(q) BY DEF Watched
  <2>5. WaiterIsWaiting'
    <3> SUFFICES ASSUME NEW j \in Pair, NEW x \in End, waiter'[j][x] # NoProcess,
                        NEW w, w = waiter'[j][x]
                 PROVE  <<j, x>> \in Watched(w)'
      BY DEF WaiterIsWaiting
    <3> QED BY <2>4 DEF WaiterIsWaiting
  <2>6. ExclusiveReaders => Exclusive' BY <2>4 DEF Exclusive
  <2>7. ExclusiveReaders => Sleepers(Current)' BY DEF Sleepers, Asleep, Current
  <2> QED BY <2>1, <2>2, <2>3, <2>5, <2>6, <2>7
<1>2. ASSUME NEW p \in Process, m36_pty_create(p) PROVE PtyInv' BY <1>2, CreateStep
<1>3. ASSUME NEW p \in Process, NEW c \in Process, NEW src \in [Stdio -> Fd],
             m36_spawn(p, c, src)
      PROVE  PtyInv'
  BY <1>3, SpawnStep
<1>4. ASSUME NEW p \in Process, process_mark_finished(p) PROVE PtyInv' BY <1>4, FinishStep
<1>5. ASSUME NEW p \in Process, NEW f \in Fd, kernel_fd_close(p, f) PROVE PtyInv'
  BY <1>5, CloseStep
<1>6. ASSUME NEW p \in Process, NEW f \in Fd, NEW n \in 1..RingCapacity, pty_write(p, f, n)
      PROVE  PtyInv'
  BY <1>6, WriteStep
<1>7. ASSUME NEW p \in Process, NEW f \in Fd, syscall_fd_read(p, f) PROVE PtyInv'
  BY <1>7, ReadStep
<1>8. ASSUME NEW p \in Process, NEW F \in SUBSET (Fd \ (Stdio \ {STDIN})), event_wait(p, F)
      PROVE  PtyInv'
  BY <1>8, WaitStep
<1>9. ASSUME NEW p \in Process, ResumeCall(p) PROVE PtyInv' BY <1>9, ResumeStep
<1>10. ASSUME NEW p \in Process, Wake(p) PROVE PtyInv' BY <1>10, WakeStep
<1> QED BY <1>1, <1>2, <1>3, <1>4, <1>5, <1>6, <1>7, <1>8, <1>9, <1>10 DEF Next

----------------------------------------------------------------------------
(* Theorems                                                                *)

\* Every table, count, ring and waiter stays within its type: no count of a pair
\* (pty.c: refs[]) goes below zero or beyond the descriptors there are.
THEOREM PtyTypes == Spec => []TypeOK
<1>1. PtyInv => TypeOK BY DEF PtyInv
<1> QED BY <1>1, PtyInit, PtyStep, PTL DEF Spec

\* pty_create, kernel_fd_clone_stdio, kernel_fd_close and process_mark_finished
\* keep the counts of every pair equal to the descriptors that name its ends,
\* with any number of processes, pairs and descriptors and whoever reads where:
\* no pair leaks, none is given back while it is open, and a free one holds no
\* byte and no waiter.
THEOREM PtyRefsExact == Spec => []RefsExact
<1>1. PtyInv => RefsExact BY DEF PtyInv
<1> QED BY <1>1, PtyInit, PtyStep, PTL DEF Spec

\* A waiter that pty.c remembers is a process still inside a call that watches
\* that end, whether or not programs share an end between readers.
THEOREM PtyWaitersTrue == Spec => []WaiterIsWaiting
<1>1. PtyInv => WaiterIsWaiting BY DEF PtyInv
<1> QED BY <1>1, PtyInit, PtyStep, PTL DEF Spec

\* While programs keep to one reader per end, which the single read_waiter_pid
\* of an end needs (without it the wake-up is lost, as the run pty_shared
\* shows), no process sleeps in FD_READ or EVENT_WAIT while an end it watches
\* has bytes or has lost its other end.
THEOREM PtyNoLostWakeup ==
    ASSUME ExclusiveReaders
    PROVE  Spec => []NoLostWakeup
<1>1. PtyInv => NoLostWakeup
  <2> SUFFICES ASSUME PtyInv PROVE NoLostWakeup OBVIOUS
  <2>1. WaiterIsWaiting BY DEF PtyInv
  <2>2. ASSUME NEW p \in blocked, NEW f \in call[p].fds PROVE ~pty_poll(p, f)
    <3>1. TypeOK /\ CallsOK /\ Good(Current, fd) BY GoodNow DEF PtyInv
    <3>2. /\ queued[fd[p][f].pair][fd[p][f].end] = 0
          /\ refs[fd[p][f].pair][peer_endpoint(fd[p][f].end)] > 0
      BY <3>1, SleeperFacts
    <3> QED BY <3>2 DEF pty_poll
  <2> QED BY <2>1, <2>2 DEF NoLostWakeup
<1> QED BY <1>1, PtyInit, PtyStep, PTL DEF Spec

----------------------------------------------------------------------------
(* The desktop: messages under way                                          *)

IsSeq(q) == \E S : q \in Seq(S)

\* The messages of a type in a queue, and that there are n of them.
Of(q, t) == {k \in DOMAIN q : q[k].type = t}
Counts(q, t, n) == \/ n = 0 /\ Of(q, t) = {}
                   \/ n = 1 /\ \E k : Of(q, t) = {k}

\* What a queue and its messages are made of.
LEMMA QueueFacts ==
    ASSUME NEW q, IsSeq(q)
    PROVE  /\ Len(q) \in Nat /\ DOMAIN q = 1..Len(q)
           /\ q \o <<>> = q
           /\ q # <<>> => Len(q) # 0
<1>1. PICK S : q \in Seq(S) BY DEF IsSeq
<1> QED BY <1>1

\* A message more.
LEMMA SendFacts ==
    ASSUME NEW q, IsSeq(q), NEW m
    PROVE  /\ IsSeq(q \o <<m>>) /\ q \o <<m>> = Append(q, m)
           /\ DOMAIN (q \o <<m>>) = DOMAIN q \cup {Len(q) + 1} /\ Len(q) + 1 \notin DOMAIN q
           /\ (q \o <<m>>)[Len(q) + 1] = m
           /\ \A k \in DOMAIN q : (q \o <<m>>)[k] = q[k]
<1>1. PICK S : q \in Seq(S) BY DEF IsSeq
<1> DEFINE T == S \cup {m}
<1>2. q \in Seq(T) /\ m \in T BY <1>1
<1> HIDE DEF T
<1>3. q \o <<m>> = Append(q, m) BY <1>2
<1>4. Append(q, m) \in Seq(T) BY <1>2
<1>5. IsSeq(q \o <<m>>) BY <1>3, <1>4 DEF IsSeq
<1>6. /\ DOMAIN Append(q, m) = DOMAIN q \cup {Len(q) + 1} /\ Len(q) + 1 \notin DOMAIN q
      /\ Append(q, m)[Len(q) + 1] = m
      /\ \A k \in DOMAIN q : Append(q, m)[k] = q[k]
  BY <1>2
<1> QED BY <1>3, <1>5, <1>6

\* A message of another type leaves the count, one of the type adds one.
LEMMA SendCounts ==
    ASSUME NEW q, IsSeq(q), NEW m, NEW t, NEW n \in {0, 1}, Counts(q, t, n)
    PROVE  /\ m.type # t => Counts(q \o <<m>>, t, n)
           /\ m.type = t /\ n = 0 => Counts(q \o <<m>>, t, 1)
<1> DEFINE r == q \o <<m>>
           l == Len(q) + 1
<1>1. /\ DOMAIN r = DOMAIN q \cup {l} /\ l \notin DOMAIN q
      /\ r[l] = m /\ \A k \in DOMAIN q : r[k] = q[k]
  BY SendFacts
<1> HIDE DEF r, l
<1>2. m.type # t => Of(r, t) = Of(q, t) BY <1>1 DEF Of
<1>3. m.type = t => Of(r, t) = Of(q, t) \cup {l} BY <1>1 DEF Of
<1>4. m.type = t /\ n = 0 => Of(r, t) = {l} BY <1>3 DEF Counts
<1> QED BY <1>2, <1>4 DEF Counts, r

\* The first message is taken.
LEMMA TakeCounts ==
    ASSUME NEW q, IsSeq(q), q # <<>>, NEW t, NEW n \in {0, 1}, Counts(q, t, n)
    PROVE  /\ IsSeq(Tail(q))
           /\ Head(q).type # t => Counts(Tail(q), t, n)
           /\ Head(q).type = t => n = 1 /\ Counts(Tail(q), t, 0)
           /\ Head(q) = q[1] /\ 1 \in DOMAIN q
           /\ \A k \in DOMAIN Tail(q) : k + 1 \in DOMAIN q /\ Tail(q)[k] = q[k + 1]
<1>1. PICK S : q \in Seq(S) BY DEF IsSeq
<1> DEFINE r == Tail(q)
<1>2. /\ r \in Seq(S) /\ Head(q) = q[1] /\ 1 \in DOMAIN q /\ DOMAIN q = 1..Len(q)
      /\ Len(q) \in Nat /\ DOMAIN r = 1..(Len(q) - 1)
      /\ \A k \in DOMAIN r : k + 1 \in DOMAIN q /\ r[k] = q[k + 1]
  BY <1>1
<1>3. IsSeq(r) BY <1>2 DEF IsSeq
<1> HIDE DEF r
<1>4. \A k \in DOMAIN r : k \in Nat /\ k + 1 # 1 BY <1>2
<1>5. \A k \in DOMAIN q \ {1} : k - 1 \in DOMAIN r /\ k \in Nat BY <1>2
<1>6. \A k \in DOMAIN r : k \in Of(r, t) <=> k + 1 \in Of(q, t) BY <1>2 DEF Of
<1>7. CASE Head(q).type # t
  <2>1. 1 \notin Of(q, t) BY <1>2, <1>7 DEF Of
  <2>2. CASE n = 0
    <3>1. Of(q, t) = {} BY <2>2 DEF Counts
    <3>2. Of(r, t) = {} BY <1>6, <3>1 DEF Of
    <3> QED BY <1>2, <1>3, <1>7, <2>2, <3>2 DEF Counts, r
  <2>3. CASE n = 1
    <3>1. PICK k : Of(q, t) = {k} BY <2>3 DEF Counts
    <3>2. k \in DOMAIN q \ {1} BY <2>1, <3>1 DEF Of
    <3>3. k \in Nat /\ k - 1 \in DOMAIN r BY <1>5, <3>2
    <3>4. \A j \in DOMAIN r : j \in Of(r, t) <=> j = k - 1 BY <1>4, <1>6, <3>1, <3>3
    <3>5. Of(r, t) = {k - 1} BY <3>3, <3>4 DEF Of
    <3> QED BY <1>2, <1>3, <1>7, <2>3, <3>5 DEF Counts, r
  <2> QED BY <2>2, <2>3
<1>8. CASE Head(q).type = t
  <2>1. 1 \in Of(q, t) BY <1>2, <1>8 DEF Of
  <2>2. n = 1 /\ Of(q, t) = {1} BY <2>1 DEF Counts
  <2>3. Of(r, t) = {} BY <1>4, <1>6, <2>2 DEF Of
  <2> QED BY <1>2, <1>3, <1>8, <2>2, <2>3 DEF Counts, r
<1> QED BY <1>7, <1>8

----------------------------------------------------------------------------
(* The inductive invariant                                                 *)

Fields == {"pc", "index", "app", "old_focus", "acked", "deferred", "taken", "order", "focus", "closing",
           "surface"}

\* The inputs on their way, put aside and in hand, and the acknowledgements on
\* their way, are together one if the server waits, and none if it does not.
Accounted(asked, answered, deferred, acked, pending) ==
    \E sent, aside, hand, back \in {0, 1} :
        /\ Counts(answered, "input", sent) /\ Counts(asked, "ack", back)
        /\ aside = IF deferred # NoInput THEN 1 ELSE 0
        /\ hand = IF acked THEN 0 ELSE 1
        /\ sent + aside + hand + back = IF pending THEN 1 ELSE 0

\* What the turn of the window manager began with, if anything, is a pointer's move.
Early(w) == w.taken # NoInput => w.taken[1] = "move"

\* It is that when the input in hand was acknowledged before the work was done, and
\* when another one is put aside after it.
TurnOK(w) ==
    /\ w.pc = "idle" => w.acked
    /\ (w.acked /\ w.pc # "idle") \/ w.deferred # NoInput => Early(w)

WmShape(w) == Fields \subseteq DOMAIN w /\ w.acked \in BOOLEAN

DesktopInv ==
    /\ IsSeq(to_display) /\ IsSeq(to_wm)
    /\ \A k \in DOMAIN to_wm :
          \/ to_wm[k].type = "reply"
          \/ to_wm[k].type = "input" /\ to_wm[k].input # NoInput
    /\ WmShape(wm)
    /\ {"input_pending", "manager"} \subseteq DOMAIN managed
    /\ WmAlive => Accounted(to_display, to_wm, wm.deferred, wm.acked, managed.input_pending)
    /\ WmAlive => TurnOK(wm)

----------------------------------------------------------------------------
(* The steps of the window manager                                         *)

\* What a step that goes on from w does: requests other than an acknowledgement,
\* or one acknowledgement of the input in hand.
Continues(w) ==
    /\ WmShape(wm') /\ IsSeq(to_display') /\ wm'.deferred = w.deferred /\ wm'.taken = w.taken
    /\ wm'.pc = "idle" => wm'.acked
    /\ \/ /\ wm'.acked = w.acked
          /\ \A n \in {0, 1} : Counts(to_display, "ack", n) => Counts(to_display', "ack", n)
       \/ /\ ~w.acked /\ wm'.acked /\ (wm'.pc = "idle" \/ Early(w))
          /\ Counts(to_display, "ack", 0) => Counts(to_display', "ack", 1)

\* One request, or none, is sent.
LEMMA AsksContinues ==
    ASSUME IsSeq(to_display), NEW w, WmShape(w), w.pc = "idle" => w.acked, NEW m, m.type # "ack",
           Asks(w, <<m>>) \/ Asks(w, <<>>)
    PROVE  Continues(w)
<1>1. wm' = w /\ (to_display' = to_display \o <<m>> \/ to_display' = to_display)
  BY QueueFacts DEF Asks
<1>2. IsSeq(to_display')
  <2>1. IsSeq(to_display \o <<m>>) BY SendFacts
  <2> QED BY <1>1, <2>1
<1>3. \A n \in {0, 1} : Counts(to_display, "ack", n) => Counts(to_display', "ack", n)
  BY <1>1, SendCounts
<1> QED BY <1>1, <1>2, <1>3 DEF Continues

\* The step ends, and the input in hand, if there is one, is acknowledged.
LEMMA ReturnsContinues ==
    ASSUME IsSeq(to_display), NEW w, WmShape(w), Returns(w)
    PROVE  Continues(w)
<1> DEFINE v == [w EXCEPT !.pc = "idle", !.acked = TRUE]
<1>1. WmShape(v) /\ v.acked = TRUE /\ v.deferred = w.deferred /\ v.taken = w.taken
      /\ v.pc = "idle"
  BY DEF WmShape, Fields
<1>2. wm' = v /\ to_display' = to_display \o (IF w.acked THEN <<>> ELSE <<Acknowledge>>)
  BY DEF Returns, Asks
<1> HIDE DEF v
<1>3. CASE w.acked
  <2>1. to_display' = to_display BY <1>2, <1>3, QueueFacts
  <2> QED BY <1>1, <1>2, <1>3, <2>1 DEF Continues, WmShape
<1>4. CASE ~w.acked
  <2>1. to_display' = to_display \o <<Acknowledge>> BY <1>2, <1>4
  <2>2. Acknowledge.type = "ack" BY DEF Acknowledge
  <2>3. Counts(to_display, "ack", 0) => Counts(to_display', "ack", 1)
    BY <2>1, <2>2, SendCounts
  <2>4. IsSeq(to_display') BY <2>1, SendFacts
  <2> QED BY <1>1, <1>2, <1>4, <2>3, <2>4 DEF Continues
<1> QED BY <1>3, <1>4

\* Going on from a copy of w with other windows is going on from w.
Like(v, w) == WmShape(v) /\ v.deferred = w.deferred /\ v.acked = w.acked /\ v.taken = w.taken

\* Only what is put aside and whether an input is in hand matter to Continues.
LEMMA LikeContinues ==
    ASSUME NEW v, NEW w, Like(v, w), Continues(v)
    PROVE  Continues(w)
BY DEF Like, Continues, Early

\* A layout begins with a request for a place or for the screen.
LEMMA LayoutContinues ==
    ASSUME IsSeq(to_display), NEW w, WmShape(w)
    PROVE  /\ LayoutFrom(w) => Continues(w)
           /\ sync_layout(w) => Continues(w)
<1>1. ASSUME NEW v, WmShape(v), LayoutFrom(v) PROVE Continues(v)
  <2> DEFINE m == [type |-> "present"]
             p == [v EXCEPT !.pc = "present"]
             q == [v EXCEPT !.pc = "place"]
  <2>1. Like(p, v) /\ Like(q, v) /\ p.pc # "idle" /\ q.pc # "idle"
    BY <1>1 DEF Like, WmShape, Fields
  <2>2. m.type # "ack" /\ Place(v).type # "ack" BY DEF Place
  <2>3. Asks(p, <<m>>) \/ Asks(q, <<Place(v)>>) BY <1>1 DEF LayoutFrom
  <2> HIDE DEF m, p, q
  <2>4. Continues(p) \/ Continues(q) BY <2>1, <2>2, <2>3, AsksContinues DEF Like
  <2> QED BY <2>1, <2>4, LikeContinues
<1>2. ASSUME sync_layout(w) PROVE Continues(w)
  <2> DEFINE v == [w EXCEPT !.index = 1]
  <2>1. Like(v, w) BY DEF Like, WmShape, Fields
  <2>2. LayoutFrom(v) BY <1>2 DEF sync_layout
  <2> HIDE DEF v
  <2>3. Continues(v) BY <1>1, <2>1, <2>2 DEF Like
  <2> QED BY <2>1, <2>3, LikeContinues
<1> QED BY <1>1, <1>2

\* Leaving a window begins with a request to unbind it, or with a layout.
LEMMA DroppedContinues ==
    ASSUME IsSeq(to_display), NEW w, WmShape(w), NEW a, Dropped(w, a)
    PROVE  Continues(w)
<1>1. CASE a \in Clients(w)
  <2> DEFINE v == [w EXCEPT !.pc = "unbind", !.app = a]
  <2>1. Like(v, w) /\ v.pc # "idle" BY DEF Like, WmShape, Fields
  <2>2. Asks(v, <<Unbind(w, a)>>) BY <1>1 DEF Dropped
  <2>3. Unbind(w, a).type # "ack" BY DEF Unbind
  <2> HIDE DEF v
  <2>4. Continues(v) BY <2>1, <2>2, <2>3, AsksContinues DEF Like
  <2> QED BY <2>1, <2>4, LikeContinues
<1>2. CASE a \notin Clients(w)
  <2>1. sync_layout(w) BY <1>2 DEF Dropped
  <2> QED BY <2>1, LayoutContinues
<1> QED BY <1>1, <1>2

\* Passing a key on ends the step, or drops the window that cannot take it.
LEMMA SendOrDropContinues ==
    ASSUME IsSeq(to_display), NEW w, WmShape(w), NEW a, SendOrDrop(w, a)
    PROVE  Continues(w)
<1>1. Returns(w) \/ Dropped(w, a) BY DEF SendOrDrop
<1> QED BY <1>1, ReturnsContinues, DroppedContinues

\* A change of focus is a request.
LEMMA FocusContinues ==
    ASSUME IsSeq(to_display), NEW w, WmShape(w), sync_focus(w)
    PROVE  Continues(w)
<1> DEFINE v == [w EXCEPT !.pc = "focus"]
<1>1. Like(v, w) /\ v.pc # "idle" BY DEF Like, WmShape, Fields
<1>2. Asks(v, <<FocusRequest(w)>>) BY DEF sync_focus
<1>3. FocusRequest(w).type # "ack" BY DEF FocusRequest
<1> HIDE DEF v
<1>4. Continues(v) BY <1>1, <1>2, <1>3, AsksContinues DEF Like
<1> QED BY <1>1, <1>4, LikeContinues

\* handle_input acknowledges at most once.
LEMMA HandleContinues ==
    ASSUME IsSeq(to_display), NEW w, WmShape(w), ~w.acked, NEW e, handle_input(e, w),
           w.taken \in {NoInput, e}
    PROVE  Continues(w)
<1>1. CASE e[1] \in {"next", "previous"} /\ w.order # <<>>
  <2>1. PICK a \in wm_focus_step(w, e[1]) : sync_focus([w EXCEPT !.focus = a])
    BY <1>1 DEF handle_input
  <2> DEFINE v == [w EXCEPT !.focus = a]
  <2>2. Like(v, w) /\ sync_focus(v) BY <2>1 DEF Like, WmShape, Fields
  <2> HIDE DEF v
  <2>3. Continues(v) BY <2>2, FocusContinues DEF Like
  <2> QED BY <2>2, <2>3, LikeContinues
<1>2. CASE e[1] = "move" /\ wm_pointer(w, e[2]) # {}
  <2>1. PICK a \in wm_pointer(w, e[2]) :
            LET next == [w EXCEPT !.focus = a, !.acked = TRUE, !.pc = "focus"]
            IN  Asks(next, <<Acknowledge, FocusRequest(next)>>)
    BY <1>2 DEF handle_input
  <2> DEFINE next == [w EXCEPT !.focus = a, !.acked = TRUE, !.pc = "focus"]
             m == FocusRequest(next)
             q == to_display \o <<Acknowledge>>
  <2>2. WmShape(next) /\ next.deferred = w.deferred /\ next.acked = TRUE
        /\ next.taken = w.taken /\ next.pc = "focus"
    BY DEF WmShape, Fields
  <2>10. Early(w) BY <1>2 DEF Early
  <2>3. Acknowledge.type = "ack" /\ m.type # "ack" BY DEF Acknowledge, FocusRequest
  <2>4. wm' = next /\ to_display' = to_display \o <<Acknowledge, m>> BY <2>1 DEF Asks
  <2> HIDE DEF next, m
  <2>5. to_display' = q \o <<m>>
    <3>1. PICK S : to_display \in Seq(S) BY DEF IsSeq
    <3> DEFINE T == S \cup {Acknowledge, m}
    <3>2. to_display \in Seq(T) /\ Acknowledge \in T /\ m \in T BY <3>1
    <3> HIDE DEF T
    <3> QED BY <2>4, <3>2
  <2>6. IsSeq(q) BY SendFacts
  <2>7. Counts(to_display, "ack", 0) => Counts(q, "ack", 1) BY <2>3, SendCounts
  <2> HIDE DEF q
  <2>8. IsSeq(to_display') BY <2>5, <2>6, SendFacts
  <2>9. Counts(to_display, "ack", 0) => Counts(to_display', "ack", 1)
    BY <2>3, <2>5, <2>6, <2>7, SendCounts
  <2> QED BY <2>2, <2>4, <2>8, <2>9, <2>10 DEF Continues
<1>3. CASE e[1] \in {"later", "earlier"} /\ wm_reorder(w, e[1]) # {}
  <2>1. PICK order \in wm_reorder(w, e[1]) : sync_layout([w EXCEPT !.order = order])
    BY <1>3 DEF handle_input
  <2> DEFINE v == [w EXCEPT !.order = order]
  <2>2. Like(v, w) /\ sync_layout(v) BY <2>1 DEF Like, WmShape, Fields
  <2> HIDE DEF v
  <2>3. Continues(v) BY <2>2, LayoutContinues DEF Like
  <2> QED BY <2>2, <2>3, LikeContinues
<1>4. CASE e[1] = "close" /\ w.focus # NoApp /\ w.focus \notin w.closing
  <2> DEFINE v == [w EXCEPT !.closing = @ \cup {w.focus}]
  <2>1. Like(v, w) BY DEF Like, WmShape, Fields
  <2>2. SendOrDrop(v, w.focus) BY <1>4 DEF handle_input
  <2> HIDE DEF v
  <2>3. Continues(v) BY <2>1, <2>2, SendOrDropContinues DEF Like
  <2> QED BY <2>1, <2>3, LikeContinues
<1>5. CASE e[1] = "key" /\ w.focus # NoApp
  <2>1. SendOrDrop(w, w.focus) BY <1>5 DEF handle_input
  <2> QED BY <2>1, SendOrDropContinues
<1>6. CASE /\ ~(e[1] \in {"next", "previous"} /\ w.order # <<>>)
           /\ ~(e[1] = "move" /\ wm_pointer(w, e[2]) # {})
           /\ ~(e[1] \in {"later", "earlier"} /\ wm_reorder(w, e[1]) # {})
           /\ ~(e[1] = "close" /\ w.focus # NoApp /\ w.focus \notin w.closing)
           /\ ~(e[1] = "key" /\ w.focus # NoApp)
  <2>1. Returns(w) BY <1>6 DEF handle_input
  <2> QED BY <2>1, ReturnsContinues
<1> QED BY <1>1, <1>2, <1>3, <1>4, <1>5, <1>6

\* So does what follows an answer of the server.
LEMMA RepliedContinues ==
    ASSUME IsSeq(to_display), WmShape(wm), Waiting, NEW ok, Replied(ok)
    PROVE  \/ Continues(wm)
           \/ wm'.pc = "failed" /\ WmShape(wm') /\ IsSeq(to_display')
<1> DEFINE gone == [wm EXCEPT !.pc = "failed"]
<1>1. ASSUME Asks(gone, <<>>)
      PROVE  wm'.pc = "failed" /\ WmShape(wm') /\ IsSeq(to_display')
  <2>1. WmShape(gone) /\ gone.pc = "failed" BY DEF WmShape, Fields
  <2> HIDE DEF gone
  <2> QED BY <1>1, <2>1, QueueFacts DEF Asks
<1>2. ASSUME NEW v, Like(v, wm),
             Returns(v) \/ sync_layout(v) \/ LayoutFrom(v) \/ \E a : Dropped(v, a)
      PROVE  Continues(wm)
  <2>1. Continues(v) BY <1>2, ReturnsContinues, LayoutContinues, DroppedContinues DEF Like
  <2> QED BY <1>2, <2>1, LikeContinues
<1>3. CASE wm.pc = "hello"
  <2>1. sync_layout(wm) \/ Asks(gone, <<>>) BY <1>3 DEF Replied
  <2>2. Like(wm, wm) BY DEF Like
  <2> QED BY <1>1, <1>2, <2>1, <2>2
<1>4. CASE wm.pc = "bind"
  <2> DEFINE a == wm.app
             kept == [wm EXCEPT !.old_focus = NoApp, !.app = NoApp]
             removed == [wm_remove(kept, a) EXCEPT
                            !.focus = IF wm.old_focus \in Clients(wm) THEN wm.old_focus ELSE NoApp]
  <2>1. Bound(ok) BY <1>4 DEF Replied
  <2>2. \/ Dropped(kept, a) \/ Dropped(removed, a) \/ sync_layout(kept) \/ Returns(removed)
    BY <2>1 DEF Bound
  <2>3. Like(kept, wm) BY DEF Like, WmShape, Fields
  <2>4. Like(removed, wm)
    <3> HIDE DEF kept
    <3> QED BY <2>3 DEF Like, WmShape, Fields, wm_remove
  <2> HIDE DEF kept, removed
  <2> QED BY <1>2, <2>2, <2>3, <2>4
<1>5. CASE wm.pc = "place"
  <2> DEFINE v == [wm EXCEPT !.index = @ + 1]
  <2>1. Placed(ok) BY <1>5 DEF Replied
  <2>2. LayoutFrom(v) \/ Dropped(wm, wm.order[wm.index]) BY <2>1 DEF Placed
  <2>3. Like(wm, wm) /\ Like(v, wm) BY DEF Like, WmShape, Fields
  <2> HIDE DEF v
  <2> QED BY <1>2, <2>2, <2>3
<1>6. CASE wm.pc \in {"unbind", "unregister"}
  <2> DEFINE v == [wm EXCEPT !.app = NoApp]
             u == wm_remove(v, wm.app)
  <2>1. sync_layout(u) BY <1>6 DEF Replied, Unregistered
  <2>2. Like(v, wm) BY DEF Like, WmShape, Fields
  <2>3. Like(u, wm)
    <3> HIDE DEF v
    <3> QED BY <2>2 DEF Like, WmShape, Fields, wm_remove
  <2> HIDE DEF u
  <2> QED BY <1>2, <2>1, <2>3
<1>7. CASE wm.pc = "present"
  <2> DEFINE v == [wm EXCEPT !.index = 1]
  <2>1. Returns(v) \/ Asks(gone, <<>>) BY <1>7 DEF Replied
  <2>2. Like(v, wm) BY DEF Like, WmShape, Fields
  <2> HIDE DEF v
  <2> QED BY <1>1, <1>2, <2>1, <2>2
<1>8. CASE wm.pc = "focus"
  <2>1. Returns(wm) \/ sync_layout(wm) BY <1>8 DEF Replied
  <2>2. Like(wm, wm) BY DEF Like
  <2> QED BY <1>2, <2>1, <2>2
<1> QED BY <1>3, <1>4, <1>5, <1>6, <1>7, <1>8 DEF Waiting

----------------------------------------------------------------------------
(* The actions                                                             *)

\* A step of the window manager that goes on from where it is.
LEMMA ContinuesKeeps ==
    ASSUME DesktopInv, NEW w, WmShape(w), Continues(w), WmAlive,
           NEW q, IsSeq(q), to_wm' = q,
           \A k \in DOMAIN q : \/ q[k].type = "reply"
                               \/ q[k].type = "input" /\ q[k].input # NoInput,
           Accounted(to_display, q, w.deferred, w.acked, managed.input_pending),
           w.acked \/ w.deferred # NoInput => Early(w),
           UNCHANGED managed
    PROVE  DesktopInv'
<1>1. IsSeq(to_display') /\ WmShape(wm') BY DEF Continues
<1>2. PICK sent, aside, hand, back \in {0, 1} :
        /\ Counts(q, "input", sent) /\ Counts(to_display, "ack", back)
        /\ aside = IF w.deferred # NoInput THEN 1 ELSE 0
        /\ hand = IF w.acked THEN 0 ELSE 1
        /\ sent + aside + hand + back = IF managed.input_pending THEN 1 ELSE 0
  BY DEF Accounted
<1>3. wm'.deferred = w.deferred BY DEF Continues
<1>6. TurnOK(wm')
  <2>1. Early(w) => Early(wm') BY DEF Continues, Early
  <2> QED BY <2>1 DEF TurnOK, Continues
<1>4. CASE wm'.acked = w.acked
           /\ \A n \in {0, 1} : Counts(to_display, "ack", n) => Counts(to_display', "ack", n)
  <2>1. Counts(to_display', "ack", back) BY <1>2, <1>4
  <2>2. hand = IF wm'.acked THEN 0 ELSE 1 BY <1>2, <1>4
  <2>3. Accounted(to_display', to_wm', wm'.deferred, wm'.acked, managed'.input_pending)
    BY <1>2, <1>3, <2>1, <2>2 DEF Accounted
  <2> QED BY <1>1, <1>6, <2>3 DEF DesktopInv
<1>5. CASE ~w.acked /\ wm'.acked /\ (Counts(to_display, "ack", 0) => Counts(to_display', "ack", 1))
  <2>1. hand = 1 BY <1>2, <1>5
  <2>2. back = 0 /\ sent + aside + 0 + 1 = IF managed.input_pending THEN 1 ELSE 0
    BY <1>2, <2>1
  <2>3. Counts(to_display', "ack", 1) BY <1>2, <1>5, <2>2
  <2>4. 0 = IF wm'.acked THEN 0 ELSE 1 BY <1>5
  <2>5. 0 \in {0, 1} /\ 1 \in {0, 1} OBVIOUS
  <2>6. Accounted(to_display', to_wm', wm'.deferred, wm'.acked, managed'.input_pending)
    BY <1>2, <1>3, <2>2, <2>3, <2>4, <2>5 DEF Accounted
  <2> QED BY <1>1, <1>6, <2>6 DEF DesktopInv
<1> QED BY <1>4, <1>5 DEF Continues


\* Whatever is under way no longer matters when the window manager is gone.
LEMMA GoneKeeps ==
    ASSUME IsSeq(to_display'), IsSeq(to_wm'), WmShape(wm'), ~WmAlive',
           {"input_pending", "manager"} \subseteq DOMAIN managed',
           \A k \in DOMAIN to_wm' : \/ to_wm'[k].type = "reply"
                                    \/ to_wm'[k].type = "input" /\ to_wm'[k].input # NoInput
    PROVE  DesktopInv'
BY DEF DesktopInv

\* Applications, and frames of the server.
LEMMA StaysKeeps ==
    ASSUME DesktopInv, UNCHANGED <<wm, to_display, to_wm>>, DOMAIN managed' = DOMAIN managed,
           managed'.input_pending = managed.input_pending
    PROVE  DesktopInv'
<1>1. wm' = wm /\ to_display' = to_display /\ to_wm' = to_wm OBVIOUS
<1>2. WmAlive' <=> WmAlive BY <1>1 DEF WmAlive
<1> QED BY <1>1, <1>2 DEF DesktopInv

\* The rest of a queue of messages to the window manager.
LEMMA TakenMessages ==
    ASSUME DesktopInv, to_wm # <<>>
    PROVE  /\ IsSeq(Tail(to_wm))
           /\ \A k \in DOMAIN Tail(to_wm) :
                 \/ Tail(to_wm)[k].type = "reply"
                 \/ Tail(to_wm)[k].type = "input" /\ Tail(to_wm)[k].input # NoInput
           /\ \/ Head(to_wm).type = "reply"
              \/ Head(to_wm).type = "input" /\ Head(to_wm).input # NoInput
<1>1. IsSeq(to_wm) BY DEF DesktopInv
<1>2. Of(to_wm, "none") = {} BY DEF DesktopInv, Of
<1>3. Counts(to_wm, "none", 0) BY <1>2 DEF Counts
<1>4. /\ IsSeq(Tail(to_wm)) /\ Head(to_wm) = to_wm[1] /\ 1 \in DOMAIN to_wm
      /\ \A k \in DOMAIN Tail(to_wm) : k + 1 \in DOMAIN to_wm /\ Tail(to_wm)[k] = to_wm[k + 1]
  <2>1. 0 \in {0, 1} OBVIOUS
  <2> QED BY <1>1, <1>3, <2>1, TakeCounts
<1> QED BY <1>4 DEF DesktopInv

\* The input put aside is taken in hand.
LEMMA HandleDeferredKeeps ==
    ASSUME DesktopInv, HandleDeferred
    PROVE  DesktopInv'
<1> DEFINE w == [wm EXCEPT !.deferred = NoInput, !.taken = wm.deferred, !.acked = FALSE]
<1>1. /\ wm.pc = "idle" /\ wm.deferred # NoInput /\ handle_input(wm.deferred, w)
      /\ managed' = managed /\ to_wm' = to_wm
  BY DEF HandleDeferred, Untouched
<1>2. WmAlive /\ WmShape(wm) /\ IsSeq(to_display) /\ IsSeq(to_wm)
  BY <1>1 DEF WmAlive, DesktopInv
<1>3. WmShape(w) /\ w.deferred = NoInput /\ w.acked = FALSE /\ w.taken = wm.deferred
  BY <1>2 DEF WmShape, Fields
<1> HIDE DEF w
<1>4. Continues(w) BY <1>1, <1>2, <1>3, HandleContinues
<1>5. PICK sent, aside, hand, back \in {0, 1} :
        /\ Counts(to_wm, "input", sent) /\ Counts(to_display, "ack", back)
        /\ aside = IF wm.deferred # NoInput THEN 1 ELSE 0
        /\ hand = IF wm.acked THEN 0 ELSE 1
        /\ sent + aside + hand + back = IF managed.input_pending THEN 1 ELSE 0
  BY <1>2 DEF DesktopInv, Accounted
<1>6. aside = 1 BY <1>1, <1>5
<1>7. sent + 0 + 1 + back = IF managed.input_pending THEN 1 ELSE 0 BY <1>5, <1>6
<1>8. 0 \in {0, 1} /\ 1 \in {0, 1} OBVIOUS
<1>9. Accounted(to_display, to_wm, w.deferred, w.acked, managed.input_pending)
  BY <1>3, <1>5, <1>7, <1>8 DEF Accounted
<1> DEFINE q == to_wm
<1>10. \A k \in DOMAIN q : \/ q[k].type = "reply"
                           \/ q[k].type = "input" /\ q[k].input # NoInput
  BY DEF DesktopInv
<1> QED BY <1>1, <1>2, <1>3, <1>4, <1>9, <1>10, ContinuesKeeps

\* An input arrives.
LEMMA ReceiveInputKeeps ==
    ASSUME DesktopInv, ReceiveInput
    PROVE  DesktopInv'
<1> DEFINE w == [Awake EXCEPT !.acked = FALSE]
           q == Tail(to_wm)
<1>1. /\ wm.pc = "idle" /\ to_wm # <<>>
      /\ managed' = managed /\ to_wm' = q
  BY DEF ReceiveInput, Untouched
<1>2. WmAlive /\ WmShape(wm) /\ IsSeq(to_display) /\ IsSeq(to_wm)
  BY <1>1 DEF WmAlive, DesktopInv
<1>3. /\ IsSeq(q)
      /\ \A k \in DOMAIN q : \/ q[k].type = "reply"
                             \/ q[k].type = "input" /\ q[k].input # NoInput
  BY <1>1, TakenMessages
<1>4. CASE Head(to_wm).type = "input"
  <2>1. handle_input(Head(to_wm).input, w) BY <1>4 DEF ReceiveInput
  <2>2. WmShape(w) /\ w.deferred = wm.deferred /\ w.acked = FALSE /\ w.taken = NoInput
    BY <1>2 DEF WmShape, Fields, Awake
  <2> HIDE DEF w
  <2>3. Continues(w) BY <1>2, <2>1, <2>2, HandleContinues
  <2>4. PICK sent, aside, hand, back \in {0, 1} :
          /\ Counts(to_wm, "input", sent) /\ Counts(to_display, "ack", back)
          /\ aside = IF wm.deferred # NoInput THEN 1 ELSE 0
          /\ hand = IF wm.acked THEN 0 ELSE 1
          /\ sent + aside + hand + back = IF managed.input_pending THEN 1 ELSE 0
    BY <1>2 DEF DesktopInv, Accounted
  <2>5. sent = 1 /\ Counts(q, "input", 0) BY <1>1, <1>2, <1>4, <2>4, TakeCounts
  <2>6. 0 + aside + 1 + back = IF managed.input_pending THEN 1 ELSE 0 BY <2>4, <2>5
  <2>7. 0 \in {0, 1} /\ 1 \in {0, 1} OBVIOUS
  <2>8. Accounted(to_display, q, w.deferred, w.acked, managed.input_pending)
    BY <2>2, <2>4, <2>5, <2>6, <2>7 DEF Accounted
  <2>9. Early(w) BY <2>2 DEF Early
  <2> HIDE DEF q
  <2> QED BY <1>1, <1>2, <1>3, <2>2, <2>3, <2>8, <2>9, ContinuesKeeps
<1>5. CASE Head(to_wm).type # "input"
  <2> DEFINE v == [wm EXCEPT !.pc = "failed"]
  <2>1. Asks(v, <<>>) BY <1>5 DEF ReceiveInput
  <2>2. WmShape(v) /\ v.pc = "failed" BY <1>2 DEF WmShape, Fields
  <2> HIDE DEF v, q
  <2>3. wm' = v /\ to_display' = to_display BY <1>2, <2>1, QueueFacts DEF Asks
  <2>4. ~WmAlive' BY <2>2, <2>3 DEF WmAlive
  <2> QED BY <1>1, <1>2, <1>3, <2>2, <2>3, <2>4, GoneKeeps DEF DesktopInv
<1> QED BY <1>4, <1>5

\* An answer arrives, or an input that is put aside.
LEMMA DisplayRpcKeeps ==
    ASSUME DesktopInv, display_rpc
    PROVE  DesktopInv'
<1> DEFINE q == Tail(to_wm)
           m == Head(to_wm)
<1>1. /\ Waiting /\ to_wm # <<>> /\ managed' = managed /\ to_wm' = q
  BY DEF display_rpc, Untouched
<1>2. WmAlive /\ WmShape(wm) /\ IsSeq(to_display) /\ IsSeq(to_wm)
      /\ {"input_pending", "manager"} \subseteq DOMAIN managed
  BY <1>1 DEF WmAlive, DesktopInv, Waiting
<1>3. /\ IsSeq(q)
      /\ \A k \in DOMAIN q : \/ q[k].type = "reply"
                             \/ q[k].type = "input" /\ q[k].input # NoInput
      /\ m.type = "reply" \/ (m.type = "input" /\ m.input # NoInput)
  BY <1>1, TakenMessages
<1>4. PICK sent, aside, hand, back \in {0, 1} :
        /\ Counts(to_wm, "input", sent) /\ Counts(to_display, "ack", back)
        /\ aside = IF wm.deferred # NoInput THEN 1 ELSE 0
        /\ hand = IF wm.acked THEN 0 ELSE 1
        /\ sent + aside + hand + back = IF managed.input_pending THEN 1 ELSE 0
  BY <1>2 DEF DesktopInv, Accounted
<1>5. CASE m.type = "reply"
  <2>1. Counts(q, "input", sent) BY <1>1, <1>2, <1>4, <1>5, TakeCounts
  <2>2. Accounted(to_display, q, wm.deferred, wm.acked, managed.input_pending)
    BY <1>4, <2>1 DEF Accounted
  <2>3. Replied(m.ok) BY <1>5 DEF display_rpc
  <2> HIDE DEF q, m
  <2>4. \/ Continues(wm)
        \/ wm'.pc = "failed" /\ WmShape(wm') /\ IsSeq(to_display')
    BY <1>1, <1>2, <2>3, RepliedContinues
  <2>7. wm.acked \/ wm.deferred # NoInput => Early(wm)
    BY <1>1, <1>2 DEF DesktopInv, TurnOK, Waiting
  <2>5. CASE Continues(wm) BY <1>1, <1>2, <1>3, <2>2, <2>5, <2>7, ContinuesKeeps
  <2>6. CASE wm'.pc = "failed" /\ WmShape(wm') /\ IsSeq(to_display')
    <3>1. ~WmAlive' BY <2>6 DEF WmAlive
    <3> QED BY <1>1, <1>2, <1>3, <2>6, <3>1, GoneKeeps
  <2> QED BY <2>4, <2>5, <2>6
<1>6. CASE m.type = "input" /\ m.input # NoInput
  <2>1. sent = 1 /\ Counts(q, "input", 0) BY <1>1, <1>2, <1>4, <1>6, TakeCounts
  <2>2. to_display' = to_display
        /\ wm' = IF wm.deferred = NoInput THEN [wm EXCEPT !.deferred = m.input]
                 ELSE [wm EXCEPT !.pc = "failed"]
    BY <1>6 DEF display_rpc
  <2>3. CASE wm.deferred = NoInput
    <3>1. wm' = [wm EXCEPT !.deferred = m.input] BY <2>2, <2>3
    <3>2. /\ WmShape(wm') /\ wm'.deferred = m.input /\ wm'.acked = wm.acked
          /\ wm'.taken = wm.taken /\ wm'.pc = wm.pc
      BY <1>2, <3>1 DEF WmShape, Fields
    <3>3. aside = 0 /\ 0 + 1 + hand + back = IF managed.input_pending THEN 1 ELSE 0
      BY <1>4, <2>1, <2>3
    <3>4. 0 \in {0, 1} /\ 1 \in {0, 1} OBVIOUS
    <3>5. Accounted(to_display', to_wm', wm'.deferred, wm'.acked, managed'.input_pending)
      BY <1>1, <1>4, <1>6, <2>1, <2>2, <3>2, <3>3, <3>4 DEF Accounted
    <3>6. wm.acked
      <4>1. hand = 0
        <5>1. (IF managed.input_pending THEN 1 ELSE 0) \in {0, 1} OBVIOUS
        <5> QED BY <1>4, <2>1, <2>3, <5>1
      <4> QED BY <1>4, <4>1
    <3>7. TurnOK(wm')
      <4>1. Early(wm) BY <1>1, <1>2, <3>6 DEF DesktopInv, TurnOK, Waiting
      <4> QED BY <1>1, <3>2, <3>6, <4>1 DEF TurnOK, Early, Waiting
    <3> HIDE DEF q, m
    <3> QED BY <1>1, <1>2, <1>3, <2>2, <3>2, <3>5, <3>7 DEF DesktopInv
  <2>4. CASE wm.deferred # NoInput
    <3>1. aside = 1 /\ sent = 1 BY <1>4, <2>1, <2>4
    <3>2. (IF managed.input_pending THEN 1 ELSE 0) \in {0, 1} OBVIOUS
    <3>3. sent + aside + hand + back \in {0, 1} BY <1>4, <3>2
    <3>4. 1 + 1 + hand + back \in {0, 1} BY <3>1, <3>3
    <3> QED BY <1>4, <3>4
  <2> QED BY <2>3, <2>4
<1> QED BY <1>3, <1>5, <1>6

\* What it does without a message from the server.
LEMMA GoesOnKeeps ==
    ASSUME DesktopInv, WmAlive, NEW w, Like(w, wm) \/ Like(w, Awake), Continues(w),
           w.acked \/ w.deferred # NoInput => Early(w), UNCHANGED <<managed, to_wm>>
    PROVE  DesktopInv'
<1>1. /\ WmShape(wm) /\ IsSeq(to_wm) /\ to_wm' = to_wm /\ managed' = managed
      /\ \A k \in DOMAIN to_wm : \/ to_wm[k].type = "reply"
                                 \/ to_wm[k].type = "input" /\ to_wm[k].input # NoInput
      /\ Accounted(to_display, to_wm, wm.deferred, wm.acked, managed.input_pending)
  BY DEF DesktopInv
<1>2. Like(Awake, [wm EXCEPT !.taken = NoInput]) /\ Awake.deferred = wm.deferred
      /\ Awake.acked = wm.acked
  BY <1>1 DEF Awake, Like, WmShape, Fields
<1>3. WmShape(w) /\ w.deferred = wm.deferred /\ w.acked = wm.acked BY <1>2 DEF Like
<1>4. Accounted(to_display, to_wm, w.deferred, w.acked, managed.input_pending) BY <1>1, <1>3
<1> QED BY <1>1, <1>3, <1>4, ContinuesKeeps

\* Every step of the window manager.
LEMMA WmStepKeeps ==
    ASSUME DesktopInv, WmStep
    PROVE  DesktopInv'
<1>1. WmShape(wm) /\ IsSeq(to_display) BY DEF DesktopInv
<1>9. /\ WmShape(Awake) /\ Awake.taken = NoInput /\ Awake.pc = wm.pc
      /\ Like(Awake, Awake) /\ Awake.acked = wm.acked
  BY <1>1 DEF Awake, Like, WmShape, Fields
<1>10. ASSUME NEW w, Like(w, Awake), Continues(w), wm.pc = "idle", UNCHANGED <<managed, to_wm>>
       PROVE  DesktopInv'
  <2>1. WmAlive BY <1>10 DEF WmAlive
  <2>2. Early(w) BY <1>9, <1>10 DEF Like, Early
  <2> QED BY <1>10, <2>1, <2>2, GoesOnKeeps
<1>2. CASE Hello
  <2> DEFINE v == [wm EXCEPT !.pc = "hello"]
             m == [type |-> "manager"]
  <2>1. Like(v, wm) /\ v.pc # "idle" BY <1>1 DEF Like, WmShape, Fields
  <2>2. Asks(v, <<m>>) /\ m.type # "ack" BY <1>2 DEF Hello
  <2>3. WmAlive /\ UNCHANGED <<managed, to_wm>> BY <1>2 DEF WmAlive, Hello, Untouched
  <2>4. TurnOK(wm) /\ wm.pc # "idle" BY <1>2 DEF Hello, DesktopInv, WmAlive
  <2> HIDE DEF v, m
  <2>5. Continues(v) BY <1>1, <2>1, <2>2, AsksContinues DEF Like
  <2>6. v.acked \/ v.deferred # NoInput => Early(v) BY <2>1, <2>4 DEF Like, TurnOK, Early
  <2> QED BY <2>1, <2>3, <2>5, <2>6, GoesOnKeeps
<1>3. CASE HandleDeferred BY <1>3, HandleDeferredKeeps
<1>4. CASE ReceiveInput BY <1>4, ReceiveInputKeeps
<1>5. CASE display_rpc BY <1>5, DisplayRpcKeeps
<1>6. ASSUME NEW a \in App, request_unregister(a) PROVE DesktopInv'
  <2> DEFINE v == [Awake EXCEPT !.pc = "unregister", !.app = a]
  <2>1. Like(v, Awake) /\ v.pc # "idle" BY <1>9 DEF Like, WmShape, Fields
  <2>2. Asks(v, <<Unbind(wm, a)>>) /\ Unbind(wm, a).type # "ack"
    BY <1>6 DEF request_unregister, Unbind
  <2>3. wm.pc = "idle" /\ UNCHANGED <<managed, to_wm>>
    BY <1>6 DEF request_unregister, Untouched
  <2> HIDE DEF v
  <2>4. Continues(v) BY <1>1, <2>1, <2>2, AsksContinues DEF Like
  <2> QED BY <1>10, <2>1, <2>3, <2>4
<1>7. ASSUME NEW a \in App, HangUp(a) PROVE DesktopInv'
  <2>1. wm.pc = "idle" /\ UNCHANGED <<managed, to_wm>> /\ Dropped(Awake, a)
    BY <1>7 DEF HangUp, Untouched
  <2>2. Continues(Awake) BY <1>1, <1>9, <2>1, DroppedContinues
  <2> QED BY <1>9, <1>10, <2>1, <2>2
<1>8. ASSUME NEW a \in App, NEW token, request_register(a, token) PROVE DesktopInv'
  <2> DEFINE u == wm_add(Awake, a, token)
             v == [u EXCEPT !.pc = "bind", !.app = a]
             m == [type |-> "bind", surface |-> token, window |-> a, owner |-> a]
  <2>1. wm.pc = "idle" /\ UNCHANGED <<managed, to_wm>>
    BY <1>8 DEF request_register, Untouched
  <2>2. Asks(v, <<m>>) \/ Asks(Awake, <<>>) BY <1>8 DEF request_register
  <2>3. Like(u, Awake) BY <1>9 DEF Like, WmShape, Fields, wm_add
  <2>4. Like(v, Awake) /\ v.pc # "idle"
    <3> HIDE DEF u
    <3> QED BY <2>3 DEF Like, WmShape, Fields
  <2>5. m.type # "ack" OBVIOUS
  <2>8. wm.acked BY <2>1 DEF DesktopInv, TurnOK, WmAlive
  <2> HIDE DEF v, m
  <2>6. CASE Asks(v, <<m>>)
    <3>1. Continues(v) BY <1>1, <2>4, <2>5, <2>6, AsksContinues DEF Like
    <3> QED BY <1>10, <2>1, <2>4, <3>1
  <2>7. CASE Asks(Awake, <<>>)
    <3>1. Continues(Awake) BY <1>1, <1>9, <2>5, <2>7, <2>8, AsksContinues
    <3> QED BY <1>9, <1>10, <2>1, <3>1
  <2> QED BY <2>2, <2>6, <2>7
<1> QED BY <1>2, <1>3, <1>4, <1>5, <1>6, <1>7, <1>8 DEF WmStep


\* No request of the window manager but an acknowledgement is about the input.
LEMMA ControlLeaves ==
    ASSUME DesktopInv, NEW r, control(r)
    PROVE  DOMAIN managed' = DOMAIN managed
           /\ managed'.input_pending = managed.input_pending
<1>1. CASE UNCHANGED managed BY <1>1
<1>2. CASE ControlManager BY <1>2 DEF ControlManager
<1>3. CASE ControlPresent BY <1>3 DEF ControlPresent
<1>4. CASE ControlFocus(r) BY <1>4 DEF ControlFocus
<1>5. CASE Possible(r) /\ Allowed(r)
  <2>1. \/ ControlManager \/ ControlBind(r) \/ ControlUnbind(r) \/ ControlPlace(r)
        \/ ControlPresent \/ ControlFocus(r)
    BY <1>5 DEF Allowed
  <2>2. ControlBind(r) => UNCHANGED managed BY DEF ControlBind
  <2>3. ControlUnbind(r) => UNCHANGED managed BY DEF ControlUnbind
  <2>4. ControlPlace(r) => UNCHANGED managed BY DEF ControlPlace
  <2> QED BY <1>1, <1>2, <1>3, <1>4, <2>1, <2>2, <2>3, <2>4
<1>6. CASE ~Possible(r) BY <1>1, <1>6 DEF control
<1> QED BY <1>5, <1>6 DEF control

\* The server takes an acknowledgement, or answers a request.
LEMMA ServeManagerKeeps ==
    ASSUME DesktopInv, ServeManager
    PROVE  DesktopInv'
<1> DEFINE r == Head(to_display)
           q == Tail(to_display)
           p == managed.input_pending
<1>1. to_display # <<>> /\ WmAlive /\ to_display' = q /\ wm' = wm BY DEF ServeManager
<1>2. /\ WmShape(wm) /\ IsSeq(to_display) /\ IsSeq(to_wm)
      /\ {"input_pending", "manager"} \subseteq DOMAIN managed
      /\ \A k \in DOMAIN to_wm : \/ to_wm[k].type = "reply"
                                 \/ to_wm[k].type = "input" /\ to_wm[k].input # NoInput
  BY DEF DesktopInv
<1>3. PICK sent, aside, hand, back \in {0, 1} :
        /\ Counts(to_wm, "input", sent) /\ Counts(to_display, "ack", back)
        /\ aside = IF wm.deferred # NoInput THEN 1 ELSE 0
        /\ hand = IF wm.acked THEN 0 ELSE 1
        /\ sent + aside + hand + back = IF p THEN 1 ELSE 0
  BY <1>1 DEF DesktopInv, Accounted
<1>4. /\ IsSeq(q)
      /\ r.type # "ack" => Counts(q, "ack", back)
      /\ r.type = "ack" => back = 1 /\ Counts(q, "ack", 0)
  BY <1>1, <1>2, <1>3, TakeCounts
<1>5. WmAlive' BY <1>1 DEF WmAlive
<1>6. CASE r.type = "ack" /\ p
  <2>1. managed' = [managed EXCEPT !.input_pending = FALSE] /\ to_wm' = to_wm
    BY <1>6 DEF ServeManager
  <2>2. /\ {"input_pending", "manager"} \subseteq DOMAIN managed'
        /\ managed'.input_pending = FALSE
    BY <1>2, <2>1
  <2>3. 0 \in {0, 1} /\ sent + aside + hand + 0 = 0 BY <1>3, <1>4, <1>6
  <2>4. Accounted(to_display', to_wm', wm'.deferred, wm'.acked, managed'.input_pending)
    BY <1>1, <1>3, <1>4, <1>6, <2>1, <2>2, <2>3 DEF Accounted
  <2> HIDE DEF q
  <2> QED BY <1>1, <1>2, <1>4, <2>1, <2>2, <2>4 DEF DesktopInv
<1>7. CASE ~(r.type = "ack" /\ p)
  <2> DEFINE m == [type |-> "reply", ok |-> Possible(r)]
  <2>1. control(r) /\ to_wm' = Append(to_wm, m) BY <1>7 DEF ServeManager
  <2>2. r.type # "ack"
    <3> SUFFICES ASSUME r.type = "ack" PROVE FALSE OBVIOUS
    <3>1. back = 1 /\ ~p BY <1>4, <1>7
    <3> QED BY <1>3, <3>1
  <2>3. DOMAIN managed' = DOMAIN managed /\ managed'.input_pending = p BY <2>1, ControlLeaves
  <2>4. m.type = "reply" OBVIOUS
  <2> HIDE DEF m
  <2>5. /\ IsSeq(to_wm') /\ Counts(to_wm', "input", sent)
        /\ DOMAIN to_wm' = DOMAIN to_wm \cup {Len(to_wm) + 1} /\ to_wm'[Len(to_wm) + 1] = m
        /\ \A k \in DOMAIN to_wm : to_wm'[k] = to_wm[k]
    <3>1. to_wm' = to_wm \o <<m>> BY <1>2, <2>1, SendFacts
    <3>2. Counts(to_wm \o <<m>>, "input", sent) BY <1>2, <1>3, <2>4, SendCounts
    <3> DEFINE n == to_wm \o <<m>>
    <3>3. /\ IsSeq(n) /\ DOMAIN n = DOMAIN to_wm \cup {Len(to_wm) + 1}
          /\ n[Len(to_wm) + 1] = m /\ \A k \in DOMAIN to_wm : n[k] = to_wm[k]
      BY <1>2, SendFacts
    <3>4. to_wm' = n /\ Counts(n, "input", sent) BY <3>1, <3>2
    <3> HIDE DEF n
    <3> QED BY <3>3, <3>4
  <2>6. Accounted(to_display', to_wm', wm'.deferred, wm'.acked, managed'.input_pending)
    BY <1>1, <1>3, <1>4, <2>2, <2>3, <2>5 DEF Accounted
  <2>7. \A k \in DOMAIN to_wm' : \/ to_wm'[k].type = "reply"
                                 \/ to_wm'[k].type = "input" /\ to_wm'[k].input # NoInput
    BY <1>2, <2>4, <2>5
  <2> HIDE DEF q, p
  <2> QED BY <1>1, <1>2, <1>4, <2>3, <2>5, <2>6, <2>7 DEF DesktopInv
<1> QED BY <1>6, <1>7

\* The server reads an input only when none is accounted for.
LEMMA ServeInputKeeps ==
    ASSUME DesktopInv, NEW e \in Inputs, ServeInput(e)
    PROVE  DesktopInv'
<1> DEFINE m == [type |-> "input", input |-> e]
           p == managed.input_pending
<1>1. ~p /\ wm' = wm /\ to_display' = to_display BY DEF ServeInput
<1>2. CASE ~managed.manager
  <2>1. UNCHANGED <<managed, to_wm>> BY <1>2 DEF ServeInput
  <2> QED BY <1>1, <2>1, StaysKeeps
<1>3. CASE managed.manager
  <2>1. managed' = [managed EXCEPT !.input_pending = TRUE]
        /\ to_wm' = IF WmAlive THEN Append(to_wm, m) ELSE to_wm
    BY <1>3 DEF ServeInput
  <2>2. /\ WmShape(wm) /\ IsSeq(to_display) /\ IsSeq(to_wm)
        /\ {"input_pending", "manager"} \subseteq DOMAIN managed
        /\ \A k \in DOMAIN to_wm : \/ to_wm[k].type = "reply"
                                   \/ to_wm[k].type = "input" /\ to_wm[k].input # NoInput
    BY DEF DesktopInv
  <2>3. /\ {"input_pending", "manager"} \subseteq DOMAIN managed'
        /\ managed'.input_pending = TRUE
    BY <2>1, <2>2
  <2>9. WmAlive => TurnOK(wm) BY DEF DesktopInv
  <2>4. CASE ~WmAlive
    <3>1. to_wm' = to_wm /\ ~WmAlive' BY <1>1, <2>1, <2>4 DEF WmAlive
    <3> QED BY <1>1, <2>2, <2>3, <3>1, GoneKeeps
  <2>5. CASE WmAlive
    <3>1. PICK sent, aside, hand, back \in {0, 1} :
            /\ Counts(to_wm, "input", sent) /\ Counts(to_display, "ack", back)
            /\ aside = IF wm.deferred # NoInput THEN 1 ELSE 0
            /\ hand = IF wm.acked THEN 0 ELSE 1
            /\ sent + aside + hand + back = IF p THEN 1 ELSE 0
      BY <2>5 DEF DesktopInv, Accounted
    <3>2. sent = 0 /\ 1 + aside + hand + back = 1 BY <1>1, <3>1
    <3>3. m.type = "input" /\ m.input = e OBVIOUS
    <3>4. e # NoInput
      <4>1. \/ e \in (InputKind \ {"move"}) \X {0}
            \/ e \in (InputKind \cap {"move"}) \X PointerRow
        BY DEF Inputs
      <4>2. e[1] \in InputKind BY <4>1
      <4>3. "none" \notin InputKind BY WmAssumption
      <4>4. NoInput[1] = "none" BY DEF NoInput
      <4> QED BY <4>2, <4>3, <4>4
    <3> HIDE DEF m
    <3>5. to_wm' = to_wm \o <<m>> BY <2>1, <2>2, <2>5, SendFacts
    <3>6. Counts(to_wm', "input", 1)
      <4>1. 0 \in {0, 1} OBVIOUS
      <4>2. Counts(to_wm \o <<m>>, "input", 1) BY <2>2, <3>1, <3>2, <3>3, <4>1, SendCounts
      <4> QED BY <3>5, <4>2
    <3>7. /\ IsSeq(to_wm')
          /\ DOMAIN to_wm' = DOMAIN to_wm \cup {Len(to_wm) + 1} /\ to_wm'[Len(to_wm) + 1] = m
          /\ \A k \in DOMAIN to_wm : to_wm'[k] = to_wm[k]
      <4> DEFINE n == to_wm \o <<m>>
      <4>1. /\ IsSeq(n) /\ DOMAIN n = DOMAIN to_wm \cup {Len(to_wm) + 1}
            /\ n[Len(to_wm) + 1] = m /\ \A k \in DOMAIN to_wm : n[k] = to_wm[k]
        BY <2>2, SendFacts
      <4>2. to_wm' = n BY <3>5
      <4> HIDE DEF n
      <4> QED BY <4>1, <4>2
    <3>8. Accounted(to_display', to_wm', wm'.deferred, wm'.acked, managed'.input_pending)
      <4>1. 1 \in {0, 1} OBVIOUS
      <4> QED BY <1>1, <2>3, <3>1, <3>2, <3>6, <4>1 DEF Accounted
    <3>9. \A k \in DOMAIN to_wm' : \/ to_wm'[k].type = "reply"
                                   \/ to_wm'[k].type = "input" /\ to_wm'[k].input # NoInput
      BY <2>2, <3>3, <3>4, <3>7
    <3>10. TurnOK(wm') BY <1>1, <2>5, <2>9
    <3> QED BY <1>1, <2>2, <2>3, <3>7, <3>8, <3>9, <3>10 DEF DesktopInv
  <2> QED BY <2>4, <2>5
<1> QED BY <1>2, <1>3

\* Every step of the desktop.
LEMMA DesktopStep == DesktopInv /\ [DesktopNext]_desktopVars => DesktopInv'
<1> SUFFICES ASSUME DesktopInv, [DesktopNext]_desktopVars PROVE DesktopInv' OBVIOUS
<1> DEFINE Same == UNCHANGED <<wm, to_display, to_wm>>
           Pending == /\ DOMAIN managed' = DOMAIN managed
                      /\ managed'.input_pending = managed.input_pending
<1>1. CASE WmStep BY <1>1, WmStepKeeps
<1>2. CASE ServeManager BY <1>2, ServeManagerKeeps
<1>3. CASE ServeFocus
  <2>1. Same /\ managed' = [managed EXCEPT !.focus_present_pending = FALSE]
    BY <1>3 DEF ServeFocus, FocusFrame
  <2>2. Pending BY <2>1
  <2> QED BY <2>1, <2>2, StaysKeeps
<1>4. CASE ServeManagerGone
  <2>1. ~WmAlive /\ Same BY <1>4 DEF ServeManagerGone
  <2>2. ~WmAlive' BY <2>1 DEF WmAlive
  <2>3. managed' = [managed EXCEPT !.manager = FALSE, !.input_pending = FALSE,
                                   !.focus_present_pending = FALSE]
    BY <1>4 DEF ServeManagerGone, ManagerGone
  <2>4. {"input_pending", "manager"} \subseteq DOMAIN managed' BY <2>3 DEF DesktopInv
  <2> QED BY <2>1, <2>2, <2>4, GoneKeeps DEF DesktopInv
<1>5. CASE WmDies
  <2>1. wm' = [WmStart EXCEPT !.pc = "dead"] /\ to_display' = <<>> /\ to_wm' = <<>>
        /\ managed' = managed
    BY <1>5 DEF WmDies, displayVars
  <2>2. WmShape(wm') /\ wm'.pc = "dead" BY <2>1 DEF WmShape, Fields, WmStart
  <2>3. ~WmAlive' BY <2>2 DEF WmAlive
  <2>4. IsSeq(<<>>)
    <3>1. <<>> \in Seq({}) OBVIOUS
    <3> QED BY <3>1 DEF IsSeq
  <2> QED BY <2>1, <2>2, <2>3, <2>4, GoneKeeps DEF DesktopInv
<1>6. ASSUME NEW e \in Inputs, ServeInput(e) PROVE DesktopInv' BY <1>6, ServeInputKeeps
<1>7. ASSUME NEW a \in App, AppStep(a) \/ AppDies(a) PROVE DesktopInv'
  <2>1. Same BY <1>7 DEF AppStep, AppDies
  <2>2. managed' = managed
    BY <1>7 DEF AppStep, AppDies, boring_display_surface_add, display_delegate,
                boring_display_surface_commit, present_damage,
                boring_display_surface_destroy, forget_peer
  <2> QED BY <2>1, <2>2, StaysKeeps
<1>8. CASE UNCHANGED desktopVars
  <2>1. Same /\ managed' = managed BY <1>8 DEF desktopVars, displayVars
  <2> QED BY <2>1, StaysKeeps
<1> QED BY <1>1, <1>2, <1>3, <1>4, <1>5, <1>6, <1>7, <1>8 DEF DesktopNext

\* Before the window manager says hello there is no input under way.
LEMMA DesktopStarts == DesktopInit => DesktopInv
<1> SUFFICES ASSUME DesktopInit PROVE DesktopInv OBVIOUS
<1>1. wm = WmStart /\ to_display = <<>> /\ to_wm = <<>> BY DEF DesktopInit
<1>2. managed = [manager |-> FALSE, seen |-> FALSE, wallpaper |-> FALSE,
                 input_pending |-> FALSE, focus_present_pending |-> FALSE]
  BY DEF DesktopInit, DisplayInit
<1>3. IsSeq(<<>>)
  <2>1. <<>> \in Seq({}) OBVIOUS
  <2> QED BY <2>1 DEF IsSeq
<1>4. WmShape(wm) /\ wm.acked = TRUE /\ wm.deferred = NoInput /\ wm.taken = NoInput
  BY <1>1 DEF WmShape, Fields, WmStart
<1>5. {"input_pending", "manager"} \subseteq DOMAIN managed /\ managed.input_pending = FALSE
  BY <1>2
<1>6. Counts(<<>>, "input", 0) /\ Counts(<<>>, "ack", 0) BY DEF Counts, Of
<1>7. Accounted(to_display, to_wm, wm.deferred, wm.acked, managed.input_pending)
  <2>1. 0 \in {0, 1} /\ 0 + 0 + 0 + 0 = 0 OBVIOUS
  <2> QED BY <1>1, <1>4, <1>5, <1>6, <2>1 DEF Accounted
<1>8. TurnOK(wm) BY <1>4 DEF TurnOK, Early
<1> QED BY <1>1, <1>3, <1>4, <1>5, <1>7, <1>8 DEF DesktopInv

\* The places are as many as are counted, and a turn is as it should be.
LEMMA DesktopInvMeans == DesktopInv => InputAccounted
<1> SUFFICES ASSUME DesktopInv, WmAlive
             PROVE  Cardinality(InputPlaces) = IF managed.input_pending THEN 1 ELSE 0
  <2>1. DesktopInv /\ WmAlive /\ wm.pc = "idle" /\ wm.taken # NoInput =>
          wm.acked /\ (wm.deferred # NoInput => wm.taken[1] = "move")
    BY DEF DesktopInv, TurnOK, Early
  <2> QED BY <2>1 DEF InputAccounted
<1>1. PICK sent, aside, hand, back \in {0, 1} :
        /\ Counts(to_wm, "input", sent) /\ Counts(to_display, "ack", back)
        /\ aside = IF wm.deferred # NoInput THEN 1 ELSE 0
        /\ hand = IF wm.acked THEN 0 ELSE 1
        /\ sent + aside + hand + back = IF managed.input_pending THEN 1 ELSE 0
  BY DEF DesktopInv, Accounted
<1> DEFINE S == {<<"sent", i>> : i \in Of(to_wm, "input")}
           D == IF wm.deferred # NoInput THEN {<<"deferred">>} ELSE {}
           H == IF ~wm.acked THEN {<<"in hand">>} ELSE {}
           B == {<<"acknowledged", i>> : i \in Of(to_display, "ack")}
           One(T) == \E x : T = {x}
<1>2. InputPlaces = S \cup D \cup H \cup B BY DEF InputPlaces, Of
<1>3. (sent = 0 => S = {}) /\ (sent = 1 => One(S))
  <2>1. sent = 0 => Of(to_wm, "input") = {} BY <1>1 DEF Counts
  <2>2. ASSUME sent = 1 PROVE \E k : Of(to_wm, "input") = {k}
    <3>1. Counts(to_wm, "input", 1) /\ 1 # 0 BY <1>1, <2>2
    <3> QED BY <3>1 DEF Counts
  <2>3. \A k : Of(to_wm, "input") = {k} => S = {<<"sent", k>>} OBVIOUS
  <2> HIDE DEF S
  <2>4. sent = 0 => S = {}
    <3>1. Of(to_wm, "input") = {} => S = {} BY DEF S
    <3> QED BY <2>1, <3>1
  <2>5. ASSUME sent = 1 PROVE One(S)
    <3>1. PICK k : Of(to_wm, "input") = {k} BY <2>2, <2>5
    <3>2. S = {<<"sent", k>>} BY <2>3, <3>1
    <3> QED BY <3>2
  <2> QED BY <2>4, <2>5
<1>4. (back = 0 => B = {}) /\ (back = 1 => One(B))
  <2>1. back = 0 => Of(to_display, "ack") = {} BY <1>1 DEF Counts
  <2>2. ASSUME back = 1 PROVE \E k : Of(to_display, "ack") = {k}
    <3>1. Counts(to_display, "ack", 1) /\ 1 # 0 BY <1>1, <2>2
    <3> QED BY <3>1 DEF Counts
  <2>3. \A k : Of(to_display, "ack") = {k} => B = {<<"acknowledged", k>>} OBVIOUS
  <2> HIDE DEF B
  <2>4. back = 0 => B = {}
    <3>1. Of(to_display, "ack") = {} => B = {} BY DEF B
    <3> QED BY <2>1, <3>1
  <2>5. ASSUME back = 1 PROVE One(B)
    <3>1. PICK k : Of(to_display, "ack") = {k} BY <2>2, <2>5
    <3>2. B = {<<"acknowledged", k>>} BY <2>3, <3>1
    <3> QED BY <3>2
  <2> QED BY <2>4, <2>5
<1>5. (aside = 0 => D = {}) /\ (aside = 1 => One(D))
  <2>1. CASE wm.deferred # NoInput
    <3>1. aside = 1 /\ 1 # 0 BY <1>1, <2>1
    <3>2. D = {<<"deferred">>} BY <2>1
    <3> QED BY <3>1, <3>2
  <2>2. CASE wm.deferred = NoInput
    <3>1. aside = 0 /\ 1 # 0 BY <1>1, <2>2
    <3>2. D = {} BY <2>2
    <3> QED BY <3>1, <3>2
  <2> QED BY <2>1, <2>2
<1>6. (hand = 0 => H = {}) /\ (hand = 1 => One(H))
  <2>1. CASE ~wm.acked
    <3>1. hand = 1 /\ 1 # 0 BY <1>1, <2>1
    <3>2. H = {<<"in hand">>} BY <2>1
    <3> QED BY <3>1, <3>2
  <2>2. CASE wm.acked
    <3>1. hand = 0 /\ 1 # 0 BY <1>1, <2>2
    <3>2. H = {} BY <2>2
    <3> QED BY <3>1, <3>2
  <2> QED BY <2>1, <2>2
<1> HIDE DEF S, D, H, B
<1>7. CASE managed.input_pending
  <2>1. sent + aside + hand + back = 1 BY <1>1, <1>7
  <2>2. \/ sent = 1 /\ aside = 0 /\ hand = 0 /\ back = 0
        \/ sent = 0 /\ aside = 1 /\ hand = 0 /\ back = 0
        \/ sent = 0 /\ aside = 0 /\ hand = 1 /\ back = 0
        \/ sent = 0 /\ aside = 0 /\ hand = 0 /\ back = 1
    BY <2>1
  <2>3. One(InputPlaces) BY <1>2, <1>3, <1>4, <1>5, <1>6, <2>2
  <2>4. Cardinality(InputPlaces) = 1 BY <2>3, FS_Singleton
  <2> QED BY <1>7, <2>4
<1>8. CASE ~managed.input_pending
  <2>1. sent + aside + hand + back = 0 BY <1>1, <1>8
  <2>2. sent = 0 /\ aside = 0 /\ hand = 0 /\ back = 0 BY <2>1
  <2>3. InputPlaces = {} BY <1>2, <1>3, <1>4, <1>5, <1>6, <2>2
  <2>4. Cardinality(InputPlaces) = 0 BY <2>3, FS_EmptySet
  <2> QED BY <1>8, <2>4
<1> QED BY <1>7, <1>8

\* While the window manager waits for an answer it has room for the input at the
\* head of its queue: display_rpc never gives up with "WM input queue bound".
RoomForInput ==
    Waiting /\ to_wm # <<>> /\ Head(to_wm).type = "input" => wm.deferred = NoInput

\* It follows from the count.
LEMMA DesktopInvRoom == DesktopInv => RoomForInput
<1> SUFFICES ASSUME DesktopInv, Waiting, to_wm # <<>>, Head(to_wm).type = "input"
             PROVE  wm.deferred = NoInput
  BY DEF RoomForInput
<1>1. WmAlive BY DEF WmAlive, Waiting
<1>2. PICK sent, aside, hand, back \in {0, 1} :
        /\ Counts(to_wm, "input", sent)
        /\ aside = IF wm.deferred # NoInput THEN 1 ELSE 0
        /\ sent + aside + hand + back = IF managed.input_pending THEN 1 ELSE 0
  BY <1>1 DEF DesktopInv, Accounted
<1>3. sent = 1 BY <1>2, TakeCounts DEF DesktopInv
<1>4. CASE wm.deferred # NoInput
  <2>1. aside = 1 BY <1>2, <1>4
  <2>2. (IF managed.input_pending THEN 1 ELSE 0) \in {0, 1} OBVIOUS
  <2>3. 1 + 1 + hand + back \in {0, 1} BY <1>2, <1>3, <2>1, <2>2
  <2> QED BY <1>2, <2>3
<1> QED BY <1>4

\* The input that the server waits for is in exactly one place while the window
\* manager lives, and put aside while boring_event_wait blocks only after a move of
\* the pointer: the property of input_pending, acknowledge_input, display_rpc and
\* the loop of boring_main.
THEOREM InputAccountedAlways == DesktopSpec => []InputAccounted
<1> QED BY DesktopStarts, DesktopStep, DesktopInvMeans, PTL DEF DesktopSpec

\* The window manager, which has room for one input while it waits for an answer,
\* never meets a second one: the bound at which display_rpc gives up is not reached.
THEOREM RoomForInputAlways == DesktopSpec => []RoomForInput
<1> QED BY DesktopStarts, DesktopStep, DesktopInvRoom, PTL DEF DesktopSpec

=============================================================================
