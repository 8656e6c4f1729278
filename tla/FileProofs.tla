----------------------------- MODULE FileProofs -----------------------------
(***************************************************************************)
(* What is proved of the files.  Of RamFs: a file reads as what was written, *)
(* for every number of instances and nodes and every limit.  Of the whole    *)
(* layer, module FileCalls with Vfs and RamFs: no reference to a node is     *)
(* lost or given back twice, by any of the calls and on none of the ways     *)
(* through them.                                                           *)
(***************************************************************************)
EXTENDS FileCalls, Induction, FiniteSetTheorems, SequenceTheorems

----------------------------------------------------------------------------
(* The RAM file system: the inductive invariant                            *)

RamFsSpec == RamFsInit /\ [][RamFsNext]_ramfsVars

NodeRecords ==
    [type : {"none", "file", "directory"}, parent : Node \cup {<<>>},
     name : FileName \cup {""}, refs : Nat, size : 0..FileMax, data : Seq(Nat)]

\* The file o holds the bytes c at the start of its buffer.
Holds(o, c) ==
    /\ o.size <= Len(o.data) /\ Len(c) = o.size
    /\ \A i \in 1..o.size : o.data[i] = c[i]

RamFsTypes ==
    /\ nodes \in [Node -> NodeRecords]
    /\ content \in [Node -> Seq(Nat)]
    /\ registered \subseteq Instance

\* The roots are no files, a slot that is no file has no bytes.
FilesOK ==
    \A n \in Node :
        IF nodes[n].type = "file" THEN n[2] # 0 /\ Holds(nodes[n], content[n])
        ELSE content[n] = <<>> /\ nodes[n].data = <<>>

WithinLimit == \A f \in Instance : Capacities(nodes, f) <= TotalDataMax

RamFsInv == RamFsTypes /\ FilesOK /\ WithinLimit

----------------------------------------------------------------------------
(* The sum of the buffers                                                  *)

Capacity(ns, n) == IF InUse(ns, n) THEN Len(ns[n].data) ELSE 0

SumOf(ns, f, g) ==
    /\ g \in [0..NodeMax -> Nat] /\ g[0] = 0
    /\ \A k \in 1..NodeMax : g[k] = g[k - 1] + Capacity(ns, <<f, k - 1>>)

\* The definition adds up, slot after slot.
LEMMA CapacitiesSum ==
    ASSUME NEW ns \in [Node -> NodeRecords], NEW f \in Instance
    PROVE  \E g : SumOf(ns, f, g) /\ Capacities(ns, f) = g[NodeMax]
<1>1. NodeMax \in Nat BY RamFsAssumption
<1>2. \A k \in 1..NodeMax : <<f, k - 1>> \in Node BY <1>1 DEF Node, SlotOf
<1>3. \A n \in Node : Capacity(ns, n) \in Nat
  <2> SUFFICES ASSUME NEW n \in Node PROVE Capacity(ns, n) \in Nat OBVIOUS
  <2>1. ns[n].data \in Seq(Nat) BY DEF NodeRecords
  <2> QED BY <2>1 DEF Capacity
<1> DEFINE Add == [x \in Nat \X (1..NodeMax) |-> x[1] + Capacity(ns, <<f, x[2] - 1>>)]
<1>4. \A a \in Nat, k \in 1..NodeMax : Add[<<a, k>>] = a + Capacity(ns, <<f, k - 1>>)
  OBVIOUS
<1> HIDE DEF Add
<1>5. StaysIn(Add, Nat, NodeMax)
  <2>1. \A a \in Nat, k \in 1..NodeMax : a + Capacity(ns, <<f, k - 1>>) \in Nat
    BY <1>2, <1>3
  <2> QED BY <1>4, <2>1 DEF StaysIn
<1>6. PICK g : Iterates(g, Add, Nat, 0, NodeMax)
  <2>1. 0 \in Nat OBVIOUS
  <2> QED BY <1>1, <1>5, <2>1, Iteration
<1>7. SumOf(ns, f, g)
  <2>1. /\ g \in [0..NodeMax -> Nat] /\ g[0] = 0
        /\ \A k \in 1..NodeMax : g[k] = Add[<<g[k - 1], k>>]
    BY <1>6 DEF Iterates
  <2>2. \A k \in 1..NodeMax : g[k - 1] \in Nat BY <1>1, <2>1
  <2>3. \A k \in 1..NodeMax : g[k] = g[k - 1] + Capacity(ns, <<f, k - 1>>) BY <1>4, <2>1, <2>2
  <2> QED BY <2>1, <2>3 DEF SumOf
<1> DEFINE Term(k) == IF InUse(ns, <<f, k - 1>>) THEN Len(ns[<<f, k - 1>>].data) ELSE 0
           sum == CHOOSE h : h = [k \in 0..NodeMax |-> IF k = 0 THEN 0 ELSE h[k - 1] + Term(k)]
<1>8. \A k : Term(k) = Capacity(ns, <<f, k - 1>>) BY DEF Capacity
<1>9. Capacities(ns, f) = sum[NodeMax] BY DEF Capacities
<1> HIDE DEF Term
<1>10. g = [k \in 0..NodeMax |-> IF k = 0 THEN 0 ELSE g[k - 1] + Term(k)]
  <2>1. g \in [0..NodeMax -> Nat] /\ g[0] = 0 BY <1>7 DEF SumOf
  <2>2. \A k \in 1..NodeMax : g[k] = g[k - 1] + Term(k) BY <1>7, <1>8 DEF SumOf
  <2>3. \A k \in 0..NodeMax : k = 0 \/ k \in 1..NodeMax BY <1>1
  <2>4. \A k \in 0..NodeMax : g[k] = IF k = 0 THEN 0 ELSE g[k - 1] + Term(k)
    BY <2>1, <2>2, <2>3
  <2> QED BY <2>1, <2>4
<1>11. sum = [k \in 0..NodeMax |-> IF k = 0 THEN 0 ELSE sum[k - 1] + Term(k)] BY <1>10
<1> HIDE DEF sum
<1>12. SumOf(ns, f, sum)
  <2> DEFINE T == {k \in Nat : k <= NodeMax => sum[k] \in Nat}
  <2>1. \A k \in 1..NodeMax : sum[k] = sum[k - 1] + Capacity(ns, <<f, k - 1>>)
    BY <1>1, <1>8, <1>11
  <2>2. sum[0] = 0 BY <1>1, <1>11
  <2>3. 0 \in T BY <2>2
  <2>4. ASSUME NEW k \in Nat, k \in T PROVE k + 1 \in T
    <3> SUFFICES ASSUME k + 1 <= NodeMax PROVE sum[k + 1] \in Nat OBVIOUS
    <3>1. sum[k] \in Nat /\ k + 1 \in 1..NodeMax BY <1>1, <2>4
    <3>2. sum[k + 1] = sum[k] + Capacity(ns, <<f, k>>) BY <2>1, <3>1
    <3>3. Capacity(ns, <<f, k>>) \in Nat BY <1>2, <1>3, <3>1
    <3> QED BY <3>1, <3>2, <3>3
  <2> HIDE DEF T
  <2>5. Nat \subseteq T BY <2>3, <2>4, SetInduction
  <2> USE DEF T
  <2>6. \A k \in 0..NodeMax : sum[k] \in Nat BY <1>1, <2>5
  <2>7. sum \in [0..NodeMax -> Nat] BY <1>11, <2>6
  <2> QED BY <2>1, <2>2, <2>7 DEF SumOf
<1> QED BY <1>9, <1>12

\* Sums and lengths are numbers.
LEMMA CapacitiesNat ==
    ASSUME NEW ns \in [Node -> NodeRecords]
    PROVE  /\ \A f \in Instance : Capacities(ns, f) \in Nat
           /\ \A n \in Node : Capacity(ns, n) \in Nat
<1>1. ASSUME NEW f \in Instance PROVE Capacities(ns, f) \in Nat
  <2>1. PICK g : SumOf(ns, f, g) /\ Capacities(ns, f) = g[NodeMax] BY CapacitiesSum
  <2> QED BY <2>1, RamFsAssumption DEF SumOf
<1>2. ASSUME NEW n \in Node PROVE Capacity(ns, n) \in Nat
  <2>1. ns[n].data \in Seq(Nat) BY DEF NodeRecords
  <2> QED BY <2>1 DEF Capacity
<1> QED BY <1>1, <1>2

\* Buffers that are no longer do not add up to more.
LEMMA CapacitiesShrink ==
    ASSUME NEW ns \in [Node -> NodeRecords], NEW ms \in [Node -> NodeRecords], NEW f \in Instance,
           \A n \in Node : n[1] = f => Capacity(ms, n) <= Capacity(ns, n)
    PROVE  Capacities(ms, f) <= Capacities(ns, f)
<1>1. PICK g : SumOf(ns, f, g) /\ Capacities(ns, f) = g[NodeMax] BY CapacitiesSum
<1>2. PICK h : SumOf(ms, f, h) /\ Capacities(ms, f) = h[NodeMax] BY CapacitiesSum
<1>3. NodeMax \in Nat BY RamFsAssumption
<1> DEFINE T == {k \in Nat : k <= NodeMax => h[k] <= g[k]}
<1>4. 0 \in T BY <1>1, <1>2 DEF SumOf
<1>5. ASSUME NEW k \in Nat, k \in T PROVE k + 1 \in T
  <2> SUFFICES ASSUME k + 1 <= NodeMax PROVE h[k + 1] <= g[k + 1] OBVIOUS
  <2>1. k + 1 \in 1..NodeMax /\ k \in 0..NodeMax /\ k + 1 \in 0..NodeMax BY <1>3
  <2>2. g[k + 1] = g[k] + Capacity(ns, <<f, k>>) /\ g[k] \in Nat BY <1>1, <2>1 DEF SumOf
  <2>3. h[k + 1] = h[k] + Capacity(ms, <<f, k>>) /\ h[k] \in Nat BY <1>2, <2>1 DEF SumOf
  <2>4. <<f, k>> \in Node /\ <<f, k>>[1] = f BY <1>3, <2>1 DEF Node, SlotOf
  <2>5. ns[<<f, k>>].data \in Seq(Nat) /\ ms[<<f, k>>].data \in Seq(Nat)
    BY <2>4 DEF NodeRecords
  <2>6. Capacity(ns, <<f, k>>) \in Nat /\ Capacity(ms, <<f, k>>) \in Nat
    BY <2>5 DEF Capacity
  <2>7. Capacity(ms, <<f, k>>) <= Capacity(ns, <<f, k>>) BY <2>4
  <2>8. h[k] <= g[k] BY <1>3, <1>5
  <2> QED BY <2>2, <2>3, <2>6, <2>7, <2>8
<1> HIDE DEF T
<1>6. Nat \subseteq T BY <1>4, <1>5, SetInduction
<1> QED BY <1>1, <1>2, <1>3, <1>6 DEF T

\* One buffer changes, and the sum with it.
LEMMA CapacitiesChange ==
    ASSUME NEW ns \in [Node -> NodeRecords], NEW ms \in [Node -> NodeRecords], NEW x \in Node,
           \A n \in Node \ {x} : Capacity(ms, n) = Capacity(ns, n)
    PROVE  Capacities(ms, x[1]) = Capacities(ns, x[1]) - Capacity(ns, x) + Capacity(ms, x)
<1> DEFINE f == x[1]
           j == x[2]
<1>0. f \in Instance /\ j \in 0..(NodeMax - 1) /\ x = <<f, j>> BY DEF Node, SlotOf
<1> HIDE DEF f, j
<1>1. PICK g : SumOf(ns, f, g) /\ Capacities(ns, f) = g[NodeMax] BY <1>0, CapacitiesSum
<1>2. PICK h : SumOf(ms, f, h) /\ Capacities(ms, f) = h[NodeMax] BY <1>0, CapacitiesSum
<1>3. NodeMax \in Nat BY RamFsAssumption
<1> DEFINE a == Capacity(ns, x)
           b == Capacity(ms, x)
           T == {k \in Nat : k <= NodeMax => h[k] = IF k > j THEN g[k] - a + b ELSE g[k]}
<1>4. \A n \in Node : Capacity(ns, n) \in Nat /\ Capacity(ms, n) \in Nat
  <2> SUFFICES ASSUME NEW n \in Node PROVE Capacity(ns, n) \in Nat /\ Capacity(ms, n) \in Nat
    OBVIOUS
  <2>1. ns[n].data \in Seq(Nat) /\ ms[n].data \in Seq(Nat) BY DEF NodeRecords
  <2> QED BY <2>1 DEF Capacity
<1>5. a \in Nat /\ b \in Nat BY <1>4
<1>6. 0 \in T BY <1>0, <1>1, <1>2, <1>3 DEF SumOf
<1>7. ASSUME NEW k \in Nat, k \in T PROVE k + 1 \in T
  <2> SUFFICES ASSUME k + 1 <= NodeMax
               PROVE  h[k + 1] = IF k + 1 > j THEN g[k + 1] - a + b ELSE g[k + 1]
    OBVIOUS
  <2>1. k + 1 \in 1..NodeMax /\ k \in 0..NodeMax /\ k + 1 \in 0..NodeMax BY <1>3
  <2>2. g[k + 1] = g[k] + Capacity(ns, <<f, k>>) /\ g[k] \in Nat BY <1>1, <2>1 DEF SumOf
  <2>3. h[k + 1] = h[k] + Capacity(ms, <<f, k>>) /\ h[k] \in Nat BY <1>2, <2>1 DEF SumOf
  <2>4. <<f, k>> \in Node BY <1>0, <1>3, <2>1 DEF Node, SlotOf
  <2>5. Capacity(ns, <<f, k>>) \in Nat /\ Capacity(ms, <<f, k>>) \in Nat BY <1>4, <2>4
  <2>6. h[k] = IF k > j THEN g[k] - a + b ELSE g[k] BY <1>3, <1>7
  <2>7. CASE k = j
    <3>1. Capacity(ns, <<f, k>>) = a /\ Capacity(ms, <<f, k>>) = b BY <1>0, <2>7
    <3> HIDE DEF a, b
    <3>2. h[k] = g[k] BY <1>0, <2>6, <2>7
    <3>3. k + 1 > j BY <2>7
    <3> QED BY <1>5, <2>2, <2>3, <3>1, <3>2, <3>3
  <2>8. CASE k # j
    <3>1. <<f, k>> # x BY <1>0, <2>8
    <3>2. Capacity(ms, <<f, k>>) = Capacity(ns, <<f, k>>) BY <2>4, <3>1
    <3> HIDE DEF a, b
    <3>3. (k + 1 > j) <=> (k > j) BY <1>0, <2>8
    <3> QED BY <1>5, <2>2, <2>3, <2>5, <2>6, <3>2, <3>3
  <2> QED BY <2>7, <2>8
<1> HIDE DEF T
<1>8. Nat \subseteq T BY <1>6, <1>7, SetInduction
<1>9. h[NodeMax] = g[NodeMax] - a + b
  <2> HIDE DEF a, b
  <2>1. NodeMax > j BY <1>0, <1>3
  <2> QED BY <1>3, <1>8, <2>1 DEF T
<1> QED BY <1>1, <1>2, <1>9 DEF f

----------------------------------------------------------------------------
(* Bytes                                                                   *)

\* The larger of two numbers.
LEMMA LargerOf ==
    ASSUME NEW a \in Nat, NEW b \in Nat
    PROVE  Max({a, b}) = IF a >= b THEN a ELSE b
<1> DEFINE m == IF a >= b THEN a ELSE b
<1>1. m \in {a, b} /\ \A y \in {a, b} : m >= y OBVIOUS
<1>2. \A x \in {a, b} : (\A y \in {a, b} : x >= y) => x = m OBVIOUS
<1> HIDE DEF m
<1>3. Max({a, b}) = m BY <1>1, <1>2 DEF Max
<1> QED BY <1>3 DEF m

\* The smaller of two numbers.
LEMMA SmallerOf ==
    ASSUME NEW a \in Nat, NEW b \in Nat, a <= b
    PROVE  Min({a, b}) = a
<1>1. a \in {a, b} /\ \A y \in {a, b} : a <= y OBVIOUS
<1>2. \A x \in {a, b} : (\A y \in {a, b} : x <= y) => x = a OBVIOUS
<1> QED BY <1>1, <1>2 DEF Min

\* A function on 1..n is a sequence of that length.
LEMMA SequenceOf ==
    ASSUME NEW n \in Nat, NEW q, q \in [1..n -> Nat]
    PROVE  q \in Seq(Nat) /\ Len(q) = n /\ DOMAIN q = 1..n
OBVIOUS

\* The fields of a slot that a buffer is described by.
LEMMA SlotFacts ==
    ASSUME NEW o \in NodeRecords
    PROVE  o.data \in Seq(Nat) /\ o.size \in Nat /\ Len(o.data) \in Nat
<1>1. o.data \in Seq(Nat) /\ o.size \in 0..FileMax BY DEF NodeRecords
<1>2. FileMax \in Nat BY RamFsAssumption
<1>3. Len(o.data) \in Nat BY <1>1
<1> QED BY <1>1, <1>2, <1>3

\* The buffer of a file, made to hold more bytes.
LEMMA BufferedFacts ==
    ASSUME NEW o \in NodeRecords, o.size <= Len(o.data), NEW size \in Nat, o.size <= size
    PROVE  /\ Buffered(o, size) \in Seq(Nat)
           /\ Len(Buffered(o, size)) = IF size <= Len(o.data) THEN Len(o.data) ELSE size
           /\ \A i \in 1..o.size : Buffered(o, size)[i] = o.data[i]
<1>1. o.data \in Seq(Nat) /\ o.size \in Nat /\ Len(o.data) \in Nat BY SlotFacts
<1>2. CASE size <= Len(o.data) BY <1>1, <1>2 DEF Buffered
<1>3. CASE ~(size <= Len(o.data))
  <2> DEFINE front == SubSeq(o.data, 1, o.size)
             zeros == Zeros(size - o.size)
  <2>1. Buffered(o, size) = front \o zeros BY <1>3 DEF Buffered
  <2>2. front \in Seq(Nat) /\ Len(front) = o.size
        /\ \A i \in 1..o.size : front[i] = o.data[i]
    BY <1>1
  <2>3. size - o.size \in Nat BY <1>1
  <2>4. zeros \in [1..(size - o.size) -> Nat] BY DEF Zeros
  <2>5. zeros \in Seq(Nat) /\ Len(zeros) = size - o.size BY <2>3, <2>4, SequenceOf
  <2> HIDE DEF front, zeros
  <2>6. /\ front \o zeros \in Seq(Nat) /\ Len(front \o zeros) = o.size + (size - o.size)
        /\ \A i \in 1..o.size : (front \o zeros)[i] = front[i]
    <3>1. front \in Seq(Nat) /\ zeros \in Seq(Nat) BY <2>2, <2>5
    <3>2. /\ front \o zeros \in Seq(Nat) /\ Len(front \o zeros) = Len(front) + Len(zeros)
          /\ \A i \in 1..(Len(front) + Len(zeros)) : (front \o zeros)[i] =
                 IF i <= Len(front) THEN front[i] ELSE zeros[i - Len(front)]
      BY <3>1, ConcatProperties
    <3>3. \A i \in 1..o.size : i \in 1..(o.size + (size - o.size)) /\ i <= o.size
      BY <1>1, <2>3
    <3>4. Len(front) = o.size /\ Len(zeros) = size - o.size BY <2>2, <2>5
    <3> HIDE DEF front, zeros
    <3> QED BY <3>2, <3>3, <3>4
  <2>7. o.size + (size - o.size) = size BY <1>1
  <2> QED BY <1>3, <2>1, <2>2, <2>6, <2>7
<1> QED BY <1>2, <1>3

\* The buffer q is data with bytes written from an offset.
Overlaid(q, data, size, offset, bytes) ==
    /\ q \in Seq(Nat) /\ Len(q) = Len(data)
    /\ \A i \in 1..Len(data) :
           q[i] = IF i > offset /\ i <= offset + Len(bytes) THEN bytes[i - offset]
                  ELSE IF i > size /\ i <= offset THEN 0 ELSE data[i]

\* That is what Overlay computes.
LEMMA OverlayFacts ==
    ASSUME NEW data \in Seq(Nat), NEW size \in Nat, NEW offset \in Nat, NEW bytes \in Seq(Nat)
    PROVE  Overlaid(Overlay(data, size, offset, bytes), data, size, offset, bytes)
<1> DEFINE q == Overlay(data, size, offset, bytes)
           Shown(i) == IF i > offset /\ i <= offset + Len(bytes) THEN bytes[i - offset]
                    ELSE IF i > size /\ i <= offset THEN 0 ELSE data[i]
<1>1. q = [i \in 1..Len(data) |-> Shown(i)] BY DEF Overlay
<1>2. Len(data) \in Nat /\ Len(bytes) \in Nat OBVIOUS
<1>3. ASSUME NEW i \in 1..Len(data) PROVE Shown(i) \in Nat
  <2>1. data[i] \in Nat OBVIOUS
  <2>2. i > offset /\ i <= offset + Len(bytes) => bytes[i - offset] \in Nat
    <3> SUFFICES ASSUME i > offset /\ i <= offset + Len(bytes) PROVE bytes[i - offset] \in Nat
      OBVIOUS
    <3>1. i - offset \in 1..Len(bytes) BY <1>2
    <3> QED BY <3>1
  <2> QED BY <2>1, <2>2
<1> HIDE DEF q, Shown
<1>4. q \in [1..Len(data) -> Nat] BY <1>1, <1>3
<1>5. q \in Seq(Nat) /\ Len(q) = Len(data) BY <1>2, <1>4, SequenceOf
<1>6. \A i \in 1..Len(data) : q[i] = Shown(i) BY <1>1
<1> QED BY <1>5, <1>6 DEF q, Shown, Overlaid

\* A write to the buffer of a file and to its bytes.
LEMMA WriteHolds ==
    ASSUME NEW o \in NodeRecords, NEW c \in Seq(Nat), Holds(o, c),
           NEW offset \in Nat, NEW bytes \in Seq(Nat), NEW size, NEW data,
           size = Max({offset + Len(bytes), o.size}),
           data = Overlay(Buffered(o, size), o.size, offset, bytes)
    PROVE  /\ size \in Nat /\ data \in Seq(Nat)
           /\ Len(data) = IF size <= Len(o.data) THEN Len(o.data) ELSE size
           /\ Holds([o EXCEPT !.data = data, !.size = size], PlainWrite(c, offset, bytes))
           /\ PlainWrite(c, offset, bytes) \in Seq(Nat)
<1>1. /\ o.data \in Seq(Nat) /\ o.size \in Nat /\ Len(o.data) \in Nat /\ Len(bytes) \in Nat
      /\ o.size <= Len(o.data) /\ Len(c) = o.size /\ \A i \in 1..o.size : o.data[i] = c[i]
  BY SlotFacts DEF Holds
<1> DEFINE l == offset + Len(bytes)
<1>2. l \in Nat /\ offset <= l BY <1>1
<1> HIDE DEF l
<1>3. size = IF l >= o.size THEN l ELSE o.size BY <1>1, <1>2, LargerOf DEF l
<1>4. size \in Nat /\ o.size <= size /\ l <= size
  <2>1. CASE l >= o.size
    <3>1. size = l BY <1>3, <2>1
    <3> QED BY <1>1, <1>2, <2>1, <3>1
  <2>2. CASE ~(l >= o.size)
    <3>1. size = o.size BY <1>3, <2>2
    <3>2. o.size \in Nat /\ l \in Nat BY <1>1, <1>2
    <3>3. l <= o.size BY <2>2, <3>2
    <3>4. o.size \in Nat /\ o.size <= o.size /\ l <= o.size BY <3>2, <3>3
    <3> QED BY <3>1, <3>4, Zenon
  <2> QED BY <2>1, <2>2
<1>5. Max({Len(c), l}) = size
  <2>1. {Len(c), l} = {l, o.size} BY <1>1
  <2> QED BY <2>1 DEF l
<1> DEFINE b == Buffered(o, size)
<1>6. /\ b \in Seq(Nat) /\ Len(b) = IF size <= Len(o.data) THEN Len(o.data) ELSE size
      /\ \A i \in 1..o.size : b[i] = o.data[i]
  BY <1>1, <1>4, BufferedFacts
<1>7. /\ data \in Seq(Nat) /\ Len(data) = Len(b)
      /\ \A i \in 1..Len(b) : data[i] =
            IF i > offset /\ i <= l THEN bytes[i - offset]
            ELSE IF i > o.size /\ i <= offset THEN 0 ELSE b[i]
  <2>1. data = Overlay(b, o.size, offset, bytes) OBVIOUS
  <2> HIDE DEF b
  <2>2. Overlaid(data, b, o.size, offset, bytes) BY <1>1, <1>6, <2>1, OverlayFacts
  <2> QED BY <2>2 DEF l, Overlaid
<1> HIDE DEF b
<1>8. size <= Len(b) /\ Len(b) \in Nat BY <1>1, <1>4, <1>6
<1> DEFINE p == PlainWrite(c, offset, bytes)
           Shown(i) == IF i > offset /\ i <= l THEN bytes[i - offset]
                    ELSE IF i <= Len(c) THEN c[i] ELSE 0
<1>9. p = [i \in 1..size |-> Shown(i)] BY <1>5 DEF PlainWrite, l
<1>10. ASSUME NEW i \in 1..size PROVE Shown(i) \in Nat /\ data[i] = Shown(i)
  <2>1. i \in 1..Len(b) BY <1>4, <1>8
  <2>2. data[i] = IF i > offset /\ i <= l THEN bytes[i - offset]
                  ELSE IF i > o.size /\ i <= offset THEN 0 ELSE b[i]
    BY <1>7, <2>1
  <2>3. data[i] \in Nat BY <1>7, <2>1
  <2>4. CASE i > offset /\ i <= l BY <2>2, <2>3, <2>4
  <2>5. CASE ~(i > offset /\ i <= l) /\ i <= o.size
    <3>1. i \in 1..o.size BY <1>1, <2>5
    <3>2. data[i] = b[i] BY <1>1, <2>2, <2>5
    <3>3. b[i] = c[i] BY <1>1, <1>6, <3>1
    <3>4. Shown(i) = c[i] BY <1>1, <2>5
    <3> QED BY <2>3, <3>2, <3>3, <3>4
  <2>6. CASE ~(i > offset /\ i <= l) /\ ~(i <= o.size)
    <3>1. i > o.size /\ i <= offset
      <4>1. i \in Nat /\ i <= size /\ ~(i <= o.size) BY <1>4, <2>6
      <4>2. i > o.size BY <1>1, <4>1
      <4>3. l >= o.size /\ size = l BY <1>1, <1>2, <1>3, <4>1
      <4>4. ~(i > offset) BY <2>6, <4>1, <4>3
      <4> QED BY <4>1, <4>2, <4>4
    <3>2. data[i] = 0 BY <2>2, <2>6, <3>1
    <3>3. Shown(i) = 0 BY <1>1, <2>6
    <3> QED BY <3>2, <3>3
  <2> QED BY <2>4, <2>5, <2>6
<1> HIDE DEF p, Shown
<1>11. p \in [1..size -> Nat] BY <1>9, <1>10
<1>12. p \in Seq(Nat) /\ Len(p) = size BY <1>4, <1>11, SequenceOf
<1>13. \A i \in 1..size : data[i] = p[i] BY <1>9, <1>10
<1> DEFINE r == [o EXCEPT !.data = data, !.size = size]
<1>14. r.data = data /\ r.size = size BY DEF NodeRecords
<1> HIDE DEF r
<1>15. Holds(r, p) BY <1>7, <1>8, <1>12, <1>13, <1>14 DEF Holds
<1> QED BY <1>4, <1>6, <1>7, <1>12, <1>15 DEF p, r

\* Files that shrink, and that grow by zeros.
LEMMA TruncateHolds ==
    ASSUME NEW o \in NodeRecords, NEW c \in Seq(Nat), Holds(o, c), NEW size \in Nat, NEW data,
           data = IF size = 0 THEN <<>>
                  ELSE IF size <= o.size THEN o.data
                  ELSE Overlay(Buffered(o, size), o.size, size, <<>>)
    PROVE  /\ data \in Seq(Nat)
           /\ size > o.size => Len(data) = IF size <= Len(o.data) THEN Len(o.data) ELSE size
           /\ size <= o.size => Len(data) <= Len(o.data)
           /\ Holds([o EXCEPT !.data = data, !.size = size], PlainTruncate(c, size))
           /\ PlainTruncate(c, size) \in Seq(Nat)
<1>1. /\ o.data \in Seq(Nat) /\ o.size \in Nat /\ Len(o.data) \in Nat
      /\ o.size <= Len(o.data) /\ Len(c) = o.size /\ \A i \in 1..o.size : o.data[i] = c[i]
  BY SlotFacts DEF Holds
<1> DEFINE p == PlainTruncate(c, size)
           Shown(i) == IF i <= Len(c) THEN c[i] ELSE 0
<1>2. p = [i \in 1..size |-> Shown(i)] BY DEF PlainTruncate
<1>3. /\ data \in Seq(Nat) /\ size <= Len(data)
      /\ size > o.size => Len(data) = IF size <= Len(o.data) THEN Len(o.data) ELSE size
      /\ size <= o.size => Len(data) <= Len(o.data)
      /\ \A i \in 1..size : data[i] = Shown(i)
  <2>1. CASE size = 0
    <3>1. data = <<>> BY <2>1
    <3>2. Len(<<>>) = 0 /\ <<>> \in Seq(Nat) OBVIOUS
    <3>3. Len(data) = 0 /\ data \in Seq(Nat) BY <3>1, <3>2
    <3> QED BY <1>1, <2>1, <3>3
  <2>2. CASE size # 0 /\ size <= o.size
    <3>1. data = o.data BY <2>2
    <3>2. \A i \in 1..size : i \in 1..o.size /\ i <= Len(c) BY <1>1, <2>2
    <3>3. \A i \in 1..size : data[i] = Shown(i) BY <1>1, <3>1, <3>2
    <3> QED BY <1>1, <2>2, <3>1, <3>3
  <2>3. CASE size > o.size
    <3> DEFINE b == Buffered(o, size)
    <3>1. /\ b \in Seq(Nat) /\ Len(b) = IF size <= Len(o.data) THEN Len(o.data) ELSE size
          /\ \A i \in 1..o.size : b[i] = o.data[i]
      BY <1>1, <2>3, BufferedFacts
    <3>2. data = Overlay(b, o.size, size, <<>>) BY <1>1, <2>3
    <3> HIDE DEF b
    <3>3. <<>> \in Seq(Nat) /\ Len(<<>>) = 0 OBVIOUS
    <3>4. /\ data \in Seq(Nat) /\ Len(data) = Len(b)
          /\ \A i \in 1..Len(b) : data[i] =
                IF i > size /\ i <= size + Len(<<>>) THEN <<>>[i - size]
                ELSE IF i > o.size /\ i <= size THEN 0 ELSE b[i]
      <4> DEFINE e == <<>>
      <4>1. e \in Seq(Nat) OBVIOUS
      <4>2. data = Overlay(b, o.size, size, e) BY <3>2
      <4> HIDE DEF e
      <4>3. Overlaid(data, b, o.size, size, e) BY <1>1, <3>1, <4>1, <4>2, OverlayFacts
      <4> QED BY <4>3 DEF e, Overlaid
    <3>5. size <= Len(b) BY <1>1, <3>1
    <3>6. ASSUME NEW i \in 1..size PROVE data[i] = Shown(i)
      <4>1. i \in 1..Len(b) /\ i \in Nat BY <1>1, <3>1, <3>5
      <4>2. ~(i > size) BY <4>1
      <4>3. data[i] = IF i > o.size THEN 0 ELSE b[i] BY <3>4, <4>1, <4>2
      <4>4. CASE i > o.size
        <5>1. ~(i <= Len(c)) BY <1>1, <4>1, <4>4
        <5> QED BY <4>3, <4>4, <5>1
      <4>5. CASE ~(i > o.size)
        <5>1. i <= Len(c) /\ i \in 1..o.size BY <1>1, <4>1, <4>5
        <5>2. b[i] = c[i] BY <1>1, <3>1, <5>1
        <5> QED BY <4>3, <4>5, <5>1, <5>2
      <4> QED BY <4>4, <4>5
    <3>7. ~(size <= o.size) BY <1>1, <2>3
    <3> HIDE DEF Shown
    <3> QED BY <3>1, <3>4, <3>5, <3>6, <3>7
  <2> QED BY <1>1, <2>1, <2>2, <2>3
<1>4. \A i \in 1..size : Shown(i) \in Nat
  <2> SUFFICES ASSUME NEW i \in 1..size PROVE Shown(i) \in Nat OBVIOUS
  <2> HIDE DEF Shown
  <2>1. data \in Seq(Nat) /\ size <= Len(data) /\ data[i] = Shown(i) BY <1>3
  <2>2. i \in 1..Len(data) BY <2>1
  <2>3. data[i] \in Nat BY <2>1, <2>2
  <2> QED BY <2>1, <2>3
<1> HIDE DEF p, Shown
<1>5. p \in [1..size -> Nat] BY <1>2, <1>4
<1>6. p \in Seq(Nat) /\ Len(p) = size BY <1>5, SequenceOf
<1>7. \A i \in 1..size : data[i] = p[i] BY <1>2, <1>3
<1> DEFINE r == [o EXCEPT !.data = data, !.size = size]
<1>8. r.data = data /\ r.size = size BY DEF NodeRecords
<1> HIDE DEF r
<1>9. Holds(r, p) BY <1>3, <1>6, <1>7, <1>8 DEF Holds
<1> QED BY <1>3, <1>6, <1>9 DEF p, r

----------------------------------------------------------------------------
(* The steps                                                               *)

\* One file gets another buffer and other bytes.
FileChange(x, size, data, bytes) ==
    /\ nodes' = [nodes EXCEPT ![x].data = data, ![x].size = size]
    /\ content' = [content EXCEPT ![x] = bytes]
    /\ registered' = registered

\* The others keep theirs, and the limit is kept.
LEMMA FileStep ==
    ASSUME RamFsInv, NEW x \in Node, nodes[x].type = "file",
           NEW size \in 0..FileMax, NEW data \in Seq(Nat), NEW bytes \in Seq(Nat),
           Holds([nodes[x] EXCEPT !.data = data, !.size = size], bytes),
           FileChange(x, size, data, bytes),
           \/ Len(data) <= Len(nodes[x].data)
           \/ Len(data) + Capacities(nodes, x[1]) - Len(nodes[x].data) <= TotalDataMax
    PROVE  RamFsInv'
<1>1. nodes \in [Node -> NodeRecords] /\ content \in [Node -> Seq(Nat)] /\ registered \subseteq Instance
  BY DEF RamFsInv, RamFsTypes
<1> DEFINE r == [nodes[x] EXCEPT !.data = data, !.size = size]
<1>2. nodes' = [nodes EXCEPT ![x] = r] BY <1>1 DEF FileChange
<1>3. r \in NodeRecords /\ r.type = "file" /\ r.data = data BY <1>1 DEF NodeRecords
<1> HIDE DEF r
<1>4. nodes' \in [Node -> NodeRecords] BY <1>1, <1>2, <1>3
<1>5. content' \in [Node -> Seq(Nat)] BY <1>1 DEF FileChange
<1>6. nodes'[x] = r /\ \A n \in Node \ {x} : nodes'[n] = nodes[n] BY <1>1, <1>2
<1>7. content'[x] = bytes /\ \A n \in Node \ {x} : content'[n] = content[n] BY <1>1 DEF FileChange
<1>8. FilesOK'
  <2>1. Holds(r, bytes) BY DEF r
  <2>2. x[2] # 0 BY DEF RamFsInv, FilesOK
  <2>3. ASSUME NEW n \in Node
        PROVE  IF nodes'[n].type = "file" THEN n[2] # 0 /\ Holds(nodes'[n], content'[n])
               ELSE content'[n] = <<>> /\ nodes'[n].data = <<>>
    <3>1. CASE n = x BY <1>3, <1>6, <1>7, <2>1, <2>2, <3>1
    <3>2. CASE n # x
      <4>1. nodes'[n] = nodes[n] /\ content'[n] = content[n] BY <1>6, <1>7, <3>2
      <4> QED BY <4>1 DEF RamFsInv, FilesOK
    <3> QED BY <3>1, <3>2
  <2> QED BY <2>3 DEF FilesOK
<1>9. ASSUME NEW n \in Node \ {x} PROVE Capacity(nodes', n) = Capacity(nodes, n)
  <2>1. nodes'[n] = nodes[n] BY <1>6
  <2> QED BY <2>1 DEF Capacity, InUse
<1>10. Capacity(nodes', x) = Len(data) /\ Capacity(nodes, x) = Len(nodes[x].data)
  BY <1>3, <1>6 DEF Capacity, InUse
<1>11. x[1] \in Instance BY DEF Node
<1>12. \A f \in Instance : Capacities(nodes, f) \in Nat BY <1>1, CapacitiesNat
<1>13. Capacities(nodes', x[1]) = Capacities(nodes, x[1]) - Len(nodes[x].data) + Len(data)
  <2>1. Capacities(nodes', x[1])
            = Capacities(nodes, x[1]) - Capacity(nodes, x) + Capacity(nodes', x)
    <3>1. \A n \in Node \ {x} : Capacity(nodes', n) = Capacity(nodes, n) BY <1>9
    <3> QED BY <1>1, <1>4, <3>1, CapacitiesChange
  <2> QED BY <1>10, <2>1
<1>14. ASSUME NEW f \in Instance PROVE Capacities(nodes', f) <= TotalDataMax
  <2>1. Capacities(nodes, f) <= TotalDataMax BY DEF RamFsInv, WithinLimit
  <2>2. CASE f = x[1]
    <3>1. Len(data) \in Nat /\ Len(nodes[x].data) \in Nat BY <1>1, SlotFacts
    <3>2. Capacities(nodes, x[1]) \in Nat /\ TotalDataMax \in Nat
      BY <1>11, <1>12, RamFsAssumption
    <3>3. Capacities(nodes, x[1]) <= TotalDataMax BY <2>1, <2>2
    <3>4. Capacities(nodes', x[1]) <= TotalDataMax BY <1>13, <3>1, <3>2, <3>3
    <3> QED BY <2>2, <3>4
  <2>3. CASE f # x[1]
    <3>1. ASSUME NEW n \in Node, n[1] = f PROVE Capacity(nodes', n) <= Capacity(nodes, n)
      <4>1. n # x BY <2>3, <3>1
      <4>2. Capacity(nodes', n) = Capacity(nodes, n) BY <1>9, <4>1
      <4>3. Capacity(nodes, n) \in Nat BY <1>1, CapacitiesNat
      <4> QED BY <4>2, <4>3
    <3>4. Capacities(nodes', f) <= Capacities(nodes, f) BY <1>1, <1>4, <3>1, CapacitiesShrink
    <3>5. Capacities(nodes', f) \in Nat BY <1>4, CapacitiesNat
    <3> QED BY <1>12, <2>1, <3>4, <3>5, RamFsAssumption
  <2> QED BY <2>2, <2>3
<1>15. registered' \subseteq Instance BY <1>1 DEF FileChange
<1> QED BY <1>4, <1>5, <1>8, <1>14, <1>15 DEF RamFsInv, RamFsTypes, WithinLimit

\* Slots are given to new nodes, renamed or emptied; files that stay keep their
\* buffers and bytes.
LEMMA SlotsStep ==
    ASSUME RamFsInv, nodes' \in [Node -> NodeRecords], content' \in [Node -> Seq(Nat)],
           registered' \subseteq Instance,
           \A n \in Node :
              \/ /\ nodes'[n].type = nodes[n].type /\ nodes'[n].size = nodes[n].size
                 /\ nodes'[n].data = nodes[n].data /\ content'[n] = content[n]
              \/ /\ nodes'[n].size = 0 /\ nodes'[n].data = <<>> /\ content'[n] = <<>>
                 /\ nodes'[n].type = "file" => n[2] # 0
    PROVE  RamFsInv'
<1>1. nodes \in [Node -> NodeRecords] BY DEF RamFsInv, RamFsTypes
<1>2. Len(<<>>) = 0 OBVIOUS
<1>3. FilesOK'
  <2> SUFFICES ASSUME NEW n \in Node
               PROVE  IF nodes'[n].type = "file" THEN n[2] # 0 /\ Holds(nodes'[n], content'[n])
                      ELSE content'[n] = <<>> /\ nodes'[n].data = <<>>
    BY DEF FilesOK
  <2>1. CASE /\ nodes'[n].type = nodes[n].type /\ nodes'[n].size = nodes[n].size
             /\ nodes'[n].data = nodes[n].data /\ content'[n] = content[n]
    BY <2>1 DEF RamFsInv, FilesOK, Holds
  <2>2. CASE /\ nodes'[n].size = 0 /\ nodes'[n].data = <<>> /\ content'[n] = <<>>
             /\ nodes'[n].type = "file" => n[2] # 0
    <3>1. Holds(nodes'[n], content'[n]) BY <1>2, <2>2 DEF Holds
    <3> QED BY <2>2, <3>1
  <2> QED BY <2>1, <2>2
<1>4. ASSUME NEW n \in Node PROVE Capacity(nodes', n) <= Capacity(nodes, n)
  <2>1. Len(nodes[n].data) \in Nat BY <1>1, SlotFacts
  <2>2. CASE nodes'[n].type = nodes[n].type /\ nodes'[n].data = nodes[n].data
    BY <2>1, <2>2 DEF Capacity, InUse
  <2>3. CASE nodes'[n].data = <<>>
    <3>1. Capacity(nodes', n) = 0 BY <1>2, <2>3 DEF Capacity
    <3> QED BY <2>1, <3>1 DEF Capacity
  <2> QED BY <2>2, <2>3
<1>5. ASSUME NEW f \in Instance PROVE Capacities(nodes', f) <= TotalDataMax
  <2>1. Capacities(nodes', f) <= Capacities(nodes, f) BY <1>1, <1>4, CapacitiesShrink
  <2>2. Capacities(nodes, f) <= TotalDataMax BY DEF RamFsInv, WithinLimit
  <2>3. Capacities(nodes, f) \in Nat /\ Capacities(nodes', f) \in Nat BY <1>1, CapacitiesNat
  <2> QED BY <2>1, <2>2, <2>3, RamFsAssumption
<1> QED BY <1>3, <1>5 DEF RamFsInv, RamFsTypes, WithinLimit

\* A table with free slots has a first one.
LEMMA FirstSlotIn ==
    ASSUME NEW S, S \subseteq Node, S # {}
    PROVE  FirstSlot(S) \in S
<1> DEFINE T == {n[2] : n \in S}
<1>1. \A n \in Node : n[2] \in Nat BY DEF Node, SlotOf
<1>2. T \subseteq Nat /\ T # {} BY <1>1
<1>3. PICK m \in T : \A k \in T : m <= k
  <2> HIDE DEF T
  <2> QED BY <1>2, LeastElement
<1>4. PICK n \in S : n[2] = m OBVIOUS
<1>5. \A k \in S : n[2] <= k[2] BY <1>3, <1>4
<1> QED BY <1>4, <1>5 DEF FirstSlot

\* A change of slots, in the two ways of SlotsStep.
Rearranged(ns) ==
    /\ ns \in [Node -> NodeRecords]
    /\ \A n \in Node :
          \/ /\ ns[n].type = nodes[n].type /\ ns[n].size = nodes[n].size
             /\ ns[n].data = nodes[n].data
          \/ /\ ns[n].size = 0 /\ ns[n].data = <<>>
             /\ ns[n].type = "file" => n[2] # 0 /\ nodes[n].type # "file"

\* A new file has no bytes, whatever its slot held before.
LEMMA ChangeKeeps ==
    ASSUME RamFsInv, NEW ns, Rearranged(ns), Change(ns)
    PROVE  RamFsInv'
<1>1. nodes' = ns /\ content' = ContentOf(ns) /\ registered' = registered BY DEF Change
<1>2. content \in [Node -> Seq(Nat)] /\ registered \subseteq Instance BY DEF RamFsInv, RamFsTypes
<1>3. <<>> \in Seq(Nat) OBVIOUS
<1>4. content' = [n \in Node |-> IF ns[n].type = "file" THEN content[n] ELSE <<>>]
  BY <1>1 DEF ContentOf
<1>5. content' \in [Node -> Seq(Nat)] BY <1>2, <1>3, <1>4
<1>6. ASSUME NEW n \in Node
      PROVE  \/ /\ nodes'[n].type = nodes[n].type /\ nodes'[n].size = nodes[n].size
                /\ nodes'[n].data = nodes[n].data /\ content'[n] = content[n]
             \/ /\ nodes'[n].size = 0 /\ nodes'[n].data = <<>> /\ content'[n] = <<>>
                /\ nodes'[n].type = "file" => n[2] # 0
  <2>1. content'[n] = IF ns[n].type = "file" THEN content[n] ELSE <<>> BY <1>4
  <2>2. nodes[n].type # "file" => content[n] = <<>> BY DEF RamFsInv, FilesOK
  <2>3. CASE ns[n].type = nodes[n].type /\ ns[n].size = nodes[n].size /\ ns[n].data = nodes[n].data
    <3>1. content'[n] = content[n] BY <2>1, <2>2, <2>3
    <3> QED BY <1>1, <2>3, <3>1
  <2>4. CASE /\ ns[n].size = 0 /\ ns[n].data = <<>>
             /\ ns[n].type = "file" => n[2] # 0 /\ nodes[n].type # "file"
    <3>1. content'[n] = <<>> BY <2>1, <2>2, <2>4
    <3> QED BY <1>1, <2>4, <3>1
  <2> QED BY <2>3, <2>4 DEF Rearranged
<1>7. nodes' \in [Node -> NodeRecords] BY <1>1 DEF Rearranged
<1> QED BY <1>1, <1>2, <1>5, <1>6, <1>7, SlotsStep

\* New nodes and free slots are empty.
LEMMA NewRecords ==
    /\ NoFile \in NodeRecords /\ NoFile.size = 0 /\ NoFile.data = <<>> /\ NoFile.type = "none"
    /\ \A type \in {"file", "directory"}, d \in Node, name \in FileName \cup {""} :
          LET o == NewNode(type, d, name)
          IN  o \in NodeRecords /\ o.size = 0 /\ o.data = <<>> /\ o.type = type
<1>1. 0 \in 0..FileMax /\ <<>> \in Seq(Nat) /\ 0 \in Nat BY RamFsAssumption
<1> QED BY <1>1 DEF NoFile, NewNode, NodeRecords

\* A slot is given to a new node.
LEMMA CreateKeeps ==
    ASSUME RamFsInv, NEW d \in Node, NEW name \in FileName, NEW type \in {"file", "directory"}
    PROVE  Rearranged(ramfs_create_node(nodes, d, name, type))
<1> DEFINE free == FreeSlots(nodes, d[1])
           x == FirstSlot(free)
           o == NewNode(type, d, name)
<1>1. nodes \in [Node -> NodeRecords] BY DEF RamFsInv, RamFsTypes
<1>2. o \in NodeRecords /\ o.size = 0 /\ o.data = <<>> /\ o.type = type BY NewRecords
<1>3. CASE ramfs_create_node(nodes, d, name, type) = nodes BY <1>1, <1>3 DEF Rearranged
<1>4. CASE free # {} /\ ramfs_create_node(nodes, d, name, type) = [nodes EXCEPT ![x] = o]
  <2>1. free \subseteq Node BY DEF FreeSlots
  <2>2. x \in free
    <3> HIDE DEF free
    <3> QED BY <1>4, <2>1, FirstSlotIn
  <2>3. x \in Node /\ x[2] # 0 /\ nodes[x].type = "none" BY <2>2 DEF FreeSlots, InUse
  <2> HIDE DEF free, x, o
  <2> DEFINE ns == [nodes EXCEPT ![x] = o]
  <2>4. ns \in [Node -> NodeRecords] /\ ns[x] = o /\ \A n \in Node \ {x} : ns[n] = nodes[n]
    BY <1>1, <1>2, <2>3
  <2> HIDE DEF ns
  <2>5. Rearranged(ns) BY <1>2, <2>3, <2>4 DEF Rearranged
  <2> QED BY <1>4, <2>5 DEF ns
<1> QED BY <1>3, <1>4 DEF ramfs_create_node

\* A slot becomes free.
LEMMA RemoveKeeps ==
    ASSUME RamFsInv, NEW d \in Node, NEW name \in FileName, NEW type
    PROVE  Rearranged(ramfs_remove_node(nodes, d, name, type))
<1> DEFINE found == {n \in ramfs_find_child(nodes, d, name) :
                        nodes[n].type = type /\ ramfs_removable(nodes, n)}
           x == CHOOSE n \in found : TRUE
<1>1. nodes \in [Node -> NodeRecords] BY DEF RamFsInv, RamFsTypes
<1>2. CASE ramfs_remove_node(nodes, d, name, type) = nodes BY <1>1, <1>2 DEF Rearranged
<1>3. CASE found # {} /\ ramfs_remove_node(nodes, d, name, type) = [nodes EXCEPT ![x] = NoFile]
  <2>1. found \subseteq Node BY DEF ramfs_find_child, Entries
  <2>2. x \in Node BY <1>3, <2>1
  <2> HIDE DEF found, x
  <2> DEFINE ns == [nodes EXCEPT ![x] = NoFile]
  <2>3. ns \in [Node -> NodeRecords] /\ ns[x] = NoFile /\ \A n \in Node \ {x} : ns[n] = nodes[n]
    BY <1>1, <2>2, NewRecords
  <2> HIDE DEF ns
  <2>4. Rearranged(ns) BY <2>3, NewRecords DEF Rearranged
  <2> QED BY <1>3, <2>4 DEF ns
<1> QED BY <1>2, <1>3 DEF ramfs_remove_node

\* A node gets another name and another parent.
LEMMA RenameKeeps ==
    ASSUME RamFsInv, NEW d \in Node, NEW e \in Node, NEW name \in FileName, NEW newname \in FileName
    PROVE  Rearranged(ramfs_rename(nodes, d, name, e, newname))
<1> DEFINE found == {n \in ramfs_find_child(nodes, d, name) :
                        ramfs_validate_rename_cycle(nodes, n, e)}
           x == CHOOSE m \in found : TRUE
<1>1. nodes \in [Node -> NodeRecords] BY DEF RamFsInv, RamFsTypes
<1>2. CASE ramfs_rename(nodes, d, name, e, newname) = nodes BY <1>1, <1>2 DEF Rearranged
<1>3. CASE /\ found # {}
           /\ ramfs_rename(nodes, d, name, e, newname)
                  = [nodes EXCEPT ![x].parent = e, ![x].name = newname]
  <2>1. found \subseteq Node BY DEF ramfs_find_child, Entries
  <2>2. x \in Node BY <1>3, <2>1
  <2> HIDE DEF found, x
  <2> DEFINE o == [nodes[x] EXCEPT !.parent = e, !.name = newname]
             ns == [nodes EXCEPT ![x] = o]
  <2>3. o \in NodeRecords /\ o.type = nodes[x].type /\ o.size = nodes[x].size
        /\ o.data = nodes[x].data
    BY <1>1, <2>2 DEF NodeRecords
  <2>4. [nodes EXCEPT ![x].parent = e, ![x].name = newname] = ns BY <1>1, <2>2
  <2> HIDE DEF o
  <2>5. ns \in [Node -> NodeRecords] /\ ns[x] = o /\ \A n \in Node \ {x} : ns[n] = nodes[n]
    BY <1>1, <2>2, <2>3
  <2> HIDE DEF ns
  <2>6. Rearranged(ns) BY <2>3, <2>5 DEF Rearranged
  <2> QED BY <1>3, <2>4, <2>6
<1> QED BY <1>2, <1>3 DEF ramfs_rename

\* A write makes the buffer longer only within the limit.
LEMMA WriteKeeps ==
    ASSUME RamFsInv, NEW x \in Node, NEW offset \in 0..FileMax, NEW bytes \in Seq(Nat), bytes # <<>>,
           NEW heap \in BOOLEAN, write(x, offset, bytes, heap)
    PROVE  RamFsInv'
<1> DEFINE o == nodes[x]
           c == content[x]
           size == Max({offset + Len(bytes), o.size})
           data == Overlay(Buffered(o, size), o.size, offset, bytes)
<1>1. nodes \in [Node -> NodeRecords] /\ content \in [Node -> Seq(Nat)] /\ FileMax \in Nat
  BY RamFsAssumption DEF RamFsInv, RamFsTypes
<1>2. /\ o.type = "file" /\ offset + Len(bytes) <= FileMax
      /\ \/ size <= Len(o.data)
         \/ size + Capacities(nodes, x[1]) - Len(o.data) <= TotalDataMax
  BY DEF write, WriteFits, ramfs_prepare_capacity
<1>3. ramfs_write(nodes, x, offset, bytes, heap)
          = [nodes EXCEPT ![x].data = data, ![x].size = size]
  BY DEF write, ramfs_write
<1>4. nodes' = [nodes EXCEPT ![x].data = data, ![x].size = size]
      /\ content' = [content EXCEPT ![x] = PlainWrite(c, offset, bytes)]
      /\ registered' = registered
  BY <1>1, <1>3 DEF write
<1>5. o \in NodeRecords /\ c \in Seq(Nat) /\ offset \in Nat /\ Len(bytes) \in Nat
      /\ o.size \in 0..FileMax
  <2>1. o \in NodeRecords /\ c \in Seq(Nat) BY <1>1
  <2>2. o.size \in 0..FileMax BY <2>1 DEF NodeRecords
  <2>3. offset \in Nat /\ Len(bytes) \in Nat BY <1>1
  <2> QED BY <2>1, <2>2, <2>3
<1>6. Holds(o, c) BY <1>2 DEF RamFsInv, FilesOK
<1>7. size = IF offset + Len(bytes) >= o.size THEN offset + Len(bytes) ELSE o.size
  <2>1. offset + Len(bytes) \in Nat /\ o.size \in Nat BY <1>1, <1>5
  <2> HIDE DEF o
  <2> QED BY <2>1, LargerOf
<1>8. /\ size \in Nat /\ data \in Seq(Nat)
      /\ Len(data) = IF size <= Len(o.data) THEN Len(o.data) ELSE size
      /\ Holds([o EXCEPT !.data = data, !.size = size], PlainWrite(c, offset, bytes))
      /\ PlainWrite(c, offset, bytes) \in Seq(Nat)
  <2> HIDE DEF o, c
  <2> QED BY <1>5, <1>6, WriteHolds
<1> HIDE DEF size, data
<1>9. size \in 0..FileMax BY <1>1, <1>2, <1>5, <1>7
<1>10. \/ Len(data) <= Len(o.data)
       \/ Len(data) + Capacities(nodes, x[1]) - Len(o.data) <= TotalDataMax
  <2>1. Len(o.data) \in Nat BY <1>5, SlotFacts
  <2>2. CASE size <= Len(o.data) BY <1>8, <2>1, <2>2
  <2>3. CASE ~(size <= Len(o.data))
    <3>1. Len(data) = size BY <1>8, <2>3
    <3> QED BY <1>2, <2>3, <3>1
  <2> QED BY <2>2, <2>3
<1> QED BY <1>2, <1>4, <1>8, <1>9, <1>10, FileStep DEF FileChange

\* So does a truncation; one that shrinks keeps the buffer.
LEMMA TruncateKeeps ==
    ASSUME RamFsInv, NEW x \in Node, NEW size \in 0..FileMax,
           NEW heap \in BOOLEAN, truncate(x, size, heap)
    PROVE  RamFsInv'
<1> DEFINE o == nodes[x]
           c == content[x]
           data == IF size = 0 THEN <<>>
                   ELSE IF size <= o.size THEN o.data
                   ELSE Overlay(Buffered(o, size), o.size, size, <<>>)
<1>1. nodes \in [Node -> NodeRecords] /\ content \in [Node -> Seq(Nat)] /\ FileMax \in Nat
  BY RamFsAssumption DEF RamFsInv, RamFsTypes
<1>2. /\ o.type = "file"
      /\ size > o.size => \/ size <= Len(o.data)
                          \/ size + Capacities(nodes, x[1]) - Len(o.data) <= TotalDataMax
  BY DEF truncate, TruncateFits, ramfs_prepare_capacity
<1>3. o \in NodeRecords /\ c \in Seq(Nat) /\ size \in Nat BY <1>1
<1>4. ramfs_truncate(nodes, x, size, heap) = [nodes EXCEPT ![x].data = data, ![x].size = size]
  <2>1. TruncateFits(nodes, x, size, heap) BY DEF truncate
  <2>2. CASE size = 0 BY <2>1, <2>2 DEF ramfs_truncate
  <2>3. CASE size # 0 /\ size <= o.size
    <3>1. data = o.data BY <2>3
    <3>2. ramfs_truncate(nodes, x, size, heap) = [nodes EXCEPT ![x].size = size]
      BY <2>1, <2>3 DEF ramfs_truncate
    <3>3. [nodes EXCEPT ![x].size = size] = [nodes EXCEPT ![x].data = o.data, ![x].size = size]
      BY <1>1 DEF NodeRecords
    <3> QED BY <3>1, <3>2, <3>3
  <2>4. CASE size # 0 /\ ~(size <= o.size) BY <2>1, <2>4 DEF ramfs_truncate
  <2> QED BY <2>2, <2>3, <2>4
<1>5. nodes' = [nodes EXCEPT ![x].data = data, ![x].size = size]
      /\ content' = [content EXCEPT ![x] = PlainTruncate(c, size)]
      /\ registered' = registered
  BY <1>1, <1>4 DEF truncate
<1>6. Holds(o, c) BY <1>2 DEF RamFsInv, FilesOK
<1>7. /\ data \in Seq(Nat)
      /\ size > o.size => Len(data) = IF size <= Len(o.data) THEN Len(o.data) ELSE size
      /\ size <= o.size => Len(data) <= Len(o.data)
      /\ Holds([o EXCEPT !.data = data, !.size = size], PlainTruncate(c, size))
      /\ PlainTruncate(c, size) \in Seq(Nat)
  <2> HIDE DEF o, c
  <2> QED BY <1>3, <1>6, TruncateHolds
<1> HIDE DEF data
<1>8. \/ Len(data) <= Len(o.data)
      \/ Len(data) + Capacities(nodes, x[1]) - Len(o.data) <= TotalDataMax
  <2>1. Len(o.data) \in Nat /\ o.size \in Nat BY <1>3, SlotFacts
  <2>2. CASE size <= o.size BY <1>7, <2>2
  <2>3. CASE size > o.size /\ size <= Len(o.data) BY <1>7, <2>1, <2>3
  <2>4. CASE size > o.size /\ ~(size <= Len(o.data))
    <3>1. Len(data) = size BY <1>7, <2>4
    <3> QED BY <1>2, <2>4, <3>1
  <2> QED BY <1>3, <2>1, <2>2, <2>3, <2>4
<1> QED BY <1>2, <1>5, <1>7, <1>8, FileStep DEF FileChange

\* A new instance has an empty root, one that goes leaves nothing.
LEMMA InstancesKeep ==
    ASSUME RamFsInv, NEW f \in Instance,
           ramfs_create_filesystem(f) \/ ramfs_destroy_filesystem(f)
    PROVE  RamFsInv'
<1>1. /\ nodes \in [Node -> NodeRecords] /\ content \in [Node -> Seq(Nat)]
      /\ registered \subseteq Instance
  BY DEF RamFsInv, RamFsTypes
<1>2. CASE ramfs_create_filesystem(f)
  <2> DEFINE x == RootOf(f)
             o == NewNode("directory", x, "")
  <2>1. x \in Node /\ x[2] = 0
    <3>1. 0 \in SlotOf BY RamFsAssumption DEF SlotOf
    <3> QED BY <3>1 DEF RootOf, Node
  <2>2. o \in NodeRecords /\ o.size = 0 /\ o.data = <<>> /\ o.type = "directory"
    <3> HIDE DEF x
    <3> QED BY <2>1, NewRecords
  <2>3. nodes' = [nodes EXCEPT ![x] = o] /\ content' = content
        /\ registered' = registered \cup {f}
    BY <1>2 DEF ramfs_create_filesystem
  <2> HIDE DEF x, o
  <2>4. nodes' \in [Node -> NodeRecords] /\ nodes'[x] = o
        /\ \A n \in Node \ {x} : nodes'[n] = nodes[n]
    BY <1>1, <2>1, <2>2, <2>3
  <2>5. content[x] = <<>> BY <2>1 DEF RamFsInv, FilesOK
  <2>6. ASSUME NEW n \in Node
        PROVE  \/ /\ nodes'[n].type = nodes[n].type /\ nodes'[n].size = nodes[n].size
                  /\ nodes'[n].data = nodes[n].data /\ content'[n] = content[n]
               \/ /\ nodes'[n].size = 0 /\ nodes'[n].data = <<>> /\ content'[n] = <<>>
                  /\ nodes'[n].type = "file" => n[2] # 0
    <3>1. CASE n = x BY <2>2, <2>3, <2>4, <2>5, <3>1
    <3>2. CASE n # x
      <4>1. nodes'[n] = nodes[n] /\ content'[n] = content[n] BY <2>3, <2>4, <3>2
      <4> QED BY <4>1
    <3> QED BY <3>1, <3>2
  <2>7. registered' \subseteq Instance /\ content' \in [Node -> Seq(Nat)] BY <1>1, <2>3
  <2> QED BY <2>4, <2>6, <2>7, SlotsStep
<1>3. CASE ramfs_destroy_filesystem(f)
  <2>1. /\ nodes' = [n \in Node |-> IF n[1] = f THEN NoFile ELSE nodes[n]]
        /\ content' = [n \in Node |-> IF n[1] = f THEN <<>> ELSE content[n]]
        /\ registered' = registered \ {f}
    BY <1>3 DEF ramfs_destroy_filesystem
  <2>2. <<>> \in Seq(Nat) OBVIOUS
  <2>3. nodes' \in [Node -> NodeRecords] BY <1>1, <2>1, NewRecords
  <2>4. content' \in [Node -> Seq(Nat)] BY <1>1, <2>1, <2>2
  <2>5. ASSUME NEW n \in Node
        PROVE  \/ /\ nodes'[n].type = nodes[n].type /\ nodes'[n].size = nodes[n].size
                  /\ nodes'[n].data = nodes[n].data /\ content'[n] = content[n]
               \/ /\ nodes'[n].size = 0 /\ nodes'[n].data = <<>> /\ content'[n] = <<>>
                  /\ nodes'[n].type = "file" => n[2] # 0
    <3>1. CASE n[1] = f
      <4>1. nodes'[n] = NoFile /\ content'[n] = <<>> BY <2>1, <3>1
      <4>2. nodes'[n].type # "file" BY <4>1, NewRecords
      <4> QED BY <4>1, <4>2, NewRecords
    <3>2. CASE n[1] # f
      <4>1. nodes'[n] = nodes[n] /\ content'[n] = content[n] BY <2>1, <3>2
      <4> QED BY <4>1
    <3> QED BY <3>1, <3>2
  <2>6. registered' \subseteq Instance BY <1>1, <2>1
  <2> QED BY <2>3, <2>4, <2>5, <2>6, SlotsStep
<1> QED BY <1>2, <1>3

\* Every operation.
LEMMA RamFsStep == RamFsInv /\ [RamFsNext]_ramfsVars => RamFsInv'
<1> SUFFICES ASSUME RamFsInv, [RamFsNext]_ramfsVars PROVE RamFsInv' OBVIOUS
<1>1. ASSUME NEW f \in Instance, ramfs_create_filesystem(f) \/ ramfs_destroy_filesystem(f)
      PROVE  RamFsInv'
  BY <1>1, InstancesKeep
<1>2. ASSUME NEW d \in Node, NEW name \in FileName, NEW type \in {"file", "directory"},
             \/ Change(ramfs_create_node(nodes, d, name, type))
             \/ Change(ramfs_remove_node(nodes, d, name, type))
      PROVE  RamFsInv'
  <2>1. Rearranged(ramfs_create_node(nodes, d, name, type)) BY CreateKeeps
  <2>2. Rearranged(ramfs_remove_node(nodes, d, name, type)) BY RemoveKeeps
  <2> QED BY <1>2, <2>1, <2>2, ChangeKeeps
<1>3. ASSUME NEW d \in Node, NEW e \in Node, NEW name \in FileName, NEW newname \in FileName,
             Change(ramfs_rename(nodes, d, name, e, newname))
      PROVE  RamFsInv'
  <2>1. Rearranged(ramfs_rename(nodes, d, name, e, newname)) BY RenameKeeps
  <2> QED BY <1>3, <2>1, ChangeKeeps
<1>4. ASSUME NEW n \in Node, NEW offset \in 0..FileMax, NEW k \in 1..FileMax, NEW b \in Byte,
             NEW heap \in BOOLEAN, write(n, offset, [i \in 1..k |-> b], heap)
      PROVE  RamFsInv'
  <2> DEFINE bytes == [i \in 1..k |-> b]
  <2>1. k \in Nat /\ k # 0 /\ b \in Nat BY RamFsAssumption
  <2>2. bytes \in [1..k -> Nat] BY <2>1
  <2>3. write(n, offset, bytes, heap) BY <1>4
  <2> HIDE DEF bytes
  <2>4. bytes \in Seq(Nat) /\ Len(bytes) = k BY <2>1, <2>2, SequenceOf
  <2>5. bytes # <<>>
    <3>1. Len(<<>>) = 0 OBVIOUS
    <3> QED BY <2>1, <2>4, <3>1
  <2> QED BY <2>3, <2>4, <2>5, WriteKeeps
<1>5. ASSUME NEW n \in Node, NEW size \in 0..FileMax, NEW heap \in BOOLEAN,
             truncate(n, size, heap)
      PROVE  RamFsInv'
  BY <1>5, TruncateKeeps
<1>6. CASE UNCHANGED ramfsVars
  <2>1. nodes' = nodes /\ content' = content /\ registered' = registered BY <1>6 DEF ramfsVars
  <2>2. /\ nodes \in [Node -> NodeRecords] /\ content \in [Node -> Seq(Nat)]
        /\ registered \subseteq Instance
    BY DEF RamFsInv, RamFsTypes
  <2> QED BY <2>1, <2>2, SlotsStep
<1> QED BY <1>1, <1>2, <1>3, <1>4, <1>5, <1>6 DEF RamFsNext

\* Empty slots take no memory.
LEMMA RamFsStarts == RamFsInit => RamFsInv
<1> SUFFICES ASSUME RamFsInit PROVE RamFsInv OBVIOUS
<1>1. nodes = [n \in Node |-> NoFile] /\ content = [n \in Node |-> <<>>] /\ registered = {}
  BY DEF RamFsInit
<1>2. <<>> \in Seq(Nat) OBVIOUS
<1>3. RamFsTypes BY <1>1, <1>2, NewRecords DEF RamFsTypes
<1>4. FilesOK
  <2>1. \A n \in Node : nodes[n].type # "file" /\ content[n] = <<>> /\ nodes[n].data = <<>>
    BY <1>1, NewRecords
  <2> QED BY <2>1 DEF FilesOK
<1>5. ASSUME NEW f \in Instance PROVE Capacities(nodes, f) <= TotalDataMax
  <2>1. PICK g : SumOf(nodes, f, g) /\ Capacities(nodes, f) = g[NodeMax]
    BY <1>3, CapacitiesSum DEF RamFsTypes
  <2>2. ASSUME NEW n \in Node PROVE Capacity(nodes, n) = 0
    <3>1. nodes[n].type = "none" BY <1>1, NewRecords
    <3> QED BY <3>1 DEF Capacity, InUse
  <2>3. NodeMax \in Nat BY RamFsAssumption
  <2> DEFINE T == {k \in Nat : k <= NodeMax => g[k] = 0}
  <2>4. 0 \in T BY <2>1 DEF SumOf
  <2>5. ASSUME NEW k \in Nat, k \in T PROVE k + 1 \in T
    <3> SUFFICES ASSUME k + 1 <= NodeMax PROVE g[k + 1] = 0 OBVIOUS
    <3>1. k + 1 \in 1..NodeMax BY <2>3
    <3>2. g[k + 1] = g[k] + Capacity(nodes, <<f, k>>) BY <2>1, <3>1 DEF SumOf
    <3>3. <<f, k>> \in Node BY <2>3, <3>1 DEF Node, SlotOf
    <3>4. g[k] = 0 BY <2>3, <2>5
    <3> QED BY <2>2, <3>2, <3>3, <3>4
  <2> HIDE DEF T
  <2>6. Nat \subseteq T BY <2>4, <2>5, SetInduction
  <2>7. g[NodeMax] = 0 BY <2>3, <2>6 DEF T
  <2> QED BY <2>1, <2>7, RamFsAssumption
<1> QED BY <1>3, <1>4, <1>5 DEF RamFsInv, WithinLimit

\* What is read is what the buffer starts with.
LEMMA RamFsInvMeans == RamFsInv => ContentTrue
<1> SUFFICES ASSUME RamFsInv PROVE ContentTrue OBVIOUS
<1>1. ASSUME NEW n \in Node, nodes[n].type = "file"
      PROVE  nodes[n].size <= Len(nodes[n].data) /\ ramfs_read(nodes, n, 0, FileMax) = content[n]
  <2> DEFINE o == nodes[n]
             c == content[n]
  <2>1. o \in NodeRecords /\ c \in Seq(Nat) BY DEF RamFsInv, RamFsTypes
  <2>2. Holds(o, c) BY <1>1 DEF RamFsInv, FilesOK
  <2>3. o.size \in 0..FileMax /\ FileMax \in Nat BY <2>1, RamFsAssumption DEF NodeRecords
  <2>4. o.data \in Seq(Nat) /\ o.size \in Nat /\ Len(o.data) \in Nat BY <2>1, SlotFacts
  <2>5. o.size <= Len(o.data) /\ Len(c) = o.size /\ \A i \in 1..o.size : o.data[i] = c[i]
    BY <2>2 DEF Holds
  <2>6. Min({o.size, 0 + FileMax}) = o.size
    <3>1. 0 + FileMax = FileMax /\ o.size <= FileMax BY <2>3
    <3> HIDE DEF o
    <3> QED BY <2>3, <2>4, <3>1, SmallerOf
  <2>7. ramfs_read(nodes, n, 0, FileMax) = SubSeq(o.data, 1, o.size)
    <3>1. 0 + 1 = 1 OBVIOUS
    <3>2. ramfs_read(nodes, n, 0, FileMax) = SubSeq(o.data, 0 + 1, Min({o.size, 0 + FileMax}))
      BY DEF ramfs_read
    <3> HIDE DEF o
    <3> QED BY <2>6, <3>1, <3>2
  <2> HIDE DEF o, c
  <2>8. SubSeq(o.data, 1, o.size) = c
    <3> DEFINE s == SubSeq(o.data, 1, o.size)
    <3>1. s \in Seq(Nat) /\ Len(s) = o.size /\ \A i \in 1..o.size : s[i] = o.data[i]
      BY <2>4, <2>5
    <3> HIDE DEF s
    <3>2. \A i \in 1..Len(s) : s[i] = c[i] BY <2>5, <3>1
    <3>3. s = c BY <2>1, <2>5, <3>1, <3>2, SeqEqual
    <3> QED BY <3>3 DEF s
  <2> QED BY <2>5, <2>7, <2>8 DEF o, c
<1> QED BY <1>1 DEF ContentTrue, RamFsInv, WithinLimit

\* Whatever is written, truncated, created, renamed and removed, a file of any
\* instance reads as the bytes that were written to it, with zeros in the holes,
\* and the buffers keep to the limit (ramfs_write, ramfs_truncate).
THEOREM ContentTrueAlways == RamFsSpec => []ContentTrue
<1> QED BY RamFsStarts, RamFsStep, RamFsInvMeans, PTL DEF RamFsSpec

----------------------------------------------------------------------------
(* Slots and their references                                              *)

Counts == [Node -> Int]

\* The slots ns with the reference counts c.
WithRefs(ns, c) ==
    [n \in Node |-> [type |-> ns[n].type, parent |-> ns[n].parent, name |-> ns[n].name,
                     refs |-> c[n], size |-> ns[n].size, data |-> ns[n].data]]
RefsIn(ns) == [n \in Node |-> ns[n].refs]
Slots(ns) == ns = WithRefs(ns, RefsIn(ns)) /\ RefsIn(ns) \in Counts

\* A state of a call: slots, counts and the number of paths.
Counted(ns, c, k) == [nodes |-> WithRefs(ns, c), paths |-> k]
Up(c, n) == [c EXCEPT ![n] = @ + 1]
Down(c, n) == [c EXCEPT ![n] = @ - 1]
Bit(b) == IF b THEN 1 ELSE 0

\* What counting up and down does.
LEMMA CountsMove ==
    ASSUME NEW c \in Counts, NEW n \in Node
    PROVE  /\ Up(c, n) \in Counts /\ Down(c, n) \in Counts
           /\ \A m \in Node : /\ Up(c, n)[m] = c[m] + Bit(m = n)
                              /\ Down(c, n)[m] = c[m] - Bit(m = n)
           /\ Down(Up(c, n), n) = c
<1>1. Up(c, n) \in Counts /\ Down(c, n) \in Counts BY DEF Up, Down, Counts
<1>2. \A m \in Node : /\ Up(c, n)[m] = c[m] + Bit(m = n)
                      /\ Down(c, n)[m] = c[m] - Bit(m = n)
  BY DEF Up, Down, Counts, Bit
<1>3. Down(Up(c, n), n) = c
  <2>1. Down(Up(c, n), n) \in Counts BY <1>1 DEF Down, Counts
  <2>2. \A m \in Node : Down(Up(c, n), n)[m] = c[m] BY DEF Down, Up, Counts
  <2> QED BY <2>1, <2>2 DEF Counts
<1> QED BY <1>1, <1>2, <1>3

\* A node is retained and released.
LEMMA NodesMove ==
    ASSUME NEW ns, NEW c \in Counts, NEW k \in Int, NEW n \in Node
    PROVE  /\ vfs_node_retain(Counted(ns, c, k), n) = Counted(ns, Up(c, n), k)
           /\ vfs_node_release(Counted(ns, c, k), n) = Counted(ns, Down(c, n), k)
<1>4. ASSUME NEW j \in Int
      PROVE  [WithRefs(ns, c) EXCEPT ![n].refs = j] = WithRefs(ns, [c EXCEPT ![n] = j])
  <2> DEFINE o == [type |-> ns[n].type, parent |-> ns[n].parent, name |-> ns[n].name,
                   refs |-> j, size |-> ns[n].size, data |-> ns[n].data]
  <2>1. [WithRefs(ns, c)[n] EXCEPT !.refs = j] = o BY DEF WithRefs
  <2>2. [WithRefs(ns, c) EXCEPT ![n].refs = j] = [WithRefs(ns, c) EXCEPT ![n] = o]
    BY <2>1 DEF WithRefs
  <2>3. [WithRefs(ns, c) EXCEPT ![n] = o] = WithRefs(ns, [c EXCEPT ![n] = j])
    BY DEF WithRefs, Counts
  <2> QED BY <2>2, <2>3
<1>5. c[n] \in Int /\ WithRefs(ns, c)[n].refs = c[n] BY DEF WithRefs, Counts
<1>6. [WithRefs(ns, c) EXCEPT ![n].refs = @ + 1] = WithRefs(ns, Up(c, n))
  <2>1. [WithRefs(ns, c) EXCEPT ![n].refs = @ + 1]
          = [WithRefs(ns, c) EXCEPT ![n].refs = c[n] + 1] BY <1>5
  <2>2. Up(c, n) = [c EXCEPT ![n] = c[n] + 1] BY DEF Up
  <2>3. c[n] + 1 \in Int BY <1>5
  <2>4. [WithRefs(ns, c) EXCEPT ![n].refs = c[n] + 1]
          = WithRefs(ns, [c EXCEPT ![n] = c[n] + 1]) BY <2>3, <1>4
  <2> QED BY <2>1, <2>2, <2>4
<1>7. [WithRefs(ns, c) EXCEPT ![n].refs = @ - 1] = WithRefs(ns, Down(c, n))
  <2>1. [WithRefs(ns, c) EXCEPT ![n].refs = @ - 1]
          = [WithRefs(ns, c) EXCEPT ![n].refs = c[n] - 1] BY <1>5
  <2>2. Down(c, n) = [c EXCEPT ![n] = c[n] - 1] BY DEF Down
  <2>3. c[n] - 1 \in Int BY <1>5
  <2>4. [WithRefs(ns, c) EXCEPT ![n].refs = c[n] - 1]
          = WithRefs(ns, [c EXCEPT ![n] = c[n] - 1]) BY <2>3, <1>4
  <2> QED BY <2>1, <2>2, <2>4
<1>8. vfs_node_retain(Counted(ns, c, k), n) = Counted(ns, Up(c, n), k)
  BY <1>6 DEF vfs_node_retain, Counted
<1>9. vfs_node_release(Counted(ns, c, k), n) = Counted(ns, Down(c, n), k)
  BY <1>7 DEF vfs_node_release, Counted
<1> QED BY <1>8, <1>9

\* Of paths: they count as well.
LEMMA PathsMove ==
    ASSUME NEW ns, NEW c \in Counts, NEW k \in Int, NEW p, p.node \in Node
    PROVE  /\ vfs_path_acquire(Counted(ns, c, k), p) = Counted(ns, Up(c, p.node), k + 1)
           /\ vfs_path_release(Counted(ns, c, k), p) = Counted(ns, Down(c, p.node), k - 1)
<1>1. \A d \in Counts : [Counted(ns, d, k) EXCEPT !.paths = @ + 1] = Counted(ns, d, k + 1)
  BY DEF Counted
<1>2. \A d \in Counts : [Counted(ns, d, k) EXCEPT !.paths = @ - 1] = Counted(ns, d, k - 1)
  BY DEF Counted
<1>3. vfs_path_acquire(Counted(ns, c, k), p)
        = [Counted(ns, Up(c, p.node), k) EXCEPT !.paths = @ + 1]
  <2>1. ASSUME NEW n \in Node
        PROVE  vfs_node_retain(Counted(ns, c, k), n) = Counted(ns, Up(c, n), k)
    BY NodesMove
  <2> QED BY <2>1 DEF vfs_path_acquire
<1>4. vfs_path_release(Counted(ns, c, k), p)
        = [Counted(ns, Down(c, p.node), k) EXCEPT !.paths = @ - 1]
  <2>1. ASSUME NEW n \in Node
        PROVE  vfs_node_release(Counted(ns, c, k), n) = Counted(ns, Down(c, n), k)
    BY NodesMove
  <2> QED BY <2>1 DEF vfs_path_release
<1>5. Up(c, p.node) \in Counts /\ Down(c, p.node) \in Counts BY CountsMove
<1> QED BY <1>1, <1>2, <1>3, <1>4, <1>5

\* A path that is taken and given back leaves nothing behind, also when another
\* one was given back in between.
LEMMA TakenAndGiven ==
    ASSUME NEW ns, NEW c \in Counts, NEW k \in Int, NEW p, p.node \in Node,
           NEW q, q.node \in Node
    PROVE  /\ vfs_path_release(vfs_path_acquire(Counted(ns, c, k), p), p) = Counted(ns, c, k)
           /\ vfs_path_release(vfs_path_acquire(vfs_path_acquire(Counted(ns, c, k), p), q), p)
                = vfs_path_acquire(Counted(ns, c, k), q)
<1> DEFINE a == Up(c, p.node)
           b == Up(a, q.node)
<1>1. a \in Counts /\ b \in Counts /\ Up(c, q.node) \in Counts BY CountsMove
<1>2. vfs_path_acquire(Counted(ns, c, k), p) = Counted(ns, a, k + 1) BY PathsMove
<1>3. vfs_path_release(Counted(ns, a, k + 1), p) = Counted(ns, c, k)
  <2>1. vfs_path_release(Counted(ns, a, k + 1), p) = Counted(ns, Down(a, p.node), k + 1 - 1)
    BY <1>1, PathsMove
  <2>2. Down(a, p.node) = c /\ k + 1 - 1 = k
    <3>1. Down(a, p.node) = c BY CountsMove
    <3>2. k + 1 - 1 = k OBVIOUS
    <3> QED BY <3>1, <3>2
  <2> QED BY <2>1, <2>2
<1>4. vfs_path_acquire(Counted(ns, a, k + 1), q) = Counted(ns, b, k + 2)
  <2>1. vfs_path_acquire(Counted(ns, a, k + 1), q) = Counted(ns, b, k + 1 + 1)
    BY <1>1, PathsMove
  <2> QED BY <2>1
<1>5. vfs_path_release(Counted(ns, b, k + 2), p) = Counted(ns, Up(c, q.node), k + 1)
  <2>1. vfs_path_release(Counted(ns, b, k + 2), p) = Counted(ns, Down(b, p.node), k + 2 - 1)
    BY <1>1, PathsMove
  <2>2. Down(b, p.node) = Up(c, q.node) BY DEF Down, Up, Counts
  <2> QED BY <2>1, <2>2
<1>6. vfs_path_acquire(Counted(ns, c, k), q) = Counted(ns, Up(c, q.node), k + 1) BY PathsMove
<1> QED BY <1>2, <1>3, <1>4, <1>5, <1>6

\* A set that gains or loses one element at most.
LEMMA CountChange ==
    ASSUME NEW S, IsFiniteSet(S), NEW A, A \subseteq S, NEW B, B \subseteq S, NEW x \in S,
           \A y \in S : y # x => (y \in A <=> y \in B)
    PROVE  /\ Cardinality(A) \in Nat /\ Cardinality(B) \in Nat
           /\ Cardinality(B) = Cardinality(A) - Bit(x \in A) + Bit(x \in B)
<1>1. IsFiniteSet(A) /\ IsFiniteSet(B) BY FS_Subset
<1>2. Cardinality(A) \in Nat /\ Cardinality(B) \in Nat BY <1>1, FS_CardinalityType
<1>3. CASE x \in A /\ x \notin B
  <2>1. B = A \ {x} BY <1>3
  <2>2. Cardinality(B) = Cardinality(A) - 1 BY <2>1, <1>1, <1>3, FS_RemoveElement
  <2> QED BY <2>2, <1>2, <1>3 DEF Bit
<1>4. CASE x \notin A /\ x \in B
  <2>1. B = A \cup {x} BY <1>4
  <2>2. Cardinality(B) = Cardinality(A) + 1 BY <2>1, <1>1, <1>4, FS_AddElement
  <2> QED BY <2>2, <1>2, <1>4 DEF Bit
<1>5. CASE x \in A <=> x \in B
  <2>1. A = B BY <1>5
  <2> QED BY <2>1, <1>2 DEF Bit
<1> QED BY <1>3, <1>4, <1>5

----------------------------------------------------------------------------
(* The inductive invariant                                                 *)

\* Every slot in use belongs to an instance that exists and hangs below a
\* directory of it.
Trees(ns, regs) ==
    /\ regs \subseteq Instance
    /\ \A f \in regs : ns[RootOf(f)].type = "directory" /\ ns[RootOf(f)].parent = RootOf(f)
    /\ \A n \in Node : InUse(ns, n) =>
          /\ ns[n].parent \in Node /\ ns[n].parent[1] = n[1] /\ n[1] \in regs
          /\ ns[ns[n].parent].type = "directory"

MountRecords ==
    [active : BOOLEAN, fs : Instance \cup {0}, parent : MountSlot, mountpoint : Node \cup {<<>>}]

\* An active mount shows an instance that exists, at a node of an active mount.
MountsOK ==
    /\ mounts \in [MountSlot -> MountRecords]
    /\ mounts[0].mountpoint = <<>>
    /\ \A m \in MountSlot : mounts[m].active =>
          /\ mounts[0].active /\ mounts[m].fs \in registered
          /\ m # 0 => /\ mounts[mounts[m].parent].active
                      /\ mounts[m].mountpoint \in Node
                      /\ mounts[m].mountpoint[1] = mounts[mounts[m].parent].fs

\* A path into an active mount.
Paths == [mount : MountSlot, node : Node]
Valid(p) == p \in Paths /\ mounts[p.mount].active /\ p.node[1] = mounts[p.mount].fs

\* An open handle has a path, a closed one is blank.
Handle(o) ==
    /\ o = [open |-> o.open, path |-> o.path, offset |-> o.offset, access |-> o.access]
    /\ o.open \in BOOLEAN
    /\ IF o.open THEN Valid(o.path) ELSE o = NoHandle

PathsOK ==
    /\ held = [h \in Holder |-> held[h]] /\ cwd = [p \in Program |-> cwd[p]]
    /\ opened = [r \in Reader |-> opened[r]]
    /\ fds = [p \in Program |-> [d \in FdSlot |-> fds[p][d]]]
    /\ \A h \in Holder : held[h] = NoPath \/ Valid(held[h])
    /\ \A p \in Program : cwd[p] = NoPath \/ Valid(cwd[p])
    /\ \A r \in Reader : Handle(opened[r])
    /\ \A p \in Program, d \in FdSlot : Handle(fds[p][d])

TotalAt(n) == PathsAt(n) + MountsAt(n) + ProgramsAt(n)

FilesInv == Slots(nodes) /\ Trees(nodes, registered) /\ MountsOK /\ PathsOK /\ RefsTrue

----------------------------------------------------------------------------
(* Resolution                                                              *)

Refs == RefsIn(nodes)

\* The state before a call, with other references.
Pinned(p) == Counted(nodes, Up(Refs, p.node), path_reference_count + 1)

\* Where a walk may have got to: it holds the path that it has reached and
\* nothing else, or has given everything back.
Good(q) == Valid(q) /\ InUse(nodes, q.node)
Reached == {At(Pinned(q), q) : q \in {p \in Paths : Good(p)}} \cup {Failed(Now)}

\* The state before a call as a counted state.
LEMMA NowCounted ==
    FilesInv => /\ Now = Counted(nodes, Refs, path_reference_count)
                /\ Refs \in Counts /\ path_reference_count \in Int
<1> SUFFICES ASSUME FilesInv
             PROVE  /\ Now = Counted(nodes, Refs, path_reference_count)
                    /\ Refs \in Counts /\ path_reference_count \in Int
  OBVIOUS
<1>1. Slots(nodes) /\ RefsTrue BY DEF FilesInv
<1>2. Now = Counted(nodes, Refs, path_reference_count) BY <1>1 DEF Slots, Now, Counted, Refs
<1>3. Refs \in Counts BY <1>1 DEF Slots, Refs
<1>4. path_reference_count \in Int
  <2>1. /\ IsFiniteSet(Holder) /\ IsFiniteSet(Reader) /\ IsFiniteSet(Program)
        /\ IsFiniteSet(FdSlot)
    BY VfsAssumption, FileCallsAssumption, FS_Interval DEF FdSlot
  <2>2. IsFiniteSet(Program \X FdSlot) BY <2>1, FS_Product
  <2> DEFINE A == {r \in Reader : opened[r].open}
             B == {x \in Program \X FdSlot : fds[x[1]][x[2]].open}
             C == {h \in Holder : held[h] # NoPath}
             D == {p \in Program : Alive(p)}
  <2>3. IsFiniteSet(A) /\ IsFiniteSet(B) /\ IsFiniteSet(C) /\ IsFiniteSet(D)
    BY <2>1, <2>2, FS_Subset
  <2>4. Cardinality(A) \in Nat /\ Cardinality(B) \in Nat /\ Cardinality(C) \in Nat
        /\ Cardinality(D) \in Nat
    <3> HIDE DEF A, B, C, D
    <3> QED BY <2>3, FS_CardinalityType
  <2>5. /\ open_handle_count = Cardinality(A) + Cardinality(B)
        /\ path_reference_count = open_handle_count + Cardinality(C) + Cardinality(D)
    BY <1>1 DEF RefsTrue
  <2> QED BY <2>4, <2>5
<1> QED BY <1>2, <1>3, <1>4

\* References do not matter to what a slot is.
LEMMA SameSlots ==
    ASSUME NEW ns, NEW c
    PROVE  /\ \A n \in Node : /\ WithRefs(ns, c)[n].type = ns[n].type
                              /\ WithRefs(ns, c)[n].parent = ns[n].parent
                              /\ WithRefs(ns, c)[n].name = ns[n].name
                              /\ WithRefs(ns, c)[n].refs = c[n]
           /\ \A n \in Node : InUse(WithRefs(ns, c), n) <=> InUse(ns, n)
<1>1. \A n \in Node : /\ WithRefs(ns, c)[n].type = ns[n].type
                      /\ WithRefs(ns, c)[n].parent = ns[n].parent
                      /\ WithRefs(ns, c)[n].name = ns[n].name
                      /\ WithRefs(ns, c)[n].refs = c[n]
  BY DEF WithRefs
<1>2. \A n \in Node : InUse(WithRefs(ns, c), n) <=> InUse(ns, n) BY <1>1 DEF InUse
<1> QED BY <1>1, <1>2

\* Nor to what a directory holds.
LEMMA SameEntries ==
    ASSUME NEW ns, NEW c, NEW d, NEW name
    PROVE  /\ Entries(WithRefs(ns, c), d) = Entries(ns, d)
           /\ ramfs_find_child(WithRefs(ns, c), d, name) = ramfs_find_child(ns, d, name)
<1>1. Entries(WithRefs(ns, c), d) = Entries(ns, d) BY SameSlots DEF Entries
<1>2. \A n \in Entries(ns, d) : n \in Node BY DEF Entries
<1>3. ramfs_find_child(WithRefs(ns, c), d, name) = ramfs_find_child(ns, d, name)
  BY <1>1, <1>2, SameSlots DEF ramfs_find_child
<1> QED BY <1>1, <1>3

\* A node somebody is at exists.
LEMMA PinnedInUse ==
    ASSUME FilesInv, NEW n \in Node, nodes[n].refs > 0
    PROVE  InUse(nodes, n)
BY DEF FilesInv, RefsTrue
\* Everything that counts is finite.
LEMMA Finite ==
    /\ IsFiniteSet(Holder) /\ IsFiniteSet(Reader) /\ IsFiniteSet(Program)
    /\ IsFiniteSet(MountSlot) /\ IsFiniteSet(Program \X FdSlot)
    /\ 0 \in MountSlot /\ MountSlot \subseteq Nat
<1>1. /\ IsFiniteSet(Holder) /\ IsFiniteSet(Reader) /\ IsFiniteSet(Program)
      /\ IsFiniteSet(FdSlot)
  BY VfsAssumption, FileCallsAssumption, FS_Interval DEF FdSlot
<1>2. IsFiniteSet(Program \X FdSlot) BY <1>1, FS_Product
<1>3. IsFiniteSet(MountSlot) BY VfsAssumption, FS_Interval DEF MountSlot
<1>4. 0 \in MountSlot /\ MountSlot \subseteq Nat BY VfsAssumption DEF MountSlot
<1> QED BY <1>1, <1>2, <1>3, <1>4

\* A subset of a finite set has a number of elements, which is positive when it
\* has one.
LEMMA SubsetCount ==
    ASSUME NEW S, IsFiniteSet(S), NEW A, A \subseteq S
    PROVE  /\ Cardinality(A) \in Nat
           /\ Cardinality(A) = 0 <=> A = {}
<1>1. IsFiniteSet(A) BY FS_Subset
<1> QED BY <1>1, FS_CardinalityType, FS_EmptySet

\* The parts of the count of a node.
LEMMA CountsNat ==
    ASSUME NEW n
    PROVE  PathsAt(n) \in Nat /\ MountsAt(n) \in Nat /\ ProgramsAt(n) \in Nat
<1> DEFINE A == {h \in Holder : held[h].node = n}
           B == {r \in Reader : opened[r].path.node = n}
           C == {m \in MountSlot : mounts[m].active /\ RootOf(mounts[m].fs) = n}
           D == {m \in MountSlot : mounts[m].active /\ mounts[m].mountpoint = n}
           E == {p \in Program : cwd[p].node = n}
           F == {x \in Program \X FdSlot : fds[x[1]][x[2]].path.node = n}
<1>1. /\ A \subseteq Holder /\ B \subseteq Reader /\ C \subseteq MountSlot /\ D \subseteq MountSlot
      /\ E \subseteq Program /\ F \subseteq Program \X FdSlot OBVIOUS
<1>2. /\ PathsAt(n) = Cardinality(A) + Cardinality(B) /\ MountsAt(n) = Cardinality(C) + Cardinality(D)
      /\ ProgramsAt(n) = Cardinality(E) + Cardinality(F)
  BY DEF PathsAt, MountsAt, ProgramsAt
<1> HIDE DEF A, B, C, D, E, F
<1>3. /\ Cardinality(A) \in Nat /\ Cardinality(B) \in Nat /\ Cardinality(C) \in Nat
      /\ Cardinality(D) \in Nat /\ Cardinality(E) \in Nat /\ Cardinality(F) \in Nat
  BY <1>1, Finite, SubsetCount
<1> QED BY <1>2, <1>3

\* The root and the mountpoint of an active mount exist.
LEMMA MountNodes ==
    ASSUME FilesInv, NEW m \in MountSlot, mounts[m].active
    PROVE  /\ RootOf(mounts[m].fs) \in Node /\ InUse(nodes, RootOf(mounts[m].fs))
           /\ RootOf(mounts[m].fs)[1] = mounts[m].fs
           /\ m # 0 => mounts[m].mountpoint \in Node /\ InUse(nodes, mounts[m].mountpoint)
<1>1. mounts[m].fs \in registered /\ mounts[m].fs \in Instance
  BY DEF FilesInv, MountsOK, Trees
<1>2. RootOf(mounts[m].fs) \in Node BY <1>1, RamFsAssumption DEF RootOf, Node, SlotOf
<1>3. InUse(nodes, RootOf(mounts[m].fs)) BY <1>1 DEF FilesInv, Trees, InUse
<1>4. ASSUME m # 0
      PROVE  mounts[m].mountpoint \in Node /\ InUse(nodes, mounts[m].mountpoint)
  <2>1. mounts[m].mountpoint \in Node BY <1>4 DEF FilesInv, MountsOK
  <2> DEFINE n == mounts[m].mountpoint
             C == {k \in MountSlot : mounts[k].active /\ RootOf(mounts[k].fs) = n}
             D == {k \in MountSlot : mounts[k].active /\ mounts[k].mountpoint = n}
  <2>2. C \subseteq MountSlot /\ D \subseteq MountSlot /\ m \in D OBVIOUS
  <2>3. MountsAt(n) = Cardinality(C) + Cardinality(D) BY DEF MountsAt
  <2> HIDE DEF C, D
  <2>4. Cardinality(C) \in Nat /\ Cardinality(D) \in Nat /\ Cardinality(D) # 0
    <3>1. D # {} BY <2>2
    <3> QED BY <2>2, <3>1, Finite, SubsetCount
  <2>5. nodes[n].refs = PathsAt(n) + MountsAt(n) + ProgramsAt(n)
    BY <2>1 DEF FilesInv, RefsTrue
  <2>6. nodes[n].refs > 0 BY <2>3, <2>4, <2>5, CountsNat
  <2> QED BY <2>1, <2>6, PinnedInUse
<1>5. RootOf(mounts[m].fs)[1] = mounts[m].fs BY DEF RootOf
<1> QED BY <1>2, <1>3, <1>4, <1>5

\* A path that is replaced by another one.
LEMMA Replaced ==
    ASSUME FilesInv, NEW q, Good(q), NEW p, Good(p)
    PROVE  vfs_path_replace(At(Pinned(q), q), p) = At(Pinned(p), p)
<1>1. q.node \in Node /\ p.node \in Node BY DEF Good, Valid, Paths
<1>2. Pinned(q) = vfs_path_acquire(Now, q) /\ Pinned(p) = vfs_path_acquire(Now, p)
  BY <1>1, NowCounted, PathsMove DEF Pinned
<1>3. vfs_path_release(vfs_path_acquire(vfs_path_acquire(Now, q), p), q)
        = vfs_path_acquire(Now, p)
  BY <1>1, NowCounted, TakenAndGiven
<1>4. At(Pinned(q), q).s = Pinned(q) /\ At(Pinned(q), q).path = q BY DEF At
<1> QED BY <1>2, <1>3, <1>4 DEF vfs_path_replace

\* Upwards.
LEMMA ParentGood ==
    ASSUME FilesInv, NEW q, Good(q), NEW s, \A n \in Node : s.nodes[n].parent = nodes[n].parent
    PROVE  Good(ParentOf(s, q))
<1>1. /\ q \in Paths /\ mounts[q.mount].active /\ q.node[1] = mounts[q.mount].fs
      /\ q.node \in Node /\ q.mount \in MountSlot /\ InUse(nodes, q.node)
  BY DEF Good, Valid, Paths
<1>2. ASSUME NEW n \in Node, InUse(nodes, n)
      PROVE  /\ nodes[n].parent \in Node /\ InUse(nodes, nodes[n].parent)
             /\ nodes[n].parent[1] = n[1] /\ s.nodes[n].parent = nodes[n].parent
  BY <1>2 DEF FilesInv, Trees, InUse
<1>3. CASE q.node # RootOf(mounts[q.mount].fs)
  <2> DEFINE p == [q EXCEPT !.node = s.nodes[q.node].parent]
  <2>1. ParentOf(s, q) = p BY <1>3 DEF ParentOf
  <2>2. p = [mount |-> q.mount, node |-> nodes[q.node].parent] BY <1>1, <1>2 DEF Paths
  <2>3. Good(p)
    <3>1. p \in Paths /\ p.mount = q.mount /\ p.node = nodes[q.node].parent
      BY <1>1, <1>2, <2>2 DEF Paths
    <3>2. p.node[1] = q.node[1] /\ InUse(nodes, p.node) BY <1>1, <1>2, <3>1
    <3> QED BY <1>1, <3>1, <3>2 DEF Good, Valid
  <2> QED BY <2>1, <2>3
<1>4. CASE q.node = RootOf(mounts[q.mount].fs) /\ q.mount = 0
  BY <1>4 DEF ParentOf
<1>5. CASE q.node = RootOf(mounts[q.mount].fs) /\ q.mount # 0
  <2> DEFINE m == mounts[q.mount]
             p == [mount |-> m.parent, node |-> s.nodes[m.mountpoint].parent]
  <2>1. ParentOf(s, q) = p BY <1>5 DEF ParentOf
  <2>2. /\ m.mountpoint \in Node /\ InUse(nodes, m.mountpoint) /\ mounts[m.parent].active
        /\ m.mountpoint[1] = mounts[m.parent].fs /\ m.parent \in MountSlot
    BY <1>1, <1>5, MountNodes DEF FilesInv, MountsOK, MountRecords
  <2>3. /\ nodes[m.mountpoint].parent \in Node /\ InUse(nodes, nodes[m.mountpoint].parent)
        /\ nodes[m.mountpoint].parent[1] = m.mountpoint[1]
        /\ s.nodes[m.mountpoint].parent = nodes[m.mountpoint].parent
    BY <1>2, <2>2
  <2>4. Good(p)
    <3>1. p \in Paths /\ p.mount = m.parent /\ p.node = nodes[m.mountpoint].parent
      BY <2>2, <2>3 DEF Paths
    <3> QED BY <2>2, <2>3, <3>1 DEF Good, Valid
  <2> QED BY <2>1, <2>4
<1> QED BY <1>3, <1>4, <1>5
\* The parts of a walk that goes on.
LEMMA WalkParts ==
    ASSUME NEW q
    PROVE  /\ At(Pinned(q), q).ok = TRUE /\ At(Pinned(q), q).path = q
           /\ At(Pinned(q), q).s = Pinned(q)
           /\ \A n \in Node : /\ Pinned(q).nodes[n].parent = nodes[n].parent
                              /\ Pinned(q).nodes[n].type = nodes[n].type
<1>1. Pinned(q).nodes = WithRefs(nodes, Up(Refs, q.node)) BY DEF Pinned, Counted
<1>2. At(Pinned(q), q).ok = TRUE /\ At(Pinned(q), q).path = q /\ At(Pinned(q), q).s = Pinned(q)
  BY DEF At
<1> QED BY <1>1, <1>2, SameSlots

\* A mount at the node that was reached is followed.
LEMMA FollowReached ==
    ASSUME FilesInv, NEW q, Good(q)
    PROVE  vfs_follow_child_mount(At(Pinned(q), q)) \in Reached
<1>1. q \in Paths BY DEF Good, Valid
<1>2. CASE vfs_child_mount(q) = {}
  <2>1. vfs_follow_child_mount(At(Pinned(q), q)) = At(Pinned(q), q)
    BY <1>2, WalkParts DEF vfs_follow_child_mount
  <2> QED BY <1>1, <2>1 DEF Reached
<1>3. CASE vfs_child_mount(q) # {}
  <2> DEFINE c == CHOOSE x \in vfs_child_mount(q) : TRUE
             p == [mount |-> c, node |-> RootOf(mounts[c].fs)]
  <2>1. c \in MountSlot /\ mounts[c].active BY <1>3 DEF vfs_child_mount
  <2>2. Good(p) /\ p \in Paths
    <3>1. RootOf(mounts[c].fs) \in Node /\ InUse(nodes, RootOf(mounts[c].fs))
          /\ RootOf(mounts[c].fs)[1] = mounts[c].fs
      <4> HIDE DEF c
      <4> QED BY <2>1, MountNodes
    <3> HIDE DEF c
    <3>2. p \in Paths /\ p.mount = c /\ p.node = RootOf(mounts[c].fs)
      BY <2>1, <3>1 DEF Paths
    <3> QED BY <2>1, <3>1, <3>2 DEF Good, Valid
  <2>3. vfs_follow_child_mount(At(Pinned(q), q)) = vfs_path_replace(At(Pinned(q), q), p)
    BY <1>3, WalkParts DEF vfs_follow_child_mount
  <2> HIDE DEF p
  <2>4. vfs_follow_child_mount(At(Pinned(q), q)) = At(Pinned(p), p) BY <2>2, <2>3, Replaced
  <2> QED BY <2>2, <2>4 DEF Reached
<1> QED BY <1>2, <1>3

\* One component of a path.
LEMMA StepReached ==
    ASSUME FilesInv, NEW w \in Reached, NEW c
    PROVE  StepOn(w, c) \in Reached
<1>1. CASE w = Failed(Now)
  <2>1. StepOn(w, c) = w BY <1>1 DEF StepOn, Failed
  <2> QED BY <2>1
<1>2. ASSUME NEW q \in Paths, Good(q), w = At(Pinned(q), q)
      PROVE  StepOn(w, c) \in Reached
  <2> DEFINE v == At(Pinned(q), q)
  <2>1. StepOn(w, c) = StepInto(v, c) BY <1>2, WalkParts DEF StepOn
  <2>2. v.ok = TRUE /\ v.path = q /\ v.s = Pinned(q) BY WalkParts
  <2>5. ASSUME NEW n \in Node PROVE Pinned(q).nodes[n].type = nodes[n].type BY WalkParts
  <2>6. ASSUME NEW d, NEW name
        PROVE  ramfs_find_child(Pinned(q).nodes, d, name) = ramfs_find_child(nodes, d, name)
    BY SameEntries DEF Pinned, Counted
  <2> HIDE DEF v
  <2>3. CASE c = ".."
    <3>1. Good(ParentOf(Pinned(q), q)) BY <1>2, WalkParts, ParentGood
    <3>2. ParentOf(Pinned(q), q) \in Paths BY <3>1 DEF Good, Valid
    <3> DEFINE p == ParentOf(Pinned(q), q)
    <3>3. vfs_step_parent(v) = IF p = q THEN v ELSE vfs_path_replace(v, p)
      BY <2>2 DEF vfs_step_parent
    <3>4. vfs_path_replace(v, p) = At(Pinned(p), p) BY <1>2, <3>1, Replaced DEF v
    <3> HIDE DEF p
    <3>5. v \in Reached BY <1>2 DEF v, Reached
    <3>6. At(Pinned(p), p) \in Reached BY <3>1, <3>2 DEF p, Reached
    <3>7. StepInto(v, c) = vfs_step_parent(v) BY <2>3 DEF StepInto
    <3> QED BY <2>1, <3>3, <3>4, <3>5, <3>6, <3>7
  <2>4. CASE c # ".."
    <3> DEFINE next == IF nodes[q.node].type = "directory"
                       THEN ramfs_find_child(nodes, q.node, c) ELSE {}
               seen == IF v.s.nodes[v.path.node].type = "directory"
                       THEN ramfs_find_child(v.s.nodes, v.path.node, c) ELSE {}
               Pick(S) == CHOOSE x \in S : TRUE
               n == Pick(next)
               p == [q EXCEPT !.node = n]
    <3>1. q.node \in Node BY DEF Paths
    <3>2. seen = next
      <4>1. v.s.nodes[v.path.node].type = nodes[q.node].type BY <2>2, <2>5, <3>1
      <4>2. ramfs_find_child(v.s.nodes, v.path.node, c) = ramfs_find_child(nodes, q.node, c)
        BY <2>2, <2>6
      <4> QED BY <4>1, <4>2
    <3>3. StepInto(v, c) =
            IF next = {} THEN Failed(vfs_path_release(v.s, v.path))
            ELSE vfs_follow_child_mount(vfs_path_replace(v, p))
      <4>1. StepInto(v, c) =
              IF seen = {} THEN Failed(vfs_path_release(v.s, v.path))
              ELSE vfs_follow_child_mount(vfs_path_replace(v, [v.path EXCEPT !.node = Pick(seen)]))
        BY <2>4 DEF StepInto
      <4> HIDE DEF Pick, seen, next
      <4> QED BY <2>2, <3>2, <4>1
    <3>4. CASE next = {}
      <4>1. vfs_path_release(vfs_path_acquire(Now, q), q) = Now
        BY <3>1, NowCounted, TakenAndGiven
      <4>2. Pinned(q) = vfs_path_acquire(Now, q)
        BY <3>1, NowCounted, PathsMove DEF Pinned
      <4>3. StepInto(v, c) = Failed(Now) BY <2>2, <3>3, <3>4, <4>1, <4>2
      <4> QED BY <2>1, <4>3 DEF Reached
    <3>5. CASE next # {}
      <4>1. n \in Node /\ n[1] = q.node[1] /\ InUse(nodes, n)
        BY <3>5 DEF ramfs_find_child, Entries
      <4>2. Good(p)
        <5> HIDE DEF n
        <5>1. p = [mount |-> q.mount, node |-> n] BY DEF Paths
        <5>2. p \in Paths /\ p.mount = q.mount /\ p.node = n BY <4>1, <5>1 DEF Paths
        <5> QED BY <1>2, <4>1, <5>2 DEF Good, Valid
      <4> HIDE DEF p, next
      <4>3. vfs_path_replace(v, p) = At(Pinned(p), p) BY <1>2, <4>2, Replaced DEF v
      <4>4. StepInto(v, c) = vfs_follow_child_mount(At(Pinned(p), p)) BY <3>3, <3>5, <4>3
      <4> QED BY <2>1, <4>2, <4>4, FollowReached
    <3> QED BY <3>4, <3>5
  <2> QED BY <2>3, <2>4
<1> QED BY <1>1, <1>2 DEF Reached

\* A resolution keeps the path that it answers with, and nothing when it fails.
LEMMA Resolved ==
    ASSUME FilesInv, NEW start, Good(start), NEW text, Len(text) \in Nat
    PROVE  vfs_resolve(Now, start, text) \in Reached
<1> DEFINE N == Len(text)
           first == At(vfs_path_acquire(Now, start), start)
           F == [x \in Reached \X (1..N) |-> StepOn(x[1], text[x[2]])]
           walk == CHOOSE h : h = [k \in 0..N |-> IF k = 0 THEN first
                                                  ELSE StepOn(h[k - 1], text[k])]
<1>1. vfs_resolve(Now, start, text) = walk[N] BY DEF vfs_resolve
<1>2. first \in Reached
  <2>1. start \in Paths /\ start.node \in Node BY DEF Good, Valid, Paths
  <2>2. vfs_path_acquire(Now, start) = Pinned(start)
    BY <2>1, NowCounted, PathsMove DEF Pinned
  <2> QED BY <2>1, <2>2 DEF Reached
<1> HIDE DEF first
<1>3. \A w \in Reached, k \in 1..N : F[<<w, k>>] = StepOn(w, text[k]) OBVIOUS
<1> HIDE DEF F
<1>4. StaysIn(F, Reached, N) BY <1>3, StepReached DEF StaysIn
<1>5. PICK g : Iterates(g, F, Reached, first, N) BY <1>2, <1>4, Iteration
<1>6. /\ g \in [0..N -> Reached] /\ g[0] = first
      /\ \A k \in 1..N : g[k] = StepOn(g[k - 1], text[k])
  <2>1. /\ g \in [0..N -> Reached] /\ g[0] = first
        /\ \A k \in 1..N : g[k] = F[<<g[k - 1], k>>] BY <1>5 DEF Iterates
  <2>2. \A k \in 1..N : g[k - 1] \in Reached BY <2>1
  <2> QED BY <1>3, <2>1, <2>2
<1>7. g = [k \in 0..N |-> IF k = 0 THEN first ELSE StepOn(g[k - 1], text[k])]
  <2>1. \A k \in 0..N : k = 0 \/ k \in 1..N OBVIOUS
  <2>2. \A k \in 0..N : g[k] = IF k = 0 THEN first ELSE StepOn(g[k - 1], text[k])
    BY <1>6, <2>1
  <2> QED BY <1>6, <2>2
<1>8. walk = [k \in 0..N |-> IF k = 0 THEN first ELSE StepOn(walk[k - 1], text[k])] BY <1>7
<1> HIDE DEF walk
<1> DEFINE T == {k \in Nat : k <= N => walk[k] = g[k]}
<1>9. 0 \in T BY <1>6, <1>8
<1>10. ASSUME NEW k \in Nat, k \in T PROVE k + 1 \in T
  <2> SUFFICES ASSUME k + 1 <= N PROVE walk[k + 1] = g[k + 1] OBVIOUS
  <2>1. walk[k] = g[k] /\ k + 1 \in 1..N /\ k + 1 \in 0..N /\ k + 1 - 1 = k /\ k + 1 # 0
    BY <1>10
  <2>2. walk[k + 1] = StepOn(walk[k], text[k + 1]) BY <1>8, <2>1
  <2>3. g[k + 1] = StepOn(g[k], text[k + 1]) BY <1>6, <2>1
  <2> QED BY <2>1, <2>2, <2>3
<1>11. Nat \subseteq T
  <2> HIDE DEF T
  <2> QED BY <1>9, <1>10, SetInduction
<1>12. walk[N] = g[N] BY <1>11
<1>13. g[N] \in Reached BY <1>6
<1> QED BY <1>1, <1>12, <1>13
----------------------------------------------------------------------------
(* What a call does to the counts                                          *)

\* Slots with counts that only pin nodes that exist.
Sound(ns, c) ==
    /\ ns = WithRefs(ns, c) /\ Trees(ns, registered)
    /\ c \in [Node -> Nat]
    /\ \A n \in Node : c[n] > 0 => InUse(ns, n)

\* The slots before a call.
LEMMA SoundNow == FilesInv => Sound(nodes, Refs)
<1> SUFFICES ASSUME FilesInv PROVE Sound(nodes, Refs) OBVIOUS
<1>1. Slots(nodes) /\ Trees(nodes, registered) /\ RefsTrue BY DEF FilesInv
<1>2. nodes = WithRefs(nodes, Refs) BY <1>1 DEF Slots, Refs
<1>3. ASSUME NEW n \in Node
      PROVE  Refs[n] = nodes[n].refs /\ Refs[n] \in Nat /\ (Refs[n] > 0 => InUse(nodes, n))
  <2>1. nodes[n].refs = PathsAt(n) + MountsAt(n) + ProgramsAt(n)
        /\ (nodes[n].refs > 0 => InUse(nodes, n)) BY <1>1 DEF RefsTrue
  <2>2. Refs[n] = nodes[n].refs BY DEF Refs, RefsIn
  <2> QED BY <2>1, <2>2, CountsNat
<1>4. Refs \in [Node -> Nat] BY <1>3 DEF Refs, RefsIn
<1> QED BY <1>1, <1>2, <1>3, <1>4 DEF Sound

\* The trees are the same under other references.
LEMMA SameTrees ==
    ASSUME NEW ns, NEW c, Trees(ns, registered)
    PROVE  Trees(WithRefs(ns, c), registered)
<1>1. \A f \in registered : RootOf(f) \in Node
  <2>1. 0 \in SlotOf BY RamFsAssumption DEF SlotOf
  <2>2. registered \subseteq Instance BY DEF Trees
  <2> QED BY <2>1, <2>2 DEF RootOf, Node
<1>2. \A n \in Node : InUse(ns, n) => ns[n].parent \in Node BY DEF Trees
<1> QED BY <1>1, <1>2, SameSlots DEF Trees

\* A node that exists is pinned once more, a pinned one once less.
LEMMA SoundMoves ==
    ASSUME NEW ns, NEW c, Sound(ns, c), NEW n \in Node
    PROVE  /\ InUse(ns, n) => Sound(WithRefs(ns, Up(c, n)), Up(c, n))
           /\ c[n] > 0 => Sound(WithRefs(ns, Down(c, n)), Down(c, n))
           /\ c \in Counts
<1>1. c \in Counts /\ c \in [Node -> Nat] BY DEF Sound, Counts
<1>2. /\ Up(c, n) \in Counts /\ Down(c, n) \in Counts
      /\ \A m \in Node : /\ Up(c, n)[m] = c[m] + Bit(m = n)
                         /\ Down(c, n)[m] = c[m] - Bit(m = n)
  BY <1>1, CountsMove
<1>3. ASSUME NEW d \in Counts, \A m \in Node : d[m] \in Nat /\ (d[m] > 0 => InUse(ns, m))
      PROVE  Sound(WithRefs(ns, d), d)
  <2>1. d \in [Node -> Nat] BY <1>3 DEF Counts
  <2>2. WithRefs(ns, d) = WithRefs(WithRefs(ns, d), d) BY DEF WithRefs
  <2>3. Trees(WithRefs(ns, d), registered) BY SameTrees DEF Sound
  <2>4. \A m \in Node : d[m] > 0 => InUse(WithRefs(ns, d), m) BY <1>3, SameSlots
  <2> QED BY <2>1, <2>2, <2>3, <2>4 DEF Sound
<1>4. ASSUME InUse(ns, n) PROVE Sound(WithRefs(ns, Up(c, n)), Up(c, n))
  <2>1. \A m \in Node : Up(c, n)[m] \in Nat /\ (Up(c, n)[m] > 0 => InUse(ns, m))
    BY <1>1, <1>2, <1>4 DEF Bit, Sound
  <2> QED BY <1>2, <1>3, <2>1
<1>5. ASSUME c[n] > 0 PROVE Sound(WithRefs(ns, Down(c, n)), Down(c, n))
  <2>1. \A m \in Node : Down(c, n)[m] \in Nat /\ (Down(c, n)[m] > 0 => InUse(ns, m))
    BY <1>1, <1>2, <1>5 DEF Bit, Sound
  <2> QED BY <1>2, <1>3, <2>1
<1> QED BY <1>1, <1>4, <1>5

\* The paths there are, table by table.
HeldCount == Cardinality({h \in Holder : held[h] # NoPath})
LiveCount == Cardinality({p \in Program : Alive(p)})
OpenCount == Cardinality({r \in Reader : opened[r].open})
FdCount == Cardinality({x \in Program \X FdSlot : fds[x[1]][x[2]].open})
Totals ==
    /\ open_handle_count = OpenCount + FdCount
    /\ path_reference_count = open_handle_count + HeldCount + LiveCount

\* They are numbers.
LEMMA TotalsNat ==
    HeldCount \in Nat /\ LiveCount \in Nat /\ OpenCount \in Nat /\ FdCount \in Nat
<1> DEFINE A == {h \in Holder : held[h] # NoPath}
           B == {p \in Program : Alive(p)}
           C == {r \in Reader : opened[r].open}
           D == {x \in Program \X FdSlot : fds[x[1]][x[2]].open}
<1>1. A \subseteq Holder /\ B \subseteq Program /\ C \subseteq Reader
      /\ D \subseteq Program \X FdSlot OBVIOUS
<1>2. HeldCount = Cardinality(A) /\ LiveCount = Cardinality(B) /\ OpenCount = Cardinality(C)
      /\ FdCount = Cardinality(D) BY DEF HeldCount, LiveCount, OpenCount, FdCount
<1> HIDE DEF A, B, C, D
<1>3. Cardinality(A) \in Nat /\ Cardinality(B) \in Nat /\ Cardinality(C) \in Nat
      /\ Cardinality(D) \in Nat BY <1>1, Finite, SubsetCount
<1> QED BY <1>2, <1>3

\* A call whose slots and counts are right at its end.
LEMMA Closes ==
    ASSUME FilesInv, NEW c, Sound(nodes', c), registered' = registered,
           MountsOK', PathsOK', Totals',
           \A n \in Node : c[n] = TotalAt(n)'
    PROVE  FilesInv'
<1>1. Slots(nodes)'
  <2>1. nodes' = WithRefs(nodes', c) /\ c \in Counts BY DEF Sound, Counts
  <2>2. \A n \in Node : nodes'[n].refs = c[n] BY <2>1, SameSlots
  <2>3. RefsIn(nodes') = c BY <2>1, <2>2 DEF RefsIn, Counts
  <2> QED BY <2>1, <2>3 DEF Slots
<1>2. Trees(nodes, registered)' BY DEF Sound, Trees, InUse
<1>3. ASSUME NEW n \in Node
      PROVE  (nodes[n].refs = PathsAt(n) + MountsAt(n) + ProgramsAt(n)
                /\ (nodes[n].refs > 0 => InUse(nodes, n)))'
  <2>1. nodes'[n].refs = c[n] BY SameSlots DEF Sound
  <2>2. c[n] > 0 => InUse(nodes', n) BY DEF Sound
  <2> QED BY <2>1, <2>2 DEF TotalAt, InUse
<1>4. RefsTrue' BY <1>3 DEF RefsTrue, Totals, HeldCount, LiveCount, OpenCount, FdCount
<1> QED BY <1>1, <1>2, <1>4 DEF FilesInv
----------------------------------------------------------------------------
(* What a change of one path does to the counts                            *)

\* The mounts stay, and with them what a path may be.
LEMMA SameMounts ==
    ASSUME MountsOK, UNCHANGED <<mounts, registered>>
    PROVE  MountsOK' /\ (\A n : MountsAt(n)' = MountsAt(n)) /\ (\A p : Valid(p)' = Valid(p))
           /\ (\A o : Handle(o)' = Handle(o))
<1>1. MountsOK' BY DEF MountsOK
<1>2. \A n : MountsAt(n)' = MountsAt(n) BY DEF MountsAt
<1>3. \A p : Valid(p)' = Valid(p) BY DEF Valid
<1>4. \A o : Handle(o)' = Handle(o) BY <1>3 DEF Handle
<1> QED BY <1>1, <1>2, <1>3, <1>4

\* The counts of one table stay.
LEMMA SameHeld ==
    ASSUME UNCHANGED <<held, opened>>
    PROVE  (\A n : PathsAt(n)' = PathsAt(n)) /\ HeldCount' = HeldCount /\ OpenCount' = OpenCount
BY DEF PathsAt, HeldCount, OpenCount

\* And of the programs.
LEMMA SamePrograms ==
    ASSUME UNCHANGED <<cwd, fds>>
    PROVE  (\A n : ProgramsAt(n)' = ProgramsAt(n)) /\ LiveCount' = LiveCount /\ FdCount' = FdCount
BY DEF ProgramsAt, LiveCount, FdCount, Alive

\* No path changes.
LEMMA NoneMoves ==
    ASSUME FilesInv, UNCHANGED <<held, opened, cwd, fds, mounts, registered>>
    PROVE  /\ \A n \in Node : TotalAt(n)' = TotalAt(n)
           /\ HeldCount' = HeldCount /\ OpenCount' = OpenCount
           /\ LiveCount' = LiveCount /\ FdCount' = FdCount
           /\ MountsOK' /\ PathsOK'
<1>1. MountsOK /\ PathsOK BY DEF FilesInv
<1>2. PathsOK' BY <1>1, SameMounts DEF PathsOK
<1> QED BY <1>1, <1>2, SameMounts, SameHeld, SamePrograms DEF TotalAt

\* A user's path becomes another one.
LEMMA HeldMoves ==
    ASSUME FilesInv, NEW h \in Holder, NEW q, q = NoPath \/ Valid(q),
           held' = [held EXCEPT ![h] = q], UNCHANGED <<opened, cwd, fds, mounts, registered>>
    PROVE  /\ \A n \in Node : TotalAt(n)' = TotalAt(n) - Bit(held[h].node = n) + Bit(q.node = n)
           /\ HeldCount' = HeldCount - Bit(held[h] # NoPath) + Bit(q # NoPath)
           /\ OpenCount' = OpenCount /\ LiveCount' = LiveCount /\ FdCount' = FdCount
           /\ MountsOK' /\ PathsOK'
<1>1. MountsOK /\ PathsOK BY DEF FilesInv
<1> DEFINE e == h
<1>2. /\ e \in Holder /\ held'[e] = q /\ held[e] = held[h]
      /\ \A y \in Holder : y # e => held'[y] = held[y]
  BY <1>1 DEF PathsOK
<1>3. PathsOK' BY <1>1, SameMounts DEF PathsOK
<1> HIDE DEF e
<1>4. ASSUME NEW n
      PROVE  PathsAt(n)' = PathsAt(n) - Bit(held[h].node = n) + Bit(q.node = n)
  <2> DEFINE A == {y \in Holder : held[y].node = n}
             B == {y \in Holder : held'[y].node = n}
             E == {r \in Reader : opened[r].path.node = n}
  <2>1. PathsAt(n) = Cardinality(A) + Cardinality(E) BY DEF PathsAt
  <2>2. PathsAt(n)' = Cardinality(B) + Cardinality(E) BY DEF PathsAt
  <2>3. /\ A \subseteq Holder /\ B \subseteq Holder /\ e \in Holder /\ IsFiniteSet(Holder)
        /\ (\A y \in Holder : y # e => (y \in A <=> y \in B))
        /\ (e \in A <=> held[h].node = n) /\ (e \in B <=> q.node = n)
    BY <1>2, Finite
  <2>4. Cardinality(E) \in Nat
    <3>1. E \subseteq Reader OBVIOUS
    <3> HIDE DEF E
    <3> QED BY <3>1, Finite, SubsetCount
  <2> HIDE DEF A, B, E
  <2>5. Cardinality(A) \in Nat /\ Cardinality(B) = Cardinality(A) - Bit(e \in A) + Bit(e \in B)
    BY <2>3, CountChange
  <2>6. Bit(e \in A) = Bit(held[h].node = n) /\ Bit(e \in B) = Bit(q.node = n)
        /\ Bit(e \in A) \in Nat /\ Bit(e \in B) \in Nat
    BY <2>3 DEF Bit
  <2> QED BY <2>1, <2>2, <2>4, <2>5, <2>6
<1>5. HeldCount' = HeldCount - Bit(held[h] # NoPath) + Bit(q # NoPath)
  <2> DEFINE A == {y \in Holder : held[y] # NoPath}
             B == {y \in Holder : held'[y] # NoPath}
  <2>1. HeldCount = Cardinality(A) /\ HeldCount' = Cardinality(B) BY DEF HeldCount
  <2>2. /\ A \subseteq Holder /\ B \subseteq Holder /\ e \in Holder /\ IsFiniteSet(Holder)
        /\ (\A y \in Holder : y # e => (y \in A <=> y \in B))
        /\ (e \in A <=> held[h] # NoPath) /\ (e \in B <=> q # NoPath)
    BY <1>2, Finite
  <2> HIDE DEF A, B
  <2>3. Cardinality(B) = Cardinality(A) - Bit(e \in A) + Bit(e \in B) BY <2>2, CountChange
  <2>4. Bit(e \in A) = Bit(held[h] # NoPath) /\ Bit(e \in B) = Bit(q # NoPath) BY <2>2 DEF Bit
  <2> QED BY <2>1, <2>3, <2>4
<1>6. OpenCount' = OpenCount BY DEF OpenCount
<1>7. ASSUME NEW n \in Node
      PROVE  TotalAt(n)' = TotalAt(n) - Bit(held[h].node = n) + Bit(q.node = n)
  <2>1. /\ PathsAt(n)' = PathsAt(n) - Bit(held[h].node = n) + Bit(q.node = n)
        /\ MountsAt(n)' = MountsAt(n) /\ ProgramsAt(n)' = ProgramsAt(n)
        /\ Bit(held[h].node = n) \in Nat /\ Bit(q.node = n) \in Nat
    BY <1>1, <1>4, SameMounts, SamePrograms DEF Bit
  <2> QED BY <2>1, CountsNat DEF TotalAt
<1> QED BY <1>1, <1>3, <1>5, <1>6, <1>7, SameMounts, SamePrograms

\* A working directory becomes another one.
LEMMA CwdMoves ==
    ASSUME FilesInv, NEW h \in Program, NEW q, q = NoPath \/ Valid(q),
           cwd' = [cwd EXCEPT ![h] = q], UNCHANGED <<held, opened, fds, mounts, registered>>
    PROVE  /\ \A n \in Node : TotalAt(n)' = TotalAt(n) - Bit(cwd[h].node = n) + Bit(q.node = n)
           /\ LiveCount' = LiveCount - Bit(cwd[h] # NoPath) + Bit(q # NoPath)
           /\ HeldCount' = HeldCount /\ OpenCount' = OpenCount /\ FdCount' = FdCount
           /\ MountsOK' /\ PathsOK'
<1>1. MountsOK /\ PathsOK BY DEF FilesInv
<1> DEFINE e == h
<1>2. /\ e \in Program /\ cwd'[e] = q /\ cwd[e] = cwd[h]
      /\ \A y \in Program : y # e => cwd'[y] = cwd[y]
  BY <1>1 DEF PathsOK
<1>3. PathsOK' BY <1>1, SameMounts DEF PathsOK
<1> HIDE DEF e
<1>4. ASSUME NEW n
      PROVE  ProgramsAt(n)' = ProgramsAt(n) - Bit(cwd[h].node = n) + Bit(q.node = n)
  <2> DEFINE A == {y \in Program : cwd[y].node = n}
             B == {y \in Program : cwd'[y].node = n}
             E == {x \in Program \X FdSlot : fds[x[1]][x[2]].path.node = n}
  <2>1. ProgramsAt(n) = Cardinality(A) + Cardinality(E) BY DEF ProgramsAt
  <2>2. ProgramsAt(n)' = Cardinality(B) + Cardinality(E) BY DEF ProgramsAt
  <2>3. /\ A \subseteq Program /\ B \subseteq Program /\ e \in Program /\ IsFiniteSet(Program)
        /\ (\A y \in Program : y # e => (y \in A <=> y \in B))
        /\ (e \in A <=> cwd[h].node = n) /\ (e \in B <=> q.node = n)
    BY <1>2, Finite
  <2>4. Cardinality(E) \in Nat
    <3>1. E \subseteq Program \X FdSlot OBVIOUS
    <3> HIDE DEF E
    <3> QED BY <3>1, Finite, SubsetCount
  <2> HIDE DEF A, B, E
  <2>5. Cardinality(A) \in Nat /\ Cardinality(B) = Cardinality(A) - Bit(e \in A) + Bit(e \in B)
    BY <2>3, CountChange
  <2>6. Bit(e \in A) = Bit(cwd[h].node = n) /\ Bit(e \in B) = Bit(q.node = n)
        /\ Bit(e \in A) \in Nat /\ Bit(e \in B) \in Nat
    BY <2>3 DEF Bit
  <2> QED BY <2>1, <2>2, <2>4, <2>5, <2>6
<1>5. LiveCount' = LiveCount - Bit(cwd[h] # NoPath) + Bit(q # NoPath)
  <2> DEFINE A == {y \in Program : cwd[y] # NoPath}
             B == {y \in Program : cwd'[y] # NoPath}
  <2>1. LiveCount = Cardinality(A) /\ LiveCount' = Cardinality(B) BY DEF LiveCount, Alive
  <2>2. /\ A \subseteq Program /\ B \subseteq Program /\ e \in Program /\ IsFiniteSet(Program)
        /\ (\A y \in Program : y # e => (y \in A <=> y \in B))
        /\ (e \in A <=> cwd[h] # NoPath) /\ (e \in B <=> q # NoPath)
    BY <1>2, Finite
  <2> HIDE DEF A, B
  <2>3. Cardinality(B) = Cardinality(A) - Bit(e \in A) + Bit(e \in B) BY <2>2, CountChange
  <2>4. Bit(e \in A) = Bit(cwd[h] # NoPath) /\ Bit(e \in B) = Bit(q # NoPath) BY <2>2 DEF Bit
  <2> QED BY <2>1, <2>3, <2>4
<1>6. FdCount' = FdCount BY DEF FdCount
<1>7. ASSUME NEW n \in Node
      PROVE  TotalAt(n)' = TotalAt(n) - Bit(cwd[h].node = n) + Bit(q.node = n)
  <2>1. /\ ProgramsAt(n)' = ProgramsAt(n) - Bit(cwd[h].node = n) + Bit(q.node = n)
        /\ MountsAt(n)' = MountsAt(n) /\ PathsAt(n)' = PathsAt(n)
        /\ Bit(cwd[h].node = n) \in Nat /\ Bit(q.node = n) \in Nat
    BY <1>1, <1>4, SameMounts, SameHeld DEF Bit
  <2> QED BY <2>1, CountsNat DEF TotalAt
<1> QED BY <1>1, <1>3, <1>5, <1>6, <1>7, SameMounts, SameHeld

\* A user's handle becomes another one.
LEMMA OpenedMoves ==
    ASSUME FilesInv, NEW h \in Reader, NEW o, Handle(o),
           opened' = [opened EXCEPT ![h] = o], UNCHANGED <<held, cwd, fds, mounts, registered>>
    PROVE  /\ \A n \in Node : TotalAt(n)' = TotalAt(n) - Bit(opened[h].path.node = n) + Bit(o.path.node = n)
           /\ OpenCount' = OpenCount - Bit(opened[h].open) + Bit(o.open)
           /\ HeldCount' = HeldCount /\ LiveCount' = LiveCount /\ FdCount' = FdCount
           /\ MountsOK' /\ PathsOK'
<1>1. MountsOK /\ PathsOK BY DEF FilesInv
<1> DEFINE e == h
<1>2. /\ e \in Reader /\ opened'[e] = o /\ opened[e] = opened[h]
      /\ \A y \in Reader : y # e => opened'[y] = opened[y]
  BY <1>1 DEF PathsOK
<1>3. PathsOK' BY <1>1, SameMounts DEF PathsOK
<1> HIDE DEF e
<1>4. ASSUME NEW n
      PROVE  PathsAt(n)' = PathsAt(n) - Bit(opened[h].path.node = n) + Bit(o.path.node = n)
  <2> DEFINE A == {y \in Reader : opened[y].path.node = n}
             B == {y \in Reader : opened'[y].path.node = n}
             E == {k \in Holder : held[k].node = n}
  <2>1. PathsAt(n) = Cardinality(E) + Cardinality(A) BY DEF PathsAt
  <2>2. PathsAt(n)' = Cardinality(E) + Cardinality(B) BY DEF PathsAt
  <2>3. /\ A \subseteq Reader /\ B \subseteq Reader /\ e \in Reader /\ IsFiniteSet(Reader)
        /\ (\A y \in Reader : y # e => (y \in A <=> y \in B))
        /\ (e \in A <=> opened[h].path.node = n) /\ (e \in B <=> o.path.node = n)
    BY <1>2, Finite
  <2>4. Cardinality(E) \in Nat
    <3>1. E \subseteq Holder OBVIOUS
    <3> HIDE DEF E
    <3> QED BY <3>1, Finite, SubsetCount
  <2> HIDE DEF A, B, E
  <2>5. Cardinality(A) \in Nat /\ Cardinality(B) = Cardinality(A) - Bit(e \in A) + Bit(e \in B)
    BY <2>3, CountChange
  <2>6. Bit(e \in A) = Bit(opened[h].path.node = n) /\ Bit(e \in B) = Bit(o.path.node = n)
        /\ Bit(e \in A) \in Nat /\ Bit(e \in B) \in Nat
    BY <2>3 DEF Bit
  <2> QED BY <2>1, <2>2, <2>4, <2>5, <2>6
<1>5. OpenCount' = OpenCount - Bit(opened[h].open) + Bit(o.open)
  <2> DEFINE A == {y \in Reader : opened[y].open}
             B == {y \in Reader : opened'[y].open}
  <2>1. OpenCount = Cardinality(A) /\ OpenCount' = Cardinality(B) BY DEF OpenCount
  <2>2. /\ A \subseteq Reader /\ B \subseteq Reader /\ e \in Reader /\ IsFiniteSet(Reader)
        /\ (\A y \in Reader : y # e => (y \in A <=> y \in B))
        /\ (e \in A <=> opened[h].open) /\ (e \in B <=> o.open)
    BY <1>2, Finite
  <2> HIDE DEF A, B
  <2>3. Cardinality(B) = Cardinality(A) - Bit(e \in A) + Bit(e \in B) BY <2>2, CountChange
  <2>4. Bit(e \in A) = Bit(opened[h].open) /\ Bit(e \in B) = Bit(o.open) BY <2>2 DEF Bit
  <2> QED BY <2>1, <2>3, <2>4
<1>6. HeldCount' = HeldCount BY DEF HeldCount
<1>7. ASSUME NEW n \in Node
      PROVE  TotalAt(n)' = TotalAt(n) - Bit(opened[h].path.node = n) + Bit(o.path.node = n)
  <2>1. /\ PathsAt(n)' = PathsAt(n) - Bit(opened[h].path.node = n) + Bit(o.path.node = n)
        /\ MountsAt(n)' = MountsAt(n) /\ ProgramsAt(n)' = ProgramsAt(n)
        /\ Bit(opened[h].path.node = n) \in Nat /\ Bit(o.path.node = n) \in Nat
    BY <1>1, <1>4, SameMounts, SamePrograms DEF Bit
  <2> QED BY <2>1, CountsNat DEF TotalAt
<1> QED BY <1>1, <1>3, <1>5, <1>6, <1>7, SameMounts, SamePrograms

\* A descriptor becomes another one.
LEMMA FdMoves ==
    ASSUME FilesInv, NEW h \in Program, NEW d \in FdSlot, NEW o, Handle(o),
           fds' = [fds EXCEPT ![h][d] = o], UNCHANGED <<held, opened, cwd, mounts, registered>>
    PROVE  /\ \A n \in Node : TotalAt(n)' = TotalAt(n) - Bit(fds[h][d].path.node = n) + Bit(o.path.node = n)
           /\ FdCount' = FdCount - Bit(fds[h][d].open) + Bit(o.open)
           /\ HeldCount' = HeldCount /\ OpenCount' = OpenCount /\ LiveCount' = LiveCount
           /\ MountsOK' /\ PathsOK'
<1>1. MountsOK /\ PathsOK BY DEF FilesInv
<1> DEFINE e == <<h, d>>
<1>2. /\ e \in (Program \X FdSlot) /\ fds'[e[1]][e[2]] = o /\ fds[e[1]][e[2]] = fds[h][d]
      /\ \A y \in (Program \X FdSlot) : y # e => fds'[y[1]][y[2]] = fds[y[1]][y[2]]
  BY <1>1 DEF PathsOK
<1>3. PathsOK' BY <1>1, SameMounts DEF PathsOK
<1> HIDE DEF e
<1>4. ASSUME NEW n
      PROVE  ProgramsAt(n)' = ProgramsAt(n) - Bit(fds[h][d].path.node = n) + Bit(o.path.node = n)
  <2> DEFINE A == {y \in (Program \X FdSlot) : fds[y[1]][y[2]].path.node = n}
             B == {y \in (Program \X FdSlot) : fds'[y[1]][y[2]].path.node = n}
             E == {p \in Program : cwd[p].node = n}
  <2>1. ProgramsAt(n) = Cardinality(E) + Cardinality(A) BY DEF ProgramsAt
  <2>2. ProgramsAt(n)' = Cardinality(E) + Cardinality(B) BY DEF ProgramsAt
  <2>3. /\ A \subseteq (Program \X FdSlot) /\ B \subseteq (Program \X FdSlot) /\ e \in (Program \X FdSlot) /\ IsFiniteSet((Program \X FdSlot))
        /\ (\A y \in (Program \X FdSlot) : y # e => (y \in A <=> y \in B))
        /\ (e \in A <=> fds[h][d].path.node = n) /\ (e \in B <=> o.path.node = n)
    BY <1>2, Finite
  <2>4. Cardinality(E) \in Nat
    <3>1. E \subseteq Program OBVIOUS
    <3> HIDE DEF E
    <3> QED BY <3>1, Finite, SubsetCount
  <2> HIDE DEF A, B, E
  <2>5. Cardinality(A) \in Nat /\ Cardinality(B) = Cardinality(A) - Bit(e \in A) + Bit(e \in B)
    BY <2>3, CountChange
  <2>6. Bit(e \in A) = Bit(fds[h][d].path.node = n) /\ Bit(e \in B) = Bit(o.path.node = n)
        /\ Bit(e \in A) \in Nat /\ Bit(e \in B) \in Nat
    BY <2>3 DEF Bit
  <2> QED BY <2>1, <2>2, <2>4, <2>5, <2>6
<1>5. FdCount' = FdCount - Bit(fds[h][d].open) + Bit(o.open)
  <2> DEFINE A == {y \in (Program \X FdSlot) : fds[y[1]][y[2]].open}
             B == {y \in (Program \X FdSlot) : fds'[y[1]][y[2]].open}
  <2>1. FdCount = Cardinality(A) /\ FdCount' = Cardinality(B) BY DEF FdCount
  <2>2. /\ A \subseteq (Program \X FdSlot) /\ B \subseteq (Program \X FdSlot) /\ e \in (Program \X FdSlot) /\ IsFiniteSet((Program \X FdSlot))
        /\ (\A y \in (Program \X FdSlot) : y # e => (y \in A <=> y \in B))
        /\ (e \in A <=> fds[h][d].open) /\ (e \in B <=> o.open)
    BY <1>2, Finite
  <2> HIDE DEF A, B
  <2>3. Cardinality(B) = Cardinality(A) - Bit(e \in A) + Bit(e \in B) BY <2>2, CountChange
  <2>4. Bit(e \in A) = Bit(fds[h][d].open) /\ Bit(e \in B) = Bit(o.open) BY <2>2 DEF Bit
  <2> QED BY <2>1, <2>3, <2>4
<1>6. LiveCount' = LiveCount BY DEF LiveCount, Alive
<1>7. ASSUME NEW n \in Node
      PROVE  TotalAt(n)' = TotalAt(n) - Bit(fds[h][d].path.node = n) + Bit(o.path.node = n)
  <2>1. /\ ProgramsAt(n)' = ProgramsAt(n) - Bit(fds[h][d].path.node = n) + Bit(o.path.node = n)
        /\ MountsAt(n)' = MountsAt(n) /\ PathsAt(n)' = PathsAt(n)
        /\ Bit(fds[h][d].path.node = n) \in Nat /\ Bit(o.path.node = n) \in Nat
    BY <1>1, <1>4, SameMounts, SameHeld DEF Bit
  <2> QED BY <2>1, CountsNat DEF TotalAt
<1> QED BY <1>1, <1>3, <1>5, <1>6, <1>7, SameMounts, SameHeld
----------------------------------------------------------------------------
(* Changes of slots                                                        *)

\* One slot is written, and everything else about soundness is about the trees.
LEMMA SlotWritten ==
    ASSUME NEW ns, NEW c, Sound(ns, c), NEW n \in Node, NEW type, NEW parent, NEW name,
           NEW size, NEW data
    PROVE  LET o == [type |-> type, parent |-> parent, name |-> name, refs |-> c[n],
                     size |-> size, data |-> data]
               ms == [ns EXCEPT ![n] = o]
           IN  /\ ms = WithRefs(ms, c) /\ ms[n] = o
               /\ \A m \in Node : m # n => ms[m] = ns[m]
<1> DEFINE o == [type |-> type, parent |-> parent, name |-> name, refs |-> c[n],
                 size |-> size, data |-> data]
           ms == [ns EXCEPT ![n] = o]
<1>1. ns = WithRefs(ns, c) BY DEF Sound
<1>2. ms[n] = o /\ \A m \in Node : m # n => ms[m] = ns[m] BY <1>1 DEF WithRefs
<1>3. ms = [m \in Node |-> ms[m]] BY <1>1 DEF WithRefs
<1>4. ASSUME NEW m \in Node PROVE ms[m] = WithRefs(ms, c)[m]
  <2>1. CASE m = n BY <1>2, <2>1 DEF WithRefs
  <2>2. CASE m # n
    <3>1. ms[m] = ns[m] BY <1>2, <2>2
    <3>2. ns[m] = [type |-> ns[m].type, parent |-> ns[m].parent, name |-> ns[m].name,
                   refs |-> c[m], size |-> ns[m].size, data |-> ns[m].data]
      BY <1>1 DEF WithRefs
    <3> HIDE DEF ms
    <3> QED BY <3>1, <3>2 DEF WithRefs
  <2> QED BY <2>1, <2>2
<1>5. ms = WithRefs(ms, c)
  <2> HIDE DEF ms
  <2> QED BY <1>3, <1>4 DEF WithRefs
<1> QED BY <1>2, <1>5

\* A node is created, or not.
LEMMA Created ==
    ASSUME NEW ns, NEW c, Sound(ns, c), NEW d \in Node, NEW name, NEW type \in {"file", "directory"}
    PROVE  LET ms == ramfs_create_node(ns, d, name, type)
           IN  /\ Sound(ms, c)
               /\ ms # ns => /\ ramfs_find_child(ms, d, name) # {}
                             /\ \A n \in ramfs_find_child(ms, d, name) :
                                   n \in Node /\ n[1] = d[1] /\ InUse(ms, n)
<1> DEFINE x == FirstSlot(FreeSlots(ns, d[1]))
           o == NewNode(type, d, name)
           ms == [ns EXCEPT ![x] = o]
           refused == \/ ns[d].type # "directory" \/ ramfs_find_child(ns, d, name) # {}
                      \/ FreeSlots(ns, d[1]) = {}
<1>1. ramfs_create_node(ns, d, name, type) = IF refused THEN ns ELSE ms
  BY DEF ramfs_create_node
<1>2. CASE refused BY <1>1, <1>2
<1>3. CASE ~refused
  <2>1. x \in Node /\ x[1] = d[1] /\ x[2] # 0 /\ ~InUse(ns, x)
    <3>1. FreeSlots(ns, d[1]) \subseteq Node BY DEF FreeSlots
    <3>2. x \in FreeSlots(ns, d[1]) BY <1>3, <3>1, FirstSlotIn
    <3> QED BY <3>2 DEF FreeSlots
  <2> HIDE DEF x
  <2>2. c \in [Node -> Nat] /\ c[x] = 0 BY <2>1 DEF Sound
  <2>3. o = [type |-> type, parent |-> d, name |-> name, refs |-> c[x], size |-> 0, data |-> <<>>]
    <3>1. o = [type |-> type, parent |-> d, name |-> name, refs |-> 0, size |-> 0, data |-> <<>>]
      BY DEF NewNode
    <3> QED BY <2>2, <3>1
  <2>4. /\ ms = WithRefs(ms, c) /\ ms[x] = o
        /\ \A m \in Node : m # x => ms[m] = ns[m]
    <3> DEFINE u == [type |-> type, parent |-> d, name |-> name, refs |-> c[x], size |-> 0,
                     data |-> <<>>]
               vs == [ns EXCEPT ![x] = u]
    <3>1. /\ vs = WithRefs(vs, c) /\ vs[x] = u
          /\ \A m \in Node : m # x => vs[m] = ns[m] BY <2>1, SlotWritten
    <3>2. o = u BY <2>3
    <3> HIDE DEF o, u
    <3> QED BY <3>1, <3>2
  <2> HIDE DEF ms
  <2>5. ms[x].type = type /\ ms[x].parent = d /\ ms[x].name = name BY <2>3, <2>4
  <2>6. \A m \in Node : InUse(ns, m) => m # x /\ ms[m] = ns[m] /\ InUse(ms, m)
    BY <2>1, <2>4 DEF InUse
  <2>7. ns[d].type = "directory" /\ InUse(ns, d) BY <1>3 DEF InUse
  <2>8. d[1] \in registered BY <2>7 DEF Sound, Trees
  <2>9. Trees(ms, registered)
    <3>1. \A f \in registered : RootOf(f) \in Node
      <4>1. 0 \in SlotOf BY RamFsAssumption DEF SlotOf
      <4>2. registered \subseteq Instance BY DEF Sound, Trees
      <4> QED BY <4>1, <4>2 DEF RootOf, Node
    <3>2. \A f \in registered : /\ ms[RootOf(f)].type = "directory"
                                 /\ ms[RootOf(f)].parent = RootOf(f)
      BY <2>6, <3>1 DEF Sound, Trees, InUse
    <3>3. ASSUME NEW n \in Node, InUse(ms, n)
          PROVE  /\ ms[n].parent \in Node /\ ms[n].parent[1] = n[1] /\ n[1] \in registered
                 /\ ms[ms[n].parent].type = "directory"
      <4>1. CASE n = x
        <5>1. ms[d].type = "directory" BY <2>6, <2>7
        <5> QED BY <2>1, <2>5, <2>8, <4>1, <5>1
      <4>2. CASE n # x
        <5>1. ms[n] = ns[n] /\ InUse(ns, n) BY <2>4, <3>3, <4>2 DEF InUse
        <5>2. /\ ns[n].parent \in Node /\ ns[n].parent[1] = n[1] /\ n[1] \in registered
              /\ ns[ns[n].parent].type = "directory" BY <5>1 DEF Sound, Trees
        <5>3. ms[ns[n].parent] = ns[ns[n].parent] BY <2>6, <5>2 DEF InUse
        <5> QED BY <5>1, <5>2, <5>3
      <4> QED BY <4>1, <4>2
    <3> QED BY <3>2, <3>3 DEF Sound, Trees
  <2>10. Sound(ms, c) BY <2>2, <2>4, <2>6, <2>9 DEF Sound
  <2>11. x \in ramfs_find_child(ms, d, name)
    BY <2>1, <2>5 DEF ramfs_find_child, Entries, InUse
  <2>12. \A n \in ramfs_find_child(ms, d, name) : n \in Node /\ n[1] = d[1] /\ InUse(ms, n)
    BY DEF ramfs_find_child, Entries
  <2> QED BY <1>1, <1>3, <2>10, <2>11, <2>12 DEF ms
<1> QED BY <1>2, <1>3

\* A node is removed, or not.
LEMMA Removed ==
    ASSUME NEW ns, NEW c, Sound(ns, c), NEW d \in Node, NEW name, NEW type
    PROVE  Sound(ramfs_remove_node(ns, d, name, type), c)
<1> DEFINE found == {n \in ramfs_find_child(ns, d, name) :
                        ns[n].type = type /\ ramfs_removable(ns, n)}
           x == CHOOSE n \in found : TRUE
           ms == [ns EXCEPT ![x] = NoFile]
<1>1. ramfs_remove_node(ns, d, name, type)
        = IF ns[d].type # "directory" \/ found = {} THEN ns ELSE ms
  BY DEF ramfs_remove_node
<1>2. CASE ns[d].type # "directory" \/ found = {} BY <1>1, <1>2
<1>3. CASE ~(ns[d].type # "directory" \/ found = {})
  <2>1. x \in found BY <1>3
  <2>2. /\ x \in Node /\ x[2] # 0 /\ InUse(ns, x) /\ ns[x].refs = 0
        /\ ns[x].type = "directory" => Entries(ns, x) = {}
    BY <2>1 DEF ramfs_find_child, Entries, ramfs_removable
  <2> HIDE DEF x
  <2>3. c \in [Node -> Nat] /\ c[x] = 0
    <3>1. ns[x].refs = c[x] BY <2>2, SameSlots DEF Sound
    <3> QED BY <2>2, <3>1 DEF Sound
  <2>4. PICK type_, parent_, name_, size_, data_ :
          NoFile = [type |-> type_, parent |-> parent_, name |-> name_, refs |-> c[x],
                    size |-> size_, data |-> data_]
    BY <2>3 DEF NoFile, NewNode
  <2>5. /\ ms = WithRefs(ms, c) /\ ms[x] = NoFile
        /\ \A m \in Node : m # x => ms[m] = ns[m]
    <3> DEFINE u == [type |-> type_, parent |-> parent_, name |-> name_, refs |-> c[x],
                     size |-> size_, data |-> data_]
               vs == [ns EXCEPT ![x] = u]
    <3>1. /\ vs = WithRefs(vs, c) /\ vs[x] = u
          /\ \A m \in Node : m # x => vs[m] = ns[m] BY <2>2, SlotWritten
    <3>2. NoFile = u BY <2>4
    <3> HIDE DEF u
    <3> QED BY <3>1, <3>2
  <2> HIDE DEF ms
  <2>6. ~InUse(ms, x)
    <3>1. NoFile.type = "none" BY DEF NoFile, NewNode
    <3> QED BY <2>5, <3>1 DEF InUse
  <2>7. ASSUME NEW n \in Node, InUse(ms, n)
        PROVE  /\ ms[n].parent \in Node /\ ms[n].parent[1] = n[1] /\ n[1] \in registered
               /\ ms[ms[n].parent].type = "directory"
    <3>1. n # x /\ ms[n] = ns[n] /\ InUse(ns, n) BY <2>5, <2>6, <2>7 DEF InUse
    <3>2. /\ ns[n].parent \in Node /\ ns[n].parent[1] = n[1] /\ n[1] \in registered
          /\ ns[ns[n].parent].type = "directory" BY <3>1 DEF Sound, Trees
    <3>3. CASE ns[n].parent # x BY <2>5, <3>1, <3>2, <3>3
    <3>4. CASE ns[n].parent = x
      <4>1. Entries(ns, x) = {} BY <2>2, <3>2, <3>4
      <4>2. n[2] = 0 BY <3>1, <3>2, <3>4, <4>1 DEF Entries
      <4>3. n = RootOf(n[1]) BY <4>2 DEF RootOf, Node
      <4>4. ns[n].parent = n BY <3>2, <4>3 DEF Sound, Trees
      <4> QED BY <3>1, <3>4, <4>4
    <3> QED BY <3>3, <3>4
  <2>8. \A f \in registered : RootOf(f) \in Node /\ RootOf(f) # x
    <3>1. 0 \in SlotOf BY RamFsAssumption DEF SlotOf
    <3>2. registered \subseteq Instance BY DEF Sound, Trees
    <3> QED BY <2>2, <3>1, <3>2 DEF RootOf, Node
  <2>9. Trees(ms, registered)
    <3>1. \A f \in registered : ms[RootOf(f)] = ns[RootOf(f)] BY <2>5, <2>8
    <3> QED BY <2>7, <3>1 DEF Sound, Trees
  <2>10. \A n \in Node : c[n] > 0 => InUse(ms, n)
    BY <2>3, <2>5 DEF Sound, InUse
  <2>11. Sound(ms, c) BY <2>3, <2>5, <2>9, <2>10 DEF Sound
  <2> QED BY <1>1, <1>3, <2>11 DEF ms
<1> QED BY <1>2, <1>3
\* A node moves to another directory, or stays.
LEMMA Renamed ==
    ASSUME NEW ns, NEW c, Sound(ns, c), NEW d \in Node, NEW e \in Node, d[1] = e[1],
           NEW name, NEW newname
    PROVE  Sound(ramfs_rename(ns, d, name, e, newname), c)
<1> DEFINE found == {n \in ramfs_find_child(ns, d, name) : ramfs_validate_rename_cycle(ns, n, e)}
           x == CHOOSE m \in found : TRUE
           refused == \/ ns[d].type # "directory" \/ ns[e].type # "directory"
                      \/ found = {} \/ ramfs_find_child(ns, e, newname) # {}
           ms == [ns EXCEPT ![x].parent = e, ![x].name = newname]
<1>1. ramfs_rename(ns, d, name, e, newname) = IF refused THEN ns ELSE ms BY DEF ramfs_rename
<1>2. CASE refused BY <1>1, <1>2
<1>3. CASE ~refused
  <2>1. x \in found BY <1>3
  <2>2. x \in Node /\ x[1] = d[1] /\ x[2] # 0 /\ InUse(ns, x)
    BY <2>1 DEF ramfs_find_child, Entries
  <2>3. ns[e].type = "directory" /\ InUse(ns, e) BY <1>3 DEF InUse
  <2> HIDE DEF x
  <2> DEFINE o == ns[x]
             u == [type |-> o.type, parent |-> e, name |-> newname, refs |-> c[x],
                   size |-> o.size, data |-> o.data]
  <2>4. ns = WithRefs(ns, c) BY DEF Sound
  <2>5. ns[x] = [type |-> o.type, parent |-> o.parent, name |-> o.name, refs |-> c[x],
                 size |-> o.size, data |-> o.data]
    BY <2>2, <2>4 DEF WithRefs
  <2>6. [[ns[x] EXCEPT !.parent = e] EXCEPT !.name = newname] = u
    <3> DEFINE v == [ns[x] EXCEPT !.parent = e]
    <3>1. v = [type |-> o.type, parent |-> e, name |-> o.name, refs |-> c[x],
               size |-> o.size, data |-> o.data]
      <4> HIDE DEF o
      <4> QED BY <2>5
    <3>2. [v EXCEPT !.name = newname] = u
      <4> HIDE DEF o, v
      <4> QED BY <3>1
    <3> QED BY <3>2
  <2>7. ms = [ns EXCEPT ![x] = u]
    <3> DEFINE v == [ns[x] EXCEPT !.parent = e]
    <3>1. [ns EXCEPT ![x].parent = e] = [ns EXCEPT ![x] = v] OBVIOUS
    <3>2. [ns EXCEPT ![x] = v][x] = v BY <2>2, <2>4 DEF WithRefs
    <3>3. ms = [[ns EXCEPT ![x] = v] EXCEPT ![x] = [v EXCEPT !.name = newname]]
      <4> HIDE DEF v
      <4> QED BY <3>1, <3>2
    <3> HIDE DEF v, u
    <3>4. [v EXCEPT !.name = newname] = u BY <2>6 DEF v
    <3> QED BY <3>3, <3>4
  <2>8. /\ ms = WithRefs(ms, c) /\ ms[x] = u
        /\ \A m \in Node : m # x => ms[m] = ns[m]
    <3> DEFINE vs == [ns EXCEPT ![x] = u]
    <3>1. /\ vs = WithRefs(vs, c) /\ vs[x] = u
          /\ \A m \in Node : m # x => vs[m] = ns[m] BY <2>2, SlotWritten
    <3> HIDE DEF u, ms
    <3> QED BY <2>7, <3>1
  <2> HIDE DEF ms
  <2>9. ms[x].type = ns[x].type /\ ms[x].parent = e BY <2>8
  <2>10. \A n \in Node : ms[n].type = ns[n].type /\ (InUse(ms, n) <=> InUse(ns, n))
    BY <2>8, <2>9 DEF InUse
  <2>11. ASSUME NEW n \in Node, InUse(ms, n)
         PROVE  /\ ms[n].parent \in Node /\ ms[n].parent[1] = n[1] /\ n[1] \in registered
                /\ ms[ms[n].parent].type = "directory"
    <3>1. /\ ns[n].parent \in Node /\ ns[n].parent[1] = n[1] /\ n[1] \in registered
          /\ ns[ns[n].parent].type = "directory"
      BY <2>10, <2>11 DEF Sound, Trees
    <3>2. CASE n = x BY <2>2, <2>3, <2>9, <2>10, <3>1, <3>2
    <3>3. CASE n # x BY <2>8, <2>10, <3>1, <3>3
    <3> QED BY <3>2, <3>3
  <2>12. \A f \in registered : RootOf(f) \in Node /\ RootOf(f) # x
    <3>1. 0 \in SlotOf BY RamFsAssumption DEF SlotOf
    <3>2. registered \subseteq Instance BY DEF Sound, Trees
    <3> QED BY <2>2, <3>1, <3>2 DEF RootOf, Node
  <2>13. Trees(ms, registered)
    <3>1. \A f \in registered : ms[RootOf(f)] = ns[RootOf(f)] BY <2>8, <2>12
    <3> QED BY <2>11, <3>1 DEF Sound, Trees
  <2>14. Sound(ms, c) BY <2>8, <2>10, <2>13 DEF Sound
  <2> QED BY <1>1, <1>3, <2>14 DEF ms
<1> QED BY <1>2, <1>3

\* Only the bytes of a file change.
LEMMA DataChanged ==
    ASSUME NEW ns, NEW c, Sound(ns, c), NEW n \in Node, NEW size, NEW data
    PROVE  /\ Sound([ns EXCEPT ![n].data = data, ![n].size = size], c)
           /\ Sound([ns EXCEPT ![n].size = size], c)
<1> DEFINE o == ns[n]
           Slot(z, b) == [type |-> o.type, parent |-> o.parent, name |-> o.name, refs |-> c[n],
                          size |-> z, data |-> b]
<1>1. ns = WithRefs(ns, c) BY DEF Sound
<1>2. ns[n] = Slot(o.size, o.data) BY <1>1 DEF WithRefs
<1>3. ASSUME NEW z, NEW b PROVE Sound([ns EXCEPT ![n] = Slot(z, b)], c)
  <2> DEFINE u == Slot(z, b)
             ms == [ns EXCEPT ![n] = u]
  <2>1. /\ ms = WithRefs(ms, c) /\ ms[n] = u
        /\ \A m \in Node : m # n => ms[m] = ns[m] BY SlotWritten
  <2> HIDE DEF ms
  <2>2. \A m \in Node : /\ ms[m].type = ns[m].type /\ ms[m].parent = ns[m].parent
                        /\ InUse(ms, m) <=> InUse(ns, m)
    BY <2>1 DEF InUse
  <2>3. \A f \in registered : RootOf(f) \in Node
    <3>1. 0 \in SlotOf BY RamFsAssumption DEF SlotOf
    <3>2. registered \subseteq Instance BY DEF Sound, Trees
    <3> QED BY <3>1, <3>2 DEF RootOf, Node
  <2>4. \A m \in Node : InUse(ns, m) => ns[m].parent \in Node BY DEF Sound, Trees
  <2>5. Trees(ms, registered) BY <2>2, <2>3, <2>4 DEF Sound, Trees
  <2>6. Sound(ms, c) BY <2>1, <2>2, <2>5 DEF Sound
  <2> QED BY <2>6 DEF ms
<1>4. [ns EXCEPT ![n].size = size] = [ns EXCEPT ![n] = Slot(size, o.data)]
  <2>1. [ns[n] EXCEPT !.size = size] = Slot(size, o.data)
    <3> HIDE DEF o
    <3> QED BY <1>2
  <2> QED BY <2>1
<1>5. [ns EXCEPT ![n].data = data, ![n].size = size] = [ns EXCEPT ![n] = Slot(size, data)]
  <2> DEFINE v == [ns[n] EXCEPT !.data = data]
  <2>1. v = Slot(o.size, data)
    <3> HIDE DEF o
    <3> QED BY <1>2
  <2>2. [v EXCEPT !.size = size] = Slot(size, data)
    <3> HIDE DEF o, v
    <3> QED BY <2>1
  <2>3. [ns EXCEPT ![n].data = data] = [ns EXCEPT ![n] = v] OBVIOUS
  <2>4. [ns EXCEPT ![n] = v][n] = v BY <1>1 DEF WithRefs
  <2> HIDE DEF v, Slot
  <2> QED BY <2>2, <2>3, <2>4
<1> QED BY <1>3, <1>4, <1>5

\* A file is written or truncated, or not.
LEMMA FileWritten ==
    ASSUME NEW ns, NEW c, Sound(ns, c), NEW n \in Node, NEW heap, NEW k, NEW bytes
    PROVE  /\ Sound(ramfs_write(ns, n, k, bytes, heap), c)
           /\ Sound(ramfs_truncate(ns, n, k, heap), c)
<1>1. Sound(ramfs_write(ns, n, k, bytes, heap), c)
  BY DataChanged DEF ramfs_write
<1>2. Sound(ramfs_truncate(ns, n, k, heap), c)
  BY DataChanged DEF ramfs_truncate
<1> QED BY <1>1, <1>2
----------------------------------------------------------------------------
(* Paths pin their nodes                                                   *)

\* A node that is counted exists.
LEMMA CountedNode ==
    ASSUME FilesInv, NEW q, Valid(q), PathsAt(q.node) > 0 \/ ProgramsAt(q.node) > 0
    PROVE  Good(q) /\ Refs[q.node] > 0 /\ q.node \in Node /\ q # NoPath
<1>1. q.node \in Node BY DEF Valid, Paths
<1>2. nodes[q.node].refs = PathsAt(q.node) + MountsAt(q.node) + ProgramsAt(q.node)
  BY <1>1 DEF FilesInv, RefsTrue
<1>3. nodes[q.node].refs > 0 BY <1>2, CountsNat
<1>4. InUse(nodes, q.node) BY <1>1, <1>3, PinnedInUse
<1>5. Refs[q.node] = nodes[q.node].refs BY <1>1 DEF Refs, RefsIn
<1>6. q.node # <<>> BY <1>1 DEF Node
<1> QED BY <1>1, <1>3, <1>4, <1>5, <1>6 DEF Good, NoPath

\* A user's path.
LEMMA HeldGood ==
    ASSUME FilesInv, NEW h \in Holder, held[h] # NoPath
    PROVE  Good(held[h]) /\ Refs[held[h].node] > 0 /\ held[h].node \in Node /\ held[h] # NoPath
<1>1. Valid(held[h]) BY DEF FilesInv, PathsOK, Handle
<1> DEFINE n == held[h].node
           A == {k \in Holder : held[k].node = n}
           B == {r \in Reader : opened[r].path.node = n}
           e == h
<1>2. A \subseteq Holder /\ B \subseteq Reader /\ e \in A OBVIOUS
<1>3. PathsAt(n) = Cardinality(A) + Cardinality(B) BY DEF PathsAt
<1> HIDE DEF A, B, e
<1>4. Cardinality(A) \in Nat /\ Cardinality(B) \in Nat /\ Cardinality(A) # 0
  BY <1>2, Finite, SubsetCount
<1>5. PathsAt(n) > 0 BY <1>3, <1>4
<1> QED BY <1>1, <1>5, CountedNode

\* An open handle.
LEMMA OpenedGood ==
    ASSUME FilesInv, NEW h \in Reader, opened[h].open
    PROVE  Good(opened[h].path) /\ Refs[opened[h].path.node] > 0 /\ opened[h].path.node \in Node /\ opened[h].path # NoPath
<1>1. Valid(opened[h].path) BY DEF FilesInv, PathsOK, Handle
<1> DEFINE n == opened[h].path.node
           A == {r \in Reader : opened[r].path.node = n}
           B == {k \in Holder : held[k].node = n}
           e == h
<1>2. A \subseteq Reader /\ B \subseteq Holder /\ e \in A OBVIOUS
<1>3. PathsAt(n) = Cardinality(B) + Cardinality(A) BY DEF PathsAt
<1> HIDE DEF A, B, e
<1>4. Cardinality(A) \in Nat /\ Cardinality(B) \in Nat /\ Cardinality(A) # 0
  BY <1>2, Finite, SubsetCount
<1>5. PathsAt(n) > 0 BY <1>3, <1>4
<1> QED BY <1>1, <1>5, CountedNode

\* A working directory.
LEMMA CwdGood ==
    ASSUME FilesInv, NEW p \in Program, Alive(p)
    PROVE  Good(cwd[p]) /\ Refs[cwd[p].node] > 0 /\ cwd[p].node \in Node /\ cwd[p] # NoPath
<1>1. Valid(cwd[p]) BY DEF FilesInv, PathsOK, Alive
<1> DEFINE n == cwd[p].node
           A == {k \in Program : cwd[k].node = n}
           B == {x \in Program \X FdSlot : fds[x[1]][x[2]].path.node = n}
           e == p
<1>2. A \subseteq Program /\ B \subseteq (Program \X FdSlot) /\ e \in A OBVIOUS
<1>3. ProgramsAt(n) = Cardinality(A) + Cardinality(B) BY DEF ProgramsAt
<1> HIDE DEF A, B, e
<1>4. Cardinality(A) \in Nat /\ Cardinality(B) \in Nat /\ Cardinality(A) # 0
  BY <1>2, Finite, SubsetCount
<1>5. ProgramsAt(n) > 0 BY <1>3, <1>4
<1> QED BY <1>1, <1>5, CountedNode

\* An open descriptor.
LEMMA FdGood ==
    ASSUME FilesInv, NEW p \in Program, NEW d \in FdSlot, fds[p][d].open
    PROVE  Good(fds[p][d].path) /\ Refs[fds[p][d].path.node] > 0 /\ fds[p][d].path.node \in Node /\ fds[p][d].path # NoPath
<1>1. Valid(fds[p][d].path) BY DEF FilesInv, PathsOK, Handle
<1> DEFINE n == fds[p][d].path.node
           A == {x \in Program \X FdSlot : fds[x[1]][x[2]].path.node = n}
           B == {k \in Program : cwd[k].node = n}
           e == <<p, d>>
<1>2. A \subseteq (Program \X FdSlot) /\ B \subseteq Program /\ e \in A OBVIOUS
<1>3. ProgramsAt(n) = Cardinality(B) + Cardinality(A) BY DEF ProgramsAt
<1> HIDE DEF A, B, e
<1>4. Cardinality(A) \in Nat /\ Cardinality(B) \in Nat /\ Cardinality(A) # 0
  BY <1>2, Finite, SubsetCount
<1>5. ProgramsAt(n) > 0 BY <1>3, <1>4
<1> QED BY <1>1, <1>5, CountedNode

\* The root of the mounts is a path.
LEMMA RootGood ==
    ASSUME FilesInv, vfs_initialized
    PROVE  Good(RootPath)
<1>1. 0 \in MountSlot /\ mounts[0].active BY Finite DEF vfs_initialized
<1>2. /\ RootOf(mounts[0].fs) \in Node /\ InUse(nodes, RootOf(mounts[0].fs))
      /\ RootOf(mounts[0].fs)[1] = mounts[0].fs
  BY <1>1, MountNodes
<1>3. RootPath \in Paths /\ RootPath.mount = 0 /\ RootPath.node = RootOf(mounts[0].fs)
  BY <1>1, <1>2 DEF RootPath, Paths
<1> QED BY <1>1, <1>2, <1>3 DEF Good, Valid

\* The totals in the next state are numbers.
LEMMA NextCountsNat ==
    ASSUME NEW n
    PROVE  TotalAt(n)' \in Nat
<1> DEFINE A == {h \in Holder : held'[h].node = n}
           B == {r \in Reader : opened'[r].path.node = n}
           C == {m \in MountSlot : mounts'[m].active /\ RootOf(mounts'[m].fs) = n}
           D == {m \in MountSlot : mounts'[m].active /\ mounts'[m].mountpoint = n}
           E == {p \in Program : cwd'[p].node = n}
           F == {x \in Program \X FdSlot : fds'[x[1]][x[2]].path.node = n}
<1>1. /\ A \subseteq Holder /\ B \subseteq Reader /\ C \subseteq MountSlot /\ D \subseteq MountSlot
      /\ E \subseteq Program /\ F \subseteq Program \X FdSlot OBVIOUS
<1>2. TotalAt(n)' = (Cardinality(A) + Cardinality(B)) + (Cardinality(C) + Cardinality(D))
                    + (Cardinality(E) + Cardinality(F))
  BY DEF TotalAt, PathsAt, MountsAt, ProgramsAt, RootOf
<1> HIDE DEF A, B, C, D, E, F
<1>3. /\ Cardinality(A) \in Nat /\ Cardinality(B) \in Nat /\ Cardinality(C) \in Nat
      /\ Cardinality(D) \in Nat /\ Cardinality(E) \in Nat /\ Cardinality(F) \in Nat
  BY <1>1, Finite, SubsetCount
<1> QED BY <1>2, <1>3

\* A call that changes references only, each new one to a node that exists.
LEMMA ClosesWith ==
    ASSUME FilesInv, NEW c \in Counts, nodes' = WithRefs(nodes, c), registered' = registered,
           MountsOK', PathsOK', Totals',
           \A n \in Node : c[n] = TotalAt(n)' /\ (c[n] > Refs[n] => InUse(nodes, n))
    PROVE  FilesInv'
<1>1. Sound(nodes, Refs) BY SoundNow
<1>2. \A n \in Node : c[n] \in Nat BY NextCountsNat
<1>3. c \in [Node -> Nat] BY <1>2 DEF Counts
<1>4. ASSUME NEW n \in Node, c[n] > 0 PROVE InUse(nodes', n)
  <2>1. InUse(nodes, n)
    <3>1. Refs[n] \in Nat /\ c[n] \in Nat /\ (Refs[n] > 0 => InUse(nodes, n))
      BY <1>1, <1>2 DEF Sound
    <3>2. Refs[n] > 0 \/ c[n] > Refs[n] BY <1>4, <3>1
    <3> QED BY <3>1, <3>2
  <2> QED BY <2>1, SameSlots
<1>5. Trees(nodes', registered) BY <1>1, SameTrees DEF Sound
<1>6. nodes' = WithRefs(nodes', c) BY DEF WithRefs
<1>7. Sound(nodes', c) BY <1>3, <1>4, <1>5, <1>6 DEF Sound
<1> QED BY <1>7, Closes
----------------------------------------------------------------------------
(* The calls of programs                                                   *)

\* A path is taken.
LEMMA TakenIsPinned ==
    ASSUME FilesInv, NEW q, q.node \in Node
    PROVE  /\ vfs_path_acquire(Now, q) = Pinned(q)
           /\ vfs_path_release(Pinned(q), q) = Now
<1>1. vfs_path_acquire(Now, q) = Pinned(q) BY NowCounted, PathsMove DEF Pinned
<1>2. vfs_path_release(vfs_path_acquire(Now, q), q) = Now BY NowCounted, TakenAndGiven
<1> QED BY <1>1, <1>2

\* The text of a program has a length, also without its last component.
LEMMA TextLength ==
    ASSUME NEW t \in UserText
    PROVE  /\ Len(t.components) \in Nat
           /\ t.components # <<>> => Len(Front(t.components)) \in Nat
<1>1. t.components \in PathText BY DEF UserText
<1>2. PICK k \in 0..PathMax : t.components \in [1..k -> Component] BY <1>1 DEF PathText
<1>3. k \in Nat BY VfsAssumption
<1>4. t.components \in Seq(Component) BY <1>2, <1>3
<1> DEFINE c == t.components
<1>5. Len(c) \in Nat BY <1>4
<1>6. ASSUME c # <<>> PROVE Len(Front(c)) \in Nat
  <2> HIDE DEF c
  <2>1. c \in Seq(Component) BY <1>4 DEF c
  <2>2. Len(c) >= 1 BY <1>6, <2>1
  <2>3. Front(c) = SubSeq(c, 1, Len(c) - 1) BY DEF Front
  <2> QED BY <2>1, <2>2, <2>3
<1> QED BY <1>5, <1>6

\* Where the path of a program starts.
LEMMA StartGood ==
    ASSUME FilesInv, NEW p \in Program, Alive(p), NEW absolute
    PROVE  Good(IF absolute THEN RootPath ELSE cwd[p])
<1>1. Good(cwd[p]) BY CwdGood
<1>2. cwd[p].mount \in MountSlot /\ mounts[cwd[p].mount].active BY <1>1 DEF Good, Valid, Paths
<1>3. vfs_initialized BY <1>2 DEF FilesInv, MountsOK, vfs_initialized
<1> QED BY <1>1, <1>3, RootGood

\* A program's path is resolved.
LEMMA ProcessResolved ==
    ASSUME FilesInv, NEW p \in Program, Alive(p), NEW t \in UserText
    PROVE  vfs_resolve_process(Now, p, t) \in Reached
<1> DEFINE start == IF t.absolute THEN RootPath ELSE cwd[p]
<1>1. Good(start) BY StartGood
<1> HIDE DEF start
<1>2. vfs_resolve(Now, start, t.components) \in Reached BY <1>1, TextLength, Resolved
<1> QED BY <1>2 DEF vfs_resolve_process, start

\* So is the directory of what it names.
LEMMA ParentResolved ==
    ASSUME FilesInv, NEW p \in Program, Alive(p), NEW t \in UserText, t.components # <<>>
    PROVE  syscall_fs_resolve_parent(Now, p, t) \in Reached
<1> DEFINE u == [t EXCEPT !.components = Front(@)]
           start == IF t.absolute THEN RootPath ELSE cwd[p]
<1>1. u.absolute = t.absolute /\ u.components = Front(t.components) BY DEF UserText
<1>2. Good(start) BY StartGood
<1>3. syscall_fs_resolve_parent(Now, p, t) = vfs_resolve(Now, start, Front(t.components))
  <2> HIDE DEF u
  <2>1. vfs_resolve_process(Now, p, u) = vfs_resolve(Now, start, Front(t.components))
    BY <1>1 DEF vfs_resolve_process
  <2> QED BY <2>1 DEF syscall_fs_resolve_parent, u
<1> HIDE DEF start
<1>4. vfs_resolve(Now, start, Front(t.components)) \in Reached BY <1>2, TextLength, Resolved
<1> QED BY <1>3, <1>4

\* The outcome of a resolution.
LEMMA ReachedCases ==
    ASSUME FilesInv, NEW w \in Reached
    PROVE  \/ w.ok = FALSE /\ w.s = Now /\ w.path = NoPath
           \/ /\ w.ok = TRUE /\ w.s = Pinned(w.path) /\ Good(w.path) /\ w.path.node \in Node
              /\ \A n \in Node : w.s.nodes[n].type = nodes[n].type
<1>1. CASE w = Failed(Now) BY <1>1 DEF Failed
<1>2. ASSUME NEW q \in Paths, Good(q), w = At(Pinned(q), q)
      PROVE  /\ w.ok = TRUE /\ w.s = Pinned(w.path) /\ Good(w.path) /\ w.path.node \in Node
             /\ \A n \in Node : w.s.nodes[n].type = nodes[n].type
  <2>1. w.ok = TRUE /\ w.path = q /\ w.s = Pinned(q) BY <1>2, WalkParts
  <2>2. \A n \in Node : Pinned(q).nodes[n].type = nodes[n].type BY WalkParts
  <2>3. q.node \in Node BY DEF Paths
  <2> QED BY <1>2, <2>1, <2>2, <2>3
<1> QED BY <1>1, <1>2 DEF Reached

\* A state whose slots and counts are sound, as a counted state.
LEMMA SoundState ==
    ASSUME NEW ns, NEW c, Sound(ns, c), NEW k
    PROVE  Counted(ns, c, k) = [nodes |-> ns, paths |-> k] /\ c \in Counts
<1>1. ns = WithRefs(ns, c) BY DEF Sound
<1>2. c \in Counts BY DEF Sound, Counts
<1> QED BY <1>1, <1>2 DEF Counted

\* A creation gives back the path of the new node.
LEMMA CreatedAtIs ==
    ASSUME NEW ns, NEW c, Sound(ns, c), NEW k \in Int, NEW d, d.node \in Node, NEW name,
           NEW type \in {"file", "directory"}, d \in Paths
    PROVE  \E ms : Sound(ms, c) /\ CreatedAt(Counted(ns, c, k), d, name, type) = Counted(ms, c, k)
<1> DEFINE ms == ramfs_create_node(ns, d.node, name, type)
           x == CHOOSE n \in ramfs_find_child(ms, d.node, name) : TRUE
           new == [d EXCEPT !.node = x]
           s == Counted(ns, c, k)
<1>1. /\ Sound(ms, c)
      /\ ms # ns => /\ ramfs_find_child(ms, d.node, name) # {}
                    /\ \A n \in ramfs_find_child(ms, d.node, name) : n \in Node
  BY Created
<1>2. s = [nodes |-> ns, paths |-> k] /\ c \in Counts
      /\ Counted(ms, c, k) = [nodes |-> ms, paths |-> k]
  BY <1>1, SoundState
<1>3. s.nodes = ns /\ [s EXCEPT !.nodes = ms] = Counted(ms, c, k)
  <2> HIDE DEF ms, s
  <2> QED BY <1>2
<1>4. CreatedAt(s, d, name, type) =
        IF ms = ns THEN s
        ELSE vfs_path_release(vfs_path_acquire([s EXCEPT !.nodes = ms], new), new)
  <2> HIDE DEF s
  <2> QED BY <1>3 DEF CreatedAt
<1>5. CASE ms = ns
  <2> HIDE DEF ms, s, new
  <2>1. CreatedAt(s, d, name, type) = s BY <1>4, <1>5
  <2> QED BY <2>1 DEF s
<1>6. CASE ms # ns
  <2>1. x \in Node BY <1>1, <1>6
  <2>2. new.node = x
    <3> HIDE DEF x
    <3> QED BY DEF Paths
  <2> HIDE DEF ms, s, new, x
  <2>3. vfs_path_release(vfs_path_acquire(Counted(ms, c, k), new), new) = Counted(ms, c, k)
    BY <1>2, <2>1, <2>2, TakenAndGiven
  <2>4. CreatedAt(s, d, name, type) = Counted(ms, c, k) BY <1>3, <1>4, <1>6, <2>3
  <2> QED BY <1>1, <2>4 DEF s
<1> QED BY <1>5, <1>6

\* So does a removal.
LEMMA RemovedAtIs ==
    ASSUME NEW ns, NEW c, Sound(ns, c), NEW k \in Int, NEW d, d.node \in Node, NEW name, NEW type
    PROVE  \E ms : Sound(ms, c) /\ RemovedAt(Counted(ns, c, k), d, name, type) = Counted(ms, c, k)
<1> DEFINE ms == ramfs_remove_node(ns, d.node, name, type)
           s == Counted(ns, c, k)
<1>1. Sound(ms, c) BY Removed
<1>2. s = [nodes |-> ns, paths |-> k] /\ Counted(ms, c, k) = [nodes |-> ms, paths |-> k]
  BY <1>1, SoundState
<1>3. s.nodes = ns /\ [s EXCEPT !.nodes = ms] = Counted(ms, c, k)
  <2> HIDE DEF ms, s
  <2> QED BY <1>2
<1>4. RemovedAt(s, d, name, type) = [s EXCEPT !.nodes = ms]
  <2> HIDE DEF s
  <2> QED BY <1>3 DEF RemovedAt
<1> QED BY <1>1, <1>3, <1>4
\* A path that is edited at and given back: sound slots with the counts from
\* before.
Restored(s) == \E ns : Sound(ns, Refs) /\ s = Counted(ns, Refs, path_reference_count)

\* A sound state at a pinned path is restored when the path is released.
LEMMA ReleaseRestores ==
    ASSUME FilesInv, NEW q, q.node \in Node, NEW ns, Sound(ns, Up(Refs, q.node))
    PROVE  Restored(vfs_path_release(Counted(ns, Up(Refs, q.node), path_reference_count + 1), q))
<1> DEFINE c == Up(Refs, q.node)
           k == path_reference_count
           s == vfs_path_release(Counted(ns, c, k + 1), q)
<1>1. Refs \in Counts /\ k \in Int BY NowCounted
<1>2. c \in Counts /\ Down(c, q.node) = Refs BY <1>1, CountsMove
<1>3. c[q.node] > 0
  <2>1. c[q.node] = Refs[q.node] + Bit(q.node = q.node) BY <1>1, CountsMove
  <2>2. Refs[q.node] \in Nat BY SoundNow DEF Sound
  <2> QED BY <2>1, <2>2 DEF Bit
<1>4. s = Counted(ns, Refs, k)
  <2>1. PICK j \in Int : j = k + 1 BY <1>1
  <2>2. j - 1 = k BY <1>1, <2>1
  <2>3. s = vfs_path_release(Counted(ns, c, j), q) BY <2>1
  <2> HIDE DEF c, k, s
  <2>4. vfs_path_release(Counted(ns, c, j), q) = Counted(ns, Down(c, q.node), j - 1)
    BY <1>2, PathsMove
  <2> QED BY <1>2, <2>2, <2>3, <2>4
<1>5. Sound(WithRefs(ns, Refs), Refs)
  <2>1. Sound(WithRefs(ns, Down(c, q.node)), Down(c, q.node))
    <3> HIDE DEF c
    <3>1. Sound(ns, c) BY DEF c
    <3> QED BY <1>3, <3>1, SoundMoves
  <2> QED BY <1>2, <2>1
<1>6. Counted(ns, Refs, k) = Counted(WithRefs(ns, Refs), Refs, k) BY DEF Counted, WithRefs
<1> QED BY <1>4, <1>5, <1>6 DEF Restored

\* Creation and removal at a path.
LEMMA EditRestores ==
    ASSUME FilesInv, NEW q, Good(q), NEW name, NEW type \in {"file", "directory"}
    PROVE  /\ Restored(vfs_path_release(CreatedAt(Pinned(q), q, name, type), q))
           /\ Restored(vfs_path_release(RemovedAt(Pinned(q), q, name, type), q))
<1> DEFINE c == Up(Refs, q.node)
           k == path_reference_count + 1
           ns == WithRefs(nodes, c)
<1>1. q.node \in Node /\ q \in Paths /\ InUse(nodes, q.node) BY DEF Good, Valid, Paths
<1>2. Sound(ns, c) BY <1>1, SoundNow, SoundMoves
<1>3. k \in Int BY NowCounted
<1>4. Pinned(q) = Counted(ns, c, k)
  BY DEF Pinned, Counted, WithRefs
<1> HIDE DEF c, k, ns
<1>5. PICK ms : Sound(ms, c) /\ CreatedAt(Counted(ns, c, k), q, name, type) = Counted(ms, c, k)
  BY <1>1, <1>2, <1>3, CreatedAtIs
<1>6. PICK rs : Sound(rs, c) /\ RemovedAt(Counted(ns, c, k), q, name, type) = Counted(rs, c, k)
  BY <1>1, <1>2, <1>3, RemovedAtIs
<1>7. Restored(vfs_path_release(Counted(ms, c, k), q))
      /\ Restored(vfs_path_release(Counted(rs, c, k), q))
  BY <1>1, <1>5, <1>6, ReleaseRestores DEF c, k
<1> QED BY <1>4, <1>5, <1>6, <1>7

\* A call that ends in a restored state and moves no path.
LEMMA RestoredCloses ==
    ASSUME FilesInv, NEW s, Restored(s), References(s),
           UNCHANGED <<registered, mounts, held, opened, cwd, fds, open_handle_count>>
    PROVE  FilesInv'
<1>1. PICK ns : Sound(ns, Refs) /\ s = Counted(ns, Refs, path_reference_count)
  BY DEF Restored
<1>2. s = [nodes |-> ns, paths |-> path_reference_count] BY <1>1, SoundState
<1>3. nodes' = ns /\ path_reference_count' = path_reference_count BY <1>2 DEF References
<1>4. Totals BY DEF FilesInv, RefsTrue, Totals, HeldCount, LiveCount, OpenCount, FdCount
<1>5. /\ \A n \in Node : TotalAt(n)' = TotalAt(n)
      /\ HeldCount' = HeldCount /\ OpenCount' = OpenCount
      /\ LiveCount' = LiveCount /\ FdCount' = FdCount
      /\ MountsOK' /\ PathsOK'
  BY NoneMoves
<1>6. Totals' BY <1>3, <1>4, <1>5 DEF Totals
<1>7. \A n \in Node : Refs[n] = TotalAt(n)'
  BY <1>5 DEF FilesInv, RefsTrue, TotalAt, Refs, RefsIn
<1>8. Sound(nodes', Refs) BY <1>1, <1>3
<1> DEFINE c == Refs
<1> HIDE DEF c
<1>9. Sound(nodes', c) /\ \A n \in Node : c[n] = TotalAt(n)' BY <1>7, <1>8 DEF c
<1> QED BY <1>5, <1>6, <1>9, Closes
----------------------------------------------------------------------------
(* The calls of programs                                                   *)

\* Directories are made and removed in the working directory.
LEMMA DirectoryCalls ==
    ASSUME FilesInv, NEW p \in Program, Alive(p), NEW name
    PROVE  syscall_fs_mkdir(p, name) \/ syscall_fs_rmdir(p, name) => FilesInv'
<1>1. Good(cwd[p]) /\ cwd[p].node \in Node BY CwdGood
<1>2. vfs_path_acquire(Now, cwd[p]) = Pinned(cwd[p]) BY <1>1, TakenIsPinned
<1> DEFINE s == vfs_path_release(CreatedAt(Pinned(cwd[p]), cwd[p], name, "directory"), cwd[p])
           t == vfs_path_release(RemovedAt(Pinned(cwd[p]), cwd[p], name, "directory"), cwd[p])
<1>3. Restored(s) /\ Restored(t) BY <1>1, EditRestores
<1>4. ASSUME syscall_fs_mkdir(p, name) PROVE FilesInv'
  <2>1. Directory(s) BY <1>2, <1>4 DEF syscall_fs_mkdir
  <2> HIDE DEF s
  <2>2. References(s) /\ UNCHANGED <<registered, mounts, held, opened, cwd, fds, open_handle_count>>
    BY <2>1 DEF Directory, Same
  <2> QED BY <1>3, <2>2, RestoredCloses
<1>5. ASSUME syscall_fs_rmdir(p, name) PROVE FilesInv'
  <2>1. Directory(t) BY <1>2, <1>5 DEF syscall_fs_rmdir
  <2> HIDE DEF t
  <2>2. References(t) /\ UNCHANGED <<registered, mounts, held, opened, cwd, fds, open_handle_count>>
    BY <2>1 DEF Directory, Same
  <2> QED BY <1>3, <2>2, RestoredCloses
<1> QED BY <1>4, <1>5

\* The state before a call is a restored one.
LEMMA NowRestored == FilesInv => Restored(Now)
BY NowCounted, SoundNow DEF Restored

\* Files are made and removed at a path.
LEMMA FileNameCalls ==
    ASSUME FilesInv, NEW p \in Program, Alive(p), NEW t \in UserText
    PROVE  syscall_fs_touch(p, t) \/ syscall_fs_unlink(p, t) => FilesInv'
<1> SUFFICES ASSUME syscall_fs_touch(p, t) \/ syscall_fs_unlink(p, t)
             PROVE  FilesInv'
  OBVIOUS
<1> DEFINE w == syscall_fs_resolve_parent(Now, p, t)
           made == vfs_path_release(CreatedAt(w.s, w.path, Last(t.components), "file"), w.path)
           gone == vfs_path_release(RemovedAt(w.s, w.path, Last(t.components), "file"), w.path)
<1>1. t.components # <<>> BY DEF syscall_fs_touch, syscall_fs_unlink
<1>2. w \in Reached BY <1>1, ParentResolved
<1>3. PICK s : Directory(s) /\ (s = (IF w.ok THEN made ELSE w.s) \/ s = (IF w.ok THEN gone ELSE w.s))
  BY DEF syscall_fs_touch, syscall_fs_unlink
<1>4. Restored(s)
  <2>1. CASE w.ok = FALSE /\ w.s = Now /\ w.path = NoPath
    BY <1>3, <2>1, NowRestored
  <2>2. CASE w.ok = TRUE /\ w.s = Pinned(w.path) /\ Good(w.path) /\ w.path.node \in Node
    <3> DEFINE q == w.path
    <3>1. Good(q) /\ w.s = Pinned(q) BY <2>2
    <3>2. s = vfs_path_release(CreatedAt(Pinned(q), q, Last(t.components), "file"), q)
          \/ s = vfs_path_release(RemovedAt(Pinned(q), q, Last(t.components), "file"), q)
      BY <1>3, <2>2, <3>1
    <3> HIDE DEF q
    <3> QED BY <3>1, <3>2, EditRestores
  <2> HIDE DEF w
  <2> QED BY <1>2, <2>1, <2>2, ReachedCases
<1>5. References(s) /\ UNCHANGED <<registered, mounts, held, opened, cwd, fds, open_handle_count>>
  BY <1>3 DEF Directory, Same
<1> QED BY <1>4, <1>5, RestoredCloses
\* A path takes the place of another one.
LEMMA Exchanged ==
    ASSUME FilesInv, NEW q, q.node \in Node, NEW r, r.node \in Node
    PROVE  \E c \in Counts :
               /\ vfs_path_release(vfs_path_release(vfs_path_acquire(Pinned(q), q), r), q)
                    = Counted(nodes, c, path_reference_count)
               /\ \A n \in Node : c[n] = Refs[n] + Bit(n = q.node) - Bit(n = r.node)
<1>0. PICK x \in Node, y \in Node : x = q.node /\ y = r.node OBVIOUS
<1> DEFINE a == Up(Refs, x)
           b == Up(a, x)
           c == Down(b, y)
           d == Down(c, x)
           k == path_reference_count
<1>1. Refs \in Counts /\ k \in Int BY NowCounted
<1>2. a \in Counts /\ \A n \in Node : a[n] = Refs[n] + Bit(n = x) BY <1>1, CountsMove
<1> HIDE DEF a
<1>3. b \in Counts /\ \A n \in Node : b[n] = a[n] + Bit(n = x) BY <1>2, CountsMove
<1> HIDE DEF b
<1>4. c \in Counts /\ \A n \in Node : c[n] = b[n] - Bit(n = y) BY <1>3, CountsMove
<1> HIDE DEF c
<1>5. d \in Counts /\ \A n \in Node : d[n] = c[n] - Bit(n = x) BY <1>4, CountsMove
<1> HIDE DEF d
<1>6. vfs_path_acquire(Pinned(q), q) = Counted(nodes, b, k + 1 + 1)
  <2>1. k + 1 \in Int BY <1>1
  <2> QED BY <1>0, <1>2, <2>1, PathsMove DEF Pinned, a, b
<1>7. PICK i \in Int : i = k + 1 BY <1>1
<1>8. PICK j \in Int : j = k + 1 + 1 BY <1>1
<1>9. j - 1 = i /\ i - 1 = k BY <1>1, <1>7, <1>8
<1>10. vfs_path_release(Counted(nodes, b, j), r) = Counted(nodes, c, i)
  BY <1>0, <1>3, <1>9, PathsMove DEF c
<1>11. vfs_path_release(Counted(nodes, c, i), q) = Counted(nodes, d, k)
  BY <1>0, <1>4, <1>9, PathsMove DEF d
<1>12. \A n \in Node : d[n] = Refs[n] + Bit(n = q.node) - Bit(n = r.node)
  <2> SUFFICES ASSUME NEW n \in Node PROVE d[n] = Refs[n] + Bit(n = q.node) - Bit(n = r.node)
    OBVIOUS
  <2>1. Refs[n] \in Int BY <1>1 DEF Counts
  <2>2. Bit(n = q.node) \in Int /\ Bit(n = r.node) \in Int BY DEF Bit
  <2>3. /\ a[n] = Refs[n] + Bit(n = q.node) /\ b[n] = a[n] + Bit(n = q.node)
        /\ c[n] = b[n] - Bit(n = r.node) /\ d[n] = c[n] - Bit(n = q.node)
    BY <1>0, <1>2, <1>3, <1>4, <1>5
  <2> QED BY <2>1, <2>2, <2>3
<1>13. vfs_path_release(vfs_path_release(vfs_path_acquire(Pinned(q), q), r), q)
         = Counted(nodes, d, k)
  BY <1>6, <1>8, <1>10, <1>11
<1> QED BY <1>5, <1>12, <1>13

\* A program moves.
LEMMA ChdirCall ==
    ASSUME FilesInv, NEW p \in Program, Alive(p), NEW t \in UserText, syscall_fs_chdir(p, t)
    PROVE  FilesInv'
<1> DEFINE w == vfs_resolve_process(Now, p, t)
           q == w.path
<1>1. w \in Reached BY ProcessResolved
<1>2. w.ok BY DEF syscall_fs_chdir
<1>3. w.s = Pinned(q) /\ Good(q) /\ q.node \in Node
  <2> HIDE DEF w
  <2> QED BY <1>1, <1>2, ReachedCases
<1>4. /\ UNCHANGED <<registered, mounts, held, opened, fds, open_handle_count>>
      /\ \/ /\ References(vfs_path_release(process_replace_cwd(w.s, p, q), q))
            /\ cwd' = [cwd EXCEPT ![p] = q]
         \/ References(vfs_path_release(w.s, q)) /\ UNCHANGED cwd
  BY DEF syscall_fs_chdir, Same
<1> HIDE DEF w, q
<1>5. CASE References(vfs_path_release(w.s, q)) /\ UNCHANGED cwd
  <2>1. References(Now) BY <1>3, <1>5, TakenIsPinned
  <2> QED BY <1>4, <1>5, <2>1, NowRestored, RestoredCloses
<1>6. CASE /\ References(vfs_path_release(process_replace_cwd(w.s, p, q), q))
           /\ cwd' = [cwd EXCEPT ![p] = q]
  <2>1. cwd[p].node \in Node /\ cwd[p] # NoPath BY CwdGood
  <2>2. PICK c \in Counts :
               /\ vfs_path_release(vfs_path_release(vfs_path_acquire(Pinned(q), q), cwd[p]), q)
                    = Counted(nodes, c, path_reference_count)
               /\ \A n \in Node : c[n] = Refs[n] + Bit(n = q.node) - Bit(n = cwd[p].node)
    BY <1>3, <2>1, Exchanged
  <2>3. nodes' = WithRefs(nodes, c) /\ path_reference_count' = path_reference_count
    <3>1. process_replace_cwd(w.s, p, q) = vfs_path_release(vfs_path_acquire(Pinned(q), q), cwd[p])
      BY <1>3 DEF process_replace_cwd
    <3>2. References(Counted(nodes, c, path_reference_count)) BY <1>6, <2>2, <3>1
    <3> QED BY <3>2 DEF References, Counted
  <2>4. Valid(q) /\ InUse(nodes, q.node) /\ q # NoPath
    <3>1. Valid(q) /\ InUse(nodes, q.node) BY <1>3 DEF Good
    <3>2. NoPath.node \notin Node
      <4>1. NoPath.node = <<>> BY DEF NoPath
      <4>2. <<>> \notin Node BY DEF Node
      <4> QED BY <4>1, <4>2
    <3> QED BY <1>3, <3>1, <3>2
  <2>5. /\ \A n \in Node : TotalAt(n)' = TotalAt(n) - Bit(cwd[p].node = n) + Bit(q.node = n)
        /\ LiveCount' = LiveCount - Bit(cwd[p] # NoPath) + Bit(q # NoPath)
        /\ HeldCount' = HeldCount /\ OpenCount' = OpenCount /\ FdCount' = FdCount
        /\ MountsOK' /\ PathsOK'
    BY <1>4, <1>6, <2>4, CwdMoves
  <2>6. Totals'
    <3>1. Totals BY DEF FilesInv, RefsTrue, Totals, HeldCount, LiveCount, OpenCount, FdCount
    <3>2. LiveCount' = LiveCount BY <2>1, <2>4, <2>5, TotalsNat DEF Bit
    <3> QED BY <1>4, <2>3, <2>5, <3>1, <3>2 DEF Totals
  <2>7. \A n \in Node : c[n] = TotalAt(n)' /\ (c[n] > Refs[n] => InUse(nodes, n))
    <3> SUFFICES ASSUME NEW n \in Node
                 PROVE  c[n] = TotalAt(n)' /\ (c[n] > Refs[n] => InUse(nodes, n))
      OBVIOUS
    <3>1. Refs[n] = TotalAt(n) /\ Refs[n] \in Int
      BY NowCounted DEF FilesInv, RefsTrue, TotalAt, Refs, RefsIn, Counts
    <3>2. c[n] = Refs[n] + Bit(n = q.node) - Bit(n = cwd[p].node) BY <2>2
    <3>3. TotalAt(n)' = TotalAt(n) - Bit(cwd[p].node = n) + Bit(q.node = n) BY <2>5
    <3>4. c[n] = TotalAt(n)' BY <3>1, <3>2, <3>3 DEF Bit
    <3>5. ASSUME c[n] > Refs[n] PROVE InUse(nodes, n)
      <4>1. n = q.node BY <3>1, <3>2, <3>5 DEF Bit
      <4> QED BY <2>4, <4>1
    <3> QED BY <3>4, <3>5
  <2> QED BY <1>4, <2>3, <2>5, <2>6, <2>7, ClosesWith
<1> QED BY <1>4, <1>5, <1>6
\* A pinned state as a sound one.
LEMMA PinnedSound ==
    ASSUME FilesInv, NEW q, Good(q)
    PROVE  \E ns : /\ Sound(ns, Up(Refs, q.node))
                   /\ Pinned(q) = Counted(ns, Up(Refs, q.node), path_reference_count + 1)
<1>1. q.node \in Node /\ InUse(nodes, q.node) BY DEF Good, Valid, Paths
<1> DEFINE c == Up(Refs, q.node)
           ns == WithRefs(nodes, c)
<1>2. Sound(ns, c) BY <1>1, SoundNow, SoundMoves
<1>3. Pinned(q) = Counted(ns, c, path_reference_count + 1) BY DEF Pinned, Counted, WithRefs
<1> QED BY <1>2, <1>3

\* A file is read as a whole.
LEMMA ReadCall ==
    ASSUME FilesInv, NEW p \in Program, Alive(p), NEW t \in UserText, syscall_fs_read(p, t)
    PROVE  FilesInv'
<1> DEFINE w == vfs_resolve_process(Now, p, t)
           q == w.path
           isFile == w.ok /\ w.s.nodes[q.node].type = "file"
           handle == vfs_path_release(vfs_path_acquire(w.s, q), q)
           s == IF ~w.ok THEN w.s ELSE vfs_path_release(IF isFile THEN handle ELSE w.s, q)
<1>1. w \in Reached BY ProcessResolved
<1>2. References(s) /\ UNCHANGED <<registered, mounts, held, opened, cwd, fds, open_handle_count>>
  BY DEF syscall_fs_read, Same
<1> HIDE DEF w
<1>3. s = Now
  <2>1. CASE w.ok = FALSE /\ w.s = Now BY <2>1
  <2>2. CASE w.ok = TRUE /\ w.s = Pinned(q) /\ Good(q) /\ q.node \in Node
    <3> HIDE DEF q
    <3>1. vfs_path_release(Pinned(q), q) = Now BY <2>2, TakenIsPinned
    <3>2. vfs_path_release(vfs_path_acquire(Pinned(q), q), q) = Pinned(q)
      <4>1. PICK c \in Counts, k \in Int : Pinned(q) = Counted(nodes, c, k)
        <5>1. path_reference_count + 1 \in Int /\ Refs \in Counts BY NowCounted
        <5>2. Up(Refs, q.node) \in Counts BY <2>2, <5>1, CountsMove
        <5> QED BY <5>1, <5>2 DEF Pinned
      <4> QED BY <2>2, <4>1, TakenAndGiven
    <3>3. handle = Pinned(q) BY <2>2, <3>2
    <3> QED BY <2>2, <3>1, <3>3
  <2> QED BY <1>1, <2>1, <2>2, ReachedCases
<1> HIDE DEF s
<1> QED BY <1>2, <1>3, NowRestored, RestoredCloses

\* A file is written as a whole.
LEMMA WriteCall ==
    ASSUME FilesInv, NEW p \in Program, Alive(p), NEW t \in UserText, NEW bytes, NEW heap,
           syscall_fs_write(p, t, bytes, heap)
    PROVE  FilesInv'
<1> DEFINE w == vfs_resolve_process(Now, p, t)
           q == w.path
           n == q.node
           empty == [w.s EXCEPT !.nodes = ramfs_truncate(@, n, 0, TRUE)]
           taken == vfs_path_release(vfs_path_acquire(empty, q), q)
           full == [taken EXCEPT !.nodes = ramfs_write(@, n, 0, bytes, heap)]
           s == vfs_path_release(full, q)
<1>1. w \in Reached BY ProcessResolved
<1>2. w.ok /\ References(s)
      /\ UNCHANGED <<registered, mounts, held, opened, cwd, fds, open_handle_count>>
  BY DEF syscall_fs_write, Same
<1> HIDE DEF w
<1>3. w.s = Pinned(q) /\ Good(q) /\ q.node \in Node BY <1>1, <1>2, ReachedCases
<1> HIDE DEF q
<1> DEFINE c == Up(Refs, n)
           k == path_reference_count + 1
<1>4. PICK ns : Sound(ns, c) /\ Pinned(q) = Counted(ns, c, k) BY <1>3, PinnedSound
<1>5. k \in Int /\ c \in Counts
  <2>1. path_reference_count \in Int /\ Refs \in Counts BY NowCounted
  <2> QED BY <1>3, <2>1, CountsMove
<1> HIDE DEF c, k
<1>6. PICK ms : Sound(ms, c) /\ empty = Counted(ms, c, k)
  <2> DEFINE ms == ramfs_truncate(ns, n, 0, TRUE)
  <2>1. Sound(ms, c) BY <1>3, <1>4, FileWritten
  <2>2. Counted(ns, c, k) = [nodes |-> ns, paths |-> k] /\ Counted(ms, c, k) = [nodes |-> ms, paths |-> k]
    <3> HIDE DEF ms
    <3> QED BY <1>4, <2>1, SoundState
  <2>3. empty = [nodes |-> ms, paths |-> k]
    <3>1. w.s = [nodes |-> ns, paths |-> k] BY <1>3, <1>4, <2>2
    <3>2. w.s.nodes = ns BY <3>1
    <3>3. empty = [w.s EXCEPT !.nodes = ms] BY <3>2, Zenon
    <3> HIDE DEF ms, empty
    <3> QED BY <3>1, <3>3
  <2> QED BY <2>1, <2>2, <2>3
<1>7. taken = empty
  <2>1. vfs_path_release(vfs_path_acquire(Counted(ms, c, k), q), q) = Counted(ms, c, k)
    BY <1>3, <1>5, TakenAndGiven
  <2> QED BY <1>6, <2>1
<1>8. PICK rs : Sound(rs, c) /\ full = Counted(rs, c, k)
  <2> DEFINE rs == ramfs_write(ms, n, 0, bytes, heap)
  <2>1. Sound(rs, c) BY <1>3, <1>6, FileWritten
  <2>2. Counted(ms, c, k) = [nodes |-> ms, paths |-> k] /\ Counted(rs, c, k) = [nodes |-> rs, paths |-> k]
    <3> HIDE DEF rs
    <3> QED BY <1>6, <2>1, SoundState
  <2>3. taken = [nodes |-> ms, paths |-> k]
    <3> HIDE DEF taken, empty
    <3> QED BY <1>6, <1>7, <2>2
  <2>4. full = [nodes |-> rs, paths |-> k]
    <3> HIDE DEF taken
    <3> QED BY <2>3
  <2> HIDE DEF full
  <2> QED BY <2>1, <2>2, <2>4
<1>9. Restored(s)
  <2> HIDE DEF full
  <2>1. Restored(vfs_path_release(Counted(rs, c, k), q)) BY <1>3, <1>8, ReleaseRestores DEF c, k
  <2> QED BY <1>8, <2>1
<1> HIDE DEF s
<1> QED BY <1>2, <1>9, RestoredCloses
\* How every call counts.
LEMMA RefsTotal ==
    ASSUME FilesInv, NEW n \in Node
    PROVE  Refs[n] = TotalAt(n) /\ Refs[n] \in Int /\ TotalAt(n) \in Int
<1>1. Refs[n] = TotalAt(n) BY DEF FilesInv, RefsTrue, TotalAt, Refs, RefsIn
<1>2. Refs[n] \in Int BY NowCounted DEF Counts
<1> QED BY <1>1, <1>2

\* And the totals.
LEMMA TotalsNow == FilesInv => Totals
BY DEF FilesInv, RefsTrue, Totals, HeldCount, LiveCount, OpenCount, FdCount

\* A call that keeps a path more.
LEMMA TakenCloses ==
    ASSUME FilesInv, NEW q, Good(q), References(Pinned(q)), registered' = registered,
           MountsOK', PathsOK', path_reference_count' = path_reference_count + 1 => Totals',
           \A n \in Node : TotalAt(n)' = TotalAt(n) + Bit(q.node = n)
    PROVE  FilesInv'
<1> DEFINE c == Up(Refs, q.node)
<1>1. q.node \in Node /\ InUse(nodes, q.node) BY DEF Good, Valid, Paths
<1>2. PICK x \in Node : x = q.node BY <1>1
<1>3. c \in Counts /\ \A n \in Node : c[n] = Refs[n] + Bit(n = x)
  <2>1. Up(Refs, x) \in Counts /\ \A n \in Node : Up(Refs, x)[n] = Refs[n] + Bit(n = x)
    BY NowCounted, CountsMove
  <2> QED BY <1>2, <2>1
<1>4. nodes' = WithRefs(nodes, c) /\ path_reference_count' = path_reference_count + 1
  BY DEF References, Pinned, Counted
<1> HIDE DEF c
<1>5. ASSUME NEW n \in Node
      PROVE  c[n] = TotalAt(n)' /\ (c[n] > Refs[n] => InUse(nodes, n))
  <2>1. Refs[n] = TotalAt(n) /\ Refs[n] \in Int BY RefsTotal
  <2>2. c[n] = Refs[n] + Bit(n = x) /\ TotalAt(n)' = TotalAt(n) + Bit(x = n) BY <1>2, <1>3
  <2>3. c[n] = TotalAt(n)' BY <2>1, <2>2 DEF Bit
  <2>4. ASSUME c[n] > Refs[n] PROVE InUse(nodes, n)
    <3>1. n = x BY <2>1, <2>2, <2>4 DEF Bit
    <3> QED BY <1>1, <1>2, <3>1
  <2> QED BY <2>3, <2>4
<1> QED BY <1>3, <1>4, <1>5, ClosesWith

\* A call that gives one back.
LEMMA GivenCloses ==
    ASSUME FilesInv, NEW q, q.node \in Node, References(vfs_path_release(Now, q)),
           registered' = registered,
           MountsOK', PathsOK', path_reference_count' = path_reference_count - 1 => Totals',
           \A n \in Node : TotalAt(n)' = TotalAt(n) - Bit(q.node = n)
    PROVE  FilesInv'
<1> DEFINE c == Down(Refs, q.node)
<1>2. PICK x \in Node : x = q.node OBVIOUS
<1>3. c \in Counts /\ \A n \in Node : c[n] = Refs[n] - Bit(n = x)
  <2>1. Down(Refs, x) \in Counts /\ \A n \in Node : Down(Refs, x)[n] = Refs[n] - Bit(n = x)
    BY NowCounted, CountsMove
  <2> QED BY <1>2, <2>1
<1>4. nodes' = WithRefs(nodes, c) /\ path_reference_count' = path_reference_count - 1
  <2>1. vfs_path_release(Now, q) = Counted(nodes, c, path_reference_count - 1)
    BY NowCounted, PathsMove
  <2> QED BY <2>1 DEF References, Counted
<1> HIDE DEF c
<1>5. ASSUME NEW n \in Node
      PROVE  c[n] = TotalAt(n)' /\ (c[n] > Refs[n] => InUse(nodes, n))
  <2>1. Refs[n] = TotalAt(n) /\ Refs[n] \in Int BY RefsTotal
  <2>2. c[n] = Refs[n] - Bit(n = x) /\ TotalAt(n)' = TotalAt(n) - Bit(x = n) BY <1>2, <1>3
  <2> QED BY <2>1, <2>2 DEF Bit
<1> QED BY <1>3, <1>4, <1>5, ClosesWith

\* A call that changes the slots and no count.
LEMMA SlotsClose ==
    ASSUME FilesInv, Sound(nodes', Refs), registered' = registered, MountsOK', PathsOK', Totals',
           \A n \in Node : TotalAt(n)' = TotalAt(n)
    PROVE  FilesInv'
<1> DEFINE c == Refs
<1>1. \A n \in Node : c[n] = TotalAt(n)' BY RefsTotal
<1>2. Sound(nodes', c) OBVIOUS
<1> HIDE DEF c
<1> QED BY <1>1, <1>2, Closes

\* A closed handle is at no node.
LEMMA ClosedNowhere ==
    /\ NoHandle.path.node \notin Node /\ NoHandle.open = FALSE /\ Handle(NoHandle)
    /\ NoPath.node \notin Node
    /\ \A q : Valid(q) => q.node \in Node /\ q # NoPath
<1>1. NoPath.node = <<>> /\ NoHandle.path = NoPath BY DEF NoPath, NoHandle
<1>2. <<>> \notin Node BY DEF Node
<1>3. NoHandle.open = FALSE BY DEF NoHandle
<1>4. Handle(NoHandle) BY DEF Handle, NoHandle
<1>5. \A q : Valid(q) => q.node \in Node BY DEF Valid, Paths
<1> QED BY <1>1, <1>2, <1>3, <1>4, <1>5

\* An open handle at a path.
LEMMA OpenHandle ==
    ASSUME NEW q, Valid(q), NEW offset, NEW access
    PROVE  LET o == [open |-> TRUE, path |-> q, offset |-> offset, access |-> access]
           IN  Handle(o) /\ o.path = q /\ o.open = TRUE
BY DEF Handle
\* A descriptor is opened.
LEMMA FdOpenCall ==
    ASSUME FilesInv, NEW p \in Program, Alive(p), NEW t \in UserText, syscall_fd_open(p, t)
    PROVE  FilesInv'
<1> DEFINE w == vfs_resolve_process(Now, p, t)
           q == w.path
           o == [open |-> TRUE, path |-> q, offset |-> 0, access |-> {"read", "write"}]
<1>1. w \in Reached BY ProcessResolved
<1>2. PICK d \in FdSlot :
          /\ w.ok /\ ~fds[p][d].open
          /\ References(vfs_path_release(vfs_path_acquire(w.s, q), q))
          /\ fds' = [fds EXCEPT ![p][d] = o]
          /\ open_handle_count' = open_handle_count + 1
          /\ UNCHANGED <<registered, mounts, held, opened, cwd>>
  BY DEF syscall_fd_open, kernel_fd_open_regular, Same
<1> HIDE DEF w
<1>3. w.s = Pinned(q) /\ Good(q) /\ q.node \in Node BY <1>1, <1>2, ReachedCases
<1> HIDE DEF q
<1>4. References(Pinned(q))
  <2>1. PICK c \in Counts, k \in Int : Pinned(q) = Counted(nodes, c, k)
    <3>1. path_reference_count + 1 \in Int /\ Refs \in Counts BY NowCounted
    <3>2. Up(Refs, q.node) \in Counts BY <1>3, <3>1, CountsMove
    <3> QED BY <3>1, <3>2 DEF Pinned
  <2>2. vfs_path_release(vfs_path_acquire(Pinned(q), q), q) = Pinned(q)
    BY <1>3, <2>1, TakenAndGiven
  <2> QED BY <1>2, <1>3, <2>2
<1>5. Handle(o) /\ o.path = q /\ o.open = TRUE BY <1>3, OpenHandle DEF Good
<1>6. fds[p][d] = NoHandle BY <1>2 DEF FilesInv, PathsOK, Handle
<1> HIDE DEF o
<1>7. /\ \A n \in Node : TotalAt(n)' = TotalAt(n) - Bit(fds[p][d].path.node = n) + Bit(o.path.node = n)
      /\ FdCount' = FdCount - Bit(fds[p][d].open) + Bit(o.open)
      /\ HeldCount' = HeldCount /\ OpenCount' = OpenCount /\ LiveCount' = LiveCount
      /\ MountsOK' /\ PathsOK'
  BY <1>2, <1>5, FdMoves
<1>8. ASSUME NEW n \in Node PROVE TotalAt(n)' = TotalAt(n) + Bit(q.node = n)
  <2>1. fds[p][d].path.node # n BY <1>6, ClosedNowhere
  <2> QED BY <1>5, <1>7, <2>1, RefsTotal DEF Bit
<1>9. ASSUME path_reference_count' = path_reference_count + 1 PROVE Totals'
  <2>1. FdCount' = FdCount + 1 BY <1>5, <1>6, <1>7, ClosedNowhere, TotalsNat DEF Bit
  <2> QED BY <1>2, <1>7, <1>9, <2>1, TotalsNow, TotalsNat DEF Totals
<1> QED BY <1>2, <1>3, <1>4, <1>7, <1>8, <1>9, TakenCloses

\* A descriptor is closed.
LEMMA FdCloseCall ==
    ASSUME FilesInv, NEW p \in Program, NEW d \in FdSlot, syscall_fd_close(p, d)
    PROVE  FilesInv'
<1> DEFINE q == fds[p][d].path
           o == NoHandle
<1>2. /\ fds[p][d].open
      /\ References(vfs_path_release(Now, q))
      /\ fds' = [fds EXCEPT ![p][d] = o]
      /\ open_handle_count' = open_handle_count - 1
      /\ UNCHANGED <<registered, mounts, held, opened, cwd>>
  BY DEF syscall_fd_close, Same
<1>3. q.node \in Node BY <1>2, FdGood
<1>5. Handle(o) /\ o.path.node \notin Node /\ o.open = FALSE BY ClosedNowhere
<1> HIDE DEF o
<1>7. /\ \A n \in Node : TotalAt(n)' = TotalAt(n) - Bit(fds[p][d].path.node = n) + Bit(o.path.node = n)
      /\ FdCount' = FdCount - Bit(fds[p][d].open) + Bit(o.open)
      /\ HeldCount' = HeldCount /\ OpenCount' = OpenCount /\ LiveCount' = LiveCount
      /\ MountsOK' /\ PathsOK'
  BY <1>2, <1>5, FdMoves
<1>8. ASSUME NEW n \in Node PROVE TotalAt(n)' = TotalAt(n) - Bit(q.node = n)
  <2>1. o.path.node # n BY <1>5
  <2> QED BY <1>7, <2>1, RefsTotal DEF Bit
<1>9. ASSUME path_reference_count' = path_reference_count - 1 PROVE Totals'
  <2>1. FdCount' = FdCount - 1 BY <1>2, <1>5, <1>7, TotalsNat DEF Bit
  <2>2. open_handle_count' = OpenCount' + FdCount'
    <3>1. open_handle_count = OpenCount + FdCount BY TotalsNow DEF Totals
    <3>2. OpenCount \in Nat /\ FdCount \in Nat BY TotalsNat
    <3>3. OpenCount' = OpenCount /\ open_handle_count' = open_handle_count - 1 BY <1>2, <1>7
    <3> HIDE DEF OpenCount, FdCount
    <3> QED BY <2>1, <3>1, <3>2, <3>3
  <2>3. path_reference_count' = open_handle_count' + HeldCount' + LiveCount'
    BY <1>2, <1>7, <1>9, TotalsNow, TotalsNat DEF Totals
  <2> QED BY <2>2, <2>3 DEF Totals
<1> HIDE DEF q
<1> QED BY <1>2, <1>3, <1>7, <1>8, <1>9, GivenCloses

\* The offset of a handle is one of its parts.
LEMMA HandleMoved ==
    ASSUME NEW b, NEW q, NEW i, NEW a, NEW k, NEW x,
           x = [open |-> b, path |-> q, offset |-> i, access |-> a]
    PROVE  [x EXCEPT !.offset = k] = [open |-> b, path |-> q, offset |-> k, access |-> a]
OBVIOUS

\* A handle that moves in its file stays at its path.
LEMMA FdMoved ==
    ASSUME FilesInv, NEW p \in Program, NEW d \in FdSlot, fds[p][d].open, NEW k,
           fds' = [fds EXCEPT ![p][d].offset = k], UNCHANGED <<held, opened, cwd, mounts, registered>>
    PROVE  /\ \A n \in Node : TotalAt(n)' = TotalAt(n)
           /\ FdCount' = FdCount /\ HeldCount' = HeldCount /\ OpenCount' = OpenCount
           /\ LiveCount' = LiveCount /\ MountsOK' /\ PathsOK'
<1> DEFINE q == fds[p][d].path
           a == fds[p][d].access
           i == fds[p][d].offset
           o == [open |-> TRUE, path |-> q, offset |-> k, access |-> a]
<1>1. Handle(fds[p][d]) BY DEF FilesInv, PathsOK
<1>2. fds[p][d] = [open |-> TRUE, path |-> q, offset |-> i, access |-> a] /\ Valid(q)
  BY <1>1 DEF Handle
<1> HIDE DEF q, a, i
<1>3. [fds[p][d] EXCEPT !.offset = k] = o
  <2>1. PICK b : b = TRUE OBVIOUS
  <2>2. fds[p][d] = [open |-> b, path |-> q, offset |-> i, access |-> a] BY <1>2, <2>1
  <2>3. PICK x : x = fds[p][d] OBVIOUS
  <2>4. [x EXCEPT !.offset = k] = [open |-> b, path |-> q, offset |-> k, access |-> a]
    <3>1. x = [open |-> b, path |-> q, offset |-> i, access |-> a] BY <2>2, <2>3
    <3> QED BY <3>1, HandleMoved
  <2>5. [fds[p][d] EXCEPT !.offset = k] = [x EXCEPT !.offset = k] BY <2>3
  <2> QED BY <2>1, <2>4, <2>5
<1>4. fds' = [fds EXCEPT ![p][d] = o]
  <2>1. fds' = [fds EXCEPT ![p] = [fds[p] EXCEPT ![d] = [fds[p][d] EXCEPT !.offset = k]]]
    BY DEF FilesInv, PathsOK
  <2> HIDE DEF o
  <2> QED BY <1>3, <2>1
<1>5. Handle(o) /\ o.path = q /\ o.open = TRUE BY <1>2, OpenHandle
<1> HIDE DEF o
<1>7. /\ \A n \in Node : TotalAt(n)' = TotalAt(n) - Bit(fds[p][d].path.node = n) + Bit(o.path.node = n)
      /\ FdCount' = FdCount - Bit(fds[p][d].open) + Bit(o.open)
      /\ HeldCount' = HeldCount /\ OpenCount' = OpenCount /\ LiveCount' = LiveCount
      /\ MountsOK' /\ PathsOK'
  BY <1>4, <1>5, FdMoves
<1>8. ASSUME NEW n \in Node PROVE TotalAt(n)' = TotalAt(n)
  BY <1>5, <1>7, RefsTotal DEF q, Bit
<1>9. FdCount' = FdCount BY <1>2, <1>5, <1>7, TotalsNat DEF Bit
<1> QED BY <1>7, <1>8, <1>9

\* A descriptor is read or written.
LEMMA FdDataCalls ==
    ASSUME FilesInv, NEW p \in Program, NEW d \in FdSlot, NEW length, NEW bytes, NEW heap,
           syscall_fd_read(p, d, length) \/ syscall_fd_write(p, d, bytes, heap)
    PROVE  FilesInv'
<1> DEFINE n == fds[p][d].path.node
           k == fds[p][d].offset
<1>1. fds[p][d].open /\ n \in Node
  <2>1. fds[p][d].open BY DEF syscall_fd_read, syscall_fd_write
  <2> QED BY <2>1, FdGood
<1>2. PICK j : fds' = [fds EXCEPT ![p][d].offset = j]
  <2>1. ASSUME syscall_fd_read(p, d, length)
        PROVE  \E j : fds' = [fds EXCEPT ![p][d].offset = j]
    BY <2>1 DEF syscall_fd_read
  <2>2. ASSUME syscall_fd_write(p, d, bytes, heap)
        PROVE  \E j : fds' = [fds EXCEPT ![p][d].offset = j]
    BY <2>2 DEF syscall_fd_write
  <2> QED BY <2>1, <2>2
<1>3. UNCHANGED <<held, opened, cwd, mounts, registered, path_reference_count, open_handle_count>>
  BY DEF syscall_fd_read, syscall_fd_write, write, Same
<1>4. /\ \A m \in Node : TotalAt(m)' = TotalAt(m)
      /\ FdCount' = FdCount /\ HeldCount' = HeldCount /\ OpenCount' = OpenCount
      /\ LiveCount' = LiveCount /\ MountsOK' /\ PathsOK'
  BY <1>1, <1>2, <1>3, FdMoved
<1>5. Totals' BY <1>3, <1>4, TotalsNow DEF Totals
<1>6. Sound(nodes', Refs)
  <2>1. nodes' = nodes \/ nodes' = ramfs_write(nodes, n, k, bytes, heap)
    BY DEF syscall_fd_read, syscall_fd_write, write
  <2>2. Sound(nodes, Refs) BY SoundNow
  <2> HIDE DEF n, k
  <2>3. Sound(ramfs_write(nodes, n, k, bytes, heap), Refs) BY <1>1, <2>2, FileWritten
  <2> QED BY <2>1, <2>2, <2>3
<1> QED BY <1>3, <1>4, <1>5, <1>6, SlotsClose
\* A program starts another one.
LEMMA SpawnCall ==
    ASSUME FilesInv, NEW p \in Program, Alive(p), NEW q \in Program, NEW t \in UserText,
           NEW loads \in BOOLEAN, spawn(p, q, t, loads)
    PROVE  FilesInv'
<1> DEFINE w == vfs_resolve_process(Now, p, t)
           r == w.path
           source == vfs_path_release(vfs_path_acquire(w.s, r), r)
           parent == vfs_path_acquire(source, cwd[p])
           child == vfs_path_release(process_replace_cwd(parent, q, cwd[p]), cwd[p])
           built == IF loads THEN child ELSE vfs_path_release(child, cwd[p])
           s == vfs_path_release(built, r)
<1>1. w \in Reached BY ProcessResolved
<1>2. /\ w.ok /\ ~Alive(q) /\ References(s)
      /\ cwd' = [cwd EXCEPT ![q] = IF loads THEN cwd[p] ELSE NoPath]
      /\ UNCHANGED <<registered, mounts, held, opened, fds, open_handle_count>>
  BY DEF spawn, Same
<1> HIDE DEF w
<1>3. w.s = Pinned(r) /\ Good(r) /\ r.node \in Node BY <1>1, <1>2, ReachedCases
<1> HIDE DEF r
<1>4. Good(cwd[p]) /\ cwd[p].node \in Node /\ cwd[p] # NoPath BY CwdGood
<1>5. PICK c \in Counts, k \in Int : Pinned(r) = Counted(nodes, c, k)
  <2>1. path_reference_count + 1 \in Int /\ Refs \in Counts BY NowCounted
  <2>2. Up(Refs, r.node) \in Counts BY <1>3, <2>1, CountsMove
  <2> QED BY <2>1, <2>2 DEF Pinned
<1>6. source = Pinned(r)
  <2>1. vfs_path_release(vfs_path_acquire(Pinned(r), r), r) = Pinned(r)
    BY <1>3, <1>5, TakenAndGiven
  <2> QED BY <1>3, <2>1
<1>7. parent = vfs_path_acquire(Pinned(r), cwd[p]) BY <1>6
<1>8. child = parent
  <2>1. parent = Counted(nodes, Up(c, cwd[p].node), k + 1) BY <1>4, <1>5, <1>7, PathsMove
  <2>2. Up(c, cwd[p].node) \in Counts /\ k + 1 \in Int BY <1>4, <1>5, CountsMove
  <2>3. vfs_path_release(vfs_path_acquire(parent, cwd[p]), cwd[p]) = parent
    <3> HIDE DEF parent
    <3> QED BY <1>4, <2>1, <2>2, TakenAndGiven
  <2>4. process_replace_cwd(parent, q, cwd[p]) = vfs_path_acquire(parent, cwd[p])
    BY <1>2 DEF process_replace_cwd
  <2> HIDE DEF parent
  <2> QED BY <2>3, <2>4
<1>9. vfs_path_release(parent, cwd[p]) = Pinned(r)
  BY <1>4, <1>5, <1>7, TakenAndGiven
<1>10. vfs_path_release(parent, r) = vfs_path_acquire(Now, cwd[p])
  <2>1. vfs_path_acquire(Now, r) = Pinned(r) BY <1>3, TakenIsPinned
  <2>2. vfs_path_release(vfs_path_acquire(vfs_path_acquire(Now, r), cwd[p]), r)
          = vfs_path_acquire(Now, cwd[p])
    BY <1>3, <1>4, NowCounted, TakenAndGiven
  <2> QED BY <1>7, <2>1, <2>2
<1> HIDE DEF child, parent, source
<1>11. CASE loads
  <2>1. s = Pinned(cwd[p])
    <3>1. s = vfs_path_release(parent, r) BY <1>8, <1>11
    <3>2. vfs_path_acquire(Now, cwd[p]) = Pinned(cwd[p]) BY <1>4, TakenIsPinned
    <3> HIDE DEF s
    <3> QED BY <1>10, <3>1, <3>2
  <2>2. cwd' = [cwd EXCEPT ![q] = cwd[p]] /\ Valid(cwd[p]) BY <1>2, <1>4, <1>11 DEF Good
  <2>3. /\ \A n \in Node : TotalAt(n)' = TotalAt(n) - Bit(cwd[q].node = n) + Bit(cwd[p].node = n)
        /\ LiveCount' = LiveCount - Bit(cwd[q] # NoPath) + Bit(cwd[p] # NoPath)
        /\ HeldCount' = HeldCount /\ OpenCount' = OpenCount /\ FdCount' = FdCount
        /\ MountsOK' /\ PathsOK'
    <3>1. PICK d : d = cwd[p] OBVIOUS
    <3>2. /\ \A n \in Node : TotalAt(n)' = TotalAt(n) - Bit(cwd[q].node = n) + Bit(d.node = n)
          /\ LiveCount' = LiveCount - Bit(cwd[q] # NoPath) + Bit(d # NoPath)
          /\ HeldCount' = HeldCount /\ OpenCount' = OpenCount /\ FdCount' = FdCount
          /\ MountsOK' /\ PathsOK'
      <4>1. cwd' = [cwd EXCEPT ![q] = d] /\ Valid(d) BY <2>2, <3>1
      <4>2. UNCHANGED <<held, opened, fds, mounts, registered>> BY <1>2
      <4> QED BY <4>1, <4>2, CwdMoves
    <3> QED BY <3>1, <3>2
  <2>4. cwd[q] = NoPath BY <1>2 DEF Alive
  <2>5. ASSUME NEW n \in Node PROVE TotalAt(n)' = TotalAt(n) + Bit(cwd[p].node = n)
    <3>1. cwd[q].node # n BY <2>4, ClosedNowhere
    <3> QED BY <2>3, <3>1, RefsTotal DEF Bit
  <2>6. ASSUME path_reference_count' = path_reference_count + 1 PROVE Totals'
    <3>1. LiveCount' = LiveCount + 1 BY <1>4, <2>3, <2>4, TotalsNat DEF Bit
    <3> QED BY <1>2, <2>3, <2>6, <3>1, TotalsNow, TotalsNat DEF Totals
  <2>7. References(Pinned(cwd[p])) BY <1>2, <2>1
  <2> QED BY <1>2, <1>4, <2>3, <2>5, <2>6, <2>7, TakenCloses
<1>12. CASE ~loads
  <2>1. s = Now
    <3>1. s = vfs_path_release(vfs_path_release(parent, cwd[p]), r) BY <1>8, <1>12
    <3>2. vfs_path_release(Pinned(r), r) = Now BY <1>3, TakenIsPinned
    <3> HIDE DEF s
    <3> QED BY <1>9, <3>1, <3>2
  <2>2. cwd' = cwd
    <3>1. cwd' = [cwd EXCEPT ![q] = NoPath] BY <1>2, <1>12
    <3>2. cwd[q] = NoPath BY <1>2 DEF Alive
    <3> QED BY <3>1, <3>2 DEF FilesInv, PathsOK
  <2>3. References(Now) BY <1>2, <2>1
  <2> QED BY <1>2, <2>2, <2>3, NowRestored, RestoredCloses
<1> QED BY <1>11, <1>12
----------------------------------------------------------------------------
(* The end of a program                                                    *)

\* The first k descriptors of a program, those at a node and those that are open.
FdsOf(p, k) == {x \in Program \X FdSlot : x[1] = p /\ x[2] <= k}
FdsAt(p, k, n) == {x \in FdsOf(p, k) : fds[x[1]][x[2]].path.node = n}
FdsOpen(p, k) == {x \in FdsOf(p, k) : fds[x[1]][x[2]].open}

\* What closing them leaves.
ClosedRefs(p, k) == [n \in Node |-> Refs[n] - Cardinality(FdsAt(p, k, n))]
ClosedFds(p, k) ==
    Counted(nodes, ClosedRefs(p, k), path_reference_count - Cardinality(FdsOpen(p, k)))

\* The sets are finite.
LEMMA FdsFinite ==
    ASSUME NEW p, NEW k, NEW n
    PROVE  /\ FdsAt(p, k, n) \subseteq Program \X FdSlot /\ FdsOpen(p, k) \subseteq Program \X FdSlot
           /\ Cardinality(FdsAt(p, k, n)) \in Nat /\ Cardinality(FdsOpen(p, k)) \in Nat
<1>1. FdsAt(p, k, n) \subseteq Program \X FdSlot /\ FdsOpen(p, k) \subseteq Program \X FdSlot
  BY DEF FdsAt, FdsOpen, FdsOf
<1> QED BY <1>1, Finite, SubsetCount

\* The counts are counts.
LEMMA ClosedType ==
    ASSUME FilesInv, NEW p, NEW k
    PROVE  /\ ClosedRefs(p, k) \in Counts
           /\ path_reference_count - Cardinality(FdsOpen(p, k)) \in Int
<1>1. Refs \in Counts /\ path_reference_count \in Int BY NowCounted
<1>2. \A n \in Node : Refs[n] - Cardinality(FdsAt(p, k, n)) \in Int
  BY <1>1, FdsFinite DEF Counts
<1>3. ClosedRefs(p, k) \in Counts BY <1>2 DEF ClosedRefs, Counts
<1>4. Cardinality(FdsOpen(p, k)) \in Nat BY FdsFinite
<1> QED BY <1>1, <1>3, <1>4

\* Before the first one nothing has changed.
LEMMA NoneClosed ==
    ASSUME FilesInv, NEW p
    PROVE  ClosedFds(p, 0) = Now
<1>1. \A n : FdsAt(p, 0, n) = {} BY DEF FdsAt, FdsOf, FdSlot
<1>2. FdsOpen(p, 0) = {} BY DEF FdsOpen, FdsOf, FdSlot
<1>3. Refs \in Counts /\ path_reference_count \in Int BY NowCounted
<1>4. Cardinality({}) = 0 BY FS_EmptySet
<1>5. ClosedRefs(p, 0) = Refs
  <2>1. \A n \in Node : Refs[n] - Cardinality(FdsAt(p, 0, n)) = Refs[n]
    BY <1>1, <1>3, <1>4 DEF Counts
  <2>2. Refs = [n \in Node |-> Refs[n]] BY <1>3 DEF Counts
  <2> QED BY <2>1, <2>2 DEF ClosedRefs
<1>6. path_reference_count - Cardinality(FdsOpen(p, 0)) = path_reference_count
  BY <1>2, <1>3, <1>4
<1> QED BY <1>5, <1>6, NowCounted DEF ClosedFds

\* One more descriptor is closed.
LEMMA OneCloses ==
    ASSUME FilesInv, NEW p \in Program, NEW k \in FdSlot
    PROVE  ClosedFds(p, k) = IF fds[p][k].open
                             THEN vfs_path_release(ClosedFds(p, k - 1), fds[p][k].path)
                             ELSE ClosedFds(p, k - 1)
<1> DEFINE x == <<p, k>>
           q == fds[p][k].path
           b == fds[p][k].open
<1>1. k \in Int /\ \A y \in Program \X FdSlot : y[2] \in Int /\ (y[1] = p /\ y[2] = k => y = x)
  BY DEF FdSlot
<1>2. x \in Program \X FdSlot /\ x[1] = p /\ x[2] = k OBVIOUS
<1>3. ASSUME NEW n
      PROVE  Cardinality(FdsAt(p, k, n)) = Cardinality(FdsAt(p, k - 1, n)) + Bit(q.node = n)
  <2> DEFINE A == FdsAt(p, k - 1, n)
             B == FdsAt(p, k, n)
  <2>1. x \notin A /\ (x \in B <=> q.node = n) BY <1>1, <1>2 DEF FdsAt, FdsOf
  <2>2. \A y \in Program \X FdSlot : y # x => (y \in A <=> y \in B)
    BY <1>1 DEF FdsAt, FdsOf
  <2>3. A \subseteq Program \X FdSlot /\ B \subseteq Program \X FdSlot BY FdsFinite
  <2> HIDE DEF A, B, x, q
  <2>4. Cardinality(A) \in Nat /\ Cardinality(B) = Cardinality(A) - Bit(x \in A) + Bit(x \in B)
    BY <1>2, <2>2, <2>3, Finite, CountChange
  <2>5. Cardinality(B) = Cardinality(A) + Bit(q.node = n) BY <2>1, <2>4 DEF Bit
  <2> QED BY <2>5 DEF A, B
<1>4. Cardinality(FdsOpen(p, k)) = Cardinality(FdsOpen(p, k - 1)) + Bit(b)
  <2> DEFINE A == FdsOpen(p, k - 1)
             B == FdsOpen(p, k)
  <2>1. x \notin A /\ (x \in B <=> b) BY <1>1, <1>2 DEF FdsOpen, FdsOf
  <2>2. \A y \in Program \X FdSlot : y # x => (y \in A <=> y \in B)
    BY <1>1 DEF FdsOpen, FdsOf
  <2>3. A \subseteq Program \X FdSlot /\ B \subseteq Program \X FdSlot BY FdsFinite
  <2> HIDE DEF A, B, x, b
  <2>4. Cardinality(A) \in Nat /\ Cardinality(B) = Cardinality(A) - Bit(x \in A) + Bit(x \in B)
    BY <1>2, <2>2, <2>3, Finite, CountChange
  <2>5. Cardinality(B) = Cardinality(A) + Bit(b) BY <2>1, <2>4 DEF Bit
  <2> QED BY <2>5 DEF A, B
<1> DEFINE c == ClosedRefs(p, k - 1)
           d == ClosedRefs(p, k)
           i == path_reference_count - Cardinality(FdsOpen(p, k - 1))
           j == path_reference_count - Cardinality(FdsOpen(p, k))
<1>5. c \in Counts /\ i \in Int /\ d \in Counts /\ j \in Int BY ClosedType
<1>6. \A n \in Node : d[n] = c[n] - Bit(q.node = n)
  <2> SUFFICES ASSUME NEW n \in Node PROVE d[n] = c[n] - Bit(q.node = n) OBVIOUS
  <2>1. d[n] = Refs[n] - Cardinality(FdsAt(p, k, n)) BY DEF ClosedRefs
  <2>2. c[n] = Refs[n] - Cardinality(FdsAt(p, k - 1, n)) BY DEF ClosedRefs
  <2>3. Refs[n] \in Int BY RefsTotal
  <2>4. Cardinality(FdsAt(p, k - 1, n)) \in Nat BY FdsFinite
  <2>5. Bit(q.node = n) \in Int BY DEF Bit
  <2>6. Cardinality(FdsAt(p, k, n)) = Cardinality(FdsAt(p, k - 1, n)) + Bit(q.node = n) BY <1>3
  <2> HIDE DEF c, d
  <2> QED BY <2>1, <2>2, <2>3, <2>4, <2>5, <2>6
<1>7. j = i - Bit(b)
  <2>1. path_reference_count \in Int BY NowCounted
  <2>2. Cardinality(FdsOpen(p, k - 1)) \in Nat BY FdsFinite
  <2>3. Bit(b) \in Int BY DEF Bit
  <2> QED BY <1>4, <2>1, <2>2, <2>3
<1>8. ClosedFds(p, k) = Counted(nodes, d, j) /\ ClosedFds(p, k - 1) = Counted(nodes, c, i)
  BY DEF ClosedFds
<1>9. CASE b
  <2>1. q.node \in Node BY <1>9, FdGood
  <2> HIDE DEF c, d, i, j, q
  <2>2. vfs_path_release(Counted(nodes, c, i), q) = Counted(nodes, Down(c, q.node), i - 1)
    BY <1>5, <2>1, PathsMove
  <2>3. Down(c, q.node) = d
    <3>1. PICK y \in Node : y = q.node BY <2>1
    <3>2. Down(c, y) \in Counts /\ \A n \in Node : Down(c, y)[n] = c[n] - Bit(n = y)
      BY <1>5, CountsMove
    <3>3. \A n \in Node : Down(c, y)[n] = d[n] BY <1>6, <3>1, <3>2 DEF Bit
    <3>4. Down(c, y) = d BY <1>5, <3>2, <3>3 DEF Counts
    <3> QED BY <3>1, <3>4
  <2>4. i - 1 = j BY <1>7, <1>9 DEF Bit
  <2> QED BY <1>8, <1>9, <2>2, <2>3, <2>4 DEF q
<1>10. CASE ~b
  <2>1. fds[p][k] = NoHandle BY <1>10 DEF FilesInv, PathsOK, Handle
  <2>2. q.node \notin Node BY <2>1, ClosedNowhere
  <2> HIDE DEF c, d, i, j, q
  <2>3. c = d
    <3>1. \A n \in Node : d[n] = c[n]
      <4> SUFFICES ASSUME NEW n \in Node PROVE d[n] = c[n] OBVIOUS
      <4>1. d[n] = c[n] - 0 BY <1>6, <2>2 DEF Bit
      <4>2. c[n] \in Int BY <1>5 DEF Counts
      <4> QED BY <4>1, <4>2
    <3> QED BY <1>5, <3>1 DEF Counts
  <2>4. i = j BY <1>5, <1>7, <1>10 DEF Bit
  <2> QED BY <1>8, <1>10, <2>3, <2>4
<1> QED BY <1>9, <1>10
\* As many descriptors are open as pairs are.
LEMMA OpenPairs ==
    ASSUME NEW p \in Program
    PROVE  Cardinality({d \in FdSlot : fds[p][d].open}) = Cardinality(FdsOpen(p, FdMax))
<1> DEFINE S == {d \in FdSlot : fds[p][d].open}
           T == FdsOpen(p, FdMax)
           f == [d \in S |-> <<p, d>>]
<1>1. IsFiniteSet(S)
  <2>1. IsFiniteSet(FdSlot) BY FileCallsAssumption, FS_Interval DEF FdSlot
  <2> QED BY <2>1, FS_Subset
<1>2. \A d \in FdSlot : d <= FdMax BY FileCallsAssumption DEF FdSlot
<1>3. f \in Bijection(S, T)
  <2>1. f \in [S -> T] BY <1>2 DEF FdsOpen, FdsOf
  <2>2. \A a, b \in S : f[a] = f[b] => a = b OBVIOUS
  <2>3. \A y \in T : \E a \in S : f[a] = y
    <3> SUFFICES ASSUME NEW y \in T PROVE \E a \in S : f[a] = y OBVIOUS
    <3>1. y \in Program \X FdSlot /\ y[1] = p /\ fds[y[1]][y[2]].open BY DEF FdsOpen, FdsOf
    <3>2. y = <<p, y[2]>> /\ y[2] \in S BY <3>1
    <3>3. f[y[2]] = y BY <3>2
    <3> QED BY <3>2, <3>3
  <2> QED BY <2>1, <2>2, <2>3 DEF Bijection, Injection, Surjection, IsInjective
<1>4. ExistsBijection(S, T) BY <1>3 DEF ExistsBijection
<1> HIDE DEF S, T
<1>5. Cardinality(T) = Cardinality(S) BY <1>1, <1>4, FS_Bijection
<1> QED BY <1>5 DEF S, T

\* What the loop of process_clear leaves.
LEMMA AllClosed ==
    ASSUME FilesInv, NEW p \in Program
    PROVE  LET closed[d \in 0..FdMax] ==
                   IF d = 0 THEN Now
                   ELSE IF fds[p][d].open THEN vfs_path_release(closed[d - 1], fds[p][d].path)
                   ELSE closed[d - 1]
           IN  closed[FdMax] = ClosedFds(p, FdMax)
<1> DEFINE closed == CHOOSE h : h = [d \in 0..FdMax |->
                         IF d = 0 THEN Now
                         ELSE IF fds[p][d].open THEN vfs_path_release(h[d - 1], fds[p][d].path)
                         ELSE h[d - 1]]
           g == [d \in 0..FdMax |-> ClosedFds(p, d)]
<1>1. FdMax \in Nat BY FileCallsAssumption
<1>2. g[0] = Now /\ \A d \in 1..FdMax :
          g[d] = IF fds[p][d].open THEN vfs_path_release(g[d - 1], fds[p][d].path) ELSE g[d - 1]
  <2>1. g[0] = Now BY <1>1, NoneClosed
  <2>2. ASSUME NEW d \in 1..FdMax
        PROVE g[d] = IF fds[p][d].open THEN vfs_path_release(g[d - 1], fds[p][d].path) ELSE g[d - 1]
    <3>1. g[d] = ClosedFds(p, d) /\ g[d - 1] = ClosedFds(p, d - 1) BY <1>1
    <3>2. d \in FdSlot BY DEF FdSlot
    <3> HIDE DEF g
    <3>3. ClosedFds(p, d) = IF fds[p][d].open
                             THEN vfs_path_release(ClosedFds(p, d - 1), fds[p][d].path)
                             ELSE ClosedFds(p, d - 1)
      BY <3>2, OneCloses
    <3> QED BY <3>1, <3>3
  <2> QED BY <2>1, <2>2
<1>3. g = [d \in 0..FdMax |->
               IF d = 0 THEN Now
               ELSE IF fds[p][d].open THEN vfs_path_release(g[d - 1], fds[p][d].path)
               ELSE g[d - 1]]
  <2>1. g = [d \in 0..FdMax |-> g[d]] OBVIOUS
  <2> HIDE DEF g
  <2>2. \A d \in 0..FdMax : g[d] =
               IF d = 0 THEN Now
               ELSE IF fds[p][d].open THEN vfs_path_release(g[d - 1], fds[p][d].path)
               ELSE g[d - 1]
    <3>1. \A d \in 0..FdMax : d = 0 \/ d \in 1..FdMax BY <1>1
    <3> QED BY <1>2, <3>1
  <2> QED BY <2>1, <2>2
<1> HIDE DEF g
<1>4. closed = [d \in 0..FdMax |->
               IF d = 0 THEN Now
               ELSE IF fds[p][d].open THEN vfs_path_release(closed[d - 1], fds[p][d].path)
               ELSE closed[d - 1]]
  BY <1>3
<1> HIDE DEF closed
<1> DEFINE T == {d \in Nat : d <= FdMax => closed[d] = g[d]}
<1>5. 0 \in T BY <1>2, <1>4
<1>6. ASSUME NEW d \in Nat, d \in T PROVE d + 1 \in T
  <2> SUFFICES ASSUME d + 1 <= FdMax PROVE closed[d + 1] = g[d + 1] OBVIOUS
  <2>0. PICK e \in Nat : e = d + 1 OBVIOUS
  <2>1. closed[d] = g[d] /\ e \in 1..FdMax /\ e \in 0..FdMax /\ e - 1 = d /\ e # 0
    BY <1>1, <1>6, <2>0
  <2>2. closed[e] = IF fds[p][e].open THEN vfs_path_release(closed[d], fds[p][e].path) ELSE closed[d]
    BY <1>4, <2>1
  <2>3. g[e] = IF fds[p][e].open THEN vfs_path_release(g[d], fds[p][e].path) ELSE g[d]
    BY <1>2, <2>1
  <2>4. closed[e] = g[e] BY <2>1, <2>2, <2>3
  <2> QED BY <2>0, <2>4
<1>7. Nat \subseteq T
  <2> HIDE DEF T
  <2> QED BY <1>5, <1>6, SetInduction
<1>8. closed[FdMax] = g[FdMax] BY <1>1, <1>7
<1>9. g[FdMax] = ClosedFds(p, FdMax) BY <1>1 DEF g
<1> QED BY <1>8, <1>9 DEF closed
\* The table without the descriptors of a program: what counts in it.
LEMMA RowCleared ==
    ASSUME FilesInv, NEW p \in Program, fds' = [fds EXCEPT ![p] = NoFds]
    PROVE  /\ \A n \in Node :
                  Cardinality({x \in Program \X FdSlot : fds'[x[1]][x[2]].path.node = n})
                    = Cardinality({x \in Program \X FdSlot : fds[x[1]][x[2]].path.node = n})
                        - Cardinality(FdsAt(p, FdMax, n))
           /\ FdCount' = FdCount - Cardinality(FdsOpen(p, FdMax))
           /\ fds' = [q \in Program |-> [d \in FdSlot |-> fds'[q][d]]]
           /\ \A q \in Program, d \in FdSlot : fds'[q][d] = NoHandle \/ fds'[q][d] = fds[q][d]
<1>1. fds = [q \in Program |-> [d \in FdSlot |-> fds[q][d]]] BY DEF FilesInv, PathsOK
<1>2. \A q \in Program, d \in FdSlot :
          fds'[q][d] = IF q = p THEN NoHandle ELSE fds[q][d]
  BY <1>1 DEF NoFds
<1>3. fds' = [q \in Program |-> [d \in FdSlot |-> fds'[q][d]]] BY <1>1 DEF NoFds
<1>4. \A d \in FdSlot : d <= FdMax BY FileCallsAssumption DEF FdSlot
<1>5. ASSUME NEW n \in Node
      PROVE  Cardinality({x \in Program \X FdSlot : fds'[x[1]][x[2]].path.node = n})
               = Cardinality({x \in Program \X FdSlot : fds[x[1]][x[2]].path.node = n})
                   - Cardinality(FdsAt(p, FdMax, n))
  <2> DEFINE A == {x \in Program \X FdSlot : fds[x[1]][x[2]].path.node = n}
             B == {x \in Program \X FdSlot : fds'[x[1]][x[2]].path.node = n}
             C == FdsAt(p, FdMax, n)
  <2>1. \A x \in Program \X FdSlot : x \in B <=> x \in A \ C
    <3> SUFFICES ASSUME NEW x \in Program \X FdSlot PROVE x \in B <=> x \in A \ C
      OBVIOUS
    <3>1. x[1] \in Program /\ x[2] \in FdSlot /\ x[2] <= FdMax BY <1>4
    <3>2. CASE x[1] = p
      <4>1. fds'[x[1]][x[2]] = NoHandle BY <1>2, <3>1, <3>2
      <4>2. x \notin B BY <4>1, ClosedNowhere
      <4>3. x \in A => x \in C BY <3>1, <3>2 DEF FdsAt, FdsOf
      <4> QED BY <4>2, <4>3
    <3>3. CASE x[1] # p
      <4>1. fds'[x[1]][x[2]] = fds[x[1]][x[2]] BY <1>2, <3>1, <3>3
      <4>2. x \notin C BY <3>3 DEF FdsAt, FdsOf
      <4> QED BY <4>1, <4>2
    <3> QED BY <3>2, <3>3
  <2>2. B = A \ C BY <2>1
  <2>3. C \subseteq A /\ A \subseteq Program \X FdSlot BY DEF FdsAt, FdsOf
  <2>4. Cardinality(C) \in Nat BY FdsFinite
  <2> HIDE DEF A, B, C
  <2>5. IsFiniteSet(A) BY <2>3, Finite, FS_Subset
  <2>6. A \cap C = C BY <2>3
  <2>9. Cardinality(A \ C) = Cardinality(A) - Cardinality(A \cap C) BY <2>5, FS_Difference
  <2>7. Cardinality(B) = Cardinality(A) - Cardinality(C) BY <2>2, <2>6, <2>9
  <2> QED BY <2>7 DEF A, B, C
<1>6. FdCount' = FdCount - Cardinality(FdsOpen(p, FdMax))
  <2> DEFINE A == {x \in Program \X FdSlot : fds[x[1]][x[2]].open}
             B == {x \in Program \X FdSlot : fds'[x[1]][x[2]].open}
             C == FdsOpen(p, FdMax)
  <2>1. \A x \in Program \X FdSlot : x \in B <=> x \in A \ C
    <3> SUFFICES ASSUME NEW x \in Program \X FdSlot PROVE x \in B <=> x \in A \ C
      OBVIOUS
    <3>1. x[1] \in Program /\ x[2] \in FdSlot /\ x[2] <= FdMax BY <1>4
    <3>2. CASE x[1] = p
      <4>1. fds'[x[1]][x[2]] = NoHandle BY <1>2, <3>1, <3>2
      <4>2. x \notin B BY <4>1, ClosedNowhere
      <4>3. x \in A => x \in C BY <3>1, <3>2 DEF FdsOpen, FdsOf
      <4> QED BY <4>2, <4>3
    <3>3. CASE x[1] # p
      <4>1. fds'[x[1]][x[2]] = fds[x[1]][x[2]] BY <1>2, <3>1, <3>3
      <4>2. x \notin C BY <3>3 DEF FdsOpen, FdsOf
      <4> QED BY <4>1, <4>2
    <3> QED BY <3>2, <3>3
  <2>2. B = A \ C BY <2>1
  <2>3. C \subseteq A /\ A \subseteq Program \X FdSlot BY DEF FdsOpen, FdsOf
  <2>4. Cardinality(C) \in Nat BY FdsFinite
  <2>8. FdCount = Cardinality(A) /\ FdCount' = Cardinality(B) BY DEF FdCount
  <2> HIDE DEF A, B
  <2>5. IsFiniteSet(A) BY <2>3, Finite, FS_Subset
  <2>6. A \cap C = C BY <2>3
  <2> HIDE DEF C
  <2>9. Cardinality(A \ C) = Cardinality(A) - Cardinality(A \cap C) BY <2>5, FS_Difference
  <2>7. Cardinality(B) = Cardinality(A) - Cardinality(C) BY <2>2, <2>6, <2>9
  <2> QED BY <2>7, <2>8 DEF C
<1>7. \A q \in Program, d \in FdSlot : fds'[q][d] = NoHandle \/ fds'[q][d] = fds[q][d]
  BY <1>2
<1> QED BY <1>3, <1>5, <1>6, <1>7

\* The working directory goes with them.
LEMMA ProgramCleared ==
    ASSUME FilesInv, NEW p \in Program, Alive(p), fds' = [fds EXCEPT ![p] = NoFds],
           cwd' = [cwd EXCEPT ![p] = NoPath], UNCHANGED <<held, opened, mounts, registered>>
    PROVE  /\ \A n \in Node : TotalAt(n)' = TotalAt(n) - Cardinality(FdsAt(p, FdMax, n))
                                                       - Bit(cwd[p].node = n)
           /\ FdCount' = FdCount - Cardinality(FdsOpen(p, FdMax)) /\ LiveCount' = LiveCount - 1
           /\ HeldCount' = HeldCount /\ OpenCount' = OpenCount
           /\ MountsOK' /\ PathsOK'
<1>1. MountsOK /\ PathsOK BY DEF FilesInv
<1>2. /\ cwd'[p] = NoPath /\ \A y \in Program : y # p => cwd'[y] = cwd[y]
      /\ cwd' = [y \in Program |-> cwd'[y]]
  BY <1>1 DEF PathsOK
<1>3. PathsOK'
  <2>1. \A y \in Program : cwd'[y] = NoPath \/ cwd'[y] = cwd[y] BY <1>2
  <2>2. (\A q : Valid(q)' = Valid(q)) /\ (\A o : Handle(o)' = Handle(o)) BY <1>1, SameMounts
  <2>3. \A y \in Program : cwd'[y] = NoPath \/ Valid(cwd'[y]) BY <1>1, <2>1 DEF PathsOK
  <2>4. \A q \in Program, d \in FdSlot : Handle(fds'[q][d])
    BY <1>1, RowCleared, ClosedNowhere DEF PathsOK
  <2>5. fds' = [q \in Program |-> [d \in FdSlot |-> fds'[q][d]]] BY RowCleared
  <2>6. /\ (\A y \in Program : cwd[y] = NoPath \/ Valid(cwd[y]))'
        /\ (\A q \in Program, d \in FdSlot : Handle(fds[q][d]))'
    BY <2>2, <2>3, <2>4
  <2>7. /\ (\A h \in Holder : held[h] = NoPath \/ Valid(held[h]))'
        /\ (\A r \in Reader : Handle(opened[r]))'
    BY <1>1, <2>2 DEF PathsOK
  <2>8. held' = [h \in Holder |-> held'[h]] /\ opened' = [r \in Reader |-> opened'[r]]
    BY <1>1 DEF PathsOK
  <2> QED BY <1>2, <2>5, <2>6, <2>7, <2>8 DEF PathsOK
<1>4. FdCount' = FdCount - Cardinality(FdsOpen(p, FdMax)) BY RowCleared
<1>5. LiveCount' = LiveCount - 1
  <2> DEFINE A == {y \in Program : cwd[y] # NoPath}
             B == {y \in Program : cwd'[y] # NoPath}
  <2>1. LiveCount = Cardinality(A) /\ LiveCount' = Cardinality(B) BY DEF LiveCount, Alive
  <2>2. /\ A \subseteq Program /\ B \subseteq Program /\ IsFiniteSet(Program)
        /\ (\A y \in Program : y # p => (y \in A <=> y \in B))
        /\ p \in A /\ p \notin B
    BY <1>2, Finite DEF Alive
  <2> HIDE DEF A, B
  <2>3. Cardinality(A) \in Nat /\ Cardinality(B) = Cardinality(A) - Bit(p \in A) + Bit(p \in B)
    BY <2>2, CountChange
  <2> QED BY <2>1, <2>2, <2>3 DEF Bit
<1>6. ASSUME NEW n \in Node
      PROVE  TotalAt(n)' = TotalAt(n) - Cardinality(FdsAt(p, FdMax, n)) - Bit(cwd[p].node = n)
  <2> DEFINE A == {y \in Program : cwd[y].node = n}
             B == {y \in Program : cwd'[y].node = n}
             E == {x \in Program \X FdSlot : fds[x[1]][x[2]].path.node = n}
             F == {x \in Program \X FdSlot : fds'[x[1]][x[2]].path.node = n}
             C == FdsAt(p, FdMax, n)
  <2>1. ProgramsAt(n) = Cardinality(A) + Cardinality(E) BY DEF ProgramsAt
  <2>2. ProgramsAt(n)' = Cardinality(B) + Cardinality(F) BY DEF ProgramsAt
  <2>3. /\ A \subseteq Program /\ B \subseteq Program /\ IsFiniteSet(Program)
        /\ (\A y \in Program : y # p => (y \in A <=> y \in B))
        /\ (p \in A <=> cwd[p].node = n) /\ p \notin B
    BY <1>2, Finite, ClosedNowhere
  <2>4. Cardinality(F) = Cardinality(E) - Cardinality(C) BY RowCleared
  <2>5. Cardinality(E) \in Nat /\ Cardinality(C) \in Nat
    <3>1. E \subseteq Program \X FdSlot OBVIOUS
    <3>2. Cardinality(C) \in Nat BY FdsFinite
    <3> HIDE DEF E
    <3> QED BY <3>1, <3>2, Finite, SubsetCount
  <2>9. TotalAt(n) = PathsAt(n) + MountsAt(n) + ProgramsAt(n)
        /\ TotalAt(n)' = PathsAt(n) + MountsAt(n) + ProgramsAt(n)'
    <3>1. PathsAt(n)' = PathsAt(n) BY DEF PathsAt
    <3>2. MountsAt(n)' = MountsAt(n) BY DEF MountsAt
    <3> QED BY <3>1, <3>2 DEF TotalAt
  <2> HIDE DEF A, B, E, F, C
  <2>6. Cardinality(A) \in Nat /\ Cardinality(B) = Cardinality(A) - Bit(p \in A) + Bit(p \in B)
    BY <2>3, CountChange
  <2>7. Bit(p \in A) = Bit(cwd[p].node = n) /\ Bit(p \in B) = 0 /\ Bit(p \in A) \in Nat
    BY <2>3 DEF Bit
  <2>8. PathsAt(n) \in Nat /\ MountsAt(n) \in Nat BY CountsNat
  <2>10. TotalAt(n)' = TotalAt(n) - Cardinality(C) - Bit(cwd[p].node = n)
    BY <2>1, <2>2, <2>4, <2>5, <2>6, <2>7, <2>8, <2>9
  <2> QED BY <2>10 DEF C
<1>7. HeldCount' = HeldCount /\ OpenCount' = OpenCount BY SameHeld
<1>8. MountsOK' BY <1>1, SameMounts
<1> QED BY <1>3, <1>4, <1>5, <1>6, <1>7, <1>8

\* A program ends.
LEMMA ClearCall ==
    ASSUME FilesInv, NEW p \in Program, Alive(p), process_clear(p)
    PROVE  FilesInv'
<1> DEFINE c == ClosedRefs(p, FdMax)
           d == Down(c, cwd[p].node)
           i == path_reference_count - Cardinality(FdsOpen(p, FdMax))
<1>1. cwd[p].node \in Node /\ cwd[p] # NoPath BY CwdGood
<1>2. c \in Counts /\ i \in Int BY ClosedType
<1>3. /\ References(vfs_path_release(ClosedFds(p, FdMax), cwd[p]))
      /\ open_handle_count' = open_handle_count - Cardinality({e \in FdSlot : fds[p][e].open})
      /\ fds' = [fds EXCEPT ![p] = NoFds]
      /\ cwd' = [cwd EXCEPT ![p] = NoPath]
      /\ UNCHANGED <<held, opened, mounts, registered>>
  BY AllClosed DEF process_clear, Same
<1>4. nodes' = WithRefs(nodes, d) /\ path_reference_count' = i - 1
  <2>1. ClosedFds(p, FdMax) = Counted(nodes, c, i) BY DEF ClosedFds
  <2> HIDE DEF c, i
  <2>2. vfs_path_release(Counted(nodes, c, i), cwd[p]) = Counted(nodes, d, i - 1)
    BY <1>1, <1>2, PathsMove
  <2>3. References(Counted(nodes, d, i - 1)) BY <1>3, <2>1, <2>2
  <2> QED BY <2>3 DEF References, Counted
<1>5. /\ \A n \in Node : TotalAt(n)' = TotalAt(n) - Cardinality(FdsAt(p, FdMax, n))
                                                  - Bit(cwd[p].node = n)
      /\ FdCount' = FdCount - Cardinality(FdsOpen(p, FdMax)) /\ LiveCount' = LiveCount - 1
      /\ HeldCount' = HeldCount /\ OpenCount' = OpenCount
      /\ MountsOK' /\ PathsOK'
  BY <1>3, ProgramCleared
<1>6. Totals'
  <2> DEFINE m == Cardinality(FdsOpen(p, FdMax))
  <2>1. m \in Nat BY FdsFinite
  <2>2. open_handle_count' = open_handle_count - m BY <1>3, OpenPairs
  <2>3. path_reference_count' = path_reference_count - m - 1 BY <1>4
  <2>4. FdCount' = FdCount - m /\ LiveCount' = LiveCount - 1 BY <1>5
  <2> HIDE DEF m
  <2>5. open_handle_count = OpenCount + FdCount
        /\ path_reference_count = open_handle_count + HeldCount + LiveCount
    BY TotalsNow DEF Totals
  <2>6. HeldCount \in Nat /\ LiveCount \in Nat /\ OpenCount \in Nat /\ FdCount \in Nat BY TotalsNat
  <2>7. open_handle_count' = OpenCount' + FdCount' BY <1>5, <2>1, <2>2, <2>4, <2>5, <2>6
  <2>8. path_reference_count' = open_handle_count' + HeldCount' + LiveCount'
    BY <1>5, <2>1, <2>2, <2>3, <2>4, <2>5, <2>6
  <2> QED BY <2>7, <2>8 DEF Totals
<1>7. PICK y \in Node : y = cwd[p].node BY <1>1
<1>8. d \in Counts /\ \A n \in Node : d[n] = c[n] - Bit(n = y)
  <2> HIDE DEF c
  <2>1. Down(c, y) \in Counts /\ \A n \in Node : Down(c, y)[n] = c[n] - Bit(n = y)
    BY <1>2, CountsMove
  <2> QED BY <1>7, <2>1
<1>9. ASSUME NEW n \in Node
      PROVE  d[n] = TotalAt(n)' /\ (d[n] > Refs[n] => InUse(nodes, n))
  <2> DEFINE a == Cardinality(FdsAt(p, FdMax, n))
  <2>1. a \in Nat BY FdsFinite
  <2>2. c[n] = Refs[n] - a BY DEF ClosedRefs
  <2>3. TotalAt(n)' = TotalAt(n) - a - Bit(y = n) BY <1>5, <1>7
  <2>4. d[n] = c[n] - Bit(n = y) BY <1>8
  <2>5. Refs[n] = TotalAt(n) /\ Refs[n] \in Int BY RefsTotal
  <2> HIDE DEF a, c, d
  <2> QED BY <2>1, <2>2, <2>3, <2>4, <2>5 DEF Bit
<1> HIDE DEF d
<1> QED BY <1>3, <1>4, <1>5, <1>6, <1>8, <1>9, ClosesWith
----------------------------------------------------------------------------
(* The calls inside the kernel                                             *)

\* A call that may also create or destroy an instance.
LEMMA Stands ==
    ASSUME NEW c \in [Node -> Nat], nodes' = WithRefs(nodes', c), Trees(nodes', registered'),
           MountsOK', PathsOK', Totals',
           \A n \in Node : c[n] = TotalAt(n)' /\ (c[n] > 0 => InUse(nodes', n))
    PROVE  FilesInv'
<1>1. Slots(nodes)'
  <2>1. c \in Counts BY DEF Counts
  <2>2. \A n \in Node : nodes'[n].refs = c[n] BY SameSlots
  <2>3. RefsIn(nodes') = c BY <2>1, <2>2 DEF RefsIn, Counts
  <2> QED BY <2>1, <2>3 DEF Slots
<1>2. Trees(nodes, registered)' BY DEF Trees, InUse
<1>3. ASSUME NEW n \in Node
      PROVE  (nodes[n].refs = PathsAt(n) + MountsAt(n) + ProgramsAt(n)
                /\ (nodes[n].refs > 0 => InUse(nodes, n)))'
  <2>1. nodes'[n].refs = c[n] BY SameSlots
  <2> QED BY <2>1 DEF TotalAt, InUse
<1>4. RefsTrue' BY <1>3 DEF RefsTrue, Totals, HeldCount, LiveCount, OpenCount, FdCount
<1> QED BY <1>1, <1>2, <1>4 DEF FilesInv

\* The tables stay while the instances change.
LEMMA TablesStay ==
    ASSUME FilesInv, UNCHANGED <<mounts, path_reference_count, open_handle_count, held, opened, cwd, fds>>,
           \A m \in MountSlot : mounts[m].active => mounts[m].fs \in registered'
    PROVE  MountsOK' /\ PathsOK' /\ Totals' /\ \A n \in Node : TotalAt(n)' = TotalAt(n)
<1>1. MountsOK /\ PathsOK /\ Totals BY TotalsNow DEF FilesInv
<1>2. MountsOK' BY <1>1 DEF MountsOK
<1>3. PathsOK'
  <2>1. \A q : Valid(q)' = Valid(q) BY DEF Valid
  <2>2. \A o : Handle(o)' = Handle(o) BY <2>1 DEF Handle
  <2> QED BY <1>1, <2>1, <2>2 DEF PathsOK
<1>4. Totals' BY <1>1 DEF Totals, OpenCount, FdCount, HeldCount, LiveCount, Alive
<1>5. \A n \in Node : TotalAt(n)' = TotalAt(n) BY DEF TotalAt, PathsAt, MountsAt, ProgramsAt
<1> QED BY <1>2, <1>3, <1>4, <1>5

\* A node that nobody refers to, and one that does not exist.
LEMMA NotInUse ==
    ASSUME FilesInv, NEW n \in Node
    PROVE  /\ Refs[n] = nodes[n].refs /\ Refs[n] \in Nat
           /\ ~InUse(nodes, n) => Refs[n] = 0
<1>1. Refs[n] = nodes[n].refs BY DEF Refs, RefsIn
<1>2. Sound(nodes, Refs) BY SoundNow
<1>3. Refs[n] \in Nat /\ (Refs[n] > 0 => InUse(nodes, n)) BY <1>2 DEF Sound
<1> QED BY <1>1, <1>3

\* An instance is created.
LEMMA CreateInstance ==
    ASSUME FilesInv, NEW f \in Instance, ramfs_create_filesystem(f),
           UNCHANGED <<mounts, path_reference_count, open_handle_count, held, opened, cwd, fds>>
    PROVE  FilesInv'
<1> DEFINE c == Refs
           r == RootOf(f)
           o == [type |-> "directory", parent |-> r, name |-> "", refs |-> c[r],
                 size |-> 0, data |-> <<>>]
<1>1. f \notin registered /\ registered' = registered \cup {f}
      /\ nodes' = [nodes EXCEPT ![r] = NewNode("directory", r, "")]
  BY DEF ramfs_create_filesystem
<1>2. r \in Node /\ r[1] = f BY RamFsAssumption DEF RootOf, Node, SlotOf
<1>3. Trees(nodes, registered) /\ Sound(nodes, c) BY SoundNow DEF FilesInv
<1>4. ~InUse(nodes, r) BY <1>1, <1>2, <1>3 DEF Trees
<1>5. c[r] = 0 BY <1>2, <1>4, NotInUse
<1>6. nodes' = [nodes EXCEPT ![r] = o] BY <1>1, <1>5 DEF NewNode
<1>7. /\ nodes' = WithRefs(nodes', c) /\ nodes'[r] = o
      /\ \A m \in Node : m # r => nodes'[m] = nodes[m]
  <2>1. PICK type_, name_, size_, data_ :
            type_ = "directory" /\ name_ = "" /\ size_ = 0 /\ data_ = <<>>
    OBVIOUS
  <2> DEFINE u == [type |-> type_, parent |-> r, name |-> name_, refs |-> c[r],
                   size |-> size_, data |-> data_]
             vs == [nodes EXCEPT ![r] = u]
  <2>2. o = u BY <2>1
  <2> HIDE DEF c, r, o
  <2>3. /\ vs = WithRefs(vs, c) /\ vs[r] = u
        /\ \A m \in Node : m # r => vs[m] = nodes[m]
    BY <1>2, <1>3, SlotWritten
  <2>4. nodes' = vs BY <1>6, <2>2
  <2> HIDE DEF vs, u
  <2> QED BY <2>2, <2>3, <2>4
<1>8. o.type = "directory" /\ o.parent = r OBVIOUS
<1> HIDE DEF o
<1>9. Trees(nodes', registered')
  <2>1. registered' \subseteq Instance BY <1>1, <1>3 DEF Trees
  <2>2. \A g \in registered' : nodes'[RootOf(g)].type = "directory"
                                 /\ nodes'[RootOf(g)].parent = RootOf(g)
    <3> SUFFICES ASSUME NEW g \in registered'
                 PROVE nodes'[RootOf(g)].type = "directory" /\ nodes'[RootOf(g)].parent = RootOf(g)
      OBVIOUS
    <3>1. CASE g = f BY <1>7, <1>8, <3>1
    <3>2. CASE g # f
      <4>1. g \in registered /\ RootOf(g) # r /\ RootOf(g) \in Node
        <5>1. g \in registered /\ g \in Instance BY <1>1, <2>1, <3>2
        <5>2. RootOf(g)[1] = g BY DEF RootOf
        <5>3. RootOf(g) \in Node BY <5>1, RamFsAssumption DEF RootOf, Node, SlotOf
        <5> QED BY <1>2, <3>2, <5>1, <5>2, <5>3
      <4> QED BY <1>3, <1>7, <4>1 DEF Trees
    <3> QED BY <3>1, <3>2
  <2>3. ASSUME NEW n \in Node, InUse(nodes', n)
        PROVE  /\ nodes'[n].parent \in Node /\ nodes'[n].parent[1] = n[1] /\ n[1] \in registered'
               /\ nodes'[nodes'[n].parent].type = "directory"
    <3>1. CASE n = r BY <1>1, <1>2, <1>7, <1>8, <3>1
    <3>2. CASE n # r
      <4>1. nodes'[n] = nodes[n] BY <1>7, <3>2
      <4>2. InUse(nodes, n) BY <2>3, <4>1 DEF InUse
      <4>3. /\ nodes[n].parent \in Node /\ nodes[n].parent[1] = n[1] /\ n[1] \in registered
            /\ nodes[nodes[n].parent].type = "directory"
        BY <1>3, <4>2 DEF Trees
      <4>4. nodes[n].parent # r BY <1>4, <4>3 DEF InUse
      <4> QED BY <1>1, <1>7, <4>1, <4>3, <4>4
    <3> QED BY <3>1, <3>2
  <2> QED BY <2>1, <2>2, <2>3 DEF Trees
<1>10. \A n \in Node : c[n] > 0 => InUse(nodes', n)
  <2> SUFFICES ASSUME NEW n \in Node, c[n] > 0 PROVE InUse(nodes', n) OBVIOUS
  <2>1. InUse(nodes, n) BY <1>3 DEF Sound
  <2>2. n # r BY <1>4, <2>1
  <2> QED BY <1>7, <2>1, <2>2 DEF InUse
<1>11. MountsOK' /\ PathsOK' /\ Totals' /\ \A n \in Node : TotalAt(n)' = TotalAt(n)
  <2>1. \A m \in MountSlot : mounts[m].active => mounts[m].fs \in registered'
    BY <1>1 DEF FilesInv, MountsOK
  <2> QED BY <2>1, TablesStay
<1>12. \A n \in Node : c[n] = TotalAt(n)' BY <1>11, RefsTotal
<1>13. c \in [Node -> Nat] BY <1>3 DEF Sound
<1> HIDE DEF c
<1> QED BY <1>7, <1>9, <1>10, <1>11, <1>12, <1>13, Stands

\* And destroyed.
LEMMA DestroyInstance ==
    ASSUME FilesInv, NEW f \in Instance, ramfs_destroy_filesystem(f),
           UNCHANGED <<mounts, path_reference_count, open_handle_count, held, opened, cwd, fds>>
    PROVE  FilesInv'
<1> DEFINE c == Refs
<1>1. f \in registered /\ registered' = registered \ {f}
      /\ nodes' = [n \in Node |-> IF n[1] = f THEN NoFile ELSE nodes[n]]
      /\ \A n \in Node : n[1] = f /\ InUse(nodes, n) => nodes[n].refs = 0
  BY DEF ramfs_destroy_filesystem
<1>2. Trees(nodes, registered) /\ Sound(nodes, c) BY SoundNow DEF FilesInv
<1>3. \A n \in Node : n[1] = f => c[n] = 0 BY <1>1, NotInUse
<1>4. NoFile = [type |-> "none", parent |-> <<>>, name |-> "", refs |-> 0, size |-> 0, data |-> <<>>]
  BY DEF NoFile, NewNode
<1>5. nodes' = WithRefs(nodes', c)
  <2>1. \A n \in Node : nodes[n] =
          [type |-> nodes[n].type, parent |-> nodes[n].parent, name |-> nodes[n].name,
           refs |-> c[n], size |-> nodes[n].size, data |-> nodes[n].data]
    BY <1>2 DEF Sound, WithRefs
  <2> HIDE DEF c
  <2>2. ASSUME NEW n \in Node
        PROVE  nodes'[n] = WithRefs(nodes', c)[n]
    <3>1. CASE n[1] = f
      <4>1. nodes'[n] = NoFile BY <1>1, <3>1
      <4>2. PICK type_, parent_, name_, refs_, size_, data_ :
                /\ NoFile = [type |-> type_, parent |-> parent_, name |-> name_, refs |-> refs_,
                             size |-> size_, data |-> data_]
                /\ refs_ = 0
        BY <1>4
      <4>3. c[n] = refs_ BY <1>3, <3>1, <4>2
      <4> QED BY <4>1, <4>2, <4>3 DEF WithRefs
    <3>2. CASE n[1] # f
      <4>1. nodes'[n] = nodes[n] BY <1>1, <3>2
      <4> QED BY <2>1, <4>1 DEF WithRefs
    <3> QED BY <3>1, <3>2
  <2> QED BY <1>1, <2>2 DEF WithRefs
<1>6. Trees(nodes', registered')
  <2>1. registered' \subseteq Instance BY <1>1, <1>2 DEF Trees
  <2>2. \A n \in Node : n[1] # f => nodes'[n] = nodes[n] BY <1>1
  <2>3. \A g \in registered' : RootOf(g) \in Node /\ RootOf(g)[1] # f /\ g \in registered
    BY <1>1, <2>1, RamFsAssumption DEF RootOf, Node, SlotOf
  <2>4. \A g \in registered' : nodes'[RootOf(g)].type = "directory"
                                 /\ nodes'[RootOf(g)].parent = RootOf(g)
    BY <1>2, <2>2, <2>3 DEF Trees
  <2>5. ASSUME NEW n \in Node, InUse(nodes', n)
        PROVE  /\ nodes'[n].parent \in Node /\ nodes'[n].parent[1] = n[1] /\ n[1] \in registered'
               /\ nodes'[nodes'[n].parent].type = "directory"
    <3>1. n[1] # f
      <4> SUFFICES ASSUME n[1] = f PROVE FALSE OBVIOUS
      <4>1. nodes'[n] = NoFile BY <1>1
      <4>2. NoFile.type = "none" BY <1>4
      <4> QED BY <2>5, <4>1, <4>2 DEF InUse
    <3>2. nodes'[n] = nodes[n] BY <2>2, <3>1
    <3>3. InUse(nodes, n) BY <2>5, <3>2 DEF InUse
    <3>4. /\ nodes[n].parent \in Node /\ nodes[n].parent[1] = n[1] /\ n[1] \in registered
          /\ nodes[nodes[n].parent].type = "directory"
      BY <1>2, <3>3 DEF Trees
    <3> QED BY <1>1, <2>2, <3>1, <3>2, <3>4
  <2> QED BY <2>1, <2>4, <2>5 DEF Trees
<1>7. \A n \in Node : c[n] > 0 => InUse(nodes', n)
  <2> SUFFICES ASSUME NEW n \in Node, c[n] > 0 PROVE InUse(nodes', n) OBVIOUS
  <2>1. InUse(nodes, n) BY <1>2 DEF Sound
  <2>2. n[1] # f BY <1>3
  <2> QED BY <1>1, <2>1, <2>2 DEF InUse
<1>8. \A m \in MountSlot : mounts[m].active => mounts[m].fs \in registered'
  <2> SUFFICES ASSUME NEW m \in MountSlot, mounts[m].active PROVE mounts[m].fs # f
    BY <1>1 DEF FilesInv, MountsOK
  <2> DEFINE r == RootOf(mounts[m].fs)
             C == {k \in MountSlot : mounts[k].active /\ RootOf(mounts[k].fs) = r}
             D == {k \in MountSlot : mounts[k].active /\ mounts[k].mountpoint = r}
  <2>1. r \in Node /\ r[1] = mounts[m].fs BY MountNodes
  <2>2. C \subseteq MountSlot /\ D \subseteq MountSlot /\ C # {} OBVIOUS
  <2>3. MountsAt(r) = Cardinality(C) + Cardinality(D) BY DEF MountsAt
  <2> HIDE DEF C, D, r
  <2>4. Cardinality(C) \in Nat /\ Cardinality(D) \in Nat /\ Cardinality(C) # 0
    BY <2>2, Finite, SubsetCount
  <2>5. c[r] > 0
    <3>1. c[r] = PathsAt(r) + MountsAt(r) + ProgramsAt(r) BY <2>1, RefsTotal DEF TotalAt
    <3> QED BY <2>3, <2>4, <3>1, CountsNat
  <2> QED BY <1>3, <2>1, <2>5
<1>11. MountsOK' /\ PathsOK' /\ Totals' /\ \A n \in Node : TotalAt(n)' = TotalAt(n)
  BY <1>8, TablesStay
<1>12. \A n \in Node : c[n] = TotalAt(n)' BY <1>11, RefsTotal
<1>13. c \in [Node -> Nat] BY <1>2 DEF Sound
<1> HIDE DEF c
<1> QED BY <1>5, <1>6, <1>7, <1>11, <1>12, <1>13, Stands
\* A user resolves a path.
LEMMA ResolveCall ==
    ASSUME FilesInv, NEW h \in Holder, NEW start, NEW text \in PathText, resolve(h, start, text),
           UNCHANGED <<cwd, fds>>
    PROVE  FilesInv'
<1> DEFINE w == vfs_resolve(Now, start, text)
           q == w.path
<1>1. /\ vfs_initialized /\ held[h] = NoPath
      /\ start = RootPath \/ \E g \in Holder : held[g] # NoPath /\ start = held[g]
      /\ References(w.s) /\ held' = [held EXCEPT ![h] = q]
      /\ UNCHANGED <<registered, mounts, opened, open_handle_count>>
  BY DEF resolve
<1>2. Good(start)
  <2>1. CASE start = RootPath BY <1>1, <2>1, RootGood
  <2>2. ASSUME NEW g \in Holder, held[g] # NoPath, start = held[g] PROVE Good(start)
    BY <2>2, HeldGood
  <2> QED BY <1>1, <2>1, <2>2
<1>3. Len(text) \in Nat
  <2>1. PICK k \in 0..PathMax : text \in [1..k -> Component] BY DEF PathText
  <2>2. k \in Nat BY VfsAssumption
  <2>3. text \in Seq(Component) BY <2>1, <2>2
  <2> QED BY <2>3
<1>4. w \in Reached BY <1>2, <1>3, Resolved
<1> HIDE DEF w
<1>5. CASE w.ok = FALSE /\ w.s = Now /\ w.path = NoPath
  <2>1. held' = held BY <1>1, <1>5 DEF FilesInv, PathsOK
  <2>2. References(Now) BY <1>1, <1>5
  <2> QED BY <1>1, <2>1, <2>2, NowRestored, RestoredCloses
<1>6. CASE w.ok = TRUE /\ w.s = Pinned(w.path) /\ Good(w.path) /\ w.path.node \in Node
  <2> HIDE DEF q
  <2>1. Good(q) /\ References(Pinned(q)) /\ q.node \in Node BY <1>1, <1>6 DEF q
  <2>2. Valid(q) /\ q # NoPath BY <2>1, ClosedNowhere DEF Good
  <2>3. /\ \A n \in Node : TotalAt(n)' = TotalAt(n) - Bit(held[h].node = n) + Bit(q.node = n)
        /\ HeldCount' = HeldCount - Bit(held[h] # NoPath) + Bit(q # NoPath)
        /\ OpenCount' = OpenCount /\ LiveCount' = LiveCount /\ FdCount' = FdCount
        /\ MountsOK' /\ PathsOK'
    BY <1>1, <2>2, HeldMoves
  <2>4. ASSUME NEW n \in Node PROVE TotalAt(n)' = TotalAt(n) + Bit(q.node = n)
    <3>1. held[h].node # n BY <1>1, ClosedNowhere
    <3> QED BY <2>3, <3>1, RefsTotal DEF Bit
  <2>5. ASSUME path_reference_count' = path_reference_count + 1 PROVE Totals'
    <3>1. HeldCount' = HeldCount + 1 BY <1>1, <2>2, <2>3, TotalsNat DEF Bit
    <3> QED BY <1>1, <2>3, <2>5, <3>1, TotalsNow, TotalsNat DEF Totals
  <2> QED BY <1>1, <2>1, <2>3, <2>4, <2>5, TakenCloses
<1> QED BY <1>4, <1>5, <1>6, ReachedCases

\* And lets it go.
LEMMA ReleaseCall ==
    ASSUME FilesInv, NEW h \in Holder, vfs_path_release_held(h), UNCHANGED <<cwd, fds>>
    PROVE  FilesInv'
<1> DEFINE q == held[h]
           o == NoPath
<1>1. /\ q # NoPath /\ References(vfs_path_release(Now, q)) /\ held' = [held EXCEPT ![h] = o]
      /\ UNCHANGED <<registered, mounts, opened, open_handle_count>>
  BY DEF vfs_path_release_held
<1>2. q.node \in Node BY <1>1, HeldGood
<1>3. o.node \notin Node /\ o = NoPath BY ClosedNowhere
<1> HIDE DEF o
<1>4. /\ \A n \in Node : TotalAt(n)' = TotalAt(n) - Bit(held[h].node = n) + Bit(o.node = n)
      /\ HeldCount' = HeldCount - Bit(held[h] # NoPath) + Bit(o # NoPath)
      /\ OpenCount' = OpenCount /\ LiveCount' = LiveCount /\ FdCount' = FdCount
      /\ MountsOK' /\ PathsOK'
  <2>1. held' = [held EXCEPT ![h] = o] /\ UNCHANGED <<opened, cwd, fds, mounts, registered>>
    BY <1>1
  <2>2. o = NoPath \/ Valid(o) BY <1>3
  <2> HIDE DEF q
  <2> QED BY <2>1, <2>2, HeldMoves
<1>5. ASSUME NEW n \in Node PROVE TotalAt(n)' = TotalAt(n) - Bit(q.node = n)
  <2>1. o.node # n BY <1>3
  <2> QED BY <1>4, <2>1, RefsTotal DEF Bit
<1>6. ASSUME path_reference_count' = path_reference_count - 1 PROVE Totals'
  <2>1. HeldCount' = HeldCount - 1 BY <1>1, <1>3, <1>4, TotalsNat DEF Bit
  <2>2. open_handle_count = OpenCount + FdCount
        /\ path_reference_count = open_handle_count + HeldCount + LiveCount
    BY TotalsNow DEF Totals
  <2>3. open_handle_count' = OpenCount' + FdCount' BY <1>1, <1>4, <2>2
  <2>4. path_reference_count' = open_handle_count' + HeldCount' + LiveCount'
    <3>1. open_handle_count' = open_handle_count /\ LiveCount' = LiveCount BY <1>1, <1>4
    <3>2. OpenCount \in Nat /\ FdCount \in Nat /\ HeldCount \in Nat /\ LiveCount \in Nat BY TotalsNat
    <3> HIDE DEF OpenCount, FdCount, HeldCount, LiveCount
    <3> QED BY <1>6, <2>1, <2>2, <3>1, <3>2
  <2> QED BY <2>3, <2>4 DEF Totals
<1> HIDE DEF q
<1> QED BY <1>1, <1>2, <1>4, <1>5, <1>6, GivenCloses

\* A user creates a node and keeps a path to it.
LEMMA CreateCall ==
    ASSUME FilesInv, NEW h \in Holder, NEW g \in Holder, NEW name, NEW type \in {"file", "directory"},
           vfs_create_common(h, g, name, type), UNCHANGED <<cwd, fds>>
    PROVE  FilesInv'
<1> DEFINE ns == ramfs_create_node(nodes, held[h].node, name, type)
           x == CHOOSE n \in ramfs_find_child(ns, held[h].node, name) : TRUE
           q == [held[h] EXCEPT !.node = x]
           c == Refs
           k == path_reference_count
<1>1. /\ held[h] # NoPath /\ held[g] = NoPath /\ ns # nodes
      /\ References(vfs_path_acquire([Now EXCEPT !.nodes = ns], q))
      /\ held' = [held EXCEPT ![g] = q]
      /\ UNCHANGED <<registered, mounts, opened, open_handle_count>>
  BY DEF vfs_create_common
<1>2. Good(held[h]) /\ held[h].node \in Node BY <1>1, HeldGood
<1>3. Sound(nodes, c) /\ k \in Int BY SoundNow, NowCounted
<1>4. /\ Sound(ns, c)
      /\ ramfs_find_child(ns, held[h].node, name) # {}
      /\ \A n \in ramfs_find_child(ns, held[h].node, name) :
             n \in Node /\ n[1] = held[h].node[1] /\ InUse(ns, n)
  <2> HIDE DEF c
  <2>1. PICK d \in Node : d = held[h].node BY <1>2
  <2>2. LET ms == ramfs_create_node(nodes, d, name, type)
        IN  /\ Sound(ms, c)
            /\ ms # nodes => /\ ramfs_find_child(ms, d, name) # {}
                             /\ \A n \in ramfs_find_child(ms, d, name) :
                                   n \in Node /\ n[1] = d[1] /\ InUse(ms, n)
    BY <1>3, Created
  <2> QED BY <1>1, <2>1, <2>2
<1>5. x \in Node /\ x[1] = held[h].node[1] /\ InUse(ns, x) BY <1>4
<1> HIDE DEF ns, x
<1>6. q = [mount |-> held[h].mount, node |-> x] /\ held[h].mount \in MountSlot
  BY <1>2 DEF Good, Valid, Paths
<1>7. Valid(q) /\ q.node = x /\ q # NoPath
  <2>1. q \in Paths /\ q.node = x /\ q.mount = held[h].mount BY <1>5, <1>6 DEF Paths
  <2>2. Valid(q) BY <1>2, <1>5, <2>1 DEF Good, Valid
  <2> QED BY <2>1, <2>2, ClosedNowhere
<1> HIDE DEF q
<1>8. [Now EXCEPT !.nodes = ns] = Counted(ns, c, k)
  <2>1. Counted(ns, c, k) = [nodes |-> ns, paths |-> k] BY <1>4, SoundState
  <2> QED BY <2>1 DEF Now
<1>9. nodes' = WithRefs(ns, Up(c, x)) /\ path_reference_count' = k + 1
  <2>1. c \in Counts BY NowCounted
  <2>2. vfs_path_acquire(Counted(ns, c, k), q) = Counted(ns, Up(c, q.node), k + 1)
    BY <1>3, <1>5, <1>7, <2>1, PathsMove
  <2>3. References(Counted(ns, Up(c, x), k + 1)) BY <1>1, <1>7, <1>8, <2>2
  <2> QED BY <2>3 DEF References, Counted
<1>10. Sound(nodes', Up(c, x)) BY <1>4, <1>5, <1>9, SoundMoves
<1>11. /\ \A n \in Node : TotalAt(n)' = TotalAt(n) - Bit(held[g].node = n) + Bit(q.node = n)
       /\ HeldCount' = HeldCount - Bit(held[g] # NoPath) + Bit(q # NoPath)
       /\ OpenCount' = OpenCount /\ LiveCount' = LiveCount /\ FdCount' = FdCount
       /\ MountsOK' /\ PathsOK'
  BY <1>1, <1>7, HeldMoves
<1>12. Totals'
  <2>1. HeldCount' = HeldCount + 1 BY <1>1, <1>7, <1>11, TotalsNat DEF Bit
  <2> QED BY <1>1, <1>9, <1>11, <2>1, TotalsNow, TotalsNat DEF Totals
<1>13. ASSUME NEW n \in Node PROVE Up(c, x)[n] = TotalAt(n)'
  <2>1. held[g].node # n BY <1>1, ClosedNowhere
  <2>2. c \in Counts BY NowCounted
  <2>3. Up(c, x)[n] = c[n] + Bit(n = x) BY <1>5, <2>2, CountsMove
  <2>4. c[n] = TotalAt(n) /\ c[n] \in Int BY RefsTotal
  <2>5. TotalAt(n)' = TotalAt(n) - Bit(held[g].node = n) + Bit(x = n) BY <1>7, <1>11
  <2> HIDE DEF c
  <2> QED BY <2>1, <2>3, <2>4, <2>5 DEF Bit
<1> DEFINE d == Up(c, x)
<1>14. Sound(nodes', d) /\ \A n \in Node : d[n] = TotalAt(n)' BY <1>10, <1>13
<1> HIDE DEF d
<1> QED BY <1>1, <1>11, <1>12, <1>14, Closes

\* Nodes are removed, moved and truncated by users.
LEMMA ChangeCalls ==
    ASSUME FilesInv, NEW h \in Holder, NEW g \in Holder, NEW name, NEW newname, NEW type,
           NEW size, NEW heap,
           \/ vfs_remove_common(h, name, type) \/ vfs_rename_at(h, name, g, newname)
           \/ vfs_truncate_path(h, size, heap),
           UNCHANGED <<cwd, fds>>
    PROVE  FilesInv'
<1>1. held[h] # NoPath /\ UNCHANGED <<registered, mounts, held, opened, path_reference_count, open_handle_count>>
  BY DEF vfs_remove_common, vfs_rename_at, vfs_truncate_path, Change, truncate
<1>2. Good(held[h]) /\ held[h].node \in Node BY <1>1, HeldGood
<1>3. Sound(nodes, Refs) BY SoundNow
<1>4. Sound(nodes', Refs)
  <2>1. ASSUME vfs_remove_common(h, name, type) PROVE Sound(nodes', Refs)
    <3>1. nodes' = ramfs_remove_node(nodes, held[h].node, name, type)
      BY <2>1 DEF vfs_remove_common, Change
    <3> QED BY <1>2, <1>3, <3>1, Removed
  <2>2. ASSUME vfs_rename_at(h, name, g, newname) PROVE Sound(nodes', Refs)
    <3>1. held[g] # NoPath /\ held[h].mount = held[g].mount
          /\ nodes' = ramfs_rename(nodes, held[h].node, name, held[g].node, newname)
      BY <2>2 DEF vfs_rename_at, Change
    <3>2. Good(held[g]) /\ held[g].node \in Node BY <3>1, HeldGood
    <3>3. held[h].node[1] = held[g].node[1] BY <1>2, <3>1, <3>2 DEF Good, Valid
    <3> QED BY <1>2, <1>3, <3>1, <3>2, <3>3, Renamed
  <2>3. ASSUME vfs_truncate_path(h, size, heap) PROVE Sound(nodes', Refs)
    <3>1. nodes' = ramfs_truncate(nodes, held[h].node, size, heap)
      BY <2>3 DEF vfs_truncate_path, truncate
    <3> QED BY <1>2, <1>3, <3>1, FileWritten
  <2> QED BY <2>1, <2>2, <2>3
<1>5. /\ \A n \in Node : TotalAt(n)' = TotalAt(n)
      /\ HeldCount' = HeldCount /\ OpenCount' = OpenCount
      /\ LiveCount' = LiveCount /\ FdCount' = FdCount
      /\ MountsOK' /\ PathsOK'
  BY <1>1, NoneMoves
<1>6. Totals' BY <1>1, <1>5, TotalsNow DEF Totals
<1> QED BY <1>1, <1>4, <1>5, <1>6, SlotsClose
\* A user opens a handle.
LEMMA OpenCall ==
    ASSUME FilesInv, NEW r \in Reader, NEW h \in Holder, NEW access, vfs_handle_open(r, h, access),
           UNCHANGED <<cwd, fds>>
    PROVE  FilesInv'
<1> DEFINE q == held[h]
           o == [open |-> TRUE, path |-> q, offset |-> 0, access |-> access]
<1>1. /\ q # NoPath /\ ~opened[r].open /\ References(vfs_path_acquire(Now, q))
      /\ opened' = [opened EXCEPT ![r] = o]
      /\ open_handle_count' = open_handle_count + 1
      /\ UNCHANGED <<registered, mounts, held>>
  BY DEF vfs_handle_open
<1>2. Good(q) /\ q.node \in Node BY <1>1, HeldGood
<1> HIDE DEF q
<1>3. References(Pinned(q)) BY <1>1, <1>2, TakenIsPinned
<1>4. Handle(o) /\ o.path = q /\ o.open = TRUE BY <1>2, OpenHandle DEF Good
<1>5. opened[r] = NoHandle BY <1>1 DEF FilesInv, PathsOK, Handle
<1> HIDE DEF o
<1>6. /\ \A n \in Node : TotalAt(n)' = TotalAt(n) - Bit(opened[r].path.node = n) + Bit(o.path.node = n)
      /\ OpenCount' = OpenCount - Bit(opened[r].open) + Bit(o.open)
      /\ HeldCount' = HeldCount /\ LiveCount' = LiveCount /\ FdCount' = FdCount
      /\ MountsOK' /\ PathsOK'
  BY <1>1, <1>4, OpenedMoves
<1>7. ASSUME NEW n \in Node PROVE TotalAt(n)' = TotalAt(n) + Bit(q.node = n)
  <2>1. opened[r].path.node # n BY <1>5, ClosedNowhere
  <2> QED BY <1>4, <1>6, <2>1, RefsTotal DEF Bit
<1>8. ASSUME path_reference_count' = path_reference_count + 1 PROVE Totals'
  <2>1. OpenCount' = OpenCount + 1 BY <1>4, <1>5, <1>6, ClosedNowhere, TotalsNat DEF Bit
  <2> QED BY <1>1, <1>6, <1>8, <2>1, TotalsNow, TotalsNat DEF Totals
<1> QED BY <1>1, <1>2, <1>3, <1>6, <1>7, <1>8, TakenCloses

\* And closes it.
LEMMA CloseCall ==
    ASSUME FilesInv, NEW r \in Reader, vfs_handle_close(r), UNCHANGED <<cwd, fds>>
    PROVE  FilesInv'
<1> DEFINE q == opened[r].path
           o == NoHandle
<1>1. /\ opened[r].open /\ References(vfs_path_release(Now, q))
      /\ opened' = [opened EXCEPT ![r] = o]
      /\ open_handle_count' = open_handle_count - 1
      /\ UNCHANGED <<registered, mounts, held>>
  BY DEF vfs_handle_close
<1>2. q.node \in Node BY <1>1, OpenedGood
<1>3. Handle(o) /\ o.path.node \notin Node /\ o.open = FALSE BY ClosedNowhere
<1> HIDE DEF o
<1>4. /\ \A n \in Node : TotalAt(n)' = TotalAt(n) - Bit(opened[r].path.node = n) + Bit(o.path.node = n)
      /\ OpenCount' = OpenCount - Bit(opened[r].open) + Bit(o.open)
      /\ HeldCount' = HeldCount /\ LiveCount' = LiveCount /\ FdCount' = FdCount
      /\ MountsOK' /\ PathsOK'
  BY <1>1, <1>3, OpenedMoves
<1>5. ASSUME NEW n \in Node PROVE TotalAt(n)' = TotalAt(n) - Bit(q.node = n)
  <2>1. o.path.node # n BY <1>3
  <2> QED BY <1>4, <2>1, RefsTotal DEF Bit
<1>6. ASSUME path_reference_count' = path_reference_count - 1 PROVE Totals'
  <2>1. OpenCount' = OpenCount - 1 BY <1>1, <1>3, <1>4, TotalsNat DEF Bit
  <2>2. open_handle_count = OpenCount + FdCount
        /\ path_reference_count = open_handle_count + HeldCount + LiveCount
    BY TotalsNow DEF Totals
  <2>3. /\ HeldCount' = HeldCount /\ LiveCount' = LiveCount /\ FdCount' = FdCount
        /\ open_handle_count' = open_handle_count - 1
    BY <1>1, <1>4
  <2>4. OpenCount \in Nat /\ FdCount \in Nat /\ HeldCount \in Nat /\ LiveCount \in Nat BY TotalsNat
  <2> HIDE DEF OpenCount, FdCount, HeldCount, LiveCount
  <2>5. open_handle_count' = OpenCount' + FdCount' BY <2>1, <2>2, <2>3, <2>4
  <2>6. path_reference_count' = open_handle_count' + HeldCount' + LiveCount'
    BY <1>6, <2>2, <2>3, <2>4
  <2> QED BY <2>5, <2>6 DEF Totals
<1> HIDE DEF q
<1> QED BY <1>1, <1>2, <1>4, <1>5, <1>6, GivenCloses

\* A handle of a user that moves in its file stays at its path.
LEMMA OpenedMoved ==
    ASSUME FilesInv, NEW r \in Reader, opened[r].open, NEW k,
           opened' = [opened EXCEPT ![r].offset = k], UNCHANGED <<held, fds, cwd, mounts, registered>>
    PROVE  /\ \A n \in Node : TotalAt(n)' = TotalAt(n)
           /\ FdCount' = FdCount /\ HeldCount' = HeldCount /\ OpenCount' = OpenCount
           /\ LiveCount' = LiveCount /\ MountsOK' /\ PathsOK'
<1> DEFINE q == opened[r].path
           a == opened[r].access
           i == opened[r].offset
           o == [open |-> TRUE, path |-> q, offset |-> k, access |-> a]
<1>1. Handle(opened[r]) BY DEF FilesInv, PathsOK
<1>2. opened[r] = [open |-> TRUE, path |-> q, offset |-> i, access |-> a] /\ Valid(q)
  BY <1>1 DEF Handle
<1> HIDE DEF q, a, i
<1>3. [opened[r] EXCEPT !.offset = k] = o
  <2>1. PICK b : b = TRUE OBVIOUS
  <2>2. opened[r] = [open |-> b, path |-> q, offset |-> i, access |-> a] BY <1>2, <2>1
  <2>3. PICK x : x = opened[r] OBVIOUS
  <2>4. [x EXCEPT !.offset = k] = [open |-> b, path |-> q, offset |-> k, access |-> a]
    <3>1. x = [open |-> b, path |-> q, offset |-> i, access |-> a] BY <2>2, <2>3
    <3> QED BY <3>1, HandleMoved
  <2>5. [opened[r] EXCEPT !.offset = k] = [x EXCEPT !.offset = k] BY <2>3
  <2> QED BY <2>1, <2>4, <2>5
<1>4. opened' = [opened EXCEPT ![r] = o]
  <2>1. opened' = [opened EXCEPT ![r] = [opened[r] EXCEPT !.offset = k]]
    BY DEF FilesInv, PathsOK
  <2> HIDE DEF o
  <2> QED BY <1>3, <2>1
<1>5. Handle(o) /\ o.path = q /\ o.open = TRUE BY <1>2, OpenHandle
<1> HIDE DEF o
<1>6. /\ \A n \in Node : TotalAt(n)' = TotalAt(n) - Bit(opened[r].path.node = n) + Bit(o.path.node = n)
      /\ OpenCount' = OpenCount - Bit(opened[r].open) + Bit(o.open)
      /\ HeldCount' = HeldCount /\ LiveCount' = LiveCount /\ FdCount' = FdCount
      /\ MountsOK' /\ PathsOK'
  BY <1>4, <1>5, OpenedMoves
<1>7. ASSUME NEW n \in Node PROVE TotalAt(n)' = TotalAt(n)
  BY <1>5, <1>6, RefsTotal DEF q, Bit
<1>8. OpenCount' = OpenCount BY <1>2, <1>5, <1>6, TotalsNat DEF Bit
<1> QED BY <1>6, <1>7, <1>8

\* A handle of a user is read or written.
LEMMA DataCalls ==
    ASSUME FilesInv, NEW r \in Reader, NEW length, NEW bytes, NEW heap,
           vfs_handle_read(r, length) \/ vfs_handle_write(r, bytes, heap), UNCHANGED <<cwd, fds>>
    PROVE  FilesInv'
<1> DEFINE n == opened[r].path.node
           k == opened[r].offset
<1>1. opened[r].open /\ n \in Node
  <2>1. opened[r].open BY DEF vfs_handle_read, vfs_handle_write
  <2> QED BY <2>1, OpenedGood
<1>2. PICK j : opened' = [opened EXCEPT ![r].offset = j]
  <2>1. ASSUME vfs_handle_read(r, length) PROVE \E j : opened' = [opened EXCEPT ![r].offset = j]
    BY <2>1 DEF vfs_handle_read
  <2>2. ASSUME vfs_handle_write(r, bytes, heap) PROVE \E j : opened' = [opened EXCEPT ![r].offset = j]
    BY <2>2 DEF vfs_handle_write
  <2> QED BY <2>1, <2>2
<1>3. UNCHANGED <<held, mounts, registered, path_reference_count, open_handle_count>>
  BY DEF vfs_handle_read, vfs_handle_write, write, ramfsVars
<1>4. /\ \A m \in Node : TotalAt(m)' = TotalAt(m)
      /\ FdCount' = FdCount /\ HeldCount' = HeldCount /\ OpenCount' = OpenCount
      /\ LiveCount' = LiveCount /\ MountsOK' /\ PathsOK'
  BY <1>1, <1>2, <1>3, OpenedMoved
<1>5. Totals' BY <1>3, <1>4, TotalsNow DEF Totals
<1>6. Sound(nodes', Refs)
  <2>1. nodes' = nodes \/ nodes' = ramfs_write(nodes, n, k, bytes, heap)
    BY DEF vfs_handle_read, vfs_handle_write, write, ramfsVars
  <2>2. Sound(nodes, Refs) BY SoundNow
  <2> HIDE DEF n, k
  <2>3. Sound(ramfs_write(nodes, n, k, bytes, heap), Refs) BY <1>1, <2>2, FileWritten
  <2> QED BY <2>1, <2>2, <2>3
<1> QED BY <1>3, <1>4, <1>5, <1>6, SlotsClose
----------------------------------------------------------------------------
(* Mounts                                                                  *)

\* A slot for a mount is taken.
LEMMA MountAdds ==
    ASSUME FilesInv, NEW m \in MountSlot, ~mounts[m].active, NEW new, new.active = TRUE,
           mounts' = [mounts EXCEPT ![m] = new], UNCHANGED <<held, opened, cwd, fds>>
    PROVE  /\ \A n \in Node : TotalAt(n)' = TotalAt(n) + Bit(RootOf(new.fs) = n)
                                                       + Bit(new.mountpoint = n)
           /\ PathsOK'
<1>1. MountsOK /\ PathsOK BY DEF FilesInv
<1>2. mounts'[m] = new /\ \A l \in MountSlot : l # m => mounts'[l] = mounts[l]
  BY <1>1 DEF MountsOK
<1>3. ASSUME NEW n \in Node
      PROVE  TotalAt(n)' = TotalAt(n) + Bit(RootOf(new.fs) = n) + Bit(new.mountpoint = n)
  <2> DEFINE A == {l \in MountSlot : mounts[l].active /\ RootOf(mounts[l].fs) = n}
             B == {l \in MountSlot : mounts'[l].active /\ RootOf(mounts'[l].fs) = n}
             C == {l \in MountSlot : mounts[l].active /\ mounts[l].mountpoint = n}
             D == {l \in MountSlot : mounts'[l].active /\ mounts'[l].mountpoint = n}
  <2>1. MountsAt(n) = Cardinality(A) + Cardinality(C) BY DEF MountsAt
  <2>2. MountsAt(n)' = Cardinality(B) + Cardinality(D) BY DEF MountsAt
  <2>3. /\ A \subseteq MountSlot /\ B \subseteq MountSlot /\ IsFiniteSet(MountSlot)
        /\ (\A l \in MountSlot : l # m => (l \in A <=> l \in B))
        /\ m \notin A /\ (m \in B <=> RootOf(new.fs) = n)
    BY <1>2, Finite
  <2>4. /\ C \subseteq MountSlot /\ D \subseteq MountSlot /\ IsFiniteSet(MountSlot)
        /\ (\A l \in MountSlot : l # m => (l \in C <=> l \in D))
        /\ m \notin C /\ (m \in D <=> new.mountpoint = n)
    BY <1>2, Finite
  <2> HIDE DEF A, B, C, D
  <2>5. Cardinality(A) \in Nat /\ Cardinality(B) = Cardinality(A) - Bit(m \in A) + Bit(m \in B)
    BY <2>3, CountChange
  <2>6. Cardinality(C) \in Nat /\ Cardinality(D) = Cardinality(C) - Bit(m \in C) + Bit(m \in D)
    BY <2>4, CountChange
  <2>7. Bit(m \in A) = 0 /\ Bit(m \in B) = Bit(RootOf(new.fs) = n) /\ Bit(m \in B) \in Nat
    BY <2>3 DEF Bit
  <2>8. Bit(m \in C) = 0 /\ Bit(m \in D) = Bit(new.mountpoint = n) /\ Bit(m \in D) \in Nat
    BY <2>4 DEF Bit
  <2>9. TotalAt(n) = PathsAt(n) + MountsAt(n) + ProgramsAt(n)
        /\ TotalAt(n)' = PathsAt(n) + MountsAt(n)' + ProgramsAt(n)
    <3>1. PathsAt(n)' = PathsAt(n) BY DEF PathsAt
    <3>2. ProgramsAt(n)' = ProgramsAt(n) BY DEF ProgramsAt
    <3> QED BY <3>1, <3>2 DEF TotalAt
  <2>10. PathsAt(n) \in Nat /\ ProgramsAt(n) \in Nat BY CountsNat
  <2> QED BY <2>1, <2>2, <2>5, <2>6, <2>7, <2>8, <2>9, <2>10
<1>4. PathsOK'
  <2>1. ASSUME NEW q, Valid(q)
        PROVE  q \in Paths /\ mounts'[q.mount].active /\ q.node[1] = mounts'[q.mount].fs
    <3>1. q.mount \in MountSlot /\ q.mount # m BY <2>1 DEF Valid, Paths
    <3> QED BY <1>2, <2>1, <3>1 DEF Valid
  <2>2. \A q : Valid(q) => Valid(q)' BY <2>1 DEF Valid
  <2>3. \A o : Handle(o) => Handle(o)' BY <2>2 DEF Handle
  <2> QED BY <1>1, <2>2, <2>3 DEF PathsOK
<1> QED BY <1>3, <1>4

\* Without a path there is nothing to count.
LEMMA NoPaths ==
    ASSUME PathsOK, \A m \in MountSlot : ~mounts[m].active
    PROVE  HeldCount = 0 /\ LiveCount = 0 /\ OpenCount = 0 /\ FdCount = 0
<1>1. \A q : ~Valid(q) BY DEF Valid, Paths
<1>2. \A h \in Holder : held[h] = NoPath BY <1>1 DEF PathsOK
<1>3. \A p \in Program : cwd[p] = NoPath BY <1>1 DEF PathsOK
<1>4. \A r \in Reader : ~opened[r].open BY <1>1 DEF PathsOK, Handle
<1>5. \A p \in Program, d \in FdSlot : ~fds[p][d].open BY <1>1 DEF PathsOK, Handle
<1>6. /\ {h \in Holder : held[h] # NoPath} = {} /\ {p \in Program : Alive(p)} = {}
      /\ {r \in Reader : opened[r].open} = {}
      /\ {x \in Program \X FdSlot : fds[x[1]][x[2]].open} = {}
  BY <1>2, <1>3, <1>4, <1>5 DEF Alive
<1>7. Cardinality({}) = 0 BY FS_EmptySet
<1> QED BY <1>6, <1>7 DEF HeldCount, LiveCount, OpenCount, FdCount

\* The global root is mounted.
LEMMA InitCall ==
    ASSUME FilesInv, NEW f \in Instance, vfs_init(f), UNCHANGED <<cwd, fds>>
    PROVE  FilesInv'
<1> DEFINE new == RootMount(f)
           r == RootOf(f)
           c == Up(Refs, r)
<1>1. /\ ~mounts[0].active /\ f \in registered
      /\ mounts' = [mounts EXCEPT ![0] = new]
      /\ nodes' = vfs_node_retain(Now, r).nodes
      /\ path_reference_count' = 0 /\ open_handle_count' = 0
      /\ UNCHANGED <<registered, held, opened>>
  BY DEF vfs_init, vfs_initialized
<1>2. MountsOK /\ PathsOK BY DEF FilesInv
<1>3. \A m \in MountSlot : ~mounts[m].active BY <1>1, <1>2 DEF MountsOK
<1>4. new = [active |-> TRUE, fs |-> f, parent |-> 0, mountpoint |-> <<>>] BY DEF RootMount
<1>5. new.active = TRUE /\ new.fs = f /\ new.mountpoint = <<>> /\ new \in MountRecords
      /\ 0 \in MountSlot
  BY <1>4, Finite DEF MountRecords
<1>6. r \in Node /\ InUse(nodes, r)
  <2>1. f \in Instance /\ nodes[r].type = "directory" BY <1>1 DEF FilesInv, Trees
  <2> QED BY <2>1, RamFsAssumption DEF RootOf, Node, SlotOf, InUse
<1>7. MountsOK'
  <2> HIDE DEF new
  <2>1. mounts'[0] = new /\ \A m \in MountSlot : m # 0 => mounts'[m] = mounts[m]
    BY <1>1, <1>2, <1>5 DEF MountsOK
  <2>2. mounts' \in [MountSlot -> MountRecords] BY <1>1, <1>2, <1>5 DEF MountsOK
  <2>3. \A m \in MountSlot : mounts'[m].active => m = 0 BY <1>3, <2>1
  <2> QED BY <1>1, <1>5, <2>1, <2>2, <2>3 DEF MountsOK
<1> HIDE DEF new
<1>8. /\ \A n \in Node : TotalAt(n)' = TotalAt(n) + Bit(RootOf(new.fs) = n)
                                                  + Bit(new.mountpoint = n)
      /\ PathsOK'
  <2>1. ~mounts[0].active /\ UNCHANGED <<held, opened, cwd, fds>> BY <1>1
  <2> QED BY <1>1, <1>5, <2>1, MountAdds
<1>9. nodes' = WithRefs(nodes, c)
  <2>1. vfs_node_retain(Now, r) = Counted(nodes, c, path_reference_count)
    <3>1. PICK x \in Node : x = r BY <1>6
    <3> QED BY <3>1, NowCounted, NodesMove
  <2> QED BY <1>1, <2>1 DEF Counted
<1>10. Totals'
  <2>1. HeldCount = 0 /\ LiveCount = 0 /\ OpenCount = 0 /\ FdCount = 0 BY <1>2, <1>3, NoPaths
  <2>2. HeldCount' = 0 /\ LiveCount' = 0 /\ OpenCount' = 0 /\ FdCount' = 0
    <3>1. HeldCount' = HeldCount /\ OpenCount' = OpenCount BY <1>1, SameHeld
    <3>2. LiveCount' = LiveCount /\ FdCount' = FdCount BY SamePrograms
    <3> QED BY <2>1, <3>1, <3>2
  <2> QED BY <1>1, <2>2 DEF Totals
<1>11. c \in Counts /\ \A n \in Node : c[n] = Refs[n] + Bit(n = r)
  <2>1. PICK x \in Node : x = r BY <1>6
  <2>2. Up(Refs, x) \in Counts /\ \A n \in Node : Up(Refs, x)[n] = Refs[n] + Bit(n = x)
    BY NowCounted, CountsMove
  <2> QED BY <2>1, <2>2
<1>12. ASSUME NEW n \in Node
       PROVE  c[n] = TotalAt(n)' /\ (c[n] > Refs[n] => InUse(nodes, n))
  <2>1. Refs[n] = TotalAt(n) /\ Refs[n] \in Int BY RefsTotal
  <2>2. c[n] = Refs[n] + Bit(n = r) BY <1>11
  <2>3. new.mountpoint # n
    <3>1. <<>> \notin Node BY DEF Node
    <3> QED BY <1>5, <3>1
  <2>4. TotalAt(n)' = TotalAt(n) + Bit(r = n)
    <3>1. Bit(new.mountpoint = n) = 0 /\ Bit(r = n) \in Int BY <2>3 DEF Bit
    <3>2. TotalAt(n)' = TotalAt(n) + Bit(r = n) + Bit(new.mountpoint = n) BY <1>5, <1>8
    <3> QED BY <2>1, <3>1, <3>2
  <2> HIDE DEF c, r
  <2>5. c[n] = TotalAt(n)' BY <2>1, <2>2, <2>4 DEF Bit
  <2>6. ASSUME c[n] > Refs[n] PROVE InUse(nodes, n)
    <3>1. n = r BY <2>1, <2>2, <2>6 DEF Bit
    <3> QED BY <1>6, <3>1
  <2> QED BY <2>5, <2>6
<1> HIDE DEF c
<1> QED BY <1>1, <1>7, <1>8, <1>9, <1>10, <1>11, <1>12, ClosesWith

\* An instance is mounted.
LEMMA MountCall ==
    ASSUME FilesInv, NEW f \in Instance, NEW h \in Holder, vfs_mount_filesystem(f, held[h]),
           UNCHANGED <<cwd, fds>>
    PROVE  FilesInv'
<1> DEFINE p == held[h]
           new == [active |-> TRUE, fs |-> f, parent |-> p.mount, mountpoint |-> p.node]
           r == RootOf(f)
           y == p.node
           b == Up(Refs, r)
           c == Up(b, y)
           k == path_reference_count
<1>1. PICK m \in MountSlot :
        /\ mounts[0].active /\ p # NoPath /\ f \in registered /\ ~mounts[m].active
        /\ mounts' = [mounts EXCEPT ![m] = new]
        /\ References(MountRefs(Now, new))
        /\ UNCHANGED <<registered, held, opened, open_handle_count>>
  BY DEF vfs_mount_filesystem, vfs_initialized
<1>2. Good(p) /\ p.node \in Node BY <1>1, HeldGood
<1>3. /\ p.mount \in MountSlot /\ mounts[p.mount].active /\ p.node[1] = mounts[p.mount].fs
      /\ InUse(nodes, p.node)
  BY <1>2 DEF Good, Valid, Paths
<1> HIDE DEF p
<1>4. new.active = TRUE /\ new.fs = f /\ new.mountpoint = y /\ new.parent = p.mount
      /\ new \in MountRecords
  BY <1>2, <1>3 DEF MountRecords
<1>5. r \in Node /\ InUse(nodes, r)
  <2>1. f \in Instance /\ nodes[r].type = "directory" BY <1>1 DEF FilesInv, Trees
  <2> QED BY <2>1, RamFsAssumption DEF RootOf, Node, SlotOf, InUse
<1>6. y \in Node /\ y # <<>> /\ InUse(nodes, y)
  <2>1. <<>> \notin Node BY DEF Node
  <2> QED BY <1>2, <1>3, <2>1
<1> HIDE DEF new, r, y
<1>7. MountsOK /\ PathsOK BY DEF FilesInv
<1>8. MountsOK'
  <2>1. mounts'[m] = new /\ \A l \in MountSlot : l # m => mounts'[l] = mounts[l]
    BY <1>1, <1>7 DEF MountsOK
  <2>2. mounts' \in [MountSlot -> MountRecords] BY <1>1, <1>4, <1>7 DEF MountsOK
  <2>3. m # 0 /\ p.mount # m /\ 0 \in MountSlot BY <1>1, <1>3, Finite
  <2>4. ASSUME NEW l \in MountSlot, mounts'[l].active
        PROVE  /\ mounts'[l].fs \in registered
               /\ l # 0 => /\ mounts'[mounts'[l].parent].active
                           /\ mounts'[l].mountpoint \in Node
                           /\ mounts'[l].mountpoint[1] = mounts'[mounts'[l].parent].fs
    <3>1. CASE l = m
      <4>1. mounts'[l] = new /\ mounts'[new.parent] = mounts[p.mount]
        BY <1>3, <1>4, <2>1, <2>3, <3>1
      <4>2. y[1] = mounts[p.mount].fs BY <1>3 DEF y
      <4> QED BY <1>1, <1>3, <1>4, <1>6, <4>1, <4>2
    <3>2. CASE l # m
      <4>1. mounts'[l] = mounts[l] BY <2>1, <3>2
      <4>2. mounts[l].fs \in registered
        BY <1>7, <2>4, <4>1 DEF MountsOK
      <4>3. ASSUME l # 0
            PROVE  /\ mounts'[mounts[l].parent].active
                   /\ mounts[l].mountpoint \in Node
                   /\ mounts[l].mountpoint[1] = mounts'[mounts[l].parent].fs
        <5>1. /\ mounts[mounts[l].parent].active /\ mounts[l].mountpoint \in Node
              /\ mounts[l].mountpoint[1] = mounts[mounts[l].parent].fs
              /\ mounts[l].parent \in MountSlot
          BY <1>7, <2>4, <4>1, <4>3 DEF MountsOK, MountRecords
        <5>2. mounts[l].parent # m BY <1>1, <5>1
        <5> QED BY <2>1, <5>1, <5>2
      <4> QED BY <4>1, <4>2, <4>3
    <3> QED BY <3>1, <3>2
  <2>5. mounts'[0].active /\ mounts'[0].mountpoint = <<>>
    <3>1. mounts'[0] = mounts[0] BY <2>1, <2>3
    <3> QED BY <1>1, <1>7, <3>1 DEF MountsOK
  <2> QED BY <1>1, <2>2, <2>4, <2>5 DEF MountsOK
<1>9. /\ \A n \in Node : TotalAt(n)' = TotalAt(n) + Bit(RootOf(new.fs) = n)
                                                  + Bit(new.mountpoint = n)
      /\ PathsOK'
  <2>1. ~mounts[m].active /\ UNCHANGED <<held, opened, cwd, fds>> BY <1>1
  <2> QED BY <1>1, <1>4, <2>1, MountAdds
<1>10. Refs \in Counts /\ k \in Int BY NowCounted
<1>11. b \in Counts /\ \A n \in Node : b[n] = Refs[n] + Bit(n = r) BY <1>5, <1>10, CountsMove
<1> HIDE DEF b
<1>12. c \in Counts /\ \A n \in Node : c[n] = b[n] + Bit(n = y) BY <1>6, <1>11, CountsMove
<1> HIDE DEF c
<1>13. nodes' = WithRefs(nodes, c) /\ path_reference_count' = k
  <2>1. vfs_node_retain(Counted(nodes, Refs, k), r) = Counted(nodes, b, k)
    BY <1>5, <1>10, NodesMove DEF b
  <2>2. vfs_node_retain(Counted(nodes, b, k), y) = Counted(nodes, c, k)
    BY <1>6, <1>10, <1>11, NodesMove DEF c
  <2>3. Now = Counted(nodes, Refs, k) BY NowCounted
  <2>4. MountRefs(Now, new) = vfs_node_retain(vfs_node_retain(Now, r), y)
    BY <1>4, <1>6 DEF MountRefs, r
  <2>5. References(Counted(nodes, c, k)) BY <1>1, <2>1, <2>2, <2>3, <2>4
  <2> QED BY <2>5 DEF References, Counted
<1>14. Totals'
  <2>1. HeldCount' = HeldCount /\ OpenCount' = OpenCount BY <1>1, SameHeld
  <2>2. LiveCount' = LiveCount /\ FdCount' = FdCount BY SamePrograms
  <2> QED BY <1>1, <1>13, <2>1, <2>2, TotalsNow DEF Totals
<1>15. ASSUME NEW n \in Node
       PROVE  c[n] = TotalAt(n)' /\ (c[n] > Refs[n] => InUse(nodes, n))
  <2>1. Refs[n] = TotalAt(n) /\ Refs[n] \in Int BY RefsTotal
  <2>2. b[n] = Refs[n] + Bit(n = r) /\ c[n] = b[n] + Bit(n = y) BY <1>11, <1>12
  <2>3. TotalAt(n)' = TotalAt(n) + Bit(r = n) + Bit(y = n) BY <1>4, <1>9 DEF r
  <2>4. c[n] = TotalAt(n)' BY <2>1, <2>2, <2>3 DEF Bit
  <2>5. ASSUME c[n] > Refs[n] PROVE InUse(nodes, n)
    <3>1. n = r \/ n = y BY <2>1, <2>2, <2>5 DEF Bit
    <3> QED BY <1>5, <1>6, <3>1
  <2> QED BY <2>4, <2>5
<1> QED BY <1>1, <1>8, <1>9, <1>12, <1>13, <1>14, <1>15, ClosesWith
----------------------------------------------------------------------------
(* The end of the mounts                                                   *)

\* The last k slots whose mount has its root or its mountpoint at a node.
RootsFrom(k, n) ==
    {m \in MountSlot : m >= MountMax - k /\ mounts[m].active /\ RootOf(mounts[m].fs) = n}
PointsFrom(k, n) ==
    {m \in MountSlot : m >= MountMax - k /\ mounts[m].active /\ mounts[m].mountpoint = n}

\* What giving them up leaves.
UnmountedRefs(k) ==
    [n \in Node |-> Refs[n] - Cardinality(RootsFrom(k, n)) - Cardinality(PointsFrom(k, n))]
Unmounted(k) == Counted(nodes, UnmountedRefs(k), path_reference_count)

\* The sets are finite.
LEMMA SlotsFinite ==
    ASSUME NEW k, NEW n
    PROVE  /\ RootsFrom(k, n) \subseteq MountSlot /\ PointsFrom(k, n) \subseteq MountSlot
           /\ Cardinality(RootsFrom(k, n)) \in Nat /\ Cardinality(PointsFrom(k, n)) \in Nat
<1>1. RootsFrom(k, n) \subseteq MountSlot /\ PointsFrom(k, n) \subseteq MountSlot
  BY DEF RootsFrom, PointsFrom
<1> QED BY <1>1, Finite, SubsetCount

\* The counts are counts.
LEMMA UnmountedType ==
    ASSUME FilesInv, NEW k
    PROVE  UnmountedRefs(k) \in Counts
<1>1. \A n \in Node : Refs[n] - Cardinality(RootsFrom(k, n)) - Cardinality(PointsFrom(k, n)) \in Int
  <2> SUFFICES ASSUME NEW n \in Node
               PROVE  Refs[n] - Cardinality(RootsFrom(k, n)) - Cardinality(PointsFrom(k, n)) \in Int
    OBVIOUS
  <2>1. Refs[n] \in Int BY RefsTotal
  <2>2. Cardinality(RootsFrom(k, n)) \in Nat /\ Cardinality(PointsFrom(k, n)) \in Nat
    BY SlotsFinite
  <2> QED BY <2>1, <2>2
<1> QED BY <1>1 DEF UnmountedRefs, Counts

\* Before the first one nothing has changed.
LEMMA NoneUnmounted ==
    ASSUME FilesInv
    PROVE  Unmounted(0) = Now
<1>1. \A n : RootsFrom(0, n) = {} /\ PointsFrom(0, n) = {}
  <2>1. \A m \in MountSlot : ~(m >= MountMax - 0) BY VfsAssumption DEF MountSlot
  <2> QED BY <2>1 DEF RootsFrom, PointsFrom
<1>2. Refs \in Counts BY NowCounted
<1>3. Cardinality({}) = 0 BY FS_EmptySet
<1>4. \A n \in Node : UnmountedRefs(0)[n] = Refs[n]
  BY <1>1, <1>2, <1>3 DEF UnmountedRefs, Counts
<1>5. UnmountedRefs(0) = Refs BY <1>2, <1>4, UnmountedType DEF Counts
<1> QED BY <1>5, NowCounted DEF Unmounted

\* One more slot is given up.
LEMMA OneUnmounted ==
    ASSUME FilesInv, NEW k \in 1..MountMax, NEW m, m = mounts[MountMax - k]
    PROVE  Unmounted(k) = IF m.active THEN UnmountRefs(Unmounted(k - 1), m) ELSE Unmounted(k - 1)
<1> DEFINE l == MountMax - k
           r == RootOf(m.fs)
           y == m.mountpoint
           b == m.active
<1>1. l \in MountSlot /\ l >= MountMax - k /\ ~(l >= MountMax - (k - 1))
      /\ \A x \in MountSlot : x # l => (x >= MountMax - k <=> x >= MountMax - (k - 1))
  BY VfsAssumption DEF MountSlot
<1>2. ASSUME NEW n
      PROVE  Cardinality(RootsFrom(k, n)) = Cardinality(RootsFrom(k - 1, n)) + Bit(b /\ r = n)
  <2> DEFINE A == RootsFrom(k - 1, n)
             B == RootsFrom(k, n)
  <2>1. l \notin A BY <1>1 DEF RootsFrom
  <2>2. l \in B <=> (b /\ r = n) BY <1>1 DEF RootsFrom
  <2>3. \A x \in MountSlot : x # l => (x \in A <=> x \in B) BY <1>1 DEF RootsFrom
  <2>4. A \subseteq MountSlot /\ B \subseteq MountSlot BY SlotsFinite
  <2> HIDE DEF A, B, l, r, b
  <2>5. Cardinality(A) \in Nat /\ Cardinality(B) = Cardinality(A) - Bit(l \in A) + Bit(l \in B)
    BY <1>1, <2>3, <2>4, Finite, CountChange
  <2>6. Cardinality(B) = Cardinality(A) + Bit(b /\ r = n) BY <2>1, <2>2, <2>5 DEF Bit
  <2> QED BY <2>6 DEF A, B
<1>3. ASSUME NEW n
      PROVE  Cardinality(PointsFrom(k, n)) = Cardinality(PointsFrom(k - 1, n)) + Bit(b /\ y = n)
  <2> DEFINE A == PointsFrom(k - 1, n)
             B == PointsFrom(k, n)
  <2>1. l \notin A BY <1>1 DEF PointsFrom
  <2>2. l \in B <=> (b /\ y = n) BY <1>1 DEF PointsFrom
  <2>3. \A x \in MountSlot : x # l => (x \in A <=> x \in B) BY <1>1 DEF PointsFrom
  <2>4. A \subseteq MountSlot /\ B \subseteq MountSlot BY SlotsFinite
  <2> HIDE DEF A, B, l, y, b
  <2>5. Cardinality(A) \in Nat /\ Cardinality(B) = Cardinality(A) - Bit(l \in A) + Bit(l \in B)
    BY <1>1, <2>3, <2>4, Finite, CountChange
  <2>6. Cardinality(B) = Cardinality(A) + Bit(b /\ y = n) BY <2>1, <2>2, <2>5 DEF Bit
  <2> QED BY <2>6 DEF A, B
<1> DEFINE c == UnmountedRefs(k - 1)
           d == UnmountedRefs(k)
           i == path_reference_count
<1>4. c \in Counts /\ d \in Counts /\ i \in Int BY UnmountedType, NowCounted
<1>5. \A n \in Node : d[n] = c[n] - Bit(b /\ r = n) - Bit(b /\ y = n)
  <2> SUFFICES ASSUME NEW n \in Node PROVE d[n] = c[n] - Bit(b /\ r = n) - Bit(b /\ y = n)
    OBVIOUS
  <2>1. d[n] = Refs[n] - Cardinality(RootsFrom(k, n)) - Cardinality(PointsFrom(k, n))
    BY DEF UnmountedRefs
  <2>2. c[n] = Refs[n] - Cardinality(RootsFrom(k - 1, n)) - Cardinality(PointsFrom(k - 1, n))
    BY DEF UnmountedRefs
  <2>3. Refs[n] \in Int BY RefsTotal
  <2>4. Cardinality(RootsFrom(k - 1, n)) \in Nat /\ Cardinality(PointsFrom(k - 1, n)) \in Nat
    BY SlotsFinite
  <2>5. Bit(b /\ r = n) \in Int /\ Bit(b /\ y = n) \in Int BY DEF Bit
  <2>6. Cardinality(RootsFrom(k, n)) = Cardinality(RootsFrom(k - 1, n)) + Bit(b /\ r = n) BY <1>2
  <2>7. Cardinality(PointsFrom(k, n)) = Cardinality(PointsFrom(k - 1, n)) + Bit(b /\ y = n) BY <1>3
  <2> HIDE DEF c, d, b, r, y
  <2> QED BY <2>1, <2>2, <2>3, <2>4, <2>5, <2>6, <2>7
<1>6. Unmounted(k) = Counted(nodes, d, i) /\ Unmounted(k - 1) = Counted(nodes, c, i)
  BY DEF Unmounted
<1>7. CASE b
  <2>1. r \in Node /\ (y = <<>> \/ y \in Node)
    <3>1. l = 0 => y = <<>> BY DEF FilesInv, MountsOK
    <3>2. RootOf(mounts[l].fs) \in Node /\ (l # 0 => mounts[l].mountpoint \in Node)
      BY <1>1, <1>7, MountNodes
    <3> QED BY <3>1, <3>2
  <2> DEFINE e == Down(c, r)
  <2>2. e \in Counts /\ \A n \in Node : e[n] = c[n] - Bit(n = r)
    <3>1. PICK x \in Node : x = r BY <2>1
    <3> HIDE DEF c, r
    <3>2. Down(c, x) \in Counts /\ \A n \in Node : Down(c, x)[n] = c[n] - Bit(n = x)
      BY <1>4, CountsMove
    <3> QED BY <3>1, <3>2
  <2>3. vfs_node_release(Counted(nodes, c, i), r) = Counted(nodes, e, i)
    <3>1. PICK x \in Node : x = r BY <2>1
    <3> HIDE DEF c, r, i
    <3>2. vfs_node_release(Counted(nodes, c, i), x) = Counted(nodes, Down(c, x), i)
      BY <1>4, NodesMove
    <3> QED BY <3>1, <3>2
  <2>4. UnmountRefs(Unmounted(k - 1), m)
          = IF y = <<>> THEN Counted(nodes, e, i) ELSE vfs_node_release(Counted(nodes, e, i), y)
    BY <1>6, <2>3 DEF UnmountRefs
  <2>5. CASE y = <<>>
    <3>1. \A n \in Node : y # n BY <2>5 DEF Node
    <3> HIDE DEF c, d, e, y, r, b
    <3>2. \A n \in Node : d[n] = e[n]
      <4> SUFFICES ASSUME NEW n \in Node PROVE d[n] = e[n] OBVIOUS
      <4>1. d[n] = c[n] - Bit(b /\ r = n) - Bit(b /\ y = n) BY <1>5
      <4>2. Bit(b /\ r = n) = Bit(n = r) /\ Bit(b /\ y = n) = 0 BY <1>7, <3>1 DEF Bit
      <4>3. e[n] = c[n] - Bit(n = r) /\ e[n] \in Int BY <2>2 DEF Counts
      <4> QED BY <4>1, <4>2, <4>3
    <3>3. d = e BY <1>4, <2>2, <3>2 DEF Counts
    <3> QED BY <1>6, <1>7, <2>4, <2>5, <3>3 DEF b
  <2>6. CASE y # <<>>
    <3>1. PICK x \in Node : x = y BY <2>1, <2>6
    <3> HIDE DEF c, d, e, y, r, b, i
    <3>2. vfs_node_release(Counted(nodes, e, i), x) = Counted(nodes, Down(e, x), i)
      BY <1>4, <2>2, NodesMove
    <3>3. Down(e, x) \in Counts /\ \A n \in Node : Down(e, x)[n] = e[n] - Bit(n = x)
      BY <2>2, CountsMove
    <3>4. \A n \in Node : d[n] = Down(e, x)[n]
      <4> SUFFICES ASSUME NEW n \in Node PROVE d[n] = Down(e, x)[n] OBVIOUS
      <4>1. d[n] = c[n] - Bit(b /\ r = n) - Bit(b /\ y = n) BY <1>5
      <4>2. Bit(b /\ r = n) = Bit(n = r) /\ Bit(b /\ y = n) = Bit(n = x) BY <1>7, <3>1 DEF Bit
      <4>3. e[n] = c[n] - Bit(n = r) /\ Down(e, x)[n] = e[n] - Bit(n = x) BY <2>2, <3>3
      <4> QED BY <4>1, <4>2, <4>3
    <3>5. d = Down(e, x) BY <1>4, <3>3, <3>4 DEF Counts
    <3> QED BY <1>6, <1>7, <2>4, <2>6, <3>1, <3>2, <3>5 DEF b
  <2> QED BY <2>5, <2>6
<1>8. CASE ~b
  <2> HIDE DEF c, d, r, y
  <2>1. \A n \in Node : d[n] = c[n]
    <3> SUFFICES ASSUME NEW n \in Node PROVE d[n] = c[n] OBVIOUS
    <3>1. Bit(b /\ r = n) = 0 /\ Bit(b /\ y = n) = 0 BY <1>8 DEF Bit
    <3>2. c[n] \in Int BY <1>4 DEF Counts
    <3>3. d[n] = c[n] - Bit(b /\ r = n) - Bit(b /\ y = n) BY <1>5
    <3> QED BY <3>1, <3>2, <3>3
  <2>2. d = c BY <1>4, <2>1 DEF Counts
  <2> QED BY <1>6, <1>8, <2>2
<1> QED BY <1>7, <1>8

\* What the loop of vfs_shutdown leaves.
LEMMA AllUnmounted ==
    ASSUME FilesInv
    PROVE  LET after[k \in 0..MountMax] ==
                   IF k = 0 THEN Now
                   ELSE LET m == mounts[MountMax - k]
                        IN  IF m.active THEN UnmountRefs(after[k - 1], m) ELSE after[k - 1]
           IN  after[MountMax] = Unmounted(MountMax)
<1> DEFINE after == CHOOSE h : h = [k \in 0..MountMax |->
                        IF k = 0 THEN Now
                        ELSE LET m == mounts[MountMax - k]
                             IN  IF m.active THEN UnmountRefs(h[k - 1], m) ELSE h[k - 1]]
           g == [k \in 0..MountMax |-> Unmounted(k)]
<1>1. MountMax \in Nat BY VfsAssumption
<1>2. g[0] = Now /\ \A k \in 1..MountMax :
          g[k] = LET m == mounts[MountMax - k]
                 IN  IF m.active THEN UnmountRefs(g[k - 1], m) ELSE g[k - 1]
  <2>1. g[0] = Now BY <1>1, NoneUnmounted
  <2>2. ASSUME NEW k \in 1..MountMax
        PROVE g[k] = LET m == mounts[MountMax - k]
                     IN  IF m.active THEN UnmountRefs(g[k - 1], m) ELSE g[k - 1]
    <3>1. g[k] = Unmounted(k) /\ g[k - 1] = Unmounted(k - 1) BY <1>1
    <3> HIDE DEF g
    <3>2. PICK m : m = mounts[MountMax - k] OBVIOUS
    <3>3. Unmounted(k) = IF m.active THEN UnmountRefs(Unmounted(k - 1), m) ELSE Unmounted(k - 1)
      BY <3>2, OneUnmounted
    <3> QED BY <3>1, <3>2, <3>3
  <2> QED BY <2>1, <2>2
<1>3. g = [k \in 0..MountMax |->
               IF k = 0 THEN Now
               ELSE LET m == mounts[MountMax - k]
                    IN  IF m.active THEN UnmountRefs(g[k - 1], m) ELSE g[k - 1]]
  <2>1. g = [k \in 0..MountMax |-> g[k]] OBVIOUS
  <2> HIDE DEF g
  <2>2. \A k \in 0..MountMax : g[k] =
               IF k = 0 THEN Now
               ELSE LET m == mounts[MountMax - k]
                    IN  IF m.active THEN UnmountRefs(g[k - 1], m) ELSE g[k - 1]
    <3>1. \A k \in 0..MountMax : k = 0 \/ k \in 1..MountMax BY <1>1
    <3> QED BY <1>2, <3>1
  <2> QED BY <2>1, <2>2
<1> HIDE DEF g
<1>4. after = [k \in 0..MountMax |->
               IF k = 0 THEN Now
               ELSE LET m == mounts[MountMax - k]
                    IN  IF m.active THEN UnmountRefs(after[k - 1], m) ELSE after[k - 1]]
  BY <1>3
<1> HIDE DEF after
<1> DEFINE T == {k \in Nat : k <= MountMax => after[k] = g[k]}
<1>5. 0 \in T BY <1>2, <1>4
<1>6. ASSUME NEW k \in Nat, k \in T PROVE k + 1 \in T
  <2> SUFFICES ASSUME k + 1 <= MountMax PROVE after[k + 1] = g[k + 1] OBVIOUS
  <2>0. PICK e \in Nat : e = k + 1 OBVIOUS
  <2>1. after[k] = g[k] /\ e \in 1..MountMax /\ e \in 0..MountMax /\ e - 1 = k /\ e # 0
    BY <1>1, <1>6, <2>0
  <2>2. PICK m : m = mounts[MountMax - e] OBVIOUS
  <2>3. after[e] = IF m.active THEN UnmountRefs(after[k], m) ELSE after[k]
    BY <1>4, <2>1, <2>2
  <2>4. g[e] = IF m.active THEN UnmountRefs(g[k], m) ELSE g[k]
    BY <1>2, <2>1, <2>2
  <2>5. after[e] = g[e] BY <2>1, <2>3, <2>4
  <2> QED BY <2>0, <2>5
<1>7. Nat \subseteq T
  <2> HIDE DEF T
  <2> QED BY <1>5, <1>6, SetInduction
<1>8. after[MountMax] = g[MountMax] BY <1>1, <1>7
<1>9. g[MountMax] = Unmounted(MountMax) BY <1>1, <1>3 DEF g
<1> QED BY <1>8, <1>9 DEF after
\* Nobody has a path.
Unused ==
    /\ held = [h \in Holder |-> NoPath] /\ opened = [r \in Reader |-> NoHandle]
    /\ cwd = [p \in Program |-> NoPath] /\ fds = [p \in Program |-> NoFds]

\* The totals are zero when nobody has one.
LEMMA NobodyLeft ==
    ASSUME PathsOK, HeldCount = 0, LiveCount = 0, OpenCount = 0, FdCount = 0
    PROVE  Unused
<1> DEFINE A == {h \in Holder : held[h] # NoPath}
           B == {p \in Program : Alive(p)}
           C == {r \in Reader : opened[r].open}
           D == {x \in Program \X FdSlot : fds[x[1]][x[2]].open}
<1>1. A \subseteq Holder /\ B \subseteq Program /\ C \subseteq Reader
      /\ D \subseteq Program \X FdSlot OBVIOUS
<1>2. Cardinality(A) = 0 /\ Cardinality(B) = 0 /\ Cardinality(C) = 0 /\ Cardinality(D) = 0
  BY DEF HeldCount, LiveCount, OpenCount, FdCount
<1>3. A = {} /\ B = {} /\ C = {} /\ D = {}
  <2> HIDE DEF A, B, C, D
  <2> QED BY <1>1, <1>2, Finite, SubsetCount
<1>4. \A h \in Holder : held[h] = NoPath BY <1>3
<1>5. \A p \in Program : cwd[p] = NoPath BY <1>3 DEF Alive
<1>6. \A r \in Reader : opened[r] = NoHandle
  <2>1. \A r \in Reader : ~opened[r].open BY <1>3
  <2> QED BY <2>1 DEF PathsOK, Handle
<1>7. \A p \in Program, d \in FdSlot : fds[p][d] = NoHandle
  <2>1. ASSUME NEW p \in Program, NEW d \in FdSlot PROVE ~fds[p][d].open
    <3>1. <<p, d>> \in Program \X FdSlot /\ <<p, d>> \notin D BY <1>3
    <3> QED BY <3>1
  <2> QED BY <2>1 DEF PathsOK, Handle
<1>8. held = [h \in Holder |-> NoPath] BY <1>4 DEF PathsOK
<1>9. cwd = [p \in Program |-> NoPath] BY <1>5 DEF PathsOK
<1>10. opened = [r \in Reader |-> NoHandle] BY <1>6 DEF PathsOK
<1>11. fds = [p \in Program |-> NoFds]
  <2>1. fds = [p \in Program |-> [d \in FdSlot |-> fds[p][d]]] BY DEF PathsOK
  <2>2. \A p \in Program : [d \in FdSlot |-> fds[p][d]] = NoFds BY <1>7 DEF NoFds
  <2> QED BY <2>1, <2>2
<1> QED BY <1>8, <1>9, <1>10, <1>11 DEF Unused

\* And nothing of theirs is at a node.
LEMMA NothingThere ==
    ASSUME Unused
    PROVE  /\ \A n \in Node : PathsAt(n) = 0 /\ ProgramsAt(n) = 0
           /\ HeldCount = 0 /\ LiveCount = 0 /\ OpenCount = 0 /\ FdCount = 0
           /\ PathsOK
<1>1. NoPath.node \notin Node /\ NoHandle.path.node \notin Node /\ NoHandle.open = FALSE
  BY ClosedNowhere DEF NoPath, Node
<1>2. Cardinality({}) = 0 BY FS_EmptySet
<1>3. \A p \in Program, d \in FdSlot : fds[p][d] = NoHandle BY DEF Unused, NoFds
<1>4. ASSUME NEW n \in Node
      PROVE  PathsAt(n) = 0 /\ ProgramsAt(n) = 0
  <2>1. {h \in Holder : held[h].node = n} = {} BY <1>1 DEF Unused
  <2>2. {r \in Reader : opened[r].path.node = n} = {} BY <1>1 DEF Unused
  <2>3. {p \in Program : cwd[p].node = n} = {} BY <1>1 DEF Unused
  <2>4. {x \in Program \X FdSlot : fds[x[1]][x[2]].path.node = n} = {} BY <1>1, <1>3
  <2>5. PathsAt(n) = Cardinality({}) + Cardinality({}) BY <2>1, <2>2 DEF PathsAt
  <2>6. ProgramsAt(n) = Cardinality({}) + Cardinality({}) BY <2>3, <2>4 DEF ProgramsAt
  <2> QED BY <1>2, <2>5, <2>6
<1>5. HeldCount = 0 /\ LiveCount = 0 /\ OpenCount = 0 /\ FdCount = 0
  <2>1. {h \in Holder : held[h] # NoPath} = {} BY DEF Unused
  <2>2. {p \in Program : Alive(p)} = {} BY DEF Unused, Alive
  <2>3. {r \in Reader : opened[r].open} = {} BY <1>1 DEF Unused
  <2>4. {x \in Program \X FdSlot : fds[x[1]][x[2]].open} = {} BY <1>1, <1>3
  <2> QED BY <1>2, <2>1, <2>2, <2>3, <2>4 DEF HeldCount, LiveCount, OpenCount, FdCount
<1>6. PathsOK
  <2>1. /\ held = [h \in Holder |-> held[h]] /\ cwd = [p \in Program |-> cwd[p]]
        /\ opened = [r \in Reader |-> opened[r]]
    BY DEF Unused
  <2>2. fds = [p \in Program |-> [d \in FdSlot |-> fds[p][d]]] BY DEF Unused, NoFds
  <2>3. (\A h \in Holder : held[h] = NoPath) /\ (\A p \in Program : cwd[p] = NoPath)
        /\ (\A r \in Reader : opened[r] = NoHandle)
    BY DEF Unused
  <2> QED BY <1>3, <2>1, <2>2, <2>3, ClosedNowhere DEF PathsOK
<1> QED BY <1>4, <1>5, <1>6

\* Nothing is mounted.
LEMMA NothingMounted ==
    ASSUME mounts = [m \in MountSlot |-> NoMount]
    PROVE  MountsOK /\ \A n \in Node : MountsAt(n) = 0
<1>1. NoMount \in MountRecords /\ NoMount.active = FALSE /\ NoMount.mountpoint = <<>>
  BY Finite DEF NoMount, MountRecords
<1>2. \A m \in MountSlot : mounts[m] = NoMount OBVIOUS
<1>3. MountsOK
  <2>1. mounts \in [MountSlot -> MountRecords] BY <1>1
  <2>2. mounts[0].mountpoint = <<>> BY <1>1, <1>2, Finite
  <2>3. \A m \in MountSlot : ~mounts[m].active BY <1>1, <1>2
  <2> QED BY <2>1, <2>2, <2>3 DEF MountsOK
<1>4. ASSUME NEW n \in Node PROVE MountsAt(n) = 0
  <2>1. {m \in MountSlot : mounts[m].active /\ RootOf(mounts[m].fs) = n} = {}
        /\ {m \in MountSlot : mounts[m].active /\ mounts[m].mountpoint = n} = {}
    BY <1>1, <1>2
  <2>2. Cardinality({}) = 0 BY FS_EmptySet
  <2> QED BY <2>1, <2>2 DEF MountsAt
<1> QED BY <1>3, <1>4

\* The same of the next state.
LEMMA NothingMountedNext ==
    ASSUME mounts' = [m \in MountSlot |-> NoMount]
    PROVE  MountsOK' /\ \A n \in Node : MountsAt(n)' = 0
<1>1. NoMount \in MountRecords /\ NoMount.active = FALSE /\ NoMount.mountpoint = <<>>
  BY Finite DEF NoMount, MountRecords
<1>2. \A m \in MountSlot : mounts'[m] = NoMount OBVIOUS
<1>3. MountsOK'
  <2>1. mounts' \in [MountSlot -> MountRecords] BY <1>1
  <2>2. mounts'[0].mountpoint = <<>> BY <1>1, <1>2, Finite
  <2>3. \A m \in MountSlot : ~mounts'[m].active BY <1>1, <1>2
  <2> QED BY <2>1, <2>2, <2>3 DEF MountsOK
<1>4. ASSUME NEW n \in Node PROVE MountsAt(n)' = 0
  <2>1. {m \in MountSlot : mounts'[m].active /\ RootOf(mounts'[m].fs) = n} = {}
        /\ {m \in MountSlot : mounts'[m].active /\ mounts'[m].mountpoint = n} = {}
    BY <1>1, <1>2
  <2>2. Cardinality({}) = 0 BY FS_EmptySet
  <2> QED BY <2>1, <2>2 DEF MountsAt
<1> QED BY <1>3, <1>4

\* The mounts are given up, when nobody has a path.
LEMMA ShutdownCall ==
    ASSUME FilesInv, vfs_shutdown, UNCHANGED <<cwd, fds>>
    PROVE  FilesInv'
<1> DEFINE c == UnmountedRefs(MountMax)
<1>1. /\ path_reference_count = 0 /\ open_handle_count = 0
      /\ References(Unmounted(MountMax))
      /\ mounts' = [m \in MountSlot |-> NoMount]
      /\ UNCHANGED <<registered, held, opened, open_handle_count>>
  BY AllUnmounted DEF vfs_shutdown
<1>2. nodes' = WithRefs(nodes, c) /\ path_reference_count' = path_reference_count
  BY <1>1 DEF References, Unmounted, Counted
<1>3. Unused
  <2>1. /\ HeldCount = 0 /\ LiveCount = 0 /\ OpenCount = 0 /\ FdCount = 0
    BY <1>1, TotalsNow, TotalsNat DEF Totals
  <2> QED BY <2>1, NobodyLeft DEF FilesInv
<1>4. Unused' BY <1>1, <1>3 DEF Unused
<1>5. PathsOK'
  <2>1. \A p \in Program, d \in FdSlot : fds'[p][d] = NoHandle BY <1>4 DEF Unused, NoFds
  <2>2. (\A h \in Holder : held'[h] = NoPath) /\ (\A p \in Program : cwd'[p] = NoPath)
        /\ (\A r \in Reader : opened'[r] = NoHandle)
    BY <1>4 DEF Unused
  <2>3. \A r \in Reader : Handle(opened[r])'
    <3>1. \A r \in Reader : opened'[r] = NoHandle BY <2>2
    <3>2. NoHandle = [open |-> NoHandle.open, path |-> NoHandle.path, offset |-> NoHandle.offset,
                      access |-> NoHandle.access] /\ NoHandle.open = FALSE
      BY DEF NoHandle
    <3> QED BY <3>1, <3>2 DEF Handle
  <2>4. \A p \in Program, d \in FdSlot : Handle(fds[p][d])'
    <3>1. NoHandle = [open |-> NoHandle.open, path |-> NoHandle.path, offset |-> NoHandle.offset,
                      access |-> NoHandle.access] /\ NoHandle.open = FALSE
      BY DEF NoHandle
    <3> QED BY <2>1, <3>1 DEF Handle
  <2>5. /\ held' = [h \in Holder |-> held'[h]] /\ cwd' = [p \in Program |-> cwd'[p]]
        /\ opened' = [r \in Reader |-> opened'[r]]
        /\ fds' = [p \in Program |-> [d \in FdSlot |-> fds'[p][d]]]
    BY <1>4 DEF Unused, NoFds
  <2> QED BY <2>2, <2>3, <2>4, <2>5 DEF PathsOK
<1>6. HeldCount' = HeldCount /\ OpenCount' = OpenCount /\ LiveCount' = LiveCount
      /\ FdCount' = FdCount
  BY <1>1, SameHeld, SamePrograms
<1>7. Totals' BY <1>1, <1>2, <1>6, TotalsNow DEF Totals
<1>8. MountsOK' /\ \A n \in Node : MountsAt(n)' = 0 BY <1>1, NothingMountedNext
<1>9. c \in Counts BY UnmountedType
<1>10. ASSUME NEW n \in Node
       PROVE  c[n] = TotalAt(n)' /\ (c[n] > Refs[n] => InUse(nodes, n))
  <2>1. c[n] = Refs[n] - Cardinality(RootsFrom(MountMax, n)) - Cardinality(PointsFrom(MountMax, n))
    BY DEF UnmountedRefs
  <2>2. MountsAt(n) = Cardinality(RootsFrom(MountMax, n)) + Cardinality(PointsFrom(MountMax, n))
    <3>1. \A m \in MountSlot : m >= MountMax - MountMax BY VfsAssumption DEF MountSlot
    <3>2. RootsFrom(MountMax, n) = {m \in MountSlot : mounts[m].active /\ RootOf(mounts[m].fs) = n}
      BY <3>1 DEF RootsFrom
    <3>3. PointsFrom(MountMax, n) = {m \in MountSlot : mounts[m].active /\ mounts[m].mountpoint = n}
      BY <3>1 DEF PointsFrom
    <3> QED BY <3>2, <3>3 DEF MountsAt
  <2>3. PathsAt(n) = 0 /\ ProgramsAt(n) = 0 BY <1>3, NothingThere
  <2>4. PathsAt(n)' = PathsAt(n) /\ ProgramsAt(n)' = ProgramsAt(n)
    BY <1>1, SameHeld, SamePrograms
  <2>5. TotalAt(n)' = 0 BY <1>8, <2>3, <2>4 DEF TotalAt
  <2>6. Refs[n] = TotalAt(n) /\ Refs[n] \in Int BY RefsTotal
  <2>7. TotalAt(n) = MountsAt(n)
    <3>1. MountsAt(n) \in Nat BY CountsNat
    <3> QED BY <2>3, <3>1 DEF TotalAt
  <2>8. Refs[n] \in Nat BY NotInUse
  <2>9. Cardinality(RootsFrom(MountMax, n)) \in Nat /\ Cardinality(PointsFrom(MountMax, n)) \in Nat
    BY SlotsFinite
  <2> HIDE DEF c
  <2>10. c[n] = 0 BY <2>1, <2>2, <2>6, <2>7, <2>9
  <2> QED BY <2>5, <2>8, <2>10
<1> HIDE DEF c
<1> QED BY <1>1, <1>2, <1>5, <1>7, <1>8, <1>9, <1>10, ClosesWith
----------------------------------------------------------------------------
(* The theorem                                                             *)

\* A state whose counts are right.
LEMMA CountsRight ==
    ASSUME NEW c \in [Node -> Nat], nodes = WithRefs(nodes, c), Trees(nodes, registered),
           MountsOK, PathsOK, Totals,
           \A n \in Node : c[n] = TotalAt(n) /\ (c[n] > 0 => InUse(nodes, n))
    PROVE  FilesInv
<1>1. Slots(nodes)
  <2>1. c \in Counts BY DEF Counts
  <2>2. \A n \in Node : nodes[n].refs = c[n] BY SameSlots
  <2>3. RefsIn(nodes) = c BY <2>1, <2>2 DEF RefsIn, Counts
  <2> QED BY <2>1, <2>3 DEF Slots
<1>2. ASSUME NEW n \in Node
      PROVE  nodes[n].refs = PathsAt(n) + MountsAt(n) + ProgramsAt(n)
                /\ (nodes[n].refs > 0 => InUse(nodes, n))
  <2>1. nodes[n].refs = c[n] BY SameSlots
  <2> QED BY <2>1 DEF TotalAt
<1>3. RefsTrue BY <1>2 DEF RefsTrue, Totals, HeldCount, LiveCount, OpenCount, FdCount
<1> QED BY <1>1, <1>3 DEF FilesInv

\* Before anything exists.
LEMMA EmptyStart ==
    ASSUME VfsInit, NoPrograms
    PROVE  FilesInv
<1> DEFINE c == [n \in Node |-> 0]
<1>1. Unused BY DEF VfsInit, NoPrograms, Unused
<1>2. PathsOK /\ \A n \in Node : PathsAt(n) = 0 /\ ProgramsAt(n) = 0 BY <1>1, NothingThere
<1>3. MountsOK /\ \A n \in Node : MountsAt(n) = 0 BY NothingMounted DEF VfsInit
<1>4. Totals
  <2>1. HeldCount = 0 /\ LiveCount = 0 /\ OpenCount = 0 /\ FdCount = 0 BY <1>1, NothingThere
  <2> QED BY <2>1 DEF Totals, VfsInit
<1>5. nodes = [n \in Node |-> NoFile] /\ registered = {} BY DEF VfsInit, RamFsInit
<1>6. nodes = WithRefs(nodes, c) BY <1>5 DEF WithRefs, NoFile, NewNode
<1>7. Trees(nodes, registered) BY <1>5 DEF Trees, InUse, NoFile, NewNode
<1>8. \A n \in Node : c[n] = TotalAt(n) /\ ~(c[n] > 0) BY <1>2, <1>3 DEF TotalAt
<1>9. c \in [Node -> Nat] OBVIOUS
<1> HIDE DEF c
<1> QED BY <1>2, <1>3, <1>4, <1>6, <1>7, <1>8, <1>9, CountsRight

\* A node that is referred to twice.
LEMMA NodeTwice ==
    ASSUME NEW t, NEW p, NEW n, NEW x, x = NewNode(t, p, n)
    PROVE  [x EXCEPT !.refs = 2] = [type |-> t, parent |-> p, name |-> n, refs |-> 2, size |-> 0,
                                    data |-> <<>>]
<1>1. x = [type |-> t, parent |-> p, name |-> n, refs |-> 0, size |-> 0, data |-> <<>>]
  BY DEF NewNode
<1> QED BY <1>1

\* The first program in the root.
LEMMA BootStart ==
    ASSUME FileCallsInit
    PROVE  FilesInv
<1>1. PICK f \in Instance :
        /\ registered = {f}
        /\ mounts = [m \in MountSlot |-> IF m = 0 THEN RootMount(f) ELSE NoMount]
        /\ nodes = [n \in Node |-> IF n = RootOf(f)
                                   THEN [NewNode("directory", n, "") EXCEPT !.refs = 2] ELSE NoFile]
        /\ path_reference_count = 1 /\ open_handle_count = 0
        /\ held = [h \in Holder |-> NoPath] /\ opened = [r \in Reader |-> NoHandle]
        /\ cwd = [p \in Program |-> IF p = 1 THEN RootPath ELSE NoPath]
        /\ fds = [p \in Program |-> NoFds]
  BY DEF FileCallsInit
<1> DEFINE r == RootOf(f)
           c == [n \in Node |-> IF n = r THEN 2 ELSE 0]
           new == RootMount(f)
<1>2. r \in Node /\ r[1] = f BY RamFsAssumption DEF RootOf, Node, SlotOf
<1>29. PICK blank : blank = "" OBVIOUS
<1>3. nodes[r] = [type |-> "directory", parent |-> r, name |-> blank, refs |-> 2, size |-> 0,
                  data |-> <<>>]
  <2>1. nodes[r] = [NewNode("directory", r, "") EXCEPT !.refs = 2] BY <1>1, <1>2
  <2>2. PICK t, x : t = "directory" /\ x = NewNode(t, r, blank) OBVIOUS
  <2> HIDE DEF r
  <2>3. x = NewNode(t, r, blank) BY <2>2
  <2>4. [x EXCEPT !.refs = 2] = [type |-> t, parent |-> r, name |-> blank, refs |-> 2, size |-> 0,
                                 data |-> <<>>]
    BY <2>3, NodeTwice
  <2>5. nodes[r] = [x EXCEPT !.refs = 2] BY <1>29, <2>1, <2>2
  <2> QED BY <2>2, <2>4, <2>5
<1>30. ASSUME NEW n \in Node, n # r
       PROVE  nodes[n] = [type |-> "none", parent |-> <<>>, name |-> blank, refs |-> 0, size |-> 0,
                          data |-> <<>>]
  <2>1. nodes[n] = NoFile BY <1>1, <1>30
  <2> QED BY <1>29, <2>1 DEF NoFile, NewNode
<1>31. nodes[r].type = "directory" /\ nodes[r].parent = r /\ nodes[r].name = blank
       /\ nodes[r].size = 0 /\ nodes[r].data = <<>>
  BY <1>3
<1>32. ASSUME NEW n \in Node, n # r PROVE nodes[n].type = "none"
  BY <1>30, <1>32
<1>33. path_reference_count = 1 /\ open_handle_count = 0 BY <1>1
<1>4. /\ new.active = TRUE /\ new.fs = f /\ new.mountpoint = <<>> /\ new \in MountRecords
      /\ NoMount \in MountRecords /\ NoMount.active = FALSE
  BY Finite DEF RootMount, NoMount, MountRecords
<1>5. mounts[0] = new /\ \A m \in MountSlot : m # 0 => mounts[m] = NoMount BY <1>1, Finite
<1>6. RootPath = [mount |-> 0, node |-> r] BY <1>4, <1>5 DEF RootPath
<1>7. Valid(RootPath) BY <1>2, <1>4, <1>5, <1>6, Finite DEF Valid, Paths
<1>8. RootPath # NoPath /\ RootPath.node = r /\ NoPath.node \notin Node
  BY <1>2, <1>6 DEF NoPath, Node
<1>9. 1 \in Program /\ cwd[1] = RootPath /\ \A p \in Program : p # 1 => cwd[p] = NoPath
  BY <1>1, FileCallsAssumption
<1>10. /\ \A h \in Holder : held[h] = NoPath
       /\ \A e \in Reader : opened[e] = NoHandle
       /\ \A p \in Program, d \in FdSlot : fds[p][d] = NoHandle
  BY <1>1 DEF NoFds
<1> HIDE DEF r, new
<1>11. MountsOK
  <2>1. mounts \in [MountSlot -> MountRecords]
    <3>1. mounts = [m \in MountSlot |-> IF m = 0 THEN new ELSE NoMount] BY <1>1 DEF new
    <3> QED BY <1>4, <3>1
  <2>2. \A m \in MountSlot : mounts[m].active => m = 0 BY <1>4, <1>5
  <2> QED BY <1>1, <1>4, <1>5, <2>1, <2>2 DEF MountsOK
<1>12. PathsOK
  <2>1. /\ held = [h \in Holder |-> held[h]] /\ cwd = [p \in Program |-> cwd[p]]
        /\ opened = [e \in Reader |-> opened[e]]
    BY <1>1
  <2>2. fds = [p \in Program |-> [d \in FdSlot |-> fds[p][d]]] BY <1>1 DEF NoFds
  <2>3. \A p \in Program : cwd[p] = NoPath \/ Valid(cwd[p]) BY <1>7, <1>9
  <2> QED BY <1>10, <2>1, <2>2, <2>3, ClosedNowhere DEF PathsOK
<1>13. Cardinality({}) = 0 /\ Cardinality({0}) = 1 /\ Cardinality({1}) = 1
  BY FS_EmptySet, FS_Singleton
<1>14. Totals
  <2>1. {h \in Holder : held[h] # NoPath} = {} BY <1>10
  <2>2. {p \in Program : Alive(p)} = {1} BY <1>8, <1>9 DEF Alive
  <2>3. {e \in Reader : opened[e].open} = {} BY <1>10, ClosedNowhere
  <2>4. {x \in Program \X FdSlot : fds[x[1]][x[2]].open} = {} BY <1>10, ClosedNowhere
  <2>5. HeldCount = 0 /\ LiveCount = 1 BY <1>13, <2>1, <2>2 DEF HeldCount, LiveCount
  <2>6. OpenCount = 0 /\ FdCount = 0 BY <1>13, <2>3, <2>4 DEF OpenCount, FdCount
  <2> QED BY <1>33, <2>5, <2>6 DEF Totals
<1>15. ASSUME NEW n \in Node
       PROVE  c[n] = TotalAt(n) /\ (c[n] > 0 => InUse(nodes, n))
  <2>1. PathsAt(n) = 0
    <3>1. {h \in Holder : held[h].node = n} = {} BY <1>8, <1>10
    <3>2. {e \in Reader : opened[e].path.node = n} = {} BY <1>10, ClosedNowhere
    <3>3. PathsAt(n) = Cardinality({}) + Cardinality({}) BY <3>1, <3>2 DEF PathsAt
    <3> QED BY <1>13, <3>3
  <2>2. {x \in Program \X FdSlot : fds[x[1]][x[2]].path.node = n} = {} BY <1>10, ClosedNowhere
  <2>3. {m \in MountSlot : mounts[m].active /\ mounts[m].mountpoint = n} = {}
    <3>1. n # <<>> BY DEF Node
    <3> QED BY <1>4, <1>5, <3>1
  <2>4. CASE n = r
    <3>1. {m \in MountSlot : mounts[m].active /\ RootOf(mounts[m].fs) = n} = {0}
      <4>1. RootOf(mounts[0].fs) = n BY <1>4, <1>5, <2>4 DEF r
      <4> QED BY <1>4, <1>5, <4>1, Finite
    <3>2. {p \in Program : cwd[p].node = n} = {1} BY <1>8, <1>9, <2>4
    <3>3. MountsAt(n) = Cardinality({0}) + Cardinality({}) BY <2>3, <3>1 DEF MountsAt
    <3>4. ProgramsAt(n) = Cardinality({1}) + Cardinality({}) BY <2>2, <3>2 DEF ProgramsAt
    <3>5. c[n] = 2 BY <2>4
    <3>6. InUse(nodes, n) BY <1>31, <2>4 DEF InUse
    <3> QED BY <1>13, <2>1, <3>3, <3>4, <3>5, <3>6 DEF TotalAt
  <2>5. CASE n # r
    <3>1. {m \in MountSlot : mounts[m].active /\ RootOf(mounts[m].fs) = n} = {}
      <4>1. RootOf(mounts[0].fs) # n BY <1>4, <1>5, <2>5 DEF r
      <4> QED BY <1>4, <1>5, <4>1
    <3>2. {p \in Program : cwd[p].node = n} = {} BY <1>8, <1>9, <2>5
    <3>3. MountsAt(n) = Cardinality({}) + Cardinality({}) BY <2>3, <3>1 DEF MountsAt
    <3>4. ProgramsAt(n) = Cardinality({}) + Cardinality({}) BY <2>2, <3>2 DEF ProgramsAt
    <3>5. c[n] = 0 BY <2>5
    <3> QED BY <1>13, <2>1, <3>3, <3>4, <3>5 DEF TotalAt
  <2> QED BY <2>4, <2>5
<1>16. c \in [Node -> Nat] /\ \A n \in Node : c[n] = IF n = r THEN 2 ELSE 0 OBVIOUS
<1>17. nodes = WithRefs(nodes, c)
  <2>1. nodes = [n \in Node |-> nodes[n]] BY <1>1
  <2>2. \A n \in Node : nodes[n] = WithRefs(nodes, c)[n]
    <3>1. ASSUME NEW n \in Node, n = r PROVE nodes[n] = WithRefs(nodes, c)[n]
      BY <1>3, <3>1 DEF WithRefs
    <3>2. ASSUME NEW n \in Node, n # r PROVE nodes[n] = WithRefs(nodes, c)[n]
      BY <1>30, <3>2 DEF WithRefs
    <3> QED BY <3>1, <3>2
  <2>3. WithRefs(nodes, c) = [n \in Node |-> WithRefs(nodes, c)[n]] BY DEF WithRefs
  <2> HIDE DEF c
  <2> QED BY <2>1, <2>2, <2>3
<1>18. Trees(nodes, registered)
  <2>1. registered = {f} BY <1>1
  <2>2. nodes[r].type = "directory" /\ nodes[r].parent = r BY <1>31
  <2>3. \A n \in Node : InUse(nodes, n) => n = r BY <1>32 DEF InUse
  <2>4. RootOf(f) = r BY DEF r
  <2> QED BY <1>2, <2>1, <2>2, <2>3, <2>4 DEF Trees
<1> HIDE DEF c
<1> QED BY <1>11, <1>12, <1>14, <1>15, <1>16, <1>17, <1>18, CountsRight

\* A step that changes nothing.
LEMMA FilesStutter ==
    ASSUME FilesInv, UNCHANGED fileVars
    PROVE  FilesInv'
<1>1. UNCHANGED <<nodes, registered, mounts, path_reference_count, open_handle_count, held,
                  opened, cwd, fds>>
  BY DEF fileVars, vfsVars, ramfsVars
<1>2. MountsOK' /\ PathsOK' /\ Totals' /\ \A n \in Node : TotalAt(n)' = TotalAt(n)
  <2>1. \A m \in MountSlot : mounts[m].active => mounts[m].fs \in registered'
    BY <1>1 DEF FilesInv, MountsOK
  <2> QED BY <1>1, <2>1, TablesStay
<1>3. Sound(nodes', Refs) BY <1>1, SoundNow
<1> QED BY <1>1, <1>2, <1>3, SlotsClose

\* A call of a program.
LEMMA ProgramStep ==
    ASSUME FilesInv, FileCallsNext
    PROVE  FilesInv'
<1>1. PICK p \in Program :
        /\ Alive(p)
        /\ \/ \E name \in FileName : syscall_fs_mkdir(p, name) \/ syscall_fs_rmdir(p, name)
           \/ \E t \in UserText :
                  \/ syscall_fs_touch(p, t) \/ syscall_fs_unlink(p, t) \/ syscall_fs_chdir(p, t)
                  \/ syscall_fs_read(p, t) \/ syscall_fd_open(p, t)
                  \/ \E b \in Byte, heap \in BOOLEAN : syscall_fs_write(p, t, <<b>>, heap)
                  \/ \E q \in Program \ {p}, loads \in BOOLEAN : spawn(p, q, t, loads)
           \/ \E d \in FdSlot :
                  \/ syscall_fd_read(p, d, 1) \/ syscall_fd_close(p, d)
                  \/ \E b \in Byte, heap \in BOOLEAN : syscall_fd_write(p, d, <<b>>, heap)
           \/ p # 1 /\ process_clear(p)
  BY DEF FileCallsNext
<1>2. CASE \E name \in FileName : syscall_fs_mkdir(p, name) \/ syscall_fs_rmdir(p, name)
  BY <1>1, <1>2, DirectoryCalls
<1>3. ASSUME NEW t \in UserText, syscall_fs_touch(p, t) \/ syscall_fs_unlink(p, t)
      PROVE  FilesInv'
  BY <1>1, <1>3, FileNameCalls
<1>4. ASSUME NEW t \in UserText, syscall_fs_chdir(p, t) PROVE FilesInv'
  BY <1>1, <1>4, ChdirCall
<1>5. ASSUME NEW t \in UserText, syscall_fs_read(p, t) PROVE FilesInv' BY <1>1, <1>5, ReadCall
<1>6. ASSUME NEW t \in UserText, syscall_fd_open(p, t) PROVE FilesInv' BY <1>1, <1>6, FdOpenCall
<1>7. ASSUME NEW t \in UserText, NEW b \in Byte, NEW heap \in BOOLEAN,
             syscall_fs_write(p, t, <<b>>, heap)
      PROVE  FilesInv'
  <2>1. PICK bytes : bytes = <<b>> OBVIOUS
  <2>2. syscall_fs_write(p, t, bytes, heap) BY <1>7, <2>1
  <2> QED BY <1>1, <2>2, WriteCall
<1>8. ASSUME NEW t \in UserText, NEW q \in Program \ {p}, NEW loads \in BOOLEAN,
             spawn(p, q, t, loads)
      PROVE  FilesInv'
  <2>1. q \in Program OBVIOUS
  <2> QED BY <1>1, <1>8, <2>1, SpawnCall
<1>9. ASSUME NEW d \in FdSlot, syscall_fd_read(p, d, 1) PROVE FilesInv'
  <2>1. PICK length : length = 1 OBVIOUS
  <2>2. PICK bytes, heap : syscall_fd_read(p, d, length) \/ syscall_fd_write(p, d, bytes, heap)
    BY <1>9, <2>1
  <2> QED BY <2>2, FdDataCalls
<1>10. ASSUME NEW d \in FdSlot, NEW b \in Byte, NEW heap \in BOOLEAN,
              syscall_fd_write(p, d, <<b>>, heap)
       PROVE  FilesInv'
  <2>1. PICK bytes : bytes = <<b>> OBVIOUS
  <2>2. syscall_fd_write(p, d, bytes, heap) BY <1>10, <2>1
  <2>3. PICK length : syscall_fd_read(p, d, length) \/ syscall_fd_write(p, d, bytes, heap)
    BY <2>2
  <2> QED BY <2>3, FdDataCalls
<1>11. ASSUME NEW d \in FdSlot, syscall_fd_close(p, d) PROVE FilesInv' BY <1>11, FdCloseCall
<1>12. CASE process_clear(p) BY <1>1, <1>12, ClearCall
<1> QED BY <1>1, <1>2, <1>3, <1>4, <1>5, <1>6, <1>7, <1>8, <1>9, <1>10, <1>11, <1>12

\* A call inside the kernel.
LEMMA KernelStep ==
    ASSUME FilesInv, VfsNext, UNCHANGED <<cwd, fds>>
    PROVE  FilesInv'
<1>1. ASSUME NEW f \in Instance, ramfs_create_filesystem(f) \/ ramfs_destroy_filesystem(f),
             UNCHANGED <<mounts, path_reference_count, open_handle_count, held, opened>>
      PROVE  FilesInv'
  BY <1>1, CreateInstance, DestroyInstance
<1>2. ASSUME NEW f \in Instance, vfs_init(f) PROVE FilesInv' BY <1>2, InitCall
<1>3. ASSUME NEW f \in Instance, NEW h \in Holder, vfs_mount_filesystem(f, held[h]) PROVE FilesInv'
  BY <1>3, MountCall
<1>4. CASE vfs_shutdown BY <1>4, ShutdownCall
<1>5. ASSUME NEW h \in Holder, NEW start, NEW text \in PathText, resolve(h, start, text)
      PROVE  FilesInv'
  BY <1>5, ResolveCall
<1>6. ASSUME NEW h \in Holder, vfs_path_release_held(h) PROVE FilesInv' BY <1>6, ReleaseCall
<1>7. ASSUME NEW h \in Holder, NEW g \in Holder, NEW name, NEW type \in {"file", "directory"},
             vfs_create_common(h, g, name, type)
      PROVE  FilesInv'
  BY <1>7, CreateCall
<1>8. ASSUME NEW h \in Holder, NEW name, NEW type, vfs_remove_common(h, name, type)
      PROVE  FilesInv'
  BY <1>8, ChangeCalls
<1>9. ASSUME NEW h \in Holder, NEW g \in Holder, NEW name, NEW newname,
             vfs_rename_at(h, name, g, newname)
      PROVE  FilesInv'
  BY <1>9, ChangeCalls
<1>10. ASSUME NEW h \in Holder, NEW size, NEW heap, vfs_truncate_path(h, size, heap)
       PROVE  FilesInv'
  BY <1>10, ChangeCalls
<1>11. ASSUME NEW r \in Reader, NEW h \in Holder, NEW access, vfs_handle_open(r, h, access)
       PROVE  FilesInv'
  BY <1>11, OpenCall
<1>12. ASSUME NEW r \in Reader, NEW length, vfs_handle_read(r, length) PROVE FilesInv'
  BY <1>12, DataCalls
<1>13. ASSUME NEW r \in Reader, NEW bytes, NEW heap, vfs_handle_write(r, bytes, heap)
       PROVE  FilesInv'
  BY <1>13, DataCalls
<1>14. ASSUME NEW r \in Reader, vfs_handle_close(r) PROVE FilesInv' BY <1>14, CloseCall
<1> QED BY <1>1, <1>2, <1>3, <1>4, <1>5, <1>6, <1>7, <1>8, <1>9, <1>10, <1>11, <1>12, <1>13, <1>14
    DEF VfsNext

\* The references of the file layer are exact, whatever its users inside the
\* kernel and the programs do, on the ways that succeed and on those that fail:
\* for every number of instances, nodes, mounts, users, programs and descriptors.
THEOREM RefsTrueAlways == FilesSpec => []RefsTrue
<1>1. FilesInit => FilesInv BY EmptyStart, BootStart DEF FilesInit
<1>2. FilesInv /\ [FilesNext]_fileVars => FilesInv'
  <2> SUFFICES ASSUME FilesInv, [FilesNext]_fileVars PROVE FilesInv' OBVIOUS
  <2>1. CASE FileCallsNext BY <2>1, ProgramStep
  <2>2. CASE VfsNext /\ UNCHANGED <<cwd, cwd_text, fds>> BY <2>2, KernelStep
  <2>3. CASE UNCHANGED fileVars BY <2>3, FilesStutter
  <2> QED BY <2>1, <2>2, <2>3 DEF FilesNext
<1>3. FilesInv => RefsTrue BY DEF FilesInv
<1> QED BY <1>1, <1>2, <1>3, PTL DEF FilesSpec
=============================================================================
