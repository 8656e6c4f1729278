---------------------------- MODULE TableProofs ----------------------------
(***************************************************************************)
(* A ring of any capacity is a bounded FIFO queue; a stale handle is       *)
(* refused for every table size, slot width and number of generations; a   *)
(* frame is handed out once, from usable memory, whatever the memory map;  *)
(* the heap never gives itself up, whatever is asked of it; a NET_PING     *)
(* works with the answers to its own questions, whatever the size of the   *)
(* receive ring and of the ARP cache.                                      *)
(***************************************************************************)
EXTENDS
    Ring, Handles, Pmm, Heap, Net, Induction, FiniteSetTheorems, SequenceTheorems, TLAPS

----------------------------------------------------------------------------
(* Rings                                                                   *)

\* An index below the capacity is its own remainder.
LEMMA ModSmall ==
    ASSUME NEW c \in Nat \ {0}, NEW x \in 0..(c - 1)
    PROVE  x % c = x
BY Z3

\* An index that ran past the end once wraps to the front.
LEMMA ModWrap ==
    ASSUME NEW c \in Nat \ {0}, NEW x \in c..(2 * c - 1)
    PROVE  x % c = x - c
BY Z3

\* The place i entries after index r, without a remainder.
After(r, i) == IF r + i < Capacity THEN r + i ELSE r + i - Capacity
Place(i) == After(read_index, i)

\* Every index computation of the rings stays in the array.
LEMMA AfterIsMod ==
    ASSUME NEW r \in Index, NEW i \in 0..Capacity
    PROVE  (r + i) % Capacity = After(r, i) /\ After(r, i) \in Index
<1>1. Capacity \in Nat \ {0} BY RingAssumption
<1>2. r \in 0..(Capacity - 1) BY DEF Index
<1>3. CASE r + i < Capacity
  <2>1. r + i \in 0..(Capacity - 1) BY <1>1, <1>2, <1>3
  <2> QED BY <1>1, <1>3, <2>1, ModSmall DEF After, Index
<1>4. CASE r + i >= Capacity
  <2>1. r + i \in Capacity..(2 * Capacity - 1) BY <1>1, <1>2, <1>4
  <2> QED BY <1>1, <1>2, <1>4, <2>1, ModWrap DEF After, Index
<1> QED BY <1>1, <1>2, <1>3, <1>4

\* The same for the entries of the ring.
LEMMA PlaceIsMod ==
    ASSUME RingTypeOK
    PROVE  \A i \in 0..Capacity : /\ (read_index + i) % Capacity = Place(i)
                                  /\ Place(i) \in Index
BY AfterIsMod DEF RingTypeOK, Place

\* The next value goes right behind the last entry.
LEMMA WriteAtPlace ==
    ASSUME RingTypeOK, TailAgrees
    PROVE  WriteAt = Place(count)
BY PlaceIsMod, RingAssumption DEF RingTypeOK, TailAgrees, WriteAt

RingInv == RingTypeOK /\ TailAgrees

\* The successor of an index, without a remainder.
LEMMA Successor ==
    ASSUME NEW i \in Index
    PROVE  /\ (i + 1) % Capacity = IF i + 1 < Capacity THEN i + 1 ELSE 0
           /\ (i + 1) % Capacity \in Index
<1>1. Capacity \in Nat \ {0} BY RingAssumption
<1>2. CASE i + 1 < Capacity
  <2>1. i + 1 \in 0..(Capacity - 1) BY <1>1, <1>2 DEF Index
  <2> QED BY <1>1, <1>2, <2>1, ModSmall DEF Index
<1>3. CASE i + 1 >= Capacity
  <2>1. i + 1 = Capacity BY <1>1, <1>3 DEF Index
  <2>2. i + 1 \in Capacity..(2 * Capacity - 1) BY <1>1, <2>1 DEF Index
  <2> QED BY <1>1, <1>3, <2>1, <2>2, ModWrap DEF Index
<1> QED BY <1>1, <1>2, <1>3 DEF Index

\* Types and the agreement of the stored with the computed index, for every
\* capacity: no index of pty.c, ipc.c or input.c leaves its array.
THEOREM RingInvariant == RingSpec => []RingInv
<1>1. RingInit => RingInv
  <2> SUFFICES ASSUME RingInit PROVE RingInv OBVIOUS
  <2>1. Capacity \in Nat \ {0} BY RingAssumption
  <2>2. 0 % Capacity = 0 BY <2>1, ModSmall
  <2> QED BY <2>1, <2>2 DEF RingInit, RingInv, RingTypeOK, TailAgrees, Index
<1>2. RingInv /\ [RingNext]_ringVars => RingInv'
  <2> SUFFICES ASSUME RingInv, [RingNext]_ringVars PROVE RingInv' OBVIOUS
  <2>0. /\ Capacity \in Nat \ {0}
        /\ StoredTail \in BOOLEAN
    BY RingAssumption
  <2>1. ASSUME NEW v \in Value, push(v) PROVE RingInv'
    <3>1. WriteAt \in Index /\ WriteAt = Place(count)
      BY PlaceIsMod, WriteAtPlace DEF RingInv, RingTypeOK
    <3>2. count' \in 0..Capacity BY <2>0, <2>1 DEF push, RingInv, RingTypeOK
    <3>3. RingTypeOK'
      <4>1. slots' \in [Index -> Value \cup {NoValue}]
        BY <2>1, <3>1 DEF push, RingInv, RingTypeOK
      <4>2. write_index' \in Index
        BY <2>1, Successor DEF push, RingInv, RingTypeOK
      <4> QED BY <2>1, <3>2, <4>1, <4>2 DEF push, RingInv, RingTypeOK
    <3>4. (read_index + count') % Capacity = Place(count + 1)
      BY <2>0, <2>1, <3>2, PlaceIsMod DEF push, RingInv, RingTypeOK
    <3>5. StoredTail => write_index = Place(count)
      BY <3>1 DEF WriteAt
    <3>6. StoredTail => write_index' = Place(count + 1)
      <4>1. SUFFICES ASSUME StoredTail PROVE write_index' = Place(count + 1)
        OBVIOUS
      <4>2. write_index \in Index /\ write_index = Place(count)
        BY <3>5, <4>1 DEF RingInv, RingTypeOK
      <4>3. write_index' = IF write_index + 1 < Capacity THEN write_index + 1 ELSE 0
        BY <2>1, <4>1, <4>2, Successor DEF push
      <4>4. read_index \in 0..(Capacity - 1) /\ count \in 0..(Capacity - 1)
        BY <2>0, <2>1 DEF RingInv, RingTypeOK, Index, push
      <4> QED BY <2>0, <4>2, <4>3, <4>4 DEF Place, After
    <3> QED BY <2>1, <3>3, <3>4, <3>6 DEF RingInv, TailAgrees, push
  <2>2. CASE pop
    <3>0. count \in 1..Capacity /\ read_index \in Index
      BY <2>0, <2>2 DEF pop, RingInv, RingTypeOK
    <3>1. /\ read_index' \in Index
          /\ read_index' = IF read_index + 1 < Capacity THEN read_index + 1 ELSE 0
      BY <2>2, <3>0, Successor DEF pop
    <3>2. slots' \in [Index -> Value \cup {NoValue}]
      BY <2>2, <3>0 DEF pop, RingInv, RingTypeOK
    <3>3. RingTypeOK'
      BY <2>0, <2>2, <3>0, <3>1, <3>2 DEF pop, RingInv, RingTypeOK
    <3>4. (read_index' + count') % Capacity = Place(count)
      <4>1. count' \in 0..Capacity BY <3>3 DEF RingTypeOK
      <4>2. RingTypeOK => (read_index + count) % Capacity = Place(count)
        BY <2>0, <3>0, PlaceIsMod
      <4>3. CASE read_index + 1 < Capacity
        <5>1. read_index' + count' = read_index + count
          BY <2>0, <2>2, <3>0, <3>1, <4>3 DEF pop, Index
        <5> QED BY <4>2, <5>1 DEF RingInv
      <4>4. CASE read_index + 1 >= Capacity
        <5>1. read_index = Capacity - 1 /\ read_index' = 0
          BY <2>0, <3>0, <3>1, <4>4 DEF Index
        <5>2. count' = count - 1 BY <2>2 DEF pop
        <5>3. read_index' + count' = count - 1 /\ count - 1 \in 0..(Capacity - 1)
          BY <2>0, <3>0, <5>1, <5>2
        <5>4. (count - 1) % Capacity = count - 1 BY <2>0, <5>3, ModSmall
        <5>5. Place(count) = count - 1
          BY <2>0, <3>0, <5>1 DEF Place, After
        <5> QED BY <5>3, <5>4, <5>5
      <4> QED BY <2>0, <3>0, <4>3, <4>4 DEF Index
    <3>5. StoredTail => write_index' = Place(count)
      BY <2>2, WriteAtPlace DEF pop, RingInv, WriteAt
    <3> QED BY <3>3, <3>4, <3>5 DEF RingInv, TailAgrees
  <2>3. CASE ring_clear
    <3>1. 0 % Capacity = 0 BY <2>0, ModSmall
    <3>2. slots' \in [Index -> Value \cup {NoValue}]
      BY <2>3 DEF ring_clear, RingInv, RingTypeOK
    <3> QED BY <2>0, <2>3, <3>1, <3>2 DEF ring_clear, RingInv, RingTypeOK, TailAgrees, Index
  <2>4. CASE UNCHANGED ringVars
    BY <2>4 DEF ringVars, RingInv, RingTypeOK, TailAgrees
  <2> QED BY <2>1, <2>2, <2>3, <2>4 DEF RingNext
<1> QED BY <1>1, <1>2, PTL DEF RingSpec

\* The write index that pty.c stores is the one ipc.c and input.c compute,
\* through every wrap of a ring of any capacity.
THEOREM TailAgreesAlways == RingSpec => []TailAgrees
<1>1. RingInv => TailAgrees BY DEF RingInv
<1> QED BY <1>1, RingInvariant, PTL

\* The entries are what the abstract queue holds, without remainders.
LEMMA QueueIs ==
    ASSUME RingTypeOK
    PROVE  /\ Queue = [i \in 1..count |-> slots[Place(i - 1)]]
           /\ Len(Queue) = count
           /\ Queue \in Seq(Value \cup {NoValue})
<1>1. \A i \in 1..count : /\ (read_index + i - 1) % Capacity = Place(i - 1)
                          /\ Place(i - 1) \in Index
  <2> SUFFICES ASSUME NEW i \in 1..count
               PROVE  /\ (read_index + i - 1) % Capacity = Place(i - 1)
                      /\ Place(i - 1) \in Index
    OBVIOUS
  <2>1. /\ i - 1 \in 0..Capacity
        /\ read_index + i - 1 = read_index + (i - 1)
    BY RingAssumption DEF RingTypeOK, Index
  <2> QED BY <2>1, PlaceIsMod
<1>2. count \in Nat BY RingAssumption DEF RingTypeOK
<1>3. Queue \in [1..count -> Value \cup {NoValue}]
  BY <1>1 DEF Queue, RingTypeOK
<1> QED BY <1>1, <1>2, <1>3 DEF Queue

\* The rings of pty.c, ipc.c and input.c implement a bounded FIFO queue: for
\* every capacity, nothing is lost, duplicated, reordered or overwritten.
THEOREM RingIsFifo == RingSpec => Fifo
<1>1. RingInit => F!Init
  <2> SUFFICES ASSUME RingInit PROVE F!Init OBVIOUS
  <2>1. Queue = <<>>
    BY DEF RingInit, Queue
  <2> QED BY <2>1 DEF RingInit, F!Init
<1>2. RingInv /\ RingInv' /\ [RingNext]_ringVars => [F!Next]_<<Queue, last>>
  <2> SUFFICES ASSUME RingInv, RingInv', [RingNext]_ringVars
               PROVE  [F!Next]_<<Queue, last>>
    OBVIOUS
  <2>0. /\ Capacity \in Nat \ {0}
        /\ read_index \in 0..(Capacity - 1)
        /\ count \in 0..Capacity
    BY RingAssumption DEF RingInv, RingTypeOK, Index
  <2> DEFINE place(r, i) == IF r + i < Capacity THEN r + i ELSE r + i - Capacity
  <2>a. /\ Queue = [i \in 1..count |-> slots[place(read_index, i - 1)]]
        /\ Len(Queue) = count
        /\ Queue \in Seq(Value \cup {NoValue})
    BY QueueIs DEF RingInv, Place, After
  <2>b. Queue' = [i \in 1..count' |-> slots'[place(read_index', i - 1)]]
    <3>1. \A i \in 0..Capacity : (read_index' + i) % Capacity = place(read_index', i)
      BY AfterIsMod DEF RingInv, RingTypeOK, After
    <3>2. count' \in 0..Capacity /\ read_index' \in 0..(Capacity - 1)
      BY DEF RingInv, RingTypeOK, Index
    <3>3. \A i \in 1..count' :
            (read_index' + i - 1) % Capacity = place(read_index', i - 1)
      <4> SUFFICES ASSUME NEW i \in 1..count'
                   PROVE  (read_index' + i - 1) % Capacity = place(read_index', i - 1)
        OBVIOUS
      <4>1. i - 1 \in 0..Capacity /\ read_index' + i - 1 = read_index' + (i - 1)
        BY <2>0, <3>2
      <4> HIDE DEF place
      <4> QED BY <3>1, <4>1
    <3> HIDE DEF place
    <3> QED BY <3>3 DEF Queue
  <2>1. ASSUME NEW v \in Value, push(v) PROVE F!Next
    <3>1. WriteAt = place(read_index, count) /\ count < Capacity
      BY <2>1, WriteAtPlace DEF RingInv, Place, After, push
    <3>2. Queue' = Append(Queue, v)
      <4>1. \A i \in 1..(count + 1) :
              slots'[place(read_index, i - 1)] =
                IF i = count + 1 THEN v ELSE slots[place(read_index, i - 1)]
        <5> SUFFICES ASSUME NEW i \in 1..(count + 1)
                     PROVE  slots'[place(read_index, i - 1)] =
                              IF i = count + 1 THEN v
                              ELSE slots[place(read_index, i - 1)]
          OBVIOUS
        <5>1. place(read_index, i - 1) \in Index
          BY <2>0, <3>1 DEF Index
        <5>2. place(read_index, i - 1) = WriteAt <=> i = count + 1
          BY <2>0, <3>1
        <5> HIDE DEF place
        <5> QED BY <2>1, <5>1, <5>2 DEF push, RingInv, RingTypeOK
      <4> HIDE DEF place
      <4>2. Queue' = [i \in 1..(count + 1) |->
                        IF i = count + 1 THEN v ELSE slots[place(read_index, i - 1)]]
        BY <2>1, <2>b, <4>1 DEF push
      <4> QED BY <2>0, <2>a, <4>2
    <3>3. Len(Queue) < Capacity BY <2>a, <3>1
    <3> QED BY <2>1, <3>2, <3>3 DEF F!Next, F!Put, push
  <2>2. CASE pop
    <3>0. /\ count \in 1..Capacity
          /\ count' = count - 1
          /\ read_index' = IF read_index + 1 < Capacity THEN read_index + 1 ELSE 0
          /\ last' = slots[read_index]
      BY <2>0, <2>2, Successor DEF pop, RingInv, RingTypeOK
    <3>1. \A i \in 1..(count - 1) :
            slots'[place(read_index', i - 1)] = slots[place(read_index, i)]
      <4> SUFFICES ASSUME NEW i \in 1..(count - 1)
                   PROVE  slots'[place(read_index', i - 1)] = slots[place(read_index, i)]
        OBVIOUS
      <4>1. place(read_index', i - 1) = place(read_index, i)
        BY <2>0, <3>0
      <4>2. place(read_index, i) \in Index /\ place(read_index, i) # read_index
        BY <2>0, <3>0 DEF Index
      <4> HIDE DEF place
      <4> QED BY <2>2, <4>1, <4>2 DEF pop, RingInv, RingTypeOK
    <3>2. place(read_index, 0) = read_index BY <2>0
    <3> HIDE DEF place
    <3>3. Queue # <<>> /\ Head(Queue) = slots[read_index]
      BY <2>a, <3>0, <3>2
    <3>4. Tail(Queue) = [i \in 1..(count - 1) |-> slots[place(read_index, i)]]
      BY <2>a, <3>0
    <3>5. Queue' = Tail(Queue)
      BY <2>b, <3>0, <3>1, <3>4
    <3> QED BY <3>0, <3>3, <3>5 DEF F!Next, F!Take
  <2>3. CASE ring_clear
    <3>1. Queue' = <<>>
      <4> HIDE DEF place
      <4> QED BY <2>3, <2>b DEF ring_clear
    <3> QED BY <2>3, <3>1 DEF F!Next, F!Empty, ring_clear
  <2>4. CASE UNCHANGED ringVars
    BY <2>4 DEF ringVars, Queue
  <2> QED BY <2>1, <2>2, <2>3, <2>4 DEF RingNext
<1> QED BY <1>1, <1>2, RingInvariant, PTL DEF RingSpec, Fifo, F!Spec

----------------------------------------------------------------------------
(* Handles                                                                 *)

\* Division of a number given as a quotient and a remainder.
LEMMA DivMod ==
    ASSUME NEW c \in Nat \ {0}, NEW x \in 0..(c - 1), NEW g \in Nat
    PROVE  (g * c + x) % c = x /\ (g * c + x) \div c = g
<1>1. (g * c + x) % c = x BY Z3
<1>2. (g * c + x) \div c = g BY Z3
<1> QED BY <1>1, <1>2

\* Every number is one.
LEMMA Quotient ==
    ASSUME NEW c \in Nat \ {0}, NEW a \in Nat
    PROVE  /\ a \div c \in Nat
           /\ a % c \in 0..(c - 1)
           /\ a = (a \div c) * c + (a % c)
<1>1. a \div c \in Nat BY Z3
<1>2. a % c \in 0..(c - 1) BY Z3
<1>3. a = (a \div c) * c + (a % c) BY Z3
<1> QED BY <1>1, <1>2, <1>3

\* The remainder of the successor.
LEMMA SuccessorMod ==
    ASSUME NEW c \in Nat \ {0}, NEW a \in Nat
    PROVE  (a + 1) % c = IF (a % c) + 1 = c THEN 0 ELSE (a % c) + 1
<1> DEFINE q == a \div c
           r == a % c
<1>1. q \in Nat /\ r \in 0..(c - 1) /\ a = q * c + r BY Quotient
<1> HIDE DEF q, r
<1>2. CASE r + 1 = c
  <2>1. a + 1 = (q + 1) * c + 0 BY <1>1, <1>2
  <2>2. ((q + 1) * c + 0) % c = 0 BY <1>1, DivMod
  <2> QED BY <1>2, <2>1, <2>2 DEF r
<1>3. CASE r + 1 # c
  <2>1. r + 1 \in 0..(c - 1) BY <1>1, <1>3
  <2>2. a + 1 = q * c + (r + 1) BY <1>1
  <2>3. (q * c + (r + 1)) % c = r + 1 BY <1>1, <2>1, DivMod
  <2> QED BY <1>3, <2>2, <2>3 DEF r
<1> QED BY <1>2, <1>3

\* Numbers with the same remainder differ by a multiple.
LEMMA SameMod ==
    ASSUME NEW c \in Nat \ {0}, NEW a \in Nat, NEW b \in 0..a, a % c = b % c
    PROVE  (a - b) % c = 0
<1> DEFINE q == a \div c
           p == b \div c
           r == a % c
<1>1. q \in Nat /\ r \in 0..(c - 1) /\ a = q * c + r BY Quotient
<1>2. b \in Nat OBVIOUS
<1>3. p \in Nat /\ b = p * c + r BY <1>2, Quotient
<1> HIDE DEF q, p, r
<1>4. q >= p
  <2> SUFFICES ASSUME q < p PROVE FALSE BY <1>1, <1>3
  <2>1. q + 1 <= p BY <1>1, <1>3
  <2>2. (q + 1) * c <= p * c BY <1>1, <1>3, <2>1
  <2>3. a < b BY <1>1, <1>3, <2>2
  <2> QED BY <2>3
<1>5. a - b = (q - p) * c + 0 BY <1>1, <1>3
<1>6. q - p \in Nat BY <1>1, <1>3, <1>4
<1>7. ((q - p) * c + 0) % c = 0 BY <1>6, DivMod
<1> QED BY <1>5, <1>7

\* What a handle value says of the slot and the generation it was made of.
LEMMA DecodeEncode ==
    ASSUME NEW s \in Slot, NEW g \in Generation
    PROVE  /\ encode_handle(s, g) \in Handle
           /\ decode_handle(encode_handle(s, g)) = s
           /\ DecodedGeneration(encode_handle(s, g)) = g
<1>0. /\ SlotSpan \in Nat \ {0} /\ SlotMax \in Nat /\ GenerationMax \in Nat
      /\ Bias \in {0, 1} /\ SlotMax + Bias <= SlotSpan
  BY HandlesAssumption
<1>1. s + Bias \in 0..(SlotSpan - 1) /\ s \in Int /\ g \in Nat /\ g >= 1
  BY <1>0 DEF Slot, Generation
<1>2. encode_handle(s, g) = g * SlotSpan + (s + Bias)
  BY <1>0, <1>1 DEF encode_handle
<1>3. /\ encode_handle(s, g) % SlotSpan = s + Bias
      /\ encode_handle(s, g) \div SlotSpan = g
  <2>1. /\ (g * SlotSpan + (s + Bias)) % SlotSpan = s + Bias
        /\ (g * SlotSpan + (s + Bias)) \div SlotSpan = g
    BY <1>0, <1>1, DivMod
  <2> QED BY <1>2, <2>1
<1>4. DecodedSlot(encode_handle(s, g)) = s
  BY <1>0, <1>1, <1>3 DEF DecodedSlot
<1>5. DecodedGeneration(encode_handle(s, g)) = g
  BY <1>3 DEF DecodedGeneration
<1>6. decode_handle(encode_handle(s, g)) = s
  BY <1>1, <1>4, <1>5 DEF decode_handle
<1>7. encode_handle(s, g) \in Handle
  <2>1. g <= GenerationMax BY DEF Generation
  <2>2. g * SlotSpan <= GenerationMax * SlotSpan BY <1>0, <1>1, <2>1
  <2>3. SlotSpan * (GenerationMax + 1) = GenerationMax * SlotSpan + SlotSpan
    BY <1>0
  <2>4. g * SlotSpan \in Nat /\ GenerationMax * SlotSpan \in Nat BY <1>0, <1>1
  <2> QED BY <1>0, <1>1, <1>2, <2>2, <2>3, <2>4 DEF Handle
<1> QED BY <1>5, <1>6, <1>7

\* The generation of the n-th installation of a slot.
NthGeneration(n) == ((n - 1) % GenerationMax) + 1

\* It is a generation, and the one that follows is the next.
LEMMA NthGenerationNext ==
    ASSUME NEW n \in Nat \ {0}
    PROVE  /\ NthGeneration(n) \in Generation
           /\ NthGeneration(n + 1) = next_generation(NthGeneration(n))
<1>1. GenerationMax \in Nat \ {0} BY HandlesAssumption
<1>2. n - 1 \in Nat /\ n = (n - 1) + 1 /\ (n + 1) - 1 = n OBVIOUS
<1>3. (n - 1) % GenerationMax \in 0..(GenerationMax - 1) BY <1>1, <1>2, Quotient
<1>4. n % GenerationMax = IF ((n - 1) % GenerationMax) + 1 = GenerationMax THEN 0
                          ELSE ((n - 1) % GenerationMax) + 1
  BY <1>1, <1>2, SuccessorMod
<1> QED BY <1>1, <1>2, <1>3, <1>4 DEF NthGeneration, Generation, next_generation

\* The inductive invariant: a slot has the generation of its current or its
\* next installation, and a handle that of its own.
SlotsCounted ==
    \A s \in Slot :
        /\ active[s] => opened[s] > 0
        /\ generation[s] = NthGeneration(IF active[s] THEN opened[s] ELSE opened[s] + 1)
GivenCounted ==
    \A x \in given :
        /\ x.nth <= opened[x.slot]
        /\ x.handle = encode_handle(x.slot, NthGeneration(x.nth))
HandlesInv == HandlesTypeOK /\ SlotsCounted /\ GivenCounted

\* A looked-up handle names an active slot.
LEMMA LookupActive ==
    ASSUME HandlesTypeOK, NEW h \in Handle, lookup_handle(h) # NoSlot
    PROVE  lookup_handle(h) \in Slot /\ active[lookup_handle(h)]
BY DEF lookup_handle, decode_handle, NoSlot, Slot

\* The handle tables of ipc.c and user_memory.c keep the invariant.
THEOREM HandlesInvariant == HandlesSpec => []HandlesInv
<1>0. GenerationMax \in Nat \ {0} /\ OpenMax \in Nat BY HandlesAssumption
<1>1. HandlesInit => HandlesInv
  <2> SUFFICES ASSUME HandlesInit PROVE HandlesInv OBVIOUS
  <2>1. 0 % GenerationMax = 0
    <3>1. 0 = 0 * GenerationMax + 0 BY <1>0
    <3> QED BY <1>0, <3>1, DivMod
  <2>2. NthGeneration(0 + 1) = 1 BY <2>1 DEF NthGeneration
  <2>3. HandlesTypeOK BY <1>0 DEF HandlesInit, HandlesTypeOK, Generation
  <2>4. SlotsCounted BY <2>2 DEF HandlesInit, SlotsCounted
  <2> QED BY <2>3, <2>4 DEF HandlesInit, HandlesInv, GivenCounted
<1>2. HandlesInv /\ [HandlesNext]_handlesVars => HandlesInv'
  <2> SUFFICES ASSUME HandlesInv, [HandlesNext]_handlesVars PROVE HandlesInv' OBVIOUS
  <2> USE DEF HandlesInv
  <2>1. CASE install_handle
    <3>1. PICK s \in Slot :
            /\ ~active[s]
            /\ opened[s] < OpenMax
            /\ active' = [active EXCEPT ![s] = TRUE]
            /\ opened' = [opened EXCEPT ![s] = @ + 1]
            /\ given' = given \cup
                 {[handle |-> encode_handle(s, generation[s]), slot |-> s,
                   nth |-> opened[s] + 1]}
            /\ generation' = generation
      BY <2>1 DEF install_handle
    <3>2. /\ generation[s] \in Generation
          /\ opened[s] + 1 \in 1..OpenMax
          /\ opened[s] \in Nat
          /\ generation[s] = NthGeneration(opened[s] + 1)
      BY <1>0, <3>1 DEF HandlesTypeOK, SlotsCounted
    <3>3. encode_handle(s, generation[s]) \in Handle BY <3>2, DecodeEncode
    <3>4. HandlesTypeOK'
      <4>1. opened' \in [Slot -> 0..OpenMax] BY <1>0, <3>1, <3>2 DEF HandlesTypeOK
      <4>2. given' \subseteq [handle : Handle, slot : Slot, nth : 1..OpenMax]
        BY <3>1, <3>2, <3>3 DEF HandlesTypeOK
      <4>3. active' \in [Slot -> BOOLEAN] BY <3>1 DEF HandlesTypeOK
      <4> QED BY <3>1, <4>1, <4>2, <4>3 DEF HandlesTypeOK
    <3>5. SlotsCounted'
      <4> SUFFICES ASSUME NEW t \in Slot
                   PROVE  /\ active'[t] => opened'[t] > 0
                          /\ generation'[t] = NthGeneration(IF active'[t] THEN opened'[t]
                                                            ELSE opened'[t] + 1)
        BY DEF SlotsCounted
      <4>1. CASE t = s
        BY <3>1, <3>2, <4>1 DEF HandlesTypeOK
      <4>2. CASE t # s
        <5>1. active'[t] = active[t] /\ opened'[t] = opened[t] /\ generation'[t] = generation[t]
          BY <3>1, <4>2 DEF HandlesTypeOK
        <5> QED BY <5>1 DEF SlotsCounted
      <4> QED BY <4>1, <4>2
    <3>6. GivenCounted'
      <4> SUFFICES ASSUME NEW x \in given'
                   PROVE  /\ x.nth <= opened'[x.slot]
                          /\ x.handle = encode_handle(x.slot, NthGeneration(x.nth))
        BY DEF GivenCounted
      <4>1. CASE x \in given
        <5>1. x.slot \in Slot /\ x.nth \in Nat /\ opened[x.slot] \in Nat
          BY <4>1 DEF HandlesTypeOK
        <5>2. opened'[x.slot] \in Nat /\ opened'[x.slot] >= opened[x.slot]
          BY <3>1, <3>2, <5>1 DEF HandlesTypeOK
        <5>3. x.nth <= opened[x.slot] BY <4>1 DEF GivenCounted
        <5>4. x.nth <= opened'[x.slot] BY <5>1, <5>2, <5>3
        <5> QED BY <4>1, <5>4 DEF GivenCounted
      <4>2. CASE x \notin given
        <5>1. /\ x.handle = encode_handle(s, generation[s])
              /\ x.slot = s
              /\ x.nth = opened[s] + 1
          BY <3>1, <4>2
        <5>2. opened'[s] = opened[s] + 1 BY <3>1 DEF HandlesTypeOK
        <5> QED BY <3>2, <5>1, <5>2
      <4> QED BY <4>1, <4>2
    <3> QED BY <3>4, <3>5, <3>6
  <2>2. ASSUME NEW h \in Handle, invalidate_handle_entry(h) PROVE HandlesInv'
    <3> DEFINE s == lookup_handle(h)
    <3>1. s \in Slot /\ active[s]
      BY <2>2, LookupActive DEF invalidate_handle_entry
    <3>2. /\ active' = [active EXCEPT ![s] = FALSE]
          /\ generation' = [generation EXCEPT ![s] = next_generation(@)]
          /\ opened' = opened
          /\ given' = given
      BY <2>2 DEF invalidate_handle_entry
    <3> HIDE DEF s
    <3>3. opened[s] \in Nat \ {0} /\ generation[s] = NthGeneration(opened[s])
      BY <1>0, <3>1 DEF HandlesTypeOK, SlotsCounted
    <3>4. /\ next_generation(generation[s]) = NthGeneration(opened[s] + 1)
          /\ opened[s] + 1 \in Nat \ {0}
      BY <3>3, NthGenerationNext
    <3>5. NthGeneration(opened[s] + 1) \in Generation BY <3>4, NthGenerationNext
    <3>6. HandlesTypeOK'
      <4>1. generation' \in [Slot -> Generation] BY <3>2, <3>4, <3>5 DEF HandlesTypeOK
      <4>2. active' \in [Slot -> BOOLEAN] BY <3>2 DEF HandlesTypeOK
      <4> QED BY <3>2, <4>1, <4>2 DEF HandlesTypeOK
    <3>7. SlotsCounted'
      <4> SUFFICES ASSUME NEW t \in Slot
                   PROVE  /\ active'[t] => opened'[t] > 0
                          /\ generation'[t] = NthGeneration(IF active'[t] THEN opened'[t]
                                                            ELSE opened'[t] + 1)
        BY DEF SlotsCounted
      <4>1. CASE t = s
        BY <3>1, <3>2, <3>3, <3>4, <4>1 DEF HandlesTypeOK
      <4>2. CASE t # s
        <5>1. active'[t] = active[t] /\ opened'[t] = opened[t] /\ generation'[t] = generation[t]
          BY <3>2, <4>2 DEF HandlesTypeOK
        <5> QED BY <5>1 DEF SlotsCounted
      <4> QED BY <4>1, <4>2
    <3>8. GivenCounted' BY <3>2 DEF GivenCounted
    <3> QED BY <3>6, <3>7, <3>8
  <2>3. CASE UNCHANGED handlesVars
    BY <2>3 DEF handlesVars, HandlesTypeOK, SlotsCounted, GivenCounted
  <2> QED BY <2>1, <2>2, <2>3 DEF HandlesNext
<1> QED BY <1>1, <1>2, PTL DEF HandlesSpec

\* A closed IPC or buffer handle is refused until its slot has been reused
\* GenerationMax times; an open one always works and never names another slot.
THEOREM StaleRefusedAlways == HandlesSpec => []StaleRefused
<1>1. HandlesInv => StaleRefused
  <2> SUFFICES ASSUME HandlesInv, NEW x \in given
               PROVE  /\ lookup_handle(x.handle) \in {NoSlot, x.slot}
                      /\ x.nth = opened[x.slot] /\ active[x.slot]
                           => lookup_handle(x.handle) = x.slot
                      /\ lookup_handle(x.handle) = x.slot
                           => (opened[x.slot] - x.nth) % GenerationMax = 0
    BY DEF StaleRefused
  <2> DEFINE s == x.slot
             n == x.nth
             m == opened[s]
  <2>0. GenerationMax \in Nat \ {0} BY HandlesAssumption
  <2>1. s \in Slot /\ n \in Nat \ {0} /\ m \in Nat /\ n <= m
    BY HandlesAssumption DEF HandlesInv, HandlesTypeOK, GivenCounted
  <2>2. x.handle = encode_handle(s, NthGeneration(n)) BY DEF HandlesInv, GivenCounted
  <2>3. NthGeneration(n) \in Generation BY <2>1, NthGenerationNext
  <2>4. /\ decode_handle(x.handle) = s
        /\ DecodedGeneration(x.handle) = NthGeneration(n)
    BY <2>1, <2>2, <2>3, DecodeEncode
  <2>5. s # NoSlot BY <2>1, HandlesAssumption DEF Slot, NoSlot
  <2>6. lookup_handle(x.handle) =
          IF active[s] /\ generation[s] = NthGeneration(n) THEN s ELSE NoSlot
    BY <2>4, <2>5 DEF lookup_handle
  <2>7. active[s] => generation[s] = NthGeneration(m)
    BY <2>1 DEF HandlesInv, SlotsCounted
  <2> HIDE DEF s, n, m
  <2>8. NthGeneration(n) = NthGeneration(m) => (m - n) % GenerationMax = 0
    <3> SUFFICES ASSUME NthGeneration(n) = NthGeneration(m)
                 PROVE  (m - n) % GenerationMax = 0
      OBVIOUS
    <3>1. m - 1 \in Nat /\ n - 1 \in 0..(m - 1) /\ n - 1 \in Nat BY <2>1
    <3>2. /\ (m - 1) % GenerationMax \in 0..(GenerationMax - 1)
          /\ (n - 1) % GenerationMax \in 0..(GenerationMax - 1)
      BY <2>0, <3>1, Quotient
    <3>3. (m - 1) % GenerationMax = (n - 1) % GenerationMax
      BY <2>0, <3>2 DEF NthGeneration
    <3>4. ((m - 1) - (n - 1)) % GenerationMax = 0
      BY <2>0, <3>1, <3>3, SameMod
    <3>5. (m - 1) - (n - 1) = m - n BY <2>1
    <3> QED BY <3>4, <3>5
  <2>9. (n = m /\ active[s]) => lookup_handle(x.handle) = s BY <2>6, <2>7
  <2>10. lookup_handle(x.handle) = s => (m - n) % GenerationMax = 0
    BY <2>5, <2>6, <2>7, <2>8
  <2> QED BY <2>6, <2>9, <2>10 DEF s, n, m
<1> QED BY <1>1, HandlesInvariant, PTL

----------------------------------------------------------------------------
(* The memory manager                                                      *)

PmmSpec == PmmInit /\ [][PmmNext]_pmmVars

Regions == [base : Nat, bitmap_base : Nat, frame_count : Nat \ {0}]

\* A region lies inside an entry.
Inside(r, e) ==
    /\ e.type = "usable" /\ e.base <= r.base
    /\ r.base + r.frame_count * PmmPage <= EntryEnd(e)

\* Regions made of the first m entries of a map: each lies in an entry of its own,
\* and its bits follow those of the regions before it.
MadeOf(rs, map, m) ==
    /\ rs \in Seq(Regions) /\ TotalFrames(rs) \in 0..FrameMax
    /\ \A r, s \in DOMAIN rs : r < s => RegionEnd(rs[r]) <= rs[s].bitmap_base
    /\ \E source \in [DOMAIN rs -> 1..m] :
          /\ \A r \in DOMAIN rs : Inside(rs[r], map[source[r]])
          /\ \A r, s \in DOMAIN rs : source[r] = source[s] => r = s

PmmInv ==
    /\ memory_map \in Seq(Entry) /\ regions \in Seq(Regions)
    /\ MadeOf(regions, memory_map, Len(memory_map))
    /\ regions # <<>> => ~Refused(memory_map)
    /\ bitmap \subseteq {Bit(x) : x \in Places} /\ IsFiniteSet(bitmap)
    /\ held = {Address(x) : x \in {y \in Places : Bit(y) \in bitmap}} /\ IsFiniteSet(held)
    /\ Cardinality(bitmap) = Cardinality(held)
    /\ free_frames = TotalFrames(regions) - Cardinality(held)

\* Multiples of a number are at least that number apart.
LEMMA Multiples ==
    ASSUME NEW c \in Nat \ {0}, NEW m \in Nat, NEW n \in Nat
    PROVE  /\ m * c \in Nat
           /\ m < n => m * c + c <= n * c
           /\ m <= n => m * c <= n * c
<1>1. m * c \in Nat /\ n * c \in Nat OBVIOUS
<1>2. ASSUME m < n PROVE m * c + c <= n * c
  <2> DEFINE d == n - m - 1
  <2>1. d \in Nat /\ n = m + 1 + d BY <1>2
  <2> HIDE DEF d
  <2>2. d * c \in Nat BY <2>1
  <2>3. (m + 1 + d) * c = m * c + c + d * c BY <2>1
  <2>4. n * c = m * c + c + d * c BY <2>1, <2>3
  <2> QED BY <1>1, <2>2, <2>4
<1>3. ASSUME m <= n PROVE m * c <= n * c
  <2>1. CASE m = n BY <1>1, <2>1
  <2>2. CASE m < n BY <1>1, <1>2, <2>2
  <2> QED BY <1>3, <2>1, <2>2
<1> QED BY <1>1, <1>2, <1>3

\* Aligned addresses are multiples of the page, the nearest below or above.
LEMMA Aligned ==
    ASSUME NEW a \in Nat
    PROVE  /\ \E q \in Nat : pmm_align_down(a) = q * PmmPage /\ q * PmmPage <= a
           /\ \E q \in Nat : pmm_align_up(a) = q * PmmPage /\ a <= q * PmmPage
<1>1. PmmPage \in Nat \ {0} BY PmmAssumption
<1>2. \E q \in Nat : pmm_align_down(a) = q * PmmPage /\ q * PmmPage <= a
  <2> DEFINE q == a \div PmmPage
  <2>1. q \in Nat /\ a % PmmPage \in 0..(PmmPage - 1) /\ a = q * PmmPage + (a % PmmPage)
    BY <1>1, Quotient
  <2>2. pmm_align_down(a) = q * PmmPage BY DEF pmm_align_down
  <2> HIDE DEF q
  <2>3. q * PmmPage \in Nat BY <1>1, <2>1
  <2>4. q * PmmPage <= a BY <1>1, <2>1, <2>3
  <2> QED BY <2>1, <2>2, <2>4
<1>3. \E q \in Nat : pmm_align_up(a) = q * PmmPage /\ a <= q * PmmPage
  <2> DEFINE b == a + PmmPage - 1
             q == b \div PmmPage
  <2>1. b \in Nat /\ b = a + PmmPage - 1 BY <1>1
  <2>2. q \in Nat /\ b % PmmPage \in 0..(PmmPage - 1) /\ b = q * PmmPage + (b % PmmPage)
    BY <1>1, <2>1, Quotient
  <2>3. pmm_align_up(a) = q * PmmPage BY DEF pmm_align_up
  <2> HIDE DEF q, b
  <2>4. q * PmmPage \in Nat BY <1>1, <2>2
  <2>5. a <= q * PmmPage BY <1>1, <2>1, <2>2, <2>4
  <2> QED BY <2>2, <2>3, <2>5
<1> QED BY <1>2, <1>3

\* The whole pages between two aligned addresses.
LEMMA WholePages ==
    ASSUME NEW p \in Nat, NEW q \in Nat, q * PmmPage > p * PmmPage
    PROVE  /\ (q * PmmPage - p * PmmPage) \div PmmPage = q - p
           /\ q - p \in Nat \ {0}
           /\ p * PmmPage + (q - p) * PmmPage = q * PmmPage
<1>1. PmmPage \in Nat \ {0} BY PmmAssumption
<1>2. p < q
  <2> SUFFICES ASSUME q <= p PROVE FALSE OBVIOUS
  <2>1. q * PmmPage <= p * PmmPage BY <1>1, Multiples
  <2>2. q * PmmPage \in Nat /\ p * PmmPage \in Nat BY <1>1, Multiples
  <2> QED BY <2>1, <2>2
<1> DEFINE d == q - p
<1>3. d \in Nat \ {0} /\ q = p + d BY <1>2
<1> HIDE DEF d
<1>4. (p + d) * PmmPage = p * PmmPage + d * PmmPage BY <1>1, <1>3
<1>5. d * PmmPage \in Nat /\ p * PmmPage \in Nat BY <1>1, <1>3, Multiples
<1>6. q * PmmPage - p * PmmPage = d * PmmPage + 0 BY <1>3, <1>4, <1>5
<1>7. 0 \in 0..(PmmPage - 1) BY <1>1
<1>8. (d * PmmPage + 0) \div PmmPage = d BY <1>1, <1>3, <1>7, DivMod
<1>9. p * PmmPage + d * PmmPage = q * PmmPage BY <1>3, <1>4
<1> QED BY <1>3, <1>6, <1>8, <1>9 DEF d

\* What an entry and a region have.
LEMMA EntryFacts ==
    ASSUME NEW e \in Entry
    PROVE  e.base \in Nat /\ e.length \in Nat /\ EntryEnd(e) \in Nat
<1>1. e.base \in Nat /\ e.length \in Nat BY PmmAssumption DEF Entry
<1> QED BY <1>1 DEF EntryEnd

\* The fields of a region, and where its bits end.
LEMMA RegionFacts ==
    ASSUME NEW r \in Regions
    PROVE  /\ r.base \in Nat /\ r.bitmap_base \in Nat /\ r.frame_count \in Nat \ {0}
           /\ RegionEnd(r) \in Nat
<1>1. r.base \in Nat /\ r.bitmap_base \in Nat /\ r.frame_count \in Nat \ {0} BY DEF Regions
<1> QED BY <1>1 DEF RegionEnd

\* The region that the second loop of pmm_init makes of an entry lies inside it.
LEMMA RegionInside ==
    ASSUME NEW e \in Entry, NEW remaining \in Nat \ {0}, NEW bits \in Nat, e.type = "usable",
           pmm_align_up(e.base) < pmm_align_down(EntryEnd(e))
    PROVE  LET first == pmm_align_up(e.base)
               whole == (pmm_align_down(EntryEnd(e)) - first) \div PmmPage
               r == [base |-> first, bitmap_base |-> bits,
                     frame_count |-> IF whole > remaining THEN remaining ELSE whole]
           IN  r \in Regions /\ Inside(r, e) /\ r.frame_count <= remaining
<1>1. PmmPage \in Nat \ {0} /\ e.base \in Nat /\ EntryEnd(e) \in Nat BY PmmAssumption, EntryFacts
<1>2. PICK p \in Nat : pmm_align_up(e.base) = p * PmmPage /\ e.base <= p * PmmPage
  BY <1>1, Aligned
<1>3. PICK q \in Nat : pmm_align_down(EntryEnd(e)) = q * PmmPage /\ q * PmmPage <= EntryEnd(e)
  BY <1>1, Aligned
<1>4. p * PmmPage \in Nat /\ q * PmmPage \in Nat BY <1>1, Multiples
<1>5. q * PmmPage > p * PmmPage BY <1>2, <1>3, <1>4
<1> DEFINE whole == (pmm_align_down(EntryEnd(e)) - pmm_align_up(e.base)) \div PmmPage
           n == IF whole > remaining THEN remaining ELSE whole
<1>6. whole = q - p /\ q - p \in Nat \ {0} /\ p * PmmPage + (q - p) * PmmPage = q * PmmPage
  BY <1>2, <1>3, <1>5, WholePages
<1>7. n \in Nat \ {0} /\ n <= remaining /\ n <= q - p
  <2> HIDE DEF whole
  <2> QED BY <1>6
<1> HIDE DEF whole, n
<1>8. n * PmmPage <= (q - p) * PmmPage BY <1>1, <1>6, <1>7, Multiples
<1>9. n * PmmPage \in Nat /\ (q - p) * PmmPage \in Nat BY <1>1, <1>6, <1>7, Multiples
<1>10. p * PmmPage + n * PmmPage <= EntryEnd(e) BY <1>1, <1>3, <1>4, <1>6, <1>8, <1>9
<1> DEFINE r == [base |-> p * PmmPage, bitmap_base |-> bits, frame_count |-> n]
<1>11. r \in Regions BY <1>4, <1>7 DEF Regions
<1>12. Inside(r, e) BY <1>2, <1>10 DEF Inside
<1> QED BY <1>2, <1>7, <1>11, <1>12 DEF whole, n

\* The tables of regions that fit the bitmap.
RegionTables == {rs \in Seq(Regions) : TotalFrames(rs) \in 0..FrameMax}

\* An entry adds no region, or one inside it whose bits follow those in use.
LEMMA AddRegionCases ==
    ASSUME NEW rs \in RegionTables, NEW e \in Entry
    PROVE  \/ AddRegion(rs, e) = rs
           \/ \E r \in Regions :
                 /\ AddRegion(rs, e) = Append(rs, r)
                 /\ Inside(r, e) /\ r.bitmap_base = TotalFrames(rs)
                 /\ RegionEnd(r) <= FrameMax
<1> DEFINE first == pmm_align_up(e.base)
           end == pmm_align_down(EntryEnd(e))
           whole == (end - first) \div PmmPage
           remaining == FrameMax - TotalFrames(rs)
           new == [base |-> first, bitmap_base |-> TotalFrames(rs),
                   frame_count |-> IF whole > remaining THEN remaining ELSE whole]
<1>1. FrameMax \in Nat /\ TotalFrames(rs) \in 0..FrameMax BY PmmAssumption DEF RegionTables
<1>2. CASE e.type # "usable" \/ end <= first \/ remaining = 0 \/ Len(rs) = RegionMax
  <2>1. AddRegion(rs, e) = rs BY <1>2 DEF AddRegion
  <2> QED BY <2>1
<1>3. CASE ~(e.type # "usable" \/ end <= first \/ remaining = 0 \/ Len(rs) = RegionMax)
  <2>1. AddRegion(rs, e) = Append(rs, new) BY <1>3 DEF AddRegion
  <2>2. PmmPage \in Nat \ {0} /\ e.base \in Nat /\ EntryEnd(e) \in Nat
    BY PmmAssumption, EntryFacts
  <2>3. PICK p \in Nat : first = p * PmmPage BY <2>2, Aligned
  <2>4. PICK q \in Nat : end = q * PmmPage BY <2>2, Aligned
  <2>5. first \in Nat /\ end \in Nat BY <2>2, <2>3, <2>4, Multiples
  <2>6. remaining \in Nat \ {0} /\ TotalFrames(rs) \in Nat
    <3> HIDE DEF first, end, whole
    <3> QED BY <1>1, <1>3
  <2>7. first < end
    <3> HIDE DEF first, end
    <3> QED BY <1>3, <2>5
  <2>8. new \in Regions /\ Inside(new, e) /\ new.frame_count <= remaining
    <3> HIDE DEF remaining
    <3> QED BY <1>3, <2>6, <2>7, RegionInside
  <2>9. new.bitmap_base = TotalFrames(rs) OBVIOUS
  <2>10. RegionEnd(new) <= FrameMax
    <3> HIDE DEF new
    <3>1. new.frame_count \in Nat BY <2>8, RegionFacts
    <3> QED BY <1>1, <2>8, <2>9, <3>1 DEF RegionEnd
  <2> HIDE DEF new
  <2> QED BY <2>1, <2>8, <2>9, <2>10
<1> QED BY <1>2, <1>3

\* What appending a region to a table does.
LEMMA AppendRegion ==
    ASSUME NEW rs \in RegionTables, NEW r \in Regions, r.bitmap_base = TotalFrames(rs),
           RegionEnd(r) <= FrameMax
    PROVE  /\ Append(rs, r) \in RegionTables
           /\ Len(rs) \in Nat /\ DOMAIN rs = 1..Len(rs)
           /\ DOMAIN Append(rs, r) = 1..(Len(rs) + 1)
           /\ \A i \in 1..Len(rs) : Append(rs, r)[i] = rs[i]
           /\ Append(rs, r)[Len(rs) + 1] = r
<1>1. rs \in Seq(Regions) BY DEF RegionTables
<1>2. /\ Append(rs, r) \in Seq(Regions)
      /\ Len(rs) \in Nat /\ DOMAIN rs = 1..Len(rs)
      /\ Len(Append(rs, r)) = Len(rs) + 1
      /\ DOMAIN Append(rs, r) = 1..(Len(rs) + 1)
      /\ \A i \in 1..Len(rs) : Append(rs, r)[i] = rs[i]
      /\ Append(rs, r)[Len(rs) + 1] = r
  BY <1>1
<1>3. TotalFrames(Append(rs, r)) = RegionEnd(r)
  <2>1. Append(rs, r) # <<>> BY <1>1, <1>2
  <2> QED BY <1>2, <2>1 DEF TotalFrames
<1>4. RegionEnd(r) \in 0..FrameMax BY RegionFacts, PmmAssumption
<1> QED BY <1>2, <1>3, <1>4 DEF RegionTables

\* The bits of every region of a made table lie below its total.
LEMMA LastRegionEnds ==
    ASSUME NEW rs \in RegionTables, NEW map, NEW m, MadeOf(rs, map, m), NEW i \in DOMAIN rs
    PROVE  RegionEnd(rs[i]) <= TotalFrames(rs)
<1>1. rs \in Seq(Regions) BY DEF RegionTables
<1>2. Len(rs) \in Nat /\ DOMAIN rs = 1..Len(rs) /\ i \in 1..Len(rs) BY <1>1
<1>3. rs # <<>> BY <1>1, <1>2
<1>4. TotalFrames(rs) = RegionEnd(rs[Len(rs)]) BY <1>3 DEF TotalFrames
<1>5. Len(rs) \in DOMAIN rs /\ rs[i] \in Regions /\ rs[Len(rs)] \in Regions BY <1>1, <1>2
<1>6. CASE i = Len(rs) BY <1>4, <1>5, <1>6, RegionFacts
<1>7. CASE i < Len(rs)
  <2>1. RegionEnd(rs[i]) <= rs[Len(rs)].bitmap_base BY <1>5, <1>7 DEF MadeOf
  <2>2. rs[Len(rs)].bitmap_base <= RegionEnd(rs[Len(rs)])
    BY <1>5, RegionFacts DEF RegionEnd
  <2>3. RegionEnd(rs[i]) \in Nat /\ rs[Len(rs)].bitmap_base \in Nat
        /\ RegionEnd(rs[Len(rs)]) \in Nat
    BY <1>5, RegionFacts
  <2> QED BY <1>4, <2>1, <2>2, <2>3
<1> QED BY <1>2, <1>6, <1>7

\* One turn of the loop.
LEMMA AddRegionKeeps ==
    ASSUME NEW map \in Seq(Entry), NEW m \in Nat, m + 1 <= Len(map),
           NEW rs, MadeOf(rs, map, m)
    PROVE  MadeOf(AddRegion(rs, map[m + 1]), map, m + 1)
<1>1. rs \in RegionTables /\ rs \in Seq(Regions) BY DEF MadeOf, RegionTables
<1>2. map[m + 1] \in Entry BY DEF MadeOf
<1>3. PICK source \in [DOMAIN rs -> 1..m] :
          /\ \A r \in DOMAIN rs : Inside(rs[r], map[source[r]])
          /\ \A r, s \in DOMAIN rs : source[r] = source[s] => r = s
  BY DEF MadeOf
<1>4. CASE AddRegion(rs, map[m + 1]) = rs
  <2>1. source \in [DOMAIN rs -> 1..(m + 1)] BY <1>3
  <2>2. MadeOf(rs, map, m + 1) BY <1>1, <1>3, <2>1 DEF MadeOf
  <2> QED BY <1>4, <2>2
<1>5. ASSUME NEW r \in Regions, AddRegion(rs, map[m + 1]) = Append(rs, r),
             Inside(r, map[m + 1]), r.bitmap_base = TotalFrames(rs), RegionEnd(r) <= FrameMax
      PROVE  MadeOf(AddRegion(rs, map[m + 1]), map, m + 1)
  <2> DEFINE more == Append(rs, r)
             n == Len(rs)
             from == [i \in DOMAIN more |-> IF i <= n THEN source[i] ELSE m + 1]
  <2>1. /\ more \in RegionTables
        /\ n \in Nat /\ DOMAIN rs = 1..n
        /\ DOMAIN more = 1..(n + 1)
        /\ \A i \in 1..n : more[i] = rs[i]
        /\ more[n + 1] = r
    BY <1>1, <1>5, AppendRegion
  <2> HIDE DEF more, n
  <2>2. \A i \in 1..n : from[i] = source[i] /\ source[i] \in 1..m BY <1>3, <2>1
  <2>3. from[n + 1] = m + 1 BY <2>1
  <2>4. from \in [DOMAIN more -> 1..(m + 1)] BY <1>3, <2>1
  <2> HIDE DEF from
  <2>5. \A i \in DOMAIN more : i \in 1..n \/ i = n + 1 BY <2>1, SMTT(30)
  <2>6. \A i \in DOMAIN more : Inside(more[i], map[from[i]])
    <3> SUFFICES ASSUME NEW i \in DOMAIN more PROVE Inside(more[i], map[from[i]]) OBVIOUS
    <3>1. CASE i \in 1..n BY <1>3, <2>1, <2>2, <3>1
    <3>2. CASE i = n + 1 BY <1>5, <2>1, <2>3, <3>2
    <3> QED BY <2>5, <3>1, <3>2
  <2>7. \A i, j \in DOMAIN more : from[i] = from[j] => i = j
    <3> SUFFICES ASSUME NEW i \in DOMAIN more, NEW j \in DOMAIN more, from[i] = from[j]
                 PROVE  i = j
      OBVIOUS
    <3>1. CASE i \in 1..n /\ j \in 1..n BY <1>3, <2>1, <2>2, <3>1
    <3>2. CASE i \in 1..n /\ j = n + 1 BY <2>2, <2>3, <3>2
    <3>3. CASE i = n + 1 /\ j \in 1..n BY <2>2, <2>3, <3>3
    <3> QED BY <2>5, <3>1, <3>2, <3>3
  <2>8. \A i, j \in DOMAIN more : i < j => RegionEnd(more[i]) <= more[j].bitmap_base
    <3> SUFFICES ASSUME NEW i \in DOMAIN more, NEW j \in DOMAIN more, i < j
                 PROVE  RegionEnd(more[i]) <= more[j].bitmap_base
      OBVIOUS
    <3>1. i \in 1..n BY <2>1
    <3>2. CASE j \in 1..n BY <2>1, <3>1, <3>2 DEF MadeOf
    <3>3. CASE j = n + 1
      <4>1. RegionEnd(rs[i]) <= TotalFrames(rs) BY <1>1, <2>1, <3>1, LastRegionEnds
      <4> QED BY <1>5, <2>1, <3>1, <3>3, <4>1
    <3> QED BY <2>5, <3>2, <3>3
  <2>9. more \in Seq(Regions) /\ TotalFrames(more) \in 0..FrameMax BY <2>1 DEF RegionTables
  <2>10. MadeOf(more, map, m + 1) BY <2>4, <2>6, <2>7, <2>8, <2>9 DEF MadeOf
  <2> QED BY <1>5, <2>10 DEF more
<1> QED BY <1>1, <1>2, <1>4, <1>5, AddRegionCases

\* No entry, no region.
LEMMA NothingMade ==
    ASSUME NEW map
    PROVE  MadeOf(<<>>, map, 0)
<1>1. <<>> \in Seq(Regions) /\ DOMAIN <<>> = {} OBVIOUS
<1>2. TotalFrames(<<>>) \in 0..FrameMax BY PmmAssumption DEF TotalFrames
<1>3. [i \in {} |-> 0] \in [{} -> 1..0] OBVIOUS
<1> QED BY <1>1, <1>2, <1>3 DEF MadeOf

\* The second loop of pmm_init.
LEMMA RegionsOfMade ==
    ASSUME NEW map \in Seq(Entry)
    PROVE  MadeOf(RegionsOf(map), map, Len(map))
<1> DEFINE Turn == [x \in RegionTables \X (1..Len(map)) |-> AddRegion(x[1], map[x[2]])]
<1>1. Len(map) \in Nat /\ DOMAIN map = 1..Len(map) OBVIOUS
<1>2. <<>> \in RegionTables
  <2>1. TotalFrames(<<>>) = 0 BY DEF TotalFrames
  <2>2. FrameMax \in Nat BY PmmAssumption
  <2> QED BY <2>1, <2>2 DEF RegionTables
<1>3. \A rs \in RegionTables, i \in 1..Len(map) :
          Turn[<<rs, i>>] = AddRegion(rs, map[i]) /\ Turn[<<rs, i>>] \in RegionTables
  <2> SUFFICES ASSUME NEW rs \in RegionTables, NEW i \in 1..Len(map)
               PROVE  Turn[<<rs, i>>] = AddRegion(rs, map[i]) /\ Turn[<<rs, i>>] \in RegionTables
    OBVIOUS
  <2>1. Turn[<<rs, i>>] = AddRegion(rs, map[i]) OBVIOUS
  <2>2. map[i] \in Entry BY <1>1
  <2>3. CASE AddRegion(rs, map[i]) = rs BY <2>1, <2>3
  <2>4. ASSUME NEW r \in Regions, AddRegion(rs, map[i]) = Append(rs, r),
               r.bitmap_base = TotalFrames(rs), RegionEnd(r) <= FrameMax
        PROVE  AddRegion(rs, map[i]) \in RegionTables
    BY <2>4, AppendRegion
  <2> HIDE DEF Turn
  <2> QED BY <2>1, <2>2, <2>3, <2>4, AddRegionCases
<1> HIDE DEF Turn
<1>4. PICK g : Iterates(g, Turn, RegionTables, <<>>, Len(map))
  <2>1. StaysIn(Turn, RegionTables, Len(map)) BY <1>3 DEF StaysIn
  <2> QED BY <1>1, <1>2, <2>1, Iteration
<1>5. /\ g \in [0..Len(map) -> RegionTables] /\ g[0] = <<>>
      /\ \A i \in 1..Len(map) : g[i] = AddRegion(g[i - 1], map[i])
  <2>1. /\ g \in [0..Len(map) -> RegionTables] /\ g[0] = <<>>
        /\ \A i \in 1..Len(map) : g[i] = Turn[<<g[i - 1], i>>]
    BY <1>4 DEF Iterates
  <2>2. \A i \in 1..Len(map) : g[i - 1] \in RegionTables BY <1>1, <2>1
  <2> QED BY <1>3, <2>1, <2>2
\* The function of the definition exists, since g is one.
<1> DEFINE made == CHOOSE h : h = [n \in 0..Len(map) |->
                      IF n = 0 THEN <<>> ELSE AddRegion(h[n - 1], map[n])]
<1>6. g = [n \in 0..Len(map) |-> IF n = 0 THEN <<>> ELSE AddRegion(g[n - 1], map[n])]
  BY <1>1, <1>5
<1>7. made = [n \in 0..Len(map) |-> IF n = 0 THEN <<>> ELSE AddRegion(made[n - 1], map[n])]
  BY <1>6
<1>8. RegionsOf(map) = made[Len(map)] BY DEF RegionsOf
<1> HIDE DEF made
<1>9. /\ made[0] = <<>>
      /\ \A n \in 1..Len(map) : made[n] = AddRegion(made[n - 1], map[n])
  BY <1>1, <1>7
<1> DEFINE N == {n \in Nat : n <= Len(map) => MadeOf(made[n], map, n)}
<1>10. 0 \in N
  <2>1. MadeOf(<<>>, map, 0) BY NothingMade
  <2> QED BY <1>9, <2>1
<1>11. ASSUME NEW n \in Nat, n \in N PROVE n + 1 \in N
  <2> SUFFICES ASSUME n + 1 <= Len(map) PROVE MadeOf(made[n + 1], map, n + 1) OBVIOUS
  <2>1. MadeOf(made[n], map, n) BY <1>1, <1>11
  <2>2. n + 1 \in 1..Len(map) /\ (n + 1) - 1 = n BY <1>1
  <2>3. made[n + 1] = AddRegion(made[n], map[n + 1]) BY <1>9, <2>2
  <2> QED BY <2>1, <2>3, AddRegionKeeps
<1>12. Len(map) \in N
  <2> HIDE DEF N
  <2>1. Nat \subseteq N BY <1>10, <1>11, SetInduction
  <2> QED BY <1>1, <2>1
<1> QED BY <1>1, <1>8, <1>12

\* The regions are those of an accepted map.
Laid ==
    /\ memory_map \in Seq(Entry) /\ regions \in Seq(Regions)
    /\ MadeOf(regions, memory_map, Len(memory_map))
    /\ ~Refused(memory_map)

\* Where a frame and its bit are.
LEMMA PlaceFacts ==
    ASSUME regions \in Seq(Regions), NEW x \in Places
    PROVE  /\ x = <<x[1], x[2]>>
           /\ x[1] \in DOMAIN regions /\ regions[x[1]] \in Regions
           /\ x[2] \in 0..(regions[x[1]].frame_count - 1)
           /\ Bit(x) \in Nat /\ Address(x) \in Nat
           /\ regions[x[1]].bitmap_base <= Bit(x) /\ Bit(x) < RegionEnd(regions[x[1]])
           /\ regions[x[1]].base <= Address(x)
           /\ Address(x) + PmmPage
                  <= regions[x[1]].base + regions[x[1]].frame_count * PmmPage
<1>1. PICK r \in DOMAIN regions : x \in {<<r, k>> : k \in 0..(regions[r].frame_count - 1)}
  BY DEF Places
<1>2. PICK k \in 0..(regions[r].frame_count - 1) : x = <<r, k>> BY <1>1
<1>3. x = <<x[1], x[2]>> /\ x[1] = r /\ x[2] = k BY <1>2
<1>4. regions[r] \in Regions OBVIOUS
<1> DEFINE b == regions[r].base
           f == regions[r].frame_count
           t == regions[r].bitmap_base
<1>5. b \in Nat /\ f \in Nat \ {0} /\ t \in Nat BY <1>4, RegionFacts
<1>6. Address(x) = b + k * PmmPage /\ Bit(x) = t + k /\ RegionEnd(regions[r]) = t + f
  BY <1>3 DEF Address, Bit, RegionEnd
<1>7. k \in 0..(f - 1) OBVIOUS
<1> HIDE DEF b, f, t
<1>8. k \in Nat /\ k < f BY <1>5, <1>7
<1>9. PmmPage \in Nat \ {0} BY PmmAssumption
<1>10. k * PmmPage \in Nat /\ f * PmmPage \in Nat /\ k * PmmPage + PmmPage <= f * PmmPage
  BY <1>5, <1>8, <1>9, Multiples
<1>11. /\ Bit(x) \in Nat /\ Address(x) \in Nat
       /\ t <= Bit(x) /\ Bit(x) < t + f
       /\ b <= Address(x) /\ Address(x) + PmmPage <= b + f * PmmPage
  BY <1>5, <1>6, <1>8, <1>9, <1>10
<1> QED BY <1>3, <1>4, <1>6, <1>11 DEF b, f, t

\* A frame lies in a usable entry, apart from the other entries; those of
\* different regions lie in different entries.
LEMMA PlaceInEntry ==
    ASSUME Laid
    PROVE  \E source \in [DOMAIN regions -> DOMAIN memory_map] :
             /\ \A r, s \in DOMAIN regions : source[r] = source[s] => r = s
             /\ \A x \in Places :
                   LET e == memory_map[source[x[1]]]
                   IN  e.type = "usable" /\ e.base <= Address(x)
                       /\ Address(x) + PmmPage <= EntryEnd(e)
<1>1. PICK source \in [DOMAIN regions -> 1..Len(memory_map)] :
          /\ \A r \in DOMAIN regions : Inside(regions[r], memory_map[source[r]])
          /\ \A r, s \in DOMAIN regions : source[r] = source[s] => r = s
  BY DEF Laid, MadeOf
<1>2. DOMAIN memory_map = 1..Len(memory_map) BY DEF Laid
<1>3. ASSUME NEW x \in Places
      PROVE  LET e == memory_map[source[x[1]]]
             IN  e.type = "usable" /\ e.base <= Address(x)
                 /\ Address(x) + PmmPage <= EntryEnd(e)
  <2> DEFINE e == memory_map[source[x[1]]]
             r == regions[x[1]]
  <2>1. /\ x[1] \in DOMAIN regions /\ r \in Regions
        /\ Address(x) \in Nat /\ r.base <= Address(x)
        /\ Address(x) + PmmPage <= r.base + r.frame_count * PmmPage
    BY PlaceFacts DEF Laid
  <2>2. Inside(r, e) BY <1>1, <2>1
  <2>3. e \in Entry BY <1>1, <1>2, <2>1 DEF Laid
  <2> HIDE DEF e, r
  <2>4. r.base \in Nat /\ r.frame_count \in Nat BY <2>1, RegionFacts
  <2>5. PmmPage \in Nat /\ e.base \in Nat /\ EntryEnd(e) \in Nat
    BY <2>3, EntryFacts, PmmAssumption
  <2>6. r.frame_count * PmmPage \in Nat BY <2>4, <2>5
  <2>7. e.type = "usable" /\ e.base <= Address(x) /\ Address(x) + PmmPage <= EntryEnd(e)
    BY <2>1, <2>2, <2>4, <2>5, <2>6, SMTT(30) DEF Inside
  <2> QED BY <2>7 DEF e
<1> QED BY <1>1, <1>2, <1>3

\* Of an accepted map, a usable entry touches no other.
LEMMA EntriesApart ==
    ASSUME Laid, NEW i \in DOMAIN memory_map, NEW j \in DOMAIN memory_map, i # j,
           memory_map[i].type = "usable"
    PROVE  \/ EntryEnd(memory_map[i]) <= memory_map[j].base
           \/ EntryEnd(memory_map[j]) <= memory_map[i].base
<1>1. i \in Nat /\ j \in Nat /\ memory_map[i] \in Entry /\ memory_map[j] \in Entry
  BY DEF Laid
<1>2. /\ memory_map[i].base \in Nat /\ EntryEnd(memory_map[i]) \in Nat
      /\ memory_map[j].base \in Nat /\ EntryEnd(memory_map[j]) \in Nat
  BY <1>1, EntryFacts
<1>3. {memory_map[i].type, memory_map[j].type} \cap {"usable", "reclaimable"} # {}
      /\ {memory_map[j].type, memory_map[i].type} \cap {"usable", "reclaimable"} # {}
  OBVIOUS
<1>4. ~Refused(memory_map) BY DEF Laid
<1>5. CASE i < j
  <2>1. ~pmm_ranges_overlap(memory_map[i], memory_map[j]) BY <1>3, <1>4, <1>5 DEF Refused
  <2> QED BY <1>2, <2>1 DEF pmm_ranges_overlap
<1>6. CASE j < i
  <2>1. ~pmm_ranges_overlap(memory_map[j], memory_map[i]) BY <1>3, <1>4, <1>6 DEF Refused
  <2> QED BY <1>2, <2>1 DEF pmm_ranges_overlap
<1> QED BY <1>1, <1>5, <1>6

\* Two frames share neither their bit nor an address.
LEMMA PlacesApart ==
    ASSUME Laid, NEW x \in Places, NEW y \in Places, x # y
    PROVE  /\ Bit(x) # Bit(y)
           /\ Address(x) + PmmPage <= Address(y) \/ Address(y) + PmmPage <= Address(x)
<1>0. regions \in Seq(Regions) /\ PmmPage \in Nat \ {0} BY PmmAssumption DEF Laid
<1>1. /\ x = <<x[1], x[2]>> /\ x[1] \in DOMAIN regions /\ regions[x[1]] \in Regions
      /\ x[2] \in 0..(regions[x[1]].frame_count - 1)
      /\ Bit(x) \in Nat /\ Address(x) \in Nat
      /\ regions[x[1]].bitmap_base <= Bit(x) /\ Bit(x) < RegionEnd(regions[x[1]])
  BY <1>0, PlaceFacts
<1>2. /\ y = <<y[1], y[2]>> /\ y[1] \in DOMAIN regions /\ regions[y[1]] \in Regions
      /\ y[2] \in 0..(regions[y[1]].frame_count - 1)
      /\ Bit(y) \in Nat /\ Address(y) \in Nat
      /\ regions[y[1]].bitmap_base <= Bit(y) /\ Bit(y) < RegionEnd(regions[y[1]])
  BY <1>0, PlaceFacts
<1>3. /\ regions[x[1]].bitmap_base \in Nat /\ regions[x[1]].base \in Nat
      /\ regions[x[1]].frame_count \in Nat /\ RegionEnd(regions[x[1]]) \in Nat
      /\ regions[y[1]].bitmap_base \in Nat /\ regions[y[1]].base \in Nat
      /\ regions[y[1]].frame_count \in Nat /\ RegionEnd(regions[y[1]]) \in Nat
  BY <1>1, <1>2, RegionFacts
<1>4. CASE x[1] = y[1]
  <2>1. x[2] # y[2] BY <1>1, <1>2, <1>4
  <2>2. x[2] \in Nat /\ y[2] \in Nat BY <1>1, <1>2, <1>3
  <2>3. /\ Bit(x) = regions[x[1]].bitmap_base + x[2]
        /\ Bit(y) = regions[x[1]].bitmap_base + y[2]
        /\ Address(x) = regions[x[1]].base + x[2] * PmmPage
        /\ Address(y) = regions[x[1]].base + y[2] * PmmPage
    BY <1>4 DEF Bit, Address
  <2>4. Bit(x) # Bit(y) BY <1>3, <2>1, <2>2, <2>3
  <2>5. x[2] * PmmPage \in Nat /\ y[2] * PmmPage \in Nat BY <1>0, <2>2
  <2>6. CASE x[2] < y[2]
    <3>1. x[2] * PmmPage + PmmPage <= y[2] * PmmPage BY <1>0, <2>2, <2>6, Multiples
    <3>2. Address(x) + PmmPage <= Address(y) BY <1>0, <1>3, <2>3, <2>5, <3>1
    <3> QED BY <2>4, <3>2
  <2>7. CASE y[2] < x[2]
    <3>1. y[2] * PmmPage + PmmPage <= x[2] * PmmPage BY <1>0, <2>2, <2>7, Multiples
    <3>2. Address(y) + PmmPage <= Address(x) BY <1>0, <1>3, <2>3, <2>5, <3>1
    <3> QED BY <2>4, <3>2
  <2> QED BY <2>1, <2>2, <2>6, <2>7
<1>5. CASE x[1] # y[1]
  <2>1. x[1] \in Nat /\ y[1] \in Nat BY <1>0, <1>1, <1>2
  <2>2. \A r, s \in DOMAIN regions : r < s => RegionEnd(regions[r]) <= regions[s].bitmap_base
    BY DEF Laid, MadeOf
  <2>3. Bit(x) # Bit(y)
    <3>1. CASE x[1] < y[1]
      <4>1. RegionEnd(regions[x[1]]) <= regions[y[1]].bitmap_base
        BY <1>1, <1>2, <2>2, <3>1
      <4> QED BY <1>1, <1>2, <1>3, <4>1
    <3>2. CASE y[1] < x[1]
      <4>1. RegionEnd(regions[y[1]]) <= regions[x[1]].bitmap_base
        BY <1>1, <1>2, <2>2, <3>2
      <4> QED BY <1>1, <1>2, <1>3, <4>1
    <3> QED BY <1>5, <2>1, <3>1, <3>2
  <2>4. PICK source \in [DOMAIN regions -> DOMAIN memory_map] :
          /\ \A r, s \in DOMAIN regions : source[r] = source[s] => r = s
          /\ \A z \in Places :
                LET e == memory_map[source[z[1]]]
                IN  e.type = "usable" /\ e.base <= Address(z)
                    /\ Address(z) + PmmPage <= EntryEnd(e)
    BY PlaceInEntry
  <2> DEFINE i == source[x[1]]
             j == source[y[1]]
  <2>5. i \in DOMAIN memory_map /\ j \in DOMAIN memory_map /\ i # j
    BY <1>1, <1>2, <1>5, <2>4
  <2>6. /\ memory_map[i].type = "usable" /\ memory_map[i].base <= Address(x)
        /\ Address(x) + PmmPage <= EntryEnd(memory_map[i])
        /\ memory_map[j].base <= Address(y)
        /\ Address(y) + PmmPage <= EntryEnd(memory_map[j])
    BY <2>4
  <2> HIDE DEF i, j
  <2>7. \/ EntryEnd(memory_map[i]) <= memory_map[j].base
        \/ EntryEnd(memory_map[j]) <= memory_map[i].base
    BY <2>5, <2>6, EntriesApart
  <2>8. memory_map[i] \in Entry /\ memory_map[j] \in Entry BY <2>5 DEF Laid
  <2>9. /\ memory_map[i].base \in Nat /\ EntryEnd(memory_map[i]) \in Nat
        /\ memory_map[j].base \in Nat /\ EntryEnd(memory_map[j]) \in Nat
    BY <2>8, EntryFacts
  <2>10. Address(x) + PmmPage <= Address(y) \/ Address(y) + PmmPage <= Address(x)
    <3>1. PmmPage \in Nat /\ Address(x) \in Nat /\ Address(y) \in Nat BY <1>0, <1>1, <1>2
    <3>2. CASE EntryEnd(memory_map[i]) <= memory_map[j].base
      <4>1. Address(x) + PmmPage <= Address(y) BY <2>6, <2>9, <3>1, <3>2
      <4> QED BY <4>1
    <3>3. CASE EntryEnd(memory_map[j]) <= memory_map[i].base
      <4>1. Address(y) + PmmPage <= Address(x) BY <2>6, <2>9, <3>1, <3>3
      <4> QED BY <4>1
    <3> QED BY <2>7, <3>2, <3>3
  <2> QED BY <2>3, <2>10
<1> QED BY <1>4, <1>5

----------------------------------------------------------------------------
(* The memory manager: the steps                                           *)

\* Nothing is out before pmm_init has run, and a frame comes from an accepted map.
LEMMA LaidOnce ==
    ASSUME PmmInv
    PROVE  /\ Places # {} => Laid
           /\ regions = <<>> => Places = {} /\ bitmap = {} /\ held = {}
<1>1. regions = <<>> => Places = {} /\ bitmap = {} /\ held = {}
  <2> SUFFICES ASSUME regions = <<>> PROVE Places = {} /\ bitmap = {} /\ held = {} OBVIOUS
  <2>1. DOMAIN regions = {} OBVIOUS
  <2>2. Places = {} BY <2>1 DEF Places
  <2> QED BY <2>2 DEF PmmInv
<1>2. regions # <<>> => Laid BY DEF PmmInv, Laid
<1> QED BY <1>1, <1>2

\* The frames that are out are those whose bit is set, one each.
LEMMA OutFacts ==
    ASSUME PmmInv, NEW x \in Places
    PROVE  /\ Bit(x) \in bitmap <=> Address(x) \in held
           /\ \A y \in Places : Bit(x) = Bit(y) \/ Address(x) = Address(y) => x = y
<1>1. Laid BY LaidOnce
<1>2. ASSUME NEW y \in Places, x # y PROVE Bit(x) # Bit(y) /\ Address(x) # Address(y)
  <2>1. Address(x) \in Nat /\ Address(y) \in Nat /\ PmmPage \in Nat \ {0}
    BY <1>1, PlaceFacts, PmmAssumption DEF Laid
  <2>2. /\ Bit(x) # Bit(y)
        /\ Address(x) + PmmPage <= Address(y) \/ Address(y) + PmmPage <= Address(x)
    BY <1>1, <1>2, PlacesApart
  <2> QED BY <2>1, <2>2
<1>3. held = {Address(y) : y \in {z \in Places : Bit(z) \in bitmap}} BY DEF PmmInv
<1>4. Bit(x) \in bitmap => Address(x) \in held BY <1>3
<1>5. ASSUME Address(x) \in held PROVE Bit(x) \in bitmap
  <2>1. PICK y \in Places : Bit(y) \in bitmap /\ Address(y) = Address(x) BY <1>3, <1>5
  <2> QED BY <1>2, <2>1
<1> QED BY <1>2, <1>4, <1>5

\* The first state: no region, no frame out.
LEMMA PmmInitInv == PmmInit => PmmInv
<1> SUFFICES ASSUME PmmInit PROVE PmmInv OBVIOUS
<1> USE DEF PmmInit
<1>1. memory_map = <<>> /\ regions = <<>> /\ bitmap = {} /\ held = {} /\ free_frames = 0 OBVIOUS
<1>2. <<>> \in Seq(Entry) /\ <<>> \in Seq(Regions) /\ DOMAIN <<>> = {} OBVIOUS
<1>3. TotalFrames(<<>>) = 0 /\ FrameMax \in Nat BY PmmAssumption DEF TotalFrames
<1>4. MadeOf(regions, memory_map, Len(memory_map))
  <2>1. Len(memory_map) = 0 BY <1>1
  <2> QED BY <1>1, <2>1, NothingMade
<1>5. Places = {} BY <1>1, <1>2 DEF Places
<1>6. IsFiniteSet({}) /\ Cardinality({}) = 0 BY FS_EmptySet
<1> QED BY <1>1, <1>2, <1>3, <1>4, <1>5, <1>6 DEF PmmInv

\* pmm_init.
LEMMA PmmInitKeeps ==
    ASSUME PmmInv, NEW n \in 1..EntryMax, NEW map \in [1..n -> Entry], pmm_init(map)
    PROVE  PmmInv'
<1>1. /\ regions = <<>> /\ ~Refused(map)
      /\ memory_map' = map /\ regions' = RegionsOf(map)
      /\ free_frames' = TotalFrames(RegionsOf(map))
      /\ bitmap' = bitmap /\ held' = held
  BY DEF pmm_init
<1>2. bitmap = {} /\ held = {} BY <1>1, LaidOnce
<1>3. map \in Seq(Entry)
  <2>1. n \in Nat BY PmmAssumption
  <2>2. map = [i \in 1..n |-> map[i]] /\ \A i \in 1..n : map[i] \in Entry OBVIOUS
  <2>3. [i \in 1..n |-> map[i]] \in Seq(Entry) BY <2>1, <2>2
  <2> QED BY <2>2, <2>3
<1>4. MadeOf(RegionsOf(map), map, Len(map)) BY <1>3, RegionsOfMade
<1>5. TotalFrames(RegionsOf(map)) \in 0..FrameMax /\ FrameMax \in Nat
  BY <1>4, PmmAssumption DEF MadeOf
<1>6. IsFiniteSet({}) /\ Cardinality({}) = 0 BY FS_EmptySet
<1>7. bitmap' = {} /\ held' = {} BY <1>1, <1>2
<1>8. /\ memory_map' \in Seq(Entry) /\ regions' \in Seq(Regions)
      /\ MadeOf(regions', memory_map', Len(memory_map'))
      /\ ~Refused(memory_map')
  BY <1>1, <1>3, <1>4 DEF MadeOf
<1>9. free_frames' = TotalFrames(regions') - 0 BY <1>1, <1>5
<1> QED BY <1>6, <1>7, <1>8, <1>9 DEF PmmInv

\* The frames of an unchanged table are unchanged.
LEMMA SamePlaces ==
    ASSUME regions' = regions
    PROVE  /\ Places' = Places
           /\ \A x : Bit(x)' = Bit(x) /\ Address(x)' = Address(x)
BY DEF Places, Bit, Address

\* pmm_alloc_frame_in_range.
LEMMA FrameAllocKeeps ==
    ASSUME PmmInv, NEW minimum, NEW maximum, pmm_alloc_frame_in_range(minimum, maximum)
    PROVE  PmmInv'
<1>1. PICK x \in Places : /\ Bit(x) \notin bitmap
                          /\ bitmap' = bitmap \cup {Bit(x)}
                          /\ held' = held \cup {Address(x)}
  BY DEF pmm_alloc_frame_in_range
<1>2. memory_map' = memory_map /\ regions' = regions /\ free_frames' = free_frames - 1
  BY DEF pmm_alloc_frame_in_range
<1>3. Places' = Places /\ \A y : Bit(y)' = Bit(y) /\ Address(y)' = Address(y)
  BY <1>2, SamePlaces
<1>4. Address(x) \notin held BY <1>1, OutFacts
<1>5. /\ IsFiniteSet(bitmap') /\ Cardinality(bitmap') = Cardinality(bitmap) + 1
      /\ IsFiniteSet(held') /\ Cardinality(held') = Cardinality(held) + 1
  BY <1>1, <1>4, FS_AddElement DEF PmmInv
<1>6. held' = {Address(y) : y \in {z \in Places : Bit(z) \in bitmap'}}
  <2>1. \A y \in Places : Bit(y) \in bitmap' <=> Bit(y) \in bitmap \/ y = x
    BY <1>1, OutFacts
  <2> HIDE DEF Places, Bit, Address
  <2>2. held = {Address(y) : y \in {z \in Places : Bit(z) \in bitmap}} BY DEF PmmInv
  <2>3. {Address(y) : y \in {z \in Places : Bit(z) \in bitmap'}} = held \cup {Address(x)}
    BY <2>1, <2>2
  <2> QED BY <1>1, <2>3
<1>7. held' = {Address(y)' : y \in {z \in Places' : Bit(z)' \in bitmap'}} BY <1>3, <1>6
<1>8. bitmap' \subseteq {Bit(y)' : y \in Places'}
  <2>1. bitmap \subseteq {Bit(y) : y \in Places} BY DEF PmmInv
  <2>2. bitmap' \subseteq {Bit(y) : y \in Places} BY <1>1, <2>1
  <2> QED BY <1>3, <2>2
<1>9. /\ memory_map' \in Seq(Entry) /\ regions' \in Seq(Regions)
      /\ MadeOf(regions', memory_map', Len(memory_map'))
      /\ (regions' # <<>> => ~Refused(memory_map'))
  BY <1>2 DEF PmmInv
<1>10. Cardinality(bitmap') = Cardinality(held') BY <1>5 DEF PmmInv
<1>11. free_frames' = TotalFrames(regions') - Cardinality(held')
  <2>1. TotalFrames(regions) \in Nat /\ Cardinality(held) \in Nat
    BY FS_CardinalityType, PmmAssumption DEF PmmInv, MadeOf
  <2>2. free_frames = TotalFrames(regions) - Cardinality(held) BY DEF PmmInv
  <2> QED BY <1>2, <1>5, <2>1, <2>2
<1> QED BY <1>5, <1>7, <1>8, <1>9, <1>10, <1>11 DEF PmmInv

\* pmm_free_frame.
LEMMA FrameFreeKeeps ==
    ASSUME PmmInv, NEW a, pmm_free_frame(a)
    PROVE  PmmInv'
<1>1. PICK x \in Places : /\ Address(x) = a /\ Bit(x) \in bitmap
                          /\ bitmap' = bitmap \ {Bit(x)}
  BY DEF pmm_free_frame
<1>2. /\ memory_map' = memory_map /\ regions' = regions /\ free_frames' = free_frames + 1
      /\ held' = held \ {Address(x)}
  BY <1>1 DEF pmm_free_frame
<1>3. Places' = Places /\ \A y : Bit(y)' = Bit(y) /\ Address(y)' = Address(y)
  BY <1>2, SamePlaces
<1>4. Address(x) \in held BY <1>1, OutFacts
<1>5. /\ IsFiniteSet(bitmap') /\ Cardinality(bitmap') = Cardinality(bitmap) - 1
      /\ IsFiniteSet(held') /\ Cardinality(held') = Cardinality(held) - 1
  BY <1>1, <1>2, <1>4, FS_RemoveElement DEF PmmInv
<1>6. held' = {Address(y) : y \in {z \in Places : Bit(z) \in bitmap'}}
  <2>1. \A y \in Places : Bit(y) \in bitmap' <=> Bit(y) \in bitmap /\ y # x
    BY <1>1, OutFacts
  <2>2. \A y \in Places : Address(y) = Address(x) => y = x BY OutFacts
  <2>3. held = {Address(y) : y \in {z \in Places : Bit(z) \in bitmap}} BY DEF PmmInv
  <2>4. {Address(y) : y \in {z \in Places : Bit(z) \in bitmap'}} = held \ {Address(x)}
    BY <2>1, <2>2, <2>3
  <2> QED BY <1>2, <2>4
<1>7. held' = {Address(y)' : y \in {z \in Places' : Bit(z)' \in bitmap'}} BY <1>3, <1>6
<1>8. bitmap' \subseteq {Bit(y)' : y \in Places'}
  <2>1. bitmap \subseteq {Bit(y) : y \in Places} BY DEF PmmInv
  <2>2. bitmap' \subseteq {Bit(y) : y \in Places} BY <1>1, <2>1
  <2> QED BY <1>3, <2>2
<1>9. /\ memory_map' \in Seq(Entry) /\ regions' \in Seq(Regions)
      /\ MadeOf(regions', memory_map', Len(memory_map'))
      /\ (regions' # <<>> => ~Refused(memory_map'))
  BY <1>2 DEF PmmInv
<1>10. Cardinality(bitmap') = Cardinality(held') BY <1>5 DEF PmmInv
<1>11. free_frames' = TotalFrames(regions') - Cardinality(held')
  <2>1. TotalFrames(regions) \in Nat /\ Cardinality(held) \in Nat
    BY FS_CardinalityType, PmmAssumption DEF PmmInv, MadeOf
  <2>2. free_frames = TotalFrames(regions) - Cardinality(held) BY DEF PmmInv
  <2> QED BY <1>2, <1>5, <2>1, <2>2
<1> QED BY <1>5, <1>7, <1>8, <1>9, <1>10, <1>11 DEF PmmInv

\* What is out lies in usable memory and touches nothing else.
LEMMA OutIsUsable ==
    ASSUME PmmInv, NEW a \in held
    PROVE  \E i \in DOMAIN memory_map :
             /\ memory_map[i].type = "usable"
             /\ memory_map[i].base <= a /\ a + PmmPage <= EntryEnd(memory_map[i])
             /\ \A j \in DOMAIN memory_map \ {i} :
                   ~pmm_ranges_overlap([base |-> a, length |-> PmmPage], memory_map[j])
<1>1. PICK x \in Places : a = Address(x) BY DEF PmmInv
<1>2. Laid BY <1>1, LaidOnce
<1>3. PmmPage \in Nat \ {0} /\ a \in Nat BY <1>1, <1>2, PlaceFacts, PmmAssumption DEF Laid
<1>4. PICK i \in DOMAIN memory_map :
          /\ memory_map[i].type = "usable"
          /\ memory_map[i].base <= a /\ a + PmmPage <= EntryEnd(memory_map[i])
  <2>1. PICK source \in [DOMAIN regions -> DOMAIN memory_map] :
          \A z \in Places :
                LET e == memory_map[source[z[1]]]
                IN  e.type = "usable" /\ e.base <= Address(z)
                    /\ Address(z) + PmmPage <= EntryEnd(e)
    BY <1>2, PlaceInEntry
  <2>2. x[1] \in DOMAIN regions BY <1>2, PlaceFacts DEF Laid
  <2> QED BY <1>1, <2>1, <2>2
<1>5. ASSUME NEW j \in DOMAIN memory_map \ {i}
      PROVE  ~pmm_ranges_overlap([base |-> a, length |-> PmmPage], memory_map[j])
  <2>1. memory_map[i] \in Entry /\ memory_map[j] \in Entry BY <1>2 DEF Laid
  <2>2. /\ memory_map[i].base \in Nat /\ EntryEnd(memory_map[i]) \in Nat
        /\ memory_map[j].base \in Nat /\ EntryEnd(memory_map[j]) \in Nat
    BY <2>1, EntryFacts
  <2>3. \/ EntryEnd(memory_map[i]) <= memory_map[j].base
        \/ EntryEnd(memory_map[j]) <= memory_map[i].base
    BY <1>2, <1>4, EntriesApart
  <2>4. EntryEnd([base |-> a, length |-> PmmPage]) = a + PmmPage BY DEF EntryEnd
  <2>5. ~(a < EntryEnd(memory_map[j]) /\ memory_map[j].base < a + PmmPage)
    BY <1>3, <1>4, <2>2, <2>3
  <2> QED BY <2>4, <2>5 DEF pmm_ranges_overlap
<1> QED BY <1>4, <1>5

\* The invariant says what pmm_init and pmm_alloc_frame_in_range promise.
LEMMA InvFramesTrue == PmmInv => FramesTrue
<1> SUFFICES ASSUME PmmInv PROVE FramesTrue OBVIOUS
<1>1. ASSUME NEW a \in held, NEW b \in held, a # b
      PROVE  a + PmmPage <= b \/ b + PmmPage <= a
  <2>1. PICK x \in Places : a = Address(x) BY DEF PmmInv
  <2>2. PICK y \in Places : b = Address(y) BY DEF PmmInv
  <2> QED BY <1>1, <2>1, <2>2, LaidOnce, PlacesApart
<1> QED BY <1>1, OutIsUsable DEF FramesTrue, PmmInv

\* A frame is handed out once, from usable memory, and counted: the property of
\* pmm_init, pmm_alloc_frame_in_range and pmm_free_frame.
THEOREM FramesTrueAlways == PmmSpec => []FramesTrue
<1>1. PmmInv /\ [PmmNext]_pmmVars => PmmInv'
  <2> SUFFICES ASSUME PmmInv, [PmmNext]_pmmVars PROVE PmmInv' OBVIOUS
  <2>1. CASE UNCHANGED pmmVars
    <3>1. /\ memory_map' = memory_map /\ regions' = regions /\ bitmap' = bitmap
          /\ free_frames' = free_frames /\ held' = held
      BY <2>1 DEF pmmVars
    <3>2. Places' = Places /\ \A y : Bit(y)' = Bit(y) /\ Address(y)' = Address(y)
      BY <3>1, SamePlaces
    <3> QED BY <3>1, <3>2 DEF PmmInv
  <2>2. CASE PmmNext BY <2>2, PmmInitKeeps, FrameAllocKeeps, FrameFreeKeeps DEF PmmNext
  <2> QED BY <2>1, <2>2
<1> QED BY <1>1, PmmInitInv, InvFramesTrue, PTL DEF PmmSpec
----------------------------------------------------------------------------
(* The heap                                                                *)

HeapSpec == HeapInit /\ [][HeapNext]_heapVars

Block == [size : Nat, used : BOOLEAN]

\* A list of blocks of legal sizes.
BlocksOK(bs) ==
    /\ bs \in Seq(Block) /\ Len(bs) # 0
    /\ \A i \in DOMAIN bs : bs[i].size >= Alignment /\ bs[i].size % Alignment = 0

\* Two blocks side by side are not both free, but for the pairs that end in E.
Apart(bs, E) == \A i \in DOMAIN bs : i > 1 => bs[i].used \/ bs[i - 1].used \/ i \in E

\* What is in use, and where the last block ends.
Allocations(bs) ==
    {<<Payload_address(bs, i), bs[i].size>> : i \in {j \in DOMAIN bs : bs[j].used}}
Bound(bs) == Payload_address(bs, Len(bs) + 1) - HeaderSize

HeapInv ==
    /\ mapped_pages \in 1..HeapPageMax
    /\ BlocksOK(blocks) /\ Apart(blocks, {})
    /\ Bound(blocks) = mapped_pages * HeapPage
    /\ corrupted = FALSE
    /\ live \in [{x[1] : x \in Allocations(blocks)} -> Nat]
    /\ \A x \in Allocations(blocks) : live[x[1]] <= x[2]

\* Where the payloads of a list begin, told without recursion.
Sums(bs, g) ==
    /\ g \in [1..(Len(bs) + 1) -> Nat] /\ g[1] = HeaderSize
    /\ \A i \in 1..Len(bs) : g[i + 1] = g[i] + bs[i].size + HeaderSize

\* What a list of blocks is made of.
LEMMA BlockFacts ==
    ASSUME NEW bs \in Seq(Block)
    PROVE  /\ Len(bs) \in Nat /\ DOMAIN bs = 1..Len(bs)
           /\ \A i \in DOMAIN bs : bs[i].size \in Nat /\ bs[i].used \in BOOLEAN
           /\ HeaderSize \in Nat \ {0}
<1>1. Len(bs) \in Nat /\ DOMAIN bs = 1..Len(bs) OBVIOUS
<1>2. \A i \in DOMAIN bs : bs[i] \in Block OBVIOUS
<1>3. \A b \in Block : b.size \in Nat /\ b.used \in BOOLEAN BY DEF Block
<1>4. HeaderSize \in Nat \ {0} BY HeapAssumption
<1> QED BY <1>1, <1>2, <1>3, <1>4

\* Such sums exist.
LEMMA SumsExist ==
    ASSUME NEW bs \in Seq(Block)
    PROVE  \E g : Sums(bs, g)
<1> DEFINE N == Len(bs)
           Advance == [x \in Nat \X (1..N) |-> x[1] + bs[x[2]].size + HeaderSize]
<1>1. N \in Nat /\ DOMAIN bs = 1..N /\ HeaderSize \in Nat
      /\ \A i \in 1..N : bs[i].size \in Nat
  BY BlockFacts
<1> HIDE DEF N
<1>2. \A a \in Nat, i \in 1..N : Advance[<<a, i>>] = a + bs[i].size + HeaderSize OBVIOUS
<1> HIDE DEF Advance
<1>3. StaysIn(Advance, Nat, N)
  <2>1. \A a \in Nat, i \in 1..N : a + bs[i].size + HeaderSize \in Nat BY <1>1
  <2> QED BY <1>2, <2>1 DEF StaysIn
<1>4. PICK h : Iterates(h, Advance, Nat, HeaderSize, N) BY <1>1, <1>3, Iteration
<1>5. /\ h \in [0..N -> Nat] /\ h[0] = HeaderSize
      /\ \A i \in 1..N : h[i] = Advance[<<h[i - 1], i>>]
  BY <1>4 DEF Iterates
<1> DEFINE g == [i \in 1..(N + 1) |-> h[i - 1]]
<1>6. g \in [1..(N + 1) -> Nat] /\ g[1] = HeaderSize BY <1>1, <1>5
<1>7. ASSUME NEW i \in 1..N PROVE g[i + 1] = g[i] + bs[i].size + HeaderSize
  <2>1. g[i + 1] = h[i] /\ g[i] = h[i - 1] /\ h[i - 1] \in Nat BY <1>1, <1>5
  <2>2. h[i] = Advance[<<h[i - 1], i>>] BY <1>5
  <2> QED BY <1>2, <2>1, <2>2
<1>8. Sums(bs, g) BY <1>6, <1>7 DEF Sums, N
<1> QED BY <1>8

\* Payload_address computes them.
LEMMA AddressIs ==
    ASSUME NEW bs \in Seq(Block), NEW g, Sums(bs, g), NEW i \in 1..(Len(bs) + 1)
    PROVE  Payload_address(bs, i) = g[i]
<1> DEFINE at == CHOOSE f : f = [k \in 1..i |->
                    IF k = 1 THEN HeaderSize ELSE f[k - 1] + bs[k - 1].size + HeaderSize]
           h == [k \in 1..i |-> g[k]]
<1>1. Payload_address(bs, i) = at[i] BY DEF Payload_address
<1>2. Len(bs) \in Nat /\ i \in Nat \ {0} BY BlockFacts
<1>3. /\ g[1] = HeaderSize
      /\ \A k \in 1..Len(bs) : g[k + 1] = g[k] + bs[k].size + HeaderSize
  BY DEF Sums
<1>4. \A k \in 1..i : k # 1 => g[k] = g[k - 1] + bs[k - 1].size + HeaderSize
  <2> SUFFICES ASSUME NEW k \in 1..i, k # 1
               PROVE  g[k] = g[k - 1] + bs[k - 1].size + HeaderSize
    OBVIOUS
  <2>1. k - 1 \in 1..Len(bs) /\ (k - 1) + 1 = k BY <1>2
  <2> QED BY <1>3, <2>1
<1>5. \A k \in 1..i : k # 1 => k - 1 \in 1..i BY <1>2
<1>6. \A k \in 1..i : h[k] = g[k] OBVIOUS
<1>7. h = [k \in 1..i |->
              IF k = 1 THEN HeaderSize ELSE h[k - 1] + bs[k - 1].size + HeaderSize]
  BY <1>3, <1>4, <1>5, <1>6
<1> HIDE DEF h
<1>8. at = [k \in 1..i |->
              IF k = 1 THEN HeaderSize ELSE at[k - 1] + bs[k - 1].size + HeaderSize]
  BY <1>7
<1> HIDE DEF at
<1>9. at[1] = HeaderSize BY <1>2, <1>8
<1>10. \A k \in 1..i : k # 1 => at[k] = at[k - 1] + bs[k - 1].size + HeaderSize
  BY <1>8
<1> DEFINE N == {n \in Nat : n + 1 <= i => at[n + 1] = g[n + 1]}
<1>11. 0 \in N BY <1>3, <1>9
<1>12. ASSUME NEW n \in Nat, n \in N PROVE n + 1 \in N
  <2> SUFFICES ASSUME (n + 1) + 1 <= i PROVE at[(n + 1) + 1] = g[(n + 1) + 1] OBVIOUS
  <2>1. at[n + 1] = g[n + 1] BY <1>2, <1>12
  <2>2. (n + 1) + 1 \in 1..i /\ (n + 1) + 1 # 1 /\ ((n + 1) + 1) - 1 = n + 1 BY <1>2
  <2> QED BY <1>4, <1>10, <2>1, <2>2
<1>13. i - 1 \in N
  <2> HIDE DEF N
  <2>1. Nat \subseteq N BY <1>11, <1>12, SetInduction
  <2> QED BY <1>2, <2>1
<1>14. at[i] = g[i] BY <1>2, <1>13
<1> QED BY <1>1, <1>14

\* The addresses of the payloads.
LEMMA PayloadAddresses ==
    ASSUME NEW bs \in Seq(Block)
    PROVE  /\ \A i \in 1..(Len(bs) + 1) : Payload_address(bs, i) \in Nat
           /\ Payload_address(bs, 1) = HeaderSize
           /\ \A i \in 1..Len(bs) : Payload_address(bs, i + 1)
                                        = Payload_address(bs, i) + bs[i].size + HeaderSize
<1>1. PICK g : Sums(bs, g) BY SumsExist
<1>2. \A i \in 1..(Len(bs) + 1) : Payload_address(bs, i) = g[i] BY <1>1, AddressIs
<1>3. Len(bs) \in Nat BY BlockFacts
<1>4. 1 \in 1..(Len(bs) + 1) BY <1>3
<1>5. \A i \in 1..Len(bs) : i \in 1..(Len(bs) + 1) /\ i + 1 \in 1..(Len(bs) + 1) BY <1>3
<1> QED BY <1>1, <1>2, <1>4, <1>5 DEF Sums

\* They grow, so that no two blocks have one address.
LEMMA AddressesGrow ==
    ASSUME NEW bs \in Seq(Block), NEW i \in DOMAIN bs, NEW j \in DOMAIN bs, i < j
    PROVE  Payload_address(bs, i) < Payload_address(bs, j)
<1>1. Len(bs) \in Nat /\ DOMAIN bs = 1..Len(bs) /\ HeaderSize \in Nat \ {0}
      /\ \A k \in 1..Len(bs) : bs[k].size \in Nat
  BY BlockFacts
<1> DEFINE A(k) == Payload_address(bs, k)
           N == {n \in Nat : i + 1 + n <= Len(bs) => A(i) < A(i + 1 + n)}
<1>2. /\ \A k \in 1..(Len(bs) + 1) : A(k) \in Nat
      /\ \A k \in 1..Len(bs) : A(k + 1) = A(k) + bs[k].size + HeaderSize
  BY PayloadAddresses
<1> HIDE DEF A
<1>3. \A k \in 1..Len(bs) : A(k) < A(k + 1)
  <2> SUFFICES ASSUME NEW k \in 1..Len(bs) PROVE A(k) < A(k + 1) OBVIOUS
  <2>1. k \in 1..(Len(bs) + 1) BY <1>1
  <2>2. A(k) \in Nat /\ bs[k].size \in Nat BY <1>1, <1>2, <2>1
  <2> QED BY <1>1, <1>2, <2>2
<1>4. i \in Nat /\ j \in Nat /\ j <= Len(bs) /\ i \in 1..Len(bs) BY <1>1
<1>5. 0 \in N BY <1>3, <1>4
<1>6. ASSUME NEW n \in Nat, n \in N PROVE n + 1 \in N
  <2> SUFFICES ASSUME i + 1 + (n + 1) <= Len(bs) PROVE A(i) < A(i + 1 + (n + 1)) OBVIOUS
  <2>1. A(i) < A(i + 1 + n) BY <1>1, <1>4, <1>6
  <2>2. i + 1 + n \in 1..Len(bs) /\ (i + 1 + n) + 1 = i + 1 + (n + 1) BY <1>1, <1>4
  <2>3. A(i + 1 + n) < A(i + 1 + (n + 1)) BY <1>3, <2>2
  <2>4. i \in 1..(Len(bs) + 1) /\ i + 1 + n \in 1..(Len(bs) + 1)
        /\ i + 1 + (n + 1) \in 1..(Len(bs) + 1)
    BY <1>1, <1>4
  <2>5. A(i) \in Nat /\ A(i + 1 + n) \in Nat /\ A(i + 1 + (n + 1)) \in Nat BY <1>2, <2>4
  <2> QED BY <2>1, <2>3, <2>5
<1>7. j - i - 1 \in N
  <2> HIDE DEF N
  <2>1. Nat \subseteq N BY <1>5, <1>6, SetInduction
  <2> QED BY <1>4, <2>1
<1>8. i + 1 + (j - i - 1) = j BY <1>4
<1>9. A(i) < A(j) BY <1>4, <1>7, <1>8
<1> QED BY <1>9 DEF A

\* Blocks with one address are one block.
LEMMA AddressesDiffer ==
    ASSUME NEW bs \in Seq(Block), NEW i \in DOMAIN bs, NEW j \in DOMAIN bs,
           Payload_address(bs, i) = Payload_address(bs, j)
    PROVE  i = j
<1>1. Len(bs) \in Nat /\ DOMAIN bs = 1..Len(bs) BY BlockFacts
<1>2. Payload_address(bs, i) \in Nat
  <2>1. i \in 1..(Len(bs) + 1) BY <1>1
  <2> QED BY <2>1, PayloadAddresses
<1>3. CASE i < j
  <2>1. Payload_address(bs, i) < Payload_address(bs, j) BY <1>3, AddressesGrow
  <2> QED BY <1>2, <2>1
<1>4. CASE j < i
  <2>1. Payload_address(bs, j) < Payload_address(bs, i) BY <1>4, AddressesGrow
  <2> QED BY <1>2, <2>1
<1> QED BY <1>1, <1>3, <1>4

\* n blocks of cs, from the c-th on, have the sizes of those of bs from the a-th on,
\* and begin d further on.
SameSizes(bs, a, cs, c, n, d) ==
    /\ bs \in Seq(Block) /\ cs \in Seq(Block) /\ d \in Nat /\ n \in Nat
    /\ a \in Nat \ {0} /\ c \in Nat \ {0} /\ a + n <= Len(bs) + 1 /\ c + n <= Len(cs) + 1
    /\ \A j \in 0..(n - 1) : cs[c + j].size = bs[a + j].size
    /\ Payload_address(cs, c) = Payload_address(bs, a) + d
Moved(bs, a, cs, c, n, d) ==
    \A j \in 0..n : Payload_address(cs, c + j) = Payload_address(bs, a + j) + d

\* So do the addresses.
LEMMA SameRun ==
    ASSUME NEW bs, NEW cs, NEW a, NEW c, NEW n, NEW d, SameSizes(bs, a, cs, c, n, d)
    PROVE  Moved(bs, a, cs, c, n, d)
<1> USE DEF SameSizes, Moved
<1> DEFINE A(k) == Payload_address(bs, k)
           C(k) == Payload_address(cs, k)
           N == {j \in Nat : j <= n => C(c + j) = A(a + j) + d}
<1>1. /\ Len(bs) \in Nat /\ Len(cs) \in Nat /\ HeaderSize \in Nat
      /\ \A k \in 1..Len(bs) : bs[k].size \in Nat
  BY BlockFacts
<1>2. /\ \A k \in 1..(Len(bs) + 1) : A(k) \in Nat
      /\ \A k \in 1..Len(bs) : A(k + 1) = A(k) + bs[k].size + HeaderSize
      /\ \A k \in 1..Len(cs) : C(k + 1) = C(k) + cs[k].size + HeaderSize
  BY PayloadAddresses
<1>3. C(c) = A(a) + d OBVIOUS
<1> HIDE DEF A, C
<1>4. 0 \in N
  <2>1. c + 0 = c /\ a + 0 = a OBVIOUS
  <2> QED BY <1>3, <2>1
<1>5. ASSUME NEW j \in Nat, j \in N PROVE j + 1 \in N
  <2> SUFFICES ASSUME j + 1 <= n PROVE C(c + (j + 1)) = A(a + (j + 1)) + d OBVIOUS
  <2>1. C(c + j) = A(a + j) + d BY <1>5
  <2> HIDE DEF N
  <2>2. /\ c + j \in 1..Len(cs) /\ a + j \in 1..Len(bs) /\ a + j \in 1..(Len(bs) + 1)
        /\ (c + j) + 1 = c + (j + 1) /\ (a + j) + 1 = a + (j + 1) /\ j \in 0..(n - 1)
    <3>1. c + j \in 1..Len(cs) BY <1>1
    <3>2. a + j \in 1..Len(bs) BY <1>1
    <3>3. (c + j) + 1 = c + (j + 1) /\ (a + j) + 1 = a + (j + 1) OBVIOUS
    <3>4. j \in 0..(n - 1) OBVIOUS
    <3> QED BY <1>1, <3>1, <3>2, <3>3, <3>4
  <2>3. C(c + (j + 1)) = C(c + j) + cs[c + j].size + HeaderSize BY <1>2, <2>2
  <2>4. A(a + (j + 1)) = A(a + j) + bs[a + j].size + HeaderSize BY <1>2, <2>2
  <2>5. cs[c + j].size = bs[a + j].size BY <2>2
  <2>6. A(a + j) \in Nat /\ bs[a + j].size \in Nat BY <1>1, <1>2, <2>2
  <2>7. C(c + (j + 1)) = A(a + j) + d + bs[a + j].size + HeaderSize BY <2>1, <2>3, <2>5
  <2>8. A(a + j) + d + bs[a + j].size + HeaderSize = A(a + j) + bs[a + j].size + HeaderSize + d
    <3> DEFINE v == A(a + j)
               w == bs[a + j].size
    <3>1. v \in Nat /\ w \in Nat /\ d \in Nat BY <1>1, <2>2, <2>6
    <3> HIDE DEF v, w
    <3>2. v + d + w + HeaderSize = v + w + HeaderSize + d BY <1>1, <3>1
    <3> QED BY <3>2 DEF v, w
  <2> QED BY <2>4, <2>7, <2>8
<1>6. \A j \in 0..n : C(c + j) = A(a + j) + d
  <2> HIDE DEF N
  <2>1. Nat \subseteq N BY <1>4, <1>5, SetInduction
  <2>2. \A j \in 0..n : j \in N /\ j <= n BY <2>1
  <2> QED BY <2>2 DEF N
<1> QED BY <1>6 DEF A, C

\* cs is bs with new in the place of the k blocks from the i-th on.
RelinkedAs(bs, i, k, new, cs) ==
    /\ cs \in Seq(Block) /\ Len(cs) = Len(bs) + Len(new) - k
    /\ \A j \in 1..(i - 1) : cs[j] = bs[j]
    /\ \A j \in 1..Len(new) : cs[i + j - 1] = new[j]
    /\ \A j \in 0..(Len(bs) - i - k) : cs[i + Len(new) + j] = bs[i + k + j]

Spliced(bs, i, k, new, cs) ==
    /\ bs \in Seq(Block) /\ new \in Seq(Block)
    /\ i \in Nat \ {0} /\ k \in Nat /\ i + k <= Len(bs) + 1
    /\ RelinkedAs(bs, i, k, new, cs)

\* A list built as heap_allocate_from_block and heap_merge_with_next relink it.
LEMMA RelinkedIs ==
    ASSUME NEW bs \in Seq(Block), NEW new \in Seq(Block), NEW i \in Nat \ {0}, NEW k \in Nat,
           i + k <= Len(bs) + 1
    PROVE  Spliced(bs, i, k, new, Relinked(bs, i, k, new))
<1> DEFINE L == SubSeq(bs, 1, i - 1)
           R == SubSeq(bs, i + k, Len(bs))
           cs == (L \o new) \o R
<1>1. Len(bs) \in Nat /\ Len(new) \in Nat OBVIOUS
<1>2. /\ L \in Seq(Block) /\ Len(L) = i - 1 /\ \A j \in 1..(i - 1) : L[j] = bs[j]
  BY <1>1
<1>3. /\ R \in Seq(Block) /\ Len(R) = Len(bs) + 1 - i - k
      /\ \A j \in 1..Len(R) : R[j] = bs[i + k + j - 1]
  BY <1>1
<1> HIDE DEF L, R
<1>4. /\ L \o new \in Seq(Block) /\ Len(L \o new) = i - 1 + Len(new)
      /\ \A j \in 1..(i - 1) : (L \o new)[j] = bs[j]
      /\ \A j \in 1..Len(new) : (L \o new)[i + j - 1] = new[j]
  <2>1. Len(L) \in Nat BY <1>2
  <2>2. L \o new \in Seq(Block) /\ Len(L \o new) = Len(L) + Len(new) BY <1>2, ConcatProperties
  <2>3. \A j \in 1..(Len(L) + Len(new)) :
            (L \o new)[j] = IF j <= Len(L) THEN L[j] ELSE new[j - Len(L)]
    BY <1>2, ConcatProperties
  <2>4. ASSUME NEW j \in 1..(i - 1) PROVE (L \o new)[j] = bs[j]
    <3>1. j \in 1..(Len(L) + Len(new)) /\ j <= Len(L) BY <1>1, <1>2
    <3>2. (L \o new)[j] = L[j] BY <2>3, <3>1
    <3> QED BY <1>2, <3>2
  <2>5. ASSUME NEW j \in 1..Len(new) PROVE (L \o new)[i + j - 1] = new[j]
    <3>1. i + j - 1 \in 1..(Len(L) + Len(new)) /\ ~(i + j - 1 <= Len(L))
          /\ (i + j - 1) - Len(L) = j
      BY <1>1, <1>2
    <3> QED BY <2>3, <3>1
  <2> QED BY <1>2, <2>2, <2>4, <2>5
<1> DEFINE M == L \o new
<1>5. M \in Seq(Block) /\ Len(M) = i - 1 + Len(new)
      /\ (\A j \in 1..(i - 1) : M[j] = bs[j]) /\ (\A j \in 1..Len(new) : M[i + j - 1] = new[j])
  BY <1>4
<1> HIDE DEF M
<1>6. /\ M \o R \in Seq(Block) /\ Len(M \o R) = Len(M) + Len(R)
      /\ \A j \in 1..Len(M) : (M \o R)[j] = M[j]
      /\ \A j \in 1..Len(R) : (M \o R)[Len(M) + j] = R[j]
  <2>1. Len(M) \in Nat /\ Len(R) \in Nat BY <1>3, <1>5
  <2>2. M \o R \in Seq(Block) /\ Len(M \o R) = Len(M) + Len(R) BY <1>3, <1>5, ConcatProperties
  <2>3. \A j \in 1..(Len(M) + Len(R)) :
            (M \o R)[j] = IF j <= Len(M) THEN M[j] ELSE R[j - Len(M)]
    BY <1>3, <1>5, ConcatProperties
  <2>4. \A j \in 1..Len(M) : (M \o R)[j] = M[j] BY <2>1, <2>3
  <2>5. ASSUME NEW j \in 1..Len(R) PROVE (M \o R)[Len(M) + j] = R[j]
    <3>1. Len(M) + j \in 1..(Len(M) + Len(R)) /\ ~(Len(M) + j <= Len(M))
          /\ (Len(M) + j) - Len(M) = j
      BY <2>1
    <3> QED BY <2>3, <3>1
  <2> QED BY <2>2, <2>4, <2>5
<1> DEFINE C == M \o R
<1>7. C \in Seq(Block) /\ Len(C) = Len(bs) + Len(new) - k BY <1>1, <1>3, <1>5, <1>6
<1>8. \A j \in 1..(i - 1) : C[j] = bs[j] BY <1>1, <1>5, <1>6
<1>9. \A j \in 1..Len(new) : C[i + j - 1] = new[j] BY <1>1, <1>5, <1>6
<1>10. ASSUME NEW j \in 0..(Len(bs) - i - k) PROVE C[i + Len(new) + j] = bs[i + k + j]
  <2> DEFINE l == Len(new)
             m == Len(M)
             n == Len(R)
             b == Len(bs)
  <2>1. /\ l \in Nat /\ b \in Nat /\ m = i - 1 + l /\ n = b + 1 - i - k
        /\ j \in 0..(b - i - k)
    BY <1>1, <1>3, <1>5
  <2> HIDE DEF l, m, n, b
  <2>2. j + 1 \in 1..n /\ m + (j + 1) = i + l + j /\ i + k + (j + 1) - 1 = i + k + j BY <2>1
  <2>3. R[j + 1] = bs[i + k + (j + 1) - 1] /\ C[m + (j + 1)] = R[j + 1]
    BY <1>3, <1>6, <2>2 DEF m, n
  <2>4. C[i + l + j] = bs[i + k + j] BY <2>2, <2>3
  <2> QED BY <2>4 DEF l
<1>11. Relinked(bs, i, k, new) = C BY DEF Relinked, C, M, L, R
<1> HIDE DEF C
<1> QED BY <1>7, <1>8, <1>9, <1>10, <1>11 DEF Spliced, RelinkedAs

\* The places of a list with new blocks.
LEMMA SplicedFacts ==
    ASSUME NEW bs, NEW i, NEW k, NEW new, NEW cs, Spliced(bs, i, k, new, cs)
    PROVE  /\ bs \in Seq(Block) /\ cs \in Seq(Block) /\ new \in Seq(Block)
           /\ Len(bs) \in Nat /\ Len(cs) \in Nat /\ Len(new) \in Nat
           /\ DOMAIN bs = 1..Len(bs) /\ DOMAIN cs = 1..Len(cs)
           /\ i \in Nat \ {0} /\ k \in Nat /\ i + k <= Len(bs) + 1
           /\ Len(cs) = Len(bs) + Len(new) - k
           /\ \A j \in DOMAIN cs :
                 \/ j < i /\ j \in DOMAIN bs /\ cs[j] = bs[j]
                 \/ i <= j /\ j < i + Len(new)
                    /\ j - i + 1 \in 1..Len(new) /\ cs[j] = new[j - i + 1]
                 \/ i + Len(new) <= j /\ j - Len(new) + k \in DOMAIN bs
                    /\ i + k <= j - Len(new) + k /\ cs[j] = bs[j - Len(new) + k]
<1>1. /\ bs \in Seq(Block) /\ cs \in Seq(Block) /\ new \in Seq(Block)
      /\ i \in Nat \ {0} /\ k \in Nat /\ i + k <= Len(bs) + 1
      /\ Len(cs) = Len(bs) + Len(new) - k
  BY DEF Spliced, RelinkedAs
<1>2. /\ Len(bs) \in Nat /\ Len(cs) \in Nat /\ Len(new) \in Nat
      /\ DOMAIN bs = 1..Len(bs) /\ DOMAIN cs = 1..Len(cs)
  BY <1>1
<1>3. ASSUME NEW j \in DOMAIN cs
      PROVE  \/ j < i /\ j \in DOMAIN bs /\ cs[j] = bs[j]
             \/ i <= j /\ j < i + Len(new)
                /\ j - i + 1 \in 1..Len(new) /\ cs[j] = new[j - i + 1]
             \/ i + Len(new) <= j /\ j - Len(new) + k \in DOMAIN bs
                /\ i + k <= j - Len(new) + k /\ cs[j] = bs[j - Len(new) + k]
  <2>1. j \in Nat \ {0} /\ j <= Len(cs) BY <1>2
  <2>2. CASE j < i
    <3>1. j \in 1..(i - 1) /\ j \in DOMAIN bs BY <1>1, <1>2, <2>1, <2>2
    <3>2. cs[j] = bs[j] BY <3>1 DEF Spliced, RelinkedAs
    <3> QED BY <2>2, <3>1, <3>2
  <2>3. CASE i <= j /\ j < i + Len(new)
    <3>1. j - i + 1 \in 1..Len(new) /\ i + (j - i + 1) - 1 = j BY <1>1, <1>2, <2>1, <2>3
    <3>2. cs[i + (j - i + 1) - 1] = new[j - i + 1] BY <3>1 DEF Spliced, RelinkedAs
    <3> QED BY <2>3, <3>1, <3>2
  <2>4. CASE i + Len(new) <= j
    <3> DEFINE m == j - Len(new) - i
    <3>1. m \in 0..(Len(bs) - i - k) /\ i + Len(new) + m = j
          /\ i + k + m = j - Len(new) + k
          /\ j - Len(new) + k \in DOMAIN bs /\ i + k <= j - Len(new) + k
      BY <1>1, <1>2, <2>1, <2>4
    <3> HIDE DEF m
    <3>2. cs[i + Len(new) + m] = bs[i + k + m] BY <3>1 DEF Spliced, RelinkedAs
    <3> QED BY <2>4, <3>1, <3>2
  <2> QED BY <1>1, <1>2, <2>1, <2>2, <2>3, <2>4
<1> QED BY <1>1, <1>2, <1>3

\* Addresses in front of the new blocks stay; those behind them move together.
LEMMA RelinkPrefix ==
    ASSUME NEW bs, NEW i, NEW k, NEW new, NEW cs, Spliced(bs, i, k, new, cs)
    PROVE  \A j \in 1..i : Payload_address(cs, j) = Payload_address(bs, j)
<1>1. /\ bs \in Seq(Block) /\ cs \in Seq(Block)
      /\ Len(bs) \in Nat /\ Len(cs) \in Nat /\ Len(new) \in Nat
      /\ i \in Nat \ {0} /\ k \in Nat /\ i + k <= Len(bs) + 1
      /\ Len(cs) = Len(bs) + Len(new) - k
  BY SplicedFacts
<1>2. \A j \in 0..((i - 1) - 1) : cs[1 + j].size = bs[1 + j].size
  <2>1. \A j \in 1..(i - 1) : cs[j] = bs[j] BY DEF Spliced, RelinkedAs
  <2>2. \A j \in 0..((i - 1) - 1) : 1 + j \in 1..(i - 1) BY <1>1
  <2> QED BY <2>1, <2>2
<1>3. Payload_address(cs, 1) = Payload_address(bs, 1) + 0
  BY <1>1, PayloadAddresses, HeapAssumption
<1>4. 1 + (i - 1) <= Len(bs) + 1 /\ 1 + (i - 1) <= Len(cs) + 1 /\ i - 1 \in Nat BY <1>1
<1>5. \A j \in 0..(i - 1) : Payload_address(cs, 1 + j) = Payload_address(bs, 1 + j) + 0
  <2>1. 0 \in Nat /\ 1 \in Nat \ {0} OBVIOUS
  <2> DEFINE n == i - 1
  <2>2. n \in Nat /\ 1 + n <= Len(bs) + 1 /\ 1 + n <= Len(cs) + 1
        /\ \A j \in 0..(n - 1) : cs[1 + j].size = bs[1 + j].size
    BY <1>2, <1>4
  <2> HIDE DEF n
  <2>3. \A j \in 0..n : Payload_address(cs, 1 + j) = Payload_address(bs, 1 + j) + 0
    <3>1. SameSizes(bs, 1, cs, 1, n, 0) BY <1>1, <1>3, <2>1, <2>2 DEF SameSizes
    <3> QED BY <3>1, SameRun DEF Moved
  <2> QED BY <2>3 DEF n
<1>6. ASSUME NEW j \in 1..i PROVE Payload_address(cs, j) = Payload_address(bs, j)
  <2>1. j - 1 \in 0..(i - 1) /\ 1 + (j - 1) = j /\ j \in 1..(Len(bs) + 1) BY <1>1
  <2>2. Payload_address(bs, j) \in Nat BY <1>1, <2>1, PayloadAddresses
  <2>3. Payload_address(cs, j) = Payload_address(bs, j) + 0 BY <1>5, <2>1
  <2> QED BY <2>2, <2>3
<1> QED BY <1>6

\* What is behind the new blocks moves with the end of the last of them.
LEMMA RelinkTail ==
    ASSUME NEW bs, NEW i, NEW k, NEW new, NEW cs, Spliced(bs, i, k, new, cs), NEW d \in Nat,
           Payload_address(cs, i + Len(new)) = Payload_address(bs, i + k) + d
    PROVE  /\ \A j \in (i + k)..(Len(bs) + 1) :
                  Payload_address(cs, j - k + Len(new)) = Payload_address(bs, j) + d
           /\ Bound(cs) = Bound(bs) + d
<1>1. /\ bs \in Seq(Block) /\ cs \in Seq(Block)
      /\ Len(bs) \in Nat /\ Len(cs) \in Nat /\ Len(new) \in Nat
      /\ i \in Nat \ {0} /\ k \in Nat /\ i + k <= Len(bs) + 1
      /\ Len(cs) = Len(bs) + Len(new) - k
  BY SplicedFacts
<1> DEFINE n == Len(bs) + 1 - i - k
           a == i + k
           c == i + Len(new)
<1>2. /\ n \in Nat /\ a \in Nat \ {0} /\ c \in Nat \ {0}
      /\ a + n = Len(bs) + 1 /\ c + n = Len(cs) + 1
  BY <1>1
<1>3. \A j \in 0..(n - 1) : cs[c + j].size = bs[a + j].size
  <2>1. \A j \in 0..(Len(bs) - i - k) : cs[i + Len(new) + j] = bs[i + k + j]
    BY DEF Spliced, RelinkedAs
  <2>2. n - 1 = Len(bs) - i - k BY <1>1
  <2> QED BY <2>1, <2>2
<1>4. Payload_address(cs, c) = Payload_address(bs, a) + d OBVIOUS
<1> HIDE DEF n, a, c
<1>5. \A j \in 0..n : Payload_address(cs, c + j) = Payload_address(bs, a + j) + d
  <2>1. a + n <= Len(bs) + 1 /\ c + n <= Len(cs) + 1 BY <1>1, <1>2
  <2>2. SameSizes(bs, a, cs, c, n, d) BY <1>1, <1>2, <1>3, <1>4, <2>1 DEF SameSizes
  <2> QED BY <2>2, SameRun DEF Moved
<1>6. ASSUME NEW j \in (i + k)..(Len(bs) + 1)
      PROVE  Payload_address(cs, j - k + Len(new)) = Payload_address(bs, j) + d
  <2>1. j - a \in 0..n /\ c + (j - a) = j - k + Len(new) /\ a + (j - a) = j
    BY <1>1, <1>2 DEF n, a, c
  <2> QED BY <1>5, <2>1
<1>7. Bound(cs) = Bound(bs) + d
  <2>1. Payload_address(cs, Len(cs) + 1) = Payload_address(bs, Len(bs) + 1) + d
    <3>1. n \in 0..n BY <1>2
    <3> QED BY <1>2, <1>5, <3>1
  <2>2. Payload_address(bs, Len(bs) + 1) \in Nat
    <3>1. Len(bs) + 1 \in 1..(Len(bs) + 1) BY <1>1
    <3> QED BY <1>1, <3>1, PayloadAddresses
  <2>3. HeaderSize \in Nat BY HeapAssumption
  <2> QED BY <2>1, <2>2, <2>3 DEF Bound
<1> QED BY <1>6, <1>7

\* The allocations among k blocks from the i-th on, and the others.
Within(bs, i, k) ==
    {<<Payload_address(bs, j), bs[j].size>> :
        j \in {m \in DOMAIN bs : bs[m].used /\ i <= m /\ m < i + k}}
Outside(bs, i, k) ==
    {<<Payload_address(bs, j), bs[j].size>> :
        j \in {m \in DOMAIN bs : bs[m].used /\ (m < i \/ i + k <= m)}}

\* Every allocation is within or outside.
LEMMA AllocationsSplit ==
    ASSUME NEW bs \in Seq(Block), NEW i \in Nat, NEW k \in Nat
    PROVE  Allocations(bs) = Outside(bs, i, k) \cup Within(bs, i, k)
<1>1. \A m \in DOMAIN bs : m \in Nat BY BlockFacts
<1>2. \A m \in DOMAIN bs : (m < i \/ i + k <= m) \/ (i <= m /\ m < i + k) BY <1>1
<1> QED BY <1>2 DEF Allocations, Outside, Within

\* New blocks leave the other allocations alone.
LEMMA RelinkOutside ==
    ASSUME NEW bs, NEW i, NEW k, NEW new, NEW cs, Spliced(bs, i, k, new, cs), NEW d \in Nat,
           Payload_address(cs, i + Len(new)) = Payload_address(bs, i + k) + d,
           d = 0 \/ i + k = Len(bs) + 1
    PROVE  Outside(cs, i, Len(new)) = Outside(bs, i, k)
<1>1. /\ bs \in Seq(Block) /\ cs \in Seq(Block)
      /\ Len(bs) \in Nat /\ Len(cs) \in Nat /\ Len(new) \in Nat
      /\ DOMAIN bs = 1..Len(bs) /\ DOMAIN cs = 1..Len(cs)
      /\ i \in Nat \ {0} /\ k \in Nat /\ i + k <= Len(bs) + 1
      /\ Len(cs) = Len(bs) + Len(new) - k
  BY SplicedFacts
<1>2. \A j \in DOMAIN cs :
          \/ j < i /\ j \in DOMAIN bs /\ cs[j] = bs[j]
          \/ i <= j /\ j < i + Len(new)
             /\ j - i + 1 \in 1..Len(new) /\ cs[j] = new[j - i + 1]
          \/ i + Len(new) <= j /\ j - Len(new) + k \in DOMAIN bs
             /\ i + k <= j - Len(new) + k /\ cs[j] = bs[j - Len(new) + k]
  BY SplicedFacts
<1>3. \A j \in 1..i : Payload_address(cs, j) = Payload_address(bs, j) BY RelinkPrefix
<1>4. \A j \in DOMAIN bs : i + k <= j =>
          /\ d = 0
          /\ Payload_address(cs, j - k + Len(new)) = Payload_address(bs, j)
  <2> SUFFICES ASSUME NEW j \in DOMAIN bs, i + k <= j
               PROVE  d = 0 /\ Payload_address(cs, j - k + Len(new)) = Payload_address(bs, j)
    OBVIOUS
  <2>1. j \in (i + k)..(Len(bs) + 1) /\ j \in 1..(Len(bs) + 1) /\ d = 0 BY <1>1
  <2>2. Payload_address(cs, j - k + Len(new)) = Payload_address(bs, j) + d BY <2>1, RelinkTail
  <2>3. Payload_address(bs, j) \in Nat BY <1>1, <2>1, PayloadAddresses
  <2> QED BY <2>1, <2>2, <2>3
<1>5. ASSUME NEW x \in Outside(cs, i, Len(new)) PROVE x \in Outside(bs, i, k)
  <2>1. PICK j \in DOMAIN cs : /\ cs[j].used /\ (j < i \/ i + Len(new) <= j)
                               /\ x = <<Payload_address(cs, j), cs[j].size>>
    BY DEF Outside
  <2>2. CASE j < i
    <3>1. j \in 1..i BY <1>1, <2>2
    <3>2. j \in DOMAIN bs /\ cs[j] = bs[j] BY <1>1, <1>2, <2>2
    <3>3. x = <<Payload_address(bs, j), bs[j].size>> BY <1>3, <2>1, <3>1, <3>2
    <3> QED BY <2>1, <2>2, <3>2, <3>3 DEF Outside
  <2>3. CASE i + Len(new) <= j
    <3> DEFINE m == j - Len(new) + k
    <3>0. j \in Nat /\ ~(j < i) /\ ~(j < i + Len(new)) BY <1>1, <2>3
    <3>1. m \in DOMAIN bs /\ i + k <= m /\ cs[j] = bs[m] BY <1>2, <3>0
    <3>2. m - k + Len(new) = j BY <1>1
    <3> HIDE DEF m
    <3>3. x = <<Payload_address(bs, m), bs[m].size>> BY <1>4, <2>1, <3>1, <3>2
    <3> QED BY <2>1, <3>1, <3>3 DEF Outside
  <2> QED BY <2>1, <2>2, <2>3
<1>6. ASSUME NEW x \in Outside(bs, i, k) PROVE x \in Outside(cs, i, Len(new))
  <2>1. PICK j \in DOMAIN bs : /\ bs[j].used /\ (j < i \/ i + k <= j)
                               /\ x = <<Payload_address(bs, j), bs[j].size>>
    BY DEF Outside
  <2>2. CASE j < i
    <3>1. j \in 1..i /\ j \in DOMAIN cs BY <1>1, <2>2
    <3>2. cs[j] = bs[j] BY <1>1, <1>2, <2>2, <3>1
    <3>3. x = <<Payload_address(cs, j), cs[j].size>> BY <1>3, <2>1, <3>1, <3>2
    <3> QED BY <2>1, <2>2, <3>1, <3>2, <3>3 DEF Outside
  <2>3. CASE i + k <= j
    <3> DEFINE m == j - k + Len(new)
    <3>1. m \in DOMAIN cs /\ i + Len(new) <= m /\ m - Len(new) + k = j BY <1>1, <2>3, SMTT(30)
    <3>2. Payload_address(cs, m) = Payload_address(bs, j) BY <1>4, <2>3
    <3> HIDE DEF m
    <3>3. cs[m] = bs[j] BY <1>1, <1>2, <3>1, SMTT(30)
    <3>4. x = <<Payload_address(cs, m), cs[m].size>> BY <2>1, <3>2, <3>3
    <3> QED BY <2>1, <3>1, <3>3, <3>4 DEF Outside
  <2> QED BY <2>1, <2>2, <2>3
<1> QED BY <1>5, <1>6

\* No two free blocks side by side away from the new ones.
ApartAway(bs, i, k) ==
    \A j \in DOMAIN bs : j > 1 /\ (j < i \/ j > i + k) => bs[j].used \/ bs[j - 1].used

\* Away from the new blocks the neighbours stay who they were.
LEMMA RelinkApart ==
    ASSUME NEW bs, NEW i, NEW k, NEW new, NEW cs, Spliced(bs, i, k, new, cs),
           ApartAway(bs, i, k)
    PROVE  ApartAway(cs, i, Len(new))
<1>1. /\ bs \in Seq(Block) /\ cs \in Seq(Block)
      /\ Len(bs) \in Nat /\ Len(cs) \in Nat /\ Len(new) \in Nat
      /\ DOMAIN bs = 1..Len(bs) /\ DOMAIN cs = 1..Len(cs)
      /\ i \in Nat \ {0} /\ k \in Nat /\ i + k <= Len(bs) + 1
      /\ Len(cs) = Len(bs) + Len(new) - k
  BY SplicedFacts
<1>2. \A j \in DOMAIN cs :
          \/ j < i /\ j \in DOMAIN bs /\ cs[j] = bs[j]
          \/ i <= j /\ j < i + Len(new)
             /\ j - i + 1 \in 1..Len(new) /\ cs[j] = new[j - i + 1]
          \/ i + Len(new) <= j /\ j - Len(new) + k \in DOMAIN bs
             /\ i + k <= j - Len(new) + k /\ cs[j] = bs[j - Len(new) + k]
  BY SplicedFacts
<1> SUFFICES ASSUME NEW j \in DOMAIN cs, j > 1, j < i \/ j > i + Len(new)
             PROVE  cs[j].used \/ cs[j - 1].used
  BY DEF ApartAway
<1>3. j \in Nat /\ j - 1 \in DOMAIN cs BY <1>1
<1>4. CASE j < i
  <2>1. j \in DOMAIN bs /\ cs[j] = bs[j] /\ cs[j - 1] = bs[j - 1]
    <3>1. cs[j] = bs[j] /\ j \in DOMAIN bs BY <1>1, <1>2, <1>3, <1>4
    <3>2. j - 1 < i BY <1>1, <1>3, <1>4
    <3>3. cs[j - 1] = bs[j - 1] BY <1>1, <1>2, <1>3, <3>2
    <3> QED BY <3>1, <3>3
  <2>2. bs[j].used \/ bs[j - 1].used BY <1>4, <2>1 DEF ApartAway
  <2> QED BY <2>1, <2>2
<1>5. CASE j > i + Len(new)
  <2> DEFINE m == j - Len(new) + k
  <2>1. m \in DOMAIN bs /\ cs[j] = bs[m]
    <3>1. i + Len(new) <= j BY <1>1, <1>3, <1>5
    <3> QED BY <1>1, <1>2, <1>3, <3>1, SMTT(30)
  <2>2. cs[j - 1] = bs[m - 1]
    <3> DEFINE l == Len(new)
    <3>0. j \in Nat /\ l \in Nat /\ i \in Nat /\ k \in Nat /\ j > i + l BY <1>1, <1>3, <1>5
    <3> HIDE DEF l
    <3>9. i + l <= j - 1 /\ (j - 1) - l + k = (j - l + k) - 1 BY <3>0
    <3>1. i + Len(new) <= j - 1 /\ (j - 1) - Len(new) + k = m - 1 BY <3>9 DEF l
    <3>2. ~(j - 1 < i) /\ ~(j - 1 < i + Len(new))
      <4>1. ~(j - 1 < i) /\ ~(j - 1 < i + l) BY <3>0, <3>9
      <4> QED BY <4>1 DEF l
    <3>3. cs[j - 1] = bs[(j - 1) - Len(new) + k] BY <1>2, <1>3, <3>2
    <3> QED BY <3>1, <3>3
  <2>3. m > 1 /\ m > i + k BY <1>1, <1>3, <1>5
  <2> HIDE DEF m
  <2>4. bs[m].used \/ bs[m - 1].used BY <2>1, <2>3 DEF ApartAway
  <2> QED BY <2>1, <2>2, <2>4
<1> QED BY <1>4, <1>5

\* Sizes are multiples of the alignment; so are their sums and differences.
LEMMA AlignedSizes ==
    ASSUME NEW x \in Nat, NEW y \in Nat, x % Alignment = 0, y % Alignment = 0
    PROVE  /\ (x + y) % Alignment = 0
           /\ x < y => y - x >= Alignment /\ (y - x) % Alignment = 0
<1> DEFINE p == x \div Alignment
           q == y \div Alignment
<1>1. Alignment \in Nat \ {0} BY HeapAssumption
<1>2. /\ p \in Nat /\ q \in Nat /\ x = p * Alignment + (x % Alignment)
      /\ y = q * Alignment + (y % Alignment)
  BY <1>1, Quotient
<1> HIDE DEF p, q
<1>3. p * Alignment \in Nat /\ q * Alignment \in Nat BY <1>1, <1>2, Multiples
<1>4. x = p * Alignment /\ y = q * Alignment BY <1>2, <1>3
<1>5. 0 \in 0..(Alignment - 1) BY <1>1
<1>6. (x + y) % Alignment = 0
  <2>1. p + q \in Nat /\ x + y = (p + q) * Alignment + 0 BY <1>1, <1>2, <1>4
  <2> QED BY <1>1, <1>5, <2>1, DivMod
<1>7. ASSUME x < y PROVE y - x >= Alignment /\ (y - x) % Alignment = 0
  <2>1. p < q
    <3> SUFFICES ASSUME q <= p PROVE FALSE BY <1>2
    <3>1. q * Alignment <= p * Alignment BY <1>1, <1>2, Multiples
    <3> QED BY <1>3, <1>4, <1>7, <3>1
  <2> DEFINE d == q - p
  <2>2. d \in Nat \ {0} /\ q = p + d BY <1>2, <2>1
  <2> HIDE DEF d
  <2>3. y = p * Alignment + d * Alignment BY <1>1, <1>2, <1>4, <2>2
  <2>4. d * Alignment \in Nat BY <1>1, <2>2
  <2>5. y - x = d * Alignment + 0 BY <1>3, <1>4, <2>3, <2>4
  <2>6. (d * Alignment + 0) % Alignment = 0 BY <1>1, <1>5, <2>2, DivMod
  <2>7. p * Alignment + Alignment <= q * Alignment BY <1>1, <1>2, <2>1, Multiples
  <2>8. y - x >= Alignment BY <1>1, <1>3, <1>4, <2>7
  <2> QED BY <2>5, <2>6, <2>8
<1> QED BY <1>6, <1>7

----------------------------------------------------------------------------
(* The heap: growing and splitting                                        *)

\* A legal block.
LegalSize(n) == n \in Nat /\ n >= Alignment /\ n % Alignment = 0

\* Sizes of blocks: of a new page, and with a multiple of the alignment added.
LEMMA LegalSizes ==
    /\ LegalSize(HeapPage - HeaderSize)
    /\ \A x, y \in Nat : LegalSize(x) /\ y % Alignment = 0 => LegalSize(x + y)
    /\ HeapPage % Alignment = 0 /\ HeaderSize % Alignment = 0
    /\ HeapPage \in Nat \ {0} /\ HeaderSize \in Nat \ {0} /\ Alignment \in Nat \ {0}
<1>1. /\ HeapPage % Alignment = 0 /\ HeaderSize % Alignment = 0 /\ HeaderSize < HeapPage
      /\ HeapPage \in Nat \ {0} /\ HeaderSize \in Nat \ {0} /\ Alignment \in Nat \ {0}
  BY HeapAssumption
<1>2. LegalSize(HeapPage - HeaderSize)
  <2>1. HeapPage - HeaderSize >= Alignment /\ (HeapPage - HeaderSize) % Alignment = 0
    BY <1>1, AlignedSizes
  <2>2. HeapPage - HeaderSize \in Nat BY <1>1
  <2> QED BY <2>1, <2>2 DEF LegalSize
<1>3. ASSUME NEW x \in Nat, NEW y \in Nat, LegalSize(x), y % Alignment = 0
      PROVE  LegalSize(x + y)
  <2>1. x % Alignment = 0 /\ x >= Alignment BY <1>3 DEF LegalSize
  <2>2. (x + y) % Alignment = 0 BY <1>3, <2>1, AlignedSizes
  <2>3. x + y >= Alignment /\ x + y \in Nat BY <1>1, <2>1
  <2> QED BY <2>2, <2>3 DEF LegalSize
<1> QED BY <1>1, <1>2, <1>3

\* A list with legal new blocks is legal.
LEMMA RelinkOK ==
    ASSUME NEW bs, NEW i, NEW k, NEW new, NEW cs, Spliced(bs, i, k, new, cs), BlocksOK(bs),
           Len(new) # 0, \A j \in 1..Len(new) : LegalSize(new[j].size)
    PROVE  BlocksOK(cs)
<1>1. \A j \in DOMAIN bs : bs[j].size >= Alignment /\ bs[j].size % Alignment = 0
  BY DEF BlocksOK
<1>2. \A j \in 1..Len(new) : new[j].size >= Alignment /\ new[j].size % Alignment = 0
  BY DEF LegalSize
<1>3. \A j \in DOMAIN cs : (\E m \in DOMAIN bs : cs[j] = bs[m])
                           \/ (\E m \in 1..Len(new) : cs[j] = new[m])
  <2> SUFFICES ASSUME NEW j \in DOMAIN cs
               PROVE  (\E m \in DOMAIN bs : cs[j] = bs[m])
                      \/ (\E m \in 1..Len(new) : cs[j] = new[m])
    OBVIOUS
  <2>1. \/ j < i /\ j \in DOMAIN bs /\ cs[j] = bs[j]
        \/ i <= j /\ j < i + Len(new)
           /\ j - i + 1 \in 1..Len(new) /\ cs[j] = new[j - i + 1]
        \/ i + Len(new) <= j /\ j - Len(new) + k \in DOMAIN bs
           /\ i + k <= j - Len(new) + k /\ cs[j] = bs[j - Len(new) + k]
    BY SplicedFacts
  <2> QED BY <2>1
<1>4. cs \in Seq(Block) /\ Len(cs) # 0
  <2>1. /\ cs \in Seq(Block) /\ Len(cs) = Len(bs) + Len(new) - k /\ Len(bs) \in Nat
        /\ Len(new) \in Nat /\ k \in Nat /\ i \in Nat \ {0} /\ i + k <= Len(bs) + 1
    BY SplicedFacts
  <2>2. Len(cs) # 0 BY <2>1
  <2> QED BY <2>1, <2>2
<1> QED BY <1>1, <1>2, <1>3, <1>4 DEF BlocksOK

Single(new) == new \in Seq(Block) /\ Len(new) = 1

\* A single new block.
LEMMA OneBlock ==
    ASSUME NEW bs, NEW i, NEW k, NEW new, NEW cs, Spliced(bs, i, k, new, cs), Single(new)
    PROVE  /\ i \in DOMAIN cs /\ cs[i] = new[1] /\ new[1] \in Block
           /\ Payload_address(cs, i + 1) = Payload_address(bs, i) + new[1].size + HeaderSize
           /\ Within(cs, i, 1) = IF new[1].used
                                 THEN {<<Payload_address(bs, i), new[1].size>>} ELSE {}
<1> DEFINE b == new[1]
<1>1. /\ bs \in Seq(Block) /\ cs \in Seq(Block) /\ Len(bs) \in Nat /\ Len(cs) \in Nat
      /\ DOMAIN cs = 1..Len(cs) /\ i \in Nat \ {0} /\ k \in Nat /\ i + k <= Len(bs) + 1
      /\ Len(cs) = Len(bs) + Len(new) - k /\ new \in Seq(Block)
  BY SplicedFacts
<1>0. Len(new) = 1 /\ new[1] \in Block BY DEF Single
<1>2. Len(cs) = Len(bs) + 1 - k /\ new[1] \in Block BY <1>0, <1>1
<1>3. i \in 1..Len(cs) BY <1>1, <1>2
<1>4. cs[i] = b
  <2>1. \A j \in 1..Len(new) : cs[i + j - 1] = new[j] BY DEF Spliced, RelinkedAs
  <2>2. 1 \in 1..Len(new) /\ i + 1 - 1 = i BY <1>0, <1>1
  <2>3. cs[i + 1 - 1] = new[1] BY <2>1, <2>2
  <2> QED BY <2>2, <2>3
<1>5. Payload_address(cs, i) = Payload_address(bs, i)
  <2>1. i \in 1..i BY <1>1
  <2> QED BY <2>1, RelinkPrefix
<1>6. Payload_address(cs, i + 1) = Payload_address(bs, i) + b.size + HeaderSize
  BY <1>1, <1>3, <1>4, <1>5, PayloadAddresses
<1> HIDE DEF b
<1>7. \A m \in DOMAIN cs : i <= m /\ m < i + 1 <=> m = i BY <1>1
<1>8. CASE b.used
  <2>1. {m \in DOMAIN cs : cs[m].used /\ i <= m /\ m < i + 1} = {i}
    BY <1>1, <1>3, <1>4, <1>7, <1>8
  <2>2. Within(cs, i, 1) = {<<Payload_address(bs, i), b.size>>} BY <1>4, <1>5, <2>1 DEF Within
  <2> QED BY <1>1, <1>2, <1>3, <1>4, <1>6, <1>8, <2>2 DEF b
<1>9. CASE ~b.used
  <2>1. {m \in DOMAIN cs : cs[m].used /\ i <= m /\ m < i + 1} = {} BY <1>4, <1>7, <1>9
  <2>2. Within(cs, i, 1) = {} BY <2>1 DEF Within
  <2> QED BY <1>1, <1>2, <1>3, <1>4, <1>6, <1>9, <2>2 DEF b
<1> QED BY <1>8, <1>9

\* Free blocks hold no allocation.
LEMMA NothingWithin ==
    ASSUME NEW bs, NEW i, NEW k, \A m \in DOMAIN bs : i <= m /\ m < i + k => ~bs[m].used
    PROVE  Within(bs, i, k) = {}
<1>1. {m \in DOMAIN bs : bs[m].used /\ i <= m /\ m < i + k} = {} OBVIOUS
<1> QED BY <1>1 DEF Within

\* What a change of the list has to keep.
Healthy(bs) == BlocksOK(bs) /\ Apart(bs, {})

\* Neighbours away from a place and neighbours at it are all there are.
LEMMA ApartFrom ==
    ASSUME NEW bs \in Seq(Block), NEW E, NEW i \in Nat, NEW n \in Nat,
           ApartAway(bs, i, n),
           \A j \in DOMAIN bs : j > 1 /\ i <= j /\ j <= i + n
                => bs[j].used \/ bs[j - 1].used \/ j \in E
    PROVE  Apart(bs, E)
<1> SUFFICES ASSUME NEW j \in DOMAIN bs, j > 1
             PROVE  bs[j].used \/ bs[j - 1].used \/ j \in E
  BY DEF Apart
<1>1. j \in Nat BY BlockFacts
<1>2. CASE i <= j /\ j <= i + n BY <1>2
<1>3. CASE j < i \/ j > i + n BY <1>3 DEF ApartAway
<1> QED BY <1>1, <1>2, <1>3

\* A list with one new block, when the blocks it stands for were free.
LEMMA FreeBlockKeeps ==
    ASSUME NEW bs, Healthy(bs), NEW i, NEW k, NEW new, NEW cs, NEW d \in Nat,
           Spliced(bs, i, k, new, cs), Single(new), i + k = Len(bs) + 1,
           ~new[1].used, LegalSize(new[1].size), i > 1 => bs[i - 1].used,
           \A m \in DOMAIN bs : i <= m => ~bs[m].used,
           Payload_address(bs, i) + new[1].size + HeaderSize
               = Payload_address(bs, Len(bs) + 1) + d
    PROVE  Healthy(cs) /\ Bound(cs) = Bound(bs) + d /\ Allocations(cs) = Allocations(bs)
<1>1. /\ bs \in Seq(Block) /\ cs \in Seq(Block) /\ Len(bs) \in Nat /\ Len(cs) \in Nat
      /\ DOMAIN cs = 1..Len(cs) /\ i \in Nat \ {0} /\ k \in Nat
      /\ Len(cs) = Len(bs) + Len(new) - k /\ new \in Seq(Block)
  BY SplicedFacts
<1>0. Len(new) = 1 BY DEF Single
<1>2. i \in Nat /\ 1 \in Nat /\ Len(cs) = i BY <1>0, <1>1
<1>3. /\ i \in DOMAIN cs /\ cs[i] = new[1] /\ Within(cs, i, 1) = {}
      /\ Payload_address(cs, i + 1) = Payload_address(bs, i) + new[1].size + HeaderSize
  BY OneBlock
<1>4. Payload_address(cs, i + Len(new)) = Payload_address(bs, i + k) + d BY <1>0, <1>3
<1>5. Bound(cs) = Bound(bs) + d BY <1>4, RelinkTail
<1>6. Outside(cs, i, 1) = Outside(bs, i, k)
  <2>1. Outside(cs, i, Len(new)) = Outside(bs, i, k) BY <1>4, RelinkOutside
  <2> QED BY <1>0, <2>1
<1>7. Within(bs, i, k) = {} BY NothingWithin
<1>8. Allocations(cs) = Allocations(bs)
  <2>1. Allocations(cs) = Outside(cs, i, 1) \cup Within(cs, i, 1)
    BY <1>1, <1>2, AllocationsSplit
  <2>2. Allocations(bs) = Outside(bs, i, k) \cup Within(bs, i, k)
    BY <1>1, <1>2, AllocationsSplit
  <2> QED BY <1>3, <1>6, <1>7, <2>1, <2>2
<1>9. BlocksOK(cs)
  <2>1. Len(new) # 0 /\ \A j \in 1..Len(new) : LegalSize(new[j].size)
    BY <1>0
  <2> QED BY <2>1, RelinkOK DEF Healthy
<1>10. Apart(cs, {})
  <2>1. ApartAway(bs, i, k) BY DEF Healthy, Apart, ApartAway
  <2>2. ApartAway(cs, i, Len(new)) BY <2>1, RelinkApart
  <2>3. ApartAway(cs, i, 1) BY <1>0, <2>2
  <2>4. i > 1 => cs[i - 1].used
    <3> SUFFICES ASSUME i > 1 PROVE cs[i - 1].used OBVIOUS
    <3>1. i - 1 \in 1..(i - 1) BY <1>1
    <3>2. cs[i - 1] = bs[i - 1] BY <3>1 DEF Spliced, RelinkedAs
    <3> QED BY <3>2
  <2>5. \A j \in DOMAIN cs : j > 1 /\ i <= j /\ j <= i + 1
            => cs[j].used \/ cs[j - 1].used \/ j \in {}
    <3>1. \A j \in DOMAIN cs : i <= j => j = i BY <1>1, <1>2
    <3> QED BY <2>4, <3>1
  <2> QED BY <1>1, <1>2, <2>3, <2>5, ApartFrom
<1> QED BY <1>5, <1>8, <1>9, <1>10 DEF Healthy

\* A block appended, or put in the place of another.
LEMMA AppendedIs ==
    ASSUME NEW bs \in Seq(Block), NEW b \in Block
    PROVE  Spliced(bs, Len(bs) + 1, 0, <<b>>, Append(bs, b))
<1> DEFINE cs == Append(bs, b)
           L == Len(bs)
           new == <<b>>
<1>1. L \in Nat /\ bs \in Seq(Block) OBVIOUS
<1>2. Len(new) = 1 /\ new[1] = b /\ new \in Seq(Block) OBVIOUS
<1>3. /\ cs \in Seq(Block) /\ Len(cs) = L + 1 /\ \A j \in 1..L : cs[j] = bs[j]
      /\ cs[L + 1] = b
  OBVIOUS
<1>4. Len(bs) = L OBVIOUS
<1> HIDE DEF cs, new, L
<1>5. Len(cs) = L + Len(new) - 0 BY <1>1, <1>2, <1>3
<1>6. \A j \in 1..((L + 1) - 1) : cs[j] = bs[j] BY <1>1, <1>3
<1>7. \A j \in 1..Len(new) : cs[(L + 1) + j - 1] = new[j]
  <2>1. \A j \in 1..Len(new) : j = 1 BY <1>2
  <2>2. (L + 1) + 1 - 1 = L + 1 BY <1>1
  <2> QED BY <1>2, <1>3, <2>1, <2>2
<1>8. \A j \in 0..(L - (L + 1) - 0) : FALSE BY <1>1
<1>9. L + 1 \in Nat \ {0} /\ (L + 1) + 0 <= L + 1 /\ 0 \in Nat BY <1>1
<1>10. Spliced(bs, L + 1, 0, new, cs)
  BY <1>1, <1>2, <1>3, <1>4, <1>5, <1>6, <1>7, <1>8, <1>9 DEF Spliced, RelinkedAs
<1> QED BY <1>10 DEF cs, new, L

\* A changed block is a block relinked.
LEMMA ReplacedIs ==
    ASSUME NEW bs \in Seq(Block), NEW b \in Block, NEW i \in DOMAIN bs
    PROVE  Spliced(bs, i, 1, <<b>>, [bs EXCEPT ![i] = b])
<1> DEFINE cs == [bs EXCEPT ![i] = b]
           L == Len(bs)
           new == <<b>>
<1>1. L \in Nat /\ bs \in Seq(Block) /\ i \in 1..L /\ i \in Nat \ {0} OBVIOUS
<1>2. Len(new) = 1 /\ new[1] = b /\ new \in Seq(Block) OBVIOUS
<1>3. /\ cs \in Seq(Block) /\ Len(cs) = L /\ \A j \in 1..L : j # i => cs[j] = bs[j]
      /\ cs[i] = b
  OBVIOUS
<1>4. Len(bs) = L OBVIOUS
<1> HIDE DEF cs, new, L
<1>5. Len(cs) = L + Len(new) - 1 BY <1>1, <1>2, <1>3
<1>6. \A j \in 1..(i - 1) : cs[j] = bs[j]
  <2>1. \A j \in 1..(i - 1) : j \in 1..L /\ j # i BY <1>1
  <2> QED BY <1>3, <2>1
<1>7. \A j \in 1..Len(new) : cs[i + j - 1] = new[j]
  <2>1. \A j \in 1..Len(new) : j = 1 BY <1>2
  <2>2. i + 1 - 1 = i BY <1>1
  <2> QED BY <1>2, <1>3, <2>1, <2>2
<1>8. \A j \in 0..(L - i - 1) : cs[i + Len(new) + j] = bs[i + 1 + j]
  <2>1. \A j \in 0..(L - i - 1) : i + 1 + j \in 1..L /\ i + 1 + j # i BY <1>1
  <2> QED BY <1>2, <1>3, <2>1
<1>9. i + 1 <= L + 1 /\ 1 \in Nat BY <1>1
<1>10. Spliced(bs, i, 1, new, cs)
  BY <1>1, <1>2, <1>3, <1>4, <1>5, <1>6, <1>7, <1>8, <1>9 DEF Spliced, RelinkedAs
<1> QED BY <1>10 DEF cs, new, L

\* heap_grow_one_page.
LEMMA GrowKeeps ==
    ASSUME NEW bs, Healthy(bs)
    PROVE  /\ Healthy(heap_grow_one_page(bs))
           /\ Bound(heap_grow_one_page(bs)) = Bound(bs) + HeapPage
           /\ Allocations(heap_grow_one_page(bs)) = Allocations(bs)
<1> DEFINE cs == heap_grow_one_page(bs)
           L == Len(bs)
<1>1. /\ bs \in Seq(Block) /\ L \in Nat \ {0} /\ DOMAIN bs = 1..L /\ BlocksOK(bs)
      /\ \A j \in DOMAIN bs : bs[j].size \in Nat /\ bs[j].used \in BOOLEAN
  BY BlockFacts DEF Healthy, BlocksOK
<1>2. L \in DOMAIN bs /\ bs[L].size \in Nat /\ LegalSize(bs[L].size) /\ bs[L] \in Block
  BY <1>1 DEF BlocksOK, LegalSize
<1>3. /\ LegalSize(HeapPage - HeaderSize) /\ HeapPage \in Nat /\ HeaderSize \in Nat
      /\ HeapPage % Alignment = 0
  BY LegalSizes
<1>4. \A m \in 1..(L + 1) : Payload_address(bs, m) \in Nat BY <1>1, PayloadAddresses
<1>5. CASE bs[L].used
  <2> DEFINE b == HeapBlock(HeapPage - HeaderSize, FALSE)
             new == <<b>>
  <2>1. cs = Append(bs, b) BY <1>5 DEF heap_grow_one_page
  <2>2. b \in Block /\ ~b.used /\ b.size = HeapPage - HeaderSize /\ LegalSize(b.size)
    BY <1>3 DEF HeapBlock, Block, LegalSize
  <2> HIDE DEF b
  <2>3. Spliced(bs, L + 1, 0, new, cs) BY <1>1, <2>1, <2>2, AppendedIs
  <2>4. Single(new) /\ new[1] = b BY <2>2 DEF Single
  <2>5. /\ (L + 1) + 0 = L + 1 /\ (L + 1) - 1 = L /\ \A m \in DOMAIN bs : ~(L + 1 <= m)
        /\ L + 1 \in 1..(L + 1)
    BY <1>1
  <2>6. Payload_address(bs, L + 1) + b.size + HeaderSize = Payload_address(bs, L + 1) + HeapPage
    <3> DEFINE v == Payload_address(bs, L + 1)
    <3>1. v \in Nat BY <1>4, <2>5
    <3> HIDE DEF v
    <3>2. v + b.size + HeaderSize = v + HeapPage BY <1>3, <2>2, <3>1
    <3> QED BY <3>2 DEF v
  <2> HIDE DEF cs, new
  <2> QED BY <1>3, <1>5, <2>2, <2>3, <2>4, <2>5, <2>6, FreeBlockKeeps DEF cs
<1>6. CASE ~bs[L].used
  <2> DEFINE b == [size |-> bs[L].size + HeapPage, used |-> FALSE]
             new == <<b>>
  <2>1. cs = [bs EXCEPT ![L] = [bs[L] EXCEPT !.size = @ + HeapPage]]
    BY <1>6 DEF heap_grow_one_page
  <2>2. b \in Block /\ ~b.used /\ b.size = bs[L].size + HeapPage /\ LegalSize(b.size)
    <3>1. LegalSize(bs[L].size + HeapPage) BY <1>2, <1>3, LegalSizes
    <3> QED BY <1>2, <1>3, <3>1 DEF Block
  <2>3. [bs[L] EXCEPT !.size = @ + HeapPage] = b
    <3> DEFINE o == bs[L]
    <3>1. o \in Block /\ ~o.used BY <1>2, <1>6
    <3> HIDE DEF o
    <3>2. o = [size |-> o.size, used |-> o.used] /\ o.used = FALSE
      <4>1. o = [size |-> o.size, used |-> o.used] /\ o.used \in BOOLEAN BY <3>1 DEF Block
      <4> QED BY <3>1, <4>1
    <3> DEFINE r == [o EXCEPT !.size = @ + HeapPage]
    <3>3. r \in Block /\ r.size = o.size + HeapPage /\ r.used = o.used BY <1>3, <3>1 DEF Block
    <3> HIDE DEF r
    <3>4. r = [size |-> r.size, used |-> r.used] BY <3>3 DEF Block
    <3>5. r = [size |-> o.size + HeapPage, used |-> FALSE] BY <3>2, <3>3, <3>4
    <3> QED BY <3>5 DEF o, r
  <2> HIDE DEF b
  <2>4. cs = [bs EXCEPT ![L] = b] BY <2>1, <2>3
  <2>5. Spliced(bs, L, 1, new, cs) BY <1>1, <1>2, <2>2, <2>4, ReplacedIs, ZenonT(60)
  <2>6. Single(new) /\ new[1] = b BY <2>2 DEF Single
  <2>7. L > 1 => bs[L - 1].used BY <1>2, <1>6 DEF Healthy, Apart
  <2>8. \A m \in DOMAIN bs : L <= m => ~bs[m].used
    <3>1. \A m \in DOMAIN bs : L <= m => m = L BY <1>1
    <3> QED BY <1>6, <3>1
  <2>9. Payload_address(bs, L) + b.size + HeaderSize = Payload_address(bs, L + 1) + HeapPage
    <3> DEFINE v == Payload_address(bs, L)
    <3>1. Payload_address(bs, L + 1) = v + bs[L].size + HeaderSize
      BY <1>1, <1>2, PayloadAddresses
    <3>2. v \in Nat BY <1>1, <1>4
    <3> HIDE DEF v
    <3>3. v + (bs[L].size + HeapPage) + HeaderSize = v + bs[L].size + HeaderSize + HeapPage
      BY <1>2, <1>3, <3>2
    <3> QED BY <2>2, <3>1, <3>3 DEF v
  <2> HIDE DEF cs, new
  <2> QED BY <1>1, <1>3, <2>2, <2>5, <2>6, <2>7, <2>8, <2>9, FreeBlockKeeps DEF cs
<1> QED BY <1>5, <1>6

\* As many pages as it takes.
LEMMA GrownKeeps ==
    ASSUME NEW bs, Healthy(bs), NEW k \in Nat
    PROVE  /\ Healthy(Grown(bs, k))
           /\ Bound(Grown(bs, k)) = Bound(bs) + k * HeapPage
           /\ Allocations(Grown(bs, k)) = Allocations(bs)
<1> DEFINE Lists == {c \in Seq(Block) : Healthy(c)}
           Grow == [x \in Lists \X (1..k) |-> heap_grow_one_page(x[1])]
<1>1. bs \in Lists BY DEF Healthy, BlocksOK
<1>2. \A c \in Lists, i \in 1..k : Grow[<<c, i>>] = heap_grow_one_page(c)
                                   /\ heap_grow_one_page(c) \in Lists
  <2> SUFFICES ASSUME NEW c \in Lists, NEW i \in 1..k
               PROVE  Grow[<<c, i>>] = heap_grow_one_page(c) /\ heap_grow_one_page(c) \in Lists
    OBVIOUS
  <2>1. Healthy(heap_grow_one_page(c)) BY GrowKeeps
  <2>2. heap_grow_one_page(c) \in Lists BY <2>1 DEF Healthy, BlocksOK
  <2> QED BY <2>2
<1> HIDE DEF Lists, Grow
<1>3. PICK g : Iterates(g, Grow, Lists, bs, k)
  <2>1. StaysIn(Grow, Lists, k) BY <1>2 DEF StaysIn
  <2> QED BY <1>1, <2>1, Iteration
<1>4. /\ g \in [0..k -> Lists] /\ g[0] = bs
      /\ \A i \in 1..k : g[i] = heap_grow_one_page(g[i - 1])
  <2>1. /\ g \in [0..k -> Lists] /\ g[0] = bs
        /\ \A i \in 1..k : g[i] = Grow[<<g[i - 1], i>>]
    BY <1>3 DEF Iterates
  <2>2. \A i \in 1..k : g[i - 1] \in Lists BY <2>1
  <2> QED BY <1>2, <2>1, <2>2
<1> DEFINE grown == CHOOSE h : h = [n \in 0..k |->
                       IF n = 0 THEN bs ELSE heap_grow_one_page(h[n - 1])]
<1>5. g = [n \in 0..k |-> IF n = 0 THEN bs ELSE heap_grow_one_page(g[n - 1])] BY <1>4
<1>6. grown = [n \in 0..k |-> IF n = 0 THEN bs ELSE heap_grow_one_page(grown[n - 1])]
  BY <1>5
<1>7. Grown(bs, k) = grown[k] BY DEF Grown
<1> HIDE DEF grown
<1>8. grown[0] = bs /\ \A n \in 1..k : grown[n] = heap_grow_one_page(grown[n - 1]) BY <1>6
<1> DEFINE Kept(n) == /\ Healthy(grown[n])
                      /\ Bound(grown[n]) = Bound(bs) + n * HeapPage
                      /\ Allocations(grown[n]) = Allocations(bs)
           T == {n \in Nat : n <= k => Kept(n)}
<1>9. HeapPage \in Nat /\ Bound(bs) \in Int
  <2>1. /\ bs \in Seq(Block) /\ Len(bs) + 1 \in 1..(Len(bs) + 1) /\ HeaderSize \in Nat
        /\ HeapPage \in Nat
    BY HeapAssumption DEF Healthy, BlocksOK
  <2>2. Payload_address(bs, Len(bs) + 1) \in Nat BY <2>1, PayloadAddresses
  <2> QED BY <2>1, <2>2 DEF Bound
<1>10. 0 \in T
  <2>1. Bound(bs) + 0 * HeapPage = Bound(bs) BY <1>9
  <2> QED BY <1>8, <2>1
<1>11. ASSUME NEW n \in Nat, n \in T PROVE n + 1 \in T
  <2> SUFFICES ASSUME n + 1 <= k PROVE Kept(n + 1) OBVIOUS
  <2>1. Kept(n) BY <1>11
  <2>2. n + 1 \in 1..k /\ (n + 1) - 1 = n OBVIOUS
  <2>3. grown[n + 1] = heap_grow_one_page(grown[n]) BY <1>8, <2>2
  <2>4. (n + 1) * HeapPage = n * HeapPage + HeapPage /\ n * HeapPage \in Nat BY <1>9
  <2>5. Bound(grown[n + 1]) = Bound(grown[n]) + HeapPage BY <2>1, <2>3, GrowKeeps
  <2>6. Bound(grown[n + 1]) = Bound(bs) + (n + 1) * HeapPage BY <1>9, <2>1, <2>4, <2>5
  <2>7. Healthy(grown[n + 1]) /\ Allocations(grown[n + 1]) = Allocations(bs)
    BY <2>1, <2>3, GrowKeeps
  <2> QED BY <2>6, <2>7
<1>12. k \in T
  <2> HIDE DEF T
  <2>1. Nat \subseteq T BY <1>10, <1>11, SetInduction
  <2> QED BY <2>1
<1>13. Kept(k) BY <1>12
<1> QED BY <1>7, <1>13

\* New blocks as long together as those they stand for.
LEMMA ReplaceKeeps ==
    ASSUME NEW bs, BlocksOK(bs), NEW i, NEW k, NEW new, NEW cs, Spliced(bs, i, k, new, cs),
           Len(new) # 0, \A j \in 1..Len(new) : LegalSize(new[j].size),
           Payload_address(cs, i + Len(new)) = Payload_address(bs, i + k)
    PROVE  /\ BlocksOK(cs) /\ Bound(cs) = Bound(bs)
           /\ Allocations(bs) = Outside(bs, i, k) \cup Within(bs, i, k)
           /\ Allocations(cs) = Outside(bs, i, k) \cup Within(cs, i, Len(new))
<1>1. /\ bs \in Seq(Block) /\ cs \in Seq(Block) /\ Len(bs) \in Nat /\ Len(new) \in Nat
      /\ i \in Nat \ {0} /\ k \in Nat /\ i + k <= Len(bs) + 1
  BY SplicedFacts
<1>2. BlocksOK(cs) BY RelinkOK
<1>3. i + k \in 1..(Len(bs) + 1) /\ Len(bs) + 1 \in 1..(Len(bs) + 1) BY <1>1
<1>4. Payload_address(bs, i + k) \in Nat /\ Payload_address(bs, Len(bs) + 1) \in Nat
  BY <1>1, <1>3, PayloadAddresses
<1>5. Payload_address(cs, i + Len(new)) = Payload_address(bs, i + k) + 0 /\ 0 \in Nat BY <1>4
<1>6. Bound(cs) = Bound(bs) + 0 BY <1>5, RelinkTail
<1>7. Bound(bs) \in Int
  <2>1. HeaderSize \in Nat BY HeapAssumption
  <2> QED BY <1>4, <2>1 DEF Bound
<1>8. Bound(cs) = Bound(bs) BY <1>6, <1>7
<1>9. Outside(cs, i, Len(new)) = Outside(bs, i, k) BY <1>5, RelinkOutside
<1>10. /\ Allocations(bs) = Outside(bs, i, k) \cup Within(bs, i, k)
       /\ Allocations(cs) = Outside(cs, i, Len(new)) \cup Within(cs, i, Len(new))
  BY <1>1, AllocationsSplit
<1> QED BY <1>2, <1>8, <1>9, <1>10

\* A block marked as used or free.
LEMMA MarkKeeps ==
    ASSUME NEW bs, BlocksOK(bs), NEW i \in DOMAIN bs, NEW u \in BOOLEAN
    PROVE  LET cs == [bs EXCEPT ![i].used = u]
               own == {<<Payload_address(bs, i), bs[i].size>>}
           IN  /\ BlocksOK(cs) /\ Bound(cs) = Bound(bs) /\ Len(cs) = Len(bs)
               /\ cs[i].used = u /\ \A j \in DOMAIN bs : j # i => cs[j] = bs[j]
               /\ DOMAIN cs = DOMAIN bs
               /\ Allocations(bs) = Outside(bs, i, 1) \cup (IF bs[i].used THEN own ELSE {})
               /\ Allocations(cs) = Outside(bs, i, 1) \cup (IF u THEN own ELSE {})
<1> DEFINE cs == [bs EXCEPT ![i].used = u]
           own == {<<Payload_address(bs, i), bs[i].size>>}
           b == [size |-> bs[i].size, used |-> u]
           new == <<b>>
<1>1. /\ bs \in Seq(Block) /\ Len(bs) \in Nat /\ DOMAIN bs = 1..Len(bs) /\ i \in 1..Len(bs)
      /\ bs[i] \in Block /\ bs[i].size \in Nat /\ i \in Nat \ {0}
      /\ bs[i].used \in BOOLEAN
  BY BlockFacts DEF BlocksOK
<1>2. b \in Block /\ b.used = u /\ b.size = bs[i].size BY <1>1 DEF Block
<1>3. cs = [bs EXCEPT ![i] = b]
  <2> DEFINE o == bs[i]
             r == [o EXCEPT !.used = u]
  <2>1. o \in Block BY <1>1
  <2> HIDE DEF o
  <2>2. r \in Block /\ r.size = o.size /\ r.used = u BY <2>1 DEF Block
  <2> HIDE DEF r
  <2>3. r = [size |-> o.size, used |-> u] BY <2>2 DEF Block
  <2>4. r = b BY <2>3 DEF o
  <2>5. cs = [bs EXCEPT ![i] = [bs[i] EXCEPT !.used = u]] OBVIOUS
  <2> QED BY <2>4, <2>5 DEF r, o
<1> HIDE DEF b
<1>4. Spliced(bs, i, 1, new, cs) BY <1>1, <1>2, <1>3, ReplacedIs
<1>5. Single(new) /\ new[1] = b /\ Len(new) = 1 BY <1>2 DEF Single
<1>6. Len(cs) = Len(bs) /\ cs[i] = b /\ (\A j \in DOMAIN bs : j # i => cs[j] = bs[j])
      /\ DOMAIN cs = DOMAIN bs
  BY <1>1, <1>3
<1> HIDE DEF cs, new
<1>7. /\ Payload_address(cs, i + 1) = Payload_address(bs, i) + b.size + HeaderSize
      /\ Within(cs, i, 1) = IF b.used THEN {<<Payload_address(bs, i), b.size>>} ELSE {}
  BY <1>4, <1>5, OneBlock
<1>8. Payload_address(bs, i + 1) = Payload_address(bs, i) + bs[i].size + HeaderSize
  BY <1>1, PayloadAddresses
<1>9. Payload_address(cs, i + Len(new)) = Payload_address(bs, i + 1) BY <1>2, <1>5, <1>7, <1>8
<1>10. Len(new) # 0 /\ \A j \in 1..Len(new) : LegalSize(new[j].size)
  <2>1. LegalSize(b.size) BY <1>1, <1>2 DEF LegalSize, BlocksOK
  <2>2. \A j \in 1..Len(new) : j = 1 BY <1>5
  <2> QED BY <1>5, <2>1, <2>2
<1>11. /\ BlocksOK(cs) /\ Bound(cs) = Bound(bs)
       /\ Allocations(bs) = Outside(bs, i, 1) \cup Within(bs, i, 1)
       /\ Allocations(cs) = Outside(bs, i, 1) \cup Within(cs, i, Len(new))
  BY <1>4, <1>9, <1>10, ReplaceKeeps
<1>12. Within(cs, i, Len(new)) = IF u THEN own ELSE {} BY <1>2, <1>5, <1>7
<1>13. Within(bs, i, 1) = IF bs[i].used THEN own ELSE {}
  <2>1. \A m \in DOMAIN bs : i <= m /\ m < i + 1 <=> m = i BY <1>1
  <2>2. CASE bs[i].used
    <3>1. {m \in DOMAIN bs : bs[m].used /\ i <= m /\ m < i + 1} = {i} BY <1>1, <2>1, <2>2
    <3> QED BY <2>2, <3>1 DEF Within
  <2>3. CASE ~bs[i].used
    <3>1. {m \in DOMAIN bs : bs[m].used /\ i <= m /\ m < i + 1} = {} BY <2>1, <2>3
    <3> QED BY <2>3, <3>1 DEF Within
  <2> QED BY <2>2, <2>3
<1>14. cs[i].used = u BY <1>2, <1>6
<1> QED BY <1>6, <1>11, <1>12, <1>13, <1>14 DEF cs

\* A free block split in two, the first of which is used.
LEMMA SplitKeeps ==
    ASSUME NEW bs, Healthy(bs), NEW i \in DOMAIN bs, ~bs[i].used, NEW n \in Nat, LegalSize(n),
           bs[i].size >= n + HeaderSize + Alignment
    PROVE  /\ Healthy(Split(bs, i, n)) /\ Bound(Split(bs, i, n)) = Bound(bs)
           /\ Allocations(Split(bs, i, n))
                  = Allocations(bs) \cup {<<Payload_address(bs, i), n>>}
<1> DEFINE b == HeapBlock(n, TRUE)
           rest == bs[i].size - n - HeaderSize
           c == HeapBlock(rest, FALSE)
           new == <<b, c>>
           cs == Split(bs, i, n)
<1>1. /\ bs \in Seq(Block) /\ Len(bs) \in Nat /\ DOMAIN bs = 1..Len(bs) /\ i \in 1..Len(bs)
      /\ bs[i] \in Block /\ bs[i].size \in Nat /\ i \in Nat \ {0} /\ BlocksOK(bs)
      /\ bs[i].size % Alignment = 0
  BY BlockFacts DEF BlocksOK, Healthy
<1>2. HeaderSize \in Nat \ {0} /\ Alignment \in Nat \ {0} /\ HeaderSize % Alignment = 0
  BY LegalSizes
<1>3. LegalSize(rest) /\ n + HeaderSize + rest = bs[i].size
  <2> DEFINE s == bs[i].size
             x == n + HeaderSize
  <2>1. s \in Nat /\ x \in Nat /\ x < s /\ s % Alignment = 0
        /\ n + HeaderSize + (s - n - HeaderSize) = s /\ s - n - HeaderSize = s - x
    BY <1>1, <1>2, SMTT(30)
  <2>2. x % Alignment = 0
    <3>1. n % Alignment = 0 BY DEF LegalSize
    <3> QED BY <1>2, <3>1, AlignedSizes
  <2> HIDE DEF x, s
  <2>3. s - x >= Alignment /\ (s - x) % Alignment = 0 BY <2>1, <2>2, AlignedSizes
  <2>4. s - x \in Nat BY <2>1
  <2>5. LegalSize(s - n - HeaderSize) BY <2>1, <2>3, <2>4 DEF LegalSize
  <2> QED BY <2>1, <2>5 DEF s
<1> HIDE DEF rest
<1>4. /\ b \in Block /\ b.size = n /\ b.used
      /\ c \in Block /\ c.size = rest /\ ~c.used /\ rest \in Nat
  BY <1>3 DEF HeapBlock, Block, LegalSize
<1> HIDE DEF b, c
<1>5. Len(new) = 2 /\ new[1] = b /\ new[2] = c /\ new \in Seq(Block) BY <1>4
<1>6. cs = Relinked(bs, i, 1, new) BY DEF Split, b, c, rest
<1> HIDE DEF new, cs
<1>7. Spliced(bs, i, 1, new, cs)
  <2>1. i + 1 <= Len(bs) + 1 /\ 1 \in Nat BY <1>1
  <2> QED BY <1>1, <1>5, <1>6, <2>1, RelinkedIs
<1>8. /\ cs \in Seq(Block) /\ Len(cs) \in Nat /\ DOMAIN cs = 1..Len(cs)
      /\ Len(cs) = Len(bs) + 1
  <2>1. /\ cs \in Seq(Block) /\ Len(cs) \in Nat /\ DOMAIN cs = 1..Len(cs)
        /\ Len(cs) = Len(bs) + Len(new) - 1
    BY <1>7, SplicedFacts
  <2> QED BY <1>1, <1>5, <2>1
<1>9. cs[i] = b /\ cs[i + 1] = c
  <2>1. \A j \in 1..Len(new) : cs[i + j - 1] = new[j] BY <1>7 DEF Spliced, RelinkedAs
  <2>2. 1 \in 1..Len(new) /\ 2 \in 1..Len(new) /\ i + 1 - 1 = i /\ i + 2 - 1 = i + 1
    BY <1>1, <1>5
  <2>3. cs[i + 1 - 1] = new[1] /\ cs[i + 2 - 1] = new[2] BY <2>1, <2>2
  <2> QED BY <1>5, <2>2, <2>3
<1>10. Payload_address(cs, i) = Payload_address(bs, i) /\ Payload_address(bs, i) \in Nat
  <2>1. i \in 1..i /\ i \in 1..(Len(bs) + 1) BY <1>1
  <2> QED BY <1>1, <1>7, <2>1, RelinkPrefix, PayloadAddresses
<1>11. i \in 1..Len(cs) /\ i + 1 \in 1..Len(cs) /\ (i + 1) + 1 = i + 2 BY <1>1, <1>8
<1>12. Payload_address(cs, i + 2) = Payload_address(bs, i + 1)
  <2> DEFINE v == Payload_address(bs, i)
  <2>1. Payload_address(cs, i + 1) = v + n + HeaderSize
    BY <1>4, <1>8, <1>9, <1>10, <1>11, PayloadAddresses
  <2>2. Payload_address(cs, i + 2) = Payload_address(cs, i + 1) + rest + HeaderSize
    BY <1>4, <1>8, <1>9, <1>11, PayloadAddresses
  <2>3. Payload_address(bs, i + 1) = v + bs[i].size + HeaderSize
    BY <1>1, PayloadAddresses
  <2>4. v \in Nat BY <1>10
  <2> HIDE DEF v
  <2>5. v + n + HeaderSize + rest + HeaderSize = v + (n + HeaderSize + rest) + HeaderSize
    BY <1>2, <1>4, <2>4
  <2> QED BY <1>3, <2>1, <2>2, <2>3, <2>5
<1>13. Payload_address(cs, i + Len(new)) = Payload_address(bs, i + 1) BY <1>5, <1>12
<1>14. Len(new) # 0 /\ \A j \in 1..Len(new) : LegalSize(new[j].size)
  <2>1. \A j \in 1..Len(new) : j = 1 \/ j = 2 BY <1>5
  <2> QED BY <1>3, <1>4, <1>5, <2>1
<1>15. /\ BlocksOK(cs) /\ Bound(cs) = Bound(bs)
       /\ Allocations(bs) = Outside(bs, i, 1) \cup Within(bs, i, 1)
       /\ Allocations(cs) = Outside(bs, i, 1) \cup Within(cs, i, Len(new))
  BY <1>1, <1>7, <1>13, <1>14, ReplaceKeeps
<1>16. Within(bs, i, 1) = {}
  <2>1. \A m \in DOMAIN bs : i <= m /\ m < i + 1 => m = i BY <1>1
  <2> QED BY <2>1, NothingWithin
<1>17. Within(cs, i, 2) = {<<Payload_address(bs, i), n>>}
  <2>1. \A m \in DOMAIN cs : i <= m /\ m < i + 2 <=> m = i \/ m = i + 1 BY <1>8, <1>11
  <2>2. {m \in DOMAIN cs : cs[m].used /\ i <= m /\ m < i + 2} = {i}
    BY <1>4, <1>8, <1>9, <1>11, <2>1
  <2> QED BY <1>4, <1>9, <1>10, <2>2 DEF Within
<1>18. Allocations(cs) = Allocations(bs) \cup {<<Payload_address(bs, i), n>>}
  BY <1>5, <1>15, <1>16, <1>17
<1>19. Apart(cs, {})
  <2>1. ApartAway(bs, i, 1) BY DEF Healthy, Apart, ApartAway
  <2>2. ApartAway(cs, i, Len(new)) BY <1>7, <2>1, RelinkApart
  <2>3. ApartAway(cs, i, 2) BY <1>5, <2>2
  <2>4. ASSUME i + 2 \in DOMAIN cs PROVE cs[i + 2].used
    <3>1. i + 1 \in DOMAIN bs /\ i + 1 > 1 /\ (i + 1) - 1 = i BY <1>1, <1>8, <2>4
    <3>2. bs[i + 1].used BY <3>1 DEF Healthy, Apart
    <3>3. \A j \in 0..(Len(bs) - i - 1) : cs[i + Len(new) + j] = bs[i + 1 + j]
      BY <1>7 DEF Spliced, RelinkedAs
    <3>4. 0 \in 0..(Len(bs) - i - 1) /\ i + 2 + 0 = i + 2 /\ i + 1 + 0 = i + 1 BY <1>1, <3>1
    <3>5. cs[i + 2] = bs[i + 1] BY <1>5, <3>3, <3>4
    <3> QED BY <3>2, <3>5
  <2>5. \A j \in DOMAIN cs : j > 1 /\ i <= j /\ j <= i + 2
            => cs[j].used \/ cs[j - 1].used \/ j \in {}
    <3> SUFFICES ASSUME NEW j \in DOMAIN cs, j > 1, i <= j, j <= i + 2
                 PROVE  cs[j].used \/ cs[j - 1].used
      OBVIOUS
    <3>1. j = i \/ j = i + 1 \/ j = i + 2 BY <1>1, <1>8
    <3>2. (i + 1) - 1 = i BY <1>1
    <3> QED BY <1>4, <1>9, <2>4, <3>1, <3>2
  <2>6. i \in Nat /\ 2 \in Nat BY <1>1
  <2> QED BY <1>8, <2>3, <2>5, <2>6, ApartFrom
<1> QED BY <1>15, <1>18, <1>19 DEF Healthy, cs

\* heap_allocate_from_block.
LEMMA AllocateKeeps ==
    ASSUME NEW bs, Healthy(bs), NEW i \in DOMAIN bs, ~bs[i].used, NEW n \in Nat, LegalSize(n),
           bs[i].size >= n
    PROVE  LET cs == heap_allocate_from_block(bs, i, n)
           IN  /\ Healthy(cs) /\ Bound(cs) = Bound(bs)
               /\ \E s \in Nat : s >= n /\ Allocations(cs)
                      = Allocations(bs) \cup {<<Payload_address(bs, i), s>>}
<1> DEFINE cs == heap_allocate_from_block(bs, i, n)
<1>1. CASE bs[i].size >= n + HeaderSize + Alignment
  <2>1. cs = Split(bs, i, n) BY <1>1 DEF heap_allocate_from_block
  <2>2. /\ Healthy(cs) /\ Bound(cs) = Bound(bs)
        /\ Allocations(cs) = Allocations(bs) \cup {<<Payload_address(bs, i), n>>}
    BY <1>1, <2>1, SplitKeeps
  <2>3. n \in Nat /\ n >= n OBVIOUS
  <2> HIDE DEF cs
  <2>4. \E s \in Nat : s >= n /\ Allocations(cs)
            = Allocations(bs) \cup {<<Payload_address(bs, i), s>>}
    BY <2>2, <2>3
  <2> QED BY <2>2, <2>4 DEF cs
<1>2. CASE ~(bs[i].size >= n + HeaderSize + Alignment)
  <2>0. /\ bs \in Seq(Block) /\ BlocksOK(bs) /\ bs[i].size \in Nat /\ DOMAIN bs = 1..Len(bs)
        /\ Len(bs) \in Nat
    BY BlockFacts DEF Healthy, BlocksOK
  <2>1. cs = [bs EXCEPT ![i].used = TRUE] BY <1>2 DEF heap_allocate_from_block
  <2> DEFINE own == {<<Payload_address(bs, i), bs[i].size>>}
  <2> HIDE DEF cs
  <2>2. /\ BlocksOK(cs) /\ Bound(cs) = Bound(bs)
        /\ cs[i].used = TRUE /\ \A j \in DOMAIN bs : j # i => cs[j] = bs[j]
        /\ DOMAIN cs = DOMAIN bs
        /\ Allocations(bs) = Outside(bs, i, 1) \cup (IF bs[i].used THEN own ELSE {})
        /\ Allocations(cs) = Outside(bs, i, 1) \cup own
    BY <2>0, <2>1, MarkKeeps
  <2>3. Allocations(cs) = Allocations(bs) \cup own BY <2>2
  <2>4. Apart(cs, {})
    <3> SUFFICES ASSUME NEW j \in DOMAIN cs, j > 1 PROVE cs[j].used \/ cs[j - 1].used
      BY DEF Apart
    <3>1. j - 1 \in DOMAIN bs BY <2>0, <2>2
    <3>2. bs[j].used \/ bs[j - 1].used BY <2>2 DEF Healthy, Apart
    <3>3. CASE j = i \/ j - 1 = i BY <2>2, <3>3
    <3>4. CASE j # i /\ j - 1 # i BY <2>2, <3>1, <3>2, <3>4
    <3> QED BY <3>3, <3>4
  <2>5. \E s \in Nat : s >= n /\ Allocations(cs)
            = Allocations(bs) \cup {<<Payload_address(bs, i), s>>}
    BY <2>0, <2>3
  <2> QED BY <2>2, <2>4, <2>5 DEF Healthy, cs
<1> QED BY <1>1, <1>2

----------------------------------------------------------------------------
(* The heap: kfree                                                        *)

\* The size of a merged block.
LEMMA LegalSum ==
    ASSUME NEW x \in Nat, NEW y \in Nat, LegalSize(x), y % Alignment = 0
    PROVE  LegalSize(x + y) /\ x + y \in Nat
<1>1. \A u, v \in Nat : LegalSize(u) /\ v % Alignment = 0 => LegalSize(u + v) BY LegalSizes
<1> QED BY <1>1

\* heap_merge_with_next.
LEMMA MergeKeeps ==
    ASSUME NEW bs, BlocksOK(bs), NEW i \in 0..Len(bs), NEW E, E \subseteq {i},
           Apart(bs, E \cup {i + 1})
    PROVE  /\ BlocksOK(Merged(bs, i)) /\ Bound(Merged(bs, i)) = Bound(bs)
           /\ Allocations(Merged(bs, i)) = Allocations(bs)
           /\ Apart(Merged(bs, i), E) /\ i <= Len(Merged(bs, i))
<1> DEFINE cs == Merged(bs, i)
<1>1. /\ bs \in Seq(Block) /\ Len(bs) \in Nat /\ DOMAIN bs = 1..Len(bs) /\ i \in Nat
      /\ \A j \in DOMAIN bs : bs[j] \in Block /\ bs[j].size \in Nat /\ bs[j].used \in BOOLEAN
  BY BlockFacts DEF BlocksOK
<1>2. CASE i \in 1..(Len(bs) - 1) /\ ~bs[i].used /\ ~bs[i + 1].used
  <2> DEFINE sum == bs[i].size + HeaderSize + bs[i + 1].size
             b == HeapBlock(sum, FALSE)
             new == <<b>>
  <2>1. cs = Relinked(bs, i, 2, new) BY <1>2 DEF Merged
  <2>2. i \in DOMAIN bs /\ i + 1 \in DOMAIN bs /\ i \in Nat \ {0} BY <1>1, <1>2
  <2>3. LegalSize(sum) /\ sum \in Nat
    <3> DEFINE x == bs[i].size
               y == bs[i + 1].size
    <3>1. x \in Nat /\ y \in Nat /\ LegalSize(x) /\ y % Alignment = 0
      BY <1>1, <2>2 DEF LegalSize, BlocksOK
    <3>2. HeaderSize \in Nat /\ HeaderSize % Alignment = 0 BY LegalSizes
    <3> HIDE DEF x, y
    <3>3. LegalSize(x + HeaderSize) /\ x + HeaderSize \in Nat BY <3>1, <3>2, LegalSum
    <3> DEFINE z == x + HeaderSize
    <3>4. z \in Nat /\ LegalSize(z) BY <3>3
    <3>5. sum = z + y BY DEF x, y
    <3> HIDE DEF z, sum
    <3>6. LegalSize(z + y) /\ z + y \in Nat BY <3>1, <3>4, LegalSum
    <3> QED BY <3>5, <3>6
  <2> HIDE DEF sum
  <2>4. b \in Block /\ b.size = sum /\ ~b.used BY <2>3 DEF HeapBlock, Block
  <2> HIDE DEF b
  <2>5. Single(new) /\ new[1] = b /\ Len(new) = 1 /\ new \in Seq(Block) BY <2>4 DEF Single
  <2> HIDE DEF new, cs
  <2>6. Spliced(bs, i, 2, new, cs)
    <3>1. i + 2 <= Len(bs) + 1 /\ 2 \in Nat BY <1>1, <1>2
    <3> QED BY <1>1, <2>1, <2>2, <2>5, <3>1, RelinkedIs
  <2>7. /\ cs \in Seq(Block) /\ Len(cs) \in Nat /\ DOMAIN cs = 1..Len(cs)
        /\ Len(cs) = Len(bs) - 1
    <3>1. /\ cs \in Seq(Block) /\ Len(cs) \in Nat /\ DOMAIN cs = 1..Len(cs)
          /\ Len(cs) = Len(bs) + Len(new) - 2
      BY <2>6, SplicedFacts, SMTT(30)
    <3> QED BY <1>1, <2>5, <3>1
  <2>8. /\ cs[i] = b /\ Within(cs, i, 1) = {}
        /\ Payload_address(cs, i + 1) = Payload_address(bs, i) + sum + HeaderSize
    BY <2>4, <2>5, <2>6, OneBlock
  <2>9. Payload_address(cs, i + Len(new)) = Payload_address(bs, i + 2)
    <3> DEFINE v == Payload_address(bs, i)
    <3>1. Payload_address(bs, i + 1) = v + bs[i].size + HeaderSize
      BY <1>1, <2>2, PayloadAddresses
    <3>2. Payload_address(bs, (i + 1) + 1)
              = Payload_address(bs, i + 1) + bs[i + 1].size + HeaderSize
      BY <1>1, <2>2, PayloadAddresses
    <3>3. v \in Nat /\ bs[i].size \in Nat /\ bs[i + 1].size \in Nat /\ HeaderSize \in Nat
      <4>1. i \in 1..(Len(bs) + 1) BY <1>1, <2>2
      <4> QED BY <1>1, <2>2, <4>1, PayloadAddresses, HeapAssumption
    <3>4. (i + 1) + 1 = i + 2 BY <1>1
    <3> DEFINE x == bs[i].size
               y == bs[i + 1].size
    <3>5. sum = x + HeaderSize + y BY DEF sum
    <3>6. x \in Nat /\ y \in Nat BY <3>3
    <3> HIDE DEF v, x, y
    <3>7. v + (x + HeaderSize + y) + HeaderSize = (v + x + HeaderSize) + y + HeaderSize
      BY <3>3, <3>6
    <3>8. Payload_address(bs, i + 2) = (v + x + HeaderSize) + y + HeaderSize
      BY <3>1, <3>2, <3>4 DEF x, y
    <3>9. Payload_address(cs, i + 1) = v + (x + HeaderSize + y) + HeaderSize
      BY <2>8, <3>5 DEF v
    <3> QED BY <2>5, <3>7, <3>8, <3>9
  <2>10. Len(new) # 0 /\ \A j \in 1..Len(new) : LegalSize(new[j].size)
    <3>1. \A j \in 1..Len(new) : j = 1 BY <2>5
    <3> QED BY <2>3, <2>4, <2>5, <3>1
  <2>11. /\ BlocksOK(cs) /\ Bound(cs) = Bound(bs)
         /\ Allocations(bs) = Outside(bs, i, 2) \cup Within(bs, i, 2)
         /\ Allocations(cs) = Outside(bs, i, 2) \cup Within(cs, i, Len(new))
    BY <2>6, <2>9, <2>10, ReplaceKeeps
  <2>12. Within(bs, i, 2) = {}
    <3>1. \A m \in DOMAIN bs : i <= m /\ m < i + 2 => m = i \/ m = i + 1 BY <1>1
    <3>2. \A m \in DOMAIN bs : i <= m /\ m < i + 2 => ~bs[m].used BY <1>2, <3>1
    <3> QED BY <3>2, NothingWithin
  <2>13. Allocations(cs) = Allocations(bs) BY <2>5, <2>8, <2>11, <2>12
  <2>14. Apart(cs, E)
    <3>1. ApartAway(bs, i, 2)
      <4> SUFFICES ASSUME NEW j \in DOMAIN bs, j > 1, j < i \/ j > i + 2
                   PROVE  bs[j].used \/ bs[j - 1].used
        BY DEF ApartAway
      <4>1. j \notin E \cup {i + 1} BY <1>1
      <4> QED BY <4>1 DEF Apart
    <3>2. ApartAway(cs, i, Len(new)) BY <2>6, <3>1, RelinkApart
    <3>3. ApartAway(cs, i, 1) BY <2>5, <3>2
    <3>4. ASSUME i > 1 PROVE cs[i - 1].used \/ i \in E
      <4>1. bs[i].used \/ bs[i - 1].used \/ i \in E \cup {i + 1} BY <2>2, <3>4 DEF Apart
      <4>2. bs[i - 1].used \/ i \in E BY <1>1, <1>2, <4>1
      <4>3. i - 1 \in 1..(i - 1) BY <1>1, <3>4
      <4>4. cs[i - 1] = bs[i - 1] BY <2>6, <4>3 DEF Spliced, RelinkedAs
      <4> QED BY <4>2, <4>4
    <3>5. ASSUME i + 1 \in DOMAIN cs PROVE cs[i + 1].used
      <4>1. i + 2 \in DOMAIN bs /\ i + 2 > 1 /\ (i + 2) - 1 = i + 1 /\ i + 2 \notin E \cup {i + 1}
        BY <1>1, <2>7, <3>5
      <4>2. bs[i + 2].used BY <1>2, <4>1 DEF Apart
      <4>3. \A j \in 0..(Len(bs) - i - 2) : cs[i + Len(new) + j] = bs[i + 2 + j]
        BY <2>6 DEF Spliced, RelinkedAs
      <4>4. 0 \in 0..(Len(bs) - i - 2) /\ i + 1 + 0 = i + 1 /\ i + 2 + 0 = i + 2
        BY <1>1, <4>1
      <4>5. cs[i + 1] = bs[i + 2] BY <2>5, <4>3, <4>4
      <4> QED BY <4>2, <4>5
    <3>6. \A j \in DOMAIN cs : j > 1 /\ i <= j /\ j <= i + 1
              => cs[j].used \/ cs[j - 1].used \/ j \in E
      <4>1. \A j \in DOMAIN cs : i <= j /\ j <= i + 1 => j = i \/ j = i + 1 BY <1>1, <2>7
      <4> QED BY <3>4, <3>5, <4>1
    <3>7. 1 \in Nat OBVIOUS
    <3> QED BY <1>1, <2>7, <3>3, <3>6, <3>7, ApartFrom
  <2>15. i <= Len(cs) BY <1>1, <1>2, <2>7
  <2> QED BY <2>11, <2>13, <2>14, <2>15 DEF cs
<1>3. CASE ~(i \in 1..(Len(bs) - 1) /\ ~bs[i].used /\ ~bs[i + 1].used)
  <2>1. cs = bs BY <1>3 DEF Merged
  <2>2. Apart(bs, E)
    <3> SUFFICES ASSUME NEW j \in DOMAIN bs, j > 1
                 PROVE  bs[j].used \/ bs[j - 1].used \/ j \in E
      BY DEF Apart
    <3>1. bs[j].used \/ bs[j - 1].used \/ j \in E \cup {i + 1} BY DEF Apart
    <3>2. CASE j = i + 1
      <4>1. i \in 1..(Len(bs) - 1) /\ (i + 1) - 1 = i BY <1>1, <3>2
      <4> QED BY <1>3, <3>2, <4>1
    <3> QED BY <3>1, <3>2
  <2>3. i <= Len(bs) BY <1>1
  <2> QED BY <2>1, <2>2, <2>3
<1> QED BY <1>2, <1>3

\* Releasing a block takes its allocation away and leaves the others.
LEMMA FreeKeeps ==
    ASSUME NEW bs, Healthy(bs), NEW i \in DOMAIN bs, bs[i].used
    PROVE  LET cs == Merged(Merged([bs EXCEPT ![i].used = FALSE], i), i - 1)
           IN  /\ Healthy(cs) /\ Bound(cs) = Bound(bs)
               /\ Allocations(cs) = Allocations(bs) \ {<<Payload_address(bs, i), bs[i].size>>}
<1> DEFINE b0 == [bs EXCEPT ![i].used = FALSE]
           b1 == Merged(b0, i)
           b2 == Merged(b1, i - 1)
           own == <<Payload_address(bs, i), bs[i].size>>
<1>1. /\ bs \in Seq(Block) /\ BlocksOK(bs) /\ Len(bs) \in Nat /\ DOMAIN bs = 1..Len(bs)
      /\ i \in 1..Len(bs)
  BY BlockFacts DEF Healthy, BlocksOK
<1>2. /\ BlocksOK(b0) /\ Bound(b0) = Bound(bs) /\ Len(b0) = Len(bs)
      /\ \A j \in DOMAIN bs : j # i => b0[j] = bs[j]
      /\ DOMAIN b0 = DOMAIN bs
      /\ Allocations(bs) = Outside(bs, i, 1) \cup {own}
      /\ Allocations(b0) = Outside(bs, i, 1)
  <2>1. FALSE \in BOOLEAN OBVIOUS
  <2>2. /\ BlocksOK(b0) /\ Bound(b0) = Bound(bs) /\ Len(b0) = Len(bs)
        /\ \A j \in DOMAIN bs : j # i => b0[j] = bs[j]
        /\ DOMAIN b0 = DOMAIN bs
        /\ Allocations(bs) = Outside(bs, i, 1) \cup (IF bs[i].used THEN {own} ELSE {})
        /\ Allocations(b0) = Outside(bs, i, 1) \cup (IF FALSE THEN {own} ELSE {})
    BY <1>1, <2>1, MarkKeeps
  <2> HIDE DEF b0, own
  <2> QED BY <2>2
<1> HIDE DEF b0
<1>3. Apart(b0, {i} \cup {i + 1})
  <2> SUFFICES ASSUME NEW j \in DOMAIN bs, j > 1, j # i, j # i + 1
               PROVE  b0[j].used \/ b0[j - 1].used
    BY <1>2 DEF Apart
  <2>1. j - 1 \in DOMAIN bs /\ j - 1 # i BY <1>1
  <2>2. bs[j].used \/ bs[j - 1].used BY DEF Healthy, Apart
  <2> QED BY <1>2, <2>1, <2>2
<1>4. /\ BlocksOK(b1) /\ Bound(b1) = Bound(bs) /\ Allocations(b1) = Allocations(b0)
      /\ Apart(b1, {i}) /\ i <= Len(b1)
  <2>1. i \in 0..Len(b0) /\ {i} \subseteq {i} BY <1>1, <1>2
  <2>2. /\ BlocksOK(b1) /\ Bound(b1) = Bound(b0) /\ Allocations(b1) = Allocations(b0)
        /\ Apart(b1, {i}) /\ i <= Len(b1)
    BY <1>2, <1>3, <2>1, MergeKeeps
  <2> QED BY <1>2, <2>2
<1> HIDE DEF b1
<1>5. /\ BlocksOK(b2) /\ Bound(b2) = Bound(bs) /\ Allocations(b2) = Allocations(b0)
      /\ Apart(b2, {})
  <2> DEFINE p == i - 1
  <2>1. p \in 0..Len(b1) /\ p + 1 = i
    <3>1. Len(b1) \in Nat BY <1>4, BlockFacts DEF BlocksOK
    <3> QED BY <1>1, <1>4, <3>1
  <2> HIDE DEF p
  <2>2. {} \subseteq {p} /\ Apart(b1, {} \cup {p + 1}) BY <1>4, <2>1
  <2>3. /\ BlocksOK(Merged(b1, p)) /\ Bound(Merged(b1, p)) = Bound(b1)
        /\ Allocations(Merged(b1, p)) = Allocations(b1) /\ Apart(Merged(b1, p), {})
    BY <1>4, <2>1, <2>2, MergeKeeps
  <2> QED BY <1>4, <2>3 DEF p
<1>6. own \notin Outside(bs, i, 1)
  <2> SUFFICES ASSUME own \in Outside(bs, i, 1) PROVE FALSE OBVIOUS
  <2>1. PICK j \in DOMAIN bs : /\ j < i \/ i + 1 <= j
                               /\ own = <<Payload_address(bs, j), bs[j].size>>
    BY DEF Outside
  <2>2. Payload_address(bs, i) = Payload_address(bs, j) BY <2>1
  <2>3. i = j BY <1>1, <2>2, AddressesDiffer
  <2> QED BY <1>1, <2>1, <2>3
<1>7. Allocations(b2) = Allocations(bs) \ {own} BY <1>2, <1>5, <1>6
<1> QED BY <1>5, <1>7 DEF Healthy, b0, b1

----------------------------------------------------------------------------
(* The heap: the steps                                                    *)

\* A request is rounded up to a legal size.
LEMMA RequestAligned ==
    ASSUME NEW size \in Nat \ {0}
    PROVE  /\ heap_align_request(size) \in Nat /\ heap_align_request(size) >= size
           /\ LegalSize(heap_align_request(size))
<1> DEFINE s == size + Alignment - 1
           q == s \div Alignment
           n == q * Alignment
<1>1. Alignment \in Nat \ {0} BY HeapAssumption
<1>2. s \in Nat BY <1>1
<1>3. s >= Alignment /\ size = s - Alignment + 1 BY <1>1
<1>4. heap_align_request(size) = n BY DEF heap_align_request
<1> HIDE DEF s
<1>5. q \in Nat /\ s % Alignment \in 0..(Alignment - 1) /\ s = q * Alignment + (s % Alignment)
  BY <1>1, <1>2, Quotient
<1> HIDE DEF q
<1>6. q # 0
  <2> SUFFICES ASSUME q = 0 PROVE FALSE OBVIOUS
  <2>1. 0 * Alignment = 0 BY <1>1
  <2> QED BY <1>1, <1>3, <1>5, <2>1
<1>7. n \in Nat /\ n >= Alignment
  <2>1. 1 * Alignment = Alignment BY <1>1
  <2>2. n \in Nat /\ 1 * Alignment <= n BY <1>1, <1>5, <1>6, Multiples
  <2> QED BY <1>1, <2>1, <2>2
<1>8. n % Alignment = 0
  <2>1. 0 \in 0..(Alignment - 1) BY <1>1
  <2>2. (q * Alignment + 0) % Alignment = 0 BY <1>1, <1>5, <2>1, DivMod
  <2> QED BY <1>7, <2>2
<1>9. s = n + (s % Alignment) BY <1>5
<1> HIDE DEF n
<1>10. n >= size BY <1>1, <1>2, <1>3, <1>5, <1>7, <1>9
<1> QED BY <1>4, <1>7, <1>8, <1>10 DEF LegalSize

\* heap_validate accepts a healthy list of the right length.
LEMMA Validates ==
    ASSUME NEW bs, Healthy(bs), NEW pages, Bound(bs) = pages * HeapPage
    PROVE  heap_validate(bs, pages)
<1>1. \A i \in DOMAIN bs : bs[i].size >= Alignment /\ bs[i].size % Alignment = 0
  BY DEF Healthy, BlocksOK
<1>2. \A i \in DOMAIN bs : i > 1 => bs[i].used \/ bs[i - 1].used BY DEF Healthy, Apart
<1>3. Payload_address(bs, Len(bs) + 1) - HeaderSize = pages * HeapPage BY DEF Bound
<1> QED BY <1>1, <1>2, <1>3 DEF heap_validate

\* No other allocation begins where a block does.
LEMMA AllocationAt ==
    ASSUME NEW bs \in Seq(Block), NEW i \in DOMAIN bs, NEW x \in Allocations(bs),
           x[1] = Payload_address(bs, i)
    PROVE  bs[i].used /\ x = <<Payload_address(bs, i), bs[i].size>>
<1>1. PICK j \in DOMAIN bs : bs[j].used /\ x = <<Payload_address(bs, j), bs[j].size>>
  BY DEF Allocations
<1>2. x[1] = Payload_address(bs, j) BY <1>1
<1>3. i = j BY <1>2, AddressesDiffer
<1> QED BY <1>1, <1>3


\* The first block that fits is one that does.
LEMMA FindsFit ==
    ASSUME NEW bs \in Seq(Block), NEW n, Fits(bs, n) # {}
    PROVE  LET i == heap_find_fit(bs, n)
           IN  i \in DOMAIN bs /\ ~bs[i].used /\ bs[i].size >= n
<1>1. Fits(bs, n) \subseteq Nat BY BlockFacts DEF Fits
<1>2. \E i \in Fits(bs, n) : \A j \in Fits(bs, n) : i <= j BY <1>1, LeastElement
<1>3. heap_find_fit(bs, n) \in Fits(bs, n) BY <1>2 DEF heap_find_fit
<1> QED BY <1>3 DEF Fits

\* The one block of heap_init is a healthy heap.
LEMMA HeapInitKeeps == HeapInit => HeapInv
<1> SUFFICES ASSUME HeapInit PROVE HeapInv OBVIOUS
<1> DEFINE s == InitialPages * HeapPage - HeaderSize
<1>1. /\ InitialPages \in Nat \ {0} /\ HeapPage \in Nat \ {0} /\ HeapPageMax \in Nat
      /\ InitialPages <= HeapPageMax /\ HeaderSize \in Nat \ {0} /\ HeaderSize < HeapPage
      /\ HeapPage % Alignment = 0 /\ HeaderSize % Alignment = 0
  BY HeapAssumption
<1>2. LegalSize(s) /\ s \in Nat
  <2> DEFINE T == {k \in Nat : (k + 1) * HeapPage \in Nat
                                 /\ ((k + 1) * HeapPage) % Alignment = 0
                                 /\ (k + 1) * HeapPage >= HeapPage}
  <2>1. 0 \in T
    <3>1. (0 + 1) * HeapPage = HeapPage BY <1>1
    <3> QED BY <1>1, <3>1
  <2>2. ASSUME NEW k \in Nat, k \in T PROVE k + 1 \in T
    <3> DEFINE v == (k + 1) * HeapPage
    <3>1. ((k + 1) + 1) * HeapPage = v + HeapPage BY <1>1
    <3>2. v \in Nat /\ v % Alignment = 0 /\ v >= HeapPage BY <2>2
    <3> HIDE DEF v
    <3>3. (v + HeapPage) % Alignment = 0 BY <1>1, <3>2, AlignedSizes
    <3> QED BY <1>1, <3>1, <3>2, <3>3
  <2>3. InitialPages - 1 \in T
    <3> HIDE DEF T
    <3>1. Nat \subseteq T BY <2>1, <2>2, SetInduction
    <3> QED BY <1>1, <3>1
  <2> DEFINE v == InitialPages * HeapPage
  <2>4. (InitialPages - 1) + 1 = InitialPages BY <1>1
  <2>5. v \in Nat /\ v % Alignment = 0 /\ v >= HeapPage BY <2>3, <2>4
  <2> HIDE DEF v
  <2>6. v - HeaderSize >= Alignment /\ (v - HeaderSize) % Alignment = 0
    <3>1. HeaderSize < v /\ HeaderSize \in Nat BY <1>1, <2>5
    <3> QED BY <1>1, <2>5, <3>1, AlignedSizes
  <2>7. v - HeaderSize \in Nat BY <1>1, <2>5
  <2> QED BY <2>6, <2>7 DEF LegalSize, v
<1> DEFINE b == HeapBlock(s, FALSE)
<1>3. b \in Block /\ b.size = s /\ b.used = FALSE BY <1>2 DEF HeapBlock, Block
<1>4. /\ mapped_pages = InitialPages /\ blocks = <<b>> /\ corrupted = FALSE /\ live = <<>>
  BY DEF HeapInit
<1>9. s + HeaderSize = InitialPages * HeapPage BY <1>1, <1>2
<1> HIDE DEF s
<1> HIDE DEF b
<1>5. blocks \in Seq(Block) /\ Len(blocks) = 1 /\ DOMAIN blocks = {1} /\ blocks[1] = b
  BY <1>3, <1>4
<1>6. BlocksOK(blocks) /\ Apart(blocks, {})
  <2>1. \A i \in DOMAIN blocks : blocks[i].size >= Alignment /\ blocks[i].size % Alignment = 0
    BY <1>2, <1>3, <1>5 DEF LegalSize
  <2> QED BY <1>5, <2>1 DEF BlocksOK, Apart
<1>7. Bound(blocks) = mapped_pages * HeapPage
  <2>1. Payload_address(blocks, 1) = HeaderSize
        /\ Payload_address(blocks, 1 + 1)
               = Payload_address(blocks, 1) + blocks[1].size + HeaderSize
    BY <1>5, PayloadAddresses
  <2>2. Bound(blocks) = HeaderSize + s + HeaderSize - HeaderSize
    <3>1. Payload_address(blocks, 1 + 1) = HeaderSize + s + HeaderSize BY <1>3, <1>5, <2>1
    <3>2. Bound(blocks) = Payload_address(blocks, 1 + 1) - HeaderSize BY <1>5 DEF Bound
    <3> DEFINE v == Payload_address(blocks, 1 + 1)
    <3>3. v = HeaderSize + s + HeaderSize /\ Bound(blocks) = v - HeaderSize BY <3>1, <3>2
    <3> HIDE DEF v
    <3> QED BY <1>1, <1>2, <3>3
  <2>3. Bound(blocks) = s + HeaderSize BY <1>1, <1>2, <2>2
  <2> QED BY <1>4, <1>9, <2>3
<1>8. Allocations(blocks) = {}
  <2>1. {j \in DOMAIN blocks : blocks[j].used} = {} BY <1>3, <1>5
  <2> QED BY <2>1 DEF Allocations
<1>10. live \in [{x[1] : x \in Allocations(blocks)} -> Nat]
  <2>1. {x[1] : x \in Allocations(blocks)} = {} BY <1>8
  <2>2. DOMAIN live = {} /\ live = [x \in {} |-> live[x]] BY <1>4
  <2> QED BY <2>1, <2>2
<1>11. mapped_pages \in 1..HeapPageMax BY <1>1, <1>4
<1> QED BY <1>4, <1>6, <1>7, <1>8, <1>10, <1>11 DEF HeapInv

\* kfree keeps the heap healthy and takes one allocation away.
LEMMA KfreeKeeps ==
    ASSUME HeapInv, NEW a, kfree(a)
    PROVE  HeapInv'
<1> PICK i \in DOMAIN blocks :
        /\ Payload_address(blocks, i) = a
        /\ blocks[i].used
        /\ blocks' = Merged(Merged([blocks EXCEPT ![i].used = FALSE], i), i - 1)
  BY DEF kfree
<1> DEFINE own == <<Payload_address(blocks, i), blocks[i].size>>
           A == Allocations(blocks)
           B == Allocations(blocks')
<1>1. Healthy(blocks) /\ blocks \in Seq(Block) BY DEF HeapInv, Healthy, BlocksOK
<1>2. Healthy(blocks') /\ Bound(blocks') = Bound(blocks) /\ B = A \ {own}
  BY <1>1, FreeKeeps
<1>3. mapped_pages' = mapped_pages /\ corrupted' = ~heap_validate(blocks', mapped_pages)
      /\ live' = [b \in DOMAIN live \ {a} |-> live[b]]
  BY DEF kfree
<1>4. Bound(blocks') = mapped_pages * HeapPage BY <1>2 DEF HeapInv
<1>5. corrupted' = FALSE
  <2>1. heap_validate(blocks', mapped_pages) BY <1>2, <1>4, Validates
  <2> QED BY <1>3, <2>1
<1>6. live \in [{x[1] : x \in A} -> Nat] /\ \A x \in A : live[x[1]] <= x[2] BY DEF HeapInv
<1>7. \A x \in A : x[1] = a <=> x = own
  <2> SUFFICES ASSUME NEW x \in A PROVE x[1] = a <=> x = own OBVIOUS
  <2>1. x[1] = a => x = own BY <1>1, AllocationAt
  <2>2. own[1] = a OBVIOUS
  <2> QED BY <2>1, <2>2
<1> HIDE DEF own, A, B
<1>8. {x[1] : x \in B} = DOMAIN live \ {a} BY <1>2, <1>6, <1>7
<1>9. live' \in [{x[1] : x \in B} -> Nat] BY <1>3, <1>6, <1>8
<1>10. \A x \in B : live'[x[1]] <= x[2]
  <2> SUFFICES ASSUME NEW x \in B PROVE live'[x[1]] <= x[2] OBVIOUS
  <2>1. x \in A /\ x[1] \in DOMAIN live \ {a} BY <1>2, <1>8
  <2> QED BY <1>3, <1>6, <2>1
<1>11. mapped_pages' \in 1..HeapPageMax BY <1>3 DEF HeapInv
<1>12. BlocksOK(blocks') /\ Apart(blocks', {}) BY <1>2 DEF Healthy
<1>13. Bound(blocks') = mapped_pages' * HeapPage BY <1>3, <1>4
<1> QED BY <1>5, <1>9, <1>10, <1>11, <1>12, <1>13 DEF HeapInv, B

\* kmalloc keeps the heap healthy, and adds one allocation when it succeeds.
LEMMA KmallocKeeps ==
    ASSUME HeapInv, NEW size \in Nat \ {0}, NEW frames \in Nat, kmalloc(size, frames)
    PROVE  HeapInv'
<1> DEFINE n == heap_align_request(size)
           left == HeapPageMax - mapped_pages
           most == IF frames < left THEN frames ELSE left
           enough == {k \in 0..most : Fits(Grown(blocks, k), n) # {}}
           pages == IF enough = {} THEN most
                    ELSE CHOOSE k \in enough : \A l \in enough : k <= l
           grown == Grown(blocks, pages)
           i == heap_find_fit(grown, n)
           taken == heap_allocate_from_block(grown, i, n)
           at == Payload_address(grown, i)
<1>1. /\ mapped_pages' = mapped_pages + pages
      /\ blocks' = IF enough = {} THEN grown ELSE taken
      /\ corrupted' = ~heap_validate(blocks', mapped_pages')
      /\ live' = IF enough = {} \/ corrupted' THEN live
                 ELSE [a \in DOMAIN live \cup {at} |-> IF a = at THEN size ELSE live[a]]
  BY DEF kmalloc
<1>2. n \in Nat /\ n >= size /\ LegalSize(n) BY RequestAligned
<1>3. most \in Nat /\ mapped_pages + most <= HeapPageMax /\ mapped_pages \in Nat \ {0}
      /\ HeapPageMax \in Nat /\ HeapPage \in Nat
  BY HeapAssumption DEF HeapInv
<1> HIDE DEF most, n
<1>4. pages \in 0..most /\ (enough # {} => pages \in enough)
  <2>1. CASE enough = {} BY <1>3, <2>1
  <2>2. CASE enough # {}
    <3>1. enough \subseteq Nat /\ enough \subseteq 0..most BY <1>3
    <3> HIDE DEF enough
    <3>2. \E k \in enough : \A l \in enough : k <= l BY <2>2, <3>1, LeastElement
    <3> QED BY <2>2, <3>1, <3>2
  <2> QED BY <2>1, <2>2
<1>5. enough # {} => Fits(grown, n) # {} BY <1>4
<1> HIDE DEF enough, pages
<1>6. pages \in Nat /\ mapped_pages + pages \in 1..HeapPageMax BY <1>3, <1>4
<1>7. Healthy(blocks) /\ Bound(blocks) = mapped_pages * HeapPage BY DEF HeapInv, Healthy
<1>8. /\ Healthy(grown) /\ Allocations(grown) = Allocations(blocks)
      /\ Bound(grown) = mapped_pages * HeapPage + pages * HeapPage
  BY <1>6, <1>7, GrownKeeps
<1>9. mapped_pages * HeapPage + pages * HeapPage = (mapped_pages + pages) * HeapPage
  BY <1>3, <1>6
<1> HIDE DEF grown
<1>10. grown \in Seq(Block) BY <1>8 DEF Healthy, BlocksOK
<1>11. mapped_pages' \in 1..HeapPageMax BY <1>1, <1>6
<1> DEFINE A == Allocations(blocks)
           B == Allocations(blocks')
<1>12. live \in [{x[1] : x \in A} -> Nat] /\ \A x \in A : live[x[1]] <= x[2] BY DEF HeapInv
<1>13. CASE enough = {}
  <2>1. blocks' = grown /\ live' = live BY <1>1, <1>13
  <2>2. Bound(blocks') = mapped_pages' * HeapPage BY <1>1, <1>8, <1>9, <2>1
  <2>3. heap_validate(blocks', mapped_pages') BY <1>8, <2>1, <2>2, Validates
  <2>4. corrupted' = FALSE BY <1>1, <2>3
  <2>5. B = A BY <1>8, <2>1
  <2> HIDE DEF A, B
  <2>6. live' \in [{x[1] : x \in B} -> Nat] /\ \A x \in B : live'[x[1]] <= x[2]
    BY <1>12, <2>1, <2>5
  <2>7. BlocksOK(blocks') /\ Apart(blocks', {}) BY <1>8, <2>1 DEF Healthy
  <2> QED BY <1>11, <2>2, <2>4, <2>6, <2>7 DEF HeapInv, B
<1>14. CASE enough # {}
  <2>1. i \in DOMAIN grown /\ ~grown[i].used /\ grown[i].size >= n
    BY <1>5, <1>10, <1>14, FindsFit
  <2> HIDE DEF i
  <2>2. /\ Healthy(taken) /\ Bound(taken) = Bound(grown)
        /\ \E s \in Nat : s >= n /\ Allocations(taken) = Allocations(grown) \cup {<<at, s>>}
    BY <1>2, <1>8, <2>1, AllocateKeeps
  <2>3. PICK s \in Nat : s >= n /\ Allocations(taken) = Allocations(grown) \cup {<<at, s>>}
    BY <2>2
  <2>4. at \in Nat
    <3>1. i \in 1..(Len(grown) + 1) BY <1>10, <2>1, BlockFacts
    <3> QED BY <1>10, <3>1, PayloadAddresses
  <2>5. \A x \in A : x[1] # at BY <1>8, <1>10, <2>1, AllocationAt
  <2> HIDE DEF taken, at
  <2>6. blocks' = taken BY <1>1, <1>14
  <2>7. Bound(blocks') = mapped_pages' * HeapPage BY <1>1, <1>8, <1>9, <2>2, <2>6
  <2>8. heap_validate(blocks', mapped_pages') BY <2>2, <2>6, <2>7, Validates
  <2>9. corrupted' = FALSE BY <1>1, <2>8
  <2>10. live' = [a \in DOMAIN live \cup {at} |-> IF a = at THEN size ELSE live[a]]
    BY <1>1, <1>14, <2>9
  <2>11. B = A \cup {<<at, s>>} BY <1>8, <2>3, <2>6
  <2>12. size \in Nat /\ size <= s BY <1>2, <2>3
  <2> HIDE DEF A, B
  <2>13. {x[1] : x \in B} = DOMAIN live \cup {at}
    <3>1. DOMAIN live = {x[1] : x \in A} BY <1>12
    <3>2. <<at, s>>[1] = at OBVIOUS
    <3>3. \A x \in B : x[1] \in DOMAIN live \cup {at} BY <2>11, <3>1, <3>2
    <3>4. \A y \in DOMAIN live \cup {at} : \E x \in B : x[1] = y BY <2>11, <3>1, <3>2
    <3> QED BY <3>3, <3>4
  <2>14. live' \in [{x[1] : x \in B} -> Nat] BY <1>12, <2>10, <2>12, <2>13
  <2>15. \A x \in B : live'[x[1]] <= x[2]
    <3> SUFFICES ASSUME NEW x \in B PROVE live'[x[1]] <= x[2] OBVIOUS
    <3>1. CASE x \in A
      <4>1. x[1] # at /\ x[1] \in DOMAIN live BY <1>12, <2>5, <3>1
      <4> QED BY <1>12, <2>10, <3>1, <4>1
    <3>2. CASE x = <<at, s>> BY <2>10, <2>12, <3>2
    <3> QED BY <2>11, <3>1, <3>2
  <2>16. BlocksOK(blocks') /\ Apart(blocks', {}) BY <2>2, <2>6 DEF Healthy
  <2> QED BY <1>11, <2>7, <2>9, <2>14, <2>15, <2>16 DEF HeapInv, B
<1> QED BY <1>13, <1>14

\* The invariant has the property.
LEMMA HeapInvMeans == HeapInv => HeapHolds
<1> SUFFICES ASSUME HeapInv PROVE HeapHolds OBVIOUS
<1>1. blocks \in Seq(Block) BY DEF HeapInv, BlocksOK
<1> DEFINE U == {j \in DOMAIN blocks : blocks[j].used}
<1>2. {x[1] : x \in Allocations(blocks)} = {Payload_address(blocks, i) : i \in U}
  <2> DEFINE pair(j) == <<Payload_address(blocks, j), blocks[j].size>>
  <2>1. Allocations(blocks) = {pair(j) : j \in U} BY DEF Allocations
  <2>2. \A j \in U : pair(j)[1] = Payload_address(blocks, j) OBVIOUS
  <2> HIDE DEF pair, U
  <2> QED BY <2>1, <2>2
<1>3. DOMAIN live = {Payload_address(blocks, i) : i \in U} BY <1>2 DEF HeapInv
<1>4. ASSUME NEW i \in DOMAIN blocks, blocks[i].used
      PROVE  live[Payload_address(blocks, i)] <= blocks[i].size
  <2> DEFINE x == <<Payload_address(blocks, i), blocks[i].size>>
  <2>1. x \in Allocations(blocks) BY <1>4 DEF Allocations
  <2>2. live[x[1]] <= x[2] BY <2>1 DEF HeapInv
  <2> QED BY <2>2
<1>5. ~corrupted BY DEF HeapInv
<1> QED BY <1>3, <1>4, <1>5 DEF HeapHolds

\* No sequence of kmalloc and kfree makes heap_validate give up the heap, and the blocks
\* in use are the allocations: the property of heap.c, for every page, header and
\* alignment and every size of heap.
THEOREM HeapHoldsAlways == HeapSpec => []HeapHolds
<1>1. HeapInit => HeapInv BY HeapInitKeeps
<1>2. HeapInv /\ [HeapNext]_heapVars => HeapInv'
  <2> SUFFICES ASSUME HeapInv, [HeapNext]_heapVars PROVE HeapInv' OBVIOUS
  <2>1. ASSUME NEW size \in RequestSizes, NEW frames \in 0..HeapPageMax, kmalloc(size, frames)
        PROVE  HeapInv'
    <3>1. size \in Nat \ {0} /\ frames \in Nat BY HeapAssumption
    <3> QED BY <2>1, <3>1, KmallocKeeps
  <2>2. ASSUME NEW a \in 0..(HeapPageMax * HeapPage), kfree(a) PROVE HeapInv'
    BY <2>2, KfreeKeeps
  <2>3. CASE UNCHANGED heapVars
    BY <2>3 DEF heapVars, HeapInv
  <2> QED BY <2>1, <2>2, <2>3 DEF HeapNext
<1> QED BY <1>1, <1>2, HeapInvMeans, PTL DEF HeapSpec
----------------------------------------------------------------------------
(* The inductive invariant of NET_PING                                     *)

NetSpec == NetInit /\ [][NetNext]_netVars

Labels == DhcpServer \cup HostName \cup {"none", "n"}
Addresses == {"none", "lease", "gateway", "host", "name", "neighbour"} \X Labels
Descriptors == 0..(RxRing - 1)

\* The frames that the card receives, and those that it sends.
Frames ==
    [type : {"offer", "nak", "ack"}, xid : Nat, server : DhcpServer]
    \cup [type : {"arp_reply", "arp_request"}, sender : Addresses, target : Addresses]
    \cup [type : {"dns_answer"}, id : Nat, server : DhcpServer, target : Addresses,
          address : Addresses]
    \cup [type : {"echo_reply"}, peer : Addresses, seq : Nat, target : Addresses]
Questions ==
    [type : {"discover"}, xid : Nat]
    \cup [type : {"request"}, xid : Nat, server : DhcpServer]
    \cup [type : {"arp"}, target : Addresses, source : Addresses]
    \cup [type : {"dns"}, id : Nat, host : HostName, server : DhcpServer, source : Addresses]
    \cup [type : {"echo"}, peer : Addresses, seq : Nat, source : Addresses]

Cards == [initialized : BOOLEAN, network : BOOLEAN, link : BOOLEAN, dma : BOOLEAN,
          mapped : BOOLEAN, rx : [Descriptors -> Frames \cup {NoFrame}],
          rx_next : Descriptors, head : Descriptors, tail : Descriptors]
Configs == [address : Addresses, gateway : Addresses, server : DhcpServer]
Pings == [step : {"idle", "link", "offer", "ack", "arp_dns", "dns", "arp_echo", "echo"},
          target : PingTarget \cup {NoAddress}, address : Addresses, index : Nat, received : Nat,
          result : {"none", "ok", "no_device", "driver_error", "link_down", "dhcp_failed",
                    "dns_failed"},
          offer : DhcpServer \cup {"none"}, calls : Nat]

NetTypeOK ==
    /\ nic \in Cards
    /\ net_config \in Configs \cup {NoConfig}
    /\ arp \in [cache : [0..(ArpCache - 1) -> Addresses], replace : 0..(ArpCache - 1)]
    /\ ping \in Pings
    /\ sequences \in [dhcp : Nat, dns : Nat]
    /\ passed \in BOOLEAN
    /\ requests \subseteq Questions

\* How far a descriptor is behind the next one that the driver polls.
Behind(i, next) == (i + RxRing - next) % RxRing

\* The card owns the descriptors from head up to tail, the one before rx_next.
RxRingOK ==
    /\ \A i \in Descriptors : nic.rx[i] # NoFrame <=> Behind(i, nic.rx_next) < Behind(nic.head, nic.rx_next)
    /\ Behind(nic.tail, nic.rx_next) = RxRing - 1
    /\ nic.initialized = nic.dma /\ nic.initialized = nic.mapped

\* A next hop is cached once.
ArpOK ==
    \A i, j \in 0..(ArpCache - 1) :
        arp.cache[i] = arp.cache[j] => i = j \/ arp.cache[i] = NoAddress

\* A call that asked for a name works with the address of that name.
Named(p) == p.target[1] = "name" => p.address = HostAddress(p.target[2])
WaitsOK(p) ==
    /\ p.step \in {"arp_dns", "dns"} => p.target[1] = "name"
    /\ p.step \in {"arp_echo", "echo"} => Named(p)
ConfigOK ==
    /\ ping.step \in {"arp_dns", "dns", "arp_echo", "echo"} => net_config # NoConfig
    /\ ping.step \in {"offer", "ack"} => net_config = NoConfig
    /\ net_config # NoConfig => net_config.server = ping.offer

\* Transactions and queries are numbered; the requests of the last attempt went
\* to the server that was chosen, the last query is for the name of the call.
QuestionsOK ==
    \A r \in requests :
        /\ r.type = "request" => /\ r.xid <= sequences.dhcp
                                 /\ r.xid = sequences.dhcp => ping.step # "offer" /\ r.server = ping.offer
        /\ r.type = "dns" => /\ r.id <= sequences.dns
                             /\ r.id = sequences.dns /\ ping.step = "dns" => r.host = ping.target[2]

\* What was received is an answer to a frame that was sent.
AnswerTo(frame, asked) ==
    /\ frame.type = "ack" =>
          \E r \in asked : r.type = "request" /\ r.xid = frame.xid /\ r.server = frame.server
    /\ frame.type = "dns_answer" =>
          \E r \in asked : /\ r.type = "dns" /\ r.id = frame.id
                           /\ frame.address \in {HostAddress(r.host), NoAddress}
AnswersOK == \A i \in Descriptors : AnswerTo(nic.rx[i], requests)

NetInv ==
    NetTypeOK /\ RxRingOK /\ ArpOK /\ WaitsOK(ping) /\ ConfigOK /\ QuestionsOK /\ AnswersOK

----------------------------------------------------------------------------
(* The receive ring                                                        *)

\* Distances in the ring, without a remainder.
LEMMA BehindIs ==
    ASSUME NEW i \in Descriptors, NEW n \in Descriptors
    PROVE  /\ Behind(i, n) = IF i >= n THEN i - n ELSE i + RxRing - n
           /\ Behind(i, n) \in Descriptors
<1> DEFINE x == i + RxRing - n
<1>1. RxRing \in Nat \ {0} BY NetAssumption
<1>2. i \in 0..(RxRing - 1) /\ n \in 0..(RxRing - 1) BY DEF Descriptors
<1>3. CASE i >= n
  <2>1. x \in RxRing..(2 * RxRing - 1) /\ x - RxRing = i - n /\ i - n \in 0..(RxRing - 1)
    BY <1>1, <1>2, <1>3
  <2> HIDE DEF x
  <2>2. x % RxRing = x - RxRing BY <1>1, <2>1, ModWrap
  <2>3. Behind(i, n) = x % RxRing BY DEF Behind, x
  <2> QED BY <1>3, <2>1, <2>2, <2>3 DEF Descriptors
<1>4. CASE ~(i >= n)
  <2>1. x \in 0..(RxRing - 1) BY <1>1, <1>2, <1>4
  <2>2. x = i + RxRing - n OBVIOUS
  <2> HIDE DEF x
  <2>3. x % RxRing = x BY <1>1, <2>1, ModSmall
  <2>4. Behind(i, n) = x % RxRing BY DEF Behind, x
  <2> QED BY <1>4, <2>1, <2>2, <2>3, <2>4 DEF Descriptors
<1> QED BY <1>3, <1>4

NextOf(i) == IF i + 1 < RxRing THEN i + 1 ELSE 0

\* The descriptor after another one.
LEMMA NextDescriptor ==
    ASSUME NEW i \in Descriptors
    PROVE  (i + 1) % RxRing = NextOf(i) /\ NextOf(i) \in Descriptors
<1> DEFINE x == i + 1
<1>1. RxRing \in Nat \ {0} BY NetAssumption
<1>2. i \in 0..(RxRing - 1) BY DEF Descriptors
<1>3. CASE x < RxRing
  <2>1. x \in 0..(RxRing - 1) BY <1>1, <1>2, <1>3
  <2>2. NextOf(i) = x BY <1>3 DEF NextOf
  <2> HIDE DEF x
  <2>3. x % RxRing = x BY <1>1, <2>1, ModSmall
  <2> QED BY <2>1, <2>2, <2>3 DEF Descriptors, x
<1>4. CASE ~(x < RxRing)
  <2>1. x \in RxRing..(2 * RxRing - 1) /\ x - RxRing = 0 BY <1>1, <1>2, <1>4
  <2>2. NextOf(i) = 0 BY <1>4 DEF NextOf
  <2>3. 0 \in Descriptors BY <1>1 DEF Descriptors
  <2> HIDE DEF x
  <2>4. x % RxRing = x - RxRing BY <1>1, <2>1, ModWrap
  <2> QED BY <2>1, <2>2, <2>3, <2>4 DEF x
<1> QED BY <1>3, <1>4

\* How the distances change when the driver, or the card, moves on by one.
LEMMA BehindMoves ==
    ASSUME NEW i \in Descriptors, NEW n \in Descriptors
    PROVE  /\ Behind(i, NextOf(n)) = IF i = n THEN RxRing - 1 ELSE Behind(i, n) - 1
           /\ Behind(NextOf(i), n) = IF Behind(i, n) = RxRing - 1 THEN 0 ELSE Behind(i, n) + 1
           /\ Behind(i, n) = 0 <=> i = n
<1>1. RxRing \in Nat \ {0, 1} BY NetAssumption
<1>2. i \in 0..(RxRing - 1) /\ n \in 0..(RxRing - 1) BY DEF Descriptors
<1>3. NextOf(i) \in Descriptors /\ NextOf(n) \in Descriptors BY NextDescriptor
<1>4. Behind(i, n) = IF i >= n THEN i - n ELSE i + RxRing - n BY BehindIs
<1>5. Behind(i, NextOf(n)) = IF i >= NextOf(n) THEN i - NextOf(n) ELSE i + RxRing - NextOf(n)
  BY <1>3, BehindIs
<1>6. Behind(NextOf(i), n) = IF NextOf(i) >= n THEN NextOf(i) - n ELSE NextOf(i) + RxRing - n
  BY <1>3, BehindIs
<1> HIDE DEF Behind
<1>7. Behind(i, NextOf(n)) = IF i = n THEN RxRing - 1 ELSE Behind(i, n) - 1
  BY <1>1, <1>2, <1>4, <1>5 DEF NextOf
<1>8. Behind(NextOf(i), n) = IF Behind(i, n) = RxRing - 1 THEN 0 ELSE Behind(i, n) + 1
  BY <1>1, <1>2, <1>4, <1>6 DEF NextOf
<1>9. Behind(i, n) = 0 <=> i = n
  BY <1>1, <1>2, <1>4
<1> QED BY <1>7, <1>8, <1>9

\* Descriptors at the same distance are the same.
LEMMA BehindInjective ==
    ASSUME NEW i \in Descriptors, NEW j \in Descriptors, NEW n \in Descriptors,
           Behind(i, n) = Behind(j, n)
    PROVE  i = j
<1>1. Behind(i, n) = IF i >= n THEN i - n ELSE i + RxRing - n BY BehindIs
<1>2. Behind(j, n) = IF j >= n THEN j - n ELSE j + RxRing - n BY BehindIs
<1>3. (IF i >= n THEN i - n ELSE i + RxRing - n) = (IF j >= n THEN j - n ELSE j + RxRing - n)
  BY <1>1, <1>2
<1>4. RxRing \in Nat \ {0} /\ i \in 0..(RxRing - 1) /\ j \in 0..(RxRing - 1) /\ n \in 0..(RxRing - 1)
  BY NetAssumption DEF Descriptors
<1> QED BY <1>3, <1>4

\* What a card has.
LEMMA CardFacts ==
    ASSUME NEW c \in Cards
    PROVE  /\ c.rx \in [Descriptors -> Frames \cup {NoFrame}]
           /\ c.rx_next \in Descriptors /\ c.head \in Descriptors /\ c.tail \in Descriptors
           /\ c.initialized \in BOOLEAN /\ c.network \in BOOLEAN /\ c.link \in BOOLEAN
           /\ c.dma \in BOOLEAN /\ c.mapped \in BOOLEAN
BY DEF Cards

\* poll_frame takes the frame at rx_next, and the descriptor becomes the card's.
LEMMA PollKeeps ==
    ASSUME NetInv, poll_frame
    PROVE  /\ nic' \in Cards /\ RxRingOK' /\ Received \in Frames
           /\ arp' \in [cache : [0..(ArpCache - 1) -> Addresses], replace : 0..(ArpCache - 1)] /\ ArpOK'
           /\ \A asked : requests \subseteq asked =>
                 \A i \in Descriptors : AnswerTo(nic'.rx[i], asked)
           /\ AnswerTo(Received, requests)
<1> DEFINE n == nic.rx_next
           m == (nic.rx_next + 1) % RxRing
<1>1. /\ nic \in Cards /\ n \in Descriptors /\ nic.rx \in [Descriptors -> Frames \cup {NoFrame}]
      /\ nic.head \in Descriptors /\ nic.tail \in Descriptors
  BY CardFacts DEF NetInv, NetTypeOK
<1>2. m = NextOf(n) /\ m \in Descriptors /\ RxRing \in Nat /\ RxRing > 1
  BY <1>1, NextDescriptor, NetAssumption
<1>3. /\ nic.rx[n] # NoFrame
      /\ nic' = [nic EXCEPT !.rx[n] = NoFrame, !.tail = n, !.rx_next = m]
      /\ arp' = process_arp(nic.rx[n])
  BY DEF poll_frame, Received
<1>4. nic.rx[n] \in Frames BY <1>1, <1>3
<1> HIDE DEF n, m
<1>5. /\ nic' \in Cards /\ nic'.rx = [nic.rx EXCEPT ![n] = NoFrame]
      /\ nic'.tail = n /\ nic'.rx_next = m /\ nic'.head = nic.head
      /\ nic'.initialized = nic.initialized /\ nic'.dma = nic.dma /\ nic'.mapped = nic.mapped
  BY <1>1, <1>2, <1>3 DEF Cards
<1>6. RxRingOK'
  <2>1. Behind(n, m) = RxRing - 1 BY <1>1, <1>2, BehindMoves
  <2>2. ASSUME NEW i \in Descriptors
        PROVE  nic'.rx[i] # NoFrame <=> Behind(i, m) < Behind(nic.head, m)
    <3>1. nic.rx[i] # NoFrame <=> Behind(i, n) < Behind(nic.head, n)
      BY DEF NetInv, RxRingOK, n
    <3>2. nic.rx[n] # NoFrame <=> Behind(n, n) < Behind(nic.head, n)
      BY <1>1 DEF NetInv, RxRingOK, n
    <3>3. Behind(n, n) = 0 BY <1>1, BehindMoves
    <3>4. Behind(nic.head, n) > 0 BY <1>3, <3>2, <3>3
    <3>5. nic.head # n BY <3>3, <3>4
    <3>6. Behind(nic.head, m) = Behind(nic.head, n) - 1
      BY <1>1, <1>2, <3>5, BehindMoves
    <3>7. /\ Behind(i, n) \in Descriptors /\ Behind(nic.head, n) \in Descriptors
          /\ Behind(nic.head, m) \in Descriptors
      BY <1>1, <1>2, BehindIs
    <3> HIDE DEF Behind
    <3>8. CASE i = n
      <4>1. nic'.rx[i] = NoFrame BY <1>1, <1>5, <3>8
      <4>2. ~(RxRing - 1 < Behind(nic.head, m)) BY <1>2, <3>7 DEF Descriptors
      <4> QED BY <2>1, <3>8, <4>1, <4>2
    <3>9. CASE i # n
      <4>1. nic'.rx[i] = nic.rx[i] BY <1>1, <1>5, <3>9
      <4>2. Behind(i, m) = Behind(i, n) - 1 BY <1>1, <1>2, <3>9, BehindMoves
      <4>3. Behind(i, n) - 1 < Behind(nic.head, n) - 1 <=> Behind(i, n) < Behind(nic.head, n)
        BY <1>2, <3>7 DEF Descriptors
      <4> QED BY <3>1, <3>6, <4>1, <4>2, <4>3
    <3> QED BY <3>8, <3>9
  <2>3. nic'.initialized = nic'.dma /\ nic'.initialized = nic'.mapped
    BY <1>5 DEF NetInv, RxRingOK
  <2>4. /\ Behind(nic'.tail, nic'.rx_next) = RxRing - 1
        /\ \A i \in Descriptors :
              nic'.rx[i] # NoFrame <=> Behind(i, nic'.rx_next) < Behind(nic'.head, nic'.rx_next)
    BY <1>5, <2>1, <2>2
  <2> QED BY <2>3, <2>4 DEF RxRingOK, Behind, Descriptors
<1>7. /\ arp' \in [cache : [0..(ArpCache - 1) -> Addresses], replace : 0..(ArpCache - 1)]
      /\ ArpOK'
  <2>1. /\ arp.cache \in [0..(ArpCache - 1) -> Addresses] /\ arp.replace \in 0..(ArpCache - 1)
        /\ ArpCache \in Nat \ {0}
        /\ arp \in [cache : [0..(ArpCache - 1) -> Addresses], replace : 0..(ArpCache - 1)]
    BY NetAssumption DEF NetInv, NetTypeOK
  <2>2. CASE arp' = arp BY <2>1, <2>2 DEF NetInv, ArpOK
  <2>3. CASE arp' # arp
    <3> DEFINE a == nic.rx[n].sender
    <3>1. /\ nic.rx[n].type \in {"arp_reply", "arp_request"} /\ ~Cached(arp.cache, a)
          /\ arp' = [cache |-> [arp.cache EXCEPT ![arp.replace] = a],
                     replace |-> (arp.replace + 1) % ArpCache]
      BY <1>3, <2>3 DEF process_arp, arp_cache_put
    <3>2. a \in Addresses BY <1>4, <3>1 DEF Frames
    <3>3. (arp.replace + 1) % ArpCache \in 0..(ArpCache - 1) BY <2>1
    <3>4. \A i \in 0..(ArpCache - 1) : arp.cache[i] # a BY <2>1, <3>1 DEF Cached
    <3> HIDE DEF a
    <3> QED BY <2>1, <3>1, <3>2, <3>3, <3>4 DEF NetInv, ArpOK
  <2> QED BY <2>2, <2>3
<1>8. ASSUME NEW asked, requests \subseteq asked, NEW i \in Descriptors
      PROVE  AnswerTo(nic'.rx[i], asked)
  <2>1. CASE i = n
    <3>1. nic'.rx[i] = NoFrame BY <1>1, <1>5, <2>1
    <3> QED BY <3>1 DEF AnswerTo, NoFrame
  <2>2. CASE i # n
    <3>1. nic'.rx[i] = nic.rx[i] BY <1>1, <1>5, <2>2
    <3>2. AnswerTo(nic.rx[i], requests) BY DEF NetInv, AnswersOK
    <3> QED BY <1>8, <3>1, <3>2 DEF AnswerTo
  <2> QED BY <2>1, <2>2
<1>9. AnswerTo(Received, requests) BY <1>1 DEF NetInv, AnswersOK, Received, n
<1> QED BY <1>4, <1>5, <1>6, <1>7, <1>8, <1>9 DEF Received, n

----------------------------------------------------------------------------
(* The steps of a call                                                     *)

\* Every address that the model names is one.
LEMMA AddressFacts ==
    /\ NoAddress \in Addresses
    /\ PingTarget \subseteq Addresses
    /\ \A s \in DhcpServer : Lease(s) \in Addresses /\ Gateway(s) \in Addresses
    /\ \A h \in HostName : HostAddress(h) \in Addresses /\ HostAddress(h) # NoAddress
    /\ \A t \in PingTarget \cup {NoAddress} : t[1] = "name" => t[2] \in HostName
BY DEF NoAddress, Addresses, Labels, PingTarget, Lease, Gateway, HostAddress, ByName

\* What a call has.
LEMMA PingFacts ==
    ASSUME NEW p \in Pings
    PROVE  /\ p.target \in PingTarget \cup {NoAddress} /\ p.address \in Addresses
           /\ p.index \in Nat /\ p.received \in Nat /\ p.calls \in Nat
           /\ p.offer \in DhcpServer \cup {"none"}
           /\ p.step \in {"idle", "link", "offer", "ack", "arp_dns", "dns", "arp_echo", "echo"}
BY DEF Pings

\* What is known before every step of a call.
InCall ==
    /\ requests \subseteq Questions /\ passed \in BOOLEAN /\ sequences \in [dhcp : Nat, dns : Nat]

\* The effect of sending a question and waiting for its answer.
Sent(p, frame) ==
    /\ ping' \in Pings /\ ping'.step \in {p.step, "idle"}
    /\ ping'.offer = p.offer /\ ping'.target = p.target /\ ping'.address = p.address
    /\ passed' \in BOOLEAN
    /\ requests \subseteq requests' /\ requests' \subseteq requests \cup {frame}
    /\ requests' \subseteq Questions

\* A frame is sent and its answer waited for, or the call ends.
LEMMA SendAndWaitSends ==
    ASSUME InCall, NEW p \in Pings, NEW frame \in Questions, NEW outcome,
           NEW error \in {"driver_error", "dhcp_failed", "dns_failed"},
           SendAndWait(p, frame, outcome, error)
    PROVE  Sent(p, frame)
<1>1. requests' \in {requests, requests \cup {frame}} BY DEF SendAndWait, e1000_send
<1>2. CASE outcome = "sent" BY <1>1, <1>2 DEF SendAndWait, Sent, InCall
<1>3. CASE outcome # "sent"
  <2>1. ping' = [p EXCEPT !.step = "idle", !.result = error] /\ passed' = passed
    BY <1>3 DEF SendAndWait
  <2>2. /\ ping' \in Pings /\ ping'.step = "idle" /\ ping'.offer = p.offer
        /\ ping'.target = p.target /\ ping'.address = p.address
    BY <2>1 DEF Pings
  <2> QED BY <1>1, <2>1, <2>2 DEF Sent, InCall
<1> QED BY <1>2, <1>3

\* What a step of a call does when the machine has an address: it may number and
\* send a query for the name of the call, and it sends nothing to a DHCP server.
Continues(p) ==
    /\ ping' \in Pings /\ WaitsOK(ping')
    /\ ping'.step \in {"idle", "arp_dns", "dns", "arp_echo", "echo"}
    /\ ping'.offer = p.offer /\ ping'.target = p.target
    /\ passed' \in BOOLEAN
    /\ sequences' \in [dhcp : Nat, dns : Nat] /\ sequences'.dhcp = sequences.dhcp
    /\ sequences'.dns >= sequences.dns
    /\ ping'.step = "dns" => sequences'.dns > sequences.dns
    /\ requests \subseteq requests' /\ requests' \subseteq Questions
    /\ \A r \in requests' \ requests :
          /\ r.type # "request"
          /\ r.type = "dns" => r.id = sequences'.dns /\ r.host = p.target[2]

\* resolve_dns numbers a query and sends it.
LEMMA DnsQueryContinues ==
    ASSUME InCall, NEW p \in Pings, NEW config \in Configs, NEW outcome,
           p.target[1] = "name", DnsQuery(p, config, outcome)
    PROVE  Continues(p)
<1> DEFINE q == [p EXCEPT !.step = "dns"]
           frame == [type |-> "dns", id |-> sequences.dns + 1, host |-> p.target[2],
                     server |-> config.server, source |-> config.address]
<1>1. /\ q \in Pings /\ q.step = "dns" /\ q.offer = p.offer /\ q.target = p.target
  BY DEF Pings
<1>2. sequences.dns \in Nat /\ sequences.dhcp \in Nat BY DEF InCall
<1>3. frame \in Questions
  <2>1. p.target[2] \in HostName BY PingFacts, AddressFacts
  <2>2. config.server \in DhcpServer /\ config.address \in Addresses BY DEF Configs
  <2>3. sequences.dns + 1 \in Nat BY <1>2
  <2> QED BY <2>1, <2>2, <2>3 DEF Questions
<1>4. /\ sequences' = [sequences EXCEPT !.dns = @ + 1]
      /\ SendAndWait(q, frame, outcome, "dns_failed")
  BY DEF DnsQuery
<1>5. /\ frame.type = "dns" /\ frame.id = sequences.dns + 1 /\ frame.host = p.target[2]
  OBVIOUS
<1> HIDE DEF q, frame
<1>6. Sent(q, frame) BY <1>1, <1>3, <1>4, SendAndWaitSends
<1>7. /\ sequences' \in [dhcp : Nat, dns : Nat] /\ sequences'.dhcp = sequences.dhcp
      /\ sequences'.dns = sequences.dns + 1
  BY <1>2, <1>4 DEF InCall
<1>8. WaitsOK(ping') BY <1>1, <1>6 DEF Sent, WaitsOK
<1>9. sequences'.dns > sequences.dns /\ sequences'.dns >= sequences.dns BY <1>2, <1>7
<1>10. \A r \in requests' \ requests : r = frame BY <1>6 DEF Sent
<1> QED BY <1>1, <1>5, <1>6, <1>7, <1>8, <1>9, <1>10 DEF Sent, Continues

\* ping_once sends an echo to the address of the call.
LEMMA EchoRequestContinues ==
    ASSUME InCall, NEW p \in Pings, NEW config \in Configs, NEW outcome,
           Named(p), EchoRequest(p, config, outcome)
    PROVE  Continues(p)
<1> DEFINE q == [p EXCEPT !.step = "echo"]
           frame == [type |-> "echo", peer |-> p.address, seq |-> p.index,
                     source |-> config.address]
<1>1. /\ q \in Pings /\ q.step = "echo" /\ q.offer = p.offer /\ q.target = p.target
      /\ q.address = p.address
  BY DEF Pings
<1>2. sequences' = sequences /\ sequences.dns \in Nat /\ sequences \in [dhcp : Nat, dns : Nat]
  BY DEF EchoRequest, InCall
<1>3. frame \in Questions
  <2>1. p.address \in Addresses /\ p.index \in Nat BY PingFacts
  <2>2. config.address \in Addresses BY DEF Configs
  <2> QED BY <2>1, <2>2 DEF Questions
<1>4. SendAndWait(q, frame, outcome, "driver_error") BY DEF EchoRequest
<1>5. frame.type = "echo" OBVIOUS
<1> HIDE DEF q, frame
<1>6. Sent(q, frame) BY <1>1, <1>3, <1>4, SendAndWaitSends
<1>7. WaitsOK(ping') BY <1>1, <1>6 DEF Sent, WaitsOK, Named
<1>8. sequences'.dns >= sequences.dns BY <1>2
<1>9. \A r \in requests' \ requests : r = frame BY <1>6 DEF Sent
<1> QED BY <1>1, <1>2, <1>5, <1>6, <1>7, <1>8, <1>9 DEF Sent, Continues

\* resolve_mac is done: what follows is the query, or the echo.
LEMMA ResolvedContinues ==
    ASSUME InCall, NEW p \in Pings, NEW config \in Configs, NEW outcome,
           p.step \in {"arp_dns", "arp_echo"}, WaitsOK(p), Resolved(p, config, outcome)
    PROVE  Continues(p)
<1>1. CASE p.step = "arp_dns"
  BY <1>1, DnsQueryContinues DEF Resolved, WaitsOK
<1>2. CASE p.step = "arp_echo"
  BY <1>2, EchoRequestContinues DEF Resolved, WaitsOK
<1> QED BY <1>1, <1>2

\* resolve_mac finds the hardware address, or asks for it.
LEMMA ResolveMacContinues ==
    ASSUME InCall, NEW p \in Pings, NEW config \in Configs, NEW cache, NEW outcome,
           p.step \in {"arp_dns", "arp_echo"}, WaitsOK(p), resolve_mac(p, config, cache, outcome)
    PROVE  Continues(p)
<1>1. CASE Cached(cache, Hop(p, config))
  BY <1>1, ResolvedContinues DEF resolve_mac
<1>2. CASE ~Cached(cache, Hop(p, config))
  <2> DEFINE frame == [type |-> "arp", target |-> Hop(p, config), source |-> config.address]
  <2>1. config.gateway \in Addresses /\ config.address \in Addresses BY DEF Configs
  <2>2. Hop(p, config) \in Addresses BY <2>1 DEF Hop, NextHop
  <2>3. frame \in Questions BY <2>1, <2>2 DEF Questions
  <2>4. MacError(p) \in {"driver_error", "dhcp_failed", "dns_failed"} BY DEF MacError
  <2>5. SendAndWait(p, frame, outcome, MacError(p)) /\ sequences' = sequences
    BY <1>2 DEF resolve_mac
  <2>6. frame.type = "arp" OBVIOUS
  <2> HIDE DEF frame
  <2>7. Sent(p, frame) BY <2>3, <2>4, <2>5, SendAndWaitSends
  <2>8. WaitsOK(ping') BY <2>7 DEF Sent, WaitsOK, Named
  <2>9. sequences'.dns >= sequences.dns /\ sequences' \in [dhcp : Nat, dns : Nat]
    BY <2>5 DEF InCall
  <2>10. \A r \in requests' \ requests : r = frame BY <2>7 DEF Sent
  <2> QED BY <2>5, <2>6, <2>7, <2>8, <2>9, <2>10 DEF Sent, Continues
<1> QED BY <1>1, <1>2

\* The next echo, or the end of the call.
LEMMA PingOnceContinues ==
    ASSUME InCall, NEW p \in Pings, NEW config \in Configs, NEW cache, NEW i \in Nat,
           NEW received \in Nat, NEW outcome, Named(p),
           ping_once(p, config, cache, i, received, outcome)
    PROVE  Continues(p)
<1> DEFINE q == [p EXCEPT !.step = "arp_echo", !.index = i, !.received = received]
<1>1. /\ q \in Pings /\ q.step = "arp_echo" /\ q.offer = p.offer /\ q.target = p.target
      /\ q.address = p.address
  BY DEF Pings
<1>2. CASE i <= PingCount
  <2>1. resolve_mac(q, config, cache, outcome) BY <1>2 DEF ping_once
  <2> HIDE DEF q
  <2>2. WaitsOK(q) BY <1>1 DEF WaitsOK, Named
  <2>3. Continues(q) BY <1>1, <2>1, <2>2, ResolveMacContinues
  <2> QED BY <1>1, <2>3 DEF Continues
<1>3. CASE ~(i <= PingCount)
  <2>1. ping' = [q EXCEPT !.step = "idle", !.result = "ok", !.index = PingCount]
        /\ sequences' = sequences /\ passed' = passed /\ requests' = requests
    BY <1>3 DEF ping_once
  <2> HIDE DEF q
  <2>2. /\ ping' \in Pings /\ ping'.step = "idle" /\ ping'.offer = p.offer
        /\ ping'.target = p.target
    BY <1>1, <2>1, NetAssumption DEF Pings
  <2>3. WaitsOK(ping') BY <2>2 DEF WaitsOK
  <2>4. sequences'.dns >= sequences.dns BY <2>1 DEF InCall
  <2> QED BY <2>1, <2>2, <2>3, <2>4 DEF Continues, InCall
<1> QED BY <1>2, <1>3

\* The first step of a call of a machine that has an address.
LEMMA ConfiguredContinues ==
    ASSUME InCall, NEW p \in Pings, NEW config \in Configs, NEW cache, NEW outcome,
           Configured(p, config, cache, outcome)
    PROVE  Continues(p)
<1>1. CASE p.target[1] = "name"
  <2> DEFINE q == [p EXCEPT !.step = "arp_dns"]
  <2>1. /\ q \in Pings /\ q.step = "arp_dns" /\ q.offer = p.offer /\ q.target = p.target
    BY DEF Pings
  <2>2. resolve_mac(q, config, cache, outcome) BY <1>1 DEF Configured
  <2> HIDE DEF q
  <2>3. WaitsOK(q) BY <1>1, <2>1 DEF WaitsOK
  <2>4. Continues(q) BY <2>1, <2>2, <2>3, ResolveMacContinues
  <2> QED BY <2>1, <2>4 DEF Continues
<1>2. CASE p.target[1] # "name"
  <2> DEFINE q == [p EXCEPT !.address = p.target]
  <2>1. p.target \in Addresses BY PingFacts, AddressFacts
  <2>2. /\ q \in Pings /\ q.offer = p.offer /\ q.target = p.target
    BY <2>1 DEF Pings
  <2>3. ping_once(q, config, cache, 1, 0, outcome) BY <1>2 DEF Configured
  <2> HIDE DEF q
  <2>4. Named(q) BY <1>2, <2>2 DEF Named
  <2>5. Continues(q) BY <2>2, <2>3, <2>4, PingOnceContinues
  <2> QED BY <2>2, <2>5 DEF Continues
<1> QED BY <1>1, <1>2

\* What the invariant says of the call, the configuration and the questions.
CallOK ==
    /\ ping \in Pings /\ net_config \in Configs \cup {NoConfig}
    /\ sequences \in [dhcp : Nat, dns : Nat] /\ passed \in BOOLEAN
    /\ requests \subseteq Questions
    /\ WaitsOK(ping) /\ ConfigOK /\ QuestionsOK

\* What it says of the card, of what it received and of the cache.
CardOK == nic \in Cards /\ RxRingOK /\ AnswersOK
CacheOK ==
    /\ arp \in [cache : [0..(ArpCache - 1) -> Addresses], replace : 0..(ArpCache - 1)]
    /\ ArpOK

\* The invariant is about three things that a step changes apart.
LEMMA NetInvParts == NetInv <=> CallOK /\ CardOK /\ CacheOK
BY DEF NetInv, NetTypeOK, CallOK, CardOK, CacheOK

\* The fields of questions and frames.
LEMMA QuestionFacts ==
    ASSUME NEW r \in Questions
    PROVE  /\ r.type \in {"discover", "request", "arp", "dns", "echo"}
           /\ r.type \in {"discover", "request"} => r.xid \in Nat
           /\ r.type = "request" => r.server \in DhcpServer
           /\ r.type = "dns" => /\ r.id \in Nat /\ r.host \in HostName /\ r.server \in DhcpServer
                                /\ r.source \in Addresses
           /\ r.type = "arp" => r.target \in Addresses /\ r.source \in Addresses
           /\ r.type = "echo" => r.peer \in Addresses /\ r.seq \in Nat /\ r.source \in Addresses
BY DEF Questions

\* The fields of frames.
LEMMA FrameFacts ==
    ASSUME NEW f \in Frames
    PROVE  /\ f # NoFrame
           /\ f.type \in {"offer", "nak", "ack"} => f.xid \in Nat /\ f.server \in DhcpServer
           /\ f.type = "dns_answer" => f.address \in Addresses /\ f.id \in Nat
BY DEF Frames, NoFrame

\* A configuration is one, and its server is known.
LEMMA ConfigFacts ==
    /\ NoConfig.address = NoAddress
    /\ \A s \in DhcpServer :
          LET c == [address |-> Lease(s), server |-> s, gateway |-> Gateway(s)]
          IN  c \in Configs /\ c.server = s
BY AddressFacts DEF Configs, NoConfig

\* A step of a call of a machine that has an address keeps what is said of calls.
LEMMA ContinuesKeeps ==
    ASSUME CallOK, NEW p, Continues(p), p.offer = ping.offer,
           net_config' \in Configs, net_config'.server = p.offer, net_config' # NoConfig
    PROVE  CallOK'
<1>1. /\ ping' \in Pings /\ passed' \in BOOLEAN /\ sequences' \in [dhcp : Nat, dns : Nat]
      /\ requests' \subseteq Questions /\ WaitsOK(ping')
  BY DEF Continues
<1>2. ConfigOK' BY DEF Continues, ConfigOK
<1>3. QuestionsOK'
  <2>1. /\ sequences.dns \in Nat /\ sequences'.dns \in Nat /\ sequences'.dns >= sequences.dns
        /\ sequences'.dhcp = sequences.dhcp
        /\ ping'.step = "dns" => sequences'.dns > sequences.dns
        /\ ping'.step # "offer" /\ ping'.offer = ping.offer /\ ping'.target = p.target
    BY DEF CallOK, Continues
  <2> SUFFICES ASSUME NEW r \in requests'
      PROVE  /\ r.type = "request" =>
                  /\ r.xid <= sequences'.dhcp
                  /\ r.xid = sequences'.dhcp => ping'.step # "offer" /\ r.server = ping'.offer
             /\ r.type = "dns" =>
                  /\ r.id <= sequences'.dns
                  /\ r.id = sequences'.dns /\ ping'.step = "dns" => r.host = ping'.target[2]
    BY DEF QuestionsOK
  <2>2. CASE r \in requests
    <3>1. /\ r.type = "request" => /\ r.xid <= sequences.dhcp
                                   /\ r.xid = sequences.dhcp => r.server = ping.offer
          /\ r.type = "dns" => r.id <= sequences.dns
      BY <2>2 DEF CallOK, QuestionsOK
    <3>2. r.type = "dns" => r.id \in Nat BY <1>1, QuestionFacts
    <3>3. r.type = "dns" => /\ r.id <= sequences'.dns
                            /\ ~(r.id = sequences'.dns /\ ping'.step = "dns")
      BY <2>1, <3>1, <3>2
    <3> QED BY <2>1, <3>1, <3>3
  <2>3. CASE r \notin requests
    <3>1. r.type # "request" /\ (r.type = "dns" => r.id = sequences'.dns /\ r.host = p.target[2])
      BY <2>3 DEF Continues
    <3>2. sequences'.dns <= sequences'.dns BY <2>1
    <3> QED BY <2>1, <3>1, <3>2
  <2> QED BY <2>2, <2>3
<1> QED BY <1>1, <1>2, <1>3 DEF CallOK, WaitsOK, Named

\* A call that only ends, or goes on waiting, keeps it as well.
LEMMA EndsKeeps ==
    ASSUME CallOK, ping' \in Pings, ping'.step = "idle", ping'.offer = ping.offer,
           passed' \in BOOLEAN, UNCHANGED <<net_config, sequences, requests>>
    PROVE  CallOK'
<1>1. WaitsOK(ping') BY DEF WaitsOK
<1>2. ConfigOK' BY DEF CallOK, ConfigOK
<1>3. QuestionsOK' BY DEF CallOK, QuestionsOK
<1> QED BY <1>1, <1>2, <1>3 DEF CallOK, WaitsOK, Named

\* A step that leaves the call alone keeps it as well.
LEMMA StaysKeeps ==
    ASSUME CallOK, passed' \in BOOLEAN, UNCHANGED <<net_config, ping, sequences, requests>>
    PROVE  CallOK'
BY DEF CallOK, WaitsOK, Named, ConfigOK, QuestionsOK

\* The first step of DHCP.
LEMMA ConfigureDhcpKeeps ==
    ASSUME CallOK, NEW p \in Pings, NEW outcome, p.offer = ping.offer, net_config = NoConfig,
           UNCHANGED net_config, configure_dhcp(p, outcome)
    PROVE  CallOK'
<1> DEFINE q == [p EXCEPT !.step = "offer"]
           frame == [type |-> "discover", xid |-> sequences.dhcp + 1]
<1>1. /\ q \in Pings /\ q.step = "offer" /\ q.offer = p.offer /\ q.target = p.target
  BY DEF Pings
<1>2. /\ sequences.dhcp \in Nat /\ sequences.dns \in Nat /\ InCall
      /\ \A r \in requests : r \in Questions
  BY DEF CallOK, InCall
<1>3. frame \in Questions /\ frame.type = "discover" BY <1>2 DEF Questions
<1>4. sequences' = [sequences EXCEPT !.dhcp = @ + 1] /\ SendAndWait(q, frame, outcome, "dhcp_failed")
  BY DEF configure_dhcp
<1> HIDE DEF q, frame
<1>5. Sent(q, frame) BY <1>1, <1>2, <1>3, <1>4, SendAndWaitSends
<1>6. /\ sequences' \in [dhcp : Nat, dns : Nat] /\ sequences'.dhcp = sequences.dhcp + 1
      /\ sequences'.dns = sequences.dns
  BY <1>2, <1>4 DEF CallOK
<1>7. ping'.step \in {"offer", "idle"} /\ ping'.offer = ping.offer BY <1>1, <1>5 DEF Sent
<1>8. QuestionsOK'
  <2> SUFFICES ASSUME NEW r \in requests'
      PROVE  /\ r.type = "request" =>
                  /\ r.xid <= sequences'.dhcp
                  /\ r.xid = sequences'.dhcp => ping'.step # "offer" /\ r.server = ping'.offer
             /\ r.type = "dns" =>
                  /\ r.id <= sequences'.dns
                  /\ r.id = sequences'.dns /\ ping'.step = "dns" => r.host = ping'.target[2]
    BY DEF QuestionsOK
  <2>1. r \in requests \/ r = frame BY <1>5 DEF Sent
  <2>2. CASE r = frame BY <1>3, <2>2
  <2>3. CASE r \in requests
    <3>1. r.type = "request" => r.xid \in Nat /\ r.xid <= sequences.dhcp
      BY <1>2, <2>3, QuestionFacts DEF CallOK, QuestionsOK
    <3>2. r.type = "request" => r.xid <= sequences'.dhcp /\ r.xid # sequences'.dhcp
      BY <1>2, <1>6, <3>1
    <3>3. r.type = "dns" => r.id <= sequences'.dns BY <1>6, <2>3 DEF CallOK, QuestionsOK
    <3> QED BY <1>7, <3>2, <3>3
  <2> QED BY <2>1, <2>2, <2>3
<1>9. WaitsOK(ping') BY <1>7 DEF WaitsOK
<1>10. ConfigOK' BY <1>7 DEF ConfigOK
<1> QED BY <1>5, <1>6, <1>8, <1>9, <1>10 DEF CallOK, Sent, WaitsOK, Named

\* The first step of a call of a machine that is on the network.
LEMMA OnlineKeeps ==
    ASSUME CallOK, NEW p \in Pings, NEW outcome, p.offer = ping.offer, UNCHANGED net_config,
           Online(p, outcome)
    PROVE  CallOK'
<1>1. CASE net_config = NoConfig BY <1>1, ConfigureDhcpKeeps DEF Online
<1>2. CASE net_config # NoConfig
  <2>1. net_config \in Configs /\ InCall /\ net_config.server = ping.offer
    BY <1>2 DEF CallOK, InCall, ConfigOK
  <2>2. Configured(p, net_config, arp.cache, outcome) BY <1>2 DEF Online
  <2>3. Continues(p) BY <2>1, <2>2, ConfiguredContinues
  <2> QED BY <1>2, <2>1, <2>3, ContinuesKeeps
<1> QED BY <1>1, <1>2

----------------------------------------------------------------------------
(* The actions                                                             *)

\* After a frame was taken from the ring.
LEMMA PollLeaves ==
    ASSUME NetInv, poll_frame, requests \subseteq requests'
    PROVE  CardOK' /\ CacheOK'
<1>1. \A i \in Descriptors : AnswerTo(nic'.rx[i], requests') BY PollKeeps
<1>2. AnswersOK' BY <1>1 DEF AnswersOK, AnswerTo, Descriptors
<1> QED BY <1>2, PollKeeps DEF CardOK, CacheOK

\* A card whose frames and indices stay is as good as before.
LEMMA CardStays ==
    ASSUME CardOK, requests \subseteq requests', nic' \in Cards,
           nic'.rx = nic.rx, nic'.rx_next = nic.rx_next, nic'.head = nic.head, nic'.tail = nic.tail,
           nic'.initialized = nic.initialized, nic'.dma = nic.dma, nic'.mapped = nic.mapped
    PROVE  CardOK'
<1>1. RxRingOK' BY DEF CardOK, RxRingOK, Behind, Descriptors
<1>2. AnswersOK'
  <2> SUFFICES ASSUME NEW i \in Descriptors PROVE AnswerTo(nic'.rx[i], requests')
    BY DEF AnswersOK, AnswerTo, Descriptors
  <2>1. AnswerTo(nic.rx[i], requests) BY DEF CardOK, AnswersOK
  <2> QED BY <2>1 DEF AnswerTo
<1> QED BY <1>1, <1>2 DEF CardOK

\* e1000_init leaves a card that owns what it needs, or nothing.
LEMMA InitLeaves ==
    ASSUME CardOK, NEW found \in CardFound, NEW network \in BOOLEAN, requests \subseteq requests',
           nic' = [e1000_init(found) EXCEPT !.network = network]
    PROVE  CardOK'
<1> DEFINE card == e1000_init(found)
<1>1. nic \in Cards /\ nic.initialized = nic.dma /\ nic.initialized = nic.mapped
  BY DEF CardOK, RxRingOK
<1>2. CASE nic.initialized \/ found = "none"
  <2>1. card = nic BY <1>2 DEF e1000_init
  <2> HIDE DEF card
  <2>2. /\ nic' \in Cards /\ nic'.rx = nic.rx /\ nic'.rx_next = nic.rx_next
        /\ nic'.head = nic.head /\ nic'.tail = nic.tail /\ nic'.initialized = nic.initialized
        /\ nic'.dma = nic.dma /\ nic'.mapped = nic.mapped
    BY <1>1, <2>1 DEF Cards, card
  <2> QED BY <2>2, CardStays
<1>3. CASE ~nic.initialized /\ found = "broken"
  <2>1. card = [nic EXCEPT !.dma = FALSE, !.mapped = FALSE]
    BY <1>1, <1>3 DEF e1000_init, free_dma, CardStarted, Cards
  <2>2. card = nic BY <1>1, <1>3, <2>1 DEF Cards
  <2> HIDE DEF card
  <2>3. /\ nic' \in Cards /\ nic'.rx = nic.rx /\ nic'.rx_next = nic.rx_next
        /\ nic'.head = nic.head /\ nic'.tail = nic.tail /\ nic'.initialized = nic.initialized
        /\ nic'.dma = nic.dma /\ nic'.mapped = nic.mapped
    BY <1>1, <2>2 DEF Cards, card
  <2> QED BY <2>3, CardStays
<1>4. CASE ~nic.initialized /\ found = "ready"
  <2>1. card = setup_rings(CardStarted) BY <1>4 DEF e1000_init
  <2>2. RxRing \in Nat \ {0, 1} /\ 0 \in Descriptors /\ RxRing - 1 \in Descriptors
    BY NetAssumption DEF Descriptors
  <2> DEFINE empty == [i \in Descriptors |-> NoFrame]
             new == [initialized |-> TRUE, network |-> network, link |-> nic.link, dma |-> TRUE,
                     mapped |-> TRUE, rx |-> empty, rx_next |-> 0, head |-> 0, tail |-> RxRing - 1]
  <2>8. nic.link \in BOOLEAN /\ DOMAIN nic.rx = Descriptors BY <1>1, CardFacts
  <2>9. nic' = new BY <1>1, <2>1, <2>8 DEF setup_rings, CardStarted, Cards
  <2>10. new \in Cards BY <2>2, <2>8 DEF Cards
  <2>3. /\ nic' \in Cards /\ nic'.rx = [i \in Descriptors |-> NoFrame] /\ nic'.rx_next = 0
        /\ nic'.head = 0 /\ nic'.tail = RxRing - 1 /\ nic'.initialized = TRUE
        /\ nic'.dma = TRUE /\ nic'.mapped = TRUE
    <3> HIDE DEF empty
    <3>1. nic'.rx = empty BY <2>9
    <3>2. nic' \in Cards BY <2>9, <2>10
    <3>3. /\ nic'.rx_next = 0 /\ nic'.head = 0 /\ nic'.tail = RxRing - 1
          /\ nic'.initialized = TRUE /\ nic'.dma = TRUE /\ nic'.mapped = TRUE
      BY <2>9
    <3> QED BY <3>1, <3>2, <3>3 DEF empty
  <2>4. Behind(0, 0) = 0 BY <2>2, BehindIs
  <2>5. Behind(RxRing - 1, 0) = RxRing - 1 BY <2>2, BehindIs
  <2>6. RxRingOK'
    <3>1. ASSUME NEW i \in Descriptors
          PROVE  nic'.rx[i] # NoFrame <=> Behind(i, nic'.rx_next) < Behind(nic'.head, nic'.rx_next)
      <4>1. Behind(i, 0) \in Descriptors BY <2>2, BehindIs
      <4>2. ~(Behind(i, 0) < 0) BY <2>2, <4>1 DEF Descriptors
      <4> QED BY <2>3, <2>4, <4>2
    <3>2. Behind(nic'.tail, nic'.rx_next) = RxRing - 1 BY <2>3, <2>5
    <3> QED BY <2>3, <3>1, <3>2 DEF RxRingOK, Behind, Descriptors
  <2>7. AnswersOK'
    <3>1. \A i \in Descriptors : nic'.rx[i] = NoFrame BY <2>3
    <3> QED BY <3>1 DEF AnswersOK, AnswerTo, NoFrame, Descriptors
  <2> QED BY <2>3, <2>6, <2>7 DEF CardOK
<1> QED BY <1>2, <1>3, <1>4 DEF CardFound

\* requests only grow.
LEMMA OnlineAsks ==
    ASSUME NEW p, NEW outcome, InCall, p \in Pings, net_config \in Configs \cup {NoConfig},
           Online(p, outcome)
    PROVE  requests \subseteq requests'
<1>1. CASE net_config = NoConfig
  BY <1>1 DEF Online, configure_dhcp, SendAndWait, e1000_send
<1>2. CASE net_config # NoConfig
  <2>1. Configured(p, net_config, arp.cache, outcome) BY <1>2 DEF Online
  <2> QED BY <1>2, <2>1, ConfiguredContinues DEF Continues
<1> QED BY <1>1, <1>2

\* NET_PING begins, with the card that it finds.
LEMMA PingHostKeeps ==
    ASSUME NetInv, NEW target \in PingTarget, NEW found \in CardFound, NEW outcome \in Outcomes,
           net_ping_host(target, found, outcome)
    PROVE  NetInv'
<1> DEFINE p == [NoPing EXCEPT !.target = target, !.calls = ping.calls + 1, !.offer = ping.offer]
           card == IF nic.network THEN nic ELSE e1000_init(found)
           network == card.initialized /\ (card.network \/ card.link)
<1>1. CallOK /\ CardOK /\ CacheOK /\ InCall BY NetInvParts DEF CallOK, InCall
<1>2. /\ p \in Pings /\ p.offer = ping.offer /\ p.step = "idle"
  <2>1. ping.calls \in Nat /\ ping.offer \in DhcpServer \cup {"none"} BY <1>1, PingFacts DEF CallOK
  <2>2. ping.calls + 1 \in Nat BY <2>1
  <2> QED BY <2>1, <2>2, AddressFacts DEF Pings, NoPing
<1>3. /\ nic' = [card EXCEPT !.network = card.initialized /\ (card.network \/ card.link)]
      /\ UNCHANGED <<net_config, arp>>
      /\ CASE ~card.initialized ->
                  /\ ping' = [p EXCEPT !.result = IF found = "none" THEN "no_device" ELSE "driver_error"]
                  /\ UNCHANGED <<sequences, passed, requests>>
           [] card.initialized /\ ~nic'.network ->
                  /\ ping' = [p EXCEPT !.step = "link"]
                  /\ passed' = FALSE
                  /\ UNCHANGED <<sequences, requests>>
           [] OTHER -> Online(p, outcome)
  BY DEF net_ping_host
<1>13. net_config' = net_config /\ arp' = arp BY <1>3
<1>4. card.initialized \in BOOLEAN /\ network \in BOOLEAN
  <2>1. nic.initialized \in BOOLEAN BY <1>1, CardFacts DEF CardOK
  <2>2. nic.initialized \in BOOLEAN /\ e1000_init(found).initialized \in BOOLEAN
    BY <1>1, <2>1 DEF e1000_init, free_dma, CardStarted, setup_rings, CardOK, Cards
  <2>3. card.initialized \in BOOLEAN BY <2>2
  <2> HIDE DEF card
  <2> QED BY <2>3
<1>5. nic' = [card EXCEPT !.network = network] BY <1>3
<1> HIDE DEF p, network
<1>9. CallOK'
  <2>1. CASE ~card.initialized
    <3>1. /\ ping' = [p EXCEPT !.result = IF found = "none" THEN "no_device" ELSE "driver_error"]
          /\ UNCHANGED <<sequences, passed, requests>>
      BY <1>3, <2>1
    <3>2. ping' \in Pings /\ ping'.step = "idle" /\ ping'.offer = ping.offer
      BY <1>2, <3>1 DEF Pings
    <3>3. passed' \in BOOLEAN BY <1>1, <3>1 DEF CallOK
    <3> QED BY <1>1, <1>13, <3>1, <3>2, <3>3, EndsKeeps
  <2>2. CASE card.initialized /\ ~nic'.network
    <3>1. ping' = [p EXCEPT !.step = "link"] /\ passed' = FALSE /\ UNCHANGED <<sequences, requests>>
      BY <1>3, <2>2
    <3>2. ping' \in Pings /\ ping'.step = "link" /\ ping'.offer = ping.offer
      BY <1>2, <3>1 DEF Pings
    <3>3. WaitsOK(ping') /\ ConfigOK' BY <1>1, <1>13, <3>2 DEF WaitsOK, CallOK, ConfigOK
    <3>4. QuestionsOK' BY <1>1, <3>1, <3>2 DEF CallOK, QuestionsOK
    <3> QED BY <1>1, <1>13, <3>1, <3>2, <3>3, <3>4 DEF CallOK, WaitsOK, Named
  <2>3. CASE card.initialized /\ nic'.network
    <3>1. Online(p, outcome) BY <1>3, <2>3
    <3> QED BY <1>1, <1>2, <1>13, <3>1, OnlineKeeps
  <2> HIDE DEF card
  <2> QED BY <1>4, <2>1, <2>2, <2>3
<1>10. requests \subseteq requests'
  <2>1. CASE card.initialized /\ nic'.network
    BY <1>1, <1>2, <1>3, <2>1, OnlineAsks DEF CallOK
  <2>2. CASE ~(card.initialized /\ nic'.network) BY <1>3, <1>4, <2>2
  <2> QED BY <2>1, <2>2
<1>11. CardOK'
  <2>1. CASE nic.network
    <3>1. card = nic BY <2>1
    <3>2. nic' = [nic EXCEPT !.network = network] BY <1>5, <3>1
    <3>3. /\ nic' \in Cards /\ nic'.rx = nic.rx /\ nic'.rx_next = nic.rx_next
          /\ nic'.head = nic.head /\ nic'.tail = nic.tail /\ nic'.initialized = nic.initialized
          /\ nic'.dma = nic.dma /\ nic'.mapped = nic.mapped
      BY <1>1, <1>4, <3>2 DEF CardOK, Cards
    <3> QED BY <1>1, <1>10, <3>3, CardStays
  <2>2. CASE ~nic.network
    <3>1. nic' = [e1000_init(found) EXCEPT !.network = network] BY <1>5, <2>2
    <3> QED BY <1>1, <1>4, <1>10, <3>1, InitLeaves
  <2> QED BY <2>1, <2>2
<1>12. CacheOK' BY <1>1, <1>13 DEF CacheOK, ArpOK
<1> QED BY <1>9, <1>11, <1>12 DEF NetInv, NetTypeOK, CallOK, CardOK, CacheOK

\* The link is up.
LEMMA LinkSeenKeeps ==
    ASSUME NetInv, NEW outcome \in Outcomes, LinkSeen(outcome)
    PROVE  NetInv'
<1>1. CallOK /\ CardOK /\ CacheOK /\ InCall BY NetInvParts DEF CallOK, InCall
<1>2. /\ nic' = [nic EXCEPT !.network = TRUE] /\ Online(ping, outcome)
      /\ net_config' = net_config /\ arp' = arp
  BY DEF LinkSeen
<1>3. ping \in Pings /\ net_config \in Configs \cup {NoConfig} BY <1>1 DEF CallOK
<1>4. requests \subseteq requests' BY <1>1, <1>2, <1>3, OnlineAsks
<1>5. CallOK' BY <1>1, <1>2, <1>3, OnlineKeeps
<1>6. /\ nic' \in Cards /\ nic'.rx = nic.rx /\ nic'.rx_next = nic.rx_next
      /\ nic'.head = nic.head /\ nic'.tail = nic.tail /\ nic'.initialized = nic.initialized
      /\ nic'.dma = nic.dma /\ nic'.mapped = nic.mapped
  BY <1>1, <1>2 DEF CardOK, Cards
<1>7. CardOK' BY <1>1, <1>4, <1>6, CardStays
<1>8. CacheOK' BY <1>1, <1>2 DEF CacheOK, ArpOK
<1> QED BY <1>5, <1>7, <1>8 DEF NetInv, NetTypeOK, CallOK, CardOK, CacheOK

\* A step that takes a frame keeps the invariant if it keeps what is said of calls.
LEMMA PollAndCallKeep ==
    ASSUME NetInv, poll_frame, requests \subseteq requests', CallOK'
    PROVE  NetInv'
BY PollLeaves DEF NetInv, NetTypeOK, CallOK, CardOK, CacheOK

\* A server refused.
LEMMA DhcpRefusedKeeps ==
    ASSUME NetInv, poll_frame, DhcpRefused
    PROVE  NetInv'
<1>1. CallOK BY NetInvParts
<1>2. /\ ping' = [ping EXCEPT !.step = "idle", !.result = "dhcp_failed"] /\ passed' = passed
      /\ UNCHANGED <<net_config, sequences, requests>>
  BY DEF DhcpRefused, PingReturnsWith
<1>3. ping' \in Pings /\ ping'.step = "idle" /\ ping'.offer = ping.offer
  BY <1>1, <1>2 DEF CallOK, Pings
<1>4. CallOK' BY <1>1, <1>2, <1>3, EndsKeeps DEF CallOK
<1> QED BY <1>2, <1>4, PollAndCallKeep

\* A frame that nobody waits for is passed over.
LEMMA KeepsWaitingKeeps ==
    ASSUME NetInv, poll_frame, KeepsWaiting
    PROVE  NetInv'
<1>1. CallOK BY NetInvParts
<1>2. UNCHANGED <<net_config, ping, sequences, passed, requests>> BY DEF KeepsWaiting
<1>3. CallOK' BY <1>1, <1>2, StaysKeeps DEF CallOK
<1> QED BY <1>2, <1>3, PollAndCallKeep

\* The request goes to the server of the offer.
LEMMA TakeOfferKeeps ==
    ASSUME NetInv, NEW outcome \in Outcomes, TakeOffer(outcome)
    PROVE  NetInv'
<1>1. CallOK /\ CardOK /\ CacheOK /\ InCall BY NetInvParts DEF CallOK, InCall
<1>2. ping.step = "offer" /\ poll_frame BY DEF TakeOffer
<1>3. CASE IsDhcp({"nak"}) /\ DhcpRefused BY <1>2, <1>3, DhcpRefusedKeeps
<1>4. CASE KeepsWaiting BY <1>2, <1>4, KeepsWaitingKeeps
<1>5. CASE /\ IsDhcp({"offer"})
           /\ SendAndWait([ping EXCEPT !.step = "ack", !.offer = Received.server],
                          [type |-> "request", xid |-> sequences.dhcp, server |-> Received.server],
                          outcome, "dhcp_failed")
           /\ UNCHANGED <<net_config, sequences>>
  <2> DEFINE q == [ping EXCEPT !.step = "ack", !.offer = Received.server]
             frame == [type |-> "request", xid |-> sequences.dhcp, server |-> Received.server]
  <2>1. Received.server \in DhcpServer
    <3>1. Received \in Frames /\ Received.type = "offer" BY <1>2, <1>5, PollKeeps DEF IsDhcp
    <3> QED BY <3>1, FrameFacts
  <2>2. q \in Pings /\ q.step = "ack" /\ q.offer = Received.server BY <1>1, <2>1 DEF CallOK, Pings
  <2>3. sequences.dhcp \in Nat BY <1>1 DEF InCall
  <2>4. /\ frame \in Questions /\ frame.type = "request" /\ frame.xid = sequences.dhcp
        /\ frame.server = Received.server
    BY <2>1, <2>3 DEF Questions
  <2>5. SendAndWait(q, frame, outcome, "dhcp_failed") /\ net_config' = net_config
        /\ sequences' = sequences
    BY <1>5
  <2> HIDE DEF q, frame
  <2>6. Sent(q, frame) BY <1>1, <2>2, <2>4, <2>5, SendAndWaitSends
  <2>7. ping'.step \in {"ack", "idle"} /\ ping'.offer = Received.server BY <2>2, <2>6 DEF Sent
  <2>8. net_config = NoConfig BY <1>1, <1>2 DEF CallOK, ConfigOK
  <2>9. WaitsOK(ping') /\ ConfigOK' BY <2>5, <2>7, <2>8 DEF WaitsOK, ConfigOK
  <2>10. QuestionsOK'
    <3> SUFFICES ASSUME NEW r \in requests'
        PROVE  /\ r.type = "request" =>
                    /\ r.xid <= sequences'.dhcp
                    /\ r.xid = sequences'.dhcp => ping'.step # "offer" /\ r.server = ping'.offer
               /\ r.type = "dns" =>
                    /\ r.id <= sequences'.dns
                    /\ r.id = sequences'.dns /\ ping'.step = "dns" => r.host = ping'.target[2]
      BY DEF QuestionsOK
    <3>1. r \in requests \/ r = frame BY <2>6 DEF Sent
    <3>2. CASE r = frame
      <4>1. r.xid <= sequences.dhcp BY <2>3, <2>4, <3>2
      <4> QED BY <2>4, <2>5, <2>7, <3>2, <4>1
    <3>3. CASE r \in requests
      <4>1. /\ r.type = "request" => r.xid <= sequences.dhcp /\ r.xid # sequences.dhcp
            /\ r.type = "dns" => r.id <= sequences.dns
        BY <1>1, <1>2, <3>3 DEF CallOK, QuestionsOK
      <4> QED BY <2>5, <2>7, <4>1
    <3> QED BY <3>1, <3>2, <3>3
  <2>11. CallOK' BY <1>1, <2>5, <2>6, <2>9, <2>10 DEF CallOK, Sent, WaitsOK, Named
  <2>12. requests \subseteq requests' BY <2>6 DEF Sent
  <2> QED BY <1>2, <2>11, <2>12, PollAndCallKeep
<1> QED BY <1>3, <1>4, <1>5 DEF TakeOffer

\* The lease is one of the server that the request went to.
LEMMA TakeAckKeeps ==
    ASSUME NetInv, NEW outcome \in Outcomes, TakeAck(outcome)
    PROVE  NetInv'
<1>1. CallOK /\ CardOK /\ CacheOK /\ InCall BY NetInvParts DEF CallOK, InCall
<1>2. ping.step = "ack" /\ poll_frame BY DEF TakeAck
<1>3. CASE DhcpRefused BY <1>2, <1>3, DhcpRefusedKeeps
<1>4. CASE KeepsWaiting BY <1>2, <1>4, KeepsWaitingKeeps
<1>5. CASE /\ IsDhcp({"ack"})
           /\ net_config' = [address |-> Lease(Received.server), server |-> Received.server,
                             gateway |-> Gateway(Received.server)]
           /\ Configured(ping, net_config', arp.cache, outcome)
  <2>1. Received \in Frames /\ Received.type = "ack" /\ Received.xid = sequences.dhcp
    BY <1>2, <1>5, PollKeeps DEF IsDhcp
  <2>2. Received.server \in DhcpServer BY <2>1, FrameFacts
  <2>3. PICK r \in requests : r.type = "request" /\ r.xid = Received.xid /\ r.server = Received.server
    BY <1>2, <2>1, PollKeeps DEF AnswerTo
  <2>4. Received.server = ping.offer BY <1>1, <2>1, <2>3 DEF CallOK, QuestionsOK
  <2>5. net_config' \in Configs /\ net_config'.server = ping.offer
    BY <1>5, <2>2, <2>4, ConfigFacts
  <2>6. net_config' # NoConfig
    <3>1. net_config'.address = Lease(Received.server) BY <1>5
    <3>2. Lease(Received.server) # NoAddress BY DEF Lease, NoAddress
    <3> QED BY <3>1, <3>2, ConfigFacts
  <2>7. ping \in Pings BY <1>1 DEF CallOK
  <2>8. Continues(ping) BY <1>1, <1>5, <2>5, <2>7, ConfiguredContinues
  <2>9. CallOK' BY <1>1, <2>5, <2>6, <2>8, ContinuesKeeps
  <2> QED BY <1>2, <2>8, <2>9, PollAndCallKeep DEF Continues
<1> QED BY <1>3, <1>4, <1>5 DEF TakeAck

\* A step that goes on with the address of the machine.
LEMMA GoesOnKeeps ==
    ASSUME NetInv, poll_frame, UNCHANGED net_config, net_config # NoConfig,
           NEW p, Continues(p), p.offer = ping.offer
    PROVE  NetInv'
<1>1. CallOK BY NetInvParts
<1>2. net_config \in Configs /\ net_config.server = ping.offer BY <1>1 DEF CallOK, ConfigOK
<1>3. CallOK' BY <1>1, <1>2, ContinuesKeeps
<1> QED BY <1>3, PollAndCallKeep DEF Continues

\* resolve_mac goes on when the address is cached.
LEMMA TakeArpKeeps ==
    ASSUME NetInv, NEW outcome \in Outcomes, TakeArp(outcome)
    PROVE  NetInv'
<1>1. CallOK /\ InCall BY NetInvParts DEF CallOK, InCall
<1>2. ping.step \in {"arp_dns", "arp_echo"} /\ poll_frame BY DEF TakeArp
<1>3. CASE KeepsWaiting BY <1>2, <1>3, KeepsWaitingKeeps
<1>4. CASE Resolved(ping, net_config, outcome) /\ UNCHANGED net_config
  <2>1. net_config # NoConfig /\ net_config \in Configs /\ ping \in Pings /\ WaitsOK(ping)
    BY <1>1, <1>2 DEF CallOK, ConfigOK
  <2>2. Continues(ping) BY <1>1, <1>2, <1>4, <2>1, ResolvedContinues
  <2> QED BY <1>2, <1>4, <2>1, <2>2, GoesOnKeeps
<1> QED BY <1>3, <1>4 DEF TakeArp

\* The answer to the last query holds the address of the name of the call.
LEMMA TakeAnswerKeeps ==
    ASSUME NetInv, NEW outcome \in Outcomes, TakeAnswer(outcome)
    PROVE  NetInv'
<1>1. CallOK /\ InCall BY NetInvParts DEF CallOK, InCall
<1>2. ping.step = "dns" /\ poll_frame BY DEF TakeAnswer
<1>3. CASE KeepsWaiting BY <1>2, <1>3, KeepsWaitingKeeps
<1>4. CASE /\ Received.type = "dns_answer" /\ Received.id = sequences.dns
           /\ Received.address # NoAddress /\ net_config' = net_config
           /\ ping_once([ping EXCEPT !.address = Received.address], net_config, arp'.cache,
                        1, 0, outcome)
  <2> DEFINE q == [ping EXCEPT !.address = Received.address]
  <2>1. Received \in Frames /\ Received.address \in Addresses
    BY <1>2, <1>4, PollKeeps, FrameFacts
  <2>2. PICK r \in requests : /\ r.type = "dns" /\ r.id = Received.id
                              /\ Received.address \in {HostAddress(r.host), NoAddress}
    BY <1>2, <1>4, PollKeeps DEF AnswerTo
  <2>3. r.host = ping.target[2] BY <1>1, <1>2, <1>4, <2>2 DEF CallOK, QuestionsOK
  <2>4. /\ q \in Pings /\ q.offer = ping.offer /\ q.target = ping.target
        /\ q.address = Received.address
    BY <1>1, <2>1 DEF CallOK, Pings
  <2>5. Named(q) BY <1>4, <2>2, <2>3, <2>4 DEF Named
  <2>6. net_config # NoConfig /\ net_config \in Configs BY <1>1, <1>2 DEF CallOK, ConfigOK
  <2>7. ping_once(q, net_config, arp'.cache, 1, 0, outcome) BY <1>4
  <2> HIDE DEF q
  <2>8. Continues(q) BY <1>1, <2>4, <2>5, <2>6, <2>7, PingOnceContinues
  <2> QED BY <1>2, <1>4, <2>4, <2>6, <2>8, GoesOnKeeps
<1> QED BY <1>3, <1>4 DEF TakeAnswer

\* An echo was answered.
LEMMA TakeReplyKeeps ==
    ASSUME NetInv, NEW outcome \in Outcomes, TakeReply(outcome)
    PROVE  NetInv'
<1>1. CallOK /\ InCall BY NetInvParts DEF CallOK, InCall
<1>2. ping.step = "echo" /\ poll_frame BY DEF TakeReply
<1>3. CASE KeepsWaiting BY <1>2, <1>3, KeepsWaitingKeeps
<1>4. CASE /\ ping_once(ping, net_config, arp'.cache, ping.index + 1, ping.received + 1, outcome)
           /\ net_config' = net_config
  <2>1. /\ net_config # NoConfig /\ net_config \in Configs /\ ping \in Pings /\ Named(ping)
        /\ ping.index + 1 \in Nat /\ ping.received + 1 \in Nat
    BY <1>1, <1>2, PingFacts DEF CallOK, ConfigOK, WaitsOK
  <2>2. Continues(ping) BY <1>1, <1>4, <2>1, PingOnceContinues
  <2> QED BY <1>2, <1>4, <2>1, <2>2, GoesOnKeeps
<1> QED BY <1>3, <1>4 DEF TakeReply

\* The time of a wait is over.
LEMMA WaitOverKeeps ==
    ASSUME NetInv, NEW outcome \in Outcomes, WaitOver(outcome)
    PROVE  NetInv'
<1>1. CallOK /\ CardOK /\ CacheOK /\ InCall BY NetInvParts DEF CallOK, InCall
<1>2. nic' = nic /\ net_config' = net_config /\ arp' = arp BY DEF WaitOver
<1>3. ping \in Pings BY <1>1 DEF CallOK
<1>4. CallOK' /\ requests \subseteq requests'
  <2>1. CASE ping.step = "echo"
    <3>1. ping_once(ping, net_config, arp.cache, ping.index + 1, ping.received, outcome)
      BY <2>1 DEF WaitOver
    <3>2. /\ net_config # NoConfig /\ net_config \in Configs /\ Named(ping)
          /\ net_config.server = ping.offer /\ ping.index + 1 \in Nat /\ ping.received \in Nat
      BY <1>1, <1>3, <2>1, PingFacts DEF CallOK, ConfigOK, WaitsOK
    <3>3. Continues(ping) BY <1>1, <1>3, <3>1, <3>2, PingOnceContinues
    <3>4. CallOK' BY <1>1, <1>2, <3>2, <3>3, ContinuesKeeps
    <3> QED BY <3>3, <3>4 DEF Continues
  <2>2. CASE ping.step # "echo"
    <3> DEFINE result == CASE ping.step = "link" -> "link_down"
                           [] ping.step \in {"offer", "ack"} -> "dhcp_failed"
                           [] ping.step = "dns" -> "dns_failed"
                           [] OTHER -> MacError(ping)
    <3>1. PingReturnsWith(result) /\ sequences' = sequences /\ requests' = requests
      BY <2>2 DEF WaitOver
    <3>2. result \in {"link_down", "dhcp_failed", "dns_failed", "driver_error"}
      <4>1. ping.step \in {"idle", "link", "offer", "ack", "arp_dns", "dns", "arp_echo", "echo"}
        BY <1>3, PingFacts
      <4>2. MacError(ping) \in {"dns_failed", "driver_error"} BY DEF MacError
      <4> QED BY <4>1, <4>2
    <3> HIDE DEF result
    <3>3. ping' = [ping EXCEPT !.step = "idle", !.result = result] /\ passed' = passed
      BY <3>1 DEF PingReturnsWith
    <3>4. ping' \in Pings /\ ping'.step = "idle" /\ ping'.offer = ping.offer
      BY <1>3, <3>2, <3>3 DEF Pings
    <3>5. passed' \in BOOLEAN BY <1>1, <3>3 DEF InCall
    <3> QED BY <1>1, <1>2, <3>1, <3>4, <3>5, EndsKeeps
  <2> QED BY <2>1, <2>2
<1>5. CardOK' BY <1>1, <1>2, <1>4, CardStays DEF CardOK
<1>6. CacheOK' BY <1>1, <1>2 DEF CacheOK, ArpOK
<1> QED BY <1>4, <1>5, <1>6 DEF NetInv, NetTypeOK, CallOK, CardOK, CacheOK

\* The timer ticks.
LEMMA TimerKeeps ==
    ASSUME NetInv, timer_handle_irq
    PROVE  NetInv'
<1>1. CallOK /\ CardOK /\ CacheOK BY NetInvParts
<1>2. passed' \in BOOLEAN /\ UNCHANGED <<nic, net_config, arp, ping, sequences, requests>>
  BY DEF timer_handle_irq
<1>3. CallOK' BY <1>1, <1>2, StaysKeeps
<1>4. CardOK' BY <1>1, <1>2, CardStays DEF CardOK
<1>5. CacheOK' BY <1>1, <1>2 DEF CacheOK, ArpOK
<1> QED BY <1>3, <1>4, <1>5 DEF NetInv, NetTypeOK, CallOK, CardOK, CacheOK

\* The others answer what was asked.
LEMMA RepliesAnswer ==
    ASSUME NetInv, NEW r \in requests, NEW frame \in Replies(r)
    PROVE  frame \in Frames /\ AnswerTo(frame, requests)
<1>1. r \in Questions BY DEF NetInv, NetTypeOK
<1>2. CASE r.type = "discover"
  <2>1. PICK s \in DhcpServer : frame = [type |-> "offer", xid |-> r.xid, server |-> s]
    BY <1>2 DEF Replies
  <2>2. r.xid \in Nat BY <1>1, <1>2, QuestionFacts
  <2>3. frame \in Frames /\ frame.type = "offer" BY <2>1, <2>2 DEF Frames
  <2> QED BY <2>3 DEF AnswerTo
<1>3. CASE r.type = "request"
  <2> DEFINE t == IF r.server \in Refusing THEN "nak" ELSE "ack"
  <2>1. frame = [type |-> t, xid |-> r.xid, server |-> r.server] BY <1>3 DEF Replies
  <2>2. t \in {"nak", "ack"} OBVIOUS
  <2> HIDE DEF t
  <2>3. r.xid \in Nat /\ r.server \in DhcpServer BY <1>1, <1>3, QuestionFacts
  <2>4. /\ frame \in Frames /\ frame.type \in {"nak", "ack"} /\ frame.xid = r.xid
        /\ frame.server = r.server
    BY <2>1, <2>2, <2>3 DEF Frames
  <2> QED BY <1>3, <2>4 DEF AnswerTo
<1>4. CASE r.type = "arp"
  <2>1. frame = [type |-> "arp_reply", sender |-> r.target, target |-> r.source]
    BY <1>4 DEF Replies
  <2>2. r.target \in Addresses /\ r.source \in Addresses BY <1>1, <1>4, QuestionFacts
  <2>3. frame \in Frames /\ frame.type = "arp_reply" BY <2>1, <2>2 DEF Frames
  <2> QED BY <2>3 DEF AnswerTo
<1>5. CASE r.type = "dns"
  <2>1. PICK a \in {HostAddress(r.host), NoAddress} :
            frame = [type |-> "dns_answer", id |-> r.id, server |-> r.server,
                     target |-> r.source, address |-> a]
    BY <1>5 DEF Replies
  <2>2. r.id \in Nat /\ r.host \in HostName /\ r.server \in DhcpServer /\ r.source \in Addresses
    BY <1>1, <1>5, QuestionFacts
  <2>3. a \in Addresses BY <2>1, <2>2, AddressFacts
  <2>4. /\ frame \in Frames /\ frame.type = "dns_answer" /\ frame.id = r.id /\ frame.address = a
    BY <2>1, <2>2, <2>3 DEF Frames
  <2> QED BY <1>5, <2>1, <2>4 DEF AnswerTo
<1>6. CASE r.type = "echo"
  <2>1. frame = [type |-> "echo_reply", peer |-> r.peer, seq |-> r.seq, target |-> r.source]
    BY <1>6 DEF Replies
  <2>2. r.peer \in Addresses /\ r.seq \in Nat /\ r.source \in Addresses
    BY <1>1, <1>6, QuestionFacts
  <2>3. frame \in Frames /\ frame.type = "echo_reply" BY <2>1, <2>2 DEF Frames
  <2> QED BY <2>3 DEF AnswerTo
<1> QED BY <1>1, <1>2, <1>3, <1>4, <1>5, <1>6, QuestionFacts

\* A question of a neighbour is no answer.
LEMMA NeighbourAsks ==
    ASSUME NetInv
    PROVE  Neighbour \in Frames /\ AnswerTo(Neighbour, requests)
<1>1. net_config.address \in Addresses
  BY AddressFacts, ConfigFacts DEF NetInv, NetTypeOK, Configs
<1>2. <<"neighbour", "n">> \in Addresses BY DEF Addresses, Labels
<1>3. Neighbour.type = "arp_request" BY DEF Neighbour
<1>4. Neighbour \in Frames BY <1>1, <1>2 DEF Neighbour, Frames
<1> QED BY <1>3, <1>4 DEF AnswerTo

\* The card puts a frame at head, which was its own, and never runs into tail.
LEMMA ArrivesKeeps ==
    ASSUME NetInv, NEW frame \in Frames, AnswerTo(frame, requests), Arrives(frame)
    PROVE  NetInv'
<1> DEFINE n == nic.rx_next
           h == nic.head
<1>1. CallOK /\ CardOK /\ CacheOK BY NetInvParts
<1>2. /\ nic \in Cards /\ n \in Descriptors /\ h \in Descriptors /\ nic.tail \in Descriptors
      /\ nic.rx \in [Descriptors -> Frames \cup {NoFrame}]
  BY <1>1, CardFacts DEF CardOK
<1>3. /\ h # nic.tail /\ nic' = [nic EXCEPT !.rx[h] = frame, !.head = (h + 1) % RxRing]
      /\ UNCHANGED <<net_config, arp, ping, sequences, passed, requests>>
  BY DEF Arrives
<1>4. (h + 1) % RxRing = NextOf(h) /\ NextOf(h) \in Descriptors BY <1>2, NextDescriptor
<1> HIDE DEF n, h
<1>5. /\ nic' \in Cards /\ nic'.rx = [nic.rx EXCEPT ![h] = frame] /\ nic'.head = NextOf(h)
      /\ nic'.rx_next = n /\ nic'.tail = nic.tail /\ nic'.initialized = nic.initialized
      /\ nic'.dma = nic.dma /\ nic'.mapped = nic.mapped
  BY <1>2, <1>3, <1>4 DEF Cards, n
<1>6. RxRingOK'
  <2>1. /\ Behind(nic.tail, n) = RxRing - 1
        /\ \A i \in Descriptors : nic.rx[i] # NoFrame <=> Behind(i, n) < Behind(h, n)
    BY <1>1 DEF CardOK, RxRingOK, n, h
  <2>2. Behind(h, n) # RxRing - 1 BY <1>2, <1>3, <2>1, BehindInjective
  <2>3. Behind(NextOf(h), n) = Behind(h, n) + 1 BY <1>2, <2>2, BehindMoves
  <2>4. ASSUME NEW i \in Descriptors
        PROVE  nic'.rx[i] # NoFrame <=> Behind(i, n) < Behind(NextOf(h), n)
    <3>1. Behind(i, n) \in Nat /\ Behind(h, n) \in Nat
      <4>1. Behind(i, n) \in Descriptors /\ Behind(h, n) \in Descriptors BY <1>2, BehindIs
      <4> HIDE DEF Behind
      <4> QED BY <4>1, NetAssumption DEF Descriptors
    <3> HIDE DEF Behind
    <3>2. CASE i = h
      <4>1. nic'.rx[i] # NoFrame BY <1>2, <1>5, <3>2, FrameFacts
      <4>2. Behind(h, n) < Behind(h, n) + 1 BY <3>1
      <4> QED BY <2>3, <3>2, <4>1, <4>2
    <3>3. CASE i # h
      <4>1. nic'.rx[i] = nic.rx[i] BY <1>2, <1>5, <3>3
      <4>2. Behind(i, n) # Behind(h, n) BY <1>2, <3>3, BehindInjective
      <4>3. Behind(i, n) < Behind(h, n) <=> Behind(i, n) < Behind(h, n) + 1 BY <3>1, <4>2
      <4> QED BY <2>1, <2>3, <4>1, <4>3
    <3> QED BY <3>2, <3>3
  <2>5. nic'.initialized = nic'.dma /\ nic'.initialized = nic'.mapped
    BY <1>1, <1>5 DEF CardOK, RxRingOK
  <2> QED BY <1>5, <2>1, <2>4, <2>5 DEF RxRingOK, Behind, Descriptors
<1>7. AnswersOK'
  <2>1. ASSUME NEW i \in Descriptors PROVE AnswerTo(nic'.rx[i], requests)
    <3>1. CASE i = h BY <1>2, <1>5, <3>1
    <3>2. CASE i # h
      <4>1. nic'.rx[i] = nic.rx[i] BY <1>2, <1>5, <3>2
      <4> QED BY <1>1, <4>1 DEF CardOK, AnswersOK
    <3> QED BY <3>1, <3>2
  <2> QED BY <1>3, <2>1 DEF AnswersOK, AnswerTo, Descriptors
<1>8. CardOK' BY <1>5, <1>6, <1>7 DEF CardOK
<1>9. CallOK' BY <1>1, <1>3, StaysKeeps DEF CallOK
<1>10. CacheOK' BY <1>1, <1>3 DEF CacheOK, ArpOK
<1> QED BY <1>8, <1>9, <1>10 DEF NetInv, NetTypeOK, CallOK, CardOK, CacheOK

\* The link goes up or down.
LEMMA LinkChangesKeeps ==
    ASSUME NetInv, LinkChanges
    PROVE  NetInv'
<1>1. CallOK /\ CardOK /\ CacheOK BY NetInvParts
<1>2. /\ nic' = [nic EXCEPT !.link = ~nic.link]
      /\ UNCHANGED <<net_config, arp, ping, sequences, passed, requests>>
  BY DEF LinkChanges
<1>3. /\ nic' \in Cards /\ nic'.rx = nic.rx /\ nic'.rx_next = nic.rx_next
      /\ nic'.head = nic.head /\ nic'.tail = nic.tail /\ nic'.initialized = nic.initialized
      /\ nic'.dma = nic.dma /\ nic'.mapped = nic.mapped
  BY <1>1, <1>2 DEF CardOK, Cards
<1>4. CardOK' BY <1>1, <1>2, <1>3, CardStays
<1>5. CallOK' BY <1>1, <1>2, StaysKeeps DEF CallOK
<1>6. CacheOK' BY <1>1, <1>2 DEF CacheOK, ArpOK
<1> QED BY <1>4, <1>5, <1>6 DEF NetInv, NetTypeOK, CallOK, CardOK, CacheOK

----------------------------------------------------------------------------
(* The theorem                                                             *)

\* Nothing has been received or asked at the start.
LEMMA NetStarts == NetInit => NetInv
<1> SUFFICES ASSUME NetInit PROVE NetInv OBVIOUS
<1>1. RxRing \in Nat \ {0, 1} /\ 0 \in Descriptors /\ RxRing - 1 \in Descriptors
      /\ ArpCache \in Nat \ {0}
  BY NetAssumption DEF Descriptors
<1>2. /\ nic.rx = [i \in Descriptors |-> NoFrame] /\ nic.rx_next = 0 /\ nic.head = 0
      /\ nic.tail = RxRing - 1 /\ nic.initialized = nic.dma /\ nic.initialized = nic.mapped
  BY DEF NetInit, Descriptors
<1>3. nic \in Cards
  <2> DEFINE empty == [i \in Descriptors |-> NoFrame]
             new == [initialized |-> FALSE, network |-> FALSE, link |-> FALSE, dma |-> FALSE,
                     mapped |-> FALSE, rx |-> empty, rx_next |-> 0, head |-> 0, tail |-> RxRing - 1]
  <2>1. nic = new BY DEF NetInit, Descriptors
  <2>2. empty \in [Descriptors -> Frames \cup {NoFrame}] OBVIOUS
  <2> HIDE DEF empty
  <2>3. new \in Cards BY <1>1, <2>2 DEF Cards
  <2> QED BY <2>1, <2>3
<1>4. RxRingOK
  <2>1. Behind(0, 0) = 0 /\ Behind(RxRing - 1, 0) = RxRing - 1 BY <1>1, BehindIs
  <2>2. ASSUME NEW i \in Descriptors
        PROVE  nic.rx[i] # NoFrame <=> Behind(i, nic.rx_next) < Behind(nic.head, nic.rx_next)
    <3>1. Behind(i, 0) \in Descriptors BY <1>1, BehindIs
    <3>2. ~(Behind(i, 0) < 0) BY <1>1, <3>1 DEF Descriptors
    <3> QED BY <1>2, <2>1, <3>2
  <2> QED BY <1>2, <2>1, <2>2 DEF RxRingOK
<1>5. AnswersOK
  <2>1. \A i \in Descriptors : nic.rx[i] = NoFrame BY <1>2
  <2> QED BY <2>1 DEF AnswersOK, AnswerTo, NoFrame
<1>6. CacheOK
  <2>1. arp = [cache |-> [i \in 0..(ArpCache - 1) |-> NoAddress], replace |-> 0]
    BY DEF NetInit
  <2>2. arp \in [cache : [0..(ArpCache - 1) -> Addresses], replace : 0..(ArpCache - 1)]
    BY <1>1, <2>1, AddressFacts
  <2>3. ArpOK BY <2>1 DEF ArpOK
  <2> QED BY <2>2, <2>3 DEF CacheOK
<1>7. CallOK
  <2>1. /\ net_config = NoConfig /\ ping = NoPing /\ sequences = [dhcp |-> 0, dns |-> 0]
        /\ passed = FALSE /\ requests = {}
    BY DEF NetInit
  <2>2. ping \in Pings BY <2>1, AddressFacts DEF Pings, NoPing
  <2>3. ping.step = "idle" BY <2>1 DEF NoPing
  <2> QED BY <2>1, <2>2, <2>3 DEF CallOK, WaitsOK, ConfigOK, QuestionsOK
<1> QED BY <1>3, <1>4, <1>5, <1>6, <1>7, NetInvParts DEF CardOK

\* Every step keeps the invariant.
LEMMA NetStep == NetInv /\ [NetNext]_netVars => NetInv'
<1> SUFFICES ASSUME NetInv, [NetNext]_netVars PROVE NetInv' OBVIOUS
<1>1. ASSUME NEW target \in PingTarget, NEW found \in CardFound, NEW outcome \in Outcomes,
             net_ping_host(target, found, outcome)
      PROVE  NetInv'
  BY <1>1, PingHostKeeps
<1>2. CASE CallRuns
  <2>1. PICK outcome \in Outcomes :
           LinkSeen(outcome) \/ TakeOffer(outcome) \/ TakeAck(outcome) \/ TakeArp(outcome)
           \/ TakeAnswer(outcome) \/ TakeReply(outcome) \/ WaitOver(outcome)
    BY <1>2 DEF CallRuns
  <2> QED BY <2>1, LinkSeenKeeps, TakeOfferKeeps, TakeAckKeeps, TakeArpKeeps, TakeAnswerKeeps,
             TakeReplyKeeps, WaitOverKeeps
<1>3. CASE timer_handle_irq BY <1>3, TimerKeeps
<1>4. ASSUME NEW r \in requests, NEW frame \in Replies(r), Arrives(frame)
      PROVE  NetInv'
  BY <1>4, RepliesAnswer, ArrivesKeeps
<1>5. CASE Arrives(Neighbour) BY <1>5, NeighbourAsks, ArrivesKeeps
<1>6. CASE LinkChanges BY <1>6, LinkChangesKeeps
<1>7. CASE UNCHANGED netVars
  <2>1. CallOK /\ CardOK /\ CacheOK BY NetInvParts
  <2>2. UNCHANGED <<nic, net_config, arp, ping, sequences, passed, requests>>
    BY <1>7 DEF netVars
  <2>3. CallOK' BY <2>1, <2>2, StaysKeeps DEF CallOK
  <2>4. CardOK' BY <2>1, <2>2, CardStays DEF CardOK
  <2>5. CacheOK' BY <2>1, <2>2 DEF CacheOK, ArpOK
  <2> QED BY <2>3, <2>4, <2>5 DEF NetInv, NetTypeOK, CallOK, CardOK, CacheOK
<1> QED BY <1>1, <1>2, <1>3, <1>4, <1>5, <1>6, <1>7 DEF NetNext

\* The invariant says what the run checks.
LEMMA NetInvMeans == NetInv => AnswersTrue
<1> SUFFICES ASSUME NetInv PROVE AnswersTrue OBVIOUS
<1>1. CallOK /\ CardOK /\ CacheOK BY NetInvParts
<1>2. DOMAIN nic.rx = Descriptors BY <1>1, CardFacts DEF CardOK
<1>3. DOMAIN arp.cache = 0..(ArpCache - 1) BY <1>1 DEF CacheOK
<1>4. net_config # NoConfig => net_config.server = ping.offer BY <1>1 DEF CallOK, ConfigOK
<1>5. ping.step \in {"arp_echo", "echo"} /\ ping.target[1] = "name" =>
          ping.address = HostAddress(ping.target[2])
  BY <1>1 DEF CallOK, WaitsOK, Named
<1>6. \A i \in DOMAIN nic.rx :
          nic.rx[i] # NoFrame <=>
             (i + RxRing - nic.rx_next) % RxRing < (nic.head + RxRing - nic.rx_next) % RxRing
  BY <1>1, <1>2 DEF CardOK, RxRingOK, Behind
<1>7. \A i, j \in DOMAIN arp.cache :
          arp.cache[i] = arp.cache[j] => i = j \/ arp.cache[i] = NoAddress
  BY <1>1, <1>3 DEF CacheOK, ArpOK
<1>8. nic.initialized = nic.dma /\ nic.initialized = nic.mapped BY <1>1 DEF CardOK, RxRingOK
<1> QED BY <1>4, <1>5, <1>6, <1>7, <1>8 DEF AnswersTrue

\* A call works with the answers to its own questions, whatever the network
\* delivers late, twice or out of order, and driver and card agree on the frames
\* of the receive ring (net.c configure_dhcp, resolve_dns; e1000.c e1000_receive).
THEOREM AnswersTrueAlways == NetSpec => []AnswersTrue
BY NetStarts, NetStep, NetInvMeans, PTL DEF NetSpec
=============================================================================
