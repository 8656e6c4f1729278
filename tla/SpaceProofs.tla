---------------------------- MODULE SpaceProofs ----------------------------
(***************************************************************************)
(* No frame of the machine is lost and none has two owners, for any number  *)
(* of processes, frames and levels of page tables, wherever an operation     *)
(* runs out of memory.                                                      *)
(***************************************************************************)
EXTENDS Space, Induction, FiniteSetTheorems

----------------------------------------------------------------------------
(* Loops                                                                   *)

\* Step i of a loop leads from S[i - 1] to S[i]; and g holds the state after
\* each of N steps from s.
Leads(F, S, N) == \A i \in 1..N : \A c \in S[i - 1] : F[<<c, i>>] \in S[i]
LoopOf(g, F, S, s, N) ==
    /\ g = [i \in 0..N |-> g[i]] /\ g[0] = s
    /\ \A i \in 1..N : g[i] = F[<<g[i - 1], i>>]
    /\ \A i \in 0..N : g[i] \in S[i]

\* Such a loop has a result.
LEMMA LoopResult ==
    ASSUME NEW N \in Nat, NEW S, NEW F, NEW s \in S[0], Leads(F, S, N)
    PROVE  \E g : LoopOf(g, F, S, s, N)
<1> USE DEF Leads, LoopOf
<1> DEFINE U == UNION {S[i] : i \in 0..N}
           G == [x \in U \X (1..N) |-> IF F[x] \in U THEN F[x] ELSE x[1]]
<1>1. StaysIn(G, U, N)
  <2>1. ASSUME NEW c \in U, NEW i \in 1..N PROVE G[<<c, i>>] \in U
    <3>1. <<c, i>> \in U \X (1..N) OBVIOUS
    <3> QED BY <3>1
  <2> HIDE DEF G, U
  <2> QED BY <2>1 DEF StaysIn
<1>2. s \in U OBVIOUS
<1>3. \A i \in 1..N : \A c \in S[i - 1] : G[<<c, i>>] = F[<<c, i>>]
  <2> SUFFICES ASSUME NEW i \in 1..N, NEW c \in S[i - 1] PROVE G[<<c, i>>] = F[<<c, i>>] OBVIOUS
  <2>1. i - 1 \in 0..N /\ i \in 0..N OBVIOUS
  <2>2. c \in U /\ F[<<c, i>>] \in U BY <2>1
  <2>3. <<c, i>> \in U \X (1..N) BY <2>2
  <2> QED BY <2>2, <2>3
<1> HIDE DEF G, U
<1>4. PICK g : Iterates(g, G, U, s, N) BY <1>1, <1>2, Iteration
<1>5. /\ g \in [0..N -> U] /\ g[0] = s
      /\ \A i \in 1..N : g[i] = G[<<g[i - 1], i>>] BY <1>4 DEF Iterates
<1> DEFINE T == {i \in Nat : i <= N => g[i] \in S[i]}
<1>6. 0 \in T BY <1>5
<1>7. ASSUME NEW i \in Nat, i \in T PROVE i + 1 \in T
  <2> SUFFICES ASSUME i + 1 <= N PROVE g[i + 1] \in S[i + 1] OBVIOUS
  <2>1. i + 1 \in 1..N /\ (i + 1) - 1 = i /\ g[i] \in S[i] BY <1>7
  <2>2. g[i + 1] = G[<<g[i], i + 1>>] BY <1>5, <2>1
  <2>3. g[i + 1] = F[<<g[i], i + 1>>] BY <1>3, <2>1, <2>2
  <2> QED BY <2>1, <2>3
<1>8. Nat \subseteq T
  <2> HIDE DEF T
  <2> QED BY <1>6, <1>7, SetInduction
<1>9. \A i \in 0..N : g[i] \in S[i] BY <1>8
<1>10. \A i \in 1..N : g[i] = F[<<g[i - 1], i>>]
  <2> SUFFICES ASSUME NEW i \in 1..N PROVE g[i] = F[<<g[i - 1], i>>] OBVIOUS
  <2>1. i - 1 \in 0..N OBVIOUS
  <2> QED BY <1>3, <1>5, <1>9, <2>1
<1> QED BY <1>5, <1>9, <1>10

\* A recursive definition stays in S when its steps do.
LEMMA LoopStays ==
    ASSUME NEW N \in Nat, NEW S, NEW w, w[0] \in S[0],
           \A i \in 1..N : w[i - 1] \in S[i - 1] => w[i] \in S[i]
    PROVE  \A i \in 0..N : w[i] \in S[i]
<1> DEFINE T == {i \in Nat : i <= N => w[i] \in S[i]}
<1>1. 0 \in T OBVIOUS
<1>2. ASSUME NEW i \in Nat, i \in T PROVE i + 1 \in T
  <2> SUFFICES ASSUME i + 1 <= N PROVE w[i + 1] \in S[i + 1] OBVIOUS
  <2>1. i + 1 \in 1..N /\ (i + 1) - 1 = i /\ w[i] \in S[i] BY <1>2
  <2> QED BY <2>1
<1>3. Nat \subseteq T
  <2> HIDE DEF T
  <2> QED BY <1>1, <1>2, SetInduction
<1> QED BY <1>3

----------------------------------------------------------------------------
(* The tables above a page                                                 *)

Level == 1..(Depth - 1)
TableName == (1..Depth) \X Nat

\* A part of a number is a number.
LEMMA PartNat == \A x, d : x \in Nat /\ d \in Nat \ {0} => x \div d \in Nat
<1> SUFFICES ASSUME NEW x \in Nat, NEW d \in Nat \ {0} PROVE x \div d \in Nat OBVIOUS
<1> QED BY Z3

\* Each table covers the pages of its number, part by part.
LEMMA AboveIs ==
    /\ Above \in [0..(Depth - 1) -> [UserPage -> Nat]]
    /\ Above[0] = [v \in UserPage |-> v]
    /\ \A k \in Level : \A v \in UserPage : Above[k][v] = Above[k - 1][v] \div Fanout
<1> DEFINE N == Depth - 1
           First == [v \in UserPage |-> v]
           Step(a) == [v \in UserPage |-> a[v] \div Fanout]
           U == [UserPage -> Nat]
           S == [i \in 0..N |-> U]
           F == [x \in U \X (1..N) |-> Step(x[1])]
<1>0. N \in Nat /\ Fanout \in Nat \ {0} /\ StackPage \in Nat BY SpaceAssumption
<1>1. First \in U BY DEF UserPage
<1>2. ASSUME NEW a \in U PROVE Step(a) \in U
  <2>1. \A v \in UserPage : a[v] \div Fanout \in Nat BY <1>0, PartNat
  <2> QED BY <2>1
<1>3. \A a \in U, i \in 1..N : F[<<a, i>>] = Step(a)
  <2> SUFFICES ASSUME NEW a \in U, NEW i \in 1..N PROVE F[<<a, i>>] = Step(a) OBVIOUS
  <2>1. <<a, i>> \in U \X (1..N) OBVIOUS
  <2> QED BY <2>1
<1>4. \A i \in 0..N : S[i] = U OBVIOUS
<1> HIDE DEF F, S
<1>5. PICK g : LoopOf(g, F, S, First, N)
  <2>1. First \in S[0] BY <1>0, <1>1, <1>4
  <2>2. Leads(F, S, N)
    <3> SUFFICES ASSUME NEW i \in 1..N, NEW c \in S[i - 1] PROVE F[<<c, i>>] \in S[i] BY DEF Leads
    <3>1. i - 1 \in 0..N /\ i \in 0..N BY <1>0
    <3>2. c \in U BY <1>4, <3>1
    <3>3. F[<<c, i>>] = Step(c) BY <1>3, <3>2
    <3>4. Step(c) \in U BY <1>2, <3>2
    <3> HIDE DEF Step, U, N
    <3> QED BY <1>4, <3>1, <3>3, <3>4
  <2> HIDE DEF N, First, Step, U
  <2>3. N \in Nat BY <1>0
  <2> HIDE DEF F, S
  <2> QED BY <2>1, <2>2, <2>3, LoopResult
<1>6. \A i \in 1..N : g[i - 1] \in U /\ g[i] = Step(g[i - 1])
  <2> SUFFICES ASSUME NEW i \in 1..N PROVE g[i - 1] \in U /\ g[i] = Step(g[i - 1]) OBVIOUS
  <2>1. i - 1 \in 0..N BY <1>0
  <2> QED BY <1>3, <1>4, <1>5, <2>1 DEF LoopOf
<1>7. g = [k \in 0..N |-> IF k = 0 THEN First ELSE Step(g[k - 1])]
  <2>1. \A k \in 0..N : k = 0 \/ k \in 1..N BY <1>0
  <2>2. \A k \in 0..N : g[k] = IF k = 0 THEN First ELSE Step(g[k - 1])
    BY <1>5, <1>6, <2>1 DEF LoopOf
  <2> QED BY <1>5, <2>2 DEF LoopOf
<1>8. Above = [k \in 0..N |-> IF k = 0 THEN First ELSE Step(Above[k - 1])]
  BY <1>7 DEF Above
<1>9. \A k \in 1..N : Above[k] = Step(Above[k - 1])
  <2> SUFFICES ASSUME NEW k \in 1..N PROVE Above[k] = Step(Above[k - 1]) OBVIOUS
  <2>1. k \in 0..N /\ k # 0 BY <1>0
  <2> HIDE DEF Step, N, First
  <2> QED BY <1>8, <2>1
<1>10. Above[0] = First BY <1>0, <1>8
<1>11. \A i \in 0..N : Above[i] \in S[i]
  <2>1. Above[0] \in S[0] BY <1>0, <1>1, <1>4, <1>10
  <2>2. ASSUME NEW i \in 1..N, Above[i - 1] \in S[i - 1] PROVE Above[i] \in S[i]
    <3>1. i - 1 \in 0..N /\ i \in 0..N BY <1>0
    <3>2. Above[i - 1] \in U BY <1>4, <2>2, <3>1
    <3> QED BY <1>2, <1>4, <1>9, <3>1, <3>2
  <2> HIDE DEF N
  <2> QED BY <1>0, <2>1, <2>2, LoopStays
<1>12. \A i \in 0..N : Above[i] \in U BY <1>4, <1>11
<1>13. Above \in [0..N -> U] BY <1>8, <1>12
<1>14. ASSUME NEW k \in Level, NEW v \in UserPage PROVE Above[k][v] = Above[k - 1][v] \div Fanout
  BY <1>9 DEF Level
<1> QED BY <1>10, <1>13, <1>14

\* The tables above a page.
LEMMA WalkIs ==
    ASSUME NEW v \in UserPage
    PROVE  /\ \A k \in Level : Walk(v)[k] = <<k, Above[k][v]>> /\ Walk(v)[k] \in TableName
           /\ Range(Walk(v)) = {<<k, Above[k][v]>> : k \in Level}
<1>1. \A k \in Level : Above[k][v] \in Nat /\ k \in 1..Depth
  BY AboveIs, SpaceAssumption DEF Level
<1> QED BY <1>1 DEF Walk, Level, Range, TableName

\* A page needs the tables above it.
LEMMA TablesForOneMore ==
    ASSUME NEW P \in SUBSET UserPage, NEW v \in UserPage
    PROVE  TablesFor(P \cup {v}) = TablesFor(P) \cup Range(Walk(v))
BY WalkIs DEF TablesFor, Level

\* The tables of any pages.
LEMMA TablesForNames ==
    ASSUME NEW P \in SUBSET UserPage
    PROVE  TablesFor(P) \subseteq TableName /\ Root \in TableName
<1>1. Root \in TableName BY SpaceAssumption DEF Root, TableName
<1>2. \A k \in Level : \A v \in P : <<k, Above[k][v]>> \in TableName
  BY AboveIs, SpaceAssumption DEF Level, TableName
<1> QED BY <1>1, <1>2 DEF TablesFor, Level

----------------------------------------------------------------------------
(* The frames in the hands of a call                                       *)

Tables == UNION {[D -> Frame] : D \in SUBSET TableName}
PageMaps == UNION {[D -> Frame] : D \in SUBSET UserPage}
Call == [available : SUBSET Frame, tables : Tables, pages : PageMaps,
         created : SUBSET TableName, taken : SUBSET Frame, done : Nat, ok : BOOLEAN]

\* The frames A are free, taken for pages, or under one table each.
Accounts(c, A) ==
    /\ c.available \cup c.taken \cup Range(c.tables) = A
    /\ c.available \cap c.taken = {}
    /\ c.available \cap Range(c.tables) = {}
    /\ c.taken \cap Range(c.tables) = {}
    /\ IsInjective(c.tables)

\* There are the tables that the pages need.
Closed(c) == DOMAIN c.tables = TablesFor(DOMAIN c.pages)

\* Maps from tables and pages to frames.
LEMMA MapsAre ==
    /\ \A f \in Tables : f \in [DOMAIN f -> Frame] /\ DOMAIN f \subseteq TableName
    /\ \A f \in PageMaps : f \in [DOMAIN f -> Frame] /\ DOMAIN f \subseteq UserPage
    /\ \A D \in SUBSET TableName : [D -> Frame] \subseteq Tables
    /\ \A D \in SUBSET UserPage : [D -> Frame] \subseteq PageMaps
BY DEF Tables, PageMaps

\* The least of some frames is one of them.
LEMMA LeastOf ==
    ASSUME NEW S \in SUBSET Nat, S # {}
    PROVE  Least(S) \in S
<1>1. \E x \in S : \A y \in S : x <= y BY LeastElement
<1> QED BY <1>1 DEF Least

----------------------------------------------------------------------------
(* Mapping a page                                                          *)

\* The entries of c stay in n, and those of X come to them.
Adds(c, n, X) ==
    /\ DOMAIN n.tables = DOMAIN c.tables \cup X /\ X \cap DOMAIN c.tables = {}
    /\ \A t \in DOMAIN c.tables : n.tables[t] = c.tables[t]
    /\ n.created = c.created \cup X
    /\ n.pages = c.pages /\ n.taken = c.taken /\ n.done = c.done

\* A table is found, made, or missing.
LEMMA GetOrCreateStep ==
    ASSUME NEW c \in Call, NEW A, Accounts(c, A), NEW t \in TableName
    PROVE  /\ GetOrCreate(c, t) \in Call /\ Accounts(GetOrCreate(c, t), A)
           /\ GetOrCreate(c, t).ok => c.ok /\ t \in DOMAIN GetOrCreate(c, t).tables
           /\ \E X \in SUBSET {t} : Adds(c, GetOrCreate(c, t), X)
<1> DEFINE n == GetOrCreate(c, t)
<1> USE DEF Adds
<1>0. /\ c.available \in SUBSET Frame /\ c.tables \in Tables /\ c.pages \in PageMaps
      /\ c.created \in SUBSET TableName /\ c.taken \in SUBSET Frame
      /\ c.done \in Nat /\ c.ok \in BOOLEAN BY DEF Call
<1>1. CASE ~c.ok \/ t \in DOMAIN c.tables
  <2>1. n = c BY <1>1 DEF GetOrCreate
  <2>2. Adds(c, c, {}) OBVIOUS
  <2> QED BY <1>1, <2>1, <2>2
<1>2. CASE /\ c.ok /\ t \notin DOMAIN c.tables
           /\ c.available = {} \/ Cardinality(DOMAIN c.tables) >= OwnedMax
  <2>1. n = [c EXCEPT !.ok = FALSE] BY <1>2 DEF GetOrCreate
  <2>2. n \in Call /\ ~n.ok BY <2>1 DEF Call
  <2>3. n.tables = c.tables /\ n.created = c.created /\ n.pages = c.pages /\ n.taken = c.taken
        /\ n.done = c.done /\ n.available = c.available BY <1>0, <2>1 DEF Call
  <2>4. Adds(c, n, {}) BY <2>3
  <2>5. Accounts(n, A) BY <2>3 DEF Accounts
  <2> QED BY <2>2, <2>4, <2>5
<1>3. CASE /\ c.ok /\ t \notin DOMAIN c.tables
           /\ ~(c.available = {} \/ Cardinality(DOMAIN c.tables) >= OwnedMax)
  <2> DEFINE f == Least(c.available)
             T == With(c.tables, t, f)
  <2>1. n = [c EXCEPT !.available = @ \ {f}, !.tables = T, !.created = @ \cup {t}]
    BY <1>3 DEF GetOrCreate
  <2>2. f \in c.available /\ f \in Frame
    <3>1. c.available \subseteq Nat /\ c.available # {} BY <1>0, <1>3, SpaceAssumption DEF Frame
    <3> QED BY <1>0, <3>1, LeastOf
  <2>3. /\ DOMAIN T = DOMAIN c.tables \cup {t} /\ T[t] = f
        /\ \A z \in DOMAIN c.tables : T[z] = c.tables[z]
        /\ Range(T) = Range(c.tables) \cup {f}
    <3>1. DOMAIN c.tables \ {t} = DOMAIN c.tables BY <1>3
    <3>2. DOMAIN T = DOMAIN c.tables \cup {t} /\ T[t] = f BY DEF With
    <3>3. \A z \in DOMAIN c.tables \ {t} : T[z] = c.tables[z] BY DEF With
    <3> HIDE DEF T, f
    <3>4. Range(T) = Range(c.tables) \cup {f} BY <1>3, <3>1, <3>2, <3>3 DEF Range
    <3> QED BY <3>1, <3>2, <3>3, <3>4
  <2>4. T \in Tables
    <3>1. c.tables \in [DOMAIN c.tables -> Frame] /\ DOMAIN c.tables \subseteq TableName
      BY <1>0, MapsAre
    <3>2. T = [z \in DOMAIN T |-> T[z]] BY DEF With
    <3>3. \A z \in DOMAIN T : T[z] \in Frame BY <2>2, <2>3, <3>1
    <3>4. DOMAIN T \in SUBSET TableName BY <2>3, <3>1
    <3> HIDE DEF T
    <3>5. T \in [DOMAIN T -> Frame] BY <3>2, <3>3
    <3> QED BY <3>4, <3>5, MapsAre
  <2> HIDE DEF T, f
  <2>5. n \in Call BY <1>0, <2>1, <2>4, ZenonT(60) DEF Call
  <2>6. /\ n.tables = T /\ n.created = c.created \cup {t} /\ n.pages = c.pages
        /\ n.taken = c.taken /\ n.done = c.done /\ n.available = c.available \ {f}
        /\ n.ok = c.ok
    BY <1>0, <2>1 DEF Call
  <2> HIDE DEF n
  <2>7. Adds(c, n, {t}) BY <1>3, <2>3, <2>6
  <2>8. Accounts(n, A)
    <3>1. \A y, z \in DOMAIN T : T[y] = T[z] => y = z
      <4>1. f \notin Range(c.tables) BY <2>2 DEF Accounts
      <4>2. \A z \in DOMAIN c.tables : c.tables[z] # f BY <4>1 DEF Range
      <4>3. \A y, z \in DOMAIN c.tables : c.tables[y] = c.tables[z] => y = z
        BY DEF Accounts, IsInjective
      <4> QED BY <2>3, <4>2, <4>3
    <3>2. IsInjective(T) BY <3>1 DEF IsInjective
    <3> QED BY <2>2, <2>3, <2>6, <3>2 DEF Accounts
  <2>9. t \in DOMAIN n.tables BY <2>3, <2>6
  <2> QED BY <1>3, <2>5, <2>6, <2>7, <2>8, <2>9 DEF n
<1> QED BY <1>1, <1>2, <1>3

\* The tables for a page, or as many as there are frames for.
LEMMA GetTablesIs ==
    ASSUME NEW st \in Call, NEW A, Accounts(st, A), NEW v \in UserPage
    PROVE  LET made == GetTables(st, v)
           IN  /\ made \in Call /\ Accounts(made, A)
               /\ \E X \in SUBSET Range(Walk(v)) : Adds(st, made, X)
               /\ made.ok => Range(Walk(v)) \subseteq DOMAIN made.tables
<1> DEFINE N == Depth - 1
           Has(c, i) == \A j \in 1..i : Walk(v)[Depth - j] \in DOMAIN c.tables
           Inv(c, i) == /\ Accounts(c, A)
                        /\ \E X \in SUBSET Range(Walk(v)) : Adds(st, c, X)
                        /\ c.ok => Has(c, i)
           S == [i \in 0..N |-> {c \in Call : Inv(c, i)}]
           Step(c, i) == GetOrCreate(c, Walk(v)[Depth - i])
           F == [x \in Call \X (1..N) |-> Step(x[1], x[2])]
<1>0. N \in Nat /\ Depth \in Nat \ {0} BY SpaceAssumption
<1>1. st \in S[0]
  <2>1. Adds(st, st, {}) BY DEF Adds
  <2>2. Inv(st, 0) BY <2>1
  <2> QED BY <1>0, <2>2
<1>2. ASSUME NEW i \in 1..N, NEW c \in S[i - 1] PROVE Step(c, i) \in S[i] /\ c \in Call
  <2> DEFINE n == Step(c, i)
             t == Walk(v)[Depth - i]
  <2>1. c \in Call /\ Inv(c, i - 1) BY <1>0
  <2>2. Depth - i \in Level BY <1>0 DEF Level
  <2>3. t \in TableName /\ t \in Range(Walk(v)) BY <2>2, WalkIs DEF Walk, Range, Level
  <2> HIDE DEF t, S
  <2>4. /\ n \in Call /\ Accounts(n, A)
        /\ n.ok => c.ok /\ t \in DOMAIN n.tables
        /\ \E X \in SUBSET {t} : Adds(c, n, X)
    <3>1. Accounts(c, A) /\ c \in Call BY <2>1
    <3>2. n = GetOrCreate(c, t) BY DEF t
    <3> HIDE DEF n, Inv
    <3>3. /\ GetOrCreate(c, t) \in Call /\ Accounts(GetOrCreate(c, t), A)
          /\ GetOrCreate(c, t).ok => c.ok /\ t \in DOMAIN GetOrCreate(c, t).tables
          /\ \E X \in SUBSET {t} : Adds(c, GetOrCreate(c, t), X)
      BY <2>3, <3>1, GetOrCreateStep
    <3> QED BY <3>2, <3>3
  <2> HIDE DEF n
  <2>5. PICK X \in SUBSET Range(Walk(v)) : Adds(st, c, X) BY <2>1
  <2>6. PICK Y \in SUBSET {t} : Adds(c, n, Y) BY <2>4
  <2>7. Adds(st, n, X \cup Y) /\ X \cup Y \subseteq Range(Walk(v)) /\ DOMAIN c.tables \subseteq DOMAIN n.tables
    BY <2>3, <2>5, <2>6 DEF Adds
  <2>8. ASSUME n.ok PROVE Has(n, i)
    <3>1. Has(c, i - 1) BY <2>1, <2>4, <2>8
    <3>2. SUFFICES ASSUME NEW j \in 1..i PROVE Walk(v)[Depth - j] \in DOMAIN n.tables OBVIOUS
    <3>3. CASE j = i BY <2>4, <2>8, <3>3 DEF t
    <3>4. CASE j # i
      <4>1. j \in 1..(i - 1) BY <1>0, <3>4
      <4> QED BY <2>7, <3>1, <4>1
    <3> QED BY <3>3, <3>4
  <2>9. Inv(n, i)
    <3> HIDE DEF Has
    <3> QED BY <2>4, <2>7, <2>8
  <2>10. S[i] = {d \in Call : Inv(d, i)} BY <1>0 DEF S
  <2> HIDE DEF Inv
  <2>11. n \in S[i] BY <2>4, <2>9, <2>10
  <2> QED BY <2>1, <2>11 DEF n
<1>3. ASSUME NEW i \in 1..N, NEW c \in S[i - 1] PROVE F[<<c, i>>] = Step(c, i)
  <2>1. c \in Call BY <1>2
  <2> HIDE DEF Step, S
  <2> QED BY <2>1
<1> HIDE DEF S, F, Step
<1>4. Leads(F, S, N) BY <1>2, <1>3 DEF Leads
<1>5. PICK g : LoopOf(g, F, S, st, N)
  <2> HIDE DEF N
  <2> QED BY <1>0, <1>1, <1>4, LoopResult
<1>6. \A i \in 1..N : g[i] = Step(g[i - 1], i)
  <2> SUFFICES ASSUME NEW i \in 1..N PROVE g[i] = Step(g[i - 1], i) OBVIOUS
  <2>1. i - 1 \in 0..N BY <1>0
  <2> QED BY <1>3, <1>5, <2>1 DEF LoopOf
<1> DEFINE down == CHOOSE h : h = [i \in 0..N |-> IF i = 0 THEN st ELSE Step(h[i - 1], i)]
<1>7. g = [i \in 0..N |-> IF i = 0 THEN st ELSE Step(g[i - 1], i)]
  <2>1. \A i \in 0..N : i = 0 \/ i \in 1..N BY <1>0
  <2>2. \A i \in 0..N : g[i] = IF i = 0 THEN st ELSE Step(g[i - 1], i) BY <1>5, <1>6, <2>1 DEF LoopOf
  <2> QED BY <1>5, <2>2 DEF LoopOf
<1>8. down = [i \in 0..N |-> IF i = 0 THEN st ELSE Step(down[i - 1], i)] BY <1>7
<1>9. GetTables(st, v) = down[N] BY DEF GetTables, Step
<1> HIDE DEF down
<1>10. down[0] \in S[0] BY <1>0, <1>1, <1>8
<1>11. \A i \in 1..N : down[i - 1] \in S[i - 1] => down[i] \in S[i]
  <2> SUFFICES ASSUME NEW i \in 1..N, down[i - 1] \in S[i - 1] PROVE down[i] \in S[i] OBVIOUS
  <2>1. i \in 0..N /\ i # 0 BY <1>0
  <2>2. down[i] = Step(down[i - 1], i) BY <1>8, <2>1
  <2> QED BY <1>2, <2>2
<1>12. down[N] \in S[N]
  <2> HIDE DEF N
  <2>1. \A i \in 0..N : down[i] \in S[i] BY <1>0, <1>10, <1>11, LoopStays
  <2>2. N \in 0..N BY <1>0
  <2> QED BY <2>1, <2>2
<1>13. down[N] \in Call /\ Inv(down[N], N) BY <1>0, <1>12 DEF S
<1>14. ASSUME down[N].ok PROVE Range(Walk(v)) \subseteq DOMAIN down[N].tables
  <2>1. Has(down[N], N) BY <1>13, <1>14
  <2>2. ASSUME NEW k \in Level PROVE Walk(v)[k] \in DOMAIN down[N].tables
    <3>1. Depth - k \in 1..N /\ Depth - (Depth - k) = k BY <1>0 DEF Level
    <3> QED BY <2>1, <3>1
  <2>3. Range(Walk(v)) = {Walk(v)[k] : k \in Level} BY DEF Walk, Range, Level
  <2> QED BY <2>2, <2>3
<1> HIDE DEF Has
<1> QED BY <1>9, <1>13, <1>14

\* A page with the frame f is mapped at v: its entry and the tables above it.
MapsAt(st, m, v, f) ==
    /\ m.ok /\ v \notin DOMAIN st.pages
    /\ m.pages = With(st.pages, v, f) /\ m.done = st.done + 1
    /\ DOMAIN m.tables = DOMAIN st.tables \cup Range(Walk(v))

\* Nothing is mapped.
MapsNothing(st, m) ==
    ~m.ok /\ m.tables = st.tables /\ m.pages = st.pages /\ m.done = st.done

\* A page is mapped, or nothing changes.
LEMMA MapPageIs ==
    ASSUME NEW st \in Call, NEW A, Accounts(st, A), NEW v \in UserPage, NEW f \in Frame
    PROVE  LET m == MapPage(st, v, f)
           IN  /\ m \in Call /\ Accounts(m, A) /\ m.taken = st.taken
               /\ MapsAt(st, m, v, f) \/ MapsNothing(st, m)
<1> DEFINE first == [st EXCEPT !.created = {}]
           made == GetTables(first, v)
           m == MapPage(st, v, f)
<1>1. /\ first \in Call /\ first.available = st.available /\ first.tables = st.tables
      /\ first.pages = st.pages /\ first.taken = st.taken /\ first.done = st.done
      /\ first.created = {} /\ first.ok = st.ok
  BY DEF Call
<1>2. Accounts(first, A) BY <1>1 DEF Accounts
<1> HIDE DEF first
<1>3. /\ made \in Call /\ Accounts(made, A)
      /\ \E X \in SUBSET Range(Walk(v)) : Adds(first, made, X)
      /\ made.ok => Range(Walk(v)) \subseteq DOMAIN made.tables
  BY <1>1, <1>2, GetTablesIs
<1> HIDE DEF made
<1>4. PICK X \in SUBSET Range(Walk(v)) : Adds(first, made, X) BY <1>3
<1>5. /\ DOMAIN made.tables = DOMAIN st.tables \cup X /\ X \cap DOMAIN st.tables = {}
      /\ \A t \in DOMAIN st.tables : made.tables[t] = st.tables[t]
      /\ made.created = X /\ made.pages = st.pages /\ made.taken = st.taken /\ made.done = st.done
  BY <1>1, <1>4 DEF Adds
<1>6. /\ made.available \in SUBSET Frame /\ made.tables \in Tables /\ made.pages \in PageMaps
      /\ made.created \in SUBSET TableName /\ made.taken \in SUBSET Frame
      /\ made.done \in Nat /\ made.ok \in BOOLEAN BY <1>3 DEF Call
<1>7. CASE made.ok /\ v \notin DOMAIN made.pages
  <2> DEFINE P == With(made.pages, v, f)
  <2>1. m = [made EXCEPT !.pages = P, !.created = {}, !.done = @ + 1]
    BY <1>7 DEF MapPage, made, first
  <2>2. P \in PageMaps
    <3>1. made.pages \in [DOMAIN made.pages -> Frame] /\ DOMAIN made.pages \subseteq UserPage
      BY <1>6, MapsAre
    <3>2. P \in [DOMAIN made.pages \cup {v} -> Frame] BY <3>1 DEF With
    <3>3. DOMAIN made.pages \cup {v} \in SUBSET UserPage BY <3>1
    <3> HIDE DEF P
    <3> QED BY <3>2, <3>3, MapsAre
  <2> HIDE DEF P
  <2>3. m \in Call
    <3>1. made.done + 1 \in Nat /\ {} \in SUBSET TableName BY <1>6
    <3> HIDE DEF m
    <3> QED BY <1>3, <2>1, <2>2, <3>1 DEF Call
  <2>4. /\ m.available = made.available /\ m.tables = made.tables /\ m.pages = P
        /\ m.taken = made.taken /\ m.done = made.done + 1 /\ m.ok
    BY <1>3, <1>6, <1>7, <2>1 DEF Call
  <2> HIDE DEF m
  <2>5. Accounts(m, A) BY <1>3, <2>4 DEF Accounts
  <2>6. DOMAIN m.tables = DOMAIN st.tables \cup Range(Walk(v)) BY <1>3, <1>5, <1>7, <2>4
  <2>7. P = With(st.pages, v, f) BY <1>5 DEF P
  <2>8. MapsAt(st, m, v, f) BY <1>5, <1>7, <2>4, <2>6, <2>7 DEF MapsAt
  <2> QED BY <1>5, <2>3, <2>4, <2>5, <2>8 DEF m
<1>8. CASE ~(made.ok /\ v \notin DOMAIN made.pages)
  <2> DEFINE back == rollback_created_tables(made)
             T == Without(made.tables, X)
             G == {made.tables[t] : t \in X}
  <2>1. m = [back EXCEPT !.ok = FALSE]
    BY <1>8 DEF MapPage, made, first
  <2>2. back = [made EXCEPT !.available = @ \cup G, !.tables = T, !.created = {}]
    BY <1>5 DEF rollback_created_tables
  <2>3. T = st.tables
    <3>1. DOMAIN T = DOMAIN made.tables \ X BY DEF Without
    <3>2. \A t \in DOMAIN T : T[t] = made.tables[t] BY DEF Without
    <3>3. T = [t \in DOMAIN T |-> T[t]] BY DEF Without
    <3>4. st.tables = [t \in DOMAIN st.tables |-> st.tables[t]]
      <4>1. st.tables \in Tables BY DEF Call
      <4>2. st.tables \in [DOMAIN st.tables -> Frame] BY <4>1, MapsAre
      <4> QED BY <4>2
    <3> HIDE DEF T
    <3>5. DOMAIN T = DOMAIN st.tables BY <1>5, <3>1
    <3>6. \A t \in DOMAIN T : T[t] = st.tables[t] BY <1>5, <3>2, <3>5
    <3> QED BY <3>3, <3>4, <3>5, <3>6
  <2>4. G \subseteq Frame /\ G \subseteq Range(made.tables)
    <3>1. made.tables \in [DOMAIN made.tables -> Frame] BY <1>6, MapsAre
    <3> QED BY <1>5, <3>1 DEF Range
  <2> HIDE DEF T, G
  <2>5. st.tables \in Tables BY DEF Call
  <2>6. /\ back \in Call
        /\ back.available = made.available \cup G /\ back.tables = st.tables
        /\ back.pages = st.pages /\ back.taken = st.taken /\ back.done = st.done
    BY <1>3, <1>5, <1>6, <2>2, <2>3, <2>4, <2>5, ZenonT(60) DEF Call
  <2> HIDE DEF back
  <2>7. /\ m \in Call /\ ~m.ok
        /\ m.available = made.available \cup G /\ m.tables = st.tables
        /\ m.pages = st.pages /\ m.taken = st.taken /\ m.done = st.done
    BY <2>1, <2>6 DEF Call
  <2> HIDE DEF m
  <2>8. Accounts(m, A)
    <3>1. Range(made.tables) = Range(st.tables) \cup G
      BY <1>5 DEF Range, G
    <3>2. Range(st.tables) \cap G = {}
      <4>1. \A y, z \in DOMAIN made.tables : made.tables[y] = made.tables[z] => y = z
        BY <1>3 DEF Accounts, IsInjective
      <4> QED BY <1>5, <4>1 DEF Range, G
    <3>3. /\ made.available \cup made.taken \cup Range(made.tables) = A
          /\ made.available \cap made.taken = {}
          /\ made.available \cap Range(made.tables) = {}
          /\ made.taken \cap Range(made.tables) = {}
      BY <1>3 DEF Accounts
    <3>4. IsInjective(st.tables) BY DEF Accounts
    <3> QED BY <1>5, <2>7, <3>1, <3>2, <3>3, <3>4 DEF Accounts
  <2>9. MapsNothing(st, m) BY <2>7 DEF MapsNothing
  <2> QED BY <2>7, <2>8, <2>9 DEF m
<1> QED BY <1>7, <1>8

----------------------------------------------------------------------------
(* Unmapping a page                                                        *)

\* Of the tables for P and v, those up to level k that P does not need are gone.
Pruned(P, v, k) == {t \in TablesFor(P \cup {v}) : t[1] <= k => t \in TablesFor(P)}

\* The tables that P needs, by their levels.
LEMMA TablesForIs ==
    ASSUME NEW P \in SUBSET UserPage, NEW t
    PROVE  /\ t \in TablesFor(P) <=> t = Root \/ \E k \in Level, w \in P : t = <<k, Above[k][w]>>
           /\ t \in TablesFor(P) => t = Root \/ (t[1] \in Level /\ t[2] \in Nat /\ t = <<t[1], t[2]>>)
           /\ Root[1] = Depth /\ Depth \in Nat \ {0} /\ Depth \notin Level
<1>1. t \in TablesFor(P) <=> t = Root \/ \E k \in Level, w \in P : t = <<k, Above[k][w]>>
  BY DEF TablesFor, Level
<1>2. \A k \in Level, w \in P : Above[k][w] \in Nat
  <2>1. \A k \in Level : k \in 0..(Depth - 1) BY SpaceAssumption DEF Level
  <2> QED BY <2>1, AboveIs
<1>3. Root[1] = Depth /\ Depth \in Nat \ {0} /\ Depth \notin Level
  BY SpaceAssumption DEF Root, Level
<1>4. ASSUME NEW k \in Level, NEW w \in P, t = <<k, Above[k][w]>>
      PROVE  t[1] \in Level /\ t[2] \in Nat /\ t = <<t[1], t[2]>>
  BY <1>2, <1>4
<1> QED BY <1>1, <1>3, <1>4

\* When the levels below are pruned, a table is empty when no page needs it.
LEMMA EmptyIs ==
    ASSUME NEW c \in Call, NEW v \in UserPage, NEW k \in Level,
           DOMAIN c.tables = Pruned(DOMAIN c.pages, v, k - 1)
    PROVE  LET t == <<k, Above[k][v]>>
           IN  TableEmpty(c, t) <=> t \notin TablesFor(DOMAIN c.pages)
<1> DEFINE P == DOMAIN c.pages
           t == <<k, Above[k][v]>>
<1>0. P \in SUBSET UserPage /\ P \cup {v} \in SUBSET UserPage
  <2>1. c.pages \in PageMaps BY DEF Call
  <2> QED BY <2>1, MapsAre
<1>1. k \in Nat /\ k - 1 \in 0..(Depth - 1) /\ k \in 1..(Depth - 1) BY SpaceAssumption DEF Level
<1>2. \A w \in UserPage : Above[k][w] = Above[k - 1][w] \div Fanout BY AboveIs
<1>3. t \in TablesFor(P) <=> \E w \in P : Above[k][w] = Above[k][v]
  <2> HIDE DEF P
  <2>1. t \in TablesFor(P) <=> t = Root \/ \E j \in Level, w \in P : t = <<j, Above[j][w]>>
    BY <1>0, TablesForIs
  <2>2. t # Root BY <1>1 DEF Root
  <2> QED BY <2>1, <2>2
<1>4. CASE k = 1
  <2>1. TableEmpty(c, t) <=> \A w \in P : w \div Fanout # Above[k][v] BY <1>4 DEF TableEmpty
  <2>2. \A w \in UserPage : Above[0][w] = w BY AboveIs
  <2>3. \A w \in UserPage : Above[1][w] = w \div Fanout BY <1>2, <1>4, <2>2
  <2> HIDE DEF P
  <2>4. \A w \in P : w \div Fanout = Above[k][w] BY <1>0, <1>4, <2>3
  <2>5. TableEmpty(c, t) <=> \A w \in P : Above[k][w] # Above[k][v]
    <3> HIDE DEF t
    <3> QED BY <2>1, <2>4
  <2> QED BY <1>3, <2>5 DEF P
<1>5. CASE k # 1
  <2>1. TableEmpty(c, t) <=> \A u \in DOMAIN c.tables : u[1] = k - 1 => u[2] \div Fanout # Above[k][v]
    BY <1>5 DEF TableEmpty
  <2>2. k - 1 \in Level BY <1>1, <1>5 DEF Level
  <2> HIDE DEF P
  <2>3. ASSUME NEW w \in P
        PROVE  /\ <<k - 1, Above[k - 1][w]>> \in DOMAIN c.tables
               /\ Above[k - 1][w] \div Fanout = Above[k][w]
    <3> DEFINE u == <<k - 1, Above[k - 1][w]>>
    <3>1. u \in TablesFor(P) /\ u \in TablesFor(P \cup {v}) BY <2>2 DEF TablesFor, Level
    <3>2. u \in Pruned(P, v, k - 1)
      <4> HIDE DEF u
      <4> QED BY <3>1 DEF Pruned
    <3> QED BY <1>0, <1>2, <3>2 DEF P
  <2>4. ASSUME NEW u \in DOMAIN c.tables, u[1] = k - 1
        PROVE  \E w \in P : u[2] \div Fanout = Above[k][w]
    <3>1. u \in Pruned(P, v, k - 1) BY <2>4 DEF P
    <3>2. u \in TablesFor(P) BY <1>1, <2>4, <3>1 DEF Pruned
    <3>3. u = Root \/ \E j \in Level, w \in P : u = <<j, Above[j][w]>> BY <1>0, <3>2, TablesForIs
    <3>4. u # Root BY <1>1, <2>4 DEF Root
    <3>5. PICK j \in Level, w \in P : u = <<j, Above[j][w]>> BY <3>3, <3>4
    <3>6. j = k - 1 /\ u[2] = Above[k - 1][w] BY <2>4, <3>5
    <3> QED BY <1>0, <1>2, <3>6
  <2>5. TableEmpty(c, t) => \A w \in P : Above[k][w] # Above[k][v]
    <3> SUFFICES ASSUME TableEmpty(c, t), NEW w \in P PROVE Above[k][w] # Above[k][v] OBVIOUS
    <3> DEFINE u == <<k - 1, Above[k - 1][w]>>
    <3>1. u \in DOMAIN c.tables /\ u[1] = k - 1 /\ u[2] \div Fanout = Above[k][w] BY <2>3
    <3> HIDE DEF u
    <3> QED BY <2>1, <3>1
  <2>6. ~TableEmpty(c, t) => \E w \in P : Above[k][w] = Above[k][v]
    <3> SUFFICES ASSUME ~TableEmpty(c, t) PROVE \E w \in P : Above[k][w] = Above[k][v] OBVIOUS
    <3>1. PICK u \in DOMAIN c.tables : u[1] = k - 1 /\ u[2] \div Fanout = Above[k][v] BY <2>1
    <3> QED BY <2>4, <3>1
  <2> QED BY <1>3, <2>5, <2>6 DEF P
<1> QED BY <1>4, <1>5

\* The same page tables, but for some frames.
Same(st, c) ==
    c.created = st.created /\ c.taken = st.taken /\ c.done = st.done /\ c.ok = st.ok

\* A table is released when it is empty.
LEMMA ReleaseTableIs ==
    ASSUME NEW c \in Call, NEW A, Accounts(c, A), NEW v \in UserPage, NEW k \in Level,
           DOMAIN c.tables = Pruned(DOMAIN c.pages, v, k - 1)
    PROVE  LET n == ReleaseTable(c, <<k, Above[k][v]>>)
           IN  /\ n \in Call /\ Accounts(n, A) /\ Same(c, n) /\ n.pages = c.pages
               /\ DOMAIN n.tables = Pruned(DOMAIN c.pages, v, k)
<1> DEFINE P == DOMAIN c.pages
           t == <<k, Above[k][v]>>
           n == ReleaseTable(c, t)
<1>0. P \in SUBSET UserPage /\ P \cup {v} \in SUBSET UserPage
  <2>1. c.pages \in PageMaps BY DEF Call
  <2> QED BY <2>1, MapsAre
<1>1. k \in Nat /\ k \in Int /\ k - 1 \in Nat BY SpaceAssumption DEF Level
<1>2. TableEmpty(c, t) <=> t \notin TablesFor(P) BY EmptyIs
<1>3. \A u \in TablesFor(P \cup {v}) : u[1] \in Nat
  <2>1. \A u \in TablesFor(P \cup {v}) : u[1] \in Level \/ u[1] = Depth
    BY <1>0, TablesForIs
  <2> QED BY <2>1, SpaceAssumption DEF Level
<1>4. \A u \in TablesFor(P \cup {v}) : u[1] = k => u = t \/ u \in TablesFor(P)
  <2> SUFFICES ASSUME NEW u \in TablesFor(P \cup {v}), u[1] = k PROVE u = t \/ u \in TablesFor(P) OBVIOUS
  <2>1. u = Root \/ \E j \in Level, w \in P \cup {v} : u = <<j, Above[j][w]>> BY <1>0, TablesForIs
  <2>2. u # Root BY TablesForIs
  <2>3. PICK j \in Level, w \in P \cup {v} : u = <<j, Above[j][w]>> BY <2>1, <2>2
  <2>4. j = k BY <2>3
  <2>5. CASE w = v BY <2>3, <2>4, <2>5
  <2>6. CASE w \in P BY <2>3, <2>6 DEF TablesFor, Level
  <2> QED BY <2>5, <2>6
<1>5. t \in TablesFor(P \cup {v}) /\ t[1] = k BY DEF TablesFor, Level
<1> HIDE DEF t
<1>6. t \in DOMAIN c.tables BY <1>1, <1>5 DEF Pruned
<1>7. \A u : u \in Pruned(P, v, k) <=> u \in Pruned(P, v, k - 1) /\ (u[1] = k => u \in TablesFor(P))
  <2> HIDE DEF P
  <2> SUFFICES ASSUME NEW u \in TablesFor(P \cup {v})
               PROVE (u[1] <= k => u \in TablesFor(P)) <=>
                     (u[1] <= k - 1 => u \in TablesFor(P)) /\ (u[1] = k => u \in TablesFor(P))
    BY DEF Pruned
  <2>1. u[1] \in Nat BY <1>3
  <2>2. u[1] <= k <=> u[1] <= k - 1 \/ u[1] = k BY <1>1, <2>1
  <2> QED BY <2>2
<1>8. CASE TableEmpty(c, t)
  <2> DEFINE T == Without(c.tables, {t})
  <2>1. n = [c EXCEPT !.available = @ \cup {c.tables[t]}, !.tables = T] BY <1>8 DEF ReleaseTable
  <2>2. DOMAIN T = DOMAIN c.tables \ {t} /\ \A z \in DOMAIN T : T[z] = c.tables[z] BY DEF Without
  <2>3. T = [z \in DOMAIN T |-> T[z]] BY DEF Without
  <2> HIDE DEF T
  <2>4. c.tables \in [DOMAIN c.tables -> Frame] /\ DOMAIN c.tables \subseteq TableName
    <3>1. c.tables \in Tables BY DEF Call
    <3> QED BY <3>1, MapsAre
  <2>5. T \in Tables
    <3>1. T \in [DOMAIN T -> Frame] BY <2>2, <2>3, <2>4
    <3>2. DOMAIN T \in SUBSET TableName BY <2>2, <2>4
    <3> QED BY <3>1, <3>2, MapsAre
  <2>6. c.tables[t] \in Frame /\ c.available \in SUBSET Frame BY <1>6, <2>4 DEF Call
  <2>7. /\ n \in Call /\ n.available = c.available \cup {c.tables[t]} /\ n.tables = T
        /\ Same(c, n) /\ n.pages = c.pages
    BY <2>1, <2>5, <2>6, ZenonT(60) DEF Call, Same
  <2> HIDE DEF n
  <2>8. DOMAIN n.tables = Pruned(P, v, k)
    <3>1. t \notin TablesFor(P) BY <1>2, <1>8
    <3>2. \A u : u \in DOMAIN c.tables \ {t} <=> u \in Pruned(P, v, k)
      <4>1. DOMAIN c.tables = Pruned(P, v, k - 1) OBVIOUS
      <4>2. \A u \in Pruned(P, v, k - 1) : u \in TablesFor(P \cup {v}) BY DEF Pruned
      <4> HIDE DEF P
      <4> QED BY <1>4, <1>5, <1>7, <3>1, <4>1, <4>2
    <3> HIDE DEF P
    <3> QED BY <2>2, <2>7, <3>2
  <2>9. Accounts(n, A)
    <3>1. \A y, z \in DOMAIN c.tables : c.tables[y] = c.tables[z] => y = z
      BY DEF Accounts, IsInjective
    <3>2. Range(c.tables) = Range(T) \cup {c.tables[t]} /\ c.tables[t] \notin Range(T)
      BY <1>6, <2>2, <3>1 DEF Range
    <3>3. IsInjective(T) BY <2>2, <3>1 DEF IsInjective
    <3> QED BY <2>7, <3>2, <3>3 DEF Accounts, Same
  <2> QED BY <2>7, <2>8, <2>9 DEF n, t
<1>9. CASE ~TableEmpty(c, t)
  <2>1. n = c BY <1>9 DEF ReleaseTable
  <2>2. \A u : u \in Pruned(P, v, k - 1) <=> u \in Pruned(P, v, k)
    <3>1. t \in TablesFor(P) BY <1>2, <1>9
    <3>2. \A u \in Pruned(P, v, k - 1) : u \in TablesFor(P \cup {v}) BY DEF Pruned
    <3> HIDE DEF P
    <3> QED BY <1>4, <1>7, <3>1, <3>2
  <2>3. Pruned(P, v, k - 1) = Pruned(P, v, k)
    <3> HIDE DEF P
    <3> QED BY <2>2
  <2> QED BY <2>1, <2>3 DEF Same, t
<1> QED BY <1>8, <1>9

\* A page that is unmapped takes the tables with it that only it needed.
LEMMA UnmapPageIs ==
    ASSUME NEW st \in Call, NEW A, Accounts(st, A), Closed(st), NEW v \in DOMAIN st.pages
    PROVE  LET u == address_space_unmap_page(st, v)
           IN  /\ u \in Call /\ Accounts(u, A) /\ Same(st, u) /\ Closed(u)
               /\ u.pages = Without(st.pages, {v})
<1> DEFINE N == Depth - 1
           Q == Without(st.pages, {v})
           P == DOMAIN Q
           first == [st EXCEPT !.pages = Q]
           Inv(c, k) == /\ Accounts(c, A) /\ Same(st, c) /\ c.pages = Q
                        /\ DOMAIN c.tables = Pruned(P, v, k)
           S == [k \in 0..N |-> {c \in Call : Inv(c, k)}]
           Step(c, k) == ReleaseTable(c, Walk(v)[k])
           F == [x \in Call \X (1..N) |-> Step(x[1], x[2])]
<1>0. N \in Nat /\ Depth \in Nat \ {0} BY SpaceAssumption
<1>a. st.pages \in [DOMAIN st.pages -> Frame] /\ DOMAIN st.pages \subseteq UserPage
  <2>1. st.pages \in PageMaps BY DEF Call
  <2> QED BY <2>1, MapsAre
<1>b. v \in UserPage BY <1>a
<1>c. P = DOMAIN st.pages \ {v} /\ P \in SUBSET UserPage /\ P \cup {v} = DOMAIN st.pages
  BY <1>a DEF Without
<1>d. Q \in PageMaps
  <2>1. Q \in [DOMAIN st.pages \ {v} -> Frame] BY <1>a DEF Without
  <2> HIDE DEF Q
  <2> QED BY <1>a, <1>c, <2>1, MapsAre
<1> HIDE DEF Q
<1>1. first \in S[0]
  <2>1. /\ first \in Call /\ first.pages = Q /\ first.available = st.available
        /\ first.tables = st.tables /\ first.created = st.created /\ first.taken = st.taken
        /\ first.done = st.done /\ first.ok = st.ok BY <1>d DEF Call
  <2> HIDE DEF first, P
  <2>2. Pruned(P, v, 0) = TablesFor(P \cup {v})
    <3>1. \A t \in TablesFor(P \cup {v}) : ~(t[1] <= 0)
      <4>1. P \cup {v} \in SUBSET UserPage BY <1>a, <1>c
      <4> SUFFICES ASSUME NEW t \in TablesFor(P \cup {v}) PROVE ~(t[1] <= 0) OBVIOUS
      <4>2. t[1] \in Level \/ t[1] = Depth BY <4>1, TablesForIs
      <4> QED BY <1>0, <4>2 DEF Level
    <3> QED BY <3>1 DEF Pruned
  <2>3. Inv(first, 0)
    <3>1. DOMAIN st.tables = TablesFor(P \cup {v}) BY <1>c DEF Closed
    <3> QED BY <2>1, <2>2, <3>1 DEF Accounts, Same
  <2> HIDE DEF Inv
  <2> QED BY <1>0, <2>1, <2>3
<1>2. ASSUME NEW k \in 1..N, NEW c \in S[k - 1] PROVE Step(c, k) \in S[k] /\ c \in Call
  <2> DEFINE n == Step(c, k)
  <2>1. c \in Call /\ Inv(c, k - 1) BY <1>0
  <2>2. k \in Level BY <1>0 DEF Level
  <2>3. Walk(v)[k] = <<k, Above[k][v]>> BY <1>b, <2>2, WalkIs
  <2>4. /\ n \in Call /\ Accounts(n, A) /\ Same(c, n) /\ n.pages = c.pages
        /\ DOMAIN n.tables = Pruned(DOMAIN c.pages, v, k)
    <3>1. Accounts(c, A) /\ DOMAIN c.tables = Pruned(DOMAIN c.pages, v, k - 1) BY <2>1
    <3>2. n = ReleaseTable(c, <<k, Above[k][v]>>) BY <2>3
    <3> HIDE DEF n, Inv, S
    <3>3. LET m == ReleaseTable(c, <<k, Above[k][v]>>)
          IN  /\ m \in Call /\ Accounts(m, A) /\ Same(c, m) /\ m.pages = c.pages
              /\ DOMAIN m.tables = Pruned(DOMAIN c.pages, v, k)
      BY <1>b, <2>1, <2>2, <3>1, ReleaseTableIs
    <3> QED BY <3>2, <3>3
  <2> HIDE DEF n
  <2>5. Inv(n, k) BY <2>1, <2>4 DEF Same
  <2>6. S[k] = {d \in Call : Inv(d, k)} BY <1>0
  <2> HIDE DEF Inv, S
  <2> QED BY <2>1, <2>4, <2>5, <2>6 DEF n
<1>3. ASSUME NEW i \in 1..N, NEW c \in S[i - 1] PROVE F[<<c, i>>] = Step(c, i)
  <2>1. c \in Call BY <1>2
  <2> HIDE DEF Step, S
  <2> QED BY <2>1
<1> HIDE DEF S, F, Step
<1>4. Leads(F, S, N) BY <1>2, <1>3 DEF Leads
<1>5. PICK g : LoopOf(g, F, S, first, N)
  <2> HIDE DEF N, first
  <2> QED BY <1>0, <1>1, <1>4, LoopResult
<1>6. \A i \in 1..N : g[i] = Step(g[i - 1], i)
  <2> SUFFICES ASSUME NEW i \in 1..N PROVE g[i] = Step(g[i - 1], i) OBVIOUS
  <2>1. i - 1 \in 0..N BY <1>0
  <2> QED BY <1>3, <1>5, <2>1 DEF LoopOf
<1> DEFINE up == CHOOSE h : h = [i \in 0..N |-> IF i = 0 THEN first ELSE Step(h[i - 1], i)]
<1>7. g = [i \in 0..N |-> IF i = 0 THEN first ELSE Step(g[i - 1], i)]
  <2> HIDE DEF first
  <2>1. \A i \in 0..N : i = 0 \/ i \in 1..N BY <1>0
  <2>2. \A i \in 0..N : g[i] = IF i = 0 THEN first ELSE Step(g[i - 1], i) BY <1>5, <1>6, <2>1 DEF LoopOf
  <2> QED BY <1>5, <2>2 DEF LoopOf
<1>8. up = [i \in 0..N |-> IF i = 0 THEN first ELSE Step(up[i - 1], i)]
  <2> HIDE DEF first
  <2> QED BY <1>7
<1>9. address_space_unmap_page(st, v) = up[N] BY DEF address_space_unmap_page, Step, Q
<1> HIDE DEF up, first
<1>10. up[0] \in S[0] BY <1>0, <1>1, <1>8
<1>11. \A i \in 1..N : up[i - 1] \in S[i - 1] => up[i] \in S[i]
  <2> SUFFICES ASSUME NEW i \in 1..N, up[i - 1] \in S[i - 1] PROVE up[i] \in S[i] OBVIOUS
  <2>1. i \in 0..N /\ i # 0 BY <1>0
  <2>2. up[i] = Step(up[i - 1], i) BY <1>8, <2>1
  <2> QED BY <1>2, <2>2
<1>12. up[N] \in S[N]
  <2> HIDE DEF N
  <2>1. \A i \in 0..N : up[i] \in S[i] BY <1>0, <1>10, <1>11, LoopStays
  <2>2. N \in 0..N BY <1>0
  <2> QED BY <2>1, <2>2
<1>13. up[N] \in Call /\ Inv(up[N], N) BY <1>0, <1>12 DEF S
<1>14. Pruned(P, v, N) = TablesFor(P)
  <2> HIDE DEF P
  <2>1. P \cup {v} \in SUBSET UserPage BY <1>a, <1>c
  <2>2. TablesFor(P) \subseteq TablesFor(P \cup {v}) BY DEF TablesFor
  <2>3. ASSUME NEW t \in TablesFor(P \cup {v}), t[1] <= N => t \in TablesFor(P) PROVE t \in TablesFor(P)
    <3>1. CASE t = Root BY <3>1 DEF TablesFor
    <3>2. CASE t # Root
      <4>1. t[1] \in Level BY <2>1, <3>2, TablesForIs
      <4> QED BY <1>0, <2>3, <4>1 DEF Level
    <3> QED BY <3>1, <3>2
  <2> QED BY <2>2, <2>3 DEF Pruned
<1>15. Closed(up[N])
  <2>1. DOMAIN up[N].tables = TablesFor(P) /\ up[N].pages = Q BY <1>13, <1>14
  <2> QED BY <2>1 DEF Closed
<1>16. LET m == up[N] IN m \in Call /\ Accounts(m, A) /\ Same(st, m) /\ Closed(m) /\ m.pages = Q
  BY <1>13, <1>15
<1> QED BY <1>9, <1>16 DEF Q

\* Several pages are unmapped, one after the other.
LEMMA UnmapAllIs ==
    ASSUME NEW st \in Call, NEW A, Accounts(st, A), Closed(st), NEW vs \in Seq(UserPage),
           Range(vs) \subseteq DOMAIN st.pages, IsInjective(vs)
    PROVE  LET u == UnmapAll(st, vs)
           IN  /\ u \in Call /\ Accounts(u, A) /\ Same(st, u) /\ Closed(u)
               /\ u.pages = Without(st.pages, Range(vs))
<1> DEFINE N == Len(vs)
           Gone(i) == {vs[j] : j \in 1..i}
           Inv(c, i) == /\ Accounts(c, A) /\ Same(st, c) /\ Closed(c)
                        /\ c.pages = Without(st.pages, Gone(i))
           S == [i \in 0..N |-> {c \in Call : Inv(c, i)}]
           Step(c, i) == address_space_unmap_page(c, vs[i])
           F == [x \in Call \X (1..N) |-> Step(x[1], x[2])]
<1>0. N \in Nat /\ DOMAIN vs = 1..N /\ \A i \in 1..N : vs[i] \in UserPage OBVIOUS
<1>a. st.pages \in [DOMAIN st.pages -> Frame] /\ DOMAIN st.pages \subseteq UserPage
  <2>1. st.pages \in PageMaps BY DEF Call
  <2> QED BY <2>1, MapsAre
<1>1. st \in S[0]
  <2>1. Gone(0) = {} OBVIOUS
  <2>2. Without(st.pages, {}) = st.pages BY <1>a DEF Without
  <2> HIDE DEF Gone
  <2>3. Inv(st, 0) BY <2>1, <2>2 DEF Same
  <2> HIDE DEF Inv
  <2> QED BY <1>0, <2>3
<1>2. ASSUME NEW i \in 1..N, NEW c \in S[i - 1] PROVE Step(c, i) \in S[i] /\ c \in Call
  <2> DEFINE n == Step(c, i)
  <2>1. c \in Call /\ Inv(c, i - 1) BY <1>0
  <2>2. vs[i] \in DOMAIN c.pages
    <3>1. vs[i] \in DOMAIN st.pages BY <1>0 DEF Range
    <3>2. \A j \in 1..(i - 1) : vs[j] # vs[i] BY <1>0 DEF IsInjective
    <3>3. DOMAIN c.pages = DOMAIN st.pages \ Gone(i - 1) BY <2>1 DEF Without
    <3> QED BY <3>1, <3>2, <3>3
  <2>3. /\ n \in Call /\ Accounts(n, A) /\ Same(c, n) /\ Closed(n)
        /\ n.pages = Without(c.pages, {vs[i]})
    <3>1. Accounts(c, A) /\ Closed(c) BY <2>1
    <3> HIDE DEF Inv, S
    <3>2. LET m == address_space_unmap_page(c, vs[i])
          IN  /\ m \in Call /\ Accounts(m, A) /\ Same(c, m) /\ Closed(m)
              /\ m.pages = Without(c.pages, {vs[i]})
      BY <2>1, <2>2, <3>1, UnmapPageIs
    <3> QED BY <3>2
  <2>4. Without(c.pages, {vs[i]}) = Without(st.pages, Gone(i))
    <3>1. c.pages = Without(st.pages, Gone(i - 1)) BY <2>1
    <3>2. Gone(i) = Gone(i - 1) \cup {vs[i]}
      <4>1. \A j \in 1..i : j = i \/ j \in 1..(i - 1) BY <1>0
      <4>2. \A j \in 1..(i - 1) : j \in 1..i BY <1>0
      <4>3. i \in 1..i BY <1>0
      <4> QED BY <4>1, <4>2, <4>3
    <3> HIDE DEF Gone
    <3> QED BY <3>1, <3>2 DEF Without
  <2> HIDE DEF n, Gone
  <2>5. Inv(n, i) BY <2>1, <2>3, <2>4 DEF Same
  <2>6. S[i] = {d \in Call : Inv(d, i)} BY <1>0
  <2> HIDE DEF Inv, S
  <2> QED BY <2>1, <2>3, <2>5, <2>6 DEF n
<1>3. ASSUME NEW i \in 1..N, NEW c \in S[i - 1] PROVE F[<<c, i>>] = Step(c, i)
  <2>1. c \in Call BY <1>2
  <2> HIDE DEF Step, S
  <2> QED BY <2>1
<1> HIDE DEF S, F, Step
<1>4. Leads(F, S, N) BY <1>2, <1>3 DEF Leads
<1>5. PICK g : LoopOf(g, F, S, st, N)
  <2> HIDE DEF N
  <2> QED BY <1>0, <1>1, <1>4, LoopResult
<1>6. \A i \in 1..N : g[i] = Step(g[i - 1], i)
  <2> SUFFICES ASSUME NEW i \in 1..N PROVE g[i] = Step(g[i - 1], i) OBVIOUS
  <2>1. i - 1 \in 0..N BY <1>0
  <2> QED BY <1>3, <1>5, <2>1 DEF LoopOf
<1> DEFINE left == CHOOSE h : h = [i \in 0..N |-> IF i = 0 THEN st ELSE Step(h[i - 1], i)]
<1>7. g = [i \in 0..N |-> IF i = 0 THEN st ELSE Step(g[i - 1], i)]
  <2>1. \A i \in 0..N : i = 0 \/ i \in 1..N BY <1>0
  <2>2. \A i \in 0..N : g[i] = IF i = 0 THEN st ELSE Step(g[i - 1], i) BY <1>5, <1>6, <2>1 DEF LoopOf
  <2> QED BY <1>5, <2>2 DEF LoopOf
<1>8. left = [i \in 0..N |-> IF i = 0 THEN st ELSE Step(left[i - 1], i)] BY <1>7
<1>9. UnmapAll(st, vs) = left[N] BY DEF UnmapAll, Step
<1> HIDE DEF left
<1>10. left[0] \in S[0] BY <1>0, <1>1, <1>8
<1>11. \A i \in 1..N : left[i - 1] \in S[i - 1] => left[i] \in S[i]
  <2> SUFFICES ASSUME NEW i \in 1..N, left[i - 1] \in S[i - 1] PROVE left[i] \in S[i] OBVIOUS
  <2>1. i \in 0..N /\ i # 0 BY <1>0
  <2>2. left[i] = Step(left[i - 1], i) BY <1>8, <2>1
  <2> QED BY <1>2, <2>2
<1>12. left[N] \in S[N]
  <2> HIDE DEF N
  <2>1. \A i \in 0..N : left[i] \in S[i] BY <1>0, <1>10, <1>11, LoopStays
  <2>2. N \in 0..N BY <1>0
  <2> QED BY <2>1, <2>2
<1>13. left[N] \in Call /\ Inv(left[N], N) BY <1>0, <1>12 DEF S
<1>14. Gone(N) = Range(vs) BY <1>0 DEF Range
<1> HIDE DEF Gone
<1> QED BY <1>9, <1>13, <1>14

----------------------------------------------------------------------------
(* Mapping several pages                                                   *)

\* The first entries of vs were mapped since st, each of them once.
First(vs, n) == {vs[j] : j \in 1..n}
Mapped(st, c, vs) ==
    /\ c.done \in 0..Len(vs) /\ Closed(c)
    /\ DOMAIN c.pages = DOMAIN st.pages \cup First(vs, c.done)
    /\ First(vs, c.done) \cap DOMAIN st.pages = {}
    /\ \A j, k \in 1..c.done : vs[j] = vs[k] => j = k
    /\ \A u \in DOMAIN st.pages : c.pages[u] = st.pages[u]

\* The next page is mapped, or nothing changes.
LEMMA MapNext ==
    ASSUME NEW st \in Call, NEW c \in Call, NEW A, Accounts(c, A), NEW vs \in Seq(UserPage),
           Mapped(st, c, vs), c.done < Len(vs), NEW f \in Frame
    PROVE  LET m == MapPage(c, vs[c.done + 1], f)
           IN  /\ m \in Call /\ Accounts(m, A) /\ m.taken = c.taken /\ Mapped(st, m, vs)
               /\ \/ /\ m.ok /\ m.done = c.done + 1 /\ m.pages[vs[c.done + 1]] = f
                     /\ \A j \in 1..c.done : m.pages[vs[j]] = c.pages[vs[j]]
                  \/ ~m.ok /\ m.done = c.done /\ m.pages = c.pages
<1> DEFINE n == c.done
           v == vs[n + 1]
           m == MapPage(c, v, f)
<1>0. n \in Nat /\ Len(vs) \in Nat /\ n + 1 \in 1..Len(vs) /\ v \in UserPage
  BY DEF Call
<1>1. DOMAIN c.pages \in SUBSET UserPage
  <2>1. c.pages \in PageMaps BY DEF Call
  <2> QED BY <2>1, MapsAre
<1>2. /\ m \in Call /\ Accounts(m, A) /\ m.taken = c.taken
      /\ MapsAt(c, m, v, f) \/ MapsNothing(c, m)
  <2> HIDE DEF v
  <2>1. LET x == MapPage(c, v, f)
        IN  /\ x \in Call /\ Accounts(x, A) /\ x.taken = c.taken
            /\ MapsAt(c, x, v, f) \/ MapsNothing(c, x)
    BY <1>0, MapPageIs
  <2> QED BY <2>1
<1> HIDE DEF m, v
<1>3. CASE MapsAt(c, m, v, f)
  <2>1. /\ m.ok /\ v \notin DOMAIN c.pages
        /\ m.pages = With(c.pages, v, f) /\ m.done = n + 1
        /\ DOMAIN m.tables = DOMAIN c.tables \cup Range(Walk(v)) BY <1>3 DEF MapsAt
  <2>2. /\ DOMAIN m.pages = DOMAIN c.pages \cup {v} /\ m.pages[v] = f
        /\ \A u \in DOMAIN c.pages : m.pages[u] = c.pages[u]
    <3>1. DOMAIN m.pages = DOMAIN c.pages \cup {v} BY <2>1 DEF With
    <3>2. m.pages[v] = f BY <2>1 DEF With
    <3>3. \A u \in DOMAIN c.pages : m.pages[u] = c.pages[u] BY <2>1 DEF With
    <3> QED BY <3>1, <3>2, <3>3
  <2>3. Closed(m)
    <3>1. DOMAIN c.tables = TablesFor(DOMAIN c.pages) BY DEF Mapped, Closed
    <3>2. TablesFor(DOMAIN c.pages \cup {v}) = TablesFor(DOMAIN c.pages) \cup Range(Walk(v))
      BY <1>0, <1>1, TablesForOneMore
    <3> QED BY <2>1, <2>2, <3>1, <3>2 DEF Closed
  <2>4. First(vs, n + 1) = First(vs, n) \cup {v}
    <3>1. \A j \in 1..(n + 1) : j = n + 1 \/ j \in 1..n BY <1>0
    <3>2. \A j \in 1..n : j \in 1..(n + 1) BY <1>0
    <3>3. n + 1 \in 1..(n + 1) BY <1>0
    <3> QED BY <3>1, <3>2, <3>3 DEF First, v
  <2>5. \A j \in 1..n : vs[j] \in First(vs, n) BY DEF First
  <2>6. /\ DOMAIN c.pages = DOMAIN st.pages \cup First(vs, n)
        /\ First(vs, n) \cap DOMAIN st.pages = {}
        /\ \A j, k \in 1..n : vs[j] = vs[k] => j = k
        /\ \A u \in DOMAIN st.pages : c.pages[u] = st.pages[u] BY DEF Mapped
  <2>7. \A j, k \in 1..(n + 1) : vs[j] = vs[k] => j = k
    <3>1. \A j \in 1..(n + 1) : j = n + 1 \/ j \in 1..n BY <1>0
    <3>2. \A j \in 1..n : vs[j] # v BY <2>1, <2>5, <2>6
    <3> QED BY <2>6, <3>1, <3>2 DEF v
  <2>8. Mapped(st, m, vs)
    <3>1. m.done \in 0..Len(vs) BY <1>0, <2>1
    <3>2. DOMAIN m.pages = DOMAIN st.pages \cup First(vs, m.done) BY <2>1, <2>2, <2>4, <2>6
    <3>3. First(vs, m.done) \cap DOMAIN st.pages = {} BY <2>1, <2>4, <2>6
    <3>4. \A u \in DOMAIN st.pages : m.pages[u] = st.pages[u] BY <2>2, <2>6
    <3> QED BY <2>1, <2>3, <2>7, <3>1, <3>2, <3>3, <3>4 DEF Mapped
  <2>9. \A j \in 1..n : m.pages[vs[j]] = c.pages[vs[j]] BY <2>2, <2>5, <2>6
  <2> QED BY <1>2, <2>1, <2>2, <2>8, <2>9 DEF m, v
<1>4. CASE MapsNothing(c, m)
  <2>1. ~m.ok /\ m.tables = c.tables /\ m.pages = c.pages /\ m.done = n BY <1>4 DEF MapsNothing
  <2>2. Mapped(st, m, vs) BY <2>1 DEF Mapped, Closed
  <2> QED BY <1>2, <2>1, <2>2 DEF m, v
<1> QED BY <1>2, <1>3, <1>4

\* The pages that were mapped, the other way round.
LEMMA BackwardsIs ==
    ASSUME NEW vs \in Seq(UserPage), NEW n \in 0..Len(vs),
           \A j, k \in 1..n : vs[j] = vs[k] => j = k
    PROVE  LET ws == Backwards(vs, n)
           IN  ws \in Seq(UserPage) /\ Range(ws) = First(vs, n) /\ IsInjective(ws)
<1> DEFINE ws == Backwards(vs, n)
<1>0. n \in Nat /\ n <= Len(vs) /\ Len(vs) \in Nat /\ \A j \in 1..Len(vs) : vs[j] \in UserPage
  OBVIOUS
<1>1. ws = [j \in 1..n |-> vs[n + 1 - j]] BY DEF Backwards
<1> HIDE DEF ws
<1>2. \A j \in 1..n : n + 1 - j \in 1..n /\ n + 1 - (n + 1 - j) = j BY <1>0
<1>3. ws \in Seq(UserPage)
  <2>1. \A j \in 1..n : vs[n + 1 - j] \in UserPage BY <1>0, <1>2
  <2>2. ws \in [1..n -> UserPage] BY <1>1, <2>1
  <2> QED BY <1>0, <2>2
<1>4. Range(ws) = First(vs, n)
  <2>1. \A j \in 1..n : ws[j] = vs[n + 1 - j] BY <1>1
  <2>2. \A j \in 1..n : vs[j] = ws[n + 1 - j] BY <1>1, <1>2
  <2>3. DOMAIN ws = 1..n BY <1>1
  <2> QED BY <1>2, <2>1, <2>2, <2>3 DEF Range, First
<1>5. IsInjective(ws)
  <2> SUFFICES ASSUME NEW i \in 1..n, NEW j \in 1..n, ws[i] = ws[j] PROVE i = j
    BY <1>1 DEF IsInjective
  <2>1. vs[n + 1 - i] = vs[n + 1 - j] BY <1>1
  <2>2. n + 1 - i \in 1..n /\ n + 1 - j \in 1..n BY <1>2
  <2>3. n + 1 - i = n + 1 - j BY <2>1, <2>2
  <2> QED BY <1>0, <2>3
<1> QED BY <1>3, <1>4, <1>5 DEF ws

\* What was mapped is unmapped, when not all of it could be.
LEMMA RollBack ==
    ASSUME NEW st \in Call, NEW c \in Call, NEW A, Accounts(c, A), NEW vs \in Seq(UserPage),
           Mapped(st, c, vs)
    PROVE  LET u == UnmapAll(c, Backwards(vs, c.done))
           IN  u \in Call /\ Accounts(u, A) /\ Same(c, u) /\ Closed(u) /\ u.pages = st.pages
<1> DEFINE n == c.done
           ws == Backwards(vs, n)
<1>0. n \in 0..Len(vs) /\ \A j, k \in 1..n : vs[j] = vs[k] => j = k BY DEF Mapped
<1>1. ws \in Seq(UserPage) /\ Range(ws) = First(vs, n) /\ IsInjective(ws) BY <1>0, BackwardsIs
<1> HIDE DEF ws
<1>6. /\ DOMAIN c.pages = DOMAIN st.pages \cup First(vs, n) /\ Closed(c)
      /\ First(vs, n) \cap DOMAIN st.pages = {}
      /\ \A u \in DOMAIN st.pages : c.pages[u] = st.pages[u] BY DEF Mapped
<1>7. LET u == UnmapAll(c, ws)
      IN  /\ u \in Call /\ Accounts(u, A) /\ Same(c, u) /\ Closed(u)
          /\ u.pages = Without(c.pages, Range(ws))
  BY <1>1, <1>6, UnmapAllIs
<1>8. Without(c.pages, First(vs, n)) = st.pages
  <2>1. st.pages = [z \in DOMAIN st.pages |-> st.pages[z]]
    <3>1. st.pages \in PageMaps BY DEF Call
    <3>2. st.pages \in [DOMAIN st.pages -> Frame] BY <3>1, MapsAre
    <3> QED BY <3>2
  <2>2. DOMAIN c.pages \ First(vs, n) = DOMAIN st.pages BY <1>6
  <2> QED BY <1>6, <2>1, <2>2 DEF Without
<1> QED BY <1>1, <1>7, <1>8 DEF ws

\* Where a call starts: nothing taken, nothing mapped.
Fresh(st) == st.done = 0 /\ st.taken = {} /\ st.ok

\* The new pages have the frames that were taken, one each.
OwnFrames(c, vs) ==
    /\ \A j \in 1..c.done : c.pages[vs[j]] \in c.taken
    /\ \A j, k \in 1..c.done : c.pages[vs[j]] = c.pages[vs[k]] => j = k
    /\ c.ok => c.taken = {c.pages[vs[j]] : j \in 1..c.done}

\* A frame for each page, until one is missing.
LEMMA TakeEachIs ==
    ASSUME NEW st \in Call, NEW A, Accounts(st, A), Closed(st), Fresh(st), NEW vs \in Seq(UserPage)
    PROVE  LET end == TakeEach(st, vs)
           IN  /\ end \in Call /\ Accounts(end, A) /\ Mapped(st, end, vs) /\ OwnFrames(end, vs)
               /\ end.ok => end.done = Len(vs)
<1> DEFINE N == Len(vs)
           Inv(c, i) == /\ Accounts(c, A) /\ Mapped(st, c, vs) /\ OwnFrames(c, vs)
                        /\ c.ok => c.done = i
           S == [i \in 0..N |-> {c \in Call : Inv(c, i)}]
           Step(c, i) == TakePage(c, vs[i])
           F == [x \in Call \X (1..N) |-> Step(x[1], x[2])]
<1>0. N \in Nat /\ DOMAIN vs = 1..N /\ \A i \in 1..N : vs[i] \in UserPage OBVIOUS
<1>1. st \in S[0]
  <2>1. Mapped(st, st, vs) BY <1>0 DEF Mapped, First, Fresh
  <2>2. OwnFrames(st, vs) BY DEF OwnFrames, Fresh
  <2>3. Inv(st, 0) BY <2>1, <2>2 DEF Fresh
  <2> HIDE DEF Inv
  <2> QED BY <1>0, <2>3
<1>2. ASSUME NEW i \in 1..N, NEW c \in S[i - 1] PROVE Step(c, i) \in S[i] /\ c \in Call
  <2> DEFINE n == Step(c, i)
  <2>1. c \in Call /\ Inv(c, i - 1) BY <1>0
  <2>2. S[i] = {d \in Call : Inv(d, i)} BY <1>0
  <2>a. /\ c.available \in SUBSET Frame /\ c.taken \in SUBSET Frame /\ c.ok \in BOOLEAN
    BY <2>1 DEF Call
  <2> HIDE DEF S
  <2>3. CASE ~c.ok
    <3>1. n = c BY <2>3 DEF TakePage
    <3> QED BY <2>1, <2>2, <2>3, <3>1
  <2>4. CASE c.ok /\ c.available = {}
    <3>1. n = [c EXCEPT !.ok = FALSE] BY <2>4 DEF TakePage
    <3>2. /\ n \in Call /\ ~n.ok /\ n.tables = c.tables /\ n.pages = c.pages /\ n.taken = c.taken
          /\ n.done = c.done /\ n.available = c.available BY <2>1, <3>1 DEF Call
    <3> HIDE DEF n
    <3>3. Accounts(n, A) BY <2>1, <3>2 DEF Accounts
    <3>4. Mapped(st, n, vs) BY <2>1, <3>2 DEF Mapped, Closed
    <3>5. OwnFrames(n, vs) BY <2>1, <3>2 DEF OwnFrames
    <3> QED BY <2>1, <2>2, <3>2, <3>3, <3>4, <3>5 DEF n
  <2>5. CASE c.ok /\ c.available # {}
    <3> DEFINE f == Least(c.available)
               d == [c EXCEPT !.available = @ \ {f}, !.taken = @ \cup {f}]
    <3>1. n = MapPage(d, vs[i], f) BY <2>5 DEF TakePage
    <3>2. f \in c.available /\ f \in Frame
      <4>1. c.available \subseteq Nat BY <2>a, SpaceAssumption DEF Frame
      <4> QED BY <2>a, <2>5, <4>1, LeastOf
    <3> HIDE DEF f
    <3>3. /\ d \in Call /\ d.ok /\ d.tables = c.tables /\ d.pages = c.pages
          /\ d.taken = c.taken \cup {f} /\ d.done = c.done /\ d.available = c.available \ {f}
      BY <2>1, <2>a, <2>5, <3>2 DEF Call
    <3> HIDE DEF d
    <3>4. Accounts(d, A)
      <4>1. Accounts(c, A) BY <2>1
      <4> QED BY <3>2, <3>3, <4>1 DEF Accounts
    <3>5. Mapped(st, d, vs) BY <2>1, <3>3 DEF Mapped, Closed
    <3>6. d.done + 1 = i /\ d.done < Len(vs) /\ d.done = i - 1 BY <1>0, <2>1, <2>5, <3>3
    <3>7. /\ n \in Call /\ Accounts(n, A) /\ n.taken = d.taken /\ Mapped(st, n, vs)
          /\ \/ /\ n.ok /\ n.done = d.done + 1 /\ n.pages[vs[i]] = f
                /\ \A j \in 1..d.done : n.pages[vs[j]] = d.pages[vs[j]]
             \/ ~n.ok /\ n.done = d.done /\ n.pages = d.pages
      <4>1. LET m == MapPage(d, vs[d.done + 1], f)
            IN  /\ m \in Call /\ Accounts(m, A) /\ m.taken = d.taken /\ Mapped(st, m, vs)
                /\ \/ /\ m.ok /\ m.done = d.done + 1 /\ m.pages[vs[d.done + 1]] = f
                      /\ \A j \in 1..d.done : m.pages[vs[j]] = d.pages[vs[j]]
                   \/ ~m.ok /\ m.done = d.done /\ m.pages = d.pages
        <5>1. d.done < Len(vs) /\ f \in Frame /\ d \in Call BY <3>2, <3>3, <3>6
        <5> HIDE DEF n, Inv, N
        <5> QED BY <3>4, <3>5, <5>1, MapNext
      <4> HIDE DEF n
      <4> QED BY <3>1, <3>6, <4>1
    <3> HIDE DEF n
    <3>8. /\ \A j \in 1..c.done : c.pages[vs[j]] \in c.taken
          /\ \A j, k \in 1..c.done : c.pages[vs[j]] = c.pages[vs[k]] => j = k
          /\ c.taken = {c.pages[vs[j]] : j \in 1..c.done} BY <2>1, <2>5 DEF OwnFrames
    <3>9. f \notin c.taken
      <4>1. Accounts(c, A) BY <2>1
      <4> QED BY <3>2, <4>1 DEF Accounts
    <3>10. OwnFrames(n, vs)
      <4>1. CASE ~n.ok
        <5>1. n.done = c.done /\ n.pages = c.pages /\ c.taken \subseteq n.taken BY <3>3, <3>7, <4>1
        <5> QED BY <3>8, <4>1, <5>1 DEF OwnFrames
      <4>2. CASE n.ok
        <5>1. /\ n.done = i /\ n.pages[vs[i]] = f /\ n.taken = c.taken \cup {f} /\ c.done = i - 1
              /\ \A j \in 1..(i - 1) : n.pages[vs[j]] = c.pages[vs[j]] BY <3>3, <3>6, <3>7, <4>2
        <5>2. \A j \in 1..i : j = i \/ j \in 1..(i - 1) BY <1>0
        <5>3. i \in 1..i /\ \A j \in 1..(i - 1) : j \in 1..i BY <1>0
        <5>4. \A j \in 1..i : n.pages[vs[j]] \in n.taken BY <3>8, <5>1, <5>2
        <5>5. \A j \in 1..(i - 1) : n.pages[vs[j]] # f BY <3>8, <3>9, <5>1
        <5>6. \A j, k \in 1..i : n.pages[vs[j]] = n.pages[vs[k]] => j = k
          BY <3>8, <5>1, <5>2, <5>5
        <5>7. n.taken = {n.pages[vs[j]] : j \in 1..i} BY <3>8, <5>1, <5>2, <5>3
        <5> QED BY <5>1, <5>4, <5>6, <5>7 DEF OwnFrames
      <4>3. n.ok \in BOOLEAN BY <3>7 DEF Call
      <4> QED BY <4>1, <4>2, <4>3
    <3>11. Inv(n, i) BY <3>6, <3>7, <3>10
    <3> HIDE DEF Inv
    <3> QED BY <2>1, <2>2, <3>7, <3>11 DEF n
  <2> QED BY <2>3, <2>4, <2>5, <2>a
<1>3. ASSUME NEW i \in 1..N, NEW c \in S[i - 1] PROVE F[<<c, i>>] = Step(c, i)
  <2>1. c \in Call BY <1>2
  <2> HIDE DEF Step, S
  <2> QED BY <2>1
<1> HIDE DEF S, F, Step
<1>4. Leads(F, S, N) BY <1>2, <1>3 DEF Leads
<1>5. PICK g : LoopOf(g, F, S, st, N)
  <2> HIDE DEF N
  <2> QED BY <1>0, <1>1, <1>4, LoopResult
<1>6. \A i \in 1..N : g[i] = Step(g[i - 1], i)
  <2> SUFFICES ASSUME NEW i \in 1..N PROVE g[i] = Step(g[i - 1], i) OBVIOUS
  <2>1. i - 1 \in 0..N BY <1>0
  <2> QED BY <1>3, <1>5, <2>1 DEF LoopOf
<1> DEFINE got == CHOOSE h : h = [i \in 0..N |-> IF i = 0 THEN st ELSE Step(h[i - 1], i)]
<1>7. g = [i \in 0..N |-> IF i = 0 THEN st ELSE Step(g[i - 1], i)]
  <2>1. \A i \in 0..N : i = 0 \/ i \in 1..N BY <1>0
  <2>2. \A i \in 0..N : g[i] = IF i = 0 THEN st ELSE Step(g[i - 1], i) BY <1>5, <1>6, <2>1 DEF LoopOf
  <2> QED BY <1>5, <2>2 DEF LoopOf
<1>8. got = [i \in 0..N |-> IF i = 0 THEN st ELSE Step(got[i - 1], i)] BY <1>7
<1>9. TakeEach(st, vs) = got[N] BY DEF TakeEach, Step
<1> HIDE DEF got
<1>10. got[0] \in S[0] BY <1>0, <1>1, <1>8
<1>11. \A i \in 1..N : got[i - 1] \in S[i - 1] => got[i] \in S[i]
  <2> SUFFICES ASSUME NEW i \in 1..N, got[i - 1] \in S[i - 1] PROVE got[i] \in S[i] OBVIOUS
  <2>1. i \in 0..N /\ i # 0 BY <1>0
  <2>2. got[i] = Step(got[i - 1], i) BY <1>8, <2>1
  <2> QED BY <1>2, <2>2
<1>12. got[N] \in S[N]
  <2> HIDE DEF N
  <2>1. \A i \in 0..N : got[i] \in S[i] BY <1>0, <1>10, <1>11, LoopStays
  <2>2. N \in 0..N BY <1>0
  <2> QED BY <2>1, <2>2
<1>13. got[N] \in Call /\ Inv(got[N], N) BY <1>0, <1>12 DEF S
<1> QED BY <1>9, <1>13

\* What TakePages leaves: all of the pages with a frame of their own each, or
\* what was there.
LEMMA TakePagesIs ==
    ASSUME NEW st \in Call, NEW A, Accounts(st, A), Closed(st), Fresh(st), NEW vs \in Seq(UserPage)
    PROVE  LET r == TakePages(st, vs)
               G == {r.pages[v] : v \in Range(vs)}
           IN  /\ r \in Call /\ Closed(r) /\ r.taken = {}
               /\ ~r.ok => r.pages = st.pages /\ Accounts(r, A)
               /\ r.ok => /\ DOMAIN r.pages = DOMAIN st.pages \cup Range(vs)
                          /\ Range(vs) \cap DOMAIN st.pages = {} /\ IsInjective(vs)
                          /\ \A u \in DOMAIN st.pages : r.pages[u] = st.pages[u]
                          /\ \A u, v \in Range(vs) : r.pages[u] = r.pages[v] => u = v
                          /\ Accounts([r EXCEPT !.taken = G], A) /\ G \subseteq Frame
<1> DEFINE end == TakeEach(st, vs)
           r == TakePages(st, vs)
<1>1. /\ end \in Call /\ Accounts(end, A) /\ Mapped(st, end, vs) /\ OwnFrames(end, vs)
      /\ end.ok => end.done = Len(vs)
  BY TakeEachIs
<1> HIDE DEF end
<1>2. CASE ~end.ok
  <2> DEFINE u == UnmapAll(end, Backwards(vs, end.done))
  <2>1. r = [u EXCEPT !.available = @ \cup end.taken, !.taken = {}]
    BY <1>2 DEF TakePages, end, FreeFrames
  <2>2. u \in Call /\ Accounts(u, A) /\ Same(end, u) /\ Closed(u) /\ u.pages = st.pages
    BY <1>1, RollBack
  <2> HIDE DEF u
  <2>3. u.taken = end.taken /\ ~u.ok /\ u.taken \in SUBSET Frame /\ u.available \in SUBSET Frame
    BY <1>2, <2>2 DEF Same, Call
  <2>4. /\ r \in Call /\ r.available = u.available \cup u.taken /\ r.taken = {} /\ ~r.ok
        /\ r.tables = u.tables /\ r.pages = u.pages
    BY <2>1, <2>2, <2>3 DEF Call
  <2> HIDE DEF r
  <2>5. Accounts(r, A) /\ Closed(r) BY <2>2, <2>4 DEF Accounts, Closed
  <2> QED BY <2>2, <2>4, <2>5 DEF r
<1>3. CASE end.ok
  <2>1. r = [end EXCEPT !.taken = {}] BY <1>3 DEF TakePages, end
  <2>2. /\ r \in Call /\ r.ok /\ r.available = end.available /\ r.tables = end.tables
        /\ r.pages = end.pages /\ r.taken = {}
    BY <1>1, <1>3, <2>1 DEF Call
  <2> HIDE DEF r
  <2>3. Closed(r) BY <1>1, <2>2 DEF Mapped, Closed
  <2>4. First(vs, end.done) = Range(vs) /\ end.done = Len(vs) /\ DOMAIN vs = 1..Len(vs)
    BY <1>1, <1>3 DEF First, Range
  <2>5. /\ DOMAIN r.pages = DOMAIN st.pages \cup Range(vs)
        /\ Range(vs) \cap DOMAIN st.pages = {} /\ IsInjective(vs)
        /\ \A u \in DOMAIN st.pages : r.pages[u] = st.pages[u]
    BY <1>1, <2>2, <2>4 DEF Mapped, IsInjective
  <2>6. \A u, v \in Range(vs) : r.pages[u] = r.pages[v] => u = v
    <3>1. \A j, k \in 1..Len(vs) : r.pages[vs[j]] = r.pages[vs[k]] => j = k
      BY <1>1, <2>2, <2>4 DEF OwnFrames
    <3> QED BY <2>4, <3>1 DEF Range
  <2> DEFINE G == {r.pages[v] : v \in Range(vs)}
             x == [r EXCEPT !.taken = G]
  <2>7. end.taken = G
    <3>1. end.taken = {r.pages[vs[j]] : j \in 1..Len(vs)} BY <1>1, <1>3, <2>2, <2>4 DEF OwnFrames
    <3>2. Range(vs) = {vs[j] : j \in 1..Len(vs)} BY <2>4 DEF Range
    <3> HIDE DEF r
    <3>3. G = {r.pages[vs[j]] : j \in 1..Len(vs)} BY <3>2
    <3> QED BY <3>1, <3>3
  <2>8. G \subseteq Frame BY <1>1, <2>7 DEF Call
  <2> HIDE DEF G
  <2>9. x.available = end.available /\ x.tables = end.tables /\ x.taken = end.taken
    BY <2>2, <2>7 DEF Call
  <2> HIDE DEF x
  <2>10. Accounts(x, A) BY <1>1, <2>9 DEF Accounts
  <2> QED BY <2>2, <2>3, <2>5, <2>6, <2>8, <2>10 DEF r, x, G
<1>4. end.ok \in BOOLEAN BY <1>1 DEF Call
<1> QED BY <1>2, <1>3, <1>4

\* A page for each frame, until a table is missing.
LEMMA MapEachIs ==
    ASSUME NEW st \in Call, NEW A, Accounts(st, A), Closed(st), Fresh(st), NEW vs \in Seq(UserPage),
           NEW fs, \A i \in 1..Len(vs) : fs[i] \in Frame
    PROVE  LET end == MapEach(st, vs, fs)
           IN  /\ end \in Call /\ Accounts(end, A) /\ Mapped(st, end, vs) /\ end.taken = {}
               /\ \A j \in 1..end.done : end.pages[vs[j]] = fs[j]
               /\ end.ok => end.done = Len(vs)
<1> DEFINE N == Len(vs)
           Shows(c) == \A j \in 1..c.done : c.pages[vs[j]] = fs[j]
           Inv(c, i) == /\ Accounts(c, A) /\ Mapped(st, c, vs) /\ c.taken = {}
                        /\ Shows(c)
                        /\ c.ok => c.done = i
           S == [i \in 0..N |-> {c \in Call : Inv(c, i)}]
           Step(c, i) == IF c.ok THEN MapPage(c, vs[i], fs[i]) ELSE c
           F == [x \in Call \X (1..N) |-> Step(x[1], x[2])]
<1>0. N \in Nat /\ DOMAIN vs = 1..N /\ \A i \in 1..N : vs[i] \in UserPage OBVIOUS
<1>1. st \in S[0]
  <2>1. Mapped(st, st, vs) BY <1>0 DEF Mapped, First, Fresh
  <2>2. Inv(st, 0) BY <2>1 DEF Fresh
  <2> HIDE DEF Inv
  <2> QED BY <1>0, <2>2
<1>2. ASSUME NEW i \in 1..N, NEW c \in S[i - 1] PROVE Step(c, i) \in S[i] /\ c \in Call
  <2> DEFINE n == Step(c, i)
  <2>1. c \in Call /\ Inv(c, i - 1) BY <1>0
  <2>2. S[i] = {d \in Call : Inv(d, i)} BY <1>0
  <2>a. c.ok \in BOOLEAN BY <2>1 DEF Call
  <2> HIDE DEF S
  <2>3. CASE ~c.ok
    <3>1. n = c BY <2>3
    <3> QED BY <2>1, <2>2, <2>3, <3>1
  <2>4. CASE c.ok
    <3>1. n = MapPage(c, vs[i], fs[i]) BY <2>4
    <3>2. c.done + 1 = i /\ c.done < Len(vs) /\ c.done = i - 1 /\ fs[i] \in Frame
      BY <1>0, <2>1, <2>4
    <3>3. Accounts(c, A) /\ Mapped(st, c, vs) /\ c.taken = {} /\ Shows(c) BY <2>1
    <3> HIDE DEF n, Inv, N
    <3>4. LET m == MapPage(c, vs[c.done + 1], fs[i])
          IN  /\ m \in Call /\ Accounts(m, A) /\ m.taken = c.taken /\ Mapped(st, m, vs)
              /\ \/ /\ m.ok /\ m.done = c.done + 1 /\ m.pages[vs[c.done + 1]] = fs[i]
                    /\ \A j \in 1..c.done : m.pages[vs[j]] = c.pages[vs[j]]
                 \/ ~m.ok /\ m.done = c.done /\ m.pages = c.pages
      <4>1. c \in Call /\ c.done < Len(vs) /\ fs[i] \in Frame BY <2>1, <3>2
      <4> HIDE DEF Shows
      <4> QED BY <3>3, <4>1, MapNext
    <3>5. /\ n \in Call /\ Accounts(n, A) /\ n.taken = c.taken /\ Mapped(st, n, vs)
          /\ \/ /\ n.ok /\ n.done = i /\ n.pages[vs[i]] = fs[i]
                /\ \A j \in 1..(i - 1) : n.pages[vs[j]] = c.pages[vs[j]]
             \/ ~n.ok /\ n.done = c.done /\ n.pages = c.pages
      BY <3>1, <3>2, <3>4
    <3>6. Shows(n)
      <4>1. CASE ~n.ok BY <3>3, <3>5, <4>1
      <4>2. CASE n.ok
        <5>1. \A j \in 1..i : j = i \/ j \in 1..(i - 1) BY <1>0
        <5> QED BY <3>2, <3>3, <3>5, <4>2, <5>1
      <4>3. n.ok \in BOOLEAN BY <3>5 DEF Call
      <4> QED BY <4>1, <4>2, <4>3
    <3>7. Inv(n, i)
      <4> HIDE DEF Shows
      <4> QED BY <3>3, <3>5, <3>6 DEF Inv
    <3> QED BY <2>1, <2>2, <3>5, <3>7 DEF n
  <2> QED BY <2>3, <2>4, <2>a
<1>3. ASSUME NEW i \in 1..N, NEW c \in S[i - 1] PROVE F[<<c, i>>] = Step(c, i)
  <2>1. c \in Call BY <1>2
  <2> HIDE DEF Step, S
  <2> QED BY <2>1
<1> HIDE DEF S, F, Step
<1>4. Leads(F, S, N) BY <1>2, <1>3 DEF Leads
<1>5. PICK g : LoopOf(g, F, S, st, N)
  <2> HIDE DEF N
  <2> QED BY <1>0, <1>1, <1>4, LoopResult
<1>6. \A i \in 1..N : g[i] = Step(g[i - 1], i)
  <2> SUFFICES ASSUME NEW i \in 1..N PROVE g[i] = Step(g[i - 1], i) OBVIOUS
  <2>1. i - 1 \in 0..N BY <1>0
  <2> QED BY <1>3, <1>5, <2>1 DEF LoopOf
<1> DEFINE got == CHOOSE h : h = [i \in 0..N |-> IF i = 0 THEN st ELSE Step(h[i - 1], i)]
<1>7. g = [i \in 0..N |-> IF i = 0 THEN st ELSE Step(g[i - 1], i)]
  <2>1. \A i \in 0..N : i = 0 \/ i \in 1..N BY <1>0
  <2>2. \A i \in 0..N : g[i] = IF i = 0 THEN st ELSE Step(g[i - 1], i) BY <1>5, <1>6, <2>1 DEF LoopOf
  <2> QED BY <1>5, <2>2 DEF LoopOf
<1>8. got = [i \in 0..N |-> IF i = 0 THEN st ELSE Step(got[i - 1], i)] BY <1>7
<1>9. MapEach(st, vs, fs) = got[N] BY DEF MapEach, Step
<1> HIDE DEF got
<1>10. got[0] \in S[0] BY <1>0, <1>1, <1>8
<1>11. \A i \in 1..N : got[i - 1] \in S[i - 1] => got[i] \in S[i]
  <2> SUFFICES ASSUME NEW i \in 1..N, got[i - 1] \in S[i - 1] PROVE got[i] \in S[i] OBVIOUS
  <2>1. i \in 0..N /\ i # 0 BY <1>0
  <2>2. got[i] = Step(got[i - 1], i) BY <1>8, <2>1
  <2> QED BY <1>2, <2>2
<1>12. got[N] \in S[N]
  <2> HIDE DEF N
  <2>1. \A i \in 0..N : got[i] \in S[i] BY <1>0, <1>10, <1>11, LoopStays
  <2>2. N \in 0..N BY <1>0
  <2> QED BY <2>1, <2>2
<1>13. got[N] \in Call /\ Inv(got[N], N) BY <1>0, <1>12 DEF S
<1> QED BY <1>9, <1>13

\* What MapFrames leaves: the frames at the pages, or what was there.
LEMMA MapFramesIs ==
    ASSUME NEW st \in Call, NEW A, Accounts(st, A), Closed(st), Fresh(st), NEW vs \in Seq(UserPage),
           NEW fs, \A i \in 1..Len(vs) : fs[i] \in Frame
    PROVE  LET r == MapFrames(st, vs, fs)
           IN  /\ r \in Call /\ Closed(r) /\ Accounts(r, A) /\ r.taken = {}
               /\ ~r.ok => r.pages = st.pages
               /\ r.ok => /\ DOMAIN r.pages = DOMAIN st.pages \cup Range(vs)
                          /\ Range(vs) \cap DOMAIN st.pages = {} /\ IsInjective(vs)
                          /\ \A u \in DOMAIN st.pages : r.pages[u] = st.pages[u]
                          /\ \A j \in 1..Len(vs) : r.pages[vs[j]] = fs[j]
<1> DEFINE end == MapEach(st, vs, fs)
           r == MapFrames(st, vs, fs)
<1>1. /\ end \in Call /\ Accounts(end, A) /\ Mapped(st, end, vs) /\ end.taken = {}
      /\ \A j \in 1..end.done : end.pages[vs[j]] = fs[j]
      /\ end.ok => end.done = Len(vs)
  BY MapEachIs
<1> HIDE DEF end
<1>2. CASE ~end.ok
  <2> DEFINE u == UnmapAll(end, Backwards(vs, end.done))
  <2>1. r = u BY <1>2 DEF MapFrames, end
  <2>2. u \in Call /\ Accounts(u, A) /\ Same(end, u) /\ Closed(u) /\ u.pages = st.pages
    BY <1>1, RollBack
  <2> HIDE DEF u
  <2>3. u.taken = {} /\ ~u.ok BY <1>1, <1>2, <2>2 DEF Same
  <2> QED BY <2>1, <2>2, <2>3
<1>3. CASE end.ok
  <2>1. r = end BY <1>3 DEF MapFrames, end
  <2>2. First(vs, end.done) = Range(vs) /\ end.done = Len(vs) /\ DOMAIN vs = 1..Len(vs)
    BY <1>1, <1>3 DEF First, Range
  <2>3. /\ DOMAIN end.pages = DOMAIN st.pages \cup Range(vs)
        /\ Range(vs) \cap DOMAIN st.pages = {} /\ IsInjective(vs)
        /\ \A u \in DOMAIN st.pages : end.pages[u] = st.pages[u]
        /\ Closed(end)
    BY <1>1, <2>2 DEF Mapped, IsInjective
  <2> QED BY <1>1, <1>3, <2>1, <2>2, <2>3
<1>4. end.ok \in BOOLEAN BY <1>1 DEF Call
<1> QED BY <1>2, <1>3, <1>4

\* The frames that were taken are the ones that are not left.
LEMMA TakeFramesIs ==
    ASSUME NEW free \in SUBSET Frame, NEW count \in Nat
    PROVE  LET r == TakeFrames(free, count)
           IN  /\ r.left \subseteq free /\ r.frames \in Seq(Frame) /\ IsInjective(r.frames)
               /\ Range(r.frames) = free \ r.left /\ Len(r.frames) <= count
<1> DEFINE N == count
           st == [left |-> free, frames |-> <<>>]
           Hand == [left : SUBSET free, frames : Seq(Frame)]
           Inv(c, i) == /\ IsInjective(c.frames) /\ Range(c.frames) = free \ c.left
                        /\ Len(c.frames) <= i
           S == [i \in 0..N |-> {c \in Hand : Inv(c, i)}]
           Step(c, i) == IF c.left = {} THEN c
                         ELSE LET f == Least(c.left)
                              IN  [left |-> c.left \ {f}, frames |-> Append(c.frames, f)]
           F == [x \in Hand \X (1..N) |-> Step(x[1], x[2])]
<1>0. N \in Nat OBVIOUS
<1>1. st \in S[0]
  <2>1. st \in Hand /\ st.left = free /\ st.frames = <<>> OBVIOUS
  <2>2. Inv(st, 0) BY <2>1 DEF IsInjective, Range
  <2> HIDE DEF Inv, Hand, st
  <2> QED BY <1>0, <2>1, <2>2
<1>2. ASSUME NEW i \in 1..N, NEW c \in S[i - 1] PROVE Step(c, i) \in S[i] /\ c \in Hand
  <2> DEFINE n == Step(c, i)
  <2>1. c \in Hand /\ Inv(c, i - 1) BY <1>0
  <2>2. S[i] = {d \in Hand : Inv(d, i)} BY <1>0
  <2>3. c.left \in SUBSET free /\ c.frames \in Seq(Frame) BY <2>1
  <2>4. Len(c.frames) \in Nat /\ Len(c.frames) <= i - 1 BY <2>1, <2>3
  <2> HIDE DEF S
  <2>5. CASE c.left = {}
    <3>1. n = c BY <2>5
    <3>2. Inv(c, i) BY <2>1, <2>4
    <3> HIDE DEF Inv, n
    <3> QED BY <2>1, <2>2, <3>1, <3>2 DEF n
  <2>6. CASE c.left # {}
    <3> DEFINE f == Least(c.left)
               q == Append(c.frames, f)
    <3>1. f \in c.left /\ f \in Frame
      <4>0. Frame \subseteq Nat BY SpaceAssumption DEF Frame
      <4>1. c.left \subseteq Nat BY <2>3, <4>0
      <4> QED BY <2>3, <2>6, <4>1, LeastOf
    <3> HIDE DEF f
    <3>2. n = [left |-> c.left \ {f}, frames |-> q] BY <2>6 DEF f
    <3>3. q \in Seq(Frame) /\ Len(q) = Len(c.frames) + 1 /\ q[Len(c.frames) + 1] = f
          /\ \A j \in 1..Len(c.frames) : q[j] = c.frames[j] BY <2>3, <3>1
    <3>4. DOMAIN q = 1..(Len(c.frames) + 1) /\ DOMAIN c.frames = 1..Len(c.frames) BY <2>3, <3>3
    <3> HIDE DEF q
    <3>5. n \in Hand /\ n.left = c.left \ {f} /\ n.frames = q BY <2>3, <3>2, <3>3
    <3>6. \A j \in DOMAIN q : j = Len(c.frames) + 1 \/ j \in DOMAIN c.frames BY <2>4, <3>4
    <3>7. \A j \in DOMAIN c.frames : j \in DOMAIN q BY <2>4, <3>4
    <3>8. Range(c.frames) = free \ c.left /\ IsInjective(c.frames) BY <2>1
    <3>9. \A j \in DOMAIN c.frames : c.frames[j] # f BY <3>1, <3>8 DEF Range
    <3>10. IsInjective(q) BY <3>3, <3>4, <3>6, <3>8, <3>9 DEF IsInjective
    <3>11. Range(q) = Range(c.frames) \cup {f}
      <4>1. Len(c.frames) + 1 \in DOMAIN q BY <2>4, <3>4
      <4> QED BY <3>3, <3>4, <3>6, <3>7, <4>1 DEF Range
    <3>12. Range(q) = free \ (c.left \ {f}) BY <2>3, <3>1, <3>8, <3>11
    <3>13. Inv(n, i)
      <4>1. Len(n.frames) <= i BY <2>4, <3>3, <3>5
      <4> HIDE DEF n
      <4> QED BY <3>5, <3>10, <3>12, <4>1
    <3> HIDE DEF Inv, n, Hand
    <3> QED BY <2>1, <2>2, <3>5, <3>13 DEF n
  <2> QED BY <2>5, <2>6
<1> HIDE DEF Hand
<1>3. ASSUME NEW i \in 1..N, NEW c \in S[i - 1] PROVE F[<<c, i>>] = Step(c, i)
  <2>1. c \in Hand BY <1>2
  <2> HIDE DEF Step, S, Inv
  <2> QED BY <2>1
<1> HIDE DEF S, F, Step
<1>4. Leads(F, S, N) BY <1>2, <1>3 DEF Leads
<1> HIDE DEF st
<1>5. PICK g : LoopOf(g, F, S, st, N)
  <2> HIDE DEF N
  <2> QED BY <1>0, <1>1, <1>4, LoopResult
<1>6. \A i \in 1..N : g[i] = Step(g[i - 1], i)
  <2> SUFFICES ASSUME NEW i \in 1..N PROVE g[i] = Step(g[i - 1], i) OBVIOUS
  <2>1. i - 1 \in 0..N BY <1>0
  <2> QED BY <1>3, <1>5, <2>1 DEF LoopOf
<1> DEFINE got == CHOOSE h : h = [i \in 0..N |-> IF i = 0 THEN st ELSE Step(h[i - 1], i)]
<1>7. g = [i \in 0..N |-> IF i = 0 THEN st ELSE Step(g[i - 1], i)]
  <2>1. \A i \in 0..N : i = 0 \/ i \in 1..N BY <1>0
  <2>2. \A i \in 0..N : g[i] = IF i = 0 THEN st ELSE Step(g[i - 1], i) BY <1>5, <1>6, <2>1 DEF LoopOf
  <2> QED BY <1>5, <2>2 DEF LoopOf
<1>8. got = [i \in 0..N |-> IF i = 0 THEN st ELSE Step(got[i - 1], i)] BY <1>7
<1>9. TakeFrames(free, count) = got[N] BY DEF TakeFrames, Step, st
<1> HIDE DEF got
<1>10. got[0] \in S[0] BY <1>0, <1>1, <1>8
<1>11. \A i \in 1..N : got[i - 1] \in S[i - 1] => got[i] \in S[i]
  <2> SUFFICES ASSUME NEW i \in 1..N, got[i - 1] \in S[i - 1] PROVE got[i] \in S[i] OBVIOUS
  <2>1. i \in 0..N /\ i # 0 BY <1>0
  <2>2. got[i] = Step(got[i - 1], i) BY <1>8, <2>1
  <2> QED BY <1>2, <2>2
<1>12. got[N] \in S[N]
  <2> HIDE DEF N
  <2>1. \A i \in 0..N : got[i] \in S[i] BY <1>0, <1>10, <1>11, LoopStays
  <2>2. N \in 0..N BY <1>0
  <2> QED BY <2>1, <2>2
<1>13. got[N] \in Hand /\ Inv(got[N], N) BY <1>0, <1>12 DEF S
<1> QED BY <1>9, <1>13 DEF Hand

----------------------------------------------------------------------------
(* The invariant                                                           *)

Records == [base : Nat, count : Nat]
ViewRecords == [base : Nat, count : Nat, object : Nat]

SpaceTypes ==
    /\ available \subseteq Frame /\ heap_frames \subseteq Frame
    /\ tables \in [Owner -> Tables] /\ pages \in [Owner -> PageMaps]
    /\ image \in [Owner -> Seq(UserPage)]
    /\ areas \in [Owner -> [1..AreaMax -> Records]]
    /\ views \in [Owner -> [1..ViewMax -> ViewRecords]]
    /\ handles \in [Owner -> [1..HeldMax -> 0..BufferMax]]
    /\ objects \in [1..BufferMax -> [frames : Seq(Frame), refs : Nat]]
    /\ exiting \in Owner \cup {None}

\* Every frame that is not free has one holder.
Partition ==
    /\ UNION {Held(h) : h \in Holder} = Frame \ available
    /\ \A g, h \in Holder : g # h => Held(g) \cap Held(h) = {}

\* The areas and views of p lie in the arena, a view is as long as its object,
\* and only a process with a program has any.
RecordsTrue(p) ==
    /\ \A s \in 1..AreaMax :
          areas[p][s] # NoArea => areas[p][s].count > 0 /\ areas[p][s].base + areas[p][s].count <= ArenaPages
    /\ \A s \in 1..ViewMax : views[p][s] # NoView =>
          /\ views[p][s].count > 0 /\ views[p][s].base + views[p][s].count <= ArenaPages
          /\ views[p][s].object \in 1..BufferMax
          /\ views[p][s].count = Len(objects[views[p][s].object].frames)
    /\ image[p] = <<>> => ~HasAreas(p) /\ ~HasViews(p) /\ ~HasHandles(p)
    /\ image[p] # <<>> => Exists(p)

\* SpaceTrue of a process, be its address space there or not.
Agrees(p) ==
    /\ DOMAIN pages[p] = Occupied(p) \cup Range(image[p])
    /\ NoOverlap(p)
    /\ \A s \in 1..ViewMax : \A i \in 1..views[p][s].count :
          pages[p][views[p][s].base + i - 1] = objects[views[p][s].object].frames[i]
    /\ Exists(p) => DOMAIN tables[p] = TablesFor(DOMAIN pages[p])
    /\ ~Exists(p) => tables[p] = <<>> /\ pages[p] = <<>>

\* What is true of p and the frames it has, in the tables and for itself.
Proper(p) ==
    /\ IsInjective(tables[p])
    /\ \A u, v \in PrivatePages(p) : pages[p][u] = pages[p][v] => u = v
    /\ Agrees(p)
    /\ RecordsTrue(p)

\* The handles and the views of a buffer are what it is counted to have.
HandlesOf(o) == {x \in Owner \X (1..HeldMax) : handles[x[1]][x[2]] = o}
ViewsOf(o) == {x \in Owner \X (1..ViewMax) : views[x[1]][x[2]].object = o}
BufferTrue(o) ==
    /\ IsInjective(objects[o].frames)
    /\ objects[o].refs = Cardinality(HandlesOf(o)) + Cardinality(ViewsOf(o))
    /\ objects[o].refs = 0 => objects[o] = NoBuffer
    /\ objects[o].refs > 0 => Len(objects[o].frames) > 0

SpaceInv ==
    /\ SpaceTypes
    /\ Partition
    /\ \A p \in Owner : Proper(p)
    /\ \A o \in 1..BufferMax : BufferTrue(o)
    /\ exiting # None => image[exiting] # <<>>

\* The invariant is what was to be shown.
LEMMA SpaceInvOwns == SpaceInv => FramesOwned
<1> SUFFICES ASSUME SpaceInv PROVE FramesOwned OBVIOUS
<1>1. ASSUME NEW p \in Owner PROVE IF Exists(p) THEN SpaceTrue(p) ELSE NothingLeft(p)
  <2>1. Agrees(p) /\ RecordsTrue(p) BY DEF SpaceInv, Proper
  <2>2. CASE Exists(p) BY <2>1, <2>2 DEF Agrees, SpaceTrue
  <2>3. CASE ~Exists(p) BY <2>1, <2>3 DEF Agrees, RecordsTrue, NothingLeft
  <2> QED BY <2>2, <2>3
<1> QED BY <1>1 DEF SpaceInv, Partition, Proper, BufferTrue, FramesOwned, SpacesTrue

----------------------------------------------------------------------------
(* The frames of one process and one buffer                                *)

Shown(o) == IF o \in 1..BufferMax THEN Range(objects[o].frames) ELSE {}

\* Five sets that share nothing.
Apart(a, b, c, d, e) ==
    /\ a \cap b = {} /\ a \cap c = {} /\ a \cap d = {} /\ a \cap e = {} /\ b \cap c = {}
    /\ b \cap d = {} /\ b \cap e = {} /\ c \cap d = {} /\ c \cap e = {} /\ d \cap e = {}

\* The holders that a call of p about buffer o deals with.
Parties(p, o) ==
    {<<"heap", 0>>, <<"tables", p>>, <<"private", p>>}
    \cup (IF o \in 1..BufferMax THEN {<<"object", o>>} ELSE {})

\* Their names tell them apart.
LEMMA HolderIs ==
    /\ \A h \in Holder : \/ h = <<"heap", 0>>
                         \/ \E p \in Owner : h = <<"tables", p>>
                         \/ \E p \in Owner : h = <<"private", p>>
                         \/ \E o \in 1..BufferMax : h = <<"object", o>>
    /\ <<"heap", 0>> \in Holder
    /\ \A p \in Owner : <<"tables", p>> \in Holder /\ <<"private", p>> \in Holder
    /\ \A o \in 1..BufferMax : <<"object", o>> \in Holder
    /\ "heap" # "tables" /\ "heap" # "private" /\ "heap" # "object" /\ "tables" # "private"
    /\ "tables" # "object" /\ "private" # "object"
<1>1. "heap" # "tables" /\ "heap" # "private" /\ "heap" # "object" /\ "tables" # "private"
      /\ "tables" # "object" /\ "private" # "object" OBVIOUS
<1>2. \A h \in Holder : \/ h = <<"heap", 0>>
                        \/ \E p \in Owner : h = <<"tables", p>>
                        \/ \E p \in Owner : h = <<"private", p>>
                        \/ \E o \in 1..BufferMax : h = <<"object", o>>
  BY DEF Holder
<1>3. <<"heap", 0>> \in Holder BY DEF Holder
<1>4. \A p \in Owner : <<"tables", p>> \in Holder /\ <<"private", p>> \in Holder BY DEF Holder
<1>5. \A o \in 1..BufferMax : <<"object", o>> \in Holder BY DEF Holder
<1> QED BY <1>1, <1>2, <1>3, <1>4, <1>5

\* What each of them has.
LEMMA HeldIs ==
    /\ Held(<<"heap", 0>>) = heap_frames
    /\ \A p : Held(<<"tables", p>>) = Range(tables[p])
    /\ \A p : Held(<<"private", p>>) = PrivateFrames(p)
    /\ \A o : Held(<<"object", o>>) = Range(objects[o].frames)
<1>0. "heap" # "tables" /\ "heap" # "private" /\ "heap" # "object" /\ "tables" # "private"
      /\ "tables" # "object" /\ "private" # "object" OBVIOUS
<1>1. Held(<<"heap", 0>>) = heap_frames BY DEF Held
<1>2. ASSUME NEW p PROVE Held(<<"tables", p>>) = Range(tables[p]) BY <1>0 DEF Held
<1>3. ASSUME NEW p PROVE Held(<<"private", p>>) = PrivateFrames(p) BY <1>0 DEF Held
<1>4. ASSUME NEW o PROVE Held(<<"object", o>>) = Range(objects[o].frames) BY <1>0 DEF Held
<1> QED BY <1>1, <1>2, <1>3, <1>4

\* They share nothing with each other, and nothing with the free frames.
LEMMA PartiesApart ==
    ASSUME SpaceInv, NEW p \in Owner, NEW o
    PROVE  Apart(heap_frames, Range(tables[p]), PrivateFrames(p), Shown(o), available)
<1>1. /\ UNION {Held(h) : h \in Holder} = Frame \ available
      /\ \A g, h \in Holder : g # h => Held(g) \cap Held(h) = {}
      /\ available \subseteq Frame
  BY DEF SpaceInv, Partition, SpaceTypes
<1>2. \A h \in Holder : Held(h) \cap available = {} BY <1>1
<1>3. /\ <<"heap", 0>> \in Holder /\ <<"tables", p>> \in Holder /\ <<"private", p>> \in Holder
      /\ <<"heap", 0>> # <<"tables", p>> /\ <<"heap", 0>> # <<"private", p>>
      /\ <<"tables", p>> # <<"private", p>>
  BY HolderIs
<1>4. CASE o \in 1..BufferMax
  <2>1. /\ <<"object", o>> \in Holder /\ <<"heap", 0>> # <<"object", o>>
        /\ <<"tables", p>> # <<"object", o>> /\ <<"private", p>> # <<"object", o>>
    BY <1>4, HolderIs
  <2>2. Shown(o) = Held(<<"object", o>>) BY <1>4, HeldIs DEF Shown
  <2> QED BY <1>1, <1>2, <1>3, <2>1, <2>2, HeldIs DEF Apart
<1>5. CASE o \notin 1..BufferMax
  <2>1. Shown(o) = {} BY <1>5 DEF Shown
  <2> QED BY <1>1, <1>2, <1>3, <2>1, HeldIs DEF Apart
<1> QED BY <1>4, <1>5

\* Another holder keeps what it has.
LEMMA OthersHold ==
    ASSUME NEW p \in Owner, NEW o,
           \A q \in Owner \ {p} : tables'[q] = tables[q] /\ PrivateFrames(q)' = PrivateFrames(q),
           \A b \in (1..BufferMax) \ {o} : objects'[b].frames = objects[b].frames,
           NEW h \in Holder, h \notin Parties(p, o)
    PROVE  Held(h)' = Held(h)
<1>1. CASE h = <<"heap", 0>> BY <1>1 DEF Parties
<1>2. ASSUME NEW q \in Owner, h = <<"tables", q>> PROVE Held(h)' = Held(h)
  <2>1. q # p BY <1>2 DEF Parties
  <2>2. Held(h) = Range(tables[q]) BY <1>2, HeldIs
  <2>3. Held(h)' = Range(tables'[q])
    <3>1. "heap" # "tables" OBVIOUS
    <3> QED BY <1>2, <3>1 DEF Held
  <2> QED BY <2>1, <2>2, <2>3
<1>3. ASSUME NEW q \in Owner, h = <<"private", q>> PROVE Held(h)' = Held(h)
  <2>1. q # p BY <1>3 DEF Parties
  <2>2. Held(h) = PrivateFrames(q) BY <1>3, HeldIs
  <2>3. Held(h)' = PrivateFrames(q)'
    <3>1. "heap" # "private" /\ "tables" # "private" OBVIOUS
    <3> QED BY <1>3, <3>1 DEF Held
  <2> QED BY <2>1, <2>2, <2>3
<1>4. ASSUME NEW b \in 1..BufferMax, h = <<"object", b>> PROVE Held(h)' = Held(h)
  <2>1. b # o BY <1>4 DEF Parties
  <2>2. Held(h) = Range(objects[b].frames) BY <1>4, HeldIs
  <2>3. Held(h)' = Range(objects'[b].frames)
    <3>1. "heap" # "object" /\ "tables" # "object" /\ "private" # "object" OBVIOUS
    <3> QED BY <1>4, <3>1 DEF Held
  <2> QED BY <2>1, <2>2, <2>3
<1> QED BY <1>1, <1>2, <1>3, <1>4, HolderIs

\* What the parties have together.
LEMMA PartiesHave ==
    ASSUME NEW p \in Owner, NEW o
    PROVE  UNION {Held(h) : h \in Parties(p, o)}
             = heap_frames \cup Range(tables[p]) \cup PrivateFrames(p) \cup Shown(o)
<1>1. CASE o \in 1..BufferMax
  <2>1. Parties(p, o) = {<<"heap", 0>>, <<"tables", p>>, <<"private", p>>, <<"object", o>>}
    BY <1>1 DEF Parties
  <2>2. Shown(o) = Held(<<"object", o>>) BY <1>1, HeldIs DEF Shown
  <2> QED BY <2>1, <2>2, HeldIs
<1>2. CASE o \notin 1..BufferMax
  <2>1. Parties(p, o) = {<<"heap", 0>>, <<"tables", p>>, <<"private", p>>}
    BY <1>2 DEF Parties
  <2>2. Shown(o) = {} BY <1>2 DEF Shown
  <2> QED BY <2>1, <2>2, HeldIs
<1> QED BY <1>1, <1>2

\* Sets with a name each that cover what is not free and share nothing, when
\* those of some names are cut anew.
LEMMA Recut ==
    ASSUME NEW All, NEW H, NEW P, P \subseteq H, NEW F, NEW G, NEW a, NEW b, a \subseteq All,
           UNION {F[h] : h \in H} = All \ a, \A g, h \in H : g # h => F[g] \cap F[h] = {},
           \A h \in H : h \notin P => G[h] = F[h],
           \A g, h \in P : g # h => G[g] \cap G[h] = {},
           (UNION {G[h] : h \in P}) \cup b = (UNION {F[h] : h \in P}) \cup a,
           (UNION {G[h] : h \in P}) \cap b = {}
    PROVE  /\ UNION {G[h] : h \in H} = All \ b
           /\ \A g, h \in H : g # h => G[g] \cap G[h] = {}
<1>1. \A x : (\E h \in H : x \in F[h]) <=> x \in All \ a
  <2>1. \A x : x \in UNION {F[h] : h \in H} <=> \E h \in H : x \in F[h] OBVIOUS
  <2> QED BY <2>1
<1> DEFINE B == UNION {G[h] : h \in P}
           C == UNION {F[h] : h \in P}
<1>a. \A x : x \in C <=> \E h \in P : x \in F[h] OBVIOUS
<1>b. \A x : x \in B <=> \E h \in P : x \in G[h] OBVIOUS
<1>c. B \cup b = C \cup a OBVIOUS
<1>f. B \cap b = {} OBVIOUS
<1> HIDE DEF B, C
<1>d. \A x : x \in B \/ x \in b <=> x \in C \/ x \in a BY <1>c
<1>2. \A x : (\E h \in P : x \in G[h]) \/ x \in b <=> (\E h \in P : x \in F[h]) \/ x \in a
  BY <1>a, <1>b, <1>d
<1>e. \A x : x \in B => x \notin b BY <1>f
<1>3. \A x : (\E h \in P : x \in G[h]) => x \notin b BY <1>b, <1>e
<1>4. \A g, h \in H : g # h => \A x : ~(x \in F[g] /\ x \in F[h]) OBVIOUS
<1>5. ASSUME NEW g \in H, NEW h \in H, g # h, NEW x, x \in G[g], x \in G[h] PROVE FALSE
  <2>1. CASE g \in P /\ h \in P
    <3>1. G[g] \cap G[h] = {} BY <1>5, <2>1
    <3> QED BY <1>5, <3>1
  <2>0. ASSUME NEW r \in P, NEW k \in H, k \notin P, x \in G[r], x \in G[k] PROVE FALSE
    <3>1. x \in F[k] BY <2>0
    <3>2. x \notin a BY <1>1, <3>1
    <3>3. PICK j \in P : x \in F[j] BY <1>2, <2>0, <3>2
    <3>4. j # k /\ j \in H BY <2>0
    <3> QED BY <1>4, <3>1, <3>3, <3>4
  <2>2. CASE g \in P /\ h \notin P BY <1>5, <2>0, <2>2
  <2>3. CASE g \notin P /\ h \in P BY <1>5, <2>0, <2>3
  <2>4. CASE g \notin P /\ h \notin P BY <1>4, <1>5, <2>4
  <2> QED BY <2>1, <2>2, <2>3, <2>4
<1>6. \A x : (\E h \in H : x \in G[h]) <=> x \in All \ b
  <2>1. ASSUME NEW x, NEW h \in H, x \in G[h] PROVE x \in All \ b
    <3>1. CASE h \in P BY <1>1, <1>2, <1>3, <2>1, <3>1
    <3>2. CASE h \notin P BY <1>1, <1>2, <1>4, <2>1, <3>2
    <3> QED BY <3>1, <3>2
  <2>2. ASSUME NEW x \in All \ b PROVE \E h \in H : x \in G[h]
    <3>1. CASE \E h \in P : x \in G[h] BY <3>1
    <3>2. CASE ~ \E h \in P : x \in G[h]
      <4>1. (~ \E h \in P : x \in F[h]) /\ x \notin a BY <1>2, <2>2, <3>2
      <4>2. PICK h \in H : x \in F[h] BY <1>1, <2>2, <4>1
      <4>3. h \notin P BY <4>1, <4>2
      <4> QED BY <4>2, <4>3
    <3> QED BY <3>1, <3>2
  <2> QED BY <2>1, <2>2
<1>7. UNION {G[h] : h \in H} = All \ b
  <2>1. \A x : x \in UNION {G[h] : h \in H} <=> \E h \in H : x \in G[h] OBVIOUS
  <2> QED BY <1>6, <2>1
<1>8. ASSUME NEW g \in H, NEW h \in H, g # h PROVE G[g] \cap G[h] = {} BY <1>5, <1>8
<1> QED BY <1>7, <1>8

\* A step that hands frames to and fro among the parties.
LEMMA PartitionMoves ==
    ASSUME SpaceInv, NEW p \in Owner, NEW o,
           \A q \in Owner \ {p} : tables'[q] = tables[q] /\ PrivateFrames(q)' = PrivateFrames(q),
           \A b \in (1..BufferMax) \ {o} : objects'[b].frames = objects[b].frames,
           heap_frames' \cup Range(tables[p])' \cup PrivateFrames(p)' \cup Shown(o)' \cup available'
             = heap_frames \cup Range(tables[p]) \cup PrivateFrames(p) \cup Shown(o) \cup available,
           Apart(heap_frames, Range(tables[p]), PrivateFrames(p), Shown(o), available)'
    PROVE  Partition'
<1> DEFINE P == Parties(p, o)
           F == [h \in Holder |-> Held(h)]
           G == [h \in Holder |-> Held(h)']
           X == heap_frames' \cup Range(tables[p])' \cup PrivateFrames(p)' \cup Shown(o)'
<1>0. X \cup available' = heap_frames \cup Range(tables[p]) \cup PrivateFrames(p) \cup Shown(o) \cup available
  OBVIOUS
<1>1. P \subseteq Holder BY HolderIs DEF Parties
<1>2. UNION {F[h] : h \in Holder} = Frame \ available BY DEF SpaceInv, Partition
<1>3. \A g, h \in Holder : g # h => F[g] \cap F[h] = {} BY DEF SpaceInv, Partition
<1>4. \A h \in Holder : h \notin P => G[h] = F[h] BY OthersHold
<1>5. /\ G[<<"heap", 0>>] = heap_frames' /\ G[<<"tables", p>>] = Range(tables[p])'
      /\ G[<<"private", p>>] = PrivateFrames(p)'
      /\ o \in 1..BufferMax => G[<<"object", o>>] = Shown(o)'
  <2>1. "heap" # "tables" /\ "heap" # "private" /\ "heap" # "object" /\ "tables" # "private"
        /\ "tables" # "object" /\ "private" # "object" OBVIOUS
  <2>2. G[<<"heap", 0>>] = heap_frames' BY HolderIs DEF Held
  <2>3. G[<<"tables", p>>] = Range(tables[p])' BY HolderIs, <2>1 DEF Held
  <2>4. G[<<"private", p>>] = PrivateFrames(p)' BY HolderIs, <2>1 DEF Held
  <2>5. o \in 1..BufferMax => G[<<"object", o>>] = Shown(o)' BY HolderIs, <2>1 DEF Held, Shown
  <2> QED BY <2>2, <2>3, <2>4, <2>5
<1>6. /\ UNION {G[h] : h \in P} = X
      /\ \A g, h \in P : g # h => G[g] \cap G[h] = {}
  <2>1. CASE o \in 1..BufferMax
    <3>1. P = {<<"heap", 0>>, <<"tables", p>>, <<"private", p>>, <<"object", o>>}
      BY <2>1 DEF Parties
    <3> HIDE DEF G, P
    <3> QED BY <1>5, <2>1, <3>1 DEF Apart
  <2>2. CASE o \notin 1..BufferMax
    <3>1. P = {<<"heap", 0>>, <<"tables", p>>, <<"private", p>>}
      BY <2>2 DEF Parties
    <3>2. Shown(o)' = {} BY <2>2 DEF Shown
    <3> HIDE DEF G, P
    <3> QED BY <1>5, <3>1, <3>2 DEF Apart
  <2> QED BY <2>1, <2>2
<1>7. UNION {F[h] : h \in P} = UNION {Held(h) : h \in P} BY <1>1
<1>8. UNION {F[h] : h \in P} = heap_frames \cup Range(tables[p]) \cup PrivateFrames(p) \cup Shown(o)
  BY <1>7, PartiesHave
<1>9. X \cap available' = {} BY DEF Apart
<1> HIDE DEF X
<1>10. available \subseteq Frame BY DEF SpaceInv, SpaceTypes
<1> HIDE DEF F, G, P
<1>11. /\ UNION {G[h] : h \in Holder} = Frame \ available'
       /\ \A g, h \in Holder : g # h => G[g] \cap G[h] = {}
  <2> DEFINE C == UNION {F[h] : h \in P}
             B == UNION {G[h] : h \in P}
  <2>1. C = heap_frames \cup Range(tables[p]) \cup PrivateFrames(p) \cup Shown(o) BY <1>8
  <2>2. B = X BY <1>6
  <2> HIDE DEF B, C
  <2>3. B \cup available' = C \cup available BY <1>0, <2>1, <2>2
  <2>4. B \cap available' = {} BY <1>9, <2>2
  <2>5. (UNION {G[h] : h \in P}) \cup available' = (UNION {F[h] : h \in P}) \cup available
    BY <2>3 DEF B, C
  <2>6. (UNION {G[h] : h \in P}) \cap available' = {} BY <2>4 DEF B
  <2>7. \A g, h \in P : g # h => G[g] \cap G[h] = {} BY <1>6
  <2> HIDE DEF X
  <2> QED BY <1>1, <1>2, <1>3, <1>4, <1>10, <2>5, <2>6, <2>7, Recut
<1>12. \A h \in Holder : G[h] = Held(h)' BY DEF G
<1>13. UNION {G[h] : h \in Holder} = UNION {Held(h)' : h \in Holder} BY <1>12
<1>14. \A g, h \in Holder : g # h => Held(g)' \cap Held(h)' = {} BY <1>11, <1>12
<1>15. UNION {Held(h)' : h \in Holder} = Frame \ available' BY <1>11, <1>13
<1> QED BY <1>14, <1>15 DEF Partition

\* A process whose tables and records stay is as it was.
LEMMA Elsewhere ==
    ASSUME SpaceInv, NEW q \in Owner, tables'[q] = tables[q], pages'[q] = pages[q],
           image'[q] = image[q], areas'[q] = areas[q], views'[q] = views[q],
           image[q] # <<>> \/ handles'[q] = handles[q],
           \A s \in 1..ViewMax : views[q][s] # NoView =>
               objects'[views[q][s].object].frames = objects[views[q][s].object].frames
    PROVE  Proper(q)' /\ PrivateFrames(q)' = PrivateFrames(q)
<1>0. Proper(q) BY DEF SpaceInv
<1>1. AreaPages(q)' = AreaPages(q) BY DEF AreaPages
<1>2. Occupied(q)' = Occupied(q) BY DEF Occupied
<1>3. PrivatePages(q)' = PrivatePages(q) BY <1>1 DEF PrivatePages
<1>4. PrivateFrames(q)' = PrivateFrames(q) BY <1>3 DEF PrivateFrames
<1>5. NoOverlap(q)' = NoOverlap(q) BY <1>2 DEF NoOverlap
<1>6. Exists(q)' = Exists(q) BY DEF Exists
<1>7. \A s \in 1..ViewMax : \A i \in 1..views'[q][s].count :
         pages'[q][views'[q][s].base + i - 1] = objects'[views'[q][s].object].frames[i]
  <2> SUFFICES ASSUME NEW s \in 1..ViewMax, NEW i \in 1..views[q][s].count
               PROVE  pages[q][views[q][s].base + i - 1] = objects'[views[q][s].object].frames[i]
    OBVIOUS
  <2>1. views[q][s] # NoView BY DEF NoView
  <2>2. pages[q][views[q][s].base + i - 1] = objects[views[q][s].object].frames[i]
    BY <1>0 DEF Proper, Agrees
  <2> QED BY <2>1, <2>2
<1>8. Agrees(q)'
  BY <1>0, <1>2, <1>5, <1>6, <1>7 DEF Proper, Agrees
<1>9. RecordsTrue(q)'
  <2>1. HasAreas(q)' = HasAreas(q) /\ HasViews(q)' = HasViews(q) BY DEF HasAreas, HasViews
  <2>2. image[q] = <<>> => HasHandles(q)' = HasHandles(q) BY DEF HasHandles
  <2> QED BY <1>0, <1>6, <2>1, <2>2 DEF Proper, RecordsTrue
<1>10. /\ IsInjective(tables[q])'
       /\ \A u, v \in PrivatePages(q)' : pages'[q][u] = pages'[q][v] => u = v
  BY <1>0, <1>3 DEF Proper
<1> QED BY <1>4, <1>8, <1>9, <1>10 DEF Proper

\* A step of p about buffer o: it is enough to look at those two.
LEMMA OneMoves ==
    ASSUME SpaceInv, SpaceTypes', NEW p \in Owner, NEW o,
           \A q \in Owner \ {p} : /\ tables'[q] = tables[q] /\ pages'[q] = pages[q]
                                  /\ image'[q] = image[q] /\ areas'[q] = areas[q]
                                  /\ views'[q] = views[q] /\ handles'[q] = handles[q],
           \A b \in (1..BufferMax) \ {o} : objects'[b].frames = objects[b].frames,
           \/ objects'[o].frames = objects[o].frames
           \/ \A q \in Owner \ {p} : \A s \in 1..ViewMax : views[q][s].object # o,
           heap_frames' \cup Range(tables[p])' \cup PrivateFrames(p)' \cup Shown(o)' \cup available'
             = heap_frames \cup Range(tables[p]) \cup PrivateFrames(p) \cup Shown(o) \cup available,
           Apart(heap_frames, Range(tables[p]), PrivateFrames(p), Shown(o), available)',
           Proper(p)',
           \A b \in 1..BufferMax : BufferTrue(b)',
           exiting' # None => image'[exiting'] # <<>>
    PROVE  SpaceInv'
<1>1. ASSUME NEW q \in Owner, q # p PROVE Proper(q)' /\ PrivateFrames(q)' = PrivateFrames(q)
  <2>1. ASSUME NEW s \in 1..ViewMax, views[q][s] # NoView
        PROVE  objects'[views[q][s].object].frames = objects[views[q][s].object].frames
    <3>1. views[q][s].object \in 1..BufferMax
      BY <2>1 DEF SpaceInv, Proper, RecordsTrue
    <3> QED BY <1>1, <3>1
  <2> QED BY <1>1, <2>1, Elsewhere
<1>2. Partition' BY <1>1, PartitionMoves
<1>3. \A q \in Owner : Proper(q)' BY <1>1
<1> QED BY <1>2, <1>3 DEF SpaceInv

----------------------------------------------------------------------------
(* What the actions are made of                                            *)

\* A run of pages.
LEMMA RunIs ==
    ASSUME NEW base \in Nat, NEW count \in Nat, base + count <= StackPage
    PROVE  /\ Run(base, count) \in Seq(UserPage) /\ Len(Run(base, count)) = count
           /\ Range(Run(base, count)) = base..(base + count - 1) /\ IsInjective(Run(base, count))
           /\ \A i \in 1..count : Run(base, count)[i] = base + i - 1
<1>0. StackPage \in Nat BY SpaceAssumption
<1>1. \A i \in 1..count : base + i - 1 \in 0..StackPage BY <1>0
<1>2. Run(base, count) \in [1..count -> UserPage] BY <1>1 DEF Run, UserPage
<1>3. Run(base, count) \in Seq(UserPage) /\ Len(Run(base, count)) = count BY <1>2
<1>4. \A i \in 1..count : Run(base, count)[i] = base + i - 1 BY DEF Run
<1>5. Range(Run(base, count)) = base..(base + count - 1)
  <2>1. \A x \in base..(base + count - 1) : x - base + 1 \in 1..count /\ base + (x - base + 1) - 1 = x
    OBVIOUS
  <2>2. \A i \in 1..count : base + i - 1 \in base..(base + count - 1) OBVIOUS
  <2>3. Range(Run(base, count)) = {base + i - 1 : i \in 1..count} BY DEF Run, Range
  <2> QED BY <2>1, <2>2, <2>3
<1>6. IsInjective(Run(base, count)) BY DEF Run, IsInjective
<1> QED BY <1>3, <1>4, <1>5, <1>6

\* A range that is found lies in the arena, away from the areas and the views.
LEMMA RangeFound ==
    ASSUME NEW p, NEW count \in Nat, NEW base, find_virtual_range(p, count, base)
    PROVE  /\ base \in Nat /\ base + count <= ArenaPages /\ base + count <= StackPage
           /\ (base..(base + count - 1)) \cap Occupied(p) = {}
<1> DEFINE fits == {b \in 0..(ArenaPages - count) :
                      Span([base |-> b, count |-> count]) \cap Occupied(p) = {}}
<1>1. fits # {} /\ base = Least(fits) BY DEF find_virtual_range
<1>2. fits \in SUBSET Nat BY SpaceAssumption
<1>3. base \in fits BY <1>1, <1>2, LeastOf
<1>4. base \in 0..(ArenaPages - count) /\ Span([base |-> base, count |-> count]) \cap Occupied(p) = {}
  BY <1>3
<1>5. base \in Nat /\ base + count <= ArenaPages /\ base + count <= StackPage
  BY <1>4, SpaceAssumption
<1>6. Span([base |-> base, count |-> count]) = base..(base + count - 1) BY DEF Span
<1> QED BY <1>4, <1>5, <1>6

\* The heap grows by free frames.
LEMMA HeapGrows ==
    ASSUME NEW k \in KmallocOutcomes
    PROVE  k.free \subseteq available /\ k.heap = heap_frames \cup (available \ k.free)
<1> DEFINE Grown(n) == {f \in available : Cardinality({g \in available : g <= f}) > n}
<1>1. \E n \in 0..2 : k = [free |-> Grown(n), heap |-> heap_frames \cup (available \ Grown(n))]
  BY DEF KmallocOutcomes
<1>2. \A n : Grown(n) \subseteq available OBVIOUS
<1> HIDE DEF Grown
<1>3. PICK n \in 0..2 : k = [free |-> Grown(n), heap |-> heap_frames \cup (available \ Grown(n))]
  BY <1>1
<1> QED BY <1>2, <1>3

\* What a call starts from, with the frames that the heap left.
LEMMA GivenIs ==
    ASSUME SpaceInv, NEW p \in Owner, Exists(p), NEW free \in SUBSET available
    PROVE  LET st == [Given(p) EXCEPT !.available = free]
           IN  /\ st \in Call /\ Fresh(st) /\ Closed(st) /\ Accounts(st, free \cup Range(tables[p]))
               /\ st.available = free /\ st.tables = tables[p] /\ st.pages = pages[p]
<1> DEFINE st == [Given(p) EXCEPT !.available = free]
<1>1. tables[p] \in Tables /\ pages[p] \in PageMaps /\ free \subseteq Frame
  BY DEF SpaceInv, SpaceTypes
<1>2. Given(p) = [available |-> available, tables |-> tables[p], pages |-> pages[p],
                  created |-> {}, taken |-> {}, done |-> 0, ok |-> TRUE]
  BY DEF Given
<1>a. available \subseteq Frame BY DEF SpaceInv, SpaceTypes
<1>b. Given(p) \in Call /\ Given(p).tables = tables[p] /\ Given(p).pages = pages[p]
      /\ Given(p).created = {} /\ Given(p).taken = {} /\ Given(p).done = 0 /\ Given(p).ok
  BY <1>1, <1>2, <1>a DEF Call
<1>3. /\ st \in Call /\ st.available = free /\ st.tables = tables[p] /\ st.pages = pages[p]
      /\ st.taken = {} /\ st.done = 0 /\ st.ok
  BY <1>1, <1>b DEF Call
<1> HIDE DEF st
<1>4. Fresh(st) BY <1>3 DEF Fresh
<1>5. Closed(st) BY <1>3 DEF SpaceInv, Proper, Agrees, Closed
<1>6. IsInjective(tables[p]) BY DEF SpaceInv, Proper
<1>7. available \cap Range(tables[p]) = {} BY PartiesApart DEF Apart
<1>8. Accounts(st, free \cup Range(tables[p])) BY <1>3, <1>6, <1>7 DEF Accounts
<1> QED BY <1>3, <1>4, <1>5, <1>8 DEF st

\* The same with all of the free frames.
LEMMA GivenAll ==
    ASSUME SpaceInv, NEW p \in Owner, Exists(p)
    PROVE  LET st == Given(p)
           IN  /\ st \in Call /\ Fresh(st) /\ Closed(st)
               /\ Accounts(st, available \cup Range(tables[p]))
               /\ st.available = available /\ st.tables = tables[p] /\ st.pages = pages[p]
<1> DEFINE st == Given(p)
<1>1. tables[p] \in Tables /\ pages[p] \in PageMaps /\ available \subseteq Frame
  BY DEF SpaceInv, SpaceTypes
<1>2. st = [available |-> available, tables |-> tables[p], pages |-> pages[p],
            created |-> {}, taken |-> {}, done |-> 0, ok |-> TRUE]
  BY DEF Given
<1>3. /\ st \in Call /\ st.available = available /\ st.tables = tables[p] /\ st.pages = pages[p]
      /\ st.taken = {} /\ st.done = 0 /\ st.ok
  BY <1>1, <1>2 DEF Call
<1> HIDE DEF st
<1>4. Fresh(st) BY <1>3 DEF Fresh
<1>5. Closed(st) BY <1>3 DEF SpaceInv, Proper, Agrees, Closed
<1>6. IsInjective(tables[p]) BY DEF SpaceInv, Proper
<1>7. available \cap Range(tables[p]) = {} BY PartiesApart DEF Apart
<1>8. Accounts(st, available \cup Range(tables[p])) BY <1>3, <1>6, <1>7 DEF Accounts
<1> QED BY <1>3, <1>4, <1>5, <1>8 DEF st

\* One more handle or one less counts as one.
LEMMA HandlesCount ==
    ASSUME SpaceTypes, NEW p \in Owner, NEW h \in 1..HeldMax, NEW y,
           handles' = [handles EXCEPT ![p][h] = y], NEW o \in 1..BufferMax
    PROVE  /\ Cardinality(HandlesOf(o)) \in Nat
           /\ handles[p][h] = o /\ y # o =>
                Cardinality(HandlesOf(o))' = Cardinality(HandlesOf(o)) - 1
           /\ handles[p][h] # o /\ y = o =>
                Cardinality(HandlesOf(o))' = Cardinality(HandlesOf(o)) + 1
           /\ handles[p][h] # o /\ y # o => Cardinality(HandlesOf(o))' = Cardinality(HandlesOf(o))
<1> DEFINE u == <<p, h>>
           S == HandlesOf(o)
<1>0. HeldMax \in Int /\ 1 \in Int BY SpaceAssumption
<1>1. IsFiniteSet(1..HeldMax) BY <1>0, FS_Interval
<1>2. IsFiniteSet(Owner) BY SpaceAssumption
<1>3. IsFiniteSet(Owner \X (1..HeldMax)) BY <1>1, <1>2, FS_Product
<1>4. S \subseteq Owner \X (1..HeldMax) BY DEF HandlesOf
<1>5. IsFiniteSet(S) BY <1>3, <1>4, FS_Subset
<1>6. u \in S <=> handles[p][h] = o BY DEF HandlesOf
<1>7. ASSUME NEW x \in Owner \X (1..HeldMax)
      PROVE  handles'[x[1]][x[2]] = IF x = u THEN y ELSE handles[x[1]][x[2]]
  <2>1. PICK q \in Owner, i \in 1..HeldMax : x = <<q, i>> BY <1>7
  <2>2. DOMAIN handles = Owner /\ DOMAIN handles[p] = 1..HeldMax BY DEF SpaceTypes
  <2>3. handles'[q][i] = IF q = p /\ i = h THEN y ELSE handles[q][i] BY <2>2
  <2> QED BY <2>1, <2>3
<1>8. S' = IF y = o THEN S \cup {u} ELSE S \ {u}
  BY <1>7 DEF HandlesOf
<1>9. Cardinality(S) \in Nat BY <1>5, FS_CardinalityType
<1> HIDE DEF S, u
<1>10. /\ Cardinality(S \cup {u}) = IF u \in S THEN Cardinality(S) ELSE Cardinality(S) + 1
       /\ Cardinality(S \ {u}) = IF u \in S THEN Cardinality(S) - 1 ELSE Cardinality(S)
  BY <1>5, FS_AddElement, FS_RemoveElement
<1>11. Cardinality(S') = Cardinality(HandlesOf(o))' BY DEF S
<1> QED BY <1>6, <1>8, <1>9, <1>10, <1>11 DEF S

\* A view is counted as a handle is.
LEMMA ViewsCount ==
    ASSUME SpaceTypes, NEW p \in Owner, NEW s \in 1..ViewMax, NEW y,
           views' = [views EXCEPT ![p][s] = y], NEW o \in 1..BufferMax
    PROVE  /\ Cardinality(ViewsOf(o)) \in Nat
           /\ views[p][s].object = o /\ y.object # o =>
                Cardinality(ViewsOf(o))' = Cardinality(ViewsOf(o)) - 1
           /\ views[p][s].object # o /\ y.object = o =>
                Cardinality(ViewsOf(o))' = Cardinality(ViewsOf(o)) + 1
           /\ views[p][s].object # o /\ y.object # o =>
                Cardinality(ViewsOf(o))' = Cardinality(ViewsOf(o))
<1> DEFINE u == <<p, s>>
           S == ViewsOf(o)
<1>0. ViewMax \in Int /\ 1 \in Int BY SpaceAssumption
<1>1. IsFiniteSet(1..ViewMax) BY <1>0, FS_Interval
<1>2. IsFiniteSet(Owner) BY SpaceAssumption
<1>3. IsFiniteSet(Owner \X (1..ViewMax)) BY <1>1, <1>2, FS_Product
<1>4. S \subseteq Owner \X (1..ViewMax) BY DEF ViewsOf
<1>5. IsFiniteSet(S) BY <1>3, <1>4, FS_Subset
<1>6. u \in S <=> views[p][s].object = o BY DEF ViewsOf
<1>7. ASSUME NEW x \in Owner \X (1..ViewMax)
      PROVE  views'[x[1]][x[2]] = IF x = u THEN y ELSE views[x[1]][x[2]]
  <2>1. PICK q \in Owner, i \in 1..ViewMax : x = <<q, i>> BY <1>7
  <2>2. DOMAIN views = Owner /\ DOMAIN views[p] = 1..ViewMax BY DEF SpaceTypes
  <2>3. views'[q][i] = IF q = p /\ i = s THEN y ELSE views[q][i] BY <2>2
  <2> QED BY <2>1, <2>3
<1>8. S' = IF y.object = o THEN S \cup {u} ELSE S \ {u}
  BY <1>7 DEF ViewsOf
<1>9. Cardinality(S) \in Nat BY <1>5, FS_CardinalityType
<1> HIDE DEF S, u
<1>10. /\ Cardinality(S \cup {u}) = IF u \in S THEN Cardinality(S) ELSE Cardinality(S) + 1
       /\ Cardinality(S \ {u}) = IF u \in S THEN Cardinality(S) - 1 ELSE Cardinality(S)
  BY <1>5, FS_AddElement, FS_RemoveElement
<1>11. Cardinality(S') = Cardinality(ViewsOf(o))' BY DEF S
<1> QED BY <1>6, <1>8, <1>9, <1>10, <1>11 DEF S

\* What a buffer is counted to have it has at least.
LEMMA InUse ==
    ASSUME SpaceInv, NEW p \in Owner, NEW o \in 1..BufferMax
    PROVE  /\ \A h \in 1..HeldMax : handles[p][h] = o => Cardinality(HandlesOf(o)) > 0
           /\ \A s \in 1..ViewMax : views[p][s].object = o => Cardinality(ViewsOf(o)) > 0
           /\ Cardinality(HandlesOf(o)) \in Nat /\ Cardinality(ViewsOf(o)) \in Nat
<1>1. IsFiniteSet(1..ViewMax) /\ IsFiniteSet(1..HeldMax) BY FS_Interval, SpaceAssumption
<1>2. IsFiniteSet(Owner) BY SpaceAssumption
<1>3. IsFiniteSet(Owner \X (1..ViewMax)) /\ IsFiniteSet(Owner \X (1..HeldMax))
  BY <1>1, <1>2, FS_Product
<1>4. ViewsOf(o) \subseteq Owner \X (1..ViewMax) /\ HandlesOf(o) \subseteq Owner \X (1..HeldMax)
  BY DEF ViewsOf, HandlesOf
<1>5. IsFiniteSet(ViewsOf(o)) /\ IsFiniteSet(HandlesOf(o)) BY <1>3, <1>4, FS_Subset
<1>6. Cardinality(HandlesOf(o)) \in Nat /\ Cardinality(ViewsOf(o)) \in Nat
  BY <1>5, FS_CardinalityType
<1>7. /\ HandlesOf(o) # {} => Cardinality(HandlesOf(o)) > 0
      /\ ViewsOf(o) # {} => Cardinality(ViewsOf(o)) > 0
  BY <1>5, <1>6, FS_EmptySet
<1>8. \A h \in 1..HeldMax : handles[p][h] = o => <<p, h>> \in HandlesOf(o) BY DEF HandlesOf
<1>9. \A s \in 1..ViewMax : views[p][s].object = o => <<p, s>> \in ViewsOf(o) BY DEF ViewsOf
<1> QED BY <1>6, <1>7, <1>8, <1>9

----------------------------------------------------------------------------
(* The steps that map nothing                                              *)

\* A process that has anything has a program, and a slot names a buffer in use.
LEMMA HandleIs ==
    ASSUME SpaceInv, NEW p \in Owner, NEW h \in 1..HeldMax, handles[p][h] # None
    PROVE  /\ handles[p][h] \in 1..BufferMax /\ image[p] # <<>>
           /\ objects[handles[p][h]].refs \in Nat \ {0}
<1>0. handles \in [Owner -> [1..HeldMax -> 0..BufferMax]] BY DEF SpaceInv, SpaceTypes
<1>1. handles[p][h] \in 0..BufferMax BY <1>0
<1>2. handles[p][h] \in 1..BufferMax BY <1>1, SpaceAssumption DEF None
<1>3. image[p] # <<>> BY DEF SpaceInv, Proper, RecordsTrue, HasHandles
<1> SUFFICES ASSUME NEW o \in 1..BufferMax, o = handles[p][h] PROVE objects[o].refs \in Nat \ {0}
  BY <1>2, <1>3
<1>4. objects[o].refs = Cardinality(HandlesOf(o)) + Cardinality(ViewsOf(o))
  BY DEF SpaceInv, BufferTrue
<1> QED BY <1>4, InUse

\* A handle is given to another process.
LEMMA InstallKeeps ==
    ASSUME SpaceInv, NEW p \in Owner, NEW o \in 1..BufferMax, user_buffer_commit_install(p, o)
    PROVE  SpaceInv'
<1>1. PICK h \in 1..HeldMax :
         handles[p][h] = None /\ handles' = [handles EXCEPT ![p][h] = o]
  BY DEF user_buffer_commit_install, FirstUnused
<1>2. /\ objects' = [objects EXCEPT ![o].refs = @ + 1] /\ objects[o] # NoBuffer /\ image[p] # <<>>
      /\ UNCHANGED <<available, heap_frames, tables, pages, image, areas, views, exiting>>
  BY DEF user_buffer_commit_install, MayCall
<1>3. SpaceTypes BY DEF SpaceInv
<1>4. /\ \A b \in 1..BufferMax : objects'[b].frames = objects[b].frames
      /\ \A b \in (1..BufferMax) \ {o} : objects'[b] = objects[b]
      /\ objects'[o].refs = objects[o].refs + 1 /\ objects[o].refs \in Nat
  BY <1>2, <1>3 DEF SpaceTypes
<1>5. SpaceTypes'
  <2>1. handles' \in [Owner -> [1..HeldMax -> 0..BufferMax]] BY <1>1, <1>3 DEF SpaceTypes
  <2>2. objects' \in [1..BufferMax -> [frames : Seq(Frame), refs : Nat]]
    <3>1. objects \in [1..BufferMax -> [frames : Seq(Frame), refs : Nat]]
      BY <1>3 DEF SpaceTypes
    <3>2. objects[o].refs + 1 \in Nat BY <1>4
    <3> QED BY <1>2, <3>1, <3>2
  <2> QED BY <1>2, <1>3, <2>1, <2>2 DEF SpaceTypes
<1>6. ASSUME NEW b \in 1..BufferMax PROVE BufferTrue(b)'
  <2>1. BufferTrue(b) BY DEF SpaceInv
  <2>2. Cardinality(ViewsOf(b))' = Cardinality(ViewsOf(b)) BY <1>2 DEF ViewsOf
  <2>3. /\ Cardinality(HandlesOf(b)) \in Nat /\ Cardinality(ViewsOf(b)) \in Nat BY InUse
  <2>4. 0 # b BY <1>6
  <2>5. CASE b = o
    <3>1. Cardinality(HandlesOf(b))' = Cardinality(HandlesOf(b)) + 1
      BY <1>1, <1>3, <2>4, <2>5, HandlesCount DEF None
    <3>2. objects[b].refs > 0 BY <1>2, <1>4, <2>1, <2>5 DEF BufferTrue
    <3> QED BY <1>4, <2>1, <2>2, <2>3, <2>5, <3>1, <3>2 DEF BufferTrue
  <2>6. CASE b # o
    <3>1. Cardinality(HandlesOf(b))' = Cardinality(HandlesOf(b))
      BY <1>1, <1>3, <2>4, <2>6, HandlesCount, ZenonT(60) DEF None
    <3> QED BY <1>4, <2>1, <2>2, <2>6, <3>1 DEF BufferTrue
  <2> QED BY <2>5, <2>6
<1>7. \A q \in Owner \ {p} : handles'[q] = handles[q] BY <1>1, <1>3 DEF SpaceTypes
<1>8. ASSUME NEW s \in 1..ViewMax, views[p][s] # NoView
      PROVE  objects'[views[p][s].object].frames = objects[views[p][s].object].frames
  BY <1>4, <1>8 DEF SpaceInv, Proper, RecordsTrue
<1>9. Proper(p)' /\ PrivateFrames(p)' = PrivateFrames(p) BY <1>2, <1>8, Elsewhere
<1>10. Shown(o)' = Shown(o) BY <1>4 DEF Shown
<1>11. Apart(heap_frames, Range(tables[p]), PrivateFrames(p), Shown(o), available) BY PartiesApart
<1>12. /\ heap_frames' = heap_frames /\ Range(tables[p])' = Range(tables[p])
       /\ available' = available
  BY <1>2
<1>13. Apart(heap_frames, Range(tables[p]), PrivateFrames(p), Shown(o), available)'
  BY <1>9, <1>10, <1>11, <1>12 DEF Apart
<1>14. exiting' # None => image'[exiting'] # <<>> BY <1>2 DEF SpaceInv
<1> QED BY <1>2, <1>4, <1>5, <1>6, <1>7, <1>9, <1>10, <1>12, <1>13, <1>14, OneMoves

\* What Unref does to a buffer that is used.
LEMMA UnrefIs ==
    ASSUME SpaceInv, NEW o \in 1..BufferMax, objects[o].refs \in Nat \ {0}, objects' = Unref(o)
    PROVE  /\ objects' \in [1..BufferMax -> [frames : Seq(Frame), refs : Nat]]
           /\ \A b \in (1..BufferMax) \ {o} : objects'[b] = objects[b]
           /\ objects'[o].refs = objects[o].refs - 1
           /\ objects[o].refs # 1 => objects'[o].frames = objects[o].frames /\ Released(o) = {}
           /\ objects[o].refs = 1 => objects'[o] = NoBuffer /\ Released(o) = Range(objects[o].frames)
           /\ IsInjective(objects'[o].frames)
           /\ Shown(o)' \cup Released(o) = Shown(o) /\ Shown(o)' \cap Released(o) = {}
<1>1. objects \in [1..BufferMax -> [frames : Seq(Frame), refs : Nat]]
  BY DEF SpaceInv, SpaceTypes
<1>2. IsInjective(objects[o].frames) BY DEF SpaceInv, BufferTrue
<1>3. CASE objects[o].refs = 1
  <2>1. objects' = [objects EXCEPT ![o] = NoBuffer] BY <1>3 DEF Unref
  <2>2. NoBuffer \in [frames : Seq(Frame), refs : Nat] /\ NoBuffer.refs = 0
        /\ NoBuffer.frames = <<>>
    BY DEF NoBuffer
  <2>3. Range(<<>>) = {} /\ IsInjective(<<>>) BY DEF Range, IsInjective
  <2>4. objects'[o] = NoBuffer BY <1>1, <2>1
  <2>5. Shown(o)' = {} BY <2>2, <2>3, <2>4 DEF Shown
  <2>6. Shown(o) = Range(objects[o].frames) BY DEF Shown
  <2>7. Released(o) = Range(objects[o].frames) BY <1>3 DEF Released
  <2>8. IsInjective(objects'[o].frames) BY <2>2, <2>3, <2>4
  <2>9. objects' \in [1..BufferMax -> [frames : Seq(Frame), refs : Nat]]
    BY <1>1, <2>1, <2>2
  <2>10. \A b \in (1..BufferMax) \ {o} : objects'[b] = objects[b] BY <1>1, <2>1
  <2> HIDE DEF NoBuffer
  <2> QED BY <1>3, <2>2, <2>4, <2>5, <2>6, <2>7, <2>8, <2>9, <2>10
<1>4. CASE objects[o].refs # 1
  <2>1. objects' = [objects EXCEPT ![o].refs = @ - 1] BY <1>4 DEF Unref
  <2>2. objects[o].refs - 1 \in Nat OBVIOUS
  <2>3. /\ objects' \in [1..BufferMax -> [frames : Seq(Frame), refs : Nat]]
        /\ objects'[o].refs = objects[o].refs - 1 /\ objects'[o].frames = objects[o].frames
        /\ \A b \in (1..BufferMax) \ {o} : objects'[b] = objects[b]
    BY <1>1, <2>1, <2>2
  <2>4. Released(o) = {} BY <1>4 DEF Released
  <2>5. Shown(o)' = Shown(o) BY <2>3 DEF Shown
  <2> QED BY <1>2, <1>4, <2>3, <2>4, <2>5
<1> QED BY <1>3, <1>4

\* A handle is closed; the last use of a buffer frees its frames.
LEMMA CloseKeeps ==
    ASSUME SpaceInv, NEW p \in Owner, NEW h \in 1..HeldMax, user_buffer_close(p, h)
    PROVE  SpaceInv'
<1> SUFFICES ASSUME NEW o, o = handles[p][h] PROVE SpaceInv' OBVIOUS
<1>1. /\ handles[p][h] # None
      /\ available' = available \cup Released(o) /\ objects' = Unref(o)
      /\ handles' = [handles EXCEPT ![p][h] = None]
      /\ UNCHANGED <<heap_frames, tables, pages, image, areas, views, exiting>>
  BY DEF user_buffer_close
<1>2. o \in 1..BufferMax /\ image[p] # <<>> /\ objects[o].refs \in Nat \ {0} BY <1>1, HandleIs
<1>3. SpaceTypes BY DEF SpaceInv
<1>4. /\ objects' \in [1..BufferMax -> [frames : Seq(Frame), refs : Nat]]
      /\ \A b \in (1..BufferMax) \ {o} : objects'[b] = objects[b]
      /\ objects'[o].refs = objects[o].refs - 1
      /\ objects[o].refs # 1 => objects'[o].frames = objects[o].frames /\ Released(o) = {}
      /\ objects[o].refs = 1 => objects'[o] = NoBuffer /\ Released(o) = Range(objects[o].frames)
      /\ IsInjective(objects'[o].frames)
      /\ Shown(o)' \cup Released(o) = Shown(o) /\ Shown(o)' \cap Released(o) = {}
  BY <1>1, <1>2, UnrefIs
<1>5. Apart(heap_frames, Range(tables[p]), PrivateFrames(p), Shown(o), available) BY PartiesApart
<1>6. SpaceTypes'
  <2>1. None \in 0..BufferMax BY SpaceAssumption DEF None
  <2>2. handles' \in [Owner -> [1..HeldMax -> 0..BufferMax]] BY <1>1, <1>3, <2>1 DEF SpaceTypes
  <2>3. Released(o) \subseteq Frame
    <3>1. objects[o].frames \in Seq(Frame) BY <1>2, <1>3 DEF SpaceTypes
    <3>2. Range(objects[o].frames) \subseteq Frame BY <3>1 DEF Range
    <3> QED BY <1>4, <3>2
  <2> QED BY <1>1, <1>3, <1>4, <2>2, <2>3 DEF SpaceTypes
<1>7. ASSUME NEW b \in 1..BufferMax PROVE BufferTrue(b)'
  <2>1. BufferTrue(b) BY DEF SpaceInv
  <2>2. Cardinality(ViewsOf(b))' = Cardinality(ViewsOf(b)) BY <1>1 DEF ViewsOf
  <2>3. /\ Cardinality(HandlesOf(b)) \in Nat /\ Cardinality(ViewsOf(b)) \in Nat BY InUse
  <2>4. None # b BY <1>7 DEF None
  <2>5. CASE b = o
    <3>1. Cardinality(HandlesOf(b))' = Cardinality(HandlesOf(b)) - 1
      BY <1>1, <1>3, <2>4, <2>5, HandlesCount
    <3>2. objects'[b].refs = Cardinality(HandlesOf(b))' + Cardinality(ViewsOf(b))'
      BY <1>4, <2>1, <2>2, <2>3, <2>5, <3>1 DEF BufferTrue
    <3>3. objects'[b].refs = 0 => objects'[b] = NoBuffer BY <1>2, <1>4, <2>5
    <3>4. objects'[b].refs > 0 => Len(objects'[b].frames) > 0
      BY <1>2, <1>4, <2>1, <2>5 DEF BufferTrue
    <3> QED BY <1>4, <2>5, <3>2, <3>3, <3>4 DEF BufferTrue
  <2>6. CASE b # o
    <3>1. Cardinality(HandlesOf(b))' = Cardinality(HandlesOf(b))
      BY <1>1, <1>3, <2>4, <2>6, HandlesCount
    <3> QED BY <1>4, <2>1, <2>2, <2>6, <3>1 DEF BufferTrue
  <2> QED BY <2>5, <2>6
<1>8. \A q \in Owner \ {p} : handles'[q] = handles[q] BY <1>1, <1>3 DEF SpaceTypes
<1>9. objects[o].refs = 1 => \A q \in Owner : \A s \in 1..ViewMax : views[q][s].object # o
  <2> SUFFICES ASSUME objects[o].refs = 1, NEW q \in Owner, NEW s \in 1..ViewMax,
                      views[q][s].object = o
               PROVE  FALSE
    OBVIOUS
  <2>1. Cardinality(ViewsOf(o)) > 0 BY <1>2, InUse
  <2>2. Cardinality(HandlesOf(o)) > 0 BY <1>2, InUse
  <2>3. Cardinality(HandlesOf(o)) \in Nat /\ Cardinality(ViewsOf(o)) \in Nat BY <1>2, InUse
  <2>4. objects[o].refs = Cardinality(HandlesOf(o)) + Cardinality(ViewsOf(o))
    BY <1>2 DEF SpaceInv, BufferTrue
  <2> QED BY <2>1, <2>2, <2>3, <2>4
<1>10. ASSUME NEW s \in 1..ViewMax, views[p][s] # NoView
      PROVE  objects'[views[p][s].object].frames = objects[views[p][s].object].frames
  <2>1. views[p][s].object \in 1..BufferMax BY <1>10 DEF SpaceInv, Proper, RecordsTrue
  <2> QED BY <1>4, <1>9, <2>1
<1>11. Proper(p)' /\ PrivateFrames(p)' = PrivateFrames(p) BY <1>1, <1>2, <1>10, Elsewhere
<1>12. /\ heap_frames' = heap_frames /\ Range(tables[p])' = Range(tables[p])
       /\ available' = available \cup Released(o)
  BY <1>1
<1>13. Apart(heap_frames, Range(tables[p]), PrivateFrames(p), Shown(o), available)'
  BY <1>4, <1>5, <1>11, <1>12 DEF Apart
<1>14. heap_frames' \cup Range(tables[p])' \cup PrivateFrames(p)' \cup Shown(o)' \cup available'
         = heap_frames \cup Range(tables[p]) \cup PrivateFrames(p) \cup Shown(o) \cup available
  BY <1>4, <1>11, <1>12
<1>15. exiting' # None => image'[exiting'] # <<>> BY <1>1 DEF SpaceInv
<1>16. \/ objects'[o].frames = objects[o].frames
       \/ \A q \in Owner \ {p} : \A s \in 1..ViewMax : views[q][s].object # o
  BY <1>4, <1>9
<1>17. \A q \in Owner \ {p} : /\ tables'[q] = tables[q] /\ pages'[q] = pages[q]
                               /\ image'[q] = image[q] /\ areas'[q] = areas[q]
                               /\ views'[q] = views[q] /\ handles'[q] = handles[q]
  BY <1>1, <1>8
<1>18. \A b \in (1..BufferMax) \ {o} : objects'[b].frames = objects[b].frames BY <1>4
<1> QED BY <1>6, <1>7, <1>11, <1>13, <1>14, <1>15, <1>16, <1>17, <1>18, OneMoves

\* A buffer is made of new frames, or there are not enough of them.
LEMMA CreateKeeps ==
    ASSUME SpaceInv, NEW p \in Owner, NEW count \in Nat \ {0}, user_buffer_create(p, count)
    PROVE  SpaceInv'
<1>1. PICK o \in 1..BufferMax, h \in 1..HeldMax, k \in KmallocOutcomes :
        /\ objects[o] = NoBuffer /\ handles[p][h] = None
        /\ heap_frames' = k.heap
        /\ LET got == TakeFrames(k.free, count)
           IN  IF Len(got.frames) < count
                 THEN available' = k.free /\ UNCHANGED <<objects, handles>>
                 ELSE /\ available' = got.left
                      /\ objects' = [objects EXCEPT ![o] = [frames |-> got.frames, refs |-> 1]]
                      /\ handles' = [handles EXCEPT ![p][h] = o]
  BY DEF user_buffer_create, FirstUnused
<1>2. image[p] # <<>> /\ UNCHANGED <<tables, pages, image, areas, views, exiting>>
  BY DEF user_buffer_create, MayCall
<1> DEFINE got == TakeFrames(k.free, count)
<1>3. k.free \subseteq available /\ k.heap = heap_frames \cup (available \ k.free) BY HeapGrows
<1>4. SpaceTypes BY DEF SpaceInv
<1>5. k.free \in SUBSET Frame BY <1>3, <1>4 DEF SpaceTypes
<1>6. /\ got.left \subseteq k.free /\ got.frames \in Seq(Frame) /\ IsInjective(got.frames)
      /\ Range(got.frames) = k.free \ got.left /\ Len(got.frames) <= count
  BY <1>5, TakeFramesIs
<1>7. Apart(heap_frames, Range(tables[p]), PrivateFrames(p), Shown(o), available) BY PartiesApart
<1>8. IF Len(got.frames) < count
        THEN available' = k.free /\ UNCHANGED <<objects, handles>>
        ELSE /\ available' = got.left
             /\ objects' = [objects EXCEPT ![o] = [frames |-> got.frames, refs |-> 1]]
             /\ handles' = [handles EXCEPT ![p][h] = o]
  BY <1>1
<1> HIDE DEF got
<1>9. heap_frames' \subseteq Frame BY <1>1, <1>3, <1>4 DEF SpaceTypes
<1>10. exiting' # None => image'[exiting'] # <<>> BY <1>2 DEF SpaceInv
<1>11. CASE Len(got.frames) < count
  <2>1. available' = k.free /\ UNCHANGED <<objects, handles>> BY <1>8, <1>11
  <2>2. SpaceTypes' BY <1>2, <1>4, <1>5, <1>9, <2>1 DEF SpaceTypes
  <2>3. Proper(p)' /\ PrivateFrames(p)' = PrivateFrames(p) BY <1>2, <2>1, Elsewhere
  <2>4. Shown(o)' = Shown(o) BY <2>1 DEF Shown
  <2>5. Range(tables[p])' = Range(tables[p]) BY <1>2
  <2>6. heap_frames' = heap_frames \cup (available \ k.free) BY <1>1, <1>3
  <2>7. Apart(heap_frames, Range(tables[p]), PrivateFrames(p), Shown(o), available)'
    BY <1>3, <1>7, <2>1, <2>3, <2>4, <2>5, <2>6 DEF Apart
  <2>8. heap_frames' \cup Range(tables[p])' \cup PrivateFrames(p)' \cup Shown(o)' \cup available'
         = heap_frames \cup Range(tables[p]) \cup PrivateFrames(p) \cup Shown(o) \cup available
    BY <1>3, <2>1, <2>3, <2>4, <2>5, <2>6
  <2>9. \A b \in 1..BufferMax : BufferTrue(b)'
    BY <1>2, <2>1 DEF SpaceInv, BufferTrue, HandlesOf, ViewsOf
  <2> QED BY <1>2, <1>10, <2>1, <2>2, <2>3, <2>7, <2>8, <2>9, OneMoves
<1>12. CASE ~(Len(got.frames) < count)
  <2>1. /\ available' = got.left
        /\ objects' = [objects EXCEPT ![o] = [frames |-> got.frames, refs |-> 1]]
        /\ handles' = [handles EXCEPT ![p][h] = o]
    BY <1>8, <1>12
  <2>2. /\ objects' \in [1..BufferMax -> [frames : Seq(Frame), refs : Nat]]
        /\ objects'[o] = [frames |-> got.frames, refs |-> 1]
        /\ \A b \in (1..BufferMax) \ {o} : objects'[b] = objects[b]
    <3>1. objects \in [1..BufferMax -> [frames : Seq(Frame), refs : Nat]]
      BY <1>4 DEF SpaceTypes
    <3>2. [frames |-> got.frames, refs |-> 1] \in [frames : Seq(Frame), refs : Nat] BY <1>6
    <3> QED BY <2>1, <3>1, <3>2
  <2>3. handles' \in [Owner -> [1..HeldMax -> 0..BufferMax]]
    BY <1>4, <2>1 DEF SpaceTypes
  <2>4. SpaceTypes' BY <1>2, <1>4, <1>5, <1>6, <1>9, <2>1, <2>2, <2>3 DEF SpaceTypes
  <2>5. /\ \A q \in Owner, s \in 1..ViewMax : views[q][s].object # o
        /\ Cardinality(HandlesOf(o)) = 0 /\ Cardinality(ViewsOf(o)) = 0
    <3>1. objects[o].refs = 0 BY <1>1 DEF NoBuffer
    <3>2. objects[o].refs = Cardinality(HandlesOf(o)) + Cardinality(ViewsOf(o))
      BY DEF SpaceInv, BufferTrue
    <3>3. Cardinality(HandlesOf(o)) \in Nat /\ Cardinality(ViewsOf(o)) \in Nat BY InUse
    <3>4. Cardinality(HandlesOf(o)) = 0 /\ Cardinality(ViewsOf(o)) = 0 BY <3>1, <3>2, <3>3
    <3> QED BY <3>4, InUse
  <2>6. ASSUME NEW b \in 1..BufferMax PROVE BufferTrue(b)'
    <3>1. BufferTrue(b) BY DEF SpaceInv
    <3>2. Cardinality(ViewsOf(b))' = Cardinality(ViewsOf(b)) BY <1>2 DEF ViewsOf
    <3>3. None # b BY <2>6 DEF None
    <3>4. CASE b = o
      <4>1. Cardinality(HandlesOf(b))' = Cardinality(HandlesOf(b)) + 1
        BY <1>1, <1>4, <2>1, <3>3, <3>4, HandlesCount, ZenonT(60)
      <4> QED BY <1>6, <1>12, <2>2, <2>5, <3>2, <3>4, <4>1 DEF BufferTrue
    <3>5. CASE b # o
      <4>1. Cardinality(HandlesOf(b))' = Cardinality(HandlesOf(b))
        <5>1. handles[p][h] # b /\ o # b BY <1>1, <3>3, <3>5
        <5> QED BY <1>4, <2>1, <5>1, HandlesCount
      <4> QED BY <2>2, <3>1, <3>2, <3>5, <4>1 DEF BufferTrue
    <3> QED BY <3>4, <3>5
  <2>7. \A q \in Owner \ {p} : handles'[q] = handles[q] BY <1>4, <2>1 DEF SpaceTypes
  <2>8. ASSUME NEW s \in 1..ViewMax, views[p][s] # NoView
        PROVE  objects'[views[p][s].object].frames = objects[views[p][s].object].frames
    <3>1. views[p][s].object \in 1..BufferMax BY <2>8 DEF SpaceInv, Proper, RecordsTrue
    <3> QED BY <2>2, <2>5, <3>1
  <2>9. Proper(p)' /\ PrivateFrames(p)' = PrivateFrames(p) BY <1>2, <2>8, Elsewhere
  <2>10. Shown(o)' = k.free \ got.left BY <1>6, <2>2 DEF Shown
  <2>11. Shown(o) = {} BY <1>1 DEF Shown, NoBuffer, Range
  <2>12. Range(tables[p])' = Range(tables[p]) BY <1>2
  <2>13. heap_frames' = heap_frames \cup (available \ k.free) BY <1>1, <1>3
  <2>14. Apart(heap_frames, Range(tables[p]), PrivateFrames(p), Shown(o), available)'
    BY <1>3, <1>6, <1>7, <2>1, <2>9, <2>10, <2>12, <2>13 DEF Apart
  <2>15. heap_frames' \cup Range(tables[p])' \cup PrivateFrames(p)' \cup Shown(o)' \cup available'
         = heap_frames \cup Range(tables[p]) \cup PrivateFrames(p) \cup Shown(o) \cup available
    BY <1>3, <1>6, <2>1, <2>9, <2>10, <2>11, <2>12, <2>13
  <2> QED BY <1>2, <1>10, <2>2, <2>4, <2>5, <2>6, <2>7, <2>9, <2>14, <2>15, OneMoves
<1> QED BY <1>11, <1>12

----------------------------------------------------------------------------
(* Areas                                                                   *)

\* A call that mapped nothing after all may still have other tables.
LEMMA TablesMove ==
    ASSUME SpaceInv, NEW p \in Owner, Exists(p), pages'[p] = pages[p],
           UNCHANGED <<image, areas, views, handles, objects>>,
           IsInjective(tables'[p]), DOMAIN tables'[p] = TablesFor(DOMAIN pages[p])
    PROVE  Proper(p)' /\ PrivateFrames(p)' = PrivateFrames(p)
<1>0. Proper(p) BY DEF SpaceInv
<1>1. AreaPages(p)' = AreaPages(p) BY DEF AreaPages
<1>2. Occupied(p)' = Occupied(p) BY DEF Occupied
<1>3. PrivatePages(p)' = PrivatePages(p) BY <1>1 DEF PrivatePages
<1>4. PrivateFrames(p)' = PrivateFrames(p) BY <1>3 DEF PrivateFrames
<1>5. NoOverlap(p)' = NoOverlap(p) BY <1>2 DEF NoOverlap
<1>6. Exists(p)' BY DEF Exists, TablesFor
<1>7. Agrees(p)' BY <1>0, <1>2, <1>5, <1>6 DEF Proper, Agrees
<1>8. RecordsTrue(p)'
  <2>1. HasAreas(p)' = HasAreas(p) /\ HasViews(p)' = HasViews(p) BY DEF HasAreas, HasViews
  <2>2. HasHandles(p)' = HasHandles(p) BY DEF HasHandles
  <2> QED BY <1>0, <1>6, <2>1, <2>2 DEF Proper, RecordsTrue
<1>9. /\ IsInjective(tables[p])'
      /\ \A u, v \in PrivatePages(p)' : pages'[p][u] = pages'[p][v] => u = v
  BY <1>0, <1>3 DEF Proper
<1> QED BY <1>4, <1>7, <1>8, <1>9 DEF Proper

\* One more area, and one less.
LEMMA AreaComes ==
    ASSUME SpaceTypes, NEW p \in Owner, NEW s \in 1..AreaMax, areas[p][s] = NoArea,
           NEW r \in Records, areas' = [areas EXCEPT ![p][s] = r], views' = views
    PROVE  /\ areas' \in [Owner -> [1..AreaMax -> Records]]
           /\ areas'[p][s] = r /\ \A x \in 1..AreaMax : x # s => areas'[p][x] = areas[p][x]
           /\ \A q \in Owner \ {p} : areas'[q] = areas[q]
           /\ AreaPages(p)' = AreaPages(p) \cup Span(r)
           /\ Occupied(p)' = Occupied(p) \cup Span(r)
<1>1. areas \in [Owner -> [1..AreaMax -> Records]] BY DEF SpaceTypes
<1>2. /\ areas' \in [Owner -> [1..AreaMax -> Records]]
      /\ areas'[p][s] = r /\ \A x \in 1..AreaMax : x # s => areas'[p][x] = areas[p][x]
      /\ \A q \in Owner \ {p} : areas'[q] = areas[q]
  BY <1>1
<1>3. Span(NoArea) = {} BY DEF Span, NoArea
<1>4. AreaPages(p)' = AreaPages(p) \cup Span(r)
  <2>1. \A x : x \in AreaPages(p) <=> \E i \in 1..AreaMax : x \in Span(areas[p][i])
    BY DEF AreaPages
  <2>2. \A x : x \in AreaPages(p)' <=> \E i \in 1..AreaMax : x \in Span(areas'[p][i])
    BY DEF AreaPages
  <2>3. \A x : x \in AreaPages(p)' <=> x \in AreaPages(p) \/ x \in Span(r)
    BY <1>2, <1>3, <2>1, <2>2
  <2> QED BY <2>3
<1>5. Occupied(p) = AreaPages(p) \cup (UNION {Span(views[p][i]) : i \in 1..ViewMax})
  BY DEF Occupied, AreaPages
<1>6. Occupied(p)' = AreaPages(p)' \cup (UNION {Span(views[p][i]) : i \in 1..ViewMax})
  BY DEF Occupied, AreaPages
<1>7. Occupied(p)' = Occupied(p) \cup Span(r) BY <1>4, <1>5, <1>6
<1> QED BY <1>2, <1>4, <1>7

\* The area that goes overlapped nothing.
LEMMA AreaGoes ==
    ASSUME SpaceTypes, NEW p \in Owner, NoOverlap(p), NEW s \in 1..AreaMax,
           areas' = [areas EXCEPT ![p][s] = NoArea], views' = views
    PROVE  /\ areas' \in [Owner -> [1..AreaMax -> Records]]
           /\ areas'[p][s] = NoArea
           /\ \A x \in 1..AreaMax : x # s => areas'[p][x] = areas[p][x]
           /\ \A q \in Owner \ {p} : areas'[q] = areas[q]
           /\ AreaPages(p)' = AreaPages(p) \ Span(areas[p][s])
           /\ Occupied(p)' = Occupied(p) \ Span(areas[p][s])
           /\ Span(areas[p][s]) \subseteq AreaPages(p)
           /\ AreaPages(p) \subseteq Occupied(p)
<1>0. areas \in [Owner -> [1..AreaMax -> Records]] /\ NoArea \in Records
  BY DEF SpaceTypes, NoArea, Records
<1>1. /\ areas' \in [Owner -> [1..AreaMax -> Records]]
      /\ areas'[p][s] = NoArea /\ \A x \in 1..AreaMax : x # s => areas'[p][x] = areas[p][x]
      /\ \A q \in Owner \ {p} : areas'[q] = areas[q]
  BY <1>0
<1>2. Span(NoArea) = {} BY DEF Span, NoArea
<1>3. /\ \A i \in 1..AreaMax : i # s => Span(areas[p][i]) \cap Span(areas[p][s]) = {}
      /\ \A i \in 1..ViewMax : Span(areas[p][s]) \cap Span(views[p][i]) = {}
  BY DEF NoOverlap
<1> DEFINE W == UNION {Span(views[p][i]) : i \in 1..ViewMax}
<1>4. \A x : x \in AreaPages(p) <=> \E i \in 1..AreaMax : x \in Span(areas[p][i])
  BY DEF AreaPages
<1>5. \A x : x \in AreaPages(p)' <=> \E i \in 1..AreaMax : x \in Span(areas'[p][i])
  BY DEF AreaPages
<1>6. AreaPages(p)' = AreaPages(p) \ Span(areas[p][s])
  <2>1. \A x : x \in AreaPages(p)' <=> x \in AreaPages(p) /\ x \notin Span(areas[p][s])
    BY <1>1, <1>2, <1>3, <1>4, <1>5
  <2> QED BY <2>1
<1>7. W \cap Span(areas[p][s]) = {}
  <2>1. \A x : x \in W <=> \E i \in 1..ViewMax : x \in Span(views[p][i]) OBVIOUS
  <2> HIDE DEF W
  <2> QED BY <1>3, <2>1
<1>8. Occupied(p) = AreaPages(p) \cup W BY DEF Occupied, AreaPages
<1>9. Occupied(p)' = AreaPages(p)' \cup W BY DEF Occupied, AreaPages
<1> HIDE DEF W
<1>10. Occupied(p)' = Occupied(p) \ Span(areas[p][s]) BY <1>6, <1>7, <1>8, <1>9
<1> QED BY <1>1, <1>4, <1>6, <1>8, <1>10

\* What is kept for p are maps from tables and pages to frames.
LEMMA KeepIs ==
    ASSUME SpaceTypes, NEW p \in Owner, NEW st \in Call, Keep(p, st)
    PROVE  /\ available' = st.available /\ available' \subseteq Frame
           /\ tables'[p] = st.tables /\ pages'[p] = st.pages
           /\ tables' \in [Owner -> Tables] /\ pages' \in [Owner -> PageMaps]
           /\ \A q \in Owner \ {p} : tables'[q] = tables[q] /\ pages'[q] = pages[q]
BY DEF SpaceTypes, Keep, Call

\* The pages of p that are its own are mapped.
LEMMA PrivateMapped ==
    ASSUME SpaceInv, NEW p \in Owner
    PROVE  /\ PrivatePages(p) \subseteq DOMAIN pages[p]
           /\ DOMAIN pages[p] = Occupied(p) \cup Range(image[p])
           /\ DOMAIN pages[p] \subseteq UserPage /\ pages[p] \in [DOMAIN pages[p] -> Frame]
<1>1. DOMAIN pages[p] = Occupied(p) \cup Range(image[p]) BY DEF SpaceInv, Proper, Agrees
<1>2. PrivatePages(p) \subseteq Occupied(p) \cup Range(image[p])
  BY DEF PrivatePages, AreaPages, Occupied
<1>3. pages[p] \in PageMaps BY DEF SpaceInv, SpaceTypes
<1> QED BY <1>1, <1>2, <1>3, MapsAre

\* An area gets its pages, or the frames are given back.
LEMMA AllocateKeeps ==
    ASSUME SpaceInv, NEW p \in Owner, NEW count \in Nat \ {0}, user_memory_allocate(p, count)
    PROVE  SpaceInv'
<1>1. PICK s \in 1..AreaMax, base \in 0..ArenaPages, k \in KmallocOutcomes :
        /\ areas[p][s] = NoArea
        /\ find_virtual_range(p, count, base)
        /\ heap_frames' = k.heap
        /\ LET end == TakePages([Given(p) EXCEPT !.available = k.free], Run(base, count))
           IN  /\ Keep(p, end)
               /\ areas' = IF end.ok
                             THEN [areas EXCEPT ![p][s] = [base |-> base, count |-> count]]
                             ELSE areas
  BY DEF user_memory_allocate, FirstUnused
<1>2. image[p] # <<>> /\ UNCHANGED <<image, views, handles, objects, exiting>>
  BY DEF user_memory_allocate, MayCall
<1> DEFINE st == [Given(p) EXCEPT !.available = k.free]
           vs == Run(base, count)
           end == TakePages(st, vs)
           X == base..(base + count - 1)
           A == k.free \cup Range(tables[p])
           G == {end.pages[v] : v \in Range(vs)}
           r == [base |-> base, count |-> count]
<1>3. k.free \subseteq available /\ k.heap = heap_frames \cup (available \ k.free) BY HeapGrows
<1>4. SpaceTypes /\ Proper(p) /\ Exists(p)
  BY <1>2 DEF SpaceInv, Proper, RecordsTrue
<1>5. /\ st \in Call /\ Fresh(st) /\ Closed(st) /\ Accounts(st, A)
      /\ st.tables = tables[p] /\ st.pages = pages[p]
  BY <1>3, <1>4, GivenIs
<1>6. /\ base \in Nat /\ base + count <= ArenaPages /\ base + count <= StackPage
      /\ X \cap Occupied(p) = {}
  BY <1>1, RangeFound
<1>7. vs \in Seq(UserPage) /\ Range(vs) = X /\ Len(vs) = count BY <1>6, RunIs
<1>8. Keep(p, end) /\ areas' = IF end.ok THEN [areas EXCEPT ![p][s] = r] ELSE areas BY <1>1
<1> HIDE DEF st, vs
<1>9. /\ end \in Call /\ Closed(end)
      /\ ~end.ok => end.pages = st.pages /\ end.taken = {} /\ Accounts(end, A)
      /\ end.ok => /\ DOMAIN end.pages = DOMAIN st.pages \cup Range(vs)
                   /\ Range(vs) \cap DOMAIN st.pages = {} /\ IsInjective(vs)
                   /\ \A u \in DOMAIN st.pages : end.pages[u] = st.pages[u]
                   /\ \A u, v \in Range(vs) : end.pages[u] = end.pages[v] => u = v
                   /\ Accounts([end EXCEPT !.taken = G], A) /\ G \subseteq Frame
  BY <1>5, <1>7, TakePagesIs
<1> HIDE DEF end
<1>10. /\ available' = end.available /\ available' \subseteq Frame
       /\ tables'[p] = end.tables /\ pages'[p] = end.pages
       /\ tables' \in [Owner -> Tables] /\ pages' \in [Owner -> PageMaps]
       /\ \A q \in Owner \ {p} : tables'[q] = tables[q] /\ pages'[q] = pages[q]
  BY <1>4, <1>8, <1>9, KeepIs
<1>11. Apart(heap_frames, Range(tables[p]), PrivateFrames(p), Shown(0), available)
  BY PartiesApart
<1>12. Shown(0) = {} /\ Shown(0)' = {} BY DEF Shown
<1>13. heap_frames' = heap_frames \cup (available \ k.free) BY <1>1, <1>3
<1>14. heap_frames' \subseteq Frame BY <1>3, <1>4, <1>13 DEF SpaceTypes
<1>15. exiting' # None => image'[exiting'] # <<>> BY <1>2 DEF SpaceInv
<1>16. \A b \in 1..BufferMax : BufferTrue(b)'
  BY <1>2 DEF SpaceInv, BufferTrue, HandlesOf, ViewsOf
<1>17. end.ok \in BOOLEAN BY <1>9 DEF Call
<1>18. Range(tables[p])' = Range(end.tables) BY <1>10
<1>19. CASE ~end.ok
  <2>1. areas' = areas /\ pages'[p] = pages[p] BY <1>5, <1>8, <1>9, <1>10, <1>19
  <2>2. IsInjective(tables'[p]) /\ DOMAIN tables'[p] = TablesFor(DOMAIN pages[p])
    BY <1>9, <1>10, <1>19, <2>1 DEF Accounts, Closed
  <2>3. Proper(p)' /\ PrivateFrames(p)' = PrivateFrames(p) BY <1>2, <1>4, <2>1, <2>2, TablesMove
  <2>4. SpaceTypes' BY <1>2, <1>4, <1>10, <1>14, <2>1 DEF SpaceTypes
  <2>5. /\ available' \cup Range(tables[p])' = A /\ available' \cap Range(tables[p])' = {}
    BY <1>9, <1>10, <1>18, <1>19 DEF Accounts
  <2>6. Apart(heap_frames, Range(tables[p]), PrivateFrames(p), Shown(0), available)'
    BY <1>3, <1>11, <1>12, <1>13, <2>3, <2>5 DEF Apart
  <2>7. heap_frames' \cup Range(tables[p])' \cup PrivateFrames(p)' \cup Shown(0)' \cup available'
         = heap_frames \cup Range(tables[p]) \cup PrivateFrames(p) \cup Shown(0) \cup available
    BY <1>3, <1>12, <1>13, <2>3, <2>5
  <2> QED BY <1>2, <1>10, <1>15, <1>16, <2>1, <2>3, <2>4, <2>6, <2>7, OneMoves
<1>20. CASE end.ok
  <2>1. areas' = [areas EXCEPT ![p][s] = r] BY <1>8, <1>20
  <2>2. r \in Records BY <1>6 DEF Records
  <2>3. Span(r) = X BY DEF Span
  <2> HIDE DEF r
  <2>4. /\ areas' \in [Owner -> [1..AreaMax -> Records]]
        /\ areas'[p][s] = r /\ \A x \in 1..AreaMax : x # s => areas'[p][x] = areas[p][x]
        /\ \A q \in Owner \ {p} : areas'[q] = areas[q]
        /\ AreaPages(p)' = AreaPages(p) \cup X
        /\ Occupied(p)' = Occupied(p) \cup X
    <3>1. areas[p][s] = NoArea /\ views' = views BY <1>1, <1>2
    <3> HIDE DEF X
    <3> QED BY <1>4, <2>1, <2>2, <2>3, <3>1, AreaComes, ZenonT(60)
  <2> HIDE DEF X
  <2>5. SpaceTypes' BY <1>2, <1>4, <1>10, <1>14, <2>4 DEF SpaceTypes
  <2>6. /\ DOMAIN pages'[p] = DOMAIN pages[p] \cup X /\ X \cap DOMAIN pages[p] = {}
        /\ \A u \in DOMAIN pages[p] : pages'[p][u] = pages[p][u]
        /\ \A u, v \in X : pages'[p][u] = pages'[p][v] => u = v
        /\ G = {pages'[p][v] : v \in X}
    BY <1>5, <1>7, <1>9, <1>10, <1>20
  <2>7. PrivatePages(p)' = PrivatePages(p) \cup X BY <1>2, <2>4 DEF PrivatePages
  <2>8. PrivateFrames(p)' = PrivateFrames(p) \cup G
    <3>1. \A x : x \in PrivateFrames(p)' <=> \E v \in PrivatePages(p)' : x = pages'[p][v]
      BY DEF PrivateFrames
    <3>2. \A x : x \in PrivateFrames(p) <=> \E v \in PrivatePages(p) : x = pages[p][v]
      BY DEF PrivateFrames
    <3>3. \A x : x \in G <=> \E v \in X : x = pages'[p][v] BY <2>6
    <3>4. \A v \in PrivatePages(p) : pages'[p][v] = pages[p][v] BY <2>6, PrivateMapped
    <3> HIDE DEF G
    <3>5. \A x : x \in PrivateFrames(p)' <=> x \in PrivateFrames(p) \/ x \in G
      BY <2>7, <3>1, <3>2, <3>3, <3>4
    <3> QED BY <3>5
  <2>9. /\ end.available \cup G \cup Range(end.tables) = A
        /\ end.available \cap G = {} /\ end.available \cap Range(end.tables) = {}
        /\ G \cap Range(end.tables) = {} /\ IsInjective(end.tables)
    <3> DEFINE x == [end EXCEPT !.taken = G]
    <3>1. x.available = end.available /\ x.taken = G /\ x.tables = end.tables
      BY <1>9 DEF Call
    <3> HIDE DEF x, G
    <3>2. Accounts(x, A) BY <1>9, <1>20 DEF x, G
    <3> QED BY <3>1, <3>2 DEF Accounts
  <2>10. G \cap PrivateFrames(p) = {} BY <1>3, <1>11, <2>9 DEF Apart
  <2>11. \A u, v \in PrivatePages(p)' : pages'[p][u] = pages'[p][v] => u = v
    <3>1. \A u, v \in PrivatePages(p) : pages'[p][u] = pages'[p][v] => u = v
      BY <1>4, <2>6, PrivateMapped DEF Proper
    <3>2. ASSUME NEW u \in PrivatePages(p), NEW v \in X PROVE pages'[p][u] # pages'[p][v]
      <4>1. pages'[p][u] \in PrivateFrames(p) BY <2>6, PrivateMapped DEF PrivateFrames
      <4>2. pages'[p][v] \in G BY <2>6
      <4> QED BY <2>10, <4>1, <4>2
    <3> QED BY <2>6, <2>7, <3>1, <3>2
  <2>12. NoOverlap(p)'
    <3>1. NoOverlap(p) BY <1>4 DEF Proper, Agrees
    <3>2. X \cap Occupied(p) = {} BY <1>6
    <3>3. Range(image[p]) \cap X = {} BY <2>6, PrivateMapped
    <3>4. ASSUME NEW i \in 1..AreaMax PROVE Span(areas[p][i]) \subseteq Occupied(p) BY DEF Occupied
    <3>5. ASSUME NEW i \in 1..ViewMax PROVE Span(views[p][i]) \subseteq Occupied(p) BY DEF Occupied
    <3>6. ASSUME NEW i \in 1..AreaMax, NEW j \in 1..AreaMax, i # j
          PROVE  Span(areas'[p][i]) \cap Span(areas'[p][j]) = {}
      <4>1. CASE i = s
        <5>1. Span(areas'[p][i]) = X /\ areas'[p][j] = areas[p][j] BY <2>3, <2>4, <3>6, <4>1
        <5> QED BY <3>2, <3>4, <5>1
      <4>2. CASE j = s
        <5>1. Span(areas'[p][j]) = X /\ areas'[p][i] = areas[p][i] BY <2>3, <2>4, <3>6, <4>2
        <5> QED BY <3>2, <3>4, <5>1
      <4>3. CASE i # s /\ j # s BY <2>4, <3>1, <3>6, <4>3 DEF NoOverlap
      <4> QED BY <4>1, <4>2, <4>3
    <3>7. ASSUME NEW i \in 1..AreaMax, NEW j \in 1..ViewMax
          PROVE  Span(areas'[p][i]) \cap Span(views'[p][j]) = {}
      <4>1. CASE i = s
        <5>1. Span(areas'[p][i]) = X /\ views'[p][j] = views[p][j] BY <1>2, <2>3, <2>4, <4>1
        <5> QED BY <3>2, <3>5, <5>1
      <4>2. CASE i # s BY <1>2, <2>4, <3>1, <4>2 DEF NoOverlap
      <4> QED BY <4>1, <4>2
    <3>8. Range(image'[p]) \cap Occupied(p)' = {} BY <1>2, <2>4, <3>1, <3>3 DEF NoOverlap
    <3> QED BY <1>2, <3>1, <3>6, <3>7, <3>8 DEF NoOverlap
  <2>13. \A i \in 1..ViewMax : \A j \in 1..views'[p][i].count :
            pages'[p][views'[p][i].base + j - 1] = objects'[views'[p][i].object].frames[j]
    <3> SUFFICES ASSUME NEW i \in 1..ViewMax, NEW j \in 1..views[p][i].count
                 PROVE  pages'[p][views[p][i].base + j - 1] = objects[views[p][i].object].frames[j]
      BY <1>2
    <3>1. pages[p][views[p][i].base + j - 1] = objects[views[p][i].object].frames[j]
      BY <1>4 DEF Proper, Agrees
    <3>2. views[p][i].base \in Nat /\ views[p][i].count \in Nat
      <4>1. views \in [Owner -> [1..ViewMax -> ViewRecords]] BY <1>4 DEF SpaceTypes
      <4>2. views[p][i] \in ViewRecords BY <4>1
      <4> QED BY <4>2 DEF ViewRecords
    <3>3. views[p][i].base + j - 1 \in Span(views[p][i]) BY <3>2 DEF Span
    <3>4. views[p][i].base + j - 1 \in DOMAIN pages[p] BY <3>3, PrivateMapped DEF Occupied
    <3> QED BY <2>6, <3>1, <3>4
  <2>14. Exists(p)' /\ DOMAIN tables'[p] = TablesFor(DOMAIN pages'[p])
    BY <1>9, <1>10 DEF Closed, Exists, TablesFor
  <2>15. DOMAIN pages'[p] = Occupied(p)' \cup Range(image'[p])
    BY <1>2, <2>4, <2>6, PrivateMapped
  <2>16. Agrees(p)' BY <2>12, <2>13, <2>14, <2>15 DEF Agrees
  <2>17. RecordsTrue(p)'
    <3>1. ASSUME NEW i \in 1..AreaMax, areas'[p][i] # NoArea
          PROVE  areas'[p][i].count > 0 /\ areas'[p][i].base + areas'[p][i].count <= ArenaPages
      <4>1. CASE i = s
        <5>1. areas'[p][i].base = base /\ areas'[p][i].count = count BY <2>4, <4>1 DEF r
        <5> QED BY <1>6, <5>1
      <4>2. CASE i # s BY <1>4, <2>4, <3>1, <4>2 DEF Proper, RecordsTrue
      <4> QED BY <4>1, <4>2
    <3>2. RecordsTrue(p) BY <1>4 DEF Proper
    <3> QED BY <1>2, <2>14, <3>1, <3>2 DEF RecordsTrue
  <2>18. Proper(p)' BY <1>10, <2>9, <2>11, <2>16, <2>17 DEF Proper
  <2>19. Apart(heap_frames, Range(tables[p]), PrivateFrames(p), Shown(0), available)'
    BY <1>3, <1>10, <1>11, <1>12, <1>13, <1>18, <2>8, <2>9 DEF Apart
  <2>20. heap_frames' \cup Range(tables[p])' \cup PrivateFrames(p)' \cup Shown(0)' \cup available'
         = heap_frames \cup Range(tables[p]) \cup PrivateFrames(p) \cup Shown(0) \cup available
    BY <1>3, <1>10, <1>12, <1>13, <1>18, <2>8, <2>9
  <2> QED BY <1>2, <1>10, <1>15, <1>16, <2>4, <2>5, <2>18, <2>19, <2>20, OneMoves
<1> QED BY <1>17, <1>19, <1>20

\* The pages of an area are unmapped and their frames are free.
LEMMA FreeKeeps ==
    ASSUME SpaceInv, NEW p \in Owner, NEW s \in 1..AreaMax, user_memory_free(p, s)
    PROVE  SpaceInv'
<1>1. PICK k \in KmallocOutcomes : heap_frames' = k.heap /\ Keep(p, FreeArea(p, s, k.free))
  BY DEF user_memory_free
<1>2. /\ areas[p][s] # NoArea /\ areas' = [areas EXCEPT ![p][s] = NoArea]
      /\ UNCHANGED <<image, views, handles, objects, exiting>>
  BY DEF user_memory_free
<1>3. SpaceTypes /\ Proper(p) /\ Exists(p) /\ image[p] # <<>> /\ NoOverlap(p)
  BY <1>2 DEF SpaceInv, Proper, RecordsTrue, HasAreas, Agrees
<1> DEFINE st == [Given(p) EXCEPT !.available = k.free]
           base == areas[p][s].base
           count == areas[p][s].count
           vs == Run(base, count)
           X == Span(areas[p][s])
           A == k.free \cup Range(tables[p])
           u == UnmapAll(st, vs)
           F == {pages[p][v] : v \in X}
           end == FreeFrames(u, F)
<1>4. k.free \subseteq available /\ k.heap = heap_frames \cup (available \ k.free) BY HeapGrows
<1>5. /\ st \in Call /\ Fresh(st) /\ Closed(st) /\ Accounts(st, A)
      /\ st.tables = tables[p] /\ st.pages = pages[p]
  BY <1>3, <1>4, GivenIs
<1>6. /\ base \in Nat /\ count \in Nat /\ base + count <= StackPage
  <2>1. areas \in [Owner -> [1..AreaMax -> Records]] BY <1>3 DEF SpaceTypes
  <2>2. areas[p][s] \in Records BY <2>1
  <2>3. base + count <= ArenaPages BY <1>2, <1>3 DEF Proper, RecordsTrue
  <2> QED BY <2>2, <2>3, SpaceAssumption DEF Records
<1>7. X = base..(base + count - 1) BY DEF Span
<1>8. vs \in Seq(UserPage) /\ Range(vs) = X /\ IsInjective(vs) BY <1>6, <1>7, RunIs
<1>9. Keep(p, end) BY <1>1 DEF FreeArea
<1>10. /\ areas' \in [Owner -> [1..AreaMax -> Records]]
       /\ areas'[p][s] = NoArea
       /\ \A x \in 1..AreaMax : x # s => areas'[p][x] = areas[p][x]
       /\ \A q \in Owner \ {p} : areas'[q] = areas[q]
       /\ AreaPages(p)' = AreaPages(p) \ X
       /\ Occupied(p)' = Occupied(p) \ X
       /\ X \subseteq AreaPages(p) /\ AreaPages(p) \subseteq Occupied(p)
  <2>1. views' = views BY <1>2
  <2> QED BY <1>2, <1>3, <2>1, AreaGoes
<1> HIDE DEF st, vs, X, base, count
<1>11. X \subseteq DOMAIN pages[p] /\ X \subseteq PrivatePages(p)
  BY <1>10, PrivateMapped DEF PrivatePages
<1>12. u \in Call /\ Accounts(u, A) /\ Same(st, u) /\ Closed(u) /\ u.pages = Without(st.pages, X)
  BY <1>5, <1>8, <1>11, UnmapAllIs
<1> HIDE DEF u
<1>13. u.taken = {} BY <1>5, <1>12 DEF Same, Fresh
<1>14. F \subseteq PrivateFrames(p) /\ F \subseteq Frame
  BY <1>11, PrivateMapped DEF PrivateFrames
<1> HIDE DEF F
<1>15. /\ end \in Call /\ end.available = u.available \cup F /\ end.tables = u.tables
       /\ end.pages = u.pages
  BY <1>12, <1>14 DEF FreeFrames, Call
<1> HIDE DEF end
<1>16. /\ available' = end.available /\ available' \subseteq Frame
       /\ tables'[p] = end.tables /\ pages'[p] = end.pages
       /\ tables' \in [Owner -> Tables] /\ pages' \in [Owner -> PageMaps]
       /\ \A q \in Owner \ {p} : tables'[q] = tables[q] /\ pages'[q] = pages[q]
  BY <1>3, <1>9, <1>15, KeepIs
<1>17. Apart(heap_frames, Range(tables[p]), PrivateFrames(p), Shown(0), available)
  BY PartiesApart
<1>18. Shown(0) = {} /\ Shown(0)' = {} BY DEF Shown
<1>19. heap_frames' = heap_frames \cup (available \ k.free) BY <1>1, <1>4
<1>20. heap_frames' \subseteq Frame BY <1>3, <1>4, <1>19 DEF SpaceTypes
<1>21. exiting' # None => image'[exiting'] # <<>> BY <1>2 DEF SpaceInv
<1>22. \A b \in 1..BufferMax : BufferTrue(b)'
  BY <1>2 DEF SpaceInv, BufferTrue, HandlesOf, ViewsOf
<1>23. SpaceTypes' BY <1>2, <1>3, <1>10, <1>16, <1>20 DEF SpaceTypes
<1>24. /\ DOMAIN pages'[p] = DOMAIN pages[p] \ X
       /\ \A v \in DOMAIN pages[p] \ X : pages'[p][v] = pages[p][v]
  BY <1>5, <1>12, <1>15, <1>16 DEF Without
<1>25. Range(image[p]) \cap X = {} BY <1>3, <1>10 DEF NoOverlap
<1>26. PrivatePages(p)' = PrivatePages(p) \ X BY <1>2, <1>10, <1>25 DEF PrivatePages
<1>27. \A v \in PrivatePages(p)' : pages'[p][v] = pages[p][v]
  BY <1>24, <1>26, PrivateMapped
<1>28. PrivateFrames(p)' = PrivateFrames(p) \ F
  <2>1. \A x : x \in PrivateFrames(p)' <=> \E v \in PrivatePages(p)' : x = pages'[p][v]
    BY DEF PrivateFrames
  <2>2. \A x : x \in PrivateFrames(p) <=> \E v \in PrivatePages(p) : x = pages[p][v]
    BY DEF PrivateFrames
  <2>3. \A x : x \in F <=> \E v \in X : x = pages[p][v] BY DEF F
  <2>4. \A v, w \in PrivatePages(p) : pages[p][v] = pages[p][w] => v = w BY <1>3 DEF Proper
  <2>5. \A x : x \in PrivateFrames(p)' <=> x \in PrivateFrames(p) /\ x \notin F
    BY <1>11, <1>26, <1>27, <2>1, <2>2, <2>3, <2>4
  <2> QED BY <2>5
<1>29. \A v, w \in PrivatePages(p)' : pages'[p][v] = pages'[p][w] => v = w
  BY <1>3, <1>26, <1>27 DEF Proper
<1>30. NoOverlap(p)'
  <2>1. Span(NoArea) = {} BY DEF Span, NoArea
  <2>2. ASSUME NEW i \in 1..AreaMax
        PROVE  Span(areas'[p][i]) = {} \/ (areas'[p][i] = areas[p][i] /\ i # s)
    <3>1. CASE i = s BY <1>10, <2>1, <3>1
    <3>2. CASE i # s BY <1>10, <3>2
    <3> QED BY <3>1, <3>2
  <2>3. \A i, j \in 1..AreaMax : i # j => Span(areas'[p][i]) \cap Span(areas'[p][j]) = {}
    <3> SUFFICES ASSUME NEW i \in 1..AreaMax, NEW j \in 1..AreaMax, i # j
                 PROVE  Span(areas'[p][i]) \cap Span(areas'[p][j]) = {}
      OBVIOUS
    <3>1. Span(areas[p][i]) \cap Span(areas[p][j]) = {} BY <1>3 DEF NoOverlap
    <3> QED BY <2>2, <3>1
  <2>4. \A i \in 1..AreaMax, j \in 1..ViewMax : Span(areas'[p][i]) \cap Span(views'[p][j]) = {}
    <3> SUFFICES ASSUME NEW i \in 1..AreaMax, NEW j \in 1..ViewMax
                 PROVE  Span(areas'[p][i]) \cap Span(views[p][j]) = {}
      BY <1>2
    <3>1. Span(areas[p][i]) \cap Span(views[p][j]) = {} BY <1>3 DEF NoOverlap
    <3> QED BY <2>2, <3>1
  <2>5. Range(image'[p]) \cap Occupied(p)' = {} BY <1>2, <1>3, <1>10 DEF NoOverlap
  <2> QED BY <1>2, <1>3, <2>3, <2>4, <2>5 DEF NoOverlap
<1>31. \A i \in 1..ViewMax : \A j \in 1..views'[p][i].count :
          pages'[p][views'[p][i].base + j - 1] = objects'[views'[p][i].object].frames[j]
  <2> SUFFICES ASSUME NEW i \in 1..ViewMax, NEW j \in 1..views[p][i].count
               PROVE  pages'[p][views[p][i].base + j - 1] = objects[views[p][i].object].frames[j]
    BY <1>2
  <2>1. pages[p][views[p][i].base + j - 1] = objects[views[p][i].object].frames[j]
    BY <1>3 DEF Proper, Agrees
  <2>2. views[p][i].base \in Nat /\ views[p][i].count \in Nat
    <3>1. views \in [Owner -> [1..ViewMax -> ViewRecords]] BY <1>3 DEF SpaceTypes
    <3>2. views[p][i] \in ViewRecords BY <3>1
    <3> QED BY <3>2 DEF ViewRecords
  <2>3. views[p][i].base + j - 1 \in Span(views[p][i]) BY <2>2 DEF Span
  <2>4. views[p][i].base + j - 1 \in DOMAIN pages[p] BY <2>3, PrivateMapped DEF Occupied
  <2>5. Span(views[p][i]) \cap X = {} BY <1>3 DEF NoOverlap, X
  <2> QED BY <1>24, <2>1, <2>3, <2>4, <2>5
<1>32. Exists(p)' /\ DOMAIN tables'[p] = TablesFor(DOMAIN pages'[p])
  BY <1>12, <1>15, <1>16 DEF Closed, Exists, TablesFor
<1>33. DOMAIN pages'[p] = Occupied(p)' \cup Range(image'[p])
  BY <1>2, <1>10, <1>24, <1>25, PrivateMapped
<1>34. Agrees(p)' BY <1>30, <1>31, <1>32, <1>33 DEF Agrees
<1>35. RecordsTrue(p)'
  <2>1. RecordsTrue(p) BY <1>3 DEF Proper
  <2>2. ASSUME NEW i \in 1..AreaMax, areas'[p][i] # NoArea
        PROVE  areas'[p][i].count > 0 /\ areas'[p][i].base + areas'[p][i].count <= ArenaPages
    <3>1. areas'[p][i] = areas[p][i] BY <1>10, <2>2
    <3> QED BY <2>1, <2>2, <3>1 DEF RecordsTrue
  <2> QED BY <1>2, <1>3, <1>32, <2>1, <2>2 DEF RecordsTrue
<1>36. /\ u.available \cup Range(u.tables) = A /\ u.available \cap Range(u.tables) = {}
       /\ IsInjective(u.tables)
  BY <1>12, <1>13 DEF Accounts
<1>37. Proper(p)' BY <1>15, <1>16, <1>29, <1>34, <1>35, <1>36 DEF Proper
<1>38. Range(tables[p])' = Range(u.tables) BY <1>15, <1>16
<1>39. available' = u.available \cup F BY <1>15, <1>16
<1>40. Apart(heap_frames, Range(tables[p]), PrivateFrames(p), Shown(0), available)'
  BY <1>4, <1>14, <1>17, <1>18, <1>19, <1>28, <1>36, <1>38, <1>39 DEF Apart
<1>41. heap_frames' \cup Range(tables[p])' \cup PrivateFrames(p)' \cup Shown(0)' \cup available'
         = heap_frames \cup Range(tables[p]) \cup PrivateFrames(p) \cup Shown(0) \cup available
  BY <1>4, <1>14, <1>18, <1>19, <1>28, <1>36, <1>38, <1>39
<1> QED BY <1>2, <1>10, <1>16, <1>21, <1>22, <1>23, <1>37, <1>40, <1>41, OneMoves

----------------------------------------------------------------------------
(* Views                                                                   *)

\* One more view, and one less.
LEMMA ViewComes ==
    ASSUME SpaceTypes, NEW p \in Owner, NEW s \in 1..ViewMax, views[p][s] = NoView,
           NEW r \in ViewRecords, views' = [views EXCEPT ![p][s] = r], areas' = areas
    PROVE  /\ views' \in [Owner -> [1..ViewMax -> ViewRecords]]
           /\ views'[p][s] = r /\ \A x \in 1..ViewMax : x # s => views'[p][x] = views[p][x]
           /\ \A q \in Owner \ {p} : views'[q] = views[q]
           /\ Occupied(p)' = Occupied(p) \cup Span(r)
<1>1. views \in [Owner -> [1..ViewMax -> ViewRecords]] BY DEF SpaceTypes
<1>2. /\ views' \in [Owner -> [1..ViewMax -> ViewRecords]]
      /\ views'[p][s] = r /\ \A x \in 1..ViewMax : x # s => views'[p][x] = views[p][x]
      /\ \A q \in Owner \ {p} : views'[q] = views[q]
  BY <1>1
<1>3. Span(NoView) = {} BY DEF Span, NoView
<1> DEFINE W == UNION {Span(views[p][i]) : i \in 1..ViewMax}
<1>4. W' = W \cup Span(r)
  <2>1. \A x : x \in W <=> \E i \in 1..ViewMax : x \in Span(views[p][i]) OBVIOUS
  <2>2. \A x : x \in W' <=> \E i \in 1..ViewMax : x \in Span(views'[p][i]) OBVIOUS
  <2> HIDE DEF W
  <2>3. \A x : x \in W' <=> x \in W \/ x \in Span(r) BY <1>2, <1>3, <2>1, <2>2
  <2> QED BY <2>3
<1>5. Occupied(p) = AreaPages(p) \cup W BY DEF Occupied, AreaPages
<1>6. Occupied(p)' = AreaPages(p)' \cup W' BY DEF Occupied, AreaPages
<1>7. AreaPages(p)' = AreaPages(p) BY DEF AreaPages
<1> HIDE DEF W
<1>8. Occupied(p)' = Occupied(p) \cup Span(r) BY <1>4, <1>5, <1>6, <1>7
<1> QED BY <1>2, <1>8

\* The view that goes overlapped nothing.
LEMMA ViewGoes ==
    ASSUME SpaceTypes, NEW p \in Owner, NoOverlap(p), NEW s \in 1..ViewMax,
           views' = [views EXCEPT ![p][s] = NoView], areas' = areas
    PROVE  /\ views' \in [Owner -> [1..ViewMax -> ViewRecords]]
           /\ views'[p][s] = NoView
           /\ \A x \in 1..ViewMax : x # s => views'[p][x] = views[p][x]
           /\ \A q \in Owner \ {p} : views'[q] = views[q]
           /\ Occupied(p)' = Occupied(p) \ Span(views[p][s])
           /\ Span(views[p][s]) \subseteq Occupied(p)
           /\ AreaPages(p) \cap Span(views[p][s]) = {}
           /\ AreaPages(p)' = AreaPages(p)
<1>0. views \in [Owner -> [1..ViewMax -> ViewRecords]] /\ NoView \in ViewRecords
  BY DEF SpaceTypes, NoView, ViewRecords, None
<1>1. /\ views' \in [Owner -> [1..ViewMax -> ViewRecords]]
      /\ views'[p][s] = NoView /\ \A x \in 1..ViewMax : x # s => views'[p][x] = views[p][x]
      /\ \A q \in Owner \ {p} : views'[q] = views[q]
  BY <1>0
<1>2. Span(NoView) = {} BY DEF Span, NoView
<1>3. /\ \A i \in 1..ViewMax : i # s => Span(views[p][i]) \cap Span(views[p][s]) = {}
      /\ \A i \in 1..AreaMax : Span(areas[p][i]) \cap Span(views[p][s]) = {}
  BY DEF NoOverlap
<1> DEFINE W == UNION {Span(views[p][i]) : i \in 1..ViewMax}
<1>4. \A x : x \in W <=> \E i \in 1..ViewMax : x \in Span(views[p][i]) OBVIOUS
<1>5. \A x : x \in W' <=> \E i \in 1..ViewMax : x \in Span(views'[p][i]) OBVIOUS
<1>6. Occupied(p) = AreaPages(p) \cup W BY DEF Occupied, AreaPages
<1>7. Occupied(p)' = AreaPages(p)' \cup W' BY DEF Occupied, AreaPages
<1>8. AreaPages(p)' = AreaPages(p) BY DEF AreaPages
<1> HIDE DEF W
<1>9. W' = W \ Span(views[p][s])
  <2>1. \A x : x \in W' <=> x \in W /\ x \notin Span(views[p][s])
    BY <1>1, <1>2, <1>3, <1>4, <1>5
  <2> QED BY <2>1
<1>10. AreaPages(p) \cap Span(views[p][s]) = {}
  <2>1. \A x : x \in AreaPages(p) <=> \E i \in 1..AreaMax : x \in Span(areas[p][i])
    BY DEF AreaPages
  <2> QED BY <1>3, <2>1
<1>11. Span(views[p][s]) \subseteq W BY <1>4
<1> QED BY <1>1, <1>6, <1>7, <1>8, <1>9, <1>10, <1>11

\* A view of p names a buffer that is in use; a buffer with one use that is this
\* view has no other.
LEMMA ViewIs ==
    ASSUME SpaceInv, NEW p \in Owner, NEW s \in 1..ViewMax, views[p][s] # NoView,
           NEW o, o = views[p][s].object
    PROVE  /\ o \in 1..BufferMax /\ image[p] # <<>> /\ objects[o].refs \in Nat \ {0}
           /\ objects[o].refs = 1 =>
                \A q \in Owner, t \in 1..ViewMax : views[q][t].object = o => q = p /\ t = s
<1>1. o \in 1..BufferMax /\ image[p] # <<>>
  BY DEF SpaceInv, Proper, RecordsTrue, HasViews
<1>2. objects[o].refs = Cardinality(HandlesOf(o)) + Cardinality(ViewsOf(o))
  BY <1>1 DEF SpaceInv, BufferTrue
<1>3. /\ Cardinality(HandlesOf(o)) \in Nat /\ Cardinality(ViewsOf(o)) \in Nat
      /\ Cardinality(ViewsOf(o)) > 0
  BY <1>1, InUse
<1>4. objects[o].refs \in Nat \ {0} BY <1>2, <1>3
<1>5. ASSUME objects[o].refs = 1, NEW q \in Owner, NEW t \in 1..ViewMax, views[q][t].object = o
      PROVE  q = p /\ t = s
  <2>1. Cardinality(ViewsOf(o)) = 1 BY <1>2, <1>3, <1>5
  <2>2. IsFiniteSet(ViewsOf(o))
    <3>1. IsFiniteSet(1..ViewMax) BY FS_Interval, SpaceAssumption
    <3>2. IsFiniteSet(Owner) BY SpaceAssumption
    <3>3. IsFiniteSet(Owner \X (1..ViewMax)) BY <3>1, <3>2, FS_Product
    <3>4. ViewsOf(o) \subseteq Owner \X (1..ViewMax) BY DEF ViewsOf
    <3> QED BY <3>3, <3>4, FS_Subset
  <2>3. PICK x : ViewsOf(o) = {x} BY <2>1, <2>2, FS_Singleton
  <2>4. <<p, s>> \in ViewsOf(o) /\ <<q, t>> \in ViewsOf(o) BY <1>5 DEF ViewsOf
  <2> QED BY <2>3, <2>4
<1> QED BY <1>1, <1>4, <1>5

\* The pages of a view are unmapped; the last use of a buffer frees its frames.
LEMMA UnmapKeeps ==
    ASSUME SpaceInv, NEW p \in Owner, NEW s \in 1..ViewMax, user_buffer_unmap(p, s)
    PROVE  SpaceInv'
<1> SUFFICES ASSUME NEW o, o = views[p][s].object PROVE SpaceInv' OBVIOUS
<1> DEFINE st == Given(p)
           base == views[p][s].base
           count == views[p][s].count
           vs == Run(base, count)
           X == Span(views[p][s])
           A == available \cup Range(tables[p])
           u == UnmapAll(st, vs)
           end == FreeFrames(u, Released(o))
<1>1. Keep(p, end) /\ objects' = Unref(o) BY DEF user_buffer_unmap
<1>2. /\ views[p][s] # NoView /\ views' = [views EXCEPT ![p][s] = NoView]
      /\ UNCHANGED <<heap_frames, image, areas, handles, exiting>>
  BY DEF user_buffer_unmap
<1>3. SpaceTypes /\ Proper(p) /\ Exists(p) /\ image[p] # <<>> /\ NoOverlap(p)
  BY <1>2 DEF SpaceInv, Proper, RecordsTrue, HasViews, Agrees
<1>4. /\ o \in 1..BufferMax /\ objects[o].refs \in Nat \ {0}
      /\ objects[o].refs = 1 =>
           \A q \in Owner, t \in 1..ViewMax : views[q][t].object = o => q = p /\ t = s
  BY <1>2, ViewIs
<1>5. /\ st \in Call /\ Fresh(st) /\ Closed(st) /\ Accounts(st, A)
      /\ st.tables = tables[p] /\ st.pages = pages[p]
  BY <1>3, GivenAll
<1>6. /\ base \in Nat /\ count \in Nat /\ base + count <= StackPage
  <2>1. views \in [Owner -> [1..ViewMax -> ViewRecords]] BY <1>3 DEF SpaceTypes
  <2>2. views[p][s] \in ViewRecords BY <2>1
  <2>3. base + count <= ArenaPages BY <1>2, <1>3 DEF Proper, RecordsTrue
  <2> QED BY <2>2, <2>3, SpaceAssumption DEF ViewRecords
<1>7. X = base..(base + count - 1) BY DEF Span
<1>8. vs \in Seq(UserPage) /\ Range(vs) = X /\ IsInjective(vs) BY <1>6, <1>7, RunIs
<1>9. /\ objects' \in [1..BufferMax -> [frames : Seq(Frame), refs : Nat]]
      /\ \A b \in (1..BufferMax) \ {o} : objects'[b] = objects[b]
      /\ objects'[o].refs = objects[o].refs - 1
      /\ objects[o].refs # 1 => objects'[o].frames = objects[o].frames /\ Released(o) = {}
      /\ objects[o].refs = 1 => objects'[o] = NoBuffer /\ Released(o) = Range(objects[o].frames)
      /\ IsInjective(objects'[o].frames)
      /\ Shown(o)' \cup Released(o) = Shown(o) /\ Shown(o)' \cap Released(o) = {}
  BY <1>1, <1>4, UnrefIs
<1>10. /\ views' \in [Owner -> [1..ViewMax -> ViewRecords]]
       /\ views'[p][s] = NoView
       /\ \A x \in 1..ViewMax : x # s => views'[p][x] = views[p][x]
       /\ \A q \in Owner \ {p} : views'[q] = views[q]
       /\ Occupied(p)' = Occupied(p) \ X
       /\ X \subseteq Occupied(p)
       /\ AreaPages(p) \cap X = {}
       /\ AreaPages(p)' = AreaPages(p)
  <2>1. areas' = areas BY <1>2
  <2> QED BY <1>2, <1>3, <2>1, ViewGoes
<1> HIDE DEF st, vs, X, base, count
<1>11. X \subseteq DOMAIN pages[p] BY <1>10, PrivateMapped
<1>12. u \in Call /\ Accounts(u, A) /\ Same(st, u) /\ Closed(u) /\ u.pages = Without(st.pages, X)
  BY <1>5, <1>8, <1>11, UnmapAllIs
<1> HIDE DEF u
<1>13. u.taken = {} BY <1>5, <1>12 DEF Same, Fresh
<1>14. Released(o) \subseteq Frame
  <2>1. objects[o].frames \in Seq(Frame) BY <1>3, <1>4 DEF SpaceTypes
  <2>2. Range(objects[o].frames) \subseteq Frame BY <2>1 DEF Range
  <2> QED BY <1>9, <2>2
<1>15. /\ end \in Call /\ end.available = u.available \cup Released(o) /\ end.tables = u.tables
       /\ end.pages = u.pages
  BY <1>12, <1>14 DEF FreeFrames, Call
<1> HIDE DEF end
<1>16. /\ available' = end.available /\ available' \subseteq Frame
       /\ tables'[p] = end.tables /\ pages'[p] = end.pages
       /\ tables' \in [Owner -> Tables] /\ pages' \in [Owner -> PageMaps]
       /\ \A q \in Owner \ {p} : tables'[q] = tables[q] /\ pages'[q] = pages[q]
  BY <1>1, <1>3, <1>15, KeepIs
<1>17. Apart(heap_frames, Range(tables[p]), PrivateFrames(p), Shown(o), available)
  BY PartiesApart
<1>18. exiting' # None => image'[exiting'] # <<>> BY <1>2 DEF SpaceInv
<1>19. ASSUME NEW b \in 1..BufferMax PROVE BufferTrue(b)'
  <2>1. BufferTrue(b) BY DEF SpaceInv
  <2>2. Cardinality(HandlesOf(b))' = Cardinality(HandlesOf(b)) BY <1>2 DEF HandlesOf
  <2>3. /\ Cardinality(HandlesOf(b)) \in Nat /\ Cardinality(ViewsOf(b)) \in Nat BY InUse
  <2>4. NoView.object # b BY <1>19 DEF NoView, None
  <2>5. CASE b = o
    <3>1. Cardinality(ViewsOf(b))' = Cardinality(ViewsOf(b)) - 1
      BY <1>2, <1>3, <2>4, <2>5, ViewsCount
    <3>2. objects'[b].refs = Cardinality(HandlesOf(b))' + Cardinality(ViewsOf(b))'
      <4>1. objects[b].refs = Cardinality(HandlesOf(b)) + Cardinality(ViewsOf(b))
        BY <2>1 DEF BufferTrue
      <4>2. objects'[b].refs = objects[b].refs - 1 BY <1>9, <2>5
      <4> QED BY <2>2, <2>3, <3>1, <4>1, <4>2
    <3>3. objects'[b].refs = 0 => objects'[b] = NoBuffer BY <1>4, <1>9, <2>5
    <3>4. objects'[b].refs > 0 => Len(objects'[b].frames) > 0
      <4>1. objects[b].refs > 0 => Len(objects[b].frames) > 0 BY <2>1 DEF BufferTrue
      <4>2. objects'[b].refs = objects[b].refs - 1 /\ objects[b].refs \in Nat BY <1>4, <1>9, <2>5
      <4>3. objects[b].refs # 1 => objects'[b].frames = objects[b].frames BY <1>9, <2>5
      <4> QED BY <4>1, <4>2, <4>3
    <3> QED BY <1>9, <2>5, <3>2, <3>3, <3>4 DEF BufferTrue
  <2>6. CASE b # o
    <3>1. views[p][s].object # b BY <2>6
    <3>2. Cardinality(ViewsOf(b))' = Cardinality(ViewsOf(b))
      BY <1>2, <1>3, <2>4, <3>1, ViewsCount
    <3> QED BY <1>9, <2>1, <2>2, <2>6, <3>2 DEF BufferTrue
  <2> QED BY <2>5, <2>6
<1>20. SpaceTypes' BY <1>2, <1>3, <1>9, <1>10, <1>16 DEF SpaceTypes
<1>21. /\ DOMAIN pages'[p] = DOMAIN pages[p] \ X
       /\ \A v \in DOMAIN pages[p] \ X : pages'[p][v] = pages[p][v]
  BY <1>5, <1>12, <1>15, <1>16 DEF Without
<1>22. Range(image[p]) \cap X = {} BY <1>3, <1>10 DEF NoOverlap
<1>23. PrivatePages(p)' = PrivatePages(p) /\ PrivatePages(p) \cap X = {}
  BY <1>2, <1>10, <1>22 DEF PrivatePages
<1>24. \A v \in PrivatePages(p) : pages'[p][v] = pages[p][v]
  BY <1>21, <1>23, PrivateMapped
<1>25. PrivateFrames(p)' = PrivateFrames(p) BY <1>23, <1>24 DEF PrivateFrames
<1>26. \A v, w \in PrivatePages(p)' : pages'[p][v] = pages'[p][w] => v = w
  BY <1>3, <1>23, <1>24 DEF Proper
<1>27. NoOverlap(p)'
  <2>1. Span(NoView) = {} BY DEF Span, NoView
  <2>2. ASSUME NEW i \in 1..ViewMax
        PROVE  Span(views'[p][i]) = {} \/ (views'[p][i] = views[p][i] /\ i # s)
    <3>1. CASE i = s BY <1>10, <2>1, <3>1
    <3>2. CASE i # s BY <1>10, <3>2
    <3> QED BY <3>1, <3>2
  <2>3. \A i, j \in 1..ViewMax : i # j => Span(views'[p][i]) \cap Span(views'[p][j]) = {}
    <3> SUFFICES ASSUME NEW i \in 1..ViewMax, NEW j \in 1..ViewMax, i # j
                 PROVE  Span(views'[p][i]) \cap Span(views'[p][j]) = {}
      OBVIOUS
    <3>1. Span(views[p][i]) \cap Span(views[p][j]) = {} BY <1>3 DEF NoOverlap
    <3> QED BY <2>2, <3>1
  <2>4. \A i \in 1..AreaMax, j \in 1..ViewMax : Span(areas'[p][i]) \cap Span(views'[p][j]) = {}
    <3> SUFFICES ASSUME NEW i \in 1..AreaMax, NEW j \in 1..ViewMax
                 PROVE  Span(areas[p][i]) \cap Span(views'[p][j]) = {}
      BY <1>2
    <3>1. Span(areas[p][i]) \cap Span(views[p][j]) = {} BY <1>3 DEF NoOverlap
    <3> QED BY <2>2, <3>1
  <2>5. Range(image'[p]) \cap Occupied(p)' = {} BY <1>2, <1>3, <1>10 DEF NoOverlap
  <2> QED BY <1>2, <1>3, <2>3, <2>4, <2>5 DEF NoOverlap
<1>28. \A i \in 1..ViewMax : \A j \in 1..views'[p][i].count :
          pages'[p][views'[p][i].base + j - 1] = objects'[views'[p][i].object].frames[j]
  <2> SUFFICES ASSUME NEW i \in 1..ViewMax, NEW j \in 1..views'[p][i].count
               PROVE  pages'[p][views'[p][i].base + j - 1] = objects'[views'[p][i].object].frames[j]
    OBVIOUS
  <2>1. i # s
    <3>1. NoView.count = 0 BY DEF NoView
    <3> QED BY <1>10, <3>1
  <2>2. views'[p][i] = views[p][i] BY <1>10, <2>1
  <2>3. pages[p][views[p][i].base + j - 1] = objects[views[p][i].object].frames[j]
    BY <1>3, <2>2 DEF Proper, Agrees
  <2>4. views[p][i].base \in Nat /\ views[p][i].count \in Nat
    <3>1. views \in [Owner -> [1..ViewMax -> ViewRecords]] BY <1>3 DEF SpaceTypes
    <3>2. views[p][i] \in ViewRecords BY <3>1
    <3> QED BY <3>2 DEF ViewRecords
  <2>5. views[p][i].base + j - 1 \in Span(views[p][i]) BY <2>2, <2>4 DEF Span
  <2>6. views[p][i].base + j - 1 \in DOMAIN pages[p] BY <2>5, PrivateMapped DEF Occupied
  <2>7. Span(views[p][i]) \cap X = {} BY <1>3, <2>1 DEF NoOverlap, X
  <2>8. objects'[views[p][i].object].frames = objects[views[p][i].object].frames
    <3>1. views[p][i] # NoView BY <2>2 DEF NoView
    <3>2. views[p][i].object \in 1..BufferMax BY <1>3, <3>1 DEF Proper, RecordsTrue
    <3> QED BY <1>4, <1>9, <2>1, <3>2
  <2> QED BY <1>21, <2>2, <2>3, <2>5, <2>6, <2>7, <2>8
<1>29. Exists(p)' /\ DOMAIN tables'[p] = TablesFor(DOMAIN pages'[p])
  BY <1>12, <1>15, <1>16 DEF Closed, Exists, TablesFor
<1>30. DOMAIN pages'[p] = Occupied(p)' \cup Range(image'[p])
  BY <1>2, <1>10, <1>21, <1>22, PrivateMapped
<1>31. Agrees(p)' BY <1>27, <1>28, <1>29, <1>30 DEF Agrees
<1>32. RecordsTrue(p)'
  <2>1. RecordsTrue(p) BY <1>3 DEF Proper
  <2>2. ASSUME NEW i \in 1..ViewMax, views'[p][i] # NoView
        PROVE  /\ views'[p][i].count > 0 /\ views'[p][i].base + views'[p][i].count <= ArenaPages
               /\ views'[p][i].object \in 1..BufferMax
               /\ views'[p][i].count = Len(objects'[views'[p][i].object].frames)
    <3>1. i # s /\ views'[p][i] = views[p][i] BY <1>10, <2>2
    <3>2. /\ views[p][i].count > 0 /\ views[p][i].base + views[p][i].count <= ArenaPages
          /\ views[p][i].object \in 1..BufferMax
          /\ views[p][i].count = Len(objects[views[p][i].object].frames)
      BY <2>1, <2>2, <3>1 DEF RecordsTrue
    <3>3. objects'[views[p][i].object].frames = objects[views[p][i].object].frames
      BY <1>4, <1>9, <3>1, <3>2
    <3> QED BY <3>1, <3>2, <3>3
  <2> QED BY <1>2, <1>3, <1>29, <2>1, <2>2 DEF RecordsTrue
<1>33. /\ u.available \cup Range(u.tables) = A /\ u.available \cap Range(u.tables) = {}
       /\ IsInjective(u.tables)
  BY <1>12, <1>13 DEF Accounts
<1>34. Proper(p)' BY <1>15, <1>16, <1>26, <1>31, <1>32, <1>33 DEF Proper
<1>35. Range(tables[p])' = Range(u.tables) BY <1>15, <1>16
<1>36. available' = u.available \cup Released(o) BY <1>15, <1>16
<1>37. heap_frames' = heap_frames BY <1>2
<1>38. Apart(heap_frames, Range(tables[p]), PrivateFrames(p), Shown(o), available)'
  <2> DEFINE a == heap_frames
             b == Range(tables[p])
             c == PrivateFrames(p)
             d == Shown(o)
             e == available
             r == Released(o)
  <2>1. /\ a \cap b = {} /\ a \cap c = {} /\ a \cap d = {} /\ a \cap e = {} /\ b \cap c = {}
        /\ b \cap d = {} /\ b \cap e = {} /\ c \cap d = {} /\ c \cap e = {} /\ d \cap e = {}
    BY <1>17 DEF Apart
  <2>2. /\ a' = a /\ b' \cup u.available = e \cup b /\ u.available \cap b' = {}
        /\ c' = c /\ e' = u.available \cup r
    BY <1>25, <1>33, <1>35, <1>36, <1>37
  <2>3. d' \cup r = d /\ d' \cap r = {} BY <1>9
  <2>4. b' \subseteq e \cup b /\ e' \subseteq (e \cup b) \cup r /\ d' \subseteq d BY <2>2, <2>3
  <2>5. b' \cap e' = {}
    <3>1. r \cap (e \cup b) = {} BY <2>1, <2>3
    <3> QED BY <2>2, <3>1
  <2>6. d' \cap e' = {}
    <3>1. d' \cap u.available = {} BY <2>1, <2>2, <2>4
    <3> QED BY <2>2, <2>3, <3>1
  <2>7. a \cap b' = {} /\ a \cap d' = {} /\ a \cap e' = {} BY <2>1, <2>3, <2>4
  <2>8. b' \cap c = {} /\ b' \cap d' = {} /\ c \cap d' = {} /\ c \cap e' = {} BY <2>1, <2>3, <2>4
  <2> HIDE DEF a, b, c, d, e, r
  <2>9. Apart(a, b, c, d, e)' BY <1>17, <2>1, <2>2, <2>5, <2>6, <2>7, <2>8 DEF Apart
  <2> QED BY <2>9 DEF a, b, c, d, e
<1>39. heap_frames' \cup Range(tables[p])' \cup PrivateFrames(p)' \cup Shown(o)' \cup available'
         = heap_frames \cup Range(tables[p]) \cup PrivateFrames(p) \cup Shown(o) \cup available
  BY <1>9, <1>25, <1>33, <1>35, <1>36, <1>37
<1>40. \/ objects'[o].frames = objects[o].frames
       \/ \A q \in Owner \ {p} : \A t \in 1..ViewMax : views[q][t].object # o
  BY <1>4, <1>9
<1>41. \A b \in (1..BufferMax) \ {o} : objects'[b].frames = objects[b].frames BY <1>9
<1> QED BY <1>2, <1>10, <1>16, <1>18, <1>19, <1>20, <1>34, <1>38, <1>39, <1>40, <1>41, OneMoves

\* A view shows the frames of a buffer, or nothing is mapped.
LEMMA MapKeeps ==
    ASSUME SpaceInv, NEW p \in Owner, NEW h \in 1..HeldMax, user_buffer_map(p, h)
    PROVE  SpaceInv'
<1> SUFFICES ASSUME NEW o, o = handles[p][h] PROVE SpaceInv' OBVIOUS
<1> DEFINE count == Len(objects[o].frames)
           fs == objects[o].frames
<1>1. PICK s \in 1..ViewMax, base \in 0..ArenaPages :
        /\ views[p][s] = NoView
        /\ find_virtual_range(p, count, base)
        /\ LET end == MapFrames(Given(p), Run(base, count), fs)
           IN  /\ Keep(p, end)
               /\ IF end.ok
                    THEN /\ views' = [views EXCEPT ![p][s] =
                                        [base |-> base, count |-> count, object |-> o]]
                         /\ objects' = [objects EXCEPT ![o].refs = @ + 1]
                    ELSE UNCHANGED <<views, objects>>
  BY DEF user_buffer_map, FirstUnused
<1>2. /\ image[p] # <<>> /\ handles[p][h] # None
      /\ UNCHANGED <<heap_frames, image, areas, handles, exiting>>
  BY DEF user_buffer_map, MayCall
<1>3. SpaceTypes /\ Proper(p) /\ Exists(p) /\ NoOverlap(p)
  BY <1>2 DEF SpaceInv, Proper, RecordsTrue, Agrees
<1>4. o \in 1..BufferMax /\ objects[o].refs \in Nat \ {0} BY <1>2, HandleIs
<1>5. fs \in Seq(Frame) /\ count \in Nat \ {0} /\ \A i \in 1..count : fs[i] \in Frame
  <2>1. BufferTrue(o) BY <1>4 DEF SpaceInv
  <2>2. objects \in [1..BufferMax -> [frames : Seq(Frame), refs : Nat]] BY <1>3 DEF SpaceTypes
  <2>3. fs \in Seq(Frame) BY <1>4, <2>2
  <2>4. Len(fs) > 0 BY <1>4, <2>1 DEF BufferTrue
  <2> QED BY <2>3, <2>4
<1> DEFINE st == Given(p)
           vs == Run(base, count)
           end == MapFrames(st, vs, fs)
           X == base..(base + count - 1)
           A == available \cup Range(tables[p])
           r == [base |-> base, count |-> count, object |-> o]
<1>6. /\ st \in Call /\ Fresh(st) /\ Closed(st) /\ Accounts(st, A)
      /\ st.tables = tables[p] /\ st.pages = pages[p]
  BY <1>3, GivenAll
<1>7. /\ base \in Nat /\ base + count <= ArenaPages /\ base + count <= StackPage
      /\ X \cap Occupied(p) = {}
  BY <1>1, <1>5, RangeFound
<1>8. /\ vs \in Seq(UserPage) /\ Range(vs) = X /\ Len(vs) = count
      /\ \A i \in 1..count : vs[i] = base + i - 1
  BY <1>5, <1>7, RunIs
<1>9. /\ Keep(p, end)
      /\ end.ok => /\ views' = [views EXCEPT ![p][s] = r]
                   /\ objects' = [objects EXCEPT ![o].refs = @ + 1]
      /\ ~end.ok => UNCHANGED <<views, objects>>
  BY <1>1
<1> HIDE DEF st, vs, fs
<1>10. /\ end \in Call /\ Closed(end) /\ Accounts(end, A) /\ end.taken = {}
       /\ ~end.ok => end.pages = st.pages
       /\ end.ok => /\ DOMAIN end.pages = DOMAIN st.pages \cup Range(vs)
                    /\ Range(vs) \cap DOMAIN st.pages = {} /\ IsInjective(vs)
                    /\ \A u \in DOMAIN st.pages : end.pages[u] = st.pages[u]
                    /\ \A j \in 1..Len(vs) : end.pages[vs[j]] = fs[j]
  <2>1. \A i \in 1..Len(vs) : fs[i] \in Frame BY <1>5, <1>8
  <2>2. /\ st \in Call /\ Accounts(st, A) /\ Closed(st) /\ Fresh(st) /\ vs \in Seq(UserPage)
    BY <1>6, <1>8
  <2> HIDE DEF count, A
  <2> QED BY <2>1, <2>2, MapFramesIs
<1> HIDE DEF end
<1>11. /\ available' = end.available /\ available' \subseteq Frame
       /\ tables'[p] = end.tables /\ pages'[p] = end.pages
       /\ tables' \in [Owner -> Tables] /\ pages' \in [Owner -> PageMaps]
       /\ \A q \in Owner \ {p} : tables'[q] = tables[q] /\ pages'[q] = pages[q]
  BY <1>3, <1>9, <1>10, KeepIs
<1>12. Apart(heap_frames, Range(tables[p]), PrivateFrames(p), Shown(o), available)
  BY PartiesApart
<1>13. exiting' # None => image'[exiting'] # <<>> BY <1>2 DEF SpaceInv
<1>14. end.ok \in BOOLEAN BY <1>10 DEF Call
<1>15. /\ available' \cup Range(tables[p])' = A /\ available' \cap Range(tables[p])' = {}
       /\ IsInjective(tables'[p])
  <2>1. Range(tables[p])' = Range(end.tables) BY <1>11
  <2> QED BY <1>10, <1>11, <2>1 DEF Accounts
<1>16. heap_frames' = heap_frames BY <1>2
<1>17. CASE ~end.ok
  <2>1. UNCHANGED <<image, areas, views, handles, objects>> /\ pages'[p] = pages[p]
    BY <1>2, <1>6, <1>9, <1>10, <1>11, <1>17
  <2>2. DOMAIN tables'[p] = TablesFor(DOMAIN pages[p])
    BY <1>10, <1>11, <2>1 DEF Closed
  <2>3. Proper(p)' /\ PrivateFrames(p)' = PrivateFrames(p)
    BY <1>3, <1>15, <2>1, <2>2, TablesMove
  <2>4. SpaceTypes' BY <1>2, <1>3, <1>11, <2>1 DEF SpaceTypes
  <2>5. Shown(o)' = Shown(o) BY <2>1 DEF Shown
  <2>6. Apart(heap_frames, Range(tables[p]), PrivateFrames(p), Shown(o), available)'
    BY <1>12, <1>15, <1>16, <2>3, <2>5 DEF Apart
  <2>7. heap_frames' \cup Range(tables[p])' \cup PrivateFrames(p)' \cup Shown(o)' \cup available'
         = heap_frames \cup Range(tables[p]) \cup PrivateFrames(p) \cup Shown(o) \cup available
    BY <1>15, <1>16, <2>3, <2>5
  <2>8. \A b \in 1..BufferMax : BufferTrue(b)'
    BY <2>1 DEF SpaceInv, BufferTrue, HandlesOf, ViewsOf
  <2> QED BY <1>11, <1>13, <2>1, <2>3, <2>4, <2>6, <2>7, <2>8, OneMoves
<1>18. CASE end.ok
  <2>1. views' = [views EXCEPT ![p][s] = r] /\ objects' = [objects EXCEPT ![o].refs = @ + 1]
    BY <1>9, <1>18
  <2>2. r \in ViewRecords BY <1>4, <1>5, <1>7 DEF ViewRecords
  <2>3. Span(r) = X BY DEF Span
  <2>4. r.base = base /\ r.count = count /\ r.object = o OBVIOUS
  <2> HIDE DEF r
  <2>5. /\ views' \in [Owner -> [1..ViewMax -> ViewRecords]]
        /\ views'[p][s] = r /\ \A x \in 1..ViewMax : x # s => views'[p][x] = views[p][x]
        /\ \A q \in Owner \ {p} : views'[q] = views[q]
        /\ Occupied(p)' = Occupied(p) \cup X
    <3>1. views[p][s] = NoView /\ areas' = areas BY <1>1, <1>2
    <3> HIDE DEF X
    <3> QED BY <1>3, <2>1, <2>2, <2>3, <3>1, ViewComes, ZenonT(60)
  <2>6. /\ objects' \in [1..BufferMax -> [frames : Seq(Frame), refs : Nat]]
        /\ objects'[o].refs = objects[o].refs + 1
        /\ \A b \in 1..BufferMax : objects'[b].frames = objects[b].frames
        /\ \A b \in (1..BufferMax) \ {o} : objects'[b] = objects[b]
    <3>1. objects \in [1..BufferMax -> [frames : Seq(Frame), refs : Nat]]
      BY <1>3 DEF SpaceTypes
    <3>2. objects[o].refs + 1 \in Nat BY <1>4
    <3> QED BY <1>4, <2>1, <3>1, <3>2
  <2>7. SpaceTypes' BY <1>2, <1>3, <1>11, <2>5, <2>6 DEF SpaceTypes
  <2>8. ASSUME NEW b \in 1..BufferMax PROVE BufferTrue(b)'
    <3>1. BufferTrue(b) BY DEF SpaceInv
    <3>2. Cardinality(HandlesOf(b))' = Cardinality(HandlesOf(b)) BY <1>2 DEF HandlesOf
    <3>3. /\ Cardinality(HandlesOf(b)) \in Nat /\ Cardinality(ViewsOf(b)) \in Nat BY InUse
    <3>4. views[p][s].object # b BY <1>1, <2>8 DEF NoView, None
    <3>5. CASE b = o
      <4>1. Cardinality(ViewsOf(b))' = Cardinality(ViewsOf(b)) + 1
        BY <1>3, <2>1, <2>4, <3>4, <3>5, ViewsCount
      <4>2. objects[b].refs > 0 BY <1>4, <3>5
      <4>3. objects'[b].refs = Cardinality(HandlesOf(b))' + Cardinality(ViewsOf(b))'
        BY <2>6, <3>1, <3>2, <3>3, <3>5, <4>1 DEF BufferTrue
      <4>4. objects'[b].refs > 0 BY <2>6, <3>5, <4>2, <1>4
      <4>5. Len(objects'[b].frames) > 0 /\ IsInjective(objects'[b].frames)
        BY <2>6, <3>1, <4>2 DEF BufferTrue
      <4> QED BY <4>3, <4>4, <4>5 DEF BufferTrue
    <3>6. CASE b # o
      <4>1. r.object # b BY <2>4, <3>6
      <4>2. Cardinality(ViewsOf(b))' = Cardinality(ViewsOf(b))
        BY <1>3, <2>1, <3>4, <4>1, ViewsCount
      <4> QED BY <2>6, <3>1, <3>2, <3>6, <4>2 DEF BufferTrue
    <3> QED BY <3>5, <3>6
  <2>9. /\ DOMAIN pages'[p] = DOMAIN pages[p] \cup X /\ X \cap DOMAIN pages[p] = {}
        /\ \A u \in DOMAIN pages[p] : pages'[p][u] = pages[p][u]
        /\ \A j \in 1..count : pages'[p][base + j - 1] = fs[j]
    BY <1>6, <1>8, <1>10, <1>11, <1>18, SMTT(30)
  <2> HIDE DEF X
  <2>10. PrivatePages(p)' = PrivatePages(p)
    <3>1. AreaPages(p)' = AreaPages(p) BY <1>2 DEF AreaPages
    <3> QED BY <1>2, <3>1 DEF PrivatePages
  <2>11. \A v \in PrivatePages(p) : pages'[p][v] = pages[p][v] BY <2>9, PrivateMapped
  <2>12. PrivateFrames(p)' = PrivateFrames(p) BY <2>10, <2>11 DEF PrivateFrames
  <2>13. \A v, w \in PrivatePages(p)' : pages'[p][v] = pages'[p][w] => v = w
    BY <1>3, <2>10, <2>11 DEF Proper
  <2>14. NoOverlap(p)'
    <3>1. X \cap Occupied(p) = {} BY <1>7 DEF X
    <3>2. Range(image[p]) \cap X = {} BY <2>9, PrivateMapped
    <3>3. ASSUME NEW i \in 1..AreaMax PROVE Span(areas[p][i]) \subseteq Occupied(p) BY DEF Occupied
    <3>4. ASSUME NEW i \in 1..ViewMax PROVE Span(views[p][i]) \subseteq Occupied(p) BY DEF Occupied
    <3>5. ASSUME NEW i \in 1..ViewMax, NEW j \in 1..ViewMax, i # j
          PROVE  Span(views'[p][i]) \cap Span(views'[p][j]) = {}
      <4>1. CASE i = s
        <5>1. Span(views'[p][i]) = X /\ views'[p][j] = views[p][j] BY <2>3, <2>5, <3>5, <4>1
        <5> QED BY <3>1, <3>4, <5>1
      <4>2. CASE j = s
        <5>1. Span(views'[p][j]) = X /\ views'[p][i] = views[p][i] BY <2>3, <2>5, <3>5, <4>2
        <5> QED BY <3>1, <3>4, <5>1
      <4>3. CASE i # s /\ j # s BY <1>3, <2>5, <3>5, <4>3 DEF NoOverlap
      <4> QED BY <4>1, <4>2, <4>3
    <3>6. ASSUME NEW i \in 1..AreaMax, NEW j \in 1..ViewMax
          PROVE  Span(areas'[p][i]) \cap Span(views'[p][j]) = {}
      <4>1. CASE j = s
        <5>1. Span(views'[p][j]) = X /\ areas'[p][i] = areas[p][i] BY <1>2, <2>3, <2>5, <4>1
        <5> QED BY <3>1, <3>3, <5>1
      <4>2. CASE j # s BY <1>2, <1>3, <2>5, <4>2 DEF NoOverlap
      <4> QED BY <4>1, <4>2
    <3>7. Range(image'[p]) \cap Occupied(p)' = {} BY <1>2, <1>3, <2>5, <3>2 DEF NoOverlap
    <3> QED BY <1>2, <1>3, <3>5, <3>6, <3>7 DEF NoOverlap
  <2>15. \A i \in 1..ViewMax : \A j \in 1..views'[p][i].count :
            pages'[p][views'[p][i].base + j - 1] = objects'[views'[p][i].object].frames[j]
    <3> SUFFICES ASSUME NEW i \in 1..ViewMax, NEW j \in 1..views'[p][i].count
                 PROVE  pages'[p][views'[p][i].base + j - 1]
                          = objects'[views'[p][i].object].frames[j]
      OBVIOUS
    <3>1. CASE i = s
      <4>1. views'[p][i] = r /\ j \in 1..count BY <2>4, <2>5, <3>1
      <4>2. objects'[o].frames = fs BY <1>4, <2>6 DEF fs
      <4> QED BY <2>4, <2>9, <4>1, <4>2
    <3>2. CASE i # s
      <4>1. views'[p][i] = views[p][i] BY <2>5, <3>2
      <4>2. pages[p][views[p][i].base + j - 1] = objects[views[p][i].object].frames[j]
        BY <1>3, <4>1 DEF Proper, Agrees
      <4>3. views[p][i].base \in Nat /\ views[p][i].count \in Nat
        <5>1. views \in [Owner -> [1..ViewMax -> ViewRecords]] BY <1>3 DEF SpaceTypes
        <5>2. views[p][i] \in ViewRecords BY <5>1
        <5> QED BY <5>2 DEF ViewRecords
      <4>4. views[p][i].base + j - 1 \in Span(views[p][i]) BY <4>1, <4>3 DEF Span
      <4>5. views[p][i].base + j - 1 \in DOMAIN pages[p] BY <4>4, PrivateMapped DEF Occupied
      <4>6. views[p][i] # NoView BY <4>1 DEF NoView
      <4>7. views[p][i].object \in 1..BufferMax BY <1>3, <4>6 DEF Proper, RecordsTrue
      <4> QED BY <2>6, <2>9, <4>1, <4>2, <4>5, <4>7, SMTT(30)
    <3> QED BY <3>1, <3>2
  <2>16. Exists(p)' /\ DOMAIN tables'[p] = TablesFor(DOMAIN pages'[p])
    BY <1>10, <1>11 DEF Closed, Exists, TablesFor
  <2>17. DOMAIN pages'[p] = Occupied(p)' \cup Range(image'[p])
    BY <1>2, <2>5, <2>9, PrivateMapped
  <2>18. Agrees(p)' BY <2>14, <2>15, <2>16, <2>17 DEF Agrees
  <2>19. RecordsTrue(p)'
    <3>1. RecordsTrue(p) BY <1>3 DEF Proper
    <3>2. ASSUME NEW i \in 1..ViewMax, views'[p][i] # NoView
          PROVE  /\ views'[p][i].count > 0
                 /\ views'[p][i].base + views'[p][i].count <= ArenaPages
                 /\ views'[p][i].object \in 1..BufferMax
                 /\ views'[p][i].count = Len(objects'[views'[p][i].object].frames)
      <4>1. CASE i = s
        <5>1. Len(objects'[o].frames) = count BY <1>4, <2>6
        <5>2. views'[p][i] = r BY <2>5, <4>1
        <5>3. count > 0 BY <1>5
        <5> HIDE DEF count
        <5>4. views'[p][i].count = count /\ views'[p][i].base = base /\ views'[p][i].object = o
          BY <2>4, <5>2
        <5> QED BY <1>4, <1>7, <5>1, <5>3, <5>4
      <4>2. CASE i # s
        <5>1. views'[p][i] = views[p][i] BY <2>5, <4>2
        <5>2. /\ views[p][i].count > 0 /\ views[p][i].base + views[p][i].count <= ArenaPages
              /\ views[p][i].object \in 1..BufferMax
              /\ views[p][i].count = Len(objects[views[p][i].object].frames)
          BY <3>1, <3>2, <5>1 DEF RecordsTrue
        <5> QED BY <2>6, <5>1, <5>2
      <4> QED BY <4>1, <4>2
    <3> QED BY <1>2, <2>16, <3>1, <3>2 DEF RecordsTrue
  <2>20. Proper(p)' BY <1>15, <2>13, <2>18, <2>19 DEF Proper
  <2>21. Shown(o)' = Shown(o) BY <2>6 DEF Shown
  <2>22. Apart(heap_frames, Range(tables[p]), PrivateFrames(p), Shown(o), available)'
    BY <1>12, <1>15, <1>16, <2>12, <2>21 DEF Apart
  <2>23. heap_frames' \cup Range(tables[p])' \cup PrivateFrames(p)' \cup Shown(o)' \cup available'
         = heap_frames \cup Range(tables[p]) \cup PrivateFrames(p) \cup Shown(o) \cup available
    BY <1>15, <1>16, <2>12, <2>21
  <2>24. objects'[o].frames = objects[o].frames BY <1>4, <2>6
  <2>25. \A b \in (1..BufferMax) \ {o} : objects'[b].frames = objects[b].frames BY <2>6
  <2> QED BY <1>2, <1>11, <1>13, <2>5, <2>7, <2>8, <2>20, <2>22, <2>23, <2>24, <2>25, OneMoves
<1> QED BY <1>14, <1>17, <1>18

----------------------------------------------------------------------------
(* Programs                                                                *)

\* A map of nothing.
LEMMA EmptyMap ==
    /\ DOMAIN <<>> = {} /\ Range(<<>>) = {} /\ IsInjective(<<>>)
    /\ <<>> \in Tables /\ <<>> \in PageMaps
    /\ \A f \in PageMaps : DOMAIN f = {} => f = <<>>
    /\ \A f \in Seq(UserPage) : Range(f) = {} <=> f = <<>>
<1>1. DOMAIN <<>> = {} /\ Range(<<>>) = {} /\ IsInjective(<<>>) BY DEF Range, IsInjective
<1>2. <<>> \in [{} -> Frame] OBVIOUS
<1>3. <<>> \in Tables /\ <<>> \in PageMaps BY <1>2, MapsAre
<1>4. ASSUME NEW f \in PageMaps, DOMAIN f = {} PROVE f = <<>>
  <2>1. f \in [{} -> Frame] BY <1>4, MapsAre
  <2> QED BY <1>2, <2>1
<1>5. ASSUME NEW f \in Seq(UserPage) PROVE Range(f) = {} <=> f = <<>>
  BY <1>1 DEF Range
<1> QED BY <1>1, <1>3, <1>4, <1>5

\* Without areas and views there is no page of theirs.
LEMMA NoRecords ==
    ASSUME NEW p, ~HasAreas(p), ~HasViews(p)
    PROVE  AreaPages(p) = {} /\ Occupied(p) = {}
<1>1. \A s \in 1..AreaMax : Span(areas[p][s]) = {} BY DEF HasAreas, Span, NoArea
<1>2. \A s \in 1..ViewMax : Span(views[p][s]) = {} BY DEF HasViews, Span, NoView
<1> QED BY <1>1, <1>2 DEF AreaPages, Occupied

\* A process that has a root at most is as it should be.
LEMMA BareProper ==
    ASSUME NEW p \in Owner, ~HasAreas(p), ~HasViews(p), ~HasHandles(p),
           UNCHANGED <<areas, views, handles>>, pages'[p] = <<>>, image'[p] = <<>>,
           IsInjective(tables'[p]), tables'[p] = <<>> \/ DOMAIN tables'[p] = {Root}
    PROVE  Proper(p)' /\ PrivateFrames(p)' = {}
<1>1. AreaPages(p) = {} /\ Occupied(p) = {} BY NoRecords
<1>2. AreaPages(p)' = AreaPages(p) /\ Occupied(p)' = Occupied(p) BY DEF AreaPages, Occupied
<1>3. Range(image'[p]) = {} /\ IsInjective(image'[p]) /\ DOMAIN pages'[p] = {}
  BY EmptyMap
<1>4. PrivatePages(p)' = {} BY <1>1, <1>2, <1>3 DEF PrivatePages
<1>5. PrivateFrames(p)' = {} BY <1>4 DEF PrivateFrames
<1>6. /\ \A s \in 1..AreaMax : areas'[p][s] = NoArea /\ Span(areas'[p][s]) = {}
      /\ \A s \in 1..ViewMax : views'[p][s] = NoView /\ Span(views'[p][s]) = {}
  BY DEF HasAreas, HasViews, Span, NoArea, NoView
<1>7. NoOverlap(p)' BY <1>3, <1>6 DEF NoOverlap
<1>8. \A s \in 1..ViewMax : \A i \in 1..views'[p][s].count :
         pages'[p][views'[p][s].base + i - 1] = objects'[views'[p][s].object].frames[i]
  BY <1>6 DEF NoView
<1>9. /\ Exists(p)' => DOMAIN tables'[p] = TablesFor(DOMAIN pages'[p])
      /\ ~Exists(p)' => tables'[p] = <<>>
  <2>1. TablesFor({}) = {Root} BY DEF TablesFor
  <2>2. DOMAIN <<>> = {} BY EmptyMap
  <2> QED BY <1>3, <2>1, <2>2 DEF Exists
<1>10. Agrees(p)' BY <1>1, <1>2, <1>3, <1>7, <1>8, <1>9 DEF Agrees
<1>11. RecordsTrue(p)'
  <2>1. HasAreas(p)' = HasAreas(p) /\ HasViews(p)' = HasViews(p) /\ HasHandles(p)' = HasHandles(p)
    BY DEF HasAreas, HasViews, HasHandles
  <2> QED BY <1>6, <2>1 DEF RecordsTrue
<1> QED BY <1>4, <1>5, <1>10, <1>11 DEF Proper

\* What boring_elf_unload leaves of the pages vs.
LEMMA UnloadIs ==
    ASSUME NEW c \in Call, NEW B, Accounts(c, B), c.taken = {}, Closed(c), NEW vs \in Seq(UserPage),
           IsInjective(vs), Range(vs) \subseteq DOMAIN c.pages
    PROVE  LET r == boring_elf_unload(c, vs)
           IN  /\ r \in Call /\ Closed(r) /\ r.pages = Without(c.pages, Range(vs))
               /\ \E a : /\ r.available = a \cup {c.pages[v] : v \in Range(vs)}
                         /\ a \cup Range(r.tables) = B /\ a \cap Range(r.tables) = {}
               /\ IsInjective(r.tables)
<1> DEFINE n == Len(vs)
           ws == Backwards(vs, n)
           u == UnmapAll(c, ws)
           F == {c.pages[v] : v \in Range(vs)}
           r == boring_elf_unload(c, vs)
<1>0. n \in 0..Len(vs) /\ DOMAIN vs = 1..n OBVIOUS
<1>1. First(vs, n) = Range(vs) /\ \A j, k \in 1..n : vs[j] = vs[k] => j = k
  BY <1>0 DEF First, Range, IsInjective
<1>2. ws \in Seq(UserPage) /\ Range(ws) = Range(vs) /\ IsInjective(ws)
  <2> HIDE DEF n
  <2> QED BY <1>0, <1>1, BackwardsIs
<1> HIDE DEF ws
<1>3. u \in Call /\ Accounts(u, B) /\ Same(c, u) /\ Closed(u) /\ u.pages = Without(c.pages, Range(vs))
  <2>1. LET x == UnmapAll(c, ws)
        IN  /\ x \in Call /\ Accounts(x, B) /\ Same(c, x) /\ Closed(x)
            /\ x.pages = Without(c.pages, Range(ws))
    BY <1>2, UnmapAllIs
  <2> QED BY <1>2, <2>1
<1>4. F \subseteq Frame
  <2>1. c.pages \in PageMaps BY DEF Call
  <2>2. c.pages \in [DOMAIN c.pages -> Frame] BY <2>1, MapsAre
  <2> QED BY <2>2
<1>5. r = FreeFrames(u, F) BY DEF boring_elf_unload, ws
<1> HIDE DEF u, r, F
<1>6. /\ r \in Call /\ r.available = u.available \cup F /\ r.tables = u.tables /\ r.pages = u.pages
  BY <1>3, <1>4, <1>5 DEF FreeFrames, Call
<1>7. /\ u.available \cup Range(u.tables) = B /\ u.available \cap Range(u.tables) = {}
      /\ IsInjective(u.tables)
  BY <1>3 DEF Accounts, Same
<1>8. Closed(r) BY <1>3, <1>6 DEF Closed
<1>9. \E a : /\ r.available = a \cup F /\ a \cup Range(r.tables) = B /\ a \cap Range(r.tables) = {}
  BY <1>6, <1>7
<1> QED BY <1>3, <1>6, <1>7, <1>8, <1>9 DEF r, F

\* The root is given back.
LEMMA DestroyIs ==
    ASSUME NEW c \in Call, DOMAIN c.tables = {Root}
    PROVE  LET r == address_space_destroy(c)
           IN  /\ r \in Call /\ r.available = c.available \cup Range(c.tables)
               /\ r.tables = <<>> /\ r.pages = c.pages
<1> DEFINE r == address_space_destroy(c)
<1>1. Range(c.tables) = {c.tables[Root]} BY DEF Range
<1>2. c.tables[Root] \in Frame
  <2>1. c.tables \in Tables BY DEF Call
  <2>2. c.tables \in [DOMAIN c.tables -> Frame] BY <2>1, MapsAre
  <2> QED BY <2>2
<1>3. r = [c EXCEPT !.available = @ \cup {c.tables[Root]}, !.tables = <<>>]
  BY DEF address_space_destroy
<1> HIDE DEF r
<1>4. <<>> \in Tables BY EmptyMap
<1>5. /\ r \in Call /\ r.available = c.available \cup {c.tables[Root]} /\ r.tables = <<>>
      /\ r.pages = c.pages
  BY <1>2, <1>3, <1>4 DEF Call
<1> QED BY <1>1, <1>5 DEF r

\* The root of a new address space comes from the free frames.
LEMMA RootedIs ==
    ASSUME SpaceInv, NEW p \in Owner, ~Exists(p), NEW free \in SUBSET available, free # {}
    PROVE  LET fresh == [Given(p) EXCEPT !.available = free]
               st == [fresh EXCEPT !.available = @ \ {Least(@)},
                                   !.tables = With(@, Root, Least(free))]
           IN  /\ st \in Call /\ Fresh(st) /\ Closed(st) /\ Accounts(st, free)
               /\ st.pages = <<>>
<1> DEFINE fresh == [Given(p) EXCEPT !.available = free]
           f == Least(free)
           st == [fresh EXCEPT !.available = @ \ {Least(@)}, !.tables = With(@, Root, Least(free))]
<1>1. tables[p] = <<>> /\ pages[p] = <<>> BY DEF SpaceInv, Proper, Agrees
<1>2. free \subseteq Frame /\ free \subseteq Nat BY DEF SpaceInv, SpaceTypes, Frame
<1>3. f \in free /\ f \in Frame BY <1>2, LeastOf
<1>4. Given(p) = [available |-> available, tables |-> <<>>, pages |-> <<>>,
                  created |-> {}, taken |-> {}, done |-> 0, ok |-> TRUE]
  BY <1>1 DEF Given
<1>5. available \subseteq Frame /\ <<>> \in Tables /\ <<>> \in PageMaps
  BY EmptyMap DEF SpaceInv, SpaceTypes
<1>6. /\ Given(p) \in Call /\ Given(p).tables = <<>> /\ Given(p).pages = <<>>
      /\ Given(p).taken = {} /\ Given(p).done = 0 /\ Given(p).ok
  BY <1>4, <1>5 DEF Call
<1>7. /\ fresh \in Call /\ fresh.available = free /\ fresh.tables = <<>> /\ fresh.pages = <<>>
      /\ fresh.taken = {} /\ fresh.done = 0 /\ fresh.ok
  BY <1>2, <1>6 DEF Call
<1>8. st = [fresh EXCEPT !.available = @ \ {Least(@)}, !.tables = With(@, Root, f)] OBVIOUS
<1> HIDE DEF fresh, f, st
<1> DEFINE T == With(<<>>, Root, f)
<1>9. T \in [{Root} -> Frame] /\ T[Root] = f
  <2>1. T = [z \in {Root} |-> IF z = Root THEN f ELSE <<>>[z]] BY EmptyMap DEF With
  <2> HIDE DEF T
  <2> QED BY <1>3, <2>1
<1>10. T \in Tables
  <2>1. {Root} \in SUBSET TableName
    <3>1. {} \in SUBSET UserPage OBVIOUS
    <3> QED BY <3>1, TablesForNames
  <2> HIDE DEF T
  <2> QED BY <1>9, <2>1, MapsAre
<1>11. st = [fresh EXCEPT !.available = @ \ {f}, !.tables = T]
  BY <1>7, <1>8 DEF f
<1> HIDE DEF T
<1>12. /\ st \in Call /\ st.available = free \ {f} /\ st.tables = T /\ st.pages = <<>>
       /\ st.taken = {} /\ st.done = 0 /\ st.ok
  BY <1>7, <1>10, <1>11 DEF Call
<1>13. Range(T) = {f} /\ IsInjective(T) BY <1>9 DEF Range, IsInjective
<1>14. Accounts(st, free) BY <1>3, <1>12, <1>13 DEF Accounts
<1>15. Closed(st) BY <1>9, <1>12, EmptyMap DEF Closed, TablesFor
<1>16. Fresh(st) BY <1>12 DEF Fresh
<1> QED BY <1>12, <1>14, <1>15, <1>16 DEF st, fresh, f

\* The program of a process is unloaded.
LEMMA FinishKeeps ==
    ASSUME SpaceInv, finish_exit
    PROVE  SpaceInv'
<1> SUFFICES ASSUME NEW p, p = exiting PROVE SpaceInv' OBVIOUS
<1>1. /\ p # None /\ ~HasAreas(p) /\ ~HasViews(p) /\ ~HasHandles(p)
      /\ Keep(p, boring_elf_unload(Given(p), image[p]))
      /\ image' = [image EXCEPT ![p] = <<>>] /\ exiting' = None
      /\ UNCHANGED <<heap_frames, areas, views, handles, objects>>
  BY DEF finish_exit
<1>2. p \in Owner /\ SpaceTypes /\ image[p] # <<>> BY <1>1 DEF SpaceInv, SpaceTypes
<1>3. Proper(p) /\ Exists(p) BY <1>2 DEF SpaceInv, Proper, RecordsTrue
<1> DEFINE st == Given(p)
           vs == image[p]
           A == available \cup Range(tables[p])
           r == boring_elf_unload(st, vs)
           F == {pages[p][v] : v \in Range(vs)}
<1>4. /\ st \in Call /\ Fresh(st) /\ Closed(st) /\ Accounts(st, A)
      /\ st.tables = tables[p] /\ st.pages = pages[p] /\ st.taken = {}
  BY <1>2, <1>3, GivenAll DEF Fresh
<1>5. AreaPages(p) = {} /\ Occupied(p) = {} BY <1>1, NoRecords
<1>6. vs \in Seq(UserPage) /\ IsInjective(vs) /\ Range(vs) = DOMAIN pages[p]
  BY <1>2, <1>3, <1>5 DEF SpaceTypes, Proper, Agrees, NoOverlap
<1>7. F = PrivateFrames(p) BY <1>5 DEF PrivateFrames, PrivatePages
<1>8. Keep(p, r) BY <1>1
<1> HIDE DEF st, vs
<1>9. /\ r \in Call /\ Closed(r) /\ r.pages = Without(pages[p], Range(vs))
      /\ \E a : r.available = a \cup F /\ a \cup Range(r.tables) = A /\ a \cap Range(r.tables) = {}
      /\ IsInjective(r.tables)
  <2>1. LET x == boring_elf_unload(st, vs)
        IN  /\ x \in Call /\ Closed(x) /\ x.pages = Without(st.pages, Range(vs))
            /\ \E a : /\ x.available = a \cup {st.pages[v] : v \in Range(vs)}
                      /\ a \cup Range(x.tables) = A /\ a \cap Range(x.tables) = {}
            /\ IsInjective(x.tables)
    <3>1. Range(vs) \subseteq DOMAIN st.pages BY <1>4, <1>6
    <3> HIDE DEF A
    <3> QED BY <1>4, <1>6, <3>1, UnloadIs
  <2> QED BY <1>4, <2>1
<1> HIDE DEF r, F
<1>10. r.pages = <<>> /\ DOMAIN r.tables = {Root}
  <2>1. DOMAIN r.pages = {} BY <1>6, <1>9 DEF Without
  <2>2. r.pages \in PageMaps BY <1>9 DEF Call
  <2>3. TablesFor({}) = {Root} BY DEF TablesFor
  <2> QED BY <1>9, <2>1, <2>2, <2>3, EmptyMap DEF Closed
<1>11. /\ available' = r.available /\ available' \subseteq Frame
       /\ tables'[p] = r.tables /\ pages'[p] = r.pages
       /\ tables' \in [Owner -> Tables] /\ pages' \in [Owner -> PageMaps]
       /\ \A q \in Owner \ {p} : tables'[q] = tables[q] /\ pages'[q] = pages[q]
  BY <1>2, <1>8, <1>9, KeepIs
<1>12. /\ image' \in [Owner -> Seq(UserPage)] /\ image'[p] = <<>>
       /\ \A q \in Owner \ {p} : image'[q] = image[q]
  BY <1>1, <1>2 DEF SpaceTypes
<1>13. SpaceTypes' BY <1>1, <1>2, <1>11, <1>12 DEF SpaceTypes
<1>14. Proper(p)' /\ PrivateFrames(p)' = {}
  BY <1>1, <1>2, <1>9, <1>10, <1>11, <1>12, BareProper
<1>15. Apart(heap_frames, Range(tables[p]), PrivateFrames(p), Shown(0), available)
  BY <1>2, PartiesApart
<1>16. Shown(0) = {} /\ Shown(0)' = {} BY DEF Shown
<1>17. Range(tables[p])' = Range(r.tables) /\ heap_frames' = heap_frames BY <1>1, <1>11
<1>18. PICK a : r.available = a \cup F /\ a \cup Range(r.tables) = A /\ a \cap Range(r.tables) = {}
  BY <1>9
<1>19. Apart(heap_frames, Range(tables[p]), PrivateFrames(p), Shown(0), available)'
  BY <1>7, <1>11, <1>14, <1>15, <1>16, <1>17, <1>18 DEF Apart
<1>20. heap_frames' \cup Range(tables[p])' \cup PrivateFrames(p)' \cup Shown(0)' \cup available'
         = heap_frames \cup Range(tables[p]) \cup PrivateFrames(p) \cup Shown(0) \cup available
  BY <1>7, <1>11, <1>14, <1>16, <1>17, <1>18
<1>21. \A b \in 1..BufferMax : BufferTrue(b)'
  BY <1>1 DEF SpaceInv, BufferTrue, HandlesOf, ViewsOf
<1> QED BY <1>1, <1>2, <1>11, <1>12, <1>13, <1>14, <1>19, <1>20, <1>21, OneMoves

\* The address space of a finished process is destroyed.
LEMMA DestroyKeeps ==
    ASSUME SpaceInv, NEW p \in Owner, process_destroy(p)
    PROVE  SpaceInv'
<1>1. /\ Exists(p) /\ image[p] = <<>> /\ Keep(p, address_space_destroy(Given(p)))
      /\ exiting = None
      /\ UNCHANGED <<heap_frames, image, areas, views, handles, objects, exiting>>
  BY DEF process_destroy
<1>2. SpaceTypes /\ Proper(p) /\ ~HasAreas(p) /\ ~HasViews(p) /\ ~HasHandles(p)
  BY <1>1 DEF SpaceInv, Proper, RecordsTrue
<1> DEFINE st == Given(p)
           r == address_space_destroy(st)
<1>3. /\ st \in Call /\ Closed(st) /\ st.available = available
      /\ st.tables = tables[p] /\ st.pages = pages[p]
  BY <1>1, GivenAll
<1>4. AreaPages(p) = {} /\ Occupied(p) = {} BY <1>2, NoRecords
<1>5. pages[p] = <<>> /\ DOMAIN st.tables = {Root}
  <2>1. Range(image[p]) = {} BY <1>1, EmptyMap
  <2>2. DOMAIN pages[p] = {} BY <1>4, <2>1, PrivateMapped
  <2>3. pages[p] \in PageMaps BY <1>2 DEF SpaceTypes
  <2>4. TablesFor({}) = {Root} BY DEF TablesFor
  <2> QED BY <1>3, <2>2, <2>3, <2>4, EmptyMap DEF Closed
<1>6. Keep(p, r) BY <1>1
<1> HIDE DEF st
<1>7. /\ r \in Call /\ r.available = available \cup Range(tables[p])
      /\ r.tables = <<>> /\ r.pages = <<>>
  BY <1>3, <1>5, DestroyIs
<1> HIDE DEF r
<1>8. /\ available' = r.available /\ available' \subseteq Frame
      /\ tables'[p] = r.tables /\ pages'[p] = r.pages
      /\ tables' \in [Owner -> Tables] /\ pages' \in [Owner -> PageMaps]
      /\ \A q \in Owner \ {p} : tables'[q] = tables[q] /\ pages'[q] = pages[q]
  BY <1>2, <1>6, <1>7, KeepIs
<1>9. SpaceTypes' BY <1>1, <1>2, <1>8 DEF SpaceTypes
<1>10. Range(tables[p])' = {} /\ IsInjective(tables'[p]) BY <1>7, <1>8, EmptyMap
<1>11. Proper(p)' /\ PrivateFrames(p)' = {}
  BY <1>1, <1>2, <1>7, <1>8, <1>10, BareProper
<1>12. PrivateFrames(p) = {}
  <2>1. PrivatePages(p) = {} BY <1>1, <1>4, EmptyMap DEF PrivatePages
  <2> QED BY <2>1 DEF PrivateFrames
<1>13. Apart(heap_frames, Range(tables[p]), PrivateFrames(p), Shown(0), available)
  BY PartiesApart
<1>14. Shown(0) = {} /\ Shown(0)' = {} BY DEF Shown
<1>15. heap_frames' = heap_frames BY <1>1
<1>16. Apart(heap_frames, Range(tables[p]), PrivateFrames(p), Shown(0), available)'
  BY <1>7, <1>8, <1>10, <1>11, <1>13, <1>14, <1>15 DEF Apart
<1>17. heap_frames' \cup Range(tables[p])' \cup PrivateFrames(p)' \cup Shown(0)' \cup available'
         = heap_frames \cup Range(tables[p]) \cup PrivateFrames(p) \cup Shown(0) \cup available
  BY <1>7, <1>8, <1>10, <1>11, <1>12, <1>14, <1>15
<1>18. \A b \in 1..BufferMax : BufferTrue(b)'
  BY <1>1 DEF SpaceInv, BufferTrue, HandlesOf, ViewsOf
<1>19. exiting' # None => image'[exiting'] # <<>> BY <1>1
<1> QED BY <1>1, <1>8, <1>9, <1>11, <1>16, <1>17, <1>18, <1>19, OneMoves

\* What was taken from the free frames for the tables and the pages of p.
LEMMA SpawnMoves ==
    ASSUME SpaceInv, NEW p \in Owner, ~Exists(p), NEW st \in Call, Keep(p, st),
           heap_frames' \subseteq Frame, NEW free \in SUBSET available,
           heap_frames' = heap_frames \cup (available \ free),
           image' \in [Owner -> Seq(UserPage)], \A q \in Owner \ {p} : image'[q] = image[q],
           UNCHANGED <<areas, views, handles, objects, exiting>>, exiting = None,
           Proper(p)', NEW G, PrivateFrames(p)' = G,
           st.available \cup G \cup Range(st.tables) = free,
           st.available \cap G = {}, st.available \cap Range(st.tables) = {},
           G \cap Range(st.tables) = {}
    PROVE  SpaceInv'
<1>1. SpaceTypes /\ Proper(p) BY DEF SpaceInv
<1>2. /\ available' = st.available /\ available' \subseteq Frame
      /\ tables'[p] = st.tables /\ pages'[p] = st.pages
      /\ tables' \in [Owner -> Tables] /\ pages' \in [Owner -> PageMaps]
      /\ \A q \in Owner \ {p} : tables'[q] = tables[q] /\ pages'[q] = pages[q]
  BY <1>1, KeepIs
<1>3. SpaceTypes' BY <1>1, <1>2 DEF SpaceTypes
<1>4. Range(tables[p]) = {} BY <1>1, EmptyMap DEF Proper, Agrees
<1>5. PrivateFrames(p) = {}
  <2>1. pages[p] = <<>> BY <1>1 DEF Proper, Agrees
  <2>2. PrivatePages(p) = {} BY <2>1, EmptyMap, PrivateMapped
  <2> QED BY <2>2 DEF PrivateFrames
<1>6. Apart(heap_frames, Range(tables[p]), PrivateFrames(p), Shown(0), available)
  BY PartiesApart
<1>7. Shown(0) = {} /\ Shown(0)' = {} BY DEF Shown
<1>8. Range(tables[p])' = Range(st.tables) BY <1>2
<1>9. Apart(heap_frames, Range(tables[p]), PrivateFrames(p), Shown(0), available)'
  BY <1>2, <1>6, <1>7, <1>8 DEF Apart
<1>10. heap_frames' \cup Range(tables[p])' \cup PrivateFrames(p)' \cup Shown(0)' \cup available'
         = heap_frames \cup Range(tables[p]) \cup PrivateFrames(p) \cup Shown(0) \cup available
  BY <1>2, <1>4, <1>5, <1>7, <1>8
<1>11. \A b \in 1..BufferMax : BufferTrue(b)' BY DEF SpaceInv, BufferTrue, HandlesOf, ViewsOf
<1> QED BY <1>2, <1>3, <1>9, <1>10, <1>11, OneMoves

\* A process gets its root and its program, or gives back what it has.
LEMMA SpawnKeeps ==
    ASSUME SpaceInv, NEW p \in Owner, NEW base \in Nat, NEW count \in Nat \ {0},
           NEW readable \in Nat, spawn(p, base, count, readable)
    PROVE  SpaceInv'
<1> DEFINE all == Append(Run(base, count), StackPage)
           vs == IF readable >= count THEN all ELSE Run(base, readable + 1)
<1>1. PICK k \in KmallocOutcomes :
        /\ heap_frames' = k.heap
        /\ LET fresh == [Given(p) EXCEPT !.available = k.free]
               rooted == [fresh EXCEPT !.available = @ \ {Least(@)},
                                       !.tables = With(@, Root, Least(k.free))]
               end == TakePages(rooted, vs)
               loaded == end.ok /\ vs = all
           IN  /\ Keep(p, IF k.free = {} THEN fresh
                          ELSE IF loaded THEN end
                          ELSE address_space_destroy(
                                 IF end.ok THEN boring_elf_unload(end, vs) ELSE end))
               /\ image' = [image EXCEPT ![p] =
                              IF k.free # {} /\ loaded THEN all ELSE <<>>]
  BY DEF spawn
<1>2. /\ ~Exists(p) /\ exiting = None /\ base + count <= StackPage
      /\ UNCHANGED <<areas, views, handles, objects, exiting>>
  BY DEF spawn
<1>3. SpaceTypes /\ Proper(p) BY DEF SpaceInv
<1>4. /\ image[p] = <<>> /\ ~HasAreas(p) /\ ~HasViews(p) /\ ~HasHandles(p)
      /\ tables[p] = <<>> /\ pages[p] = <<>>
  BY <1>2, <1>3 DEF Proper, RecordsTrue, Agrees
<1> DEFINE fresh == [Given(p) EXCEPT !.available = k.free]
           rooted == [fresh EXCEPT !.available = @ \ {Least(@)},
                                   !.tables = With(@, Root, Least(k.free))]
           end == TakePages(rooted, vs)
           loaded == end.ok /\ vs = all
           undone == IF end.ok THEN boring_elf_unload(end, vs) ELSE end
           bare == address_space_destroy(undone)
           G == {end.pages[v] : v \in Range(vs)}
<1>5. k.free \subseteq available /\ k.heap = heap_frames \cup (available \ k.free) BY HeapGrows
<1>6. /\ heap_frames' = heap_frames \cup (available \ k.free) /\ heap_frames' \subseteq Frame
  BY <1>1, <1>3, <1>5 DEF SpaceTypes
<1>7. all \in Seq(UserPage) /\ vs \in Seq(UserPage)
  <2>1. Run(base, count) \in Seq(UserPage) BY <1>2, RunIs
  <2>2. StackPage \in UserPage BY SpaceAssumption DEF UserPage
  <2>3. all \in Seq(UserPage) BY <2>1, <2>2
  <2>4. CASE readable >= count BY <2>3, <2>4
  <2>5. CASE ~(readable >= count)
    <3>1. readable + 1 \in Nat /\ base + (readable + 1) <= StackPage
      BY <1>2, <2>5, SpaceAssumption
    <3>2. Run(base, readable + 1) \in Seq(UserPage) BY <3>1, RunIs
    <3> QED BY <2>3, <2>5, <3>2
  <2> QED BY <2>4, <2>5
<1>8. /\ k.free = {} => Keep(p, fresh) /\ image' = [image EXCEPT ![p] = <<>>]
      /\ k.free # {} /\ loaded => Keep(p, end) /\ image' = [image EXCEPT ![p] = all]
      /\ k.free # {} /\ ~loaded => Keep(p, bare) /\ image' = [image EXCEPT ![p] = <<>>]
  BY <1>1
<1> HIDE DEF vs, all
<1>9. <<>> \in Seq(UserPage) OBVIOUS
<1>10. ASSUME NEW v, v \in Seq(UserPage), image' = [image EXCEPT ![p] = v]
       PROVE  /\ image' \in [Owner -> Seq(UserPage)] /\ image'[p] = v
              /\ \A q \in Owner \ {p} : image'[q] = image[q]
  BY <1>3, <1>10 DEF SpaceTypes
<1>11. CASE k.free = {}
  <2>1. Given(p) = [available |-> available, tables |-> <<>>, pages |-> <<>>,
                    created |-> {}, taken |-> {}, done |-> 0, ok |-> TRUE]
    BY <1>4 DEF Given
  <2>2. available \subseteq Frame /\ <<>> \in Tables /\ <<>> \in PageMaps
    BY <1>3, EmptyMap DEF SpaceTypes
  <2>3. Given(p) \in Call /\ Given(p).tables = <<>> /\ Given(p).pages = <<>>
    BY <2>1, <2>2 DEF Call
  <2>4. fresh \in Call /\ fresh.available = {} /\ fresh.tables = <<>> /\ fresh.pages = <<>>
    BY <1>11, <2>3 DEF Call
  <2> HIDE DEF fresh
  <2>5. Keep(p, fresh) /\ image' = [image EXCEPT ![p] = <<>>] BY <1>8, <1>11
  <2>6. tables'[p] = <<>> /\ pages'[p] = <<>> BY <1>3, <2>4, <2>5, KeepIs
  <2>7. /\ image' \in [Owner -> Seq(UserPage)] /\ image'[p] = <<>>
        /\ \A q \in Owner \ {p} : image'[q] = image[q]
    BY <1>9, <1>10, <2>5
  <2>8. Proper(p)' /\ PrivateFrames(p)' = {}
    BY <1>2, <1>4, <2>6, <2>7, BareProper, EmptyMap
  <2>9. /\ fresh.available \cup {} \cup Range(fresh.tables) = k.free
        /\ fresh.available \cap Range(fresh.tables) = {}
    BY <1>11, <2>4, EmptyMap
  <2>10. fresh \in Call /\ {} \cap Range(fresh.tables) = {} /\ fresh.available \cap {} = {}
    BY <2>4
  <2>11. k.free \in SUBSET available BY <1>5
  <2> QED BY <1>2, <1>6, <2>5, <2>7, <2>8, <2>9, <2>10, <2>11, SpawnMoves
<1>12. CASE k.free # {}
  <2>1. rooted \in Call /\ Fresh(rooted) /\ Closed(rooted) /\ Accounts(rooted, k.free)
        /\ rooted.pages = <<>>
    BY <1>2, <1>5, <1>12, RootedIs
  <2> HIDE DEF rooted
  <2>2. /\ end \in Call /\ Closed(end) /\ end.taken = {}
        /\ ~end.ok => end.pages = <<>> /\ Accounts(end, k.free)
        /\ end.ok => /\ DOMAIN end.pages = Range(vs) /\ IsInjective(vs)
                     /\ \A u, v \in Range(vs) : end.pages[u] = end.pages[v] => u = v
                     /\ Accounts([end EXCEPT !.taken = G], k.free) /\ G \subseteq Frame
    <3>1. /\ end \in Call /\ Closed(end) /\ end.taken = {}
          /\ ~end.ok => end.pages = rooted.pages /\ Accounts(end, k.free)
          /\ end.ok => /\ DOMAIN end.pages = DOMAIN rooted.pages \cup Range(vs)
                       /\ Range(vs) \cap DOMAIN rooted.pages = {} /\ IsInjective(vs)
                       /\ \A u \in DOMAIN rooted.pages : end.pages[u] = rooted.pages[u]
                       /\ \A u, v \in Range(vs) : end.pages[u] = end.pages[v] => u = v
                       /\ Accounts([end EXCEPT !.taken = G], k.free) /\ G \subseteq Frame
      BY <1>7, <2>1, TakePagesIs
    <3> HIDE DEF end
    <3> QED BY <2>1, <3>1, EmptyMap
  <2> HIDE DEF end
  <2>3. end.ok =>
          /\ end.available \cup G \cup Range(end.tables) = k.free
          /\ end.available \cap G = {} /\ end.available \cap Range(end.tables) = {}
          /\ G \cap Range(end.tables) = {} /\ IsInjective(end.tables)
    <3> SUFFICES ASSUME end.ok
                 PROVE  /\ end.available \cup G \cup Range(end.tables) = k.free
                        /\ end.available \cap G = {} /\ end.available \cap Range(end.tables) = {}
                        /\ G \cap Range(end.tables) = {} /\ IsInjective(end.tables)
      OBVIOUS
    <3> DEFINE x == [end EXCEPT !.taken = G]
    <3>1. x.available = end.available /\ x.taken = G /\ x.tables = end.tables
      BY <2>2 DEF Call
    <3> HIDE DEF x, G
    <3>2. Accounts(x, k.free) BY <2>2 DEF x, G
    <3> QED BY <3>1, <3>2 DEF Accounts
  <2>4. end.ok \in BOOLEAN BY <2>2 DEF Call
  <2>5. CASE loaded
    <3>1. Keep(p, end) /\ image' = [image EXCEPT ![p] = all] BY <1>8, <1>12, <2>5
    <3>2. tables'[p] = end.tables /\ pages'[p] = end.pages BY <1>3, <2>2, <3>1, KeepIs
    <3>3. /\ image' \in [Owner -> Seq(UserPage)] /\ image'[p] = all
          /\ \A q \in Owner \ {p} : image'[q] = image[q]
      BY <1>7, <1>10, <3>1
    <3>4. vs = all /\ end.ok BY <2>5
    <3>5. AreaPages(p)' = {} /\ Occupied(p)' = {}
      <4>1. AreaPages(p) = {} /\ Occupied(p) = {} BY <1>4, NoRecords
      <4>2. AreaPages(p)' = AreaPages(p) /\ Occupied(p)' = Occupied(p)
        BY <1>2 DEF AreaPages, Occupied
      <4> QED BY <4>1, <4>2
    <3>6. PrivatePages(p)' = Range(all) BY <3>3, <3>5 DEF PrivatePages
    <3>7. PrivateFrames(p)' = G BY <3>2, <3>4, <3>6 DEF PrivateFrames
    <3>8. /\ \A s \in 1..AreaMax : areas'[p][s] = NoArea /\ Span(areas'[p][s]) = {}
          /\ \A s \in 1..ViewMax : views'[p][s] = NoView /\ Span(views'[p][s]) = {}
      BY <1>2, <1>4 DEF HasAreas, HasViews, Span, NoArea, NoView
    <3>9. NoOverlap(p)' BY <2>2, <3>3, <3>4, <3>5, <3>8 DEF NoOverlap
    <3>10. \A s \in 1..ViewMax : \A i \in 1..views'[p][s].count :
             pages'[p][views'[p][s].base + i - 1] = objects'[views'[p][s].object].frames[i]
      BY <3>8 DEF NoView
    <3>11. Exists(p)' /\ DOMAIN tables'[p] = TablesFor(DOMAIN pages'[p])
      BY <2>2, <3>2 DEF Closed, Exists, TablesFor
    <3>12. Agrees(p)' BY <2>2, <3>2, <3>3, <3>4, <3>5, <3>9, <3>10, <3>11 DEF Agrees
    <3>13. all # <<>>
      <4>1. Run(base, count) \in Seq(UserPage) BY <1>2, RunIs
      <4>2. Len(all) = Len(Run(base, count)) + 1 BY <4>1 DEF all
      <4>3. Len(Run(base, count)) \in Nat BY <4>1
      <4>4. Len(<<>>) = 0 OBVIOUS
      <4> HIDE DEF all
      <4> QED BY <4>2, <4>3, <4>4
    <3>14. RecordsTrue(p)' BY <3>3, <3>8, <3>11, <3>13 DEF RecordsTrue
    <3>15. Proper(p)' BY <2>2, <2>3, <3>2, <3>4, <3>6, <3>12, <3>14 DEF Proper
    <3>16. end \in Call BY <2>2
    <3> HIDE DEF G
    <3>17. /\ end.available \cup G \cup Range(end.tables) = k.free
           /\ end.available \cap G = {} /\ end.available \cap Range(end.tables) = {}
           /\ G \cap Range(end.tables) = {}
      BY <2>3, <3>4
    <3>18. k.free \in SUBSET available /\ Keep(p, end) BY <1>5, <3>1
    <3> HIDE DEF loaded
    <3> QED BY <1>2, <1>6, <3>3, <3>7, <3>15, <3>16, <3>17, <3>18, SpawnMoves
  <2>6. CASE ~loaded
    <3>1. Keep(p, bare) /\ image' = [image EXCEPT ![p] = <<>>] BY <1>8, <1>12, <2>6
    <3>2. /\ undone \in Call /\ undone.pages = <<>> /\ Closed(undone)
          /\ undone.available \cup Range(undone.tables) = k.free
      <4>1. CASE ~end.ok BY <2>2, <4>1 DEF Accounts
      <4>2. CASE end.ok
        <5> DEFINE B == end.available \cup Range(end.tables)
        <5>1. Accounts(end, B) BY <2>2, <2>3, <4>2 DEF Accounts
        <5>2. LET r == boring_elf_unload(end, vs)
              IN  /\ r \in Call /\ Closed(r) /\ r.pages = Without(end.pages, Range(vs))
                  /\ \E a : /\ r.available = a \cup {end.pages[v] : v \in Range(vs)}
                            /\ a \cup Range(r.tables) = B /\ a \cap Range(r.tables) = {}
          <6> HIDE DEF B
          <6> QED BY <1>7, <2>2, <4>2, <5>1, UnloadIs
        <5>3. undone = boring_elf_unload(end, vs) BY <4>2
        <5> HIDE DEF undone
        <5>4. PICK a : undone.available = a \cup G /\ a \cup Range(undone.tables) = B
          BY <5>2, <5>3
        <5>5. undone.available \cup Range(undone.tables) = k.free BY <2>3, <4>2, <5>4
        <5>6. undone \in Call /\ Closed(undone) /\ undone.pages = Without(end.pages, Range(vs))
          BY <5>2, <5>3
        <5>7. DOMAIN undone.pages = {} BY <2>2, <4>2, <5>6 DEF Without
        <5>8. undone.pages \in PageMaps BY <5>6 DEF Call
        <5> QED BY <5>5, <5>6, <5>7, <5>8, EmptyMap
      <4> QED BY <2>4, <4>1, <4>2
    <3> HIDE DEF undone
    <3>3. DOMAIN undone.tables = {Root} BY <3>2, EmptyMap DEF Closed, TablesFor
    <3>4. /\ bare \in Call /\ bare.available = k.free /\ bare.tables = <<>> /\ bare.pages = <<>>
      BY <3>2, <3>3, DestroyIs
    <3> HIDE DEF bare
    <3>5. tables'[p] = <<>> /\ pages'[p] = <<>> BY <1>3, <3>1, <3>4, KeepIs
    <3>6. /\ image' \in [Owner -> Seq(UserPage)] /\ image'[p] = <<>>
          /\ \A q \in Owner \ {p} : image'[q] = image[q]
      BY <1>9, <1>10, <3>1
    <3>7. Proper(p)' /\ PrivateFrames(p)' = {}
      BY <1>2, <1>4, <3>5, <3>6, BareProper, EmptyMap
    <3>8. /\ bare.available \cup {} \cup Range(bare.tables) = k.free
          /\ bare.available \cap Range(bare.tables) = {}
      BY <3>4, EmptyMap
    <3> QED BY <1>2, <1>5, <1>6, <3>1, <3>4, <3>6, <3>7, <3>8, SpawnMoves
  <2> QED BY <2>5, <2>6
<1> QED BY <1>11, <1>12

----------------------------------------------------------------------------
(* The invariant holds                                                     *)

\* Nobody has anything at first.
LEMMA InitOwns == SpaceInit => SpaceInv
<1> SUFFICES ASSUME SpaceInit PROVE SpaceInv OBVIOUS
<1>1. /\ available = Frame /\ heap_frames = {} /\ exiting = None
      /\ \A p \in Owner : tables[p] = <<>> /\ pages[p] = <<>> /\ image[p] = <<>>
      /\ \A p \in Owner : \A s \in 1..AreaMax : areas[p][s] = NoArea
      /\ \A p \in Owner : \A s \in 1..ViewMax : views[p][s] = NoView
      /\ \A p \in Owner : \A s \in 1..HeldMax : handles[p][s] = None
      /\ \A o \in 1..BufferMax : objects[o] = NoBuffer
  BY DEF SpaceInit
<1>2. NoArea \in Records /\ NoView \in ViewRecords /\ None \in 0..BufferMax
      /\ NoBuffer \in [frames : Seq(Frame), refs : Nat]
  BY SpaceAssumption DEF NoArea, NoView, NoBuffer, None, Records, ViewRecords
<1>3. SpaceTypes
  <2>1. tables \in [Owner -> Tables] /\ pages \in [Owner -> PageMaps]
    BY EmptyMap DEF SpaceInit
  <2>2. image \in [Owner -> Seq(UserPage)] BY DEF SpaceInit
  <2>3. areas \in [Owner -> [1..AreaMax -> Records]] BY <1>2 DEF SpaceInit
  <2>4. views \in [Owner -> [1..ViewMax -> ViewRecords]] BY <1>2 DEF SpaceInit
  <2>5. handles \in [Owner -> [1..HeldMax -> 0..BufferMax]] BY <1>2 DEF SpaceInit
  <2>6. objects \in [1..BufferMax -> [frames : Seq(Frame), refs : Nat]] BY <1>2 DEF SpaceInit
  <2> QED BY <1>1, <2>1, <2>2, <2>3, <2>4, <2>5, <2>6 DEF SpaceTypes
<1>4. ASSUME NEW p \in Owner
      PROVE  ~HasAreas(p) /\ ~HasViews(p) /\ ~HasHandles(p) /\ PrivatePages(p) = {} /\ Occupied(p) = {}
  <2>1. ~HasAreas(p) /\ ~HasViews(p) /\ ~HasHandles(p)
    BY <1>1 DEF HasAreas, HasViews, HasHandles
  <2>2. AreaPages(p) = {} /\ Occupied(p) = {} BY <2>1, NoRecords
  <2>3. Range(image[p]) = {} BY <1>1, EmptyMap
  <2> QED BY <2>1, <2>2, <2>3 DEF PrivatePages
<1>5. Partition
  <2>1. ASSUME NEW h \in Holder PROVE Held(h) = {}
    <3>1. CASE h = <<"heap", 0>> BY <1>1, <3>1, HeldIs
    <3>2. ASSUME NEW p \in Owner, h = <<"tables", p>> PROVE Held(h) = {}
      BY <1>1, <3>2, HeldIs, EmptyMap
    <3>3. ASSUME NEW p \in Owner, h = <<"private", p>> PROVE Held(h) = {}
      BY <1>4, <3>3, HeldIs DEF PrivateFrames
    <3>4. ASSUME NEW o \in 1..BufferMax, h = <<"object", o>> PROVE Held(h) = {}
      BY <1>1, <3>4, HeldIs, EmptyMap DEF NoBuffer
    <3> QED BY <3>1, <3>2, <3>3, <3>4, HolderIs
  <2>2. UNION {Held(h) : h \in Holder} = {} BY <2>1
  <2> QED BY <1>1, <2>1, <2>2 DEF Partition
<1>6. ASSUME NEW p \in Owner PROVE Proper(p)
  <2>1. Range(image[p]) = {} /\ IsInjective(image[p]) /\ DOMAIN pages[p] = {} BY <1>1, EmptyMap
  <2>2. /\ \A s \in 1..AreaMax : Span(areas[p][s]) = {}
        /\ \A s \in 1..ViewMax : Span(views[p][s]) = {} /\ views[p][s].count = 0
    BY <1>1 DEF Span, NoArea, NoView
  <2>3. NoOverlap(p) BY <2>1, <2>2 DEF NoOverlap
  <2>4. ~Exists(p) BY <1>1, EmptyMap DEF Exists
  <2>5. \A s \in 1..ViewMax : \A i \in 1..views[p][s].count :
           pages[p][views[p][s].base + i - 1] = objects[views[p][s].object].frames[i]
    BY <2>2
  <2>6. Agrees(p) BY <1>1, <1>4, <2>1, <2>3, <2>4, <2>5 DEF Agrees
  <2>7. RecordsTrue(p) BY <1>1, <1>4 DEF RecordsTrue
  <2>8. IsInjective(tables[p]) BY <1>1, EmptyMap
  <2> QED BY <1>4, <2>6, <2>7, <2>8 DEF Proper
<1>7. ASSUME NEW o \in 1..BufferMax PROVE BufferTrue(o)
  <2>1. HandlesOf(o) = {} BY <1>1 DEF HandlesOf, None
  <2>2. ViewsOf(o) = {} BY <1>1 DEF ViewsOf, NoView, None
  <2>3. Cardinality({}) = 0 BY FS_EmptySet
  <2>4. objects[o].refs = 0 /\ objects[o].frames = <<>> /\ objects[o] = NoBuffer
    BY <1>1 DEF NoBuffer
  <2> QED BY <2>1, <2>2, <2>3, <2>4, EmptyMap DEF BufferTrue
<1> QED BY <1>1, <1>3, <1>5, <1>6, <1>7 DEF SpaceInv

\* A step that moves no frame and changes no record.
LEMMA QuietKeeps ==
    ASSUME SpaceInv, exiting' \in Owner \cup {None}, exiting' # None => image[exiting'] # <<>>,
           UNCHANGED <<available, heap_frames, tables, pages, image, areas, views, handles, objects>>
    PROVE  SpaceInv'
<1>1. SpaceTypes' BY DEF SpaceInv, SpaceTypes
<1>2. \A p \in Owner : Proper(p)' /\ PrivateFrames(p)' = PrivateFrames(p) BY Elsewhere
<1>3. \A h \in Holder : Held(h)' = Held(h)
  <2> SUFFICES ASSUME NEW h \in Holder PROVE Held(h)' = Held(h) OBVIOUS
  <2>1. PrivateFrames(h[2])' = PrivateFrames(h[2])
    BY DEF PrivateFrames, PrivatePages, AreaPages
  <2> QED BY <2>1 DEF Held
<1>4. Partition' BY <1>3 DEF SpaceInv, Partition
<1>5. \A o \in 1..BufferMax : BufferTrue(o)' BY DEF SpaceInv, BufferTrue, HandlesOf, ViewsOf
<1> QED BY <1>1, <1>2, <1>4, <1>5 DEF SpaceInv

\* Every step keeps the invariant.
LEMMA StepOwns == SpaceInv /\ [SpaceNext]_spaceVars => SpaceInv'
<1> SUFFICES ASSUME SpaceInv, [SpaceNext]_spaceVars PROVE SpaceInv' OBVIOUS
<1>0. exiting \in Owner \cup {None} /\ (exiting # None => image[exiting] # <<>>)
  BY DEF SpaceInv, SpaceTypes
<1>1. ASSUME NEW p \in Owner, NEW base \in ImageBases, NEW count \in PageCounts,
             NEW readable \in PageCounts \cup {0}, spawn(p, base, count, readable)
      PROVE  SpaceInv'
  <2>1. base \in Nat /\ count \in Nat \ {0} /\ readable \in Nat BY SpaceAssumption
  <2> QED BY <1>1, <2>1, SpawnKeeps
<1>2. ASSUME NEW p \in Owner, NEW count \in PageCounts,
             user_memory_allocate(p, count) \/ user_buffer_create(p, count)
      PROVE  SpaceInv'
  <2>1. count \in Nat \ {0} BY SpaceAssumption
  <2> QED BY <1>2, <2>1, AllocateKeeps, CreateKeeps
<1>3. ASSUME NEW p \in Owner, NEW s \in 1..AreaMax, user_memory_free(p, s) PROVE SpaceInv'
  BY <1>3, FreeKeeps
<1>4. ASSUME NEW p \in Owner, NEW o \in 1..BufferMax, user_buffer_commit_install(p, o)
      PROVE  SpaceInv'
  BY <1>4, InstallKeeps
<1>5. ASSUME NEW p \in Owner, NEW h \in 1..HeldMax, user_buffer_map(p, h) \/ user_buffer_close(p, h)
      PROVE  SpaceInv'
  BY <1>5, MapKeeps, CloseKeeps
<1>6. ASSUME NEW p \in Owner, NEW s \in 1..ViewMax, user_buffer_unmap(p, s) PROVE SpaceInv'
  BY <1>6, UnmapKeeps
<1>7. ASSUME NEW p \in Owner, begin_exit(p) PROVE SpaceInv'
  BY <1>7, QuietKeeps DEF begin_exit, MayCall
<1>8. ASSUME NEW p \in Owner, process_destroy(p) PROVE SpaceInv' BY <1>8, DestroyKeeps
<1>9. ASSUME NEW p, p = exiting, p # None, cleanup_area \/ cleanup_view \/ cleanup_handle
      PROVE  SpaceInv'
  <2>1. p \in Owner BY <1>0, <1>9
  <2>2. CASE cleanup_area
    <3>1. PICK s \in 1..AreaMax : user_memory_free(p, s) BY <1>9, <2>2 DEF cleanup_area
    <3> QED BY <2>1, <3>1, FreeKeeps
  <2>3. CASE cleanup_view
    <3>1. PICK s \in 1..ViewMax : user_buffer_unmap(p, s) BY <1>9, <2>3 DEF cleanup_view
    <3> QED BY <2>1, <3>1, UnmapKeeps
  <2>4. CASE cleanup_handle
    <3>1. PICK h \in 1..HeldMax : user_buffer_close(p, h) BY <1>9, <2>4 DEF cleanup_handle
    <3> QED BY <2>1, <3>1, CloseKeeps
  <2> QED BY <1>9, <2>2, <2>3, <2>4
<1>10. CASE cleanup_area \/ cleanup_view \/ cleanup_handle
  <2>1. exiting # None BY <1>10 DEF cleanup_area, cleanup_view, cleanup_handle
  <2> QED BY <1>9, <1>10, <2>1
<1>11. CASE cleanup_fails BY <1>0, <1>11, QuietKeeps DEF cleanup_fails
<1>12. CASE finish_exit BY <1>12, FinishKeeps
<1>13. CASE UNCHANGED spaceVars BY <1>0, <1>13, QuietKeeps DEF spaceVars
<1> QED BY <1>1, <1>2, <1>3, <1>4, <1>5, <1>6, <1>7, <1>8, <1>10, <1>11, <1>12, <1>13
        DEF SpaceNext

\* No frame is lost and none has two owners, whatever the number of processes,
\* frames and levels of page tables, and wherever user_memory_allocate,
\* boring_elf_load_source or the creation of a page table runs out of frames.
THEOREM FramesOwnedAlways == SpaceSpec => []FramesOwned
<1>1. SpaceInv => FramesOwned BY SpaceInvOwns
<1> QED BY InitOwns, StepOwns, <1>1, PTL DEF SpaceSpec
=============================================================================
