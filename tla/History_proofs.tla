---------------------------- MODULE History_proofs ----------------------------
(***************************************************************************)
(* Proofs about History, for any number of devices, page sizes, messages   *)
(* and changes: what a walk over the pages of a room can miss.             *)
(***************************************************************************)
EXTENDS History, FiniteSetTheorems, SequenceTheorems, TLAPS

\* The rank of m in a set of messages A.
RankIn(A, m) == Cardinality({n \in A : n >= m})

\* Those of S that have rank k or less in A.
Passed(S, A, k) == {m \in S : RankIn(A, m) =< k}

-----------------------------------------------------------------------------
(***************************************************************************)
(* Ranks.                                                                  *)
(***************************************************************************)
LEMMA RankType ==
    ASSUME NEW A \in SUBSET Int, IsFiniteSet(A), NEW m \in Int
    PROVE  /\ RankIn(A, m) \in Nat
           /\ RankIn(A, m) =< Cardinality(A)
           /\ m \in A => RankIn(A, m) >= 1
<1> DEFINE T == {n \in A : n >= m}
<1>1. IsFiniteSet(T) /\ Cardinality(T) =< Cardinality(A)
  BY FS_Subset
<1>2. Cardinality(T) \in Nat
  BY <1>1, FS_CardinalityType
<1>3. m \in A => T # {}
  OBVIOUS
<1>4. Cardinality(T) = 0 <=> T = {}
  BY <1>1, FS_EmptySet
<1> QED
  BY <1>1, <1>2, <1>3, <1>4 DEF RankIn

\* An older message has the higher rank.
LEMMA RankOrder ==
    ASSUME NEW A \in SUBSET Int, IsFiniteSet(A), NEW m \in A, NEW n \in Int, m < n
    PROVE  RankIn(A, n) < RankIn(A, m)
<1> DEFINE T == {k \in A : k >= m}
           U == {k \in A : k >= n}
<1>1. IsFiniteSet(T) /\ IsFiniteSet(U)
  BY FS_Subset
<1>2. U \subseteq T /\ m \in T /\ m \notin U
  <2>1. \A k \in A : k \in Int
    OBVIOUS
  <2>2. m \in Int /\ m >= m /\ ~ (m >= n) /\ \A k \in Int : k >= n => k >= m
    BY <2>1
  <2> QED
    BY <2>1, <2>2
<1>3. Cardinality(U) =< Cardinality(T) /\ Cardinality(U) # Cardinality(T)
  BY <1>1, <1>2, FS_Subset
<1>4. Cardinality(U) \in Nat /\ Cardinality(T) \in Nat
  BY <1>1, FS_CardinalityType
<1> QED
  BY <1>3, <1>4 DEF RankIn

LEMMA RankInjective ==
    ASSUME NEW A \in SUBSET Int, IsFiniteSet(A), NEW m \in A, NEW n \in A,
           RankIn(A, m) = RankIn(A, n)
    PROVE  m = n
<1>1. RankIn(A, m) \in Nat /\ RankIn(A, n) \in Nat
  BY RankType
<1>2. ~ (m < n) /\ ~ (n < m)
  BY <1>1, RankOrder
<1> QED
  BY <1>2

\* Of the messages of a set, as many as it has over k have a rank beyond k.
LEMMA RankBeyond ==
    ASSUME NEW A \in SUBSET Int, IsFiniteSet(A), NEW k \in Nat, NEW j \in Nat,
           Cardinality(A) =< k + j
    PROVE  LET T == {m \in A : RankIn(A, m) > k}
           IN  IsFiniteSet(T) /\ Cardinality(T) =< j
<1> DEFINE N == Cardinality(A)
           T == {m \in A : RankIn(A, m) > k}
           f == [m \in T |-> RankIn(A, m)]
<1>1. N \in Nat /\ IsFiniteSet(T) /\ Cardinality(T) \in Nat
  BY FS_CardinalityType, FS_Subset
<1>2. CASE N =< k
  <2>1. \A m \in A : RankIn(A, m) \in Nat /\ RankIn(A, m) =< N
    BY RankType
  <2>2. \A m \in A : ~ (RankIn(A, m) > k)
    BY <1>1, <1>2, <2>1
  <2>3. T = {}
    BY <2>2
  <2> QED
    BY <1>1, <2>3, FS_EmptySet
<1>3. CASE N > k
  <2>1. IsFiniteSet((k + 1) .. N) /\ Cardinality((k + 1) .. N) = N - k
    BY <1>1, <1>3, FS_Interval
  <2>2. \A m \in T : RankIn(A, m) \in (k + 1) .. N
    BY <1>1, RankType
  <2>3. \A m, n \in T : RankIn(A, m) = RankIn(A, n) => m = n
    BY RankInjective
  <2>4. f \in Injection(T, (k + 1) .. N)
    BY <2>2, <2>3 DEF Injection, IsInjective
  <2>5. Cardinality(T) =< N - k
    BY <2>1, <2>4, FS_Injection
  <2> QED
    BY <1>1, <2>5
<1> QED
  BY <1>1, <1>2, <1>3

\* A message that is added takes nothing over a rank.
LEMMA PassedAdd ==
    ASSUME NEW A \in SUBSET Int, IsFiniteSet(A), NEW S \in SUBSET A,
           NEW a \in Int, NEW k \in Int
    PROVE  Passed(S, A \cup {a}, k) \subseteq Passed(S, A, k)
<1> SUFFICES ASSUME NEW m \in S, RankIn(A \cup {a}, m) =< k
             PROVE  RankIn(A, m) =< k
  BY DEF Passed
<1> DEFINE T == {n \in A : n >= m}
           U == {n \in A \cup {a} : n >= m}
<1>1. IsFiniteSet(A \cup {a})
  BY FS_AddElement
<1>2. IsFiniteSet(U) /\ T \subseteq U
  BY <1>1, FS_Subset
<1>3. IsFiniteSet(T) /\ Cardinality(T) =< Cardinality(U)
  BY <1>2, FS_Subset
<1>4. Cardinality(T) \in Nat /\ Cardinality(U) \in Nat
  BY <1>2, <1>3, FS_CardinalityType
<1> QED
  BY <1>3, <1>4 DEF RankIn

\* One that is removed takes at most one other over it.
LEMMA PassedRemove ==
    ASSUME NEW A \in SUBSET Int, IsFiniteSet(A), NEW S \in SUBSET A,
           NEW a \in A, NEW k \in Int
    PROVE  /\ IsFiniteSet(Passed(S \ {a}, A \ {a}, k))
           /\ IsFiniteSet(Passed(S, A, k))
           /\ Cardinality(Passed(S \ {a}, A \ {a}, k))
                  =< Cardinality(Passed(S, A, k)) + 1
<1> DEFINE P == Passed(S, A, k)
           Q == Passed(S \ {a}, A \ {a}, k)
<1>1. IsFiniteSet(S)
  BY FS_Subset
<1>2. IsFiniteSet(P) /\ IsFiniteSet(Q)
  BY <1>1, FS_Subset DEF Passed
<1>3. ASSUME NEW m \in Q
      PROVE  RankIn(A, m) \in Nat /\ RankIn(A, m) =< k + 1
  <2> DEFINE T == {n \in A : n >= m}
             U == {n \in A \ {a} : n >= m}
  <2>1. m \in Int /\ Cardinality(U) =< k
    BY DEF Passed, RankIn
  <2>2. IsFiniteSet(T) /\ U = T \ {a}
    BY FS_Subset
  <2>3. Cardinality(U) = Cardinality(T) \/ Cardinality(U) = Cardinality(T) - 1
    BY <2>2, FS_RemoveElement
  <2>4. Cardinality(T) \in Nat
    BY <2>2, FS_CardinalityType
  <2> QED
    BY <2>1, <2>3, <2>4 DEF RankIn
<1>4. \A m, n \in Q \ P : m = n
  <2> SUFFICES ASSUME NEW m \in Q \ P, NEW n \in Q \ P
               PROVE  m = n
    OBVIOUS
  <2>1. m \in A /\ n \in A
    BY DEF Passed
  <2>2. RankIn(A, m) = k + 1 /\ RankIn(A, n) = k + 1
    BY <1>3, <2>1 DEF Passed
  <2> QED
    BY <2>1, <2>2, RankInjective
<1>5. \E m : Q \subseteq P \cup {m}
  <2>1. CASE Q \subseteq P
    BY <2>1
  <2>2. CASE ~ (Q \subseteq P)
    <3>1. PICK m \in Q : m \notin P
      BY <2>2
    <3>2. Q \subseteq P \cup {m}
      BY <1>4, <3>1
    <3> QED
      BY <3>2
  <2> QED
    BY <2>1, <2>2
<1>6. PICK m : Q \subseteq P \cup {m}
  BY <1>5
<1>7. /\ IsFiniteSet(P \cup {m})
      /\ \/ Cardinality(P \cup {m}) = Cardinality(P)
         \/ Cardinality(P \cup {m}) = Cardinality(P) + 1
  BY <1>2, FS_AddElement
<1>8. Cardinality(Q) =< Cardinality(P \cup {m})
  BY <1>6, <1>7, FS_Subset
<1>9. Cardinality(P) \in Nat /\ Cardinality(Q) \in Nat
  BY <1>2, FS_CardinalityType
<1> QED
  BY <1>2, <1>7, <1>8, <1>9

-----------------------------------------------------------------------------
(***************************************************************************)
(* Pages.                                                                  *)
(***************************************************************************)
LEMMA Division ==
    ASSUME NEW a \in Nat, NEW z \in Nat \ {0}
    PROVE  /\ a \div z \in Nat
           /\ z * (a \div z) =< a
           /\ a < z * (a \div z) + z
OBVIOUS

\* The pages before the last are full, and the last one reaches the end.
LEMMA PagesReach ==
    ASSUME NEW count \in Nat, NEW z \in Nat \ {0}
    PROVE  /\ Pages(count, z) \in Nat \ {0}
           /\ count =< Pages(count, z) * z
           /\ \A p \in Nat : p < Pages(count, z) => p * z < count \/ p = 0
<1>1. CASE count = 0
  BY <1>1 DEF Pages
<1>2. CASE count # 0
  <2> DEFINE N == (count + z - 1) \div z
  <2>1. count + z - 1 \in Nat
    OBVIOUS
  <2>2. N \in Nat /\ z * N =< count + z - 1 /\ count + z - 1 < z * N + z
    BY <2>1, Division
  <2>3. Pages(count, z) = N
    BY <1>2 DEF Pages
  <2> HIDE DEF N
  <2>4. N * z = z * N /\ z * N \in Nat
    BY <2>2
  <2>5. N # 0
    BY <1>2, <2>2, <2>4
  <2>6. ASSUME NEW p \in Nat, p < N
        PROVE  p * z < count
    <3>1. (p + 1) * z =< N * z
      BY <2>2, <2>6
    <3>2. (p + 1) * z = p * z + z /\ p * z \in Nat
      OBVIOUS
    <3> QED
      BY <2>2, <2>4, <3>1, <3>2
  <2> QED
    BY <2>2, <2>3, <2>4, <2>5, <2>6
<1> QED
  BY <1>1, <1>2

-----------------------------------------------------------------------------
(***************************************************************************)
(* The inductive invariants.                                               *)
(***************************************************************************)

\* A device that took no foreign answer has one request out while it walks,
\* for the page it waits for, and none before and after.
OneRequest(d) ==
    LET idle == inbox[d] = <<>> /\ handler[d].step = "idle" IN
    /\ walk[d].state \in {"new", "done"} => idle
    /\ walk[d].state = "walking" =>
           /\ walk[d].page # 0
           /\ \/ inbox[d] = <<walk[d].page>> /\ handler[d].step = "idle"
              \/ /\ inbox[d] = <<>>
                 /\ handler[d].step # "idle"
                 /\ handler[d].page = walk[d].page

\* What device d did not get, counting the page its handler has read, and the
\* rank up to which it will not ask any more.
Unread(d) == Missed(d) \ (IF handler[d].step = "read" THEN handler[d].data ELSE {})
Behind(d) ==
    LET page == IF handler[d].step = "read" THEN handler[d].next ELSE walk[d].page
    IN  (page - 1) * walk[d].size

\* Only deletions move unread messages behind the reader, one each; and only
\* what arrived after the count is beyond the end of the last page.
Accounted(d) ==
    /\ Walking(d) =>
           IF handler[d].step = "read" /\ handler[d].next = 0
           THEN Cardinality(Unread(d)) =< removed[d] + torn[d]
           ELSE Cardinality(Passed(Unread(d), alive, Behind(d))) =< removed[d]
    /\ Walking(d) /\ handler[d].step = "counted" =>
           Cardinality(alive) =< handler[d].count + torn[d]
    /\ walk[d].state = "done" => Cardinality(Missed(d)) =< removed[d] + torn[d]

\* Each message that arrives is one of the changes that are allowed.
Typed ==
    /\ TypeOK
    /\ created =< Present + changes
    /\ \A d \in Device : start[d] \subseteq 1 .. created

MInv ==
    /\ Typed
    /\ \A d \in Device \ foreign : OneRequest(d) /\ Accounted(d)

\* In a quiet room every request is for a page that exists, every answer is
\* that page, and a device has what is up to the page it waits for.
Complete(d) ==
    LET size == walk[d].size
        last == Pages(Cardinality(alive), size)
        h    == handler[d]
    IN
    /\ inbox[d] \in Seq(1 .. last)
    /\ h.step # "idle" => h.page \in 1 .. last
    /\ h.step = "counted" => h.count = Cardinality(alive)
    /\ h.step = "read" =>
           /\ h.next = IF h.page < last THEN h.page + 1 ELSE 0
           /\ h.data = Slice(h.page, Cardinality(alive), size)
    /\ walk[d].state = "new" => walk[d].got = {}
    /\ Walking(d) =>
           /\ walk[d].page \in 1 .. last
           /\ walk[d].got = Passed(alive, alive, (walk[d].page - 1) * size)
    /\ walk[d].state = "done" => walk[d].got = alive

QInv == Typed /\ (changes = 0 => \A d \in Device : Complete(d))

-----------------------------------------------------------------------------
(***************************************************************************)
(* Types.                                                                  *)
(***************************************************************************)
USE SizesAssumption, PresentAssumption, BoundAssumption

LEMMA AliveFinite ==
    ASSUME TypeOK
    PROVE  /\ IsFiniteSet(alive)
           /\ alive \in SUBSET Int
           /\ alive \subseteq Number
           /\ Cardinality(alive) \in Nat
<1>1. created \in Int /\ IsFiniteSet(1 .. created)
  BY FS_Interval DEF TypeOK
<1>2. IsFiniteSet(alive)
  BY <1>1, FS_Subset DEF TypeOK
<1>3. alive \subseteq 1 .. created /\ 1 .. created \subseteq Number
  BY DEF TypeOK, Number
<1>4. 1 .. created \subseteq Int
  BY <1>1
<1> QED
  BY <1>2, <1>3, <1>4, FS_CardinalityType

LEMMA PageTypes ==
    ASSUME NEW page \in Nat, NEW count \in Nat, NEW size \in Nat \ {0}
    PROVE  /\ Pages(count, size) \in Nat
           /\ GetPage(page, count, size) \in Nat
           /\ GetPage(page, count, size) + 1 \in Nat
           /\ Slice(GetPage(page, count, size), count, size) \subseteq alive
<1>1. Pages(count, size) \in Nat
  BY PagesReach
<1>2. GetPage(page, count, size) \in Nat
  BY <1>1 DEF GetPage
<1> QED
  BY <1>1, <1>2 DEF Slice

LEMMA InitTyped == Init => Typed
<1> SUFFICES ASSUME Init
             PROVE  Typed
  OBVIOUS
<1>1. NoRequest \in Handler
  BY DEF NoRequest, Handler
<1>2. walk \in [Device -> Walk]
  <2>1. [state : {"new"}, page : {0}, size : Sizes, got : {{}}] \subseteq Walk
    BY DEF Walk
  <2> QED
    BY <2>1 DEF Init
<1> QED
  BY <1>1, <1>2 DEF Init, Typed, TypeOK

LEMMA ChangeTyped ==
    ASSUME Typed, Arrive \/ \E m \in Number : Remove(m)
    PROVE  Typed'
<1> USE DEF Typed, messages, history
<1>1. CASE Arrive
  <2>1. /\ changes' = changes + 1 /\ created' = created + 1
        /\ alive' = alive \cup {created + 1}
        /\ changes' \in 0 .. MaxChanges
    BY <1>1 DEF Arrive, Change, TypeOK
  <2>2. created' \in 0 .. Present + MaxChanges /\ created' =< Present + changes'
    BY <2>1 DEF TypeOK
  <2>3. alive' \subseteq 1 .. created'
    BY <2>1, <2>2 DEF TypeOK
  <2>4. torn' \in [Device -> Nat]
    BY <1>1 DEF Arrive, TypeOK
  <2>5. \A d \in Device : start[d] \subseteq 1 .. created'
    BY <2>1, <2>2 DEF TypeOK
  <2> QED
    BY <1>1, <2>1, <2>2, <2>3, <2>4, <2>5 DEF Arrive, TypeOK
<1>2. ASSUME NEW m \in Number, Remove(m)
      PROVE  Typed'
  <2>1. changes' = changes + 1 /\ changes' \in 0 .. MaxChanges
    BY <1>2 DEF Remove, Change, TypeOK
  <2>2. removed' \in [Device -> Nat]
    BY <1>2 DEF Remove, TypeOK
  <2> QED
    BY <1>2, <2>1, <2>2 DEF Remove, TypeOK
<1> QED
  BY <1>1, <1>2

LEMMA ServeTyped ==
    ASSUME Typed, NEW d \in Device, Serve(d)
    PROVE  Typed'
<1> USE DEF Typed, messages, history
<1>0. /\ TypeOK /\ walk[d] \in Walk /\ handler[d] \in Handler
      /\ inbox[d] \in Seq(Nat)
      /\ walk[d].size \in Nat \ {0}
  BY DEF TypeOK, Walk
<1>1. CASE Begin(d)
  <2>1. [walk[d] EXCEPT !.state = "walking", !.page = 1] \in Walk
    BY <1>0 DEF Walk
  <2>2. walk' = [walk EXCEPT ![d] = [walk[d] EXCEPT !.state = "walking", !.page = 1]]
    BY <1>1 DEF Begin
  <2>3. walk' \in [Device -> Walk]
    BY <1>0, <2>1, <2>2 DEF TypeOK
  <2>4. inbox' \in [Device -> Seq(Nat)]
    BY <1>0, <1>1 DEF Begin, TypeOK
  <2>5. /\ start' \in [Device -> SUBSET Number]
        /\ \A e \in Device : start'[e] \subseteq 1 .. created
    BY <1>0, <1>1, AliveFinite DEF Begin, TypeOK
  <2> QED
    BY <1>1, <2>3, <2>4, <2>5 DEF Begin, TypeOK
<1>2. CASE Count(d)
  <2>0. /\ Head(inbox[d]) \in Nat /\ Tail(inbox[d]) \in Seq(Nat)
        /\ Cardinality(alive) \in Nat
    BY <1>0, <1>2, HeadTailProperties, AliveFinite DEF Count
  <2>1. [NoRequest EXCEPT !.step = "counted", !.page = Head(inbox[d]),
                          !.count = Cardinality(alive)] \in Handler
    BY <2>0 DEF NoRequest, Handler
  <2>2. inbox' \in [Device -> Seq(Nat)]
    BY <1>0, <1>2, <2>0 DEF Count, TypeOK
  <2> QED
    BY <1>2, <2>1, <2>2 DEF Count, TypeOK
<1>3. CASE Read(d)
  <2> DEFINE h    == handler[d]
             page == GetPage(h.page, h.count, walk[d].size)
             next == IF page < Pages(h.count, walk[d].size) THEN page + 1 ELSE 0
             data == Slice(page, h.count, walk[d].size)
  <2>1. h.page \in Nat /\ h.count \in Nat
    BY <1>0 DEF Handler
  <2>2. next \in Nat /\ data \subseteq Number
    BY <1>0, <2>1, PageTypes, AliveFinite
  <2> HIDE DEF next, data
  <2>3. [h EXCEPT !.step = "read", !.next = next, !.data = data] \in Handler
    BY <1>0, <2>2 DEF Handler
  <2>4. handler' = [handler EXCEPT ![d] =
            [h EXCEPT !.step = "read", !.next = next, !.data = data]]
    BY <1>3 DEF Read, next, data
  <2> QED
    BY <1>3, <2>3, <2>4 DEF Read, TypeOK
<1>4. CASE Answer(d)
  <2> DEFINE h == handler[d]
  <2>1. NoRequest \in Handler
    BY DEF NoRequest, Handler
  <2>2. h.next \in Nat /\ h.data \in SUBSET Number
    BY <1>0 DEF Handler
  <2>3. walk' \in [Device -> Walk]
    <3>1. ASSUME NEW e \in Device
          PROVE  walk'[e] \in Walk
      <4>1. CASE Takes(e, d)
        <5>1. walk'[e] = [walk[e] EXCEPT !.got = @ \cup h.data, !.page = h.next,
                                  !.state = IF h.next = 0 THEN "done" ELSE @]
          BY <1>4, <4>1 DEF Answer
        <5>2. walk[e] \in Walk
          BY DEF TypeOK
        <5> QED
          BY <2>2, <5>1, <5>2 DEF Walk
      <4>2. CASE ~ Takes(e, d)
        BY <1>4, <4>2 DEF Answer, TypeOK
      <4> QED
        BY <4>1, <4>2
    <3>2. walk' = [e \in Device |-> walk'[e]]
      BY <1>4 DEF Answer
    <3> QED
      BY <3>1, <3>2
  <2>4. inbox' \in [Device -> Seq(Nat)]
    <3>1. \A e \in Device : inbox[e] \in Seq(Nat) /\ Append(inbox[e], h.next) \in Seq(Nat)
      BY <2>2, AppendProperties DEF TypeOK
    <3> QED
      BY <1>4, <3>1 DEF Answer
  <2> QED
    BY <1>4, <2>1, <2>3, <2>4 DEF Answer, TypeOK
<1> QED
  BY <1>1, <1>2, <1>3, <1>4 DEF Serve

LEMMA NextTyped == Typed /\ [Next]_vars => Typed'
<1> SUFFICES ASSUME Typed, [Next]_vars
             PROVE  Typed'
  OBVIOUS
<1>1. CASE UNCHANGED vars
  BY <1>1 DEF vars, messages, history, Typed, TypeOK
<1> QED
  BY <1>1, ChangeTyped, ServeTyped DEF Next

\* Every variable keeps its type; in particular no message gets a number that
\* is taken, and a page that is asked for or read is a page (consumers.py:546).
THEOREM TypeCorrect == Spec => []TypeOK
<1>1. Typed => TypeOK
  BY DEF Typed
<1> QED
  BY <1>1, InitTyped, NextTyped, PTL DEF Spec

-----------------------------------------------------------------------------
(***************************************************************************)
(* What the steps of a request do.                                         *)
(***************************************************************************)
LEMMA BeginEffect ==
    ASSUME TypeOK, NEW d \in Device, Begin(d)
    PROVE  /\ walk[d].state = "new"
           /\ walk'[d].state = "walking" /\ walk'[d].page = 1
           /\ walk'[d].got = walk[d].got /\ walk'[d].size = walk[d].size
           /\ inbox'[d] = Append(inbox[d], 1)
           /\ \A e \in Device \ {d} : walk'[e] = walk[e] /\ inbox'[e] = inbox[e]
                                      /\ start'[e] = start[e]
           /\ UNCHANGED <<created, alive, changes, handler, removed, torn, foreign>>
BY DEF Begin, TypeOK, Walk, messages

LEMMA CountEffect ==
    ASSUME TypeOK, NEW d \in Device, Count(d)
    PROVE  /\ handler[d].step = "idle" /\ inbox[d] # <<>>
           /\ inbox'[d] = Tail(inbox[d])
           /\ handler'[d].step = "counted"
           /\ handler'[d].page = Head(inbox[d])
           /\ handler'[d].count = Cardinality(alive)
           /\ \A e \in Device \ {d} : inbox'[e] = inbox[e] /\ handler'[e] = handler[e]
           /\ UNCHANGED <<created, alive, changes, walk, start, removed, torn, foreign>>
BY DEF Count, TypeOK, NoRequest, messages, history

LEMMA ReadEffect ==
    ASSUME TypeOK, NEW d \in Device, Read(d)
    PROVE  LET h    == handler[d]
               size == walk[d].size
               page == GetPage(h.page, h.count, size)
           IN
           /\ h.step = "counted"
           /\ handler'[d].step = "read" /\ handler'[d].page = h.page
           /\ handler'[d].next = IF page < Pages(h.count, size) THEN page + 1 ELSE 0
           /\ handler'[d].data = Slice(page, h.count, size)
           /\ \A e \in Device \ {d} : handler'[e] = handler[e]
           /\ UNCHANGED <<created, alive, changes, walk, inbox, start, removed,
                          torn, foreign>>
BY DEF Read, TypeOK, Handler, messages, history

LEMMA AnswerEffect ==
    ASSUME TypeOK, NEW d \in Device, Answer(d)
    PROVE  LET h == handler[d] IN
           /\ h.step = "read"
           /\ handler'[d].step = "idle"
           /\ \A e \in Device \ {d} : handler'[e] = handler[e]
           /\ \A e \in Device :
                  IF Takes(e, d)
                  THEN /\ walk'[e].got = walk[e].got \cup h.data
                       /\ walk'[e].page = h.next
                       /\ walk'[e].size = walk[e].size
                       /\ walk'[e].state = IF h.next = 0 THEN "done" ELSE "walking"
                       /\ inbox'[e] = IF h.next # 0 THEN Append(inbox[e], h.next)
                                                    ELSE inbox[e]
                       /\ e # d => e \in foreign'
                  ELSE walk'[e] = walk[e] /\ inbox'[e] = inbox[e]
           /\ foreign \subseteq foreign'
           /\ UNCHANGED <<created, alive, changes, start, removed, torn>>
<1> DEFINE h == handler[d]
<1>1. /\ h.step = "read"
      /\ handler' = [handler EXCEPT ![d] = NoRequest]
      /\ foreign' = foreign \cup {e \in Device \ {d} : Takes(e, d)}
      /\ UNCHANGED <<created, alive, changes, start, removed, torn>>
  BY DEF Answer, messages
<1>2. handler'[d].step = "idle" /\ \A e \in Device \ {d} : handler'[e] = handler[e]
  BY <1>1 DEF TypeOK, NoRequest
<1>3. ASSUME NEW e \in Device, Takes(e, d)
      PROVE  /\ walk'[e].got = walk[e].got \cup h.data
             /\ walk'[e].page = h.next
             /\ walk'[e].size = walk[e].size
             /\ walk'[e].state = IF h.next = 0 THEN "done" ELSE "walking"
             /\ inbox'[e] = IF h.next # 0 THEN Append(inbox[e], h.next) ELSE inbox[e]
  <2>1. walk'[e] = [walk[e] EXCEPT !.got = @ \cup h.data, !.page = h.next,
                             !.state = IF h.next = 0 THEN "done" ELSE @]
    BY <1>3 DEF Answer
  <2>2. walk[e] \in Walk /\ walk[e].state = "walking"
    BY <1>3 DEF TypeOK, Takes, Walking
  <2> QED
    BY <1>3, <2>1, <2>2 DEF Answer, Walk
<1>4. ASSUME NEW e \in Device, ~ Takes(e, d)
      PROVE  walk'[e] = walk[e] /\ inbox'[e] = inbox[e]
  BY <1>4 DEF Answer
<1> QED
  BY <1>1, <1>2, <1>3, <1>4

-----------------------------------------------------------------------------
(***************************************************************************)
(* What a walk misses.                                                     *)
(***************************************************************************)
LEMMA MissedFinite ==
    ASSUME Typed, NEW d \in Device
    PROVE  /\ Missed(d) \subseteq alive /\ Unread(d) \subseteq Missed(d)
           /\ \A S \in SUBSET alive : IsFiniteSet(S) /\ Cardinality(S) \in Nat
           /\ walk[d] \in Walk /\ walk[d].size \in Nat \ {0} /\ walk[d].page \in Nat
           /\ handler[d] \in Handler /\ handler[d].page \in Nat
           /\ handler[d].count \in Nat /\ handler[d].next \in Nat
           /\ removed[d] \in Nat /\ torn[d] \in Nat
           /\ Behind(d) \in Int
<1>1. Missed(d) \subseteq alive /\ Unread(d) \subseteq Missed(d)
  BY DEF Missed, Unread
<1>2. ASSUME NEW S \in SUBSET alive
      PROVE  IsFiniteSet(S) /\ Cardinality(S) \in Nat
  BY AliveFinite, FS_Subset, FS_CardinalityType DEF Typed
<1>3. /\ walk[d] \in Walk /\ handler[d] \in Handler
      /\ removed[d] \in Nat /\ torn[d] \in Nat
  BY DEF Typed, TypeOK
<1>4. /\ walk[d].size \in Nat \ {0} /\ walk[d].page \in Nat
      /\ handler[d].page \in Nat
      /\ handler[d].count \in Nat /\ handler[d].next \in Nat
  BY <1>3 DEF Walk, Handler
<1>5. Behind(d) \in Int
  BY <1>4 DEF Behind
<1> QED
  BY <1>1, <1>2, <1>3, <1>4, <1>5

\* A device that a step does not touch.
LEMMA Unmoved ==
    ASSUME NEW d \in Device, OneRequest(d), Accounted(d),
           alive' = alive, walk'[d] = walk[d], inbox'[d] = inbox[d],
           handler'[d] = handler[d], start'[d] = start[d],
           removed'[d] = removed[d], torn'[d] = torn[d]
    PROVE  OneRequest(d)' /\ Accounted(d)'
<1>1. OneRequest(d)'
  BY DEF OneRequest
<1>2. Missed(d)' = Missed(d) /\ Unread(d)' = Unread(d) /\ Behind(d)' = Behind(d)
  BY DEF Missed, Unread, Behind
<1>3. Passed(Unread(d), alive, Behind(d))' = Passed(Unread(d), alive, Behind(d))
  BY <1>2 DEF Passed
<1> QED
  BY <1>1, <1>2, <1>3 DEF Accounted, Walking

\* A message that arrives is new to every walk, and takes none over a rank.
LEMMA ArriveAccounted ==
    ASSUME Typed, Arrive, NEW d \in Device, OneRequest(d), Accounted(d)
    PROVE  OneRequest(d)' /\ Accounted(d)'
<1>1. /\ UNCHANGED <<walk, inbox, handler, start, removed>>
      /\ alive' = alive \cup {created + 1}
      /\ torn'[d] = IF Walking(d) /\ handler[d].step = "counted"
                    THEN torn[d] + 1 ELSE torn[d]
  BY DEF Arrive
<1>2. created + 1 \in Int /\ created + 1 \notin start[d]
  BY DEF Typed, TypeOK
<1>3. OneRequest(d)'
  BY <1>1 DEF OneRequest
<1>4. Missed(d)' = Missed(d) /\ Unread(d)' = Unread(d) /\ Behind(d)' = Behind(d)
  BY <1>1, <1>2 DEF Missed, Unread, Behind
<1>5. torn[d] \in Nat /\ removed[d] \in Nat /\ torn'[d] \in Nat /\ torn'[d] >= torn[d]
  BY <1>1, MissedFinite
<1>6. Unread(d) \subseteq alive /\ Behind(d) \in Int
  BY MissedFinite
<1> DEFINE P == Passed(Unread(d), alive, Behind(d))
           Q == Passed(Unread(d), alive', Behind(d))
<1>7. Q \subseteq P /\ P \subseteq alive
  BY <1>1, <1>2, <1>6, AliveFinite, PassedAdd DEF Passed, Typed
<1>8. IsFiniteSet(P) /\ Cardinality(P) \in Nat /\ Cardinality(Q) \in Nat
      /\ Cardinality(Q) =< Cardinality(P)
  BY <1>7, MissedFinite, FS_Subset
<1>9. Cardinality(alive') \in Nat /\ Cardinality(alive') =< Cardinality(alive) + 1
  <2>1. IsFiniteSet(alive) /\ Cardinality(alive) \in Nat
    BY AliveFinite DEF Typed
  <2>2. Cardinality(alive \cup {created + 1}) =
            IF created + 1 \in alive THEN Cardinality(alive) ELSE Cardinality(alive) + 1
    BY <2>1, FS_AddElement
  <2> QED
    BY <1>1, <2>1, <2>2
<1>10. Passed(Unread(d), alive, Behind(d))' = Q
  BY <1>4 DEF Passed
<1>11. Cardinality(Unread(d)) \in Nat /\ Cardinality(Missed(d)) \in Nat
       /\ Cardinality(alive) \in Nat
  BY MissedFinite
<1>12. Walking(d)' => Walking(d)
  BY <1>1 DEF Walking
<1>13. Walking(d)' =>
           IF handler'[d].step = "read" /\ handler'[d].next = 0
           THEN Cardinality(Unread(d)') =< removed'[d] + torn'[d]
           ELSE Cardinality(Q) =< removed'[d]
  BY <1>1, <1>4, <1>5, <1>8, <1>11, <1>12 DEF Accounted
<1>14. Walking(d)' /\ handler'[d].step = "counted" =>
           Cardinality(alive') =< handler'[d].count + torn'[d]
  BY <1>1, <1>5, <1>9, <1>11, <1>12, MissedFinite DEF Accounted
<1>15. walk'[d].state = "done" => Cardinality(Missed(d)') =< removed'[d] + torn'[d]
  BY <1>1, <1>4, <1>5, <1>11 DEF Accounted
<1> QED
  BY <1>3, <1>10, <1>13, <1>14, <1>15 DEF Accounted

\* One that is removed moves at most one other behind the reader.
LEMMA RemoveAccounted ==
    ASSUME Typed, NEW m \in Number, Remove(m), NEW d \in Device,
           OneRequest(d), Accounted(d)
    PROVE  OneRequest(d)' /\ Accounted(d)'
<1>1. /\ UNCHANGED <<walk, inbox, handler, start, torn>>
      /\ m \in alive
      /\ alive' = alive \ {m}
      /\ removed'[d] = IF Walking(d) THEN removed[d] + 1 ELSE removed[d]
  BY DEF Remove
<1>2. OneRequest(d)'
  BY <1>1 DEF OneRequest
<1>3. /\ Missed(d)' = Missed(d) \ {m} /\ Unread(d)' = Unread(d) \ {m}
      /\ Behind(d)' = Behind(d)
  BY <1>1 DEF Missed, Unread, Behind
<1>4. torn[d] \in Nat /\ removed[d] \in Nat /\ removed'[d] \in Nat /\ removed'[d] >= removed[d]
  BY <1>1, MissedFinite
<1>5. Unread(d) \in SUBSET alive /\ Missed(d) \in SUBSET alive /\ Behind(d) \in Int
  BY MissedFinite
<1> DEFINE P == Passed(Unread(d), alive, Behind(d))
           Q == Passed(Unread(d) \ {m}, alive \ {m}, Behind(d))
<1>6. IsFiniteSet(P) /\ IsFiniteSet(Q) /\ Cardinality(Q) =< Cardinality(P) + 1
  BY <1>1, <1>5, AliveFinite, PassedRemove DEF Typed
<1>7. Cardinality(P) \in Nat /\ Cardinality(Q) \in Nat
  BY <1>6, FS_CardinalityType
<1>8. Passed(Unread(d), alive, Behind(d))' = Q
  BY <1>1, <1>3 DEF Passed
<1>9. ASSUME NEW S \in SUBSET alive
      PROVE  /\ Cardinality(S) \in Nat /\ Cardinality(S \ {m}) \in Nat
             /\ Cardinality(S \ {m}) =< Cardinality(S)
  <2>1. IsFiniteSet(S)
    BY MissedFinite
  <2> QED
    BY <2>1, FS_Subset, FS_CardinalityType
<1>10. Walking(d)' <=> Walking(d)
  BY <1>1 DEF Walking
<1>11. Walking(d) =>
           IF handler'[d].step = "read" /\ handler'[d].next = 0
           THEN Cardinality(Unread(d) \ {m}) =< removed'[d] + torn'[d]
           ELSE Cardinality(Q) =< removed'[d]
  <2>1. CASE handler[d].step = "read" /\ handler[d].next = 0
    BY <1>1, <1>4, <1>5, <1>9, <2>1 DEF Accounted
  <2>2. CASE ~ (handler[d].step = "read" /\ handler[d].next = 0)
    BY <1>1, <1>4, <1>6, <1>7, <2>2 DEF Accounted
  <2> QED
    BY <1>1, <2>1, <2>2
<1>12. Walking(d) /\ handler'[d].step = "counted" =>
           Cardinality(alive') =< handler'[d].count + torn'[d]
  <2>1. Cardinality(alive') =< Cardinality(alive) /\ Cardinality(alive') \in Nat
        /\ Cardinality(alive) \in Nat
    BY <1>1, <1>9
  <2> QED
    BY <1>1, <1>4, <2>1, MissedFinite DEF Accounted
<1>13. walk'[d].state = "done" =>
           Cardinality(Missed(d) \ {m}) =< removed'[d] + torn'[d]
  <2>1. Cardinality(Missed(d) \ {m}) \in Nat /\ Cardinality(Missed(d)) \in Nat
        /\ Cardinality(Missed(d) \ {m}) =< Cardinality(Missed(d))
    BY <1>5, <1>9
  <2> QED
    BY <1>1, <1>4, <2>1 DEF Accounted
<1> QED
  BY <1>2, <1>3, <1>8, <1>10, <1>11, <1>12, <1>13 DEF Accounted

LEMMA BeginAccounted ==
    ASSUME Typed, NEW d \in Device, Begin(d), OneRequest(d)
    PROVE  OneRequest(d)' /\ Accounted(d)'
<1>0. TypeOK
  BY DEF Typed
<1>1. /\ walk[d].state = "new" /\ inbox[d] = <<>> /\ handler[d].step = "idle"
      /\ walk'[d].state = "walking" /\ walk'[d].page = 1
      /\ walk'[d].size = walk[d].size
      /\ inbox'[d] = Append(inbox[d], 1)
      /\ UNCHANGED <<alive, handler, removed, torn>>
  BY <1>0, BeginEffect DEF OneRequest
<1>2. inbox'[d] = <<1>>
  BY <1>1
<1>3. OneRequest(d)'
  BY <1>1, <1>2 DEF OneRequest
<1>4. Behind(d)' = 0
  BY <1>1, MissedFinite DEF Behind
<1>5. Unread(d)' \subseteq alive
  BY <1>1 DEF Unread, Missed
<1>6. Passed(Unread(d), alive, Behind(d))' = {}
  <2>1. \A m \in alive : RankIn(alive, m) \in Nat /\ RankIn(alive, m) >= 1
    BY AliveFinite, RankType DEF Typed
  <2> QED
    BY <1>1, <1>4, <1>5, <2>1 DEF Passed
<1>7. Cardinality({}) = 0 /\ removed[d] \in Nat
  BY FS_EmptySet, MissedFinite
<1> QED
  BY <1>1, <1>3, <1>6, <1>7 DEF Accounted, Walking

LEMMA CountAccounted ==
    ASSUME Typed, NEW d \in Device, Count(d), OneRequest(d), Accounted(d)
    PROVE  OneRequest(d)' /\ Accounted(d)'
<1>0. TypeOK /\ walk[d].state \in {"new", "walking", "done"}
  BY MissedFinite DEF Typed, Walk
<1>1. /\ handler[d].step = "idle" /\ inbox[d] # <<>>
      /\ inbox'[d] = Tail(inbox[d])
      /\ handler'[d].step = "counted"
      /\ handler'[d].page = Head(inbox[d])
      /\ handler'[d].count = Cardinality(alive)
      /\ UNCHANGED <<alive, walk, start, removed, torn>>
  BY <1>0, CountEffect
<1>2. Walking(d) /\ inbox[d] = <<walk[d].page>> /\ walk[d].page # 0
  BY <1>0, <1>1 DEF OneRequest, Walking
<1>3. inbox'[d] = <<>> /\ handler'[d].page = walk[d].page
  BY <1>1, <1>2
<1>4. OneRequest(d)'
  BY <1>1, <1>2, <1>3 DEF OneRequest, Walking
<1>5. Missed(d)' = Missed(d) /\ Unread(d)' = Unread(d) /\ Behind(d)' = Behind(d)
  BY <1>1 DEF Missed, Unread, Behind
<1>6. Passed(Unread(d), alive, Behind(d))' = Passed(Unread(d), alive, Behind(d))
  BY <1>1, <1>5 DEF Passed
<1>7. Cardinality(alive) =< Cardinality(alive) + torn[d]
  BY MissedFinite
<1> QED
  BY <1>1, <1>2, <1>4, <1>5, <1>6, <1>7 DEF Accounted, Walking

\* The page that is read is the next one, whole, or reaches to the count.
LEMMA ReadAccounted ==
    ASSUME Typed, NEW d \in Device, Read(d), OneRequest(d), Accounted(d)
    PROVE  OneRequest(d)' /\ Accounted(d)'
<1> DEFINE p    == walk[d].page
           z    == walk[d].size
           c    == handler[d].count
           last == Pages(c, z)
           page == GetPage(handler[d].page, c, z)
           data == Slice(page, c, z)
           U    == Missed(d)
<1>0. TypeOK /\ walk[d].state \in {"new", "walking", "done"}
  BY MissedFinite DEF Typed, Walk
<1>1. /\ handler[d].step = "counted"
      /\ handler'[d].step = "read" /\ handler'[d].page = handler[d].page
      /\ handler'[d].next = IF page < last THEN page + 1 ELSE 0
      /\ handler'[d].data = data
      /\ UNCHANGED <<alive, walk, inbox, start, removed, torn>>
  BY <1>0, ReadEffect
<1>2. Walking(d) /\ handler[d].page = p /\ inbox[d] = <<>> /\ p # 0
  BY <1>0, <1>1 DEF OneRequest, Walking
<1>3. OneRequest(d)'
  BY <1>1, <1>2 DEF OneRequest, Walking
<1>4. /\ p \in Nat \ {0} /\ z \in Nat \ {0} /\ c \in Nat
      /\ removed[d] \in Nat /\ torn[d] \in Nat
  BY <1>2, MissedFinite
<1>5. /\ Unread(d) = U /\ Behind(d) = (p - 1) * z /\ U \subseteq alive
      /\ Unread(d)' = U \ data
  BY <1>1, MissedFinite DEF Unread, Missed, Behind
<1>6. /\ last \in Nat \ {0} /\ c =< last * z
      /\ \A q \in Nat : q < last => q * z < c \/ q = 0
      /\ page = IF p =< last THEN p ELSE last
  BY <1>2, <1>4, PagesReach DEF GetPage
<1>7. \A m \in alive : RankIn(alive, m) \in Nat /\ Rank(m) = RankIn(alive, m)
  BY AliveFinite, RankType DEF Typed, Rank, RankIn
<1> DEFINE P == Passed(U, alive, (p - 1) * z)
<1>8. Cardinality(P) =< removed[d] /\ Cardinality(alive) =< c + torn[d]
  BY <1>1, <1>2, <1>5 DEF Accounted
<1>9. IsFiniteSet(P) /\ Cardinality(P) \in Nat
  BY <1>5, MissedFinite DEF Passed
<1>10. CASE page < last
  <2>1. page = p /\ handler'[d].next = p + 1
    BY <1>1, <1>4, <1>6, <1>10
  <2>2. p * z < c /\ p * z = (p - 1) * z + z /\ (p - 1) * z \in Nat
    BY <1>4, <1>6, <1>10, <2>1
  <2>3. data = {m \in alive : (p - 1) * z < Rank(m) /\ Rank(m) =< p * z}
    BY <1>4, <2>1, <2>2 DEF Slice
  <2>4. Behind(d)' = p * z
    BY <1>1, <1>4, <2>1 DEF Behind
  <2>5. Passed(U \ data, alive, p * z) \subseteq P
    <3> SUFFICES ASSUME NEW m \in U \ data, RankIn(alive, m) =< p * z
                 PROVE  RankIn(alive, m) =< (p - 1) * z
      BY DEF Passed
    <3>1. RankIn(alive, m) \in Nat /\ Rank(m) = RankIn(alive, m)
      BY <1>5, <1>7
    <3>2. ~ ((p - 1) * z < RankIn(alive, m))
      BY <1>5, <2>3, <3>1
    <3> QED
      BY <2>2, <3>1, <3>2
  <2>6. Cardinality(Passed(U \ data, alive, p * z)) =< removed[d]
    <3>1. Cardinality(Passed(U \ data, alive, p * z)) =< Cardinality(P)
      BY <1>9, <2>5, FS_Subset
    <3>2. Cardinality(Passed(U \ data, alive, p * z)) \in Nat
      BY <1>9, <2>5, FS_Subset, FS_CardinalityType
    <3> QED
      BY <1>4, <1>8, <1>9, <3>1, <3>2
  <2>7. Passed(Unread(d), alive, Behind(d))' = Passed(U \ data, alive, p * z)
    BY <1>1, <1>5, <2>4 DEF Passed
  <2>8. handler'[d].next # 0
    BY <1>4, <2>1
  <2> QED
    BY <1>1, <1>2, <1>3, <2>6, <2>7, <2>8 DEF Accounted, Walking
<1>11. CASE ~ (page < last)
  <2>1. page = last /\ handler'[d].next = 0 /\ last =< p
    BY <1>1, <1>4, <1>6, <1>11
  <2>2. /\ (last - 1) * z \in Nat /\ (last - 1) * z + z = last * z
        /\ (last - 1) * z =< (p - 1) * z /\ (p - 1) * z \in Nat
    BY <1>4, <1>6, <2>1
  <2>3. data = {m \in alive : (last - 1) * z < Rank(m) /\ Rank(m) =< c}
    <3>1. (last - 1) * z + z >= c
      BY <1>4, <1>6, <2>2
    <3> QED
      BY <2>1, <3>1 DEF Slice
  <2> DEFINE B == {m \in alive : RankIn(alive, m) > c}
  <2>4. U \ data \subseteq P \cup B
    <3> SUFFICES ASSUME NEW m \in U \ data, ~ (RankIn(alive, m) > c)
                 PROVE  RankIn(alive, m) =< (p - 1) * z
      BY <1>5 DEF Passed
    <3>1. RankIn(alive, m) \in Nat /\ Rank(m) = RankIn(alive, m)
      BY <1>5, <1>7
    <3>2. ~ ((last - 1) * z < RankIn(alive, m))
      BY <1>4, <1>5, <2>3, <3>1
    <3> QED
      BY <2>2, <3>1, <3>2
  <2>5. IsFiniteSet(B) /\ Cardinality(B) =< torn[d]
    BY <1>4, <1>8, AliveFinite, RankBeyond DEF Typed
  <2>6. Cardinality(U \ data) =< removed[d] + torn[d]
    <3>1. /\ IsFiniteSet(P \cup B)
          /\ Cardinality(P \cup B) = Cardinality(P) + Cardinality(B) - Cardinality(P \cap B)
      BY <1>9, <2>5, FS_Union
    <3>2. Cardinality(P \cap B) \in Nat /\ Cardinality(B) \in Nat
          /\ Cardinality(P \cup B) \in Nat
      BY <1>9, <2>5, <3>1, FS_Intersection, FS_CardinalityType
    <3>3. /\ Cardinality(U \ data) =< Cardinality(P \cup B)
          /\ Cardinality(U \ data) \in Nat
      BY <2>4, <3>1, FS_Subset, FS_CardinalityType
    <3> QED
      BY <1>4, <1>8, <1>9, <2>5, <3>1, <3>2, <3>3
  <2> QED
    BY <1>1, <1>2, <1>3, <1>5, <2>1, <2>6 DEF Accounted, Walking
<1> QED
  BY <1>10, <1>11

\* The answer to its own request is what a device waits for.
LEMMA AnswerAccounted ==
    ASSUME Typed, NEW d \in Device, Answer(d), OneRequest(d), Accounted(d)
    PROVE  OneRequest(d)' /\ Accounted(d)'
<1> DEFINE h == handler[d]
<1>0. TypeOK /\ walk[d].state \in {"new", "walking", "done"}
  BY MissedFinite DEF Typed, Walk
<1>1. h.step = "read" /\ handler'[d].step = "idle"
      /\ UNCHANGED <<alive, start, removed, torn>>
  BY <1>0, AnswerEffect
<1>2. /\ Walking(d) /\ h.page = walk[d].page /\ inbox[d] = <<>>
  BY <1>0, <1>1 DEF OneRequest, Walking
<1>3. Takes(d, d)
  BY <1>2 DEF Takes
<1>4. /\ walk'[d].got = walk[d].got \cup h.data
      /\ walk'[d].page = h.next
      /\ walk'[d].size = walk[d].size
      /\ walk'[d].state = IF h.next = 0 THEN "done" ELSE "walking"
      /\ inbox'[d] = IF h.next # 0 THEN Append(inbox[d], h.next) ELSE inbox[d]
  BY <1>0, <1>3, AnswerEffect
<1>5. h.next # 0 => inbox'[d] = <<h.next>>
  BY <1>2, <1>4
<1>6. OneRequest(d)'
  BY <1>1, <1>2, <1>4, <1>5 DEF OneRequest
<1>7. /\ Missed(d)' = Unread(d) /\ Unread(d)' = Unread(d)
      /\ h.next # 0 => Behind(d)' = Behind(d)
  BY <1>1, <1>4 DEF Missed, Unread, Behind
<1>8. h.next # 0 =>
          Passed(Unread(d), alive, Behind(d))' = Passed(Unread(d), alive, Behind(d))
  BY <1>1, <1>7 DEF Passed
<1> QED
  BY <1>1, <1>2, <1>4, <1>6, <1>7, <1>8 DEF Accounted, Walking

LEMMA InitAccounted == Init => MInv
<1> SUFFICES ASSUME Init, NEW d \in Device
             PROVE  OneRequest(d) /\ Accounted(d)
  BY InitTyped DEF MInv
<1>1. /\ walk[d].state = "new" /\ inbox[d] = <<>> /\ handler[d].step = "idle"
  BY DEF Init, NoRequest
<1> QED
  BY <1>1 DEF OneRequest, Accounted, Walking

LEMMA NextAccounted == MInv /\ [Next]_vars => MInv'
<1> SUFFICES ASSUME MInv, [Next]_vars, NEW d \in Device \ foreign'
             PROVE  OneRequest(d)' /\ Accounted(d)'
  BY NextTyped DEF MInv
<1>0. Typed /\ TypeOK
  BY DEF MInv, Typed
<1>1. CASE UNCHANGED vars
  BY <1>1, Unmoved DEF MInv, vars, messages, history
<1>2. CASE Arrive
  <2>1. d \notin foreign
    BY <1>2 DEF Arrive
  <2> QED
    BY <1>2, <2>1, ArriveAccounted DEF MInv
<1>3. ASSUME NEW m \in Number, Remove(m)
      PROVE  OneRequest(d)' /\ Accounted(d)'
  <2>1. d \notin foreign
    BY <1>3 DEF Remove
  <2> QED
    BY <1>3, <2>1, RemoveAccounted DEF MInv
<1>4. ASSUME NEW e \in Device, Begin(e)
      PROVE  OneRequest(d)' /\ Accounted(d)'
  <2>1. d \notin foreign /\ OneRequest(d) /\ Accounted(d)
    BY <1>0, <1>4, BeginEffect DEF MInv
  <2>2. CASE e = d
    BY <1>0, <1>4, <2>1, <2>2, BeginAccounted
  <2>3. CASE e # d
    BY <1>0, <1>4, <2>1, <2>3, BeginEffect, Unmoved
  <2> QED
    BY <2>2, <2>3
<1>5. ASSUME NEW e \in Device, Count(e)
      PROVE  OneRequest(d)' /\ Accounted(d)'
  <2>1. d \notin foreign /\ OneRequest(d) /\ Accounted(d)
    BY <1>0, <1>5, CountEffect DEF MInv
  <2>2. CASE e = d
    BY <1>0, <1>5, <2>1, <2>2, CountAccounted
  <2>3. CASE e # d
    BY <1>0, <1>5, <2>1, <2>3, CountEffect, Unmoved
  <2> QED
    BY <2>2, <2>3
<1>6. ASSUME NEW e \in Device, Read(e)
      PROVE  OneRequest(d)' /\ Accounted(d)'
  <2>1. d \notin foreign /\ OneRequest(d) /\ Accounted(d)
    BY <1>0, <1>6, ReadEffect DEF MInv
  <2>2. CASE e = d
    BY <1>0, <1>6, <2>1, <2>2, ReadAccounted
  <2>3. CASE e # d
    BY <1>0, <1>6, <2>1, <2>3, ReadEffect, Unmoved
  <2> QED
    BY <2>2, <2>3
<1>7. ASSUME NEW e \in Device, Answer(e)
      PROVE  OneRequest(d)' /\ Accounted(d)'
  <2>1. foreign \subseteq foreign'
    BY <1>0, <1>7, AnswerEffect
  <2>2. d \notin foreign /\ OneRequest(d) /\ Accounted(d)
    BY <2>1 DEF MInv
  <2>3. CASE e = d
    BY <1>0, <1>7, <2>2, <2>3, AnswerAccounted
  <2>4. CASE e # d
    <3>1. ~ Takes(d, e)
      BY <1>0, <1>7, <2>4, AnswerEffect
    <3>2. /\ walk'[d] = walk[d] /\ inbox'[d] = inbox[d] /\ handler'[d] = handler[d]
          /\ UNCHANGED <<alive, start, removed, torn>>
      BY <1>0, <1>7, <2>4, <3>1, AnswerEffect
    <3> QED
      BY <2>2, <3>2, Unmoved
  <2> QED
    BY <2>3, <2>4
<1> QED
  BY <1>1, <1>2, <1>3, <1>4, <1>5, <1>6, <1>7 DEF Next, Serve

\* Whatever is sent and deleted while it pages, a device that took no foreign
\* answer misses, of the messages that were there all the time, at most one
\* for each deletion and for each message between two queries of a request
\* (helper_mixins.py:391).
THEOREM NoMoreIsMissed == Spec => []MissesNoMore
<1>1. MInv => MissesNoMore
  BY DEF MInv, Accounted, MissesNoMore
<1> QED
  BY <1>1, InitAccounted, NextAccounted, PTL DEF Spec

-----------------------------------------------------------------------------
(***************************************************************************)
(* A quiet room.                                                           *)
(***************************************************************************)

\* What a page of a room that does not change holds, and what is left.
LEMMA QuietPage ==
    ASSUME Typed, NEW z \in Nat \ {0},
           NEW p \in 1 .. Pages(Cardinality(alive), z)
    PROVE  LET N    == Cardinality(alive)
               last == Pages(N, z)
           IN
           /\ last \in Nat \ {0}
           /\ GetPage(p, N, z) = p
           /\ p < last =>
                  Passed(alive, alive, (p - 1) * z) \cup Slice(p, N, z)
                      = Passed(alive, alive, p * z)
           /\ p = last =>
                  Passed(alive, alive, (p - 1) * z) \cup Slice(p, N, z) = alive
<1> DEFINE N    == Cardinality(alive)
           last == Pages(N, z)
<1>1. N \in Nat
  BY AliveFinite DEF Typed
<1>2. /\ last \in Nat \ {0} /\ N =< last * z
      /\ \A q \in Nat : q < last => q * z < N \/ q = 0
  BY <1>1, PagesReach
<1>3. p \in Nat \ {0} /\ p =< last
  BY <1>2
<1>4. GetPage(p, N, z) = p
  BY <1>3 DEF GetPage
<1>5. (p - 1) * z \in Nat /\ p * z \in Nat /\ p * z = (p - 1) * z + z
  BY <1>3
<1>6. \A m \in alive : /\ RankIn(alive, m) \in Nat /\ RankIn(alive, m) =< N
                       /\ Rank(m) = RankIn(alive, m)
  BY AliveFinite, RankType DEF Typed, Rank, RankIn
<1>7. ASSUME p < last
      PROVE  Passed(alive, alive, (p - 1) * z) \cup Slice(p, N, z)
                 = Passed(alive, alive, p * z)
  <2>1. p * z < N
    BY <1>2, <1>3, <1>7
  <2>2. Slice(p, N, z) = {m \in alive : (p - 1) * z < Rank(m) /\ Rank(m) =< p * z}
    BY <1>1, <1>5, <2>1 DEF Slice
  <2>3. \A m \in alive :
            \/ RankIn(alive, m) =< (p - 1) * z
            \/ (p - 1) * z < RankIn(alive, m) /\ RankIn(alive, m) =< p * z
            <=> RankIn(alive, m) =< p * z
    BY <1>5, <1>6
  <2> QED
    BY <1>6, <2>2, <2>3 DEF Passed
<1>8. ASSUME p = last
      PROVE  Passed(alive, alive, (p - 1) * z) \cup Slice(p, N, z) = alive
  <2>1. (p - 1) * z + z >= N
    BY <1>1, <1>2, <1>5, <1>8
  <2>2. Slice(p, N, z) = {m \in alive : (p - 1) * z < Rank(m) /\ Rank(m) =< N}
    BY <1>1, <1>5, <2>1 DEF Slice
  <2>3. \A m \in alive :
            \/ RankIn(alive, m) =< (p - 1) * z
            \/ (p - 1) * z < RankIn(alive, m) /\ RankIn(alive, m) =< N
    BY <1>5, <1>6
  <2> QED
    BY <1>6, <2>2, <2>3 DEF Passed
<1> QED
  BY <1>2, <1>4, <1>7, <1>8

\* A device that a step does not touch.
LEMMA UnmovedComplete ==
    ASSUME NEW d \in Device, Complete(d),
           alive' = alive, walk'[d] = walk[d], inbox'[d] = inbox[d],
           handler'[d] = handler[d]
    PROVE  Complete(d)'
<1>1. Passed(alive, alive, (walk[d].page - 1) * walk[d].size)' =
          Passed(alive, alive, (walk[d].page - 1) * walk[d].size)
  BY DEF Passed
<1>2. Slice(handler[d].page, Cardinality(alive), walk[d].size)' =
          Slice(handler[d].page, Cardinality(alive), walk[d].size)
  BY DEF Slice, Rank
<1>3. Pages(Cardinality(alive), walk[d].size)' = Pages(Cardinality(alive), walk[d].size)
  BY DEF Pages
<1> QED
  BY <1>1, <1>2, <1>3 DEF Complete, Walking

LEMMA InitComplete == Init => QInv
<1> SUFFICES ASSUME Init, NEW d \in Device
             PROVE  Complete(d)
  BY InitTyped DEF QInv
<1>1. /\ walk[d].state = "new" /\ walk[d].got = {} /\ inbox[d] = <<>>
      /\ handler[d].step = "idle"
  BY DEF Init, NoRequest
<1> QED
  BY <1>1, EmptySeq DEF Complete, Walking

LEMMA BeginComplete ==
    ASSUME Typed, NEW d \in Device, Begin(d), Complete(d)
    PROVE  Complete(d)'
<1> DEFINE z    == walk[d].size
           N    == Cardinality(alive)
           last == Pages(N, z)
<1>1. /\ walk[d].state = "new" /\ walk[d].got = {}
      /\ walk'[d].state = "walking" /\ walk'[d].page = 1
      /\ walk'[d].got = {} /\ walk'[d].size = z
      /\ inbox'[d] = Append(inbox[d], 1)
      /\ UNCHANGED <<alive, handler>>
  BY BeginEffect DEF Typed, Complete
<1>2. z \in Nat \ {0} /\ last \in Nat \ {0}
  BY MissedFinite, AliveFinite, PagesReach DEF Typed
<1>3. last' = last
  BY <1>1 DEF Pages
<1>4. inbox'[d] \in Seq(1 .. last)
  BY <1>1, <1>2, AppendProperties DEF Complete
<1>5. Slice(handler[d].page, N, z)' = Slice(handler[d].page, N, z)
  BY <1>1 DEF Slice, Rank
<1>6. Passed(alive, alive, (walk[d].page - 1) * walk[d].size)' = {}
  <2>1. (walk'[d].page - 1) * walk'[d].size = 0
    BY <1>1, <1>2
  <2>2. \A m \in alive : RankIn(alive, m) \in Nat /\ RankIn(alive, m) >= 1
    BY AliveFinite, RankType DEF Typed
  <2> QED
    BY <1>1, <2>1, <2>2 DEF Passed
<1> QED
  BY <1>1, <1>2, <1>3, <1>4, <1>5, <1>6 DEF Complete, Walking

LEMMA CountComplete ==
    ASSUME Typed, NEW d \in Device, Count(d), Complete(d)
    PROVE  Complete(d)'
<1> DEFINE last == Pages(Cardinality(alive), walk[d].size)
<1>1. /\ inbox[d] # <<>> /\ inbox'[d] = Tail(inbox[d])
      /\ handler'[d].step = "counted"
      /\ handler'[d].page = Head(inbox[d])
      /\ handler'[d].count = Cardinality(alive)
      /\ UNCHANGED <<alive, walk>>
  BY CountEffect DEF Typed
<1>2. Head(inbox[d]) \in 1 .. last /\ Tail(inbox[d]) \in Seq(1 .. last)
  BY <1>1, HeadTailProperties DEF Complete
<1>3. last' = last
  BY <1>1 DEF Pages
<1>4. Passed(alive, alive, (walk[d].page - 1) * walk[d].size)' =
          Passed(alive, alive, (walk[d].page - 1) * walk[d].size)
  BY <1>1 DEF Passed
<1> QED
  BY <1>1, <1>2, <1>3, <1>4 DEF Complete, Walking

LEMMA ReadComplete ==
    ASSUME Typed, NEW d \in Device, Read(d), Complete(d)
    PROVE  Complete(d)'
<1> DEFINE z    == walk[d].size
           N    == Cardinality(alive)
           last == Pages(N, z)
           p    == handler[d].page
<1>1. p \in 1 .. last /\ handler[d].count = N /\ z \in Nat \ {0}
  BY MissedFinite DEF Complete, Read
<1>2. GetPage(p, N, z) = p
  BY <1>1, QuietPage
<1>3. /\ handler'[d].step = "read" /\ handler'[d].page = p
      /\ handler'[d].next = IF p < last THEN p + 1 ELSE 0
      /\ handler'[d].data = Slice(p, N, z)
      /\ UNCHANGED <<alive, walk, inbox>>
  BY <1>1, <1>2, ReadEffect DEF Typed
<1>4. last' = last
  BY <1>3 DEF Pages
<1>5. Slice(handler[d].page, N, z)' = Slice(p, N, z)
  BY <1>3 DEF Slice, Rank
<1>6. Passed(alive, alive, (walk[d].page - 1) * z)' =
          Passed(alive, alive, (walk[d].page - 1) * z)
  BY <1>3 DEF Passed
<1> QED
  BY <1>1, <1>3, <1>4, <1>5, <1>6 DEF Complete, Walking

\* Whichever device asked, the answer is the page that is waited for.
LEMMA AnswerComplete ==
    ASSUME Typed, NEW d \in Device, Answer(d), Complete(d),
           NEW e \in Device, Complete(e)
    PROVE  Complete(e)'
<1> DEFINE z    == walk[e].size
           N    == Cardinality(alive)
           last == Pages(N, z)
           h    == handler[d]
           p    == h.page
<1>0. TypeOK
  BY DEF Typed
<1>1. /\ h.step = "read" /\ alive' = alive
      /\ IF e = d THEN handler'[e].step = "idle" ELSE handler'[e] = handler[e]
  BY <1>0, AnswerEffect
<1>2. z \in Nat \ {0}
  BY MissedFinite
<1>3. Slice(handler[e].page, N, z)' = Slice(handler'[e].page, N, z')
  BY <1>1 DEF Slice, Rank
<1>4. CASE Takes(e, d)
  <2>1. /\ walk'[e].got = walk[e].got \cup h.data
        /\ walk'[e].page = h.next
        /\ walk'[e].size = z
        /\ walk'[e].state = IF h.next = 0 THEN "done" ELSE "walking"
        /\ inbox'[e] = IF h.next # 0 THEN Append(inbox[e], h.next) ELSE inbox[e]
    BY <1>0, <1>4, AnswerEffect
  <2>2. /\ Walking(e) /\ walk[e].page = p /\ walk[d].size = z
    BY <1>4 DEF Takes
  <2>3. /\ p \in 1 .. last
        /\ h.next = IF p < last THEN p + 1 ELSE 0
        /\ h.data = Slice(p, N, z)
        /\ walk[e].got = Passed(alive, alive, (p - 1) * z)
    BY <1>1, <2>2 DEF Complete
  <2>4. /\ last \in Nat \ {0}
        /\ p < last => walk'[e].got = Passed(alive, alive, p * z)
        /\ p = last => walk'[e].got = alive
    BY <1>2, <2>1, <2>3, QuietPage
  <2>5. last' = last
    BY <1>1, <2>1 DEF Pages
  <2>6. /\ handler'[e].step # "idle" => handler'[e].page \in 1 .. last
        /\ handler'[e].step = "counted" => handler'[e].count = N
        /\ handler'[e].step = "read" =>
              /\ handler'[e].next =
                     IF handler'[e].page < last THEN handler'[e].page + 1 ELSE 0
              /\ handler'[e].data = Slice(handler'[e].page, N, z)
    BY <1>1 DEF Complete
  <2>7. CASE p < last
    <3>1. h.next = p + 1 /\ h.next \in 1 .. last /\ h.next # 0 /\ h.next - 1 = p
      BY <2>3, <2>4, <2>7
    <3>2. inbox'[e] \in Seq(1 .. last)
      BY <2>1, <3>1, AppendProperties DEF Complete
    <3>3. Passed(alive, alive, (walk[e].page - 1) * walk[e].size)' = walk'[e].got
      BY <1>1, <2>1, <2>4, <2>7, <3>1 DEF Passed
    <3> QED
      BY <1>1, <1>3, <2>1, <2>5, <2>6, <3>1, <3>2, <3>3 DEF Complete, Walking
  <2>8. CASE p = last
    <3>1. h.next = 0 /\ walk'[e].state = "done"
      BY <2>1, <2>3, <2>4, <2>8
    <3>2. inbox'[e] \in Seq(1 .. last)
      BY <2>1, <3>1 DEF Complete
    <3> QED
      BY <1>1, <1>3, <2>1, <2>4, <2>5, <2>6, <2>8, <3>1, <3>2 DEF Complete, Walking
  <2> QED
    BY <2>3, <2>4, <2>7, <2>8
<1>5. CASE ~ Takes(e, d)
  <2>1. walk'[e] = walk[e] /\ inbox'[e] = inbox[e]
    BY <1>0, <1>5, AnswerEffect
  <2>2. last' = last
    BY <1>1, <2>1 DEF Pages
  <2>3. Passed(alive, alive, (walk[e].page - 1) * z)' =
            Passed(alive, alive, (walk[e].page - 1) * z)
    BY <1>1, <2>1 DEF Passed
  <2> QED
    BY <1>1, <1>3, <2>1, <2>2, <2>3 DEF Complete, Walking
<1> QED
  BY <1>4, <1>5

LEMMA NextComplete == QInv /\ [Next]_vars => QInv'
<1> SUFFICES ASSUME QInv, [Next]_vars, changes' = 0, NEW e \in Device
             PROVE  Complete(e)'
  BY NextTyped DEF QInv
<1>0. Typed /\ TypeOK /\ changes \in Nat
  BY DEF QInv, Typed, TypeOK
<1>1. CASE UNCHANGED vars
  BY <1>1, UnmovedComplete DEF QInv, vars, messages
<1>2. CASE Arrive \/ \E m \in Number : Remove(m)
  <2>1. changes' = changes + 1
    BY <1>2 DEF Arrive, Remove, Change
  <2> QED
    BY <1>0, <2>1
<1>3. ASSUME NEW d \in Device, Serve(d)
      PROVE  Complete(e)'
  <2>0. changes = 0
    BY <1>3 DEF Serve, Begin, Count, Read, Answer, messages
  <2>1. Complete(d) /\ Complete(e)
    BY <2>0 DEF QInv
  <2>2. CASE Begin(d)
    <3>1. CASE e = d
      BY <1>0, <2>1, <2>2, <3>1, BeginComplete
    <3>2. CASE e # d
      BY <1>0, <2>1, <2>2, <3>2, BeginEffect, UnmovedComplete
    <3> QED
      BY <3>1, <3>2
  <2>3. CASE Count(d)
    <3>1. CASE e = d
      BY <1>0, <2>1, <2>3, <3>1, CountComplete
    <3>2. CASE e # d
      BY <1>0, <2>1, <2>3, <3>2, CountEffect, UnmovedComplete
    <3> QED
      BY <3>1, <3>2
  <2>4. CASE Read(d)
    <3>1. CASE e = d
      BY <1>0, <2>1, <2>4, <3>1, ReadComplete
    <3>2. CASE e # d
      BY <1>0, <2>1, <2>4, <3>2, ReadEffect, UnmovedComplete
    <3> QED
      BY <3>1, <3>2
  <2>5. CASE Answer(d)
    BY <1>0, <2>1, <2>5, AnswerComplete
  <2> QED
    BY <1>3, <2>2, <2>3, <2>4, <2>5 DEF Serve
<1> QED
  BY <1>1, <1>2, <1>3 DEF Next

\* A user whose devices page through a room where nothing is sent or deleted
\* gets all its messages on each device, although every answer goes to all of
\* them (consumers.py:546) and a device takes those to the others' requests.
THEOREM QuietIsComplete == Spec => []QuietRoomIsComplete
<1>1. QInv => QuietRoomIsComplete
  BY DEF QInv, Complete, QuietRoomIsComplete
<1> QED
  BY <1>1, InitComplete, NextComplete, PTL DEF Spec

-----------------------------------------------------------------------------
(***************************************************************************)
(* How a walk ends.                                                        *)
(***************************************************************************)

\* The pages the room ever had, at the size of device d.
PagesEver(d) == Pages(created, walk[d].size)

\* Nobody asks for a page beyond those, and the page after the one that was
\* asked for is the only other one an answer names.
Within(d) ==
    LET h == handler[d] IN
    /\ inbox[d] \in Seq(1 .. PagesEver(d))
    /\ h.step # "idle" => h.page \in 1 .. PagesEver(d)
    /\ h.step = "counted" => h.count =< created
    /\ h.step = "read" => h.next \in {0, h.page + 1} /\ h.next =< PagesEver(d)
    /\ Walking(d) => walk[d].page \in 1 .. PagesEver(d)

WInv == Typed /\ \A d \in Device : Within(d)

\* What may happen to the walk of d: it begins, goes one page on, or ends.
Onward(d) ==
    walk'[d] # walk[d] =>
        \/ /\ walk[d].state = "new"
           /\ walk'[d].state = "walking" /\ walk'[d].page = 1
        \/ /\ Walking(d)
           /\ \/ walk'[d].state = "done"
              \/ /\ walk'[d].state = "walking"
                 /\ walk'[d].page = walk[d].page + 1
                 /\ walk'[d].page =< PagesEver(d)

LEMMA PagesGrow ==
    ASSUME NEW a \in Nat, NEW b \in Nat, a =< b, NEW z \in Nat \ {0}
    PROVE  Pages(a, z) =< Pages(b, z)
<1> DEFINE q == Pages(b, z)
<1>1. q \in Nat \ {0} /\ b =< q * z /\ Pages(a, z) \in Nat
  BY PagesReach
<1>2. q < Pages(a, z) => q * z < a \/ q = 0
  BY <1>1, PagesReach
<1>3. q * z \in Nat
  BY <1>1
<1> HIDE DEF q
<1>4. Pages(a, z) =< q
  BY <1>1, <1>2, <1>3
<1> QED
  BY <1>4 DEF q

LEMMA EverTypes ==
    ASSUME Typed, NEW d \in Device
    PROVE  /\ PagesEver(d) \in Nat \ {0} /\ created \in Nat
           /\ Cardinality(alive) \in Nat /\ Cardinality(alive) =< created
           /\ \A n \in Nat : n =< created => Pages(n, walk[d].size) =< PagesEver(d)
<1>1. created \in Nat /\ walk[d].size \in Nat \ {0}
  BY MissedFinite DEF Typed, TypeOK
<1>2. PagesEver(d) \in Nat \ {0}
  BY <1>1, PagesReach DEF PagesEver
<1>3. IsFiniteSet(1 .. created) /\ Cardinality(1 .. created) = created
  BY <1>1, FS_Interval
<1>4. Cardinality(alive) =< created
  BY <1>3, FS_Subset DEF Typed, TypeOK
<1> QED
  BY <1>1, <1>2, <1>4, PagesGrow, AliveFinite DEF PagesEver, Typed

LEMMA InitWithin == Init => WInv
<1> SUFFICES ASSUME Init, NEW d \in Device
             PROVE  Within(d)
  BY InitTyped DEF WInv
<1>1. walk[d].state = "new" /\ inbox[d] = <<>> /\ handler[d].step = "idle"
  BY DEF Init, NoRequest
<1> QED
  BY <1>1, EmptySeq DEF Within, Walking

\* A room that gets more messages has no fewer pages.
LEMMA UnmovedWithin ==
    ASSUME Typed, NEW d \in Device, Within(d),
           created' = created \/ created' = created + 1,
           walk'[d] = walk[d], inbox'[d] = inbox[d], handler'[d] = handler[d]
    PROVE  Within(d)'
<1>1. PagesEver(d)' = Pages(created', walk[d].size) /\ created =< created'
      /\ created' \in Nat
  BY EverTypes DEF PagesEver
<1>2. PagesEver(d) =< PagesEver(d)' /\ PagesEver(d) \in Nat /\ PagesEver(d)' \in Nat
  BY <1>1, EverTypes, MissedFinite, PagesGrow, PagesReach DEF PagesEver
<1>3. 1 .. PagesEver(d) \subseteq 1 .. PagesEver(d)'
  BY <1>2
<1>4. inbox[d] \in Seq(1 .. PagesEver(d)')
  <2>1. inbox[d] \in Seq(1 .. PagesEver(d))
    BY DEF Within
  <2> QED
    BY <1>3, <2>1, SeqMonotonic
<1>5. handler[d].count \in Nat /\ handler[d].next \in Nat /\ created \in Nat
  BY MissedFinite, EverTypes
<1> QED
  BY <1>1, <1>2, <1>3, <1>4, <1>5 DEF Within, Walking

LEMMA BeginWithin ==
    ASSUME Typed, NEW d \in Device, Begin(d), Within(d)
    PROVE  Within(d)' /\ Onward(d)
<1>1. /\ walk[d].state = "new" /\ walk'[d].state = "walking" /\ walk'[d].page = 1
      /\ walk'[d].size = walk[d].size
      /\ inbox'[d] = Append(inbox[d], 1)
      /\ UNCHANGED <<created, handler>>
  BY BeginEffect DEF Typed
<1>2. PagesEver(d)' = PagesEver(d) /\ PagesEver(d) \in Nat \ {0}
  BY <1>1, EverTypes DEF PagesEver
<1>3. inbox'[d] \in Seq(1 .. PagesEver(d))
  BY <1>1, <1>2, AppendProperties DEF Within
<1> QED
  BY <1>1, <1>2, <1>3 DEF Within, Walking, Onward

LEMMA CountWithin ==
    ASSUME Typed, NEW d \in Device, Count(d), Within(d)
    PROVE  Within(d)'
<1>1. /\ inbox[d] # <<>> /\ inbox'[d] = Tail(inbox[d])
      /\ handler'[d].step = "counted" /\ handler'[d].page = Head(inbox[d])
      /\ handler'[d].count = Cardinality(alive)
      /\ UNCHANGED <<created, walk>>
  BY CountEffect DEF Typed
<1>2. PagesEver(d)' = PagesEver(d) /\ Cardinality(alive) =< created
  BY <1>1, EverTypes DEF PagesEver
<1>3. Head(inbox[d]) \in 1 .. PagesEver(d) /\ Tail(inbox[d]) \in Seq(1 .. PagesEver(d))
  BY <1>1, HeadTailProperties DEF Within
<1> QED
  BY <1>1, <1>2, <1>3 DEF Within, Walking

\* A page that is gone is answered with the last one, which has no next.
LEMMA ReadWithin ==
    ASSUME Typed, NEW d \in Device, Read(d), Within(d)
    PROVE  Within(d)'
<1> DEFINE h    == handler[d]
           last == Pages(h.count, walk[d].size)
           page == GetPage(h.page, h.count, walk[d].size)
<1>1. /\ h.step = "counted" /\ handler'[d].step = "read" /\ handler'[d].page = h.page
      /\ handler'[d].next = IF page < last THEN page + 1 ELSE 0
      /\ UNCHANGED <<created, walk, inbox>>
  BY ReadEffect DEF Typed
<1>2. PagesEver(d)' = PagesEver(d)
  BY <1>1 DEF PagesEver
<1>3. h.page \in 1 .. PagesEver(d) /\ h.count =< created /\ h.count \in Nat
  BY <1>1, MissedFinite DEF Within
<1>4. last \in Nat /\ last =< PagesEver(d) /\ PagesEver(d) \in Nat
  BY <1>3, EverTypes, MissedFinite, PagesReach
<1>5. handler'[d].next = IF h.page < last THEN h.page + 1 ELSE 0
  BY <1>1, <1>3, <1>4 DEF GetPage
<1>6. handler'[d].next \in {0, h.page + 1} /\ handler'[d].next =< PagesEver(d)
  BY <1>3, <1>4, <1>5
<1> QED
  BY <1>1, <1>2, <1>3, <1>6 DEF Within, Walking

LEMMA AnswerWithin ==
    ASSUME Typed, NEW d \in Device, Answer(d), Within(d),
           NEW e \in Device, Within(e)
    PROVE  Within(e)' /\ Onward(e)
<1> DEFINE h == handler[d]
<1>1. /\ h.step = "read" /\ created' = created
      /\ IF e = d THEN handler'[e].step = "idle" ELSE handler'[e] = handler[e]
  BY AnswerEffect DEF Typed
<1>2. CASE Takes(e, d)
  <2>1. /\ walk'[e].page = h.next /\ walk'[e].size = walk[e].size
        /\ walk'[e].state = IF h.next = 0 THEN "done" ELSE "walking"
        /\ inbox'[e] = IF h.next # 0 THEN Append(inbox[e], h.next) ELSE inbox[e]
    BY <1>2, AnswerEffect DEF Typed
  <2>2. Walking(e) /\ walk[e].page = h.page /\ PagesEver(d) = PagesEver(e)
    BY <1>2 DEF Takes, PagesEver
  <2>3. PagesEver(e)' = PagesEver(e) /\ PagesEver(e) \in Nat \ {0}
    BY <1>1, <2>1, EverTypes DEF PagesEver
  <2>4. /\ h.next # 0 => /\ h.next = walk[e].page + 1
                         /\ h.next \in 1 .. PagesEver(e)
    BY <1>1, <2>2, <2>3, MissedFinite DEF Within
  <2>5. inbox'[e] \in Seq(1 .. PagesEver(e))
    <3>1. inbox[e] \in Seq(1 .. PagesEver(e))
      BY DEF Within
    <3>2. CASE h.next = 0
      BY <2>1, <3>1, <3>2
    <3>3. CASE h.next # 0
      <4>1. h.next \in 1 .. PagesEver(e) /\ inbox'[e] = Append(inbox[e], h.next)
        BY <2>1, <2>4, <3>3
      <4> QED
        BY <3>1, <4>1, AppendProperties
    <3> QED
      BY <3>2, <3>3
  <2> QED
    BY <1>1, <2>1, <2>2, <2>3, <2>4, <2>5 DEF Within, Walking, Onward
<1>3. CASE ~ Takes(e, d)
  <2>1. walk'[e] = walk[e] /\ inbox'[e] = inbox[e]
    BY <1>3, AnswerEffect DEF Typed
  <2>2. PagesEver(e)' = PagesEver(e)
    BY <1>1, <2>1 DEF PagesEver
  <2> QED
    BY <1>1, <2>1, <2>2 DEF Within, Walking, Onward
<1> QED
  BY <1>2, <1>3

LEMMA NextWithin == WInv /\ [Next]_vars => WInv' /\ \A d \in Device : Onward(d)
<1> SUFFICES ASSUME WInv, [Next]_vars, NEW e \in Device
             PROVE  Within(e)' /\ Onward(e)
  BY NextTyped DEF WInv
<1>0. Typed /\ TypeOK /\ Within(e)
  BY DEF WInv, Typed
<1>1. ASSUME walk'[e] = walk[e], inbox'[e] = inbox[e], handler'[e] = handler[e],
             created' = created \/ created' = created + 1
      PROVE  Within(e)' /\ Onward(e)
  BY <1>0, <1>1, UnmovedWithin DEF Onward
<1>2. CASE UNCHANGED vars
  BY <1>1, <1>2 DEF vars, messages
<1>3. CASE Arrive
  BY <1>1, <1>3 DEF Arrive
<1>4. ASSUME NEW m \in Number, Remove(m)
      PROVE  Within(e)' /\ Onward(e)
  BY <1>1, <1>4 DEF Remove
<1>5. ASSUME NEW d \in Device, Begin(d)
      PROVE  Within(e)' /\ Onward(e)
  <2>1. CASE e = d
    BY <1>0, <1>5, <2>1, BeginWithin
  <2>2. CASE e # d
    BY <1>0, <1>1, <1>5, <2>2, BeginEffect
  <2> QED
    BY <2>1, <2>2
<1>6. ASSUME NEW d \in Device, Count(d)
      PROVE  Within(e)' /\ Onward(e)
  <2>1. walk' = walk /\ created' = created
    BY <1>0, <1>6, CountEffect
  <2>2. CASE e = d
    BY <1>0, <1>6, <2>1, <2>2, CountWithin DEF Onward
  <2>3. CASE e # d
    BY <1>0, <1>1, <1>6, <2>1, <2>3, CountEffect
  <2> QED
    BY <2>2, <2>3
<1>7. ASSUME NEW d \in Device, Read(d)
      PROVE  Within(e)' /\ Onward(e)
  <2>1. walk' = walk /\ created' = created
    BY <1>0, <1>7, ReadEffect
  <2>2. CASE e = d
    BY <1>0, <1>7, <2>1, <2>2, ReadWithin DEF Onward
  <2>3. CASE e # d
    BY <1>0, <1>1, <1>7, <2>1, <2>3, ReadEffect
  <2> QED
    BY <2>2, <2>3
<1>8. ASSUME NEW d \in Device, Answer(d)
      PROVE  Within(e)' /\ Onward(e)
  BY <1>0, <1>8, AnswerWithin DEF WInv
<1> QED
  BY <1>2, <1>3, <1>4, <1>5, <1>6, <1>7, <1>8 DEF Next, Serve

\* Each answer a device takes ends its walk or moves it one page on, never
\* past the pages the room ever had, although the answer to a page that has
\* disappeared is the last page (helper_mixins.py:391): what the end of every
\* walk rests on.
THEOREM WalksGoOn == Spec => [][\A d \in Device : Onward(d)]_vars
<1>1. WInv /\ [Next]_vars => WInv' /\ [\A d \in Device : Onward(d)]_vars
  BY NextWithin
<1> QED
  BY <1>1, InitWithin, PTL DEF Spec
=============================================================================
