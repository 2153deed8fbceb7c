------------------------- MODULE DirectChats_proofs -------------------------
(***************************************************************************)
(* Proofs about DirectChats, for any accounts, rooms and worker processes. *)
(* Stages is inductive with either isolation; Guarded, the reason why no   *)
(* pair gets a second chat, only where the database locks.                 *)
(***************************************************************************)
EXTENDS DirectChats, FiniteSetTheorems, TLAPS

\* A creation under way has a room of its own, with a row and nobody in it;
\* what it inserted is a pair; and who is in a room is in a room with a row.
Stages ==
    /\ TypeOK
    /\ \A r \in Room : people[r] # {} => r \in rows /\ people[r] \in Pair
    /\ \A w \in Worker : (stage[w] = "idle") <=> (room[w] = None)
    /\ \A w \in Worker :
           stage[w] # "idle" => room[w] \in rows /\ people[room[w]] = {}
    /\ \A v, w \in Worker : room[v] = room[w] /\ room[v] # None => v = w
    /\ \A w \in Worker : stage[w] = "added" => asked[w] \in Pair
    /\ AllOrNothing

\* A transaction that has found no chat of its pair is still right about it.
Guarded ==
    \A w \in Worker :
        stage[w] \in {"checked", "added"} /\ asked[w] \in Pair =>
            \A r \in rows : people[r] # asked[w]

Inv == Stages /\ Guarded /\ UniquePair

USE DEF Stage, Goto, End

LEMMA InitStages == Init => Stages
  BY NoneAssumption DEF Init, Stages, TypeOK, AllOrNothing

LEMMA PairNotEmpty == \A p \in Pair : p # {} /\ p \subseteq User
  <1>1. Cardinality({}) = 0
    BY FS_EmptySet
  <1>2. QED
    BY <1>1 DEF Pair

-----------------------------------------------------------------------------
LEMMA SaveStages ==
  ASSUME Stages, NEW w \in Worker, NEW S \in SUBSET User, NEW r \in Room,
         Save(w, S, r)
  PROVE  Stages'
  <1>1. TypeOK'
    BY DEF Stages, TypeOK, Save
  <1>2. r \notin rows /\ people[r] = {} /\ \A v \in Worker : room[v] # r
    BY NoneAssumption DEF Stages, Save
  <1>3. /\ rows' = rows \cup {r} /\ people' = people /\ cut' = cut
        /\ room'[w] = r /\ stage'[w] = "saved"
        /\ \A v \in Worker \ {w} :
              room'[v] = room[v] /\ stage'[v] = stage[v] /\ asked'[v] = asked[v]
    BY DEF Stages, TypeOK, Save
  <1>4. room[w] = None /\ None \notin rows
    BY NoneAssumption DEF Stages, TypeOK, Save
  <1>5. AllOrNothing'
    <2>1. ASSUME NEW d \in rows
          PROVE  \/ people'[d] \in Pair
                 \/ /\ people'[d] = {}
                    /\ d \in cut' \/ \E v \in Worker : room'[v] = d
      BY <1>3, <1>4 DEF Stages, AllOrNothing
    <2>2. people'[r] = {} /\ room'[w] = r
      BY <1>2, <1>3
    <2>3. QED
      BY <1>3, <2>1, <2>2 DEF AllOrNothing
  <1>6. QED
    BY <1>5, <1>1, <1>2, <1>3, <1>4, NoneAssumption DEF Stages

\* A step inside a creation: only its stage changes.
LEMMA MovedStages ==
  ASSUME Stages, NEW w \in Worker, NEW s \in {"checked", "added", "refused"},
         stage[w] # "idle", s = "added" => asked[w] \in Pair,
         Goto(w, s), UNCHANGED <<rows, people, room, asked, cut>>
  PROVE  Stages'
  <1>1. TypeOK'
    BY DEF Stages, TypeOK
  <1>2. /\ stage'[w] = s
        /\ \A v \in Worker \ {w} : stage'[v] = stage[v]
    BY DEF Stages, TypeOK
  <1>3. AllOrNothing'
    BY DEF Stages, AllOrNothing
  <1>4. QED
    BY <1>1, <1>2, <1>3 DEF Stages

\* The end of a creation, whether its room got its pair, stays without or goes.
LEMMA EndedStages ==
  ASSUME Stages, NEW w \in Worker, stage[w] # "idle", End(w),
         \/ /\ asked[w] \in Pair
            /\ people' = [people EXCEPT ![room[w]] = asked[w]]
            /\ UNCHANGED <<rows, cut>>
         \/ cut' = cut \cup {room[w]} /\ UNCHANGED <<rows, people>>
         \/ rows' = rows \ {room[w]} /\ UNCHANGED <<people, cut>>
  PROVE  Stages'
  <1>1. room[w] \in rows /\ room[w] \in Room /\ people[room[w]] = {}
    BY DEF Stages, TypeOK
  <1>2. /\ stage'[w] = "idle" /\ room'[w] = None
        /\ \A v \in Worker \ {w} :
              /\ room'[v] = room[v] /\ stage'[v] = stage[v]
              /\ asked'[v] = asked[v] /\ room[v] # room[w]
    BY <1>1, NoneAssumption DEF Stages, TypeOK
  <1>3. TypeOK'
    BY <1>1, PairNotEmpty DEF Stages, TypeOK
  <1>4. CASE people' = [people EXCEPT ![room[w]] = asked[w]]
             /\ asked[w] \in Pair /\ UNCHANGED <<rows, cut>>
    <2>1. /\ people'[room[w]] = asked[w]
          /\ \A r \in Room \ {room[w]} : people'[r] = people[r]
      BY <1>1, <1>4 DEF Stages, TypeOK
    <2>2. AllOrNothing'
      BY <1>1, <1>2, <1>4, <2>1 DEF Stages, TypeOK, AllOrNothing
    <2>3. \A v \in Worker : stage'[v] # "idle" =>
              room'[v] \in rows' /\ people'[room'[v]] = {}
      BY <1>1, <1>2, <1>4, <2>1 DEF Stages, TypeOK
    <2>4. QED
      BY <1>1, <1>2, <1>3, <1>4, <2>1, <2>2, <2>3 DEF Stages, TypeOK
  <1>5. CASE cut' = cut \cup {room[w]} /\ UNCHANGED <<rows, people>>
    <2>1. AllOrNothing'
      BY <1>1, <1>2, <1>5 DEF Stages, AllOrNothing
    <2>2. QED
      BY <1>1, <1>2, <1>3, <1>5, <2>1 DEF Stages, TypeOK
  <1>6. CASE rows' = rows \ {room[w]} /\ UNCHANGED <<people, cut>>
    <2>1. AllOrNothing'
      BY <1>1, <1>2, <1>6 DEF Stages, AllOrNothing
    <2>2. QED
      BY <1>1, <1>2, <1>3, <1>6, <2>1 DEF Stages, TypeOK
  <1>7. QED
    BY <1>4, <1>5, <1>6

LEMMA DeletedStages ==
  ASSUME Stages, NEW r \in Room, DeleteChat(r)
  PROVE  Stages'
  <1>1. TypeOK'
    BY DEF Stages, TypeOK, DeleteChat
  <1>2. /\ rows' = rows \ {r} /\ people'[r] = {} /\ people[r] # {}
        /\ \A d \in Room \ {r} : people'[d] = people[d]
        /\ UNCHANGED <<stage, room, asked>> /\ cut \subseteq cut'
    BY DEF Stages, TypeOK, DeleteChat
  <1>3. \A w \in Worker : stage[w] # "idle" => room[w] \in Room \ {r}
    BY <1>2 DEF Stages, TypeOK
  <1>4. AllOrNothing'
    BY <1>2 DEF Stages, TypeOK, AllOrNothing
  <1>5. \A w \in Worker : stage'[w] # "idle" =>
            room'[w] \in rows' /\ people'[room'[w]] = {}
    BY <1>2, <1>3 DEF Stages
  <1>6. QED
    BY <1>1, <1>2, <1>4, <1>5 DEF Stages

LEMMA NextStages == Stages /\ [Next]_vars => Stages'
  <1> SUFFICES ASSUME Stages, [Next]_vars
               PROVE  Stages'
    OBVIOUS
  <1>1. ASSUME NEW w \in Worker, NEW S \in SUBSET User, NEW r \in Room,
               Save(w, S, r)
        PROVE  Stages'
    BY <1>1, SaveStages
  <1>2. ASSUME NEW w \in Worker, Check(w) \/ Insert(w) \/ TimeOut(w)
        PROVE  Stages'
    <2>1. PICK s \in {"checked", "added", "refused"} :
              /\ Goto(w, s) /\ UNCHANGED <<rows, people, room, asked, cut>>
              /\ s = "added" => asked[w] \in Pair
      BY <1>2 DEF Check, Insert, TimeOut
    <2>2. stage[w] # "idle"
      BY <1>2 DEF Check, Insert, TimeOut
    <2>3. QED
      BY <2>1, <2>2, MovedStages
  <1>3. ASSUME NEW w \in Worker,
               \/ RejectProperty(w) \/ Commit(w) \/ Undo(w)
               \/ UndoFails(w) \/ Crash(w)
        PROVE  Stages'
    <2>1. stage[w] # "idle" /\ End(w)
      BY <1>3 DEF RejectProperty, Commit, Undo, UndoFails, Crash
    <2>2. stage[w] = "added" => asked[w] \in Pair
      BY DEF Stages
    <2>3. \/ /\ asked[w] \in Pair
             /\ people' = [people EXCEPT ![room[w]] = asked[w]]
             /\ UNCHANGED <<rows, cut>>
          \/ cut' = cut \cup {room[w]} /\ UNCHANGED <<rows, people>>
          \/ rows' = rows \ {room[w]} /\ UNCHANGED <<people, cut>>
      BY <1>3, <2>2 DEF RejectProperty, Commit, Undo, UndoFails, Crash
    <2>4. QED
      BY <2>1, <2>3, EndedStages
  <1>4. ASSUME NEW r \in Room, DeleteChat(r)
        PROVE  Stages'
    BY <1>4, DeletedStages
  <1>5. CASE UNCHANGED vars
    BY <1>5 DEF Stages, TypeOK, AllOrNothing, vars
  <1>6. QED
    BY <1>1, <1>2, <1>3, <1>4, <1>5 DEF Next, Advance

\* Every variable keeps its type, with either isolation.
THEOREM TypeCorrect == Spec => []TypeOK
  <1>1. Stages => TypeOK
    BY DEF Stages
  <1>2. QED
    BY <1>1, InitStages, NextStages, PTL DEF Spec

\* What create() refuses leaves no room behind, and no query of any worker
\* ever sees a direct chat of one or three (serializers.py:317), with either
\* isolation.
THEOREM NothingHalf == Spec => []AllOrNothing
  <1>1. Stages => AllOrNothing
    BY DEF Stages
  <1>2. QED
    BY <1>1, InitStages, NextStages, PTL DEF Spec

-----------------------------------------------------------------------------
LEMMA InitInv == Init => Inv
  BY InitStages DEF Init, Inv, Guarded, UniquePair

\* What a step may do to the rooms others can see: nothing that the book
\* would note, one commit of a transaction that was alone, or one deletion.
LEMMA VisibleStep ==
  ASSUME Isolation = "locked", Stages, [Next]_vars
  PROVE  \/ /\ \A r \in rows' \ rows : people'[r] = {}
            /\ \A r \in rows \ rows' : people[r] = {}
            /\ people' = people
         \/ \E w \in Worker :
              /\ stage[w] = "added" /\ Open(w) = {} /\ rows' = rows
              /\ people' = [people EXCEPT ![room[w]] = asked[w]]
              /\ End(w)
         \/ \E r \in rows :
              /\ people[r] # {} /\ rows' = rows \ {r}
              /\ people' = [people EXCEPT ![r] = {}]
              /\ UNCHANGED <<stage, asked>>
  <1>1. ASSUME NEW w \in Worker, NEW S \in SUBSET User, NEW r \in Room,
               Save(w, S, r)
        PROVE  people' = people /\ rows' = rows \cup {r} /\ people[r] = {}
    BY <1>1 DEF Save, Stages
  <1>2. ASSUME NEW w \in Worker, Commit(w)
        PROVE  /\ stage[w] = "added" /\ Open(w) = {} /\ rows' = rows
               /\ people' = [people EXCEPT ![room[w]] = asked[w]]
               /\ End(w)
    BY <1>2 DEF Commit, MayCommit
  <1>3. ASSUME NEW w \in Worker, Undo(w)
        PROVE  people' = people /\ rows' = rows \ {room[w]} /\ people[room[w]] = {}
    BY <1>3 DEF Undo, Stages
  <1>4. ASSUME NEW w \in Worker,
               \/ Check(w) \/ Insert(w) \/ TimeOut(w) \/ RejectProperty(w)
               \/ UndoFails(w) \/ Crash(w)
        PROVE  UNCHANGED <<rows, people>>
    BY <1>4 DEF Check, Insert, TimeOut, RejectProperty, UndoFails, Crash
  <1>5. ASSUME NEW r \in Room, DeleteChat(r)
        PROVE  /\ r \in rows /\ people[r] # {} /\ rows' = rows \ {r}
               /\ people' = [people EXCEPT ![r] = {}]
               /\ UNCHANGED <<stage, asked>>
    BY <1>5 DEF DeleteChat
  <1>6. QED
    BY <1>1, <1>2, <1>3, <1>4, <1>5 DEF Next, Advance, vars

\* Which transactions are open, and for whom, after a step.
LEMMA OpenAfter ==
  ASSUME Stages, [Next]_vars, NEW w \in Worker,
         stage'[w] \in {"checked", "added"}, asked'[w] \in Pair
  PROVE  /\ asked'[w] = asked[w]
         /\ \/ stage[w] \in {"checked", "added"}
            \/ ChatsOf(asked[w]) = {} /\ UNCHANGED <<rows, people>>
  <1>1. ASSUME NEW v \in Worker, NEW S \in SUBSET User, NEW r \in Room,
               Save(v, S, r)
        PROVE  v # w /\ asked'[w] = asked[w] /\ stage'[w] = stage[w]
    BY <1>1 DEF Save, Stages, TypeOK
  <1>2. ASSUME NEW v \in Worker,
               Check(v) \/ Insert(v) \/ TimeOut(v)
        PROVE  /\ asked' = asked
               /\ \/ stage[w] \in {"checked", "added"}
                  \/ ChatsOf(asked[w]) = {} /\ UNCHANGED <<rows, people>>
    <2>1. asked' = asked /\ UNCHANGED <<rows, people>>
      BY <1>2 DEF Check, Insert, TimeOut
    <2>2. v # w => stage'[w] = stage[w]
      BY <1>2 DEF Check, Insert, TimeOut, Stages, TypeOK
    <2>3. Insert(w) \/ TimeOut(w) => stage[w] \in {"checked", "added"}
      BY DEF Insert, TimeOut
    <2>4. Check(w) => ChatsOf(asked[w]) = {}
      BY <2>1 DEF Check, Stages, TypeOK
    <2>5. QED
      BY <1>2, <2>1, <2>2, <2>3, <2>4
  <1>3. ASSUME NEW v \in Worker, End(v)
        PROVE  v # w /\ asked'[w] = asked[w] /\ stage'[w] = stage[w]
    BY <1>3 DEF Stages, TypeOK
  <1>4. ASSUME NEW r \in Room, DeleteChat(r)
        PROVE  asked' = asked /\ stage' = stage
    BY <1>4 DEF DeleteChat
  <1>5. CASE UNCHANGED vars
    BY <1>5 DEF vars
  <1>6. ASSUME NEW v \in Worker,
               \/ RejectProperty(v) \/ Commit(v) \/ Undo(v)
               \/ UndoFails(v) \/ Crash(v)
        PROVE  End(v)
    BY <1>6 DEF RejectProperty, Commit, Undo, UndoFails, Crash
  <1>7. QED
    BY <1>1, <1>2, <1>3, <1>4, <1>5, <1>6 DEF Next, Advance

LEMMA GuardedStep ==
  ASSUME Isolation = "locked", Inv, [Next]_vars
  PROVE  Guarded'
  <1> SUFFICES ASSUME NEW w \in Worker, stage'[w] \in {"checked", "added"},
                      asked'[w] \in Pair, NEW d \in rows'
               PROVE  people'[d] # asked'[w]
    BY DEF Guarded
  <1>1. Stages /\ asked'[w] = asked[w] /\ asked[w] # {}
    BY OpenAfter, PairNotEmpty DEF Inv
  <1>2. \/ \A r \in rows : people[r] # asked[w]
        \/ ChatsOf(asked[w]) = {} /\ UNCHANGED <<rows, people>>
    BY <1>1, OpenAfter DEF Inv, Guarded
  <1>3. \A r \in rows : people[r] # asked[w]
    BY <1>1, <1>2 DEF ChatsOf
  <1>4. CASE /\ \A r \in rows' \ rows : people'[r] = {}
             /\ people' = people
    BY <1>1, <1>3, <1>4
  <1>5. ASSUME NEW v \in Worker, stage[v] = "added", Open(v) = {}, End(v)
        PROVE  FALSE
    <2>1. v # w /\ stage'[w] = stage[w]
      BY <1>1, <1>5 DEF Stages, TypeOK
    <2>2. QED
      BY <1>5, <2>1 DEF Open
  <1>6. ASSUME NEW r \in rows, rows' = rows \ {r},
               people' = [people EXCEPT ![r] = {}]
        PROVE  people'[d] # asked'[w]
    <2>1. d \in rows /\ d # r /\ people'[d] = people[d]
      BY <1>1, <1>6 DEF Stages, TypeOK
    <2>2. QED
      BY <1>1, <1>3, <2>1
  <1>7. QED
    BY <1>1, <1>4, <1>5, <1>6, VisibleStep

LEMMA UniqueStep ==
  ASSUME Isolation = "locked", Inv, [Next]_vars
  PROVE  UniquePair'
  <1> SUFFICES ASSUME NEW d \in rows', NEW e \in rows',
                      people'[d] = people'[e], people'[d] # {}
               PROVE  d = e
    BY DEF UniquePair
  <1>1. Stages /\ rows \subseteq Room
    BY DEF Inv, Stages, TypeOK
  <1>2. CASE (\A r \in rows' \ rows : people'[r] = {}) /\ people' = people
    BY <1>2 DEF Inv, UniquePair
  <1>3. ASSUME NEW w \in Worker, stage[w] = "added", rows' = rows,
               people' = [people EXCEPT ![room[w]] = asked[w]]
        PROVE  d = e
    <2>1. \A r \in rows : people[r] # asked[w]
      BY <1>3 DEF Inv, Stages, Guarded
    <2>2. \A r \in rows : people'[r] = IF r = room[w] THEN asked[w] ELSE people[r]
      BY <1>1, <1>3 DEF Stages, TypeOK
    <2>3. QED
      BY <1>3, <2>1, <2>2 DEF Inv, UniquePair
  <1>4. ASSUME NEW r \in rows, rows' = rows \ {r},
               people' = [people EXCEPT ![r] = {}]
        PROVE  d = e
    <2>1. people'[d] = people[d] /\ people'[e] = people[e]
      BY <1>1, <1>4 DEF Stages, TypeOK
    <2>2. QED
      BY <1>4, <2>1 DEF Inv, UniquePair
  <1>5. QED
    BY <1>1, <1>2, <1>3, <1>4, VisibleStep

LEMMA NextInv ==
  ASSUME Isolation = "locked"
  PROVE  Inv /\ [Next]_vars => Inv'
  BY NextStages, GuardedStep, UniqueStep DEF Inv

\* With a database that locks, no interleaving of any number of workers gives
\* a pair a second chat: the exists query of pre_add (signals.py:73) is still
\* true when its transaction commits.
THEOREM OnePair ==
  ASSUME Isolation = "locked"
  PROVE  Spec => []UniquePair
  <1>1. Inv => UniquePair
    BY DEF Inv
  <1>2. Inv /\ [Next]_vars => Inv'
    BY NextInv
  <1>3. QED
    BY <1>1, <1>2, InitInv, PTL DEF Spec

-----------------------------------------------------------------------------
\* Where the database locks, one transaction at a time has written.
OneWriter ==
    Isolation = "locked" =>
        \A v, w \in Worker : stage[v] = "added" /\ stage[w] = "added" => v = w

\* What Advance(w) asks for: a commit needs the database, a query does not.
CanAdvance(w) ==
    \/ stage[w] \in {"saved", "checked"}
    \/ stage[w] \in {"added", "refused"} /\ MayCommit(w)

LEMMA WriterStep == TypeOK /\ OneWriter /\ [Next]_vars => OneWriter'
  <1> SUFFICES ASSUME TypeOK, OneWriter, [Next]_vars, Isolation = "locked",
                      NEW v \in Worker, NEW w \in Worker, v # w,
                      stage'[v] = "added", stage'[w] = "added"
               PROVE  FALSE
    BY DEF OneWriter
  <1>1. ASSUME NEW u \in Worker, Insert(u)
        PROVE  FALSE
    <2>1. \A x \in Worker \ {u} : stage'[x] = stage[x]
      BY <1>1 DEF Insert, TypeOK
    <2>2. stage'[u] = "added" => \A x \in Worker \ {u} : stage[x] # "added"
      BY <1>1 DEF Insert, TypeOK, MayWrite, Writing
    <2>3. QED
      BY <2>1, <2>2 DEF OneWriter
  <1>2. ASSUME ~ \E u \in Worker : Insert(u)
        PROVE  stage[v] = "added" /\ stage[w] = "added"
    <2>1. ASSUME NEW u \in Worker, NEW s \in Stage \ {"added"}, Goto(u, s)
          PROVE  stage[v] = "added" /\ stage[w] = "added"
      BY <2>1 DEF TypeOK
    <2>2. ASSUME NEW r \in Room, DeleteChat(r)
          PROVE  stage' = stage
      BY <2>2 DEF DeleteChat
    <2>3. CASE UNCHANGED vars
      BY <2>3 DEF vars
    <2>4. ASSUME NEW u \in Worker,
                 \/ \E S \in SUBSET User, r \in Room : Save(u, S, r)
                 \/ RejectProperty(u) \/ Check(u) \/ Commit(u) \/ Undo(u)
                 \/ TimeOut(u) \/ UndoFails(u) \/ Crash(u)
          PROVE  \E s \in Stage \ {"added"} : Goto(u, s)
      BY <2>4 DEF Save, RejectProperty, Check, Commit, Undo, TimeOut, UndoFails, Crash
    <2>5. QED
      BY <1>2, <2>1, <2>2, <2>3, <2>4 DEF Next, Advance
  <1>3. QED
    BY <1>1, <1>2 DEF OneWriter

\* The creations under way never all wait for the database, whichever stages
\* the workers are at: the transactions that signals.py:53 runs in hold up the
\* commits of others, but never each other's.  (What NoDeadlock says of the
\* steps themselves.)
THEOREM SomebodyAdvances ==
  Spec => [](\A w \in Worker :
                 stage[w] # "idle" => \E v \in Worker : CanAdvance(v))
  <1>1. Init => OneWriter
    BY DEF Init, OneWriter
  <1>2. ASSUME TypeOK, OneWriter, NEW w \in Worker, stage[w] # "idle",
               \A v \in Worker : ~ CanAdvance(v)
        PROVE  FALSE
    <2>1. \A v \in Worker : stage[v] \in {"idle", "added", "refused"}
      BY <1>2 DEF TypeOK, CanAdvance
    <2>2. PICK v \in Worker : /\ stage[v] \in {"added", "refused"}
                              /\ stage[v] = "added" \/ \A x \in Worker : stage[x] # "added"
      BY <1>2, <2>1
    <2>3. Isolation = "locked" => \A x \in Worker \ {v} : stage[x] # "added"
      BY <1>2, <2>2 DEF OneWriter
    <2>4. Isolation = "locked" => Open(v) = {}
      BY <2>1, <2>3 DEF Open
    <2>5. QED
      BY <1>2, <2>2, <2>4 DEF CanAdvance, MayCommit
  <1>3. TypeOK /\ OneWriter =>
            \A w \in Worker : stage[w] # "idle" => \E v \in Worker : CanAdvance(v)
    BY <1>2
  <1>4. QED
    BY <1>1, <1>3, TypeCorrect, WriterStep, PTL DEF Spec

-----------------------------------------------------------------------------
\* The refinement mapping.
Chats == [p \in Pair |-> {r \in rows : people[r] = p}]

LEMMA BookStep ==
  ASSUME Isolation = "locked", Inv, [Next]_vars
  PROVE  [Book!Next]_Chats
  <1>1. Stages /\ rows \subseteq Room
    BY DEF Inv, Stages, TypeOK
  <1>2. CASE /\ \A r \in rows' \ rows : people'[r] = {}
             /\ \A r \in rows \ rows' : people[r] = {}
             /\ people' = people
    <2>1. \A p \in Pair :
              {r \in rows' : people'[r] = p} = {r \in rows : people[r] = p}
      BY <1>2, PairNotEmpty
    <2>2. QED
      BY <2>1 DEF Chats
  <1>3. ASSUME NEW w \in Worker, stage[w] = "added", rows' = rows,
               people' = [people EXCEPT ![room[w]] = asked[w]]
        PROVE  Book!Next
    <2>1. /\ asked[w] \in Pair /\ room[w] \in rows /\ room[w] \in Room
          /\ people[room[w]] = {} /\ \A r \in rows : people[r] # asked[w]
      BY <1>1, <1>3 DEF Inv, Stages, Guarded
    <2>2. \A r \in rows : people'[r] = IF r = room[w] THEN asked[w] ELSE people[r]
      BY <1>1, <1>3 DEF Stages, TypeOK
    <2>3. Chats[asked[w]] = {} /\ \A q \in Pair : room[w] \notin Chats[q]
      BY <2>1, PairNotEmpty DEF Chats
    <2>4. \A p \in Pair : {r \in rows' : people'[r] = p} =
              IF p = asked[w] THEN {room[w]} ELSE {r \in rows : people[r] = p}
      BY <1>3, <2>1, <2>2, PairNotEmpty
    <2>5. Chats' = [Chats EXCEPT ![asked[w]] = {room[w]}]
      BY <2>1, <2>4 DEF Chats
    <2>6. QED
      BY <2>1, <2>3, <2>5 DEF Book!Next, Book!Open, Chats
  <1>4. ASSUME NEW d \in rows, people[d] # {}, rows' = rows \ {d},
               people' = [people EXCEPT ![d] = {}]
        PROVE  Book!Next
    <2>1. people[d] \in Pair /\ \A r \in rows : people[r] = people[d] => r = d
      BY <1>1, <1>4 DEF Inv, Stages, UniquePair
    <2>2. \A r \in rows \ {d} : people'[r] = people[r]
      BY <1>1, <1>4 DEF Stages, TypeOK
    <2>3. \A p \in Pair : {r \in rows' : people'[r] = p} =
              IF p = people[d] THEN {} ELSE {r \in rows : people[r] = p}
      BY <1>4, <2>1, <2>2
    <2>4. Chats' = [Chats EXCEPT ![people[d]] = {}] /\ Chats[people[d]] # {}
      BY <2>1, <2>3 DEF Chats
    <2>5. QED
      BY <2>1, <2>4 DEF Book!Next, Book!Close, Chats
  <1>5. QED
    BY <1>1, <1>2, <1>3, <1>4, VisibleStep

\* With a database that locks, the workers implement PairBook: every commit of
\* a creation is one opening of a chat by a pair that has none, and nothing
\* but a deletion closes it.
THEOREM Refinement ==
  ASSUME Isolation = "locked"
  PROVE  Spec => KeepsBook
  <1>1. Init => Book!Init
    BY DEF Init, Book!Init
  <1>2. Inv /\ [Next]_vars => Inv' /\ [Book!Next]_Chats
    BY NextInv, BookStep
  <1>3. QED
    BY <1>1, <1>2, InitInv, PTL DEF Spec, KeepsBook, Book!Spec, Chats
=============================================================================
