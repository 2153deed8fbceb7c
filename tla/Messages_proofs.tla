-------------------------- MODULE Messages_proofs --------------------------
(***************************************************************************)
(* Proofs about Messages, for any number of users, rooms, messages and     *)
(* overlapping requests: types, who may modify, what deletion is for, what *)
(* is left of whom, and that no recipient is lost.                         *)
(***************************************************************************)
EXTENDS Messages, TLAPS

\* A message that was ever stored has a room and a sender.
Placed ==
    \A m \in Message : state[m] # "unused" =>
        home[m] \in Room /\ sender[m] \in User

\* What a request in progress still knows for certain: the room it names, the
\* messages it was allowed to name, and whose they are.
Fit(q) ==
    /\ q.op \in {"send", "update room"} => q.room \in Room
    /\ \A m \in q.ids : state[m] # "unused"
    /\ q.op \in {"edit", "delete"} => \A m \in q.ids : sender[m] = q.user

Typed ==
    /\ TypeOK
    /\ Placed
    /\ \A h \in Handler : step[h] # "idle" => Fit(request[h])

-----------------------------------------------------------------------------
(* Types. *)

LEMMA InitTyped == Init => Typed
BY NoneAssumption DEF Init, Typed, TypeOK, Placed

\* A handler that acts has a request, drops it and leaves the others alone.
LEMMA ActRequest ==
    ASSUME Typed, NEW h \in Handler, Act(h)
    PROVE  /\ step[h] = "ready"
           /\ request[h] \in Request
           /\ Fit(request[h])
           /\ Perform(request[h])
           /\ step' = [step EXCEPT ![h] = "idle"]
           /\ request' = [request EXCEPT ![h] = None]
           /\ UNCHANGED <<soft, members, ever, events>>
BY DEF Act, Ended, rooms, Typed, TypeOK

\* Types of everything a helper writes.
RowTypes ==
    /\ state \in [Message -> {"unused", "live", "hidden", "gone"}]
    /\ home \in [Message -> Room \cup {None}]
    /\ sender \in [Message -> User \cup {None}]
    /\ edited \in [Message -> BOOLEAN]
    /\ delivered \in [Message -> SUBSET User]
    /\ readers \in [Message -> SUBSET User]
    /\ reaction \in [Message -> [User -> Emoji \cup {None}]]
    /\ notes \in [Message -> SUBSET SUBSET User]
    /\ last \in [Room -> Message \cup {None}]
    /\ audience \in [Message -> SUBSET User]
    /\ whole \subseteq Message

\* What no helper and no departure ever changes.
Fixed ==
    \A m \in Message : state[m] # "unused" =>
        state'[m] # "unused" /\ home'[m] = home[m] /\ sender'[m] = sender[m]

LEMMA StoreTypes ==
    ASSUME Typed, NEW q \in Request, q.room \in Room, NEW m \in Message,
           Store(q, m)
    PROVE  /\ state' \in [Message -> {"unused", "live", "hidden", "gone"}]
           /\ home' \in [Message -> Room \cup {None}]
           /\ sender' \in [Message -> User \cup {None}]
           /\ last' \in [Room -> Message \cup {None}]
           /\ audience' \in [Message -> SUBSET User]
           /\ home'[m] = q.room /\ sender'[m] = q.user
           /\ UNCHANGED <<edited, delivered, readers, reaction>>
           /\ Fixed /\ Placed'
BY DEF Store, Typed, TypeOK, Placed, Fixed, Request

LEMMA NotifyTypes ==
    ASSUME Typed, NEW u \in User, NEW m \in Message, home'[m] \in Room,
           UNCHANGED members, Notify(u, m)
    PROVE  notes' \in [Message -> SUBSET SUBSET User]
<1>1. members[home'[m]] \ {u} \in SUBSET User
  BY DEF Typed, TypeOK
<1> QED
  BY <1>1 DEF Notify, Typed, TypeOK

LEMMA EraseTypes ==
    ASSUME Typed, NEW M \in SUBSET Message, Erase(M)
    PROVE  /\ state' \in [Message -> {"unused", "live", "hidden", "gone"}]
           /\ delivered' \in [Message -> SUBSET User]
           /\ readers' \in [Message -> SUBSET User]
           /\ reaction' \in [Message -> [User -> Emoji \cup {None}]]
           /\ notes' \in [Message -> SUBSET SUBSET User]
           /\ last' \in [Room -> Message \cup {None}]
BY DEF Erase, Typed, TypeOK

\* One helper keeps the types and what is fixed.
LEMMA PerformTypes ==
    ASSUME Typed, NEW q \in Request, Fit(q), Perform(q), UNCHANGED members
    PROVE  RowTypes' /\ Fixed /\ Placed'
<1> USE DEF rows, traces, history
<1>0. RowTypes
  BY DEF RowTypes, Typed, TypeOK
<1>q. q.user \in User /\ q.ids \in SUBSET Message
  BY DEF Request
<1>1. ASSUME Send(q) PROVE RowTypes' /\ Fixed /\ Placed'
  <2>1. PICK m \in Message :
           Store(q, m) /\ Notify(q.user, m) /\ whole' = whole \cup {m}
    BY <1>1 DEF Send
  <2>2. q.room \in Room
    BY <1>1 DEF Send, Fit
  <2>3. notes' \in [Message -> SUBSET SUBSET User]
    BY <2>1, <2>2, <1>q, StoreTypes, NotifyTypes
  <2> QED
    BY <2>1, <2>2, <2>3, <1>0, StoreTypes DEF RowTypes
<1>2. ASSUME SendRejectedMedia(q) PROVE RowTypes' /\ Fixed /\ Placed'
  <2>1. PICK m \in Message : Store(q, m)
    BY <1>2 DEF SendRejectedMedia
  <2>2. q.room \in Room
    BY <1>2 DEF SendRejectedMedia, Fit
  <2> QED
    BY <1>2, <2>1, <2>2, <1>0, StoreTypes DEF RowTypes, SendRejectedMedia
<1>3. ASSUME Acknowledge(q) PROVE RowTypes' /\ Fixed /\ Placed'
  <2>1. notes' \in [Message -> SUBSET SUBSET User]
    <3> SUFFICES ASSUME NEW m \in Message
                 PROVE  {Left(R, q.user) : R \in notes[m]}
                            \ (IF {} \in notes[m] THEN {} ELSE {{}})
                            \in SUBSET SUBSET User
      BY <1>3, <1>0 DEF Acknowledge, RowTypes
    <3> QED
      BY <1>0 DEF RowTypes, Left
  <2>2. delivered' \in [Message -> SUBSET User]
    BY <1>3, <1>0, <1>q DEF Acknowledge, RowTypes
  <2> QED
    BY <1>3, <2>1, <2>2, <1>0 DEF Acknowledge, RowTypes, Fixed, Placed, Typed
<1>4. ASSUME Read(q) PROVE RowTypes' /\ Fixed /\ Placed'
  <2>1. readers' \in [Message -> SUBSET User]
    BY <1>4, <1>0, <1>q DEF Read, RowTypes
  <2> QED
    BY <1>4, <2>1, <1>0 DEF Read, RowTypes, Fixed, Placed, Typed
<1>5. ASSUME React(q) PROVE RowTypes' /\ Fixed /\ Placed'
  <2>1. PICK m \in q.ids :
           /\ Stored(m)
           /\ reaction' = [reaction EXCEPT ![m][q.user] = q.emoji]
           /\ UNCHANGED <<rows, history>>
           /\ Notify(q.user, m)
    BY <1>5 DEF React
  <2>2. home'[m] \in Room
    BY <2>1, <1>q DEF Stored, Typed, Placed
  <2>3. notes' \in [Message -> SUBSET SUBSET User]
    BY <2>1, <2>2, <1>q, NotifyTypes
  <2>4. reaction' \in [Message -> [User -> Emoji \cup {None}]]
    BY <2>1, <1>0, <1>q DEF RowTypes, Request
  <2> QED
    BY <1>5, <2>1, <2>3, <2>4, <1>0 DEF React, RowTypes, Fixed, Placed, Typed
<1>6. ASSUME Unreact(q) PROVE RowTypes' /\ Fixed /\ Placed'
  <2>1. reaction' \in [Message -> [User -> Emoji \cup {None}]]
    BY <1>6, <1>0, <1>q DEF Unreact, RowTypes
  <2> QED
    BY <1>6, <2>1, <1>0 DEF Unreact, RowTypes, Fixed, Placed, Typed
<1>7. ASSUME Edit(q) PROVE RowTypes' /\ Fixed /\ Placed'
  BY <1>7, <1>0, <1>q DEF Edit, RowTypes, Fixed, Placed, Typed
<1>8. ASSUME Hide(q) PROVE RowTypes' /\ Fixed /\ Placed'
  BY <1>8, <1>0, <1>q DEF Hide, Stored, RowTypes, Fixed, Placed, Typed
<1>9. ASSUME Delete(q) PROVE RowTypes' /\ Fixed /\ Placed'
  <2>1. Erase(q.ids)
    BY <1>9 DEF Delete
  <2>2. Fixed
    BY <1>9, <1>0, <1>q DEF Delete, Erase, Fixed, RowTypes
  <2>3. Placed'
    BY <1>9, <1>0, <1>q DEF Delete, Erase, Placed, Typed, Fit, RowTypes
  <2> QED
    BY <1>9, <2>1, <2>2, <2>3, <1>0, <1>q, EraseTypes DEF Delete, RowTypes
<1>10. ASSUME UpdateRoom(q) PROVE RowTypes' /\ Fixed /\ Placed'
  <2>1. last' \in [Room -> Message \cup {None}]
    BY <1>10, <1>0 DEF UpdateRoom, RowTypes, Request
  <2> QED
    BY <1>10, <2>1, <1>0 DEF UpdateRoom, RowTypes, Fixed, Placed, Typed
<1> QED
  BY <1>1, <1>2, <1>3, <1>4, <1>5, <1>6, <1>7, <1>8, <1>9, <1>10 DEF Perform

\* What a request knows stays true, for a handler that keeps its request.
Kept(g) == step'[g] # "idle" => step[g] # "idle" /\ request'[g] = request[g]

LEMMA FitStays ==
    ASSUME Typed, Fixed, NEW g \in Handler, Kept(g)
    PROVE  (step[g] # "idle" => Fit(request[g]))'
<1> SUFFICES ASSUME step'[g] # "idle" PROVE Fit(request[g])'
  OBVIOUS
<1>1. /\ request'[g] = request[g]
      /\ request[g] \in Request
      /\ Fit(request[g])
  BY DEF Kept, Typed, TypeOK
<1>2. request[g].ids \in SUBSET Message
  BY <1>1 DEF Request
<1> QED
  BY <1>1, <1>2 DEF Fit, Fixed

\* A check hands over a request that fits.
LEMMA CheckFits ==
    ASSUME Typed, NEW q \in Asked, FirstCheck(q)
    PROVE  q \in Request /\ Fit(q)
<1>1. q \in Request /\ WellFormed(q)
  BY DEF Asked
<1>2. CASE q.op \in {"edit", "delete"}
  BY <1>1, <1>2 DEF FirstCheck, IsSender, Fit, Live, Request
<1>3. CASE q.op \in {"send", "update room"}
  BY <1>1, <1>3 DEF WellFormed, Fit, Request
<1>4. CASE q.op \notin {"edit", "delete", "send", "update room"}
  <2>1. MayAccess(q.user, q.ids)
    BY <1>4 DEF FirstCheck
  <2> QED
    BY <1>1, <1>4, <2>1 DEF MayAccess, Fit, Live, Request
<1> QED
  BY <1>2, <1>3, <1>4

LEMMA NextTyped == Typed /\ [Next]_vars => Typed'
<1> SUFFICES ASSUME Typed, [Next]_vars PROVE Typed'
  OBVIOUS
<1> USE DEF rooms, rows, traces, history
<1>1. ASSUME NEW h \in Handler, Check(h) PROVE Typed'
  <2>1. PICK q \in Asked :
           /\ FirstCheck(q)
           /\ request' = [request EXCEPT ![h] = q]
           /\ step' = [step EXCEPT ![h] =
                 IF q.op \in {"edit", "delete"} THEN "member" ELSE "ready"]
    BY <1>1 DEF Check
  <2>2. q \in Request /\ Fit(q)
    BY <2>1, CheckFits
  <2>3. Fixed /\ Placed'
    BY <1>1 DEF Check, Fixed, Placed, Typed
  <2>4. TypeOK'
    BY <1>1, <2>1, <2>2 DEF Check, Typed, TypeOK
  <2>5. (\A g \in Handler : step[g] # "idle" => Fit(request[g]))'
    <3>1. ASSUME NEW g \in Handler, g # h
          PROVE  (step[g] # "idle" => Fit(request[g]))'
      BY <2>1, <2>3, <3>1, FitStays DEF Kept, Typed, TypeOK
    <3>2. request'[h] = q
      BY <2>1 DEF Typed, TypeOK
    <3>3. Fit(request[h])'
      BY <1>1, <2>2, <3>2 DEF Check, Fit
    <3> QED
      BY <3>1, <3>3
  <2> QED
    BY <2>3, <2>4, <2>5 DEF Typed
<1>2. ASSUME NEW h \in Handler, CheckAccess(h) PROVE Typed'
  <2>1. TypeOK'
    BY <1>2 DEF CheckAccess, Ended, Typed, TypeOK
  <2>2. Fixed /\ Placed'
    BY <1>2 DEF CheckAccess, Fixed, Placed, Typed
  <2>3. (\A g \in Handler : step[g] # "idle" => Fit(request[g]))'
    <3>1. \A g \in Handler : Kept(g)
      BY <1>2 DEF CheckAccess, Ended, Kept, Typed, TypeOK
    <3> QED
      BY <3>1, <2>2, FitStays
  <2> QED
    BY <2>1, <2>2, <2>3 DEF Typed
<1>3. ASSUME NEW h \in Handler, Act(h) PROVE Typed'
  <2>1. /\ request[h] \in Request
        /\ Fit(request[h])
        /\ Perform(request[h])
        /\ step' = [step EXCEPT ![h] = "idle"]
        /\ request' = [request EXCEPT ![h] = None]
        /\ UNCHANGED <<soft, members, ever, events>>
    BY <1>3, ActRequest
  <2>2. RowTypes' /\ Fixed /\ Placed'
    BY <2>1, PerformTypes
  <2>3. TypeOK'
    BY <2>1, <2>2 DEF RowTypes, Typed, TypeOK
  <2>4. (\A g \in Handler : step[g] # "idle" => Fit(request[g]))'
    <3>1. \A g \in Handler : Kept(g)
      BY <2>1 DEF Kept, Typed, TypeOK
    <3> QED
      BY <3>1, <2>2, FitStays
  <2> QED
    BY <2>2, <2>3, <2>4 DEF Typed
<1>4. ASSUME NEW h \in Handler, Abandon(h) PROVE Typed'
  <2>1. TypeOK'
    BY <1>4 DEF Abandon, Ended, Typed, TypeOK
  <2>2. Fixed /\ Placed'
    BY <1>4 DEF Abandon, Fixed, Placed, Typed
  <2>3. (\A g \in Handler : step[g] # "idle" => Fit(request[g]))'
    <3>1. \A g \in Handler : Kept(g)
      BY <1>4 DEF Abandon, Ended, Kept, Typed, TypeOK
    <3> QED
      BY <3>1, <2>2, FitStays
  <2> QED
    BY <2>1, <2>2, <2>3 DEF Typed
<1>5. ASSUME NEW r \in Room, NEW M \in SUBSET User, ChangeMembers(r, M)
      PROVE  Typed'
  <2> DEFINE E == {m \in Message : Stored(m) /\ home[m] = r}
  <2>1. Erase(E) \/ UNCHANGED <<state, last, traces>>
    BY <1>5 DEF ChangeMembers
  <2>2. /\ state' \in [Message -> {"unused", "live", "hidden", "gone"}]
        /\ delivered' \in [Message -> SUBSET User]
        /\ readers' \in [Message -> SUBSET User]
        /\ reaction' \in [Message -> [User -> Emoji \cup {None}]]
        /\ notes' \in [Message -> SUBSET SUBSET User]
        /\ last' \in [Room -> Message \cup {None}]
    <3>1. CASE Erase(E)
      BY <3>1, EraseTypes
    <3>2. CASE UNCHANGED <<state, last, traces>>
      BY <3>2 DEF Typed, TypeOK
    <3> QED
      BY <2>1, <3>1, <3>2
  <2>3. Fixed
    BY <1>5, <2>1 DEF ChangeMembers, Erase, Stored, Fixed, Typed, TypeOK
  <2>4. Placed'
    <3>1. \A m \in Message : state'[m] # "unused" => state[m] # "unused"
      <4>1. CASE Erase(E)
        BY <4>1 DEF Erase, Stored, Typed, TypeOK
      <4>2. CASE UNCHANGED <<state, last, traces>>
        BY <4>2
      <4> QED
        BY <2>1, <4>1, <4>2
    <3>2. UNCHANGED <<home, sender>>
      BY <1>5 DEF ChangeMembers
    <3> QED
      BY <3>1, <3>2 DEF Placed, Typed
  <2>5. TypeOK'
    <3>1. members' \in [Room -> SUBSET User] /\ ever' \in [Room -> SUBSET User]
      BY <1>5 DEF ChangeMembers, Typed, TypeOK
    <3>2. events' \in Nat
      BY <1>5 DEF ChangeMembers, Typed, TypeOK
    <3>3. UNCHANGED <<soft, home, sender, edited, audience, whole, step, request>>
      BY <1>5 DEF ChangeMembers
    <3> QED
      BY <2>2, <3>1, <3>2, <3>3 DEF Typed, TypeOK
  <2>6. (\A g \in Handler : step[g] # "idle" => Fit(request[g]))'
    <3>1. \A g \in Handler : Kept(g)
      BY <1>5 DEF ChangeMembers, Kept, Typed, TypeOK
    <3> QED
      BY <3>1, <2>3, FitStays
  <2> QED
    BY <2>4, <2>5, <2>6 DEF Typed
<1>6. CASE UNCHANGED vars
  BY <1>6 DEF vars, Typed, TypeOK, Placed, Fit
<1> QED
  BY <1>1, <1>2, <1>3, <1>4, <1>5, <1>6 DEF Next

LEMMA AlwaysTyped == Spec => []Typed
BY InitTyped, NextTyped, PTL DEF Spec

\* Every variable keeps its type.
THEOREM TypeCorrect == Spec => []TypeOK
<1>1. Typed => TypeOK
  BY DEF Typed
<1> QED
  BY <1>1, AlwaysTyped, PTL

-----------------------------------------------------------------------------
(* Who modifies, and what deletion is for. *)

\* A step writes nothing, runs one helper, or changes members.
LEMMA StepKinds ==
    ASSUME Typed, [Next]_vars
    PROVE  \/ UNCHANGED <<rooms, rows, traces, history>>
           \/ \E h \in Handler : /\ step[h] = "ready" /\ step'[h] = "idle"
                                 /\ request[h] \in Request
                                 /\ Fit(request[h])
                                 /\ Perform(request[h])
                                 /\ UNCHANGED rooms
           \/ \E r \in Room, M \in SUBSET User : ChangeMembers(r, M)
<1>1. ASSUME NEW h \in Handler, Act(h)
      PROVE  /\ step[h] = "ready" /\ step'[h] = "idle"
             /\ request[h] \in Request
             /\ Fit(request[h])
             /\ Perform(request[h])
             /\ UNCHANGED rooms
  BY <1>1, ActRequest DEF rooms, Typed, TypeOK
<1>2. ASSUME NEW h \in Handler, Check(h) \/ CheckAccess(h) \/ Abandon(h)
      PROVE  UNCHANGED <<rooms, rows, traces, history>>
  BY <1>2 DEF Check, CheckAccess, Abandon
<1>3. CASE UNCHANGED vars
  BY <1>3 DEF vars
<1> QED
  BY <1>1, <1>2, <1>3 DEF Next

\* Whatever happens, a stored message keeps its room and its sender.
LEMMA NextFixed == ASSUME Typed, [Next]_vars PROVE Fixed
<1>1. CASE UNCHANGED <<rooms, rows, traces, history>>
  BY <1>1 DEF rows, Fixed
<1>2. CASE \E h \in Handler : /\ request[h] \in Request
                              /\ Fit(request[h])
                              /\ Perform(request[h])
                              /\ UNCHANGED rooms
  BY <1>2, PerformTypes DEF rooms
<1>3. ASSUME NEW r \in Room, NEW M \in SUBSET User, ChangeMembers(r, M)
      PROVE  Fixed
  <2>1. CASE M = {}
    BY <1>3, <2>1 DEF ChangeMembers, Erase, Fixed
  <2>2. CASE M # {}
    BY <1>3, <2>2 DEF ChangeMembers, Fixed
  <2> QED
    BY <2>1, <2>2
<1> QED
  BY <1>1, <1>2, <1>3, StepKinds

\* A handler keeps its request, or drops it, or has just been given one.
LEMMA KeptOrAsked ==
    ASSUME Typed, [Next]_vars, NEW g \in Handler, ~ Kept(g)
    PROVE  \E q \in Asked : /\ request'[g] = q
                            /\ FirstCheck(q)
                            /\ UNCHANGED <<rooms, rows, traces, history>>
<1>1. ASSUME NEW h \in Handler, Check(h), h = g
      PROVE  \E q \in Asked : /\ request'[g] = q
                              /\ FirstCheck(q)
                              /\ UNCHANGED <<rooms, rows, traces, history>>
  BY <1>1 DEF Check, Typed, TypeOK
<1>2. ASSUME NEW h \in Handler, Check(h), h # g PROVE Kept(g)
  BY <1>2 DEF Check, Kept, Typed, TypeOK
<1>3. ASSUME NEW h \in Handler, CheckAccess(h) \/ Act(h) \/ Abandon(h)
      PROVE  Kept(g)
  BY <1>3 DEF CheckAccess, Act, Abandon, Ended, Kept, Typed, TypeOK
<1>4. ASSUME NEW r \in Room, NEW M \in SUBSET User, ChangeMembers(r, M)
      PROVE  Kept(g)
  BY <1>4 DEF ChangeMembers, Kept
<1>5. CASE UNCHANGED vars
  BY <1>5 DEF vars, Kept
<1> QED
  BY <1>1, <1>2, <1>3, <1>4, <1>5 DEF Next

\* What a helper may do to a message that has been stored.
LEMMA PerformModifies ==
    ASSUME Typed, NEW q \in Request, Perform(q), NEW m \in Message,
           state[m] # "unused"
    PROVE  /\ ~ Live(m) => /\ state'[m] \in {state[m], "gone"}
                           /\ edited'[m] = edited[m]
           /\ state'[m] # state[m] \/ edited'[m] # edited[m]
                  => q.op \in {"edit", "delete"} /\ m \in q.ids
<1> USE DEF rows, traces, history, Live
<1>1. ASSUME NEW n \in Message, Store(q, n)
      PROVE  state'[m] = state[m] /\ edited' = edited
  BY <1>1 DEF Store, Typed, TypeOK
<1>2. CASE Send(q) \/ SendRejectedMedia(q)
  BY <1>1, <1>2 DEF Send, SendRejectedMedia
<1>3. CASE Acknowledge(q) \/ Read(q) \/ React(q) \/ Unreact(q) \/ UpdateRoom(q)
  BY <1>3 DEF Acknowledge, Read, React, Unreact, UpdateRoom
<1>4. CASE Edit(q)
  BY <1>4 DEF Edit, Typed, TypeOK
<1>5. CASE Hide(q)
  BY <1>5 DEF Hide, Stored, Typed, TypeOK
<1>6. CASE Delete(q)
  BY <1>6 DEF Delete, Erase, Typed, TypeOK
<1> QED
  BY <1>2, <1>3, <1>4, <1>5, <1>6 DEF Perform

\* Departures delete, and only when the room is left empty.
LEMMA DepartureModifies ==
    ASSUME Typed, NEW r \in Room, NEW M \in SUBSET User, ChangeMembers(r, M),
           NEW m \in Message
    PROVE  /\ edited'[m] = edited[m] /\ state'[m] \in {state[m], "gone"}
           /\ state'[m] # state[m] => members'[home[m]] = {}
<1>1. edited' = edited /\ members'[r] = M
  BY DEF ChangeMembers, Typed, TypeOK
<1>2. CASE M = {}
  BY <1>1, <1>2 DEF ChangeMembers, Erase, Typed, TypeOK
<1>3. CASE M # {}
  BY <1>1, <1>3 DEF ChangeMembers
<1> QED
  BY <1>2, <1>3

\* A deleted message stays deleted and is not edited any more, whatever was
\* checked before the deletion: the helpers look again (serializers.py:430).
THEOREM DeletionIsFinal == Spec => DeletedStays
<1>1. ASSUME Typed, [Next]_vars, NEW m \in Message,
             state[m] \in {"hidden", "gone"}
      PROVE  state'[m] \in {state[m], "gone"} /\ edited'[m] = edited[m]
  BY <1>1, StepKinds, PerformModifies, DepartureModifies DEF rows, Live
<1>2. Typed /\ [Next]_vars =>
          [\A m \in Message :
               state[m] \in {"hidden", "gone"}
                   => /\ state'[m] \in {state[m], "gone"}
                      /\ edited'[m] = edited[m]]_vars
  BY <1>1
<1> QED
  BY <1>2, AlwaysTyped, PTL DEF Spec, DeletedStays

\* A message is changed or deleted by its sender's request and by nothing
\* else, unless its room goes, however many requests overlap.
THEOREM SenderModifies == Spec => OnlySenderModifies
<1>1. ASSUME Typed, [Next]_vars, NEW m \in Message, Live(m),
             state'[m] # "live" \/ edited'[m] # edited[m]
      PROVE  ModifiedBySender(m) \/ members'[home[m]] = {}
  <2>1. state'[m] # state[m] \/ edited'[m] # edited[m]
    BY <1>1 DEF Live
  <2>2. CASE \E h \in Handler : /\ step[h] = "ready" /\ step'[h] = "idle"
                                /\ request[h] \in Request
                                /\ Fit(request[h])
                                /\ Perform(request[h])
    <3>1. PICK h \in Handler : /\ step[h] = "ready" /\ step'[h] = "idle"
                               /\ request[h] \in Request
                               /\ Fit(request[h])
                               /\ Perform(request[h])
      BY <2>2
    <3>2. request[h].op \in {"edit", "delete"} /\ m \in request[h].ids
      BY <1>1, <2>1, <3>1, PerformModifies DEF Live
    <3> QED
      BY <3>1, <3>2 DEF Fit, ModifiedBySender
  <2>3. CASE \E r \in Room, M \in SUBSET User : ChangeMembers(r, M)
    BY <1>1, <2>1, <2>3, DepartureModifies
  <2>4. CASE UNCHANGED <<rooms, rows, traces, history>>
    BY <2>1, <2>4 DEF rows
  <2> QED
    BY <1>1, <2>2, <2>3, <2>4, StepKinds
<1>2. Typed /\ [Next]_vars =>
          [\A m \in Message :
               Live(m) /\ (state'[m] # "live" \/ edited'[m] # edited[m])
                   => ModifiedBySender(m) \/ members'[home[m]] = {}]_vars
  BY <1>1
<1> QED
  BY <1>2, AlwaysTyped, PTL DEF Spec, OnlySenderModifies

-----------------------------------------------------------------------------
(* No recipient is lost. *)

Reaching ==
    /\ \A m \in whole : state[m] # "unused"
    /\ NobodyMissed

LEMMA InitReaching == Init => Reaching
BY DEF Init, Reaching, NobodyMissed

\* A helper that only adds recipients, or takes a message away, loses nobody.
LEMMA GrowthReaches ==
    ASSUME Typed, Reaching,
           UNCHANGED <<audience, whole>>,
           \A m \in whole : /\ state'[m] # "unused"
                            /\ state'[m] = "live" => /\ state[m] = "live"
                                                     /\ delivered[m] \subseteq delivered'[m]
                                                     /\ notes[m] \subseteq notes'[m]
    PROVE  Reaching'
BY DEF Reaching, NobodyMissed, Reached, Live

\* The message stored now is announced; the others do not notice.
LEMMA SendReaches ==
    ASSUME Typed, Reaching, NEW q \in Request, Fit(q), Send(q),
           UNCHANGED members
    PROVE  Reaching'
<1>1. PICK n \in Message :
         Store(q, n) /\ Notify(q.user, n) /\ whole' = whole \cup {n}
  BY DEF Send
<1>2. state[n] = "unused" /\ n \notin whole /\ q.room \in Room
  BY <1>1 DEF Store, Reaching, Send, Fit
<1>3. home'[n] = q.room /\ state'[n] = "live"
  BY <1>1 DEF Store, Typed, TypeOK
<1>4. ASSUME NEW m \in whole
      PROVE  /\ state'[m] = state[m] /\ audience'[m] = audience[m]
             /\ delivered'[m] = delivered[m] /\ notes'[m] = notes[m]
  BY <1>1, <1>2 DEF Store, Notify, Typed, TypeOK
<1>5. audience'[n] = members[q.room] \ {q.user}
  BY <1>1 DEF Store, Typed, TypeOK
<1>6. members[q.room] \ {q.user} \in notes'[n]
  BY <1>1, <1>3 DEF Notify, Typed, TypeOK
<1>7. \A u \in audience'[n] : Reached(n, u)'
  BY <1>5, <1>6 DEF Reached
<1>8. \A m \in whole : Live(m)' => \A u \in audience'[m] : Reached(m, u)'
  BY <1>4 DEF Reaching, NobodyMissed, Reached, Live
<1>9. \A m \in whole' : m \in whole \/ m = n
  BY <1>1
<1>10. NobodyMissed'
  BY <1>7, <1>8, <1>9 DEF NobodyMissed
<1> QED
  BY <1>3, <1>4, <1>9, <1>10 DEF Reaching

\* Who acknowledges leaves the recipients and is delivered to; the others
\* stay recipients.
LEMMA AcknowledgeReaches ==
    ASSUME Typed, Reaching, NEW q \in Request, Acknowledge(q)
    PROVE  Reaching'
<1> USE DEF rows, history
<1>1. UNCHANGED <<state, audience, whole>>
  BY DEF Acknowledge
<1>2. ASSUME NEW m \in whole, Live(m), NEW u \in audience[m]
      PROVE  Reached(m, u)'
  <2>1. m \in Message /\ state[m] = "live" /\ Reached(m, u)
    BY <1>2 DEF Reaching, NobodyMissed, Live, Typed, TypeOK
  <2>2. CASE m \notin q.ids
    BY <2>1, <2>2 DEF Acknowledge, Reached
  <2>3. CASE u \in delivered[m]
    BY <2>1, <2>3 DEF Acknowledge, Reached
  <2>4. CASE m \in q.ids /\ u = q.user
    BY <2>1, <2>4 DEF Acknowledge, Stored, Reached
  <2>5. ASSUME m \in q.ids, u # q.user, NEW R \in notes[m], u \in R
        PROVE  Reached(m, u)'
    <3>1. u \in Left(R, q.user) /\ Left(R, q.user) # {}
      BY <2>5 DEF Left
    <3>2. Left(R, q.user) \in notes'[m]
      BY <2>1, <2>5, <3>1 DEF Acknowledge
    <3> QED
      BY <3>1, <3>2 DEF Reached
  <2> QED
    BY <2>1, <2>2, <2>3, <2>4, <2>5 DEF Reached
<1> QED
  BY <1>1, <1>2 DEF Reaching, NobodyMissed, Live

LEMMA PerformReaches ==
    ASSUME Typed, Reaching, NEW q \in Request, Fit(q), Perform(q),
           UNCHANGED members
    PROVE  Reaching'
<1> USE DEF rows, traces, history
<1>w. \A m \in whole : m \in Message /\ state[m] # "unused"
  BY DEF Reaching, Typed, TypeOK
<1>1. CASE SendRejectedMedia(q)
  <2>1. PICK n \in Message : Store(q, n)
    BY <1>1 DEF SendRejectedMedia
  <2>2. /\ UNCHANGED <<delivered, notes, whole>>
        /\ \A m \in whole : state'[m] = state[m] /\ audience'[m] = audience[m]
    BY <1>1, <1>w, <2>1 DEF Store, SendRejectedMedia, Typed, TypeOK
  <2> QED
    BY <2>2 DEF Reaching, NobodyMissed, Reached, Live
<1>2. CASE Read(q) \/ Unreact(q) \/ Edit(q) \/ UpdateRoom(q)
  <2>1. UNCHANGED <<state, delivered, notes, audience, whole>>
    BY <1>2 DEF Read, Unreact, Edit, UpdateRoom
  <2> QED
    BY <2>1, <1>w, GrowthReaches
<1>3. CASE React(q)
  <2>1. UNCHANGED <<state, delivered, audience, whole>>
    BY <1>3 DEF React
  <2>2. \A m \in Message : notes[m] \subseteq notes'[m]
    BY <1>3 DEF React, Notify, Typed, TypeOK
  <2> QED
    BY <2>1, <2>2, <1>w, GrowthReaches
<1>4. CASE Hide(q)
  <2>1. UNCHANGED <<delivered, audience, whole>>
    BY <1>4 DEF Hide
  <2>2. \A m \in whole : /\ state'[m] # "unused"
                         /\ state'[m] = "live" =>
                                state[m] = "live" /\ notes'[m] = notes[m]
    BY <1>4, <1>w DEF Hide, Stored
  <2> QED
    BY <2>1, <2>2, GrowthReaches
<1>5. CASE Delete(q)
  <2>1. UNCHANGED <<audience, whole>>
    BY <1>5 DEF Delete
  <2>2. \A m \in whole : /\ state'[m] # "unused"
                         /\ state'[m] = "live" =>
                                /\ state[m] = "live" /\ notes'[m] = notes[m]
                                /\ delivered'[m] = delivered[m]
    BY <1>5, <1>w DEF Delete, Erase
  <2> QED
    BY <2>1, <2>2, GrowthReaches
<1> QED
  BY <1>1, <1>2, <1>3, <1>4, <1>5, SendReaches, AcknowledgeReaches DEF Perform

LEMMA DepartureReaches ==
    ASSUME Typed, Reaching, NEW r \in Room, NEW M \in SUBSET User,
           ChangeMembers(r, M)
    PROVE  Reaching'
<1> USE DEF traces, history
<1>1. UNCHANGED <<audience, whole>>
  BY DEF ChangeMembers
<1>2. \A m \in whole : m \in Message /\ state[m] # "unused"
  BY DEF Reaching, Typed, TypeOK
<1>3. \A m \in whole : /\ state'[m] # "unused"
                       /\ state'[m] = "live" =>
                              /\ state[m] = "live" /\ notes'[m] = notes[m]
                              /\ delivered'[m] = delivered[m]
  <2>1. CASE M = {}
    BY <1>2, <2>1 DEF ChangeMembers, Erase
  <2>2. CASE M # {}
    BY <1>2, <2>2 DEF ChangeMembers
  <2> QED
    BY <2>1, <2>2
<1> QED
  BY <1>1, <1>3, GrowthReaches

LEMMA NextReaching == Typed /\ Reaching /\ [Next]_vars => Reaching'
<1> SUFFICES ASSUME Typed, Reaching, [Next]_vars PROVE Reaching'
  OBVIOUS
<1>1. CASE UNCHANGED <<rooms, rows, traces, history>>
  BY <1>1 DEF rows, traces, history, Reaching, NobodyMissed, Reached, Live
<1>2. CASE \E h \in Handler : /\ request[h] \in Request
                              /\ Fit(request[h])
                              /\ Perform(request[h])
                              /\ UNCHANGED rooms
  BY <1>2, PerformReaches DEF rooms
<1>3. CASE \E r \in Room, M \in SUBSET User : ChangeMembers(r, M)
  BY <1>3, DepartureReaches
<1> QED
  BY <1>1, <1>2, <1>3, StepKinds

\* Everybody a message was announced to stays announced until it is
\* delivered to them or deleted (handler_mixins.py:142).
THEOREM RecipientsKept == Spec => []NobodyMissed
<1>1. Init => Reaching
  BY InitReaching
<1>2. Typed /\ Reaching /\ [Next]_vars => Reaching'
  BY NextReaching
<1>3. Reaching => NobodyMissed
  BY DEF Reaching
<1> QED
  BY <1>1, <1>2, <1>3, AlwaysTyped, PTL DEF Spec

-----------------------------------------------------------------------------
(* The last message of a room. *)

\* The last_message a request has fetched was stored, in the room it names.
Seen(q) ==
    q.op = "update room" /\ q.saw # None =>
        q.saw \in Message /\ state[q.saw] # "unused" /\ home[q.saw] = q.room

Lasting ==
    /\ LastIsStored
    /\ \A h \in Handler : step[h] # "idle" => Seen(request[h])

LEMMA InitLasting == Init => Lasting
BY DEF Init, Lasting, LastIsStored

LEMMA SeenStays ==
    ASSUME Typed, Fixed, NEW g \in Handler, Kept(g), step[g] # "idle" => Seen(request[g])
    PROVE  (step[g] # "idle" => Seen(request[g]))'
<1> SUFFICES ASSUME step'[g] # "idle" PROVE Seen(request[g])'
  OBVIOUS
<1>1. request'[g] = request[g] /\ Seen(request[g])
  BY DEF Kept
<1> QED
  BY <1>1 DEF Seen, Fixed

LEMMA EraseLasting ==
    ASSUME Typed, LastIsStored, NEW M \in SUBSET Message, Erase(M),
           UNCHANGED home
    PROVE  LastIsStored'
<1> SUFFICES ASSUME NEW r \in Room, last'[r] # None
             PROVE  Stored(last[r])' /\ home'[last'[r]] = r
  BY DEF LastIsStored
<1>1. last'[r] = last[r] /\ last[r] \notin M
  BY DEF Erase, Typed, TypeOK
<1>2. last[r] \in Message /\ Stored(last[r]) /\ home[last[r]] = r
  BY <1>1 DEF LastIsStored, Typed, TypeOK
<1>3. state'[last[r]] = state[last[r]]
  BY <1>1, <1>2 DEF Erase
<1> QED
  BY <1>1, <1>2, <1>3 DEF Stored

LEMMA StoreLasting ==
    ASSUME Typed, LastIsStored, NEW q \in Request, q.room \in Room,
           NEW m \in Message, Store(q, m)
    PROVE  LastIsStored'
<1> SUFFICES ASSUME NEW r \in Room, last'[r] # None
             PROVE  Stored(last[r])' /\ home'[last'[r]] = r
  BY DEF LastIsStored
<1>1. CASE r = q.room
  <2>1. last'[r] = m /\ state'[m] = "live" /\ home'[m] = q.room
    BY <1>1 DEF Store, Typed, TypeOK
  <2> QED
    BY <1>1, <2>1 DEF Stored
<1>2. CASE r # q.room
  <2>1. last'[r] = last[r]
    BY <1>2 DEF Store, Typed, TypeOK
  <2>2. last[r] \in Message /\ Stored(last[r]) /\ home[last[r]] = r
    BY <2>1 DEF LastIsStored, Typed, TypeOK
  <2>3. last[r] # m
    BY <2>2 DEF Store, Stored
  <2>4. state'[last[r]] = state[last[r]] /\ home'[last[r]] = home[last[r]]
    BY <2>2, <2>3 DEF Store, Typed, TypeOK
  <2> QED
    BY <2>1, <2>2, <2>4 DEF Stored
<1> QED
  BY <1>1, <1>2

LEMMA PerformLasting ==
    ASSUME Typed, LastIsStored, NEW q \in Request, Fit(q), Seen(q), Perform(q)
    PROVE  LastIsStored'
<1> USE DEF rows, history
<1>1. CASE Send(q) \/ SendRejectedMedia(q)
  <2>1. q.room \in Room /\ \E m \in Message : Store(q, m)
    BY <1>1 DEF Send, SendRejectedMedia, Fit
  <2> QED
    BY <2>1, StoreLasting
<1>2. CASE Acknowledge(q) \/ Read(q) \/ React(q) \/ Unreact(q) \/ Edit(q)
  <2>1. UNCHANGED <<state, home, last>>
    BY <1>2 DEF Acknowledge, Read, React, Unreact, Edit
  <2> QED
    BY <2>1 DEF LastIsStored, Stored
<1>3. CASE Hide(q)
  <2>1. UNCHANGED <<home, last>>
    BY <1>3 DEF Hide
  <2>2. \A m \in Message : Stored(m) => Stored(m)'
    BY <1>3 DEF Hide, Stored
  <2>3. \A r \in Room : last[r] # None => last[r] \in Message
    BY DEF Typed, TypeOK
  <2> QED
    BY <2>1, <2>2, <2>3 DEF LastIsStored, Stored
<1>4. CASE Delete(q)
  BY <1>4, EraseLasting DEF Delete, Request
<1>5. CASE UpdateRoom(q)
  <2>1. /\ UNCHANGED <<state, home>>
        /\ last' = [last EXCEPT ![q.room] = q.saw]
        /\ q.saw # None => Stored(q.saw) /\ home[q.saw] = q.room
        /\ q.room \in Room
    BY <1>5 DEF UpdateRoom, Seen, Fit
  <2>2. \A r \in Room : last'[r] = IF r = q.room THEN q.saw ELSE last[r]
    BY <2>1 DEF Typed, TypeOK
  <2> QED
    BY <2>1, <2>2 DEF LastIsStored, Stored
<1> QED
  BY <1>1, <1>2, <1>3, <1>4, <1>5 DEF Perform

LEMMA NextLasting == Typed /\ Lasting /\ [Next]_vars => Lasting'
<1> SUFFICES ASSUME Typed, Lasting, [Next]_vars PROVE Lasting'
  OBVIOUS
<1> USE DEF rooms, rows, traces, history
<1>1. LastIsStored'
  <2>1. CASE UNCHANGED <<rooms, rows, traces, history>>
    BY <2>1 DEF Lasting, LastIsStored, Stored
  <2>2. CASE \E h \in Handler : /\ step[h] = "ready"
                                /\ request[h] \in Request
                                /\ Fit(request[h])
                                /\ Perform(request[h])
    <3>1. PICK h \in Handler : /\ step[h] = "ready"
                               /\ request[h] \in Request
                               /\ Fit(request[h])
                               /\ Perform(request[h])
      BY <2>2
    <3>2. LastIsStored /\ Seen(request[h])
      BY <3>1 DEF Lasting
    <3> QED
      BY <3>1, <3>2, PerformLasting
  <2>3. ASSUME NEW r \in Room, NEW M \in SUBSET User, ChangeMembers(r, M)
        PROVE  LastIsStored'
    <3>1. LastIsStored /\ UNCHANGED home
      BY <2>3 DEF ChangeMembers, Lasting
    <3>2. CASE M = {}
      BY <2>3, <3>1, <3>2, EraseLasting DEF ChangeMembers
    <3>3. CASE M # {}
      BY <2>3, <3>1, <3>3 DEF ChangeMembers, LastIsStored, Stored
    <3> QED
      BY <3>2, <3>3
  <2> QED
    BY <2>1, <2>2, <2>3, StepKinds
<1>2. Fixed
  BY NextFixed
<1>3. ASSUME NEW g \in Handler, Kept(g)
      PROVE  (step[g] # "idle" => Seen(request[g]))'
  BY <1>2, <1>3, SeenStays DEF Lasting
<1>4. ASSUME NEW g \in Handler, ~ Kept(g)
      PROVE  (step[g] # "idle" => Seen(request[g]))'
  <2>1. PICK q \in Asked :
           /\ request'[g] = q
           /\ UNCHANGED <<state, home>>
    BY <1>4, KeptOrAsked
  <2>2. q.saw = IF q.op = "update room" THEN last[q.room] ELSE None
    BY DEF Asked, WellFormed
  <2>3. q.op = "update room" => q.room \in Room
    BY DEF Asked, WellFormed, Request
  <2>4. Seen(q)
    <3> SUFFICES ASSUME q.op = "update room", q.saw # None
                 PROVE  /\ q.saw \in Message /\ state[q.saw] # "unused"
                        /\ home[q.saw] = q.room
      BY DEF Seen
    <3>1. q.room \in Room /\ q.saw = last[q.room]
      BY <2>2, <2>3
    <3>2. q.saw \in Message
      BY <3>1 DEF Typed, TypeOK
    <3>3. Stored(q.saw) /\ home[q.saw] = q.room
      BY <3>1 DEF Lasting, LastIsStored
    <3> QED
      BY <3>2, <3>3 DEF Stored
  <2> QED
    BY <2>1, <2>4 DEF Seen
<1> QED
  BY <1>1, <1>3, <1>4 DEF Lasting

\* The last_message of a room is a stored message of that room, although
\* stale room objects are saved (helper_mixins.py:726).
THEOREM LastMessageStored == Spec => []LastIsStored
<1>1. Init => Lasting
  BY InitLasting
<1>2. Typed /\ Lasting /\ [Next]_vars => Lasting'
  BY NextLasting
<1>3. Lasting => LastIsStored
  BY DEF Lasting
<1> QED
  BY <1>1, <1>2, <1>3, AlwaysTyped, PTL DEF Spec

-----------------------------------------------------------------------------
(* What is recorded, and of whom. *)

\* The user of a request in progress was a member where it writes about them.
Entitled(q) ==
    /\ q.op = "send" => q.user \in ever[q.room]
    /\ q.op \in {"ack", "read", "react"} =>
           \A m \in q.ids : q.user \in ever[home[m]]

Traced ==
    /\ TracesAreOfMembers
    /\ \A r \in Room : members[r] \subseteq ever[r]
    /\ \A h \in Handler : step[h] # "idle" => Entitled(request[h])

LEMMA InitTraced == Init => Traced
BY DEF Init, Traced, TracesAreOfMembers, Stored, Reactors

\* What TracesAreOfMembers says of one message.
Clean(m) ==
    /\ Stored(m) => /\ sender[m] \in ever[home[m]]
                    /\ delivered[m] \cup readers[m] \cup Reactors(m)
                           \cup UNION notes[m] \subseteq ever[home[m]]
                    /\ sender[m] \notin readers[m]
    /\ ~ Stored(m) => delivered[m] = {} /\ readers[m] = {}
                      /\ Reactors(m) = {} /\ notes[m] = {}

LEMMA CleanAll == TracesAreOfMembers <=> \A m \in Message : Clean(m)
BY DEF TracesAreOfMembers, Clean

LEMMA CleanAllNext == TracesAreOfMembers' <=> \A m \in Message : Clean(m)'
BY DEF TracesAreOfMembers, Clean

\* A message stays clean when nothing about it changes but who was a member,
\* when something is taken away, and when it is erased.
LEMMA CleanShrinks ==
    ASSUME NEW m, Clean(m),
           state'[m] = state[m], home'[m] = home[m], sender'[m] = sender[m],
           ever[home[m]] \subseteq ever'[home[m]],
           delivered'[m] \subseteq delivered[m], readers'[m] \subseteq readers[m],
           Reactors(m)' \subseteq Reactors(m), notes'[m] \subseteq notes[m]
    PROVE  Clean(m)'
BY DEF Clean, Stored

LEMMA EraseClean ==
    ASSUME Typed, NEW M \in SUBSET Message, Erase(M), NEW m \in M
    PROVE  Clean(m)'
<1>1. /\ state'[m] = "gone" /\ delivered'[m] = {} /\ readers'[m] = {}
      /\ reaction'[m] = [u \in User |-> None] /\ notes'[m] = {}
  BY DEF Erase
<1>2. Reactors(m)' = {}
  BY <1>1 DEF Reactors
<1> QED
  BY <1>1, <1>2 DEF Clean, Stored

\* A message that was just stored has no traces but its notification.
LEMMA StoreClean ==
    ASSUME Typed, Traced, NEW q \in Request, q.room \in Room,
           q.user \in ever[q.room], UNCHANGED rooms,
           NEW n \in Message, Store(q, n),
           \A m \in Message : m # n => notes'[m] = notes[m],
           notes'[n] \subseteq {members[q.room] \ {q.user}}
    PROVE  TracesAreOfMembers'
<1> SUFFICES ASSUME NEW m \in Message PROVE Clean(m)'
  BY CleanAllNext
<1>1. Clean(m)
  BY CleanAll DEF Traced
<1>2. UNCHANGED <<delivered, readers, reaction, ever>>
  BY DEF Store, rooms
<1>3. Reactors(m)' = Reactors(m)
  BY <1>2 DEF Reactors
<1>4. CASE m # n
  <2>1. /\ state'[m] = state[m] /\ home'[m] = home[m] /\ sender'[m] = sender[m]
        /\ notes'[m] = notes[m]
    BY <1>4 DEF Store, Typed, TypeOK
  <2> QED
    BY <1>1, <1>2, <1>3, <2>1, CleanShrinks
<1>5. CASE m = n
  <2>1. state'[n] = "live" /\ home'[n] = q.room /\ sender'[n] = q.user
    BY DEF Store, Typed, TypeOK
  <2>2. ~ Stored(n)
    BY DEF Store, Stored
  <2>3. delivered[n] = {} /\ readers[n] = {} /\ Reactors(n) = {}
    BY <1>1, <1>5, <2>2 DEF Clean
  <2>4. UNION notes'[n] \subseteq ever[q.room]
    BY DEF Traced
  <2> QED
    BY <1>2, <1>3, <1>5, <2>1, <2>3, <2>4 DEF Clean, Stored
<1> QED
  BY <1>4, <1>5

\* A stored message stays clean when what is added is of members.
LEMMA CleanGrows ==
    ASSUME NEW m, Clean(m), Stored(m), Stored(m)',
           home'[m] = home[m], sender'[m] = sender[m], UNCHANGED ever,
           delivered'[m] \subseteq delivered[m] \cup ever[home[m]],
           readers'[m] \subseteq readers[m] \cup ever[home[m]],
           sender[m] \notin readers'[m],
           Reactors(m)' \subseteq Reactors(m) \cup ever[home[m]],
           \A R \in notes'[m] : R \subseteq ever[home[m]]
    PROVE  Clean(m)'
<1>1. UNION notes'[m] \subseteq ever[home[m]]
  OBVIOUS
<1> QED
  BY <1>1 DEF Clean

LEMMA CleanNotes ==
    ASSUME NEW m, Clean(m), Stored(m), NEW R \in notes[m]
    PROVE  R \subseteq ever[home[m]]
BY DEF Clean

LEMMA AcknowledgeClean ==
    ASSUME Typed, NEW q \in Request, Entitled(q), Acknowledge(q),
           UNCHANGED rooms, NEW m \in Message, Clean(m)
    PROVE  Clean(m)'
<1>1. /\ UNCHANGED <<state, home, sender, readers, reaction, ever>>
      /\ Reactors(m)' = Reactors(m)
  BY DEF Acknowledge, rows, rooms, Reactors
<1>2. CASE m \notin q.ids
  BY <1>1, <1>2, CleanShrinks DEF Acknowledge
<1>3. CASE m \in q.ids /\ ~ Stored(m)
  <2>1. notes[m] = {} /\ delivered'[m] = delivered[m]
    BY <1>3 DEF Acknowledge, Clean
  <2>2. notes'[m] = {}
    BY <1>3, <2>1 DEF Acknowledge
  <2> QED
    BY <1>1, <2>1, <2>2, CleanShrinks
<1>4. CASE m \in q.ids /\ Stored(m)
  <2>1. delivered'[m] \subseteq delivered[m] \cup ever[home[m]]
    BY <1>4 DEF Acknowledge, Entitled
  <2>2. ASSUME NEW S \in notes'[m] PROVE S \subseteq ever[home[m]]
    <3>1. PICK R \in notes[m] : S = Left(R, q.user)
      BY <1>4, <2>2 DEF Acknowledge
    <3> QED
      BY <1>4, <3>1, CleanNotes DEF Left
  <2>3. Stored(m)' /\ sender[m] \notin readers'[m]
    BY <1>1, <1>4 DEF Stored, Clean
  <2> QED
    BY <1>1, <1>4, <2>1, <2>2, <2>3, CleanGrows
<1> QED
  BY <1>2, <1>3, <1>4

LEMMA ReadClean ==
    ASSUME Typed, NEW q \in Request, Entitled(q), Read(q),
           UNCHANGED rooms, NEW m \in Message, Clean(m)
    PROVE  Clean(m)'
<1>1. /\ UNCHANGED <<state, home, sender, delivered, reaction, notes, ever>>
      /\ Reactors(m)' = Reactors(m)
  BY DEF Read, rows, rooms, Reactors
<1>2. CASE m \in q.ids /\ Stored(m) /\ sender[m] # q.user
  <2>1. readers'[m] = readers[m] \cup {q.user} /\ q.user \in ever[home[m]]
    BY <1>2 DEF Read, Entitled
  <2>2. Stored(m)' /\ sender[m] \notin readers'[m]
    BY <1>1, <1>2, <2>1 DEF Stored, Clean
  <2>3. \A R \in notes'[m] : R \subseteq ever[home[m]]
    BY <1>1, <1>2, CleanNotes
  <2> QED
    BY <1>1, <1>2, <2>1, <2>2, <2>3, CleanGrows
<1>3. CASE ~ (m \in q.ids /\ Stored(m) /\ sender[m] # q.user)
  <2>1. readers'[m] = readers[m]
    BY <1>3 DEF Read
  <2> QED
    BY <1>1, <2>1, CleanShrinks
<1> QED
  BY <1>2, <1>3

LEMMA ReactClean ==
    ASSUME Typed, Traced, NEW q \in Request, Entitled(q), React(q),
           UNCHANGED rooms, NEW m \in Message, Clean(m)
    PROVE  Clean(m)'
<1>1. PICK n \in q.ids :
         /\ Stored(n)
         /\ reaction' = [reaction EXCEPT ![n][q.user] = q.emoji]
         /\ Notify(q.user, n)
  BY DEF React
<1>2. UNCHANGED <<state, home, sender, delivered, readers, members, ever>>
  BY DEF React, rows, rooms
<1>3. n \in Message
  BY DEF Request
<1>4. CASE m # n
  <2>1. reaction'[m] = reaction[m] /\ notes'[m] = notes[m]
    BY <1>1, <1>4 DEF Notify, Typed, TypeOK
  <2>2. Reactors(m)' = Reactors(m)
    BY <2>1 DEF Reactors
  <2> QED
    BY <1>2, <2>1, <2>2, CleanShrinks
<1>5. CASE m = n
  <2>1. \A u \in User : u # q.user => reaction'[m][u] = reaction[m][u]
    BY <1>1, <1>5 DEF Typed, TypeOK
  <2>2. Reactors(m)' \subseteq Reactors(m) \cup {q.user}
    BY <2>1 DEF Reactors
  <2>3. q.user \in ever[home[m]]
    BY <1>5 DEF React, Entitled
  <2>4. home[m] \in Room
    BY <1>1, <1>5 DEF Stored, Typed, Placed
  <2>5. notes'[m] = notes[m] \cup {members[home[m]] \ {q.user}}
    BY <1>1, <1>2, <1>5 DEF Notify, Typed, TypeOK
  <2>6. \A R \in notes'[m] : R \subseteq ever[home[m]]
    BY <1>1, <1>5, <2>4, <2>5, CleanNotes DEF Traced
  <2>7. Stored(m)' /\ sender[m] \notin readers'[m]
    BY <1>1, <1>2, <1>5 DEF Stored, Clean
  <2> QED
    BY <1>1, <1>2, <1>5, <2>2, <2>3, <2>6, <2>7, CleanGrows
<1> QED
  BY <1>4, <1>5

LEMMA HideClean ==
    ASSUME Typed, NEW q \in Request, Hide(q), UNCHANGED rooms,
           NEW m \in Message, Clean(m)
    PROVE  Clean(m)'
<1>1. /\ UNCHANGED <<home, sender, delivered, readers, reaction, ever>>
      /\ Reactors(m)' = Reactors(m)
  BY DEF Hide, rooms, Reactors
<1>2. Stored(m)' <=> Stored(m)
  BY DEF Hide, Stored
<1>3. notes'[m] \subseteq notes[m]
  BY DEF Hide
<1>4. CASE Stored(m)
  <2>1. \A R \in notes'[m] : R \subseteq ever[home[m]]
    BY <1>3, <1>4, CleanNotes
  <2>2. sender[m] \notin readers'[m]
    BY <1>1, <1>4 DEF Clean
  <2> QED
    BY <1>1, <1>2, <1>4, <2>1, <2>2, CleanGrows
<1>5. CASE ~ Stored(m)
  BY <1>1, <1>2, <1>3, <1>5 DEF Clean
<1> QED
  BY <1>4, <1>5

LEMMA PerformClean ==
    ASSUME Typed, Traced, NEW q \in Request, Fit(q), Entitled(q), Perform(q),
           UNCHANGED rooms
    PROVE  TracesAreOfMembers'
<1> USE DEF rows, history
<1>c. \A m \in Message : Clean(m)
  BY CleanAll DEF Traced
<1>1. CASE Send(q) \/ SendRejectedMedia(q)
  <2>1. q.room \in Room /\ q.user \in ever[q.room]
    BY <1>1 DEF Send, SendRejectedMedia, Fit, Entitled
  <2>2. PICK n \in Message :
           Store(q, n) /\ (Notify(q.user, n) \/ UNCHANGED notes)
    BY <1>1 DEF Send, SendRejectedMedia
  <2>3. home'[n] = q.room /\ UNCHANGED members
    BY <2>2 DEF Store, rooms, Typed, TypeOK
  <2>4. notes[n] = {}
    BY <1>c, <2>2 DEF Clean, Store, Stored
  <2>5. /\ \A m \in Message : m # n => notes'[m] = notes[m]
        /\ notes'[n] \subseteq {members[q.room] \ {q.user}}
    BY <2>2, <2>3, <2>4 DEF Notify, Typed, TypeOK
  <2> QED
    BY <2>1, <2>2, <2>5, StoreClean
<1>2. CASE Acknowledge(q)
  BY <1>2, <1>c, AcknowledgeClean, CleanAllNext
<1>3. CASE Read(q)
  BY <1>3, <1>c, ReadClean, CleanAllNext
<1>4. CASE React(q)
  BY <1>4, <1>c, ReactClean, CleanAllNext
<1>5. CASE Unreact(q) \/ Edit(q) \/ UpdateRoom(q)
  <2>1. UNCHANGED <<state, home, sender, delivered, readers, notes, ever>>
    BY <1>5 DEF Unreact, Edit, UpdateRoom, traces, rooms
  <2>2. \A m \in Message : Reactors(m)' \subseteq Reactors(m)
    <3>1. CASE Unreact(q)
      <4>1. \A m \in Message, u \in User :
               reaction'[m][u] # None => reaction[m][u] # None
        BY <3>1 DEF Unreact, Typed, TypeOK
      <4> QED
        BY <4>1 DEF Reactors
    <3>2. CASE Edit(q) \/ UpdateRoom(q)
      BY <3>2 DEF Edit, UpdateRoom, traces, Reactors
    <3> QED
      BY <1>5, <3>1, <3>2
  <2>3. \A m \in Message : Clean(m)'
    BY <1>c, <2>1, <2>2, CleanShrinks
  <2> QED
    BY <2>3, CleanAllNext
<1>6. CASE Hide(q)
  BY <1>6, <1>c, HideClean, CleanAllNext
<1>7. CASE Delete(q)
  <2>1. /\ Erase(q.ids) /\ q.ids \in SUBSET Message
        /\ UNCHANGED <<home, sender, ever>>
    BY <1>7 DEF Delete, Request, rooms
  <2>2. ASSUME NEW m \in Message, m \notin q.ids PROVE Clean(m)'
    <3>1. /\ state'[m] = state[m] /\ delivered'[m] = delivered[m]
          /\ readers'[m] = readers[m] /\ reaction'[m] = reaction[m]
          /\ notes'[m] = notes[m]
      BY <2>1, <2>2 DEF Erase
    <3>2. Reactors(m)' = Reactors(m)
      BY <3>1 DEF Reactors
    <3> QED
      BY <1>c, <2>1, <3>1, <3>2, CleanShrinks
  <2>3. \A m \in q.ids : Clean(m)'
    BY <2>1, EraseClean
  <2> QED
    BY <2>2, <2>3, CleanAllNext
<1> QED
  BY <1>1, <1>2, <1>3, <1>4, <1>5, <1>6, <1>7 DEF Perform

LEMMA DepartureClean ==
    ASSUME Typed, Traced, NEW r \in Room, NEW M \in SUBSET User,
           ChangeMembers(r, M)
    PROVE  TracesAreOfMembers'
<1> DEFINE E == {m \in Message : Stored(m) /\ home[m] = r}
<1> SUFFICES ASSUME NEW m \in Message PROVE Clean(m)'
  BY CleanAllNext
<1>1. Clean(m)
  BY CleanAll DEF Traced
<1>2. UNCHANGED <<home, sender>>
  BY DEF ChangeMembers
<1>3. \A s \in Room : ever[s] \subseteq ever'[s]
  BY DEF ChangeMembers, Typed, TypeOK
<1>4. Erase(E) \/ UNCHANGED <<state, traces>>
  BY DEF ChangeMembers
<1>5. CASE Erase(E) /\ m \in E
  BY <1>5, EraseClean
<1>6. CASE (Erase(E) /\ m \notin E) \/ UNCHANGED <<state, traces>>
  <2>1. /\ state'[m] = state[m] /\ delivered'[m] = delivered[m]
        /\ readers'[m] = readers[m] /\ reaction'[m] = reaction[m]
        /\ notes'[m] = notes[m]
    BY <1>6 DEF Erase, traces
  <2>2. Reactors(m)' = Reactors(m)
    BY <2>1 DEF Reactors
  <2>3. CASE Stored(m)
    <3>1. home[m] \in Room
      BY <2>3 DEF Stored, Typed, Placed
    <3> QED
      BY <1>1, <1>2, <1>3, <2>1, <2>2, <3>1, CleanShrinks
  <2>4. CASE ~ Stored(m)
    BY <1>1, <2>1, <2>2, <2>4 DEF Clean, Stored
  <2> QED
    BY <2>3, <2>4
<1> QED
  BY <1>4, <1>5, <1>6

\* Nobody is ever struck from the history, and members are in it.
LEMMA EverGrows ==
    ASSUME Typed, Traced, [Next]_vars
    PROVE  \A r \in Room : ever[r] \subseteq ever'[r] /\ members'[r] \subseteq ever'[r]
<1>1. CASE UNCHANGED rooms
  BY <1>1 DEF rooms, Traced
<1>2. ASSUME NEW s \in Room, NEW M \in SUBSET User, ChangeMembers(s, M)
      PROVE  \A r \in Room : ever[r] \subseteq ever'[r] /\ members'[r] \subseteq ever'[r]
  BY <1>2 DEF ChangeMembers, Traced, Typed, TypeOK
<1> QED
  BY <1>1, <1>2, StepKinds

LEMMA NextTraced == Typed /\ Traced /\ [Next]_vars => Traced'
<1> SUFFICES ASSUME Typed, Traced, [Next]_vars PROVE Traced'
  OBVIOUS
<1>1. TracesAreOfMembers'
  <2>1. CASE UNCHANGED <<rooms, rows, traces, history>>
    BY <2>1 DEF rooms, rows, traces, Traced, TracesAreOfMembers, Stored, Reactors
  <2>2. CASE \E h \in Handler : /\ step[h] = "ready"
                                /\ request[h] \in Request
                                /\ Fit(request[h])
                                /\ Perform(request[h])
                                /\ UNCHANGED rooms
    BY <2>2, PerformClean DEF Traced
  <2>3. CASE \E r \in Room, M \in SUBSET User : ChangeMembers(r, M)
    BY <2>3, DepartureClean
  <2> QED
    BY <2>1, <2>2, <2>3, StepKinds
<1>2. Fixed
  BY NextFixed
<1>3. \A r \in Room : ever[r] \subseteq ever'[r] /\ members'[r] \subseteq ever'[r]
  BY EverGrows
<1>4. ASSUME NEW g \in Handler, Kept(g), step'[g] # "idle"
      PROVE  Entitled(request[g])'
  <2>1. /\ request'[g] = request[g] /\ request[g] \in Request
        /\ Fit(request[g]) /\ Entitled(request[g])
    BY <1>4 DEF Kept, Traced, Typed, TypeOK
  <2>2. request[g].op = "send" => request[g].user \in ever'[request[g].room]
    BY <1>3, <2>1 DEF Entitled, Fit
  <2>3. ASSUME request[g].op \in {"ack", "read", "react"}, NEW m \in request[g].ids
        PROVE  request[g].user \in ever'[home'[m]]
    <3>1. m \in Message /\ state[m] # "unused"
      BY <2>1 DEF Fit, Request
    <3>2. home[m] \in Room /\ home'[m] = home[m]
      BY <1>2, <3>1 DEF Fixed, Typed, Placed
    <3> QED
      BY <1>3, <2>1, <2>3, <3>2 DEF Entitled
  <2> QED
    BY <2>1, <2>2, <2>3 DEF Entitled
<1>5. ASSUME NEW g \in Handler, ~ Kept(g)
      PROVE  Entitled(request[g])'
  <2>1. PICK q \in Asked : /\ request'[g] = q
                           /\ FirstCheck(q)
                           /\ UNCHANGED <<ever, home>>
    BY <1>5, KeptOrAsked DEF rooms, rows
  <2>2. q \in Request /\ WellFormed(q)
    BY DEF Asked
  <2>3. ASSUME q.op = "send" PROVE q.user \in ever[q.room]
    <3>1. q.room \in Room /\ q.user \in members[q.room]
      BY <2>1, <2>2, <2>3 DEF FirstCheck, WellFormed, Request
    <3> QED
      BY <3>1 DEF Traced
  <2>4. ASSUME q.op \in {"ack", "read", "react"}, NEW m \in q.ids
        PROVE  q.user \in ever[home[m]]
    <3>1. m \in Message /\ Live(m) /\ q.user \in members[home[m]]
      BY <2>1, <2>2, <2>4 DEF FirstCheck, MayAccess, Request
    <3>2. home[m] \in Room
      BY <3>1 DEF Live, Typed, Placed
    <3> QED
      BY <3>1, <3>2 DEF Traced
  <2> QED
    BY <2>1, <2>3, <2>4 DEF Entitled
<1> QED
  BY <1>1, <1>3, <1>4, <1>5 DEF Traced

\* What is recorded about a message is of members of its room and nothing is
\* left of an erased one, although checks and helpers are awaits apart.
THEOREM RecordedOfMembers == Spec => []TracesAreOfMembers
<1>1. Init => Traced
  BY InitTraced
<1>2. Typed /\ Traced /\ [Next]_vars => Traced'
  BY NextTraced
<1>3. Traced => TracesAreOfMembers
  BY DEF Traced
<1> QED
  BY <1>1, <1>2, <1>3, AlwaysTyped, PTL DEF Spec

-----------------------------------------------------------------------------
(* Notifications for nobody. *)

\* The only helpers that may leave one notify the others of a room that has
\* no others.
LEMMA PerformNotes ==
    ASSUME Typed, NEW q \in Request, Perform(q), NEW m \in Message,
           {} \in notes'[m] \ notes[m]
    PROVE  q.op \in {"send", "react"} /\ Alone(q.user, home'[m])
<1>0. notes \in [Message -> SUBSET SUBSET User]
  BY DEF Typed, TypeOK
<1> USE DEF rows, traces, history
<1>1. ASSUME NEW n \in Message, Notify(q.user, n)
      PROVE  Alone(q.user, home'[m])
  BY <1>0, <1>1 DEF Notify, Alone
<1>2. CASE Send(q)
  BY <1>1, <1>2 DEF Send
<1>3. CASE React(q)
  <2>1. \E n \in Message : Notify(q.user, n)
    BY <1>3 DEF React, Request
  <2> QED
    BY <1>1, <1>3, <2>1 DEF React
<1>4. CASE Acknowledge(q)
  <2>1. m \notin q.ids => notes'[m] = notes[m]
    BY <1>4 DEF Acknowledge
  <2>2. m \in q.ids =>
            notes'[m] = {Left(R, q.user) : R \in notes[m]}
                            \ (IF {} \in notes[m] THEN {} ELSE {{}})
    BY <1>4 DEF Acknowledge
  <2>3. {} \notin notes[m]
    OBVIOUS
  <2> QED
    BY <2>1, <2>2, <2>3
<1>5. CASE Hide(q) \/ Delete(q)
  BY <1>0, <1>5 DEF Hide, Delete, Erase
<1>6. CASE SendRejectedMedia(q) \/ Read(q) \/ Unreact(q) \/ Edit(q)
               \/ UpdateRoom(q)
  BY <1>6 DEF SendRejectedMedia, Read, Unreact, Edit, UpdateRoom
<1> QED
  BY <1>2, <1>3, <1>4, <1>5, <1>6 DEF Perform

\* A notification for nobody, which no acknowledgement deletes, comes from a user
\* alone in the room: acknowledgements take the last recipient of one and the
\* notification itself together, whatever else runs (signals.py:180).
THEOREM NotesHaveReaders == Spec => NoEmptiedNote
<1>1. ASSUME Typed, [Next]_vars, NEW m \in Message, {} \in notes'[m] \ notes[m]
      PROVE  \E h \in Handler :
                 /\ step[h] = "ready" /\ step'[h] = "idle"
                 /\ request[h].op \in {"send", "react"}
                 /\ Alone(request[h].user, home'[m])
  <2>1. CASE UNCHANGED <<rooms, rows, traces, history>>
    BY <1>1, <2>1 DEF traces
  <2>2. CASE \E h \in Handler : /\ step[h] = "ready" /\ step'[h] = "idle"
                                /\ request[h] \in Request
                                /\ Perform(request[h])
    BY <1>1, <2>2, PerformNotes
  <2>3. ASSUME NEW r \in Room, NEW M \in SUBSET User, ChangeMembers(r, M)
        PROVE  FALSE
    <3>1. notes \in [Message -> SUBSET SUBSET User]
      BY <1>1 DEF Typed, TypeOK
    <3> QED
      BY <1>1, <2>3, <3>1 DEF ChangeMembers, Erase, traces
  <2> QED
    BY <1>1, <2>1, <2>2, <2>3, StepKinds
<1>2. Typed /\ [Next]_vars =>
          [\A m \in Message :
               {} \in notes'[m] \ notes[m] =>
                   \E h \in Handler :
                       /\ step[h] = "ready" /\ step'[h] = "idle"
                       /\ request[h].op \in {"send", "react"}
                       /\ Alone(request[h].user, home'[m])]_vars
  BY <1>1
<1> QED
  BY <1>2, AlwaysTyped, PTL DEF Spec, NoEmptiedNote
=============================================================================
