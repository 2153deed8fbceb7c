---------------------------- MODULE Server_proofs ----------------------------
(***************************************************************************)
(* Proofs about Server, for any number of users, rooms, connections and    *)
(* overlapping handlers: the rooms behave as Rooms says, the sessions as   *)
(* Subscriptions says, and one handler at a time makes every request fresh.*)
(***************************************************************************)
EXTENDS Server, Rooms_proofs

\* A connection with a request is open and asks for its own user.
Asking ==
    \A h \in Handler : request[h] # None =>
        step[h] = "open" /\ request[h].user = Owner[h]

\* How many connections are inside a handler.
Bounded ==
    /\ step \in [Handler -> S!Step]
    /\ Cardinality(Busy) =< MaxBusy

\* Who is a member was one for the history too, and so was the creator; only a
\* direct chat has a row and no member.
Remembered ==
    /\ ever \in [Room -> SUBSET User]
    /\ untold \in [Room -> SUBSET User]
    /\ \A r \in Room :
          /\ members[r] \subseteq ever[r]
          /\ kind[r] \notin {None, "direct"} => creator[r] \in ever[r]
          /\ r \in live /\ kind[r] # "direct" => members[r] # {}

\* The request is what the check would hand over now.
FreshRequest(q) ==
    /\ q.user \in users
    /\ q.room \in live
    /\ Permitted(q.kind, q.user, q.room)
    /\ q = Fetched(q.kind, q.user, q.room)

\* One handler at a time: every request in progress is.
AllFresh ==
    MaxBusy =< 1 => \A h \in Handler : request[h] # None => FreshRequest(request[h])

VInv == IInv /\ Asking /\ Bounded /\ Remembered /\ AllFresh

-----------------------------------------------------------------------------
(***************************************************************************)
(* What the steps do to the control of the connections.                    *)
(***************************************************************************)

\* Only connection h moves, and it starts a handler only when one may start.
Moves(h) ==
    /\ step' \in [Handler -> S!Step]
    /\ \A g \in Handler \ {h} : step'[g] = step[g] /\ request'[g] = request[g]
    /\ h \in Busy' => h \in Busy \/ MayStart

LEMMA GotoSteps ==
    ASSUME step \in [Handler -> S!Step], NEW h \in Handler, NEW s, S!Goto(h, s),
           s \in S!Step
    PROVE  /\ step' \in [Handler -> S!Step]
           /\ step'[h] = s
           /\ \A g \in Handler \ {h} : step'[g] = step[g]
BY DEF S!Goto

LEMMA DeviceMoves ==
    ASSUME TypeOK, step \in [Handler -> S!Step], NEW h \in Handler, Device(h)
    PROVE  Moves(h)
<1>0. request' = request
  BY DEF Device
<1>1. CASE step' = step
  BY <1>0, <1>1 DEF Moves, Busy, S!Idle
<1>2. ASSUME NEW s \in S!Step, S!Goto(h, s), h \in Busy \/ MayStart
      PROVE  Moves(h)
  BY <1>0, <1>2, GotoSteps DEF Moves
<1>3. CASE S!Connect(h) /\ MayStart
  BY <1>2, <1>3 DEF S!Connect, S!Step
<1>4. CASE S!Disconnect(h) /\ MayStart
  BY <1>2, <1>4 DEF S!Disconnect, S!Step
<1>5. CASE S!Cleanup(h)
  <2>1. h \in Busy
    BY <1>5 DEF S!Cleanup, S!CleanupFetch, S!CleanupExpired, S!CleanupDiscard,
       S!CleanupDone, Busy, S!Idle
  <2> QED
    BY <1>1, <1>2, <1>5, <2>1
       DEF S!Cleanup, S!CleanupFetch, S!CleanupExpired, S!CleanupDiscard,
           S!CleanupDone, S!Step
<1>6. CASE S!Setup(h)
  <2>1. h \in Busy
    BY <1>6 DEF S!Setup, S!SetupFetch, S!SetupStore, S!Restore, S!Register,
       Busy, S!Idle
  <2> QED
    BY <1>1, <1>2, <1>6, <2>1
       DEF S!Setup, S!SetupFetch, S!SetupStore, S!Restore, S!Register, S!Step
<1>7. CASE S!Fan(h)
  <2>1. h \in Busy
    BY <1>7 DEF S!Fan, S!FanRead, S!FanTouch, S!FanCommit, S!FanGet, S!FanSet,
       Busy, S!Idle
  <2> QED
    BY <1>1, <1>2, <1>7, <2>1
       DEF S!Fan, S!FanRead, S!FanTouch, S!FanCommit, S!FanGet, S!FanSet,
           S!NextUser, S!Step
<1>8. CASE S!Lapse(h) \/ S!Heartbeat(h)
  BY <1>1, <1>8 DEF S!Lapse, S!Heartbeat
<1> QED
  BY <1>3, <1>4, <1>5, <1>6, <1>7, <1>8 DEF Device

LEMMA DieMoves ==
    ASSUME TypeOK, step \in [Handler -> S!Step], NEW h \in Handler, Die(h)
    PROVE  Moves(h) /\ step'[h] = "closed" /\ request'[h] = None
<1>1. "closed" \in S!Step /\ S!Goto(h, "closed")
  BY DEF Die, S!Crash, S!Step
<1>2. /\ request'[h] = None
      /\ \A g \in Handler \ {h} : request'[g] = request[g]
  BY DEF Die, TypeOK
<1> QED
  BY <1>1, <1>2, GotoSteps DEF Moves, Busy, S!Idle

LEMMA AskMoves ==
    ASSUME TypeOK, step \in [Handler -> S!Step], NEW h \in Handler, Ask(h)
    PROVE  Moves(h)
BY DEF Ask, Check, Moves, TypeOK, history, sessions

\* After a room step the connection is open, or in the fan-out.
LEMMA FanOutGoes ==
    ASSUME step \in [Handler -> S!Step], NEW h \in Handler, step[h] = "open",
           \/ \E add, r, U : S!FanOut(h, add, r, U)
           \/ \E r, U : S!NoFanOut(r, U)
    PROVE  /\ step' \in [Handler -> S!Step]
           /\ step'[h] \in {"open", "read"}
           /\ \A g \in Handler \ {h} : step'[g] = step[g]
<1>1. "read" \in S!Step
  BY DEF S!Step
<1>2. UNCHANGED step \/ S!Goto(h, "read")
  BY DEF S!FanOut, S!NoFanOut
<1> QED
  BY <1>1, <1>2, GotoSteps

LEMMA EnterMoves ==
    ASSUME TypeOK, step \in [Handler -> S!Step], NEW h \in Handler, Enter(h)
    PROVE  Moves(h) /\ UNCHANGED request
<1>1. \/ \E add, r, U : S!FanOut(h, add, r, U)
      \/ \E r, U : S!NoFanOut(r, U)
  BY DEF Enter, CreateAndTell, JoinAndTell
<1>2. step[h] = "open" /\ MayStart /\ request' = request
  BY DEF Enter, Free
<1> QED
  BY <1>1, <1>2, FanOutGoes DEF Moves

LEMMA CarryMoves ==
    ASSUME TypeOK, Asking, step \in [Handler -> S!Step], NEW h \in Handler, Carry(h)
    PROVE  Moves(h) /\ step[h] = "open" /\ request'[h] = None
<1>1. \/ \E add, r, U : S!FanOut(h, add, r, U)
      \/ \E r, U : S!NoFanOut(r, U)
  BY DEF Carry, AddAndTell, RemoveAndTell, LeaveAndTell, DeleteAndTell, ModifyAndTell
<1>2. step[h] = "open" /\ h \in Busy
  BY DEF Carry, Asking, Busy
<1>3. request'[h] = None /\ \A g \in Handler \ {h} : request'[g] = request[g]
  BY DEF Carry, TypeOK
<1> QED
  BY <1>1, <1>2, <1>3, FanOutGoes DEF Moves

-----------------------------------------------------------------------------
(***************************************************************************)
(* How many are inside a handler.                                          *)
(***************************************************************************)
LEMMA BusyFinite ==
    /\ IsFiniteSet(Busy) /\ Cardinality(Busy) \in Nat
    /\ IsFiniteSet(Busy') /\ Cardinality(Busy') \in Nat
    /\ MaxBusy \in Nat
<1>1. Busy \subseteq Handler /\ Busy' \subseteq Handler
  BY DEF Busy
<1>2. IsFiniteSet(Handler) /\ MaxBusy \in Nat
  BY ServerAssumption
<1> QED
  BY <1>1, <1>2, FS_Subset, FS_CardinalityType

\* The bound is kept.
LEMMA StaysBounded ==
    ASSUME Bounded, NEW h \in Handler, Moves(h)
    PROVE  Bounded'
<1>1. \A g \in Handler \ {h} : g \in Busy' <=> g \in Busy
  BY DEF Moves, Busy, S!Idle
<1>2. Busy' \subseteq Busy \cup {h}
  BY <1>1 DEF Busy
<1>3. CASE h \in Busy' /\ h \notin Busy
  <2>1. Cardinality(Busy) < MaxBusy
    BY <1>3 DEF Moves, MayStart
  <2>2. /\ IsFiniteSet(Busy \cup {h})
        /\ Cardinality(Busy \cup {h}) = Cardinality(Busy) + 1
    BY <1>3, BusyFinite, FS_AddElement
  <2>3. Cardinality(Busy') =< Cardinality(Busy \cup {h})
    BY <1>2, <2>2, FS_Subset
  <2> QED
    BY <2>1, <2>2, <2>3, BusyFinite DEF Bounded, Moves
<1>4. CASE ~ (h \in Busy' /\ h \notin Busy)
  <2>1. Busy' \subseteq Busy
    BY <1>2, <1>4
  <2>2. Cardinality(Busy') =< Cardinality(Busy)
    BY <2>1, BusyFinite, FS_Subset
  <2> QED
    BY <2>2, BusyFinite DEF Bounded, Moves
<1> QED
  BY <1>3, <1>4

\* With one handler at a time, nobody else is in one.
LEMMA OneBusy ==
    ASSUME Bounded, MaxBusy =< 1, NEW g \in Busy, NEW h \in Busy
    PROVE  g = h
<1> SUFFICES ASSUME g # h
             PROVE  FALSE
  OBVIOUS
<1>1. /\ IsFiniteSet(Busy \ {h})
      /\ Cardinality(Busy \ {h}) = Cardinality(Busy) - 1
  BY BusyFinite, FS_RemoveElement
<1>2. Cardinality(Busy \ {h}) = 0
  BY <1>1, BusyFinite, FS_CardinalityType DEF Bounded
<1>3. Busy \ {h} = {}
  BY <1>1, <1>2, FS_EmptySet
<1> QED
  BY <1>3

\* When a handler may start, none is under way.
LEMMA NobodyBusy ==
    ASSUME MaxBusy =< 1, MayStart
    PROVE  Busy = {}
<1>1. Cardinality(Busy) = 0
  BY BusyFinite DEF MayStart
<1> QED
  BY <1>1, BusyFinite, FS_EmptySet

\* The two modules count alike.
LEMMA SameCount == \A T : S!Cardinality(T) = Cardinality(T)
BY DEF S!Cardinality, Cardinality, S!IsFiniteSet, IsFiniteSet

\* A connection whose request is checked, or may start, may go into a fan-out.
LEMMA FanOutMayStart ==
    ASSUME Bounded, NEW h \in Handler, step[h] = "open",
           MayStart \/ request[h] # None
    PROVE  S!MayStart
<1> DEFINE B == {c \in Handler : ~ S!Idle(c)}
<1>1. CASE MayStart
  <2>1. B \subseteq Busy
    BY DEF Busy
  <2>2. IsFiniteSet(B) /\ Cardinality(B) =< Cardinality(Busy)
    BY <2>1, BusyFinite, FS_Subset
  <2>3. Cardinality(B) \in Nat
    BY <2>2, FS_CardinalityType
  <2> QED
    BY <1>1, <2>2, <2>3, BusyFinite, SameCount DEF MayStart, S!MayStart
<1>2. CASE request[h] # None
  <2>1. h \in Busy /\ B \subseteq Busy \ {h}
    BY <1>2 DEF Busy, S!Idle
  <2>2. /\ IsFiniteSet(Busy \ {h})
        /\ Cardinality(Busy \ {h}) = Cardinality(Busy) - 1
    BY <2>1, BusyFinite, FS_RemoveElement
  <2>3. IsFiniteSet(B) /\ Cardinality(B) =< Cardinality(Busy \ {h})
    BY <2>1, <2>2, FS_Subset
  <2>4. Cardinality(B) \in Nat
    BY <2>3, FS_CardinalityType
  <2> QED
    BY <2>2, <2>3, <2>4, BusyFinite, SameCount DEF Bounded, S!MayStart
<1> QED
  BY <1>1, <1>2

-----------------------------------------------------------------------------
(***************************************************************************)
(* The rooms.                                                              *)
(***************************************************************************)

\* A room step of Server is one of Rooms.
LEMMA RoomStepIsRooms ==
    ASSUME TypeOK, NEW h \in Handler, RoomStep(h)
    PROVE  Create \/ Join \/ Act(h)
<1>0. Owner[h] \in User
  BY ServerAssumption
<1>1. CASE Enter(h) /\ CreateAndTell(h)
  <2>1. CreateRoom(Owner[h])
    BY <1>1 DEF CreateAndTell, CreateRoom
  <2> QED
    BY <1>0, <1>1, <2>1 DEF Create, Enter
<1>2. CASE Enter(h) /\ JoinAndTell(h)
  BY <1>0, <1>2 DEF Join, JoinAndTell, Enter
<1>3. CASE Carry(h)
  BY <1>3 DEF Carry, Act, Perform, AddAndTell, RemoveAndTell, LeaveAndTell,
     DeleteAndTell, ModifyAndTell
<1> QED
  BY <1>1, <1>2, <1>3 DEF RoomStep, Enter

\* Every step is a step of Rooms that deletes no account.
LEMMA StepIsRooms ==
    ASSUME TypeOK, [ServerNext]_serverVars
    PROVE  \/ UNCHANGED vars
           \/ Create
           \/ Join
           \/ \E h \in Handler : Check(h) \/ Act(h) \/ Abandon(h)
<1>1. CASE UNCHANGED serverVars
  BY <1>1 DEF serverVars
<1>2. ASSUME NEW h \in Handler, Device(h)
      PROVE  UNCHANGED vars
  BY <1>2 DEF Device, store, vars
<1>3. ASSUME NEW h \in Handler, Die(h)
      PROVE  UNCHANGED vars \/ Abandon(h)
  <2>1. CASE request[h] = None
    <3>1. request' = request
      BY <1>3, <2>1 DEF Die, TypeOK
    <3> QED
      BY <1>3, <3>1 DEF Die, store, vars
  <2> QED
    BY <1>3, <2>1 DEF Die, Abandon
<1>4. ASSUME NEW h \in Handler, Ask(h)
      PROVE  Check(h)
  BY <1>4 DEF Ask
<1>5. ASSUME NEW h \in Handler, RoomStep(h)
      PROVE  Create \/ Join \/ Act(h)
  BY <1>5, RoomStepIsRooms
<1> QED
  BY <1>1, <1>2, <1>3, <1>4, <1>5 DEF ServerNext

\* What a step of Rooms, accounts apart, does to the row of a room: it keeps
\* kind and creator and brings no row about, or it makes a direct chat, or it
\* leaves the creator inside.
LEMMA RowStep ==
    ASSUME IInv, Create \/ Join \/ \E h \in Handler : Act(h), NEW r \in Room
    PROVE  /\ users' = users
           /\ \/ /\ kind'[r] = kind[r] /\ creator'[r] = creator[r]
                 /\ r \in live' => r \in live
              \/ kind'[r] = "direct"
              \/ creator'[r] \in members'[r]
<1>0. StoreTypeOK /\ TypeOK
  BY DEF IInv, TypeOK
<1>1. ASSUME NEW u, NEW d \in Room, NEW k, NEW p, NEW first, Saved(u, d, k, p, first),
             k # "direct" => u \in first
      PROVE  /\ users' = users
             /\ \/ /\ kind'[r] = kind[r] /\ creator'[r] = creator[r]
                   /\ r \in live' => r \in live
                \/ kind'[r] = "direct"
                \/ creator'[r] \in members'[r]
  <2>1. CASE r # d
    BY <1>0, <1>1, <2>1 DEF Saved, StoreTypeOK
  <2>2. CASE r = d
    BY <1>0, <1>1, <2>2 DEF Saved, StoreTypeOK
  <2> QED
    BY <2>1, <2>2
<1>2. CASE Create
  <2>1. PICK u \in User : CreateRoom(u)
    BY <1>2 DEF Create
  <2>2. PICK d \in Room, k \in Kinds, p \in BOOLEAN, T \in SUBSET users :
            \/ Saved(u, d, "direct", FALSE, T \cup {u})
            \/ Saved(u, d, k, p, T \cup {u})
            \/ Saved(u, d, k, p, IF k = "direct" THEN {} ELSE {u})
    BY <2>1 DEF CreateRoom, CreateDirect, CreateShared, CreateRejectedByProperty
  <2> QED
    BY <1>1, <2>2
<1>3. CASE Join
  BY <1>3 DEF Join, JoinRoom
<1>4. ASSUME NEW h \in Handler, Act(h)
      PROVE  /\ users' = users
             /\ \/ /\ kind'[r] = kind[r] /\ creator'[r] = creator[r]
                   /\ r \in live' => r \in live
                \/ kind'[r] = "direct"
                \/ creator'[r] \in members'[r]
  <2> DEFINE q == request[h]
  <2>1. q \in Request /\ q # None /\ Perform(q)
    BY <1>0, <1>4 DEF Act, TypeOK
  <2>2. q.room \in Room
    BY <2>1 DEF Request
  <2> HIDE DEF q
  <2>3. ASSUME NEW p, UpdateDeletedRoom(q, p)
        PROVE  \E k, first, u : Saved(u, q.room, k, p, first)
                                /\ (k # "direct" => u \in first)
    BY <2>3 DEF UpdateDeletedRoom
  <2>4. CASE \E p : UpdateDeletedRoom(q, p)
    BY <1>1, <2>2, <2>3, <2>4
  <2>5. CASE ~ \E p : UpdateDeletedRoom(q, p)
    <3>1. users' = users /\ kind' = kind /\ creator' = creator /\ live' \subseteq live
      BY <2>1, <2>5
         DEF Perform, AddMembers, RemoveMembers, LeaveRoom, DeleteRoom, ModifyRoom,
             ModifyRoles, UpdateRoom, AddPermission, RemovePermission, AddAdmin,
             RemoveAdmin, TakeOut, DropRoom, store
    <3> QED
      BY <3>1
  <2> QED
    BY <2>4, <2>5
<1> QED
  BY <1>2, <1>3, <1>4

\* What the history is about.
LEMMA StaysRemembered ==
    ASSUME IInv, TypeOK', Remembered, NEW h \in Handler, RoomStep(h)
    PROVE  Remembered'
<1>0. Create \/ Join \/ Act(h)
  BY RoomStepIsRooms DEF IInv
<1>1. /\ ever' \in [Room -> SUBSET User]
      /\ \A r \in Room : ever'[r] = ever[r] \cup members'[r]
  BY DEF RoomStep, Remembered, TypeOK, StoreTypeOK
<1>4. untold' \in [Room -> SUBSET User]
  <2>1. /\ Owner[h] \in User
        /\ untold \in [Room -> SUBSET User]
        /\ members' \in [Room -> SUBSET User] /\ members \in [Room -> SUBSET User]
        /\ users \subseteq User
    BY ServerAssumption DEF IInv, Remembered, TypeOK, StoreTypeOK
  <2>2. ASSUME NEW r, NEW add, NEW U, S!FanOut(h, add, r, U)
        PROVE  untold' \in [Room -> SUBSET User]
    BY <2>1, <2>2 DEF S!FanOut
  <2>3. ASSUME NEW r, NEW U \in SUBSET User, S!NoFanOut(r, U)
        PROVE  untold' \in [Room -> SUBSET User]
    BY <2>1, <2>3 DEF S!NoFanOut
  <2>4. CASE Enter(h)
    BY <2>1, <2>2, <2>3, <2>4 DEF Enter, CreateAndTell, JoinAndTell
  <2>5. CASE Carry(h)
    <3>1. request[h] \in Request /\ request[h].room \in Room
      BY <2>5 DEF Carry, IInv, TypeOK, Request
    <3>2. members'[request[h].room] \ members[request[h].room] \in SUBSET User
      BY <2>1, <3>1
    <3>3. ASSUME AddAndTell(h, request[h])
          PROVE  untold' \in [Room -> SUBSET User]
      <4>1. \/ \E U : S!FanOut(h, TRUE, request[h].room, U)
            \/ S!NoFanOut(request[h].room, {})
        BY <3>3 DEF AddAndTell
      <4>2. CASE S!NoFanOut(request[h].room, {})
        BY <2>3, <4>2
      <4> QED
        BY <2>2, <4>1, <4>2
    <3>4. ASSUME RemoveAndTell(h, request[h])
          PROVE  untold' \in [Room -> SUBSET User]
      <4>1. \/ \E U : S!FanOut(h, FALSE, request[h].room, U)
            \/ S!NoFanOut(request[h].room, {})
        BY <3>4 DEF RemoveAndTell
      <4>2. CASE S!NoFanOut(request[h].room, {})
        BY <2>3, <4>2
      <4> QED
        BY <2>2, <4>1, <4>2
    <3>5. ASSUME LeaveAndTell(h, request[h]) \/ DeleteAndTell(h, request[h])
          PROVE  untold' \in [Room -> SUBSET User]
      BY <2>2, <3>5 DEF LeaveAndTell, DeleteAndTell
    <3>6. ASSUME ModifyAndTell(h, request[h])
          PROVE  untold' \in [Room -> SUBSET User]
      BY <2>3, <3>2, <3>6 DEF ModifyAndTell
    <3> QED
      BY <2>5, <3>3, <3>4, <3>5, <3>6 DEF Carry
  <2> QED
    BY <2>4, <2>5 DEF RoomStep
<1>2. ASSUME NEW r \in Room
      PROVE  /\ members'[r] \subseteq ever'[r]
             /\ kind'[r] \notin {None, "direct"} => creator'[r] \in ever'[r]
  BY <1>0, <1>1, RowStep DEF Remembered
<1>3. ASSUME NEW r \in Room, r \in live', kind'[r] # "direct", members'[r] = {}
      PROVE  FALSE
  <2>1. r \in live /\ kind[r] # "direct" /\ users' = users
    BY <1>0, <1>3, RowStep
  <2>2. members[r] # {}
    BY <2>1 DEF Remembered
  <2>3. [Next]_vars
    BY <1>0 DEF Next
  <2> QED
    BY <1>3, <2>1, <2>2, <2>3, NeverEmptiedStep
<1> QED
  BY <1>1, <1>2, <1>3, <1>4 DEF Remembered

-----------------------------------------------------------------------------
(***************************************************************************)
(* The invariant.                                                          *)
(***************************************************************************)

\* What the check hands over is fresh.
LEMMA FetchedIsFresh ==
    ASSUME NEW u \in users, NEW r \in live, NEW k, Permitted(k, u, r)
    PROVE  FreshRequest(Fetched(k, u, r))
BY DEF FreshRequest, Fetched

LEMMA ServerInitInv == ServerInit => VInv
<1> SUFFICES ASSUME ServerInit
             PROVE  VInv
  OBVIOUS
<1>1. Init /\ S!Init
  BY DEF ServerInit
<1>2. /\ \A h \in Handler : request[h] = None /\ step[h] = "off"
      /\ step = [h \in Handler |-> "off"]
      /\ \A r \in Room : kind[r] = None /\ members[r] = {} /\ r \notin live
      /\ ever = [r \in Room |-> {}] /\ untold = [r \in Room |-> {}]
  BY <1>1 DEF Init, StoreInit, S!Init
<1>3. Busy = {}
  BY <1>2 DEF Busy, S!Idle
<1>4. Bounded
  BY <1>2, <1>3, FS_EmptySet, BusyFinite DEF Bounded, S!Step
<1> QED
  BY <1>1, <1>2, <1>4, InitIInv DEF VInv, Asking, Remembered, AllFresh

\* The steps that leave the rooms alone.
LEMMA QuietStep ==
    ASSUME VInv, NEW h \in Handler, Device(h) \/ Die(h) \/ Ask(h)
    PROVE  VInv'
<1>0. /\ IInv /\ TypeOK /\ StoreTypeOK /\ Bounded /\ Asking /\ Remembered
      /\ step \in [Handler -> S!Step]
  BY DEF VInv, IInv, TypeOK, Bounded
<1>1. Moves(h)
  BY <1>0, DeviceMoves, DieMoves, AskMoves
<1>2. UNCHANGED <<store, ever, untold>>
  BY DEF Device, Die, Ask, Check, history, S!Connect, S!Disconnect, S!Cleanup,
     S!CleanupFetch, S!CleanupExpired, S!CleanupDiscard, S!CleanupDone, S!Setup,
     S!SetupFetch, S!SetupStore, S!Restore, S!Register, S!Fan, S!FanRead,
     S!FanTouch, S!FanCommit, S!FanGet, S!FanSet, S!Lapse, S!Heartbeat, S!Crash,
     S!db
<1>3. IInv'
  <2>1. [ServerNext]_serverVars
    BY DEF ServerNext
  <2>2. [Next]_vars
    BY <1>0, <2>1, StepIsRooms DEF Next
  <2> QED
    BY <1>0, <2>2, NextIInv
<1>4. Bounded'
  BY <1>0, <1>1, StaysBounded
<1>5. Remembered'
  BY <1>0, <1>2 DEF Remembered, store
<1>6. ASSUME NEW g \in Handler, request'[g] # None
      PROVE  /\ step'[g] = "open" /\ request'[g].user = Owner[g]
             /\ MaxBusy =< 1 => FreshRequest(request[g])'
  <2>1. CASE request'[g] = request[g]
    <3>1. step'[g] = "open"
      <4>1. CASE g # h
        BY <1>0, <1>1, <1>6, <2>1, <4>1 DEF Moves, Asking
      <4>2. CASE g = h /\ Device(h)
        BY <1>0, <1>6, <2>1, <4>2
           DEF Asking, Device, Free, S!Connect, S!Disconnect, S!Cleanup,
               S!CleanupFetch, S!CleanupExpired, S!CleanupDiscard, S!CleanupDone,
               S!Setup, S!SetupFetch, S!SetupStore, S!Restore, S!Register, S!Fan,
               S!FanRead, S!FanTouch, S!FanCommit, S!FanGet, S!FanSet, S!Lapse,
               S!Heartbeat
      <4>3. CASE g = h /\ Die(h)
        BY <1>0, <1>6, <4>3, DieMoves
      <4>4. CASE g = h /\ Ask(h)
        BY <4>4 DEF Ask, Free
      <4> QED
        BY <4>1, <4>2, <4>3, <4>4
    <3>2. request'[g].user = Owner[g] /\ (MaxBusy =< 1 => FreshRequest(request[g]))
      BY <1>0, <1>6, <2>1 DEF VInv, Asking, AllFresh
    <3>3. MaxBusy =< 1 => FreshRequest(request[g])'
      BY <1>2, <2>1, <3>2 DEF FreshRequest, Permitted, Manages, Fetched, store
    <3> QED
      BY <3>1, <3>2, <3>3
  <2>2. CASE request'[g] # request[g]
    <3>1. g = h /\ Ask(h)
      BY <1>0, <1>1, <1>6, <2>2, DieMoves DEF Moves, Device
    <3>2. PICK u \in users, r \in live, k \in RequestKind :
              /\ Permitted(k, u, r)
              /\ request' = [request EXCEPT ![h] = Fetched(k, u, r)]
      BY <3>1 DEF Ask, Check
    <3>3. FreshRequest(Fetched(k, u, r)) /\ request'[g] = Fetched(k, u, r)
      BY <1>0, <3>1, <3>2, FetchedIsFresh DEF TypeOK
    <3>4. FreshRequest(request[g])'
      BY <1>2, <3>3 DEF FreshRequest, Permitted, Manages, Fetched, store
    <3>5. step'[g] = "open" /\ request'[g].user = Owner[g]
      BY <3>1 DEF Ask, Free
    <3> QED
      BY <3>4, <3>5
  <2> QED
    BY <2>1, <2>2
<1> QED
  BY <1>3, <1>4, <1>5, <1>6 DEF VInv, Asking, AllFresh

LEMMA RoomStepInv ==
    ASSUME VInv, NEW h \in Handler, RoomStep(h)
    PROVE  VInv'
<1>0. /\ IInv /\ TypeOK /\ Bounded /\ Asking /\ Remembered
      /\ step \in [Handler -> S!Step]
  BY DEF VInv, IInv, Bounded
<1>1. \/ Moves(h) /\ Enter(h) /\ UNCHANGED request
      \/ Moves(h) /\ Carry(h) /\ request'[h] = None
  BY <1>0, EnterMoves, CarryMoves DEF RoomStep
<1>2. IInv' /\ TypeOK'
  <2>1. [Next]_vars
    BY <1>0, RoomStepIsRooms DEF Next
  <2> QED
    BY <1>0, <2>1, NextIInv DEF IInv
<1>3. Bounded'
  BY <1>0, <1>1, StaysBounded
<1>4. Remembered'
  BY <1>0, <1>2, StaysRemembered
<1>5. ASSUME NEW g \in Handler, request'[g] # None
      PROVE  g # h /\ request'[g] = request[g] /\ step'[g] = step[g]
  BY <1>1, <1>5 DEF Moves, Enter, Free
<1>6. Asking'
  BY <1>0, <1>5 DEF Asking
<1>7. AllFresh'
  <2> SUFFICES ASSUME MaxBusy =< 1, NEW g \in Handler, request'[g] # None
               PROVE  FALSE
    BY DEF AllFresh
  <2>1. g \in Busy /\ g # h
    BY <1>5 DEF Busy
  <2>2. CASE Enter(h)
    BY <2>1, <2>2, NobodyBusy DEF Enter
  <2>3. CASE Carry(h)
    <3>1. h \in Busy
      BY <2>3 DEF Carry, Busy
    <3> QED
      BY <1>0, <2>1, <3>1, OneBusy
  <2> QED
    BY <1>1, <2>2, <2>3
<1> QED
  BY <1>2, <1>3, <1>4, <1>6, <1>7 DEF VInv

LEMMA ServerNextInv == VInv /\ [ServerNext]_serverVars => VInv'
<1>1. ASSUME VInv, UNCHANGED serverVars
      PROVE  VInv'
  <2>1. UNCHANGED <<vars, step, ever, untold>>
    BY <1>1 DEF serverVars, history
  <2>2. IInv'
    BY <1>1, <2>1, NextIInv DEF VInv
  <2>3. UNCHANGED <<store, request>>
    BY <2>1 DEF vars, store
  <2>4. Busy' = Busy
    BY <2>1, <2>3 DEF Busy, S!Idle
  <2>5. Bounded' /\ Asking' /\ Remembered'
    BY <1>1, <2>1, <2>3, <2>4 DEF VInv, Bounded, Asking, Remembered, store
  <2>6. AllFresh'
    BY <1>1, <2>3 DEF VInv, AllFresh, FreshRequest, Permitted, Manages, Fetched, store
  <2> QED
    BY <2>2, <2>5, <2>6 DEF VInv
<1> QED
  BY <1>1, QuietStep, RoomStepInv DEF ServerNext

LEMMA ServerInvariance == ServerSpec => []VInv
BY ServerInitInv, ServerNextInv, PTL DEF ServerSpec

-----------------------------------------------------------------------------
(***************************************************************************)
(* The server behaves as Rooms says.                                       *)
(***************************************************************************)

\* Whatever Rooms guarantees holds of the server: a connection that also
\* keeps sessions does nothing to the rooms that Rooms does not know.
THEOREM ServerIsRooms == ServerSpec => Spec
<1>1. ServerInit => Init
  BY DEF ServerInit
<1>2. VInv /\ [ServerNext]_serverVars => [Next]_vars
  BY StepIsRooms DEF VInv, IInv, Next
<1> QED
  BY <1>1, <1>2, ServerInvariance, PTL DEF ServerSpec, Spec

\* So, however handlers overlap and die: one direct chat per pair, of two users
\* or nobody, no room beyond its limit, no rows without a room.
THEOREM ServerSafety ==
    ServerSpec => [](UniquePair /\ DirectSize /\ Capacity /\ NoOrphanRows)
BY ServerIsRooms, Safety, PTL

\* No room is left standing empty by a request, and nobody but the creator, the
\* deletion of the room or of the account takes the creator out.
THEOREM ServerSteps == ServerSpec => NeverEmptied /\ CreatorStays
BY ServerIsRooms, LastTakesRoom, CreatorIsSafe, PTL

\* The effect of a fresh request is an atomic operation of the store.
LEMMA FreshStep ==
    ASSUME VInv, MaxBusy =< 1, [ServerNext]_serverVars
    PROVE  [StoreNext]_store
<1>0. TypeOK
  BY DEF VInv, IInv
<1>1. CASE UNCHANGED vars
  BY <1>1 DEF vars, store
<1>2. CASE Create \/ Join
  BY <1>2 DEF Create, Join, StoreNext
<1>3. ASSUME NEW h \in Handler, Check(h) \/ Abandon(h)
      PROVE  UNCHANGED store
  BY <1>3 DEF Check, Abandon
<1>4. ASSUME NEW h \in Handler, Act(h)
      PROVE  StoreNext
  <2> DEFINE q == request[h]
  <2>1. FreshRequest(q) /\ q \in Request /\ Perform(q)
    BY <1>0, <1>4 DEF Act, TypeOK, VInv, AllFresh
  <2>2. q.user \in User /\ q.room \in Room /\ q.kind \in RequestKind
    BY <2>1 DEF Request
  <2>3. HandleRequest(q.user, q.room, q.kind)
    BY <2>1 DEF HandleRequest, FreshRequest
  <2> HIDE DEF q
  <2> QED
    BY <2>2, <2>3 DEF StoreNext
<1> QED
  BY <1>0, <1>1, <1>2, <1>3, <1>4, StepIsRooms

\* One handler at a time makes the check and the helper one atomic step.
THEOREM ServerRefinesStore ==
    ASSUME MaxBusy =< 1
    PROVE  ServerSpec => RefinesStore
<1>1. ServerInit => StoreInit
  BY DEF ServerInit, Init
<1>2. VInv /\ [ServerNext]_serverVars => [StoreNext]_store
  BY FreshStep
<1> QED
  BY <1>1, <1>2, ServerInvariance, PTL DEF ServerSpec, RefinesStore, StoreSpec

\* And so the roles and the permissions are right, which needs fresh requests.
THEOREM ServerRoles ==
    ASSUME MaxBusy =< 1
    PROVE  ServerSpec => [](AdminsAreMembers /\ HoldersAreMembers)
BY ServerRefinesStore, StoreRoles DEF RefinesStore

-----------------------------------------------------------------------------
(***************************************************************************)
(* The server behaves as Subscriptions says.                               *)
(***************************************************************************)

\* What every room step leaves to Subscriptions.
Started(h) ==
    /\ step[h] = "open"
    /\ S!MayStart
    /\ UNCHANGED <<S!layer, session, groups, todo, turn>>

LEMMA RoomStepStarts ==
    ASSUME VInv, NEW h \in Handler, RoomStep(h)
    PROVE  Started(h)
<1>1. step[h] = "open" /\ (MayStart \/ request[h] # None)
  BY DEF RoomStep, Enter, Free, Carry, VInv, Asking
<1> QED
  BY <1>1, FanOutMayStart DEF Started, RoomStep, sessions, S!layer, VInv

\* Room r, and no other, gets the members M.
LEMMA GetsMembers ==
    ASSUME VInv, NEW r \in Room, NEW M \in SUBSET User,
           members' = [members EXCEPT ![r] = M],
           ever' = [q \in Room |-> ever[q] \cup members'[q]],
           kind'[r] # None,
           \A q \in Room \ {r} : kind'[q] = kind[q]
    PROVE  S!SetMembers(r, M)
<1>0. /\ members \in [Room -> SUBSET User] /\ ever \in [Room -> SUBSET User]
      /\ \A q \in Room : members[q] \subseteq ever[q]
  BY DEF VInv, IInv, TypeOK, StoreTypeOK, Remembered
<1>1. Row' = [Row EXCEPT ![r] = IF M = {} THEN "gone" ELSE "live"]
  BY <1>0 DEF Row
<1>2. ever' = [ever EXCEPT ![r] = @ \cup M]
  <2>1. ever'[r] = ever[r] \cup M /\ \A q \in Room \ {r} : ever'[q] = ever[q]
    BY <1>0
  <2> QED
    BY <1>0, <2>1
<1> QED
  BY <1>1, <1>2 DEF S!SetMembers

\* A handler that changes no members and starts no fan-out is not noticed.
LEMMA NotNoticed ==
    ASSUME VInv, NEW h \in Handler, Started(h), members' = members,
           \A q \in Room : kind'[q] = None <=> kind[q] = None,
           ever' = [q \in Room |-> ever[q] \cup members'[q]],
           UNCHANGED <<untold, step, job>>
    PROVE  UNCHANGED S!vars
<1>0. /\ ever \in [Room -> SUBSET User]
      /\ \A q \in Room : members[q] \subseteq ever[q]
  BY DEF VInv, Remembered
<1>1. Row' = Row
  BY DEF Row
<1>2. ever' = ever
  BY <1>0
<1> QED
  BY <1>1, <1>2 DEF Started, S!layer, S!vars

\* Telling nobody is no fan-out.
LEMMA TellsNobody ==
    ASSUME VInv, NEW h, NEW add, NEW r,
           S!FanOut(h, add, r, {}) \/ S!NoFanOut(r, {})
    PROVE  UNCHANGED <<untold, step, job>>
<1>1. untold \in [Room -> SUBSET User]
  BY DEF VInv, Remembered
<1> QED
  BY <1>1 DEF S!FanOut, S!NoFanOut

\* What Subscriptions sees of a room step: a change of members, or nothing.
Seen(h) == S!ChangeMembers(h) \/ UNCHANGED S!vars

LEMMA CreateSeen ==
    ASSUME VInv, NEW h \in Handler, RoomStep(h), CreateAndTell(h)
    PROVE  Seen(h)
<1>0. /\ StoreTypeOK /\ Owner[h] \in User /\ None \notin RoomKind /\ Kinds \subseteq RoomKind
      /\ Started(h)
      /\ ever' = [q \in Room |-> ever[q] \cup members'[q]]
  BY ServerAssumption, NoneAssumption, KindsAssumption, RoomStepStarts
     DEF VInv, IInv, TypeOK, RoomStep
<1> DEFINE u == Owner[h]
<1>1. PICK r \in Room, k \in Kinds, p \in BOOLEAN, T \in SUBSET users :
          /\ kind[r] = None
          /\ \/ /\ \/ k = "direct" /\ CreateDirect(u, r, T)
                   \/ CreateShared(u, r, k, p, T)
                /\ S!FanOut(h, TRUE, r, T \cup {u})
             \/ /\ CreateRejectedByProperty(u, r, k, p)
                /\ S!NoFanOut(r, members'[r])
  BY DEF CreateAndTell
<1>2. Row[r] = "unused" /\ T \in SUBSET User
  BY <1>0, <1>1 DEF Row, StoreTypeOK
<1>3. ASSUME NEW m \in RoomKind, NEW b, NEW M \in SUBSET User, Saved(u, r, m, b, M)
      PROVE  S!SetMembers(r, M) /\ members'[r] = M
  <2>1. /\ members' = [members EXCEPT ![r] = M]
        /\ kind' = [kind EXCEPT ![r] = m]
    BY <1>3 DEF Saved
  <2>2. kind'[r] # None /\ \A q \in Room \ {r} : kind'[q] = kind[q]
    BY <1>0, <1>3, <2>1 DEF StoreTypeOK
  <2>3. S!SetMembers(r, M)
    BY <1>0, <2>1, <2>2, GetsMembers
  <2> QED
    BY <1>0, <2>1, <2>3 DEF StoreTypeOK
<1>4. CASE /\ \/ k = "direct" /\ CreateDirect(u, r, T)
              \/ CreateShared(u, r, k, p, T)
           /\ S!FanOut(h, TRUE, r, T \cup {u})
  <2>1. \E m \in RoomKind : \E b : Saved(u, r, m, b, T \cup {u})
    BY <1>0, <1>4 DEF CreateDirect, CreateShared
  <2>2. S!SetMembers(r, T \cup {u})
    BY <1>0, <1>2, <1>3, <2>1
  <2>3. S!CreateRoom(h, r, T)
    BY <1>2, <1>4, <2>2 DEF S!CreateRoom
  <2> QED
    BY <1>0, <1>2, <2>3 DEF Seen, Started, S!ChangeMembers
<1>5. CASE /\ CreateRejectedByProperty(u, r, k, p)
           /\ S!NoFanOut(r, members'[r])
  <2> DEFINE M == IF k = "direct" THEN {} ELSE {u}
  <2>1. M \in SUBSET User /\ Saved(u, r, k, p, M)
    BY <1>0, <1>5 DEF CreateRejectedByProperty
  <2>2. S!SetMembers(r, M) /\ members'[r] = M
    BY <1>0, <1>3, <2>1
  <2>3. S!CreateRejected(h, r, M)
    BY <1>2, <1>5, <2>2 DEF S!CreateRejected
  <2> QED
    BY <1>0, <2>1, <2>3 DEF Seen, Started, S!ChangeMembers
<1> QED
  BY <1>1, <1>4, <1>5

LEMMA JoinSeen ==
    ASSUME VInv, NEW h \in Handler, RoomStep(h), JoinAndTell(h)
    PROVE  Seen(h)
<1>0. /\ StoreTypeOK /\ LiveHasKind /\ Owner[h] \in User
      /\ Started(h) /\ Remembered
      /\ ever' = [q \in Room |-> ever[q] \cup members'[q]]
  BY ServerAssumption, RoomStepStarts DEF VInv, IInv, TypeOK, StoreInv, RoomStep
<1>1. PICK r \in Room : JoinRoom(Owner[h], r) /\ S!FanOut(h, TRUE, r, {Owner[h]})
  BY DEF JoinAndTell
<1>2. /\ r \in live /\ kind[r] = "channel" /\ kind' = kind
      /\ members' = [members EXCEPT ![r] = members[r] \cup {Owner[h]}]
  BY <1>1 DEF JoinRoom, Fits
<1>3. Row[r] = "live" /\ kind[r] # None
  BY <1>0, <1>2 DEF Row, Remembered, LiveHasKind
<1>4. members[r] \cup {Owner[h]} \in SUBSET User
  BY <1>0 DEF StoreTypeOK
<1>5. S!SetMembers(r, members[r] \cup {Owner[h]})
  BY <1>0, <1>2, <1>3, <1>4, GetsMembers
<1>6. S!JoinRoom(h, r)
  BY <1>1, <1>3, <1>5 DEF S!JoinRoom
<1> QED
  BY <1>0, <1>6 DEF Seen, Started, S!ChangeMembers

-----------------------------------------------------------------------------
(***************************************************************************)
(* A checked request q of connection h, about room q.room.                 *)
(***************************************************************************)
Carried(h, q) ==
    /\ q = request[h]
    /\ q # None
    /\ RoomStep(h)

\* What is known of it.
LEMMA CarriedFacts ==
    ASSUME VInv, NEW h \in Handler, NEW q, Carried(h, q)
    PROVE  /\ q \in Request /\ q.room \in Room /\ q.user = Owner[h] /\ Owner[h] \in User
           /\ kind[q.room] # None
           /\ q.kind \in {"add", "remove", "leave"} => kind[q.room] # "direct"
           /\ \/ MaxBusy > 1
              \/ /\ q.room \in live
                 /\ Owner[h] \in members[q.room]
                 /\ q.kind \notin {"leave", "delete"} => q.members = members[q.room]
           /\ Started(h)
           /\ ever' = [r \in Room |-> ever[r] \cup members'[r]]
           /\ members \in [Room -> SUBSET User]
           /\ users \subseteq User
<1>1. q \in Request /\ Suits(q)
  BY DEF Carried, VInv, IInv, TypeOK
<1>2. q.room \in Room
  BY <1>1 DEF Request
<1>3. q.user = Owner[h] /\ Owner[h] \in User
  BY ServerAssumption DEF Carried, VInv, Asking
<1>4. ASSUME ~ (MaxBusy > 1)
      PROVE  /\ q.room \in live
             /\ Owner[h] \in members[q.room]
             /\ q.kind \notin {"leave", "delete"} => q.members = members[q.room]
  <2>1. MaxBusy =< 1
    BY <1>4, ServerAssumption
  <2>2. FreshRequest(q)
    BY <2>1 DEF Carried, VInv, AllFresh
  <2>3. q.room \in live /\ q.user \in members[q.room]
    BY <2>2 DEF FreshRequest, Permitted
  <2>4. q.members = Fetched(q.kind, q.user, q.room).members
    BY <2>2 DEF FreshRequest
  <2>5. q.kind \notin {"leave", "delete"} => q.members = members[q.room]
    BY <2>4 DEF Fetched
  <2> QED
    BY <1>3, <2>3, <2>5
<1> QED
  BY <1>1, <1>2, <1>3, <1>4, RoomStepStarts
     DEF Suits, Carried, RoomStep, VInv, IInv, TypeOK, StoreTypeOK

\* A step of the helper that leaves the members alone and tells nobody.
LEMMA NothingSeen ==
    ASSUME VInv, NEW h \in Handler, NEW q, Carried(h, q),
           members' = members, kind' = kind, NEW add,
           S!FanOut(h, add, q.room, {}) \/ S!NoFanOut(q.room, {})
    PROVE  Seen(h)
<1>1. UNCHANGED <<untold, step, job>>
  BY TellsNobody
<1> QED
  BY <1>1, CarriedFacts, NotNoticed DEF Seen

\* A step of the helper that gives the room other members.
LEMMA MembersSeen ==
    ASSUME VInv, NEW h \in Handler, NEW q, Carried(h, q), NEW M \in SUBSET User,
           members' = [members EXCEPT ![q.room] = M], kind' = kind
    PROVE  S!SetMembers(q.room, M) /\ members'[q.room] = M
<1>1. /\ q.room \in Room /\ kind[q.room] # None /\ members \in [Room -> SUBSET User]
      /\ ever' = [r \in Room |-> ever[r] \cup members'[r]]
  BY CarriedFacts
<1>2. S!SetMembers(q.room, M)
  BY <1>1, GetsMembers
<1> QED
  BY <1>1, <1>2

\* A group or channel with a row has members, one without a row has none.
LEMMA RowOfRoom ==
    ASSUME VInv, NEW r \in Room, kind[r] # None
    PROVE  /\ Row[r] = "live" <=> members[r] # {}
           /\ Row[r] = "gone" <=> members[r] = {}
           /\ r \in live /\ kind[r] # "direct" => members[r] # {}
           /\ r \notin live => members[r] = {}
BY DEF Row, VInv, Remembered, IInv, StoreInv, NoOrphanRows

LEMMA AddSeen ==
    ASSUME VInv, NEW h \in Handler, NEW q, Carried(h, q), AddAndTell(h, q)
    PROVE  Seen(h)
<1> DEFINE r == q.room
<1>0. /\ q.kind = "add" /\ r \in Room /\ kind[r] \notin {None, "direct"}
      /\ Owner[h] \in User /\ users \subseteq User /\ Started(h)
      /\ members \in [Room -> SUBSET User]
      /\ MaxBusy > 1 \/ (Owner[h] \in members[r] /\ q.members = members[r])
  BY CarriedFacts DEF AddAndTell
<1>1. PICK T \in SUBSET users :
          /\ AddMembers(q, T)
          /\ IF Fits(r, T \ q.members)
             THEN S!FanOut(h, TRUE, r, T \ q.members)
             ELSE S!NoFanOut(r, {})
  BY DEF AddAndTell
<1>2. CASE Fits(r, T \ q.members)
  <2> DEFINE new == T \ q.members
  <2>1. new \in SUBSET User /\ members[r] \cup new \in SUBSET User
    BY <1>0
  <2>2. members' = [members EXCEPT ![r] = members[r] \cup new] /\ kind' = kind
    BY <1>1, <1>2 DEF AddMembers
  <2>3. S!SetMembers(r, members[r] \cup new)
    BY <2>1, <2>2, MembersSeen DEF S!SetMembers
  <2>4. Row[r] = "live"
    BY <1>0, <1>2, RowOfRoom DEF Fits
  <2>5. S!AddMembers(h, r, new)
    BY <1>0, <1>1, <1>2, <2>3, <2>4 DEF S!AddMembers
  <2> HIDE DEF new
  <2> QED
    BY <1>0, <2>1, <2>5 DEF Seen, Started, S!ChangeMembers
<1>3. CASE ~ Fits(r, T \ q.members)
  <2>1. members' = members /\ kind' = kind
    BY <1>0, <1>1, <1>3 DEF AddMembers
  <2> QED
    BY <1>1, <1>3, <2>1, NothingSeen
<1> QED
  BY <1>2, <1>3

LEMMA RemoveSeen ==
    ASSUME VInv, NEW h \in Handler, NEW q, Carried(h, q), RemoveAndTell(h, q)
    PROVE  Seen(h)
<1> DEFINE r == q.room
<1>0. /\ q.kind = "remove" /\ r \in Room /\ kind[r] # None
      /\ Owner[h] \in User /\ users \subseteq User /\ Started(h)
      /\ members \in [Room -> SUBSET User]
      /\ MaxBusy > 1 \/ (Owner[h] \in members[r] /\ q.members = members[r])
  BY CarriedFacts DEF RemoveAndTell
<1>1. PICK T \in SUBSET users :
          /\ RemoveMembers(q, T)
          /\ IF members[r] \subseteq Removable(q, T)
             THEN S!NoFanOut(r, {})
             ELSE S!FanOut(h, FALSE, r, Removable(q, T))
  BY DEF RemoveAndTell
<1> DEFINE gone == Removable(q, T)
<1>2. gone \in SUBSET User /\ gone \subseteq q.members
  BY <1>0 DEF Removable
<1>3. kind' = kind
  BY <1>1 DEF RemoveMembers
<1>4. members' = [members EXCEPT ![r] = members[r] \ gone]
  <2>1. CASE gone = {}
    BY <1>0, <1>1, <2>1 DEF RemoveMembers
  <2>2. CASE gone # {} /\ members[r] \subseteq gone
    <3>1. members' = [members EXCEPT ![r] = {}] /\ members[r] \ gone = {}
      BY <1>1, <2>2 DEF RemoveMembers, TakeOut, DropRoom
    <3> QED
      BY <3>1
  <2>3. CASE gone # {} /\ ~ members[r] \subseteq gone
    BY <1>1, <2>3 DEF RemoveMembers, TakeOut
  <2> QED
    BY <2>1, <2>2, <2>3
<1>5. members[r] \ gone \in SUBSET User
  BY <1>0
<1>6. S!SetMembers(r, members[r] \ gone)
  <2>1. PICK M \in SUBSET User : M = members[r] \ gone
    BY <1>5
  <2>2. members' = [members EXCEPT ![r] = M]
    BY <1>4, <2>1
  <2> HIDE DEF gone
  <2>3. S!SetMembers(r, M)
    BY <1>3, <2>2, MembersSeen
  <2> QED
    BY <2>1, <2>3 DEF S!SetMembers
<1>7. CASE ~ members[r] \subseteq gone
  <2>1. S!RemoveMembers(h, r, gone)
    BY <1>0, <1>1, <1>2, <1>6, <1>7 DEF S!RemoveMembers
  <2> HIDE DEF gone
  <2> QED
    BY <1>0, <1>2, <2>1 DEF Seen, Started, S!ChangeMembers
<1>8. CASE members[r] \subseteq gone /\ members[r] # {}
  <2>1. members[r] \ gone = {} /\ S!NoFanOut(r, {})
    BY <1>1, <1>8
  <2>2. S!RemoveEverybody(h, r)
    BY <1>0, <1>6, <1>8, <2>1, RowOfRoom DEF S!RemoveEverybody
  <2> QED
    BY <1>0, <2>2 DEF Seen, Started, S!ChangeMembers
<1>9. CASE members[r] = {}
  <2>1. S!NoFanOut(r, {}) /\ members' = members
    BY <1>0, <1>1, <1>4, <1>9
  <2> QED
    BY <1>3, <2>1, NothingSeen
<1> QED
  BY <1>7, <1>8, <1>9

LEMMA LeaveSeen ==
    ASSUME VInv, NEW h \in Handler, NEW q, Carried(h, q), LeaveAndTell(h, q)
    PROVE  Seen(h)
<1> DEFINE r == q.room
           u == Owner[h]
<1>0. /\ q.kind = "leave" /\ r \in Room /\ kind[r] # None /\ q.user = u
      /\ u \in User /\ Started(h)
      /\ members \in [Room -> SUBSET User]
      /\ MaxBusy > 1 \/ u \in members[r]
  BY CarriedFacts DEF LeaveAndTell
<1>1. LeaveRoom(q) /\ S!FanOut(h, FALSE, r, {u})
  BY <1>0 DEF LeaveAndTell
<1>2. members' = [members EXCEPT ![r] = members[r] \ {u}] /\ kind' = kind
  <2>1. CASE members[r] \subseteq {u}
    <3>1. members' = [members EXCEPT ![r] = {}] /\ members[r] \ {u} = {}
      BY <1>0, <1>1, <2>1 DEF LeaveRoom, TakeOut, DropRoom
    <3> QED
      BY <1>1, <3>1 DEF LeaveRoom
  <2>2. CASE ~ members[r] \subseteq {u}
    BY <1>0, <1>1, <2>2 DEF LeaveRoom, TakeOut
  <2> QED
    BY <2>1, <2>2
<1>3. S!SetMembers(r, members[r] \ {u})
  <2>1. PICK M \in SUBSET User : M = members[r] \ {u}
    BY <1>0
  <2>2. members' = [members EXCEPT ![r] = M]
    BY <1>2, <2>1
  <2>3. S!SetMembers(r, M)
    BY <1>2, <2>2, MembersSeen
  <2> QED
    BY <2>1, <2>3 DEF S!SetMembers
<1>4. S!LeaveRoom(h, r)
  BY <1>0, <1>1, <1>3, RowOfRoom DEF S!LeaveRoom, Row
<1> QED
  BY <1>0, <1>4 DEF Seen, Started, S!ChangeMembers

LEMMA DeleteSeen ==
    ASSUME VInv, NEW h \in Handler, NEW q, Carried(h, q), DeleteAndTell(h, q)
    PROVE  Seen(h)
<1> DEFINE r == q.room
<1>0. /\ r \in Room /\ kind[r] # None /\ Started(h)
      /\ members \in [Room -> SUBSET User]
      /\ MaxBusy > 1 \/ Owner[h] \in members[r]
  BY CarriedFacts
<1>1. /\ members' = [members EXCEPT ![r] = {}] /\ kind' = kind
      /\ S!FanOut(h, FALSE, r, members[r])
  BY DEF DeleteAndTell, DeleteRoom, DropRoom
<1>2. CASE members[r] = {}
  <2>1. members' = members
    BY <1>0, <1>1, <1>2
  <2> QED
    BY <1>1, <1>2, <2>1, NothingSeen
<1>3. CASE members[r] # {}
  <2>1. S!SetMembers(r, {})
    BY <1>1, MembersSeen DEF S!SetMembers
  <2>2. S!DeleteRoom(h, r)
    BY <1>0, <1>1, <1>3, <2>1, RowOfRoom DEF S!DeleteRoom
  <2> QED
    BY <1>0, <2>2 DEF Seen, Started, S!ChangeMembers
<1> QED
  BY <1>2, <1>3

LEMMA ModifySeen ==
    ASSUME VInv, NEW h \in Handler, NEW q, Carried(h, q), ModifyAndTell(h, q)
    PROVE  Seen(h)
<1> DEFINE r == q.room
           u == creator[r]
<1>0. /\ q \in Request /\ r \in Room /\ kind[r] # None /\ Started(h)
      /\ members \in [Room -> SUBSET User]
      /\ MaxBusy > 1 \/ r \in live
  BY CarriedFacts
<1>1. kind' = kind
  <2>1. Perform(q) /\ q \in Request
    BY <1>0 DEF ModifyAndTell, Perform
  <2> QED
    BY <1>0, <2>1, KindIsKept DEF VInv, IInv, TypeOK
<1>2. ModifyRoom(q) /\ S!NoFanOut(r, members'[r] \ members[r])
  BY DEF ModifyAndTell
<1>3. CASE members' = members
  <2>1. members'[r] \ members[r] = {}
    BY <1>3
  <2> QED
    BY <1>1, <1>2, <1>3, <2>1, NothingSeen
<1>4. CASE members' # members
  <2>1. PICK p : UpdateDeletedRoom(q, p)
    BY <1>2, <1>4
       DEF ModifyRoom, ModifyRoles, UpdateRoom, AddPermission, RemovePermission,
           AddAdmin, RemoveAdmin, store
  <2>2. r \notin live /\ members[r] = {} /\ MaxBusy > 1
    BY <1>0, <2>1, RowOfRoom DEF UpdateDeletedRoom
  <2>3. members' = [members EXCEPT ![r] = IF kind[r] = "direct" THEN {} ELSE {u}]
    BY <2>1 DEF UpdateDeletedRoom, Saved
  <2>4. kind[r] # "direct"
    BY <1>0, <1>4, <2>2, <2>3
  <2>5. u \in ever[r] /\ u \in User /\ Row[r] = "gone"
    BY <1>0, <2>2, <2>4, RowOfRoom DEF VInv, Remembered
  <2>6. S!SetMembers(r, {u}) /\ members'[r] = {u}
    BY <1>1, <2>3, <2>4, <2>5, MembersSeen DEF S!SetMembers
  <2>7. S!SaveDeletedRoom(r, u)
    BY <1>2, <2>2, <2>5, <2>6 DEF S!SaveDeletedRoom
  <2> QED
    BY <1>0, <2>5, <2>7 DEF Seen, Started, S!ChangeMembers
<1> QED
  BY <1>3, <1>4

\* Whatever a handler does to the rooms, Subscriptions knows of it.
LEMMA RoomStepSeen ==
    ASSUME VInv, NEW h \in Handler, RoomStep(h)
    PROVE  Seen(h)
<1>1. CASE CreateAndTell(h)
  BY <1>1, CreateSeen
<1>2. CASE JoinAndTell(h)
  BY <1>2, JoinSeen
<1>3. CASE Carry(h)
  <2>1. PICK q : q = request[h]
    OBVIOUS
  <2>2. Carried(h, q)
    BY <1>3, <2>1 DEF Carried, Carry
  <2>3. \/ AddAndTell(h, q) \/ RemoveAndTell(h, q) \/ LeaveAndTell(h, q)
        \/ DeleteAndTell(h, q) \/ ModifyAndTell(h, q)
    BY <1>3, <2>1 DEF Carry
  <2> QED
    BY <2>2, <2>3, AddSeen, RemoveSeen, LeaveSeen, DeleteSeen, ModifySeen
<1> QED
  BY <1>1, <1>2, <1>3 DEF RoomStep, Enter

\* The steps that change no room are steps of Subscriptions or none at all.
LEMMA OtherSteps ==
    ASSUME NEW h \in Handler, Device(h) \/ Die(h) \/ Ask(h)
    PROVE  S!Next \/ UNCHANGED S!vars
<1>1. CASE Device(h)
  BY <1>1 DEF Device, S!Next
<1>2. CASE Die(h)
  BY <1>2 DEF Die, S!Next
<1>3. CASE Ask(h)
  <2>1. UNCHANGED <<store, history, sessions, step, job>>
    BY <1>3 DEF Ask, Check
  <2>2. Row' = Row
    BY <2>1 DEF Row, store
  <2> QED
    BY <2>1, <2>2 DEF store, history, sessions, S!vars
<1> QED
  BY <1>1, <1>2, <1>3

\* Whatever Subscriptions guarantees holds of the server: the fan-out that each
\* helper starts, or fails to start, is one that Subscriptions allows for the
\* change of members the helper made, also when the room changed between the
\* check and the helper (Stale is MaxBusy > 1).
THEOREM ServerImplementsSubscriptions ==
    ServerSpec => ImplementsSubscriptions
<1>1. ServerInit => S!Init
  BY DEF ServerInit
<1>2. VInv /\ [ServerNext]_serverVars => [S!Next]_(S!vars)
  <2>1. ASSUME VInv, ServerNext
        PROVE  [S!Next]_(S!vars)
    <3>1. PICK h \in Handler : Device(h) \/ Die(h) \/ Ask(h) \/ RoomStep(h)
      BY <2>1 DEF ServerNext
    <3>2. CASE RoomStep(h)
      BY <2>1, <3>2, RoomStepSeen DEF Seen, S!Next
    <3> QED
      BY <3>1, <3>2, OtherSteps
  <2>2. ASSUME UNCHANGED serverVars
        PROVE  UNCHANGED S!vars
    <3>1. Row' = Row
      BY <2>2 DEF serverVars, vars, store, Row
    <3> QED
      BY <2>2, <3>1 DEF serverVars, vars, store, history, sessions, S!vars
  <2> QED
    BY <2>1, <2>2
<1> QED
  BY <1>1, <1>2, ServerInvariance, PTL
     DEF ServerSpec, ImplementsSubscriptions, S!Spec

-----------------------------------------------------------------------------
(***************************************************************************)
(* What was proved about Subscriptions, for the server.                    *)
(***************************************************************************)

\* S once more, with the theorems.
P == INSTANCE SubsSerial_proofs
         WITH Conn <- Handler, row <- Row, Stale <- (MaxBusy > 1)

\* The two instances are one specification.
LEMMA SameSpec == S!Spec => P!Spec
<1>1. S!Init => P!Init
  BY DEF S!Init, P!Init, S!Group, P!Group
<1>2. [S!Next]_(S!vars) => [P!Next]_(P!vars)
  BY Zenon
  DEF S!Next, S!vars, S!db, S!layer, S!locals, S!Idle, S!Cardinality,
       S!IsFiniteSet, S!Goto, S!MayStart, S!SessionsOf, S!Connect,
       S!Disconnect, S!CleanupFetch, S!CleanupExpired, S!CleanupDiscard,
       S!CleanupDone, S!SetupFetch, S!SetupStore, S!Restore, S!Register,
       S!Lapse, S!Heartbeat, S!Crash, S!FanOut, S!NoFanOut, S!SetMembers,
       S!CreateRoom, S!CreateRejected, S!AddMembers, S!JoinRoom,
       S!RemoveMembers, S!RemoveEverybody, S!LeaveRoom, S!DeleteRoom,
       S!SaveDeletedRoom, S!ChangeMembers, S!FanRead, S!FanTouch, S!Changed,
       S!NextUser, S!FanCommit, S!FanGet, S!FanSet, S!Cleanup, S!Setup,
       S!Fan,
      P!Next, P!vars, P!db, P!layer, P!locals, P!Idle, P!Cardinality,
       P!IsFiniteSet, P!Goto, P!MayStart, P!SessionsOf, P!Connect,
       P!Disconnect, P!CleanupFetch, P!CleanupExpired, P!CleanupDiscard,
       P!CleanupDone, P!SetupFetch, P!SetupStore, P!Restore, P!Register,
       P!Lapse, P!Heartbeat, P!Crash, P!FanOut, P!NoFanOut, P!SetMembers,
       P!CreateRoom, P!CreateRejected, P!AddMembers, P!JoinRoom,
       P!RemoveMembers, P!RemoveEverybody, P!LeaveRoom, P!DeleteRoom,
       P!SaveDeletedRoom, P!ChangeMembers, P!FanRead, P!FanTouch, P!Changed,
       P!NextUser, P!FanCommit, P!FanGet, P!FanSet, P!Cleanup, P!Setup,
       P!Fan
<1> QED
  BY <1>1, <1>2, PTL DEF S!Spec, P!Spec

\* What Subscriptions assumes of its constants.
LEMMA Assumed ==
    /\ P!OwnerAssumption
    /\ P!GroupsDisjoint
    /\ P!BusyAssumption
    /\ P!FlagsAssumption
    /\ P!NoneIsNoUser
BY ServerAssumption, NoneAssumption

\* However the requests about rooms overlap, on whatever stale room objects,
\* nobody is subscribed to a room they never were in.
THEOREM ServerNoStranger == ServerSpec => []S!NoStranger
<1>1. P!Spec => []P!NoStranger
  BY Assumed, P!NoStrangerListens
<1>2. P!NoStranger => S!NoStranger
  BY DEF P!NoStranger, S!NoStranger, P!Entitled, S!Entitled, P!Group, S!Group
<1> QED
  BY <1>1, <1>2, SameSpec, ServerImplementsSubscriptions, PTL
     DEF ImplementsSubscriptions

\* One handler at a time, none cut short, is what SubsSerial_proofs calls serial.
LEMMA ServerSerial ==
    ASSUME MaxBusy = 1, ~ Crashes
    PROVE  P!Serial
<1>1. P!IsFiniteSet(Handler)
  BY ServerAssumption DEF P!IsFiniteSet, IsFiniteSet
<1> QED
  BY <1>1, ServerAssumption DEF P!Serial

\* Then nobody goes on to hear a room they left, nobody misses one they were told
\* of, and the cached lists are the rooms of the users, whenever no handler is
\* under way (consumers.py:1092 and 1197).
THEOREM ServerInSync ==
    ASSUME MaxBusy = 1, ~ Crashes, Timely
    PROVE  ServerSpec => [](S!NoLeak /\ S!NoGap /\ S!CacheIsRight)
<1>0. P!Serial
  BY ServerSerial
<1>1. P!Spec => []P!NoLeak
  BY <1>0, Assumed, P!NobodyLeft
<1>2. P!Spec => []P!NoGap
  BY <1>0, Assumed, P!EverybodyIn
<1>3. P!Spec => []P!CacheIsRight
  BY <1>0, Assumed, P!ListsAreRight
<1>4. P!NoLeak /\ P!NoGap /\ P!CacheIsRight => S!NoLeak /\ S!NoGap /\ S!CacheIsRight
  BY DEF P!NoLeak, P!NoGap, P!CacheIsRight, P!Quiet, P!Idle,
         S!NoLeak, S!NoGap, S!CacheIsRight, S!Quiet, S!Idle
<1> QED
  BY <1>1, <1>2, <1>3, <1>4, SameSpec, ServerImplementsSubscriptions, PTL
     DEF ImplementsSubscriptions
=============================================================================
