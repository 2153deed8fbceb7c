------------------------ MODULE Subscriptions_proofs ------------------------
(***************************************************************************)
(* Proofs about Subscriptions, for any number of users, rooms, connections *)
(* and overlapping handlers: types, nobody hears a room they never were    *)
(* in, and a connected user keeps their own group.                         *)
(***************************************************************************)
EXTENDS Subscriptions, TLAPS

\* A fan-out that goes on has users left, and is at one of them.
InFan ==
    \A c \in Conn :
        /\ step[c] \in {"read", "touch", "write"} => job[c] \in Job
        /\ step[c] \in {"touch", "write"} => turn[c] \in job[c].users

Typed == TypeOK /\ InFan

\* What one room handler does to the database and to its own control.
Changes(c, r, M, add, U) ==
    /\ SetMembers(r, M)
    /\ \/ UNCHANGED <<step, job>>
       \/ FanOut(c, add, r, U)
    /\ untold' \in {[untold EXCEPT ![r] = @ \cup U], [untold EXCEPT ![r] = @ \ U]}
    /\ add => U \subseteq M

LEMMA ChangeEffect ==
    ASSUME TypeOK, NEW c \in Conn, ChangeMembers(c)
    PROVE  /\ step[c] = "open"
           /\ UNCHANGED <<layer, session, groups, todo, turn>>
           /\ \E r \in Room, M \in SUBSET User, add \in BOOLEAN,
                 U \in SUBSET User : Changes(c, r, M, add, U)
<1> DEFINE Goal == \E r \in Room, M \in SUBSET User, add \in BOOLEAN,
                      U \in SUBSET User : Changes(c, r, M, add, U)
<1>1. /\ step[c] = "open"
      /\ UNCHANGED <<layer, session, groups, todo, turn>>
  BY DEF ChangeMembers
<1>2. PICK r \in Room :
          \/ \E S \in SUBSET User : \/ CreateRoom(c, r, S)
                                    \/ CreateRejected(c, r, S)
                                    \/ AddMembers(c, r, S)
                                    \/ RemoveMembers(c, r, S)
          \/ JoinRoom(c, r)
          \/ RemoveEverybody(c, r)
          \/ LeaveRoom(c, r)
          \/ DeleteRoom(c, r)
          \/ \E u \in User : SaveDeletedRoom(r, u)
  BY DEF ChangeMembers
<1>3. members[r] \in SUBSET User /\ Owner[c] \in User
  BY OwnerAssumption DEF TypeOK
<1>4. ASSUME NEW S \in SUBSET User, CreateRoom(c, r, S)
      PROVE  Goal
  <2>1. Changes(c, r, S \cup {Owner[c]}, TRUE, S \cup {Owner[c]})
    BY <1>4 DEF CreateRoom, FanOut, Changes
  <2> QED
    BY <2>1, <1>3
<1>5. ASSUME NEW S \in SUBSET User, AddMembers(c, r, S)
      PROVE  Goal
  <2>1. Changes(c, r, members[r] \cup S, TRUE, S)
    BY <1>5 DEF AddMembers, FanOut, Changes
  <2> QED
    BY <2>1, <1>3
<1>6. ASSUME NEW S \in SUBSET User, RemoveMembers(c, r, S)
      PROVE  Goal
  <2>1. Changes(c, r, members[r] \ S, FALSE, S)
    BY <1>6 DEF RemoveMembers, FanOut, Changes
  <2> QED
    BY <2>1, <1>3
<1>7. ASSUME JoinRoom(c, r)
      PROVE  Goal
  <2>1. Changes(c, r, members[r] \cup {Owner[c]}, TRUE, {Owner[c]})
    BY <1>7 DEF JoinRoom, FanOut, Changes
  <2> QED
    BY <2>1, <1>3
<1>8. ASSUME RemoveEverybody(c, r)
      PROVE  Goal
  <2>1. Changes(c, r, {}, FALSE, {})
    BY <1>8 DEF RemoveEverybody, NoFanOut, Changes
  <2> QED
    BY <2>1
<1>9. ASSUME LeaveRoom(c, r)
      PROVE  Goal
  <2>1. Changes(c, r, members[r] \ {Owner[c]}, FALSE, {Owner[c]})
    BY <1>9 DEF LeaveRoom, FanOut, Changes
  <2> QED
    BY <2>1, <1>3
<1>10. ASSUME DeleteRoom(c, r)
      PROVE  Goal
  <2>1. Changes(c, r, {}, FALSE, members[r])
    BY <1>10 DEF DeleteRoom, FanOut, Changes
  <2> QED
    BY <2>1, <1>3
<1>11. ASSUME NEW S \in SUBSET User, CreateRejected(c, r, S)
       PROVE  Goal
  <2>1. Changes(c, r, S, FALSE, S)
    BY <1>11 DEF CreateRejected, NoFanOut, Changes
  <2> QED
    BY <2>1
<1>12. ASSUME NEW u \in User, SaveDeletedRoom(r, u)
       PROVE  Goal
  <2>1. Changes(c, r, {u}, FALSE, {u})
    BY <1>12 DEF SaveDeletedRoom, NoFanOut, Changes
  <2> QED
    BY <2>1
<1> QED
  BY <1>1, <1>2, <1>4, <1>5, <1>6, <1>7, <1>8, <1>9, <1>10, <1>11, <1>12

\* The list after a change is a set of groups again.
LEMMA ChangedTypes ==
    ASSUME NEW c \in Conn, job[c] \in Job, NEW list \in SUBSET Group
    PROVE  Changed(c, list) \in SUBSET Group
BY DEF Changed, Job, Group

\* Going on to the next user keeps the types.
LEMMA NextUserTypes ==
    ASSUME Typed, NEW c \in Conn, step[c] \in {"touch", "write"}, NextUser(c)
    PROVE  /\ step' \in [Conn -> Step]
           /\ job' \in [Conn -> Job \cup {None}]
           /\ turn' \in [Conn -> User \cup {None}]
           /\ InFan'
<1> DEFINE rest == job[c].users \ {turn[c]}
<1>1. job[c] \in Job /\ rest \in SUBSET User
  BY DEF Typed, InFan, Job
<1>2. [job[c] EXCEPT !.users = rest] \in Job
  BY <1>1 DEF Job
<1>3. /\ step' \in [Conn -> Step]
      /\ turn' \in [Conn -> User \cup {None}]
  BY DEF Typed, TypeOK, NextUser, Goto, Step
<1>4. job' \in [Conn -> Job \cup {None}]
  BY <1>2 DEF Typed, TypeOK, NextUser
<1>5. rest # {} => job'[c] \in Job
  BY <1>2 DEF Typed, TypeOK, NextUser
<1>6. step'[c] = IF rest = {} THEN "open" ELSE "read"
  BY DEF Typed, TypeOK, NextUser, Goto
<1>7. ASSUME NEW d \in Conn, d # c
      PROVE  step'[d] = step[d] /\ job'[d] = job[d] /\ turn'[d] = turn[d]
  BY <1>7 DEF Typed, TypeOK, NextUser, Goto
<1>8. InFan'
  BY <1>5, <1>6, <1>7 DEF Typed, InFan
<1> QED
  BY <1>3, <1>4, <1>8

LEMMA InitTyped == Init => Typed
BY DEF Init, Typed, TypeOK, InFan, Step, Group

LEMMA ChangeTyped ==
    ASSUME Typed, NEW c \in Conn, ChangeMembers(c)
    PROVE  Typed'
<1>1. TypeOK
  BY DEF Typed
<1>2. PICK r \in Room, M \in SUBSET User, add \in BOOLEAN, U \in SUBSET User :
          Changes(c, r, M, add, U)
  BY <1>1, ChangeEffect
<1>3. step[c] = "open" /\ UNCHANGED <<layer, session, groups, todo, turn>>
  BY <1>1, ChangeEffect
<1>4. /\ members' \in [Room -> SUBSET User]
      /\ row' \in [Room -> {"unused", "live", "gone"}]
      /\ ever' \in [Room -> SUBSET User]
      /\ untold' \in [Room -> SUBSET User]
  BY <1>1, <1>2 DEF Changes, SetMembers, TypeOK
<1>5. [add |-> add, room |-> r, users |-> U] \in Job
  BY DEF Job
<1>6. /\ step' \in [Conn -> Step]
      /\ job' \in [Conn -> Job \cup {None}]
      /\ InFan'
  <2>1. CASE UNCHANGED <<step, job>>
    BY <1>3, <2>1 DEF Typed, TypeOK, InFan
  <2>2. CASE FanOut(c, add, r, U) /\ U # {}
    <3>1. step' = [step EXCEPT ![c] = "read"]
      BY <2>2 DEF FanOut, Goto
    <3>2. job' = [job EXCEPT ![c] = [add |-> add, room |-> r, users |-> U]]
      BY <2>2 DEF FanOut
    <3> QED
      BY <1>3, <1>5, <3>1, <3>2 DEF Typed, TypeOK, InFan, Step
  <2> QED
    BY <1>2, <2>1, <2>2 DEF Changes, FanOut
<1> QED
  BY <1>1, <1>3, <1>4, <1>6 DEF Typed, TypeOK, layer

LEMMA GotoTypes ==
    ASSUME TypeOK, NEW c \in Conn, NEW s \in Step, Goto(c, s)
    PROVE  /\ step' \in [Conn -> Step]
           /\ step'[c] = s
           /\ \A d \in Conn : d # c => step'[d] = step[d]
BY DEF Goto, TypeOK

\* A step that starts no fan-out and leaves those under way alone.
LEMMA FansKept ==
    ASSUME Typed, TypeOK',
           \A d \in Conn : step'[d] \in {"read", "touch", "write"} =>
               /\ step'[d] = step[d]
               /\ job'[d] = job[d]
               /\ turn'[d] = turn[d]
    PROVE  Typed'
BY DEF Typed, InFan

LEMMA CleanupTyped ==
    ASSUME Typed, NEW c \in Conn, Cleanup(c)
    PROVE  Typed'
<1> USE OwnerAssumption DEF db, layer, locals
<1>0. TypeOK /\ Owner[c] \in User
  BY DEF Typed
<1>1. CASE CleanupFetch(c)
  <2>1. PICK s \in {"expired", "bye expired"} : Goto(c, s)
    BY <1>1 DEF CleanupFetch
  <2>2. s \in Step
    BY DEF Step
  <2>3. TypeOK'
    BY <1>0, <1>1, <2>1, <2>2, GotoTypes DEF CleanupFetch, TypeOK
  <2> QED
    BY <1>0, <1>1, <2>1, <2>2, <2>3, GotoTypes, FansKept DEF CleanupFetch
<1>2. CASE CleanupExpired(c)
  <2>1. PICK s \in {"discard", "bye discard"} : Goto(c, s)
    BY <1>2 DEF CleanupExpired
  <2>2. s \in Step
    BY DEF Step
  <2>3. groups[c] \X SessionsOf(Owner[c], "expired") \in SUBSET (Group \X Conn)
    BY <1>0 DEF SessionsOf, TypeOK
  <2>4. TypeOK'
    BY <1>0, <1>2, <2>1, <2>2, <2>3, GotoTypes DEF CleanupExpired, TypeOK
  <2> QED
    BY <1>0, <1>2, <2>1, <2>2, <2>4, GotoTypes, FansKept DEF CleanupExpired
<1>3. CASE CleanupDiscard(c)
  <2>1. PICK p \in todo[c] :
            /\ subs' = [subs EXCEPT ![p[1]] = @ \ {p[2]}]
            /\ todo' = [todo EXCEPT ![c] = @ \ {p}]
    BY <1>3 DEF CleanupDiscard
  <2>2. subs' \in [Group -> SUBSET Conn] /\ todo' \in [Conn -> SUBSET (Group \X Conn)]
    BY <1>0, <2>1 DEF TypeOK
  <2>3. TypeOK'
    BY <1>0, <1>3, <2>2 DEF CleanupDiscard, TypeOK
  <2> QED
    BY <1>3, <2>3, FansKept DEF CleanupDiscard
<1>4. CASE CleanupDone(c)
  <2>1. PICK s \in {"setup", "closed"} : Goto(c, s)
    BY <1>4 DEF CleanupDone
  <2>2. s \in Step
    BY DEF Step
  <2>3. TypeOK'
    BY <1>0, <1>4, <2>1, <2>2, GotoTypes DEF CleanupDone, TypeOK
  <2> QED
    BY <1>0, <1>4, <2>1, <2>2, <2>3, GotoTypes, FansKept DEF CleanupDone
<1> QED
  BY <1>1, <1>2, <1>3, <1>4 DEF Cleanup

LEMMA SetupTyped ==
    ASSUME Typed, NEW c \in Conn, Setup(c)
    PROVE  Typed'
<1> USE OwnerAssumption DEF db, layer, locals
<1>0. TypeOK /\ Owner[c] \in User
  BY DEF Typed
<1>1. CASE SetupFetch(c)
  <2> DEFINE listed == cache[Owner[c]]
  <2>1. listed \in SUBSET Group /\ Owner[c] \in Group
    BY <1>0 DEF TypeOK, Group
  <2>2. PICK s \in {"restore", "store"} : Goto(c, s)
    BY <1>1 DEF SetupFetch
  <2>3. s \in Step
    BY DEF Step
  <2>4. groups' \in [Conn -> SUBSET Group]
    BY <1>0, <1>1, <2>1 DEF SetupFetch, TypeOK
  <2>5. todo' \in [Conn -> SUBSET (Group \X Conn)]
    BY <1>0, <1>1, <2>1 DEF SetupFetch, TypeOK
  <2>6. TypeOK'
    BY <1>0, <1>1, <2>2, <2>3, <2>4, <2>5, GotoTypes DEF SetupFetch, TypeOK
  <2> QED
    BY <1>0, <1>1, <2>2, <2>3, <2>6, GotoTypes, FansKept DEF SetupFetch
<1>2. CASE SetupStore(c)
  <2>1. "restore" \in Step
    BY DEF Step
  <2>2. groups[c] \X {c} \in SUBSET (Group \X Conn)
    BY <1>0 DEF TypeOK
  <2>3. TypeOK'
    BY <1>0, <1>2, <2>1, <2>2, GotoTypes DEF SetupStore, TypeOK
  <2> QED
    BY <1>0, <1>2, <2>1, <2>3, GotoTypes, FansKept DEF SetupStore
<1>3. CASE Restore(c)
  <2>1. TypeOK'
    BY <1>0, <1>3 DEF Restore, TypeOK
  <2> QED
    BY <1>3, <2>1, FansKept DEF Restore
<1>4. CASE Register(c)
  <2>1. "open" \in Step
    BY DEF Step
  <2>2. TypeOK'
    BY <1>0, <1>4, <2>1, GotoTypes DEF Register, TypeOK
  <2> QED
    BY <1>0, <1>4, <2>1, <2>2, GotoTypes, FansKept DEF Register
<1> QED
  BY <1>1, <1>2, <1>3, <1>4 DEF Setup

LEMMA FanTyped ==
    ASSUME Typed, NEW c \in Conn, Fan(c)
    PROVE  Typed'
<1> USE OwnerAssumption DEF db, layer, locals
<1>0. TypeOK
  BY DEF Typed
<1>1. CASE FanRead(c)
  <2>1. PICK u \in job[c].users :
            /\ turn' = [turn EXCEPT ![c] = u]
            /\ todo' = [todo EXCEPT ![c] =
                   {job[c].room} \X SessionsOf(u, "active")]
    BY <1>1 DEF FanRead
  <2>2. job[c] \in Job /\ u \in User /\ job[c].room \in Group
    BY <1>1 DEF FanRead, Typed, InFan, Job, Group
  <2>3. {job[c].room} \X SessionsOf(u, "active") \in SUBSET (Group \X Conn)
    BY <2>2 DEF SessionsOf
  <2>4. "touch" \in Step /\ Goto(c, "touch")
    BY <1>1 DEF Step, FanRead
  <2>5. TypeOK'
    BY <1>0, <1>1, <2>1, <2>2, <2>3, <2>4, GotoTypes DEF FanRead, TypeOK
  <2>6. InFan'
    BY <1>0, <1>1, <2>1, <2>2, <2>4, GotoTypes DEF FanRead, Typed, TypeOK, InFan
  <2> QED
    BY <2>5, <2>6 DEF Typed
<1>2. CASE FanTouch(c)
  <2>1. TypeOK'
    BY <1>0, <1>2 DEF FanTouch, TypeOK
  <2> QED
    BY <1>2, <2>1, FansKept DEF FanTouch
<1>3. CASE FanCommit(c) \/ FanGet(c) \/ FanSet(c)
  <2>1. job[c] \in Job /\ turn[c] \in User
    BY <1>3 DEF FanCommit, FanGet, FanSet, Typed, InFan, Job
  <2>2. Changed(c, cache[turn[c]]) \in SUBSET Group
    BY <1>0, <2>1, ChangedTypes DEF TypeOK
  <2>3. CASE FanGet(c)
    <3>1. "write" \in Step /\ Goto(c, "write")
      BY <2>3 DEF Step, FanGet
    <3>2. TypeOK'
      BY <1>0, <2>2, <2>3, <3>1, GotoTypes DEF FanGet, TypeOK
    <3>3. InFan'
      BY <1>0, <2>3, <3>1, GotoTypes DEF FanGet, Typed, InFan
    <3> QED
      BY <3>2, <3>3 DEF Typed
  <2>4. CASE FanCommit(c) \/ FanSet(c)
    <3>1. NextUser(c) /\ step[c] \in {"touch", "write"}
      BY <2>4 DEF FanCommit, FanSet
    <3>2. cache' \in [User -> SUBSET Group]
      BY <1>0, <2>1, <2>2, <2>4 DEF FanCommit, FanSet, TypeOK
    <3>3. groups' \in [Conn -> SUBSET Group]
      BY <1>0, <2>4 DEF FanCommit, FanSet, TypeOK
    <3> QED
      BY <1>0, <2>4, <3>1, <3>2, <3>3, NextUserTypes
         DEF FanCommit, FanSet, Typed, TypeOK
  <2> QED
    BY <1>3, <2>3, <2>4
<1> QED
  BY <1>1, <1>2, <1>3 DEF Fan

LEMMA NextTyped == Typed /\ [Next]_vars => Typed'
<1> SUFFICES ASSUME Typed, [Next]_vars
             PROVE  Typed'
  OBVIOUS
<1> USE DEF db, layer, locals
<1>0. TypeOK
  BY DEF Typed
<1>1. CASE UNCHANGED vars
  BY <1>1 DEF vars, Typed, TypeOK, InFan
<1>2. ASSUME NEW c \in Conn, Connect(c) \/ Disconnect(c)
      PROVE  Typed'
  <2>1. PICK s \in {"fetch", "bye fetch"} : Goto(c, s)
    BY <1>2 DEF Connect, Disconnect
  <2>2. s \in Step
    BY DEF Step
  <2>3. TypeOK'
    BY <1>0, <1>2, <2>1, <2>2, GotoTypes DEF Connect, Disconnect, TypeOK
  <2> QED
    BY <1>0, <1>2, <2>1, <2>2, <2>3, GotoTypes, FansKept DEF Connect, Disconnect
<1>3. ASSUME NEW c \in Conn, Lapse(c) \/ Heartbeat(c)
      PROVE  Typed'
  BY <1>0, <1>3, FansKept DEF Lapse, Heartbeat, TypeOK
<1>4. ASSUME NEW c \in Conn, Crash(c)
      PROVE  Typed'
  <2>1. "closed" \in Step /\ Goto(c, "closed")
    BY <1>4 DEF Step, Crash
  <2>2. TypeOK'
    BY <1>0, <1>4, <2>1, GotoTypes DEF Crash, TypeOK
  <2> QED
    BY <1>0, <1>4, <2>1, <2>2, GotoTypes, FansKept DEF Crash, TypeOK
<1>5. ASSUME NEW c \in Conn, Cleanup(c) \/ Setup(c) \/ Fan(c) \/ ChangeMembers(c)
      PROVE  Typed'
  BY <1>5, CleanupTyped, SetupTyped, FanTyped, ChangeTyped
<1> QED
  BY <1>1, <1>2, <1>3, <1>4, <1>5 DEF Next

\* Every variable keeps its type, and a fan-out that goes on names a user of
\* its job: consumers.py:1067 is never reached without one.
THEOREM TypeCorrect == Spec => []TypeOK
<1>1. Typed => TypeOK
  BY DEF Typed
<1> QED
  BY <1>1, InitTyped, NextTyped, PTL DEF Spec

-----------------------------------------------------------------------------
(***************************************************************************)
(* Nobody hears a room they were never in.                                 *)
(***************************************************************************)

\* The user whose list connection c holds in groups: its own, or that of the
\* user the fan-out is at.
ListOwner(c) == IF step[c] = "write" THEN turn[c] ELSE Owner[c]

\* What a handler has read but not yet used names only entitled users.
Honest ==
    \A c \in Conn :
        /\ \A g \in groups[c] : Entitled(ListOwner(c), g)
        /\ \/ step[c] = "restore"
           \/ step[c] = "touch" /\ job[c].add
           => \A p \in todo[c] : Entitled(Owner[p[2]], p[1])
        /\ step[c] \in {"read", "touch", "write"} /\ job[c].add
           => job[c].users \subseteq ever[job[c].room]

EInv == Typed /\ NoStranger /\ Honest

\* Being entitled outlives every step.
LEMMA EntitledStays ==
    ASSUME Typed, [Next]_vars, NEW u, NEW g \in Group, Entitled(u, g)
    PROVE  Entitled(u, g)'
<1>1. \A r \in Room : ever[r] \subseteq ever'[r]
  <2>1. CASE UNCHANGED ever
    BY <2>1
  <2>2. ASSUME NEW c \in Conn, ChangeMembers(c)
        PROVE  \A r \in Room : ever[r] \subseteq ever'[r]
    <3>1. PICK r \in Room, M \in SUBSET User, add \in BOOLEAN, U \in SUBSET User :
              Changes(c, r, M, add, U)
      BY <2>2, ChangeEffect DEF Typed
    <3> QED
      BY <3>1 DEF Changes, SetMembers, Typed, TypeOK
  <2> QED
    BY <2>1, <2>2 DEF Next, vars, db, Connect, Disconnect, Cleanup, CleanupFetch,
       CleanupExpired, CleanupDiscard, CleanupDone, Setup, SetupFetch, SetupStore,
       Restore, Register, Fan, FanRead, FanTouch, FanCommit, FanGet, FanSet,
       Lapse, Heartbeat, Crash
<1> QED
  BY <1>1 DEF Entitled

\* What a step of connection c has to show.
LEMMA HonestStep ==
    ASSUME EInv, Typed', [Next]_vars, NEW c \in Conn,
           \A d \in Conn \ {c} : /\ step'[d] = step[d]
                                 /\ groups'[d] = groups[d]
                                 /\ todo'[d] = todo[d]
                                 /\ job'[d] = job[d]
                                 /\ turn'[d] = turn[d],
           \A g \in Group : \A d \in subs'[g] \ subs[g] : Entitled(Owner[d], g),
           \A u \in User : \A g \in cache'[u] \ cache[u] : Entitled(u, g),
           \A g \in groups'[c] :
               Entitled(IF step'[c] = "write" THEN turn'[c] ELSE Owner[c], g),
           \/ step'[c] = "restore"
           \/ step'[c] = "touch" /\ job'[c].add
           => \A p \in todo'[c] : Entitled(Owner[p[2]], p[1]),
           step'[c] \in {"read", "touch", "write"} /\ job'[c].add
           => \A u \in job'[c].users : u \in ever'[job'[c].room]
    PROVE  EInv'
<1>1. NoStranger'
  <2>1. ASSUME NEW g \in Group, NEW d \in subs'[g]
        PROVE  Entitled(Owner[d], g)'
    BY <2>1, EntitledStays DEF EInv, NoStranger
  <2>2. ASSUME NEW u \in User, NEW g \in cache'[u]
        PROVE  Entitled(u, g)'
    BY <2>2, EntitledStays DEF EInv, NoStranger, Typed, TypeOK
  <2> QED
    BY <2>1, <2>2 DEF NoStranger
<1>2. ASSUME NEW d \in Conn, NEW g \in groups'[d]
      PROVE  Entitled(ListOwner(d), g)'
  BY <1>2, EntitledStays DEF EInv, Honest, ListOwner, Typed, TypeOK
<1>3. ASSUME NEW d \in Conn, \/ step'[d] = "restore"
                             \/ step'[d] = "touch" /\ job'[d].add,
             NEW p \in todo'[d]
      PROVE  Entitled(Owner[p[2]], p[1])'
  <2>1. p[1] \in Group
    BY <1>3 DEF Typed, TypeOK
  <2>2. Entitled(Owner[p[2]], p[1])
    BY <1>3 DEF EInv, Honest
  <2> QED
    BY <2>1, <2>2, EntitledStays DEF EInv
<1>4. ASSUME NEW d \in Conn, step'[d] \in {"read", "touch", "write"}, job'[d].add
      PROVE  job'[d].users \subseteq ever'[job'[d].room]
  <2>1. CASE d = c
    BY <1>4, <2>1
  <2>2. CASE d # c
    <3>1. job[d] \in Job /\ job'[d] = job[d] /\ job[d].users \subseteq ever[job[d].room]
      BY <1>4, <2>2 DEF EInv, Honest, Typed, InFan
    <3>2. job[d].room \in Group /\ job[d].room \in Room
      BY <3>1 DEF Job, Group
    <3>3. ASSUME NEW u \in job[d].users
          PROVE  Entitled(u, job[d].room)'
      BY <3>1, <3>2, EntitledStays DEF EInv, Entitled
    <3> QED
      BY <3>1, <3>2, <3>3 DEF Entitled
  <2> QED
    BY <2>1, <2>2
<1> QED
  BY <1>1, <1>2, <1>3, <1>4 DEF EInv, Honest

\* Locals of other connections are out of reach of c.
OthersKeep(c) ==
    \A d \in Conn \ {c} : /\ step'[d] = step[d]
                          /\ groups'[d] = groups[d]
                          /\ todo'[d] = todo[d]
                          /\ job'[d] = job[d]
                          /\ turn'[d] = turn[d]

LEMMA OwnGroupEntitled ==
    ASSUME NEW c \in Conn
    PROVE  Owner[c] \in Group /\ Entitled(Owner[c], Owner[c])
BY OwnerAssumption, GroupsDisjoint DEF Group, Entitled

LEMMA CleanupHonest ==
    ASSUME EInv, Typed', [Next]_vars, NEW c \in Conn, Cleanup(c)
    PROVE  EInv'
<1> USE DEF db, layer, locals
<1>0. TypeOK /\ Owner[c] \in User /\ step[c] # "write"
  BY OwnerAssumption DEF EInv, Typed, Cleanup, CleanupFetch, CleanupExpired,
     CleanupDiscard, CleanupDone
<1>1. step'[c] \notin {"restore", "read", "touch", "write"}
  BY <1>0 DEF Cleanup, CleanupFetch, CleanupExpired, CleanupDiscard, CleanupDone,
     Goto, TypeOK
<1>2. OthersKeep(c)
  BY <1>0 DEF OthersKeep, Cleanup, CleanupFetch, CleanupExpired, CleanupDiscard,
     CleanupDone, Goto, TypeOK
<1>3. cache' = cache /\ \A g \in Group : subs'[g] \subseteq subs[g]
  <2>1. CASE CleanupDiscard(c)
    <3>1. PICK p \in todo[c] : subs' = [subs EXCEPT ![p[1]] = @ \ {p[2]}]
      BY <2>1 DEF CleanupDiscard
    <3> QED
      BY <1>0, <2>1, <3>1 DEF CleanupDiscard, TypeOK
  <2>2. CASE CleanupFetch(c) \/ CleanupExpired(c) \/ CleanupDone(c)
    BY <2>2 DEF CleanupFetch, CleanupExpired, CleanupDone
  <2> QED
    BY <2>1, <2>2 DEF Cleanup
<1>4. groups'[c] \subseteq groups[c] \cup cache[Owner[c]]
  <2>1. CASE CleanupFetch(c)
    BY <1>0, <2>1 DEF CleanupFetch, TypeOK
  <2>2. CASE CleanupExpired(c)
    BY <1>0, <2>2 DEF CleanupExpired, TypeOK
  <2>3. CASE CleanupDiscard(c) \/ CleanupDone(c)
    BY <1>0, <2>3 DEF CleanupDiscard, CleanupDone, TypeOK
  <2> QED
    BY <2>1, <2>2, <2>3 DEF Cleanup
<1>5. \A g \in groups'[c] : Entitled(Owner[c], g)
  BY <1>0, <1>4 DEF EInv, NoStranger, Honest, ListOwner
<1> QED
  BY <1>1, <1>2, <1>3, <1>5, HonestStep DEF OthersKeep

LEMMA SetupHonest ==
    ASSUME EInv, Typed', [Next]_vars, NEW c \in Conn, Setup(c)
    PROVE  EInv'
<1> USE DEF db, layer, locals
<1>0. TypeOK /\ Owner[c] \in User /\ step[c] # "write"
  BY OwnerAssumption DEF EInv, Typed, Setup, SetupFetch, SetupStore, Restore, Register
<1>1. step'[c] \in {"restore", "store", "open"}
  BY <1>0 DEF Setup, SetupFetch, SetupStore, Restore, Register, Goto, TypeOK
<1>2. OthersKeep(c)
  BY <1>0 DEF OthersKeep, Setup, SetupFetch, SetupStore, Restore, Register, Goto,
     TypeOK
<1>3. /\ \A g \in cache[Owner[c]] : Entitled(Owner[c], g)
      /\ \A g \in groups[c] : Entitled(Owner[c], g)
      /\ Entitled(Owner[c], Owner[c])
  BY <1>0, OwnGroupEntitled DEF EInv, NoStranger, Honest, ListOwner
<1>4. CASE SetupFetch(c)
  <2>1. groups'[c] \subseteq groups[c] \cup cache[Owner[c]] \cup {Owner[c]}
    BY <1>0, <1>4 DEF SetupFetch, TypeOK
  <2>2. step'[c] = "restore" => todo'[c] = cache[Owner[c]] \X {c}
    BY <1>0, <1>4 DEF SetupFetch, Goto, TypeOK
  <2>3. step'[c] = "restore" => \A p \in todo'[c] : Entitled(Owner[p[2]], p[1])
    BY <1>3, <2>2
  <2>4. UNCHANGED <<cache, subs>>
    BY <1>4 DEF SetupFetch
  <2> QED
    BY <1>1, <1>2, <1>3, <2>1, <2>3, <2>4, HonestStep DEF OthersKeep
<1>5. CASE SetupStore(c)
  <2>1. groups'[c] = {} /\ todo'[c] = groups[c] \X {c}
    BY <1>0, <1>5 DEF SetupStore, TypeOK
  <2>2. \A p \in todo'[c] : Entitled(Owner[p[2]], p[1])
    BY <1>3, <2>1
  <2>3. \A u \in User : \A g \in cache'[u] \ cache[u] : Entitled(u, g)
    BY <1>0, <1>3, <1>5 DEF SetupStore, TypeOK
  <2>4. subs' = subs
    BY <1>5 DEF SetupStore
  <2> QED
    BY <1>1, <1>2, <2>1, <2>2, <2>3, <2>4, HonestStep DEF OthersKeep
<1>6. CASE Restore(c)
  <2>1. PICK p \in todo[c] :
            /\ subs' = [subs EXCEPT ![p[1]] = @ \cup {p[2]}]
            /\ todo' = [todo EXCEPT ![c] = @ \ {p}]
    BY <1>6 DEF Restore
  <2>2. \A q \in todo[c] : Entitled(Owner[q[2]], q[1])
    BY <1>6 DEF Restore, EInv, Honest
  <2>3. \A g \in Group : \A d \in subs'[g] \ subs[g] : Entitled(Owner[d], g)
    BY <1>0, <2>1, <2>2 DEF TypeOK
  <2>4. todo'[c] \subseteq todo[c]
    BY <1>0, <2>1 DEF TypeOK
  <2>5. UNCHANGED <<cache, groups>>
    BY <1>6 DEF Restore
  <2> QED
    BY <1>1, <1>2, <1>3, <2>2, <2>3, <2>4, <2>5, HonestStep DEF OthersKeep
<1>7. CASE Register(c)
  <2>1. step'[c] = "open" /\ UNCHANGED <<cache, subs, groups>>
    BY <1>0, <1>7 DEF Register, Goto, TypeOK
  <2> QED
    BY <1>2, <1>3, <2>1, HonestStep DEF OthersKeep
<1> QED
  BY <1>4, <1>5, <1>6, <1>7 DEF Setup

LEMMA FanHonest ==
    ASSUME EInv, Typed', [Next]_vars, NEW c \in Conn, Fan(c)
    PROVE  EInv'
<1> USE DEF db, layer, locals
<1>0. TypeOK /\ step[c] \in {"read", "touch", "write"} /\ step[c] # "restore"
  BY DEF EInv, Typed, Fan, FanRead, FanTouch, FanCommit, FanGet, FanSet
<1>1. /\ job[c] \in Job /\ job[c].room \in Room /\ job[c].room \in Group
      /\ job[c].users \subseteq User
      /\ job[c].add => job[c].users \subseteq ever[job[c].room]
  BY <1>0 DEF EInv, Honest, Typed, InFan, Job, Group
<1>2. /\ step'[c] \in {"open", "read", "touch", "write"}
      /\ OthersKeep(c)
  BY <1>0 DEF OthersKeep, Fan, FanRead, FanTouch, FanCommit, FanGet, FanSet,
     NextUser, Goto, TypeOK
<1>3. UNCHANGED <<members, row, ever>>
  BY DEF Fan, FanRead, FanTouch, FanCommit, FanGet, FanSet
<1>4. step[c] # "write" => \A g \in groups[c] : Entitled(Owner[c], g)
  BY DEF EInv, Honest, ListOwner
<1>5. CASE FanRead(c)
  <2>1. PICK u \in job[c].users :
            todo' = [todo EXCEPT ![c] = {job[c].room} \X SessionsOf(u, "active")]
    BY <1>5 DEF FanRead
  <2>2. UNCHANGED <<cache, subs, groups, job>> /\ step[c] # "write"
    BY <1>5 DEF FanRead
  <2>3. step'[c] = "touch"
    BY <1>0, <1>5 DEF FanRead, Goto, TypeOK
  <2>4. todo'[c] = {job[c].room} \X SessionsOf(u, "active")
    BY <1>0, <2>1 DEF TypeOK
  <2>5. job[c].add => \A p \in todo'[c] : Entitled(Owner[p[2]], p[1])
    BY <1>1, <2>4 DEF SessionsOf, Entitled
  <2> QED
    BY <1>1, <1>2, <1>3, <1>4, <2>2, <2>3, <2>5, HonestStep DEF OthersKeep
<1>6. CASE FanTouch(c)
  <2>1. PICK p \in todo[c] :
            /\ subs' = [subs EXCEPT ![p[1]] =
                   IF job[c].add THEN @ \cup {p[2]} ELSE @ \ {p[2]}]
            /\ todo' = [todo EXCEPT ![c] = @ \ {p}]
    BY <1>6 DEF FanTouch
  <2>2. UNCHANGED <<cache, groups, job, step>> /\ step[c] = "touch"
    BY <1>6 DEF FanTouch
  <2>3. job[c].add => \A q \in todo[c] : Entitled(Owner[q[2]], q[1])
    BY <2>2 DEF EInv, Honest
  <2>4. \A g \in Group : \A d \in subs'[g] \ subs[g] : Entitled(Owner[d], g)
    BY <1>0, <2>1, <2>3 DEF TypeOK
  <2>5. todo'[c] \subseteq todo[c]
    BY <1>0, <2>1 DEF TypeOK
  <2> QED
    BY <1>1, <1>2, <1>3, <1>4, <2>2, <2>3, <2>4, <2>5, HonestStep DEF OthersKeep
<1>7. CASE FanCommit(c) \/ FanGet(c) \/ FanSet(c)
  <2>1. turn[c] \in job[c].users /\ turn[c] \in User
    BY <1>1, <1>7 DEF EInv, Typed, InFan, FanCommit, FanGet, FanSet
  <2>2. \A g \in Changed(c, cache[turn[c]]) : Entitled(turn[c], g)
    BY <1>1, <2>1 DEF Changed, EInv, NoStranger, Entitled
  <2>3. subs' = subs
    BY <1>7 DEF FanCommit, FanGet, FanSet
  <2>4. CASE FanGet(c)
    <3>1. step'[c] = "write" /\ groups'[c] = Changed(c, cache[turn[c]])
      BY <1>0, <2>4 DEF FanGet, Goto, TypeOK
    <3>2. UNCHANGED <<cache, job, turn>>
      BY <2>4 DEF FanGet
    <3> QED
      BY <1>1, <1>2, <1>3, <2>2, <2>3, <3>1, <3>2, HonestStep DEF OthersKeep
  <2>5. CASE FanCommit(c) \/ FanSet(c)
    <3>1. NextUser(c)
      BY <2>5 DEF FanCommit, FanSet
    <3>2. step'[c] \in {"open", "read"}
      BY <1>0, <3>1 DEF NextUser, Goto, TypeOK
    <3>3. step'[c] = "read" =>
              job'[c] = [job[c] EXCEPT !.users = job[c].users \ {turn[c]}]
      BY <1>0, <3>1 DEF NextUser, Goto, TypeOK
    <3>4. step'[c] = "read" => /\ job'[c].add = job[c].add
                               /\ job'[c].room = job[c].room
                               /\ job'[c].users \subseteq job[c].users
      BY <1>1, <3>3 DEF Job
    <3>5. \A u \in User : \A g \in cache'[u] \ cache[u] : Entitled(u, g)
      <4>1. CASE FanCommit(c)
        BY <1>0, <2>1, <2>2, <4>1 DEF FanCommit, TypeOK
      <4>2. CASE FanSet(c)
        <5>1. \A g \in groups[c] : Entitled(turn[c], g)
          BY <4>2 DEF FanSet, EInv, Honest, ListOwner
        <5> QED
          BY <1>0, <2>1, <4>2, <5>1 DEF FanSet, TypeOK
      <4> QED
        BY <2>5, <4>1, <4>2
    <3>6. \A g \in groups'[c] : Entitled(Owner[c], g)
      BY <1>0, <1>4, <2>5 DEF FanCommit, FanSet, TypeOK
    <3> QED
      BY <1>1, <1>2, <1>3, <2>3, <3>2, <3>4, <3>5, <3>6, HonestStep DEF OthersKeep
  <2> QED
    BY <1>7, <2>4, <2>5
<1> QED
  BY <1>5, <1>6, <1>7 DEF Fan

LEMMA ChangeHonest ==
    ASSUME EInv, Typed', [Next]_vars, NEW c \in Conn, ChangeMembers(c)
    PROVE  EInv'
<1>0. TypeOK
  BY DEF EInv, Typed
<1>1. PICK r \in Room, M \in SUBSET User, add \in BOOLEAN, U \in SUBSET User :
          Changes(c, r, M, add, U)
  BY <1>0, ChangeEffect
<1>2. step[c] = "open" /\ UNCHANGED <<cache, subs, groups, todo, turn>>
  BY <1>0, ChangeEffect DEF layer
<1>3. step'[c] \in {"open", "read"} /\ OthersKeep(c)
  BY <1>0, <1>1, <1>2 DEF Changes, FanOut, Goto, OthersKeep, TypeOK
<1>4. step'[c] = "read" => job'[c] = [add |-> add, room |-> r, users |-> U]
  BY <1>0, <1>1, <1>2 DEF Changes, FanOut, Goto, TypeOK
<1>5. M \subseteq ever'[r]
  BY <1>0, <1>1 DEF Changes, SetMembers, TypeOK
<1>6. step'[c] = "read" /\ job'[c].add => \A u \in job'[c].users : u \in ever'[job'[c].room]
  BY <1>1, <1>4, <1>5 DEF Changes
<1>7. \A g \in groups'[c] : Entitled(Owner[c], g)
  BY <1>2 DEF EInv, Honest, ListOwner
<1> QED
  BY <1>2, <1>3, <1>6, <1>7, HonestStep DEF OthersKeep

LEMMA InitHonest == Init => EInv
BY InitTyped DEF EInv, Init, NoStranger, Honest

LEMMA NextHonest == EInv /\ [Next]_vars => EInv'
<1> SUFFICES ASSUME EInv, [Next]_vars
             PROVE  EInv'
  OBVIOUS
<1> USE DEF db, layer, locals
<1>0. TypeOK /\ Typed'
  BY NextTyped DEF EInv, Typed
<1>1. CASE UNCHANGED vars
  BY <1>0, <1>1 DEF vars, EInv, NoStranger, Honest, ListOwner, Entitled
<1>2. ASSUME NEW c \in Conn, \/ Connect(c) \/ Disconnect(c) \/ Lapse(c)
                             \/ Heartbeat(c) \/ Crash(c)
      PROVE  EInv'
  <2>1. /\ UNCHANGED <<members, row, ever, cache, subs>>
        /\ OthersKeep(c)
    BY <1>0, <1>2 DEF OthersKeep, Connect, Disconnect, Lapse, Heartbeat, Crash,
       Goto, TypeOK
  <2>2. \/ UNCHANGED <<step, groups, todo, job, turn>>
        \/ /\ step'[c] \in {"fetch", "bye fetch", "closed"}
           /\ \/ groups'[c] = {}
              \/ groups'[c] = groups[c] /\ step[c] # "write"
    <3>1. CASE Lapse(c) \/ Heartbeat(c)
      BY <3>1 DEF Lapse, Heartbeat
    <3>2. CASE Connect(c) \/ Disconnect(c)
      BY <1>0, <3>2 DEF Connect, Disconnect, Goto, TypeOK
    <3>3. CASE Crash(c)
      BY <1>0, <3>3 DEF Crash, Goto, TypeOK
    <3> QED
      BY <1>2, <3>1, <3>2, <3>3
  <2>3. \A g \in groups'[c] :
            Entitled(IF step'[c] = "write" THEN turn'[c] ELSE Owner[c], g)
    BY <2>2 DEF EInv, Honest, ListOwner
  <2>4. step'[c] \in {"restore", "touch", "read", "write"} =>
            UNCHANGED <<step, groups, todo, job, turn>>
    BY <2>2
  <2> QED
    BY <2>1, <2>3, <2>4, HonestStep, <1>0 DEF OthersKeep, EInv, Honest
<1>3. ASSUME NEW c \in Conn, Cleanup(c) \/ Setup(c) \/ Fan(c) \/ ChangeMembers(c)
      PROVE  EInv'
  BY <1>0, <1>3, CleanupHonest, SetupHonest, FanHonest, ChangeHonest
<1> QED
  BY <1>1, <1>2, <1>3 DEF Next

\* However connections and handlers overlap, lapse, crash and, among several
\* workers, lose each other's cache updates, nobody is subscribed to a room
\* they never were in, nor to another user's own group.
THEOREM NoStrangerListens == Spec => []NoStranger
<1>1. EInv => NoStranger
  BY DEF EInv
<1> QED
  BY <1>1, InitHonest, NextHonest, PTL DEF Spec

-----------------------------------------------------------------------------
(***************************************************************************)
(* A connected user keeps their own group.                                 *)
(***************************************************************************)

\* What connection c does next, and the list it holds, as far as its user's
\* own group goes.
Keeps(c) ==
    /\ step[c] # "write"
    /\ step[c] = "store" => Owner[c] \in groups[c]
    /\ step[c] \in Connected \cup {"restore"} => Owner[c] \in cache[Owner[c]]

CInv == Typed /\ (OneWorker => \A c \in Conn : Keeps(c))

\* No step takes a user's own group off their list.
LEMMA OwnGroupListed ==
    ASSUME CInv, OneWorker, [Next]_vars, NEW u \in User, u \in cache[u]
    PROVE  u \in cache'[u]
<1>0. TypeOK /\ u \notin Room
  BY GroupsDisjoint DEF CInv, Typed
<1>1. CASE cache' = cache
  BY <1>1
<1>2. ASSUME NEW c \in Conn, SetupStore(c)
      PROVE  u \in cache'[u]
  BY <1>0, <1>2, OwnerAssumption DEF SetupStore, CInv, Keeps, TypeOK
<1>3. ASSUME NEW c \in Conn, FanCommit(c)
      PROVE  u \in cache'[u]
  <2>1. job[c] \in Job /\ turn[c] \in User
    BY <1>3 DEF FanCommit, CInv, Typed, InFan, Job
  <2>2. job[c].room # u
    BY <1>0, <2>1 DEF Job
  <2>3. u \in Changed(c, cache[u])
    BY <2>2 DEF Changed
  <2> QED
    BY <1>0, <1>3, <2>1, <2>3 DEF FanCommit, TypeOK
<1>4. ASSUME NEW c \in Conn
      PROVE  ~ FanSet(c)
  BY DEF FanSet, CInv, Keeps
<1> QED
  BY <1>1, <1>2, <1>3, <1>4, ChangeEffect, <1>0
     DEF Next, vars, layer, Connect, Disconnect, Cleanup, CleanupFetch, CleanupExpired,
     CleanupDiscard, CleanupDone, Setup, SetupFetch, Restore, Register, Fan,
     FanRead, FanTouch, FanGet, Lapse, Heartbeat, Crash

LEMMA InitCached == Init => CInv
BY InitTyped DEF CInv, Init, Keeps, Connected

LEMMA NextCached == CInv /\ [Next]_vars => CInv'
<1> SUFFICES ASSUME CInv, [Next]_vars, OneWorker, NEW d \in Conn
             PROVE  Keeps(d)'
  BY NextTyped DEF CInv
<1> USE DEF db, layer, locals
<1>0. TypeOK /\ Owner[d] \in User /\ Keeps(d)
  BY OwnerAssumption DEF CInv, Typed
<1>1. Owner[d] \in cache[Owner[d]] => Owner[d] \in cache'[Owner[d]]
  BY <1>0, OwnGroupListed
<1>2. CASE step'[d] = step[d] /\ groups'[d] = groups[d]
  BY <1>0, <1>1, <1>2 DEF Keeps
<1>3. CASE step'[d] \notin Connected \cup {"restore", "store"}
  BY <1>3 DEF Keeps, Connected
<1>4. CASE SetupFetch(d)
  BY <1>0, <1>4 DEF SetupFetch, Goto, Keeps, Connected, TypeOK
<1>5. CASE SetupStore(d)
  BY <1>0, <1>5 DEF SetupStore, Goto, Keeps, Connected, TypeOK
<1>6. CASE step[d] \in Connected \cup {"restore"} /\ step'[d] \in {"open", "read", "touch"}
  BY <1>0, <1>1, <1>6 DEF Keeps
<1>7. ASSUME NEW c \in Conn, c # d,
             \/ Connect(c) \/ Disconnect(c) \/ Lapse(c) \/ Heartbeat(c) \/ Crash(c)
             \/ Cleanup(c) \/ Setup(c) \/ Fan(c) \/ ChangeMembers(c)
      PROVE  step'[d] = step[d] /\ groups'[d] = groups[d]
  <2>1. CASE \/ Connect(c) \/ Disconnect(c) \/ Lapse(c) \/ Heartbeat(c) \/ Crash(c)
    BY <1>0, <1>7, <2>1 DEF Connect, Disconnect, Lapse, Heartbeat, Crash, Goto, TypeOK
  <2>2. CASE Cleanup(c) \/ Setup(c)
    BY <1>0, <1>7, <2>2 DEF Cleanup, CleanupFetch, CleanupExpired, CleanupDiscard,
       CleanupDone, Setup, SetupFetch, SetupStore, Restore, Register, Goto, TypeOK
  <2>3. CASE Fan(c)
    BY <1>0, <1>7, <2>3 DEF Fan, FanRead, FanTouch, FanCommit, FanGet, FanSet,
       NextUser, Goto, TypeOK
  <2>4. CASE ChangeMembers(c)
    <3>1. PICK r \in Room, M \in SUBSET User, add \in BOOLEAN, U \in SUBSET User :
              Changes(c, r, M, add, U)
      BY <1>0, <2>4, ChangeEffect
    <3>2. groups' = groups
      BY <1>0, <2>4, ChangeEffect
    <3> QED
      BY <1>0, <1>7, <3>1, <3>2 DEF Changes, FanOut, Goto, TypeOK
  <2> QED
    BY <1>7, <2>1, <2>2, <2>3, <2>4
<1>8. CASE \/ Connect(d) \/ Disconnect(d) \/ Crash(d) \/ Cleanup(d)
  <2>1. step'[d] \notin Connected \cup {"restore", "store"}
    BY <1>0, <1>8 DEF Connect, Disconnect, Crash, Cleanup, CleanupFetch,
       CleanupExpired, CleanupDiscard, CleanupDone, Goto, Connected, TypeOK
  <2> QED
    BY <1>3, <2>1
<1>9. CASE Lapse(d) \/ Heartbeat(d)
  BY <1>2, <1>9 DEF Lapse, Heartbeat
<1>10. CASE Restore(d)
  BY <1>2, <1>10 DEF Restore
<1>11. CASE Register(d) \/ Fan(d)
  <2>1. ~ FanGet(d) /\ ~ FanSet(d)
    BY <1>0 DEF FanGet, FanSet, Keeps
  <2>2. step[d] \in Connected \cup {"restore"} /\ step'[d] \in {"open", "read", "touch"}
    BY <1>0, <1>11, <2>1 DEF Register, Fan, FanRead, FanTouch, FanCommit, NextUser,
       Goto, Connected, TypeOK
  <2> QED
    BY <1>6, <2>2
<1>12. CASE ChangeMembers(d)
  <2>1. PICK r \in Room, M \in SUBSET User, add \in BOOLEAN, U \in SUBSET User :
            Changes(d, r, M, add, U)
    BY <1>0, <1>12, ChangeEffect
  <2>2. step[d] = "open"
    BY <1>0, <1>12, ChangeEffect
  <2>3. step'[d] \in {"open", "read"}
    BY <1>0, <2>1, <2>2 DEF Changes, FanOut, Goto, TypeOK
  <2> QED
    BY <1>6, <2>2, <2>3 DEF Connected
<1>13. CASE UNCHANGED vars
  BY <1>2, <1>13 DEF vars
<1> QED
  BY <1>2, <1>4, <1>5, <1>7, <1>8, <1>9, <1>10, <1>11, <1>12, <1>13 DEF Next, Setup

\* Within one worker process the cached list of a connected user always names
\* the user's own group, whatever writes the list at the same time.
THEOREM OwnGroupIsCached == Spec => []OwnGroupCached
<1>1. CInv => OwnGroupCached
  BY DEF CInv, Keeps, OwnGroupCached
<1> QED
  BY <1>1, InitCached, NextCached, PTL DEF Spec

-----------------------------------------------------------------------------
(***************************************************************************)
(* With heartbeats in time no cleanup takes an open connection out.        *)
(***************************************************************************)

\* Only closed connections expire, so only those are discarded by a cleanup;
\* a fan-out touches room groups; and the own group is joined or about to be.
Hears(c) ==
    /\ session[c] = "expired" => step[c] = "closed"
    /\ step[c] \in {"discard", "bye discard"} =>
           \A p \in todo[c] : step[p[2]] = "closed"
    /\ step[c] = "touch" => \A p \in todo[c] : p[1] \in Room
    /\ step[c] = "store" => Owner[c] \in groups[c]
    /\ step[c] = "restore" => \/ <<Owner[c], c>> \in todo[c]
                              \/ c \in subs[Owner[c]]
    /\ step[c] \in Connected => c \in subs[Owner[c]]

JInv == Typed /\ (Timely => \A c \in Conn : Hears(c))

\* A closed connection does nothing any more.
LEMMA ClosedForGood ==
    ASSUME Typed, [Next]_vars, NEW d \in Conn, step[d] = "closed"
    PROVE  step'[d] = "closed"
<1>0. TypeOK
  BY DEF Typed
<1>1. ASSUME NEW c \in Conn,
             \/ Connect(c) \/ Disconnect(c) \/ Lapse(c) \/ Heartbeat(c) \/ Crash(c)
      PROVE  step'[d] = "closed"
  BY <1>0, <1>1 DEF Connect, Disconnect, Lapse, Heartbeat, Crash, Goto, TypeOK
<1>2. ASSUME NEW c \in Conn, Cleanup(c) \/ Setup(c)
      PROVE  step'[d] = "closed"
  BY <1>0, <1>2 DEF Cleanup, CleanupFetch, CleanupExpired, CleanupDiscard,
     CleanupDone, Setup, SetupFetch, SetupStore, Restore, Register, Goto, TypeOK
<1>3. ASSUME NEW c \in Conn, Fan(c)
      PROVE  step'[d] = "closed"
  BY <1>0, <1>3 DEF Fan, FanRead, FanTouch, FanCommit, FanGet, FanSet, NextUser,
     Goto, TypeOK
<1>4. ASSUME NEW c \in Conn, ChangeMembers(c)
      PROVE  step'[d] = "closed"
  <2>1. PICK r \in Room, M \in SUBSET User, add \in BOOLEAN, U \in SUBSET User :
            Changes(c, r, M, add, U)
    BY <1>0, <1>4, ChangeEffect
  <2>2. step[c] = "open"
    BY <1>0, <1>4, ChangeEffect
  <2> QED
    BY <1>0, <2>1, <2>2 DEF Changes, FanOut, Goto, TypeOK
<1> QED
  BY <1>1, <1>2, <1>3, <1>4 DEF Next, vars

\* Nobody who is not closed is taken out of their own group.
LEMMA OwnGroupKept ==
    ASSUME JInv, Timely, [Next]_vars, NEW d \in Conn, step[d] # "closed",
           d \in subs[Owner[d]]
    PROVE  d \in subs'[Owner[d]]
<1>0. TypeOK /\ Owner[d] \in User /\ Owner[d] \in Group /\ Owner[d] \notin Room
  BY OwnerAssumption, GroupsDisjoint DEF JInv, Typed, Group
<1>1. CASE subs' = subs
  BY <1>1
<1>2. ASSUME NEW c \in Conn, CleanupDiscard(c)
      PROVE  d \in subs'[Owner[d]]
  <2>1. PICK p \in todo[c] : subs' = [subs EXCEPT ![p[1]] = @ \ {p[2]}]
    BY <1>2 DEF CleanupDiscard
  <2>2. step[c] \in {"discard", "bye discard"} /\ Hears(c)
    BY <1>2 DEF CleanupDiscard, JInv
  <2>3. step[p[2]] = "closed"
    BY <2>2 DEF Hears
  <2> QED
    BY <1>0, <2>1, <2>3 DEF TypeOK
<1>3. ASSUME NEW c \in Conn, Restore(c)
      PROVE  d \in subs'[Owner[d]]
  BY <1>0, <1>3 DEF Restore, TypeOK
<1>4. ASSUME NEW c \in Conn, FanTouch(c)
      PROVE  d \in subs'[Owner[d]]
  <2>1. PICK p \in todo[c] : subs' = [subs EXCEPT ![p[1]] =
                 IF job[c].add THEN @ \cup {p[2]} ELSE @ \ {p[2]}]
    BY <1>4 DEF FanTouch
  <2>2. p[1] \in Room
    BY <1>4 DEF FanTouch, JInv, Hears
  <2> QED
    BY <1>0, <2>1, <2>2 DEF TypeOK
<1> QED
  BY <1>0, <1>1, <1>2, <1>3, <1>4, ChangeEffect
     DEF Next, vars, layer, Connect, Disconnect, Cleanup, CleanupFetch, CleanupExpired,
     CleanupDone, Setup, SetupFetch, SetupStore, Register, Fan,
     FanRead, FanCommit, FanGet, FanSet, Lapse, Heartbeat, Crash

LEMMA InitHears == Init => JInv
BY InitTyped DEF JInv, Init, Hears, Connected

\* A step of another connection leaves this one's part alone.
LEMMA HearsStill ==
    ASSUME JInv, Timely, [Next]_vars, NEW d \in Conn,
           step'[d] = step[d], groups'[d] = groups[d], todo'[d] = todo[d],
           session'[d] = session[d]
    PROVE  Hears(d)'
<1>0. TypeOK /\ Hears(d)
  BY DEF JInv, Typed
<1>1. step[d] \in {"discard", "bye discard"} =>
          \A p \in todo[d] : step'[p[2]] = "closed"
  <2> SUFFICES ASSUME step[d] \in {"discard", "bye discard"}, NEW p \in todo[d]
               PROVE  step'[p[2]] = "closed"
    OBVIOUS
  <2>1. step[p[2]] = "closed"
    BY <1>0 DEF Hears
  <2>2. todo[d] \subseteq Group \X Conn
    BY <1>0 DEF TypeOK
  <2> QED
    BY <2>1, <2>2, ClosedForGood DEF JInv
<1>2. step[d] \in Connected \cup {"restore"} /\ d \in subs[Owner[d]]
          => d \in subs'[Owner[d]]
  BY OwnGroupKept DEF Connected
<1> QED
  BY <1>0, <1>1, <1>2 DEF Hears

LEMMA NextHears == JInv /\ [Next]_vars => JInv'
<1> SUFFICES ASSUME JInv, [Next]_vars, Timely, NEW d \in Conn
             PROVE  Hears(d)'
  BY NextTyped DEF JInv
<1> USE DEF db, layer, locals
<1>0. TypeOK /\ Hears(d) /\ Owner[d] \in User /\ Owner[d] \in Group
  BY OwnerAssumption DEF JInv, Typed, Group
<1>1. step[d] # "closed" /\ d \in subs[Owner[d]] => d \in subs'[Owner[d]]
  BY OwnGroupKept
<1>2. ASSUME NEW c \in Conn, c # d,
             \/ Connect(c) \/ Disconnect(c) \/ Lapse(c) \/ Heartbeat(c) \/ Crash(c)
             \/ Cleanup(c) \/ Setup(c) \/ Fan(c) \/ ChangeMembers(c)
      PROVE  Hears(d)'
  <2>1. CASE \/ Connect(c) \/ Disconnect(c) \/ Lapse(c) \/ Heartbeat(c) \/ Crash(c)
    BY <1>0, <1>2, <2>1, HearsStill
       DEF Connect, Disconnect, Lapse, Heartbeat, Crash, Goto, TypeOK
  <2>2. CASE Cleanup(c)
    BY <1>0, <1>2, <2>2, HearsStill DEF Cleanup, CleanupFetch, CleanupExpired,
       CleanupDiscard, CleanupDone, Goto, TypeOK
  <2>3. CASE Setup(c)
    BY <1>0, <1>2, <2>3, HearsStill DEF Setup, SetupFetch, SetupStore, Restore,
       Register, Goto, TypeOK
  <2>4. CASE Fan(c)
    BY <1>0, <1>2, <2>4, HearsStill DEF Fan, FanRead, FanTouch, FanCommit, FanGet,
       FanSet, NextUser, Goto, TypeOK
  <2>5. CASE ChangeMembers(c)
    <3>1. PICK r \in Room, M \in SUBSET User, add \in BOOLEAN, U \in SUBSET User :
              Changes(c, r, M, add, U)
      BY <1>0, <2>5, ChangeEffect
    <3>2. UNCHANGED <<groups, todo, session>>
      BY <1>0, <2>5, ChangeEffect
    <3> QED
      BY <1>0, <1>2, <3>1, <3>2, HearsStill DEF Changes, FanOut, Goto, TypeOK
  <2> QED
    BY <1>2, <2>1, <2>2, <2>3, <2>4, <2>5
<1>3. CASE Connect(d) \/ Disconnect(d)
  BY <1>0, <1>3 DEF Connect, Disconnect, Goto, Hears, Connected, TypeOK
<1>4. CASE Crash(d)
  BY <1>0, <1>4 DEF Crash, Goto, Hears, Connected, TypeOK
<1>5. CASE Lapse(d) \/ Heartbeat(d)
  <2>1. session'[d] = "expired" => step'[d] = "closed"
    BY <1>0, <1>5 DEF Lapse, Heartbeat, TypeOK
  <2>2. UNCHANGED <<step, groups, todo, subs>>
    BY <1>5 DEF Lapse, Heartbeat
  <2> QED
    BY <1>0, <2>1, <2>2 DEF Hears
<1>6. CASE CleanupFetch(d) \/ CleanupDone(d)
  BY <1>0, <1>6 DEF CleanupFetch, CleanupDone, Goto, Hears, Connected, TypeOK
<1>7. CASE CleanupExpired(d)
  <2>1. todo'[d] = groups[d] \X SessionsOf(Owner[d], "expired") /\ session' = session
    BY <1>0, <1>7 DEF CleanupExpired, TypeOK
  <2>2. step'[d] \in {"discard", "bye discard"} /\ step[d] # "closed"
    BY <1>0, <1>7 DEF CleanupExpired, Goto, TypeOK
  <2>3. \A p \in todo'[d] : step'[p[2]] = "closed"
    BY <2>1, ClosedForGood DEF SessionsOf, JInv, Hears
  <2> QED
    BY <1>0, <2>1, <2>2, <2>3 DEF Hears, Connected
<1>8. CASE CleanupDiscard(d)
  <2>1. /\ step' = step /\ session' = session
        /\ step[d] \in {"discard", "bye discard"}
    BY <1>8 DEF CleanupDiscard
  <2>2. PICK p \in todo[d] : todo' = [todo EXCEPT ![d] = @ \ {p}]
    BY <1>8 DEF CleanupDiscard
  <2>3. todo'[d] \subseteq todo[d]
    BY <1>0, <2>2 DEF TypeOK
  <2> QED
    BY <1>0, <2>1, <2>3 DEF Hears, Connected
<1>9. CASE SetupFetch(d)
  <2>1. \/ step'[d] = "restore" /\ <<Owner[d], d>> \in todo'[d]
        \/ step'[d] = "store" /\ Owner[d] \in groups'[d]
    BY <1>0, <1>9 DEF SetupFetch, Goto, TypeOK
  <2>2. session' = session /\ step[d] = "setup"
    BY <1>9 DEF SetupFetch
  <2> QED
    BY <1>0, <2>1, <2>2 DEF Hears, Connected
<1>10. CASE SetupStore(d)
  <2>1. step'[d] = "restore" /\ <<Owner[d], d>> \in todo'[d]
    BY <1>0, <1>10 DEF SetupStore, Goto, Hears, TypeOK
  <2>2. session' = session /\ step[d] = "store"
    BY <1>10 DEF SetupStore
  <2> QED
    BY <1>0, <2>1, <2>2 DEF Hears, Connected
<1>11. CASE Restore(d)
  <2>1. PICK p \in todo[d] :
            /\ subs' = [subs EXCEPT ![p[1]] = @ \cup {p[2]}]
            /\ todo' = [todo EXCEPT ![d] = @ \ {p}]
    BY <1>11 DEF Restore
  <2>2. step[d] = "restore" /\ UNCHANGED <<step, session>>
    BY <1>11 DEF Restore
  <2>3. <<Owner[d], d>> \in todo'[d] \/ d \in subs'[Owner[d]]
    <3>1. CASE d \in subs[Owner[d]]
      BY <1>1, <2>2, <3>1
    <3>2. CASE p = <<Owner[d], d>>
      BY <1>0, <2>1, <3>2 DEF TypeOK
    <3>3. CASE p # <<Owner[d], d>> /\ <<Owner[d], d>> \in todo[d]
      BY <1>0, <2>1, <3>3 DEF TypeOK
    <3> QED
      BY <1>0, <2>2, <3>1, <3>2, <3>3 DEF Hears
  <2> QED
    BY <1>0, <2>2, <2>3 DEF Hears, Connected
<1>12. CASE Register(d)
  <2>1. step'[d] = "open" /\ session'[d] = "active"
    BY <1>0, <1>12 DEF Register, Goto, TypeOK
  <2>2. d \in subs'[Owner[d]]
    BY <1>0, <1>12 DEF Register, Hears
  <2> QED
    BY <2>1, <2>2 DEF Hears
<1>13. CASE Fan(d)
  <2>1. step[d] \in Connected /\ step'[d] \in Connected /\ session' = session
    BY <1>0, <1>13 DEF Fan, FanRead, FanTouch, FanCommit, FanGet, FanSet, NextUser,
       Goto, Connected, TypeOK
  <2>2. d \in subs'[Owner[d]]
    BY <1>0, <1>1, <2>1 DEF Hears, Connected
  <2>3. step'[d] = "touch" => \A p \in todo'[d] : p[1] \in Room
    <3>1. CASE FanRead(d)
      <4>1. job[d].room \in Room
        BY <3>1 DEF FanRead, JInv, Typed, InFan, Job
      <4> QED
        BY <1>0, <3>1, <4>1 DEF FanRead, TypeOK
    <3>2. CASE FanTouch(d)
      BY <1>0, <3>2 DEF FanTouch, Hears, TypeOK
    <3>3. CASE FanCommit(d) \/ FanGet(d) \/ FanSet(d)
      BY <1>0, <3>3 DEF FanCommit, FanGet, FanSet, NextUser, Goto, TypeOK
    <3> QED
      BY <1>13, <3>1, <3>2, <3>3 DEF Fan
  <2> QED
    BY <1>0, <2>1, <2>2, <2>3 DEF Hears, Connected
<1>14. CASE ChangeMembers(d)
  <2>1. PICK r \in Room, M \in SUBSET User, add \in BOOLEAN, U \in SUBSET User :
            Changes(d, r, M, add, U)
    BY <1>0, <1>14, ChangeEffect
  <2>2. step[d] = "open" /\ UNCHANGED <<subs, session, groups, todo>>
    BY <1>0, <1>14, ChangeEffect
  <2>3. step'[d] \in {"open", "read"}
    BY <1>0, <2>1, <2>2 DEF Changes, FanOut, Goto, TypeOK
  <2> QED
    BY <1>0, <2>2, <2>3 DEF Hears, Connected
<1>15. CASE UNCHANGED vars
  BY <1>15, HearsStill DEF vars
<1> QED
  BY <1>2, <1>3, <1>4, <1>5, <1>6, <1>7, <1>8, <1>9, <1>10, <1>11, <1>12, <1>13,
     <1>14, <1>15 DEF Next, Cleanup, Setup

\* When clients send their heartbeats in time, an open connection stays in its
\* user's own group: the cleanups of other devices, whose lists of expired
\* sessions are already old, take out closed connections only.
THEOREM OwnGroupIsJoined == Spec => []OwnGroupJoined
<1>1. JInv => OwnGroupJoined
  BY DEF JInv, Hears, OwnGroupJoined
<1> QED
  BY <1>1, InitHears, NextHears, PTL DEF Spec

-----------------------------------------------------------------------------
(***************************************************************************)
(* Handlers get on.                                                        *)
(***************************************************************************)

\* What follows what in a handler, its loops aside.
Follows ==
    { <<"fetch", "expired">>, <<"expired", "discard">>, <<"discard", "setup">>,
      <<"setup", "store">>, <<"setup", "restore">>, <<"store", "restore">>,
      <<"bye fetch", "bye expired">>, <<"bye expired", "bye discard">>,
      <<"read", "touch">>, <<"touch", "write">> }

\* A handler ends, goes on to what follows, has one channel less to touch, or
\* starts over with one user less.
Progress(c) ==
    \/ Idle(c)'
    \/ <<step[c], step'[c]>> \in Follows /\ job'[c] = job[c]
    \/ /\ step'[c] = step[c] /\ job'[c] = job[c]
       /\ \E p \in todo[c] : todo'[c] = todo[c] \ {p}
    \/ /\ step[c] \in {"touch", "write"} /\ step'[c] = "read"
       /\ \E u \in job[c].users : job'[c] = [job[c] EXCEPT !.users = @ \ {u}]

\* What Resume(c) asks for.
CanResume(c) ==
    \/ step[c] \notin {"off", "open", "closed", "read"}
    \/ step[c] = "read" /\ job[c].users # {}

BInv == Typed /\ \A c \in Conn : Idle(c) \/ CanResume(c)

LEMMA ResumeProgress ==
    ASSUME Typed, NEW c \in Conn, Resume(c)
    PROVE  /\ Progress(c)
           /\ step'[c] = "read" => job'[c].users # {}
<1> USE DEF db, layer, locals
<1>0. TypeOK
  BY DEF Typed
<1>1. CASE CleanupFetch(c) \/ CleanupExpired(c) \/ CleanupDone(c)
  <2>1. /\ job' = job
        /\ step'[c] # "read"
        /\ \/ <<step[c], step'[c]>> \in Follows
           \/ step'[c] = "closed"
    BY <1>0, <1>1, GotoTypes
       DEF CleanupFetch, CleanupExpired, CleanupDone, Follows, Step
  <2> QED
    BY <2>1 DEF Progress, Idle
<1>2. CASE CleanupDiscard(c) \/ Restore(c) \/ FanTouch(c)
  <2>1. /\ job' = job /\ step' = step /\ step[c] # "read"
        /\ \E p \in todo[c] : todo' = [todo EXCEPT ![c] = @ \ {p}]
    BY <1>2 DEF CleanupDiscard, Restore, FanTouch
  <2> QED
    BY <1>0, <2>1 DEF Progress, TypeOK
<1>3. CASE SetupFetch(c) \/ SetupStore(c) \/ Register(c)
  <2>1. /\ job' = job
        /\ step'[c] # "read"
        /\ \/ <<step[c], step'[c]>> \in Follows
           \/ step'[c] = "open"
    BY <1>0, <1>3, GotoTypes
       DEF SetupFetch, SetupStore, Register, Follows, Step
  <2> QED
    BY <2>1 DEF Progress, Idle
<1>4. CASE FanRead(c) \/ FanGet(c)
  <2>1. /\ job' = job
        /\ step'[c] # "read"
        /\ <<step[c], step'[c]>> \in Follows
    BY <1>0, <1>4, GotoTypes DEF FanRead, FanGet, Follows, Step
  <2> QED
    BY <2>1 DEF Progress
<1>5. CASE FanCommit(c) \/ FanSet(c)
  <2> DEFINE rest == job[c].users \ {turn[c]}
  <2>1. step[c] \in {"touch", "write"} /\ NextUser(c)
    BY <1>5 DEF FanCommit, FanSet
  <2>2. turn[c] \in job[c].users /\ job[c] \in Job
    BY <2>1 DEF Typed, InFan
  <2>3. /\ job'[c] = IF rest = {} THEN None ELSE [job[c] EXCEPT !.users = rest]
        /\ step'[c] = IF rest = {} THEN "open" ELSE "read"
    BY <1>0, <2>1 DEF NextUser, Goto, TypeOK
  <2>4. rest # {} => job'[c].users = rest
    BY <2>2, <2>3 DEF Job
  <2> QED
    BY <2>1, <2>2, <2>3, <2>4 DEF Progress, Idle
<1> QED
  BY <1>1, <1>2, <1>3, <1>4, <1>5 DEF Resume, Cleanup, Setup, Fan

\* Who else moves leaves a handler alone, and one that begins can go on.
LEMMA OthersLeaveAlone ==
    ASSUME Typed, NEW c \in Conn, [Next]_vars, ~ Resume(c)
    PROVE  /\ ~ Idle(c) => Idle(c)' \/ UNCHANGED <<step[c], todo[c], job[c]>>
           /\ Idle(c) => Idle(c)' \/ CanResume(c)'
<1> USE DEF db, layer, locals
<1>0. TypeOK
  BY DEF Typed
<1>1. ASSUME UNCHANGED <<step[c], todo[c], job[c]>>
      PROVE  /\ ~ Idle(c) => Idle(c)' \/ UNCHANGED <<step[c], todo[c], job[c]>>
             /\ Idle(c) => Idle(c)' \/ CanResume(c)'
  BY <1>1 DEF Idle
<1>2. ASSUME NEW d \in Conn, Connect(d) \/ Disconnect(d)
      PROVE  \/ UNCHANGED <<step[c], todo[c], job[c]>>
             \/ Idle(c) /\ step'[c] \in {"fetch", "bye fetch"}
  BY <1>0, <1>2 DEF Connect, Disconnect, Goto, TypeOK, Idle
<1>3. ASSUME NEW d \in Conn, Crash(d)
      PROVE  UNCHANGED <<step[c], todo[c], job[c]>> \/ Idle(c)'
  BY <1>0, <1>3 DEF Crash, Goto, TypeOK, Idle
<1>4. ASSUME NEW d \in Conn, Lapse(d) \/ Heartbeat(d)
      PROVE  UNCHANGED <<step[c], todo[c], job[c]>>
  BY <1>4 DEF Lapse, Heartbeat
<1>5. ASSUME NEW d \in Conn, ChangeMembers(d)
      PROVE  \/ UNCHANGED <<step[c], todo[c], job[c]>>
             \/ Idle(c) /\ step'[c] = "read" /\ job'[c].users # {}
  <2>1. PICK r \in Room, M \in SUBSET User, add \in BOOLEAN, U \in SUBSET User :
            Changes(d, r, M, add, U)
    BY <1>0, <1>5, ChangeEffect
  <2>2. step[d] = "open" /\ UNCHANGED todo
    BY <1>0, <1>5, ChangeEffect
  <2>3. CASE UNCHANGED <<step, job>>
    BY <2>2, <2>3
  <2>4. CASE FanOut(d, add, r, U) /\ U # {}
    <3>1. /\ step' = [step EXCEPT ![d] = "read"]
          /\ job' = [job EXCEPT ![d] = [add |-> add, room |-> r, users |-> U]]
      BY <2>4 DEF FanOut, Goto
    <3> QED
      BY <1>0, <2>2, <2>4, <3>1 DEF TypeOK, Idle
  <2> QED
    BY <2>1, <2>3, <2>4 DEF Changes, FanOut
<1>6. ASSUME NEW d \in Conn, Resume(d)
      PROVE  UNCHANGED <<step[c], todo[c], job[c]>>
  <2>1. d # c
    BY <1>6
  <2>2. CASE Cleanup(d)
    BY <1>0, <2>1, <2>2 DEF Cleanup, CleanupFetch, CleanupExpired, CleanupDiscard,
                            CleanupDone, Goto, TypeOK
  <2>3. CASE Setup(d)
    BY <1>0, <2>1, <2>3 DEF Setup, SetupFetch, SetupStore, Restore, Register,
                            Goto, TypeOK
  <2>4. CASE Fan(d)
    BY <1>0, <2>1, <2>4 DEF Fan, FanRead, FanTouch, FanCommit, FanGet, FanSet,
                            NextUser, Goto, TypeOK
  <2> QED
    BY <1>6, <2>2, <2>3, <2>4 DEF Resume
<1>7. CASE UNCHANGED vars
  BY <1>1, <1>7 DEF vars
<1> QED
  BY <1>1, <1>2, <1>3, <1>4, <1>5, <1>6, <1>7 DEF Next, Resume, CanResume, Idle

LEMMA NextCanResume == BInv /\ [Next]_vars => BInv'
<1> SUFFICES ASSUME BInv, [Next]_vars, NEW c \in Conn
             PROVE  Idle(c)' \/ CanResume(c)'
  BY NextTyped DEF BInv
<1>1. Typed /\ Typed' /\ (Idle(c) \/ CanResume(c))
  BY NextTyped DEF BInv
<1>2. CASE Resume(c)
  BY <1>1, <1>2, ResumeProgress DEF Idle, CanResume
<1>3. CASE ~ Resume(c)
  BY <1>1, <1>3, OthersLeaveAlone DEF Idle, CanResume
<1> QED
  BY <1>2, <1>3

\* A handler that awaits can always be resumed, resuming it is progress, and
\* nobody but a crash interferes with how far it is: whatever interleaves, a
\* connection's loops over groups, channels and users (consumers.py:1092) walk
\* what they had before them when they began.
THEOREM HandlersGoOn ==
    Spec => /\ [](\A c \in Conn : Idle(c) \/ CanResume(c))
            /\ [][\A c \in Conn :
                     /\ Resume(c) => Progress(c)
                     /\ ~ Resume(c) /\ ~ Idle(c) =>
                            Idle(c)' \/ UNCHANGED <<step[c], todo[c], job[c]>>]_vars
<1>1. Init => BInv
  BY InitTyped DEF BInv, Init, Idle
<1>2. BInv => \A c \in Conn : Idle(c) \/ CanResume(c)
  BY DEF BInv
<1>3. BInv /\ [Next]_vars =>
          [\A c \in Conn :
              /\ Resume(c) => Progress(c)
              /\ ~ Resume(c) /\ ~ Idle(c) =>
                     Idle(c)' \/ UNCHANGED <<step[c], todo[c], job[c]>>]_vars
  BY ResumeProgress, OthersLeaveAlone DEF BInv
<1> QED
  BY <1>1, <1>2, <1>3, NextCanResume, PTL DEF Spec
=============================================================================
