------------------------------- MODULE Server -------------------------------
(***************************************************************************)
(* The room operations and the sessions put together: each connection of   *)
(* module Rooms is one of module Subscriptions.  A connection that is open *)
(* checks a room request of its user, awaits, and runs the helper; then it *)
(* walks the sessions of the users the change concerns.  The variables of  *)
(* both modules change here, each by the operators of its own module;      *)
(* ImplementsSubscriptions says that Subscriptions, which knows the member *)
(* lists only, leaves nothing out that the rooms can do.                   *)
(*                                                                         *)
(* Source: consumers.py.  No account is deleted here: that takes rows away *)
(* without a word to any consumer.                                         *)
(***************************************************************************)
EXTENDS Rooms

CONSTANTS Owner, MaxBusy, Timely, Crashes, OneWorker   \* see Subscriptions

VARIABLES cache, subs, session, step, groups, todo, job, turn, ever, untold

\* What Subscriptions sees of a room besides its members.
Row == [r \in Room |-> IF kind[r] = None THEN "unused"
                       ELSE IF members[r] = {} THEN "gone" ELSE "live"]

S == INSTANCE Subscriptions
         WITH Conn <- Handler, row <- Row, Stale <- (MaxBusy > 1)

ASSUME ServerAssumption ==
    /\ Owner \in [Handler -> User]
    /\ Room \cap User = {}
    /\ IsFiniteSet(Handler) /\ MaxBusy \in Nat
    /\ {Timely, Crashes, OneWorker} \subseteq BOOLEAN

history    == <<ever, untold>>
sessions   == <<cache, subs, session, groups, todo, turn>>
serverVars == <<vars, history, sessions, step, job>>

ServerInit == Init /\ S!Init

\* Inside a handler: connecting, in a fan-out, or between check and helper.
Busy     == {h \in Handler : ~ S!Idle(h) \/ request[h] # None}
MayStart == Cardinality(Busy) < MaxBusy

\* The connection is accepted and its last handler has ended.
Free(h) == step[h] = "open" /\ request[h] = None

-----------------------------------------------------------------------------
\* Connecting, disconnecting, the fan-out, heartbeats: no room changes.
Device(h) ==
    /\ UNCHANGED <<store, request>>
    /\ \/ S!Connect(h) /\ MayStart
       \/ S!Disconnect(h) /\ Free(h) /\ MayStart
       \/ S!Cleanup(h) \/ S!Setup(h) \/ S!Fan(h)
       \/ S!Lapse(h)
       \/ S!Heartbeat(h) /\ Free(h)

\* The worker process dies, wherever the handler is.
Die(h) ==
    /\ UNCHANGED store
    /\ S!Crash(h)
    /\ request' = [request EXCEPT ![h] = None]

\* The decorator, for the user of the connection.
Ask(h) ==
    /\ Free(h)
    /\ MayStart
    /\ Check(h)
    /\ request'[h].user = Owner[h]
    /\ UNCHANGED <<history, sessions, step, job>>

-----------------------------------------------------------------------------
(***************************************************************************)
(* A helper and what the handler does with its answer.                     *)
(***************************************************************************)

\* room.create: the users in the answer, or a rejected property.
CreateAndTell(h) ==
    \E r \in Room, k \in Kinds, p \in BOOLEAN, T \in SUBSET users :
        LET u == Owner[h] IN
        /\ u \in users
        /\ kind[r] = None
        /\ \/ /\ \/ k = "direct" /\ CreateDirect(u, r, T)
                 \/ CreateShared(u, r, k, p, T)
              /\ S!FanOut(h, TRUE, r, T \cup {u})
           \/ /\ CreateRejectedByProperty(u, r, k, p)
              /\ S!NoFanOut(r, members'[r])

JoinAndTell(h) ==
    \E r \in Room : JoinRoom(Owner[h], r) /\ S!FanOut(h, TRUE, r, {Owner[h]})

\* A room that is created or joined has no check before it.
Enter(h) ==
    /\ Free(h)
    /\ MayStart
    /\ CreateAndTell(h) \/ JoinAndTell(h)
    /\ UNCHANGED request

\* Mutant of AddAndTell: the fan-out does not mind a refused addition.
AddAndTellAll(h, q) ==
    /\ q.kind = "add"
    /\ \E T \in SUBSET users :
          AddMembers(q, T) /\ S!FanOut(h, TRUE, q.room, T \ q.members)

AddAndTell(h, q) ==
    /\ q.kind = "add"
    /\ \E T \in SUBSET users :
          /\ AddMembers(q, T)
          /\ IF Fits(q.room, T \ q.members)
             THEN S!FanOut(h, TRUE, q.room, T \ q.members)
             ELSE S!NoFanOut(q.room, {})

\* The handler of a removal that takes out everybody raises before its loop.
RemoveAndTell(h, q) ==
    /\ q.kind = "remove"
    /\ \E T \in SUBSET users :
          /\ RemoveMembers(q, T)
          /\ IF members[q.room] \subseteq Removable(q, T)
             THEN S!NoFanOut(q.room, {})
             ELSE S!FanOut(h, FALSE, q.room, Removable(q, T))

LeaveAndTell(h, q) ==
    /\ q.kind = "leave"
    /\ LeaveRoom(q)
    /\ S!FanOut(h, FALSE, q.room, {q.user})

DeleteAndTell(h, q) ==
    /\ q.kind = "delete"
    /\ DeleteRoom(q)
    /\ S!FanOut(h, FALSE, q.room, members[q.room])

\* Nobody is told when an update brings a deleted room back.
ModifyAndTell(h, q) ==
    /\ q.kind = "modify"
    /\ ModifyRoom(q)
    /\ S!NoFanOut(q.room, members'[q.room] \ members[q.room])

Carry(h) ==
    /\ request[h] # None
    /\ \/ AddAndTell(h, request[h])
       \/ RemoveAndTell(h, request[h])
       \/ LeaveAndTell(h, request[h])
       \/ DeleteAndTell(h, request[h])
       \/ ModifyAndTell(h, request[h])
    /\ request' = [request EXCEPT ![h] = None]

\* The step of a connection that changes rooms.
RoomStep(h) ==
    /\ Enter(h) \/ Carry(h)
    /\ ever' = [r \in Room |-> ever[r] \cup members'[r]]
    /\ UNCHANGED sessions

ServerNext ==
    \E h \in Handler : Device(h) \/ Die(h) \/ Ask(h) \/ RoomStep(h)

ServerSpec == ServerInit /\ [][ServerNext]_serverVars

-----------------------------------------------------------------------------
\* What a room handler of Subscriptions may do to the members, the fan-out it
\* starts and the handlers it starts none for are right for every helper of
\* RoomStore, however stale the room object (consumers.py:740).
ImplementsSubscriptions == S!Spec
=============================================================================
