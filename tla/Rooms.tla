------------------------------- MODULE Rooms -------------------------------
(***************************************************************************)
(* The room operations as the consumers run them: the permission decorator *)
(* awaits the check, then the handler awaits the helper.  Between the two  *)
(* awaits any other connection may run its own check or helper, so the     *)
(* helper decides with a room object that may be stale, on behalf of a     *)
(* user who may have lost the permission since.                            *)
(*                                                                         *)
(* Source: permissions/decorators.py, the room handlers of consumers.py    *)
(* and, through RoomStore, the helpers behind them.                        *)
(***************************************************************************)
EXTENDS RoomStore

CONSTANT Handler      \* the connections that may have a request in progress

VARIABLE request      \* request[h]: the room object handler h was given

vars == <<users, kind, live, creator, members, admins, grants, public, request>>

TypeOK ==
    /\ StoreTypeOK
    /\ request \in [Handler -> Request \cup {None}]

Init == StoreInit /\ request = [h \in Handler |-> None]

-----------------------------------------------------------------------------
\* Mutant of Check: the permission is not looked at.
CheckNothing(h) ==
    \E u \in users, r \in live, k \in RequestKind :
        /\ request[h] = None
        /\ request' = [request EXCEPT ![h] = Fetched(k, u, r)]
        /\ UNCHANGED store

\* The decorator: the room is fetched, the permission holds, and the handler
\* is entered with what was fetched.
Check(h) ==
    \E u \in users, r \in live, k \in RequestKind :
        /\ request[h] = None
        /\ Permitted(k, u, r)
        /\ request' = [request EXCEPT ![h] = Fetched(k, u, r)]
        /\ UNCHANGED store

\* The body of the handler: the helper runs, whatever happened meanwhile.
Act(h) ==
    /\ request[h] # None
    /\ Perform(request[h])
    /\ request' = [request EXCEPT ![h] = None]

\* The handler dies before its helper: the worker process is killed.
Abandon(h) ==
    /\ request[h] # None
    /\ request' = [request EXCEPT ![h] = None]
    /\ UNCHANGED store

Create == \E u \in User : CreateRoom(u) /\ UNCHANGED request
Join   == \E u \in User, r \in Room : JoinRoom(u, r) /\ UNCHANGED request
Forget == \E u \in User : DeleteUser(u) /\ UNCHANGED request

Next ==
    \/ Create
    \/ Join
    \/ Forget
    \/ \E h \in Handler : Check(h) \/ Act(h) \/ Abandon(h)

Spec == Init /\ [][Next]_vars

-----------------------------------------------------------------------------
(***************************************************************************)
(* What a step may never do.                                               *)
(***************************************************************************)

\* The creator of a group or channel leaves it only by a request of their
\* own, with the room, or with their account: no admin, however the requests
\* overlap, takes the creator out (helper_mixins.py:554).
CreatorStays ==
    [][\A r \in live \cap live' :
          creator[r] \in members[r] \ members'[r] =>
              \/ creator[r] \notin users'
              \/ \E h \in Handler : /\ request[h] # None
                                    /\ request[h].room = r
                                    /\ request[h].user = creator[r]
                                    /\ request'[h] = None]_vars

\* A group or channel that keeps its row keeps a member: whoever leaves or is
\* taken out last takes the room along.  Only the deletion of an account,
\* which goes past the receivers, leaves a room empty (signals.py:118).
NeverEmptied ==
    [][\A r \in Room :
          r \in live' /\ kind[r] # "direct" /\ members[r] # {}
              => members'[r] # {} \/ users' # users]_vars

\* A room that was deleted stays deleted (helper_mixins.py:646).
DeletedForGood ==
    [][\A r \in Room : kind[r] # None /\ r \notin live => r \notin live']_vars

\* With one request at a time the check and the helper are one atomic step.
RefinesStore == StoreSpec
=============================================================================
