-------------------------- MODULE SubsSerial_proofs --------------------------
(***************************************************************************)
(* Proofs about Subscriptions when handlers do not overlap and nothing     *)
(* crashes: whenever every handler has ended, the cached lists are exactly *)
(* what the member lists say, and so are the groups if clients send their  *)
(* heartbeats in time; all of it but for the creators in untold, whose     *)
(* creation was rejected half way (serializers.py:294) and told nobody.    *)
(* Any number of users, rooms, connections, workers.                       *)
(***************************************************************************)
EXTENDS Subscriptions_proofs, FiniteSetTheorems

\* One handler at a time, which also keeps room objects fresh, and nobody dies in
\* one.  Without the first, NoLeak fails (the run RacedLeak).
Serial ==
    /\ IsFiniteSet(Conn)
    /\ MaxBusy = 1
    /\ ~ Crashes
    /\ ~ Stale

\* At most one connection is inside a handler.
Alone == \A c, d \in Conn : ~ Idle(c) /\ ~ Idle(d) => c = d

\* A room lives as long as it has members, and is not heard of before.
RoomsKnown ==
    \A r \in Room :
        /\ row[r] = "live" <=> members[r] # {}
        /\ row[r] = "unused" => /\ subs[r] = {} /\ untold[r] = {}
                                /\ \A u \in User : r \notin cache[u]

\* The fan-out under way has not yet finished with user u of room r.
Pending(u, r) ==
    \E c \in Conn : /\ step[c] \in {"read", "touch", "write"}
                    /\ job[c].room = r
                    /\ u \in job[c].users

\* The cached lists are right but for the users a fan-out has not reached.
ListsRight ==
    \A u \in User, r \in Room :
        row[r] = "live" /\ ~ Pending(u, r) => (r \in cache[u] <=> u \in members[r] \ untold[r])

\* With heartbeats in time so are the groups, for the connections that are
\* accepted; and each of these has a session a fan-out finds.
GroupsRight(c) ==
    Timely /\ step[c] \in Connected =>
        /\ session[c] = "active"
        /\ \A r \in Room :
               row[r] = "live" /\ ~ Pending(Owner[c], r)
               => (c \in subs[r] <=> Owner[c] \in members[r] \ untold[r])

\* A connection that is not accepted yet has no session, and is in no group
\* before it restores its list.
Arriving(c) ==
    /\ step[c] \in {"off", "fetch", "expired", "discard", "setup", "store", "restore"}
       => session[c] = "none"
    /\ step[c] \in {"off", "fetch", "expired", "discard", "setup", "store"}
       => \A g \in Group : c \notin subs[g]

\* The list it restores is the cached one.
Restoring(c) ==
    /\ step[c] = "store" => groups[c] = cache[Owner[c]] \cup {Owner[c]}
    /\ step[c] = "restore" =>
           /\ todo[c] \subseteq cache[Owner[c]] \X {c}
           /\ \A g \in Group :
                  g \in cache[Owner[c]] <=> (c \in subs[g] \/ <<g, c>> \in todo[c])

\* A fan-out does what the member list says, and has at each user either
\* touched a connection or still has to.
Fanning(c) ==
    /\ step[c] \in {"read", "touch", "write"} =>
           /\ row[job[c].room] # "unused"
           /\ \A u \in job[c].users : u \in members[job[c].room] \ untold[job[c].room] <=> job[c].add
    /\ step[c] \in {"touch", "write"} =>
           /\ \A p \in todo[c] : /\ p[1] = job[c].room
                                 /\ Owner[p[2]] = turn[c]
                                 /\ session[p[2]] # "none"
           /\ Timely => \A d \in Conn :
                  Owner[d] = turn[c] /\ step[d] \in Connected =>
                      \/ <<job[c].room, d>> \in todo[c]
                      \/ d \in subs[job[c].room] <=> job[c].add
    /\ step[c] = "write" => /\ todo[c] = {}
                            /\ groups[c] = Changed(c, cache[turn[c]])

InSync ==
    /\ Alone
    /\ RoomsKnown
    /\ ListsRight
    /\ \A c \in Conn : /\ GroupsRight(c)
                       /\ Arriving(c)
                       /\ Restoring(c)
                       /\ Fanning(c)

SInv == JInv /\ InSync

-----------------------------------------------------------------------------
(***************************************************************************)
(* One handler at a time.                                                  *)
(***************************************************************************)

\* A handler starts only when no other is under way.
LEMMA OnlyWhenQuiet ==
    ASSUME Serial, MayStart
    PROVE  \A c \in Conn : Idle(c)
<1> DEFINE B == {c \in Conn : ~ Idle(c)}
<1>1. IsFiniteSet(B)
  BY FS_Subset DEF Serial
<1>2. Cardinality(B) \in Nat /\ Cardinality(B) < 1
  BY <1>1, FS_CardinalityType DEF Serial, MayStart
<1>3. Cardinality(B) = 0
  BY <1>2
<1>4. B = {}
  BY <1>1, <1>3, FS_EmptySet
<1> QED
  BY <1>4

\* While c is in its handler the others are idle.
LEMMA OthersIdle ==
    ASSUME Alone, NEW c \in Conn, ~ Idle(c)
    PROVE  \A d \in Conn \ {c} : Idle(d)
BY DEF Alone

\* A user's fan-out is pending only at the connection that does it.
LEMMA PendingAt ==
    ASSUME NEW c \in Conn, \A d \in Conn \ {c} : Idle(d), NEW u, NEW r
    PROVE  Pending(u, r) <=> /\ step[c] \in {"read", "touch", "write"}
                             /\ job[c].room = r
                             /\ u \in job[c].users
BY DEF Pending, Idle

LEMMA PendingNext ==
    ASSUME NEW c \in Conn, \A d \in Conn \ {c} : Idle(d)', NEW u, NEW r
    PROVE  Pending(u, r)' <=> /\ step'[c] \in {"read", "touch", "write"}
                              /\ job'[c].room = r
                              /\ u \in job'[c].users
BY DEF Pending, Idle

\* What a step of c that is no part of a fan-out has to show: it leaves rooms
\* and sessions alone, and every group as far as open connections go.
LEMMA NoFanStep ==
    ASSUME InSync, NEW c \in Conn,
           \A d \in Conn \ {c} : Idle(d) /\ step'[d] = step[d] /\ session'[d] = session[d],
           {step[c], step'[c]} \cap {"read", "touch", "write"} = {},
           UNCHANGED <<members, row, untold>>,
           \A u \in User, r \in Room : r \in cache'[u] <=> r \in cache[u],
           \A d \in Conn \ {c}, g \in Group :
               /\ d \in subs'[g] => d \in subs[g]
               /\ Timely /\ step[d] # "closed" /\ d \in subs[g] => d \in subs'[g],
           \A r \in Room : row[r] = "unused" => subs'[r] = {},
           GroupsRight(c)', Arriving(c)', Restoring(c)'
    PROVE  InSync'
<1>1. \A d \in Conn \ {c} : Idle(d)'
  BY DEF Idle
<1>2. \A u, r : ~ Pending(u, r) /\ ~ Pending(u, r)'
  BY <1>1, PendingAt, PendingNext
<1>3. Alone'
  BY <1>1 DEF Alone
<1>4. RoomsKnown'
  BY DEF InSync, RoomsKnown
<1>5. ListsRight'
  BY <1>2 DEF InSync, ListsRight
<1>6. ASSUME NEW d \in Conn \ {c}
      PROVE  GroupsRight(d)' /\ Arriving(d)' /\ Restoring(d)' /\ Fanning(d)'
  <2>1. GroupsRight(d)'
    BY <1>2 DEF InSync, GroupsRight, Idle, Connected, Group
  <2>2. Arriving(d)'
    BY DEF InSync, Arriving, Idle
  <2> QED
    BY <2>1, <2>2 DEF Idle, Restoring, Fanning
<1>7. Fanning(c)'
  BY DEF Fanning
<1> QED
  BY <1>3, <1>4, <1>5, <1>6, <1>7 DEF InSync

-----------------------------------------------------------------------------
(***************************************************************************)
(* Connecting, disconnecting, heartbeats.                                  *)
(***************************************************************************)
LEMMA ComeAndGo ==
    ASSUME Serial, SInv, NEW c \in Conn, Connect(c) \/ Disconnect(c)
    PROVE  InSync'
<1> USE DEF db, layer, locals
<1>0. TypeOK /\ InSync
  BY DEF SInv, JInv, Typed
<1>1. \A d \in Conn : Idle(d)
  BY OnlyWhenQuiet DEF Connect, Disconnect
<1>2. /\ \A d \in Conn \ {c} : step'[d] = step[d]
      /\ \/ step[c] = "off" /\ step'[c] = "fetch"
         \/ step[c] = "open" /\ step'[c] = "bye fetch"
      /\ UNCHANGED <<db, layer, session, locals>>
  BY <1>0 DEF Connect, Disconnect, Goto, TypeOK
<1>3. GroupsRight(c)' /\ Arriving(c)' /\ Restoring(c)'
  BY <1>0, <1>2 DEF InSync, GroupsRight, Arriving, Restoring, Connected
<1>4. \A r \in Room : row[r] = "unused" => subs'[r] = {}
  BY <1>0, <1>2 DEF InSync, RoomsKnown
<1> QED
  BY <1>0, <1>1, <1>2, <1>3, <1>4, NoFanStep

LEMMA TimePasses ==
    ASSUME Serial, SInv, NEW c \in Conn, Lapse(c) \/ Heartbeat(c)
    PROVE  InSync'
<1> USE DEF db, layer, locals
<1>0. TypeOK /\ InSync
  BY DEF SInv, JInv, Typed
<1>1. /\ UNCHANGED <<members, row, ever, untold, cache, subs, step, groups, todo, job, turn>>
      /\ \A d \in Conn \ {c} : session'[d] = session[d]
      /\ \/ (Timely => step[c] = "closed") /\ session[c] = "active"
                                           /\ session'[c] = "expired"
         \/ step[c] = "open" /\ session'[c] = "active"
  BY <1>0 DEF Lapse, Heartbeat, Serial, TypeOK
<1>2. \A u, r : Pending(u, r)' <=> Pending(u, r)
  BY <1>1 DEF Pending
<1>3. Alone' /\ RoomsKnown' /\ ListsRight'
  BY <1>0, <1>1, <1>2 DEF InSync, Alone, Idle, RoomsKnown, ListsRight
<1>4. ASSUME NEW d \in Conn
      PROVE  GroupsRight(d)' /\ Arriving(d)' /\ Restoring(d)' /\ Fanning(d)'
  <2>1. GroupsRight(d)'
    BY <1>0, <1>1, <1>2 DEF InSync, GroupsRight, Connected
  <2>2. Arriving(d)' /\ Restoring(d)'
    BY <1>0, <1>1 DEF InSync, Arriving, Restoring
  <2>3. Fanning(d)'
    <3>1. session'[c] # "none"
      BY <1>1
    <3>2. \A p \in todo[d] : p[2] \in Conn
      BY <1>0 DEF TypeOK
    <3>3. Fanning(d) /\ Changed(d, cache[turn[d]])' = Changed(d, cache[turn[d]])
      BY <1>0, <1>1 DEF InSync, Changed
    <3> QED
      BY <1>1, <3>1, <3>2, <3>3 DEF Fanning
  <2> QED
    BY <2>1, <2>2, <2>3
<1> QED
  BY <1>3, <1>4 DEF InSync

LEMMA CleanupSync ==
    ASSUME Serial, SInv, NEW c \in Conn, Cleanup(c)
    PROVE  InSync'
<1> USE DEF db, layer, locals
<1>0. TypeOK /\ InSync
  BY DEF SInv, JInv, Typed
<1>1. /\ step[c] \in {"fetch", "expired", "discard", "bye fetch", "bye expired", "bye discard"}
      /\ step'[c] \in {"expired", "discard", "setup", "bye expired", "bye discard", "closed"}
      /\ step'[c] \in {"expired", "discard", "setup"} => step[c] \in {"fetch", "expired", "discard"}
      /\ \A d \in Conn \ {c} : step'[d] = step[d]
      /\ UNCHANGED <<members, row, untold, cache, session>>
  BY <1>0 DEF Cleanup, CleanupFetch, CleanupExpired, CleanupDiscard, CleanupDone,
     Goto, TypeOK
<1>2. \A d \in Conn \ {c} : Idle(d)
  BY <1>0, <1>1, OthersIdle DEF InSync, Idle
<1>3. /\ \A g \in Group : subs'[g] \subseteq subs[g]
      /\ Timely => \A d \in Conn, g \in Group :
             step[d] # "closed" => (d \in subs'[g] <=> d \in subs[g])
  <2>1. CASE CleanupDiscard(c)
    <3>1. PICK p \in todo[c] : subs' = [subs EXCEPT ![p[1]] = @ \ {p[2]}]
      BY <2>1 DEF CleanupDiscard
    <3>2. Timely => step[p[2]] = "closed"
      BY <2>1 DEF CleanupDiscard, SInv, JInv, Hears, Serial
    <3> QED
      BY <1>0, <3>1, <3>2 DEF TypeOK
  <2>2. CASE CleanupFetch(c) \/ CleanupExpired(c) \/ CleanupDone(c)
    BY <2>2 DEF CleanupFetch, CleanupExpired, CleanupDone
  <2> QED
    BY <2>1, <2>2 DEF Cleanup
<1>4. \A r \in Room : row[r] = "unused" => subs'[r] = {}
  BY <1>0, <1>3 DEF InSync, RoomsKnown, Group
<1>5. GroupsRight(c)' /\ Arriving(c)' /\ Restoring(c)'
  BY <1>0, <1>1, <1>3 DEF InSync, GroupsRight, Arriving, Restoring, Connected
<1> QED
  BY <1>0, <1>1, <1>2, <1>3, <1>4, <1>5, NoFanStep

LEMMA SetupSync ==
    ASSUME Serial, SInv, NEW c \in Conn, Setup(c)
    PROVE  InSync'
<1> USE DEF db, layer, locals
<1>0. TypeOK /\ InSync /\ Owner[c] \in User /\ Owner[c] \notin Room
  BY OwnerAssumption, GroupsDisjoint DEF SInv, JInv, Typed
<1>1. /\ step[c] \in {"setup", "store", "restore"}
      /\ \A d \in Conn \ {c} : step'[d] = step[d] /\ session'[d] = session[d]
      /\ UNCHANGED <<members, row, untold>>
      /\ step'[c] \in {"store", "restore", "open"}
  BY <1>0 DEF Setup, SetupFetch, SetupStore, Restore, Register, Goto, TypeOK
<1>2. \A d \in Conn \ {c} : Idle(d)
  BY <1>0, <1>1, OthersIdle DEF InSync, Idle
<1>3. \A r \in Room : row[r] = "unused" => subs[r] = {} /\ \A u \in User : r \notin cache[u]
  BY <1>0 DEF InSync, RoomsKnown
<1>4. Arriving(c) /\ Restoring(c)
  BY <1>0 DEF InSync
<1>5. CASE SetupFetch(c)
  <2> DEFINE listed == cache[Owner[c]]
  <2>1. UNCHANGED <<cache, subs, session>> /\ step[c] = "setup"
    BY <1>5 DEF SetupFetch
  <2>2. \/ step'[c] = "restore" /\ todo'[c] = listed \X {c}
        \/ step'[c] = "store" /\ groups'[c] = listed \cup {Owner[c]}
    BY <1>0, <1>5 DEF SetupFetch, Goto, TypeOK
  <2>3. Restoring(c)'
    BY <1>4, <2>1, <2>2 DEF Restoring, Arriving
  <2>4. GroupsRight(c)' /\ Arriving(c)'
    BY <1>4, <2>1, <2>2 DEF GroupsRight, Arriving, Connected
  <2> QED
    BY <1>0, <1>1, <1>2, <1>3, <2>1, <2>2, <2>3, <2>4, NoFanStep
<1>6. CASE SetupStore(c)
  <2>1. /\ UNCHANGED <<subs, session>> /\ step[c] = "store" /\ step'[c] = "restore"
        /\ todo'[c] = groups[c] \X {c}
        /\ cache' = [cache EXCEPT ![Owner[c]] = groups[c]]
    BY <1>0, <1>6 DEF SetupStore, Goto, TypeOK
  <2>2. groups[c] = cache[Owner[c]] \cup {Owner[c]} /\ cache'[Owner[c]] = groups[c]
    BY <1>0, <1>4, <2>1 DEF Restoring, TypeOK
  <2>3. \A u \in User, r \in Room : r \in cache'[u] <=> r \in cache[u]
    BY <1>0, <2>1, <2>2 DEF TypeOK
  <2>4. Restoring(c)'
    BY <1>4, <2>1, <2>2 DEF Restoring, Arriving
  <2>5. GroupsRight(c)' /\ Arriving(c)'
    BY <1>4, <2>1 DEF GroupsRight, Arriving, Connected
  <2> QED
    BY <1>0, <1>1, <1>2, <1>3, <2>1, <2>3, <2>4, <2>5, NoFanStep
<1>7. CASE Restore(c)
  <2>1. PICK p \in todo[c] :
            /\ subs' = [subs EXCEPT ![p[1]] = @ \cup {p[2]}]
            /\ todo' = [todo EXCEPT ![c] = @ \ {p}]
    BY <1>7 DEF Restore
  <2>2. UNCHANGED <<cache, session, step>> /\ step[c] = "restore"
    BY <1>7 DEF Restore
  <2>3. p \in cache[Owner[c]] \X {c} /\ p = <<p[1], c>> /\ p[1] \in Group
    BY <1>0, <1>4, <2>2 DEF Restoring, TypeOK
  <2>4. \A d \in Conn \ {c}, g \in Group : d \in subs'[g] <=> d \in subs[g]
    BY <1>0, <2>1, <2>3 DEF TypeOK
  <2>5. \A r \in Room : row[r] = "unused" => subs'[r] = {}
    BY <1>0, <1>3, <2>1, <2>3 DEF TypeOK
  <2>6. Restoring(c)'
    <3>1. todo'[c] = todo[c] \ {p}
      BY <1>0, <2>1 DEF TypeOK
    <3>2. \A g \in Group : c \in subs'[g] <=> (c \in subs[g] \/ g = p[1])
      BY <1>0, <2>1, <2>3 DEF TypeOK
    <3>3. \A g \in Group :
              g \in cache[Owner[c]] <=> (c \in subs'[g] \/ <<g, c>> \in todo'[c])
      BY <1>4, <2>2, <2>3, <3>1, <3>2 DEF Restoring
    <3> QED
      BY <1>4, <2>2, <3>1, <3>3 DEF Restoring
  <2>7. GroupsRight(c)' /\ Arriving(c)'
    BY <1>4, <2>2 DEF GroupsRight, Arriving, Connected
  <2> QED
    BY <1>0, <1>1, <1>2, <2>2, <2>4, <2>5, <2>6, <2>7, NoFanStep
<1>8. CASE Register(c)
  <2>1. /\ UNCHANGED <<cache, subs>> /\ step[c] = "restore" /\ todo[c] = {}
        /\ step'[c] = "open" /\ session'[c] = "active"
    BY <1>0, <1>8 DEF Register, Goto, TypeOK
  <2>2. \A r \in Room : c \in subs[r] <=> r \in cache[Owner[c]]
    BY <1>4, <2>1 DEF Restoring, Group
  <2>3. \A r : ~ Pending(Owner[c], r)
    BY <1>1, <1>2, PendingAt
  <2>4. GroupsRight(c)'
    BY <1>0, <1>1, <2>1, <2>2, <2>3 DEF InSync, ListsRight, GroupsRight
  <2>5. Arriving(c)' /\ Restoring(c)'
    BY <2>1 DEF Arriving, Restoring
  <2> QED
    BY <1>0, <1>1, <1>2, <1>3, <2>1, <2>4, <2>5, NoFanStep
<1> QED
  BY <1>5, <1>6, <1>7, <1>8 DEF Setup

-----------------------------------------------------------------------------
(***************************************************************************)
(* A room changes its members.                                             *)
(***************************************************************************)

\* Room r gets the members M, all told but V, and the fan-out goes to exactly
\* the users for whom that changes or confirms something; a room without
\* members needs none.
Aimed(c, r, M, V, add, U) ==
    /\ SetMembers(r, M)
    /\ untold' = [untold EXCEPT ![r] = V]
    /\ IF U = {}
       THEN UNCHANGED <<step, job>>
       ELSE /\ Goto(c, "read")
            /\ job' = [job EXCEPT ![c] = [add |-> add, room |-> r, users |-> U]]
    /\ row[r] = "gone" => M = {}
    /\ \A u \in U : u \in M \ V <=> add
    /\ M # {} => \A u \in User \ U : u \in M \ V <=> u \in members[r] \ untold[r]

\* Every room handler fans out so.
LEMMA ChangeAimed ==
    ASSUME Serial, TypeOK, RoomsKnown, NEW c \in Conn, ChangeMembers(c)
    PROVE  \E r \in Room, M \in SUBSET User, V \in SUBSET User, add \in BOOLEAN,
              U \in SUBSET User : Aimed(c, r, M, V, add, U)
<1> DEFINE Goal == \E r \in Room, M \in SUBSET User, V \in SUBSET User,
                      add \in BOOLEAN, U \in SUBSET User : Aimed(c, r, M, V, add, U)
<1>2. PICK r \in Room :
          \/ \E S \in SUBSET User : \/ CreateRoom(c, r, S)
                                    \/ CreateRejected(c, r, S)
                                    \/ AddMembers(c, r, S)
                                    \/ RemoveMembers(c, r, S)
          \/ JoinRoom(c, r)
          \/ RemoveEverybody(c, r)
          \/ LeaveRoom(c, r)
          \/ DeleteRoom(c, r)
          \/ \E u \in User : SaveDeletedRoom(r, u)
  BY DEF ChangeMembers
<1>3. members[r] \in SUBSET User /\ Owner[c] \in User /\ untold[r] \in SUBSET User
  BY OwnerAssumption DEF TypeOK
<1>31. row[r] = "live" <=> members[r] # {}
  BY DEF RoomsKnown
<1>4. ASSUME NEW S \in SUBSET User, CreateRoom(c, r, S)
      PROVE  Goal
  <2>1. Aimed(c, r, S \cup {Owner[c]}, untold[r] \ (S \cup {Owner[c]}), TRUE, S \cup {Owner[c]})
    BY <1>3, <1>31, <1>4 DEF CreateRoom, FanOut, Aimed, RoomsKnown
  <2> QED
    BY <2>1, <1>3
<1>5. ASSUME NEW S \in SUBSET User, AddMembers(c, r, S)
      PROVE  Goal
  <2>1. Aimed(c, r, members[r] \cup S, untold[r] \ S, TRUE, S)
    BY <1>3, <1>31, <1>5 DEF AddMembers, FanOut, Aimed, RoomsKnown
  <2> QED
    BY <2>1, <1>3
<1>6. ASSUME NEW S \in SUBSET User, RemoveMembers(c, r, S)
      PROVE  Goal
  <2>1. Aimed(c, r, members[r] \ S, untold[r] \ S, FALSE, S)
    BY <1>3, <1>31, <1>6 DEF RemoveMembers, FanOut, Aimed, RoomsKnown
  <2> QED
    BY <2>1, <1>3
<1>7. ASSUME JoinRoom(c, r)
      PROVE  Goal
  <2>1. Aimed(c, r, members[r] \cup {Owner[c]}, untold[r] \ {Owner[c]}, TRUE, {Owner[c]})
    BY <1>3, <1>31, <1>7 DEF JoinRoom, FanOut, Aimed, RoomsKnown
  <2> QED
    BY <2>1, <1>3
<1>8. ASSUME RemoveEverybody(c, r)
      PROVE  Goal
  <2>1. Aimed(c, r, {}, untold[r], FALSE, {})
    BY <1>3, <1>31, <1>8 DEF RemoveEverybody, NoFanOut, Aimed, RoomsKnown
  <2> QED
    BY <2>1, <1>3
<1>9. ASSUME LeaveRoom(c, r)
      PROVE  Goal
  <2>1. Aimed(c, r, members[r] \ {Owner[c]}, untold[r] \ {Owner[c]}, FALSE, {Owner[c]})
    BY <1>3, <1>31, <1>9 DEF LeaveRoom, FanOut, Aimed, RoomsKnown
  <2> QED
    BY <2>1, <1>3
<1>10. ASSUME DeleteRoom(c, r)
       PROVE  Goal
  <2>1. Aimed(c, r, {}, untold[r] \ members[r], FALSE, members[r])
    BY <1>3, <1>31, <1>10 DEF DeleteRoom, FanOut, Aimed, RoomsKnown
  <2> QED
    BY <2>1, <1>3
<1>11. ASSUME NEW S \in SUBSET User, CreateRejected(c, r, S)
       PROVE  Goal
  <2>1. Aimed(c, r, S, untold[r] \cup S, FALSE, {})
    BY <1>3, <1>31, <1>11 DEF CreateRejected, NoFanOut, Aimed, RoomsKnown
  <2> QED
    BY <2>1, <1>3
<1>12. ASSUME NEW u \in User
       PROVE  ~ SaveDeletedRoom(r, u)
  BY DEF SaveDeletedRoom, Serial
<1> QED
  BY <1>2, <1>4, <1>5, <1>6, <1>7, <1>8, <1>9, <1>10, <1>11, <1>12

LEMMA ChangeSync ==
    ASSUME Serial, SInv, NEW c \in Conn, ChangeMembers(c)
    PROVE  InSync'
<1> USE DEF db, layer, locals
<1>0. TypeOK /\ InSync /\ RoomsKnown
  BY DEF SInv, JInv, Typed, InSync
<1>1. /\ \A d \in Conn : Idle(d)
      /\ step[c] = "open"
      /\ UNCHANGED <<cache, subs, session, groups, todo, turn>>
  BY OnlyWhenQuiet DEF ChangeMembers
<1>2. PICK r \in Room, M \in SUBSET User, V \in SUBSET User, add \in BOOLEAN,
           U \in SUBSET User : Aimed(c, r, M, V, add, U)
  BY <1>0, ChangeAimed
<1>3. /\ members'[r] = M /\ untold'[r] = V
      /\ row'[r] = IF M = {} THEN "gone" ELSE "live"
      /\ \A q \in Room \ {r} : members'[q] = members[q] /\ row'[q] = row[q]
                                                       /\ untold'[q] = untold[q]
  BY <1>0, <1>2 DEF Aimed, SetMembers, TypeOK
<1>4. /\ \A d \in Conn \ {c} : step'[d] = step[d] /\ Idle(d)'
      /\ IF U = {} THEN step'[c] = "open"
         ELSE step'[c] = "read" /\ job'[c] = [add |-> add, room |-> r, users |-> U]
  BY <1>0, <1>1, <1>2 DEF Aimed, Goto, TypeOK, Idle
<1>5. \A u, q : ~ Pending(u, q) /\ (Pending(u, q)' <=> q = r /\ u \in U)
  BY <1>1, <1>4, PendingAt, PendingNext
<1>6. RoomsKnown'
  BY <1>0, <1>1, <1>3 DEF RoomsKnown
<1>7. ASSUME NEW u \in User, NEW q \in Room, row'[q] = "live", ~ Pending(u, q)'
      PROVE  /\ q \in cache[u] <=> u \in members'[q] \ untold'[q]
             /\ Timely => \A d \in Conn : step[d] = "open" /\ Owner[d] = u
                    => (d \in subs[q] <=> u \in members'[q] \ untold'[q])
  <2>1. u \in members'[q] \ untold'[q] <=> u \in members[q] \ untold[q]
    BY <1>2, <1>3, <1>5, <1>7 DEF Aimed
  <2>2. CASE row[q] = "live"
    BY <1>0, <1>5, <2>1, <2>2 DEF InSync, ListsRight, GroupsRight, Connected
  <2>3. CASE row[q] = "unused"
    BY <1>0, <2>1, <2>3 DEF RoomsKnown
  <2>4. row[q] # "gone"
    BY <1>0, <1>2, <1>3, <1>7 DEF Aimed, RoomsKnown
  <2> QED
    BY <1>0, <2>2, <2>3, <2>4 DEF TypeOK
<1>8. Alone'
  BY <1>4 DEF Alone
<1>9. ListsRight'
  BY <1>1, <1>7 DEF ListsRight
<1>10. ASSUME NEW d \in Conn
       PROVE  GroupsRight(d)'
  <2>1. Timely /\ step'[d] \in Connected => step[d] = "open" /\ session[d] = "active"
    BY <1>0, <1>1, <1>4 DEF InSync, GroupsRight, Idle, Connected
  <2>2. Owner[d] \in User
    BY OwnerAssumption
  <2> QED
    BY <1>1, <1>7, <2>1, <2>2 DEF GroupsRight
<1>11. ASSUME NEW d \in Conn
       PROVE  Arriving(d)' /\ Restoring(d)'
  BY <1>0, <1>1, <1>4 DEF InSync, Arriving, Restoring, Idle
<1>12. ASSUME NEW d \in Conn
       PROVE  Fanning(d)'
  <2>1. CASE d # c
    BY <1>4, <2>1 DEF Fanning, Idle
  <2>2. CASE d = c
    BY <1>2, <1>3, <1>4, <2>2 DEF Aimed, Fanning
  <2> QED
    BY <2>1, <2>2
<1> QED
  BY <1>6, <1>8, <1>9, <1>10, <1>11, <1>12 DEF InSync

-----------------------------------------------------------------------------
(***************************************************************************)
(* The fan-out.                                                            *)
(***************************************************************************)
LEMMA FanReadSync ==
    ASSUME Serial, SInv, NEW c \in Conn, FanRead(c)
    PROVE  InSync'
<1> USE DEF db, layer, locals
<1>0. TypeOK /\ InSync /\ job[c] \in Job
  BY DEF SInv, JInv, Typed, InFan, FanRead
<1>1. PICK u \in job[c].users :
          /\ turn' = [turn EXCEPT ![c] = u]
          /\ todo' = [todo EXCEPT ![c] = {job[c].room} \X SessionsOf(u, "active")]
  BY DEF FanRead
<1>2. /\ step[c] = "read" /\ step'[c] = "touch"
      /\ \A d \in Conn \ {c} : step'[d] = step[d]
      /\ UNCHANGED <<members, row, untold, cache, subs, session, groups, job>>
      /\ turn'[c] = u
      /\ todo'[c] = {job[c].room} \X SessionsOf(u, "active")
  BY <1>0, <1>1 DEF FanRead, Goto, TypeOK
<1>3. \A d \in Conn \ {c} : Idle(d) /\ Idle(d)'
  BY <1>0, <1>2, OthersIdle DEF InSync, Idle
<1>4. \A v, r : Pending(v, r)' <=> Pending(v, r)
  BY <1>2, <1>3, PendingAt, PendingNext
<1>5. Alone' /\ RoomsKnown' /\ ListsRight'
  BY <1>0, <1>2, <1>3, <1>4 DEF InSync, Alone, RoomsKnown, ListsRight
<1>6. ASSUME NEW d \in Conn
      PROVE  GroupsRight(d)' /\ Arriving(d)' /\ Restoring(d)'
  <2>1. step'[d] \in Connected => step[d] \in Connected
    BY <1>2 DEF Connected
  <2>2. GroupsRight(d)'
    BY <1>0, <1>2, <1>4, <2>1 DEF InSync, GroupsRight
  <2>3. CASE d = c
    BY <1>2, <2>2, <2>3 DEF Arriving, Restoring
  <2>4. CASE d # c
    BY <1>0, <1>2, <1>3, <2>2, <2>4 DEF InSync, Arriving, Restoring, Idle
  <2> QED
    BY <2>2, <2>3, <2>4
<1>7. Fanning(c)'
  <2>1. /\ row[job[c].room] # "unused"
        /\ \A v \in job[c].users : v \in members[job[c].room] \ untold[job[c].room] <=> job[c].add
    BY <1>0, <1>2 DEF InSync, Fanning
  <2>2. \A p \in todo'[c] : /\ p[1] = job[c].room
                            /\ Owner[p[2]] = u
                            /\ session[p[2]] # "none"
    BY <1>2 DEF SessionsOf
  <2>3. ASSUME Timely, NEW d \in Conn, Owner[d] = u, step'[d] \in Connected
        PROVE  <<job[c].room, d>> \in todo'[c]
    <3>1. session[d] = "active"
      BY <1>2, <1>6, <2>3 DEF GroupsRight
    <3> QED
      BY <1>2, <2>3, <3>1 DEF SessionsOf
  <2> QED
    BY <1>2, <2>1, <2>2, <2>3 DEF Fanning
<1>8. ASSUME NEW d \in Conn \ {c}
      PROVE  Fanning(d)'
  BY <1>3 DEF Fanning, Idle
<1> QED
  BY <1>5, <1>6, <1>7, <1>8 DEF InSync

LEMMA FanTouchSync ==
    ASSUME Serial, SInv, NEW c \in Conn, FanTouch(c)
    PROVE  InSync'
<1> USE DEF db, layer, locals
<1>0. TypeOK /\ InSync /\ job[c] \in Job /\ turn[c] \in job[c].users
  BY DEF SInv, JInv, Typed, InFan, FanTouch
<1>1. PICK p \in todo[c] :
          /\ subs' = [subs EXCEPT ![p[1]] =
                 IF job[c].add THEN @ \cup {p[2]} ELSE @ \ {p[2]}]
          /\ todo' = [todo EXCEPT ![c] = @ \ {p}]
  BY DEF FanTouch
<1>2. /\ step[c] = "touch"
      /\ UNCHANGED <<members, row, untold, cache, session, step, groups, job, turn>>
      /\ todo'[c] = todo[c] \ {p}
      /\ \A d \in Conn \ {c} : todo'[d] = todo[d]
  BY <1>0, <1>1 DEF FanTouch, TypeOK
<1>3. \A d \in Conn \ {c} : Idle(d) /\ Idle(d)'
  BY <1>0, <1>2, OthersIdle DEF InSync, Idle
<1> DEFINE R == job[c].room
<1>4. /\ p = <<R, p[2]>> /\ p[2] \in Conn /\ R \in Room /\ R \in Group
      /\ Owner[p[2]] = turn[c]
      /\ session[p[2]] # "none"
      /\ row[R] # "unused"
  BY <1>0, <1>2 DEF InSync, Fanning, Job, Group, TypeOK
<1>5. /\ \A g \in Group \ {R} : subs'[g] = subs[g]
      /\ \A d \in Conn \ {p[2]} : d \in subs'[R] <=> d \in subs[R]
      /\ p[2] \in subs'[R] <=> job[c].add
  BY <1>0, <1>1, <1>4 DEF TypeOK, Job
<1>6. \A v, r : Pending(v, r)' <=> Pending(v, r)
  BY <1>2, <1>3, PendingAt, PendingNext
<1>7. Alone' /\ RoomsKnown' /\ ListsRight'
  BY <1>0, <1>2, <1>4, <1>5, <1>6
     DEF InSync, Alone, Idle, RoomsKnown, ListsRight, Group
<1>8. ASSUME NEW d \in Conn
      PROVE  GroupsRight(d)'
  <2> SUFFICES ASSUME Timely, step[d] \in Connected
               PROVE  /\ session[d] = "active"
                      /\ \A r \in Room :
                             row[r] = "live" /\ ~ Pending(Owner[d], r)
                             => (d \in subs'[r] <=> Owner[d] \in members[r] \ untold[r])
    BY <1>2, <1>6 DEF GroupsRight
  <2>1. ASSUME NEW r \in Room, ~ Pending(Owner[d], r)
        PROVE  d \in subs'[r] <=> d \in subs[r]
    <3>1. CASE r # R
      BY <1>5, <3>1 DEF Group
    <3>2. CASE r = R
      <4>1. Owner[d] \notin job[c].users
        BY <1>2, <1>3, <2>1, <3>2, PendingAt
      <4>2. d # p[2]
        BY <1>0, <1>4, <4>1
      <4> QED
        BY <1>5, <3>2, <4>2
    <3> QED
      BY <3>1, <3>2
  <2> QED
    BY <1>0, <2>1 DEF InSync, GroupsRight
<1>9. ASSUME NEW d \in Conn
      PROVE  Arriving(d)' /\ Restoring(d)'
  <2>1. CASE d = c
    BY <1>2, <2>1 DEF Arriving, Restoring
  <2>2. CASE d # c
    <3>1. step[d] = "off" => session[d] = "none" /\ \A g \in Group : d \notin subs[g]
      BY <1>0 DEF InSync, Arriving
    <3>2. session[d] = "none" => d # p[2]
      BY <1>4
    <3>3. step[d] = "off" => \A g \in Group : d \notin subs'[g]
      BY <1>5, <3>1, <3>2
    <3> QED
      BY <1>2, <1>3, <2>2, <3>1, <3>3 DEF Arriving, Restoring, Idle
  <2> QED
    BY <2>1, <2>2
<1>10. Fanning(c)'
  <2>1. Fanning(c)
    BY <1>0 DEF InSync
  <2>2. ASSUME Timely, NEW d \in Conn, Owner[d] = turn[c], step[d] \in Connected
        PROVE  \/ <<R, d>> \in todo'[c]
               \/ d \in subs'[R] <=> job[c].add
    <3>1. \/ <<R, d>> \in todo[c]
          \/ d \in subs[R] <=> job[c].add
      BY <1>2, <2>1, <2>2 DEF Fanning
    <3>2. CASE d = p[2]
      BY <1>5, <3>2
    <3>3. CASE d # p[2]
      BY <1>2, <1>4, <1>5, <3>1, <3>3
    <3> QED
      BY <3>2, <3>3
  <2> QED
    BY <1>2, <2>1, <2>2 DEF Fanning
<1>11. ASSUME NEW d \in Conn \ {c}
       PROVE  Fanning(d)'
  BY <1>3 DEF Fanning, Idle
<1> QED
  BY <1>7, <1>8, <1>9, <1>10, <1>11 DEF InSync

LEMMA FanGetSync ==
    ASSUME Serial, SInv, NEW c \in Conn, FanGet(c)
    PROVE  InSync'
<1> USE DEF db, layer, locals
<1>0. TypeOK /\ InSync
  BY DEF SInv, JInv, Typed
<1>1. /\ step[c] = "touch" /\ step'[c] = "write" /\ todo[c] = {}
      /\ \A d \in Conn \ {c} : step'[d] = step[d] /\ groups'[d] = groups[d]
      /\ groups'[c] = Changed(c, cache[turn[c]])
      /\ UNCHANGED <<members, row, untold, cache, subs, session, todo, job, turn>>
  BY <1>0 DEF FanGet, Goto, TypeOK
<1>2. \A d \in Conn \ {c} : Idle(d) /\ Idle(d)'
  BY <1>0, <1>1, OthersIdle DEF InSync, Idle
<1>3. \A v, r : Pending(v, r)' <=> Pending(v, r)
  BY <1>1, <1>2, PendingAt, PendingNext
<1>4. Alone' /\ RoomsKnown' /\ ListsRight'
  BY <1>0, <1>1, <1>2, <1>3 DEF InSync, Alone, RoomsKnown, ListsRight
<1>5. ASSUME NEW d \in Conn
      PROVE  GroupsRight(d)' /\ Arriving(d)' /\ Restoring(d)'
  <2>1. step'[d] \in Connected <=> step[d] \in Connected
    BY <1>1 DEF Connected
  <2>2. GroupsRight(d)'
    BY <1>0, <1>1, <1>3, <2>1 DEF InSync, GroupsRight
  <2>3. Arriving(d)' /\ Restoring(d)'
    BY <1>0, <1>1 DEF InSync, Arriving, Restoring
  <2> QED
    BY <2>2, <2>3
<1>6. Fanning(c)'
  <2>1. Fanning(c) /\ Changed(c, cache[turn[c]])' = Changed(c, cache[turn[c]])
    BY <1>0, <1>1 DEF InSync, Changed
  <2>2. \A d \in Conn : step'[d] \in Connected <=> step[d] \in Connected
    BY <1>1 DEF Connected
  <2> QED
    BY <1>1, <2>1, <2>2 DEF Fanning
<1>7. ASSUME NEW d \in Conn \ {c}
      PROVE  Fanning(d)'
  BY <1>2 DEF Fanning, Idle
<1> QED
  BY <1>4, <1>5, <1>6, <1>7 DEF InSync

LEMMA FanCommitSync ==
    ASSUME Serial, SInv, NEW c \in Conn, FanCommit(c) \/ FanSet(c)
    PROVE  InSync'
<1> USE DEF db, layer, locals
<1>0. TypeOK /\ InSync /\ job[c] \in Job /\ turn[c] \in job[c].users
  BY DEF SInv, JInv, Typed, InFan, FanCommit, FanSet
<1> DEFINE R    == job[c].room
           u    == turn[c]
           rest == job[c].users \ {u}
<1>1. /\ step[c] \in {"touch", "write"} /\ todo[c] = {}
      /\ UNCHANGED <<members, row, untold, subs, session, todo>>
      /\ \A d \in Conn \ {c} : groups'[d] = groups[d]
      /\ cache' = [cache EXCEPT ![u] = Changed(c, cache[u])]
      /\ NextUser(c)
  BY <1>0 DEF FanCommit, FanSet, InSync, Fanning, TypeOK
<1>2. R \in Room /\ R \in Group /\ u \in User /\ job[c].add \in BOOLEAN
  BY <1>0 DEF Job, Group
<1>3. /\ \A d \in Conn \ {c} : step'[d] = step[d]
      /\ IF rest = {} THEN step'[c] = "open"
         ELSE step'[c] = "read" /\ job'[c] = [job[c] EXCEPT !.users = rest]
  BY <1>0, <1>1 DEF NextUser, Goto, TypeOK
<1>4. step'[c] = "read" => /\ job'[c].room = R
                           /\ job'[c].add = job[c].add
                           /\ job'[c].users = rest
  BY <1>0, <1>3 DEF Job
<1>5. \A d \in Conn \ {c} : Idle(d) /\ Idle(d)'
  BY <1>0, <1>1, <1>3, OthersIdle DEF InSync, Idle
<1>6. \A v, r : /\ Pending(v, r) <=> r = R /\ v \in job[c].users
                /\ Pending(v, r)' <=> r = R /\ v \in rest
  BY <1>1, <1>3, <1>4, <1>5, PendingAt, PendingNext
<1>7. /\ row[R] # "unused"
      /\ \A v \in job[c].users : v \in members[R] \ untold[R] <=> job[c].add
      /\ Timely => \A d \in Conn : Owner[d] = u /\ step[d] \in Connected =>
                             (d \in subs[R] <=> job[c].add)
  BY <1>0, <1>1 DEF InSync, Fanning
<1>8. /\ \A v \in User \ {u} : cache'[v] = cache[v]
      /\ \A r \in Room : r # R => (r \in cache'[u] <=> r \in cache[u])
      /\ R \in cache'[u] <=> job[c].add
  BY <1>0, <1>1, <1>2 DEF Changed, TypeOK
<1>9. Alone'
  BY <1>5 DEF Alone
<1>10. RoomsKnown'
  BY <1>0, <1>1, <1>7, <1>8 DEF InSync, RoomsKnown
<1>11. ListsRight'
  <2> SUFFICES ASSUME NEW v \in User, NEW r \in Room,
                      row[r] = "live", ~ (r = R /\ v \in rest)
               PROVE  r \in cache'[v] <=> v \in members[r] \ untold[r]
    BY <1>1, <1>6 DEF ListsRight
  <2>1. CASE v = u /\ r = R
    BY <1>0, <1>7, <1>8, <2>1
  <2>2. CASE v # u \/ r # R
    <3>1. ~ Pending(v, r)
      BY <1>6, <2>2
    <3> QED
      BY <1>0, <1>8, <2>2, <3>1 DEF InSync, ListsRight
  <2> QED
    BY <2>1, <2>2
<1>12. ASSUME NEW d \in Conn
       PROVE  GroupsRight(d)'
  <2> SUFFICES ASSUME Timely, step'[d] \in Connected
               PROVE  /\ session[d] = "active"
                      /\ \A r \in Room :
                             row[r] = "live" /\ ~ (r = R /\ Owner[d] \in rest)
                             => (d \in subs[r] <=> Owner[d] \in members[r] \ untold[r])
    BY <1>1, <1>6 DEF GroupsRight
  <2>1. step[d] \in Connected /\ GroupsRight(d)
    BY <1>0, <1>1, <1>3 DEF InSync, Connected
  <2>2. ASSUME NEW r \in Room, row[r] = "live", ~ (r = R /\ Owner[d] \in rest)
        PROVE  d \in subs[r] <=> Owner[d] \in members[r] \ untold[r]
    <3>1. CASE Owner[d] = u /\ r = R
      BY <1>0, <1>7, <2>1, <3>1
    <3>2. CASE Owner[d] # u \/ r # R
      <4>1. ~ Pending(Owner[d], r)
        BY <1>6, <2>2, <3>2
      <4> QED
        BY <2>1, <2>2, <4>1 DEF GroupsRight
    <3> QED
      BY <3>1, <3>2
  <2> QED
    BY <2>1, <2>2 DEF GroupsRight
<1>13. ASSUME NEW d \in Conn
       PROVE  Arriving(d)' /\ Restoring(d)'
  <2>1. CASE d = c
    BY <1>3, <2>1 DEF Arriving, Restoring
  <2>2. CASE d # c
    BY <1>0, <1>1, <1>3, <1>5, <2>2 DEF InSync, Arriving, Restoring, Idle
  <2> QED
    BY <2>1, <2>2
<1>14. ASSUME NEW d \in Conn
       PROVE  Fanning(d)'
  <2>1. CASE d = c
    BY <1>1, <1>3, <1>4, <1>7, <2>1 DEF Fanning
  <2>2. CASE d # c
    BY <1>5, <2>2 DEF Fanning, Idle
  <2> QED
    BY <2>1, <2>2
<1> QED
  BY <1>9, <1>10, <1>11, <1>12, <1>13, <1>14 DEF InSync

-----------------------------------------------------------------------------
LEMMA InitSync == Init => SInv
<1> SUFFICES ASSUME Init
             PROVE  InSync
  BY InitHears DEF SInv
<1>1. Alone /\ RoomsKnown
  BY DEF Init, Alone, RoomsKnown, Idle, Group
<1>2. ListsRight
  BY DEF Init, ListsRight
<1>3. ASSUME NEW c \in Conn
      PROVE  GroupsRight(c) /\ Arriving(c) /\ Restoring(c) /\ Fanning(c)
  BY DEF Init, GroupsRight, Arriving, Restoring, Fanning, Connected
<1> QED
  BY <1>1, <1>2, <1>3 DEF InSync

LEMMA NextSync == Serial /\ SInv /\ [Next]_vars => SInv'
<1> SUFFICES ASSUME Serial, SInv, [Next]_vars
             PROVE  InSync'
  BY NextHears DEF SInv
<1>1. CASE UNCHANGED vars
  <2>1. /\ InSync
        /\ UNCHANGED <<members, row, untold, cache, subs, session, step, groups, todo, job, turn>>
    BY <1>1 DEF vars, SInv
  <2>2. \A u, r : Pending(u, r)' <=> Pending(u, r)
    BY <2>1 DEF Pending
  <2>3. Alone' /\ RoomsKnown' /\ ListsRight'
    BY <2>1, <2>2 DEF InSync, Alone, Idle, RoomsKnown, ListsRight
  <2>4. ASSUME NEW c \in Conn
        PROVE  GroupsRight(c)' /\ Arriving(c)' /\ Restoring(c)' /\ Fanning(c)'
    <3>1. Changed(c, cache[turn[c]])' = Changed(c, cache[turn[c]])
      BY <2>1 DEF Changed
    <3>2. Fanning(c)'
      BY <2>1, <3>1 DEF InSync, Fanning
    <3>3. GroupsRight(c)' /\ Arriving(c)' /\ Restoring(c)'
      BY <2>1, <2>2 DEF InSync, GroupsRight, Arriving, Restoring
    <3> QED
      BY <3>2, <3>3
  <2> QED
    BY <2>3, <2>4 DEF InSync
<1>2. ASSUME NEW c \in Conn, Connect(c) \/ Disconnect(c) \/ Lapse(c) \/ Heartbeat(c)
      PROVE  InSync'
  BY <1>2, ComeAndGo, TimePasses
<1>3. ASSUME NEW c \in Conn, Cleanup(c) \/ Setup(c) \/ ChangeMembers(c)
      PROVE  InSync'
  BY <1>3, CleanupSync, SetupSync, ChangeSync
<1>4. ASSUME NEW c \in Conn, Fan(c)
      PROVE  InSync'
  BY <1>4, FanReadSync, FanTouchSync, FanGetSync, FanCommitSync DEF Fan
<1>5. ASSUME NEW c \in Conn
      PROVE  ~ Crash(c)
  BY DEF Crash, Serial
<1> QED
  BY <1>1, <1>2, <1>3, <1>4, <1>5 DEF Next

LEMMA NothingPending ==
    ASSUME Quiet
    PROVE  \A u, r : ~ Pending(u, r)
BY DEF Quiet, Idle, Pending

\* In every state of a serial execution, also inside connect(), disconnect()
\* and a fan-out, the cached lists (with heartbeats in time the groups too)
\* differ from the member lists by what the handler under way has still to do,
\* and by nothing else.
THEOREM AlwaysInSync == ASSUME Serial PROVE Spec => []SInv
<1>1. Init => SInv
  BY InitSync
<1>2. SInv /\ [Next]_vars => SInv'
  BY NextSync
<1> QED
  BY <1>1, <1>2, PTL DEF Spec

\* With heartbeats in time: whenever no handler is under way, no open
\* connection is in the group of a room its user is not a member of, which is
\* what consumers.py:1092 is for.
THEOREM NobodyLeft == ASSUME Serial, Timely PROVE Spec => []NoLeak
<1>1. SInv => NoLeak
  BY NothingPending DEF SInv, InSync, GroupsRight, NoLeak, Connected
<1> QED
  BY <1>1, AlwaysInSync, PTL

\* Then also every open connection of a member is in the group of the room, unless
\* the member's creation of the room was rejected half way (serializers.py:294).  A
\* connection whose session lapsed while it is open is passed over by fan-outs.
THEOREM EverybodyIn == ASSUME Serial, Timely PROVE Spec => []NoGap
<1>1. SInv => NoGap
  <2> SUFFICES ASSUME SInv, Quiet, NEW c \in Conn, NEW r \in Room,
                      step[c] = "open", Owner[c] \in members[r] \ untold[r]
               PROVE  c \in subs[r]
    BY DEF NoGap
  <2>1. row[r] = "live"
    BY DEF SInv, InSync, RoomsKnown
  <2> QED
    BY <2>1, NothingPending DEF SInv, InSync, GroupsRight, Connected
<1> QED
  BY <1>1, AlwaysInSync, PTL

\* Whether or not heartbeats are in time, the cached list, which the next
\* connection restores, names exactly the rooms of the user (consumers.py:1197), but for those in untold.
THEOREM ListsAreRight == ASSUME Serial PROVE Spec => []CacheIsRight
<1>1. SInv => CacheIsRight
  BY NothingPending DEF SInv, InSync, ListsRight, CacheIsRight
<1> QED
  BY <1>1, AlwaysInSync, PTL
=============================================================================
