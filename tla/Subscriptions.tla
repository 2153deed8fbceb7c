--------------------------- MODULE Subscriptions ---------------------------
(***************************************************************************)
(* Who receives what: the sessions of a user, the user's cached group list *)
(* and the groups of the channel layer, as ChatConsumer keeps them while   *)
(* connections come and go and rooms change their members.                 *)
(*                                                                         *)
(* One action is the code between two awaits of a consumer (consumers.py)  *)
(* or of a cache helper (utils/cache_utils.py).  A consumer runs one       *)
(* handler at a time, so each connection has one program counter, step[c]; *)
(* any two connections interleave.  Sending to a group is left out: what a *)
(* send reaches is exactly subs[group] at that moment.                     *)
(*                                                                         *)
(* Of a room this module keeps the members only.  The kinds of rooms, who  *)
(* may do what, and the room object a permission check fetched one await   *)
(* earlier are in RoomStore and Rooms; a room handler here may do whatever *)
(* it may do there with any such object.  Server puts the two together.    *)
(***************************************************************************)
EXTENDS Naturals, FiniteSets

CONSTANTS
    User,       \* also the names of the users' own groups (USER_OWN_GROUP)
    Room,       \* also the names of the rooms' groups (GROUP_STRING)
    Conn,       \* WebSocket connections; each has a channel name of its own
    Owner,      \* Owner[c]: the user connection c authenticates as
    MaxBusy,    \* how many connections may be inside a handler at once
    Timely,     \* TRUE: open connections send their heartbeats in time
    Crashes,    \* TRUE: a connection may die without a disconnect
    OneWorker,  \* TRUE: one worker process, so cache helpers do not interleave
    Stale,      \* FALSE: every room handler still finds what its check saw
    None

Group == Room \cup User

ASSUME OwnerAssumption == Owner \in [Conn -> User]
ASSUME GroupsDisjoint  == Room \cap User = {}
ASSUME BusyAssumption  == MaxBusy \in Nat
ASSUME FlagsAssumption == {Timely, Crashes, OneWorker, Stale} \subseteq BOOLEAN
ASSUME NoneIsNoUser    == None \notin User

VARIABLES
    members,    \* members[r]: the participants or subscribers of r
    row,        \* row[r]: "unused", "live", or "gone": nobody is left in r
    cache,      \* cache[u]: the list under the key user:<u>:groups
    subs,       \* subs[g]: the channels in group g of the channel layer
    session,    \* session[c]: "none", or the row is "active" or "expired"
    step,       \* step[c]: what connection c does next
    groups,     \* groups[c]: the local variable of that name
    todo,       \* todo[c]: the <<group, channel>> pairs its loop has left
    job,        \* job[c]: the membership change whose fan-out is under way
    turn,       \* turn[c]: the user the fan-out is at
    ever,       \* ever[r]: the users who ever were members (history)
    untold      \* untold[r]: the users in r no fan-out was for (history)

db     == <<members, row, ever, untold>>
layer  == <<cache, subs>>
locals == <<groups, todo, job, turn>>
vars   == <<members, row, ever, untold, cache, subs, session, step,
            groups, todo, job, turn>>

Step == {"off", "fetch", "expired", "discard", "setup", "store", "restore",
         "open", "bye fetch", "bye expired", "bye discard", "closed",
         "read", "touch", "write"}
Job  == [add : BOOLEAN, room : Room, users : SUBSET User]

TypeOK ==
    /\ members \in [Room -> SUBSET User]
    /\ row \in [Room -> {"unused", "live", "gone"}]
    /\ cache \in [User -> SUBSET Group]
    /\ subs \in [Group -> SUBSET Conn]
    /\ session \in [Conn -> {"none", "active", "expired"}]
    /\ step \in [Conn -> Step]
    /\ groups \in [Conn -> SUBSET Group]
    /\ todo \in [Conn -> SUBSET (Group \X Conn)]
    /\ job \in [Conn -> Job \cup {None}]
    /\ turn \in [Conn -> User \cup {None}]
    /\ ever \in [Room -> SUBSET User]
    /\ untold \in [Room -> SUBSET User]

Init ==
    /\ members = [r \in Room |-> {}]
    /\ row = [r \in Room |-> "unused"]
    /\ cache = [u \in User |-> {}]
    /\ subs = [g \in Group |-> {}]
    /\ session = [c \in Conn |-> "none"]
    /\ step = [c \in Conn |-> "off"]
    /\ groups = [c \in Conn |-> {}]
    /\ todo = [c \in Conn |-> {}]
    /\ job = [c \in Conn |-> None]
    /\ turn = [c \in Conn |-> None]
    /\ ever = [r \in Room |-> {}]
    /\ untold = [r \in Room |-> {}]

Idle(c) == step[c] \in {"off", "open", "closed"}
Goto(c, s) == step' = [step EXCEPT ![c] = s]
MayStart == Cardinality({c \in Conn : ~ Idle(c)}) < MaxBusy

\* Mutants of SessionsOf: user ids instead of channel names; everybody's
\* sessions; sessions of any age.
SessionUsers(u, state)   == {Owner[c] : c \in {d \in Conn :
                               Owner[d] = u /\ session[d] = state}}
SessionsOfAll(u, state)  == {c \in Conn : session[c] = state}
SessionsAnyAge(u, state) == {c \in Conn : Owner[c] = u /\ session[c] # "none"}

SessionsOf(u, state) == {c \in Conn : Owner[c] = u /\ session[c] = state}

-----------------------------------------------------------------------------
(***************************************************************************)
(* connect and disconnect.                                                 *)
(***************************************************************************)

\* The user is authenticated; channel_cleanup is next.
Connect(c) ==
    /\ step[c] = "off"
    /\ MayStart
    /\ Goto(c, "fetch")
    /\ UNCHANGED <<db, layer, session, locals>>

\* disconnect() is dispatched after the handler before it ended.
Disconnect(c) ==
    /\ step[c] = "open"
    /\ MayStart
    /\ Goto(c, "bye fetch")
    /\ UNCHANGED <<db, layer, session, locals>>

\* channel_cleanup: groups = await fetch_user_groups(user_id)
CleanupFetch(c) ==
    /\ \/ step[c] = "fetch" /\ Goto(c, "expired")
       \/ step[c] = "bye fetch" /\ Goto(c, "bye expired")
    /\ groups' = [groups EXCEPT ![c] = cache[Owner[c]]]
    /\ UNCHANGED <<db, layer, session, todo, job, turn>>

\* expired_sessions = await EventHandler.get_expired_sessions(user_id)
CleanupExpired(c) ==
    /\ \/ step[c] = "expired" /\ Goto(c, "discard")
       \/ step[c] = "bye expired" /\ Goto(c, "bye discard")
    /\ todo' = [todo EXCEPT ![c] =
           groups[c] \X SessionsOf(Owner[c], "expired")]
    /\ groups' = [groups EXCEPT ![c] = {}]
    /\ UNCHANGED <<db, layer, session, job, turn>>

\* await self.channel_layer.group_discard(group, channel_name)
CleanupDiscard(c) ==
    /\ step[c] \in {"discard", "bye discard"}
    /\ \E p \in todo[c] :
          /\ subs' = [subs EXCEPT ![p[1]] = @ \ {p[2]}]
          /\ todo' = [todo EXCEPT ![c] = @ \ {p}]
    /\ UNCHANGED <<db, cache, session, step, groups, job, turn>>

CleanupDone(c) ==
    /\ todo[c] = {}
    /\ \/ step[c] = "discard" /\ Goto(c, "setup")
       \/ step[c] = "bye discard" /\ Goto(c, "closed")
    /\ UNCHANGED <<db, layer, session, locals>>

\* channel_setup: groups = await fetch_user_groups(user_id).  The loop starts
\* at once when the own group is in the list.
SetupFetch(c) ==
    LET listed == cache[Owner[c]] IN
    /\ step[c] = "setup"
    /\ IF Owner[c] \in listed
       THEN /\ Goto(c, "restore")
            /\ todo' = [todo EXCEPT ![c] = listed \X {c}]
            /\ UNCHANGED groups
       ELSE /\ Goto(c, "store")
            /\ groups' = [groups EXCEPT ![c] = listed \cup {Owner[c]}]
            /\ UNCHANGED todo
    /\ UNCHANGED <<db, layer, session, job, turn>>

\* Mutants of SetupStore: the list is not cached; only the own group is.
SetupNoStore(c) ==
    /\ step[c] = "store"
    /\ todo' = [todo EXCEPT ![c] = groups[c] \X {c}]
    /\ groups' = [groups EXCEPT ![c] = {}]
    /\ Goto(c, "restore")
    /\ UNCHANGED <<db, layer, session, job, turn>>
SetupStoreOwn(c) ==
    /\ step[c] = "store"
    /\ cache' = [cache EXCEPT ![Owner[c]] = {Owner[c]}]
    /\ todo' = [todo EXCEPT ![c] = {<<Owner[c], c>>}]
    /\ groups' = [groups EXCEPT ![c] = {}]
    /\ Goto(c, "restore")
    /\ UNCHANGED <<db, subs, session, job, turn>>

\* await update_user_groups(user_id, groups): the list fetched one await ago,
\* with the own group, replaces whatever is there.
SetupStore(c) ==
    /\ step[c] = "store"
    /\ cache' = [cache EXCEPT ![Owner[c]] = groups[c]]
    /\ todo' = [todo EXCEPT ![c] = groups[c] \X {c}]
    /\ groups' = [groups EXCEPT ![c] = {}]
    /\ Goto(c, "restore")
    /\ UNCHANGED <<db, subs, session, job, turn>>

\* await self.channel_layer.group_add(group, self.channel_name)
Restore(c) ==
    /\ step[c] = "restore"
    /\ \E p \in todo[c] :
          /\ subs' = [subs EXCEPT ![p[1]] = @ \cup {p[2]}]
          /\ todo' = [todo EXCEPT ![c] = @ \ {p}]
    /\ UNCHANGED <<db, cache, session, step, groups, job, turn>>

\* The session row is created, the connection accepted.
Register(c) ==
    /\ step[c] = "restore"
    /\ todo[c] = {}
    /\ session' = [session EXCEPT ![c] = "active"]
    /\ Goto(c, "open")
    /\ UNCHANGED <<db, layer, locals>>

-----------------------------------------------------------------------------
(***************************************************************************)
(* Time and failure.                                                       *)
(***************************************************************************)

\* INACTIVITY_THRESHOLD seconds pass without a heartbeat.
Lapse(c) ==
    /\ session[c] = "active"
    /\ Timely => step[c] = "closed"
    /\ session' = [session EXCEPT ![c] = "expired"]
    /\ UNCHANGED <<db, layer, step, locals>>

\* session.heartbeat: last_seen = now, whatever it was.
Heartbeat(c) ==
    /\ step[c] = "open"
    /\ session' = [session EXCEPT ![c] = "active"]
    /\ UNCHANGED <<db, layer, step, locals>>

\* The worker process dies: no disconnect() runs, the handler is cut short.
\* Rows, cache and channel layer survive.
Crash(c) ==
    /\ Crashes
    /\ step[c] \notin {"off", "closed"}
    /\ Goto(c, "closed")
    /\ groups' = [groups EXCEPT ![c] = {}]
    /\ todo' = [todo EXCEPT ![c] = {}]
    /\ job' = [job EXCEPT ![c] = None]
    /\ turn' = [turn EXCEPT ![c] = None]
    /\ UNCHANGED <<db, layer, session>>

-----------------------------------------------------------------------------
(***************************************************************************)
(* The room handlers: the database first, then the fan-out over the users  *)
(* concerned.  Whether the user may do it was checked one await before, and *)
(* with Stale the room may have changed since.                             *)
(***************************************************************************)

\* The handler goes on to add (or discard) the channels of the users U.
FanOut(c, add, r, U) ==
    /\ untold' = [untold EXCEPT ![r] = @ \ U]
    /\ IF U = {}
       THEN UNCHANGED <<step, job>>
       ELSE /\ Goto(c, "read")
            /\ job' = [job EXCEPT ![c] = [add |-> add, room |-> r, users |-> U]]

\* The handler ends before its fan-out, which would have been for U.
NoFanOut(r, U) ==
    /\ untold' = [untold EXCEPT ![r] = @ \cup U]
    /\ UNCHANGED <<step, job>>

SetMembers(r, M) ==
    /\ members' = [members EXCEPT ![r] = M]
    /\ row' = [row EXCEPT ![r] = IF M = {} THEN "gone" ELSE "live"]
    /\ ever' = [ever EXCEPT ![r] = @ \cup M]

CreateRoom(c, r, S) ==
    /\ row[r] = "unused"
    /\ SetMembers(r, S \cup {Owner[c]})
    /\ FanOut(c, TRUE, r, S \cup {Owner[c]})

\* A rejected property ends the handler after the first save, which put the
\* creator in, or nobody (a direct chat).
CreateRejected(c, r, M) ==
    /\ row[r] = "unused"
    /\ M \subseteq {Owner[c]}
    /\ SetMembers(r, M)
    /\ NoFanOut(r, M)

\* S are the users who were not members when the check looked.
AddMembers(c, r, S) ==
    /\ row[r] = "live"
    /\ Stale \/ (Owner[c] \in members[r] /\ S \cap members[r] = {})
    /\ SetMembers(r, members[r] \cup S)
    /\ FanOut(c, TRUE, r, S)

JoinRoom(c, r) ==
    /\ row[r] = "live"
    /\ SetMembers(r, members[r] \cup {Owner[c]})
    /\ FanOut(c, TRUE, r, {Owner[c]})

\* S are the users to be removed who were members when the check looked.
RemoveMembers(c, r, S) ==
    /\ ~ members[r] \subseteq S
    /\ Stale \/ (Owner[c] \in members[r] /\ S \subseteq members[r])
    /\ SetMembers(r, members[r] \ S)
    /\ FanOut(c, FALSE, r, S)

\* Taking out everybody deletes the room under the helper, which then raises
\* at room.admins: the handler ends before its fan-out.
RemoveEverybody(c, r) ==
    /\ row[r] = "live"
    /\ Stale \/ Owner[c] \in members[r]
    /\ SetMembers(r, {})
    /\ NoFanOut(r, {})

LeaveRoom(c, r) ==
    /\ row[r] # "unused"
    /\ Stale \/ Owner[c] \in members[r]
    /\ SetMembers(r, members[r] \ {Owner[c]})
    /\ FanOut(c, FALSE, r, {Owner[c]})

DeleteRoom(c, r) ==
    /\ row[r] = "live"
    /\ Stale \/ Owner[c] \in members[r]
    /\ SetMembers(r, {})
    /\ FanOut(c, FALSE, r, members[r])

\* An update saves a room that was deleted after its check, and the receiver
\* puts the creator u in.
SaveDeletedRoom(r, u) ==
    /\ Stale
    /\ row[r] = "gone"
    /\ u \in ever[r]
    /\ SetMembers(r, {u})
    /\ NoFanOut(r, {u})

ChangeMembers(c) ==
    /\ step[c] = "open"
    /\ MayStart
    /\ \E r \in Room :
          \/ \E S \in SUBSET User : \/ CreateRoom(c, r, S)
                                    \/ CreateRejected(c, r, S)
                                    \/ AddMembers(c, r, S)
                                    \/ RemoveMembers(c, r, S)
          \/ JoinRoom(c, r)
          \/ RemoveEverybody(c, r)
          \/ LeaveRoom(c, r)
          \/ DeleteRoom(c, r)
          \/ \E u \in User : SaveDeletedRoom(r, u)
    /\ UNCHANGED <<layer, session, groups, todo, turn>>

\* add_channel_to_group, discard_channel_from_group:
\* active_sessions = await EventHandler.get_active_sessions(user_id)
FanRead(c) ==
    /\ step[c] = "read"
    /\ \E u \in job[c].users :
          /\ turn' = [turn EXCEPT ![c] = u]
          /\ todo' = [todo EXCEPT ![c] =
                 {job[c].room} \X SessionsOf(u, "active")]
    /\ Goto(c, "touch")
    /\ UNCHANGED <<db, layer, session, groups, job>>

\* Mutant of FanTouch: nothing is discarded.
FanTouchAdding(c) ==
    /\ step[c] = "touch"
    /\ \E p \in todo[c] :
          /\ subs' = [subs EXCEPT ![p[1]] = IF job[c].add THEN @ \cup {p[2]} ELSE @]
          /\ todo' = [todo EXCEPT ![c] = @ \ {p}]
    /\ UNCHANGED <<db, cache, session, step, groups, job, turn>>

\* await self.channel_layer.group_add (or group_discard)(group, channel_name)
FanTouch(c) ==
    /\ step[c] = "touch"
    /\ \E p \in todo[c] :
          /\ subs' = [subs EXCEPT ![p[1]] =
                 IF job[c].add THEN @ \cup {p[2]} ELSE @ \ {p[2]}]
          /\ todo' = [todo EXCEPT ![c] = @ \ {p}]
    /\ UNCHANGED <<db, cache, session, step, groups, job, turn>>

\* The cached list after the change.
Changed(c, list) ==
    IF job[c].add THEN list \cup {job[c].room} ELSE list \ {job[c].room}

\* Mutant of NextUser: the loop does not advance.
SameUser(c) ==
    /\ turn' = [turn EXCEPT ![c] = None]
    /\ Goto(c, "read")
    /\ UNCHANGED job

\* The loop goes on to the next user, or the handler ends.
NextUser(c) ==
    LET rest == job[c].users \ {turn[c]} IN
    /\ turn' = [turn EXCEPT ![c] = None]
    /\ job' = [job EXCEPT ![c] =
           IF rest = {} THEN None ELSE [@ EXCEPT !.users = rest]]
    /\ Goto(c, IF rest = {} THEN "open" ELSE "read")

\* Mutant of FanCommit: the list of the user who asked is changed.
FanCommitOwnKey(c) ==
    /\ OneWorker
    /\ step[c] = "touch"
    /\ todo[c] = {}
    /\ cache' = [cache EXCEPT ![Owner[c]] = Changed(c, @)]
    /\ NextUser(c)
    /\ UNCHANGED <<db, subs, session, groups, todo>>

\* await add_group_to_user_groups (or remove_group_from_user_groups)
FanCommit(c) ==
    /\ OneWorker
    /\ step[c] = "touch"
    /\ todo[c] = {}
    /\ cache' = [cache EXCEPT ![turn[c]] = Changed(c, @)]
    /\ NextUser(c)
    /\ UNCHANGED <<db, subs, session, groups, todo>>

\* The same helper among several workers: cache.get, then cache.set.
FanGet(c) ==
    /\ ~ OneWorker
    /\ step[c] = "touch"
    /\ todo[c] = {}
    /\ groups' = [groups EXCEPT ![c] = Changed(c, cache[turn[c]])]
    /\ Goto(c, "write")
    /\ UNCHANGED <<db, layer, session, todo, job, turn>>

FanSet(c) ==
    /\ step[c] = "write"
    /\ cache' = [cache EXCEPT ![turn[c]] = groups[c]]
    /\ groups' = [groups EXCEPT ![c] = {}]
    /\ NextUser(c)
    /\ UNCHANGED <<db, subs, session, todo>>

-----------------------------------------------------------------------------
Cleanup(c)   == CleanupFetch(c) \/ CleanupExpired(c) \/ CleanupDiscard(c)
                    \/ CleanupDone(c)
Setup(c)     == SetupFetch(c) \/ SetupStore(c) \/ Restore(c) \/ Register(c)
Fan(c)       == FanRead(c) \/ FanTouch(c) \/ FanCommit(c)
                    \/ FanGet(c) \/ FanSet(c)

\* The event loop resumes an awaiting handler sooner or later.
Resume(c)    == Cleanup(c) \/ Setup(c) \/ Fan(c)

Next ==
    \E c \in Conn :
        \/ Connect(c) \/ Disconnect(c)
        \/ Cleanup(c) \/ Setup(c)
        \/ ChangeMembers(c) \/ Fan(c)
        \/ Lapse(c) \/ Heartbeat(c) \/ Crash(c)

Spec     == Init /\ [][Next]_vars
FairSpec == Spec /\ \A c \in Conn : WF_vars(Resume(c))

-----------------------------------------------------------------------------
(***************************************************************************)
(* What holds whatever interleaves, lapses or crashes.                     *)
(***************************************************************************)

Connected == {"open", "read", "touch", "write"}

\* A group a user may hear: their own, or that of a room they were once in.
Entitled(u, g) == IF g \in Room THEN u \in ever[g] ELSE g = u

\* Nobody is subscribed to, or keeps a cached subscription for, a room they
\* never were a member of or another user's own group, although lists are
\* read, kept over awaits and written back (consumers.py:1197).
NoStranger ==
    /\ \A g \in Group : \A c \in subs[g] : Entitled(Owner[c], g)
    /\ \A u \in User : \A g \in cache[u] : Entitled(u, g)

\* The cached list of a connected user names the user's own group, for the
\* cleanup of later connections to find it (consumers.py:1199).
OwnGroupCached ==
    OneWorker => \A c \in Conn : step[c] \in Connected =>
                     Owner[c] \in cache[Owner[c]]

\* The own group of a connected user stays on the cached list.
OwnGroupStays ==
    \A c \in Conn : step[c] = "open" => Owner[c] \in cache[Owner[c]]

\* With heartbeats in time, an open connection is in its user's own group:
\* no cleanup by another device takes it out (consumers.py:1177).
OwnGroupJoined ==
    Timely => \A c \in Conn : step[c] \in Connected =>
                  c \in subs[Owner[c]]

-----------------------------------------------------------------------------
(***************************************************************************)
(* What holds when handlers do not overlap.                                *)
(***************************************************************************)
Quiet == \A c \in Conn : Idle(c)

\* No open connection is in the group of a room its user is not a member of
\* (consumers.py:1092).
NoLeak ==
    Quiet => \A c \in Conn, r \in Room :
        /\ step[c] = "open"
        /\ row[r] = "live"
        /\ c \in subs[r]
        => Owner[c] \in members[r]

\* Every open connection of a member is in the group of the room, but for the
\* creator of a room whose creation was rejected half way (serializers.py:294).
NoGap ==
    Quiet => \A c \in Conn, r \in Room :
        /\ step[c] = "open"
        /\ Owner[c] \in members[r] \ untold[r]
        => c \in subs[r]

\* The cached list names exactly the rooms of the user, with that exception
\* (consumers.py:1197).
CacheIsRight ==
    Quiet => \A u \in User, r \in Room :
        row[r] = "live" => (r \in cache[u] <=> u \in members[r] \ untold[r])

\* Every handler comes to its end.
HandlersEnd == \A c \in Conn : []<>Idle(c)
=============================================================================
