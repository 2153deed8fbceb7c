----------------------------- MODULE RoomStore -----------------------------
(***************************************************************************)
(* The rooms of the chat as the database keeps them, and what each handler *)
(* helper does to them: utils/handlers/helper_mixins.py for the room       *)
(* operations, permissions/helper_mixins.py for the checks before them,    *)
(* signals.py for what Django runs behind every m2m change, and the room   *)
(* serializer for creation.  Every operator below is one synchronous       *)
(* helper: a worker process runs it from its first query to its last with  *)
(* no other helper in between (database_sync_to_async is thread-sensitive).*)
(*                                                                         *)
(* A helper works on the room object that its permission check fetched.    *)
(* That object is the record q: who asks, for which room, and the members  *)
(* and the is_public flag as they were when the check read them.           *)
(*                                                                         *)
(* Spec is the abstract specification: the check and the helper are one    *)
(* step, so q is always fresh.  Module Rooms is the code as it is, with an *)
(* await between the two.                                                  *)
(***************************************************************************)
EXTENDS Naturals, FiniteSets

CONSTANTS
    User,         \* the accounts
    Room,         \* the UUIDs rooms may be given; none is used twice
    Kinds,        \* the kinds of room the clients create
    MaxMembers,   \* max_participants / max_subscribers
    Deletable,    \* the accounts that may be deleted
    None          \* no creator, or no request

RoomKind == {"direct", "group", "channel"}
Perm     == {"add_new", "remove", "send"}

ASSUME UserFinite       == IsFiniteSet(User)
ASSUME KindsAssumption  == Kinds \subseteq RoomKind
ASSUME MaxAssumption    == MaxMembers \in Nat \ {0}
ASSUME DeletableIsUser  == Deletable \subseteq User
ASSUME NoneAssumption   == None \notin User \cup RoomKind

VARIABLES
    users,      \* the accounts that exist
    kind,       \* kind[r]: the kind of room r, None while the id is unused
    live,       \* the rooms that have a row
    creator,    \* creator[r]: GroupChat.creator, Channel.creator
    members,    \* members[r]: participants or subscribers
    admins,     \* admins[r]: admins or moderators
    grants,     \* grants[r]: the object permissions, pairs <<perm, user>>
    public      \* public[r]: Channel.is_public

store == <<users, kind, live, creator, members, admins, grants, public>>

StoreTypeOK ==
    /\ users \subseteq User
    /\ kind \in [Room -> RoomKind \cup {None}]
    /\ live \subseteq Room
    /\ creator \in [Room -> User \cup {None}]
    /\ members \in [Room -> SUBSET User]
    /\ admins \in [Room -> SUBSET User]
    /\ grants \in [Room -> SUBSET (Perm \X User)]
    /\ public \in [Room -> BOOLEAN]

StoreInit ==
    /\ users = User
    /\ kind = [r \in Room |-> None]
    /\ live = {}
    /\ creator = [r \in Room |-> None]
    /\ members = [r \in Room |-> {}]
    /\ admins = [r \in Room |-> {}]
    /\ grants = [r \in Room |-> {}]
    /\ public = [r \in Room |-> FALSE]

-----------------------------------------------------------------------------
\* The permissions that come with the role of admin or moderator.
RolePerms(r) ==
    IF kind[r] = "channel" THEN Perm ELSE {"add_new", "remove"}

\* Mutants of Fits: only the new rows are counted; no foreign key is checked.
FitsCountingNew(r, new)   == r \in live /\ Cardinality(new) =< MaxMembers
FitsWithoutRoom(r, new) ==
    Cardinality(members[r]) + Cardinality(new \ members[r]) =< MaxMembers

\* The pre_add receiver counts the rows of now and refuses what would exceed
\* the limit; a row for a room that is gone breaks a foreign key.
Fits(r, new) ==
    /\ r \in live
    /\ Cardinality(members[r]) + Cardinality(new \ members[r]) =< MaxMembers

\* Mutant of Revoked: only admins lose their permissions.
RevokedFromAdmins(r, U) == {g \in grants[r] : g[2] \notin U \cap admins[r]}

\* The permissions of room r after those of the users U were revoked, as the
\* pre_remove receiver does for every user named, admin or not.
Revoked(r, U) == {g \in grants[r] : g[2] \notin U}

\* The row of r and its m2m rows go; the object permissions stay behind.
DropRoom(r) ==
    /\ live' = live \ {r}
    /\ members' = [members EXCEPT ![r] = {}]
    /\ admins' = [admins EXCEPT ![r] = {}]

\* Mutants of TakeOut: the role is forgotten; the empty room is kept.
TakeOutKeepingRole(r, U) ==
    IF members[r] \subseteq U
    THEN DropRoom(r)
    ELSE members' = [members EXCEPT ![r] = @ \ U] /\ UNCHANGED <<live, admins>>
TakeOutKeepingRoom(r, U) ==
    /\ members' = [members EXCEPT ![r] = @ \ U]
    /\ admins' = [admins EXCEPT ![r] = @ \ U]
    /\ UNCHANGED live

\* Members and admins in r lose the users U.  When nobody is left the
\* post_remove receiver deletes the room.
TakeOut(r, U) ==
    IF members[r] \subseteq U
    THEN DropRoom(r)
    ELSE /\ members' = [members EXCEPT ![r] = @ \ U]
         /\ admins' = [admins EXCEPT ![r] = @ \ U]
         /\ UNCHANGED live

-----------------------------------------------------------------------------
(***************************************************************************)
(* The permission checks.                                                  *)
(***************************************************************************)
RequestKind == {"add", "remove", "leave", "delete", "modify"}

Manages(u, r) == u = creator[r] \/ u \in admins[r]

Permitted(k, u, r) ==
    /\ u \in members[r]
    /\ \/ k = "add"    /\ (Manages(u, r) \/ <<"add_new", u>> \in grants[r])
                       /\ kind[r] # "direct"
       \/ k = "remove" /\ (Manages(u, r) \/ <<"remove", u>> \in grants[r])
                       /\ kind[r] # "direct"
       \/ k = "leave"  /\ kind[r] # "direct"
       \/ k = "delete" /\ (u = creator[r] \/ kind[r] = "direct")
       \/ k = "modify" /\ (Manages(u, r) \/ kind[r] = "direct")

Request == [kind : RequestKind, user : User, room : Room,
            members : SUBSET User, public : BOOLEAN]

\* Mutant of Fetched: the check hands over a list of rooms.
FetchedAsList(k, u, r) ==
    [kind |-> k, user |-> u, room |-> <<r>>, members |-> members[r],
     public |-> public[r]]

\* The room object the check hands over.  Members are prefetched, and so
\* remembered, by every check but those of leave and delete.
Fetched(k, u, r) ==
    [kind    |-> k,
     user    |-> u,
     room    |-> r,
     members |-> IF k \in {"leave", "delete"} THEN {} ELSE members[r],
     public  |-> public[r]]

-----------------------------------------------------------------------------
(***************************************************************************)
(* Creation.                                                               *)
(***************************************************************************)

\* The row is saved and, for a group or a channel, the post_save receiver
\* makes the creator its first member and admin, with every permission.
Saved(u, r, k, p, first) ==
    LET own == IF k = "direct" THEN {} ELSE {u} IN
    /\ live' = live \cup {r}
    /\ kind' = [kind EXCEPT ![r] = k]
    /\ creator' = [creator EXCEPT ![r] = IF k = "direct" THEN None ELSE u]
    /\ members' = [members EXCEPT ![r] = first]
    /\ admins' = [admins EXCEPT ![r] = own]
    /\ grants' = [grants EXCEPT ![r] =
           @ \cup (IF k = "channel" THEN Perm
                   ELSE {"add_new", "remove"}) \X own]
    /\ public' = [public EXCEPT ![r] = p /\ k = "channel"]
    /\ UNCHANGED users

\* Mutant of CreateDirect: nobody looks for an earlier chat of the two.
CreateDirectAgain(u, r, S) ==
    /\ Cardinality(S \cup {u}) = 2
    /\ Saved(u, r, "direct", FALSE, S \cup {u})

\* Refused unless exactly two users meet who have no direct chat yet.
CreateDirect(u, r, S) ==
    /\ Cardinality(S \cup {u}) = 2
    /\ \A d \in live : kind[d] = "direct" => ~ (S \cup {u} \subseteq members[d])
    /\ Saved(u, r, "direct", FALSE, S \cup {u})

\* Refused, and the room deleted again, beyond the member limit.
CreateShared(u, r, k, p, S) ==
    /\ k # "direct"
    /\ Cardinality(S \cup {u}) =< MaxMembers
    /\ Saved(u, r, k, p, S \cup {u})

\* The room property is validated after the row was saved and outside the try
\* block: an invalid one raises and leaves the room as the first save made it.
CreateRejectedByProperty(u, r, k, p) ==
    Saved(u, r, k, p, IF k = "direct" THEN {} ELSE {u})

CreateRoom(u) ==
    \E r \in Room, k \in Kinds, p \in BOOLEAN, S \in SUBSET users :
        /\ u \in users
        /\ kind[r] = None
        /\ \/ k = "direct" /\ CreateDirect(u, r, S)
           \/ CreateShared(u, r, k, p, S)
           \/ CreateRejectedByProperty(u, r, k, p)

\* room.join has no check of its own: one helper reads the room and adds.
JoinRoom(u, r) ==
    /\ u \in users
    /\ kind[r] = "channel"
    /\ public[r]
    /\ Fits(r, {u})
    /\ members' = [members EXCEPT ![r] = @ \cup {u}]
    /\ UNCHANGED <<users, kind, live, creator, admins, grants, public>>

-----------------------------------------------------------------------------
(***************************************************************************)
(* What the helpers do with the room object q that was checked.  T is the  *)
(* list of users the client sent.                                          *)
(***************************************************************************)

AddMembers(q, T) ==
    LET new == T \ q.members IN
    /\ members' = [members EXCEPT ![q.room] =
           IF Fits(q.room, new) THEN @ \cup new ELSE @]
    /\ UNCHANGED <<users, kind, live, creator, admins, grants, public>>

\* Mutant of RemoveMembers: the creator is not protected.
RemoveAnyMember(q, T) ==
    LET gone == T \cap q.members IN
    /\ IF gone = {}
       THEN UNCHANGED <<live, members, admins>>
       ELSE TakeOut(q.room, gone)
    /\ grants' = [grants EXCEPT ![q.room] = Revoked(q.room, gone)]
    /\ UNCHANGED <<users, kind, creator, public>>

\* Only the creator takes the creator out.
Removable(q, T) ==
    {u \in T \cap q.members : u # creator[q.room] \/ u = q.user}

\* When the room empties it is deleted under the helper, which then raises
\* before it revokes anything.
RemoveMembers(q, T) ==
    LET r    == q.room
        gone == Removable(q, T)
    IN
    /\ IF gone = {}
       THEN UNCHANGED <<live, members, admins>>
       ELSE TakeOut(r, gone)
    /\ grants' = [grants EXCEPT ![r] =
           IF members[r] \subseteq gone THEN @ ELSE Revoked(r, gone)]
    /\ UNCHANGED <<users, kind, creator, public>>

\* Here the role goes first, so the permissions are always revoked.
LeaveRoom(q) ==
    /\ TakeOut(q.room, {q.user})
    /\ grants' = [grants EXCEPT ![q.room] = Revoked(q.room, {q.user})]
    /\ UNCHANGED <<users, kind, creator, public>>

DeleteRoom(q) ==
    /\ DropRoom(q.room)
    /\ UNCHANGED <<users, kind, creator, grants, public>>

\* save() writes every column of the remembered row.
UpdateRoom(q, p) ==
    /\ q.room \in live
    /\ public' = [public EXCEPT ![q.room] = p /\ kind[q.room] = "channel"]
    /\ UNCHANGED <<users, kind, live, creator, members, admins, grants>>

\* save() of a row that is gone inserts it again, and the post_save receiver
\* takes it for a new room.  (It fails when the remembered last_message or the
\* creator is gone too.)
UpdateDeletedRoom(q, p) ==
    /\ q.room \notin live
    /\ kind[q.room] # "direct" => creator[q.room] \in users
    /\ Saved(creator[q.room], q.room, kind[q.room], p,
             IF kind[q.room] = "direct" THEN {} ELSE {creator[q.room]})

\* The users of a role or permission change: members, never the creator.
Affected(q, T) == (T \cap q.members) \ {creator[q.room]}

AddPermission(q, T, P) ==
    /\ grants' = [grants EXCEPT ![q.room] = @ \cup P \X Affected(q, T)]
    /\ UNCHANGED <<users, kind, live, creator, members, admins, public>>

RemovePermission(q, T, P) ==
    /\ grants' = [grants EXCEPT ![q.room] = @ \ P \X Affected(q, T)]
    /\ UNCHANGED <<users, kind, live, creator, members, admins, public>>

\* The pre_add receiver grants the role's permissions to who had not the role.
AddAdmin(q, T) ==
    LET r == q.room IN
    /\ r \in live
    /\ admins' = [admins EXCEPT ![r] = @ \cup Affected(q, T)]
    /\ grants' = [grants EXCEPT ![r] =
           @ \cup RolePerms(r) \X (Affected(q, T) \ admins[r])]
    /\ UNCHANGED <<users, kind, live, creator, members, public>>

RemoveAdmin(q, T) ==
    LET r == q.room IN
    /\ admins' = [admins EXCEPT ![r] = @ \ Affected(q, T)]
    /\ grants' = [grants EXCEPT ![r] = Revoked(r, Affected(q, T))]
    /\ UNCHANGED <<users, kind, live, creator, members, public>>

ModifyRoles(q) ==
    /\ kind[q.room] # "direct"
    /\ \E T \in SUBSET users :
          \/ \E P \in SUBSET RolePerms(q.room) :
                AddPermission(q, T, P) \/ RemovePermission(q, T, P)
          \/ AddAdmin(q, T)
          \/ RemoveAdmin(q, T)

\* An update leaves the flag out, and so rewrites the remembered one, or sets it.
ModifyRoom(q) ==
    \/ \E p \in {q.public, TRUE, FALSE} :
          UpdateRoom(q, p) \/ UpdateDeletedRoom(q, p)
    \/ ModifyRoles(q)
    \/ UNCHANGED store          \* the data sent is refused

Perform(q) ==
    \/ q.kind = "add"    /\ \E T \in SUBSET users : AddMembers(q, T)
    \/ q.kind = "remove" /\ \E T \in SUBSET users : RemoveMembers(q, T)
    \/ q.kind = "leave"  /\ LeaveRoom(q)
    \/ q.kind = "delete" /\ DeleteRoom(q)
    \/ q.kind = "modify" /\ ModifyRoom(q)

-----------------------------------------------------------------------------
\* Mutant of DeleteUser: no pre_delete receiver looks after direct chats.
DeleteUserOnly(u) ==
    LET lost == {r \in live : creator[r] = u}
        rest(f) == [r \in Room |-> IF r \in lost THEN {} ELSE f[r] \ {u}]
    IN
    /\ u \in Deletable \cap users
    /\ users' = users \ {u}
    /\ live' = live \ lost
    /\ members' = rest(members)
    /\ admins' = rest(admins)
    /\ grants' = [r \in Room |-> Revoked(r, {u})]
    /\ UNCHANGED <<kind, creator, public>>

(***************************************************************************)
(* An account is deleted (by the host project).  The pre_delete receiver   *)
(* deletes its direct chats, the foreign keys take the rooms it created    *)
(* and its m2m rows, and no m2m receiver runs.                             *)
(***************************************************************************)
DeleteUser(u) ==
    LET lost == {r \in live : \/ creator[r] = u
                              \/ kind[r] = "direct" /\ u \in members[r]}
        rest(f) == [r \in Room |-> IF r \in lost THEN {} ELSE f[r] \ {u}]
    IN
    /\ u \in Deletable \cap users
    /\ users' = users \ {u}
    /\ live' = live \ lost
    /\ members' = rest(members)
    /\ admins' = rest(admins)
    /\ grants' = [r \in Room |-> Revoked(r, {u})]
    /\ UNCHANGED <<kind, creator, public>>

-----------------------------------------------------------------------------
HandleRequest(u, r, k) ==
    /\ u \in users
    /\ r \in live
    /\ Permitted(k, u, r)
    /\ Perform(Fetched(k, u, r))

StoreNext ==
    \/ \E u \in User : CreateRoom(u)
    \/ \E u \in User : DeleteUser(u)
    \/ \E u \in User, r \in Room : JoinRoom(u, r)
    \/ \E u \in User, r \in Room, k \in RequestKind : HandleRequest(u, r, k)

StoreSpec == StoreInit /\ [][StoreNext]_store

-----------------------------------------------------------------------------
(***************************************************************************)
(* What must hold of the rows, one formula per rule of the code.           *)
(***************************************************************************)
IsDirect(r) == r \in live /\ kind[r] = "direct"
IsShared(r) == r \in live /\ kind[r] # "direct"

\* Two users never have two direct chats (enforce_two_participants,
\* signals.py:53), also when chats are deleted, saved again and created anew.
UniquePair ==
    \A d, e \in Room :
        /\ IsDirect(d) /\ IsDirect(e)
        /\ members[d] = members[e]
        /\ members[d] # {}
        => d = e

\* A direct chat has two participants, or it never got any: one or three are
\* out of reach for every operation and for the deletion of an account
\* (signals.py:38 and signals.py:66).
DirectSize ==
    \A d \in Room :
        IsDirect(d) => members[d] = {} \/ Cardinality(members[d]) = 2

\* A group or channel never grows beyond its limit (signals.py:123), although
\* the set of users to add is computed from a member list that may be stale.
Capacity ==
    \A r \in Room : IsShared(r) => Cardinality(members[r]) =< MaxMembers

\* A room without a row has no member and no admin rows: nothing is added to
\* a room that was deleted under the request (helper_mixins.py:524).
NoOrphanRows ==
    \A r \in Room \ live : members[r] = {} /\ admins[r] = {}

\* Admins and moderators are members of their room (helper_mixins.py:743).
AdminsAreMembers ==
    \A r \in live : admins[r] \subseteq members[r]

\* Nobody keeps an object permission on a room they are not a member of, where
\* it would wait for them to join again (signals.py:152).
HoldersAreMembers ==
    \A r \in live : \A g \in grants[r] : g[2] \in members[r]
=============================================================================
