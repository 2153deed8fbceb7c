---------------------------- MODULE Rooms_proofs ----------------------------
(***************************************************************************)
(* Proofs about RoomStore and Rooms.  First the helpers of RoomStore: each *)
(* one keeps the types and the safety invariant, whatever room object it   *)
(* is given.  Then what holds however the requests of any number of        *)
(* connections overlap, and that a single connection at a time makes the   *)
(* code behave like RoomStore.                                             *)
(***************************************************************************)
EXTENDS Rooms, FiniteSetTheorems, TLAPS

(***************************************************************************)
(* RoomStore: the rows.                                                    *)
(***************************************************************************)

\* What a request in progress still knows for certain: its room has a kind,
\* and the operations on members never reach a direct chat.
Suits(q) ==
    /\ kind[q.room] # None
    /\ q.kind \in {"add", "remove", "leave"} => kind[q.room] # "direct"

\* A room with a row has a kind, and a group or channel has a creator.
LiveHasKind ==
    \A r \in Room : /\ r \in live => kind[r] # None
                    /\ kind[r] \in {"group", "channel"} => creator[r] \in User

\* The safety invariant of the rows.
StoreInv == LiveHasKind /\ NoOrphanRows /\ UniquePair /\ DirectSize /\ Capacity

-----------------------------------------------------------------------------
(* Types. *)

LEMMA InitTypes == StoreInit => StoreTypeOK
BY DEF StoreInit, StoreTypeOK

\* The object a check hands over is a request.
LEMMA FetchedIsRequest ==
    ASSUME StoreTypeOK, NEW k \in RequestKind, NEW u \in User, NEW r \in Room
    PROVE  Fetched(k, u, r) \in Request
BY DEF StoreTypeOK, Fetched, Request

LEMMA SavedTypes ==
    ASSUME StoreTypeOK, NEW u \in User \cup {None}, NEW r \in Room,
           NEW k \in RoomKind, NEW p \in BOOLEAN, NEW first \in SUBSET User,
           k # "direct" => u \in User,
           Saved(u, r, k, p, first)
    PROVE  StoreTypeOK'
<1>1. users' = users /\ users' \subseteq User
  BY DEF StoreTypeOK, Saved
<1>2. kind' \in [Room -> RoomKind \cup {None}]
  BY DEF StoreTypeOK, Saved
<1>3. live' \subseteq Room
  BY DEF StoreTypeOK, Saved
<1>4. creator' \in [Room -> User \cup {None}]
  BY DEF StoreTypeOK, Saved
<1>5. members' \in [Room -> SUBSET User]
  BY DEF StoreTypeOK, Saved
<1>6. admins' \in [Room -> SUBSET User]
  BY DEF StoreTypeOK, Saved
<1>7. grants' \in [Room -> SUBSET (Perm \X User)]
  <2> DEFINE own   == IF k = "direct" THEN {} ELSE {u}
             perms == IF k = "channel" THEN Perm ELSE {"add_new", "remove"}
  <2>1. own \subseteq User
    OBVIOUS
  <2>2. perms \subseteq Perm
    BY DEF Perm
  <2>3. perms \X own \subseteq Perm \X User
    BY <2>1, <2>2
  <2>4. grants' = [grants EXCEPT ![r] = grants[r] \cup perms \X own]
    BY DEF Saved
  <2> HIDE DEF own, perms
  <2> QED
    BY <2>3, <2>4 DEF StoreTypeOK
<1>8. public' \in [Room -> BOOLEAN]
  BY DEF StoreTypeOK, Saved
<1> QED
  BY <1>1, <1>2, <1>3, <1>4, <1>5, <1>6, <1>7, <1>8 DEF StoreTypeOK

LEMMA TakeOutTypes ==
    ASSUME StoreTypeOK, NEW r \in Room, NEW U \in SUBSET User, TakeOut(r, U)
    PROVE  /\ live' \subseteq Room
           /\ members' \in [Room -> SUBSET User]
           /\ admins' \in [Room -> SUBSET User]
BY DEF StoreTypeOK, TakeOut, DropRoom

LEMMA RevokedTypes ==
    ASSUME StoreTypeOK, NEW r \in Room, NEW U
    PROVE  Revoked(r, U) \in SUBSET (Perm \X User)
BY DEF StoreTypeOK, Revoked

LEMMA RolePermsTypes == \A r : RolePerms(r) \subseteq Perm
BY DEF RolePerms, Perm

\* What a helper does keeps the types, for any request whatever.
LEMMA PerformTypes ==
    ASSUME StoreTypeOK, LiveHasKind, NEW q \in Request, kind[q.room] # None,
           Perform(q)
    PROVE  StoreTypeOK'
<1> DEFINE r == q.room
<1>0. /\ r \in Room
      /\ q.user \in User
      /\ q.members \subseteq User
      /\ q.public \in BOOLEAN
  BY DEF Request
<1>1. ASSUME NEW T \in SUBSET users, AddMembers(q, T)
      PROVE  StoreTypeOK'
  <2>1. T \ q.members \in SUBSET User
    BY DEF StoreTypeOK
  <2> QED
    BY <1>0, <1>1, <2>1 DEF StoreTypeOK, AddMembers
<1>2. ASSUME NEW T \in SUBSET users, RemoveMembers(q, T)
      PROVE  StoreTypeOK'
  <2> DEFINE gone == {u \in T \cap q.members : u # creator[r] \/ u = q.user}
  <2>1. gone \in SUBSET User
    BY <1>0
  <2>2. /\ live' \subseteq Room
        /\ members' \in [Room -> SUBSET User]
        /\ admins' \in [Room -> SUBSET User]
    <3>1. CASE gone = {}
      BY <1>2, <3>1 DEF RemoveMembers, Removable, StoreTypeOK
    <3>2. CASE gone # {}
      BY <1>0, <1>2, <2>1, <3>2, TakeOutTypes DEF RemoveMembers, Removable
    <3> QED
      BY <3>1, <3>2
  <2>3. grants' \in [Room -> SUBSET (Perm \X User)]
    <3>1. Revoked(r, gone) \in SUBSET (Perm \X User)
      BY <1>0, RevokedTypes
    <3>2. grants' = [grants EXCEPT ![r] =
              IF members[r] \subseteq gone THEN @ ELSE Revoked(r, gone)]
      BY <1>2 DEF RemoveMembers, Removable
    <3> HIDE DEF gone
    <3> QED
      BY <1>0, <3>1, <3>2 DEF StoreTypeOK
  <2> QED
    BY <1>2, <2>2, <2>3 DEF RemoveMembers, Removable, StoreTypeOK
<1>3. ASSUME LeaveRoom(q)
      PROVE  StoreTypeOK'
  <2>1. {q.user} \in SUBSET User
    BY <1>0
  <2>2. Revoked(r, {q.user}) \in SUBSET (Perm \X User)
    BY <1>0, RevokedTypes
  <2> QED
    BY <1>0, <1>3, <2>1, <2>2, TakeOutTypes DEF LeaveRoom, StoreTypeOK
<1>4. ASSUME DeleteRoom(q)
      PROVE  StoreTypeOK'
  BY <1>0, <1>4 DEF DeleteRoom, DropRoom, StoreTypeOK
<1>5. ASSUME ModifyRoom(q)
      PROVE  StoreTypeOK'
  <2>1. ASSUME NEW p \in {q.public, TRUE, FALSE}, UpdateRoom(q, p)
        PROVE  StoreTypeOK'
    BY <1>0, <2>1 DEF UpdateRoom, StoreTypeOK
  <2>2. ASSUME NEW p \in {q.public, TRUE, FALSE}, UpdateDeletedRoom(q, p)
        PROVE  StoreTypeOK'
    <3> DEFINE first == IF kind[r] = "direct" THEN {} ELSE {creator[r]}
    <3>1. kind[r] \in RoomKind
      BY <1>0 DEF StoreTypeOK
    <3>2. creator[r] \in User \cup {None}
      BY <1>0 DEF StoreTypeOK
    <3>3. kind[r] # "direct" => creator[r] \in User
      BY <1>0, <3>1 DEF LiveHasKind, RoomKind
    <3>4. first \in SUBSET User
      BY <3>3
    <3>5. p \in BOOLEAN
      BY <1>0
    <3>6. Saved(creator[r], r, kind[r], p, first)
      BY <2>2 DEF UpdateDeletedRoom
    <3> HIDE DEF first, r
    <3> QED
      BY <1>0, <3>1, <3>2, <3>3, <3>4, <3>5, <3>6, SavedTypes
  <2>3. ASSUME NEW T \in SUBSET users, NEW P \in SUBSET RolePerms(r),
               AddPermission(q, T, P) \/ RemovePermission(q, T, P)
        PROVE  StoreTypeOK'
    <3>1. P \X Affected(q, T) \subseteq Perm \X User
      BY <1>0, RolePermsTypes DEF Affected, StoreTypeOK
    <3> QED
      BY <1>0, <2>3, <3>1 DEF AddPermission, RemovePermission, StoreTypeOK
  <2>4. ASSUME NEW T \in SUBSET users, AddAdmin(q, T)
        PROVE  StoreTypeOK'
    <3>1. Affected(q, T) \subseteq User
      BY <1>0 DEF Affected
    <3>2. RolePerms(r) \X (Affected(q, T) \ admins[r]) \subseteq Perm \X User
      BY <3>1, RolePermsTypes
    <3> QED
      BY <1>0, <2>4, <3>1, <3>2 DEF AddAdmin, StoreTypeOK
  <2>5. ASSUME NEW T \in SUBSET users, RemoveAdmin(q, T)
        PROVE  StoreTypeOK'
    <3>1. Revoked(r, Affected(q, T)) \in SUBSET (Perm \X User)
      BY <1>0, RevokedTypes
    <3> QED
      BY <1>0, <2>5, <3>1 DEF RemoveAdmin, StoreTypeOK
  <2>6. ASSUME UNCHANGED store
        PROVE  StoreTypeOK'
    BY <2>6 DEF store, StoreTypeOK
  <2> QED
    BY <1>5, <2>1, <2>2, <2>3, <2>4, <2>5, <2>6 DEF ModifyRoom, ModifyRoles
<1> QED
  BY <1>1, <1>2, <1>3, <1>4, <1>5 DEF Perform

LEMMA CreateTypes ==
    ASSUME StoreTypeOK, NEW u \in User, CreateRoom(u)
    PROVE  StoreTypeOK'
<1>1. PICK r \in Room, k \in Kinds, p \in BOOLEAN, S \in SUBSET users :
          \/ k = "direct" /\ CreateDirect(u, r, S)
          \/ CreateShared(u, r, k, p, S)
          \/ CreateRejectedByProperty(u, r, k, p)
  BY DEF CreateRoom
<1>2. k \in RoomKind /\ S \cup {u} \in SUBSET User /\ "direct" \in RoomKind
  BY KindsAssumption DEF StoreTypeOK, RoomKind
<1>3. CASE k = "direct" /\ CreateDirect(u, r, S)
  <2>1. Saved(u, r, "direct", FALSE, S \cup {u})
    BY <1>3 DEF CreateDirect
  <2> QED
    BY <1>2, <2>1, SavedTypes
<1>4. CASE CreateShared(u, r, k, p, S)
  BY <1>2, <1>4, SavedTypes DEF CreateShared
<1>5. CASE CreateRejectedByProperty(u, r, k, p)
  <2> DEFINE first == IF k = "direct" THEN {} ELSE {u}
  <2>1. first \in SUBSET User /\ Saved(u, r, k, p, first)
    BY <1>5 DEF CreateRejectedByProperty
  <2> HIDE DEF first
  <2> QED
    BY <1>2, <2>1, SavedTypes
<1> QED
  BY <1>1, <1>3, <1>4, <1>5

LEMMA JoinTypes ==
    ASSUME StoreTypeOK, NEW u \in User, NEW r \in Room, JoinRoom(u, r)
    PROVE  StoreTypeOK'
BY DEF JoinRoom, StoreTypeOK

LEMMA DeleteUserTypes ==
    ASSUME StoreTypeOK, NEW u \in User, DeleteUser(u)
    PROVE  StoreTypeOK'
<1>1. grants' \in [Room -> SUBSET (Perm \X User)]
  BY RevokedTypes DEF DeleteUser
<1> QED
  BY <1>1 DEF DeleteUser, StoreTypeOK
-----------------------------------------------------------------------------
(* The safety invariant. *)

LEMMA InitInv == StoreInit => StoreInv
BY NoneAssumption
   DEF StoreInit, StoreInv, LiveHasKind, NoOrphanRows, UniquePair, DirectSize,
       Capacity, IsDirect, IsShared, RoomKind

\* The limit bounds a set of users from above also after some of them go.
LEMMA SubsetWithin ==
    ASSUME NEW A \in SUBSET User, NEW B \in SUBSET A,
           Cardinality(A) =< MaxMembers
    PROVE  Cardinality(B) =< MaxMembers
<1>1. IsFiniteSet(A)
  BY UserFinite, FS_Subset
<1> QED
  BY <1>1, FS_Subset, FS_CardinalityType, MaxAssumption

\* A step that only takes rows away, and never from a direct chat that stays.
LEMMA ShrinkInv ==
    ASSUME StoreTypeOK, StoreInv, StoreTypeOK',
           UNCHANGED <<kind, creator>>,
           live' \subseteq live,
           \A r \in Room : members'[r] \subseteq members[r],
           \A r \in live' : kind[r] = "direct" => members'[r] = members[r],
           NoOrphanRows'
    PROVE  StoreInv'
<1>1. LiveHasKind'
  BY DEF StoreInv, LiveHasKind
<1>2. UniquePair'
  BY DEF StoreInv, UniquePair, IsDirect
<1>3. DirectSize'
  BY DEF StoreInv, DirectSize, IsDirect
<1>4. Capacity'
  <2> SUFFICES ASSUME NEW r \in Room, IsShared(r)'
               PROVE  Cardinality(members'[r]) =< MaxMembers
    BY DEF Capacity
  <2>1. Cardinality(members[r]) =< MaxMembers
    BY DEF StoreInv, Capacity, IsShared
  <2> QED
    BY <2>1, SubsetWithin DEF StoreTypeOK
<1> QED
  BY <1>1, <1>2, <1>3, <1>4 DEF StoreInv

\* Nobody is added where the receiver's count says the room is full.
LEMMA GrowInv ==
    ASSUME StoreTypeOK, StoreInv, StoreTypeOK',
           UNCHANGED <<kind, creator, live, admins>>,
           NEW r \in Room, kind[r] # "direct",
           NEW new \in SUBSET User, Fits(r, new),
           members' = [members EXCEPT ![r] = @ \cup new]
    PROVE  StoreInv'
<1>1. LiveHasKind' /\ NoOrphanRows' /\ UniquePair' /\ DirectSize'
  BY DEF StoreTypeOK, StoreInv, LiveHasKind, NoOrphanRows, UniquePair,
         DirectSize, IsDirect, Fits
<1>2. Cardinality(members[r] \cup new) =< MaxMembers
  <2> DEFINE missing == new \ members[r]
  <2>1. IsFiniteSet(members[r]) /\ IsFiniteSet(missing)
    BY UserFinite, FS_Subset DEF StoreTypeOK
  <2>2. members[r] \cup new = members[r] \cup missing
    OBVIOUS
  <2>3. members[r] \cap missing = {}
    OBVIOUS
  <2> HIDE DEF missing
  <2>4. Cardinality(members[r] \cup missing) =
            Cardinality(members[r]) + Cardinality(missing) - Cardinality({})
    BY <2>1, <2>3, FS_Union
  <2>5. /\ Cardinality(members[r]) \in Nat /\ Cardinality(missing) \in Nat
        /\ Cardinality({}) = 0
    BY <2>1, FS_CardinalityType, FS_EmptySet
  <2>6. Cardinality(members[r]) + Cardinality(missing) =< MaxMembers
    BY DEF Fits, missing
  <2>7. Cardinality(members[r] \cup missing) =
            Cardinality(members[r]) + Cardinality(missing)
    BY <2>4, <2>5
  <2> QED
    BY <2>2, <2>6, <2>7
<1>3. Capacity'
  BY <1>2 DEF StoreTypeOK, StoreInv, Capacity, IsShared
<1> QED
  BY <1>1, <1>3 DEF StoreInv

\* A room is saved with members that respect the rules of its kind.
LEMMA SavedInv ==
    ASSUME StoreTypeOK, StoreInv, StoreTypeOK',
           NEW u, NEW r \in Room \ live, NEW k \in RoomKind, NEW p, NEW first,
           k # "direct" => u \in User /\ Cardinality(first) =< MaxMembers,
           k = "direct" =>
               \/ first = {}
               \/ /\ Cardinality(first) = 2
                  /\ \A d \in live : kind[d] = "direct" =>
                                         ~ (first \subseteq members[d]),
           Saved(u, r, k, p, first)
    PROVE  StoreInv'
<1>1. /\ live' = live \cup {r}
      /\ kind' = [kind EXCEPT ![r] = k]
      /\ creator' = [creator EXCEPT ![r] = IF k = "direct" THEN None ELSE u]
      /\ members' = [members EXCEPT ![r] = first]
      /\ admins' = [admins EXCEPT ![r] = IF k = "direct" THEN {} ELSE {u}]
  BY DEF Saved
<1>2. k # None
  BY NoneAssumption
<1>3. LiveHasKind'
  BY <1>1, <1>2 DEF StoreTypeOK, StoreInv, LiveHasKind
<1>4. NoOrphanRows'
  BY <1>1 DEF StoreTypeOK, StoreInv, NoOrphanRows
<1>5. UniquePair'
  <2> SUFFICES ASSUME NEW d \in Room, NEW e \in Room,
                      IsDirect(d)', IsDirect(e)',
                      members'[d] = members'[e], members'[d] # {},
                      d # e
               PROVE  FALSE
    BY DEF UniquePair
  <2>1. CASE d # r /\ e # r
    BY <1>1, <2>1 DEF StoreTypeOK, StoreInv, UniquePair, IsDirect
  <2>2. CASE d = r
    BY <1>1, <2>2 DEF StoreTypeOK, IsDirect
  <2>3. CASE e = r
    BY <1>1, <2>3 DEF StoreTypeOK, IsDirect
  <2> QED
    BY <2>1, <2>2, <2>3
<1>6. DirectSize'
  BY <1>1 DEF StoreTypeOK, StoreInv, DirectSize, IsDirect
<1>7. Capacity'
  BY <1>1 DEF StoreTypeOK, StoreInv, Capacity, IsShared
<1> QED
  BY <1>3, <1>4, <1>5, <1>6, <1>7 DEF StoreInv
\* TakeOut only takes rows away, and leaves no rows behind.
LEMMA TakeOutShrinks ==
    ASSUME StoreTypeOK, NoOrphanRows, NEW r \in Room, NEW U \in SUBSET User,
           kind' = kind, kind[r] # "direct", TakeOut(r, U)
    PROVE  /\ live' \subseteq live
           /\ \A d \in Room : members'[d] \subseteq members[d]
           /\ \A d \in live' : kind[d] = "direct" => members'[d] = members[d]
           /\ NoOrphanRows'
BY DEF StoreTypeOK, NoOrphanRows, TakeOut, DropRoom

\* Every helper keeps the invariant, however stale the room object is.
LEMMA PerformInv ==
    ASSUME StoreTypeOK, StoreInv, NEW q \in Request, Suits(q), Perform(q)
    PROVE  StoreInv'
<1> DEFINE r == q.room
<1>0. /\ r \in Room
      /\ q.user \in User
      /\ q.members \subseteq User
      /\ q.public \in BOOLEAN
  BY DEF Request
<1>t. StoreTypeOK'
  BY PerformTypes DEF StoreInv, Suits
<1>1. ASSUME q.kind = "add", NEW T \in SUBSET users, AddMembers(q, T)
      PROVE  StoreInv'
  <2> DEFINE new == T \ q.members
  <2>1. new \in SUBSET User /\ kind[r] # "direct"
    BY <1>1 DEF StoreTypeOK, Suits
  <2>2. UNCHANGED <<kind, creator, live, admins>>
    BY <1>1 DEF AddMembers
  <2>3. CASE Fits(r, new)
    <3>1. members' = [members EXCEPT ![r] = @ \cup new]
      BY <1>1, <2>3 DEF AddMembers
    <3> HIDE DEF new, r
    <3> QED
      BY <1>0, <1>t, <2>1, <2>2, <2>3, <3>1, GrowInv
  <2>4. CASE ~ Fits(r, new)
    <3>1. members' = members
      BY <1>0, <1>1, <2>4 DEF AddMembers, StoreTypeOK
    <3> QED
      BY <1>t, <2>2, <3>1, ShrinkInv DEF StoreInv, NoOrphanRows
  <2> QED
    BY <2>3, <2>4
<1>2. ASSUME q.kind = "remove", NEW T \in SUBSET users, RemoveMembers(q, T)
      PROVE  StoreInv'
  <2> DEFINE gone == {u \in T \cap q.members : u # creator[r] \/ u = q.user}
  <2>1. gone \in SUBSET User /\ kind[r] # "direct"
    BY <1>0, <1>2 DEF Suits
  <2>2. UNCHANGED <<kind, creator>>
    BY <1>2 DEF RemoveMembers, Removable
  <2>3. CASE gone = {}
    BY <1>2, <1>t, <2>2, <2>3, ShrinkInv DEF RemoveMembers, Removable, StoreInv, NoOrphanRows
  <2>4. CASE gone # {}
    <3>1. TakeOut(r, gone)
      BY <1>2, <2>4 DEF RemoveMembers, Removable
    <3> HIDE DEF gone, r
    <3> QED
      BY <1>0, <1>t, <2>1, <2>2, <3>1, TakeOutShrinks, ShrinkInv DEF StoreInv
  <2> QED
    BY <2>3, <2>4
<1>3. ASSUME q.kind = "leave", LeaveRoom(q)
      PROVE  StoreInv'
  <2>1. /\ TakeOut(r, {q.user})
        /\ UNCHANGED <<kind, creator>>
        /\ kind[r] # "direct"
    BY <1>3 DEF LeaveRoom, Suits
  <2>2. {q.user} \in SUBSET User
    BY <1>0
  <2> HIDE DEF r
  <2> QED
    BY <1>0, <1>t, <2>1, <2>2, TakeOutShrinks, ShrinkInv DEF StoreInv
<1>4. ASSUME DeleteRoom(q)
      PROVE  StoreInv'
  <2>1. /\ live' \subseteq live
        /\ \A d \in Room : members'[d] \subseteq members[d]
        /\ \A d \in live' : kind[d] = "direct" => members'[d] = members[d]
        /\ NoOrphanRows'
        /\ UNCHANGED <<kind, creator>>
    BY <1>0, <1>4
       DEF DeleteRoom, DropRoom, StoreTypeOK, StoreInv, NoOrphanRows
  <2> QED
    BY <1>t, <2>1, ShrinkInv
<1>5. ASSUME q.kind = "modify", ModifyRoom(q)
      PROVE  StoreInv'
  <2>1. ASSUME NEW p \in {q.public, TRUE, FALSE}, UpdateRoom(q, p)
        PROVE  StoreInv'
    BY <1>t, <2>1, ShrinkInv DEF UpdateRoom, StoreInv, NoOrphanRows
  <2>2. ASSUME NEW p \in {q.public, TRUE, FALSE}, UpdateDeletedRoom(q, p)
        PROVE  StoreInv'
    <3> DEFINE first == IF kind[r] = "direct" THEN {} ELSE {creator[r]}
    <3>1. r \in Room \ live /\ kind[r] \in RoomKind
      BY <1>0, <2>2 DEF UpdateDeletedRoom, StoreTypeOK, Suits
    <3>2. kind[r] # "direct" => creator[r] \in User
      BY <3>1 DEF StoreInv, LiveHasKind, RoomKind
    <3>3. kind[r] # "direct" => Cardinality(first) =< MaxMembers
      BY FS_Singleton, MaxAssumption
    <3>4. kind[r] = "direct" => first = {}
      OBVIOUS
    <3>5. Saved(creator[r], r, kind[r], p, first)
      BY <2>2 DEF UpdateDeletedRoom
    <3> HIDE DEF first, r
    <3> QED
      BY <1>t, <3>1, <3>2, <3>3, <3>4, <3>5, SavedInv
  <2>3. ASSUME NEW T \in SUBSET users, NEW P \in SUBSET RolePerms(r),
               AddPermission(q, T, P) \/ RemovePermission(q, T, P)
        PROVE  StoreInv'
    BY <1>t, <2>3, ShrinkInv
       DEF AddPermission, RemovePermission, StoreInv, NoOrphanRows
  <2>4. ASSUME NEW T \in SUBSET users, AddAdmin(q, T)
        PROVE  StoreInv'
    <3>1. NoOrphanRows' /\ UNCHANGED <<kind, creator, live, members>>
      BY <1>0, <2>4 DEF AddAdmin, StoreTypeOK, StoreInv, NoOrphanRows
    <3> QED
      BY <1>t, <3>1, ShrinkInv
  <2>5. ASSUME NEW T \in SUBSET users, RemoveAdmin(q, T)
        PROVE  StoreInv'
    <3>1. NoOrphanRows' /\ UNCHANGED <<kind, creator, live, members>>
      BY <1>0, <2>5 DEF RemoveAdmin, StoreTypeOK, StoreInv, NoOrphanRows
    <3> QED
      BY <1>t, <3>1, ShrinkInv
  <2>6. ASSUME UNCHANGED store
        PROVE  StoreInv'
    BY <1>t, <2>6, ShrinkInv DEF store, StoreInv, NoOrphanRows
  <2> QED
    BY <1>5, <2>1, <2>2, <2>3, <2>4, <2>5, <2>6 DEF ModifyRoom, ModifyRoles
<1> QED
  BY <1>1, <1>2, <1>3, <1>4, <1>5 DEF Perform

LEMMA CreateInv ==
    ASSUME StoreTypeOK, StoreInv, NEW u \in User, CreateRoom(u)
    PROVE  StoreInv'
<1>1. PICK r \in Room, k \in Kinds, p \in BOOLEAN, S \in SUBSET users :
          /\ kind[r] = None
          /\ \/ k = "direct" /\ CreateDirect(u, r, S)
             \/ CreateShared(u, r, k, p, S)
             \/ CreateRejectedByProperty(u, r, k, p)
  BY DEF CreateRoom
<1>2. k \in RoomKind /\ "direct" \in RoomKind
  BY KindsAssumption DEF RoomKind
<1>3. r \in Room \ live
  BY <1>1 DEF StoreInv, LiveHasKind
<1>t. StoreTypeOK'
  BY CreateTypes
<1>4. CASE k = "direct" /\ CreateDirect(u, r, S)
  BY <1>2, <1>3, <1>4, <1>t, SavedInv DEF CreateDirect
<1>5. CASE CreateShared(u, r, k, p, S)
  BY <1>2, <1>3, <1>5, <1>t, SavedInv DEF CreateShared
<1>6. CASE CreateRejectedByProperty(u, r, k, p)
  <2> DEFINE first == IF k = "direct" THEN {} ELSE {u}
  <2>1. Saved(u, r, k, p, first)
    BY <1>6 DEF CreateRejectedByProperty
  <2>2. k # "direct" => Cardinality(first) =< MaxMembers
    BY FS_Singleton, MaxAssumption
  <2>3. k = "direct" => first = {}
    OBVIOUS
  <2> HIDE DEF first
  <2> QED
    BY <1>2, <1>3, <1>t, <2>1, <2>2, <2>3, SavedInv
<1> QED
  BY <1>1, <1>4, <1>5, <1>6

LEMMA JoinInv ==
    ASSUME StoreTypeOK, StoreInv, NEW u \in User, NEW r \in Room, JoinRoom(u, r)
    PROVE  StoreInv'
<1>1. /\ UNCHANGED <<kind, creator, live, admins>>
      /\ kind[r] # "direct"
      /\ Fits(r, {u})
      /\ members' = [members EXCEPT ![r] = @ \cup {u}]
  BY DEF JoinRoom
<1>2. StoreTypeOK' /\ {u} \in SUBSET User
  BY JoinTypes
<1> QED
  BY <1>1, <1>2, GrowInv

LEMMA DeleteUserInv ==
    ASSUME StoreTypeOK, StoreInv, NEW u \in User, DeleteUser(u)
    PROVE  StoreInv'
<1>1. /\ UNCHANGED <<kind, creator>>
      /\ live' \subseteq live
      /\ \A r \in Room : members'[r] \subseteq members[r]
      /\ \A r \in live' : kind[r] = "direct" => members'[r] = members[r]
      /\ NoOrphanRows'
  BY DEF DeleteUser, StoreTypeOK, StoreInv, NoOrphanRows
<1> QED
  BY <1>1, DeleteUserTypes, ShrinkInv
-----------------------------------------------------------------------------
(* The abstract specification, where no room object is ever stale. *)

\* The checks keep the operations on members away from direct chats.
LEMMA PermittedSuits ==
    ASSUME StoreInv, NEW k \in RequestKind, NEW u \in User, NEW r \in live,
           r \in Room, Permitted(k, u, r)
    PROVE  Suits(Fetched(k, u, r))
BY DEF StoreInv, LiveHasKind, Permitted, Suits, Fetched, RequestKind

\* One step of the abstract specification keeps types and invariant.
LEMMA StoreStep ==
    ASSUME StoreTypeOK, StoreInv, [StoreNext]_store
    PROVE  StoreTypeOK' /\ StoreInv'
<1>1. ASSUME NEW u \in User, CreateRoom(u)
      PROVE  StoreTypeOK' /\ StoreInv'
  BY <1>1, CreateTypes, CreateInv
<1>2. ASSUME NEW u \in User, DeleteUser(u)
      PROVE  StoreTypeOK' /\ StoreInv'
  BY <1>2, DeleteUserTypes, DeleteUserInv
<1>3. ASSUME NEW u \in User, NEW r \in Room, JoinRoom(u, r)
      PROVE  StoreTypeOK' /\ StoreInv'
  BY <1>3, JoinTypes, JoinInv
<1>4. ASSUME NEW u \in User, NEW r \in Room, NEW k \in RequestKind,
             HandleRequest(u, r, k)
      PROVE  StoreTypeOK' /\ StoreInv'
  <2>1. Fetched(k, u, r) \in Request
    BY FetchedIsRequest
  <2>2. Suits(Fetched(k, u, r)) /\ Perform(Fetched(k, u, r))
    BY <1>4, PermittedSuits DEF HandleRequest
  <2> QED
    BY <2>1, <2>2, PerformTypes, PerformInv DEF StoreInv, Suits
<1>5. CASE UNCHANGED store
  <2>1. StoreTypeOK'
    BY <1>5 DEF store, StoreTypeOK
  <2> QED
    BY <1>5, <2>1, ShrinkInv DEF store, StoreInv, NoOrphanRows
<1> QED
  BY <1>1, <1>2, <1>3, <1>4, <1>5 DEF StoreNext

\* The rows are well typed and safe in every state of the abstract
\* specification.
THEOREM StoreSafety == StoreSpec => [](StoreTypeOK /\ StoreInv)
<1>1. StoreInit => StoreTypeOK /\ StoreInv
  BY InitTypes, InitInv
<1>2. StoreTypeOK /\ StoreInv /\ [StoreNext]_store => StoreTypeOK' /\ StoreInv'
  BY StoreStep
<1> QED
  BY <1>1, <1>2, PTL DEF StoreSpec

\* Roles and permissions follow membership; no id carries any before its use.
Roles ==
    /\ AdminsAreMembers
    /\ HoldersAreMembers
    /\ \A r \in Room : kind[r] = None => grants[r] = {}

\* A helper keeps them when its room has a row and its member list is current.
LEMMA PerformRoles ==
    ASSUME StoreTypeOK, StoreInv, Roles, NEW q \in Request,
           q.room \in live, q.members \subseteq members[q.room],
           Perform(q)
    PROVE  Roles'
<1> DEFINE r == q.room
<1>0. /\ r \in Room /\ kind[r] # None
      /\ kind' = kind
  <2>1. r \in Room /\ kind[r] # None
    BY DEF StoreInv, LiveHasKind, StoreTypeOK
  <2>2. kind' = kind
    BY DEF Perform, AddMembers, RemoveMembers, Removable, LeaveRoom, DeleteRoom,
           ModifyRoom, ModifyRoles, UpdateRoom, UpdateDeletedRoom,
           AddPermission, RemovePermission, AddAdmin, RemoveAdmin, store
  <2> QED
    BY <2>1, <2>2
\* It is enough to look at the room of the request.
<1>1. ASSUME live' \subseteq live,
             \A d \in Room \ {r} : /\ members'[d] = members[d]
                                   /\ admins'[d] = admins[d]
                                   /\ grants'[d] = grants[d],
             r \in live' => /\ admins'[r] \subseteq members'[r]
                            /\ \A g \in grants'[r] : g[2] \in members'[r]
      PROVE  Roles'
  BY <1>0, <1>1
     DEF Roles, AdminsAreMembers, HoldersAreMembers, StoreTypeOK
<1>r. /\ admins[r] \subseteq members[r]
      /\ \A g \in grants[r] : g[2] \in members[r]
  BY DEF Roles, AdminsAreMembers, HoldersAreMembers
<1>2. ASSUME NEW T \in SUBSET users, AddMembers(q, T)
      PROVE  Roles'
  BY <1>0, <1>1, <1>2, <1>r DEF AddMembers, StoreTypeOK
<1>3. ASSUME NEW T \in SUBSET users, RemoveMembers(q, T)
      PROVE  Roles'
  <2> DEFINE gone == {u \in T \cap q.members : u # creator[r] \/ u = q.user}
  <2>1. CASE gone = {}
    <3>1. grants' = [grants EXCEPT ![r] =
              IF members[r] \subseteq gone THEN @ ELSE Revoked(r, gone)]
      BY <1>3 DEF RemoveMembers, Removable
    <3>2. grants'[r] \subseteq grants[r]
      BY <1>0, <3>1 DEF Revoked, StoreTypeOK
    <3> QED
      BY <1>0, <1>1, <1>3, <1>r, <2>1, <3>1, <3>2 DEF RemoveMembers, Removable, StoreTypeOK
  <2>2. CASE gone # {}
    <3>1. /\ TakeOut(r, gone)
          /\ grants' = [grants EXCEPT ![r] =
                 IF members[r] \subseteq gone THEN @ ELSE Revoked(r, gone)]
      BY <1>3, <2>2 DEF RemoveMembers, Removable
    <3> HIDE DEF gone
    <3> QED
      BY <1>0, <1>1, <1>r, <3>1 DEF TakeOut, DropRoom, Revoked, StoreTypeOK
  <2> QED
    BY <2>1, <2>2
<1>4. ASSUME LeaveRoom(q)
      PROVE  Roles'
  BY <1>0, <1>1, <1>4, <1>r
     DEF LeaveRoom, TakeOut, DropRoom, Revoked, StoreTypeOK
<1>5. ASSUME DeleteRoom(q)
      PROVE  Roles'
  BY <1>0, <1>1, <1>5 DEF DeleteRoom, DropRoom, StoreTypeOK
<1>6. ASSUME ModifyRoom(q)
      PROVE  Roles'
  <2>1. ASSUME NEW p \in {q.public, TRUE, FALSE},
               UpdateRoom(q, p) \/ UpdateDeletedRoom(q, p)
        PROVE  Roles'
    BY <1>0, <1>1, <1>r, <2>1 DEF UpdateRoom, UpdateDeletedRoom
  <2>2. ASSUME NEW T \in SUBSET users, NEW P \in SUBSET RolePerms(r),
               AddPermission(q, T, P)
        PROVE  Roles'
    <3>1. \A g \in P \X Affected(q, T) : g[2] \in members[r]
      BY DEF Affected
    <3> QED
      BY <1>0, <1>1, <1>r, <2>2, <3>1 DEF AddPermission, StoreTypeOK
  <2>3. ASSUME NEW T \in SUBSET users, NEW P \in SUBSET RolePerms(r),
               RemovePermission(q, T, P)
        PROVE  Roles'
    BY <1>0, <1>1, <1>r, <2>3 DEF RemovePermission, StoreTypeOK
  <2>4. ASSUME NEW T \in SUBSET users, AddAdmin(q, T)
        PROVE  Roles'
    <3>1. /\ Affected(q, T) \subseteq members[r]
          /\ \A g \in RolePerms(r) \X (Affected(q, T) \ admins[r]) :
                g[2] \in members[r]
      BY DEF Affected
    <3> QED
      BY <1>0, <1>1, <1>r, <2>4, <3>1 DEF AddAdmin, StoreTypeOK
  <2>5. ASSUME NEW T \in SUBSET users, RemoveAdmin(q, T)
        PROVE  Roles'
    BY <1>0, <1>1, <1>r, <2>5 DEF RemoveAdmin, Revoked, StoreTypeOK
  <2>6. ASSUME UNCHANGED store
        PROVE  Roles'
    BY <1>1, <1>r, <2>6 DEF store
  <2> QED
    BY <1>6, <2>1, <2>2, <2>3, <2>4, <2>5, <2>6 DEF ModifyRoom, ModifyRoles
<1> QED
  BY <1>2, <1>3, <1>4, <1>5, <1>6 DEF Perform

LEMMA StoreRolesStep ==
    ASSUME StoreTypeOK, StoreInv, Roles, [StoreNext]_store
    PROVE  Roles'
<1>1. ASSUME NEW u \in User, CreateRoom(u)
      PROVE  Roles'
  <2>1. PICK r \in Room, k \in Kinds, p \in BOOLEAN, S \in SUBSET users :
            /\ kind[r] = None
            /\ \/ k = "direct" /\ CreateDirect(u, r, S)
               \/ CreateShared(u, r, k, p, S)
               \/ CreateRejectedByProperty(u, r, k, p)
    BY <1>1 DEF CreateRoom
  <2>2. ASSUME NEW c \in RoomKind, NEW b, NEW first,
               c # "direct" => u \in first, Saved(u, r, c, b, first)
        PROVE  Roles'
    <3> DEFINE own   == IF c = "direct" THEN {} ELSE {u}
               perms == IF c = "channel" THEN Perm ELSE {"add_new", "remove"}
    <3>1. /\ live' = live \cup {r}
          /\ kind' = [kind EXCEPT ![r] = c]
          /\ members' = [members EXCEPT ![r] = first]
          /\ admins' = [admins EXCEPT ![r] = own]
          /\ grants' = [grants EXCEPT ![r] = grants[r] \cup perms \X own]
      BY <2>2 DEF Saved
    <3>2. own \subseteq first /\ \A g \in perms \X own : g[2] \in first
      BY <2>2
    <3>3. grants[r] = {} /\ c # None
      BY <2>1, NoneAssumption DEF Roles
    <3> HIDE DEF own, perms
    <3> QED
      BY <3>1, <3>2, <3>3
         DEF Roles, AdminsAreMembers, HoldersAreMembers, StoreTypeOK
  <2>3. k \in RoomKind /\ "direct" \in RoomKind
    BY KindsAssumption DEF RoomKind
  <2>4. CASE k = "direct" /\ CreateDirect(u, r, S)
    BY <2>2, <2>3, <2>4 DEF CreateDirect
  <2>5. CASE CreateShared(u, r, k, p, S)
    BY <2>2, <2>3, <2>5 DEF CreateShared
  <2>6. CASE CreateRejectedByProperty(u, r, k, p)
    BY <2>2, <2>3, <2>6 DEF CreateRejectedByProperty
  <2> QED
    BY <2>1, <2>4, <2>5, <2>6
<1>2. ASSUME NEW u \in User, DeleteUser(u)
      PROVE  Roles'
  BY <1>2 DEF DeleteUser, Revoked, Roles, AdminsAreMembers, HoldersAreMembers,
              StoreTypeOK
<1>3. ASSUME NEW u \in User, NEW r \in Room, JoinRoom(u, r)
      PROVE  Roles'
  BY <1>3 DEF JoinRoom, Roles, AdminsAreMembers, HoldersAreMembers, StoreTypeOK
<1>4. ASSUME NEW u \in User, NEW r \in Room, NEW k \in RequestKind,
             HandleRequest(u, r, k)
      PROVE  Roles'
  <2>1. Fetched(k, u, r) \in Request
    BY FetchedIsRequest
  <2>2. /\ Fetched(k, u, r).room \in live
        /\ Fetched(k, u, r).members \subseteq members[r]
        /\ Fetched(k, u, r).room = r
        /\ Perform(Fetched(k, u, r))
    BY <1>4 DEF HandleRequest, Fetched
  <2> QED
    BY <2>1, <2>2, PerformRoles
<1>5. CASE UNCHANGED store
  BY <1>5 DEF store, Roles, AdminsAreMembers, HoldersAreMembers
<1> QED
  BY <1>1, <1>2, <1>3, <1>4, <1>5 DEF StoreNext

\* As long as no room object is stale, admins and the holders of permissions
\* are members of their room.
THEOREM StoreRoles == StoreSpec => [](AdminsAreMembers /\ HoldersAreMembers)
<1>1. StoreInit => Roles
  BY DEF StoreInit, Roles, AdminsAreMembers, HoldersAreMembers
<1>2. StoreTypeOK /\ StoreInv /\ Roles /\ [StoreNext]_store => Roles'
  BY StoreRolesStep
<1>3. Roles => AdminsAreMembers /\ HoldersAreMembers
  BY DEF Roles
<1> QED
  BY <1>1, <1>2, <1>3, StoreSafety, PTL DEF StoreSpec

-----------------------------------------------------------------------------
(***************************************************************************)
(* Rooms: requests in progress.                                            *)
(***************************************************************************)

\* The inductive invariant: the rows are safe, and what is in progress will
\* not carry an operation on members into a direct chat.
IInv ==
    /\ TypeOK
    /\ StoreInv
    /\ \A h \in Handler : request[h] # None => Suits(request[h])

\* The kind of a room never changes once its id is used.
LEMMA KindIsKept ==
    ASSUME StoreTypeOK, NEW q \in Request, kind[q.room] # None, Perform(q)
    PROVE  kind' = kind
<1>1. q.room \in Room
  BY DEF Request
<1> QED
  BY <1>1 DEF Perform, AddMembers, RemoveMembers, Removable, LeaveRoom, DeleteRoom,
       ModifyRoom, ModifyRoles, UpdateRoom, UpdateDeletedRoom, Saved,
       AddPermission, RemovePermission, AddAdmin, RemoveAdmin, store, StoreTypeOK

LEMMA CreateKeepsKinds ==
    ASSUME StoreTypeOK, NEW u \in User, CreateRoom(u), NEW r \in Room,
           kind[r] # None
    PROVE  kind'[r] = kind[r]
BY DEF CreateRoom, CreateDirect, CreateShared, CreateRejectedByProperty, Saved,
       StoreTypeOK

\* A step that leaves the requests alone, or only drops some, and keeps the
\* kinds of used rooms.
LEMMA RequestsSuit ==
    ASSUME IInv, TypeOK',
           \A h \in Handler : request'[h] \in {request[h], None},
           \A r \in Room : kind[r] # None => kind'[r] = kind[r]
    PROVE  \A h \in Handler : request'[h] # None => Suits(request[h])'
<1> SUFFICES ASSUME NEW h \in Handler, request'[h] # None
             PROVE  Suits(request[h])'
  OBVIOUS
<1>1. request'[h] = request[h] /\ request[h] \in Request
  BY DEF IInv, TypeOK
<1>2. Suits(request[h]) /\ request[h].room \in Room
  BY <1>1 DEF IInv, Request
<1> QED
  BY <1>1, <1>2 DEF Suits

LEMMA InitIInv == Init => IInv
BY InitTypes, InitInv DEF Init, IInv, TypeOK

LEMMA NextIInv == IInv /\ [Next]_vars => IInv'
<1> SUFFICES ASSUME IInv, [Next]_vars
             PROVE  IInv'
  OBVIOUS
<1>0. StoreTypeOK /\ StoreInv /\ TypeOK
  BY DEF IInv, TypeOK
<1>1. CASE Create
  <2>1. PICK u \in User : CreateRoom(u) /\ UNCHANGED request
    BY <1>1 DEF Create
  <2>2. TypeOK' /\ StoreInv'
    BY <1>0, <2>1, CreateTypes, CreateInv DEF TypeOK
  <2>3. \A r \in Room : kind[r] # None => kind'[r] = kind[r]
    BY <1>0, <2>1, CreateKeepsKinds
  <2> QED
    BY <2>1, <2>2, <2>3, RequestsSuit DEF IInv
<1>2. CASE Join
  <2>1. PICK u \in User, r \in Room : JoinRoom(u, r) /\ UNCHANGED request
    BY <1>2 DEF Join
  <2>2. TypeOK' /\ StoreInv' /\ kind' = kind
    BY <1>0, <2>1, JoinTypes, JoinInv DEF TypeOK, JoinRoom
  <2> QED
    BY <2>1, <2>2, RequestsSuit DEF IInv
<1>3. CASE Forget
  <2>1. PICK u \in User : DeleteUser(u) /\ UNCHANGED request
    BY <1>3 DEF Forget
  <2>2. TypeOK' /\ StoreInv' /\ kind' = kind
    BY <1>0, <2>1, DeleteUserTypes, DeleteUserInv DEF TypeOK, DeleteUser
  <2> QED
    BY <2>1, <2>2, RequestsSuit DEF IInv
<1>4. ASSUME NEW h \in Handler, Check(h)
      PROVE  IInv'
  <2>1. PICK u \in users, r \in live, k \in RequestKind :
            /\ Permitted(k, u, r)
            /\ request' = [request EXCEPT ![h] = Fetched(k, u, r)]
            /\ UNCHANGED store
    BY <1>4 DEF Check
  <2>2. u \in User /\ r \in Room
    BY <1>0 DEF StoreTypeOK
  <2>3. Fetched(k, u, r) \in Request /\ Suits(Fetched(k, u, r))
    BY <1>0, <2>1, <2>2, FetchedIsRequest, PermittedSuits
  <2>4. StoreTypeOK' /\ StoreInv'
    BY <1>0, <2>1, StoreStep
  <2>5. TypeOK'
    BY <1>0, <2>1, <2>3, <2>4 DEF TypeOK
  <2>6. ASSUME NEW g \in Handler, request'[g] # None
        PROVE  Suits(request[g])'
    <3>1. CASE g = h
      <4>1. request'[g] = Fetched(k, u, r)
        BY <1>0, <2>1, <3>1 DEF TypeOK
      <4> QED
        BY <2>1, <2>3, <4>1 DEF Suits, store
    <3>2. CASE g # h
      <4>1. request'[g] = request[g] /\ Suits(request[g])
        BY <1>0, <2>1, <2>6, <3>2 DEF IInv, TypeOK
      <4> QED
        BY <2>1, <4>1 DEF Suits, store
    <3> QED
      BY <3>1, <3>2
  <2> QED
    BY <2>4, <2>5, <2>6 DEF IInv
<1>5. ASSUME NEW h \in Handler, Act(h)
      PROVE  IInv'
  <2>1. /\ request[h] \in Request
        /\ Suits(request[h])
        /\ Perform(request[h])
        /\ request' = [request EXCEPT ![h] = None]
    BY <1>5 DEF Act, IInv, TypeOK
  <2>2. StoreTypeOK' /\ StoreInv' /\ kind' = kind
    BY <1>0, <2>1, PerformTypes, PerformInv, KindIsKept DEF StoreInv, Suits
  <2>3. TypeOK' /\ \A g \in Handler : request'[g] \in {request[g], None}
    BY <1>0, <2>1, <2>2 DEF TypeOK
  <2> QED
    BY <2>2, <2>3, RequestsSuit DEF IInv
<1>6. ASSUME NEW h \in Handler, Abandon(h)
      PROVE  IInv'
  <2>1. UNCHANGED store /\ request' = [request EXCEPT ![h] = None]
    BY <1>6 DEF Abandon
  <2>2. StoreTypeOK' /\ StoreInv' /\ kind' = kind
    BY <1>0, <2>1, StoreStep DEF store
  <2>3. TypeOK' /\ \A g \in Handler : request'[g] \in {request[g], None}
    BY <1>0, <2>1, <2>2 DEF TypeOK
  <2> QED
    BY <2>2, <2>3, RequestsSuit DEF IInv
<1>7. CASE UNCHANGED vars
  <2>1. UNCHANGED store /\ UNCHANGED request
    BY <1>7 DEF vars, store
  <2>2. StoreTypeOK' /\ StoreInv' /\ kind' = kind
    BY <1>0, <2>1, StoreStep DEF store
  <2>3. TypeOK'
    BY <1>0, <2>1, <2>2 DEF TypeOK
  <2> QED
    BY <2>1, <2>2, <2>3, RequestsSuit DEF IInv
<1> QED
  BY <1>1, <1>2, <1>3, <1>4, <1>5, <1>6, <1>7 DEF Next

LEMMA Invariance == Spec => []IInv
BY InitIInv, NextIInv, PTL DEF Spec

\* Every variable keeps its type, for any number of users, rooms and
\* connections.
THEOREM TypeCorrect == Spec => []TypeOK
<1>1. IInv => TypeOK
  BY DEF IInv
<1> QED
  BY <1>1, Invariance, PTL

\* However requests overlap: one direct chat per pair of users, direct chats
\* of two or nobody, no room beyond its limit, no rows without a room.
THEOREM Safety == Spec => [](UniquePair /\ DirectSize /\ Capacity /\ NoOrphanRows)
<1>1. IInv => UniquePair /\ DirectSize /\ Capacity /\ NoOrphanRows
  BY DEF IInv, StoreInv
<1> QED
  BY <1>1, Invariance, PTL


\* The same, rule by rule.  No rows without a room: the first of them is what
\* lets a deleted room be told from an empty one.
THEOREM NoRowsLeft == Spec => []NoOrphanRows
BY Safety, PTL

\* Zero or two participants in a direct chat, whatever is deleted or saved again.
THEOREM TwoOrNone == Spec => []DirectSize
BY Safety, PTL

-----------------------------------------------------------------------------
(* The last member. *)

\* A request that takes the last member out takes the room along.
LEMMA NeverEmptiedStep ==
    ASSUME IInv, [Next]_vars, NEW r \in Room,
           r \in live', kind[r] # "direct", members[r] # {}
    PROVE  members'[r] # {} \/ users' # users
<1>0. StoreTypeOK /\ TypeOK /\ NoOrphanRows /\ LiveHasKind
  BY DEF IInv, TypeOK, StoreInv
<1>1. CASE Create
  <2>1. PICK u \in User : CreateRoom(u)
    BY <1>1 DEF Create
  <2>2. kind[r] # None
    BY <1>0 DEF NoOrphanRows, LiveHasKind
  <2>3. \E d \in Room \ {r} : \E first : members' = [members EXCEPT ![d] = first]
    BY <1>0, <2>1, <2>2
       DEF CreateRoom, CreateDirect, CreateShared, CreateRejectedByProperty,
           Saved
  <2> QED
    BY <1>0, <2>3 DEF StoreTypeOK
<1>2. CASE Join
  BY <1>0, <1>2 DEF Join, JoinRoom, StoreTypeOK
<1>3. CASE Forget
  BY <1>0, <1>3 DEF Forget, DeleteUser, StoreTypeOK
<1>4. ASSUME NEW h \in Handler, Check(h) \/ Abandon(h)
      PROVE  members' = members
  BY <1>4 DEF Check, Abandon, store
<1>5. ASSUME NEW h \in Handler, Act(h)
      PROVE  members'[r] # {}
  <2> DEFINE q == request[h]
  <2>1. q \in Request /\ q # None /\ Perform(q)
    BY <1>0, <1>5 DEF Act, TypeOK
  <2>2. q.room \in Room
    BY <2>1 DEF Request
  <2>3. ASSUME NEW T \in SUBSET users, AddMembers(q, T)
        PROVE  members'[r] # {}
    BY <1>0, <2>2, <2>3 DEF AddMembers, StoreTypeOK
  <2>4. ASSUME NEW U, TakeOut(q.room, U)
        PROVE  members'[r] # {}
    BY <1>0, <2>2, <2>4 DEF TakeOut, DropRoom, StoreTypeOK
  <2>5. ASSUME NEW T \in SUBSET users, RemoveMembers(q, T)
        PROVE  members'[r] # {}
    BY <2>4, <2>5 DEF RemoveMembers, Removable
  <2>6. ASSUME LeaveRoom(q)
        PROVE  members'[r] # {}
    BY <2>4, <2>6 DEF LeaveRoom
  <2>7. ASSUME DeleteRoom(q)
        PROVE  members'[r] # {}
    BY <1>0, <2>2, <2>7 DEF DeleteRoom, DropRoom, StoreTypeOK
  <2>8. ASSUME ModifyRoom(q)
        PROVE  members'[r] # {}
    <3>1. ASSUME NEW p, UpdateDeletedRoom(q, p)
          PROVE  members'[r] # {}
      BY <1>0, <2>2, <3>1
         DEF UpdateDeletedRoom, Saved, NoOrphanRows, StoreTypeOK
    <3>2. ASSUME members' = members
          PROVE  members'[r] # {}
      BY <3>2
    <3> QED
      BY <2>8, <3>1, <3>2
         DEF ModifyRoom, ModifyRoles, UpdateRoom, AddPermission,
             RemovePermission, AddAdmin, RemoveAdmin, store
  <2> QED
    BY <2>1, <2>3, <2>5, <2>6, <2>7, <2>8 DEF Perform
<1>6. CASE UNCHANGED vars
  BY <1>6 DEF vars
<1> QED
  BY <1>1, <1>2, <1>3, <1>4, <1>5, <1>6 DEF Next

\* However requests overlap, no request leaves a group or channel without
\* members: the room goes with its last member.
THEOREM LastTakesRoom == Spec => NeverEmptied
<1>1. IInv /\ [Next]_vars =>
          [\A r \in Room :
              r \in live' /\ kind[r] # "direct" /\ members[r] # {}
                  => members'[r] # {} \/ users' # users]_vars
  BY NeverEmptiedStep
<1> QED
  BY <1>1, Invariance, PTL DEF Spec, NeverEmptied

-----------------------------------------------------------------------------
(* The creator. *)

\* The step a helper takes out of the creator's reach: none.
LEMMA CreatorStaysStep ==
    ASSUME IInv, [Next]_vars, NEW r \in live \cap live',
           creator[r] \in members[r] \ members'[r]
    PROVE  \/ creator[r] \notin users'
           \/ \E h \in Handler : /\ request[h] # None
                                 /\ request[h].room = r
                                 /\ request[h].user = creator[r]
                                 /\ request'[h] = None
<1>0. StoreTypeOK /\ TypeOK /\ r \in Room
  BY DEF IInv, TypeOK, StoreTypeOK
<1>1. CASE Create
  <2>1. PICK u \in User : CreateRoom(u)
    BY <1>1 DEF Create
  <2>2. \E d \in Room \ {r} : \E first : members' = [members EXCEPT ![d] = first]
    BY <1>0, <2>1
       DEF CreateRoom, CreateDirect, CreateShared, CreateRejectedByProperty,
           Saved, IInv, StoreInv, LiveHasKind
  <2> QED
    BY <1>0, <2>2 DEF StoreTypeOK
<1>2. CASE Join
  BY <1>0, <1>2 DEF Join, JoinRoom, StoreTypeOK
<1>3. CASE Forget
  BY <1>0, <1>3 DEF Forget, DeleteUser, StoreTypeOK
<1>4. ASSUME NEW h \in Handler, Check(h)
      PROVE  FALSE
  BY <1>4 DEF Check, store
<1>5. ASSUME NEW h \in Handler, Act(h)
      PROVE  /\ request[h] # None
             /\ request[h].room = r
             /\ request[h].user = creator[r]
             /\ request'[h] = None
  <2> DEFINE q == request[h]
  <2>1. /\ q \in Request
        /\ q # None
        /\ Perform(q)
        /\ request'[h] = None
    BY <1>0, <1>5 DEF Act, TypeOK
  <2>2. q.room \in Room
    BY <2>1 DEF Request
  <2>3. ASSUME NEW T \in SUBSET users, AddMembers(q, T)
        PROVE  FALSE
    BY <1>0, <2>2, <2>3 DEF AddMembers, StoreTypeOK
  <2>4. ASSUME NEW T \in SUBSET users, RemoveMembers(q, T)
        PROVE  q.room = r /\ q.user = creator[r]
    BY <1>0, <2>2, <2>4 DEF RemoveMembers, Removable, TakeOut, DropRoom, StoreTypeOK
  <2>5. ASSUME LeaveRoom(q)
        PROVE  q.room = r /\ q.user = creator[r]
    BY <1>0, <2>2, <2>5 DEF LeaveRoom, TakeOut, DropRoom, StoreTypeOK
  <2>6. ASSUME DeleteRoom(q)
        PROVE  FALSE
    BY <1>0, <2>2, <2>6 DEF DeleteRoom, DropRoom, StoreTypeOK
  <2>7. ASSUME ModifyRoom(q)
        PROVE  FALSE
    BY <1>0, <2>2, <2>7
       DEF ModifyRoom, ModifyRoles, UpdateRoom, UpdateDeletedRoom, Saved,
           AddPermission, RemovePermission, AddAdmin, RemoveAdmin, store,
           StoreTypeOK
  <2> QED
    BY <2>1, <2>3, <2>4, <2>5, <2>6, <2>7 DEF Perform
<1>6. ASSUME NEW h \in Handler, Abandon(h)
      PROVE  FALSE
  BY <1>6 DEF Abandon, store
<1>7. CASE UNCHANGED vars
  BY <1>7 DEF vars
<1> QED
  BY <1>1, <1>2, <1>3, <1>4, <1>5, <1>6, <1>7 DEF Next

\* No request but the creator's own takes the creator out of a room.
THEOREM CreatorIsSafe == Spec => CreatorStays
<1>1. IInv /\ [Next]_vars =>
          [\A r \in live \cap live' :
              creator[r] \in members[r] \ members'[r] =>
                  \/ creator[r] \notin users'
                  \/ \E h \in Handler : /\ request[h] # None
                                        /\ request[h].room = r
                                        /\ request[h].user = creator[r]
                                        /\ request'[h] = None]_vars
  BY CreatorStaysStep
<1> QED
  BY <1>1, Invariance, PTL DEF Spec, CreatorStays
-----------------------------------------------------------------------------
(* One request at a time. *)

\* One connection at a time, and no account deleted meanwhile.
Serial == Deletable = {} /\ \A g, h \in Handler : g = h

\* The room object may only miss members who joined a channel since.
Current(q) ==
    /\ q.user \in users
    /\ q.room \in live
    /\ q.members \subseteq members[q.room]
    /\ Permitted(q.kind, q.user, q.room)

SerialInv == \A h \in Handler : request[h] # None => Current(request[h])

\* With such an object a helper does what it may do with a fresh one: for
\* every list of users it is sent there is one with the same effect.
LEMMA PerformFresh ==
    ASSUME StoreTypeOK, NEW q \in Request, Current(q), Perform(q)
    PROVE  Perform(Fetched(q.kind, q.user, q.room))
<1> DEFINE r == q.room
           f == Fetched(q.kind, q.user, r)
<1>0. /\ r \in Room
      /\ f.kind = q.kind /\ f.user = q.user /\ f.room = r
      /\ q.kind \notin {"leave", "delete"} => f.members = members[r]
      /\ f.public \in BOOLEAN /\ q.public \in BOOLEAN
      /\ q.members \subseteq members[r]
      /\ r \in live
  BY DEF Request, Fetched, Current, StoreTypeOK
<1> HIDE DEF f
<1>1. ASSUME q.kind = "add", NEW T \in SUBSET users, AddMembers(q, T)
      PROVE  AddMembers(f, T)
  <2>1. (T \ q.members) \ members[r] = (T \ members[r]) \ members[r]
    BY <1>0
  <2>2. Fits(r, T \ q.members) <=> Fits(r, T \ f.members)
    BY <1>0, <1>1, <2>1 DEF Fits
  <2>3. members[r] \cup (T \ q.members) = members[r] \cup (T \ f.members)
    BY <1>0, <1>1
  <2> QED
    BY <1>0, <1>1, <2>2, <2>3 DEF AddMembers
<1>2. ASSUME q.kind = "remove", NEW T \in SUBSET users, RemoveMembers(q, T)
      PROVE  RemoveMembers(f, T \cap q.members)
  <2>1. {u \in (T \cap q.members) \cap f.members : u # creator[r] \/ u = q.user}
            = {u \in T \cap q.members : u # creator[r] \/ u = q.user}
    BY <1>0, <1>2
  <2> QED
    BY <1>0, <1>2, <2>1 DEF RemoveMembers, Removable
<1>3. ASSUME LeaveRoom(q)
      PROVE  LeaveRoom(f)
  BY <1>0, <1>3 DEF LeaveRoom
<1>4. ASSUME DeleteRoom(q)
      PROVE  DeleteRoom(f)
  BY <1>0, <1>4 DEF DeleteRoom
<1>5. ASSUME q.kind = "modify", ModifyRoom(q)
      PROVE  ModifyRoom(f)
  <2>1. ASSUME NEW p \in {q.public, TRUE, FALSE},
               UpdateRoom(q, p) \/ UpdateDeletedRoom(q, p)
        PROVE  \E b \in {f.public, TRUE, FALSE} :
                  UpdateRoom(f, b) \/ UpdateDeletedRoom(f, b)
    BY <1>0, <2>1 DEF UpdateRoom, UpdateDeletedRoom
  <2>2. ASSUME NEW T \in SUBSET users
        PROVE  Affected(f, T \cap q.members) = Affected(q, T)
    BY <1>0, <1>5 DEF Affected
  <2>3. ASSUME ModifyRoles(q)
        PROVE  ModifyRoles(f)
    <3>1. kind[r] # "direct"
      BY <2>3 DEF ModifyRoles
    <3>2. ASSUME NEW T \in SUBSET users, NEW P \in SUBSET RolePerms(r),
                 AddPermission(q, T, P) \/ RemovePermission(q, T, P)
          PROVE  ModifyRoles(f)
      <4>1. \/ AddPermission(f, T \cap q.members, P)
            \/ RemovePermission(f, T \cap q.members, P)
        BY <1>0, <2>2, <3>2 DEF AddPermission, RemovePermission
      <4>2. T \cap q.members \in SUBSET users
        OBVIOUS
      <4> QED
        BY <1>0, <3>1, <4>1, <4>2 DEF ModifyRoles
    <3>3. ASSUME NEW T \in SUBSET users, AddAdmin(q, T) \/ RemoveAdmin(q, T)
          PROVE  ModifyRoles(f)
      <4>1. AddAdmin(f, T \cap q.members) \/ RemoveAdmin(f, T \cap q.members)
        BY <1>0, <2>2, <3>3 DEF AddAdmin, RemoveAdmin
      <4>2. T \cap q.members \in SUBSET users
        OBVIOUS
      <4> QED
        BY <1>0, <3>1, <4>1, <4>2 DEF ModifyRoles
    <3> QED
      BY <2>3, <3>2, <3>3 DEF ModifyRoles
  <2> QED
    BY <1>5, <2>1, <2>3 DEF ModifyRoom
<1>6. \A T \in SUBSET users : T \cap q.members \in SUBSET users
  OBVIOUS
<1> QED
  BY <1>0, <1>1, <1>2, <1>3, <1>4, <1>5, <1>6 DEF Perform, f

\* What the other steps do leaves a request as current as it was.
LEMMA CurrentIsKept ==
    ASSUME IInv, Serial, SerialInv, Create \/ Join \/ Forget,
           NEW h \in Handler, request[h] # None
    PROVE  Current(request[h])'
<1> DEFINE q == request[h]
<1>0. /\ StoreTypeOK /\ Current(q) /\ q \in Request
      /\ q.room \in Room /\ kind[q.room] # None
      /\ request' = request
  BY DEF IInv, TypeOK, SerialInv, Request, Suits, Create, Join, Forget
<1>1. CASE Create
  <2>1. PICK u \in User : CreateRoom(u)
    BY <1>1 DEF Create
  <2>2. PICK d \in Room : kind[d] = None /\ \E k, p, first, v : Saved(v, d, k, p, first)
    BY <2>1 DEF CreateRoom, CreateDirect, CreateShared, CreateRejectedByProperty
  <2>3. /\ members'[q.room] = members[q.room]
        /\ admins'[q.room] = admins[q.room]
        /\ grants'[q.room] = grants[q.room]
        /\ creator'[q.room] = creator[q.room]
        /\ kind'[q.room] = kind[q.room]
        /\ users' = users /\ live \subseteq live'
    BY <1>0, <2>2 DEF Saved, StoreTypeOK
  <2> QED
    BY <1>0, <2>3 DEF Current, Permitted, Manages
<1>2. CASE Join
  <2>1. /\ members[q.room] \subseteq members'[q.room]
        /\ UNCHANGED <<users, kind, live, creator, admins, grants>>
    BY <1>0, <1>2 DEF Join, JoinRoom, StoreTypeOK
  <2> QED
    BY <1>0, <2>1 DEF Current, Permitted, Manages
<1>3. CASE Forget
  BY <1>3 DEF Forget, DeleteUser, Serial
<1> QED
  BY <1>1, <1>2, <1>3

LEMMA SerialStep ==
    ASSUME IInv, Serial, SerialInv, [Next]_vars
    PROVE  SerialInv' /\ [StoreNext]_store
<1>0. StoreTypeOK /\ TypeOK
  BY DEF IInv, TypeOK
<1>1. CASE Create \/ Join \/ Forget
  <2>1. SerialInv'
    <3> SUFFICES ASSUME NEW h \in Handler, request'[h] # None
                 PROVE  Current(request[h])'
      BY DEF SerialInv
    <3>1. request[h] # None
      BY <1>1 DEF Create, Join, Forget
    <3> QED
      BY <1>1, <3>1, CurrentIsKept
  <2>2. StoreNext
    BY <1>1 DEF Create, Join, Forget, StoreNext
  <2> QED
    BY <2>1, <2>2
<1>2. ASSUME NEW h \in Handler, Check(h)
      PROVE  SerialInv' /\ UNCHANGED store
  <2>1. PICK u \in users, r \in live, k \in RequestKind :
            /\ Permitted(k, u, r)
            /\ request' = [request EXCEPT ![h] = Fetched(k, u, r)]
            /\ UNCHANGED store
    BY <1>2 DEF Check
  <2>2. Current(Fetched(k, u, r))
    BY <2>1 DEF Current, Fetched
  <2>3. \A g \in Handler : request'[g] = Fetched(k, u, r)
    BY <1>0, <2>1 DEF Serial, TypeOK
  <2>4. SerialInv'
    BY <2>1, <2>2, <2>3 DEF SerialInv, Current, Permitted, Manages, store
  <2> QED
    BY <2>1, <2>4
<1>3. ASSUME NEW h \in Handler, Act(h)
      PROVE  SerialInv' /\ StoreNext
  <2> DEFINE q == request[h]
  <2>1. /\ q \in Request
        /\ Current(q)
        /\ Perform(q)
        /\ request' = [request EXCEPT ![h] = None]
    BY <1>0, <1>3 DEF Act, TypeOK, SerialInv
  <2>2. SerialInv'
    BY <1>0, <2>1 DEF Serial, SerialInv, TypeOK
  <2>3. /\ q.user \in User /\ q.room \in Room /\ q.kind \in RequestKind
    BY <2>1 DEF Request
  <2>4. HandleRequest(q.user, q.room, q.kind)
    BY <1>0, <2>1, PerformFresh DEF HandleRequest, Current
  <2> HIDE DEF q
  <2> QED
    BY <2>2, <2>3, <2>4 DEF StoreNext
<1>4. ASSUME NEW h \in Handler, Abandon(h)
      PROVE  SerialInv' /\ UNCHANGED store
  BY <1>0, <1>4 DEF Abandon, Serial, SerialInv, TypeOK
<1>5. CASE UNCHANGED vars
  BY <1>5 DEF vars, store, SerialInv, Current, Permitted, Manages
<1> QED
  BY <1>1, <1>2, <1>3, <1>4, <1>5 DEF Next

\* When requests do not overlap, a check and its helper are together one
\* atomic step: Rooms implements RoomStore.
THEOREM SerialRefinement ==
    ASSUME Serial
    PROVE  Spec => RefinesStore
<1>1. Init => StoreInit /\ SerialInv
  BY DEF Init, SerialInv
<1>2. IInv /\ SerialInv /\ [Next]_vars => SerialInv' /\ [StoreNext]_store
  BY SerialStep
<1> QED
  BY <1>1, <1>2, Invariance, PTL DEF Spec, RefinesStore, StoreSpec

\* It inherits what needs fresh room objects.
THEOREM SerialRoles ==
    ASSUME Serial
    PROVE  Spec => [](AdminsAreMembers /\ HoldersAreMembers)
BY SerialRefinement, StoreRoles DEF RefinesStore
=============================================================================
