---------------------------- MODULE DirectChats ----------------------------
(***************************************************************************)
(* The creation of direct chats by several worker processes, query by      *)
(* query.  RoomPolymorphicSerializer.create (serializers.py:242) saves the *)
(* room, saves its property, and then calls participants.set(), which      *)
(* Django runs in one transaction with the receiver of signals.py:53 at    *)
(* both ends: before the rows are inserted it looks for a chat of the same *)
(* pair, after that it counts.  Any exception undoes the transaction, and  *)
(* create() then deletes the room in a transaction of its own.             *)
(*                                                                         *)
(* A worker runs one helper at a time, so a worker is a creation.  What    *)
(* two workers see of each other is up to the database, Isolation:         *)
(*   "locked"          SQLite, as in the settings of the repository: a     *)
(*                     transaction that has read keeps others from         *)
(*                     committing, one that has written keeps others from  *)
(*                     writing, and who waits too long is refused.         *)
(*   "read_committed"  PostgreSQL, as docs/source/deployment.rst           *)
(*                     recommends: a query sees what is committed.         *)
(***************************************************************************)
EXTENDS Naturals, FiniteSets

CONSTANTS
    User,         \* the accounts
    Room,         \* the UUIDs rooms may be given; none is used twice
    Worker,       \* the worker processes
    Isolation,    \* how transactions of the database see each other
    None          \* no room

ASSUME UserFinite          == IsFiniteSet(User)
ASSUME IsolationAssumption == Isolation \in {"locked", "read_committed"}
ASSUME NoneAssumption      == None \notin Room

VARIABLES
    rows,      \* the rooms that have a row
    people,    \* people[r]: the participants of r that are committed
    stage,     \* stage[w]: the query worker w is at
    room,      \* room[w]: the room w is creating
    asked,     \* asked[w]: the creator and the users asked for
    cut        \* the rooms whose creation was cut short (history)

vars == <<rows, people, stage, room, asked, cut>>

Stage == {"idle", "saved", "checked", "added", "refused"}

Pair == {p \in SUBSET User : Cardinality(p) = 2}

TypeOK ==
    /\ rows \subseteq Room
    /\ people \in [Room -> SUBSET User]
    /\ stage \in [Worker -> Stage]
    /\ room \in [Worker -> Room \cup {None}]
    /\ asked \in [Worker -> SUBSET User]
    /\ cut \subseteq Room

Init ==
    /\ rows = {}
    /\ people = [r \in Room |-> {}]
    /\ stage = [w \in Worker |-> "idle"]
    /\ room = [w \in Worker |-> None]
    /\ asked = [w \in Worker |-> {}]
    /\ cut = {}

Goto(w, s) == stage' = [stage EXCEPT ![w] = s]

-----------------------------------------------------------------------------
\* The workers other than w with a transaction open, and those that wrote.
Open(w)    == {v \in Worker \ {w} : stage[v] \in {"checked", "added"}}
Writing(w) == {v \in Worker \ {w} : stage[v] = "added"}

\* Mutant of MayCommit: the reads of others do not hold a commit up.
MayCommitOverReads(w) == Isolation = "locked" => Writing(w) = {}

\* Whether the database lets w write, and commit what it wrote.
MayWrite(w)  == Isolation = "locked" => Writing(w) = {}
MayCommit(w) == Isolation = "locked" => Open(w) = {}

\* The rooms whose participants are, or include, the users of set S.
ChatsOf(S) == {r \in rows : S \subseteq people[r]}

\* The creation of w is over and leaves its room as it is.
End(w) ==
    /\ Goto(w, "idle")
    /\ room' = [room EXCEPT ![w] = None]
    /\ asked' = [asked EXCEPT ![w] = {}]

-----------------------------------------------------------------------------
(***************************************************************************)
(* create(): serializer.save() commits a room without participants.  S is  *)
(* the creator with the accounts found for the list of the client, which   *)
(* may name anybody, the creator alone, or too many.                       *)
(***************************************************************************)
Save(w, S, r) ==
    /\ stage[w] = "idle"
    /\ S # {}
    /\ r \notin rows \cup cut
    /\ MayCommit(w)
    /\ rows' = rows \cup {r}
    /\ room' = [room EXCEPT ![w] = r]
    /\ asked' = [asked EXCEPT ![w] = S]
    /\ Goto(w, "saved")
    /\ UNCHANGED <<people, cut>>

\* The property is not valid, or its save finds the database locked: the
\* exception is raised before the try, and the room stays.
RejectProperty(w) ==
    /\ stage[w] = "saved"
    /\ cut' = cut \cup {room[w]}
    /\ End(w)
    /\ UNCHANGED <<rows, people>>

\* Mutant of Check: the receiver does not look.
CheckNothing(w) ==
    /\ stage[w] = "saved"
    /\ Goto(w, "checked")
    /\ UNCHANGED <<rows, people, room, asked, cut>>

\* set() opens the transaction; pre_add looks for a chat of the two.
Check(w) ==
    /\ stage[w] = "saved"
    /\ IF asked[w] \in Pair /\ ChatsOf(asked[w]) # {}
       THEN Goto(w, "refused")
       ELSE Goto(w, "checked")
    /\ UNCHANGED <<rows, people, room, asked, cut>>

\* Mutant of Insert: post_add does not count.
InsertUncounted(w) ==
    /\ stage[w] = "checked"
    /\ IF MayWrite(w) THEN Goto(w, "added") ELSE Goto(w, "refused")
    /\ UNCHANGED <<rows, people, room, asked, cut>>

\* Mutant of Insert: the insertion waits for the other writer to end.
InsertWaiting(w) ==
    /\ stage[w] = "checked"
    /\ MayWrite(w)
    /\ IF asked[w] \in Pair THEN Goto(w, "added") ELSE Goto(w, "refused")
    /\ UNCHANGED <<rows, people, room, asked, cut>>

\* The rows are inserted and post_add counts them; a database in which
\* another transaction has written refuses the insertion.
Insert(w) ==
    /\ stage[w] = "checked"
    /\ IF asked[w] \in Pair /\ MayWrite(w)
       THEN Goto(w, "added")
       ELSE Goto(w, "refused")
    /\ UNCHANGED <<rows, people, room, asked, cut>>

\* Mutant of Commit: the creator is not an account.
CommitAnonymous(w) ==
    /\ stage[w] = "added"
    /\ MayCommit(w)
    /\ people' = [people EXCEPT ![room[w]] = asked[w] \cup {None}]
    /\ End(w)
    /\ UNCHANGED <<rows, cut>>

Commit(w) ==
    /\ stage[w] = "added"
    /\ MayCommit(w)
    /\ people' = [people EXCEPT ![room[w]] = asked[w]]
    /\ End(w)
    /\ UNCHANGED <<rows, cut>>

\* A commit that waited too long for the others' reads to end is undone.
TimeOut(w) ==
    /\ stage[w] = "added"
    /\ ~MayCommit(w)
    /\ Goto(w, "refused")
    /\ UNCHANGED <<rows, people, room, asked, cut>>

\* Mutant of Undo: the exception is turned into an answer, the room stays.
UndoNothing(w) ==
    /\ stage[w] = "refused"
    /\ End(w)
    /\ UNCHANGED <<rows, people, cut>>

\* The transaction is rolled back, instance.delete() takes the room.
Undo(w) ==
    /\ stage[w] = "refused"
    /\ MayCommit(w)
    /\ rows' = rows \ {room[w]}
    /\ End(w)
    /\ UNCHANGED <<people, cut>>

\* instance.delete() itself finds the database locked for too long.
UndoFails(w) ==
    /\ stage[w] = "refused"
    /\ ~MayCommit(w)
    /\ cut' = cut \cup {room[w]}
    /\ End(w)
    /\ UNCHANGED <<rows, people>>

\* The process dies: its transaction is rolled back, the room stays.
Crash(w) ==
    /\ stage[w] # "idle"
    /\ cut' = cut \cup {room[w]}
    /\ End(w)
    /\ UNCHANGED <<rows, people>>

\* A participant deletes the chat (_modify_room), in some other worker.
DeleteChat(r) ==
    /\ r \in rows
    /\ people[r] # {}
    /\ Isolation = "locked" =>
           \A w \in Worker : stage[w] \notin {"checked", "added"}
    /\ rows' = rows \ {r}
    /\ people' = [people EXCEPT ![r] = {}]
    /\ cut' = cut \cup {r}
    /\ UNCHANGED <<stage, room, asked>>

\* What a creation does when the database neither fails nor times out.
Advance(w) == Check(w) \/ Insert(w) \/ Commit(w) \/ Undo(w)

Next ==
    \/ \E w \in Worker :
        \/ \E S \in SUBSET User, r \in Room : Save(w, S, r)
        \/ RejectProperty(w)
        \/ Advance(w)
        \/ TimeOut(w)
        \/ UndoFails(w)
        \/ Crash(w)
    \/ \E r \in Room : DeleteChat(r)

Spec == Init /\ [][Next]_vars

-----------------------------------------------------------------------------
\* Two users never have two direct chats, whatever the workers interleave:
\* "Duplicate OneToOneChat rooms between the same 2 users cannot be created"
\* (signals.py:60).
UniquePair ==
    \A d, e \in rows : people[d] = people[e] /\ people[d] # {} => d = e

\* A direct chat that others can see has two participants or none, and what
\* was refused leaves no room behind, "ALL OR NOTHING" (serializers.py:260):
\* a room without participants is being created, or its creation was cut
\* short by a crash, a rejected property or a database that stayed locked.
AllOrNothing ==
    \A r \in rows :
        \/ people[r] \in Pair
        \/ people[r] = {} /\ (r \in cut \/ \E w \in Worker : room[w] = r)

\* The workers implement the promise of signals.py:53.
Book == INSTANCE PairBook
            WITH chats <- [p \in Pair |-> {r \in rows : people[r] = p}]
KeepsBook == Book!Spec

\* No two creations hold what the other waits for: while a creation is under
\* way, one of them gets on without waiting for the lock timeout.
NoDeadlock ==
    (\E w \in Worker : stage[w] # "idle") =>
        \E w \in Worker : ENABLED Advance(w)
=============================================================================
