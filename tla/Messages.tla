----------------------------- MODULE Messages -----------------------------
(***************************************************************************)
(* Messages and what hangs on them: delivery marks, read receipts,         *)
(* reactions, notifications and the room's last_message, as the message    *)
(* handlers of consumers.py change them through MessageHelperMixins        *)
(* (utils/handlers/helper_mixins.py), ChatNotificationHandlerMixin         *)
(* (handler_mixins.py) and the receivers of signals.py.                    *)
(*                                                                         *)
(* A handler is one or two permission checks and then its helper, each in  *)
(* an await of its own; a helper is one step, as in RoomStore.  The checks *)
(* look only at messages that are not deleted, the helpers at any row.     *)
(*                                                                         *)
(* Membership changes as it likes: RoomStore has the rules.  Whether a     *)
(* member may also write (locked groups, channels) is left open.           *)
(* ENABLE_NOTIFICATION is on.                                              *)
(***************************************************************************)
EXTENDS Naturals, FiniteSets

CONSTANTS
    User,
    Room,
    Message,    \* the UUIDs messages may be given
    Handler,    \* the connections that may have a request in progress
    Emoji,      \* contents of reactions
    MaxEvents,  \* how many requests and membership changes (a bound)
    None

ASSUME NoneAssumption  == None \notin Message \cup Emoji \cup Room
ASSUME BoundAssumption == MaxEvents \in Nat

VARIABLES
    soft,       \* the setting MESSAGE_SOFT_DELETE
    members,    \* members[r]: its participants; {} once its row is gone
    state,      \* state[m]: "unused", "live", "hidden" (is_deleted), "gone"
    home,       \* home[m]: Message.room
    sender,     \* sender[m]: Message.sender
    edited,     \* edited[m]: Message.is_edited, set by every change of content
    delivered,  \* delivered[m]: Message.delivered_to
    readers,    \* readers[m]: the users with a ReadReceipt
    reaction,   \* reaction[m][u]: the content of u's Reaction
    notes,      \* notes[m]: the recipients of each ChatNotification of m
    last,       \* last[r]: Room.last_message
    step,       \* step[h]: "idle", or which await handler h is at
    request,    \* request[h]: what h was asked for and has fetched
    events,     \* the requests and changes so far
    ever,       \* ever[r]: the users who ever were members (history)
    audience,   \* audience[m]: the other members when m was sent (history)
    whole       \* the messages whose helper ran to its end (history)

rows    == <<state, home, sender, edited, last>>
traces  == <<delivered, readers, reaction, notes>>
history == <<audience, whole>>
rooms   == <<soft, members, ever>>
vars    == <<rooms, rows, traces, history, step, request, events>>

Op      == {"send", "ack", "read", "react", "unreact", "edit", "delete",
            "update room"}
Request == [op : Op, user : User, room : Room \cup {None},
            ids : SUBSET Message, emoji : Emoji \cup {None},
            saw : Message \cup {None}]

TypeOK ==
    /\ soft \in BOOLEAN
    /\ members \in [Room -> SUBSET User]
    /\ state \in [Message -> {"unused", "live", "hidden", "gone"}]
    /\ home \in [Message -> Room \cup {None}]
    /\ sender \in [Message -> User \cup {None}]
    /\ edited \in [Message -> BOOLEAN]
    /\ delivered \in [Message -> SUBSET User]
    /\ readers \in [Message -> SUBSET User]
    /\ reaction \in [Message -> [User -> Emoji \cup {None}]]
    /\ notes \in [Message -> SUBSET SUBSET User]
    /\ last \in [Room -> Message \cup {None}]
    /\ step \in [Handler -> {"idle", "member", "ready"}]
    /\ request \in [Handler -> Request \cup {None}]
    /\ \A h \in Handler : step[h] # "idle" => request[h] \in Request
    /\ events \in Nat
    /\ ever \in [Room -> SUBSET User]
    /\ audience \in [Message -> SUBSET User]
    /\ whole \subseteq Message

Init ==
    /\ soft \in BOOLEAN
    /\ members \in [Room -> SUBSET User \ {{}}]
    /\ state = [m \in Message |-> "unused"]
    /\ home = [m \in Message |-> None]
    /\ sender = [m \in Message |-> None]
    /\ edited = [m \in Message |-> FALSE]
    /\ delivered = [m \in Message |-> {}]
    /\ readers = [m \in Message |-> {}]
    /\ reaction = [m \in Message |-> [u \in User |-> None]]
    /\ notes = [m \in Message |-> {}]
    /\ last = [r \in Room |-> None]
    /\ step = [h \in Handler |-> "idle"]
    /\ request = [h \in Handler |-> None]
    /\ events = 0
    /\ ever = members
    /\ audience = [m \in Message |-> {}]
    /\ whole = {}

Live(m)   == state[m] = "live"
Stored(m) == state[m] \in {"live", "hidden"}

-----------------------------------------------------------------------------
(***************************************************************************)
(* The permission checks (permissions/helper_mixins.py).                   *)
(***************************************************************************)

\* _have_message_permission: every message, and none of them is deleted.
MayAccess(u, M) == \A m \in M : Live(m) /\ u \in members[home[m]]

\* Mutant of IsSender: one message of one's own will do.
IsSenderOfOne(u, M) ==
    /\ M # {}
    /\ \A m \in M : Live(m)
    /\ \E m \in M : sender[m] = u
    /\ \A m, n \in M : home[m] = home[n]

\* _is_message_sender: all of them, in one room.
IsSender(u, M) ==
    /\ M # {}
    /\ \A m \in M : Live(m) /\ sender[m] = u
    /\ \A m, n \in M : home[m] = home[n]

\* Mutant of FirstCheck: messages are open to everybody.
FirstCheckOpen(q) ==
    CASE q.op \in {"edit", "delete"}      -> IsSender(q.user, q.ids)
      [] q.op \in {"send", "update room"} -> q.user \in members[q.room]
      [] OTHER                            -> \A m \in q.ids : Live(m)

FirstCheck(q) ==
    CASE q.op \in {"edit", "delete"}      -> IsSender(q.user, q.ids)
      [] q.op \in {"send", "update room"} -> q.user \in members[q.room]
      [] OTHER                            -> MayAccess(q.user, q.ids)

\* What a client may ask.  React and edit take one message; the others take
\* a list.  The check of "update room" fetches the room with last_message.
WellFormed(q) ==
    /\ q.op \in {"send", "update room"} <=> q.room # None
    /\ q.room # None <=> q.ids = {}
    /\ q.op \in {"react", "unreact", "edit"} => \E m \in Message : q.ids = {m}
    /\ q.op = "react" <=> q.emoji # None
    /\ q.saw = IF q.op = "update room" THEN last[q.room] ELSE None

Asked == {q \in Request : WellFormed(q)}

Check(h) ==
    /\ step[h] = "idle"
    /\ events < MaxEvents
    /\ events' = events + 1
    /\ \E q \in Asked :
          /\ FirstCheck(q)
          /\ request' = [request EXCEPT ![h] = q]
          /\ step' = [step EXCEPT ![h] =
                 IF q.op \in {"edit", "delete"} THEN "member" ELSE "ready"]
    /\ UNCHANGED <<rooms, rows, traces, history>>

\* Mutant of Ended: the request is dropped but the handler goes on.
EndedHalfway(h) ==
    /\ request' = [request EXCEPT ![h] = None]
    /\ UNCHANGED step

Ended(h) ==
    /\ step' = [step EXCEPT ![h] = "idle"]
    /\ request' = [request EXCEPT ![h] = None]

\* can_access_message under can_modify_message: one await later.
CheckAccess(h) ==
    /\ step[h] = "member"
    /\ IF MayAccess(request[h].user, request[h].ids)
       THEN step' = [step EXCEPT ![h] = "ready"] /\ UNCHANGED request
       ELSE Ended(h)
    /\ UNCHANGED <<rooms, rows, traces, history, events>>

\* The helper raises before it writes, or the worker process is killed.
Abandon(h) ==
    /\ step[h] # "idle"
    /\ Ended(h)
    /\ UNCHANGED <<rooms, rows, traces, history, events>>

-----------------------------------------------------------------------------
(***************************************************************************)
(* The helpers.                                                            *)
(***************************************************************************)

\* The message row and the room's last_message are written.
Store(q, m) ==
    /\ state[m] = "unused"
    /\ members[q.room] # {}
    /\ state' = [state EXCEPT ![m] = "live"]
    /\ home' = [home EXCEPT ![m] = q.room]
    /\ sender' = [sender EXCEPT ![m] = q.user]
    /\ last' = [last EXCEPT ![q.room] = m]
    /\ audience' = [audience EXCEPT ![m] = members[q.room] \ {q.user}]
    /\ UNCHANGED <<edited, delivered, readers, reaction>>

\* create_chat_notification: recipients.set(members but the user).
Notify(u, m) ==
    notes' = [notes EXCEPT ![m] = @ \cup {members[home'[m]] \ {u}}]

\* _create_message
Send(q) ==
    /\ q.op = "send"
    /\ \E m \in Message : /\ Store(q, m)
                          /\ Notify(q.user, m)
                          /\ whole' = whole \cup {m}

\* The media are validated after the message is saved; if they are rejected
\* the helper raises before it notifies anybody.
SendRejectedMedia(q) ==
    /\ q.op = "send"
    /\ \E m \in Message : Store(q, m)
    /\ UNCHANGED <<notes, whole>>

\* Mutant of Left: the recipients are cleared.
LeftByAll(R, u) == IF u \in R THEN {} ELSE R

\* recipients.remove(user)
Left(R, u) == R \ {u}

\* Mutant of Acknowledge: no receiver deletes the notification.
AcknowledgeKeepingNotes(q) ==
    /\ q.op = "ack"
    /\ notes' = [m \in Message |->
           IF m \in q.ids THEN {Left(R, q.user) : R \in notes[m]}
                          ELSE notes[m]]
    /\ delivered' = [m \in Message |->
           IF m \in q.ids /\ Stored(m) THEN delivered[m] \cup {q.user}
                                       ELSE delivered[m]]
    /\ UNCHANGED <<rows, readers, reaction, history>>

\* _message_acknowledged: a notification whose last recipient leaves it is
\* deleted by the m2m receiver; one that never had any is not.
Acknowledge(q) ==
    /\ q.op = "ack"
    /\ notes' = [m \in Message |->
           IF m \in q.ids
           THEN {Left(R, q.user) : R \in notes[m]}
                    \ (IF {} \in notes[m] THEN {} ELSE {{}})
           ELSE notes[m]]
    /\ delivered' = [m \in Message |->
           IF m \in q.ids /\ Stored(m) THEN delivered[m] \cup {q.user}
                                       ELSE delivered[m]]
    /\ UNCHANGED <<rows, readers, reaction, history>>

\* _create_read_receipt: one receipt that exists already fails them all.
Read(q) ==
    LET unread == {m \in q.ids : Stored(m) /\ sender[m] # q.user} IN
    /\ q.op = "read"
    /\ \A m \in unread : q.user \notin readers[m]
    /\ readers' = [m \in Message |->
           IF m \in unread THEN readers[m] \cup {q.user} ELSE readers[m]]
    /\ UNCHANGED <<rows, delivered, reaction, notes, history>>

\* _react_to_message, add: another reaction of the user is deleted first;
\* the same one again violates unique_reaction.
React(q) ==
    /\ q.op = "react"
    /\ \E m \in q.ids :
          /\ Stored(m)
          /\ reaction[m][q.user] # q.emoji
          /\ reaction' = [reaction EXCEPT ![m][q.user] = q.emoji]
          /\ UNCHANGED <<rows, history>>
          /\ Notify(q.user, m)
    /\ UNCHANGED <<delivered, readers>>

\* _react_to_message, remove
Unreact(q) ==
    /\ q.op = "unreact"
    /\ reaction' = [m \in Message |->
           IF m \in q.ids THEN [reaction[m] EXCEPT ![q.user] = None]
                          ELSE reaction[m]]
    /\ UNCHANGED <<rows, delivered, readers, notes, history>>

\* Mutant of Edit: the serializer does not look at is_deleted.
EditAnyRow(q) ==
    /\ q.op = "edit"
    /\ \E m \in q.ids : Stored(m) /\ edited' = [edited EXCEPT ![m] = TRUE]
    /\ UNCHANGED <<state, home, sender, last, traces, history>>

\* _modify_message, update; MessageSerializer.update refuses deleted rows.
Edit(q) ==
    /\ q.op = "edit"
    /\ \E m \in q.ids : Live(m) /\ edited' = [edited EXCEPT ![m] = TRUE]
    /\ UNCHANGED <<state, home, sender, last, traces, history>>

\* Mutant of Erase: on_delete=DO_NOTHING for last_message.
EraseRowsOnly(M) ==
    /\ state' = [m \in Message |-> IF m \in M THEN "gone" ELSE state[m]]
    /\ delivered' = [m \in Message |-> IF m \in M THEN {} ELSE delivered[m]]
    /\ readers' = [m \in Message |-> IF m \in M THEN {} ELSE readers[m]]
    /\ reaction' = [m \in Message |->
           IF m \in M THEN [u \in User |-> None] ELSE reaction[m]]
    /\ notes' = [m \in Message |-> IF m \in M THEN {} ELSE notes[m]]
    /\ UNCHANGED last

\* The rows are deleted, and with them what refers to them (on_delete).
Erase(M) ==
    /\ state' = [m \in Message |-> IF m \in M THEN "gone" ELSE state[m]]
    /\ delivered' = [m \in Message |-> IF m \in M THEN {} ELSE delivered[m]]
    /\ readers' = [m \in Message |-> IF m \in M THEN {} ELSE readers[m]]
    /\ reaction' = [m \in Message |->
           IF m \in M THEN [u \in User |-> None] ELSE reaction[m]]
    /\ notes' = [m \in Message |-> IF m \in M THEN {} ELSE notes[m]]
    /\ last' = [r \in Room |-> IF last[r] \in M THEN None ELSE last[r]]

\* _modify_message, delete, with MESSAGE_SOFT_DELETE and without.
Hide(q) ==
    /\ q.op = "delete"
    /\ soft
    /\ state' = [m \in Message |->
           IF m \in q.ids /\ Stored(m) THEN "hidden" ELSE state[m]]
    /\ notes' = [m \in Message |-> IF m \in q.ids THEN {} ELSE notes[m]]
    /\ UNCHANGED <<home, sender, edited, last, delivered, readers, reaction,
                   history>>

Delete(q) ==
    /\ q.op = "delete"
    /\ ~ soft
    /\ Erase(q.ids)
    /\ UNCHANGED <<home, sender, edited, history>>

\* room.save() of the room the check fetched: last_message goes back to what
\* it was then; the foreign key refuses a message that is gone.  (A deleted
\* room that is saved again is UpdateDeletedRoom in RoomStore.)
UpdateRoom(q) ==
    /\ q.op = "update room"
    /\ members[q.room] # {}
    /\ q.saw # None => Stored(q.saw)
    /\ last' = [last EXCEPT ![q.room] = q.saw]
    /\ UNCHANGED <<state, home, sender, edited, traces, history>>

Perform(q) ==
    \/ Send(q) \/ SendRejectedMedia(q) \/ Acknowledge(q) \/ Read(q)
    \/ React(q) \/ Unreact(q) \/ Edit(q) \/ Hide(q) \/ Delete(q)
    \/ UpdateRoom(q)

Act(h) ==
    /\ step[h] = "ready"
    /\ Perform(request[h])
    /\ Ended(h)
    /\ UNCHANGED <<rooms, events>>

\* Other handlers change the members; the last one out takes the room and
\* its messages along.
ChangeMembers(r, M) ==
    /\ events < MaxEvents
    /\ events' = events + 1
    /\ members[r] # {}
    /\ members' = [members EXCEPT ![r] = M]
    /\ ever' = [ever EXCEPT ![r] = @ \cup M]
    /\ IF M = {}
       THEN Erase({m \in Message : Stored(m) /\ home[m] = r})
       ELSE UNCHANGED <<state, last, traces>>
    /\ UNCHANGED <<soft, home, sender, edited, history, step, request>>

Next ==
    \/ \E h \in Handler : Check(h) \/ CheckAccess(h) \/ Act(h) \/ Abandon(h)
    \/ \E r \in Room, M \in SUBSET User : ChangeMembers(r, M)

Spec == Init /\ [][Next]_vars

-----------------------------------------------------------------------------
(***************************************************************************)
(* What holds however requests overlap.                                    *)
(***************************************************************************)
Reactors(m) == {u \in User : reaction[m][u] # None}

\* Whatever is recorded about a message was done by, or is for, somebody who
\* was a member of its room, nobody reads their own message, and nothing is
\* left of a message that is gone: checks and helpers are awaits apart, and
\* members leave and rows go in between (permissions/decorators.py:88).
TracesAreOfMembers ==
    \A m \in Message :
        /\ Stored(m) => /\ sender[m] \in ever[home[m]]
                        /\ delivered[m] \cup readers[m] \cup Reactors(m)
                               \cup UNION notes[m] \subseteq ever[home[m]]
                        /\ sender[m] \notin readers[m]
        /\ ~ Stored(m) => delivered[m] = {} /\ readers[m] = {}
                          /\ Reactors(m) = {} /\ notes[m] = {}

Reached(m, u) == u \in delivered[m] \/ \E R \in notes[m] : u \in R

\* A message that went out is, for everybody it was sent to, delivered or
\* still announced: no acknowledgement by one recipient, no reaction and no
\* deletion of another message loses it (handler_mixins.py:142).
NobodyMissed ==
    \A m \in whole : Live(m) => \A u \in audience[m] : Reached(m, u)

\* The same of every message in the room, rejected media or not.
EveryMessageAnnounced ==
    \A m \in Message : Live(m) => \A u \in audience[m] : Reached(m, u)

\* When a message is deleted its notifications go too.
DeletedIsSilent == \A m \in Message : ~ Live(m) => notes[m] = {}

\* The last_message of a room is a stored message of that room, although
\* stale room objects are saved and messages deleted meanwhile
\* (helper_mixins.py:726, models.py:61).
LastIsStored ==
    \A r \in Room : last[r] # None =>
        Stored(last[r]) /\ home[last[r]] = r

ModifiedBySender(m) ==
    \E h \in Handler :
        /\ step[h] = "ready" /\ step'[h] = "idle"
        /\ request[h].op \in {"edit", "delete"}
        /\ request[h].user = sender[m]
        /\ m \in request[h].ids

\* A message is changed or deleted by a request of its sender and by nothing
\* else, unless its room goes (decorators.py:49, two awaits before the act).
OnlySenderModifies ==
    [][\A m \in Message :
           Live(m) /\ (state'[m] # "live" \/ edited'[m] # edited[m])
               => ModifiedBySender(m) \/ members'[home[m]] = {}]_vars

\* A deleted message stays deleted and is not edited any more, although the
\* edit was checked before the deletion (serializers.py:430).
DeletedStays ==
    [][\A m \in Message :
           state[m] \in {"hidden", "gone"}
               => /\ state'[m] \in {state[m], "gone"}
                  /\ edited'[m] = edited[m]]_vars

Alone(u, r) == members[r] \subseteq {u}

\* A notification for nobody is left only by somebody who has no other member
\* to notify: acknowledgements take the last recipient and the notification
\* in one (handler_mixins.py:106, signals.py:180).
NoEmptiedNote ==
    [][\A m \in Message :
           {} \in notes'[m] \ notes[m] =>
               \E h \in Handler :
                   /\ step[h] = "ready" /\ step'[h] = "idle"
                   /\ request[h].op \in {"send", "react"}
                   /\ Alone(request[h].user, home'[m])]_vars
=============================================================================
