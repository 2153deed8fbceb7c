# Formal verification of realtime_chat_messaging

TLA+ models of the chat backend in `src/src/realtime_chat_messaging`, the TLC
runs that check them, and TLAPS proofs about them. Paths below are relative to
that package unless they start with `docs/` (`src/docs/source/`).

## 1. The system

A Django app. Clients keep a WebSocket to `ChatMessagingConsumer`
(`consumers.py`), which dispatches each frame to an async handler. A handler
first awaits one or two permission checks (`permissions/decorators.py`, in
front of `permissions/helper_mixins.py`), then awaits a synchronous helper that
does the database work (`utils/handlers/`), and then subscribes, unsubscribes
or sends to groups of the channel layer. Django signals (`signals.py`) run
inside the helpers behind m2m changes and saves.

### Inventory

| Component | State it keeps | Operations | What is hard | What makes it correct |
|---|---|---|---|---|
| Room operations (`helper_mixins.py` 460-788, `signals.py` 36-172, `permissions/`, `serializers.py` 197-321) | rooms, kinds, creator, members, admins, object permissions, `is_public` | create (direct, group, channel), join, add, remove, leave, update, delete, change roles, delete an account | the check and the helper are separate awaits and the helper uses the room the check fetched; receivers delete the room under a helper; creation is several saves | roles and permissions belong to members, limits hold, no two chats of a pair, no empty room, no rows of a room that is gone |
| Sessions and subscriptions (`consumers.py` 121-155, 711-988, 1050-1208, `utils/cache_utils.py`, `helper_mixins.py` 894-935) | session rows, the cached group list of each user, groups of the channel layer | connect, disconnect, heartbeat, cleanup, setup, the fan-out of every membership change | many awaits between reading a list and using it; sessions lapse under open connections; workers die; several workers update one cache key | who is subscribed is who is a member, and the connection hears its own user's group |
| Messages and notifications (`helper_mixins.py` 80-346, `handler_mixins.py` 60-208, `signals.py` 180-211) | messages, delivered_to, read receipts, reactions, chat notifications, last_message | send, acknowledge, read, react, edit, delete (soft or hard) | checks look only at undeleted messages, helpers at any row; media are validated after the save | nobody's undelivered message is lost, only senders modify, deleted messages stay as they are |
| Direct chats among worker processes (`signals.py` 53-76, `serializers.py` 242-321) | rooms without participants yet, the transaction of each creation | save, set participants, roll back, delete | queries of several processes interleave; what they see of each other is up to the database; only part of a creation is undone when it fails | one chat per pair, no chat of one or three, nothing half done |
| Delivery of messages (`consumers.py` 121-155, 185-295, 1114-1181, `handler_mixins.py` 60-153, `helper_mixins.py` 820-858) | the layer's queue of each channel, the task of each handler, notifications, what clients have shown | connect, send, notify, dispatch, acknowledge, tell the sender, disconnect | the row, the notification and the broadcast are separate awaits; queues have a limit; handlers fail, workers die, devices come back | nothing announced to a user is missed, ticks are true, whoever was offline learns in the end |
| Message history (`consumers.py` 500-547, `helper_mixins.py` 348-415) | none on the server | `room.messages` | pages are counted from the newest message and move; one request is two queries; the answer goes to every device of the user | a walk through the pages misses nothing it should not, and ends |
| Dispatch and errors (`consumers.py` 158-183, `utils/decorators.py`) | none | look up, catch | an exception skips the rest of a handler | as above: what is skipped is not lost for good |
| Settings and class loading (`conf.py`, `utils/loader.py`, `defaults.py`) | settings and classes read at import | read | - | - |
| Serializers and mixins, models and migrations | none of their own | validation, layout | - | - |

The components meet in the consumer: a room operation ends in a fan-out that
uses sessions and cache; a message operation uses membership; receivers tie
members to rooms and permissions. `Delivery` joins the parts a message runs
through: connections, groups, queues, rows and clients. `Server` joins the
parts a room request runs through: check, helper, fan-out and sessions.

## 2. Modules

| Module | Models | State and actions |
|---|---|---|
| `RoomStore` | the rooms in the database; every helper of `RoomHelperMixins` with the receivers behind it, as one operator on a request record `q` | `members`, `admins`, `grants`, ... are the relations of `models.py`; `q` is the room object a check fetched. `StoreSpec` is the abstract specification: check and helper are one step |
| `Rooms` | the same as the consumers run it: `Check(h)` is the decorator, `Act(h)` the helper one await later, `Abandon(h)` a worker that dies between | `request[h]` is the room object in handler `h`'s hands, possibly stale |
| `Subscriptions` | sessions, cached lists and groups, at the granularity of awaits | `step[c]` is the place of connection `c` in `connect`, `disconnect` or a fan-out; `groups`, `todo`, `job`, `turn` are its local variables; `CleanupFetch` ... `Register` are the pieces of `channel_cleanup` and `channel_setup`, `FanRead` ... `FanSet` those of `add_channel_to_group`, `discard_channel_from_group` and the cache helpers; `Lapse`, `Heartbeat`, `Crash` are time and failure; `untold[r]` remembers the members whom no fan-out was for |
| `Server` | the two together: connections that check a request about a room, run the helper and walk the sessions of those concerned; implements `Rooms`, `Subscriptions` and, one handler at a time, `RoomStore` | extends `Rooms`, with `S` an instance of `Subscriptions` in which `Conn` is `Handler`, `row` is read off the rooms (`Row`) and `Stale` is `MaxBusy > 1`; `Ask(h)` is the decorator, `AddAndTell`, `RemoveAndTell`, ... are a helper and what its handler makes of the answer: `S!FanOut` for whom, or `S!NoFanOut`; `Device(h)` are the steps of `Subscriptions` that change no room |
| `Messages` | messages and everything that refers to one | `Check`, `CheckAccess`, `Act` are the awaits of a handler; one operator per helper; `notes[m]` is the set of recipient sets of the notifications of `m` (two notifications with the same recipients change alike, so a set is enough) |
| `PairBook` | what `enforce_two_participants_on_one_to_one_chat` promises | `chats[p]` are the chats of a pair; open when there is none, close |
| `DirectChats` | the creation of direct chats by several worker processes, query by query; implements `PairBook` | `stage[w]` is the query worker `w` is at; `Save`, `Check` (pre_add), `Insert` with post_add, `Commit`, `Undo` are `create()`; `MayWrite`, `MayCommit` are the database, by `Isolation`; `TimeOut`, `UndoFails`, `RejectProperty`, `Crash` are what cuts a creation short |
| `Mailbox` | what notifications promise a user, whatever devices they have | `waiting`, `confirmed`, `posted`, `shown`; `Post`, `Show`, `Confirm` |
| `Delivery` | the way of a message to the devices, and of the acknowledgement back; implements `Mailbox` | `wire[d]` is how far `connect()` is; `queue[c]` the layer's queue of a channel name; `task[d]` what the running handler has still to await (`Announce`, `Dispatch`, `Tell`); `recipients`, `delivered`, `sender` are rows; `seen`, `todo`, `ticked` are the client; `Fail`, `Close`, `Crash`, `Lapse` go wrong |
| `History` | `room.messages`, page after page, by two devices of a user | `Count` and `Read` are the two queries of Django's `Paginator` (external, as `_retreive_messages` uses it), `Answer` is the `send_group` to the user's own group; `walk[d]` is the client |
| `MCRooms`, `MCSubscriptions`, `MCServer`, `MCMessages`, `MCDirect`, `MCDelivery` | model values and symmetry for TLC (`History` needs none and is run as it is) | |
| `Rooms_proofs`, `Subscriptions_proofs`, `SubsSerial_proofs`, `Server_proofs`, `Messages_proofs`, `DirectChats_proofs`, `Delivery_proofs`, `History_proofs` | theorems and proofs; `Rooms_proofs` is about `RoomStore` too, `SubsSerial_proofs` about `Subscriptions` with one handler at a time | |

`Rooms` extends `RoomStore`, and `Server` extends `Rooms`. `Subscriptions` knows
of a room only its members: its room handlers may do whatever some helper of
`RoomStore` may do with some room object, and the constant `Stale` says whether
that object may be out of date. That this leaves nothing out is a theorem
(`Server_proofs!ServerImplementsSubscriptions`), so what holds of `Subscriptions`
holds with the rules in force. `Messages` lets any member change who is a member,
a coarser rule than `RoomStore` has, but does not bring deleted rooms back.
`Delivery` leaves membership alone and takes from `Subscriptions` that a channel
is in the groups of its user's cached list; in return it has the queues, the
handlers and the clients that `Messages` leaves out. `DirectChats` is the one
operation of `RoomStore` (`CreateDirect`) below the level of a helper.

### What a step is

A synchronous helper is wrapped by `database_sync_to_async`, which is
thread-sensitive: in one worker process helpers run one after the other. So a
helper is one step in `RoomStore`, `Rooms` and `Messages`. The awaits between
the check and the helper are where other connections come in. In
`Subscriptions` the constant `OneWorker` says whether the cache helpers are
atomic too (they are within one process); when it is FALSE, get and set are
separate steps. In `DirectChats` a step is a query, because there the check and
the rows it guards are in one helper and several processes matter; in `Delivery`
and `History` a step is what runs between two awaits or, where another process
can see the difference, between two writes or reads of one helper.

The definitions named after what they are with a comment "Mutant of ..." are
deliberately wrong variants; no specification uses them. Each shows that a
property notices the corresponding mistake.

## 3. Runs

| Run | Instance | Properties | What it shows |
|---|---|---|---|
| `ServerSerial` | 3 users, 2 of them connected, 1 room, one handler at a time, groups and channels, limit 2, heartbeats in time, crashes | `TypeOK`, `AdminsAreMembers`, `HoldersAreMembers`, `RefinesStore`, `ImplementsSubscriptions` | roles and object permissions follow membership through any sequence of requests; check and helper are one step of `StoreSpec`; each helper starts a fan-out that `Subscriptions` allows for the change it made |
| `RoomsOverlap` | 3 users, 1 room (group, channel or direct chat), 2 overlapping requests, accounts deleted | `Capacity`, `NoOrphanRows`, `DirectSize`, `CreatorStays`, `NeverEmptied` | stale member lists neither exceed the limit nor leave rows behind; a direct chat has two participants or none; no request empties a group it leaves standing; nobody takes the creator out |
| `SubsSerial` | 3 devices of 2 users, one handler at a time, heartbeats in time | `TypeOK`, `NoLeak`, `NoGap`, `CacheIsRight`, `OwnGroupCached`, `OwnGroupJoined` | between handlers, subscriptions and cache are exactly the memberships, but for a creator whose creation was rejected; an open connection stays in its user's own group |
| `SubsWorkers` | 2 devices, 2 handlers, several workers, stale room objects, crashes, heartbeats in time, fair | `NoStranger`, `HandlersEnd` | lost cache updates never subscribe a stranger; every handler ends |
| `MessagesOverlap` | 3 users, 2 messages, 2 handlers, 4 events, both deletion settings | `TypeOK`, `TracesAreOfMembers`, `NobodyMissed`, `LastIsStored`, `OnlySenderModifies`, `DeletedStays`, `NoEmptiedNote` | no recipient is lost, only senders modify, a deleted message stays as it was, acknowledgements use notifications up |
| `DirectLocked` | 3 users, 3 workers, 4 ids, SQLite | `TypeOK`, `UniquePair`, `AllOrNothing`, `NoDeadlock`, `KeepsBook` | a pair never has two chats, nothing half done is left but by a creation that was cut short, creations do not wait for each other, and all of it implements `PairBook` |
| `Delivery` | 2 users with a device each, a message from either, queues of 1, 1 fault, fair | `TypeOK`, `UpToDate`, `TickIsTrue`, `KeepsMailbox`, `OfflineLearns`, `EverybodyConfirms` | what is announced is shown, under way or recorded as lost; ticks are true; `Delivery` implements `Mailbox`; who was offline learns, everybody confirms |
| `History` | 2 devices, pages of 2, 5 messages, 2 changes, fair | `TypeOK`, `MissesNoMore`, `QuietRoomIsComplete`, `WalksEnd` | walking through moving pages misses no more than was deleted or was sent between two queries |

Four more runs are expected to fail: each shows that the code does something a
document or comment of the repository excludes.

| Run | Property | What the trace shows |
|---|---|---|
| `RoomReturns` | `DeletedForGood` | an update checked before a deletion saves the room again (`helper_mixins.py:726`), with its creator as a member |
| `RacedLeak` | `NoLeak` | a removal that overlaps `channel_setup` finds no session yet; the connection stays in the room's group (`consumers.py:1197`) |
| `OwnGroupLost` | `OwnGroupStays` | two workers read a cached list and both write it; the user's own group is lost (`cache_utils.py:107`) |
| `DuplicatePair` | `UniquePair` | on PostgreSQL two workers look for a chat of a pair, find none and both commit one (`signals.py:73`) |

### Bounds, and why they are enough

- Three users are an actor, a user acted upon and a bystander, and one more
  than the limit `MaxMembers = 2`, so that the limit is met and exceeded by one.
- One room is enough where properties speak of one room at a time (helpers read
  and write one room; `CreateDirect` looks at others, and `DirectChats` gives it
  four ids: one for each worker and one for a chat that is there already).
- Two handlers are one that is stale and one that makes it so. `MaxBusy` bounds
  the handlers inside a body at once, not the connections.
- `SubsSerial` has two devices of one user, because the cached
  list is shared by devices, and one of another user.
- `SubsWorkers` lets sessions lapse after their connection only, for the sake of
  its size; that `NoStranger` needs no heartbeats, and that a handler can always go
  on, is proved (`NoStrangerListens`, `HandlersGoOn`).
- `ServerSerial` has one handler at a time, which its properties on roles need,
  and two connections, so that the one that is told is not the one that asked; a
  third user is never connected. `ImplementsSubscriptions` is proved for
  overlapping handlers as well.
- `Messages` bounds requests and membership changes together (`MaxEvents = 4`):
  two messages and two events that concern them, e.g. an edit that overlaps a
  deletion, or an acknowledgement and a reaction. Reactions get two contents, to
  be replaced.
- `DirectLocked` has three workers: two that race for one pair and one that
  holds a lock meanwhile. Three users make three pairs, and lists that name one
  user or three.
- `Delivery` needs two users, so that each is sender and recipient, and two
  messages: with a capacity of 1 the second one meets a full queue. One fault
  is a handler that fails, a connection that ends or a worker that dies, after
  which the device comes back under a new channel name.
- `History`: five messages in pages of two leave an odd last page; one change
  shifts a page boundary, two are a deletion and an arrival. Two devices with the
  same page size are what it takes to receive each other's answers. (One device
  with page sizes of 1 to 3, six messages and four changes gives the same result.)
- Room and message ids are never reused, as UUIDs are not.
- `CHECK_DEADLOCK FALSE`: clients may stop asking, and bounded ids run out.
- Symmetry is used in runs of safety properties only, never in `SubsWorkers`,
  `Delivery` and `History`, which check liveness properties.

### Fairness

`FairSpec` asks for weak fairness of `Resume(c)` for each connection: once an
awaited call has returned, the event loop resumes the coroutine. Nothing else is
fair: clients need not send anything, sessions need not lapse, nothing has to
crash. `HandlersEnd` needs no more, since every loop of a handler walks a finite
list fixed before the loop.

In `Delivery`, `FairSpec` is weak fairness of `Serve(d)` for each device: its
consumer goes on with `connect()`, with the event in its queue and with the
handler it is in, and its client connects again after a loss and acknowledges
what it shows. The first is the event loop; the second is the contract of
`docs/source/getting_started.rst`, whose example client acknowledges every
`message.dispatch`. Sending, failing, closing, crashing and lapsing are not
fair. `OfflineLearns` and `EverybodyConfirms` would fail without it: a client
that never comes back is never told. In `History`, `FairSpec` says the same of a
device that asks for the next page and of the handler that answers.

## 4. What is proved

All theorems hold for every value of the constants allowed by the named
assumptions (disjoint names, a positive limit, finitely many users for the
cardinalities): any number of users, rooms, connections and overlapping handlers,
but for those whose statement names a hypothesis: one handler at a time
(`Rooms_proofs!SerialRefinement`, `SerialRoles`, the theorems of
`SubsSerial_proofs`, `Server_proofs!ServerRefinesStore`, `ServerRoles`,
`ServerInSync`) or a database that locks (`DirectChats_proofs!OnePair`,
`Refinement`).

| Theorem | Statement | Along which argument |
|---|---|---|
| `Rooms_proofs!StoreSafety` | types, `UniquePair`, `DirectSize`, `Capacity`, `NoOrphanRows` of `StoreSpec` | these are inductive together with the types and with the fact that a member list in a request is only ever used to shrink what is added |
| `Rooms_proofs!StoreRoles` | `AdminsAreMembers`, `HoldersAreMembers` of `StoreSpec` | needs that the request is fresh |
| `Rooms_proofs!TypeCorrect`, `Safety` | the same safety properties of `Rooms`, with any overlap | the helpers preserve them for every request record, stale or not |
| `Rooms_proofs!NoRowsLeft`, `TwoOrNone` | `NoOrphanRows`, `DirectSize`, with any overlap | parts of `Safety` |
| `Rooms_proofs!LastTakesRoom` | `NeverEmptied` | a room that had members has a row and keeps it only if the helper leaves somebody in; `UpdateDeletedRoom` acts on rooms without rows, which by `NoOrphanRows` have no members |
| `Rooms_proofs!CreatorIsSafe` | `CreatorStays` | case split over the helpers |
| `Rooms_proofs!SerialRefinement`, `SerialRoles` | with one handler `Rooms` implements `StoreSpec`, hence roles belong to members | the invariant that the pending request is what a check would fetch now: `Check` maps to a stutter, `Act` to one step of the store |
| `Subscriptions_proofs!TypeCorrect` | `TypeOK` | strengthened by what a fan-out has in hand while it runs |
| `Subscriptions_proofs!NoStrangerListens` | `NoStranger`, with lapses, crashes, any number of workers | every local variable that will be written somewhere holds only groups its owner was entitled to |
| `Subscriptions_proofs!OwnGroupIsCached` | `OwnGroupCached` | from `store` on the own group is on the list, and one worker's updates never take it off |
| `Subscriptions_proofs!OwnGroupIsJoined` | `OwnGroupJoined` | a cleanup holds only channels of closed connections |
| `Subscriptions_proofs!HandlersGoOn` | a handler that awaits can be resumed, resuming it is `Progress`, only a crash interferes | a fan-out that goes on has a user left and is at one of them; this is the safety half of `HandlersEnd`: `Progress` descends from users left to the place in the handler to channels left, all of them finite |
| `SubsSerial_proofs!AlwaysInSync` | in every state, also inside a handler, the cached lists, and with `Timely` the groups, differ from the member lists by what the handler has still to do; under `Serial` | the inductive invariant itself, see below |
| `SubsSerial_proofs!NobodyLeft`, `EverybodyIn`, `ListsAreRight` | `NoLeak`, `NoGap`, `CacheIsRight`, under `Serial`; the first two also under `Timely` | `AlwaysInSync` where no handler is under way |
| `Server_proofs!ServerIsRooms`, `ServerSafety`, `ServerSteps` | `ServerSpec => Spec` of `Rooms`; hence `UniquePair`, `DirectSize`, `Capacity`, `NoOrphanRows`, `NeverEmptied`, `CreatorStays`, with any overlap | every step is a step of `Rooms` or leaves rooms and requests alone; a worker that dies is `Abandon` |
| `Server_proofs!ServerRefinesStore`, `ServerRoles` | `RefinesStore`, hence `AdminsAreMembers`, `HoldersAreMembers`, if `MaxBusy =< 1` | `AllFresh`, see below |
| `Server_proofs!ServerImplementsSubscriptions` | `ImplementsSubscriptions`, with any overlap | helper by helper, see below |
| `Server_proofs!ServerNoStranger` | `NoStranger` of the server, with any overlap | from the theorem before and `NoStrangerListens` |
| `Server_proofs!ServerInSync` | `NoLeak`, `NoGap`, `CacheIsRight` of the server, if `MaxBusy = 1`, nothing crashes and heartbeats are in time | from the same theorem and `SubsSerial_proofs` |
| `Messages_proofs!TypeCorrect` | `TypeOK` of `Messages` | strengthened by `Placed` (a stored message has a room and a sender) and `Fit` (the messages a pending request names have been stored, and for an edit or a deletion are its user's) |
| `Messages_proofs!DeletionIsFinal`, `SenderModifies` | `DeletedStays`, `OnlySenderModifies` | from `Fit`; every step writes nothing, runs one helper, or changes members (`StepKinds`) |
| `Messages_proofs!RecipientsKept` | `NobodyMissed` | inductive with: a message whose helper finished has been stored; an acknowledgement removes only its own user and marks the delivery, every other helper only adds recipients or takes the message away |
| `Messages_proofs!LastMessageStored` | `LastIsStored` | the `last_message` in a stale room object was stored, in that room; whether it still is, the foreign key asks at the save |
| `Messages_proofs!RecordedOfMembers` | `TracesAreOfMembers` | the user of a pending request was a member of every room it will write in (`Entitled`), and members are never struck from `ever` |
| `Messages_proofs!NotesHaveReaders` | `NoEmptiedNote` | only sending and reacting create notifications, and those are for the members other than the user |
| `DirectChats_proofs!TypeCorrect`, `NothingHalf` | `TypeOK`, `AllOrNothing`, with either isolation | strengthened by `Stages`: what a worker at each query has in hand, and that two workers never create the same room |
| `DirectChats_proofs!OnePair` | `UniquePair`, if the database locks | strengthened by `Guarded`: a worker that has looked and found no chat of its pair still would find none, since nobody commits while it has read |
| `DirectChats_proofs!SomebodyAdvances` | while creations are under way, one of them finds the database ready, with either isolation | at most one worker has written (`OneWriter`); if none is before its insertion, the one that has written, or else any other, has no open transaction in its way |
| `DirectChats_proofs!Refinement` | `KeepsBook`, if the database locks | `Commit` maps to `Open`, `DeleteChat` to `Close`, everything else to a stutter |
| `Delivery_proofs!TypeCorrect` | `TypeOK` of `Delivery` | with `Epochs`: every connection after the first was paid for by a fault, so channel names stay in their range |
| `Delivery_proofs!StaysJoined` | every connected device's channel is in the groups | lapsed channels are closed for good (`LapsedAreClosed`), so no cleanup discards one in use |
| `Delivery_proofs!NothingMissed` | `UpToDate` | from `StaysJoined`: a dispatch reaches or is recorded against every open device, and a device that opens later reads the notification |
| `Delivery_proofs!TicksAreTrue` | `TickIsTrue` | strengthened by `Fit`: what tasks, queues, rows and clients hold about a message is true, and rows only grow (`RowsGrow`) |
| `Delivery_proofs!Refinement` | `KeepsMailbox` | by `Fit`; `Announce` maps to `Post`, `Open` and a `Broadcast` of a message to `Show`, `Acknowledge` to `Confirm` |
| `History_proofs!TypeCorrect` | `TypeOK` of `History` | numbers of messages are bounded by the changes that made them |
| `History_proofs!NoMoreIsMissed` | `MissesNoMore` | by accounting, see below |
| `History_proofs!QuietIsComplete` | `QuietRoomIsComplete` | in a room without changes every request out is for a page that exists, every answer is that page (`QuietPage`), and a device has exactly the ranks before the page it waits for (`Complete`), so it does not matter whose answer it takes |
| `History_proofs!WalksGoOn` | an answer ends a walk or moves it one page on, never past the pages the room ever had | a page that is gone is answered with the last one, which has no next; the safety half of `WalksEnd` |

Each invariant is checked by TLC as well, directly or as the conjunction its
theorem strengthens. The proof modules of refinements assume nothing that TLC's
instances do not satisfy, and the assumption on `Isolation` is stated in the
theorems that need it.

### Subscriptions of serial handlers

`Serial` has four parts. `MaxBusy = 1` is what the three properties are about:
`RacedLeak` shows what happens when handlers overlap. `~ Crashes` excludes
workers that die in the middle of a fan-out. `Conn` is finite so that the
cardinality in `MayStart` means something. `~ Stale` says that a helper finds the
room as its check saw it; that this follows from `MaxBusy = 1` is part of
`Server_proofs!ServerImplementsSubscriptions`. How many workers there are makes no
difference, since a cached list that is read is written back before any other
handler runs. `NoLeak` and `NoGap` need `Timely` too, which excludes sessions
that lapse under an open connection (section 5 says what the code does then);
`CacheIsRight` does not, because a fan-out changes the list of a user whatever
sessions it finds.

`NoLeak`, `NoGap` and `CacheIsRight` speak of states in which every handler has
ended, and none of them is inductive. `SInv` says what replaces them inside one:
at most one connection is in a handler (`Alone`); lists and groups are right but
for the users a fan-out has not finished with (`Pending`); the fan-out says what
the member list says, and each device of the user it is at was touched or is on
its list (`Fanning`); a connection that arrives is in no group and has no session
yet, and the list it restores is the cached one (`Arriving`, `Restoring`); rooms
live as long as they have members and were not heard of before (`RoomsKnown`).

`NoGap` and `CacheIsRight` except the users in `untold`: a creation whose property
is rejected has made its creator a member and ends before the fan-out, so the
creator hears nothing of that room until a later change names them
(`serializers.py:294`). `NoLeak` excepts nobody.

### Rooms and subscriptions together

The inductive invariant of `Server` is `VInv`: the invariant `IInv` of `Rooms`; a
connection with a request is open and asks for its own user (`Asking`); at most
`MaxBusy` connections are inside a handler, one between check and helper included
(`Bounded`); who is a member, and who created a group or channel, was a member
once, and a row without members is a direct chat's (`Remembered`); and with
`MaxBusy =< 1` a request in progress is what its check would hand over now
(`AllFresh`), because nobody else can act in between.

`ServerImplementsSubscriptions` takes each helper in turn (`CreateSeen` ...
`ModifySeen`) and shows that its effect on the members, the users its handler
tells and the users it forgets are those of an operation of `Subscriptions`, or
invisible to it. What comes of it: an addition that is refused, for the limit or
because the room is gone, starts no fan-out; a removal may name users who left
meanwhile, and is then followed by their fan-out all the same; a removal of all
who are left deletes the room and tells nobody; leaving or deleting a room that
is gone changes nothing; and an update is the one way a room without a row comes
back, with nobody told (`SaveDeletedRoom`). With `AllFresh` the guards that
`Subscriptions` has under `~ Stale` follow.

`P` in `Server_proofs` is the same instance as `S`, taken from the proof module in
order to cite its theorems; `SameSpec` says so by expanding both.

### What a walk misses

Let A be the messages that live and r(m) the rank of m, counted from the newest
(`RankIn`). For a walk that waits for page p of size z, `Accounted` says that of
the messages that were there at the beginning, live and were not got, at most
`removed` have a rank of (p - 1) z or less. An arrival lets ranks only grow
(`PassedAdd`); a deletion lowers each by at most one, so it moves at most one
message over the line (`PassedRemove`), because ranks are injective; a page that
is read takes all ranks up to p z (`ReadAccounted`). On the last page, which ends
at the count of the first query, what is beyond it are as many as the room has
more than it had then (`RankBeyond`), and `torn` counts those. For a device that
took another's answer this fails, as its page is then not the one it asked for.

### What is only model-checked

- `NoDeadlock` speaks of `ENABLED`; `SomebodyAdvances` proves the same of the
  guards of the steps.
- `HandlersEnd`, `OfflineLearns`, `EverybodyConfirms`, `WalksEnd` are liveness
  properties under fairness; `HandlersGoOn` and `WalksGoOn` prove the safety
  half of the first and the last.
- The violations: they are traces.

## 5. Hazards and divergences

`PROJECT.json` lists the hazards with the properties that watch them. Further
divergences are visible in the models but have no run of their own:

- A stale member list makes an admin of a user who was just removed
  (`helper_mixins.py:742`); with overlap `AdminsAreMembers` fails.
- Nothing re-checks the permission before the helper: a user who was removed
  meanwhile still acts (`permissions/decorators.py:227`).
- A rejected property leaves a direct chat without participants
  (`serializers.py:294`); that is why `DirectSize` allows none.
- Deleting an account removes its m2m rows without `m2m_changed`; a group whose
  creator left may stay with nobody in it (`signals.py:37`). `NeverEmptied`
  exempts this step and no other.
- A reaction that was checked before a soft delete announces the deleted message
  (`helper_mixins.py:194`; `DeletedIsSilent` of `Messages`).
- A message whose media are rejected stays in the room, announced to nobody
  (`helper_mixins.py:130`; `EveryMessageAnnounced` of `Messages`).
- A property that is rejected, a worker that dies or a database that stays locked
  leaves a direct chat without participants, and nothing removes it
  (`serializers.py:294`, against "ALL OR NOTHING" in the comment of line 260);
  `AllOrNothing` exempts these rooms. With them in place the pair can still open
  another chat.
- A handler that fails or a worker that dies between the notification and
  `group_send` leaves devices that stay connected without the message until they
  connect again (`consumers.py:257`), and so does a full queue. `UpToDate` names
  both, and `EverybodyConfirms` excepts them.
- A worker that dies between `group_add` and `register_session` leaves a channel
  name in the groups that no cleanup ever finds (`consumers.py:1206`).
- The example client acknowledges every message it is shown, its own included
  (`docs/source/getting_started.rst:131`). The sender is then in `delivered_to`
  and sees a tick of its own, while `docs/source/messages.rst:36` speaks of
  recipients. `TickIsTrue` therefore says that somebody has acknowledged.
- `room.messages` answers to the user's own group, so another device that waits
  for the same page takes an answer that may be older than its own request
  (`consumers.py:546`); `MissesNoMore` speaks of devices that did not.
- Between `Paginator.count` and the query of the page a new message may push the
  oldest one out of the last page (`helper_mixins.py:391`). With a negative size
  the paginator raises; `page` in the answer is the page asked for even when the
  last one was returned.
- A creator who leaves and is added again is not an admin and cannot be made
  one: `add_admin` skips the creator (`helper_mixins.py:738`).
- A connection whose session lapsed is skipped when its user is removed
  (`consumers.py:1098`), and after another device's cleanup it is in no group
  although a heartbeat revives it (`consumers.py:1181`). `SubsSerial` therefore
  assumes heartbeats in time (`Timely`).
- `disconnect` cleans up before its own session has expired, so the closed
  channel stays in its groups (`consumers.py:155`).
- Removing everybody deletes the room under the helper, which then raises, and
  the channels are never discarded (`helper_mixins.py:565`).
- A message in a room with no other member gets a notification without
  recipients, which nothing deletes (`handler_mixins.py:106`).

## 6. Plan

Done: the modules, runs and theorems above. What would come next:

1. Membership changes inside `Delivery`, so that who is told of a message follows
   the rooms as well.
2. Which columns of a room a save of a stale row puts back.

## 7. What is not modelled, and why

- `Server` deletes no accounts. `Rooms` does, but that takes members away without
  a word to any consumer: the channels of a deleted account stay in their groups
  (`signals.py:37`).
- Interleavings of SQL statements of several processes within a helper other
  than the creation of direct chats and the pages of `room.messages`, and a
  worker that dies in the middle of such a helper.
- Settings and class loading: they are read at import or first use and
  kept; a running server has no step that changes them. (`api_settings.reload`
  runs in tests.)
- `Delivery` leaves out who may send, members that come and go, message deletion
  and reactions (module `Messages`), `ENABLE_NOTIFICATION = False`, and a
  connection whose notification query fails.
- Eviction of the cache: `docs/deployment.rst` demands a persistent cache.
- Session rows are never deleted by the code; a connection has one row for ever.
- Which members may write in a locked group or a channel: `Messages` lets any
  member's check succeed or not.
- Replies, forwards and other extra fields of a message, its content and its
  attachments: no property tells them apart. `is_edited` stands for an edit.
- Deleted accounts in `Messages` (their messages go by foreign key).
- `ENABLE_NOTIFICATION = False`: fewer writes, no new state.
- Authentication, frames, JSON, serializer layout, HTML cleaning, MIME checks,
  admin pages, routing, migrations, and the demo project and customisation apps:
  no state of their own, or generated, or examples.
