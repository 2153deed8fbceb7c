------------------------------ MODULE Delivery ------------------------------
(***************************************************************************)
(* How a message gets to the devices of a room's members.                  *)
(*                                                                         *)
(* consumers.py: connect, the send and acknowledge handlers, send_group    *)
(* and broadcast_group; the helpers behind them; and Channels' layer, with *)
(* one bounded queue per channel name.  A consumer serves one thing at a   *)
(* time, a frame of its client or an event of its channel, and what comes  *)
(* in meanwhile waits.  Each action is what runs between two awaits.       *)
(*                                                                         *)
(* The members of the room stay the same and every cached list holds the   *)
(* room's group and the user's own (module Subscriptions), so a channel    *)
(* joins both or neither.  Open connections send their heartbeats in time. *)
(* ENABLE_NOTIFICATION is on.  Clients acknowledge what they are shown, as *)
(* the example of docs/source/getting_started.rst does.                    *)
(***************************************************************************)
EXTENDS Naturals, Sequences

CONSTANTS
    User,            \* the members of the room
    Device,          \* what they connect with
    Owner,           \* Owner[d]: the user of device d
    Message,         \* the UUIDs messages may be given
    Author,          \* Author[m]: the device that sends m
    Capacity,        \* of a channel's queue in the layer
    MaxFaults,       \* how many handlers fail and connections end (a bound)
    None

ASSUME OwnerAssumption    == Owner \in [Device -> User]
ASSUME AuthorAssumption   == Author \in [Message -> Device]
ASSUME CapacityAssumption == Capacity \in Nat \ {0}
ASSUME BoundAssumption    == MaxFaults \in Nat
ASSUME NoneAssumption     == None \notin User

VARIABLES
    wire,       \* wire[d]: "off", how far connect() is, or "open"
    epoch,      \* epoch[d]: which connection of d it is
    faults,     \* how many handlers failed and connections ended
    joined,     \* the channel names in the groups of room and user
    session,    \* the channel names that have a Session row
    lapsed,     \* those whose last_seen is older than INACTIVITY_THRESHOLD
    queue,      \* queue[c]: the events waiting in the layer for c
    task,       \* task[d]: what the running handler of d has still to do
    sender,     \* sender[m]: Message.sender, None while there is no row
    posted,     \* the messages that were given a notification
    recipients, \* recipients[m]: of m's notification, {} without one
    delivered,  \* delivered[m]: Message.delivered_to
    seen,       \* seen[d]: the messages device d has shown
    todo,       \* todo[d]: what d was shown and has not acknowledged
    ticked,     \* ticked[d]: the messages d shows as delivered
    cut,        \* the messages whose handler ended before group_send (history)
    dropped     \* pairs <<m, c>>: c's queue was full for m (history)

links   == <<wire, epoch, faults>>
groups  == <<joined, session, lapsed>>
rows    == <<sender, posted, recipients, delivered>>
clients == <<seen, todo, ticked>>
history == <<cut, dropped>>
vars    == <<links, groups, queue, task, rows, clients, history>>

Channel    == Device \X (1 .. MaxFaults + 1)
Event      == [kind : {"message", "delivered"}, ids : SUBSET Message]
Task       == [do : {"announce", "dispatch", "tell"}, ids : SUBSET Message]
Idle       == [do |-> "nothing", ids |-> {}]
channel(d) == <<d, epoch[d]>>

TypeOK ==
    /\ wire \in [Device -> {"off", "cleaned", "joined", "registered", "open"}]
    /\ epoch \in [Device -> 0 .. MaxFaults + 1]
    /\ faults \in 0 .. MaxFaults
    /\ joined \subseteq Channel
    /\ session \subseteq Channel
    /\ lapsed \subseteq session
    /\ queue \in [Channel -> Seq(Event)]
    /\ task \in [Device -> Task \cup {Idle}]
    /\ sender \in [Message -> User \cup {None}]
    /\ posted \subseteq Message
    /\ recipients \in [Message -> SUBSET User]
    /\ delivered \in [Message -> SUBSET User]
    /\ seen \in [Device -> SUBSET Message]
    /\ todo \in [Device -> SUBSET Message]
    /\ ticked \in [Device -> SUBSET Message]
    /\ cut \subseteq Message
    /\ dropped \subseteq Message \X Channel

Init ==
    /\ wire = [d \in Device |-> "off"]
    /\ epoch = [d \in Device |-> 0]
    /\ faults = 0
    /\ joined = {} /\ session = {} /\ lapsed = {}
    /\ queue = [c \in Channel |-> <<>>]
    /\ task = [d \in Device |-> Idle]
    /\ sender = [m \in Message |-> None]
    /\ posted = {}
    /\ recipients = [m \in Message |-> {}]
    /\ delivered = [m \in Message |-> {}]
    /\ seen = [d \in Device |-> {}]
    /\ todo = [d \in Device |-> {}]
    /\ ticked = [d \in Device |-> {}]
    /\ cut = {} /\ dropped = {}

-----------------------------------------------------------------------------
(***************************************************************************)
(* connect()                                                               *)
(***************************************************************************)
Expired(u) == {c \in lapsed : Owner[c[1]] = u}

\* channel_cleanup, under a channel name that was never used before.
CleanUp(d) ==
    /\ wire[d] = "off"
    /\ wire' = [wire EXCEPT ![d] = "cleaned"]
    /\ epoch' = [epoch EXCEPT ![d] = @ + 1]
    /\ joined' = joined \ Expired(Owner[d])
    /\ UNCHANGED <<faults, session, lapsed, queue, task, rows, clients,
                   history>>

\* Mutant of Join: the cached list is empty.
JoinNothing(d) ==
    /\ wire[d] = "cleaned"
    /\ wire' = [wire EXCEPT ![d] = "joined"]
    /\ UNCHANGED <<epoch, faults, groups, queue, task, rows, clients, history>>

\* channel_setup: the group_adds, and then the Session row.
Join(d) ==
    /\ wire[d] = "cleaned"
    /\ wire' = [wire EXCEPT ![d] = "joined"]
    /\ joined' = joined \cup {channel(d)}
    /\ UNCHANGED <<epoch, faults, session, lapsed, queue, task, rows, clients,
                   history>>

Register(d) ==
    /\ wire[d] = "joined"
    /\ wire' = [wire EXCEPT ![d] = "registered"]
    /\ session' = session \cup {channel(d)}
    /\ UNCHANGED <<epoch, faults, joined, lapsed, queue, task, rows, clients,
                   history>>

\* The device shows the messages M.
Shows(d, M) ==
    /\ seen' = [seen EXCEPT ![d] = @ \cup M]
    /\ todo' = [todo EXCEPT ![d] = @ \cup M]
    /\ UNCHANGED ticked

\* Mutant of Open: the pending notifications are not sent.
OpenSilently(d) ==
    /\ wire[d] = "registered"
    /\ wire' = [wire EXCEPT ![d] = "open"]
    /\ UNCHANGED <<epoch, faults, groups, queue, task, rows, clients, history>>

\* get_and_group_chat_notifications
Pending(u) == {m \in Message : u \in recipients[m]}

\* accept() and dispatch_chat_notifications()
Open(d) ==
    /\ wire[d] = "registered"
    /\ wire' = [wire EXCEPT ![d] = "open"]
    /\ Shows(d, Pending(Owner[d]))
    /\ UNCHANGED <<epoch, faults, groups, queue, task, rows, history>>

-----------------------------------------------------------------------------
(***************************************************************************)
(* The channel layer.                                                      *)
(***************************************************************************)
Full(c) == Len(queue[c]) >= Capacity

\* group_send puts the event in the queue of every channel of the group that
\* has room for it, and says nothing about the others.
GroupSend(C, e) ==
    /\ queue' = [c \in Channel |->
           IF c \in C /\ ~ Full(c) THEN Append(queue[c], e) ELSE queue[c]]
    /\ dropped' = IF e.kind = "message"
                  THEN dropped \cup (e.ids \X {c \in C : Full(c)})
                  ELSE dropped

\* A consumer that has nothing to do takes the next event: broadcast_group.
Broadcast(d) ==
    /\ wire[d] = "open"
    /\ task[d] = Idle
    /\ queue[channel(d)] # <<>>
    /\ queue' = [queue EXCEPT ![channel(d)] = Tail(@)]
    /\ LET e == Head(queue[channel(d)]) IN
       IF e.kind = "message"
       THEN Shows(d, e.ids)
       ELSE /\ ticked' = [ticked EXCEPT ![d] = @ \cup e.ids]
            /\ UNCHANGED <<seen, todo>>
    /\ UNCHANGED <<links, groups, task, rows, history>>

-----------------------------------------------------------------------------
(***************************************************************************)
(* The handlers.                                                           *)
(***************************************************************************)
Begins(d, do, M) ==
    /\ wire[d] = "open"
    /\ task[d] = Idle
    /\ task' = [task EXCEPT ![d] = [do |-> do, ids |-> M]]

Continues(d, do, next) ==
    /\ task[d].do = do
    /\ task' = [task EXCEPT ![d] = next]

\* Mutant of Send: the serializer is given the device.
SendAsDevice(d, m) ==
    /\ sender[m] = None
    /\ d = Author[m]
    /\ Begins(d, "announce", {m})
    /\ sender' = [sender EXCEPT ![m] = d]
    /\ UNCHANGED <<links, groups, queue, posted, recipients, delivered,
                   clients, history>>

\* _create_message: the row, then the notification and its recipients, then
\* the broadcast.  Another worker process sees each of the three.
Send(d, m) ==
    /\ sender[m] = None
    /\ d = Author[m]
    /\ Begins(d, "announce", {m})
    /\ sender' = [sender EXCEPT ![m] = Owner[d]]
    /\ UNCHANGED <<links, groups, queue, posted, recipients, delivered,
                   clients, history>>

\* Mutant of Announce: the sender stays among the recipients.
AnnounceToAll(d) ==
    /\ Continues(d, "announce", [task[d] EXCEPT !.do = "dispatch"])
    /\ posted' = posted \cup task[d].ids
    /\ recipients' = [m \in Message |->
           IF m \in task[d].ids THEN User ELSE recipients[m]]
    /\ UNCHANGED <<links, groups, queue, sender, delivered, clients, history>>

Announce(d) ==
    /\ Continues(d, "announce", [task[d] EXCEPT !.do = "dispatch"])
    /\ posted' = posted \cup task[d].ids
    /\ recipients' = [m \in Message |->
           IF m \in task[d].ids THEN User \ {Owner[d]} ELSE recipients[m]]
    /\ UNCHANGED <<links, groups, queue, sender, delivered, clients, history>>

Dispatch(d) ==
    /\ Continues(d, "dispatch", Idle)
    /\ GroupSend(joined, [kind |-> "message", ids |-> task[d].ids])
    /\ UNCHANGED <<links, groups, rows, clients, cut>>

\* The client acknowledges what it was shown; _message_acknowledged.
Acknowledge(d) ==
    \E M \in SUBSET todo[d] \ {{}} :
        /\ Begins(d, "tell", M)
        /\ todo' = [todo EXCEPT ![d] = @ \ M]
        /\ recipients' = [m \in Message |->
               IF m \in M THEN recipients[m] \ {Owner[d]} ELSE recipients[m]]
        /\ delivered' = [m \in Message |->
               IF m \in M THEN delivered[m] \cup {Owner[d]} ELSE delivered[m]]
        /\ UNCHANGED <<links, groups, queue, sender, posted, seen, ticked,
                       history>>

\* Mutants of Tell: the room's group is told; the handler never returns.
TellRoom(d) ==
    /\ Continues(d, "tell", Idle)
    /\ GroupSend(joined, [kind |-> "delivered", ids |-> task[d].ids])
    /\ UNCHANGED <<links, groups, rows, clients, cut>>
TellForever(d) ==
    /\ task[d].ids # {}
    /\ Continues(d, "tell", [task[d] EXCEPT !.ids = {}])
    /\ UNCHANGED <<links, groups, queue, rows, clients, history>>

\* messagedelivered.dispatch to the own group of one sender after the other.
Tell(d) ==
    \E m \in task[d].ids :
        LET told == {n \in task[d].ids : sender[n] = sender[m]}
            rest == task[d].ids \ told IN
        /\ Continues(d, "tell",
               IF rest = {} THEN Idle ELSE [do |-> "tell", ids |-> rest])
        /\ GroupSend({c \in joined : Owner[c[1]] = sender[m]},
                     [kind |-> "delivered", ids |-> told])
        /\ UNCHANGED <<links, groups, rows, clients, cut>>

-----------------------------------------------------------------------------
(***************************************************************************)
(* What goes wrong.                                                        *)
(***************************************************************************)
Fault ==
    /\ faults < MaxFaults
    /\ faults' = faults + 1

Unsent(d) == IF task[d].do \in {"announce", "dispatch"} THEN task[d].ids ELSE {}

\* The layer or the database raises: the exception decorator reports an error
\* to the client and the rest of the handler is skipped.
Fail(d) ==
    /\ task[d] # Idle
    /\ Fault
    /\ task' = [task EXCEPT ![d] = Idle]
    /\ cut' = cut \cup Unsent(d)
    /\ UNCHANGED <<wire, epoch, groups, queue, rows, clients, dropped>>

Gone(d) ==
    /\ Fault
    /\ wire' = [wire EXCEPT ![d] = "off"]
    /\ todo' = [todo EXCEPT ![d] = {}]
    /\ UNCHANGED <<epoch, session, lapsed, queue, rows, seen, ticked, dropped>>

\* disconnect() runs when no other handler does, and cleans up first.
Close(d) ==
    /\ wire[d] = "open"
    /\ task[d] = Idle
    /\ Gone(d)
    /\ joined' = joined \ Expired(Owner[d])
    /\ UNCHANGED <<task, cut>>

\* The worker dies: nothing is cleaned up.
Crash(d) ==
    /\ wire[d] # "off"
    /\ Gone(d)
    /\ task' = [task EXCEPT ![d] = Idle]
    /\ cut' = cut \cup Unsent(d)
    /\ UNCHANGED joined

Closed(c) == wire[c[1]] = "off" \/ epoch[c[1]] # c[2]

Lapse(c) ==
    /\ c \in session \ lapsed
    /\ Closed(c)
    /\ lapsed' = lapsed \cup {c}
    /\ UNCHANGED <<links, joined, session, queue, task, rows, clients, history>>

-----------------------------------------------------------------------------
\* What a device and its consumer do without being asked.
Serve(d) ==
    \/ CleanUp(d) \/ Join(d) \/ Register(d) \/ Open(d)
    \/ Broadcast(d) \/ Announce(d) \/ Dispatch(d)
    \/ Acknowledge(d) \/ Tell(d)

Next ==
    \/ \E d \in Device :
          \/ Serve(d)
          \/ \E m \in Message : Send(d, m)
          \/ Fail(d) \/ Close(d) \/ Crash(d)
    \/ \E c \in Channel : Lapse(c)

Spec == Init /\ [][Next]_vars

\* Consumers and clients go on: the event loop serves every connection, and a
\* client that lost its connection connects again.
FairSpec == Spec /\ \A d \in Device : WF_vars(Serve(d))

-----------------------------------------------------------------------------
(***************************************************************************)
(* What holds in every reachable state.                                    *)
(***************************************************************************)
Queued(c, m) ==
    \E i \in 1 .. Len(queue[c]) :
        queue[c][i].kind = "message" /\ m \in queue[c][i].ids

\* A device that is connected has shown, or is about to be sent, everything
\* still announced to its user: connect() joins the groups before it reads the
\* notifications, so no message falls between the two (consumers.py:137).  The
\* exceptions are a full queue and a handler that ended before group_send.
UpToDate ==
    \A d \in Device, m \in Message :
        wire[d] = "open" /\ Owner[d] \in recipients[m] =>
            \/ m \in seen[d]
            \/ Queued(channel(d), m)
            \/ \E e \in Device : task[e].do = "dispatch" /\ m \in task[e].ids
            \/ m \in cut
            \/ <<m, channel(d)>> \in dropped

\* "Delivered" is shown on the devices of the sender only, and whoever counts
\* as delivered to has a device that showed the message (consumers.py:292).
TickIsTrue ==
    /\ \A d \in Device : \A m \in ticked[d] :
          sender[m] = Owner[d] /\ delivered[m] # {}
    /\ \A m \in Message : \A u \in delivered[m] :
          \E d \in Device : Owner[d] = u /\ m \in seen[d]

\* What the notifications promise.
Box == INSTANCE Mailbox WITH
    waiting   <- recipients,
    confirmed <- delivered,
    shown     <- [u \in User |->
                     UNION {seen[d] : d \in {x \in Device : Owner[x] = u}}]

\* Connections, queues and crashes make no difference to that promise: nothing
\* is shown before it is announced or acknowledged before it is shown.
KeepsMailbox == Box!Spec

-----------------------------------------------------------------------------
(***************************************************************************)
(* What happens in the end.                                                *)
(***************************************************************************)

\* Whoever is off while a message waits is shown it on connecting, whatever
\* failed when it was sent (consumers.py:144).
OfflineLearns ==
    \A d \in Device, m \in Message :
        wire[d] = "off" /\ Owner[d] \in recipients[m]
            ~> m \in seen[d] \/ Owner[d] \notin recipients[m]

\* A message that was announced is acknowledged by everybody, unless its
\* handler failed or a queue was full for it.
EverybodyConfirms ==
    \A m \in Message, u \in User :
        u \in recipients[m] /\ (\E d \in Device : Owner[d] = u)
            ~> \/ u \notin recipients[m]
               \/ m \in cut
               \/ \E c \in Channel : <<m, c>> \in dropped
=============================================================================
