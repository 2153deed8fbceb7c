-------------------------- MODULE Delivery_proofs --------------------------
EXTENDS Delivery, TLAPS

Epochs ==
    \A d \in Device :
        /\ epoch[d] =< faults + 1
        /\ wire[d] = "off" => epoch[d] =< faults
        /\ wire[d] # "off" => epoch[d] >= 1

Typed == TypeOK /\ Epochs

LEMMA ChannelType ==
    ASSUME Typed, NEW d \in Device, wire[d] # "off"
    PROVE  channel(d) \in Channel
BY BoundAssumption DEF Typed, TypeOK, Epochs, channel, Channel

LEMMA GroupSendType ==
    ASSUME TypeOK, NEW C \in SUBSET Channel, NEW e \in Event, GroupSend(C, e)
    PROVE  /\ queue' \in [Channel -> Seq(Event)]
           /\ dropped' \subseteq Message \X Channel
<1>1. queue' \in [Channel -> Seq(Event)]
  BY DEF GroupSend, TypeOK
<1>2. dropped' \subseteq Message \X Channel
  BY DEF GroupSend, TypeOK, Event
<1> QED
  BY <1>1, <1>2

LEMMA UnsentType ==
    ASSUME TypeOK, NEW d \in Device
    PROVE  Unsent(d) \subseteq Message
<1>1. task[d] \in Task \/ task[d] = Idle
  BY DEF TypeOK
<1>2. task[d].ids \subseteq Message
  BY <1>1 DEF Task, Idle
<1> QED
  BY <1>2 DEF Unsent

\* What Broadcast does to the clients, without the LET.
LEMMA BroadcastCases ==
    ASSUME Typed, NEW d \in Device, Broadcast(d)
    PROVE  \E e \in Event :
               /\ e = Head(queue[channel(d)])
               /\ Tail(queue[channel(d)]) \in Seq(Event)
               /\ \/ /\ e.kind = "message"
                     /\ Shows(d, e.ids)
                  \/ /\ e.kind = "delivered"
                     /\ ticked' = [ticked EXCEPT ![d] = @ \cup e.ids]
                     /\ UNCHANGED <<seen, todo>>
<1> DEFINE e == Head(queue[channel(d)])
<1>1. channel(d) \in Channel
  BY ChannelType DEF Broadcast
<1>2. queue[channel(d)] \in Seq(Event) /\ queue[channel(d)] # <<>>
  BY <1>1 DEF Broadcast, Typed, TypeOK
<1>3. e \in Event /\ Tail(queue[channel(d)]) \in Seq(Event)
  BY <1>2
<1>4. e.kind \in {"message", "delivered"}
  BY <1>3 DEF Event
<1>5. IF e.kind = "message"
      THEN Shows(d, e.ids)
      ELSE /\ ticked' = [ticked EXCEPT ![d] = @ \cup e.ids]
           /\ UNCHANGED <<seen, todo>>
  BY DEF Broadcast
<1> HIDE DEF e
<1>6. \/ /\ e.kind = "message"
         /\ Shows(d, e.ids)
      \/ /\ e.kind = "delivered"
         /\ ticked' = [ticked EXCEPT ![d] = @ \cup e.ids]
         /\ UNCHANGED <<seen, todo>>
  BY <1>4, <1>5
<1>7. e = Head(queue[channel(d)])
  BY DEF e
<1> QED
  BY <1>3, <1>6, <1>7

LEMMA TypedInit == Init => Typed
BY BoundAssumption, NoneAssumption DEF Init, Typed, TypeOK, Epochs, Idle, Channel

LEMMA TypedStep == Typed /\ [Next]_vars => Typed'
<1> SUFFICES ASSUME Typed, [Next]_vars
             PROVE  Typed'
  OBVIOUS
<1> USE BoundAssumption, NoneAssumption, OwnerAssumption, AuthorAssumption
    DEF Typed, TypeOK, Epochs
<1>1. ASSUME NEW d \in Device, CleanUp(d)
      PROVE  Typed'
  BY <1>1 DEF CleanUp, rows, clients, history, Channel
<1>2. ASSUME NEW d \in Device, Join(d)
      PROVE  Typed'
  <2>1. channel(d) \in Channel
    BY <1>2, ChannelType DEF Join
  <2> QED
    BY <1>2, <2>1 DEF Join, rows, clients, history
<1>3. ASSUME NEW d \in Device, Register(d)
      PROVE  Typed'
  <2>1. channel(d) \in Channel
    BY <1>3, ChannelType DEF Register
  <2> QED
    BY <1>3, <2>1 DEF Register, rows, clients, history
<1>4. ASSUME NEW d \in Device, Open(d)
      PROVE  Typed'
  BY <1>4 DEF Open, Shows, Pending, rows, groups, history
<1>5. ASSUME NEW d \in Device, Broadcast(d)
      PROVE  Typed'
  <2>1. channel(d) \in Channel
    BY <1>5, ChannelType DEF Broadcast
  <2>2. PICK e \in Event :
            /\ Tail(queue[channel(d)]) \in Seq(Event)
            /\ \/ Shows(d, e.ids)
               \/ /\ ticked' = [ticked EXCEPT ![d] = @ \cup e.ids]
                  /\ UNCHANGED <<seen, todo>>
    BY <1>5, BroadcastCases
  <2>3. e.ids \subseteq Message
    BY DEF Event
  <2>5. queue' \in [Channel -> Seq(Event)]
    BY <1>5, <2>1, <2>2 DEF Broadcast
  <2>6. /\ seen' \in [Device -> SUBSET Message]
        /\ todo' \in [Device -> SUBSET Message]
        /\ ticked' \in [Device -> SUBSET Message]
    <3>1. CASE Shows(d, e.ids)
      BY <2>3, <3>1 DEF Shows
    <3>2. CASE /\ ticked' = [ticked EXCEPT ![d] = @ \cup e.ids]
               /\ UNCHANGED <<seen, todo>>
      BY <2>3, <3>2
    <3> QED
      BY <2>2, <3>1, <3>2
  <2> QED
    BY <1>5, <2>5, <2>6 DEF Broadcast, links, rows, groups, history
<1>6. ASSUME NEW d \in Device, Announce(d)
      PROVE  Typed'
  BY <1>6 DEF Announce, Continues, Task, Idle, links, groups, clients, history
<1>7. ASSUME NEW d \in Device, Dispatch(d)
      PROVE  Typed'
  <2>1. task[d] \in Task
    BY <1>7 DEF Dispatch, Continues, Idle
  <2>2. [kind |-> "message", ids |-> task[d].ids] \in Event
    BY <2>1 DEF Task, Event
  <2>3. /\ queue' \in [Channel -> Seq(Event)]
        /\ dropped' \subseteq Message \X Channel
    BY <1>7, <2>2, GroupSendType DEF Dispatch
  <2> QED
    BY <1>7, <2>3 DEF Dispatch, Continues, links, groups, rows, clients
<1>8. ASSUME NEW d \in Device, Acknowledge(d)
      PROVE  Typed'
  <2>1. PICK M \in SUBSET todo[d] :
            /\ Begins(d, "tell", M)
            /\ todo' = [todo EXCEPT ![d] = @ \ M]
            /\ recipients' = [m \in Message |->
                   IF m \in M THEN recipients[m] \ {Owner[d]} ELSE recipients[m]]
            /\ delivered' = [m \in Message |->
                   IF m \in M THEN delivered[m] \cup {Owner[d]}
                              ELSE delivered[m]]
            /\ UNCHANGED <<links, groups, queue, sender, posted, seen, ticked,
                           history>>
    BY <1>8 DEF Acknowledge
  <2>2. task' \in [Device -> Task \cup {Idle}]
    BY <2>1 DEF Begins, Task
  <2> QED
    BY <2>1, <2>2 DEF links, groups, history
<1>9. ASSUME NEW d \in Device, Tell(d)
      PROVE  Typed'
  <2> DEFINE told(m) == {n \in task[d].ids : sender[n] = sender[m]}
             rest(m) == task[d].ids \ told(m)
  <2>1. PICK m \in task[d].ids :
            /\ Continues(d, "tell",
                   IF rest(m) = {} THEN Idle
                                   ELSE [do |-> "tell", ids |-> rest(m)])
            /\ GroupSend({c \in joined : Owner[c[1]] = sender[m]},
                         [kind |-> "delivered", ids |-> told(m)])
            /\ UNCHANGED <<links, groups, rows, clients, cut>>
    BY <1>9 DEF Tell
  <2>2. task[d] \in Task
    BY <2>1 DEF Continues, Idle
  <2>3. /\ [kind |-> "delivered", ids |-> told(m)] \in Event
        /\ rest(m) \in SUBSET Message
    BY <2>2 DEF Task, Event
  <2>4. /\ queue' \in [Channel -> Seq(Event)]
        /\ dropped' \subseteq Message \X Channel
    BY <2>1, <2>3, GroupSendType
  <2>5. task' \in [Device -> Task \cup {Idle}]
    BY <2>1, <2>3 DEF Continues, Task
  <2> QED
    BY <2>1, <2>4, <2>5 DEF links, groups, rows, clients
<1>10. ASSUME NEW d \in Device, NEW m \in Message, Send(d, m)
       PROVE  Typed'
  BY <1>10 DEF Send, Begins, Task, links, groups, clients, history
<1>11. ASSUME NEW d \in Device, Fail(d)
       PROVE  Typed'
  <2>1. Unsent(d) \subseteq Message
    BY UnsentType
  <2> QED
    BY <1>11, <2>1 DEF Fail, Fault, groups, rows, clients
<1>12. ASSUME NEW d \in Device, Close(d)
       PROVE  Typed'
  BY <1>12 DEF Close, Gone, Fault, rows
<1>13. ASSUME NEW d \in Device, Crash(d)
       PROVE  Typed'
  <2>1. Unsent(d) \subseteq Message
    BY UnsentType
  <2> QED
    BY <1>13, <2>1 DEF Crash, Gone, Fault, rows
<1>14. ASSUME NEW c \in Channel, Lapse(c)
       PROVE  Typed'
  BY <1>14 DEF Lapse, links, rows, clients, history
<1>15. CASE UNCHANGED vars
  BY <1>15 DEF vars, links, groups, rows, clients, history
<1> QED
  BY <1>1, <1>2, <1>3, <1>4, <1>5, <1>6, <1>7, <1>8, <1>9, <1>10, <1>11,
     <1>12, <1>13, <1>14, <1>15 DEF Next, Serve

-----------------------------------------------------------------------------
(***************************************************************************)
(* Connections and channel names.                                          *)
(***************************************************************************)

\* Cleanups touch only channels that no connection uses.
LapsedAreClosed ==
    /\ \A c \in session : c[2] =< epoch[c[1]]
    /\ \A c \in lapsed : Closed(c)

ConnectedAreJoined ==
    \A d \in Device :
        wire[d] \in {"joined", "registered", "open"} => channel(d) \in joined

Connected == LapsedAreClosed /\ ConnectedAreJoined

LEMMA ConnectedInit == Init => Connected
BY DEF Init, Connected, LapsedAreClosed, ConnectedAreJoined

LEMMA CleanUpKeeps ==
    ASSUME Typed, Connected, NEW u \in User, NEW d \in Device,
           wire[d] \in {"joined", "registered", "open"}
    PROVE  channel(d) \in joined \ Expired(u)
BY DEF Connected, LapsedAreClosed, ConnectedAreJoined, Expired, Closed, channel

LEMMA ConnectedStep == Typed /\ Connected /\ [Next]_vars => Connected'
<1> SUFFICES ASSUME Typed, Connected, [Next]_vars
             PROVE  Connected'
  OBVIOUS
<1> USE DEF Connected, LapsedAreClosed, ConnectedAreJoined, Closed, channel
<1>0. /\ wire \in [Device -> {"off", "cleaned", "joined", "registered", "open"}]
      /\ epoch \in [Device -> Nat]
      /\ session \subseteq Device \X Nat
      /\ lapsed \subseteq session
      /\ \A d \in Device : Owner[d] \in User
  BY BoundAssumption, OwnerAssumption DEF Typed, TypeOK, Channel
<1>1. ASSUME NEW d \in Device, CleanUp(d)
      PROVE  Connected'
  <2>1. LapsedAreClosed'
    BY <1>0, <1>1 DEF CleanUp
  <2>2. ConnectedAreJoined'
    <3> SUFFICES ASSUME NEW e \in Device,
                        wire'[e] \in {"joined", "registered", "open"}
                 PROVE  channel(e)' \in joined'
      OBVIOUS
    <3>1. e # d /\ wire'[e] = wire[e] /\ epoch'[e] = epoch[e]
      BY <1>0, <1>1 DEF CleanUp
    <3>2. <<e, epoch[e]>> \in joined \ Expired(Owner[d])
      BY <1>0, <3>1, CleanUpKeeps
    <3> QED
      BY <1>1, <3>1, <3>2 DEF CleanUp
  <2> QED
    BY <2>1, <2>2
<1>2. ASSUME NEW d \in Device, Join(d)
      PROVE  Connected'
  BY <1>0, <1>2 DEF Join
<1>3. ASSUME NEW d \in Device, Register(d)
      PROVE  Connected'
  BY <1>0, <1>3 DEF Register
<1>4. ASSUME NEW d \in Device, Open(d)
      PROVE  Connected'
  BY <1>0, <1>4 DEF Open, groups
<1>5. ASSUME NEW d \in Device, Close(d)
      PROVE  Connected'
  <2>1. LapsedAreClosed'
    BY <1>0, <1>5 DEF Close, Gone
  <2>2. ConnectedAreJoined'
    <3> SUFFICES ASSUME NEW e \in Device,
                        wire'[e] \in {"joined", "registered", "open"}
                 PROVE  channel(e)' \in joined'
      OBVIOUS
    <3>1. wire'[e] = wire[e] /\ epoch'[e] = epoch[e]
      BY <1>0, <1>5 DEF Close, Gone
    <3>2. <<e, epoch[e]>> \in joined \ Expired(Owner[d])
      BY <1>0, <3>1, CleanUpKeeps
    <3> QED
      BY <1>5, <3>1, <3>2 DEF Close
  <2> QED
    BY <2>1, <2>2
<1>6. ASSUME NEW d \in Device, Crash(d)
      PROVE  Connected'
  BY <1>0, <1>6 DEF Crash, Gone
<1>7. ASSUME NEW c \in Channel, Lapse(c)
      PROVE  Connected'
  BY <1>0, <1>7 DEF Lapse, links
<1>8. CASE UNCHANGED <<wire, epoch, groups>>
  BY <1>8 DEF groups
<1>9. ASSUME NEW d \in Device,
             \/ Broadcast(d) \/ Announce(d) \/ Dispatch(d) \/ Acknowledge(d)
             \/ Tell(d) \/ Fail(d) \/ \E m \in Message : Send(d, m)
      PROVE  UNCHANGED <<wire, epoch, groups>>
  BY <1>9 DEF Broadcast, Announce, Dispatch, Acknowledge, Tell, Fail, Send,
              links
<1>10. CASE UNCHANGED vars
  BY <1>8, <1>10 DEF vars, links
<1> QED
  BY <1>1, <1>2, <1>3, <1>4, <1>5, <1>6, <1>7, <1>8, <1>9, <1>10
  DEF Next, Serve

\* Every variable keeps its type, whatever connections do.
THEOREM TypeCorrect == Spec => []TypeOK
<1>1. Typed => TypeOK
  BY DEF Typed
<1> QED
  BY TypedInit, TypedStep, <1>1, PTL DEF Spec

\* No cleanup, of this connection or another one of the user, takes the channel
\* of a connection that goes on out of the groups.
THEOREM StaysJoined == Spec => []ConnectedAreJoined
<1>1. Connected => ConnectedAreJoined
  BY DEF Connected
<1> QED
  BY TypedInit, TypedStep, ConnectedInit, ConnectedStep, <1>1, PTL DEF Spec

-----------------------------------------------------------------------------
(***************************************************************************)
(* No message falls between the groups and the notifications.              *)
(***************************************************************************)

\* group_send: what was in a queue stays there, and the event is added to the
\* queue or counted as dropped.
LEMMA GroupSendReaches ==
    ASSUME Typed, NEW C \in SUBSET Channel, NEW e \in Event, GroupSend(C, e),
           NEW c \in Channel, NEW m \in Message
    PROVE  /\ Queued(c, m) => Queued(c, m)'
           /\ c \in C /\ e.kind = "message" /\ m \in e.ids
                 => Queued(c, m)' \/ <<m, c>> \in dropped'
           /\ dropped \subseteq dropped'
<1>1. /\ queue[c] \in Seq(Event)
      /\ queue'[c] = IF c \in C /\ ~ Full(c) THEN Append(queue[c], e)
                                             ELSE queue[c]
  BY DEF GroupSend, Typed, TypeOK
<1>2. Queued(c, m) => Queued(c, m)'
  <2> SUFFICES ASSUME NEW i \in 1 .. Len(queue[c]),
                      queue[c][i].kind = "message", m \in queue[c][i].ids
               PROVE  Queued(c, m)'
    BY DEF Queued
  <2>1. i \in 1 .. Len(queue'[c]) /\ queue'[c][i] = queue[c][i]
    BY <1>1
  <2> QED
    BY <2>1 DEF Queued
<1>3. ASSUME c \in C, e.kind = "message", m \in e.ids
      PROVE  Queued(c, m)' \/ <<m, c>> \in dropped'
  <2>1. CASE Full(c)
    BY <1>3, <2>1 DEF GroupSend
  <2>2. CASE ~ Full(c)
    <3>1. queue'[c] = Append(queue[c], e)
      BY <1>1, <1>3, <2>2
    <3>2. Len(queue[c]) + 1 \in 1 .. Len(queue'[c])
      BY <1>1, <3>1
    <3>3. queue'[c][Len(queue[c]) + 1] = e
      BY <1>1, <3>1
    <3> QED
      BY <1>3, <3>2, <3>3 DEF Queued
  <2> QED
    BY <2>1, <2>2
<1>4. dropped \subseteq dropped'
  BY DEF GroupSend
<1> QED
  BY <1>2, <1>3, <1>4

\* The consumer takes the first event and nothing else from its queue.
LEMMA BroadcastTakesFirst ==
    ASSUME Typed, NEW d \in Device, Broadcast(d),
           NEW c \in Channel, NEW m \in Message, Queued(c, m)
    PROVE  Queued(c, m)' \/ (c = channel(d) /\ m \in seen'[d])
<1>1. channel(d) \in Channel
  BY ChannelType DEF Broadcast
<1>2. /\ \A x \in Channel : queue[x] \in Seq(Event)
      /\ queue[channel(d)] # <<>>
      /\ queue' = [queue EXCEPT ![channel(d)] = Tail(@)]
      /\ DOMAIN queue = Channel
      /\ seen \in [Device -> SUBSET Message]
  BY DEF Broadcast, Typed, TypeOK
<1>3. CASE c # channel(d)
  BY <1>1, <1>2, <1>3 DEF Queued
<1>4. CASE c = channel(d)
  <2>1. PICK i \in 1 .. Len(queue[c]) :
            queue[c][i].kind = "message" /\ m \in queue[c][i].ids
    BY DEF Queued
  <2>2. CASE i = 1
    <3>1. PICK e \in Event :
              /\ e = Head(queue[channel(d)])
              /\ \/ e.kind = "message" /\ Shows(d, e.ids)
                 \/ e.kind = "delivered"
      BY BroadcastCases
    <3>2. e = queue[c][1]
      BY <1>2, <1>4, <3>1
    <3>3. Shows(d, e.ids) /\ m \in e.ids
      BY <2>1, <2>2, <3>1, <3>2
    <3>4. seen'[d] = seen[d] \cup e.ids
      BY <1>2, <3>3 DEF Shows
    <3> QED
      BY <1>4, <3>3, <3>4
  <2>3. CASE i # 1
    <3>1. queue'[c] = Tail(queue[c]) /\ queue[c] \in Seq(Event)
      BY <1>1, <1>2, <1>4
    <3>2. i - 1 \in 1 .. Len(queue'[c]) /\ queue'[c][i - 1] = queue[c][i]
      BY <1>2, <1>4, <2>3, <3>1
    <3> QED
      BY <2>1, <3>2 DEF Queued
  <2> QED
    BY <2>2, <2>3
<1> QED
  BY <1>3, <1>4

\* The ways in which m, announced to the user of d, is known or on its way.
Reaches(d, m) ==
    \/ m \in seen[d]
    \/ Queued(channel(d), m)
    \/ \E e \in Device : task[e].do = "dispatch" /\ m \in task[e].ids
    \/ m \in cut
    \/ <<m, channel(d)>> \in dropped

LEMMA UpToDateInit == Init => UpToDate
BY DEF Init, UpToDate

LEMMA UpToDateStep ==
    Typed /\ Connected /\ UpToDate /\ [Next]_vars => UpToDate'
<1> SUFFICES ASSUME Typed, Connected, UpToDate, [Next]_vars,
                    NEW d \in Device, NEW m \in Message,
                    wire'[d] = "open", Owner[d] \in recipients'[m]
             PROVE  Reaches(d, m)'
  BY DEF UpToDate, Reaches
<1>0. ASSUME wire[d] = "open", Owner[d] \in recipients[m]
      PROVE  Reaches(d, m)
  BY <1>0 DEF UpToDate, Reaches
<1> USE DEF Reaches
<1>ty. /\ wire \in [Device -> {"off", "cleaned", "joined", "registered", "open"}]
       /\ epoch \in [Device -> 0 .. MaxFaults + 1]
       /\ task \in [Device -> Task \cup {Idle}]
       /\ recipients \in [Message -> SUBSET User]
       /\ seen \in [Device -> SUBSET Message]
       /\ joined \subseteq Channel
  BY DEF Typed, TypeOK
<1>1. ASSUME NEW e \in Device, CleanUp(e)
      PROVE  Reaches(d, m)'
  <2>1. d # e /\ wire[d] = "open" /\ epoch'[d] = epoch[d]
    BY <1>1, <1>ty DEF CleanUp
  <2> QED
    BY <1>0, <1>1, <2>1 DEF CleanUp, rows, clients, history, channel, Queued
<1>2. ASSUME NEW e \in Device, Join(e) \/ Register(e)
      PROVE  Reaches(d, m)'
  <2>1. wire[d] = "open"
    BY <1>2, <1>ty DEF Join, Register
  <2> QED
    BY <1>0, <1>2, <2>1 DEF Join, Register, rows, clients, history, channel,
                            Queued
<1>3. ASSUME NEW e \in Device, Open(e)
      PROVE  Reaches(d, m)'
  <2>1. CASE d = e
    BY <1>3, <1>ty, <2>1 DEF Open, Shows, Pending, rows
  <2>2. CASE d # e
    BY <1>0, <1>3, <1>ty, <2>2 DEF Open, Shows, rows, history, channel, Queued
  <2> QED
    BY <2>1, <2>2
<1>4. ASSUME NEW e \in Device, Broadcast(e)
      PROVE  Reaches(d, m)'
  <2>1. /\ wire[d] = "open"
        /\ Owner[d] \in recipients[m]
        /\ UNCHANGED <<epoch, task, cut, dropped>>
    BY <1>4 DEF Broadcast, links, rows, history
  <2>2. channel(d) \in Channel /\ channel(d)' = channel(d)
    BY <2>1, ChannelType DEF channel
  <2>3. seen[d] \subseteq seen'[d]
    <3>1. PICK x \in Event : Shows(e, x.ids) \/ UNCHANGED seen
      BY <1>4, BroadcastCases
    <3> QED
      BY <1>ty, <3>1 DEF Shows
  <2>4. Queued(channel(d), m) =>
            Queued(channel(d), m)' \/ m \in seen'[d]
    <3>1. channel(d) = channel(e) => d = e
      BY DEF channel
    <3>2. Queued(channel(d), m) =>
              \/ Queued(channel(d), m)'
              \/ channel(d) = channel(e) /\ m \in seen'[e]
      <4>1. ASSUME NEW c \in Channel, Queued(c, m)
            PROVE  Queued(c, m)' \/ (c = channel(e) /\ m \in seen'[e])
        BY <1>4, <4>1, BroadcastTakesFirst
      <4> QED
        BY <2>2, <4>1 DEF Queued
    <3> QED
      BY <3>1, <3>2
  <2> QED
    BY <1>0, <2>1, <2>2, <2>3, <2>4
<1>5. ASSUME NEW e \in Device, Announce(e)
      PROVE  Reaches(d, m)'
  <2>1. CASE m \in task[e].ids
    BY <1>5, <1>ty, <2>1 DEF Announce, Continues
  <2>2. CASE m \notin task[e].ids
    <3>1. Owner[d] \in recipients[m] /\ wire[d] = "open"
      BY <1>5, <2>2 DEF Announce, links
    <3>2. \A x \in Device : task[x].do = "dispatch" => task'[x] = task[x]
      BY <1>5, <1>ty DEF Announce, Continues
    <3> QED
      BY <1>0, <1>5, <3>1, <3>2
      DEF Announce, links, clients, history, channel, Queued
  <2> QED
    BY <2>1, <2>2
<1>6. ASSUME NEW e \in Device, Dispatch(e)
      PROVE  Reaches(d, m)'
  <2>1. /\ wire[d] = "open"
        /\ Owner[d] \in recipients[m]
        /\ UNCHANGED <<epoch, seen, cut>>
        /\ task[e].do = "dispatch"
        /\ task' = [task EXCEPT ![e] = Idle]
    BY <1>6 DEF Dispatch, Continues, links, rows, clients
  <2>2. channel(d) \in joined /\ channel(d) \in Channel
                              /\ channel(d)' = channel(d)
    BY <1>ty, <2>1 DEF Connected, ConnectedAreJoined, channel
  <2>3. task[e] \in Task
    BY <1>ty, <2>1 DEF Idle
  <2> DEFINE ev == [kind |-> "message", ids |-> task[e].ids]
  <2>4. ev \in Event /\ ev.kind = "message" /\ ev.ids = task[e].ids
    BY <2>3 DEF Task, Event
  <2>5. GroupSend(joined, ev)
    BY <1>6 DEF Dispatch
  <2> HIDE DEF ev
  <2>6. ASSUME NEW c \in joined
        PROVE  /\ Queued(c, m) => Queued(c, m)'
               /\ m \in ev.ids => Queued(c, m)' \/ <<m, c>> \in dropped'
               /\ dropped \subseteq dropped'
    <3>1. c \in Channel
      BY <1>ty
    <3> QED
      BY <1>ty, <2>4, <2>5, <2>6, <3>1, GroupSendReaches
  <2>7. ASSUME NEW x \in Device, task[x].do = "dispatch", x # e
        PROVE  task'[x] = task[x]
    BY <1>ty, <2>1, <2>7
  <2>8. /\ Queued(channel(d), m) => Queued(channel(d), m)'
        /\ m \in task[e].ids =>
              Queued(channel(d), m)' \/ <<m, channel(d)>> \in dropped'
        /\ dropped \subseteq dropped'
    <3>1. PICK c \in joined : c = channel(d)
      BY <2>2
    <3> QED
      BY <2>2, <2>4, <2>6, <3>1 DEF Queued
  <2> QED
    BY <1>0, <2>1, <2>2, <2>7, <2>8
<1>7. ASSUME NEW e \in Device, Acknowledge(e)
      PROVE  Reaches(d, m)'
  <2>1. /\ wire[d] = "open"
        /\ Owner[d] \in recipients[m]
        /\ UNCHANGED <<epoch, queue, seen, cut, dropped>>
        /\ task[e] = Idle
        /\ \A x \in Device : x # e => task'[x] = task[x]
    BY <1>7, <1>ty DEF Acknowledge, Begins, links, history
  <2>2. \A x \in Device : task[x].do = "dispatch" => task'[x] = task[x]
    BY <2>1 DEF Idle
  <2> QED
    BY <1>0, <2>1, <2>2 DEF channel, Queued
<1>8. ASSUME NEW e \in Device, Tell(e)
      PROVE  Reaches(d, m)'
  <2>1. PICK n \in task[e].ids :
            /\ task[e].do = "tell"
            /\ \A x \in Device : x # e => task'[x] = task[x]
            /\ GroupSend({c \in joined : Owner[c[1]] = sender[n]},
                   [kind |-> "delivered",
                    ids  |-> {k \in task[e].ids : sender[k] = sender[n]}])
            /\ UNCHANGED <<links, groups, rows, clients, cut>>
    BY <1>8, <1>ty DEF Tell, Continues
  <2>2. wire[d] = "open" /\ Owner[d] \in recipients[m]
                         /\ UNCHANGED <<epoch, seen, cut>>
    BY <2>1 DEF links, rows, clients
  <2>3. channel(d) \in Channel /\ channel(d)' = channel(d)
    BY <2>2, ChannelType DEF channel
  <2>4. [kind |-> "delivered",
         ids  |-> {k \in task[e].ids : sender[k] = sender[n]}] \in Event
    BY <1>ty, <2>1 DEF Event, Task, Idle
  <2>5. /\ Queued(channel(d), m) => Queued(channel(d), m)'
        /\ dropped \subseteq dropped'
    <3>1. ASSUME NEW c \in Channel
          PROVE  /\ Queued(c, m) => Queued(c, m)'
                 /\ dropped \subseteq dropped'
      BY <1>ty, <2>1, <2>4, GroupSendReaches
    <3>2. PICK c \in Channel : c = channel(d)
      BY <2>3
    <3> QED
      BY <2>3, <3>1, <3>2 DEF Queued
  <2>6. \A x \in Device : task[x].do = "dispatch" => task'[x] = task[x]
    BY <2>1
  <2> QED
    BY <1>0, <2>2, <2>3, <2>5, <2>6
<1>9. ASSUME NEW e \in Device, NEW n \in Message, Send(e, n)
      PROVE  Reaches(d, m)'
  <2>1. \A x \in Device : task[x].do = "dispatch" => task'[x] = task[x]
    BY <1>9, <1>ty DEF Send, Begins, Idle
  <2> QED
    BY <1>0, <1>9, <2>1 DEF Send, links, clients, history, channel, Queued
<1>10. ASSUME NEW e \in Device, Fail(e)
       PROVE  Reaches(d, m)'
  <2>1. \A x \in Device : task[x].do = "dispatch" =>
            task'[x] = task[x] \/ task[x].ids \subseteq cut'
    BY <1>10, <1>ty DEF Fail, Unsent
  <2>2. cut \subseteq cut'
    BY <1>10 DEF Fail
  <2> QED
    BY <1>0, <1>10, <2>1, <2>2 DEF Fail, rows, clients, channel, Queued
<1>11. ASSUME NEW e \in Device, Close(e)
       PROVE  Reaches(d, m)'
  <2>1. wire[d] = "open"
    BY <1>11, <1>ty DEF Close, Gone
  <2> QED
    BY <1>0, <1>11, <2>1 DEF Close, Gone, rows, channel, Queued
<1>12. ASSUME NEW e \in Device, Crash(e)
       PROVE  Reaches(d, m)'
  <2>1. wire[d] = "open"
    BY <1>12, <1>ty DEF Crash, Gone
  <2>2. \A x \in Device : task[x].do = "dispatch" =>
            task'[x] = task[x] \/ task[x].ids \subseteq cut'
    BY <1>12, <1>ty DEF Crash, Unsent
  <2>3. cut \subseteq cut'
    BY <1>12 DEF Crash
  <2> QED
    BY <1>0, <1>12, <2>1, <2>2, <2>3 DEF Crash, Gone, rows, channel, Queued
<1>13. ASSUME NEW c \in Channel, Lapse(c)
       PROVE  Reaches(d, m)'
  BY <1>0, <1>13 DEF Lapse, links, rows, clients, history, channel, Queued
<1>14. CASE UNCHANGED vars
  BY <1>0, <1>14 DEF vars, links, rows, clients, history, channel, Queued
<1> QED
  BY <1>1, <1>2, <1>3, <1>4, <1>5, <1>6, <1>7, <1>8, <1>9, <1>10, <1>11,
     <1>12, <1>13, <1>14 DEF Next, Serve

\* connect() joins the groups before it reads the notifications, and no cleanup
\* leaves them: what is announced to the user of an open connection was shown
\* on it, waits in its queue or has still to be sent, unless the queue was full
\* or the handler ended early.
THEOREM NothingMissed == Spec => []UpToDate
BY TypedInit, TypedStep, ConnectedInit, ConnectedStep, UpToDateInit,
   UpToDateStep, PTL DEF Spec

-----------------------------------------------------------------------------
(***************************************************************************)
(* What a handler, a queue and a client hold about a message is true.      *)
(***************************************************************************)

\* A handler that has to announce m is the only one that ever will, one that
\* dispatches m has announced it, one that tells of m has recorded it.
TasksFit ==
    \A d \in Device :
        /\ task[d].do = "announce" =>
              \E m \in Message : /\ task[d].ids = {m}
                                 /\ Author[m] = d
                                 /\ sender[m] # None
                                 /\ m \notin posted
        /\ task[d].do = "dispatch" => task[d].ids \subseteq posted
        /\ task[d].do = "tell" => \A m \in task[d].ids : delivered[m] # {}

Fits(e, u) ==
    /\ e.kind = "message" => e.ids \subseteq posted
    /\ e.kind = "delivered" =>
          \A m \in e.ids : sender[m] = u /\ delivered[m] # {}

EventsFit ==
    \A c \in Channel : \A i \in 1 .. Len(queue[c]) :
        Fits(queue[c][i], Owner[c[1]])

RowsFit ==
    /\ \A m \in Message : recipients[m] # {} => m \in posted
    /\ \A m \in posted : sender[m] # None

ShownFit ==
    /\ \A d \in Device : todo[d] \subseteq seen[d] /\ seen[d] \subseteq posted
    /\ \A d \in Device : \A m \in ticked[d] :
          sender[m] = Owner[d] /\ delivered[m] # {}
    /\ \A m \in Message : \A u \in delivered[m] :
          \E d \in Device : Owner[d] = u /\ m \in seen[d]

Fit == TasksFit /\ EventsFit /\ RowsFit /\ ShownFit

\* What a step does to the rows: a message gets its sender once, is announced
\* once and is never delivered to fewer.
RowsGrow ==
    /\ \A m \in Message : sender[m] # None => sender'[m] = sender[m]
    /\ posted \subseteq posted'
    /\ \A m \in Message : delivered[m] \subseteq delivered'[m]

LEMMA FitInit == Init => Fit
BY DEF Init, Fit, TasksFit, EventsFit, RowsFit, ShownFit, Idle

LEMMA RowsGrowStep == Typed /\ [Next]_vars => RowsGrow
<1> SUFFICES ASSUME Typed, [Next]_vars
             PROVE  RowsGrow
  OBVIOUS
<1>0. /\ sender \in [Message -> User \cup {None}]
      /\ delivered \in [Message -> SUBSET User]
  BY DEF Typed, TypeOK
<1>1. ASSUME NEW d \in Device, NEW m \in Message, Send(d, m)
      PROVE  RowsGrow
  BY <1>0, <1>1 DEF Send, RowsGrow
<1>2. ASSUME NEW d \in Device, Announce(d)
      PROVE  RowsGrow
  BY <1>2 DEF Announce, RowsGrow
<1>3. ASSUME NEW d \in Device, Acknowledge(d)
      PROVE  RowsGrow
  BY <1>0, <1>3 DEF Acknowledge, RowsGrow
<1>4. CASE UNCHANGED <<sender, posted, delivered>>
  BY <1>4 DEF RowsGrow
<1>5. ASSUME NEW d \in Device,
             \/ CleanUp(d) \/ Join(d) \/ Register(d) \/ Open(d)
             \/ Broadcast(d) \/ Dispatch(d) \/ Tell(d)
             \/ Fail(d) \/ Close(d) \/ Crash(d)
      PROVE  UNCHANGED <<sender, posted, delivered>>
  BY <1>5 DEF CleanUp, Join, Register, Open, Broadcast, Dispatch, Tell, Fail,
              Close, Crash, Gone, rows
<1>6. ASSUME NEW c \in Channel, Lapse(c)
      PROVE  UNCHANGED <<sender, posted, delivered>>
  BY <1>6 DEF Lapse, rows
<1>7. CASE UNCHANGED vars
  BY <1>4, <1>7 DEF vars, rows
<1> QED
  BY <1>1, <1>2, <1>3, <1>4, <1>5, <1>6, <1>7 DEF Next, Serve

LEMMA RowsFitStep == Typed /\ Fit /\ [Next]_vars => RowsFit'
<1> SUFFICES ASSUME Typed, Fit, [Next]_vars
             PROVE  RowsFit'
  OBVIOUS
<1>0. /\ sender \in [Message -> User \cup {None}]
      /\ recipients \in [Message -> SUBSET User]
      /\ task \in [Device -> Task \cup {Idle}]
      /\ posted \subseteq Message
  BY DEF Typed, TypeOK
<1>1. RowsGrow
  BY RowsGrowStep
<1> USE DEF Fit, RowsFit
<1>2. ASSUME NEW d \in Device, Announce(d)
      PROVE  RowsFit'
  <2>1. PICK m \in Message : task[d].ids = {m} /\ sender[m] # None
    BY <1>2 DEF Announce, Continues, TasksFit
  <2> QED
    BY <1>0, <1>1, <1>2, <2>1 DEF Announce, RowsGrow
<1>3. ASSUME NEW d \in Device, Acknowledge(d)
      PROVE  RowsFit'
  BY <1>0, <1>3 DEF Acknowledge
<1>4. CASE UNCHANGED <<posted, recipients>>
  BY <1>0, <1>1, <1>4 DEF RowsGrow
<1>5. ASSUME NEW d \in Device,
             \/ CleanUp(d) \/ Join(d) \/ Register(d) \/ Open(d)
             \/ Broadcast(d) \/ Dispatch(d) \/ Tell(d)
             \/ Fail(d) \/ Close(d) \/ Crash(d)
             \/ \E m \in Message : Send(d, m)
      PROVE  UNCHANGED <<posted, recipients>>
  BY <1>5 DEF CleanUp, Join, Register, Open, Broadcast, Dispatch, Tell, Fail,
              Close, Crash, Gone, Send, rows
<1>6. ASSUME NEW c \in Channel, Lapse(c)
      PROVE  UNCHANGED <<posted, recipients>>
  BY <1>6 DEF Lapse, rows
<1>7. CASE UNCHANGED vars
  BY <1>4, <1>7 DEF vars, rows
<1> QED
  BY <1>2, <1>3, <1>4, <1>5, <1>6, <1>7 DEF Next, Serve

LEMMA TasksFitStep == Typed /\ Fit /\ [Next]_vars => TasksFit'
<1> SUFFICES ASSUME Typed, Fit, [Next]_vars,
                    NEW d \in Device
             PROVE  /\ task'[d].do = "announce" =>
                          \E m \in Message : /\ task'[d].ids = {m}
                                             /\ Author[m] = d
                                             /\ sender'[m] # None
                                             /\ m \notin posted'
                    /\ task'[d].do = "dispatch" => task'[d].ids \subseteq posted'
                    /\ task'[d].do = "tell" =>
                          \A m \in task'[d].ids : delivered'[m] # {}
  BY DEF TasksFit
<1> DEFINE Good == /\ task'[d].do = "announce" =>
                          \E m \in Message : /\ task'[d].ids = {m}
                                             /\ Author[m] = d
                                             /\ sender'[m] # None
                                             /\ m \notin posted'
                   /\ task'[d].do = "dispatch" => task'[d].ids \subseteq posted'
                   /\ task'[d].do = "tell" =>
                          \A m \in task'[d].ids : delivered'[m] # {}
<1>0. /\ sender \in [Message -> User \cup {None}]
      /\ delivered \in [Message -> SUBSET User]
      /\ task \in [Device -> Task \cup {Idle}]
      /\ \A e \in Device : task[e].ids \subseteq Message
      /\ posted \subseteq Message
      /\ todo \in [Device -> SUBSET Message]
      /\ Owner \in [Device -> User]
      /\ None \notin User
  <2>1. ASSUME NEW e \in Device
        PROVE  task[e].ids \subseteq Message
    <3>1. task[e] \in Task \/ task[e] = Idle
      BY DEF Typed, TypeOK
    <3> QED
      BY <3>1 DEF Task, Idle
  <2> QED
    BY <2>1, OwnerAssumption, NoneAssumption DEF Typed, TypeOK
<1>1. RowsGrow
  BY RowsGrowStep
<1>2. /\ task[d].do = "announce" =>
            \E m \in Message : /\ task[d].ids = {m}
                               /\ Author[m] = d
                               /\ sender[m] # None
                               /\ m \notin posted
      /\ task[d].do = "dispatch" => task[d].ids \subseteq posted
      /\ task[d].do = "tell" => \A m \in task[d].ids : delivered[m] # {}
  BY DEF Fit, TasksFit
<1>3. CASE task'[d] = Idle
  BY <1>3 DEF Idle
<1>4. ASSUME task'[d] = task[d], posted' = posted
      PROVE  Good
  BY <1>0, <1>1, <1>2, <1>4 DEF RowsGrow
<1>5. ASSUME NEW e \in Device, Announce(e)
      PROVE  Good
  <2>1. CASE d = e
    <3>1. task'[d].do = "dispatch" /\ task'[d].ids \subseteq posted'
      BY <1>0, <1>5, <2>1 DEF Announce, Continues
    <3> QED
      BY <3>1
  <2>2. CASE d # e
    <3>1. task'[d] = task[d] /\ posted' = posted \cup task[e].ids
      BY <1>5, <1>0, <2>2 DEF Announce, Continues
    <3>2. PICK m \in Message : task[e].ids = {m} /\ Author[m] = e
      BY <1>5 DEF Announce, Continues, Fit, TasksFit
    <3> QED
      BY <1>0, <1>1, <1>2, <2>2, <3>1, <3>2 DEF RowsGrow
  <2> QED
    BY <2>1, <2>2
<1>6. ASSUME NEW e \in Device, NEW m \in Message, Send(e, m)
      PROVE  Good
  <2>1. CASE d = e
    <3>1. /\ task'[d].do = "announce" /\ task'[d].ids = {m}
          /\ Author[m] = d /\ sender'[m] = Owner[d] /\ posted' = posted
      BY <1>0, <1>6, <2>1 DEF Send, Begins
    <3>2. m \notin posted
      BY <1>6 DEF Send, Fit, RowsFit
    <3> QED
      BY <1>0, <3>1, <3>2
  <2>2. CASE d # e
    BY <1>0, <1>4, <1>6, <2>2 DEF Send, Begins
  <2> QED
    BY <2>1, <2>2
<1>7. ASSUME NEW e \in Device, Dispatch(e)
      PROVE  Good
  BY <1>0, <1>3, <1>4, <1>7 DEF Dispatch, Continues, rows
<1>8. ASSUME NEW e \in Device, Acknowledge(e)
      PROVE  Good
  <2>1. PICK M \in SUBSET todo[e] :
            /\ task' = [task EXCEPT ![e] = [do |-> "tell", ids |-> M]]
            /\ delivered' = [m \in Message |->
                   IF m \in M THEN delivered[m] \cup {Owner[e]}
                              ELSE delivered[m]]
            /\ posted' = posted
    BY <1>8 DEF Acknowledge, Begins
  <2>2. CASE d = e
    <3>1. M \subseteq Message
      BY <1>0
    <3>2. task'[d].do = "tell" /\ task'[d].ids = M
      BY <1>0, <2>1, <2>2
    <3>3. \A m \in M : delivered'[m] # {}
      BY <1>0, <2>1, <3>1
    <3> QED
      BY <3>2, <3>3
  <2>3. CASE d # e
    BY <1>0, <1>4, <2>1, <2>3
  <2> QED
    BY <2>2, <2>3
<1>9. ASSUME NEW e \in Device, Tell(e)
      PROVE  Good
  <2>1. PICK m \in task[e].ids :
            /\ task[e].do = "tell"
            /\ task' = [task EXCEPT ![e] =
                   LET rest == task[e].ids
                                 \ {n \in task[e].ids : sender[n] = sender[m]}
                   IN  IF rest = {} THEN Idle
                                    ELSE [do |-> "tell", ids |-> rest]]
            /\ posted' = posted
    BY <1>9 DEF Tell, Continues, rows
  <2>2. CASE d = e
    <3>1. task'[d] = Idle
            \/ (task'[d].do = "tell" /\ task'[d].ids \subseteq task[d].ids)
      BY <1>0, <2>1, <2>2
    <3>2. ASSUME task'[d].do = "tell", task'[d].ids \subseteq task[d].ids
          PROVE  Good
      BY <1>0, <1>1, <1>2, <2>1, <2>2, <3>2 DEF RowsGrow
    <3> QED
      BY <1>3, <3>1, <3>2
  <2>3. CASE d # e
    BY <1>0, <1>4, <2>1, <2>3
  <2> QED
    BY <2>2, <2>3
<1>10. ASSUME NEW e \in Device, Fail(e) \/ Crash(e)
       PROVE  Good
  BY <1>0, <1>3, <1>4, <1>10 DEF Fail, Crash, Gone, rows
<1>11. ASSUME NEW e \in Device,
              \/ CleanUp(e) \/ Join(e) \/ Register(e) \/ Open(e)
              \/ Broadcast(e) \/ Close(e)
       PROVE  UNCHANGED <<task, posted>>
  BY <1>11 DEF CleanUp, Join, Register, Open, Broadcast, Close, Gone, rows
<1>12. ASSUME NEW c \in Channel, Lapse(c)
       PROVE  UNCHANGED <<task, posted>>
  BY <1>12 DEF Lapse, rows
<1>13. CASE UNCHANGED vars
  BY <1>4, <1>13 DEF vars, rows
<1> QED
  BY <1>4, <1>5, <1>6, <1>7, <1>8, <1>9, <1>10, <1>11, <1>12, <1>13
  DEF Next, Serve

\* What was true of an event stays true.
LEMMA FitsStays ==
    ASSUME Typed, RowsGrow, EventsFit, NEW c \in Channel,
           NEW i \in 1 .. Len(queue[c]), NEW e, e = queue[c][i]
    PROVE  Fits(e, Owner[c[1]])'
<1>1. e \in Event
  BY DEF Typed, TypeOK
<1>2. c[1] \in Device /\ Owner[c[1]] \in User /\ None \notin User
  BY OwnerAssumption, NoneAssumption DEF Channel
<1>3. Fits(e, Owner[c[1]])
  BY DEF EventsFit
<1>4. e.ids \subseteq Message
  BY <1>1 DEF Event
<1>5. e.kind = "message" => e.ids \subseteq posted'
  BY <1>3 DEF Fits, RowsGrow
<1>6. ASSUME e.kind = "delivered", NEW m \in e.ids
      PROVE  sender'[m] = Owner[c[1]] /\ delivered'[m] # {}
  <2>1. m \in Message /\ sender[m] = Owner[c[1]] /\ delivered[m] # {}
    BY <1>3, <1>4, <1>6 DEF Fits
  <2> QED
    BY <1>2, <2>1 DEF RowsGrow
<1> QED
  BY <1>5, <1>6 DEF Fits

LEMMA GroupSendFits ==
    ASSUME Typed, RowsGrow, EventsFit, NEW C \in SUBSET Channel,
           NEW x \in Event, GroupSend(C, x),
           \A c \in C : Fits(x, Owner[c[1]])'
    PROVE  EventsFit'
<1> SUFFICES ASSUME NEW c \in Channel, NEW i \in 1 .. Len(queue'[c]),
                    NEW e, e = queue'[c][i]
             PROVE  Fits(e, Owner[c[1]])'
  BY DEF EventsFit, Fits
<1>1. /\ queue[c] \in Seq(Event)
      /\ queue'[c] = IF c \in C /\ ~ Full(c) THEN Append(queue[c], x)
                                             ELSE queue[c]
  BY DEF GroupSend, Typed, TypeOK
<1>2. CASE i \in 1 .. Len(queue[c])
  <2>1. e = queue[c][i]
    BY <1>1, <1>2
  <2> QED
    BY <1>2, <2>1, FitsStays
<1>3. CASE i \notin 1 .. Len(queue[c])
  <2>1. c \in C /\ queue'[c] = Append(queue[c], x)
    BY <1>1, <1>3
  <2>2. e = x
    BY <1>1, <1>3, <2>1
  <2> QED
    BY <2>1, <2>2
<1> QED
  BY <1>2, <1>3

LEMMA EventsFitStep == Typed /\ Fit /\ [Next]_vars => EventsFit'
<1> SUFFICES ASSUME Typed, Fit, [Next]_vars
             PROVE  EventsFit'
  OBVIOUS
<1>0. /\ queue \in [Channel -> Seq(Event)]
      /\ joined \subseteq Channel
      /\ task \in [Device -> Task \cup {Idle}]
      /\ EventsFit
      /\ RowsGrow
  BY RowsGrowStep DEF Typed, TypeOK, Fit
<1>1. ASSUME NEW d \in Device, Broadcast(d)
      PROVE  EventsFit'
  <2> SUFFICES ASSUME NEW c \in Channel, NEW i \in 1 .. Len(queue'[c]),
                      NEW e, e = queue'[c][i]
               PROVE  Fits(e, Owner[c[1]])'
    BY DEF EventsFit, Fits
  <2>1. /\ channel(d) \in Channel
        /\ queue[channel(d)] \in Seq(Event) /\ queue[channel(d)] # <<>>
        /\ queue' = [queue EXCEPT ![channel(d)] = Tail(@)]
    BY <1>0, <1>1, ChannelType DEF Broadcast
  <2>2. \E j \in 1 .. Len(queue[c]) : e = queue[c][j]
    <3>1. CASE c = channel(d)
      <4>1. queue'[c] = Tail(queue[c])
        BY <1>0, <2>1, <3>1
      <4>2. queue[c] \in Seq(Event) /\ queue[c] # <<>>
        BY <2>1, <3>1
      <4>3. i \in Nat /\ i >= 1 /\ i < Len(queue[c])
        BY <4>1, <4>2
      <4>4. i + 1 \in 1 .. Len(queue[c]) /\ e = queue[c][i + 1]
        BY <4>1, <4>2, <4>3
      <4> QED
        BY <4>4
    <3>2. CASE c # channel(d)
      BY <1>0, <2>1, <3>2
    <3> QED
      BY <3>1, <3>2
  <2> QED
    BY <1>0, <2>2, FitsStays
<1>2. ASSUME NEW d \in Device, Dispatch(d)
      PROVE  EventsFit'
  <2>1. task[d].do = "dispatch" /\ task[d] \in Task
    BY <1>0, <1>2 DEF Dispatch, Continues, Idle
  <2>2. PICK x \in Event : x = [kind |-> "message", ids |-> task[d].ids]
    BY <2>1 DEF Event, Task
  <2>3. x.ids \subseteq posted'
    BY <1>0, <2>1, <2>2 DEF Fit, TasksFit, RowsGrow
  <2>4. \A c \in joined : Fits(x, Owner[c[1]])'
    BY <2>2, <2>3 DEF Fits
  <2>5. GroupSend(joined, x)
    BY <1>2, <2>2 DEF Dispatch
  <2> QED
    BY <1>0, <2>4, <2>5, GroupSendFits
<1>3. ASSUME NEW d \in Device, Tell(d)
      PROVE  EventsFit'
  <2> DEFINE told(m) == {n \in task[d].ids : sender[n] = sender[m]}
  <2>1. PICK m \in task[d].ids :
            /\ task[d].do = "tell"
            /\ GroupSend({c \in joined : Owner[c[1]] = sender[m]},
                         [kind |-> "delivered", ids |-> told(m)])
            /\ UNCHANGED <<sender, delivered>>
    BY <1>3 DEF Tell, Continues, rows
  <2>2. task[d] \in Task
    BY <1>0, <2>1 DEF Idle
  <2>3. PICK x \in Event : x = [kind |-> "delivered", ids |-> told(m)]
    BY <2>2 DEF Event, Task
  <2>4. PICK C \in SUBSET Channel :
            C = {c \in joined : Owner[c[1]] = sender[m]}
    BY <1>0
  <2>5. \A n \in x.ids : sender'[n] = sender[m] /\ delivered'[n] # {}
    BY <2>1, <2>3 DEF Fit, TasksFit
  <2>6. \A c \in C : Fits(x, Owner[c[1]])'
    BY <2>3, <2>4, <2>5 DEF Fits
  <2>7. GroupSend(C, x)
    BY <2>1, <2>3, <2>4
  <2> QED
    BY <1>0, <2>6, <2>7, GroupSendFits
<1>4. CASE UNCHANGED queue
  <2> SUFFICES ASSUME NEW c \in Channel, NEW i \in 1 .. Len(queue'[c]),
                      NEW e, e = queue'[c][i]
               PROVE  Fits(e, Owner[c[1]])'
    BY DEF EventsFit, Fits
  <2> QED
    BY <1>0, <1>4, FitsStays
<1>5. ASSUME NEW d \in Device,
             \/ CleanUp(d) \/ Join(d) \/ Register(d) \/ Open(d)
             \/ Announce(d) \/ Acknowledge(d)
             \/ Fail(d) \/ Close(d) \/ Crash(d)
             \/ \E m \in Message : Send(d, m)
      PROVE  UNCHANGED queue
  BY <1>5 DEF CleanUp, Join, Register, Open, Announce, Acknowledge, Fail,
              Close, Crash, Gone, Send
<1>6. ASSUME NEW c \in Channel, Lapse(c)
      PROVE  UNCHANGED queue
  BY <1>6 DEF Lapse
<1>7. CASE UNCHANGED vars
  BY <1>4, <1>7 DEF vars
<1> QED
  BY <1>1, <1>2, <1>3, <1>4, <1>5, <1>6, <1>7 DEF Next, Serve

LEMMA ShownFitStep == Typed /\ Fit /\ [Next]_vars => ShownFit'
<1> SUFFICES ASSUME Typed, Fit, [Next]_vars
             PROVE  ShownFit'
  OBVIOUS
<1>0. /\ seen \in [Device -> SUBSET Message]
      /\ todo \in [Device -> SUBSET Message]
      /\ ticked \in [Device -> SUBSET Message]
      /\ recipients \in [Message -> SUBSET User]
      /\ delivered \in [Message -> SUBSET User]
      /\ sender \in [Message -> User \cup {None}]
      /\ Owner \in [Device -> User] /\ None \notin User
      /\ RowsGrow
      /\ ShownFit
  BY RowsGrowStep, OwnerAssumption, NoneAssumption DEF Typed, TypeOK, Fit
<1> USE DEF ShownFit
<1>1. ASSUME NEW d \in Device, NEW M \in SUBSET posted, M \subseteq Message,
             Shows(d, M), UNCHANGED <<sender, posted, delivered>>
      PROVE  ShownFit'
  BY <1>0, <1>1 DEF Shows
<1>2. ASSUME NEW d \in Device, Open(d)
      PROVE  ShownFit'
  <2>1. Pending(Owner[d]) \subseteq posted /\ Pending(Owner[d]) \subseteq Message
    BY DEF Pending, Fit, RowsFit
  <2> QED
    BY <1>1, <1>2, <2>1 DEF Open, rows
<1>3. ASSUME NEW d \in Device, Broadcast(d)
      PROVE  ShownFit'
  <2>1. PICK e \in Event :
            /\ e = Head(queue[channel(d)])
            /\ \/ /\ e.kind = "message"
                  /\ Shows(d, e.ids)
               \/ /\ e.kind = "delivered"
                  /\ ticked' = [ticked EXCEPT ![d] = @ \cup e.ids]
                  /\ UNCHANGED <<seen, todo>>
    BY <1>3, BroadcastCases
  <2>2. e.ids \subseteq Message
    BY DEF Event
  <2>3. Fits(e, Owner[d])
    <3>1. channel(d) \in Channel /\ channel(d)[1] = d
      BY <1>3, ChannelType DEF Broadcast, channel
    <3>2. queue[channel(d)] \in Seq(Event) /\ queue[channel(d)] # <<>>
      BY <1>3, <3>1 DEF Broadcast, Typed, TypeOK
    <3>3. 1 \in 1 .. Len(queue[channel(d)]) /\ e = queue[channel(d)][1]
      BY <2>1, <3>2
    <3> QED
      BY <3>1, <3>3 DEF Fit, EventsFit
  <2>4. UNCHANGED <<sender, posted, delivered>>
    BY <1>3 DEF Broadcast, rows
  <2>5. CASE e.kind = "message" /\ Shows(d, e.ids)
    BY <1>1, <2>2, <2>3, <2>4, <2>5 DEF Fits
  <2>6. CASE /\ e.kind = "delivered"
             /\ ticked' = [ticked EXCEPT ![d] = @ \cup e.ids]
             /\ UNCHANGED <<seen, todo>>
    BY <1>0, <2>2, <2>3, <2>4, <2>6 DEF Fits
  <2> QED
    BY <2>1, <2>5, <2>6
<1>4. ASSUME NEW d \in Device, Acknowledge(d)
      PROVE  ShownFit'
  <2>1. PICK M \in SUBSET todo[d] :
            /\ todo' = [todo EXCEPT ![d] = @ \ M]
            /\ delivered' = [m \in Message |->
                   IF m \in M THEN delivered[m] \cup {Owner[d]}
                              ELSE delivered[m]]
            /\ UNCHANGED <<sender, posted, seen, ticked>>
    BY <1>4 DEF Acknowledge
  <2>2. \A e \in Device : todo'[e] \subseteq seen'[e] /\ seen'[e] \subseteq posted'
    BY <1>0, <2>1
  <2>3. \A e \in Device : \A m \in ticked'[e] :
            sender'[m] = Owner[e] /\ delivered'[m] # {}
    BY <1>0, <2>1 DEF RowsGrow
  <2>4. ASSUME NEW m \in Message, NEW u \in delivered'[m]
        PROVE  \E e \in Device : Owner[e] = u /\ m \in seen'[e]
    <3>1. CASE u \in delivered[m]
      BY <1>0, <2>1, <3>1
    <3>2. CASE u \notin delivered[m]
      <4>1. m \in M /\ u = Owner[d]
        BY <2>1, <2>4, <3>2
      <4>2. m \in seen'[d]
        BY <1>0, <2>1, <4>1
      <4> QED
        BY <4>1, <4>2
    <3> QED
      BY <3>1, <3>2
  <2> QED
    BY <2>2, <2>3, <2>4
<1>5. ASSUME NEW d \in Device, NEW m \in Message, Send(d, m)
      PROVE  ShownFit'
  BY <1>0, <1>5 DEF Send, clients, RowsGrow
<1>6. ASSUME NEW d \in Device, Announce(d)
      PROVE  ShownFit'
  BY <1>0, <1>6 DEF Announce, clients, RowsGrow
<1>7. ASSUME NEW d \in Device, Close(d) \/ Crash(d)
      PROVE  ShownFit'
  BY <1>0, <1>7 DEF Close, Crash, Gone, rows
<1>8. CASE UNCHANGED <<sender, posted, delivered, clients>>
  BY <1>0, <1>8 DEF clients
<1>9. ASSUME NEW d \in Device,
             \/ CleanUp(d) \/ Join(d) \/ Register(d) \/ Dispatch(d)
             \/ Tell(d) \/ Fail(d)
      PROVE  UNCHANGED <<sender, posted, delivered, clients>>
  BY <1>9 DEF CleanUp, Join, Register, Dispatch, Tell, Fail, rows
<1>10. ASSUME NEW c \in Channel, Lapse(c)
       PROVE  UNCHANGED <<sender, posted, delivered, clients>>
  BY <1>10 DEF Lapse, rows
<1>11. CASE UNCHANGED vars
  BY <1>8, <1>11 DEF vars, rows
<1> QED
  BY <1>2, <1>3, <1>4, <1>5, <1>6, <1>7, <1>8, <1>9, <1>10, <1>11
  DEF Next, Serve

LEMMA FitStep == Typed /\ Fit /\ [Next]_vars => Fit'
BY TasksFitStep, EventsFitStep, RowsFitStep, ShownFitStep DEF Fit

\* A "delivered" tick is on devices of the sender and says so of a message that
\* somebody acknowledged, and whoever counts as having got a message has a
\* device that showed it.
THEOREM TicksAreTrue == Spec => []TickIsTrue
<1>1. Fit => TickIsTrue
  BY DEF Fit, ShownFit, TickIsTrue
<1> QED
  BY TypedInit, TypedStep, FitInit, FitStep, <1>1, PTL DEF Spec

-----------------------------------------------------------------------------
(***************************************************************************)
(* The promise of the notifications.                                       *)
(***************************************************************************)
shown == [u \in User |->
             UNION {seen[d] : d \in {x \in Device : Owner[x] = u}}]

\* What one device shows, its user has been shown.
LEMMA ShownByUser ==
    ASSUME Typed, NEW d \in Device, NEW M \in SUBSET Message, Shows(d, M)
    PROVE  shown' = [shown EXCEPT ![Owner[d]] = @ \cup M]
<1>1. /\ seen \in [Device -> SUBSET Message]
      /\ seen' = [seen EXCEPT ![d] = @ \cup M]
      /\ Owner \in [Device -> User]
  BY OwnerAssumption DEF Typed, TypeOK, Shows
<1> DEFINE All(f, u) == UNION {f[e] : e \in {x \in Device : Owner[x] = u}}
<1>2. ASSUME NEW u \in User, u # Owner[d]
      PROVE  All(seen', u) = All(seen, u)
  BY <1>1, <1>2
<1>3. All(seen', Owner[d]) = All(seen, Owner[d]) \cup M
  <2>1. All(seen', Owner[d]) \subseteq All(seen, Owner[d]) \cup M
    BY <1>1
  <2>2. All(seen, Owner[d]) \subseteq All(seen', Owner[d])
    BY <1>1
  <2>3. M \subseteq All(seen', Owner[d])
    BY <1>1
  <2> QED
    BY <2>1, <2>2, <2>3
<1>4. /\ shown = [u \in User |-> All(seen, u)]
      /\ shown' = [u \in User |-> All(seen', u)]
  BY DEF shown
<1> HIDE DEF All
<1> QED
  BY <1>2, <1>3, <1>4

LEMMA MailboxInit == Init => Box!Init
BY DEF Init, Box!Init

LEMMA MailboxShow ==
    ASSUME Typed, NEW d \in Device, NEW M \in SUBSET Message, Shows(d, M),
           M \subseteq posted, UNCHANGED <<recipients, delivered, posted>>
    PROVE  Box!Next
<1>1. shown' = [shown EXCEPT ![Owner[d]] = @ \cup M]
  BY ShownByUser
<1>2. Box!Show(Owner[d], M)
  BY <1>1 DEF Box!Show, shown
<1>3. Owner[d] \in User
  BY OwnerAssumption
<1> QED
  BY <1>2, <1>3 DEF Box!Next

LEMMA MailboxStep == Typed /\ Fit /\ [Next]_vars => [Box!Next]_(Box!vars)
<1> SUFFICES ASSUME Typed, Fit, [Next]_vars
             PROVE  [Box!Next]_(Box!vars)
  OBVIOUS
<1>0. CASE UNCHANGED <<recipients, delivered, posted, seen>>
  BY <1>0 DEF Box!vars
<1>1. ASSUME NEW d \in Device, Open(d)
      PROVE  Box!Next
  <2>1. /\ Pending(Owner[d]) \subseteq posted
        /\ Pending(Owner[d]) \in SUBSET Message
    BY DEF Pending, Fit, RowsFit
  <2> QED
    BY <1>1, <2>1, MailboxShow DEF Open, rows
<1>2. ASSUME NEW d \in Device, Broadcast(d)
      PROVE  Box!Next \/ UNCHANGED <<recipients, delivered, posted, seen>>
  <2>1. PICK e \in Event :
            /\ e = Head(queue[channel(d)])
            /\ \/ e.kind = "message" /\ Shows(d, e.ids)
               \/ UNCHANGED seen
    BY <1>2, BroadcastCases
  <2>2. UNCHANGED <<recipients, delivered, posted>>
    BY <1>2 DEF Broadcast, rows
  <2>3. e.ids \in SUBSET Message
    BY DEF Event
  <2>4. Fits(e, Owner[d])
    <3>1. channel(d) \in Channel /\ channel(d)[1] = d
      BY <1>2, ChannelType DEF Broadcast, channel
    <3>2. queue[channel(d)] \in Seq(Event) /\ queue[channel(d)] # <<>>
      BY <1>2, <3>1 DEF Broadcast, Typed, TypeOK
    <3>3. 1 \in 1 .. Len(queue[channel(d)]) /\ e = queue[channel(d)][1]
      BY <2>1, <3>2
    <3> QED
      BY <3>1, <3>3 DEF Fit, EventsFit
  <2>5. CASE e.kind = "message" /\ Shows(d, e.ids)
    BY <2>2, <2>3, <2>4, <2>5, MailboxShow DEF Fits
  <2> QED
    BY <2>1, <2>2, <2>5
<1>3. ASSUME NEW d \in Device, Announce(d)
      PROVE  Box!Next
  <2>1. PICK m \in Message : task[d].ids = {m} /\ m \notin posted
    BY <1>3 DEF Announce, Continues, Fit, TasksFit
  <2>2. recipients \in [Message -> SUBSET User] /\ Owner[d] \in User
    BY OwnerAssumption DEF Typed, TypeOK
  <2>3. recipients' = [recipients EXCEPT ![m] = User \ {Owner[d]}]
    BY <1>3, <2>1, <2>2 DEF Announce
  <2>4. posted' = posted \cup {m} /\ UNCHANGED <<delivered, seen>>
    BY <1>3, <2>1 DEF Announce, clients
  <2>5. Box!Post(m, Owner[d])
    BY <2>1, <2>3, <2>4 DEF Box!Post
  <2> QED
    BY <2>2, <2>5 DEF Box!Next
<1>4. ASSUME NEW d \in Device, Acknowledge(d)
      PROVE  Box!Next
  <2>1. PICK M \in SUBSET todo[d] :
            /\ recipients' = [m \in Message |->
                   IF m \in M THEN recipients[m] \ {Owner[d]} ELSE recipients[m]]
            /\ delivered' = [m \in Message |->
                   IF m \in M THEN delivered[m] \cup {Owner[d]}
                              ELSE delivered[m]]
            /\ UNCHANGED <<posted, seen>>
    BY <1>4 DEF Acknowledge
  <2>2. Owner[d] \in User
    BY OwnerAssumption
  <2>3. M \subseteq seen[d] /\ M \in SUBSET Message
    BY DEF Fit, ShownFit, Typed, TypeOK
  <2>4. M \subseteq shown[Owner[d]]
    BY <2>2, <2>3 DEF shown
  <2>5. Box!Confirm(Owner[d], M)
    BY <2>1, <2>4 DEF Box!Confirm, shown
  <2> QED
    BY <2>2, <2>3, <2>5 DEF Box!Next
<1>5. ASSUME NEW d \in Device,
             \/ CleanUp(d) \/ Join(d) \/ Register(d) \/ Dispatch(d) \/ Tell(d)
             \/ Fail(d) \/ Close(d) \/ Crash(d)
             \/ \E m \in Message : Send(d, m)
      PROVE  UNCHANGED <<recipients, delivered, posted, seen>>
  BY <1>5 DEF CleanUp, Join, Register, Dispatch, Tell, Fail, Close, Crash,
              Gone, Send, rows, clients
<1>6. ASSUME NEW c \in Channel, Lapse(c)
      PROVE  UNCHANGED <<recipients, delivered, posted, seen>>
  BY <1>6 DEF Lapse, rows, clients
<1>7. CASE UNCHANGED vars
  BY <1>0, <1>7 DEF vars, rows, clients
<1> QED
  BY <1>0, <1>1, <1>2, <1>3, <1>4, <1>5, <1>6, <1>7 DEF Next, Serve

\* Connections that come and go, full queues, failing handlers and dying workers
\* make no difference to what the notifications promise: a message is announced
\* once to everybody but its sender, is shown only after that, and stops waiting
\* for a user only after a device of the user showed it.
THEOREM Refinement == Spec => KeepsMailbox
<1>1. Init => Box!Init
  BY MailboxInit
<1>2. Typed /\ Fit /\ [Next]_vars => [Box!Next]_(Box!vars)
  BY MailboxStep
<1> QED
  BY TypedInit, TypedStep, FitInit, FitStep, <1>1, <1>2, PTL
  DEF Spec, KeepsMailbox, Box!Spec
=============================================================================
