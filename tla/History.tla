------------------------------- MODULE History -------------------------------
(***************************************************************************)
(* A user's devices page through the messages of a room ("room.messages",  *)
(* _retreive_messages) while messages are sent and deleted.  Pages are     *)
(* counted from the newest message, so they move under the reader; Django's*)
(* Paginator counts the rows in one query and reads the page in another;   *)
(* and the answer goes to the user's own group, so to all the devices.     *)
(*                                                                         *)
(* Messages are numbered in the order of created_at; the numbers in alive  *)
(* have is_deleted = False.  A device asks for page 1, then for each       *)
(* next_page_number until there is none, and takes an answer if it has the *)
(* page and the size it waits for.  The layer loses nothing here (module   *)
(* Delivery).                                                              *)
(***************************************************************************)
EXTENDS Integers, FiniteSets, Sequences

CONSTANTS
    Device,         \* the devices of the user
    Sizes,          \* the page sizes they ask for
    Present,        \* how many messages the room has when they begin
    MaxChanges      \* how many are sent and deleted after that (a bound)

ASSUME SizesAssumption   == Sizes \subseteq Nat \ {0}
ASSUME PresentAssumption == Present \in Nat
ASSUME BoundAssumption   == MaxChanges \in Nat

VARIABLES
    created,    \* how many messages were sent
    alive,      \* those not deleted
    changes,    \* how many were sent or deleted since the beginning
    walk,       \* walk[d]: how far device d is
    inbox,      \* inbox[d]: the pages d asked for, not served yet
    handler,    \* handler[d]: the request of d being served
    start,      \* start[d]: the messages when d began (history)
    removed,    \* removed[d]: how many were deleted since (history)
    torn,       \* torn[d]: how many were sent between the two queries of a
                \* request of d (history)
    foreign     \* the devices that took an answer to another one (history)

messages == <<created, alive, changes>>
history  == <<start, removed, torn, foreign>>
vars     == <<messages, walk, inbox, handler, history>>

Number == 1 .. Present + MaxChanges
Walk   == [state : {"new", "walking", "done"}, page : Nat, size : Sizes,
           got : SUBSET Number]
NoRequest == [step |-> "idle", page |-> 0, count |-> 0, next |-> 0, data |-> {}]
Handler   == [step : {"idle", "counted", "read"}, page : Nat, count : Nat,
              next : Nat, data : SUBSET Number]

TypeOK ==
    /\ created \in 0 .. Present + MaxChanges
    /\ changes \in 0 .. MaxChanges
    /\ alive \subseteq 1 .. created
    /\ walk \in [Device -> Walk]
    /\ inbox \in [Device -> Seq(Nat)]
    /\ handler \in [Device -> Handler]
    /\ start \in [Device -> SUBSET Number]
    /\ removed \in [Device -> Nat]
    /\ torn \in [Device -> Nat]
    /\ foreign \subseteq Device

Init ==
    /\ created = Present
    /\ alive = 1 .. Present
    /\ changes = 0
    /\ walk \in [Device -> [state : {"new"}, page : {0}, size : Sizes,
                            got : {{}}]]
    /\ inbox = [d \in Device |-> <<>>]
    /\ handler = [d \in Device |-> NoRequest]
    /\ start = [d \in Device |-> {}]
    /\ removed = [d \in Device |-> 0]
    /\ torn = [d \in Device |-> 0]
    /\ foreign = {}

-----------------------------------------------------------------------------
(***************************************************************************)
(* django.core.paginator, as _retreive_messages uses it.                   *)
(***************************************************************************)

\* Mutant of Pages: the last page is not counted unless it is full.
FullPages(count, size) == IF count < size THEN 1 ELSE count \div size

\* num_pages; an empty list has one page.
Pages(count, size) ==
    IF count = 0 THEN 1 ELSE (count + size - 1) \div size

\* get_page: a page beyond the last is the last.
GetPage(page, count, size) ==
    IF page =< Pages(count, size) THEN page ELSE Pages(count, size)

\* order_by('-created_at'): the newest message has rank 1.
Rank(m) == Cardinality({n \in alive : n >= m})

\* Mutant of Slice: pages are counted from 0.
SliceFromZero(page, count, size) ==
    {m \in alive : page * size < Rank(m) /\ Rank(m) =< (page + 1) * size}

\* The slice of the query; the last page ends at the count of before.
Slice(page, count, size) ==
    LET bottom == (page - 1) * size
        top    == IF bottom + size >= count THEN count ELSE bottom + size
    IN {m \in alive : bottom < Rank(m) /\ Rank(m) =< top}

-----------------------------------------------------------------------------
(***************************************************************************)
(* The room.                                                               *)
(***************************************************************************)
Walking(d) == walk[d].state = "walking"

Change ==
    /\ changes < MaxChanges
    /\ changes' = changes + 1

\* Mutant of Arrive: the number is given again.
ArriveUncounted ==
    /\ Change
    /\ alive' = alive \cup {created + 1}
    /\ UNCHANGED <<created, walk, inbox, handler, history>>

Arrive ==
    /\ Change
    /\ created' = created + 1
    /\ alive' = alive \cup {created + 1}
    /\ torn' = [d \in Device |->
           IF Walking(d) /\ handler[d].step = "counted"
           THEN torn[d] + 1 ELSE torn[d]]
    /\ UNCHANGED <<walk, inbox, handler, start, removed, foreign>>

Remove(m) ==
    /\ m \in alive
    /\ Change
    /\ alive' = alive \ {m}
    /\ removed' = [d \in Device |->
           IF Walking(d) THEN removed[d] + 1 ELSE removed[d]]
    /\ UNCHANGED <<created, walk, inbox, handler, start, torn, foreign>>

-----------------------------------------------------------------------------
(***************************************************************************)
(* A device and its handler.                                               *)
(***************************************************************************)
Begin(d) ==
    /\ walk[d].state = "new"
    /\ walk' = [walk EXCEPT ![d].state = "walking", ![d].page = 1]
    /\ inbox' = [inbox EXCEPT ![d] = Append(@, 1)]
    /\ start' = [start EXCEPT ![d] = alive]
    /\ UNCHANGED <<messages, handler, removed, torn, foreign>>

\* Paginator.count
Count(d) ==
    /\ handler[d].step = "idle"
    /\ inbox[d] # <<>>
    /\ inbox' = [inbox EXCEPT ![d] = Tail(@)]
    /\ handler' = [handler EXCEPT ![d] =
           [NoRequest EXCEPT !.step = "counted", !.page = Head(inbox[d]),
                             !.count = Cardinality(alive)]]
    /\ UNCHANGED <<messages, walk, history>>

\* The page is read while it is serialized.
Read(d) ==
    LET h    == handler[d]
        size == walk[d].size
        page == GetPage(h.page, h.count, size) IN
    /\ h.step = "counted"
    /\ handler' = [handler EXCEPT
           ![d].step = "read",
           ![d].next = IF page < Pages(h.count, size) THEN page + 1 ELSE 0,
           ![d].data = Slice(page, h.count, size)]
    /\ UNCHANGED <<messages, walk, inbox, history>>

\* Whether device e takes the answer to device d's request.
Takes(e, d) ==
    /\ Walking(e)
    /\ walk[e].page = handler[d].page
    /\ walk[e].size = walk[d].size

\* Mutant of Answer: the handler does not end.
AnswerForever(d) ==
    LET h == handler[d] IN
    /\ h.step = "read"
    /\ walk' = [e \in Device |->
           IF Takes(e, d)
           THEN [walk[e] EXCEPT !.got = @ \cup h.data, !.page = h.next,
                                !.state = IF h.next = 0 THEN "done" ELSE @]
           ELSE walk[e]]
    /\ inbox' = [e \in Device |->
           IF Takes(e, d) /\ h.next # 0 THEN Append(inbox[e], h.next)
                                        ELSE inbox[e]]
    /\ foreign' = foreign \cup {e \in Device \ {d} : Takes(e, d)}
    /\ UNCHANGED <<messages, handler, start, removed, torn>>

\* The answer is sent to the own group of the user.
Answer(d) ==
    LET h == handler[d] IN
    /\ h.step = "read"
    /\ handler' = [handler EXCEPT ![d] = NoRequest]
    /\ walk' = [e \in Device |->
           IF Takes(e, d)
           THEN [walk[e] EXCEPT !.got = @ \cup h.data, !.page = h.next,
                                !.state = IF h.next = 0 THEN "done" ELSE @]
           ELSE walk[e]]
    /\ inbox' = [e \in Device |->
           IF Takes(e, d) /\ h.next # 0 THEN Append(inbox[e], h.next)
                                        ELSE inbox[e]]
    /\ foreign' = foreign \cup {e \in Device \ {d} : Takes(e, d)}
    /\ UNCHANGED <<messages, start, removed, torn>>

Serve(d) == Begin(d) \/ Count(d) \/ Read(d) \/ Answer(d)

Next ==
    \/ Arrive
    \/ \E m \in Number : Remove(m)
    \/ \E d \in Device : Serve(d)

Spec == Init /\ [][Next]_vars

FairSpec == Spec /\ \A d \in Device : WF_vars(Serve(d))

-----------------------------------------------------------------------------
\* The messages that were there from beginning to end and were not returned.
Missed(d) == (start[d] \cap alive) \ walk[d].got

\* A device that followed the pages to the end, on the answers to its own
\* requests, missed at most one message for each that was deleted meanwhile or
\* was sent between the two queries of a request (helper_mixins.py:391).  New
\* messages alone hide nothing.
MissesNoMore ==
    \A d \in Device \ foreign :
        walk[d].state = "done" =>
            Cardinality(Missed(d)) =< removed[d] + torn[d]

\* In a room where nothing happens every device gets every message, whichever
\* device's answers it takes.
QuietRoomIsComplete ==
    \A d \in Device :
        walk[d].state = "done" /\ changes = 0 => walk[d].got = alive

\* Every walk ends, although pages shift and disappear under it.
WalksEnd == \A d \in Device : <>(walk[d].state = "done")
=============================================================================
