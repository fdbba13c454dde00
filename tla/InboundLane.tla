----------------------------- MODULE InboundLane -----------------------------
(***************************************************************************)
(* Inbound events: a reply from outside reaches the bot that owns the work *)
(* item it is about. A delivery is resolved against the items' keys, its   *)
(* event is committed under two unique indexes (one per signature or       *)
(* record, one per message id of the sender), the sender is answered, and  *)
(* the same task then wakes the owning bot: find or make the item's room,  *)
(* post the sender's words, run a turn, stamp the event as handled. A poll *)
(* takes a batch of records through the same steps, one after the other.   *)
(*                                                                         *)
(* Nothing retries a wake. What a task knows of an item is what it read:   *)
(* another task, or the item's human, may write the row in between. The    *)
(* turn runs on the task's own session, and a turn that fails rolls that   *)
(* session back, which expires the event the task was about to stamp.      *)
(***************************************************************************)
EXTENDS Naturals, Sequences, FiniteSets

CONSTANTS
    Deliveries,   \* signed deliveries and fetched records
    Messages,     \* what senders wrote; a delivery carries one
    Unnamed,      \* messages the sender gave no id of its own
    Items, Bots, Rooms,
    Roster,       \* bots a source seats in the rooms it opens
    Batches,      \* what one request brings: a delivery, or a poll's records
    Tasks,        \* requests handling deliveries at a time
    MaxRequests,  \* bound: requests that bring deliveries
    MaxEdits,     \* bound: what humans do to items and rooms
    Faults,       \* what may go wrong in the instance
    Carries,      \* [Deliveries -> Messages]
    Matches,      \* [Messages -> SUBSET Items]: items with the sender's key
    Owner,        \* [Items -> Bots]: who holds an item at first
    NoBot, Gone

AllFaults == {"dies", "turn_fails"}

\* Rows of `work_items`, as far as an inbound reply looks at them.
ItemRows == [open : BOOLEAN, owner : Bots \cup {NoBot}, room : Rooms \cup {Gone}]

ASSUME InboundAssumption ==
    /\ IsFiniteSet(Deliveries)
    /\ Unnamed \subseteq Messages
    /\ Carries \in [Deliveries -> Messages]
    /\ Matches \in [Messages -> SUBSET Items] /\ Owner \in [Items -> Bots]
    /\ MaxRequests \in Nat /\ MaxEdits \in Nat
    /\ Faults \subseteq AllFaults
    /\ Roster \subseteq Bots /\ Batches \subseteq Seq(Deliveries) \ {<<>>}
    /\ NoBot \notin Bots
    /\ Gone \notin Items \cup Rooms \cup ItemRows
    /\ \A bots \in SUBSET Bots : bots # Gone

VARIABLES
    enabled,   \* inbound_sources.enabled
    item,      \* work_items, or Gone
    room,      \* threads: the bots seated there, or Gone
    event,     \* inbound_events
    task,      \* requests handling deliveries
    requests,  \* history: requests that brought deliveries
    edits,     \* history: what humans did
    answered,  \* history: deliveries answered 202
    turns,     \* history: turns run for a message
    strays,    \* history: turns a bot other than the one woken had to answer
    opened,    \* history: rooms opened for an item
    raced,     \* history: items given a room while they had one
    lost       \* history: events whose wake a fault, a deleted row or a seat taken ended

vars == <<enabled, item, room, event, task, requests, edits, answered, turns, strays,
          opened, raced, lost>>
humanVars == <<enabled, edits>>
doorVars  == <<requests, answered>>
wakeVars  == <<turns, strays, opened, raced>>

------------------------------------------------------------------------------
Wakeable == {"matched", "ambiguous"}
NoEvent  == [status |-> "none", item |-> Gone, handled |-> FALSE]
Idle     == [pc |-> "idle", todo |-> <<>>, did |-> {}, wake |-> <<>>, status |-> "none",
             item |-> Gone, bot |-> NoBot, room |-> Gone]

Now(t)   == Head(task[t].todo)   \* the delivery being ingested
Event(t) == Head(task[t].wake)   \* the event being woken for
Elems(s) == {s[i] : i \in DOMAIN s}

\* uq_inbound_events_delivery and uq_inbound_events_external.
Same(d, o)  == d = o \/ (Carries[d] = Carries[o] /\ Carries[d] \notin Unnamed)
Recorded(d) == \E o \in Deliveries : Same(d, o) /\ event[o] # NoEvent

\* resolve_by_key: the open items with the key, or else the closed ones.
Candidates(m) ==
    LET live == {i \in Matches[m] : item[i] # Gone}
        open == {i \in live : item[i].open}
    IN  IF open # {} THEN open ELSE live

Verdict(found, chosen) ==
    IF found = {} THEN "unmatched"
    ELSE IF item[chosen].owner = NoBot THEN "unroutable"
    ELSE IF Cardinality(found) = 1 THEN "matched" ELSE "ambiguous"

Init ==
    /\ enabled  = TRUE
    /\ item     = [i \in Items |-> [open |-> TRUE, owner |-> Owner[i], room |-> Gone]]
    /\ room     = [r \in Rooms |-> Gone]
    /\ event    = [d \in Deliveries |-> NoEvent]
    /\ task     = [t \in Tasks |-> Idle]
    /\ requests = 0
    /\ edits    = 0
    /\ answered = {}
    /\ turns    = [m \in Messages |-> 0]
    /\ strays   = 0
    /\ opened   = [i \in Items |-> {}]
    /\ raced    = {}
    /\ lost     = {}

------------------------------------------------------------------------------
(* The front door                                                          *)

\* One delivery pushed, or the records a poll fetched, in order. What is rate
\* limited, too large, not authentic or for a disabled source changes nothing.
Receive(t, ds) ==
    /\ task[t].pc = "idle" /\ enabled /\ requests < MaxRequests
    /\ task' = [task EXCEPT ![t] = [Idle EXCEPT !.pc = "resolve", !.todo = ds]]
    /\ requests' = requests + 1
    /\ UNCHANGED <<humanVars, item, room, event, answered, wakeVars, lost>>

\* _resolve; the order among the candidates is left open.
Resolve(t) == LET found == Candidates(Carries[Now(t)]) IN
    /\ task[t].pc = "resolve"
    /\ \E chosen \in IF found = {} THEN {Gone} ELSE found :
          task' = [task EXCEPT ![t].pc = "commit", ![t].item = chosen,
                               ![t].status = Verdict(found, chosen)]
    /\ UNCHANGED <<humanVars, item, room, event, doorVars, wakeVars, lost>>

\* On to the next record, or to the answer and then the wakes.
Ingested(x, woken) ==
    [x EXCEPT !.pc   = IF Len(x.todo) > 1 THEN "resolve" ELSE "answer",
              !.todo = Tail(@), !.did = @ \cup {Head(x.todo)}, !.wake = @ \o woken,
              !.item = Gone, !.status = "none"]

\* Whether the chosen item is still there to be stamped with last_event_at.
Stampable(t) == task[t].item # Gone => item[task[t].item] # Gone

\* Mutant: only an unambiguous reply wakes its bot.
CommitWakesMatched(t) == LET d == Now(t) IN
    /\ task[t].pc = "commit" /\ ~Recorded(d) /\ Stampable(t)
    /\ event' = [event EXCEPT ![d] = [status |-> task[t].status, item |-> task[t].item,
                                      handled |-> FALSE]]
    /\ task'  = [task EXCEPT ![t] =
                   Ingested(@, IF @.status = "matched" THEN <<d>> ELSE <<>>)]
    /\ UNCHANGED <<humanVars, item, room, doorVars, wakeVars, lost>>

Commit(t) == LET d == Now(t) IN
    /\ task[t].pc = "commit" /\ ~Recorded(d) /\ Stampable(t)
    /\ event' = [event EXCEPT ![d] = [status |-> task[t].status, item |-> task[t].item,
                                      handled |-> FALSE]]
    /\ task'  = [task EXCEPT ![t] =
                   Ingested(@, IF @.status \in Wakeable THEN <<d>> ELSE <<>>)]
    /\ UNCHANGED <<humanVars, item, room, doorVars, wakeVars, lost>>

\* Mutant: a repeated delivery wakes the bot as well.
DuplicateWakes(t) == LET d == Now(t) IN
    /\ task[t].pc = "commit" /\ Recorded(d) /\ Stampable(t)
    /\ task' = [task EXCEPT ![t] =
                  Ingested(@, IF event[d].status \in Wakeable THEN <<d>> ELSE <<>>)]
    /\ UNCHANGED <<humanVars, item, room, event, doorVars, wakeVars, lost>>

\* An index fired: rolled back, and answered like any other delivery.
Duplicate(t) ==
    /\ task[t].pc = "commit" /\ Recorded(Now(t)) /\ Stampable(t)
    /\ task' = [task EXCEPT ![t] = Ingested(@, <<>>)]
    /\ UNCHANGED <<humanVars, item, room, event, doorVars, wakeVars, lost>>

\* The request ends unanswered, and with it the wakes it was to run.
GiveUp(t) ==
    /\ task' = [task EXCEPT ![t] = Idle]
    /\ lost' = lost \cup Elems(task[t].wake)

CommitRaises(t) ==
    /\ task[t].pc = "commit" /\ ~Stampable(t)
    /\ GiveUp(t)
    /\ UNCHANGED <<humanVars, item, room, event, doorVars, wakeVars>>

\* Wakes run once the response is out, one after the other.
Next1(x) == [Idle EXCEPT !.pc = IF x.wake = <<>> THEN "idle" ELSE "wake", !.wake = x.wake]

Answer(t) ==
    /\ task[t].pc = "answer"
    /\ answered' = answered \cup task[t].did
    /\ task' = [task EXCEPT ![t] = Next1(@)]
    /\ UNCHANGED <<humanVars, item, room, event, requests, wakeVars, lost>>

------------------------------------------------------------------------------
(* The wake                                                                *)

Woken(t) == LET left == [task[t] EXCEPT !.wake = Tail(@)] IN
    [task EXCEPT ![t] = Next1(left)]

Ownerless(i) == item[i] # Gone => item[i].owner = NoBot

\* No turn: the event was woken for already, or nobody holds the item any more.
WakeStops(t) == LET d == Event(t) IN
    /\ task[t].pc = "wake" /\ (~event[d].handled => Ownerless(event[d].item))
    /\ event' = IF event[d].handled THEN event
                ELSE [event EXCEPT ![d].status = "unroutable", ![d].handled = TRUE]
    /\ task'  = Woken(t)
    /\ UNCHANGED <<humanVars, item, room, doorVars, wakeVars, lost>>

WakeReads(t) == LET d == Event(t)  i == event[d].item IN
    /\ task[t].pc = "wake" /\ ~event[d].handled /\ ~Ownerless(i)
    /\ task' = [task EXCEPT ![t].pc = "room", ![t].item = i,
                            ![t].bot = item[i].owner, ![t].room = item[i].room]
    /\ UNCHANGED <<humanVars, item, room, event, doorVars, wakeVars, lost>>

HasRoom(t) == task[t].room # Gone /\ room[task[t].room] # Gone

SitsThere(t) == task[t].bot \in room[task[t].room]

\* The room that is already there is used; the bot may sit there.
UseRoom(t) ==
    /\ task[t].pc = "room" /\ HasRoom(t) /\ SitsThere(t)
    /\ task' = [task EXCEPT ![t].pc = "post"]
    /\ UNCHANGED <<humanVars, item, room, event, doorVars, wakeVars, lost>>

\* Mutant: a bot is not seated in a room that is already there.
GoesInUnseated(t) ==
    /\ task[t].pc = "room" /\ HasRoom(t) /\ ~SitsThere(t)
    /\ task' = [task EXCEPT ![t].pc = "post"]
    /\ UNCHANGED <<humanVars, item, room, event, doorVars, wakeVars, lost>>

FindsNoSeat(t) ==
    /\ task[t].pc = "room" /\ HasRoom(t) /\ ~SitsThere(t)
    /\ task' = [task EXCEPT ![t].pc = "seat"]
    /\ UNCHANGED <<humanVars, item, room, event, doorVars, wakeVars, lost>>

\* The row is added some time after it was not found: thread_bots has one per bot.
TakeSeat(t) ==
    /\ task[t].pc = "seat" /\ room[task[t].room] # Gone /\ ~SitsThere(t)
    /\ room' = [room EXCEPT ![task[t].room] = @ \cup {task[t].bot}]
    /\ task' = [task EXCEPT ![t].pc = "post"]
    /\ UNCHANGED <<humanVars, item, event, doorVars, wakeVars, lost>>

\* A room with the bot and the source's roster, pinned to the item whatever the
\* item's row says by now. An item deleted since fails the commit.
OpenRoom(t) == LET i == task[t].item IN
    /\ task[t].pc = "room" /\ ~HasRoom(t) /\ item[i] # Gone
    /\ \E r \in Rooms :
          /\ room[r] = Gone /\ \A j \in Items : r \notin opened[j]
          /\ room'   = [room EXCEPT ![r] = {task[t].bot} \cup Roster]
          /\ item'   = [item EXCEPT ![i].room = r]
          /\ opened' = [opened EXCEPT ![i] = @ \cup {r}]
          /\ task'   = [task EXCEPT ![t].pc = "post", ![t].room = r]
    /\ raced' = IF item[i].room # Gone THEN raced \cup {i} ELSE raced
    /\ UNCHANGED <<humanVars, event, doorVars, turns, strays, lost>>

\* The sender's words are posted, and the turn begins with the bots of the room.
Post(t) == LET m == Carries[Event(t)] IN
    /\ task[t].pc = "post" /\ room[task[t].room] # Gone
    /\ turns'  = [turns EXCEPT ![m] = @ + 1]
    /\ strays' = IF task[t].bot \in room[task[t].room] THEN strays ELSE strays + 1
    /\ task'   = [task EXCEPT ![t].pc = "turn"]
    /\ UNCHANGED <<humanVars, item, room, event, doorVars, opened, raced, lost>>

\* The row to write on was deleted, or another wake has seated the bot meanwhile:
\* the commit raises out of the wake, and the tasks behind it are not run.
WakeRaises(t) ==
    /\ \/ task[t].pc = "room" /\ ~HasRoom(t) /\ item[task[t].item] = Gone
       \/ task[t].pc = "seat" /\ (room[task[t].room] = Gone \/ SitsThere(t))
       \/ task[t].pc = "post" /\ room[task[t].room] = Gone
    /\ GiveUp(t)
    /\ UNCHANGED <<humanVars, item, room, event, doorVars, wakeVars>>

WakeRecords(t) ==
    /\ task[t].pc = "turn"
    /\ event' = [event EXCEPT ![Event(t)].handled = TRUE]
    /\ task'  = Woken(t)
    /\ UNCHANGED <<humanVars, item, room, doorVars, wakeVars, lost>>

\* _fail_run rolled the session back: reading the expired event's detail raises,
\* and the tasks behind this one in the same response are not run.
TurnFails(t) ==
    /\ "turn_fails" \in Faults /\ task[t].pc = "turn"
    /\ GiveUp(t)
    /\ UNCHANGED <<humanVars, item, room, event, doorVars, wakeVars>>

Dies(t) ==
    /\ "dies" \in Faults /\ task[t].pc # "idle"
    /\ GiveUp(t)
    /\ UNCHANGED <<humanVars, item, room, event, doorVars, wakeVars>>

------------------------------------------------------------------------------
(* What humans do meanwhile                                                *)

Edit ==
    /\ edits < MaxEdits /\ edits' = edits + 1
    /\ UNCHANGED <<event, task, doorVars, wakeVars, lost>>

SwitchSource == Edit /\ enabled' = ~enabled /\ UNCHANGED <<item, room>>

\* Closed or re-opened, transferred or left without an owner, or deleted.
EditItem(i) ==
    /\ Edit /\ item[i] # Gone
    /\ \/ item' = [item EXCEPT ![i].open = ~@]
       \/ \E b \in Bots \cup {NoBot} : item' = [item EXCEPT ![i].owner = b]
       \/ item' = [item EXCEPT ![i] = Gone]
    /\ UNCHANGED <<enabled, room>>

\* ON DELETE SET NULL.
DeleteRoom(r) ==
    /\ Edit /\ room[r] # Gone
    /\ room' = [room EXCEPT ![r] = Gone]
    /\ item' = [i \in Items |-> IF item[i] # Gone /\ item[i].room = r
                                THEN [item[i] EXCEPT !.room = Gone] ELSE item[i]]
    /\ UNCHANGED enabled

------------------------------------------------------------------------------
TaskStep(t) ==
    \/ Resolve(t) \/ Commit(t) \/ Duplicate(t) \/ CommitRaises(t) \/ Answer(t)
    \/ WakeStops(t) \/ WakeReads(t) \/ UseRoom(t) \/ FindsNoSeat(t) \/ TakeSeat(t) \/ OpenRoom(t)
    \/ Post(t) \/ WakeRaises(t) \/ WakeRecords(t)

Next ==
    \/ \E t \in Tasks, ds \in Batches : Receive(t, ds)
    \/ \E t \in Tasks : TaskStep(t) \/ TurnFails(t) \/ Dies(t)
    \/ SwitchSource
    \/ \E i \in Items : EditItem(i)
    \/ \E r \in Rooms : DeleteRoom(r)

\* A request that has begun goes on: nothing in it waits for another.
Spec == Init /\ [][Next]_vars /\ \A t \in Tasks : WF_vars(TaskStep(t))

------------------------------------------------------------------------------
(* Properties                                                              *)

\* A reply is acted on once: however often a sender retries, re-signs or a mailbox
\* is polled, and whatever dies, at most one turn runs for a message that has an
\* id, and for one that has none at most one per distinct delivery.
OneTurnPerReply ==
    \A m \in Messages :
        turns[m] <= IF m \in Unnamed THEN Cardinality({d \in Deliveries : Carries[d] = m})
                                     ELSE 1

\* Replies about an item are discussed in one room, where the bot woken is seated
\* and answers itself, unless two wakes found the item without a room at once.
OneRoomPerItem ==
    /\ strays = 0
    /\ \A i \in Items :
          i \in raced \/ Cardinality({r \in opened[i] : room[r] # Gone}) <= 1

\* Every delivery answered 202 is on record and comes to rest: its bot was woken, or
\* it waits in a human's queue, or the wake was lost: to a fault, to a row deleted
\* under it, or to another wake that seated the same bot in the same room at once.
AnsweredIsSettled ==
    \A d \in Deliveries : d \in answered ~>
        \E o \in Deliveries :
            /\ Same(d, o) /\ event[o] # NoEvent
            /\ event[o].handled \/ event[o].status \notin Wakeable \/ o \in lost

==============================================================================
