-------------------------- MODULE InboundLane_proof --------------------------
(* Theorems about InboundLane, for any deliveries, messages, items and bots,  *)
(* any batches and any of the faults.                                         *)
EXTENDS InboundLane, FiniteSetTheorems, SequenceTheorems, TLAPS

Verdicts == {"unmatched", "unroutable", "matched", "ambiguous"}

EventRow == [status : Verdicts, item : Items \cup {Gone}, handled : BOOLEAN]

Task ==
    [pc     : {"idle", "resolve", "commit", "answer", "wake", "room", "seat", "post", "turn"},
     todo   : Seq(Deliveries),
     did    : SUBSET Deliveries,
     wake   : Seq(Deliveries),
     status : Verdicts \cup {"none"},
     item   : Items \cup {Gone},
     bot    : Bots \cup {NoBot},
     room   : Rooms \cup {Gone}]

\* The types of everything but the tasks.
Typed ==
    /\ enabled \in BOOLEAN
    /\ item \in [Items -> ItemRows \cup {Gone}]
    /\ room \in [Rooms -> (SUBSET Bots) \cup {Gone}]
    /\ event \in [Deliveries -> EventRow \cup {NoEvent}]
    /\ requests \in Nat /\ edits \in Nat
    /\ answered \in SUBSET Deliveries
    /\ turns \in [Messages -> Nat]
    /\ strays \in Nat
    /\ opened \in [Items -> SUBSET Rooms]
    /\ raced \in SUBSET Items
    /\ lost \in SUBSET Deliveries

TypeOK == Typed /\ task \in [Tasks -> Task]

\* What is left to do is there to be done: a record to ingest, an event to wake
\* for; and what is about to be committed has a verdict.
Ready(x) ==
    /\ x.pc \in {"resolve", "commit"} => x.todo # <<>>
    /\ x.pc \in {"wake", "room", "seat", "post", "turn"} => x.wake # <<>>
    /\ x.pc = "commit" => /\ x.status # "none"
                          /\ x.status \in Wakeable => x.item \in Items

------------------------------------------------------------------------------
(* What OneTurnPerReply rests on.                                           *)

On(d) == event[d] # NoEvent

\* t is to wake for d, and has not begun the turn.
Waits(t, d) == \E i \in DOMAIN task[t].wake :
    task[t].wake[i] = d /\ ~(i = 1 /\ task[t].pc = "turn")

\* d is on record, and no task is to run a turn for it.
Spent(d) == On(d) /\ \A t \in Tasks : ~Waits(t, d)

\* A delivery stands once in all the lists of wakes, and only when it is on record.
Listed(d) ==
    /\ \A t, u \in Tasks : \A i \in DOMAIN task[t].wake, j \in DOMAIN task[u].wake :
          task[t].wake[i] = d /\ task[u].wake[j] = d => t = u /\ i = j
    /\ \A t \in Tasks : \A i \in DOMAIN task[t].wake :
          task[t].wake[i] = d => On(d) /\ event[d].item \in Items

\* Of the deliveries of one named message one is on record, and every turn that was
\* run is that of a spent delivery.
SpentFor(m) == {d \in Deliveries : Carries[d] = m /\ Spent(d)}

TurnInv ==
    /\ \A t \in Tasks : Ready(task[t])
    /\ \A d \in Deliveries : Listed(d)
    /\ \A d, o \in Deliveries : On(d) /\ On(o) /\ Same(d, o) => d = o
    /\ \A m \in Messages : turns[m] <= Cardinality(SpentFor(m))

------------------------------------------------------------------------------
(* What OneRoomPerItem rests on.                                            *)

\* A task about to post found or made its room; as long as that stands, its bot is
\* seated there.
Seated(t) ==
    task[t].pc \in {"room", "seat", "post"} =>
        /\ task[t].item \in Items /\ task[t].bot \in Bots
        /\ task[t].room # Gone \/ task[t].pc \in {"seat", "post"} => task[t].room \in opened[task[t].item]
        /\ task[t].pc = "post" /\ room[task[t].room] # Gone => task[t].bot \in room[task[t].room]

\* An item's row names a room opened for it; unless wakes raced, the item has one
\* room that stands, and its row, if it is there, says which.
Housed(i) ==
    /\ item[i] # Gone /\ item[i].room # Gone => item[i].room \in opened[i]
    /\ i \notin raced =>
          /\ \A r, s \in opened[i] : room[r] # Gone /\ room[s] # Gone => r = s
          /\ \A r \in opened[i] : room[r] # Gone /\ item[i] # Gone => item[i].room = r

RoomInv ==
    /\ strays = 0
    /\ \A t \in Tasks : Seated(t)
    /\ \A i \in Items : Housed(i)

IInv == TypeOK /\ TurnInv /\ RoomInv
------------------------------------------------------------------------------
(* Facts about lists of deliveries, and about what the operators return.    *)

LEMMA TailIs ==
  ASSUME NEW s \in Seq(Deliveries), s # <<>>
  PROVE  /\ Tail(s) \in Seq(Deliveries) /\ Head(s) \in Deliveries
         /\ 1 \in DOMAIN s /\ s[1] = Head(s)
         /\ \A i \in DOMAIN Tail(s) : i \in Nat \ {0} /\ i + 1 \in DOMAIN s /\ Tail(s)[i] = s[i + 1]
BY HeadTailProperties

LEMMA MoreIs ==
  ASSUME NEW s \in Seq(Deliveries), NEW d \in Deliveries
  PROVE  /\ s \o <<>> = s /\ s \o <<d>> \in Seq(Deliveries)
         /\ \A i \in DOMAIN (s \o <<d>>) :
               \/ i \in DOMAIN s /\ (s \o <<d>>)[i] = s[i]
               \/ i = Len(s) + 1 /\ (s \o <<d>>)[i] = d
<1>1. <<>> \in Seq(Deliveries) /\ <<d>> \in Seq(Deliveries) /\ s \o <<>> = s
  BY EmptySeq, ConcatEmptySeq
<1>2. Len(s) \in Nat /\ DOMAIN s = 1 .. Len(s) /\ Len(<<d>>) = 1 /\ <<d>>[1] = d
  BY LenProperties
<1>3. s \o <<d>> \in Seq(Deliveries) /\ Len(s \o <<d>>) = Len(s) + 1
      /\ DOMAIN (s \o <<d>>) = 1 .. (Len(s) + 1)
  BY <1>1, <1>2, ConcatProperties, LenProperties
<1>4. \A i \in 1 .. (Len(s) + 1) :
         (s \o <<d>>)[i] = IF i <= Len(s) THEN s[i] ELSE <<d>>[i - Len(s)]
  BY <1>1, <1>2, ConcatProperties
<1> QED
  BY <1>1, <1>2, <1>3, <1>4

LEMMA IdleIs ==
  /\ Idle \in Task /\ Ready(Idle) /\ Idle.pc = "idle" /\ Idle.wake = <<>>
<1>1. <<>> \in Seq(Deliveries)
  BY EmptySeq
<1> QED
  BY <1>1 DEF Idle, Task, Ready

LEMMA Next1Is ==
  ASSUME NEW x \in Task
  PROVE  /\ Next1(x) \in Task /\ Ready(Next1(x)) /\ Next1(x).pc \in {"idle", "wake"}
         /\ Next1(x).wake = x.wake
<1>1. x.wake \in Seq(Deliveries)
  BY DEF Task
<1> DEFINE p == IF x.wake = <<>> THEN "idle" ELSE "wake"
<1>2. Next1(x) = [Idle EXCEPT !.pc = p, !.wake = x.wake]
  BY DEF Next1
<1>3. p \in {"idle", "wake"} /\ (p = "wake" => x.wake # <<>>)
  OBVIOUS
<1> HIDE DEF p
<1> QED
  BY <1>1, <1>2, <1>3, IdleIs DEF Task, Ready

\* On with the ingestion: the wake list grows by what is given, and the next record
\* is there to be ingested.
LEMMA IngestedIs ==
  ASSUME NEW x \in Task, x.todo # <<>>, NEW more, x.wake \o more \in Seq(Deliveries)
  PROVE  /\ Ingested(x, more) \in Task /\ Ready(Ingested(x, more))
         /\ Ingested(x, more).pc \in {"resolve", "answer"}
         /\ Ingested(x, more).wake = x.wake \o more
<1> DEFINE p == IF Len(x.todo) > 1 THEN "resolve" ELSE "answer"
<1>1. x.todo \in Seq(Deliveries) /\ x.did \in SUBSET Deliveries
  BY DEF Task
<1>2. Tail(x.todo) \in Seq(Deliveries) /\ x.did \cup {Head(x.todo)} \in SUBSET Deliveries
  BY <1>1, TailIs
<1>3. p \in {"resolve", "answer"} /\ (p = "resolve" => Tail(x.todo) # <<>>)
  <2>1. Len(x.todo) \in Nat /\ Len(Tail(x.todo)) = Len(x.todo) - 1
    BY <1>1, HeadTailProperties
  <2> QED
    <3>1. Len(<<>>) = 0
      OBVIOUS
    <3>2. ASSUME Tail(x.todo) = <<>> PROVE ~(Len(x.todo) > 1)
      <4>1. Len(Tail(x.todo)) = 0
        BY <3>1, <3>2
      <4>2. Len(x.todo) = 1
        BY <2>1, <4>1
      <4> QED
        BY <4>2
    <3>3. Len(x.todo) > 1 => Tail(x.todo) # <<>>
      BY <3>2, Zenon
    <3>4. (Len(x.todo) > 1 /\ p = "resolve") \/ p = "answer"
      OBVIOUS
    <3> QED
      BY <3>3, <3>4
<1>4. Ingested(x, more) = [x EXCEPT !.pc = p, !.todo = Tail(x.todo), !.did = x.did \cup {Head(x.todo)},
                                    !.wake = x.wake \o more, !.item = Gone, !.status = "none"]
  BY DEF Ingested
<1> HIDE DEF p
<1>5. /\ Ingested(x, more) \in Task /\ Ingested(x, more).pc = p
      /\ Ingested(x, more).wake = x.wake \o more /\ Ingested(x, more).todo = Tail(x.todo)
  BY <1>2, <1>3, <1>4 DEF Task
<1> QED
  BY <1>3, <1>5 DEF Ready

\* A verdict that wakes a bot names one of the items found.
LEMMA VerdictIs ==
  ASSUME NEW m \in Messages, NEW chosen \in IF Candidates(m) = {} THEN {Gone} ELSE Candidates(m)
  PROVE  /\ Verdict(Candidates(m), chosen) \in Verdicts /\ chosen \in Items \cup {Gone}
         /\ Verdict(Candidates(m), chosen) \in Wakeable => chosen \in Items
<1>1. Candidates(m) \subseteq Items
  BY InboundAssumption DEF Candidates
<1> DEFINE found == Candidates(m)
<1>2. CASE found = {}
  <2>1. chosen = Gone /\ Verdict(found, chosen) = "unmatched"
    BY <1>2 DEF Verdict
  <2> QED
    BY <2>1 DEF Verdicts, Wakeable
<1>3. CASE found # {}
  <2>1. chosen \in Items
    BY <1>1, <1>3
  <2>2. Verdict(found, chosen) \in Verdicts
    BY <1>3 DEF Verdict, Verdicts
  <2> QED
    BY <2>1, <2>2
<1> QED
  BY <1>2, <1>3

LEMMA RowsAre ==
  /\ \A d \in Deliveries : Same(d, d)
  /\ NoEvent \notin EventRow
  /\ Gone \notin Items /\ Gone \notin Rooms /\ Gone \notin ItemRows /\ Gone \notin SUBSET Bots
  /\ NoBot \notin Bots
BY InboundAssumption DEF Same, NoEvent, EventRow, Verdicts
------------------------------------------------------------------------------
(* What a task's step may do to events, wakes and turns. The task t goes on *)
(* as x.                                                                     *)

\* What x is to wake for, t was to wake for as well, so many places further back,
\* and had not begun with.
Shifts(t, x) == \E k \in Nat : \A i \in DOMAIN x.wake :
    /\ i \in Nat \ {0} /\ i + k \in DOMAIN task[t].wake /\ x.wake[i] = task[t].wake[i + k]
    /\ ~(i + k = 1 /\ task[t].pc = "turn")

\* Events stay on record, and about the same item.
EventsStay == \A d \in Deliveries : On(d)' = On(d) /\ event'[d].item = event[d].item

Works(t, x) == EventsStay /\ turns' = turns /\ Shifts(t, x) /\ x.pc # "turn"

\* The turn is run for the event at hand.
RunsTurn(t, x) ==
    /\ UNCHANGED event /\ task[t].pc = "post" /\ x.pc = "turn" /\ x.wake = task[t].wake
    /\ turns' = [turns EXCEPT ![Carries[Event(t)]] = @ + 1]

\* A delivery is recorded, and its bot is to be woken or not.
Records(t, x) == \E d \in Deliveries, row \in EventRow :
    /\ ~Recorded(d) /\ event' = [event EXCEPT ![d] = row] /\ turns' = turns
    /\ task[t].pc = "commit" /\ x.pc # "turn"
    /\ \/ x.wake = task[t].wake
       \/ x.wake = task[t].wake \o <<d>> /\ row.item \in Items

TurnShape(t, x) == Works(t, x) \/ RunsTurn(t, x) \/ Records(t, x)

------------------------------------------------------------------------------
(* What it may do to rooms.                                                  *)

RoomsRest == UNCHANGED <<item, room, opened, raced>>

Aside(t, x) == RoomsRest /\ strays' = strays /\ x.pc \notin {"room", "seat", "post"}

Finds(t, x) == \E i \in Items :
    /\ RoomsRest /\ strays' = strays
    /\ x.pc = "room" /\ item[i] # Gone
    /\ x.item = i /\ x.bot = item[i].owner /\ x.room = item[i].room /\ x.bot \in Bots

Sees(t, x) ==
    /\ RoomsRest /\ strays' = strays
    /\ task[t].pc = "room" /\ HasRoom(t) /\ (x.pc = "seat" \/ (x.pc = "post" /\ SitsThere(t)))
    /\ x.item = task[t].item /\ x.bot = task[t].bot /\ x.room = task[t].room

Enters(t, x) ==
    /\ task[t].pc = "seat" /\ room[task[t].room] # Gone /\ x.pc = "post"
    /\ x.item = task[t].item /\ x.bot = task[t].bot /\ x.room = task[t].room
    /\ room' = [room EXCEPT ![task[t].room] = @ \cup {task[t].bot}]
    /\ UNCHANGED <<item, opened, raced, strays>>

Opens(t, x) == \E r \in Rooms :
    LET i == task[t].item IN
    /\ task[t].pc = "room" /\ x.pc = "post" /\ item[i] # Gone
    /\ x.item = i /\ x.bot = task[t].bot /\ x.room = r
    /\ room[r] = Gone /\ \A j \in Items : r \notin opened[j]
    /\ room' = [room EXCEPT ![r] = {task[t].bot} \cup Roster]
    /\ item' = [item EXCEPT ![i].room = r]
    /\ opened' = [opened EXCEPT ![i] = @ \cup {r}]
    /\ raced' = IF item[i].room # Gone THEN raced \cup {i} ELSE raced
    /\ strays' = strays

Speaks(t, x) ==
    /\ task[t].pc = "post" /\ room[task[t].room] # Gone /\ x.pc = "turn"
    /\ strays' = IF task[t].bot \in room[task[t].room] THEN strays ELSE strays + 1
    /\ RoomsRest

RoomShape(t, x) ==
    Aside(t, x) \/ Finds(t, x) \/ Sees(t, x) \/ Enters(t, x) \/ Opens(t, x) \/ Speaks(t, x)

Goes(t, x) == /\ task' = [task EXCEPT ![t] = x] /\ Ready(x)
              /\ Typed' /\ TurnShape(t, x) /\ RoomShape(t, x)

\* Three ways a list of wakes is a part of what it was.
LEMMA ShiftsAre ==
  ASSUME TypeOK, NEW t \in Tasks, NEW x \in Task
  PROVE  /\ x.wake = <<>> => Shifts(t, x)
         /\ x.wake = task[t].wake /\ task[t].pc # "turn" => Shifts(t, x)
         /\ task[t].wake # <<>> /\ x.wake = Tail(task[t].wake) => Shifts(t, x)
<1>1. x.wake \in Seq(Deliveries) /\ task[t].wake \in Seq(Deliveries)
  BY DEF TypeOK, Task
<1>2. x.wake = <<>> => Shifts(t, x)
  <2>1. DOMAIN <<>> = {} /\ 0 \in Nat
    OBVIOUS
  <2> QED
    BY <2>1 DEF Shifts
<1>3. ASSUME x.wake = task[t].wake, task[t].pc # "turn" PROVE Shifts(t, x)
  <2>1. \A i \in DOMAIN x.wake : i \in Nat \ {0} /\ i + 0 = i
    BY <1>1, LenProperties
  <2> QED
    BY <1>3, <2>1 DEF Shifts
<1>4. ASSUME task[t].wake # <<>>, x.wake = Tail(task[t].wake) PROVE Shifts(t, x)
  <2>1. \A i \in DOMAIN x.wake : /\ i \in Nat \ {0} /\ i + 1 \in DOMAIN task[t].wake
                               /\ x.wake[i] = task[t].wake[i + 1] /\ i + 1 # 1
    <3>1. \A i \in Nat \ {0} : i + 1 # 1
      OBVIOUS
    <3> QED
      BY <1>1, <1>4, <3>1, TailIs
  <2>2. 1 \in Nat
    OBVIOUS
  <2> QED
    BY <2>1, <2>2 DEF Shifts
<1> QED
  BY <1>2, <1>3, <1>4

\* The front door: ingestion and the answer.
LEMMA DoorSteps ==
  ASSUME TypeOK, NEW t \in Tasks, Ready(task[t]),
         \/ \E ds \in Batches : Receive(t, ds)
         \/ Resolve(t) \/ Commit(t) \/ Duplicate(t) \/ Answer(t)
  PROVE  \E x \in Task : Goes(t, x)
<1>0. task[t] \in Task /\ Typed /\ task[t].wake \in Seq(Deliveries)
  BY DEF TypeOK, Task
<1>1. ASSUME NEW ds \in Batches, Receive(t, ds) PROVE \E x \in Task : Goes(t, x)
  <2> DEFINE x == [Idle EXCEPT !.pc = "resolve", !.todo = ds]
  <2>1. ds \in Seq(Deliveries) /\ ds # <<>>
    BY InboundAssumption
  <2>2. x \in Task /\ x.pc = "resolve" /\ x.wake = <<>> /\ Ready(x)
    BY <2>1, IdleIs DEF Task, Ready
  <2>3. /\ task' = [task EXCEPT ![t] = x] /\ requests' = requests + 1
        /\ UNCHANGED <<humanVars, item, room, event, answered, wakeVars, lost>>
    BY <1>1 DEF Receive
  <2> HIDE DEF x
  <2>4. Typed'
    BY <1>0, <2>3 DEF Typed, humanVars, wakeVars
  <2>5. Works(t, x) /\ Aside(t, x)
    BY <1>0, <2>2, <2>3, ShiftsAre DEF Works, EventsStay, On, Aside, RoomsRest, wakeVars
  <2> QED
    BY <2>2, <2>3, <2>4, <2>5 DEF Goes, TurnShape, RoomShape
<1>2. CASE Resolve(t)
  <2> DEFINE m == Carries[Now(t)]
             found == Candidates(m)
  <2>1. task[t].pc = "resolve" /\ m \in Messages
    <3>1. task[t].pc = "resolve" /\ task[t].todo # <<>> /\ task[t].todo \in Seq(Deliveries)
      BY <1>0, <1>2 DEF Resolve, Ready, Task
    <3>2. Now(t) \in Deliveries
      BY <3>1, TailIs DEF Now
    <3> QED
      BY <3>1, <3>2, InboundAssumption
  <2>2. PICK chosen \in IF found = {} THEN {Gone} ELSE found :
          task' = [task EXCEPT ![t].pc = "commit", ![t].item = chosen, ![t].status = Verdict(found, chosen)]
    BY <1>2 DEF Resolve
  <2>3. PICK v \in Verdicts : /\ v = Verdict(found, chosen) /\ chosen \in Items \cup {Gone}
                              /\ v \in Wakeable => chosen \in Items
    BY <2>1, VerdictIs
  <2> DEFINE x == [task[t] EXCEPT !.pc = "commit", !.item = chosen, !.status = v]
  <2>4. /\ x \in Task /\ x.pc = "commit" /\ x.wake = task[t].wake /\ x.todo = task[t].todo
        /\ x.status = v /\ x.item = chosen
    BY <1>0, <2>3 DEF Task
  <2>5. task' = [task EXCEPT ![t] = x]
    BY <1>0, <2>2, <2>3 DEF TypeOK
  <2> HIDE DEF x, m
  <2>6. Ready(x)
    BY <2>1, <2>3, <2>4 DEF Ready, Verdicts
  <2>7. UNCHANGED <<humanVars, item, room, event, doorVars, wakeVars, lost>>
    BY <1>2 DEF Resolve
  <2>8. Typed'
    BY <1>0, <2>7 DEF Typed, humanVars, doorVars, wakeVars
  <2>9. Works(t, x) /\ Aside(t, x)
    BY <1>0, <2>1, <2>4, <2>7, ShiftsAre DEF Works, EventsStay, On, Aside, RoomsRest, wakeVars
  <2> QED
    BY <2>4, <2>5, <2>6, <2>8, <2>9 DEF Goes, TurnShape, RoomShape
<1>3. CASE Commit(t)
  <2> DEFINE d == Now(t)
  <2>1. /\ task[t].pc = "commit" /\ task[t].todo # <<>> /\ ~Recorded(d)
        /\ task[t].status \in Verdicts /\ task[t].item \in Items \cup {Gone}
        /\ task[t].status \in Wakeable => task[t].item \in Items
    BY <1>0, <1>3 DEF Commit, Ready, Task
  <2>2. d \in Deliveries
    BY <1>0, <2>1, TailIs DEF Now, Task
  <2>3. PICK row \in EventRow : /\ event' = [event EXCEPT ![d] = row] /\ row.item = task[t].item
    <3>1. [status |-> task[t].status, item |-> task[t].item, handled |-> FALSE] \in EventRow
      BY <2>1 DEF EventRow
    <3> QED
      BY <1>3, <3>1 DEF Commit
  <2> DEFINE more == IF task[t].status \in Wakeable THEN <<d>> ELSE <<>>
  <2>4. task' = [task EXCEPT ![t] = Ingested(task[t], more)]
    BY <1>3 DEF Commit
  <2>5. /\ task[t].wake \o more \in Seq(Deliveries)
        /\ \/ task[t].wake \o more = task[t].wake
           \/ task[t].wake \o more = task[t].wake \o <<d>> /\ row.item \in Items
    BY <1>0, <2>1, <2>2, <2>3, MoreIs
  <2> HIDE DEF more, d
  <2>6. PICK x \in Task : /\ x = Ingested(task[t], more) /\ Ready(x)
                          /\ x.pc \in {"resolve", "answer"} /\ x.wake = task[t].wake \o more
    BY <1>0, <2>1, <2>5, IngestedIs
  <2>7. UNCHANGED <<humanVars, item, room, doorVars, wakeVars, lost>>
    BY <1>3 DEF Commit
  <2>8. Typed'
    BY <1>0, <2>2, <2>3, <2>7 DEF Typed, humanVars, doorVars, wakeVars
  <2>9. Records(t, x)
    BY <2>1, <2>2, <2>3, <2>5, <2>6, <2>7 DEF Records, wakeVars
  <2>10. Aside(t, x)
    BY <2>6, <2>7 DEF Aside, RoomsRest, wakeVars
  <2> QED
    BY <2>4, <2>6, <2>8, <2>9, <2>10 DEF Goes, TurnShape, RoomShape
<1>4. CASE Duplicate(t)
  <2>1. task[t].pc = "commit" /\ task[t].todo # <<>>
    BY <1>4 DEF Duplicate, Ready
  <2>2. task[t].wake \o <<>> = task[t].wake
    BY <1>0, ConcatEmptySeq
  <2>3. PICK x \in Task : /\ x = Ingested(task[t], <<>>) /\ Ready(x)
                          /\ x.pc \in {"resolve", "answer"} /\ x.wake = task[t].wake
    BY <1>0, <2>1, <2>2, IngestedIs
  <2>4. /\ task' = [task EXCEPT ![t] = x]
        /\ UNCHANGED <<humanVars, item, room, event, doorVars, wakeVars, lost>>
    BY <1>4, <2>3 DEF Duplicate
  <2>5. Typed'
    BY <1>0, <2>4 DEF Typed, humanVars, doorVars, wakeVars
  <2>6. Works(t, x) /\ Aside(t, x)
    BY <1>0, <2>1, <2>3, <2>4, ShiftsAre DEF Works, EventsStay, On, Aside, RoomsRest, wakeVars
  <2> QED
    BY <2>3, <2>4, <2>5, <2>6 DEF Goes, TurnShape, RoomShape
<1>5. CASE Answer(t)
  <2>1. PICK x \in Task : /\ x = Next1(task[t]) /\ Ready(x)
                          /\ x.pc \in {"idle", "wake"} /\ x.wake = task[t].wake
    BY <1>0, Next1Is
  <2>2. /\ task' = [task EXCEPT ![t] = x] /\ task[t].pc = "answer"
        /\ UNCHANGED <<humanVars, item, room, event, requests, wakeVars, lost>>
        /\ answered' = answered \cup task[t].did
    BY <1>5, <2>1 DEF Answer
  <2>3. Typed'
    <3>1. task[t].did \in SUBSET Deliveries
      BY <1>0 DEF Task
    <3> QED
      BY <1>0, <2>2, <3>1 DEF Typed, humanVars, wakeVars
  <2>4. Works(t, x) /\ Aside(t, x)
    BY <1>0, <2>1, <2>2, ShiftsAre DEF Works, EventsStay, On, Aside, RoomsRest, wakeVars
  <2> QED
    BY <2>1, <2>2, <2>3, <2>4 DEF Goes, TurnShape, RoomShape
<1> QED
  BY <1>1, <1>2, <1>3, <1>4, <1>5
\* The wake, from the event to the turn.
LEMMA WakeSteps ==
  ASSUME IInv, NEW t \in Tasks,
         \/ WakeStops(t) \/ WakeReads(t) \/ UseRoom(t) \/ FindsNoSeat(t) \/ TakeSeat(t)
         \/ OpenRoom(t) \/ Post(t) \/ WakeRecords(t)
  PROVE  \E x \in Task : Goes(t, x)
<1>0. /\ TypeOK /\ Typed /\ task[t] \in Task /\ Ready(task[t]) /\ Seated(t)
      /\ task[t].wake \in Seq(Deliveries)
  BY DEF IInv, TypeOK, Task, TurnInv, RoomInv
<1>1. /\ task[t].pc \in {"wake", "room", "seat", "post", "turn"} /\ task[t].wake # <<>>
  BY <1>0 DEF WakeStops, WakeReads, UseRoom, FindsNoSeat, TakeSeat, OpenRoom, Post, WakeRecords, Ready
<1>2. PICK d : d = Event(t)
  OBVIOUS
<1>3. d \in Deliveries /\ On(d) /\ event[d] \in EventRow /\ event[d].item \in Items
  <2>1. /\ d \in Deliveries /\ 1 \in DOMAIN task[t].wake /\ task[t].wake[1] = d
    BY <1>0, <1>1, <1>2, TailIs DEF Event
  <2>2. Listed(d)
    BY <2>1 DEF IInv, TurnInv
  <2>3. On(d) /\ event[d].item \in Items
    BY <2>1, <2>2 DEF Listed
  <2> QED
    BY <1>0, <2>1, <2>3 DEF Typed, On
\* Done with this wake, on to the next.
<1>a. ASSUME task' = Woken(t), EventsStay, turns' = turns, Typed', RoomsRest, strays' = strays
      PROVE  \E x \in Task : Goes(t, x)
  <2> DEFINE y == [task[t] EXCEPT !.wake = Tail(@)]
  <2>1. y \in Task /\ y.wake = Tail(task[t].wake)
    BY <1>0, <1>1, TailIs DEF Task
  <2>2. task' = [task EXCEPT ![t] = Next1(y)]
    BY <1>a DEF Woken
  <2> HIDE DEF y
  <2>3. PICK x \in Task : /\ x = Next1(y) /\ Ready(x) /\ x.pc \in {"idle", "wake"}
                          /\ x.wake = Tail(task[t].wake)
    BY <2>1, Next1Is
  <2>4. Works(t, x) /\ Aside(t, x)
    BY <1>0, <1>1, <1>a, <2>3, ShiftsAre DEF Works, Aside
  <2> QED
    BY <1>a, <2>2, <2>3, <2>4 DEF Goes, TurnShape, RoomShape
<1>4. CASE WakeStops(t)
  <2>1. /\ task' = Woken(t) /\ UNCHANGED <<humanVars, item, room, doorVars, wakeVars, lost>>
        /\ event' = event \/ event' = [event EXCEPT ![d].status = "unroutable", ![d].handled = TRUE]
    BY <1>2, <1>4 DEF WakeStops
  <2>2. EventsStay /\ event' \in [Deliveries -> EventRow \cup {NoEvent}]
    <3>1. CASE event' = event
      BY <1>0, <3>1 DEF EventsStay, On, Typed
    <3>2. CASE event' = [event EXCEPT ![d].status = "unroutable", ![d].handled = TRUE]
      <4> DEFINE row == [event[d] EXCEPT !.status = "unroutable", !.handled = TRUE]
      <4>1. row \in EventRow /\ row.item = event[d].item /\ row # NoEvent
        <5>1. row \in EventRow /\ row.item = event[d].item
          BY <1>3 DEF EventRow, Verdicts
        <5> QED
          BY <5>1, RowsAre
      <4>2. event' = [event EXCEPT ![d] = row]
        BY <1>0, <1>3, <3>2 DEF Typed
      <4> HIDE DEF row
      <4> QED
        BY <1>0, <1>3, <4>1, <4>2 DEF EventsStay, On, Typed
    <3> QED
      BY <2>1, <3>1, <3>2
  <2>3. Typed'
    BY <1>0, <2>1, <2>2 DEF Typed, humanVars, doorVars, wakeVars
  <2> QED
    BY <1>a, <2>1, <2>2, <2>3 DEF RoomsRest, wakeVars
<1>5. CASE WakeRecords(t)
  <2>1. /\ task' = Woken(t) /\ UNCHANGED <<humanVars, item, room, doorVars, wakeVars, lost>>
        /\ event' = [event EXCEPT ![d].handled = TRUE]
    BY <1>2, <1>5 DEF WakeRecords
  <2>2. EventsStay /\ event' \in [Deliveries -> EventRow \cup {NoEvent}]
    <3> DEFINE row == [event[d] EXCEPT !.handled = TRUE]
    <3>1. row \in EventRow /\ row.item = event[d].item
      BY <1>3 DEF EventRow
    <3>2. row # NoEvent
      BY <3>1, RowsAre
    <3>3. event' = [event EXCEPT ![d] = row]
      BY <1>0, <1>3, <2>1 DEF Typed
    <3> HIDE DEF row
    <3> QED
      BY <1>0, <1>3, <3>1, <3>2, <3>3 DEF EventsStay, On, Typed
  <2>3. Typed'
    BY <1>0, <2>1, <2>2 DEF Typed, humanVars, doorVars, wakeVars
  <2> QED
    BY <1>a, <2>1, <2>2, <2>3 DEF RoomsRest, wakeVars
<1>6. CASE WakeReads(t)
  <2> DEFINE i == event[d].item
             x == [task[t] EXCEPT !.pc = "room", !.item = i, !.bot = item[i].owner, !.room = item[i].room]
  <2>1. /\ task[t].pc = "wake" /\ ~Ownerless(i)
        /\ task' = [task EXCEPT ![t].pc = "room", ![t].item = i,
                                ![t].bot = item[i].owner, ![t].room = item[i].room]
        /\ UNCHANGED <<humanVars, item, room, event, doorVars, wakeVars, lost>>
    BY <1>2, <1>6 DEF WakeReads
  <2>2. item[i] # Gone /\ item[i] \in ItemRows /\ item[i].owner \in Bots /\ item[i].room \in Rooms \cup {Gone}
    BY <1>0, <1>3, <2>1 DEF Ownerless, Typed, ItemRows
  <2>3. /\ x \in Task /\ x.pc = "room" /\ x.item = i /\ x.bot = item[i].owner
        /\ x.room = item[i].room /\ x.wake = task[t].wake
    BY <1>0, <1>3, <2>2 DEF Task
  <2>4. task' = [task EXCEPT ![t] = x]
    BY <1>0, <2>1 DEF TypeOK
  <2> HIDE DEF x
  <2>5. Finds(t, x)
    BY <1>3, <2>1, <2>2, <2>3 DEF Finds, RoomsRest, wakeVars
  <2>6. Works(t, x)
    BY <1>0, <2>1, <2>3, ShiftsAre DEF Works, EventsStay, On, wakeVars
  <2>7. Ready(x)
    BY <1>1, <2>3 DEF Ready
  <2>8. Typed'
    BY <1>0, <2>1 DEF Typed, humanVars, doorVars, wakeVars
  <2> QED
    BY <2>3, <2>4, <2>5, <2>6, <2>7, <2>8 DEF Goes, TurnShape, RoomShape
<1>b. ASSUME NEW p \in {"seat", "post"}, task[t].pc = "room", HasRoom(t), p = "post" => SitsThere(t),
             task' = [task EXCEPT ![t].pc = p],
             UNCHANGED <<humanVars, item, room, event, doorVars, wakeVars, lost>>
      PROVE  \E x \in Task : Goes(t, x)
  <2> DEFINE x == [task[t] EXCEPT !.pc = p]
  <2>1. task' = [task EXCEPT ![t] = x]
    BY <1>0, <1>b DEF TypeOK
  <2>2. /\ x \in Task /\ x.pc = p /\ x.item = task[t].item /\ x.bot = task[t].bot
        /\ x.room = task[t].room /\ x.wake = task[t].wake
    BY <1>0 DEF Task
  <2> HIDE DEF x
  <2>3. Ready(x)
    BY <1>1, <2>2 DEF Ready
  <2>4. Sees(t, x)
    <3>1. RoomsRest /\ strays' = strays
      BY <1>b DEF RoomsRest, wakeVars
    <3>2. x.pc = "seat" \/ (x.pc = "post" /\ SitsThere(t))
      BY <1>b, <2>2
    <3> QED
      BY <1>b, <2>2, <3>1, <3>2 DEF Sees
  <2>5. Works(t, x)
    BY <1>0, <1>b, <2>2, ShiftsAre DEF Works, EventsStay, On, wakeVars
  <2>6. Typed'
    BY <1>0, <1>b DEF Typed, humanVars, doorVars, wakeVars
  <2> QED
    BY <2>1, <2>2, <2>3, <2>4, <2>5, <2>6 DEF Goes, TurnShape, RoomShape
<1>7. CASE UseRoom(t) \/ FindsNoSeat(t)
  BY <1>7, <1>b DEF UseRoom, FindsNoSeat
<1>10. CASE TakeSeat(t)
  <2> DEFINE x == [task[t] EXCEPT !.pc = "post"]
  <2>1. /\ task[t].pc = "seat" /\ room[task[t].room] # Gone /\ task' = [task EXCEPT ![t] = x]
        /\ room' = [room EXCEPT ![task[t].room] = @ \cup {task[t].bot}]
        /\ UNCHANGED <<humanVars, item, event, doorVars, wakeVars, lost>>
    BY <1>0, <1>10 DEF TakeSeat, TypeOK
  <2>2. /\ x \in Task /\ x.pc = "post" /\ x.item = task[t].item /\ x.bot = task[t].bot
        /\ x.room = task[t].room /\ x.wake = task[t].wake
    BY <1>0 DEF Task
  <2> HIDE DEF x
  <2>3. Ready(x)
    BY <1>1, <2>2 DEF Ready
  <2>4. Enters(t, x)
    BY <2>1, <2>2 DEF Enters, wakeVars
  <2>5. Works(t, x)
    BY <1>0, <2>1, <2>2, ShiftsAre DEF Works, EventsStay, On, wakeVars
  <2>6. room' \in [Rooms -> (SUBSET Bots) \cup {Gone}]
    <3>1. /\ task[t].room \in Rooms /\ room[task[t].room] \in SUBSET Bots /\ task[t].bot \in Bots
      <4>1. task[t].item \in Items /\ task[t].bot \in Bots /\ task[t].room \in opened[task[t].item]
        BY <1>0, <2>1 DEF Seated
      <4>2. task[t].room \in Rooms
        BY <1>0, <4>1 DEF Typed
      <4> QED
        BY <1>0, <2>1, <4>1, <4>2 DEF Typed
    <3>2. room[task[t].room] \cup {task[t].bot} \in SUBSET Bots
      BY <3>1
    <3> QED
      BY <1>0, <2>1, <3>2 DEF Typed
  <2>7. Typed'
    BY <1>0, <2>1, <2>6 DEF Typed, humanVars, doorVars, wakeVars
  <2> QED
    BY <2>1, <2>2, <2>3, <2>4, <2>5, <2>7 DEF Goes, TurnShape, RoomShape
<1>8. CASE OpenRoom(t)
  <2>i. PICK i : i = task[t].item
    OBVIOUS
  <2>1. PICK r \in Rooms :
          /\ room[r] = Gone /\ \A j \in Items : r \notin opened[j]
          /\ room' = [room EXCEPT ![r] = {task[t].bot} \cup Roster]
          /\ item' = [item EXCEPT ![i].room = r]
          /\ opened' = [opened EXCEPT ![i] = @ \cup {r}]
          /\ task' = [task EXCEPT ![t].pc = "post", ![t].room = r]
    BY <1>8, <2>i DEF OpenRoom
  <2>2. /\ task[t].pc = "room" /\ item[i] # Gone
        /\ raced' = IF item[i].room # Gone THEN raced \cup {i} ELSE raced
        /\ UNCHANGED <<humanVars, event, doorVars, turns, strays, lost>>
    BY <1>8, <2>i DEF OpenRoom
  <2> DEFINE x == [task[t] EXCEPT !.pc = "post", !.room = r]
  <2>3. /\ x \in Task /\ x.pc = "post" /\ x.item = i /\ x.bot = task[t].bot
        /\ x.room = r /\ x.wake = task[t].wake
    BY <1>0, <2>i DEF Task
  <2>4. task' = [task EXCEPT ![t] = x]
    BY <1>0, <2>1 DEF TypeOK
  <2> HIDE DEF x
  <2>5. Ready(x)
    BY <1>1, <2>3 DEF Ready
  <2>6. Opens(t, x)
    BY <2>i, <2>1, <2>2, <2>3 DEF Opens
  <2>7. Works(t, x)
    BY <1>0, <2>2, <2>3, ShiftsAre DEF Works, EventsStay, On
  <2>8. i \in Items /\ task[t].bot \in Bots
    BY <1>0, <2>i, <2>2 DEF Seated
  <2>9. room' \in [Rooms -> (SUBSET Bots) \cup {Gone}]
    <3>1. {task[t].bot} \cup Roster \in SUBSET Bots
      BY <2>8, InboundAssumption
    <3> QED
      BY <1>0, <2>1, <3>1 DEF Typed
  <2>10. item' \in [Items -> ItemRows \cup {Gone}]
    <3>1. [item[i] EXCEPT !.room = r] \in ItemRows
      BY <1>0, <2>2, <2>8 DEF Typed, ItemRows
    <3> QED
      BY <1>0, <2>1, <2>8, <3>1 DEF Typed
  <2>11. opened' \in [Items -> SUBSET Rooms] /\ raced' \in SUBSET Items
    BY <1>0, <2>1, <2>2, <2>8 DEF Typed
  <2>12. Typed'
    BY <1>0, <2>2, <2>9, <2>10, <2>11 DEF Typed, humanVars, doorVars
  <2> QED
    BY <2>3, <2>4, <2>5, <2>6, <2>7, <2>12 DEF Goes, TurnShape, RoomShape
<1>9. CASE Post(t)
  <2> DEFINE x == [task[t] EXCEPT !.pc = "turn"]
  <2>1. /\ task[t].pc = "post" /\ room[task[t].room] # Gone /\ task' = [task EXCEPT ![t] = x]
        /\ turns' = [turns EXCEPT ![Carries[Event(t)]] = @ + 1]
        /\ strays' = IF task[t].bot \in room[task[t].room] THEN strays ELSE strays + 1
        /\ UNCHANGED <<humanVars, item, room, event, doorVars, opened, raced, lost>>
    BY <1>0, <1>9 DEF Post, TypeOK
  <2>2. x \in Task /\ x.pc = "turn" /\ x.wake = task[t].wake
    BY <1>0 DEF Task
  <2> HIDE DEF x
  <2>3. Ready(x)
    BY <1>1, <2>2 DEF Ready
  <2>4. Carries[Event(t)] \in Messages
    BY <1>2, <1>3, InboundAssumption
  <2>5. turns' \in [Messages -> Nat] /\ strays' \in Nat
    BY <1>0, <2>1, <2>4 DEF Typed
  <2>6. Typed'
    BY <1>0, <2>1, <2>5 DEF Typed, humanVars, doorVars
  <2>7. RunsTurn(t, x) /\ Speaks(t, x)
    BY <2>1, <2>2 DEF RunsTurn, Speaks, RoomsRest
  <2> QED
    BY <2>1, <2>2, <2>3, <2>6, <2>7 DEF Goes, TurnShape, RoomShape
<1> QED
  BY <1>4, <1>5, <1>6, <1>7, <1>8, <1>9, <1>10

\* However a request ends before its time, nothing of it is left.
LEMMA EndSteps ==
  ASSUME TypeOK, NEW t \in Tasks, CommitRaises(t) \/ WakeRaises(t) \/ TurnFails(t) \/ Dies(t)
  PROVE  \E x \in Task : Goes(t, x)
<1>1. /\ task' = [task EXCEPT ![t] = Idle] /\ lost' = lost \cup Elems(task[t].wake)
      /\ UNCHANGED <<humanVars, item, room, event, doorVars, wakeVars>>
  BY DEF CommitRaises, WakeRaises, TurnFails, Dies, GiveUp
<1>2. Elems(task[t].wake) \subseteq Deliveries
  <2>1. task[t].wake \in Seq(Deliveries)
    BY DEF TypeOK, Task
  <2>2. \A i \in DOMAIN task[t].wake : task[t].wake[i] \in Deliveries
    BY <2>1, LenProperties, ElementOfSeq
  <2> QED
    BY <2>2 DEF Elems
<1>3. Typed'
  BY <1>1, <1>2 DEF TypeOK, Typed, humanVars, doorVars, wakeVars
<1>4. Works(t, Idle) /\ Aside(t, Idle)
  BY <1>1, IdleIs, ShiftsAre DEF Works, EventsStay, On, Aside, RoomsRest, wakeVars
<1> QED
  BY <1>1, <1>3, <1>4, IdleIs DEF Goes, TurnShape, RoomShape

LEMMA TaskGoes ==
  ASSUME IInv, NEW t \in Tasks,
         (\E ds \in Batches : Receive(t, ds)) \/ TaskStep(t) \/ TurnFails(t) \/ Dies(t)
  PROVE  \E x \in Task : Goes(t, x)
<1>1. TypeOK /\ Ready(task[t])
  BY DEF IInv, TurnInv
<1> QED
  BY <1>1, DoorSteps, WakeSteps, EndSteps DEF TaskStep
------------------------------------------------------------------------------
(* Turns.                                                                    *)

LEMMA SpentIsCounted ==
  ASSUME NEW m \in Messages
  PROVE  IsFiniteSet(SpentFor(m)) /\ Cardinality(SpentFor(m)) \in Nat
<1>1. SpentFor(m) \subseteq Deliveries /\ IsFiniteSet(Deliveries)
  BY InboundAssumption DEF SpentFor
<1> QED
  BY <1>1, FS_Subset, FS_CardinalityType

LEMMA AtMostOneIs ==
  ASSUME NEW S, \A a, b \in S : a = b
  PROVE  Cardinality(S) <= 1
<1>1. CASE S = {}
  BY <1>1, FS_EmptySet
<1>2. CASE S # {}
  <2>1. PICK a : a \in S
    BY <1>2
  <2>2. S = {a}
    BY <2>1
  <2> QED
    BY <2>2, FS_Singleton
<1> QED
  BY <1>1, <1>2

\* A delivery that is spent stays spent, as long as no list of wakes gets longer.
LEMMA ShiftedStaysSpent ==
  ASSUME TypeOK, NEW t \in Tasks, NEW x \in Task, task' = [task EXCEPT ![t] = x],
         Shifts(t, x), NEW d \in Deliveries, Spent(d), On(d)'
  PROVE  Spent(d)'
<1>1. task'[t] = x /\ \A u \in Tasks \ {t} : task'[u] = task[u]
  BY DEF TypeOK
<1>2. ~Waits(t, d)'
  <2>1. PICK k \in Nat : \A i \in DOMAIN x.wake :
          /\ i \in Nat \ {0} /\ i + k \in DOMAIN task[t].wake /\ x.wake[i] = task[t].wake[i + k]
          /\ ~(i + k = 1 /\ task[t].pc = "turn")
    BY DEF Shifts
  <2>2. ~Waits(t, d)
    BY DEF Spent
  <2> QED
    BY <1>1, <2>1, <2>2 DEF Waits
<1>3. \A u \in Tasks \ {t} : ~Waits(u, d)'
  BY <1>1 DEF Spent, Waits
<1> QED
  BY <1>2, <1>3 DEF Spent

LEMMA ListedShifts ==
  ASSUME TypeOK, NEW t \in Tasks, NEW x \in Task, task' = [task EXCEPT ![t] = x],
         EventsStay, Shifts(t, x), NEW d \in Deliveries, Listed(d)
  PROVE  Listed(d)'
<1>1. task'[t] = x /\ \A u \in Tasks \ {t} : task'[u] = task[u]
  BY DEF TypeOK
<1>2. PICK k \in Nat : \A i \in DOMAIN x.wake :
        i \in Nat \ {0} /\ i + k \in DOMAIN task[t].wake /\ x.wake[i] = task[t].wake[i + k]
  BY DEF Shifts
<1>3. \A i, j \in DOMAIN x.wake : i + k = j + k => i = j
  BY <1>2
\* Where a task lists d, it listed d before.
<1>4. /\ \A i \in DOMAIN x.wake : x.wake[i] = d => i + k \in DOMAIN task[t].wake /\ task[t].wake[i + k] = d
      /\ \A u \in Tasks : u # t => task'[u].wake = task[u].wake
  BY <1>1, <1>2
<1>5. \A u, v \in Tasks : \A i \in DOMAIN task'[u].wake, j \in DOMAIN task'[v].wake :
         task'[u].wake[i] = d /\ task'[v].wake[j] = d => u = v /\ i = j
  <2> SUFFICES ASSUME NEW u \in Tasks, NEW v \in Tasks,
                      NEW i \in DOMAIN task'[u].wake, NEW j \in DOMAIN task'[v].wake,
                      task'[u].wake[i] = d, task'[v].wake[j] = d
               PROVE  u = v /\ i = j
    OBVIOUS
  <2>1. CASE u = t /\ v = t
    BY <1>1, <1>3, <1>4, <2>1 DEF Listed
  <2>2. CASE u = t /\ v # t
    BY <1>1, <1>4, <2>2 DEF Listed
  <2>3. CASE u # t /\ v = t
    BY <1>1, <1>4, <2>3 DEF Listed
  <2>4. CASE u # t /\ v # t
    BY <1>1, <2>4 DEF Listed
  <2> QED
    BY <2>1, <2>2, <2>3, <2>4
<1>6. \A u \in Tasks : \A i \in DOMAIN task'[u].wake :
         task'[u].wake[i] = d => On(d)' /\ event'[d].item \in Items
  BY <1>1, <1>4 DEF Listed, EventsStay
<1> QED
  BY <1>5, <1>6 DEF Listed

LEMMA GoesKeepsTurns ==
  ASSUME TypeOK, TurnInv, NEW t \in Tasks, NEW x \in Task, Goes(t, x)
  PROVE  TurnInv'
<1>0. /\ task' = [task EXCEPT ![t] = x] /\ Ready(x) /\ Typed /\ task \in [Tasks -> Task]
      /\ task'[t] = x /\ \A u \in Tasks \ {t} : task'[u] = task[u]
      /\ \A d \in Deliveries : Listed(d)
      /\ task[t].wake \in Seq(Deliveries)
  BY DEF TypeOK, TurnInv, Goes, Task
<1>1. \A u \in Tasks : Ready(task'[u])
  BY <1>0 DEF TurnInv
\* Spent deliveries that stay spent, and no turn, keep the account.
<1>a. ASSUME \A d \in Deliveries : Spent(d) => Spent(d)', turns' = turns
      PROVE  \A m \in Messages : turns'[m] <= Cardinality(SpentFor(m)')
  <2> TAKE m \in Messages
  <2>1. SpentFor(m) \subseteq SpentFor(m)'
    BY <1>a DEF SpentFor
  <2>2. IsFiniteSet(SpentFor(m)')
    <3>1. SpentFor(m)' \subseteq Deliveries /\ IsFiniteSet(Deliveries)
      BY InboundAssumption DEF SpentFor
    <3> QED
      BY <3>1, FS_Subset
  <2>3. /\ Cardinality(SpentFor(m)) <= Cardinality(SpentFor(m)')
        /\ Cardinality(SpentFor(m)) \in Nat /\ Cardinality(SpentFor(m)') \in Nat
    BY <2>1, <2>2, FS_Subset, FS_CardinalityType
  <2>4. turns[m] \in Nat /\ turns[m] <= Cardinality(SpentFor(m))
    BY <1>0 DEF Typed, TurnInv
  <2> QED
    BY <1>a, <2>3, <2>4
<1>2. CASE Works(t, x)
  <2>1. EventsStay /\ Shifts(t, x) /\ turns' = turns
    BY <1>2 DEF Works
  <2>2. \A d \in Deliveries : Listed(d)'
    BY <1>0, <2>1, ListedShifts DEF TypeOK
  <2>3. \A d \in Deliveries : Spent(d) => Spent(d)'
    BY <1>0, <2>1, ShiftedStaysSpent DEF TypeOK, EventsStay, Spent
  <2>4. \A d, o \in Deliveries : On(d)' /\ On(o)' /\ Same(d, o) => d = o
    BY <2>1 DEF EventsStay, TurnInv
  <2> QED
    BY <1>1, <1>a, <2>1, <2>2, <2>3, <2>4 DEF TurnInv, Same
<1>3. CASE RunsTurn(t, x)
  <2>1. /\ event' = event /\ task[t].pc = "post" /\ x.pc = "turn" /\ x.wake = task[t].wake
        /\ turns' = [turns EXCEPT ![Carries[Event(t)]] = @ + 1]
    BY <1>3 DEF RunsTurn
  <2>2. EventsStay /\ Shifts(t, x)
    BY <1>0, <2>1, ShiftsAre DEF EventsStay, On, TypeOK
  <2>3. \A d \in Deliveries : Listed(d)'
    BY <1>0, <2>2, ListedShifts DEF TypeOK
  <2>4. \A d \in Deliveries : Spent(d) => Spent(d)'
    BY <1>0, <2>2, ShiftedStaysSpent DEF TypeOK, EventsStay, Spent
  <2>5. \A d, o \in Deliveries : On(d)' /\ On(o)' /\ Same(d, o) => d = o
    BY <2>2 DEF EventsStay, TurnInv
  <2>6. PICK d \in Deliveries : d = Event(t) /\ 1 \in DOMAIN task[t].wake /\ task[t].wake[1] = d
    <3>1. task[t].wake # <<>>
      BY <2>1 DEF TurnInv, Ready
    <3> QED
      BY <1>0, <3>1, TailIs DEF Event
  <2>7. ~Spent(d)
    BY <2>1, <2>6 DEF Spent, Waits
  <2>8. Spent(d)'
    <3>1. Listed(d)
      BY <1>0
    <3>2. On(d)'
      BY <2>2, <2>6, <3>1 DEF Listed, EventsStay
    <3>3. ~Waits(t, d)'
      BY <1>0, <2>1, <2>6, <3>1 DEF Listed, Waits
    <3>4. \A u \in Tasks \ {t} : ~Waits(u, d)'
      BY <1>0, <2>6, <3>1 DEF Listed, Waits
    <3> QED
      BY <3>2, <3>3, <3>4 DEF Spent
  <2>9. PICK w : w = Carries[d]
    OBVIOUS
  <2>10. w \in Messages /\ turns'[w] = turns[w] + 1 /\ \A m \in Messages \ {w} : turns'[m] = turns[m]
    BY <1>0, <2>1, <2>6, <2>9, InboundAssumption DEF Typed
  <2>11. \A m \in Messages : turns'[m] <= Cardinality(SpentFor(m)')
    <3> TAKE m \in Messages
    <3>1. IsFiniteSet(SpentFor(m)') /\ IsFiniteSet(SpentFor(m))
      <4>1. /\ SpentFor(m)' \subseteq Deliveries /\ SpentFor(m) \subseteq Deliveries
            /\ IsFiniteSet(Deliveries)
        BY InboundAssumption DEF SpentFor
      <4> QED
        BY <4>1, FS_Subset
    <3>2. turns[m] \in Nat /\ turns[m] <= Cardinality(SpentFor(m)) /\ Cardinality(SpentFor(m)) \in Nat
      BY <1>0, <3>1, FS_CardinalityType DEF Typed, TurnInv
    <3>3. CASE m # w
      <4>1. SpentFor(m) \subseteq SpentFor(m)'
        BY <2>4 DEF SpentFor
      <4>2. Cardinality(SpentFor(m)) <= Cardinality(SpentFor(m)') /\ Cardinality(SpentFor(m)') \in Nat
        BY <3>1, <4>1, FS_Subset, FS_CardinalityType
      <4> QED
        BY <2>10, <3>2, <3>3, <4>2
    <3>4. CASE m = w
      <4> DEFINE S == SpentFor(m) \cup {d}
      <4>1. d \notin SpentFor(m) /\ S \subseteq SpentFor(m)'
        BY <2>4, <2>7, <2>8, <2>9, <3>4 DEF SpentFor
      <4>2. Cardinality(S) = Cardinality(SpentFor(m)) + 1
        BY <3>1, <4>1, FS_AddElement
      <4>3. Cardinality(S) <= Cardinality(SpentFor(m)') /\ Cardinality(SpentFor(m)') \in Nat
        BY <3>1, <4>1, FS_Subset, FS_CardinalityType
      <4> HIDE DEF S
      <4> QED
        BY <2>10, <3>2, <3>4, <4>2, <4>3
    <3> QED
      BY <3>3, <3>4
  <2> QED
    BY <1>1, <2>3, <2>5, <2>11 DEF TurnInv, Same
<1>4. CASE Records(t, x)
  <2>1. PICK d \in Deliveries, row \in EventRow :
          /\ ~Recorded(d) /\ event' = [event EXCEPT ![d] = row] /\ turns' = turns
          /\ task[t].pc = "commit" /\ x.pc # "turn"
          /\ \/ x.wake = task[t].wake
             \/ x.wake = task[t].wake \o <<d>> /\ row.item \in Items
    BY <1>4 DEF Records
  <2>2. /\ event'[d] = row /\ On(d)' /\ ~On(d)
        /\ \A o \in Deliveries \ {d} : event'[o] = event[o]
        /\ \A o \in Deliveries : Same(d, o) => ~On(o)
    BY <1>0, <2>1, RowsAre DEF Recorded, Typed, On
  <2>3. \A u \in Tasks : \A i \in DOMAIN task[u].wake : task[u].wake[i] # d
    <3>1. Listed(d)
      BY <1>0
    <3> QED
      BY <2>2, <3>1 DEF Listed
  <2>4. \A i \in DOMAIN x.wake :
          \/ i \in DOMAIN task[t].wake /\ x.wake[i] = task[t].wake[i]
          \/ i = Len(task[t].wake) + 1 /\ x.wake[i] = d /\ row.item \in Items
    BY <1>0, <2>1, MoreIs
  <2>5. \A o \in Deliveries : Listed(o)'
    <3> TAKE o \in Deliveries
    <3>0. Listed(o)
      BY <1>0
    <3>1. CASE o # d
      <4>1. \A u \in Tasks : \A i \in DOMAIN task'[u].wake :
              task'[u].wake[i] = o => i \in DOMAIN task[u].wake /\ task[u].wake[i] = o
        BY <1>0, <2>4, <3>1
      <4>2. On(o)' = On(o) /\ event'[o].item = event[o].item
        BY <2>2, <3>1 DEF On
      <4> QED
        BY <3>0, <4>1, <4>2 DEF Listed
    <3>2. CASE o = d
      <4>1. \A u \in Tasks : \A i \in DOMAIN task'[u].wake :
              task'[u].wake[i] = d => u = t /\ i = Len(task[t].wake) + 1 /\ row.item \in Items
        BY <1>0, <2>3, <2>4
      <4> QED
        BY <2>2, <3>2, <4>1 DEF Listed
    <3> QED
      BY <3>1, <3>2
  <2>6. \A o, p \in Deliveries : On(o)' /\ On(p)' /\ Same(o, p) => o = p
    <3> SUFFICES ASSUME NEW o \in Deliveries, NEW p \in Deliveries, On(o)', On(p)', Same(o, p)
                 PROVE  o = p
      OBVIOUS
    <3>1. CASE o # d /\ p # d
      BY <2>2, <3>1 DEF TurnInv, On
    <3>2. CASE o = d /\ p # d
      BY <2>2, <3>2 DEF On
    <3>3. CASE o # d /\ p = d
      <4>1. Same(d, o)
        BY <3>3 DEF Same
      <4> QED
        BY <2>2, <3>3, <4>1 DEF On
    <3> QED
      BY <3>1, <3>2, <3>3
  <2>7. \A o \in Deliveries : Spent(o) => Spent(o)'
    <3> SUFFICES ASSUME NEW o \in Deliveries, Spent(o) PROVE Spent(o)'
      OBVIOUS
    <3>1. o # d /\ On(o)'
      BY <2>2 DEF Spent, On
    <3>2. ~Waits(t, o)'
      <4>1. \A i \in DOMAIN x.wake : x.wake[i] = o => i \in DOMAIN task[t].wake /\ task[t].wake[i] = o
        BY <2>4, <3>1
      <4> QED
        BY <1>0, <2>1, <4>1 DEF Spent, Waits
    <3>3. \A u \in Tasks \ {t} : ~Waits(u, o)'
      BY <1>0 DEF Spent, Waits
    <3> QED
      BY <3>1, <3>2, <3>3 DEF Spent
  <2> QED
    BY <1>1, <1>a, <2>1, <2>5, <2>6, <2>7 DEF TurnInv, Same
<1> QED
  BY <1>2, <1>3, <1>4 DEF Goes, TurnShape
------------------------------------------------------------------------------
(* Rooms.                                                                    *)

\* A task's step that leaves items and rooms alone.
LEMMA RestKeepsRooms ==
  ASSUME TypeOK, RoomInv, NEW t \in Tasks, NEW x \in Task, task' = [task EXCEPT ![t] = x], RoomsRest
  PROVE  /\ \A u \in Tasks \ {t} : Seated(u)'
         /\ \A i \in Items : Housed(i)'
<1>1. \A u \in Tasks \ {t} : task'[u] = task[u]
  BY DEF TypeOK
<1>2. UNCHANGED <<item, room, opened, raced>> /\ \A u \in Tasks : Seated(u)
  BY DEF RoomsRest, RoomInv
<1>3. \A u \in Tasks \ {t} : Seated(u)'
  BY <1>1, <1>2 DEF Seated
<1>4. \A i \in Items : Housed(i)'
  BY <1>2 DEF RoomInv, Housed
<1> QED
  BY <1>3, <1>4

\* The bot is seated in a room that is there.
LEMMA EntersKeepsRooms ==
  ASSUME TypeOK, RoomInv, NEW t \in Tasks, NEW x \in Task, task' = [task EXCEPT ![t] = x], Enters(t, x)
  PROVE  RoomInv'
<1>1. task'[t] = x /\ \A u \in Tasks \ {t} : task'[u] = task[u]
  BY DEF TypeOK
<1>2. PICK h : h = task[t].room
  OBVIOUS
<1>3. /\ task[t].pc = "seat" /\ room[h] # Gone /\ x.pc = "post"
      /\ x.item = task[t].item /\ x.bot = task[t].bot /\ x.room = h
      /\ room' = [room EXCEPT ![h] = @ \cup {task[t].bot}]
      /\ UNCHANGED <<item, opened, raced, strays>>
  BY <1>2 DEF Enters
<1>4. h \in Rooms /\ task[t].item \in Items /\ task[t].bot \in Bots /\ h \in opened[task[t].item]
  <2>1. Seated(t)
    BY DEF RoomInv
  <2>2. task[t].item \in Items /\ task[t].bot \in Bots /\ h \in opened[task[t].item]
    BY <1>2, <1>3, <2>1 DEF Seated
  <2> QED
    BY <2>2 DEF TypeOK, Typed
<1>5. /\ room'[h] = room[h] \cup {task[t].bot} /\ room'[h] # Gone
      /\ \A r \in Rooms \ {h} : room'[r] = room[r]
  <2>1. room[h] \in SUBSET Bots
    BY <1>3, <1>4 DEF TypeOK, Typed
  <2>2. room[h] \cup {task[t].bot} \in SUBSET Bots
    BY <1>4, <2>1
  <2>3. room'[h] = room[h] \cup {task[t].bot} /\ \A r \in Rooms \ {h} : room'[r] = room[r]
    BY <1>3, <1>4 DEF TypeOK, Typed
  <2> QED
    BY <2>2, <2>3, RowsAre
<1>6. Seated(t)'
  BY <1>1, <1>3, <1>4, <1>5 DEF Seated
<1>7. \A u \in Tasks \ {t} : Seated(u)'
  <2> SUFFICES ASSUME NEW u \in Tasks \ {t} PROVE Seated(u)'
    OBVIOUS
  <2>1. task'[u] = task[u] /\ Seated(u) /\ task[u].room \in Rooms \cup {Gone} /\ task[u] \in Task
    BY <1>1 DEF RoomInv, TypeOK, Task
  <2>2. ASSUME task[u].pc = "post" PROVE task[u].room \in Rooms
    <3>1. task[u].room \in opened[task[u].item] /\ task[u].item \in Items
      BY <2>1, <2>2 DEF Seated
    <3> QED
      BY <3>1 DEF TypeOK, Typed
  <2>3. task[u].pc = "post" /\ room'[task[u].room] # Gone => task[u].bot \in room'[task[u].room]
    BY <1>3, <1>5, <2>1, <2>2 DEF Seated
  <2> QED
    BY <1>3, <2>1, <2>3 DEF Seated
<1>8. \A i \in Items : Housed(i)'
  <2> SUFFICES ASSUME NEW i \in Items PROVE Housed(i)'
    OBVIOUS
  <2>1. \A r \in opened[i] : r \in Rooms /\ (room'[r] # Gone <=> room[r] # Gone)
    BY <1>3, <1>5 DEF TypeOK, Typed
  <2>2. Housed(i)
    BY DEF RoomInv
  <2> QED
    BY <1>3, <2>1, <2>2 DEF Housed
<1> QED
  BY <1>3, <1>6, <1>7, <1>8 DEF RoomInv

\* A room is made for an item, whose row names it from then on.
LEMMA OpensKeepsRooms ==
  ASSUME TypeOK, RoomInv, NEW t \in Tasks, NEW x \in Task, task' = [task EXCEPT ![t] = x],
         Opens(t, x), Typed'
  PROVE  RoomInv'
<1>1. task'[t] = x /\ \A u \in Tasks \ {t} : task'[u] = task[u]
  BY DEF TypeOK
<1>2. PICK i : i = task[t].item
  OBVIOUS
<1>3. PICK r \in Rooms :
        /\ task[t].pc = "room" /\ x.pc = "post" /\ item[i] # Gone
        /\ x.item = i /\ x.bot = task[t].bot /\ x.room = r
        /\ room[r] = Gone /\ \A j \in Items : r \notin opened[j]
        /\ room' = [room EXCEPT ![r] = {task[t].bot} \cup Roster]
        /\ item' = [item EXCEPT ![i].room = r]
        /\ opened' = [opened EXCEPT ![i] = @ \cup {r}]
        /\ raced' = IF item[i].room # Gone THEN raced \cup {i} ELSE raced
        /\ strays' = strays
  BY <1>2 DEF Opens
<1>4. i \in Items /\ task[t].bot \in Bots
  BY <1>2, <1>3 DEF RoomInv, Seated
<1>5. /\ room'[r] = {task[t].bot} \cup Roster /\ room'[r] # Gone
      /\ \A s \in Rooms \ {r} : room'[s] = room[s]
  <2>1. {task[t].bot} \cup Roster \in SUBSET Bots
    BY <1>4, InboundAssumption
  <2>2. room'[r] = {task[t].bot} \cup Roster /\ \A s \in Rooms \ {r} : room'[s] = room[s]
    BY <1>3 DEF TypeOK, Typed
  <2> QED
    BY <2>1, <2>2, RowsAre
<1>6. /\ opened'[i] = opened[i] \cup {r} /\ \A j \in Items \ {i} : opened'[j] = opened[j] /\ item'[j] = item[j]
      /\ \A j \in Items : opened[j] \subseteq Rooms \ {r} /\ opened[j] \subseteq opened'[j]
  BY <1>3, <1>4 DEF TypeOK, Typed
<1>7. item'[i] # Gone /\ item'[i].room = r
  <2>1. item[i] \in ItemRows
    BY <1>3, <1>4 DEF TypeOK, Typed
  <2>2. item'[i] = [item[i] EXCEPT !.room = r]
    BY <1>3, <1>4 DEF TypeOK, Typed
  <2>3. item'[i] \in ItemRows /\ item'[i].room = r
    BY <2>1, <2>2 DEF ItemRows
  <2> QED
    BY <2>3, RowsAre
<1>8. Seated(t)'
  BY <1>1, <1>3, <1>4, <1>5, <1>6 DEF Seated
<1>9. \A u \in Tasks \ {t} : Seated(u)'
  <2> SUFFICES ASSUME NEW u \in Tasks \ {t} PROVE Seated(u)'
    OBVIOUS
  <2>1. task'[u] = task[u] /\ Seated(u)
    BY <1>1 DEF RoomInv
  <2>2. ASSUME task[u].pc \in {"room", "seat", "post"},
               task[u].room # Gone \/ task[u].pc \in {"seat", "post"}
        PROVE  task[u].room \in opened'[task[u].item] /\ task[u].room \in Rooms \ {r}
    <3>1. task[u].room \in opened[task[u].item] /\ task[u].item \in Items
      BY <2>1, <2>2 DEF Seated
    <3> QED
      BY <1>6, <3>1
  <2>3. task[u].pc = "post" /\ room'[task[u].room] # Gone => task[u].bot \in room'[task[u].room]
    BY <1>5, <2>1, <2>2 DEF Seated
  <2> QED
    BY <2>1, <2>2, <2>3 DEF Seated
<1>10. \A j \in Items \ {i} : Housed(j)'
  <2> SUFFICES ASSUME NEW j \in Items \ {i} PROVE Housed(j)'
    OBVIOUS
  <2>1. \A s \in opened[j] : room'[s] = room[s]
    BY <1>5, <1>6
  <2>2. Housed(j) /\ (j \notin raced' => j \notin raced) /\ item'[j] = item[j] /\ opened'[j] = opened[j]
    BY <1>3, <1>6 DEF RoomInv
  <2> QED
    BY <2>1, <2>2 DEF Housed
<1>11. Housed(i)'
  <2>1. Housed(i)
    BY <1>4 DEF RoomInv
  <2>2. ASSUME i \notin raced' PROVE \A s \in opened'[i] : room'[s] # Gone => s = r
    <3>1. i \notin raced /\ item[i].room = Gone
      BY <1>3, <2>2
    <3>2. \A s \in opened[i] : room[s] = Gone
      <4>1. \A s \in opened[i] : room[s] # Gone => item[i].room = s
        BY <1>3, <2>1, <3>1 DEF Housed
      <4>2. \A s \in opened[i] : s # Gone
        BY <1>6, <1>4, RowsAre
      <4> QED
        BY <3>1, <4>1, <4>2
    <3>3. \A s \in opened[i] : room'[s] = Gone
      BY <1>4, <1>5, <1>6, <3>2
    <3> QED
      BY <1>6, <3>3
  <2> QED
    BY <1>6, <1>7, <2>2 DEF Housed
<1> QED
  BY <1>3, <1>8, <1>9, <1>10, <1>11 DEF RoomInv

LEMMA GoesKeepsRooms ==
  ASSUME TypeOK, RoomInv, NEW t \in Tasks, NEW x \in Task, Goes(t, x)
  PROVE  RoomInv'
<1>1. /\ task' = [task EXCEPT ![t] = x] /\ task'[t] = x /\ Typed'
      /\ task[t] \in Task /\ Seated(t) /\ strays = 0
  BY DEF Goes, TypeOK, RoomInv
<1>2. CASE Aside(t, x)
  <2>1. RoomsRest /\ strays' = strays /\ x.pc \notin {"room", "seat", "post"}
    BY <1>2 DEF Aside
  <2>2. Seated(t)'
    BY <1>1, <2>1 DEF Seated
  <2> QED
    BY <1>1, <2>1, <2>2, RestKeepsRooms DEF RoomInv
<1>3. CASE Finds(t, x)
  <2>1. PICK i \in Items :
          /\ RoomsRest /\ strays' = strays
          /\ x.pc = "room" /\ item[i] # Gone
          /\ x.item = i /\ x.bot = item[i].owner /\ x.room = item[i].room /\ x.bot \in Bots
    BY <1>3 DEF Finds
  <2>2. x.room # Gone => x.room \in opened'[i]
    BY <2>1 DEF RoomInv, Housed, RoomsRest
  <2>3. Seated(t)'
    BY <1>1, <2>1, <2>2 DEF Seated
  <2> QED
    BY <1>1, <2>1, <2>3, RestKeepsRooms DEF RoomInv
<1>4. CASE Enters(t, x)
  BY <1>1, <1>4, EntersKeepsRooms
<1>5. CASE Opens(t, x)
  BY <1>1, <1>5, OpensKeepsRooms
<1>6. CASE Speaks(t, x)
  <2>1. /\ task[t].pc = "post" /\ room[task[t].room] # Gone /\ x.pc = "turn"
        /\ strays' = IF task[t].bot \in room[task[t].room] THEN strays ELSE strays + 1
        /\ RoomsRest
    BY <1>6 DEF Speaks
  <2>2. strays' = 0
    BY <1>1, <2>1 DEF Seated
  <2>3. Seated(t)'
    BY <1>1, <2>1 DEF Seated
  <2> QED
    BY <1>1, <2>1, <2>2, <2>3, RestKeepsRooms DEF RoomInv
<1>7. CASE Sees(t, x)
  <2>1. /\ RoomsRest /\ strays' = strays /\ task[t].pc = "room" /\ task[t].room # Gone
        /\ x.pc \in {"seat", "post"} /\ (x.pc = "post" => task[t].bot \in room[task[t].room])
        /\ x.item = task[t].item /\ x.bot = task[t].bot /\ x.room = task[t].room
    BY <1>7 DEF Sees, HasRoom, SitsThere
  <2>2. UNCHANGED <<room, opened>>
    BY <2>1 DEF RoomsRest
  <2>3. Seated(t)'
    BY <1>1, <2>1, <2>2 DEF Seated
  <2> QED
    BY <1>1, <2>1, <2>3, RestKeepsRooms DEF RoomInv
<1> QED
  BY <1>2, <1>3, <1>4, <1>5, <1>6, <1>7 DEF Goes, RoomShape
------------------------------------------------------------------------------
(* What humans do, and the beginning.                                        *)

\* Rooms are deleted, and rows deleted or changed; a row forgets its room only when
\* the room is deleted, and names no other.
LEMMA HumansKeepRooms ==
  ASSUME TypeOK, RoomInv, UNCHANGED <<task, opened, raced, strays>>,
         \A r \in Rooms : room'[r] = room[r] \/ room'[r] = Gone,
         \A i \in Items : item'[i] # Gone =>
            /\ item[i] # Gone
            /\ item'[i].room = item[i].room \/ (item'[i].room = Gone /\ room'[item[i].room] = Gone)
  PROVE  RoomInv'
<1>1. \A t \in Tasks : Seated(t)'
  <2> TAKE t \in Tasks
  <2>1. Seated(t)
    BY DEF RoomInv
  <2>2. task[t].pc = "post" => task[t].room \in Rooms
    <3>1. \A i \in Items : opened[i] \subseteq Rooms
      BY DEF TypeOK, Typed
    <3> QED
      BY <2>1, <3>1 DEF Seated
  <2> QED
    BY <2>1, <2>2 DEF Seated
<1>2. \A i \in Items : Housed(i)'
  <2> TAKE i \in Items
  <2>1. Housed(i) /\ \A r \in opened[i] : r \in Rooms
    BY DEF RoomInv, TypeOK, Typed
  <2>2. \A r \in opened[i] : room'[r] # Gone => room[r] # Gone
    BY <2>1
  <2>3. item'[i] # Gone /\ item'[i].room # Gone => item'[i].room \in opened[i]
    BY <2>1 DEF Housed
  <2>4. ASSUME i \notin raced, NEW r \in opened[i], room'[r] # Gone, item'[i] # Gone
        PROVE  item'[i].room = r
    <3>1. item[i].room = r
      BY <2>1, <2>2, <2>4 DEF Housed
    <3> QED
      BY <2>4, <3>1
  <2>5. i \notin raced => \A r, s \in opened[i] : room'[r] # Gone /\ room'[s] # Gone => r = s
    BY <2>1, <2>2 DEF Housed
  <2> QED
    BY <2>3, <2>4, <2>5 DEF Housed
<1> QED
  BY <1>1, <1>2 DEF RoomInv

\* Humans write neither events nor tasks.
LEMMA HumansKeepTurns ==
  ASSUME TurnInv, UNCHANGED <<event, task, turns>>
  PROVE  TurnInv'
<1>1. \A t \in Tasks : Ready(task'[t])
  BY DEF TurnInv
<1>2. \A d \in Deliveries : Listed(d)' /\ (Spent(d)' <=> Spent(d)) /\ (On(d)' <=> On(d))
  BY DEF TurnInv, Listed, Spent, Waits, On
<1>3. \A m \in Messages : SpentFor(m)' = SpentFor(m)
  BY <1>2 DEF SpentFor
<1> QED
  BY <1>1, <1>2, <1>3 DEF TurnInv, Same

LEMMA HumansKeep ==
  ASSUME IInv, SwitchSource \/ (\E i \in Items : EditItem(i)) \/ (\E r \in Rooms : DeleteRoom(r))
  PROVE  IInv'
<1>0. TypeOK /\ TurnInv /\ RoomInv /\ Typed
  BY DEF IInv, TypeOK
<1>1. /\ edits' = edits + 1
      /\ UNCHANGED <<event, task, requests, answered, turns, strays, opened, raced, lost>>
  BY DEF SwitchSource, EditItem, DeleteRoom, Edit, doorVars, wakeVars
<1>2. TurnInv'
  BY <1>0, <1>1, HumansKeepTurns
<1>3. CASE SwitchSource
  <2>1. UNCHANGED <<item, room>> /\ enabled' \in BOOLEAN
    BY <1>3 DEF SwitchSource
  <2>2. TypeOK'
    BY <1>0, <1>1, <2>1 DEF TypeOK, Typed
  <2>3. RoomInv'
    BY <1>0, <1>1, <2>1, HumansKeepRooms
  <2> QED
    BY <1>2, <2>2, <2>3 DEF IInv
<1>4. CASE \E i \in Items : EditItem(i)
  <2>1. PICK i \in Items : EditItem(i)
    BY <1>4
  <2>2. item[i] \in ItemRows /\ UNCHANGED <<enabled, room>>
    BY <1>0, <2>1 DEF EditItem, Typed
  <2>3. PICK row \in ItemRows \cup {Gone} :
          item' = [item EXCEPT ![i] = row] /\ (row # Gone => row.room = item[i].room)
    <3>1. CASE item' = [item EXCEPT ![i].open = ~@]
      <4>1. [item[i] EXCEPT !.open = ~@] \in ItemRows /\ [item[i] EXCEPT !.open = ~@].room = item[i].room
        BY <2>2 DEF ItemRows
      <4> QED
        BY <3>1, <4>1
    <3>2. CASE \E b \in Bots \cup {NoBot} : item' = [item EXCEPT ![i].owner = b]
      <4>1. PICK b \in Bots \cup {NoBot} : item' = [item EXCEPT ![i].owner = b]
        BY <3>2
      <4>2. [item[i] EXCEPT !.owner = b] \in ItemRows /\ [item[i] EXCEPT !.owner = b].room = item[i].room
        BY <2>2 DEF ItemRows
      <4> QED
        BY <4>1, <4>2
    <3>3. CASE item' = [item EXCEPT ![i] = Gone]
      BY <3>3
    <3> QED
      BY <2>1, <3>1, <3>2, <3>3 DEF EditItem
  <2>4. TypeOK'
    BY <1>0, <1>1, <2>2, <2>3 DEF TypeOK, Typed
  <2>5. \A j \in Items : item'[j] # Gone => item[j] # Gone /\ item'[j].room = item[j].room
    BY <1>0, <2>1, <2>3 DEF Typed, EditItem
  <2>6. RoomInv'
    BY <1>0, <1>1, <2>2, <2>5, HumansKeepRooms
  <2> QED
    BY <1>2, <2>4, <2>6 DEF IInv
<1>5. CASE \E r \in Rooms : DeleteRoom(r)
  <2>1. PICK r \in Rooms : DeleteRoom(r)
    BY <1>5
  <2>2. /\ room' = [room EXCEPT ![r] = Gone] /\ UNCHANGED enabled
        /\ item' = [i \in Items |-> IF item[i] # Gone /\ item[i].room = r
                                    THEN [item[i] EXCEPT !.room = Gone] ELSE item[i]]
    BY <2>1 DEF DeleteRoom
  <2>3. room'[r] = Gone /\ \A s \in Rooms : room'[s] = room[s] \/ room'[s] = Gone
    BY <1>0, <2>2 DEF Typed
  <2>4. \A i \in Items : item[i] # Gone =>
          [item[i] EXCEPT !.room = Gone] \in ItemRows /\ [item[i] EXCEPT !.room = Gone].room = Gone
    BY <1>0 DEF Typed, ItemRows
  <2>5. room' \in [Rooms -> (SUBSET Bots) \cup {Gone}]
    BY <1>0, <2>2 DEF Typed
  <2>6. item' \in [Items -> ItemRows \cup {Gone}]
    <3>1. \A i \in Items : item[i] \in ItemRows \cup {Gone}
      BY <1>0 DEF Typed
    <3> QED
      BY <2>2, <2>4, <3>1
  <2>7. TypeOK'
    BY <1>0, <1>1, <2>2, <2>5, <2>6 DEF TypeOK, Typed
  <2>8. \A i \in Items : item'[i] # Gone =>
            /\ item[i] # Gone
            /\ item'[i].room = item[i].room \/ (item'[i].room = Gone /\ room'[item[i].room] = Gone)
    BY <2>2, <2>3, <2>4
  <2>9. RoomInv'
    BY <1>0, <1>1, <2>3, <2>8, HumansKeepRooms
  <2> QED
    BY <1>2, <2>7, <2>9 DEF IInv
<1> QED
  BY <1>3, <1>4, <1>5

LEMMA InitHolds == Init => IInv
<1> SUFFICES ASSUME Init PROVE IInv
  OBVIOUS
<1>1. TypeOK
  <2>1. \A i \in Items : [open |-> TRUE, owner |-> Owner[i], room |-> Gone] \in ItemRows
    BY InboundAssumption DEF ItemRows
  <2>2. /\ item \in [Items -> ItemRows \cup {Gone}]
        /\ room \in [Rooms -> (SUBSET Bots) \cup {Gone}]
        /\ event \in [Deliveries -> EventRow \cup {NoEvent}]
        /\ turns \in [Messages -> Nat]
        /\ opened \in [Items -> SUBSET Rooms]
    BY <2>1 DEF Init
  <2>3. task \in [Tasks -> Task]
    BY IdleIs DEF Init
  <2> QED
    BY <2>2, <2>3 DEF Init, TypeOK, Typed
<1>2. \A t \in Tasks : task[t] = Idle /\ DOMAIN task[t].wake = {}
  <2>1. DOMAIN <<>> = {}
    OBVIOUS
  <2> QED
    BY <2>1, IdleIs DEF Init
<1>3. TurnInv
  <2>1. \A t \in Tasks : Ready(task[t])
    BY <1>2, IdleIs
  <2>2. \A d \in Deliveries : Listed(d) /\ ~On(d)
    BY <1>2 DEF Init, Listed, On
  <2>3. \A m \in Messages : turns[m] <= Cardinality(SpentFor(m))
    <3> TAKE m \in Messages
    <3>1. Cardinality(SpentFor(m)) \in Nat
      BY SpentIsCounted
    <3>2. turns[m] = 0
      BY DEF Init
    <3> QED
      BY <3>1, <3>2
  <2> QED
    BY <2>1, <2>2, <2>3 DEF TurnInv
<1>4. RoomInv
  <2>1. \A t \in Tasks : Seated(t)
    BY <1>2, IdleIs DEF Seated
  <2>2. \A i \in Items : Housed(i)
    BY DEF Init, Housed
  <2> QED
    BY <2>1, <2>2 DEF Init, RoomInv
<1> QED
  BY <1>1, <1>3, <1>4 DEF IInv

LEMMA StillHolds == IInv /\ UNCHANGED vars => IInv'
<1> SUFFICES ASSUME IInv, UNCHANGED vars PROVE IInv'
  OBVIOUS
<1>1. UNCHANGED <<enabled, item, room, event, task, requests, edits, answered, turns, strays,
                  opened, raced, lost>>
  BY DEF vars
<1>2. TypeOK'
  BY <1>1 DEF IInv, TypeOK, Typed
<1>3. TurnInv'
  BY <1>1, HumansKeepTurns DEF IInv
<1>4. RoomInv'
  BY <1>1, HumansKeepRooms DEF IInv
<1> QED
  BY <1>2, <1>3, <1>4 DEF IInv

LEMMA StepKeeps == IInv /\ [Next]_vars => IInv'
<1> SUFFICES ASSUME IInv, [Next]_vars PROVE IInv'
  OBVIOUS
<1>1. ASSUME NEW t \in Tasks,
             (\E ds \in Batches : Receive(t, ds)) \/ TaskStep(t) \/ TurnFails(t) \/ Dies(t)
      PROVE  IInv'
  <2>1. PICK x \in Task : Goes(t, x)
    BY <1>1, TaskGoes
  <2>2. TypeOK'
    BY <2>1 DEF IInv, TypeOK, Goes
  <2>3. TurnInv' /\ RoomInv'
    BY <2>1, GoesKeepsTurns, GoesKeepsRooms DEF IInv
  <2> QED
    BY <2>2, <2>3 DEF IInv
<1>2. CASE UNCHANGED vars
  BY <1>2, StillHolds
<1> QED
  BY <1>1, <1>2, HumansKeep DEF Next

LEMMA Invariant == Spec => []IInv
<1> QED
  BY InitHolds, StepKeeps, PTL DEF Spec
------------------------------------------------------------------------------
(* The theorems.                                                             *)

\* Every variable has its type, in every run.
THEOREM InboundTypeCorrect == Spec => []TypeOK
<1>1. IInv => TypeOK
  BY DEF IInv
<1> QED
  BY <1>1, Invariant, PTL

\* However often a reply is delivered, and whatever dies, its message gets one turn, or
\* one per distinct delivery when its sender gave it no id.
THEOREM OneTurnPerReplyHolds == Spec => []OneTurnPerReply
<1>1. IInv => OneTurnPerReply
  <2> SUFFICES ASSUME IInv, NEW m \in Messages
               PROVE  turns[m] <= IF m \in Unnamed THEN Cardinality({d \in Deliveries : Carries[d] = m})
                                                   ELSE 1
    BY DEF OneTurnPerReply
  <2>1. turns[m] \in Nat /\ turns[m] <= Cardinality(SpentFor(m))
    BY DEF IInv, TypeOK, Typed, TurnInv
  <2>2. IsFiniteSet(Deliveries) /\ Cardinality(SpentFor(m)) \in Nat
    BY InboundAssumption, SpentIsCounted
  <2>3. CASE m \in Unnamed
    <3> DEFINE D == {d \in Deliveries : Carries[d] = m}
    <3>1. SpentFor(m) \subseteq D /\ D \subseteq Deliveries
      BY DEF SpentFor
    <3>2. IsFiniteSet(D)
      BY <2>2, <3>1, FS_Subset
    <3>3. Cardinality(SpentFor(m)) <= Cardinality(D) /\ Cardinality(D) \in Nat
      BY <3>1, <3>2, FS_Subset, FS_CardinalityType
    <3> HIDE DEF D
    <3>4. turns[m] <= Cardinality(D)
      BY <2>1, <2>2, <3>3
    <3> USE DEF D
    <3> QED
      BY <2>3, <3>4
  <2>4. CASE m \notin Unnamed
    <3>1. \A d, o \in SpentFor(m) : d = o
      BY <2>4 DEF SpentFor, Spent, Same, IInv, TurnInv
    <3>2. Cardinality(SpentFor(m)) <= 1
      BY <3>1, AtMostOneIs
    <3> QED
      BY <2>1, <2>2, <2>4, <3>2
  <2> QED
    BY <2>3, <2>4
<1> QED
  BY <1>1, Invariant, PTL

\* A bot that is woken is in the room its turn runs in, and an item has one room that
\* stands, unless two wakes found it without one at once.
THEOREM OneRoomPerItemHolds == Spec => []OneRoomPerItem
<1>1. IInv => OneRoomPerItem
  <2> SUFFICES ASSUME IInv PROVE OneRoomPerItem
    OBVIOUS
  <2>1. strays = 0 /\ \A i \in Items : Housed(i)
    BY DEF IInv, RoomInv
  <2>2. ASSUME NEW i \in Items, i \notin raced
        PROVE  Cardinality({r \in opened[i] : room[r] # Gone}) <= 1
    <3> DEFINE R == {r \in opened[i] : room[r] # Gone}
    <3>1. \A r, s \in R : r = s
      BY <2>1, <2>2 DEF Housed
    <3> QED
      BY <3>1, AtMostOneIs
  <2> QED
    BY <2>1, <2>2 DEF OneRoomPerItem
<1> QED
  BY <1>1, Invariant, PTL
==============================================================================
