------------------------------ MODULE WorkQueue ------------------------------
(***************************************************************************)
(* Work items, their owners and the dispatcher that wakes an owner. The    *)
(* queue is the table: an item that is open, owned and not stamped         *)
(* (`dispatched_at IS NULL`) is work nobody has been told about.           *)
(*                                                                         *)
(* Each API replica runs one dispatcher loop. A pass claims a batch in one *)
(* transaction and then runs the owners one at a time, minutes each, in    *)
(* the same database session, whose copies of the claimed rows it keeps.   *)
(* HTTP requests and other bots' tool calls load a row, change the copy    *)
(* and commit.                                                             *)
(*                                                                         *)
(* Nothing but the claim locks a row it has read, and a commit writes the  *)
(* columns whose value in the copy differs from the value that was loaded  *)
(* (the ORM's unit of work): Merge below.                                  *)
(***************************************************************************)
EXTENDS Naturals, Sequences, FiniteSets

CONSTANTS
    Items,         \* rows of `work_items` that may come to exist
    Bots,          \* the bots of one person's team
    Dispatchers,   \* replicas running _dispatch_assigned_work
    Requests,      \* requests and tool calls of other runs in flight
    Batch,         \* DISPATCH_BATCH
    MaxHandovers,  \* bound: ledger rows of one item
    Operations,    \* what people and bots do in the instance
    Edits,         \* statuses they set in the instance
    Faults,        \* what may go wrong in the instance
    None

Open     == {"open", "working", "waiting"}
Statuses == Open \cup {"closed"}

AllOperations == {"patch", "transfer", "tools", "delete_item", "delete_bot"}
AllFaults     == {"turn_fails", "pass_dies"}

ASSUME QueueAssumption ==
    /\ Batch \in Nat \ {0}
    /\ MaxHandovers \in Nat
    /\ IsFiniteSet(Dispatchers)
    /\ Operations \subseteq AllOperations
    /\ Edits \subseteq Statuses
    /\ Faults \subseteq AllFaults
    /\ None \notin Bots \cup Items

VARIABLES
    row,      \* work_items: owner_bot_id, status, and whether dispatched_at
              \* and dispatch_run_id are set
    ledger,   \* work_item_transfers, in the order of their commits
    bots,     \* bots that exist
    disp,     \* the dispatcher loops and their sessions
    req,      \* requests between loading a row and committing it
    wakes     \* history: how often a bot was woken on an item

vars == <<row, ledger, bots, disp, req, wakes>>

------------------------------------------------------------------------------
Blank    == [owner |-> None, status |-> "absent", stamped |-> FALSE, run |-> FALSE]
IdleDisp == [pc |-> "idle", claimed |-> {}, todo |-> {}, item |-> None,
             bot |-> None, touched |-> None, mem |-> [i \in Items |-> Blank]]
IdleReq  == [item |-> None, seen |-> Blank]

Exists(i)  == row[i].status \in Statuses
Pending(i) == row[i].status = "open" /\ row[i].owner # None /\ ~row[i].stamped

\* What a commit leaves in a column that holds `now`, for a copy loaded as `old`
\* and changed to `new`.
Column(now, old, new) == IF new # old THEN new ELSE now

\* Mutant: a commit writes every column of the copy.
MergeWholeRow(now, old, new) == new

Merge(now, old, new) ==
    [owner   |-> Column(now.owner, old.owner, new.owner),
     status  |-> Column(now.status, old.status, new.status),
     stamped |-> Column(now.stamped, old.stamped, new.stamped),
     run     |-> Column(now.run, old.run, new.run)]

WriteRow(i, old, new) == row' = [row EXCEPT ![i] = Merge(@, old, new)]

\* mark_for_dispatch, for an item that is not closed.
Marked(w) == [w EXCEPT !.stamped = FALSE, !.run = FALSE, !.status = "open"]

\* transfer_work_item and mark_for_dispatch, from a copy loaded as `old`: the
\* handover is recorded with the owner the copy names.
HandOver(i, old, b) ==
    /\ old.status # "closed" /\ old.owner # b /\ b \in bots
    /\ Exists(i) /\ Len(ledger[i]) < MaxHandovers
    /\ WriteRow(i, old, Marked([old EXCEPT !.owner = b]))
    /\ ledger' = [ledger EXCEPT ![i] = Append(@, [from |-> old.owner, to |-> b])]
    /\ UNCHANGED <<bots, wakes>>

\* The dispatcher moves on to the rest of its batch, or to sleep.
MoveOn(d, todo) ==
    disp' = [disp EXCEPT ![d] = IF todo = {} THEN IdleDisp
                                ELSE [@ EXCEPT !.pc = "pass", !.todo = todo,
                                               !.item = None, !.bot = None]]
Abandon(d) == disp' = [disp EXCEPT ![d] = IdleDisp]

------------------------------------------------------------------------------
Init ==
    /\ row    = [i \in Items |-> Blank]
    /\ ledger = [i \in Items |-> <<>>]
    /\ bots   = Bots
    /\ disp   = [d \in Dispatchers |-> IdleDisp]
    /\ req    = [q \in Requests |-> IdleReq]
    /\ wakes  = [i \in Items |-> 0]

------------------------------------------------------------------------------
(* The dispatcher                                                          *)

\* Mutant: the stamp is left for the end of the run.
ClaimUnstamped(d) == \E S \in SUBSET {i \in Items : Pending(i)} :
    /\ disp[d].pc = "idle"
    /\ S # {} /\ Cardinality(S) <= Batch
    /\ disp' = [disp EXCEPT ![d] =
           [IdleDisp EXCEPT !.pc = "pass", !.claimed = S, !.todo = S,
                !.mem = [i \in Items |-> IF i \in S THEN row[i] ELSE Blank]]]
    /\ UNCHANGED <<row, ledger, bots, req, wakes>>

\* Mutant: an item that names a run counts as told, whosever run it was.
ClaimUntold(d) == \E S \in SUBSET {i \in Items : Pending(i) /\ ~row[i].run} :
    LET taken(i) == [row[i] EXCEPT !.stamped = TRUE, !.status = "working"] IN
    /\ disp[d].pc = "idle"
    /\ S # {} /\ Cardinality(S) <= Batch
    /\ row' = [i \in Items |-> IF i \in S THEN taken(i) ELSE row[i]]
    /\ disp' = [disp EXCEPT ![d] =
           [IdleDisp EXCEPT !.pc = "pass", !.claimed = S, !.todo = S,
                !.mem = [i \in Items |-> IF i \in S THEN taken(i) ELSE Blank]]]
    /\ UNCHANGED <<ledger, bots, req, wakes>>

\* claim_pending: stamps the rows before anything is started. Rows another
\* transaction has locked are skipped, so any pending rows may be the ones.
Claim(d) == \E S \in SUBSET {i \in Items : Pending(i)} :
    LET taken(i) == [row[i] EXCEPT !.stamped = TRUE, !.status = "working"] IN
    /\ disp[d].pc = "idle"
    /\ S # {} /\ Cardinality(S) <= Batch
    /\ row' = [i \in Items |-> IF i \in S THEN taken(i) ELSE row[i]]
    /\ disp' = [disp EXCEPT ![d] =
           [IdleDisp EXCEPT !.pc = "pass", !.claimed = S, !.todo = S,
                !.mem = [i \in Items |-> IF i \in S THEN taken(i) ELSE Blank]]]
    /\ UNCHANGED <<ledger, bots, req, wakes>>

\* dispatch: the wake message and the run, for the owner the copy names.
Wake(d, i) ==
    LET b == disp[d].mem[i].owner IN
    /\ disp[d].pc = "pass" /\ i \in disp[d].todo
    /\ b \in bots
    /\ disp' = [disp EXCEPT ![d].pc = "run", ![d].todo = @ \ {i},
                            ![d].item = i, ![d].bot = b]
    /\ wakes' = [wakes EXCEPT ![i] = @ + 1]
    /\ UNCHANGED <<row, ledger, bots, req>>

\* The owner is gone: a person has to fix it, the item stays as claimed.
SkipOrphan(d, i) ==
    /\ disp[d].pc = "pass" /\ i \in disp[d].todo
    /\ disp[d].mem[i].owner \notin bots
    /\ MoveOn(d, disp[d].todo \ {i})
    /\ UNCHANGED <<row, ledger, bots, req, wakes>>

\* The woken bot's update_work_item. Its tools share the dispatcher's session,
\* so an item of the batch is the copy claimed at the start of the pass.
BotUpdates(d, i, s) ==
    LET old == disp[d].mem[i] IN
    /\ "tools" \in Operations /\ s \in Edits
    /\ disp[d].pc = "run" /\ i \in disp[d].claimed
    /\ Exists(i)
    /\ WriteRow(i, old, [old EXCEPT !.status = s])
    /\ disp' = [disp EXCEPT ![d].pc = "tool", ![d].touched = i]
    /\ UNCHANGED <<ledger, bots, req, wakes>>

\* The woken bot's transfer_work_item.
BotTransfers(d, i, b) ==
    /\ "tools" \in Operations
    /\ disp[d].pc = "run" /\ i \in disp[d].claimed /\ b # disp[d].bot
    /\ HandOver(i, disp[d].mem[i], b)
    /\ disp' = [disp EXCEPT ![d].pc = "tool", ![d].touched = i]
    /\ UNCHANGED req

\* Both tools refresh their copy after the commit; of a row that has been
\* deleted meanwhile they cannot, and the turn fails.
BotRefreshes(d) ==
    LET i == disp[d].touched IN
    /\ disp[d].pc = "tool"
    /\ IF Exists(i)
       THEN disp' = [disp EXCEPT ![d].pc = "run", ![d].touched = None,
                                 ![d].mem[i] = row[i]]
       ELSE Abandon(d)
    /\ UNCHANGED <<row, ledger, bots, req, wakes>>

\* The run is over. Its id is written into the row, unless the bot's budget
\* allowed no run; writing into a deleted row is an error that ends the pass.
RunEnds(d, ran) ==
    LET i == disp[d].item IN
    /\ disp[d].pc = "run"
    /\ IF ~ran /\ ~disp[d].mem[i].run
       THEN row' = row /\ MoveOn(d, disp[d].todo)
       ELSE IF Exists(i)
            THEN row' = [row EXCEPT ![i].run = ran] /\ MoveOn(d, disp[d].todo)
            ELSE row' = row /\ Abandon(d)
    /\ UNCHANGED <<ledger, bots, req, wakes>>

\* The turn fails inside a transaction: the rollback expires every copy the
\* session holds, and touching one afterwards raises out of the pass. (Failing
\* outside one is RunEnds.) The process may also die.
PassFails(d) ==
    /\ \/ "turn_fails" \in Faults /\ disp[d].pc = "run"
       \/ "pass_dies" \in Faults /\ disp[d].pc # "idle"
    /\ Abandon(d)
    /\ UNCHANGED <<row, ledger, bots, req, wakes>>

------------------------------------------------------------------------------
(* People, and bots in runs of their own                                   *)

\* POST /work-items and create_work_item: the row, unstamped, in the status
\* asked for, and the opening row of its ledger.
CreateItem(i, b, s) ==
    /\ row[i].status = "absent" /\ b \in bots /\ s \in Edits
    /\ Len(ledger[i]) < MaxHandovers
    /\ row' = [row EXCEPT ![i] = [Blank EXCEPT !.owner = b, !.status = s]]
    /\ ledger' = [ledger EXCEPT ![i] = Append(@, [from |-> None, to |-> b])]
    /\ UNCHANGED <<bots, disp, req, wakes>>

\* A request loads the row it will change, without a lock.
RequestReads(q, i) ==
    /\ Operations \cap {"patch", "transfer"} # {}
    /\ req[q] = IdleReq
    /\ Exists(i)
    /\ req' = [req EXCEPT ![q] = [item |-> i, seen |-> row[i]]]
    /\ UNCHANGED <<row, ledger, bots, disp, wakes>>

Reply(q) == req' = [req EXCEPT ![q] = IdleReq]

\* PATCH /work-items/{id}, and update_work_item of another run.
Patch(q, s) ==
    LET i == req[q].item IN
    /\ "patch" \in Operations /\ s \in Edits
    /\ req[q] # IdleReq /\ Exists(i)
    /\ WriteRow(i, req[q].seen, [req[q].seen EXCEPT !.status = s])
    /\ Reply(q)
    /\ UNCHANGED <<ledger, bots, disp, wakes>>

\* POST /work-items/{id}/transfer, and transfer_work_item of another run.
Transfer(q, b) ==
    /\ "transfer" \in Operations
    /\ req[q] # IdleReq
    /\ HandOver(req[q].item, req[q].seen, b)
    /\ Reply(q)
    /\ UNCHANGED disp

\* Refused (closed, already the owner), failed (the row or the target is
\* gone), or its process died: nothing is written.
RequestEnds(q) ==
    /\ req[q] # IdleReq
    /\ Reply(q)
    /\ UNCHANGED <<row, ledger, bots, disp, wakes>>

\* DELETE /work-items/{id}: the ledger survives.
DeleteItem(i) ==
    /\ "delete_item" \in Operations
    /\ Exists(i)
    /\ row' = [row EXCEPT ![i] = [Blank EXCEPT !.status = "gone"]]
    /\ UNCHANGED <<ledger, bots, disp, req, wakes>>

\* DELETE /bots/{id}: the foreign key leaves its items without an owner.
DeleteBot(b) ==
    /\ "delete_bot" \in Operations
    /\ b \in bots
    /\ bots' = bots \ {b}
    /\ row' = [i \in Items |-> IF row[i].owner = b
                               THEN [row[i] EXCEPT !.owner = None] ELSE row[i]]
    /\ UNCHANGED <<ledger, disp, req, wakes>>

------------------------------------------------------------------------------
\* What a pass does by itself, the woken bot's tools and faults aside.
PassStep(d) ==
    \/ Claim(d)
    \/ \E i \in Items : Wake(d, i) \/ SkipOrphan(d, i)
    \/ BotRefreshes(d)

DispStep(d) ==
    \/ PassStep(d)
    \/ \E ran \in BOOLEAN : RunEnds(d, ran)
    \/ \E i \in Items, s \in Statuses : BotUpdates(d, i, s)
    \/ \E i \in Items, b \in Bots : BotTransfers(d, i, b)
    \/ PassFails(d)

RequestStep(q) ==
    \/ \E i \in Items : RequestReads(q, i)
    \/ \E s \in Statuses : Patch(q, s)
    \/ \E b \in Bots : Transfer(q, b)
    \/ RequestEnds(q)

Next ==
    \/ \E d \in Dispatchers : DispStep(d)
    \/ \E q \in Requests : RequestStep(q)
    \/ \E i \in Items, b \in Bots, s \in Statuses : CreateItem(i, b, s)
    \/ \E i \in Items : DeleteItem(i)
    \/ \E b \in Bots : DeleteBot(b)

Spec == Init /\ [][Next]_vars

\* The loop of a replica keeps passing, and a run ends: its steps and its time
\* are limited, however often the bot uses a tool on the way.
DispatchFairness ==
    \A d \in Dispatchers :
        /\ WF_vars(PassStep(d))
        /\ SF_vars(\E ran \in BOOLEAN : RunEnds(d, ran))

FairSpec == Spec /\ DispatchFairness

------------------------------------------------------------------------------
(* Properties                                                              *)

Row == [owner : Bots \cup {None}, status : Statuses \cup {"absent", "gone"},
        stamped : BOOLEAN, run : BOOLEAN]

DispSlot == [pc      : {"idle", "pass", "run", "tool"},
             claimed : SUBSET Items,
             todo    : SUBSET Items,
             item    : Items \cup {None},
             bot     : Bots \cup {None},
             touched : Items \cup {None},
             mem     : [Items -> Row]]

\* Every variable has its type, and a loop or request at work names its rows.
TypeOK ==
    /\ row \in [Items -> Row]
    /\ ledger \in [Items -> Seq([from : Bots \cup {None}, to : Bots])]
    /\ bots \subseteq Bots
    /\ disp \in [Dispatchers -> DispSlot]
    /\ req \in [Requests -> [item : Items \cup {None}, seen : Row]]
    /\ wakes \in [Items -> Nat]
    /\ \A d \in Dispatchers :
          /\ disp[d].pc \in {"run", "tool"} => disp[d].item \in Items
          /\ disp[d].pc = "tool" => disp[d].touched \in Items
    /\ \A q \in Requests : req[q] # IdleReq => req[q].item \in Items

\* "Nothing re-wakes it" (work_dispatch): however claims, edits and handovers
\* of several replicas and requests interleave, and whatever dies, an item is
\* woken at most once for each assignment its ledger records.
OneWakePerAssignment == \A i \in Items : wakes[i] <= Len(ledger[i])

\* "There is no code path that can move `owner_bot_id` without writing a
\* work_item_transfers row" (README): the owner of a row, when it has one, is
\* the one its last ledger row names, whoever wrote the row from a stale copy.
LedgerNamesOwner ==
    \A i \in Items : row[i].owner # None =>
        /\ ledger[i] # <<>>
        /\ row[i].owner = ledger[i][Len(ledger[i])].to

\* The table, its dispatchers and requests keep what Assignment promises: seen from
\* outside, an item passes only from owner to owner on the record, is lost with its
\* row or its bot, or has its owner told, once for each assignment.
Owner == [i \in Items |-> row[i].owner]
Assigned == INSTANCE Assignment WITH owner <- Owner, record <- ledger, told <- wakes
OwnersAreAssigned == Assigned!Spec

\* Work that is open, owned and not stamped does not stay that way for ever:
\* somebody claims it or a person changes it, whichever passes fail.
QueueDrains == \A i \in Items : Pending(i) ~> ~Pending(i)
=============================================================================
