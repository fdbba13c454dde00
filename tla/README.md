# A verification project for nesqbot

TLA+ models of the parts of nesqbot where several actors write the same rows,
the TLC runs that check them on small instances, and TLAPS proofs of what
matters most for every size of instance. Paths are relative to the repository;
`orchestrator.py`, `work_dispatch.py` and so on are under
`apps/api/app/services/`, routers under `apps/api/app/routers/`.

1. [The system](#1-the-system)
2. [The modules](#2-the-modules)
3. [What the runs check](#3-what-the-runs-check)
4. [What is proved](#4-what-is-proved)
5. [What the models show about the code](#5-what-the-models-show-about-the-code)
6. [What is not modelled](#6-what-is-not-modelled)
7. [Plan](#7-plan)

## 1. The system

nesqbot runs AI colleagues ("bots") for a person: a FastAPI service
(`apps/api`), a Temporal worker for routines (`apps/worker`), Postgres as the
one shared state, a desktop sidecar per bot, and two clients. There is no queue
and no scheduler in the API: what drives work is asyncio tasks in the API
process, two background loops per replica and HTTP requests, and everything
they have to agree on is a row in the database.

| Component | State | Operations | Meets |
| --- | --- | --- | --- |
| Run lifecycle (`orchestrator.py`, `routers/agent.py`, `background.py`) | `runs.status`, `runs.detail.agent`, `runs.updated_at`; the task itself, in memory | start a turn, hold a step, park on an approval, park on a person, finish, fail, resume a leg, cancel | approvals, reaper, thread deletion |
| Approvals (`routers/approvals.py`, `approvals.py`, `simulation.perform`) | `approvals.status`, `payload.kind`, `run_id` | file, decide, execute, expire, continue the parked run | runs, connectors, standing rules |
| Reaper (`reaper.py`, `main._sweep_orphaned_runs`) | none of its own | select stale `running` rows, interrupt each conditionally | runs |
| Work items (`work_items.py`, `routers/work_items.py`, `agent_work_items.py`) | `work_items` (owner, status, `dispatched_at`, `dispatch_run_id`), `work_item_transfers` | create, edit, transfer, delete | dispatcher, bots' tools, inbound events |
| Work dispatcher (`work_dispatch.py`, `main._dispatch_assigned_work`) | its session's copies of the claimed rows | claim a batch, wake each owner, note the run | work items, runs |
| Delegation (`orchestrator._delegate`, `_delegated_turn`) | the chain: depth, total, refusals, time; a copy in `context_ledger` | delegate, refuse, park in mid-chain, rebuild on resume | runs, budgets |
| Plans and rehearsal (`simulation.py`) | `plan_records`: status, content hash | dry run, save, execute step by step, mark | undo log, standing approvals |
| Undo log (`undo.py`) | `action_log`: status, reversible | record an effect, claim it, compensate, release | plans, connectors |
| Standing approvals (`standing_approvals.py`) | rules and their use counts | cover a step, learn from decisions, revoke | approvals |
| Routines and the worker (`routines.py`, `temporal_client.py`, `apps/worker/worker`) | workflow history, `routines`, the Temporal schedule | run inline, durable steps with retry, wait for an approval, mirror an edit into the schedule | approvals, usage |
| Inbound events (`inbound.py`, `routers/inbound.py`) | `inbound_events` under two unique indexes, the items' rooms | receive or poll, resolve, commit once, answer, wake a bot | work items, runs |
| Agent loop (`orchestrator._turn`, `_agent_loop`, `context_budget.py`) | the locals of one leg, `AgentSession`, the conversation | route, open, act-look-decide, prune, settle | model router, desktops, approvals, delegation |
| Model router (`model_router.py`, `provider_credentials.py`) | cached clients, overrides, refused efforts | call, retry, move a throttled call, fold a stream, price | every turn, `usage_events` |
| Bot desktops (`desktop.py`) | `bot_desktops`: state, handle, URL | start, stop, suspend, resume on docker, aci, k8s | agent loop, sidecar |
| Browser (`services/browser.py`, `sidecar/browser.py`) | the sidecar's snapshots, the session's memory of them | list a page, act by reference, re-aim a stale one | risk gate, agent loop |
| Event bus (`events.py`) | bounded per-subscriber queues | publish, drop oldest, fall back from Redis | every stream |
| The rest | | | see `PROJECT.json`, "components" |

**What is hard here.** Nobody holds a lock over a model call or a desktop step,
which take minutes. A row is loaded, minutes or milliseconds pass, and the row
is written. What keeps writers apart is
- *conditional updates* (`UPDATE runs ... WHERE status = ...`): the claim that
  continues a run, cancel, and the reaper use them;
- *`FOR UPDATE SKIP LOCKED`*, only in the dispatcher's claim;
- *nothing*, where a handler loads an ORM object, looks at it and commits: an
  approval's decision and expiry, a work item's edits and transfers, and the
  last write of a run's leg.

Added to that, a process can die between any two commits, a client can
disconnect and cancel the handler, `release_transaction` swallows a commit that
fails, exceptions in a detached leg are logged and dropped, and the reaper
infers death from the age of a row.

**What makes each component correct**, in the terms the properties use:
- *runs*: one driver per run; a waiting run is never reaped and a finished run
  never revived; a cancelled run stays cancelled; no run is `running` for ever;
- *approvals*: the held action is performed at most once and only if the record
  says approved; a decision is final; it continues the run that waits for it
  and no other; a waiting run waits for something that can still happen;
- *work items*: the owner is the one the ledger names; one wake per assignment;
  work nobody has been told about is picked up; the owner has been told;
- *delegation*: bounded depth, breadth and spend across pauses; a child run is
  never left behind as `running`;
- *plans and undo*: a plan executes once and only as reviewed; what it did is in
  the log; an effect is undone at most once;
- *standing approvals*: a rule is learnt only from an unbroken run of equal
  decisions and never used after it was revoked;
- *routines*: a step whose outcome is unknown is not repeated, nothing runs past
  an unapproved gate, every execution ends; a schedule follows its routine;
- *inbound*: a reply is acted on once, in one room, and is not lost after the 202;
- *agent loop*: every request is one the provider takes; one thing at most is
  asked of a person and nothing is done after it; a leg ends;
- *model router*: a turn gets the answer to its own request, whole, and priced as
  the model that gave it; a call moves down only where it may;
- *desktops and browser*: a row that says running names a computer that runs, and
  none costs money unseen; a step acts on the element the gate judged, once.

Every place where one of these is at risk is a row of "hazards" in
`PROJECT.json`, with its line and the property that covers it.

## 2. The modules

| Module | Models | Checked by | Proved in |
| --- | --- | --- | --- |
| `HeldAction` | abstract: what an approval promises | through `RunLifecycle` | `RunLifecycle_proof` |
| `RunLifecycle` | run rows, approval rows, the loop tasks, the requests, the reaper | `MCRunLifecycle` | `RunLifecycle_proof` |
| `Assignment` | abstract: what the queue promises who owns an item | through `WorkQueue` | `WorkQueue_proof` |
| `WorkQueue` | work items, the ledger, dispatcher replicas, requests, bots' tools | `MCWorkQueue` | `WorkQueue_proof` |
| `Delegation` | rows of a chain of hand-offs, the tasks' stacks of runs, the chain's counter | `MCDelegation` | `Delegation_proof` |
| `AgentLoop` | one leg of a turn: every call kind, every exit, the settling | `MCAgentLoop` | `AgentTurn_proof` |
| `ModelRouter` | clients and keys, retries, the throttle fallback, streams | `MCModelRouter` | `AgentTurn_proof` |
| `Rehearsal` | plans, their execution, `perform`, the undo log | `MCRehearsal` | `Rehearsal_proof` |
| `InboundLane` | deliveries, events, the wake, rooms | `MCInboundLane` | `InboundLane_proof` |
| `RoutineRun` | executions of a routine, durable and inline | `MCRoutineRun` | `Routines_proof` |
| `RoutineSchedule` | a routine's row and the schedule that mirrors it | `MCMirrors` | `Routines_proof` |
| `Desktop` | a bot's desktop row, the computer, calls that cross | `MCMirrors` | `Desktops_proof` |
| `PageRefs` | a changing page, listings, references, the gate, a second look | `MCPageRefs` | `Desktops_proof` |

Three proof modules extend two components each, one of which then names its initial
state, steps and specification after itself (`RouterSpec`, `ScheduleSpec`,
`DesktopSpec`), and `MCMirrors` checks two such components in one run, one at a time. The
two share no variable; nothing is composed there.

How they fit. `RunLifecycle` implements `HeldAction`: `Held` in `RunLifecycle` is
an `INSTANCE` of it in which an approval row is an action, its verdict the answer
(`AnswerOf`) and its `effects` what was done. In the same way `WorkQueue` implements
`Assignment` (`Assigned`, with the owner column, the ledger and `wakes` as what is seen
from outside). `WorkQueue` sees a run as an
interval (`Wake` to `RunEnds`) whose tools may write work items; `RunLifecycle`
sees it as one more `StartTurn`. `Delegation` looks inside a leg of
`RunLifecycle`: what is there one task driving one run is here a task with a
stack of runs, and the decisions, claims and reaper passes of `RunLifecycle` are
its `Resume` and `WriteOff`. `AgentLoop` looks inside one frame of such a stack:
its `Held`, `Takeover` and `Settle` are `LoopGate`, `LoopPark` and the other ends
of a leg there, its `Delegate` a hand-off here; each `Answer` of it is one call
of `ModelRouter`, each `DomStep` one step of `PageRefs`, each boot one `Start` of
`Desktop`. `InboundLane` wakes with the turn that `RunLifecycle` starts, and
`RoutineRun` files the approvals that `RunLifecycle` has as `FileApproval`.
`Rehearsal` models `perform`, which `RunLifecycle` has as the one step
`DecideExecute`. They meet only in these places, so they are checked separately.

In all of them, a step is what happens between two awaits at which another session's
commit can become visible. Read and write of a handler are separate steps
wherever the code reads without a lock; a conditional `UPDATE` and its commit
are one step because the row lock is held from the one to the other.

### RunLifecycle

- `status`, `parked`, `stale`, `thread` are `runs.status`, the approval named in
  `runs.detail.agent` (or `"NoHold"`, or `"NoAgent"` when there is no agent
  state), whether `updated_at` is older than `STALE_AFTER`, and whether the
  thread exists. A thread is represented by the run started in it.
- `verdict`, `owner`, `kind` are `approvals.status`, `run_id`, `payload.kind`;
  `effects` is a history variable: how often the held action was performed,
  counted to two.
- `loop[l]` is a task driving a run: a first leg (`_turn`) or a resumed one
  (`_resume` under `run_detached`). `LoopGate` is `create_approval`, which
  commits; `LoopPark` is the end of the leg, minutes of the model's answer
  later. Between the two the approval can be decided.
- `req[q]` is a request between two awaits: `DecideRead` (the plain SELECT and
  the test for `pending`), then the decision's commit — with the message for a
  `message_only` hold, by `release_transaction` before a slow call for the
  others — `DecideExecute`, `ContinueRead` (is the run parked on this
  approval?), `ClaimWon`/`ClaimLost` (the conditional update) and `Spawn`.
  `ResumeRead` is the Continue button, which claims from `awaiting_human`.
  `ExpireRead`/`DeleteRead`/`ExpireWrite` expire one approval or all of a
  thread's. Approvals nobody's run filed come from `FileApproval`.
- `doubtful` is a history variable: the approvals that two requests had in hand at once
  (`TakesUp`) or whose answer was lost on its way to the database.
- `sweep` holds the runs a reaper pass has selected; passes of several replicas
  are one set because the visits are independent. `Age` lets `STALE_AFTER` pass.
- What goes wrong is an explicit action enabled by `Faults`: `RequestDies`,
  `LoopDies`, `LegRaises`, `DecideReleaseFails`, `SweepFails`. Errors the code
  itself produces (a leg or a message whose thread has been deleted, a second
  delete) need no fault.

Abstracted: what the model says, what steps cost, which desktop step is held,
notes in threads, notifications, audit rows. Whether a step is gated, whether a
leg finishes, parks or hands over, and whether an executor performs or refuses
are free choices.

### WorkQueue

- `row[i]` is a work item: owner, status, and *whether* `dispatched_at` and
  `dispatch_run_id` are set. `ledger[i]` is its `work_item_transfers`.
- `disp[d]` is a replica's dispatcher with the copies (`mem`) its session keeps
  of the rows it claimed. The woken bot's tools run in that same session, so
  `BotUpdates` and `BotTransfers` work on the copy of an item in the batch, and
  refresh it after their commit.
- `req[q]` is a request, or a tool call of a run of its own, that has loaded a
  row and not committed.
- `Merge` is the ORM's unit of work, the one external piece: a commit writes the
  columns whose value in the copy differs from the value loaded, and no others.
  Everything surprising in this component comes from it.
- `HandOver` is `transfer_work_item` with `mark_for_dispatch` inside it: the
  ledger row, the new owner, and the reset of status and stamp are one commit.
- `PassFails` covers a turn that raises inside a transaction (the rollback
  expires every copy, touching one raises, and the rest of the batch stays
  claimed) and a process that dies.
- `wakes` is a history variable: how often somebody was woken on the item.

Abstracted: titles, keys, resolutions, who may see what, the wake message. A
budget that allows no run is `RunEnds` with `ran = FALSE`.

### Delegation

- `run` is the sequence of rows in the order they were committed: `parent`,
  `root` and `depth` (the length of the chain's `path`, less one) and `used`,
  the `delegations_used` the row carries in `context_ledger`. `hop` is a history
  variable: the count when the run began. The statuses that mean "over" are one,
  and so are the two that mean "waits for a person".
- `leg[l]` is a task. `delegate_to_bot` is synchronous, so the task has a stack
  of runs (`frames`) of which the top one works; each frame has its loop's
  `delegation_refusals`. `spent` is the `DelegationChain.spent` cell all frames
  share, `late` whether the deadline has passed, `first` whether this is a first
  leg. Both last no longer than the task.
- `Delegate` checks depth, total and time, spends the hop and commits the
  child's row; `StartFails` is the same when something raises before that
  commit. `Refuse` is an answer that refuses, for a cap or for anything else
  (slug, brief, itself, unknown target, budget). `End` stamps the row and tells
  the caller. `ChildRaises` is the `except` in `_delegate`, which writes no row;
  `RootRaises` is `_fail_run`, or for a resumed leg nothing. `Resume` is a won
  claim followed by `from_ledger`.

Abstracted: who is named, seating, briefs and answers, prices. Chains do not
meet, so an instance has one.

### AgentLoop

- `loop` is the locals of `_agent_loop` (steps, looks without acting, idle
  observations, unchanged screens, failures, fallbacks, nudges, refusals, whether
  the browser lane was found absent, whether the machine was booted) and two fields of
  history: `offered`, the page's tools the model was last offered, and `met`, the answers
  in which one of them found the lane absent. `session` is `AgentSession`, `model` what
  the model and the thread allow, `batch` the calls of one answer, `convo` what a request
  can be rejected for: replies owed, frames attached.
- The way to the loop is `Seat`, `Route`, `Start`, `Gather`, `Opening`,
  `SecondChance`, `Reopening` (a resumed leg). Each call kind is an action
  (`Complete`, `Takeover`, `Delegate`, `File`, `PixelStep`, `DomStep`, `Held`,
  `Degrades`, `QueryRefused`, `BootFails`, `Garbled`, `Unknown`, `Skip`), revealed
  when the loop reaches it; `Bounds` is the top of the next round and `Close`,
  `Intent`, `Draft`, `Settle`, `SaveLedger` the end of the turn.
- `Shrunken` and `Takes` are the pruning of `context_budget.py`; `Advertised` is
  `select_tools`.

Abstracted: a tool to its kind, an answer of the machine to how it went, prose.

### ModelRouter

- `client` is `_clients` (by endpoint on the openai wire, which is why a key may
  be older than `known`, this process's `_overrides`), `stored` the table,
  `saving` the gap between the commit and the update of `_overrides`. No property is about
  them: which key a call is made with is something the code loses (section 5). `refused`
  is `rejected_efforts`, `listing` the azure account lookup.
- `turn[t]` is a call: `asked` the models it went to, `said` what the model
  answers with, `sent`/`heard` the fragments on either side of the wire. `Place`
  chooses client and model, `Hiccup` is a retryable failure, `Throttled` what
  follows exhausted retries, `OpenAIChunk`, `AnthropicChunk`, `GoogleChunk` the
  three foldings, `Break` a stream that ends early, `Record` the ledger row.

### Rehearsal

- `plan` and `log` are `plan_records` and `action_log` (an entry is *flushed*
  before it is committed), `exec[e]` an `execute_plan` request with what its
  session holds, `undoer[u]` an undo request. `granted` is what standing
  permissions cover, `routine` the steps as they now are.
- `ExecuteRead`, `ExecuteRefused`, `ExecuteStarts` are the tests before the run
  (unlocked); `StepHeld`, `StepRelease`, `StepWorks`/`StepFails`/`StepUnlogged` the
  parts of `perform` around its slow call; `FinishRun` and `MarkExecuted` the two late
  commits. A refusal writes `stale` from the copy that was read (`ExecuteRefused`), even
  over `executed`. `UndoClaim` is the conditional update, `Compensate` the call under
  the row lock, `UndoFinish`/`UndoRollsBack` its two ends.
- `late` of an execution is whether another request was at the plan when it read it;
  `stands[p]` counts the runs of a plan begun on readings that were not late, and drops to
  0 when one is lost unmarked or its mark is written over.

### InboundLane

- `event[d]` is the committed row of a delivery, `task[t]` a request with the records it
  still has to handle and the events it still has to wake. `Commit`/`Duplicate` are the
  two outcomes of the unique indexes, `Answer` is the 202, `WakeReads`,
  `UseRoom`/`OpenRoom`, `FindsNoSeat`/`TakeSeat`, `Post`, `WakeRecords` the parts of
  `wake_for_event` between awaits. `WakeRaises` is a write on a row that is gone, or for
  a seat another wake has taken since it was found free: the exception leaves the wake
  and the response's other wakes with it. `TurnFails` rolls the session back; `Dies`
  ends the process; `EditItem`, `DeleteRoom`, `SwitchSource` are people.

### RoutineRun and RoutineSchedule

- `exec[e]` is a workflow or an inline walk: where it is, its step, the attempt,
  the answer it holds, the approval it polls. `AnswerLost`, `Unreachable`,
  `WorkerDies` are what Temporal retries or not (`Again`, `STANDARD_RETRY`);
  `Poll`, `Wait`, `DeadlinePasses` the wait for an approval; `InlineStep` the
  fallback. `effects` counts what was done and `blind` the repeats of attempts
  whose step may have been done.
- `RoutineSchedule` has the row, the schedule, edits that commit and then sync
  from their own copy by delete and create, and the worker's boot, which upserts. A
  deletion of the schedule that fails is swallowed (`Drop`). `strayed` says that a sync
  failed or crossed another since the last repair, `since` which version the row had when
  row and schedule last rested in line.
  Temporal (`Fire`, skip on overlap) is external.

### Desktop

- `row` is `bot_desktops`, `box` the computer, `call[q]` a request with the copy
  its session read; `Written` is the ORM's column-wise flush. Start and stop
  commit `starting`/`stopping` first, suspend and resume do not. Drivers differ
  in identity: docker hands out a new id, aci and k8s name the box after the bot.

### PageRefs

- `page` changes by itself (`Navigates`, `Changes`); `sidecar` keeps the last
  `KeepSnaps` listings and loses them in `Restarts`; `memory` is
  `AgentSession.browser_snapshots`. `Annotated` is the label the gate judges by,
  `Decided` and `Approved` the gate; `Resolves`, `Refuses` the sidecar's look-up
  by reference, pin and label; `Recovers`, `HasLooked`, `Found` the second look
  after a stale reference or a person's yes; `Acts` the input. A frame whose collection
  fails (`Frames`, `look.missed`) is left out of the listing without making it `partial`.

## 3. What the runs check

Every action of every module fires in a run.

| Run | Instance | Shows |
| --- | --- | --- |
| `lifecycle` | 1 run, 2 approvals, 2 requests, 2 tasks, all faults | `TypeOK`, `OneDriver`, `UndoubtedAnswersStand`, `ContinuedByItsOwnDecision`, `NeverReapParked`, `FinishedStaysFinished`, whatever interleaves |
| `settles` | 1 run, 2 approvals, 1 request, 1 task, all operations and faults but a lost commit | `RunsSettle` |
| `decisions_race` | 1 approval, 2 decisions at once, no fault | that `HeldActionsAreAnswered` is **violated**: a request approves and acts, another rejects what was done |
| `queue` | 1 item, 2 bots, 2 replicas, 1 request, 2 ledger rows, all faults | `OwnersAreAssigned` (the refinement), `LedgerNamesOwner`, `QueueDrains` |
| `delegation` | 2 tasks, 4 runs, depth 2, total 2, 1 refusal, all faults | `DepthBounded`, `AllowanceSurvivesParking`, `TotalUnlessResumed`, `OneStack`, `ChainEnds` |
| `agent` | 1 leg, batches of 2, 3 steps, every cap at 1 to 3 | `RequestsAreWhole`, `OneAsk`, `NothingAfterAsking`, `LossIsMetOnce`, `EveryLegEnds` |
| `router` | 3 wires, 2 calls one at a time, 2 attempts, 2 tool calls of 2 fragments, 1 saved key | `ResultIsItsOwn`, `MovesDown`, `CallsReturn` |
| `rehearsal` | 1 plan of two steps, 2 executors, 2 undoers, 2 effects, all faults | `PlanRunsOnce`, `ExecutedIsLogged`, `TakenBackOnce` |
| `inbound` | 4 deliveries of 2 messages, 2 items, 2 bots, 2 requests, 1 edit, all faults | `OneTurnPerReply`, `OneRoomPerItem`, `AnsweredIsSettled` |
| `routine` | 2 executions of 2 steps, the first gated, 3 approvals, 2 attempts, 1 fault besides Temporal being away | `StepDoneOnce`, `NothingPastTheGate`, `EveryRunEnds` |
| `mirrors` | a desktop: 3 drivers, 2 requests, 6 calls, 2 faults; or a routine: 2 executions, 2 editors, 3 edits, 1 boot, 1 fault | `RunningIsServed`, `NothingLeftBehind`; `ScheduleFollowsRow`, `OverlapNeedsReplacement` |
| `browser` | a small page of two frames, 2 changes of it, 2 listings of which the sidecar keeps 1 | `OneInputPerStep`, `AimedAsJudged`, `OnlyOneOfItsKind` |

**Qualified properties.** Where the code leaves a window open, the property says
exactly which window, and the run contains it:
- `UndoubtedAnswersStand` leaves out an approval that two requests had in hand at once or
  whose commit was lost, and `ContinuedByItsOwnDecision` a run that has such an approval
  (`doubtful`). Everything else two requests do to each other is covered: a decision of
  one approval may cross a decision, an expiry or a deletion of the other.
- `PlanRunsOnce` counts the runs that stand. A second run may begin after one was lost or
  its mark written over by a late refusal; the runs it does not count are those begun on a
  reading that another request at the plan crossed (`late`).
- `ScheduleFollowsRow` holds at rest unless a sync failed or crossed another since the
  last edit that was alone, or boot that was alone with the routine enabled (`strayed`);
  that no crossing or failure turns the schedule back behind `since` holds always.
- `RunningIsServed` and `NothingLeftBehind` hold when nothing failed or crossed since the
  last start that worked alone (`muddled`), which repairs what was wrong.
- `OnlyOneOfItsKind` speaks of the frames that could be read (`look.missed` are the
  others), `AimedAsJudged` of references of this life of the sidecar (`life`).
- `OneRoomPerItem` leaves out items for which two wakes found no room at once (`raced`);
  `AnsweredIsSettled` counts as lost a wake that met a deleted row or a seat just taken.
- `StepDoneOnce` counts the blind repeats (`blind`), `TakenBackOnce` the successes that
  could not be stored (`slips`), `OverlapNeedsReplacement` names the replacement
  (`forgot`).

The history variables and fields in these clauses are set by the step that opens the
window and by nothing else.

**Bounds.** One run suffices for `RunLifecycle` because no action relates two
runs; two approvals are what it takes for a decision about one thing to meet a
run parked on another; two requests and two tasks are what it takes to race, and
a slot is reused, so a history has any number of requests and legs. Both are
bounded by the rows: a run that can be parked twice has seen every way of being
resumed. Effects are counted to two, the first number that is wrong. `settles` has one
request at a time, as liveness needs no race to be in danger, and approvals of no run.
One item suffices for `queue`, as a batch relates its items only by being abandoned as a
whole; the second ledger row is the first handover; `Edits` leaves out `waiting`,
which like `working` is neither picked up nor closed. `delegation` has two tasks,
since one can resume a run of the chain while the other still works, and one row
more than its total allows. One refusal keeps it small. The proofs of section 4
remove these bounds for the properties they cover.

`agent` gives every cap the least value at which below, at and above it differ. `router`
has one call at a time: calls share only the client, the refused efforts, the listing
and the keys, and the last change under a call through `Save`, `Delete`, `SaveElsewhere`
and `Reload` (two at a time exceed the time a run may take; the proofs have any number);
two tool calls of two fragments are the first that can be interleaved. `rehearsal` has a
second executor and undoer to race; two effects are a plan that stops in the middle. No
execution is requested once both effects have been made, since it could perform nothing;
a run whose second step is held makes one and leaves the other to a second run. `inbound`
has one message signed twice and one without an id delivered twice, and a poll of two
records. `routine` has a held step with
one after it; three approvals, since a repeated attempt files a second. In `mirrors` the
components share nothing and one of them is at work in a behaviour, so that the states
are the sum of theirs and not the product. The desktop has two calls to cross and four
more to repair; three edits are two that cross and one that repairs. In `browser` a
listing that is forgotten and one that is kept are two, and two events are a change and
a change back.

**Fairness.** `SweeperFairness`: time passes, and the sweep loop of some replica
(`main.py`, an endless loop that catches everything) keeps selecting; a selected
run is visited again and again even when passes fail in between, hence strong
fairness of `SweepReap`. `RequestFairness`: a request that has started proceeds
unless it dies. No fairness is assumed for a loop, a person or a model: a leg
may last for ever, and what ends it in `RunsSettle` is the reaper.
`DispatchFairness`: a replica keeps passing, and a woken bot's run ends, because
its steps and its time are bounded; the end of the run is strongly fair because
tools interrupt it. None is assumed for requests. `Delegation`: a task that drives
a run takes its next step, because model calls and desktop steps time out; which
step is the model's choice. `InboundLane`: a request that has begun goes on; the
specification has this fairness throughout, and deaths and failed turns are free.
`RoutineRun`: the worker's and the API's steps, and of the day's deadline, which
has a fairness of its own so that fruitless polls cannot keep it from passing;
nobody need decide. `AgentLoop`: the leg goes on, and a leg that comes to the
clock again and again finds `DESKTOP_MAX_SECONDS` over some time, because each
round takes time (garbled answers and refused closes are not counted as steps, so
only the clock ends a leg of them). `ModelRouter`: a call's next step, as the SDKs
time out. The other modules have no liveness property and no fairness.

`CHECK_DEADLOCK FALSE` in all runs but `browser`: rows are never reused, calls are
bounded and a leg ends, so a behaviour stops when an instance has used them up. A
page can always be read again, so `browser` checks for deadlock.

## 4. What is proved

For every value of the constants that the `ASSUME` of the module admits: any number
of runs, approvals, requests, tasks, items, bots, executions, routine steps and gates,
plans, effects, undoers, messages, poll batches and elements of a page, a finite set of
replicas, of deliveries and of elements, any caps (at least 1 where the code has 1 or
more), any subset of operations and faults. The assumptions say this, that the
sentinels (`None`, `Gone`, `NoPlan`, `NoBot`) differ from what they stand beside, and
nothing about the code (`Desktop` and `RoutineSchedule` have theirs, `None` and
`Nothing`, differ from every computer, row and schedule record too, which TLC's model
values do by themselves).

| Theorem | Says |
| --- | --- |
| `TypeCorrect` | `Spec => []TypeOK`: also that each slot names the rows its next step writes |
| `DriversExcludeEachOther` | `Spec => [](OneDriver /\ ParkedIsUndriven)`: also that nobody drives a run that waits |
| `ReaperSparesTheParked` | `Spec => NeverReapParked` |
| `FinishedIsFinal` | `Spec => FinishedStaysFinished` |
| `UndoubtedAnswersHold` | `Spec => UndoubtedAnswersStand`: an approval that was never in doubt implements `HeldAction` |
| `DecisionsContinueTheirOwn` | `Spec => ContinuedByItsOwnDecision` |
| `QueueTypeCorrect` | `Spec => []TypeOK` |
| `OwnershipIsRecorded` | `Spec => []LedgerNamesOwner` |
| `WakesAreAssigned` | `Spec => []OneWakePerAssignment` |
| `AssignmentsAreKept` | `Spec => OwnersAreAssigned`, that is `Spec => Assigned!Spec` |
| `DelegationTypeCorrect` | `Spec => []TypeOK` |
| `NobodyIsTooDeep` | `Spec => []DepthBounded` |
| `RunsAreDrivenOnce` | `Spec => []OneStack` |
| `AllowanceIsNotRefilled` | `Spec => []AllowanceSurvivesParking` |
| `UnresumedKeepsTheTotal` | `Spec => []TotalUnlessResumed` |
| `RoutineTypeCorrect` | `Spec => []TypeOK` |
| `GatesHold` | `Spec => []NothingPastTheGate` |
| `AttemptsAreCounted` | `Spec => []StepDoneOnce` |
| `RehearsalTypeCorrect` | `Spec => []TypeOK` |
| `PlanRunsOnceHolds` | `Spec => []PlanRunsOnce` |
| `ExecutedIsLoggedHolds` | `Spec => []ExecutedIsLogged` |
| `TakenBackOnceHolds` | `Spec => []TakenBackOnce` |
| `InboundTypeCorrect` | `Spec => []TypeOK` |
| `OneTurnPerReplyHolds` | `Spec => []OneTurnPerReply` |
| `OneRoomPerItemHolds` | `Spec => []OneRoomPerItem` |
| `AgentLoopTypeCorrect` | `Spec => []TypeOK` |
| `RequestsAreWholeHolds` | `Spec => []RequestsAreWhole` |
| `OneAskHolds` | `Spec => []OneAsk` |
| `NothingAfterAskingHolds` | `Spec => NothingAfterAsking` |
| `LossIsMetOnceHolds` | `Spec => []LossIsMetOnce` |
| `PageRefsTypeCorrect` | `Spec => []TypeOK` |
| `AimedAsJudgedHolds` | `Spec => AimedAsJudged` |
| `OnlyOneOfItsKindHolds` | `Spec => OnlyOneOfItsKind` |
| `OneInputPerStepHolds` | `Spec => []OneInputPerStep` |
| `DesktopTypes` | `DesktopSpec => []DesktopIInv` |
| `RunningDesktopsServe` | `DesktopSpec => []RunningIsServed` |
| `NothingIsLeft` | `DesktopSpec => []NothingLeftBehind` |
| `ScheduleTypes` | `ScheduleSpec => []ScheduleIInv` |
| `ScheduleIsTheRows` | `ScheduleSpec => []ScheduleFollowsRow` |
| `NoOverlapByItself` | `ScheduleSpec => []OverlapNeedsReplacement` |
| `RouterTypes` | `RouterSpec => []RouterIInv` |
| `AnswersAreTheirOwn` | `RouterSpec => []ResultIsItsOwn` |
| `CallsMoveDown` | `RouterSpec => []MovesDown` |

**One driver.** `OneDriver` is not inductive: a claim wins on
`awaiting_approval` or `awaiting_human`, and only `ParkedIsUndriven` says that
nobody drives a run in those states. `IInv == TypeOK /\ OneDriver /\
ParkedIsUndriven` is. It survives cancel, reap and `_fail_run` because none of
them moves a run *into* a waiting state, and a leg parks the run it alone drives
and ends. `NoNewDriver` states the common case. `WhoWritesStatus` lists the five
ways a status changes and from what; the two action properties follow from it.

**Answers.** `AnswerInv` says of every approval that was never in doubt that at most one
request has it in hand, that what this request saw when it looked still holds when it
writes (`Relies`: the approval it read is pending, the one it is performing is approved
and unperformed), and that it was performed once at most and only if the row says
approved. It is inductive for any number of requests: whoever takes up an approval that
another has in hand puts it in doubt for good (`TakesUp`, `DoubtsStay`), and a request
that works on another approval, a task, the reaper or a cancellation leaves this one alone
(`OthersOnlyFile`, `LettingGoKeepsAnswers`); a deletion takes up all the pending approvals
of its thread. The refinement follows: `NothingHeldAtFirst` maps the initial state, and
`StepMaps` every step, to a step of `HeldAction` or a stutter; filing is `Hold`
(`FilingHolds`), and a request's writes are an answer, an effect or both
(`RequestAnswers`). For approvals in doubt it is false, as `decisions_race` shows: it is
the measure of what a conditional update on `approvals.status` would buy.

**Own decisions.** Between looking at `runs.detail` and claiming, a request holds
nothing, so that the claim finds the run still parked on the approval it decided needs
an invariant, `ParkInv`. `Unspent(a)`: `a` is pending, or a decision of it is under way;
`ParkedOn`: a run parked on an unspent approval has no driver, so no leg can end and
park it elsewhere, and a run that waits for a person is parked on nothing; `DecisionOn`:
a verdict is recorded before the run is looked at, and a request about to claim a `Clear`
run, none of whose approvals was ever in doubt, will find it parked on the approval it
decided. A claim spends that approval, and `AnswerInv` knows that no second decision of
it is under way. Decisions of the run's other approvals, and everything asked of other
runs, may cross it in any order.

**Wakes.** `OneWakePerAssignment` needs an account: `WithinBudget` says that the
wakes given, plus the dispatchers that hold the item and will give one, plus one
if the row is unstamped, never exceed the assignments on record. A claim moves a
unit from the row to the dispatcher, a wake from the dispatcher to the count, a
handover adds a ledger row and at most one unit. That a stale copy cannot break
this rests on `Merge`: no copy's commit clears a stamp without adding a ledger
row (`HandOverOwes`, `TableOwes`). `IdleHoldsNothing` completes the invariant.

**Ledger.** Only `HandOver` and `CreateItem` change an owner to a bot, and both
append; a status edit from a stale copy leaves the owner column alone
(`StatusEdit`), which is what `MergeWholeRow` would break.

**Assignments.** That the queue implements `Assignment` follows step by step
(`QueueMaps`). A handover, from however stale a copy, writes owner and ledger in one
commit and so is `Assign` (`HandOverAssigns`); a deletion is `Lose`; every other write of
the row leaves the owner column alone and is not seen. A wake is `Tell`, which may happen
only while fewer were told than assigned: the loop that wakes still holds the item, and
`WithinBudget` counts it (`WakeTells`). `OneWakePerAssignment` says of states what
`Assignment` says of steps.

**Hand-offs.** The inductive invariant joins the five results with four facts.
`ParkedIsOff`: a parked run is on no stack, so its row's copy of the count is the
only one in force, and `Resume` cannot make a second driver. `RootAtBottom`: a
task working for a chain nobody has resumed has the chain's root at the bottom of
its stack, so by `OneStack` it holds the chain's only counter; this is what makes
one cell bound a whole tree of hand-offs, and what a resumption ends.
`CallersMayGoOn` bounds the refusals of waiting callers, `RootsNameThemselves`
ties a chain to its root. Only `StartTurn`, `Delegate` and `Resume` put a run on
a stack; all other actions are `Quiet` (no ancestry changes, stacks shrink, what
parks carries its task's count) and `QuietKeeps` settles them at once.

**Routines.** Each action is first shown to have one of few shapes (`StepShape`): an
execution begins, a row is decided, or one execution stays in its step, repeats it,
goes on to the next, gets an answer, or walks inline. The invariants are shown of
the shapes. `GateInv` says for each execution that every gate behind its step was
opened by a row of its own (`Passed`), that nothing has happened beyond its step
(`Untouched`), and that the row it polls is the row of its step (`InStep`), which is
why an approval of another step or execution never lets it pass. `AccountInv` adds
up, for each step, what was done, the pending rows whose approval would do it, and
one if the execution may still send it: never more than one and the blind repeats.
An answer moves a unit from the execution to the effect or to a row, a decision from
the row to the effect, and only `Repeats` gives the execution its unit back, for
which it pays with `blind`; a connection that was never made repeats an attempt that
still has its unit.

**Plans and undo.** Three invariants side by side. `Orderly`, for each plan: at most one
run of it stands, and only while the plan is marked or a run that has started will still
mark it; a request that read the plan alone (`ReadAlone`) finds none standing, and there
is one such request at most. A mark that is written over and a run that is lost set the
count to 0, so nothing has to be excused. `Accounted` and `Real`: an execution's effects
are its own and, until it is doomed, in the log; one about to mark has committed them;
what the log says took place. `Balanced`, for an entry: one request holds its row and
only while it does not say undone, and the times it was taken back are the slips, plus
one if it says undone or a success of the holder is still to be stored.

**Inbound.** Every step of a task has one of a few shapes for the turns (it works
without waking, runs a turn, or records a delivery) and one for the rooms (aside, finds,
enters, opens, speaks), and the invariants are shown of the shapes. Turns are an account:
a delivery stands at most once in all the lists of wakes (`Listed`), so it is `Spent` at
most once, and the turns of a message never exceed its spent deliveries; the unique
indexes allow a named message one. Rooms: an item whose wakes never raced has one room
that stands, the one its row names (`Housed`), and a task about to post has its bot
seated there unless the room was deleted (`Seated`).

**Agent loop.** `Owed` says what is not answered: within a native batch, as many replies
as calls are left, and nothing anywhere else; each kind of call either answers itself
and stays, or answers the rest and leaves (`Answered`). `Asked` says that a leg that
can reach the model again has asked for nothing, that within a batch a call that asked
was its last (`batch.terminal`), and that the status written is what was asked. `Lane`
ties the loss of the browser to what is on offer: the first tool of the page that was
offered and found the lane absent empties `offered` and the lane counts as absent for
the rest of the leg, which offers no such tool again, however often the lane seems to come
back; so only calls of the answer in hand, already counted, can meet the loss again.

**Browser.** `Known`: references count up within a life of the sidecar, so a label that
some listing of this life gave a reference is the only one the sidecar can take it for
(`Kept`), and the loop's memory and the step in hand hold such pairs, or pairs of an
earlier life. `Sees`: a second look that found its label holds elements of that label
only, and all of them in the frames it could read unless it says it was cut short. A
step that goes on has put in nothing (`OneInput`).

**Desktops.** `muddled` says that a call met another or a fault since the last start that
worked alone; while it is false, `OneAtWork` holds: at most one call is in flight, what it
read of the row is what the row still says (so the flush that writes only the columns it
changed, `Written`, writes the row it means: `WrittenIs`), and `Along` says for each of
its places how far the driver has brought the computer. When nobody is at work the row
and the computer agree (`Resting`): they are both gone, or `Awake`, or `Asleep`. Of every
driver's step it is then enough to show that the call is where it says (`AloneStill`): the
teardown and the pause find the computer because the handle that was read is its
(`FindsIt`), a resumption finds it asleep (`WakesIt`), and a name that is taken or a group
that is lost means that the call was not alone (`TakenOK`, `LostOK`). What fails or dies
muddles, and of it only the types are left to show. A start that comes alone asks nothing
of what it finds, which is why it repairs everything.

**Schedule.** The same shape: while nothing has strayed, `Orderly` says that one edit or
the boot is at work, that the copy it will write is the row, and that between delete and
create there is no schedule; at rest the schedule follows the row. It needs no order of
the edits: whoever works alone and comes to the end leaves the schedule of the row it
read. For the rest of the time every copy in flight, the row and the schedule are at
least of version `since`: versions only grow, and `since` is set only when all is at
rest and in line, when no older copy is left to be written. `Remembered` is apart from
this and survives crossings: while no schedule was taken away under a running execution,
what runs is what the schedule started last, so that the policy which skips an
overlapping start can see it. The boot's upsert keeps what was started last and a delete
with nothing running loses nothing; with `UpsertAnew`, which makes the schedule anew, it
is no longer inductive.

**Model router.** `Turned` follows one call. `Routed`: the models asked are the beginning
of one of two ways down, by whether a second deployment is set, a pinned call asks its
pin only and a streamed one asks once; the model in hand is the last asked. `Priced`: the
tier a call is booked on may cost what that model does. `Folding`: on each wire each slot
of the buffer holds exactly the fragments sent so far of its call, and the slot that is
no call's is empty, whether or not prose precedes the calls and however the fragments of
two calls interleave; a finished stream has sent all, so what is put together is what was
said. Calls share the client, the refused efforts and the listing, and the invariant says
nothing of them but their types: no call's answer depends on another's.

Only model-checked: `RunsSettle`, `QueueDrains`, `ChainEnds`, `AnsweredIsSettled`,
`EveryRunEnds`, `EveryLegEnds`, `CallsReturn` (liveness under fairness is outside
the prover's reach). Nothing is proved about what a
recursive definition computes, and the modules declare none. The modules under proof do
not nest the `@` of one `EXCEPT` in another's (the prover expands the inner one against
the wrong record); a small operator such as `Again` of `ModelRouter` takes its place.

## 5. What the models show about the code

The places where a property had to be qualified, or where the code reads differently from
what a doc or a comment says of it. `decisions_race` shows the first as a counterexample;
the others are inside the passing runs, whose properties name the window, and the ones
that contradict a sentence of the repository are "findings" in `PROJECT.json`.

**Approvals and runs.** Two decisions of one approval can both pass the unlocked
status check and both perform the action (`routers/approvals.py:311`,
`deps.py:230`; `docs/API.md:178` promises 409 for a non-pending approval), or one perform
it and the other record a rejection (`decisions_race`). The
later of the two can also continue the run from another hold: it finds the run still
parked on the approval, whose leg, continued by the earlier decision, then parks on a new
one, and its claim tests the status only (`_continue_run` says never to continue a run
on the strength of a decision about something else). With the
same cause, an expiry or a thread deletion overwrites a decision made after it
looked (`routers/threads.py:411`), and a lost commit leaves a performed action
recorded as pending (`db.py:82-91`). An approval can be decided between its filing
and the parking of its run (`approvals.py:65-67`, `orchestrator.py:5742`); the run
then waits for a decision that has been made. A hold of a plain chat reply parks a
run that nothing continues either. Cancelling a run does not stop its loop, whose
last write overwrites the cancellation (`orchestrator.py:3277-3290`, 3461), nor does
it touch the pending approval. The reaper takes the age of a row for a death
(`reaper.py:15-17`), and nothing refreshes `updated_at` during a leg.

**Work items.** A transfer read before the dispatcher's claim and committed after
it changes the owner and, column by column, nothing else: the stamp made for the
old owner stays (`work_dispatch.py:285-293`), and the new owner is not woken.
`dispatch_run_id` is written when the run is over (`work_dispatch.py:235`), so an
item whose process died names no run; concurrent transfers write a ledger row whose
`from` is not the row's last owner (`work_items.py:253-264`); an owner is woken from
the batch's copy although the item has moved on (`work_dispatch.py:186`); a
transfer racing a close re-opens the item; a failing turn or a deleted item abandons
the rest of its batch as claimed; a PATCH that re-opens an item does not mark it.

**Delegation.** A run that parks carries the chain's count at that moment, and the
task that resumes it counts on from there (`orchestrator.py:1228`, 1070), so a chain
with two parked runs can spend what was left twice. An exception in a delegated run
leaves its row `running` until the reaper comes, and the caller is told that nothing
happened, although steps may have run.

**Agent loop.** After the row of a turn is committed as finished or parked, a failed
`_save_ledger` expires the session's rows, and the error that follows makes `_fail_run`
overwrite it with `failed`. A fallback model whose step failed is asked again without
being told. `browser_fallbacks` is counted per call (`orchestrator.py:5399`), so that
one answer with enough browser calls ends a leg whose model could not yet know of the
loss, though the comment at 901-907 says the limit bounds only a model that will not
take the fallback. Answers that cannot be parsed and refused closes do not count as
steps. A batch may run past the step cap. Nothing clears `filed_for`. `stop` on a cold
machine boots it first. A retry in `_turn` is not pruned. A click that navigates keeps
the remembered references.

**Routines.** `POST /routines/{id}/run` also runs inline when a start that was heard
answered with an error. A workflow goes on after `ok: false` where the inline walk
halts. A deadline that passes leaves its approval pending, and approving it later
performs the step; an API that cannot be reached during a poll fails the routine in
the same way. A disabled routine's schedule is deleted
(`routers/routines.py:221`), though `temporal_client.py:83` says it is kept paused, and
re-creating a schedule forgets what Temporal had running. A deletion of a schedule that
fails is swallowed, and it outlives its routine (`temporal_client.py:142-149`). Two
crossing edits, or a boot crossing one, leave the schedule with the older copy.

**Plans and undo.** `execute_plan` tests for `executed` at its start and records it at
its end, so two requests that cross both run the plan; and a refusal that comes after
another request's `executed` writes `stale` over it (`simulation.py:1347`), so the plan
can be run again, though `docs/API.md:452` promises 409 `already_executed`. Undo holds
its row lock across the compensating call.

**Inbound.** A turn that fails rolls back the session that still holds the event;
touching it raises out of a function that "never raises" (`inbound.py:882`, 981), and
the rest of a poll's batch is answered with it. Nothing retries a wake. Two wakes that
seat one bot in one room at once collide on the primary key of `thread_bots`
(`inbound.py:849`): the later raises in the same way, without any fault.

**Desktops.** Suspending an absent desktop and resuming it ends in `running` with no
computer. Two docker starts that cross leave a dead handle. Drivers swallow the
failures of pause, stop and delete. A k8s service that cannot be created leaves a
pod no row names, and a start deletes and creates the pod at once although its name
stays taken while it terminates.

**Browser.** After the sidecar's restart numbers start anew, and an old labelled
reference can name another element than the one judged. After a hold the resumed leg
remembers no listing, so an old reference that is still alive is clicked without a
label. A frame whose collection raised is skipped and not counted
(`sidecar/browser.py:943`), so `truncated` is false of a listing that lacks it and a
label can be taken for unique that is not, though the comment at 959-962 rests the
second look on that flag. On a reconnect the old reader fails the new connection's
pending calls (`browser.py:277-300`).

**Model router.** The openai and azure clients are cached by endpoint
(`model_router.py:2328`), so a key saved in the app is not used before a restart,
although `provider_credentials.py:136` promises it at once or within its interval. A
save commits before `_overrides` changes, so one that crosses a save elsewhere and a
reload can be overwritten by the older key. Retries and the fallback recognise the
exceptions of the openai SDK only. An error other than throttling on the second
deployment ends the call though the lower tier would answer. `record_cost`'s rollback
expires the turn's rows, though it says the turn continues. The `name` of a google
function response is empty.

**Elsewhere.** A stream ticket redeemed locally while Redis was away can be redeemed
again (`desktop.py:2235-2241`). After a blip of Redis a local subscriber gets nothing
once the publisher is back. Revoking a standing permission leaves the approvals it
was learnt from, so the next one teaches it again.

## 6. What is not modelled

Of the modelled components:
- `RunLifecycle`: the deletion of a bot with its runs and approvals (`WorkQueue` has
  it), since it removes rows rather than writing them; what is said in threads. It
  also leaves out the failure after the ledger of section 5, which `AgentLoop` has:
  `FinishedStaysFinished` is about rows no task is still closing.
- `WorkQueue`: external keys and resolutions. `Delegation`: who may be named, seating,
  budgets.
- `Rehearsal`: preflight findings and summaries. `InboundLane`: signatures, the rate
  window, the fencing of what senders write.
- `RoutineRun`: `AgentTurnWorkflow`, which nothing starts, and the status callback,
  which no start enables. `RoutineSchedule`: the sweep of orphans, off by default.
- `Desktop`: the `aks` placeholder mode, screenshots, stream tickets. `PageRefs`: the
  CDP connection, more than one tab, the differences between the ops.
- `ModelRouter`: what the ledger adds up to; `last_result`, which is safe because no
  await lies between its write and its read.

Of the rest: standing approvals are unlocked reads and writes that promise nothing
beyond what a permission is in `Rehearsal`, a fact that may cover a step or not. The
event bus is best-effort by design. Code that is data (prompting, knowledge retrieval,
pricing tables, risk words), pure I/O (connectors, MCP, the input primitives of the
sidecar, push notifications), boot-time set-up (schema, seed, configuration), access
checks (every modelled request is one its caller may make), the clients, the shared
packages and the bot definitions are left out for good. `PROJECT.json` gives the
reason for each.

## 7. Plan

Done: all modules of section 2 and the proofs of all their safety properties, `HeldAction`
implemented by `RunLifecycle` and `Assignment` by `WorkQueue`. Left, in
this order:

1. The composition of `Delegation` with `RunLifecycle` (a stack whose middle run is
   decided on, cancelled or reaped), as a refinement: the rows of `Delegation` behave
   like the runs of `RunLifecycle`.
2. The CDP connection of `browser.py` (pending calls over a reconnect) and the stream
   tickets of `desktop.py`.
