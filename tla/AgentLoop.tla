------------------------------- MODULE AgentLoop -------------------------------
(***************************************************************************)
(* One leg of a bot's turn: who is seated and who answers, the opening     *)
(* request to the model, its second chance, the act-look-decide loop with  *)
(* every way out of it, and how the turn is settled. The model answers     *)
(* with any calls in any order; each is revealed when the loop comes to    *)
(* it. A call is abstracted to its kind and to how the machine answered;   *)
(* the conversation to what a request may be rejected or misread for.      *)
(***************************************************************************)
EXTENDS Naturals

CONSTANTS
    MaxBatch,       \* bound: calls in one answer of the model
    MaxSteps,       \* DESKTOP_MAX_STEPS
    MaxIdle,        \* DESKTOP_MAX_IDLE_OBSERVATIONS
    MaxLooks,       \* DESKTOP_MAX_LOOKS_WITHOUT_ACTING
    MaxUnchanged,   \* DESKTOP_MAX_UNCHANGED_SCREENS
    MaxFailures,    \* AGENT_MAX_CONSECUTIVE_FAILURES
    MaxFallbacks,   \* AGENT_MAX_BROWSER_FALLBACKS
    MaxQueries,     \* AGENT_MAX_QUERY_NUDGES
    MaxCloses,      \* AGENT_MAX_CLOSE_NUDGES
    MaxRefusals,    \* DELEGATION_MAX_REFUSALS
    KeepFrames      \* AGENT_SCREENSHOT_HISTORY

ASSUME AgentLoopAssumption ==
    {MaxBatch, MaxSteps, MaxIdle, MaxLooks, MaxUnchanged, MaxFailures, MaxFallbacks,
     MaxQueries, MaxCloses, MaxRefusals, KeepFrames} \subseteq Nat \ {0}

VARIABLES
    pc,       \* where the leg is
    model,    \* what the model and the thread allow
    loop,     \* the locals of the loop
    batch,    \* the calls being worked off
    convo,    \* the conversation, as far as a request depends on it
    session   \* AgentSession: what the leg accumulates

vars == <<pc, model, loop, batch, convo, session>>

------------------------------------------------------------------------------
(* The vocabulary                                                          *)

Pixel == {"start", "stop", "look", "act"}          \* the screen and the machine
Dom   == {"snapshot", "read", "go", "press"}       \* the page in the browser
Looks == {"look", "snapshot", "read"}              \* reads that change nothing
Gateable == {"start", "stop", "act", "go", "press"}
Queries  == {"act", "go", "press"}                 \* carry a search query

\* What select_tools puts on the next request.
PixelEssentials == {"look", "act"}
DomEntry        == {"snapshot", "read", "go", "press"}
\* Mutant: the lane is taken for lost while the count of its failures says so.
AdvertisedByCount ==
    {"complete", "takeover", "start", "file"}
    \cup (IF model.hops THEN {"delegate"} ELSE {})
    \cup (IF ~loop.booted THEN {}
          ELSE (IF loop.fallbacks > 0 THEN {} ELSE DomEntry) \cup PixelEssentials)

Advertised ==
    {"complete", "takeover", "start", "file"}
    \cup (IF model.hops THEN {"delegate"} ELSE {})
    \cup (IF ~loop.booted THEN {}
          ELSE (IF loop.absent THEN {} ELSE DomEntry)
               \cup (IF loop.absent \/ ~session.refs THEN {} ELSE {"tabs"})
               \cup PixelEssentials
               \cup (IF session.refs /\ ~loop.absent THEN {} ELSE {"drag", "stop"}))

\* What a leg has done so far. work: its own, filed for a teammate who has not been told,
\* or handed over. History: met, the answers in which a tool that was offered found the browser
\* lane absent; offered, the page's tools that were (any in the opening), until then.
NewLoop(booted) ==
    [step |-> 0, idle |-> 0, looks |-> 0, last |-> "none", unchanged |-> 0, framed |-> FALSE,
     failures |-> 0, fallbacks |-> 0, queries |-> 0, closes |-> 0, refusals |-> 0,
     work |-> "own", absent |-> FALSE, booted |-> booted,
     offered |-> Dom, met |-> 0]

Init ==
    /\ pc \in {"message", "reopening"}
    /\ model \in [tools : BOOLEAN, hops : BOOLEAN, tagged : BOOLEAN]
    /\ pc = "message" => ~model.tagged
    /\ \E booted \in BOOLEAN : loop = NewLoop(booted)
    /\ batch = [left |-> 0, native |-> FALSE, terminal |-> FALSE, must |-> FALSE,
                screen |-> "none"]
    /\ convo = [owed |-> 0, frames |-> 0]
    /\ session = [outcome |-> "completed", asks |-> 0, takeover |-> FALSE, steps |-> FALSE,
                  refs |-> FALSE, ran |-> FALSE,
                  status |-> IF pc = "message" THEN "none" ELSE "running"]

------------------------------------------------------------------------------
(* What the steps below are made of                                        *)

Least(a, b) == IF a < b THEN a ELSE b

\* A native call gets its reply.
Replied == IF batch.native THEN [convo EXCEPT !.owed = @ - 1] ELSE convo

NextCall    == [batch EXCEPT !.left = @ - 1, !.must = FALSE]
LastCall    == [NextCall EXCEPT !.terminal = TRUE]
Outdated(b) == [b EXCEPT !.screen = IF @ = "now" THEN "before" ELSE @]

\* The loop comes to a call that may still run.
Reaches == pc = "batch" /\ batch.left > 0 /\ ~batch.terminal

\* A step may need the machine brought up first.
Up(kind) == [loop EXCEPT !.step = @ + 1, !.booted = @ \/ kind # "start"]
Did      == [session EXCEPT !.steps = TRUE]

------------------------------------------------------------------------------
(* A person's message                                                      *)

\* Teammates its text names are seated for good, if the person may see them; with the
\* ones the app says it is addressed to they count as tagged. The opening offers the
\* room to hand work to, the loop the person's team, of which model.hops speaks.
Seat ==
    /\ pc = "message"
    /\ \E room \in BOOLEAN, named \in {FALSE, model.hops} :
       \E addressed \in {FALSE, room \/ named} :
          model' = [model EXCEPT !.tagged = named \/ addressed]
    /\ pc' = "routing"
    /\ UNCHANGED <<loop, batch, convo, session>>

\* Who answers is settled by keywords, or by asking a model, which may fail.
Route ==
    /\ pc = "routing"
    /\ pc' \in {"starting", "ended"}
    /\ UNCHANGED <<model, loop, batch, convo, session>>

\* A bot over its daily budget says so, and there is no run.
Start ==
    /\ pc = "starting"
    /\ \/ pc' = "ended" /\ UNCHANGED session
       \/ pc' = "gathering" /\ session' = [session EXCEPT !.status = "running"]
    /\ UNCHANGED <<model, loop, batch, convo>>

\* Reads for context nobody asked for: one that would need a yes is left out.
Gather ==
    /\ pc = "gathering"
    /\ pc' = "opening"
    /\ UNCHANGED <<model, loop, batch, convo, session>>

------------------------------------------------------------------------------
(* Asking the model                                                        *)

\* prune_screenshots: the newest frames survive. (compact_conversation shortens
\* old results, and leaves every call and every reply where it is.)
Shrunken(c) == [c EXCEPT !.frames = Least(@, KeepFrames)]

\* The model answers with calls: native ones, or one spelled out in prose.
Takes(asked, must) ==
    \E native \in BOOLEAN, n \in 1 .. MaxBatch :
        /\ native => model.tools
        /\ ~native => n = 1
        /\ batch' = [left |-> n, native |-> native, terminal |-> FALSE, must |-> must,
                     screen |-> "none"]
        /\ convo' = [asked EXCEPT !.owed = IF native THEN n ELSE 0]
        /\ session' = [session EXCEPT !.ran = TRUE]
        /\ pc' = "batch"

\* The opening answer of a turn. Calls that do more than close enter the loop; prose
\* or a close that announces a step gets a second chance; anything else answers.
Opening ==
    /\ pc = "opening"
    /\ \/ Takes(convo, TRUE)
       \/ /\ pc' \in {"answer"} \cup (IF model.tools THEN {"second"} ELSE {})
          /\ UNCHANGED <<batch, convo, session>>
    /\ UNCHANGED <<model, loop>>

SecondChance ==
    /\ pc = "second"
    /\ \/ Takes(convo, TRUE)
       \/ pc' = "answer" /\ UNCHANGED <<batch, convo, session>>
    /\ UNCHANGED <<model, loop>>

\* A resumed leg does not start a machine that is gone, and stops unless the model acts.
Reopening ==
    /\ pc = "reopening"
    /\ \/ /\ loop.booted
          /\ \E frames \in {0, 1} : Takes([convo EXCEPT !.frames = frames], FALSE)
       \/ /\ pc' = "settle"
          /\ session' = [session EXCEPT !.outcome =
                IF ~loop.booted THEN "desktop_unavailable"
                ELSE IF model.tools THEN "refused" ELSE "completed"]
          /\ UNCHANGED <<batch, convo>>
    /\ UNCHANGED <<model, loop>>

\* The answer in the loop; prose alone is asked again once, if the model has tools.
Answer ==
    /\ pc = "asked"
    /\ \/ Takes(convo, FALSE)
       \/ /\ model.tools
          /\ pc' = "asked again"
          /\ convo' = Shrunken(convo)
          /\ UNCHANGED <<batch, session>>
       \/ /\ ~model.tools
          /\ pc' = "closing"
          /\ UNCHANGED <<batch, convo, session>>
    /\ UNCHANGED <<model, loop>>

AnswerAgain ==
    /\ pc = "asked again"
    /\ \/ Takes(convo, FALSE)
       \/ /\ pc' = "closing"
          /\ session' = [session EXCEPT !.outcome = "refused"]
          /\ UNCHANGED <<batch, convo>>
    /\ UNCHANGED <<model, loop>>

\* A request that fails fails the turn.
ModelFails ==
    /\ pc \in {"gathering", "opening", "second", "reopening", "asked", "asked again"}
    /\ pc' = "ended"
    /\ session' = [session EXCEPT !.status = "failed"]
    /\ UNCHANGED <<model, loop, batch, convo>>

------------------------------------------------------------------------------
(* Calls that end the leg, or hand work to others                          *)

\* Mutant: calls after a terminal one are dropped without a word.
SkipSilently ==
    /\ pc = "batch" /\ batch.left > 0 /\ batch.terminal
    /\ batch' = NextCall
    /\ UNCHANGED <<pc, model, loop, convo, session>>

\* Calls after a terminal one are answered and not run.
Skip ==
    /\ pc = "batch" /\ batch.left > 0 /\ batch.terminal
    /\ batch' = NextCall
    /\ convo' = Replied
    /\ UNCHANGED <<pc, model, loop, session>>

Garbled ==
    /\ Reaches /\ batch.native
    /\ batch' = NextCall
    /\ convo' = Replied
    /\ UNCHANGED <<pc, model, loop, session>>

\* task_complete. A leg that filed work for others, or did work others were asked for,
\* and woke none of them is told so instead of closed, a bounded number of times.
Complete ==
    /\ Reaches
    /\ batch.must => batch.left > 1
    /\ convo' = Replied
    /\ LET owed == loop.work = "filed" \/ (model.tagged /\ session.steps) IN
       IF owed /\ loop.work # "handed" /\ model.hops /\ loop.closes < MaxCloses
       THEN /\ loop' = [loop EXCEPT !.closes = @ + 1]
            /\ batch' = [NextCall EXCEPT !.must = batch.must]
            /\ UNCHANGED session
       ELSE /\ batch' = LastCall
            /\ session' = [session EXCEPT !.outcome = "completed"]
            /\ UNCHANGED loop
    /\ UNCHANGED <<pc, model>>

Takeover ==
    /\ Reaches
    /\ batch' = LastCall
    /\ convo' = Replied
    /\ session' = [session EXCEPT !.takeover = TRUE, !.outcome = "awaiting_human"]
    /\ UNCHANGED <<pc, model, loop>>

\* A hand-off is a step whether it was accepted or not; accepted, it may spend the last hop.
Delegate ==
    /\ Reaches
    /\ convo' = Replied
    /\ \/ /\ model.hops
          /\ loop' = [loop EXCEPT !.step = @ + 1, !.work = "handed", !.refusals = 0]
          /\ model' \in {model, [model EXCEPT !.hops = FALSE]}
          /\ batch' = NextCall
          /\ UNCHANGED session
       \/ LET n == loop.refusals + 1 IN
          /\ loop' = [loop EXCEPT !.step = @ + 1, !.work = "handed", !.refusals = n]
          /\ batch' = IF n >= MaxRefusals THEN LastCall ELSE NextCall
          /\ session' = IF n >= MaxRefusals
                        THEN [session EXCEPT !.outcome = "delegation_refused"] ELSE session
          /\ UNCHANGED model
    /\ UNCHANGED pc

\* A work-item tool: a record that may name a teammate, who is told nothing.
File ==
    /\ Reaches
    /\ batch' = NextCall
    /\ convo' = Replied
    /\ \E named \in {FALSE, model.hops} :
          loop' = [loop EXCEPT !.step = @ + 1, !.work = IF @ = "own" /\ named THEN "filed" ELSE @]
    /\ UNCHANGED <<pc, model, session>>

Unknown ==
    /\ Reaches
    /\ batch' = LastCall
    /\ convo' = Replied
    /\ session' = [session EXCEPT !.outcome = "unknown_tool"]
    /\ UNCHANGED <<pc, model, loop>>

\* A query that states a judgement is refused before it counts as a step.
QueryRefused(kind) ==
    /\ Reaches /\ kind \in Queries /\ loop.queries < MaxQueries
    /\ batch' = NextCall
    /\ convo' = Replied
    /\ loop' = [loop EXCEPT !.queries = @ + 1]
    /\ UNCHANGED <<pc, model, session>>

------------------------------------------------------------------------------
(* Steps on the machine                                                    *)

BootFails(kind) ==
    /\ Reaches /\ kind # "start" /\ ~loop.booted
    /\ batch' = LastCall
    /\ convo' = Replied
    /\ loop' = [loop EXCEPT !.step = @ + 1]
    /\ session' = [Did EXCEPT !.outcome = "desktop_unavailable"]
    /\ UNCHANGED <<pc, model>>

\* Mutant: the batch goes on after a step was held.
HeldGoesOn(kind) ==
    /\ Reaches /\ kind \in Gateable
    /\ batch' = NextCall
    /\ convo' = Replied
    /\ loop' = Up(kind)
    /\ session' = [Did EXCEPT !.asks = @ + 1, !.outcome = "awaiting_approval"]
    /\ UNCHANGED <<pc, model>>

\* A step that needs a person's yes is held, and ends the leg.
Held(kind) ==
    /\ Reaches /\ kind \in Gateable
    /\ batch' = LastCall
    /\ convo' = Replied
    /\ loop' = Up(kind)
    /\ session' = [Did EXCEPT !.asks = @ + 1, !.outcome = "awaiting_approval"]
    /\ UNCHANGED <<pc, model>>

Fails(kind) == LET n == loop.failures + 1 IN
    /\ Reaches
    /\ convo' = Replied
    /\ loop' = [Up(kind) EXCEPT !.failures = n, !.booted = kind \notin {"start", "stop"}]
    /\ batch' = Outdated(IF n >= MaxFailures THEN LastCall ELSE NextCall)
    /\ session' = IF n >= MaxFailures THEN [Did EXCEPT !.outcome = "failed"] ELSE Did
    /\ UNCHANGED <<pc, model>>

Stops ==
    /\ Reaches
    /\ convo' = Replied
    /\ loop' = [Up("stop") EXCEPT !.failures = 0, !.booted = FALSE]
    /\ batch' = Outdated(NextCall)
    /\ session' = Did
    /\ UNCHANGED <<pc, model>>

\* Idling is the same answer to the same kind of look twice; looking at all is bounded too.
Watched(l, kind, lane, seen, same) ==
    IF kind \in Looks
    THEN [l EXCEPT !.idle = IF seen /\ same /\ l.last = lane THEN @ + 1 ELSE 1,
                   !.last = IF seen THEN lane ELSE "none",
                   !.looks = @ + 1]
    ELSE [l EXCEPT !.idle = 0, !.last = "none", !.looks = 0]

Verdict(l) ==
    IF l.unchanged >= MaxUnchanged THEN "stuck"
    ELSE IF l.idle >= MaxIdle \/ l.looks >= MaxLooks THEN "idle" ELSE "go on"

\* The loop l has photographed the screen after a step, or has tried to.
Photographed(kind, l, seen, same) ==
    LET watched == Watched(l, kind, "screen", seen, same)
        l2 == [watched EXCEPT
                 !.unchanged = IF kind \in Looks THEN @
                               ELSE IF seen /\ same /\ l.framed THEN @ + 1 ELSE 0,
                 !.framed = seen]
        b == [NextCall EXCEPT !.screen = IF seen THEN "now" ELSE "blank"]
    IN  /\ loop' = l2
        /\ IF Verdict(l2) = "go on"
           THEN batch' = b /\ session' = Did
           ELSE /\ batch' = [b EXCEPT !.terminal = TRUE]
                /\ session' = [Did EXCEPT !.outcome = Verdict(l2)]

PixelStep(kind) ==
    /\ Reaches
    /\ convo' = Replied
    /\ \E seen, same \in BOOLEAN :
          Photographed(kind, [Up(kind) EXCEPT !.booted = TRUE, !.failures = 0], seen, same)
    /\ UNCHANGED <<pc, model>>

Meets(kind, l) ==
    IF kind \in l.offered THEN [l EXCEPT !.met = @ + 1, !.offered = {}] ELSE l

\* The browser lane is not there: the step becomes a look at the screen, and the
\* browser tools are withheld from then on.
Degrades(kind) == LET n == loop.fallbacks + 1 IN
    /\ Reaches
    /\ convo' = Replied
    /\ LET l == [Meets(kind, Up(kind)) EXCEPT !.fallbacks = n, !.absent = TRUE] IN
       IF n >= MaxFallbacks
       THEN /\ loop' = l
            /\ batch' = Outdated(LastCall)
            /\ session' = [Did EXCEPT !.outcome = "failed"]
       ELSE \E seen, same \in BOOLEAN : Photographed("act", l, seen, same)
    /\ UNCHANGED <<pc, model>>

\* A step in the page is observed through the page. A snapshot gives references, or
\* finds nothing to refer to; a navigation voids them. A photograph from earlier in
\* the batch stays where it was.
DomStep(kind) ==
    /\ Reaches
    /\ convo' = Replied
    /\ \E same, found \in BOOLEAN :
       LET l == Watched([Up(kind) EXCEPT !.failures = 0, !.fallbacks = 0],
                        kind, "dom", TRUE, same)
           s == [Did EXCEPT !.refs = IF kind = "snapshot" THEN found
                                     ELSE @ /\ kind # "go"]
           over == l.idle >= MaxIdle \/ l.looks >= MaxLooks
       IN /\ loop' = l
          /\ batch' = [Outdated(NextCall) EXCEPT !.terminal = over]
          /\ session' = IF over THEN [s EXCEPT !.outcome = "idle"] ELSE s
    /\ UNCHANGED <<pc, model>>

------------------------------------------------------------------------------
(* Between batches, and after the last                                     *)

BatchDone == pc = "batch" /\ batch.left = 0

\* What the model has to look at, appended before the conversation is shrunk.
Observed == [convo EXCEPT !.frames = @ + (IF batch.screen \in {"now", "before"} THEN 1 ELSE 0)]

RunsOut(outcome) ==
    /\ pc' = "closing"
    /\ session' = [session EXCEPT !.outcome = outcome]
    /\ UNCHANGED <<loop, convo>>

\* The next request, with the tools recomputed.
Asks(conversation) ==
    /\ pc' = "asked"
    /\ convo' = conversation
    /\ loop' = [loop EXCEPT !.offered = Advertised \cap Dom]
    /\ UNCHANGED session

\* Mutant: only the step cap is looked at between batches.
BoundsByStepsOnly ==
    /\ BatchDone
    /\ IF batch.terminal THEN pc' = "closing" /\ UNCHANGED <<loop, convo, session>>
       ELSE IF loop.step >= MaxSteps THEN RunsOut("step_cap")
       ELSE Asks(Shrunken(Observed))
    /\ UNCHANGED <<model, batch>>

\* The limits are checked before another request is paid for.
Bounds ==
    /\ BatchDone
    /\ IF batch.terminal THEN pc' = "closing" /\ UNCHANGED <<loop, convo, session>>
       ELSE IF loop.step >= MaxSteps THEN RunsOut("step_cap")
       ELSE \/ \E outcome \in {"timeout", "budget"} : RunsOut(outcome)
            \/ Asks(Shrunken(Observed))
    /\ UNCHANGED <<model, batch>>

\* A leg that ran out of road asks for a summary, which changes what it says and nothing
\* else, also when it fails. A takeover is stored with the run.
Close ==
    /\ pc = "closing"
    /\ session' = IF session.takeover THEN [session EXCEPT !.status = "awaiting_human"]
                  ELSE session
    /\ pc' \in {"draft", "settle"}  \* a turn's, a resumed leg's
    /\ loop' = NewLoop(loop.booted)
    /\ UNCHANGED <<model, batch, convo>>

\* An answer may carry a connector's action: held, run, or neither.
Intent ==
    /\ pc = "answer"
    /\ \/ pc' = "draft" /\ UNCHANGED session
       \/ pc' = "settle" /\ UNCHANGED session
       \/ pc' = "settle" /\ session' = [session EXCEPT !.asks = @ + 1]
    /\ UNCHANGED <<model, loop, batch, convo>>

\* Mutant: what the leg asked for itself is not looked at.
DraftAlways ==
    /\ pc = "draft"
    /\ \E asks \in {0, 1} : session' = [session EXCEPT !.asks = @ + asks]
    /\ pc' = "settle"
    /\ UNCHANGED <<model, loop, batch, convo>>

\* A draft the person wanted sent is held, unless the loop has asked for itself.
Draft ==
    /\ pc = "draft"
    /\ \E asks \in {0} \cup (IF session.asks = 0 /\ ~session.ran THEN {1} ELSE {}) :
          session' = [session EXCEPT !.asks = @ + asks]
    /\ pc' = "settle"
    /\ UNCHANGED <<model, loop, batch, convo>>

\* The run's row is written with the reply, at the end of a turn or of a resumed leg.
Settle ==
    /\ pc = "settle"
    /\ pc' = "settled"
    /\ session' = [session EXCEPT !.status =
          IF session.asks > 0 THEN "awaiting_approval"
          ELSE IF session.takeover THEN "awaiting_human" ELSE "completed"]
    /\ UNCHANGED <<model, loop, batch, convo>>

\* What is noted for later turns. It may be lost; but the rollback then leaves a session
\* whose rows cannot be read, so that a turn fails over it.
SaveLedger ==
    /\ pc = "settled"
    /\ pc' = "ended"
    /\ \/ UNCHANGED session
       \/ session' = [session EXCEPT !.status = "failed"]
    /\ UNCHANGED <<model, loop, batch, convo>>

------------------------------------------------------------------------------
Call ==
    \/ Skip \/ Garbled \/ Complete \/ Takeover \/ Delegate \/ File \/ Unknown \/ Stops
    \/ \E kind \in Pixel \cup Dom :
          QueryRefused(kind) \/ BootFails(kind) \/ Held(kind) \/ Fails(kind)
    \/ \E kind \in {"start", "look", "act"} : PixelStep(kind)
    \/ \E kind \in Dom : Degrades(kind) \/ DomStep(kind)

Next ==
    \/ Seat \/ Route \/ Start \/ Gather
    \/ Opening \/ SecondChance \/ Reopening \/ Answer \/ AnswerAgain \/ ModelFails
    \/ Call \/ Bounds \/ Close \/ Intent \/ Draft \/ Settle \/ SaveLedger

Spec == Init /\ [][Next]_vars

\* Nothing holds the loop up for ever, and each round takes time: a leg that comes to
\* the clock again and again finds it past DESKTOP_MAX_SECONDS.
FairSpec ==
    /\ Spec
    /\ WF_vars(Next)
    /\ SF_vars(Bounds /\ pc' = "closing" /\ session'.outcome = "timeout")

------------------------------------------------------------------------------
\* Every request that goes out is one the provider takes and the budget allows: each
\* call announced so far has its reply, whatever ended the batch, and at most the
\* newest frames ride along. The same holds of what a parked run stores.
RequestsAreWhole ==
    /\ pc \in {"asked", "asked again", "closing"} => convo.owed = 0
    /\ pc \in {"asked", "asked again"} => convo.frames <= KeepFrames

\* A turn asks a person for at most one thing, and its row says which.
OneAsk ==
    /\ session.asks + (IF session.takeover THEN 1 ELSE 0) <= 1
    /\ pc = "ended" /\ session.status # "failed" =>
          /\ session.status = "awaiting_approval" <=> session.asks = 1
          /\ session.status = "awaiting_human" <=> session.takeover

\* Once something was left to a person, the leg does nothing more on the machine, and
\* no later verdict replaces the one it parks under.
NothingAfterAsking ==
    [][pc = "batch" /\ (session.asks > 0 \/ session.takeover) =>
          loop' = loop /\ session'.outcome = session.outcome]_vars

\* The browser lane may be lost in mid-leg, in the middle of a batch, and come back for
\* a step or two; a model that keeps to the tools it is offered runs into the loss in
\* one answer only, whatever succeeds afterwards and whatever references it holds.
LossIsMetOnce == loop.met <= 1

\* A leg ends, though garbled calls and refused closes are not steps: time runs out.
EveryLegEnds == <>(pc = "ended")
===============================================================================
