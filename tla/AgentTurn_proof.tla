-------------------------- MODULE AgentTurn_proof --------------------------
(* Theorems about the two halves of a bot's turn: the loop (AgentLoop), for   *)
(* any answers of the model and any limits, and the router it asks through    *)
(* (ModelRouter), for any number of turns, calls, attempts and keys. The two  *)
(* share no variable.                                                         *)
EXTENDS AgentLoop, ModelRouter, TLAPS

Places == {"message", "routing", "starting", "gathering", "opening", "second", "reopening",
           "asked", "asked again", "batch", "answer", "closing", "draft", "settle",
           "settled", "ended"}

Allowances == [tools : BOOLEAN, hops : BOOLEAN, tagged : BOOLEAN]

Loop == [step : Nat, idle : Nat, looks : Nat, last : {"none", "screen", "dom"},
         unchanged : Nat, framed : BOOLEAN, failures : Nat, fallbacks : Nat,
         queries : Nat, closes : Nat, refusals : Nat, work : {"own", "filed", "handed"},
         absent : BOOLEAN, booted : BOOLEAN, offered : SUBSET Dom, met : Nat]

Batch == [left : Nat, native : BOOLEAN, terminal : BOOLEAN, must : BOOLEAN,
          screen : {"none", "now", "before", "blank"}]

Convo == [owed : Nat, frames : Nat]

Session ==
    [outcome  : {"completed", "desktop_unavailable", "refused", "awaiting_human",
                 "delegation_refused", "unknown_tool", "awaiting_approval", "failed",
                 "stuck", "idle", "step_cap", "timeout", "budget"},
     asks     : Nat,
     takeover : BOOLEAN,
     steps    : BOOLEAN,
     refs     : BOOLEAN,
     ran      : BOOLEAN,
     status   : {"none", "running", "failed", "awaiting_approval", "awaiting_human", "completed"}]

TypeOK ==
    /\ pc \in Places
    /\ model \in Allowances
    /\ loop \in Loop
    /\ batch \in Batch
    /\ convo \in Convo
    /\ session \in Session

\* While a batch is worked off, what is left of it has no reply yet, if its calls
\* are of the kind that gets one; anywhere else nothing is waiting.
Owed ==
    /\ convo.owed = IF pc = "batch" /\ batch.native THEN batch.left ELSE 0
    /\ pc \in {"asked", "asked again"} => convo.frames <= KeepFrames

NothingAsked(s) == s.asks = 0 /\ ~s.takeover
OneAsked(s) == (s.asks = 1 /\ ~s.takeover) \/ (s.asks = 0 /\ s.takeover)

\* The row says what was asked.
Says(s) ==
    /\ s.status = "awaiting_approval" <=> s.asks = 1
    /\ s.status = "awaiting_human" <=> s.takeover

\* A leg that goes back to the model has asked a person for nothing; in a batch, a
\* call that asked ends it. Only the loop hands over, and a turn whose loop ran has
\* no draft to ask about.
Asked ==
    /\ NothingAsked(session) \/ OneAsked(session)
    /\ pc \notin {"batch", "closing", "draft", "settle", "settled", "ended"} =>
          NothingAsked(session)
    /\ pc = "batch" => NothingAsked(session) \/ batch.terminal
    /\ session.takeover \/ pc \in {"batch", "asked", "asked again"} => session.ran
    /\ pc \in {"message", "routing", "starting"} =>
          session.status = "none" /\ NothingAsked(session)
    /\ pc = "settled" \/ (pc = "ended" /\ session.status # "failed") => Says(session)

IInv == TypeOK /\ Owed /\ Asked

------------------------------------------------------------------------------
(* What the operators return.                                               *)

LEMMA LeastIs ==
  ASSUME NEW a \in Nat, NEW b \in Nat
  PROVE  Least(a, b) \in Nat /\ Least(a, b) <= a /\ Least(a, b) <= b
BY DEF Least

LEMMA Limits == KeepFrames \in Nat /\ MaxBatch \in Nat
BY AgentLoopAssumption

\* An answered call leaves one fewer without a reply.
LEMMA RepliesAre ==
  ASSUME TypeOK, Owed, pc = "batch", batch.left > 0
  PROVE  Replied \in Convo /\ Replied.owed = IF batch.native THEN batch.left - 1 ELSE 0
<1>1. convo \in Convo /\ batch.left \in Nat \ {0} /\ batch.native \in BOOLEAN
  BY DEF TypeOK, Batch
<1>2. convo.owed = (IF batch.native THEN batch.left ELSE 0)
  BY DEF Owed
<1> DEFINE k == batch.left - 1
<1>k. k \in Nat
  BY <1>1
<1>3. CASE ~batch.native
  BY <1>1, <1>2, <1>3 DEF Replied
<1>4. CASE batch.native
  <2>1. Replied = [convo EXCEPT !.owed = k]
    BY <1>2, <1>4 DEF Replied
  <2> HIDE DEF k
  <2>2. Replied \in Convo /\ Replied.owed = k
    BY <1>1, <1>k, <2>1 DEF Convo
  <2> QED
    BY <1>4, <2>2 DEF k
<1> QED
  BY <1>3, <1>4

\* The batch after a call.
Fewer(b) == /\ b \in Batch /\ b.left = batch.left - 1 /\ b.native = batch.native
            /\ batch.terminal => b.terminal

LEMMA CallsAre ==
  ASSUME TypeOK, batch.left > 0
  PROVE  Fewer(NextCall) /\ Fewer(LastCall) /\ LastCall.terminal
<1> DEFINE k == batch.left - 1
<1>1. k \in Nat /\ k = batch.left - 1 /\ batch \in Batch
  BY DEF TypeOK, Batch
<1>2. NextCall = [batch EXCEPT !.left = k, !.must = FALSE]
  BY DEF NextCall
<1> HIDE DEF k
<1>3. Fewer(NextCall)
  BY <1>1, <1>2 DEF Fewer, Batch
<1> QED
  BY <1>3 DEF LastCall, Fewer, Batch

LEMMA OutdatedIs ==
  ASSUME NEW b, Fewer(b)
  PROVE  Fewer(Outdated(b)) /\ (b.terminal => Outdated(b).terminal)
<1> DEFINE s == IF b.screen = "now" THEN "before" ELSE b.screen
<1>1. b \in Batch /\ s \in {"none", "now", "before", "blank"}
  BY DEF Fewer, Batch
<1>2. Outdated(b) = [b EXCEPT !.screen = s]
  BY DEF Outdated
<1> HIDE DEF s
<1> QED
  BY <1>1, <1>2 DEF Fewer, Batch

LEMMA UpIs == ASSUME TypeOK, NEW kind PROVE Up(kind) \in Loop
<1> DEFINE up == loop.booted \/ kind # "start"
<1>1. loop \in Loop /\ loop.step + 1 \in Nat /\ up \in BOOLEAN
  BY DEF TypeOK, Loop
<1>2. Up(kind) = [loop EXCEPT !.step = loop.step + 1, !.booted = up]
  BY DEF Up
<1> HIDE DEF up
<1> QED
  BY <1>1, <1>2 DEF Loop

LEMMA MeetsIs ==
  ASSUME NEW l \in Loop, NEW kind
  PROVE  /\ Meets(kind, l) \in Loop
         /\ \/ Meets(kind, l) = l /\ kind \notin l.offered
            \/ Meets(kind, l).met = l.met + 1 /\ Meets(kind, l).offered = {} /\ kind \in l.offered
<1> DEFINE k == l.met + 1
<1>1. k \in Nat
  BY DEF Loop
<1>2. CASE kind \in l.offered
  <2>1. Meets(kind, l) = [l EXCEPT !.met = k, !.offered = {}]
    BY <1>2 DEF Meets
  <2>2. [l EXCEPT !.met = k] \in Loop /\ [l EXCEPT !.met = k].met = k
    <3> HIDE DEF k
    <3> QED
      BY <1>1 DEF Loop
  <2> HIDE DEF k
  <2>3. Meets(kind, l) \in Loop /\ Meets(kind, l).met = k /\ Meets(kind, l).offered = {}
    BY <2>1, <2>2 DEF Loop
  <2> QED
    BY <1>2, <2>3 DEF k
<1>3. CASE kind \notin l.offered
  BY <1>3 DEF Meets
<1> QED
  BY <1>2, <1>3

LEMMA DidIs ==
  ASSUME TypeOK
  PROVE  /\ Did \in Session /\ Did.asks = session.asks /\ Did.takeover = session.takeover
         /\ Did.ran = session.ran /\ Did.status = session.status
BY DEF TypeOK, Did, Session

LEMMA WatchedIs ==
  ASSUME NEW l \in Loop, NEW kind, NEW lane \in {"screen", "dom"},
         NEW seen \in BOOLEAN, NEW same \in BOOLEAN
  PROVE  Watched(l, kind, lane, seen, same) \in Loop
<1>1. l.idle \in Nat /\ l.looks \in Nat
  BY DEF Loop
<1>2. CASE kind \in Looks
  <2> DEFINE i == IF seen /\ same /\ l.last = lane THEN l.idle + 1 ELSE 1
             p == IF seen THEN lane ELSE "none"
  <2>1. i \in Nat /\ p \in {"none", "screen", "dom"}
    BY <1>1
  <2>2. Watched(l, kind, lane, seen, same) = [l EXCEPT !.idle = i, !.last = p, !.looks = l.looks + 1]
    BY <1>2 DEF Watched
  <2> HIDE DEF i, p
  <2> QED
    <3>1. [l EXCEPT !.idle = i] \in Loop
      BY <2>1 DEF Loop
    <3>2. [l EXCEPT !.idle = i, !.last = p] \in Loop
      BY <2>1, <3>1 DEF Loop
    <3>3. l.looks + 1 \in Nat
      BY <1>1
    <3> QED
      BY <2>2, <3>2, <3>3 DEF Loop
<1>3. CASE kind \notin Looks
  BY <1>3 DEF Watched, Loop
<1> QED
  BY <1>2, <1>3
------------------------------------------------------------------------------
(* Every call has one shape: it is answered, and at most asks a person.      *)

\* The session s goes on as the leg's, with another verdict perhaps.
Kin(s) == /\ s \in Session /\ s.asks = session.asks /\ s.takeover = session.takeover
          /\ s.ran = session.ran /\ s.status = session.status

\* s has asked one thing more.
Asking(s) == /\ s \in Session /\ s.ran = session.ran
             /\ NothingAsked(session) => OneAsked(s)

Answered ==
    /\ pc = "batch" /\ pc' = "batch" /\ batch.left > 0
    /\ Fewer(batch') /\ convo' = Replied
    /\ model' \in Allowances /\ loop' \in Loop
    /\ \/ batch.terminal /\ UNCHANGED <<loop, session>>
       \/ ~batch.terminal /\ Kin(session')
       \/ ~batch.terminal /\ batch'.terminal /\ Asking(session')

LEMMA KinIs ==
  ASSUME TypeOK
  PROVE  /\ Kin(session) /\ Kin(Did)
         /\ \A o \in {"completed", "desktop_unavailable", "refused", "delegation_refused",
                      "unknown_tool", "awaiting_approval", "failed", "stuck", "idle"} :
               Kin([session EXCEPT !.outcome = o]) /\ Kin([Did EXCEPT !.outcome = o])
<1>1. session \in Session /\ Kin(Did) /\ Did \in Session
  BY DidIs DEF TypeOK, Kin
<1>2. ASSUME NEW o \in {"completed", "desktop_unavailable", "refused", "delegation_refused",
                        "unknown_tool", "awaiting_approval", "failed", "stuck", "idle"},
             NEW s \in Session, Kin(s)
      PROVE  Kin([s EXCEPT !.outcome = o])
  BY <1>2 DEF Kin, Session
<1>3. Kin(session)
  BY <1>1 DEF Kin
<1> QED
  BY <1>1, <1>2, <1>3

LEMMA PhotographedIs ==
  ASSUME TypeOK, batch.left > 0, NEW l \in Loop, NEW kind, NEW seen \in BOOLEAN,
         NEW same \in BOOLEAN, Photographed(kind, l, seen, same)
  PROVE  loop' \in Loop /\ Fewer(batch') /\ Kin(session')
<1> DEFINE w == Watched(l, kind, "screen", seen, same)
           u == IF kind \in Looks THEN w.unchanged
                ELSE IF seen /\ same /\ l.framed THEN w.unchanged + 1 ELSE 0
           l2 == [w EXCEPT !.unchanged = u, !.framed = seen]
           b == [NextCall EXCEPT !.screen = IF seen THEN "now" ELSE "blank"]
<1>1. w \in Loop
  BY WatchedIs
<1> HIDE DEF w
<1>2. u \in Nat
  BY <1>1 DEF Loop
<1> HIDE DEF u
<1>3. l2 \in Loop
  BY <1>1, <1>2 DEF Loop
<1>4. Fewer(b) /\ Fewer([b EXCEPT !.terminal = TRUE])
  <2>1. Fewer(NextCall)
    BY CallsAre
  <2> QED
    BY <2>1 DEF Fewer, Batch
<1>5. /\ loop' = l2
      /\ IF Verdict(l2) = "go on" THEN batch' = b /\ session' = Did
         ELSE batch' = [b EXCEPT !.terminal = TRUE] /\ session' = [Did EXCEPT !.outcome = Verdict(l2)]
  BY DEF Photographed, w, u
<1> HIDE DEF l2, b
<1>6. Verdict(l2) \in {"go on", "stuck", "idle"}
  BY DEF Verdict
<1>7. CASE Verdict(l2) = "go on"
  BY <1>3, <1>4, <1>5, <1>7, KinIs
<1>8. CASE Verdict(l2) # "go on"
  <2>1. PICK o \in {"stuck", "idle"} : o = Verdict(l2)
    BY <1>6, <1>8
  <2>2. session' = [Did EXCEPT !.outcome = o]
    BY <1>5, <1>8, <2>1
  <2> QED
    BY <1>3, <1>4, <1>5, <1>8, <2>2, KinIs
<1> QED
  BY <1>7, <1>8

\* Calls that touch no machine.
LEMMA TalkAnswered ==
  ASSUME TypeOK,
         Skip \/ Garbled \/ Complete \/ Takeover \/ Delegate \/ File \/ Unknown
  PROVE  Answered
<1>0. model \in Allowances /\ loop \in Loop /\ batch \in Batch /\ session \in Session
  BY DEF TypeOK
<1>a. batch.left > 0 => Fewer(NextCall) /\ Fewer(LastCall) /\ LastCall.terminal
  BY CallsAre
<1>b. Kin(session)
  BY KinIs
<1>1. CASE Skip
  BY <1>0, <1>1, <1>a DEF Skip, Answered
<1>2. CASE Garbled
  BY <1>0, <1>2, <1>a, <1>b DEF Garbled, Reaches, Answered
<1>3. CASE Complete
  <2>1. /\ Reaches /\ convo' = Replied /\ UNCHANGED <<pc, model>>
        /\ \/ /\ loop' = [loop EXCEPT !.closes = @ + 1]
              /\ batch' = [NextCall EXCEPT !.must = batch.must] /\ session' = session
           \/ /\ batch' = LastCall /\ session' = [session EXCEPT !.outcome = "completed"]
              /\ loop' = loop
    BY <1>3 DEF Complete
  <2>2. [loop EXCEPT !.closes = @ + 1] \in Loop
    BY <1>0 DEF Loop
  <2>3. Reaches => Fewer([NextCall EXCEPT !.must = batch.must])
    <3>1. Reaches => Fewer(NextCall)
      BY <1>a DEF Reaches
    <3> QED
      BY <1>0, <3>1 DEF Fewer, Batch
  <2>4. Kin([session EXCEPT !.outcome = "completed"])
    BY KinIs
  <2> QED
    BY <1>0, <1>a, <1>b, <2>1, <2>2, <2>3, <2>4 DEF Reaches, Answered
<1>4. CASE Takeover
  <2>1. Asking([session EXCEPT !.takeover = TRUE, !.outcome = "awaiting_human"])
    BY <1>0 DEF Asking, NothingAsked, OneAsked, Session
  <2> QED
    BY <1>0, <1>4, <1>a, <2>1 DEF Takeover, Reaches, Answered
<1>5. CASE Delegate
  <2>1. /\ Reaches /\ convo' = Replied /\ UNCHANGED pc
        /\ model' \in {model, [model EXCEPT !.hops = FALSE]}
        /\ \E n \in {0, loop.refusals + 1} :
              loop' = [loop EXCEPT !.step = @ + 1, !.work = "handed", !.refusals = n]
        /\ batch' \in {NextCall, LastCall}
        /\ session' \in {session, [session EXCEPT !.outcome = "delegation_refused"]}
    BY <1>5 DEF Delegate
  <2>2. model' \in Allowances
    BY <1>0, <2>1 DEF Allowances
  <2>3. loop' \in Loop
    <3>1. loop.refusals + 1 \in Nat /\ loop.step + 1 \in Nat
      BY <1>0 DEF Loop
    <3>2. PICK n \in Nat : loop' = [loop EXCEPT !.step = @ + 1, !.work = "handed", !.refusals = n]
      BY <2>1, <3>1
    <3>3. [loop EXCEPT !.step = @ + 1, !.work = "handed"] \in Loop
      BY <1>0, <3>1 DEF Loop
    <3> QED
      BY <3>2, <3>3 DEF Loop
  <2>4. Kin(session')
    BY <1>b, <2>1, KinIs
  <2> QED
    BY <1>a, <2>1, <2>2, <2>3, <2>4 DEF Reaches, Answered
<1>6. CASE File
  <2>1. /\ Reaches /\ convo' = Replied /\ batch' = NextCall /\ UNCHANGED <<pc, model, session>>
        /\ \E w \in {"filed", loop.work} : loop' = [loop EXCEPT !.step = @ + 1, !.work = w]
    BY <1>6 DEF File
  <2>2. loop' \in Loop
    <3>1. {"filed", loop.work} \subseteq {"own", "filed", "handed"}
      BY <1>0 DEF Loop
    <3>2. PICK w \in {"own", "filed", "handed"} : loop' = [loop EXCEPT !.step = @ + 1, !.work = w]
      BY <2>1, <3>1
    <3> QED
      <4>1. [loop EXCEPT !.step = @ + 1] \in Loop
        BY <1>0 DEF Loop
      <4> QED
        BY <3>2, <4>1 DEF Loop
  <2> QED
    BY <1>0, <1>a, <1>b, <2>1, <2>2 DEF Reaches, Answered
<1>7. CASE Unknown
  <2>1. Kin([session EXCEPT !.outcome = "unknown_tool"])
    BY KinIs
  <2> QED
    BY <1>0, <1>7, <1>a, <2>1 DEF Unknown, Reaches, Answered
<1> QED
  BY <1>1, <1>2, <1>3, <1>4, <1>5, <1>6, <1>7

\* Steps on the machine, and those that were not let through to it.
LEMMA MachineAnswered ==
  ASSUME TypeOK, NEW kind \in Pixel \cup Dom,
         \/ QueryRefused(kind) \/ BootFails(kind) \/ Held(kind) \/ Fails(kind) \/ Stops
         \/ PixelStep(kind)
         \/ kind \in Dom /\ (Degrades(kind) \/ DomStep(kind))
  PROVE  Answered
<1>0. model \in Allowances /\ loop \in Loop /\ batch \in Batch /\ session \in Session
      /\ Up(kind) \in Loop /\ Up("stop") \in Loop
  BY UpIs DEF TypeOK
<1>a. batch.left > 0 =>
        /\ Fewer(NextCall) /\ Fewer(LastCall) /\ LastCall.terminal
        /\ Fewer(Outdated(NextCall)) /\ Fewer(Outdated(LastCall)) /\ Outdated(LastCall).terminal
  BY CallsAre, OutdatedIs
<1>b. Kin(session) /\ Kin(Did)
  BY KinIs
<1>1. CASE QueryRefused(kind)
  <2>1. [loop EXCEPT !.queries = @ + 1] \in Loop
    BY <1>0 DEF Loop
  <2> QED
    BY <1>0, <1>1, <1>a, <1>b, <2>1 DEF QueryRefused, Reaches, Answered
<1>2. CASE BootFails(kind)
  <2>1. [loop EXCEPT !.step = @ + 1] \in Loop
    BY <1>0 DEF Loop
  <2>2. Kin([Did EXCEPT !.outcome = "desktop_unavailable"])
    BY KinIs
  <2> QED
    BY <1>0, <1>2, <1>a, <2>1, <2>2 DEF BootFails, Reaches, Answered
<1>3. CASE Held(kind)
  <2>1. Asking([Did EXCEPT !.asks = @ + 1, !.outcome = "awaiting_approval"])
    <3>1. Did \in Session /\ Did.asks = session.asks /\ Did.takeover = session.takeover
          /\ Did.ran = session.ran
      BY DidIs
    <3> QED
      <4> DEFINE k == Did.asks + 1
      <4>1. k \in Nat /\ (NothingAsked(session) => k = 1)
        BY <3>1 DEF NothingAsked, Session
      <4> HIDE DEF k
      <4>2. Asking([Did EXCEPT !.asks = k, !.outcome = "awaiting_approval"])
        BY <3>1, <4>1 DEF Asking, NothingAsked, OneAsked, Session
      <4> QED
        BY <4>2 DEF k
  <2> QED
    BY <1>0, <1>3, <1>a, <2>1 DEF Held, Reaches, Answered
<1>4. CASE Fails(kind)
  <2> DEFINE n == loop.failures + 1
             up == kind \notin {"start", "stop"}
  <2>1. n \in Nat /\ up \in BOOLEAN
    BY <1>0 DEF Loop
  <2>2. /\ Reaches /\ convo' = Replied /\ UNCHANGED <<pc, model>>
        /\ loop' = [Up(kind) EXCEPT !.failures = n, !.booted = up]
        /\ batch' \in {Outdated(LastCall), Outdated(NextCall)}
        /\ session' \in {Did, [Did EXCEPT !.outcome = "failed"]}
    BY <1>4 DEF Fails
  <2> HIDE DEF n, up
  <2>3. loop' \in Loop
    BY <1>0, <2>1, <2>2 DEF Loop
  <2>4. Kin(session')
    BY <1>b, <2>2, KinIs
  <2> QED
    BY <1>0, <1>a, <2>2, <2>3, <2>4 DEF Reaches, Answered
<1>5. CASE Stops
  <2>1. [Up("stop") EXCEPT !.failures = 0, !.booted = FALSE] \in Loop
    BY <1>0 DEF Loop
  <2> QED
    BY <1>0, <1>5, <1>a, <1>b, <2>1 DEF Stops, Reaches, Answered
<1>6. CASE PixelStep(kind)
  <2>1. [Up(kind) EXCEPT !.booted = TRUE, !.failures = 0] \in Loop
    BY <1>0 DEF Loop
  <2>2. loop' \in Loop /\ Fewer(batch') /\ Kin(session')
    BY <1>6, <2>1, PhotographedIs DEF PixelStep, Reaches
  <2> QED
    BY <1>0, <1>6, <2>2 DEF PixelStep, Reaches, Answered
<1>7. CASE kind \in Dom /\ Degrades(kind)
  <2> DEFINE n == loop.fallbacks + 1
             m == Meets(kind, Up(kind))
             l == [m EXCEPT !.fallbacks = n, !.absent = TRUE]
  <2>1. n \in Nat /\ m \in Loop
    BY <1>0, MeetsIs DEF Loop
  <2>2. /\ Reaches /\ convo' = Replied /\ UNCHANGED <<pc, model>>
        /\ \/ /\ loop' = l /\ batch' = Outdated(LastCall)
              /\ session' = [Did EXCEPT !.outcome = "failed"]
           \/ \E seen, same \in BOOLEAN : Photographed("act", l, seen, same)
    BY <1>7 DEF Degrades
  <2> HIDE DEF n, m
  <2>3. l \in Loop
    BY <2>1 DEF Loop
  <2> HIDE DEF l
  <2>4. Kin([Did EXCEPT !.outcome = "failed"])
    BY KinIs
  <2>5. loop' \in Loop /\ Fewer(batch') /\ Kin(session')
    BY <1>a, <2>2, <2>3, <2>4, PhotographedIs DEF Reaches
  <2> QED
    BY <1>0, <2>2, <2>5 DEF Reaches, Answered
<1>8. CASE kind \in Dom /\ DomStep(kind)
  <2>1. PICK same \in BOOLEAN, found \in BOOLEAN :
          LET l == Watched([Up(kind) EXCEPT !.failures = 0, !.fallbacks = 0], kind, "dom", TRUE, same)
              s == [Did EXCEPT !.refs = IF kind = "snapshot" THEN found ELSE @ /\ kind # "go"]
              over == l.idle >= MaxIdle \/ l.looks >= MaxLooks
          IN /\ loop' = l
             /\ batch' = [Outdated(NextCall) EXCEPT !.terminal = over]
             /\ session' = IF over THEN [s EXCEPT !.outcome = "idle"] ELSE s
    BY <1>8 DEF DomStep
  <2> DEFINE l0 == [Up(kind) EXCEPT !.failures = 0, !.fallbacks = 0]
             l == Watched(l0, kind, "dom", TRUE, same)
             r == IF kind = "snapshot" THEN found ELSE Did.refs /\ kind # "go"
             s == [Did EXCEPT !.refs = r]
             over == l.idle >= MaxIdle \/ l.looks >= MaxLooks
  <2>2. l0 \in Loop
    BY <1>0 DEF Loop
  <2> HIDE DEF l0
  <2>3. l \in Loop
    BY <2>2, WatchedIs
  <2>4. r \in BOOLEAN /\ Did \in Session
    BY <1>b DEF Kin, Session
  <2> HIDE DEF r
  <2>5. Kin(s) /\ Kin([s EXCEPT !.outcome = "idle"])
    BY <1>b, <2>4 DEF Kin, Session
  <2>6. over \in BOOLEAN
    OBVIOUS
  <2>7. /\ loop' = l /\ batch' = [Outdated(NextCall) EXCEPT !.terminal = over]
        /\ session' \in {s, [s EXCEPT !.outcome = "idle"]}
    BY <2>1 DEF l0, r
  <2> HIDE DEF l, over, s
  <2>8. Reaches /\ UNCHANGED <<pc, model>> /\ convo' = Replied
    BY <1>8 DEF DomStep
  <2>9. Fewer(batch')
    <3>1. Fewer(Outdated(NextCall)) /\ ~batch.terminal
      BY <1>a, <2>8 DEF Reaches
    <3> QED
      BY <2>6, <2>7, <3>1 DEF Fewer, Batch
  <2> QED
    BY <1>0, <2>3, <2>5, <2>7, <2>8, <2>9 DEF Reaches, Answered
<1> QED
  BY <1>1, <1>2, <1>3, <1>4, <1>5, <1>6, <1>7, <1>8
LEMMA CallAnswered == ASSUME TypeOK, Call PROVE Answered
<1>1. ASSUME NEW kind \in Pixel \cup Dom, QueryRefused(kind) \/ BootFails(kind) \/ Held(kind) \/ Fails(kind)
      PROVE  Answered
  BY <1>1, MachineAnswered
<1>2. ASSUME NEW kind \in {"start", "look", "act"}, PixelStep(kind) PROVE Answered
  <2>1. kind \in Pixel \cup Dom
    BY DEF Pixel
  <2> QED
    BY <1>2, <2>1, MachineAnswered
<1>3. ASSUME NEW kind \in Dom, Degrades(kind) \/ DomStep(kind) PROVE Answered
  BY <1>3, MachineAnswered
<1>4. CASE Stops
  <2>1. "stop" \in Pixel \cup Dom
    BY DEF Pixel
  <2> QED
    BY <1>4, <2>1, MachineAnswered
<1> QED
  BY <1>1, <1>2, <1>3, <1>4, TalkAnswered DEF Call

------------------------------------------------------------------------------
(* The invariant.                                                           *)

LEMMA InitHolds == Init => IInv
<1> SUFFICES ASSUME Init PROVE IInv
  OBVIOUS
<1>1. \A booted \in BOOLEAN : NewLoop(booted) \in Loop
  BY DEF NewLoop, Loop
<1>2. TypeOK
  BY <1>1 DEF Init, TypeOK, Places, Allowances, Batch, Convo, Session
<1>3. Owed
  BY DEF Init, Owed
<1>4. Asked
  BY DEF Init, Asked, NothingAsked
<1> QED
  BY <1>2, <1>3, <1>4 DEF IInv

LEMMA AnsweredKeeps == ASSUME IInv, Answered PROVE IInv'
<1>0. /\ TypeOK /\ Owed /\ Asked
      /\ pc = "batch" /\ pc' = "batch" /\ batch.left > 0
      /\ Fewer(batch') /\ model' \in Allowances /\ loop' \in Loop
  BY DEF IInv, Answered
<1>1. convo' \in Convo /\ convo'.owed = IF batch.native THEN batch.left - 1 ELSE 0
  BY <1>0, RepliesAre DEF Answered
<1>2. session' \in Session
  BY <1>0 DEF Answered, Kin, Asking, TypeOK
<1>3. TypeOK'
  BY <1>0, <1>1, <1>2 DEF TypeOK, Fewer
<1>4. Owed'
  BY <1>0, <1>1 DEF Owed, Fewer
<1>5. Asked'
  <2>0. session.ran /\ (~batch.terminal => NothingAsked(session))
    BY <1>0 DEF Asked
  <2>1. CASE batch.terminal /\ UNCHANGED <<loop, session>>
    BY <1>0, <2>1 DEF Asked, NothingAsked, OneAsked, Fewer
  <2>2. CASE ~batch.terminal /\ Kin(session')
    BY <1>0, <2>0, <2>2 DEF Asked, Kin, NothingAsked, OneAsked
  <2>3. CASE ~batch.terminal /\ batch'.terminal /\ Asking(session')
    BY <1>0, <2>0, <2>3 DEF Asked, Asking, NothingAsked, OneAsked
  <2> QED
    BY <2>1, <2>2, <2>3 DEF Answered
<1> QED
  BY <1>3, <1>4, <1>5 DEF IInv

LEMMA ShrunkenIs ==
  ASSUME NEW c \in Convo
  PROVE  Shrunken(c) \in Convo /\ Shrunken(c).owed = c.owed /\ Shrunken(c).frames <= KeepFrames
<1> DEFINE f == Least(c.frames, KeepFrames)
<1>1. f \in Nat /\ f <= KeepFrames
  BY LeastIs, Limits DEF Convo
<1>2. Shrunken(c) = [c EXCEPT !.frames = f]
  BY DEF Shrunken
<1> HIDE DEF f
<1> QED
  BY <1>1, <1>2 DEF Convo

\* An answer with calls opens a batch, and a debt of one reply for each.
LEMMA TakesKeeps ==
  ASSUME IInv, NothingAsked(session), NEW c \in Convo, NEW must \in BOOLEAN, Takes(c, must),
         UNCHANGED <<model, loop>>
  PROVE  IInv'
<1>1. PICK native \in BOOLEAN, n \in 1 .. MaxBatch :
        /\ batch' = [left |-> n, native |-> native, terminal |-> FALSE, must |-> must, screen |-> "none"]
        /\ convo' = [c EXCEPT !.owed = IF native THEN n ELSE 0]
        /\ session' = [session EXCEPT !.ran = TRUE] /\ pc' = "batch"
  BY DEF Takes
<1>2. n \in Nat /\ (IF native THEN n ELSE 0) \in Nat
  BY Limits
<1>3. batch' \in Batch /\ batch'.left = n /\ batch'.native = native
  BY <1>1, <1>2 DEF Batch
<1>4. convo' \in Convo /\ convo'.owed = IF native THEN n ELSE 0
  BY <1>1, <1>2 DEF Convo
<1>5. session' \in Session /\ session'.ran /\ NothingAsked(session')
  BY <1>1 DEF IInv, TypeOK, Session, NothingAsked
<1>6. TypeOK'
  BY <1>1, <1>3, <1>4, <1>5 DEF IInv, TypeOK, Places
<1>7. Owed'
  BY <1>1, <1>3, <1>4 DEF Owed
<1>8. Asked'
  BY <1>1, <1>5 DEF Asked
<1> QED
  BY <1>6, <1>7, <1>8 DEF IInv

\* Up to the first request, and every failed one.
LEMMA OpeningKeeps ==
  ASSUME IInv, \/ Seat \/ Route \/ Start \/ Gather \/ Opening \/ SecondChance
               \/ Reopening \/ ModelFails
  PROVE  IInv'
<1>0. /\ pc \in Places /\ model \in Allowances /\ loop \in Loop /\ batch \in Batch
      /\ convo \in Convo /\ session \in Session /\ Owed /\ Asked
  BY DEF IInv, TypeOK
<1>s. pc \in {"message", "routing", "starting"} => Says(session) /\ NothingAsked(session)
  <2>1. pc \in {"message", "routing", "starting"} =>
           /\ session.status = "none" /\ NothingAsked(session)
           /\ session.asks = 0 /\ session.takeover = FALSE
    BY <1>0 DEF Asked, NothingAsked, Session
  <2>2. "none" # "awaiting_approval" /\ "none" # "awaiting_human" /\ 0 # 1
    OBVIOUS
  <2> QED
    BY <2>1, <2>2 DEF Says
<1>1. CASE Seat
  <2>1. model' \in Allowances
    BY <1>0, <1>1 DEF Seat, Allowances
  <2>2. TypeOK'
    BY <1>0, <1>1, <2>1 DEF Seat, TypeOK, Places
  <2>3. Owed' /\ Asked'
    BY <1>0, <1>1 DEF Seat, Owed, Asked, NothingAsked
  <2> QED
    BY <2>2, <2>3 DEF IInv
<1>2. CASE Route
  <2>1. TypeOK'
    BY <1>0, <1>2 DEF Route, TypeOK, Places
  <2>2. Owed'
    BY <1>0, <1>2 DEF Route, Owed
  <2>3. Says(session)' /\ NothingAsked(session)'
    BY <1>s, <1>2 DEF Route, Says, NothingAsked
  <2>4. Asked'
    BY <1>0, <1>2, <2>3 DEF Route, Asked, NothingAsked
  <2> QED
    BY <2>1, <2>2, <2>4 DEF IInv
<1>3. CASE Start
  <2>1. [session EXCEPT !.status = "running"] \in Session
    BY <1>0 DEF Session
  <2>2. TypeOK'
    BY <1>0, <1>3, <2>1 DEF Start, TypeOK, Places
  <2>3. Owed'
    BY <1>0, <1>3 DEF Start, Owed
  <2>4. Asked'
    <3>1. CASE pc' = "ended" /\ UNCHANGED session
      <4>1. Says(session)' /\ NothingAsked(session)'
        BY <1>s, <1>3, <3>1 DEF Start, Says, NothingAsked
      <4> QED
        BY <1>0, <3>1, <4>1 DEF Asked, NothingAsked
    <3>2. CASE pc' = "gathering" /\ session' = [session EXCEPT !.status = "running"]
      <4>1. NothingAsked(session)'
        BY <1>0, <1>s, <1>3, <3>2 DEF Start, NothingAsked, Session
      <4> QED
        BY <3>2, <4>1 DEF Asked, NothingAsked
    <3> QED
      BY <1>3, <3>1, <3>2 DEF Start
  <2> QED
    BY <2>2, <2>3, <2>4 DEF IInv
<1>4. CASE Gather
  <2>1. TypeOK'
    BY <1>0, <1>4 DEF Gather, TypeOK, Places
  <2>2. Owed' /\ Asked'
    BY <1>0, <1>4 DEF Gather, Owed, Asked, NothingAsked
  <2> QED
    BY <2>1, <2>2 DEF IInv
<1>a. pc \in {"opening", "second", "reopening"} => NothingAsked(session)
  BY <1>0 DEF Asked
<1>5. CASE Opening \/ SecondChance
  <2>1. CASE Takes(convo, TRUE)
    BY <1>0, <1>5, <1>a, <2>1, TakesKeeps DEF Opening, SecondChance
  <2>2. CASE pc' \in {"answer", "second"} /\ UNCHANGED <<batch, convo, session>>
    <3>1. TypeOK'
      BY <1>0, <1>5, <2>2 DEF Opening, SecondChance, TypeOK, Places
    <3>2. Owed' /\ Asked'
      BY <1>0, <1>5, <2>2 DEF Opening, SecondChance, Owed, Asked, NothingAsked
    <3> QED
      BY <3>1, <3>2 DEF IInv
  <2> QED
    BY <1>5, <2>1, <2>2 DEF Opening, SecondChance
<1>6. CASE Reopening
  <2>1. ASSUME NEW frames \in {0, 1}, Takes([convo EXCEPT !.frames = frames], FALSE) PROVE IInv'
    <3>1. [convo EXCEPT !.frames = frames] \in Convo
      BY <1>0 DEF Convo
    <3> QED
      BY <1>6, <1>a, <2>1, <3>1, TakesKeeps DEF Reopening
  <2>2. ASSUME pc' = "settle", UNCHANGED <<batch, convo>>,
               NEW o \in {"desktop_unavailable", "refused", "completed"},
               session' = [session EXCEPT !.outcome = o]
        PROVE  IInv'
    <3>1. session' \in Session /\ NothingAsked(session')
      BY <1>0, <1>6, <1>a, <2>2 DEF Reopening, Session, NothingAsked
    <3>2. TypeOK'
      BY <1>0, <1>6, <2>2, <3>1 DEF Reopening, TypeOK, Places
    <3>3. Owed'
      BY <1>0, <1>6, <2>2 DEF Reopening, Owed
    <3>4. Asked'
      BY <2>2, <3>1 DEF Asked, NothingAsked
    <3> QED
      BY <3>2, <3>3, <3>4 DEF IInv
  <2> QED
    BY <1>6, <2>1, <2>2 DEF Reopening
<1>7. CASE ModelFails
  <2>1. session' \in Session /\ NothingAsked(session') /\ session'.status = "failed"
    BY <1>0, <1>7 DEF ModelFails, Session, NothingAsked, Asked
  <2>2. TypeOK'
    BY <1>0, <1>7, <2>1 DEF ModelFails, TypeOK, Places
  <2>3. Owed'
    BY <1>0, <1>7 DEF ModelFails, Owed
  <2>4. Asked'
    BY <1>7, <2>1 DEF ModelFails, Asked, NothingAsked
  <2> QED
    BY <2>2, <2>3, <2>4 DEF IInv
<1> QED
  BY <1>1, <1>2, <1>3, <1>4, <1>5, <1>6, <1>7
\* Between batches: a request goes out with the conversation cut to size, or none does.
LEMMA AskingKeeps == ASSUME IInv, Answer \/ AnswerAgain \/ Bounds PROVE IInv'
<1>0. /\ pc \in Places /\ model \in Allowances /\ loop \in Loop /\ batch \in Batch
      /\ convo \in Convo /\ session \in Session /\ Owed /\ Asked
  BY DEF IInv, TypeOK
<1>1. UNCHANGED model /\ loop' \in Loop
  <2>1. [loop EXCEPT !.offered = Advertised \cap Dom] \in Loop
    BY <1>0 DEF Loop
  <2> QED
    BY <1>0, <2>1 DEF Answer, AnswerAgain, Bounds, RunsOut, Asks
<1>2. CASE pc \in {"asked", "asked again"} /\ Takes(convo, FALSE) /\ UNCHANGED loop
  <2>1. NothingAsked(session)
    BY <1>0, <1>2 DEF Asked
  <2> QED
    BY <1>0, <1>1, <1>2, <2>1, TakesKeeps
\* Nothing waits for a reply, and the leg may ask on if nothing was asked of a person.
<1>a. ASSUME convo' \in Convo, convo'.owed = 0, NothingAsked(session), session.ran,
             pc' \in {"asked", "asked again"}, convo'.frames <= KeepFrames, UNCHANGED <<batch, session>>
      PROVE  IInv'
  <2>1. TypeOK'
    BY <1>0, <1>1, <1>a DEF TypeOK, Places
  <2>2. Owed' /\ Asked'
    BY <1>a DEF Owed, Asked, NothingAsked
  <2> QED
    BY <2>1, <2>2 DEF IInv
<1>b. ASSUME convo.owed = 0, pc' = "closing", UNCHANGED <<batch, convo>>,
             session' \in Session, session'.asks = session.asks,
             session'.takeover = session.takeover, session'.ran = session.ran
      PROVE  IInv'
  <2>1. TypeOK'
    BY <1>0, <1>1, <1>b DEF TypeOK, Places
  <2>2. Owed'
    BY <1>b DEF Owed
  <2>3. Asked'
    BY <1>0, <1>b DEF Asked, NothingAsked, OneAsked
  <2> QED
    BY <2>1, <2>2, <2>3 DEF IInv
<1>c. \A o \in {"refused", "step_cap", "timeout", "budget"} :
        LET s == [session EXCEPT !.outcome = o] IN
        /\ s \in Session /\ s.asks = session.asks /\ s.takeover = session.takeover
        /\ s.ran = session.ran
  BY <1>0 DEF Session
<1>3. CASE Answer \/ AnswerAgain
  <2>1. NothingAsked(session) /\ session.ran /\ convo.owed = 0
    BY <1>0, <1>3 DEF Answer, AnswerAgain, Asked, Owed
  <2>2. CASE pc' = "asked again" /\ convo' = Shrunken(convo) /\ UNCHANGED <<batch, session>>
    <3>1. PICK c \in Convo : c = Shrunken(convo) /\ c.owed = 0 /\ c.frames <= KeepFrames
      BY <1>0, <2>1, ShrunkenIs
    <3> QED
      BY <1>a, <2>1, <2>2, <3>1
  <2>3. CASE pc' = "closing" /\ UNCHANGED <<batch, convo>>
             /\ session' \in {session, [session EXCEPT !.outcome = "refused"]}
    BY <1>0, <1>b, <1>c, <2>1, <2>3
  <2> QED
    BY <1>2, <1>3, <2>2, <2>3 DEF Answer, AnswerAgain
<1>4. CASE Bounds
  <2>1. /\ pc = "batch" /\ batch.left = 0 /\ UNCHANGED batch
        /\ convo.owed = 0 /\ session.ran
    BY <1>0, <1>4 DEF Bounds, BatchDone, Owed, Asked
  <2>2. CASE /\ pc' = "closing" /\ UNCHANGED convo
             /\ session' = session \/ \E o \in {"step_cap", "timeout", "budget"} :
                                        session' = [session EXCEPT !.outcome = o]
    BY <1>0, <1>b, <1>c, <2>1, <2>2
  <2>3. CASE ~batch.terminal /\ pc' = "asked" /\ convo' = Shrunken(Observed) /\ UNCHANGED session
    <3> DEFINE f == convo.frames + (IF batch.screen \in {"now", "before"} THEN 1 ELSE 0)
    <3>1. Observed = [convo EXCEPT !.frames = f] /\ f \in Nat
      BY <1>0 DEF Observed, Convo
    <3> HIDE DEF f
    <3>2. PICK c \in Convo : c = Observed /\ c.owed = 0
      BY <1>0, <2>1, <3>1 DEF Convo
    <3>3. PICK d \in Convo : d = Shrunken(c) /\ d.owed = 0 /\ d.frames <= KeepFrames
      BY <3>2, ShrunkenIs
    <3>4. NothingAsked(session)
      BY <1>0, <2>1, <2>3 DEF Asked
    <3> QED
      BY <1>a, <2>1, <2>3, <3>2, <3>3, <3>4
  <2> QED
    BY <1>4, <2>2, <2>3 DEF Bounds, RunsOut, Asks
<1> QED
  BY <1>2, <1>3, <1>4 DEF Answer, AnswerAgain

\* The end of a leg: what was asked in the loop stands, and nothing is added to it.
LEMMA SettlingKeeps ==
  ASSUME IInv, Close \/ Intent \/ Draft \/ Settle \/ SaveLedger
  PROVE  IInv'
<1>0. /\ pc \in Places /\ model \in Allowances /\ loop \in Loop /\ batch \in Batch
      /\ convo \in Convo /\ session \in Session /\ Owed /\ Asked
      /\ session.asks \in Nat /\ session.takeover \in BOOLEAN
  BY DEF IInv, TypeOK, Session
<1>1. /\ UNCHANGED <<model, batch, convo>> /\ loop' \in Loop
      /\ pc \in {"closing", "answer", "draft", "settle", "settled"}
      /\ pc' \in {"draft", "settle", "settled", "ended"}
  <2>1. NewLoop(loop.booted) \in Loop
    BY <1>0 DEF NewLoop, Loop
  <2> QED
    BY <1>0, <2>1 DEF Close, Intent, Draft, Settle, SaveLedger
<1>2. Owed'
  BY <1>0, <1>1 DEF Owed
<1>3. ASSUME session' \in Session PROVE TypeOK'
  BY <1>0, <1>1, <1>3 DEF TypeOK, Places
<1>k. 0 + 1 = 1
  OBVIOUS
<1>4. ASSUME NEW n \in {session.asks, session.asks + 1}
      PROVE  LET s == [session EXCEPT !.asks = n] IN
             s \in Session /\ s.asks = n /\ s.takeover = session.takeover /\ s.ran = session.ran
  BY <1>0 DEF Session
<1>5. CASE Close
  <2>1. /\ session' \in Session /\ session'.asks = session.asks
        /\ session'.takeover = session.takeover /\ session'.ran = session.ran
        /\ pc' \in {"draft", "settle"}
    BY <1>0, <1>5 DEF Close, Session
  <2>2. Asked'
    BY <1>0, <2>1 DEF Asked, NothingAsked, OneAsked
  <2> QED
    BY <1>2, <1>3, <2>1, <2>2 DEF IInv
<1>6. CASE Intent
  <2>1. NothingAsked(session) /\ session.asks = 0
    BY <1>0, <1>6 DEF Intent, Asked, NothingAsked
  <2>2. session' = session \/ session' = [session EXCEPT !.asks = session.asks + 1]
    BY <1>6 DEF Intent
  <2>3. /\ session' \in Session /\ session'.asks \in {0, 1} /\ session'.takeover = session.takeover
        /\ session'.ran = session.ran
    BY <1>0, <1>4, <1>k, <2>1, <2>2
  <2>4. Asked'
    BY <1>0, <1>6, <2>1, <2>3 DEF Intent, Asked, NothingAsked, OneAsked
  <2> QED
    BY <1>2, <1>3, <2>3, <2>4 DEF IInv
<1>7. CASE Draft
  <2>1. /\ pc' = "settle"
        /\ \/ session' = [session EXCEPT !.asks = session.asks]
           \/ session.asks = 0 /\ ~session.ran /\ session' = [session EXCEPT !.asks = session.asks + 1]
    BY <1>0, <1>7 DEF Draft, Session
  <2>2. CASE session' = [session EXCEPT !.asks = session.asks]
    <3>1. /\ session' \in Session /\ session'.asks = session.asks
          /\ session'.takeover = session.takeover /\ session'.ran = session.ran
      BY <1>4, <2>2
    <3>2. Asked'
      BY <1>0, <2>1, <3>1 DEF Asked, NothingAsked, OneAsked
    <3> QED
      BY <1>2, <1>3, <3>1, <3>2 DEF IInv
  <2>3. CASE session.asks = 0 /\ ~session.ran /\ session' = [session EXCEPT !.asks = session.asks + 1]
    <3>1. /\ session' \in Session /\ session'.asks = 1
          /\ session'.takeover = session.takeover /\ session'.ran = session.ran
      BY <1>4, <1>k, <2>3
    <3>2. ~session.takeover
      BY <1>0, <2>3 DEF Asked
    <3>3. Asked'
      BY <2>1, <3>1, <3>2 DEF Asked, NothingAsked, OneAsked
    <3> QED
      BY <1>2, <1>3, <3>1, <3>3 DEF IInv
  <2> QED
    BY <2>1, <2>2, <2>3
<1>8. CASE Settle
  <2> DEFINE st == IF session.asks > 0 THEN "awaiting_approval"
                   ELSE IF session.takeover THEN "awaiting_human" ELSE "completed"
  <2>1. pc' = "settled" /\ session' = [session EXCEPT !.status = st]
    BY <1>8 DEF Settle
  <2>2. \/ session.asks = 1 /\ session.takeover = FALSE /\ st = "awaiting_approval"
        \/ session.asks = 0 /\ session.takeover = FALSE /\ st = "completed"
        \/ session.asks = 0 /\ session.takeover = TRUE /\ st = "awaiting_human"
    <3>1. \/ session.asks = 1 /\ session.takeover = FALSE
          \/ session.asks = 0 /\ session.takeover = FALSE
          \/ session.asks = 0 /\ session.takeover = TRUE
      BY <1>0 DEF Asked, NothingAsked, OneAsked
    <3>2. 1 > 0 /\ ~(0 > 0)
      OBVIOUS
    <3> QED
      BY <3>1, <3>2
  <2> HIDE DEF st
  <2>3. /\ session' \in Session /\ session'.asks = session.asks /\ session'.status = st
        /\ session'.takeover = session.takeover /\ session'.ran = session.ran
    BY <1>0, <2>1, <2>2 DEF Session
  <2>4. Says(session)'
    BY <1>0, <2>2, <2>3 DEF Says
  <2>5. Asked'
    BY <1>0, <2>1, <2>3, <2>4 DEF Asked, NothingAsked, OneAsked
  <2> QED
    BY <1>2, <1>3, <2>3, <2>5 DEF IInv
<1>9. CASE SaveLedger
  <2>1. /\ pc = "settled" /\ pc' = "ended"
        /\ session' = session \/ session' = [session EXCEPT !.status = "failed"]
    BY <1>9 DEF SaveLedger
  <2>2. CASE session' = session
    <3>1. Says(session)'
      BY <1>0, <2>1, <2>2 DEF Asked, Says
    <3>2. Asked'
      BY <1>0, <2>1, <2>2, <3>1 DEF Asked, NothingAsked, OneAsked
    <3> QED
      BY <1>0, <1>2, <1>3, <2>2, <3>2 DEF IInv
  <2>3. CASE session' = [session EXCEPT !.status = "failed"]
    <3>1. /\ session' \in Session /\ session'.asks = session.asks /\ session'.status = "failed"
          /\ session'.takeover = session.takeover /\ session'.ran = session.ran
      BY <1>0, <2>3 DEF Session
    <3>2. Asked'
      BY <1>0, <2>1, <3>1 DEF Asked, NothingAsked, OneAsked
    <3> QED
      BY <1>2, <1>3, <3>1, <3>2 DEF IInv
  <2> QED
    BY <2>1, <2>2, <2>3
<1> QED
  BY <1>5, <1>6, <1>7, <1>8, <1>9

LEMMA StepKeeps == IInv /\ [Next]_vars => IInv'
<1> SUFFICES ASSUME IInv, [Next]_vars PROVE IInv'
  OBVIOUS
<1>1. CASE Call
  BY <1>1, CallAnswered, AnsweredKeeps DEF IInv
<1>2. CASE UNCHANGED vars
  BY <1>2 DEF vars, IInv, TypeOK, Owed, Asked, NothingAsked, OneAsked, Says
<1> QED
  BY <1>1, <1>2, OpeningKeeps, AskingKeeps, SettlingKeeps DEF Next

LEMMA Invariant == Spec => []IInv
BY InitHolds, StepKeeps, PTL DEF Spec

------------------------------------------------------------------------------
(* The specification.                                                        *)

\* Every counter and every verdict of a leg keeps its type, whatever the model
\* answers; none of the debts and nudges that are counted down goes below zero.
THEOREM AgentLoopTypeCorrect == Spec => []TypeOK
<1>1. IInv => TypeOK
  BY DEF IInv
<1> QED
  BY <1>1, Invariant, PTL

\* No request goes to the model with a call that has no reply, and no more than the
\* newest frames go with it, whatever ended the batch before (the loop's tool
\* messages, prune_screenshots).
THEOREM RequestsAreWholeHolds == Spec => []RequestsAreWhole
<1>1. IInv => RequestsAreWhole
  BY DEF IInv, Owed, RequestsAreWhole
<1> QED
  BY <1>1, Invariant, PTL

\* A turn leaves at most one thing to a person, in the loop, in an answer or as a
\* draft, and the run's row says which (Draft's test of what the loop asked).
THEOREM OneAskHolds == Spec => []OneAsk
<1>1. IInv => OneAsk
  <2> SUFFICES ASSUME IInv PROVE OneAsk
    OBVIOUS
  <2>1. session.asks \in Nat /\ session.takeover \in BOOLEAN
    BY DEF IInv, TypeOK, Session
  <2>2. session.asks + (IF session.takeover THEN 1 ELSE 0) <= 1
    <3>1. \/ session.asks = 1 /\ session.takeover = FALSE
          \/ session.asks = 0 /\ session.takeover = FALSE
          \/ session.asks = 0 /\ session.takeover = TRUE
      BY <2>1 DEF IInv, Asked, NothingAsked, OneAsked
    <3> QED
      BY <3>1
  <2>3. pc = "ended" /\ session.status # "failed" => Says(session)
    BY DEF IInv, Asked
  <2> QED
    BY <2>2, <2>3 DEF OneAsk, Says
<1> QED
  BY <1>1, Invariant, PTL

\* Once a step was held or a takeover asked for, no later call of the same answer
\* does anything on the machine or replaces the verdict the leg parks under.
THEOREM NothingAfterAskingHolds == Spec => NothingAfterAsking
<1>1. IInv /\ [Next]_vars =>
        [pc = "batch" /\ (session.asks > 0 \/ session.takeover) =>
           loop' = loop /\ session'.outcome = session.outcome]_vars
  <2> SUFFICES ASSUME IInv, [Next]_vars, pc = "batch", session.asks > 0 \/ session.takeover
               PROVE  UNCHANGED <<loop, session>>
    BY DEF vars
  <2>1. batch.terminal
    BY DEF IInv, Asked, NothingAsked
  <2>2. CASE Call
    <3>1. Answered
      BY <2>2, CallAnswered DEF IInv
    <3> QED
      BY <2>1, <3>1 DEF Answered
  <2>3. CASE Bounds
    BY <2>1, <2>3 DEF Bounds
  <2>4. CASE UNCHANGED vars
    BY <2>4 DEF vars
  <2> QED
    BY <2>2, <2>3, <2>4 DEF Next, Seat, Route, Start, Gather, Opening, SecondChance, Reopening,
                            Answer, AnswerAgain, ModelFails, Close, Intent, Draft, Settle, SaveLedger
<1>2. Spec => [][pc = "batch" /\ (session.asks > 0 \/ session.takeover) =>
                   loop' = loop /\ session'.outcome = session.outcome]_vars
  BY <1>1, Invariant, PTL DEF Spec
<1> QED
  BY <1>2 DEF NothingAfterAsking

\* While the browser lane is lost, no request offers a tool of the page.
Lane == loop.met = 0 \/ (loop.met = 1 /\ loop.absent /\ loop.offered = {})

\* Whether the lane is lost, and what was offered, is settled by nothing but a step that
\* finds it lost, a request, and the end of the leg.
SameLane(l) == l.met = loop.met /\ l.absent = loop.absent /\ l.offered = loop.offered

LEMMA WatchedKeepsLane ==
  ASSUME NEW l \in Loop, NEW kind, NEW lane \in {"screen", "dom"},
         NEW seen \in BOOLEAN, NEW same \in BOOLEAN
  PROVE  LET w == Watched(l, kind, lane, seen, same) IN
         w \in Loop /\ w.met = l.met /\ w.absent = l.absent /\ w.offered = l.offered
<1>1. Watched(l, kind, lane, seen, same) \in Loop
  BY WatchedIs
<1>2. \E i, p, k : Watched(l, kind, lane, seen, same) = [l EXCEPT !.idle = i, !.last = p, !.looks = k]
  <2>1. CASE kind \in Looks
    <3>1. PICK i, p, k : /\ i = (IF seen /\ same /\ l.last = lane THEN l.idle + 1 ELSE 1)
                         /\ p = (IF seen THEN lane ELSE "none") /\ k = l.looks + 1
      OBVIOUS
    <3>2. Watched(l, kind, lane, seen, same) = [l EXCEPT !.idle = i, !.last = p, !.looks = k]
      BY <2>1, <3>1 DEF Watched
    <3> QED
      BY <3>2
  <2>2. CASE kind \notin Looks
    BY <2>2 DEF Watched
  <2> QED
    BY <2>1, <2>2
<1>3. PICK i, p, k : Watched(l, kind, lane, seen, same) = [l EXCEPT !.idle = i, !.last = p, !.looks = k]
  BY <1>2
<1>4. LET w == [l EXCEPT !.idle = i, !.last = p, !.looks = k] IN
      w.met = l.met /\ w.absent = l.absent /\ w.offered = l.offered
  BY DEF Loop
<1> QED
  BY <1>1, <1>3, <1>4

LEMMA CallKeepsLane ==
  ASSUME TypeOK, Call, \A kind \in Dom : ~Degrades(kind)
  PROVE  SameLane(loop')
<1>0. loop \in Loop /\ SameLane(loop)
  BY DEF TypeOK, SameLane
<1>1. ASSUME NEW kind PROVE Up(kind) \in Loop /\ SameLane(Up(kind))
  <2>1. Up(kind) \in Loop
    BY UpIs
  <2> QED
    BY <1>0, <2>1 DEF Up, SameLane, Loop
<1>2. ASSUME NEW l \in Loop, NEW kind, NEW lane \in {"screen", "dom"}, NEW seen \in BOOLEAN,
             NEW same \in BOOLEAN, SameLane(l)
      PROVE  SameLane(Watched(l, kind, lane, seen, same)) /\ Watched(l, kind, lane, seen, same) \in Loop
  BY <1>2, WatchedKeepsLane DEF SameLane
<1>3. CASE Skip \/ Garbled \/ Complete \/ Takeover \/ Delegate \/ File \/ Unknown
  BY <1>0, <1>3 DEF Skip, Garbled, Complete, Takeover, Delegate, File, Unknown, SameLane, Loop
<1>4. ASSUME NEW kind, QueryRefused(kind) \/ BootFails(kind) \/ Held(kind) \/ Fails(kind) \/ Stops
      PROVE  SameLane(loop')
  <2>1. CASE QueryRefused(kind) \/ BootFails(kind)
    BY <1>0, <2>1 DEF QueryRefused, BootFails, SameLane, Loop
  <2>2. CASE Held(kind)
    BY <1>1, <2>2 DEF Held
  <2>3. CASE Fails(kind)
    <3>1. PICK n, b : loop' = [Up(kind) EXCEPT !.failures = n, !.booted = b]
      BY <2>3 DEF Fails
    <3> QED
      BY <1>1, <3>1 DEF SameLane, Loop
  <2>4. CASE Stops
    <3>1. loop' = [Up("stop") EXCEPT !.failures = 0, !.booted = FALSE]
      BY <2>4 DEF Stops
    <3> QED
      BY <1>1, <3>1 DEF SameLane, Loop
  <2> QED
    BY <1>4, <2>1, <2>2, <2>3, <2>4
<1>5. ASSUME NEW kind, PixelStep(kind) PROVE SameLane(loop')
  <2> DEFINE l == [Up(kind) EXCEPT !.booted = TRUE, !.failures = 0]
  <2>1. l \in Loop /\ SameLane(l)
    BY <1>1 DEF Loop, SameLane
  <2>2. PICK seen \in BOOLEAN, same \in BOOLEAN : Photographed(kind, l, seen, same)
    BY <1>5 DEF PixelStep
  <2> HIDE DEF l
  <2> DEFINE w == Watched(l, kind, "screen", seen, same)
  <2>3. w \in Loop /\ SameLane(w)
    BY <1>2, <2>1
  <2>4. PICK u : loop' = [w EXCEPT !.unchanged = u, !.framed = seen]
    BY <2>2 DEF Photographed
  <2> HIDE DEF w
  <2> QED
    BY <2>3, <2>4 DEF Loop, SameLane
<1>6. ASSUME NEW kind, DomStep(kind) PROVE SameLane(loop')
  <2> DEFINE l == [Up(kind) EXCEPT !.failures = 0, !.fallbacks = 0]
  <2>1. l \in Loop /\ SameLane(l)
    BY <1>1 DEF Loop, SameLane
  <2>2. PICK same \in BOOLEAN : loop' = Watched(l, kind, "dom", TRUE, same)
    BY <1>6 DEF DomStep
  <2> HIDE DEF l
  <2> QED
    BY <1>2, <2>1, <2>2
<1> QED
  BY <1>3, <1>4, <1>5, <1>6 DEF Call

LEMMA DegradesKeepsLane ==
  ASSUME TypeOK, Lane, NEW kind \in Dom, Degrades(kind)
  PROVE  Lane'
<1> DEFINE n == loop.fallbacks + 1
           m == Meets(kind, Up(kind))
           l == [m EXCEPT !.fallbacks = n, !.absent = TRUE]
<1>1. /\ Up(kind) \in Loop /\ Up(kind).met = loop.met /\ Up(kind).offered = loop.offered
      /\ Up(kind).absent = loop.absent
  BY UpIs DEF TypeOK, Up, Loop
<1>2. /\ m \in Loop
      /\ m.met = 0 \/ (m.met = 1 /\ m.offered = {})
  BY <1>1, MeetsIs DEF Lane, Loop
<1>3. loop' = l \/ \E seen, same \in BOOLEAN : Photographed("act", l, seen, same)
  BY DEF Degrades
<1>n. n \in Nat
  BY DEF TypeOK, Loop
<1> HIDE DEF n, m
<1>4. l \in Loop /\ l.absent /\ l.met = m.met /\ l.offered = m.offered
  BY <1>2, <1>n DEF Loop
<1> HIDE DEF l
<1>5. ASSUME NEW seen \in BOOLEAN, NEW same \in BOOLEAN, Photographed("act", l, seen, same)
      PROVE  loop'.met = l.met /\ loop'.absent = l.absent /\ loop'.offered = l.offered
  <2>1. PICK w \in Loop : /\ w = Watched(l, "act", "screen", seen, same)
                          /\ w.met = l.met /\ w.absent = l.absent /\ w.offered = l.offered
    <3>1. l \in Loop
      BY <1>4
    <3> QED
      BY ONLY <3>1, WatchedKeepsLane, seen \in BOOLEAN, same \in BOOLEAN
  <2>2. PICK u : loop' = [w EXCEPT !.unchanged = u, !.framed = seen]
    BY <1>5, <2>1 DEF Photographed
  <2> QED
    BY <2>1, <2>2 DEF Loop
<1> QED
  BY <1>2, <1>3, <1>4, <1>5 DEF Lane

\* A model that keeps to the tools its requests offered finds the browser lane lost in
\* one answer of a leg at most, whatever works or fails after it and whatever references
\* the leg still holds (browser_absent, recomputed into every tool_context).
THEOREM LossIsMetOnceHolds == Spec => []LossIsMetOnce
<1>1. Init => Lane
  BY DEF Init, NewLoop, Lane
<1>2. IInv /\ Lane /\ [Next]_vars => Lane'
  <2> SUFFICES ASSUME IInv, Lane, [Next]_vars PROVE Lane'
    OBVIOUS
  <2>0. TypeOK /\ loop \in Loop
    BY DEF IInv, TypeOK
  <2>1. CASE Call
    BY <2>0, <2>1, CallKeepsLane, DegradesKeepsLane DEF SameLane, Lane
  <2>2. CASE Bounds
    <3>1. loop' \in {loop, [loop EXCEPT !.offered = Advertised \cap Dom]}
      BY <2>2 DEF Bounds, RunsOut, Asks
    <3>2. loop.absent => Advertised \cap Dom = {}
      BY DEF Advertised, PixelEssentials, Dom
    <3> HIDE DEF Advertised
    <3> QED
      BY <2>0, <3>1, <3>2 DEF Lane, Loop
  <2>3. CASE Close
    BY <2>3 DEF Close, NewLoop, Lane
  <2>4. CASE UNCHANGED loop
    BY <2>4 DEF Lane
  <2> QED
    BY <2>1, <2>2, <2>3, <2>4 DEF Next, vars, Seat, Route, Start, Gather, Opening, SecondChance,
       Reopening, Answer, AnswerAgain, ModelFails, Intent, Draft, Settle, SaveLedger
<1>3. IInv /\ Lane => LossIsMetOnce
  BY DEF Lane, LossIsMetOnce
<1> QED
  BY <1>1, <1>2, <1>3, Invariant, PTL DEF Spec

------------------------------------------------------------------------------
(* The model router: what holds of a call wherever it is.                   *)

Legs == {"idle", "place", "mock", "create", "stream", "record", "failed"}
Fragments == [of : 0 .. 2, parts : Nat]
Results == [req : Nat, model : Models, tier : Tiers, calls : Calls]
Turning ==
    [pc : Legs, req : Nat, stream : BOOLEAN, pinned : BOOLEAN, tier : Tiers, model : Models,
     key : Nat, effort : BOOLEAN, tries : Nat, asked : Seq(Models), said : Calls,
     sent : [1 .. 2 -> Fragments], text : BOOLEAN, heard : [0 .. 2 -> Fragments],
     result : Results \cup {None}]

RouterTypeOK ==
    /\ site \in [wire : AllWires, alt : BOOLEAN, below : BOOLEAN]
    /\ stored \in Nat /\ known \in Nat /\ keys \in Nat /\ asks \in Nat
    /\ saving \in Nat \cup {None}
    /\ client \in Nat \cup {None}
    /\ refused \in SUBSET Models
    /\ listing \in {"none", "listed", "failed"}
    /\ turn \in [Turns -> Turning]

\* What a call was sent to so far, and what it is sent to now.
Routed(x, c) ==
    /\ x.pinned => \A i \in 1 .. Len(x.asked) : x.asked[i] = "pinned"
    /\ x.pinned \/ x.stream => Len(x.asked) <= 1
    /\ ~x.pinned =>
          \/ Begins(x.asked, <<"mini">>)
          \/ Begins(x.asked, IF c.alt THEN <<"reason", "alt", "mini">> ELSE <<"reason", "mini">>)
    /\ x.pc = "place" => x.pinned /\ x.asked = <<>> /\ x.model = "pinned"
    /\ x.pc \in {"mock", "create", "stream"} =>
          Len(x.asked) # 0 /\ x.asked[Len(x.asked)] = x.model

\* The tier a call is priced at is one that may cost what its model does.
Priced(x) == x.tier \in PriceOf(x.model)

\* Where the folded call n is to be found.
SlotOf(x, n) == IF x.text THEN n ELSE n - 1

\* The calls of an answer are numbered as the model made them.
Numbered(x) == \A n \in DOMAIN x.said : x.said[n].of = n

\* Each slot of the buffer holds what has been sent of its call, and the one that is
\* no call's nothing.
Folding(x, c) ==
    /\ x.text => c.wire = "anthropic"
    /\ \A n \in 1 .. 2 :
          /\ x.heard[SlotOf(x, n)] = x.sent[n]
          /\ x.sent[n] = Free \/ (n \in DOMAIN x.said /\ x.sent[n].of = n)
          /\ n \in DOMAIN x.said => x.sent[n].parts <= x.said[n].parts
    /\ x.heard[IF x.text THEN 0 ELSE 2] = Free

\* What a call is like before it has been answered.
Fresh(x) == /\ x.said = <<>> /\ x.sent = [n \in 1 .. 2 |-> Free]
            /\ x.heard = Empty /\ ~x.text

Turned(x, c) ==
    /\ Routed(x, c)
    /\ Priced(x)
    /\ Numbered(x)
    /\ x.pc \in {"idle", "place", "mock", "create"} => Fresh(x)
    /\ x.pc = "stream" => Folding(x, c)
    /\ x.pc = "record" => /\ x.result \in Results
                          /\ x.result.calls = x.said
                          /\ x.result.tier \in PriceOf(x.result.model)

RouterIInv == RouterTypeOK /\ \A t \in Turns : Turned(turn[t], site)

------------------------------------------------------------------------------
LEMMA FreeIs == Free \in Fragments /\ Free.of = 0 /\ Free.parts = 0
BY DEF Free, Fragments

LEMMA NoCalls == <<>> \in Calls /\ DOMAIN <<>> = {}
<1>1. <<>> \in [1 .. 0 -> ToolCall]
  OBVIOUS
<1>2. 0 \in 0 .. 2
  OBVIOUS
<1> QED
  BY <1>1, <1>2 DEF Calls

LEMMA IdleIs ==
  /\ Idle \in Turning
  /\ \A c : Turned(Idle, c)
<1>1. Empty \in [0 .. 2 -> Fragments] /\ [n \in 1 .. 2 |-> Free] \in [1 .. 2 -> Fragments]
  BY FreeIs DEF Empty
<1>2. <<>> \in Seq(Models) /\ Len(<<>>) = 0
  OBVIOUS
<1>3. Idle \in Turning
  BY <1>1, <1>2, NoCalls DEF Idle, Turning, Legs, Models, Tiers
<1>4. ASSUME NEW c
      PROVE  Turned(Idle, c)
  <2>1. Routed(Idle, c)
    BY <1>2 DEF Idle, Routed, Begins
  <2>2. Priced(Idle)
    BY DEF Idle, Priced, PriceOf
  <2>3. Numbered(Idle)
    BY NoCalls DEF Idle, Numbered
  <2> QED
    BY <2>1, <2>2, <2>3 DEF Idle, Turned, Fresh
<1> QED
  BY <1>3, <1>4

\* A call that fails keeps what it was sent to.
LEMMA FailingIs ==
  ASSUME NEW x \in Turning, NEW c, Routed(x, c)
  PROVE  Failing(x) \in Turning /\ Turned(Failing(x), c) /\ Failing(x).req = x.req
<1>1. x.asked \in Seq(Models) /\ x.pinned \in BOOLEAN /\ x.stream \in BOOLEAN /\ x.req \in Nat
  BY DEF Turning
<1> DEFINE y == Failing(x)
<1>2. y \in Turning
  BY <1>1, IdleIs DEF Failing, Turning, Legs
<1>3. /\ y.pc = "failed" /\ y.asked = x.asked /\ y.pinned = x.pinned /\ y.stream = x.stream
      /\ y.req = x.req /\ y.tier = "mini" /\ y.model = "mini" /\ y.said = <<>>
  BY DEF Failing, Idle
<1> HIDE DEF y
<1>4. Routed(y, c)
  BY <1>3 DEF Routed
<1>5. Priced(y) /\ Numbered(y)
  BY <1>3, NoCalls DEF Priced, PriceOf, Numbered
<1>6. Turned(y, c)
  BY <1>3, <1>4, <1>5 DEF Turned
<1> QED
  BY <1>2, <1>3, <1>6 DEF y

\* A call that returns brings its own answer.
LEMMA ReturnsIs ==
  ASSUME NEW x \in Turning, NEW c, Routed(x, c), Priced(x), Numbered(x)
  PROVE  /\ Returns(x, x.said) \in Turning
         /\ Turned(Returns(x, x.said), c)
         /\ Returns(x, x.said).req = x.req
<1>1. /\ x.asked \in Seq(Models) /\ x.pinned \in BOOLEAN /\ x.stream \in BOOLEAN /\ x.req \in Nat
      /\ x.said \in Calls /\ x.model \in Models /\ x.tier \in Tiers
  BY DEF Turning
<1> DEFINE r == ResultOf(x, x.said)
<1>r. /\ r \in Results /\ r.calls = x.said /\ r.tier = x.tier /\ r.model = x.model
  BY <1>1 DEF ResultOf, Results
<1> DEFINE y == Returns(x, x.said)
<1>2. y = [Idle EXCEPT !.pc = "record", !.req = x.req, !.stream = x.stream, !.pinned = x.pinned,
                 !.asked = x.asked, !.said = x.said, !.result = r]
  BY DEF Returns
<1> HIDE DEF r
<1>3. y \in Turning
  BY <1>1, <1>r, <1>2, IdleIs DEF Turning, Legs
<1>4. /\ y.pc = "record" /\ y.asked = x.asked /\ y.pinned = x.pinned /\ y.stream = x.stream
      /\ y.req = x.req /\ y.tier = "mini" /\ y.model = "mini" /\ y.said = x.said /\ y.result = r
  BY <1>2 DEF Idle
<1> HIDE DEF y
<1>5. Routed(y, c)
  BY <1>4 DEF Routed
<1>6. Priced(y) /\ Numbered(y)
  BY <1>4 DEF Priced, PriceOf, Numbered
<1>7. r.tier \in PriceOf(r.model)
  BY <1>r DEF Priced
<1>8. Turned(y, c)
  BY <1>4, <1>5, <1>6, <1>7, <1>r DEF Turned
<1> QED
  BY <1>3, <1>4, <1>8 DEF y

\* A turn's step leaves the others as they are.
LEMMA OneTurn ==
  ASSUME RouterIInv, NEW t \in Turns, NEW y \in Turning, Turned(y, site),
         turn' = [turn EXCEPT ![t] = y], site' = site
  PROVE  /\ turn' \in [Turns -> Turning]
         /\ \A s \in Turns : Turned(turn'[s], site')
BY DEF RouterIInv, RouterTypeOK

\* A step of a call keeps the invariant if the call keeps it.
LEMMA OneStep ==
  ASSUME RouterIInv, NEW t \in Turns, NEW y \in Turning, Turned(y, site),
         turn' = [turn EXCEPT ![t] = y], UNCHANGED <<site, credentials, asks>>,
         client' \in Nat \cup {None}, refused' \in SUBSET Models,
         listing' \in {"none", "listed", "failed"}
  PROVE  RouterIInv'
<1>1. turn' \in [Turns -> Turning] /\ \A s \in Turns : Turned(turn'[s], site')
  BY OneTurn
<1>2. RouterTypeOK'
  BY <1>1 DEF RouterIInv, RouterTypeOK, credentials
<1> QED
  BY <1>1, <1>2 DEF RouterIInv

\* What the invariant says of one turn.
LEMMA TheTurn ==
  ASSUME RouterIInv, NEW t \in Turns
  PROVE  turn[t] \in Turning /\ Turned(turn[t], site)
BY DEF RouterIInv, RouterTypeOK

------------------------------------------------------------------------------
(* Every step keeps it.                                                     *)

LEMMA RouterInitOK == RouterInit => RouterIInv
<1> SUFFICES ASSUME RouterInit
             PROVE  RouterIInv
  OBVIOUS
<1>1. RouterTypeOK
  BY IdleIs, ModelRouterAssumption DEF RouterInit, RouterTypeOK
<1>2. \A t \in Turns : turn[t] = Idle
  BY DEF RouterInit
<1> QED
  BY <1>1, <1>2, IdleIs DEF RouterIInv

\* Keys come and go beside the calls.
LEMMA KeysOK ==
  ASSUME RouterIInv, Save \/ Delete \/ Saved \/ SaveElsewhere \/ Reload
  PROVE  RouterIInv'
<1>1. UNCHANGED <<site, turn>>
  BY DEF Save, Delete, Saved, SaveElsewhere, Reload
<1>2. RouterTypeOK'
  BY <1>1 DEF RouterIInv, RouterTypeOK, Save, Delete, Saved, SaveElsewhere, Reload
<1>3. \A t \in Turns : Turned(turn[t], site)
  BY DEF RouterIInv
<1>4. \A t \in Turns : Turned(turn'[t], site')
  BY <1>1, <1>3
<1> QED
  BY <1>2, <1>4 DEF RouterIInv

LEMMA CachedIs == ASSUME RouterTypeOK PROVE Cached \in Nat
BY DEF RouterTypeOK, Cached

\* A call that was sent to one model only, its own.
LEMMA SentToOne ==
  ASSUME NEW x \in Turning, NEW c, x.asked = <<x.model>>,
         x.pinned <=> x.model = "pinned", x.model # "alt", x.pc # "place"
  PROVE  Routed(x, c)
<1>1. x.model \in Models /\ x.pinned \in BOOLEAN
  BY DEF Turning
<1>2. Len(x.asked) = 1 /\ x.asked[1] = x.model
  OBVIOUS
<1>3. /\ Len(<<"mini">>) = 1 /\ <<"mini">>[1] = "mini"
      /\ Len(<<"reason", "mini">>) = 2 /\ <<"reason", "mini">>[1] = "reason"
      /\ Len(<<"reason", "alt", "mini">>) = 3 /\ <<"reason", "alt", "mini">>[1] = "reason"
  OBVIOUS
<1>4. CASE x.model = "pinned"
  BY <1>2, <1>4 DEF Routed
<1>5. CASE x.model = "mini"
  <2>1. Begins(x.asked, <<"mini">>)
    BY <1>2, <1>3, <1>5 DEF Begins
  <2> QED
    BY <1>2, <1>5, <2>1 DEF Routed
<1>6. CASE x.model = "reason"
  <2>1. Begins(x.asked, <<"reason", "mini">>) /\ Begins(x.asked, <<"reason", "alt", "mini">>)
    BY <1>2, <1>3, <1>6 DEF Begins
  <2> QED
    BY <1>2, <1>6, <2>1 DEF Routed
<1> QED
  BY <1>1, <1>4, <1>5, <1>6 DEF Models

LEMMA FreshTurned ==
  ASSUME NEW x \in Turning, NEW c, Fresh(x), Routed(x, c), Priced(x),
         x.pc \in {"place", "mock", "create"}
  PROVE  Turned(x, c)
BY NoCalls DEF Fresh, Turned, Numbered

LEMMA OneModel == ASSUME NEW m \in Models PROVE <<m>> \in Seq(Models)
OBVIOUS

LEMMA AskOK ==
  ASSUME RouterIInv, NEW t \in Turns, Ask(t)
  PROVE  RouterIInv'
<1>i. RouterTypeOK
  BY DEF RouterIInv
<1>0. PICK stream \in BOOLEAN, pinned \in BOOLEAN, tier \in Tiers :
         LET first == IF pinned THEN "pinned" ELSE tier
             x == [Idle EXCEPT !.req = asks + 1, !.stream = stream, !.pinned = pinned,
                               !.tier = tier, !.model = first, !.effort = first \notin refused]
             canned == Cached = 0 \/ (first = "mini" /\ ~site.below)
         IN IF pinned /\ site.wire = "openai" /\ listing = "none"
            THEN turn' = [turn EXCEPT ![t] = [x EXCEPT !.pc = "place"]] /\ UNCHANGED client
            ELSE /\ client' = Cached
                 /\ turn' = [turn EXCEPT ![t] =
                       [x EXCEPT !.pc = IF canned THEN "mock" ELSE "create",
                                 !.key = Cached, !.asked = <<first>>]]
  BY Zenon DEF Ask
<1>m. PICK first \in Models : first = IF pinned THEN "pinned" ELSE tier
  BY DEF Tiers, Models
<1> DEFINE x == [Idle EXCEPT !.req = asks + 1, !.stream = stream, !.pinned = pinned,
                             !.tier = tier, !.model = first, !.effort = first \notin refused]
           canned == Cached = 0 \/ (first = "mini" /\ ~site.below)
<1>2. /\ x \in Turning /\ x.asked = <<>> /\ x.pinned = pinned /\ x.model = first
      /\ x.tier = tier /\ Fresh(x)
  <2>1. asks + 1 \in Nat /\ (first \notin refused) \in BOOLEAN
    BY <1>i DEF RouterTypeOK
  <2>2. x \in Turning
    BY <2>1, IdleIs DEF Turning
  <2>3. /\ x.asked = <<>> /\ x.pinned = pinned /\ x.model = first /\ x.tier = tier
        /\ x.said = <<>> /\ x.sent = [n \in 1 .. 2 |-> Free] /\ x.heard = Empty /\ ~x.text
    BY DEF Idle
  <2> QED
    BY <2>2, <2>3 DEF Fresh
<1>3. \/ turn' = [turn EXCEPT ![t] = [x EXCEPT !.pc = "place"]] /\ pinned
      \/ turn' = [turn EXCEPT ![t] =
                        [x EXCEPT !.pc = IF canned THEN "mock" ELSE "create",
                                  !.key = Cached, !.asked = <<first>>]]
  BY <1>0, <1>m
<1>4. client' \in Nat \cup {None}
  BY <1>0, <1>i, CachedIs DEF RouterTypeOK
<1> HIDE DEF x
<1>5. \E y \in Turning : turn' = [turn EXCEPT ![t] = y] /\ Turned(y, site)
  <2>1. CASE turn' = [turn EXCEPT ![t] = [x EXCEPT !.pc = "place"]] /\ pinned
    <3> DEFINE y == [x EXCEPT !.pc = "place"]
    <3>1. y \in Turning
      BY <1>2 DEF Turning, Legs
    <3>2. /\ y.pc = "place" /\ y.asked = <<>> /\ y.pinned /\ y.model = "pinned" /\ Fresh(y)
      BY <1>m, <1>2, <2>1 DEF Turning, Fresh
    <3> HIDE DEF y
    <3>3. Routed(y, site)
      BY <3>2 DEF Routed
    <3>4. Priced(y)
      BY <3>1, <3>2 DEF Priced, PriceOf, Turning
    <3>5. Turned(y, site)
      BY <3>1, <3>2, <3>3, <3>4, FreshTurned
    <3> QED
      BY <2>1, <3>1, <3>5 DEF y
  <2>2. ASSUME turn' = [turn EXCEPT ![t] =
                        [x EXCEPT !.pc = IF canned THEN "mock" ELSE "create",
                                  !.key = Cached, !.asked = <<first>>]]
        PROVE  \E y \in Turning : turn' = [turn EXCEPT ![t] = y] /\ Turned(y, site)
    <3>0. PICK k \in Nat : k = Cached
      BY <1>i, CachedIs
    <3>p. PICK p \in {"mock", "create"} : p = IF canned THEN "mock" ELSE "create"
      OBVIOUS
    <3>a. PICK a \in Seq(Models) : a = <<first>>
      BY OneModel
    <3> DEFINE y == [x EXCEPT !.pc = p, !.key = k, !.asked = a]
    <3>1. y \in Turning
      BY <1>2 DEF Turning, Legs
    <3>2. /\ y.pc \in {"mock", "create"} /\ y.asked = <<first>> /\ y.pinned = pinned
          /\ y.model = first /\ y.tier = tier /\ Fresh(y)
      BY <1>2, <3>a DEF Turning, Fresh
    <3>y. turn' = [turn EXCEPT ![t] = y]
      BY <2>2, <3>0, <3>p, <3>a
    <3> HIDE DEF y
    <3>3. Routed(y, site)
      BY <1>m, <3>1, <3>2, SentToOne DEF Tiers
    <3>4. Priced(y)
      BY <1>m, <3>2 DEF Priced, PriceOf, Tiers
    <3>5. Turned(y, site)
      BY <3>1, <3>2, <3>3, <3>4, FreshTurned
    <3> QED
      BY <3>y, <3>1, <3>5
  <2> QED
    BY <1>3, <2>1, <2>2
<1>6. asks' = asks + 1 /\ UNCHANGED <<site, credentials, refused, listing>>
  BY DEF Ask
<1>7. turn' \in [Turns -> Turning] /\ \A s \in Turns : Turned(turn'[s], site')
  BY <1>5, <1>6, OneTurn
<1>8. RouterTypeOK'
  BY <1>i, <1>4, <1>6, <1>7 DEF RouterTypeOK, credentials
<1> QED
  BY <1>7, <1>8 DEF RouterIInv

LEMMA PlaceOK ==
  ASSUME RouterIInv, NEW t \in Turns, Place(t)
  PROVE  RouterIInv'
<1>i. RouterTypeOK /\ turn \in [Turns -> Turning]
  BY DEF RouterIInv, RouterTypeOK
<1>1. PICK x \in Turning : x = turn[t] /\ Turned(x, site) /\ x.pc = "place"
  BY TheTurn DEF Place, At
<1>2. PICK k \in Nat : k = Cached
  BY <1>i, CachedIs
<1>3. PICK p \in {"mock", "create"} : p = IF Cached = 0 THEN "mock" ELSE "create"
  OBVIOUS
<1>4. PICK a \in Seq(Models) : a = <<"pinned">>
  BY OneModel DEF Models
<1> DEFINE y == [x EXCEPT !.pc = p, !.key = k, !.asked = a]
<1>5. turn' = [turn EXCEPT ![t].pc = p, ![t].key = k, ![t].asked = a]
  BY <1>2, <1>3, <1>4 DEF Place
<1>6. turn' = [turn EXCEPT ![t] = y]
  BY <1>i, <1>1, <1>5
<1>7. y \in Turning
  BY DEF Turning, Legs
<1>8. x.pinned /\ x.model = "pinned" /\ Fresh(x) /\ Priced(x)
  BY <1>1 DEF Turned, Routed
<1>9. /\ y.pc \in {"mock", "create"} /\ y.asked = <<"pinned">> /\ y.pinned
      /\ y.model = "pinned" /\ y.tier = x.tier /\ Fresh(y)
  BY <1>4, <1>8 DEF Turning, Fresh
<1> HIDE DEF y
<1>10. Routed(y, site)
  BY <1>7, <1>9, SentToOne
<1>11. Priced(y)
  BY <1>8, <1>9 DEF Priced
<1>12. Turned(y, site)
  BY <1>7, <1>9, <1>10, <1>11, FreshTurned
<1>13. /\ UNCHANGED <<site, credentials, asks>> /\ client' \in Nat \cup {None}
       /\ refused' \in SUBSET Models /\ listing' \in {"none", "listed", "failed"}
  BY <1>i, <1>2 DEF Place, RouterTypeOK
<1> QED
  BY <1>6, <1>7, <1>12, <1>13, OneStep

LEMMA MockOK ==
  ASSUME RouterIInv, NEW t \in Turns, Mock(t)
  PROVE  RouterIInv'
<1>1. PICK x \in Turning : x = turn[t] /\ Turned(x, site) /\ x.pc = "mock"
  BY TheTurn DEF Mock, At
<1>2. Routed(x, site) /\ Priced(x) /\ Numbered(x) /\ x.said = <<>>
  BY <1>1 DEF Turned, Fresh
<1>3. turn' = [turn EXCEPT ![t] = Returns(x, x.said)]
  BY <1>1, <1>2 DEF Mock
<1>4. Returns(x, x.said) \in Turning /\ Turned(Returns(x, x.said), site)
  BY <1>2, ReturnsIs
<1>5. /\ UNCHANGED <<site, credentials, asks>> /\ client' \in Nat \cup {None}
      /\ refused' \in SUBSET Models /\ listing' \in {"none", "listed", "failed"}
  BY DEF Mock, RouterIInv, RouterTypeOK
<1> QED
  BY <1>3, <1>4, <1>5, OneStep

\* The steps after which a call fails.
LEMMA FailOK ==
  ASSUME RouterIInv, NEW t \in Turns, Fail(t) \/ Break(t)
  PROVE  RouterIInv'
<1>1. PICK x \in Turning : x = turn[t] /\ Turned(x, site)
  BY TheTurn
<1>2. Routed(x, site)
  BY <1>1 DEF Turned
<1>3. turn' = [turn EXCEPT ![t] = Failing(x)]
  BY <1>1 DEF Fail, Break
<1>4. Failing(x) \in Turning /\ Turned(Failing(x), site)
  BY <1>2, FailingIs
<1>5. /\ UNCHANGED <<site, credentials, asks>> /\ client' \in Nat \cup {None}
      /\ refused' \in SUBSET Models /\ listing' \in {"none", "listed", "failed"}
  BY DEF Fail, Break, RouterIInv, RouterTypeOK
<1> QED
  BY <1>3, <1>4, <1>5, OneStep

\* The steps after which the turn goes on.
LEMMA BackOK ==
  ASSUME RouterIInv, NEW t \in Turns, Record(t) \/ GiveUp(t)
  PROVE  RouterIInv'
<1>1. turn' = [turn EXCEPT ![t] = Idle]
  BY DEF Record, GiveUp
<1>2. /\ UNCHANGED <<site, credentials, asks>> /\ client' \in Nat \cup {None}
      /\ refused' \in SUBSET Models /\ listing' \in {"none", "listed", "failed"}
  BY DEF Record, GiveUp, RouterIInv, RouterTypeOK
<1> QED
  BY <1>1, <1>2, IdleIs, OneStep

LEMMA RefuseEffortOK ==
  ASSUME RouterIInv, NEW t \in Turns, RefuseEffort(t)
  PROVE  RouterIInv'
<1>i. RouterTypeOK /\ turn \in [Turns -> Turning]
  BY DEF RouterIInv, RouterTypeOK
<1>1. PICK x \in Turning : x = turn[t] /\ Turned(x, site) /\ x.pc = "create"
  BY TheTurn DEF RefuseEffort, At
<1> DEFINE y == [x EXCEPT !.effort = FALSE, !.tries = 0]
<1>2. turn' = [turn EXCEPT ![t] = y]
  BY <1>i, <1>1 DEF RefuseEffort
<1>3. y \in Turning
  BY DEF Turning
<1>4. /\ y.pc = "create" /\ y.asked = x.asked /\ y.pinned = x.pinned /\ y.stream = x.stream
      /\ y.model = x.model /\ y.tier = x.tier /\ y.said = x.said /\ y.sent = x.sent
      /\ y.heard = x.heard /\ y.text = x.text
  BY <1>1 DEF Turning
<1>5. Routed(x, site) /\ Priced(x) /\ Fresh(x)
  BY <1>1 DEF Turned
<1> HIDE DEF y
<1>6. Routed(y, site)
  BY <1>1, <1>4, <1>5 DEF Routed
<1>7. Priced(y) /\ Fresh(y)
  BY <1>4, <1>5 DEF Priced, Fresh
<1>8. Turned(y, site)
  BY <1>3, <1>4, <1>6, <1>7, FreshTurned
<1>9. x.model \in Models
  BY DEF Turning
<1>10. /\ UNCHANGED <<site, credentials, asks>> /\ client' \in Nat \cup {None}
       /\ refused' \in SUBSET Models /\ listing' \in {"none", "listed", "failed"}
  BY <1>i, <1>1, <1>9 DEF RefuseEffort, RouterTypeOK
<1> QED
  BY <1>2, <1>3, <1>8, <1>10, OneStep

\* Both ways down, model by model.
LEMMA Ways ==
  /\ Len(<<"mini">>) = 1 /\ <<"mini">>[1] = "mini"
  /\ Len(<<"reason", "mini">>) = 2 /\ <<"reason", "mini">>[1] = "reason"
  /\ <<"reason", "mini">>[2] = "mini"
  /\ Len(<<"reason", "alt", "mini">>) = 3 /\ <<"reason", "alt", "mini">>[1] = "reason"
  /\ <<"reason", "alt", "mini">>[2] = "alt" /\ <<"reason", "alt", "mini">>[3] = "mini"
OBVIOUS

LEMMA Appended ==
  ASSUME NEW s \in Seq(Models), NEW m \in Models
  PROVE  /\ Append(s, m) \in Seq(Models) /\ Len(Append(s, m)) = Len(s) + 1
         /\ Append(s, m)[Len(s) + 1] = m /\ Len(s) \in Nat
         /\ \A i \in 1 .. Len(s) : Append(s, m)[i] = s[i]
OBVIOUS

LEMMA AppendedTo ==
  ASSUME NEW s \in Seq(Models), NEW m \in Models
  PROVE  /\ Len(s) = 1 => /\ Len(Append(s, m)) = 2 /\ Append(s, m)[1] = s[1]
                          /\ Append(s, m)[2] = m
         /\ Len(s) = 2 => /\ Len(Append(s, m)) = 3 /\ Append(s, m)[1] = s[1]
                          /\ Append(s, m)[2] = s[2] /\ Append(s, m)[3] = m
<1>1. PICK a \in Seq(Models) : a = Append(s, m)
  BY Appended
<1>2. /\ Len(a) = Len(s) + 1 /\ a[Len(s) + 1] = m
      /\ \A i \in 1 .. Len(s) : a[i] = s[i]
  BY <1>1, Appended
<1>3. ASSUME Len(s) = 1 PROVE Len(a) = 2 /\ a[1] = s[1] /\ a[2] = m
  BY <1>2, <1>3
<1>4. ASSUME Len(s) = 2 PROVE Len(a) = 3 /\ a[1] = s[1] /\ a[2] = s[2] /\ a[3] = m
  BY <1>2, <1>4
<1> QED
  BY <1>1, <1>3, <1>4

\* Where a call that may be moved stands on its way.
LEMMA OnTheWay ==
  ASSUME NEW x \in Turning, NEW c \in [wire : AllWires, alt : BOOLEAN, below : BOOLEAN], Routed(x, c),
         x.pc = "create", ~x.pinned
  PROVE  /\ x.model = "mini" \/ x.model = "reason" \/ (x.model = "alt" /\ c.alt)
         /\ x.model = "reason" => Len(x.asked) = 1 /\ x.asked[1] = "reason"
         /\ x.model = "alt" => Len(x.asked) = 2 /\ x.asked[1] = "reason" /\ x.asked[2] = "alt"
<1>1. /\ x.asked \in Seq(Models) /\ Len(x.asked) \in Nat \ {0}
      /\ x.asked[Len(x.asked)] = x.model
  BY DEF Routed, Turning
<1> DEFINE n == Len(x.asked)
<1>2. CASE Begins(x.asked, <<"mini">>)
  BY <1>1, <1>2, Ways DEF Begins
<1>3. CASE c.alt /\ Begins(x.asked, <<"reason", "alt", "mini">>)
  <2>1. n \in 1 .. 3 /\ \A i \in 1 .. n : x.asked[i] = <<"reason", "alt", "mini">>[i]
    <3>1. \A k \in Nat \ {0} : k <= 3 => k \in 1 .. 3
      OBVIOUS
    <3>2. /\ Len(x.asked) <= Len(<<"reason", "alt", "mini">>)
          /\ \A i \in 1 .. Len(x.asked) : x.asked[i] = <<"reason", "alt", "mini">>[i]
      BY <1>3 DEF Begins
    <3>3. n <= 3
      BY <3>2, Ways
    <3> QED
      BY <1>1, <3>1, <3>2, <3>3
  <2> HIDE DEF n
  <2>2. CASE n = 1
    BY <1>1, <2>1, <2>2, Ways DEF n
  <2>3. CASE n = 2
    <3>1. x.asked[1] = "reason" /\ x.asked[2] = "alt"
      BY <2>1, <2>3, Ways
    <3> QED
      BY <1>1, <1>3, <2>3, <3>1 DEF n
  <2>4. CASE n = 3
    BY <1>1, <2>1, <2>4, Ways DEF n
  <2> QED
    BY <2>1, <2>2, <2>3, <2>4
<1>4. CASE ~c.alt /\ Begins(x.asked, <<"reason", "mini">>)
  <2>1. n \in 1 .. 2 /\ \A i \in 1 .. n : x.asked[i] = <<"reason", "mini">>[i]
    <3>1. \A k \in Nat \ {0} : k <= 2 => k \in 1 .. 2
      OBVIOUS
    <3>2. /\ Len(x.asked) <= Len(<<"reason", "mini">>)
          /\ \A i \in 1 .. Len(x.asked) : x.asked[i] = <<"reason", "mini">>[i]
      BY <1>4 DEF Begins
    <3>3. n <= 2
      BY <3>2, Ways
    <3> QED
      BY <1>1, <3>1, <3>2, <3>3
  <2> HIDE DEF n
  <2>2. CASE n = 1
    BY <1>1, <2>1, <2>2, Ways DEF n
  <2>3. CASE n = 2
    BY <1>1, <2>1, <2>3, Ways DEF n
  <2> QED
    BY <2>1, <2>2, <2>3
<1> QED
  BY <1>2, <1>3, <1>4 DEF Routed

\* A call goes on with the next model of its way.
LEMMA MovedIs ==
  ASSUME RouterTypeOK, NEW x \in Turning, x.pc = "create", ~x.pinned, ~x.stream,
         Fresh(x), NEW m \in Models, NEW tier \in Tiers, tier \in PriceOf(m),
         Begins(Append(x.asked, m), IF site.alt THEN <<"reason", "alt", "mini">>
                                    ELSE <<"reason", "mini">>)
  PROVE  Moved(x, m, tier) \in Turning /\ Turned(Moved(x, m, tier), site)
<1>1. /\ x.asked \in Seq(Models) /\ x.pinned \in BOOLEAN /\ x.stream \in BOOLEAN
  BY DEF Turning
<1>2. PICK a \in Seq(Models) : a = Append(x.asked, m)
  BY <1>1, Appended
<1>3. PICK e \in BOOLEAN : e = (m \notin refused)
  OBVIOUS
<1>a. Len(a) = Len(x.asked) + 1 /\ a[Len(x.asked) + 1] = m /\ Len(x.asked) \in Nat
  BY <1>1, <1>2, Appended
<1> DEFINE y == [x EXCEPT !.model = m, !.tier = tier, !.tries = 0, !.effort = e, !.asked = a]
<1>4. Moved(x, m, tier) = y
  BY <1>1, <1>2, <1>3 DEF Moved, Turning
<1>5. y \in Turning
  BY <1>1 DEF Turning
<1>6. /\ y.pc = "create" /\ y.asked = a /\ y.pinned = x.pinned /\ y.stream = x.stream
      /\ y.model = m /\ y.tier = tier /\ y.said = x.said /\ y.sent = x.sent
      /\ y.heard = x.heard /\ y.text = x.text
  BY DEF Turning
<1> HIDE DEF y
<1>7. Len(a) # 0 /\ a[Len(a)] = m
  BY <1>a
<1>8. Routed(y, site)
  BY <1>2, <1>6, <1>7 DEF Routed
<1>9. Priced(y) /\ Fresh(y)
  BY <1>6 DEF Priced, Fresh
<1>10. Turned(y, site)
  BY <1>5, <1>6, <1>8, <1>9, FreshTurned
<1> QED
  BY <1>4, <1>5, <1>10

LEMMA ThrottledIs ==
  ASSUME RouterTypeOK, NEW x \in Turning, Turned(x, site), x.pc = "create"
  PROVE  Throttled(x) \in Turning /\ Turned(Throttled(x), site)
<1>1. Routed(x, site) /\ Priced(x) /\ Fresh(x) /\ x.asked \in Seq(Models) /\ Len(x.asked) \in Nat
  BY DEF Turned, Turning
<1>f. Failing(x) \in Turning /\ Turned(Failing(x), site)
  BY <1>1, FailingIs
<1>w. site \in [wire : AllWires, alt : BOOLEAN, below : BOOLEAN]
  BY DEF RouterTypeOK
<1> DEFINE w == IF site.alt THEN <<"reason", "alt", "mini">> ELSE <<"reason", "mini">>
<1>2. ASSUME ~x.stream, ~x.pinned, x.model = "reason", site.alt
      PROVE  Throttled(x) \in Turning /\ Turned(Throttled(x), site)
  <2>1. Len(x.asked) = 1 /\ x.asked[1] = "reason"
    BY <1>1, <1>w, <1>2, OnTheWay
  <2>2. /\ Len(Append(x.asked, "alt")) = 2 /\ Append(x.asked, "alt")[1] = "reason"
        /\ Append(x.asked, "alt")[2] = "alt"
    <3>1. "alt" \in Models
      BY DEF Models
    <3> QED
      BY <1>1, <2>1, <3>1, AppendedTo
  <2>3. Begins(Append(x.asked, "alt"), w)
    BY <1>2, <2>2, Ways DEF Begins
  <2>4. "alt" \in Models /\ "reason" \in Tiers /\ "reason" \in PriceOf("alt")
    BY DEF Models, Tiers, PriceOf
  <2> QED
    BY <1>1, <1>2, <2>3, <2>4, MovedIs DEF Throttled
<1>3. ASSUME ~x.stream, ~x.pinned, ~(x.model = "reason" /\ site.alt), x.tier = "reason",
             site.below
      PROVE  Throttled(x) \in Turning /\ Turned(Throttled(x), site)
  <2>1. x.model # "mini"
    BY <1>1, <1>3 DEF Priced, PriceOf
  <2>2. \/ x.model = "reason" /\ ~site.alt /\ Len(x.asked) = 1 /\ x.asked[1] = "reason"
        \/ /\ x.model = "alt" /\ site.alt /\ Len(x.asked) = 2
           /\ x.asked[1] = "reason" /\ x.asked[2] = "alt"
    BY <1>1, <1>w, <1>3, <2>1, OnTheWay
  <2>3. Begins(Append(x.asked, "mini"), w)
    <3>1. CASE Len(x.asked) = 1 /\ ~site.alt
      <4>1. /\ Len(Append(x.asked, "mini")) = 2 /\ Append(x.asked, "mini")[1] = "reason"
            /\ Append(x.asked, "mini")[2] = "mini"
        <5>1. "mini" \in Models
          BY DEF Models
        <5> QED
          BY <1>1, <2>2, <3>1, <5>1, AppendedTo
      <4> QED
        BY <3>1, <4>1, Ways DEF Begins
    <3>2. CASE Len(x.asked) = 2 /\ site.alt
      <4>1. /\ Len(Append(x.asked, "mini")) = 3 /\ Append(x.asked, "mini")[1] = "reason"
            /\ Append(x.asked, "mini")[2] = "alt" /\ Append(x.asked, "mini")[3] = "mini"
        <5>1. "mini" \in Models
          BY DEF Models
        <5> QED
          BY <1>1, <2>2, <3>2, <5>1, AppendedTo
      <4> QED
        BY <3>2, <4>1, Ways DEF Begins
    <3> QED
      BY <2>2, <3>1, <3>2
  <2>4. "mini" \in Models /\ "mini" \in Tiers /\ "mini" \in PriceOf("mini")
    BY DEF Models, Tiers, PriceOf
  <2> QED
    BY <1>1, <1>3, <2>3, <2>4, MovedIs DEF Throttled
<1> QED
  BY <1>f, <1>2, <1>3 DEF Throttled

LEMMA HiccupOK ==
  ASSUME RouterIInv, NEW t \in Turns, Hiccup(t)
  PROVE  RouterIInv'
<1>i. RouterTypeOK /\ turn \in [Turns -> Turning]
  BY DEF RouterIInv, RouterTypeOK
<1>1. PICK x \in Turning : x = turn[t] /\ Turned(x, site) /\ x.pc = "create"
  BY TheTurn DEF Hiccup, At
<1>2. \E y \in {Again(x), Throttled(x), Failing(x)} : turn' = [turn EXCEPT ![t] = y]
  BY <1>1 DEF Hiccup
<1>3. Routed(x, site) /\ Priced(x) /\ Fresh(x)
  BY <1>1 DEF Turned
<1>4. \A y \in {Again(x), Throttled(x), Failing(x)} : y \in Turning /\ Turned(y, site)
  <2>1. Failing(x) \in Turning /\ Turned(Failing(x), site)
    BY <1>3, FailingIs
  <2>2. Throttled(x) \in Turning /\ Turned(Throttled(x), site)
    BY <1>i, <1>1, ThrottledIs
  <2> DEFINE y == Again(x)
  <2>3. y \in Turning
    BY DEF Again, Turning
  <2>4. /\ y.pc = "create" /\ y.asked = x.asked /\ y.pinned = x.pinned /\ y.stream = x.stream
        /\ y.model = x.model /\ y.tier = x.tier /\ y.said = x.said /\ y.sent = x.sent
        /\ y.heard = x.heard /\ y.text = x.text
    BY <1>1 DEF Again, Turning
  <2> HIDE DEF y
  <2>5. Routed(y, site)
    BY <1>1, <1>3, <2>4 DEF Routed
  <2>6. Priced(y) /\ Fresh(y)
    BY <1>3, <2>4 DEF Priced, Fresh
  <2>7. Turned(y, site)
    BY <2>3, <2>4, <2>5, <2>6, FreshTurned
  <2> QED
    BY <2>1, <2>2, <2>3, <2>7 DEF y
<1>5. /\ UNCHANGED <<site, credentials, asks>> /\ client' \in Nat \cup {None}
      /\ refused' \in SUBSET Models /\ listing' \in {"none", "listed", "failed"}
  BY <1>i DEF Hiccup, RouterTypeOK
<1> QED
  BY <1>2, <1>4, <1>5, OneStep

------------------------------------------------------------------------------
(* A streamed answer.                                                       *)

LEMMA WhatIsSaid ==
  ASSUME NEW said \in Calls
  PROVE  /\ \E m \in 0 .. 2 : said \in [1 .. m -> ToolCall]
         /\ \A n \in DOMAIN said : /\ n \in 1 .. 2 /\ said[n].parts \in Nat \ {0}
                                   /\ said[n] = [of |-> said[n].of, parts |-> said[n].parts]
<1>1. PICK m \in 0 .. 2 : said \in [1 .. m -> ToolCall]
  BY DEF Calls
<1>2. ASSUME NEW n \in 1 .. m
      PROVE  /\ n \in 1 .. 2 /\ said[n].parts \in Nat \ {0}
             /\ said[n] = [of |-> said[n].of, parts |-> said[n].parts]
  <2>1. said[n] \in ToolCall /\ n \in 1 .. 2
    BY <1>1
  <2>2. Parts \in Nat \ {0}
    BY ModelRouterAssumption
  <2> QED
    BY <2>1, <2>2 DEF ToolCall
<1> QED
  BY <1>1, <1>2

LEMMA AnswersOK ==
  ASSUME RouterIInv, NEW t \in Turns, Answers(t)
  PROVE  RouterIInv'
<1>i. RouterTypeOK /\ turn \in [Turns -> Turning]
  BY DEF RouterIInv, RouterTypeOK
<1>1. PICK x \in Turning : x = turn[t] /\ Turned(x, site) /\ x.pc = "create"
  BY TheTurn DEF Answers, At
<1>2. PICK n \in 0 .. 2, text \in BOOLEAN : \E parts \in [1 .. n -> 1 .. Parts] :
       LET said == [i \in 1 .. n |-> [of |-> i, parts |-> parts[i]]]
           z    == [turn[t] EXCEPT !.said = said, !.text = text, !.key = 0]
       IN /\ text => turn[t].stream /\ site.wire = "anthropic"
          /\ turn' = [turn EXCEPT ![t] =
                IF z.stream THEN [z EXCEPT !.pc = "stream"] ELSE Returns(z, said)]
  BY Zenon DEF Answers
<1>3. PICK parts \in [1 .. n -> 1 .. Parts] :
       LET said == [i \in 1 .. n |-> [of |-> i, parts |-> parts[i]]]
           z    == [turn[t] EXCEPT !.said = said, !.text = text, !.key = 0]
       IN /\ text => turn[t].stream /\ site.wire = "anthropic"
          /\ turn' = [turn EXCEPT ![t] =
                IF z.stream THEN [z EXCEPT !.pc = "stream"] ELSE Returns(z, said)]
  BY <1>2
<1>4. \E said \in Calls : said = [i \in 1 .. n |-> [of |-> i, parts |-> parts[i]]]
  <2>1. \A i \in 1 .. n : [of |-> i, parts |-> parts[i]] \in ToolCall
    BY DEF ToolCall
  <2>2. [i \in 1 .. n |-> [of |-> i, parts |-> parts[i]]] \in [1 .. n -> ToolCall]
    BY <2>1
  <2> QED
    BY <2>2 DEF Calls
<1>5. PICK said \in Calls : said = [i \in 1 .. n |-> [of |-> i, parts |-> parts[i]]]
  BY <1>4
<1>6. DOMAIN said = 1 .. n /\ \A i \in 1 .. n : said[i].of = i /\ said[i].parts \in Nat
  <2>1. \A i \in 1 .. n : parts[i] \in Nat
    BY ModelRouterAssumption
  <2> QED
    BY <1>5, <2>1
<1> DEFINE z == [x EXCEPT !.said = said, !.text = text, !.key = 0]
<1>7. /\ text => x.stream /\ site.wire = "anthropic"
      /\ turn' = [turn EXCEPT ![t] =
                IF z.stream THEN [z EXCEPT !.pc = "stream"] ELSE Returns(z, said)]
  BY <1>1, <1>3, <1>5
<1>8. z \in Turning
  BY DEF Turning
<1>9. /\ z.pc = "create" /\ z.asked = x.asked /\ z.pinned = x.pinned /\ z.stream = x.stream
      /\ z.model = x.model /\ z.tier = x.tier /\ z.said = said /\ z.sent = x.sent
      /\ z.heard = x.heard /\ z.text = text
  BY <1>1 DEF Turning
<1> HIDE DEF z
<1>10. Routed(x, site) /\ Priced(x) /\ Fresh(x)
  BY <1>1 DEF Turned
<1>11. Routed(z, site) /\ Priced(z) /\ Numbered(z)
  BY <1>1, <1>6, <1>9, <1>10 DEF Routed, Priced, Numbered
<1>12. ASSUME z.stream PROVE \E y \in Turning : turn' = [turn EXCEPT ![t] = y] /\ Turned(y, site)
  <2> DEFINE y == [z EXCEPT !.pc = "stream"]
  <2>1. y \in Turning
    BY <1>8 DEF Turning, Legs
  <2>2. /\ y.pc = "stream" /\ y.asked = z.asked /\ y.pinned = z.pinned /\ y.stream = z.stream
        /\ y.model = z.model /\ y.tier = z.tier /\ y.said = z.said /\ y.sent = z.sent
        /\ y.heard = z.heard /\ y.text = z.text
    BY <1>8 DEF Turning
  <2> HIDE DEF y
  <2>3. Routed(y, site) /\ Priced(y) /\ Numbered(y)
    BY <1>9, <1>11, <2>2 DEF Routed, Priced, Numbered
  <2>4. /\ y.heard = Empty /\ y.sent = [k \in 1 .. 2 |-> Free] /\ y.text = text /\ y.said = said
    BY <1>9, <1>10, <2>2 DEF Fresh
  <2>5. /\ \A k \in 0 .. 2 : y.heard[k] = Free
        /\ \A k \in 1 .. 2 : y.sent[k] = Free
    BY <2>4 DEF Empty
  <2>6. \A k \in 1 .. 2 : SlotOf(y, k) \in 0 .. 2
    BY DEF SlotOf
  <2>7. Folding(y, site)
    <3>1. (IF y.text THEN 0 ELSE 2) \in 0 .. 2
      OBVIOUS
    <3>2. \A k \in DOMAIN said : 0 <= said[k].parts
      BY <1>6
    <3> QED
      BY <1>7, <2>4, <2>5, <2>6, <3>1, <3>2, FreeIs DEF Folding
  <2>8. Turned(y, site)
    BY <2>2, <2>3, <2>7 DEF Turned
  <2>9. turn' = [turn EXCEPT ![t] = y]
    BY <1>7, <1>12 DEF y
  <2> QED
    BY <2>1, <2>8, <2>9
<1>13. ASSUME ~z.stream PROVE \E y \in Turning : turn' = [turn EXCEPT ![t] = y] /\ Turned(y, site)
  <2>1. turn' = [turn EXCEPT ![t] = Returns(z, z.said)]
    BY <1>7, <1>9, <1>13
  <2> QED
    BY <1>8, <1>11, <2>1, ReturnsIs
<1>14. \E y \in Turning : turn' = [turn EXCEPT ![t] = y] /\ Turned(y, site)
  BY <1>12, <1>13
<1>15. /\ UNCHANGED <<site, credentials, asks>> /\ client' \in Nat \cup {None}
       /\ refused' \in SUBSET Models /\ listing' \in {"none", "listed", "failed"}
  BY <1>i DEF Answers, RouterTypeOK
<1> QED
  BY <1>14, <1>15, OneStep

LEMMA Joined ==
  ASSUME NEW a, NEW c
  PROVE  /\ <<a>> \o <<>> \o <<>> = <<a>> /\ <<>> \o <<a>> \o <<>> = <<a>>
         /\ <<a>> \o <<c>> \o <<>> = <<a, c>> /\ <<>> \o <<a>> \o <<c>> = <<a, c>>
<1>1. <<a>> \o <<>> = <<a>> /\ <<>> \o <<a>> = <<a>> /\ <<a, c>> \o <<>> = <<a, c>>
  OBVIOUS
<1>2. <<a>> \o <<c>> = <<a, c>>
  <2> DEFINE S == {a, c}
  <2>1. PICK s \in Seq(S) : s = <<a>> \o <<c>>
    <3>1. <<a>> \in Seq(S) /\ <<c>> \in Seq(S)
      OBVIOUS
    <3>2. PICK u \in Seq(S), v \in Seq(S) : u = <<a>> /\ v = <<c>>
      BY <3>1
    <3> HIDE DEF S
    <3>3. u \o v \in Seq(S)
      OBVIOUS
    <3> QED
      BY <3>2, <3>3
  <2>2. Len(s) = 2 /\ s[1] = a /\ s[2] = c
    BY <2>1
  <2>3. s = <<a, c>>
    BY <2>2
  <2> QED
    BY <2>1, <2>3
<1> QED
  BY <1>1, <1>2

\* The calls of a buffer come out whole and in their order.
LEMMA FinishedIs ==
  ASSUME NEW b, NEW o \in {0, 1}, NEW said \in Calls,
         Numbered([said |-> said]),
         \A n \in 1 .. 2 : b[n - 1 + o] = IF n \in DOMAIN said THEN said[n] ELSE Free,
         b[IF o = 1 THEN 0 ELSE 2] = Free
  PROVE  Finished(b) = said
<1>1. PICK m \in 0 .. 2 : said \in [1 .. m -> ToolCall]
  BY WhatIsSaid
<1>2. \A n \in 1 .. m : said[n].of = n
  BY <1>1 DEF Numbered
<1> DEFINE slot(i) == IF b[i].of = 0 THEN <<>> ELSE <<b[i]>>
<1>3. Finished(b) = slot(0) \o slot(1) \o slot(2)
  BY DEF Finished
<1>4. b[o] = (IF 1 <= m THEN said[1] ELSE Free) /\ b[1 + o] = (IF 2 <= m THEN said[2] ELSE Free)
  BY <1>1
<1>5. CASE m = 0
  <2>1. slot(0) = <<>> /\ slot(1) = <<>> /\ slot(2) = <<>>
    BY <1>4, <1>5, FreeIs
  <2>2. said = <<>>
    BY <1>1, <1>5
  <2> QED
    BY <1>3, <2>1, <2>2
<1>6. CASE m = 1
  <2> DEFINE a == said[1]
  <2>1. a.of = 1
    BY <1>2, <1>6
  <2>2. \/ slot(0) = <<a>> /\ slot(1) = <<>> /\ slot(2) = <<>>
        \/ slot(0) = <<>> /\ slot(1) = <<a>> /\ slot(2) = <<>>
    BY <1>4, <1>6, <2>1, FreeIs
  <2>3. said = <<a>>
    BY <1>1, <1>6
  <2> HIDE DEF a, slot
  <2>4. Finished(b) = <<a>>
    BY <1>3, <2>2, Joined
  <2> QED
    BY <2>3, <2>4
<1>7. CASE m = 2
  <2> DEFINE a == said[1]
             c == said[2]
  <2>1. a.of = 1 /\ c.of = 2
    BY <1>2, <1>7
  <2>2. \/ slot(0) = <<a>> /\ slot(1) = <<c>> /\ slot(2) = <<>>
        \/ slot(0) = <<>> /\ slot(1) = <<a>> /\ slot(2) = <<c>>
    BY <1>4, <1>7, <2>1, FreeIs
  <2>3. said = <<a, c>>
    BY <1>1, <1>7
  <2> HIDE DEF a, c, slot
  <2>4. Finished(b) = <<a, c>>
    BY <1>3, <2>2, Joined
  <2> QED
    BY <2>3, <2>4
<1> QED
  BY <1>5, <1>6, <1>7

LEMMA EndOK ==
  ASSUME RouterIInv, NEW t \in Turns, End(t)
  PROVE  RouterIInv'
<1>1. PICK x \in Turning : x = turn[t] /\ Turned(x, site) /\ x.pc = "stream"
  BY TheTurn DEF End, At
<1>2. Routed(x, site) /\ Priced(x) /\ Numbered(x) /\ Folding(x, site)
  BY <1>1 DEF Turned
<1>3. ~Left(x, 1) /\ ~Left(x, 2)
  BY <1>1 DEF End
<1>4. PICK o \in {0, 1} : o = IF x.text THEN 1 ELSE 0
  OBVIOUS
<1>5. /\ x.text \in BOOLEAN /\ x.said \in Calls /\ \A n \in 1 .. 2 : x.sent[n] \in Fragments
  BY DEF Turning
<1>6. \A n \in 1 .. 2 : x.sent[n] = IF n \in DOMAIN x.said THEN x.said[n] ELSE Free
  <2> SUFFICES ASSUME NEW n \in 1 .. 2
               PROVE  x.sent[n] = IF n \in DOMAIN x.said THEN x.said[n] ELSE Free
    OBVIOUS
  <2>1. x.sent[n] = Free \/ (n \in DOMAIN x.said /\ x.sent[n].of = n)
    BY <1>2 DEF Folding
  <2>2. CASE n \notin DOMAIN x.said
    BY <2>1, <2>2
  <2>3. CASE n \in DOMAIN x.said
    <3>1. /\ x.said[n].parts \in Nat \ {0} /\ x.said[n].of = n
          /\ x.said[n] = [of |-> x.said[n].of, parts |-> x.said[n].parts]
      BY <1>2, <1>5, <2>3, WhatIsSaid DEF Numbered
    <3>2. x.sent[n] = [of |-> x.sent[n].of, parts |-> x.sent[n].parts] /\ x.sent[n].parts \in Nat
      BY <1>5 DEF Fragments
    <3>3. x.sent[n].parts <= x.said[n].parts
      BY <1>2, <2>3 DEF Folding
    <3>4. ~(x.sent[n].parts < x.said[n].parts)
      <4>1. ~Left(x, n)
        <5>1. n = 1 \/ n = 2
          OBVIOUS
        <5> QED
          BY <1>3, <5>1
      <4> QED
        BY <2>3, <4>1 DEF Left
    <3>5. x.sent[n].parts = x.said[n].parts
      BY <3>1, <3>2, <3>3, <3>4
    <3>6. x.sent[n].of = n
      BY <2>1, <3>1, <3>5, FreeIs
    <3> QED
      BY <2>3, <3>1, <3>2, <3>5, <3>6
  <2> QED
    BY <2>2, <2>3
<1>7. \A n \in 1 .. 2 : x.heard[n - 1 + o] = x.sent[n]
  <2>1. \A n \in 1 .. 2 : SlotOf(x, n) = n - 1 + o
    BY <1>4 DEF SlotOf
  <2> QED
    BY <1>2, <2>1 DEF Folding
<1>8. x.heard[IF o = 1 THEN 0 ELSE 2] = Free
  BY <1>2, <1>4 DEF Folding
<1>9. Numbered([said |-> x.said])
  BY <1>2 DEF Numbered
<1>10. Finished(x.heard) = x.said
  BY <1>5, <1>6, <1>7, <1>8, <1>9, FinishedIs
<1>11. turn' = [turn EXCEPT ![t] = Returns(x, x.said)]
  BY <1>1, <1>10 DEF End
<1>12. Returns(x, x.said) \in Turning /\ Turned(Returns(x, x.said), site)
  BY <1>2, ReturnsIs
<1>13. /\ UNCHANGED <<site, credentials, asks>> /\ client' \in Nat \cup {None}
       /\ refused' \in SUBSET Models /\ listing' \in {"none", "listed", "failed"}
  BY DEF End, RouterIInv, RouterTypeOK
<1> QED
  BY <1>11, <1>12, <1>13, OneStep

\* A fragment goes to the slot of its call.
LEMMA FoldedIs ==
  ASSUME NEW x \in Turning, NEW c, Turned(x, c), x.pc = "stream",
         NEW n \in 1 .. 2, n \in DOMAIN x.said, NEW p \in Nat, p <= x.said[n].parts,
         NEW i \in 0 .. 2, i = SlotOf(x, n),
         NEW y, y = [x EXCEPT !.heard[i] = [of |-> n, parts |-> p],
                              !.sent[n] = [of |-> n, parts |-> p]]
  PROVE  y \in Turning /\ Turned(y, c)
<1>1. Routed(x, c) /\ Priced(x) /\ Numbered(x) /\ Folding(x, c)
  BY DEF Turned
<1>2. PICK f \in Fragments : f = [of |-> n, parts |-> p] /\ f.of = n /\ f.parts = p
  <2>1. [of |-> n, parts |-> p] \in Fragments
    BY DEF Fragments
  <2> QED
    BY <2>1
<1>3. y = [x EXCEPT !.heard[i] = f, !.sent[n] = f]
  BY <1>2
<1>4. /\ x.heard \in [0 .. 2 -> Fragments] /\ x.sent \in [1 .. 2 -> Fragments]
      /\ x.text \in BOOLEAN
  BY DEF Turning
<1>5. PICK h \in [0 .. 2 -> Fragments], s \in [1 .. 2 -> Fragments] :
         h = [x.heard EXCEPT ![i] = f] /\ s = [x.sent EXCEPT ![n] = f]
  BY <1>4
<1>6. y = [x EXCEPT !.heard = h, !.sent = s]
  BY <1>3, <1>5 DEF Turning
<1>7. y \in Turning
  BY <1>6 DEF Turning
<1>8. /\ y.pc = "stream" /\ y.asked = x.asked /\ y.pinned = x.pinned /\ y.stream = x.stream
      /\ y.model = x.model /\ y.tier = x.tier /\ y.said = x.said /\ y.sent = s
      /\ y.heard = h /\ y.text = x.text
  BY <1>6 DEF Turning
<1>9. Routed(y, c) /\ Priced(y) /\ Numbered(y)
  BY <1>1, <1>8 DEF Routed, Priced, Numbered
<1>10. \A k \in 1 .. 2 : SlotOf(y, k) = SlotOf(x, k) /\ SlotOf(x, k) \in 0 .. 2
  BY <1>8 DEF SlotOf
<1>11. ASSUME NEW k \in 1 .. 2
       PROVE  /\ h[SlotOf(y, k)] = s[k]
              /\ s[k] = Free \/ (k \in DOMAIN x.said /\ s[k].of = k)
              /\ k \in DOMAIN x.said => s[k].parts <= x.said[k].parts
  <2>1. CASE k = n
    BY <1>2, <1>4, <1>5, <1>10, <2>1
  <2>2. CASE k # n
    <3>1. SlotOf(x, k) # i
      BY <2>2 DEF SlotOf
    <3>2. h[SlotOf(y, k)] = x.heard[SlotOf(x, k)] /\ s[k] = x.sent[k]
      BY <1>4, <1>5, <1>10, <2>2, <3>1
    <3> QED
      BY <1>1, <3>2 DEF Folding
  <2> QED
    BY <2>1, <2>2
<1>12. h[IF x.text THEN 0 ELSE 2] = Free
  <2>1. i # IF x.text THEN 0 ELSE 2
    BY <1>4 DEF SlotOf
  <2> QED
    BY <1>1, <1>4, <1>5, <2>1 DEF Folding
<1>13. Folding(y, c)
  <2>1. y.text => c.wire = "anthropic"
    BY <1>1, <1>8 DEF Folding
  <2>2. \A k \in 1 .. 2 :
          /\ y.heard[SlotOf(y, k)] = y.sent[k]
          /\ y.sent[k] = Free \/ (k \in DOMAIN y.said /\ y.sent[k].of = k)
          /\ k \in DOMAIN y.said => y.sent[k].parts <= y.said[k].parts
    BY <1>8, <1>11
  <2>3. y.heard[IF y.text THEN 0 ELSE 2] = Free
    BY <1>8, <1>12
  <2> QED
    BY <2>1, <2>2, <2>3 DEF Folding
<1>14. Turned(y, c)
  BY <1>8, <1>9, <1>13 DEF Turned
<1> QED
  BY <1>7, <1>14

\* Whichever wire it comes over.
LEMMA ChunkOK ==
  ASSUME RouterIInv, NEW t \in Turns, Chunk(t)
  PROVE  RouterIInv'
<1>i. RouterTypeOK /\ turn \in [Turns -> Turning] /\ site \in [wire : AllWires, alt : BOOLEAN, below : BOOLEAN]
  BY DEF RouterIInv, RouterTypeOK
<1>1. PICK x \in Turning : x = turn[t] /\ Turned(x, site) /\ x.pc = "stream"
  BY TheTurn DEF Chunk, At
<1>2. Numbered(x) /\ Folding(x, site)
  BY <1>1 DEF Turned
<1>3. /\ x.heard \in [0 .. 2 -> Fragments] /\ x.sent \in [1 .. 2 -> Fragments]
      /\ x.text \in BOOLEAN /\ x.said \in Calls
  BY DEF Turning
\* A fragment of a call of which something is left has a place.
<1>4. ASSUME NEW n \in {1, 2}, Left(x, n)
      PROVE  /\ n \in 1 .. 2 /\ n \in DOMAIN x.said /\ x.sent[n].parts + 1 \in Nat
             /\ x.sent[n].parts + 1 <= x.said[n].parts
             /\ x.said[n].parts \in Nat /\ x.said[n] = [of |-> n, parts |-> x.said[n].parts]
             /\ SlotOf(x, n) \in 0 .. 2 /\ x.heard[SlotOf(x, n)] = x.sent[n]
  <2>1. n \in 1 .. 2 /\ n \in DOMAIN x.said /\ x.sent[n].parts < x.said[n].parts
    BY <1>4 DEF Left
  <2>2. x.sent[n].parts \in Nat
    BY <1>3, <2>1 DEF Fragments
  <2>3. x.said[n].parts \in Nat /\ x.said[n] = [of |-> n, parts |-> x.said[n].parts]
    BY <1>2, <1>3, <2>1, WhatIsSaid DEF Numbered
  <2>4. x.heard[SlotOf(x, n)] = x.sent[n]
    BY <1>2, <2>1 DEF Folding
  <2>5. SlotOf(x, n) \in 0 .. 2
    BY DEF SlotOf
  <2> QED
    BY <2>1, <2>2, <2>3, <2>4, <2>5
<1>5. ASSUME NEW n \in {1, 2}, Left(x, n), NEW i \in 0 .. 2, i = SlotOf(x, n),
             turn' = [turn EXCEPT ![t] = Folded(x, i, n)]
      PROVE  \E y \in Turning : turn' = [turn EXCEPT ![t] = y] /\ Turned(y, site)
  <2>1. PICK p \in Nat : p = x.sent[n].parts + 1 /\ p <= x.said[n].parts
    BY <1>4, <1>5
  <2>2. PICK y : y = Folded(x, i, n)
    OBVIOUS
  <2>3. x.heard[i].parts + 1 = p
    BY <1>4, <1>5, <2>1
  <2>4. y = [x EXCEPT !.heard[i] = [of |-> n, parts |-> p],
                      !.sent[n] = [of |-> n, parts |-> p]]
    BY <2>1, <2>2, <2>3 DEF Folded
  <2>5. n \in 1 .. 2 /\ n \in DOMAIN x.said
    BY <1>4, <1>5
  <2>6. y \in Turning /\ Turned(y, site)
    BY <1>1, <1>5, <2>1, <2>4, <2>5, FoldedIs
  <2> QED
    BY <1>5, <2>2, <2>6
<1>6. ASSUME site.wire = "openai"
      PROVE  \E y \in Turning : turn' = [turn EXCEPT ![t] = y] /\ Turned(y, site)
  <2>1. PICK n \in {1, 2} : Left(x, n) /\ turn' = [turn EXCEPT ![t] = Folded(x, n - 1, n)]
    BY <1>1, <1>6 DEF Chunk, OpenAIChunk
  <2>2. ~x.text
    BY <1>2, <1>6 DEF Folding
  <2>3. n - 1 \in 0 .. 2 /\ n - 1 = SlotOf(x, n)
    BY <2>2 DEF SlotOf
  <2>4. PICK i \in 0 .. 2 : i = n - 1
    BY <2>3
  <2> QED
    BY <1>5, <2>1, <2>3, <2>4
<1>7. ASSUME site.wire = "anthropic"
      PROVE  \E y \in Turning : turn' = [turn EXCEPT ![t] = y] /\ Turned(y, site)
  <2>1. PICK n \in {1, 2} : Left(x, n) /\ turn' = [turn EXCEPT ![t] = Folded(x, SlotOf(x, n), n)]
    BY <1>1, <1>7 DEF Chunk, AnthropicChunk, SlotOf
  <2>2. PICK i \in 0 .. 2 : i = SlotOf(x, n)
    BY DEF SlotOf
  <2> QED
    BY <1>5, <2>1, <2>2
<1>8. ASSUME site.wire = "google"
      PROVE  \E y \in Turning : turn' = [turn EXCEPT ![t] = y] /\ Turned(y, site)
  <2>1. PICK n \in {1, 2} :
          /\ Left(x, n)
          /\ turn' = [turn EXCEPT ![t].heard[n - 1] = x.said[n], ![t].sent[n] = x.said[n]]
    BY <1>1, <1>8 DEF Chunk, GoogleChunk
  <2>2. ~x.text
    BY <1>2, <1>8 DEF Folding
  <2>3. PICK i \in 0 .. 2 : i = n - 1 /\ i = SlotOf(x, n)
    BY <2>2 DEF SlotOf
  <2>4. PICK p \in Nat : p = x.said[n].parts /\ x.said[n] = [of |-> n, parts |-> p] /\ p <= p
    BY <1>4, <2>1
  <2>5. PICK y : y = [x EXCEPT !.heard[i] = [of |-> n, parts |-> p],
                               !.sent[n] = [of |-> n, parts |-> p]]
    OBVIOUS
  <2>6. turn' = [turn EXCEPT ![t].heard[i] = [of |-> n, parts |-> p],
                             ![t].sent[n] = [of |-> n, parts |-> p]]
    BY <2>1, <2>3, <2>4
  <2>7. turn' = [turn EXCEPT ![t] = y]
    BY <1>i, <1>1, <2>5, <2>6
  <2>8. n \in 1 .. 2 /\ n \in DOMAIN x.said
    BY <1>4, <2>1
  <2>9. y \in Turning /\ Turned(y, site)
    BY <1>1, <2>3, <2>4, <2>5, <2>8, FoldedIs
  <2> QED
    BY <2>7, <2>9
<1>9. PICK y \in Turning : turn' = [turn EXCEPT ![t] = y] /\ Turned(y, site)
  <2>1. site.wire \in {"openai", "anthropic", "google"}
    BY <1>i DEF AllWires
  <2> QED
    BY <1>6, <1>7, <1>8, <2>1
<1>10. /\ UNCHANGED <<site, credentials, asks>> /\ client' \in Nat \cup {None}
       /\ refused' \in SUBSET Models /\ listing' \in {"none", "listed", "failed"}
  BY <1>i DEF Chunk, RouterTypeOK
<1> QED
  BY <1>9, <1>10, OneStep

LEMMA RouterNextOK == RouterIInv /\ [RouterNext]_routerVars => RouterIInv'
<1> SUFFICES ASSUME RouterIInv, [RouterNext]_routerVars
             PROVE  RouterIInv'
  OBVIOUS
<1>1. ASSUME NEW t \in Turns, Ask(t) \/ Step(t)
      PROVE  RouterIInv'
  BY <1>1, AskOK, PlaceOK, MockOK, AnswersOK, RefuseEffortOK, FailOK, HiccupOK, ChunkOK, EndOK,
     BackOK DEF Step
<1>2. CASE Save \/ Saved \/ SaveElsewhere \/ Delete \/ Reload
  BY <1>2, KeysOK
<1>3. CASE UNCHANGED routerVars
  <2>1. RouterTypeOK'
    BY <1>3 DEF RouterIInv, RouterTypeOK, routerVars
  <2>2. UNCHANGED <<turn, site>> /\ \A t \in Turns : Turned(turn[t], site)
    BY <1>3 DEF RouterIInv, routerVars
  <2>3. \A t \in Turns : Turned(turn'[t], site')
    BY <2>2
  <2> QED
    BY <2>1, <2>3 DEF RouterIInv
<1> QED
  BY <1>1, <1>2, <1>3 DEF RouterNext

\* The router's variables have their types, and every call is where its history says.
THEOREM RouterTypes == RouterSpec => []RouterIInv
<1> QED
  BY RouterInitOK, RouterNextOK, PTL DEF RouterSpec

\* For any number of turns, calls, attempts and fragments, and whichever wire: the calls
\* a turn gets are those its model made, each whole and in its place (stream_chat and
\* the adapters), and they are priced as that model (record_cost).
THEOREM AnswersAreTheirOwn == RouterSpec => []ResultIsItsOwn
<1>1. RouterIInv => ResultIsItsOwn
  BY DEF RouterIInv, ResultIsItsOwn, Turned, At
<1> QED
  BY <1>1, RouterTypes, PTL

\* However a call is throttled, refused and retried, it moves down its one way, and a
\* streamed or pinned one not at all (chat, _fallback).
THEOREM CallsMoveDown == RouterSpec => []MovesDown
<1>1. ASSUME RouterIInv, NEW t \in Turns
      PROVE  LET asked == turn[t].asked IN
             /\ turn[t].pinned => \A i \in DOMAIN asked : asked[i] = "pinned"
             /\ turn[t].pinned \/ turn[t].stream => Len(asked) <= 1
             /\ ~turn[t].pinned =>
                   \/ Begins(asked, <<"mini">>)
                   \/ Begins(asked, IF site.alt THEN <<"reason", "alt", "mini">>
                                    ELSE <<"reason", "mini">>)
  <2>1. turn[t] \in Turning /\ Routed(turn[t], site)
    BY <1>1, TheTurn DEF Turned
  <2>2. DOMAIN turn[t].asked = 1 .. Len(turn[t].asked)
    BY <2>1 DEF Turning
  <2> QED
    BY <2>1, <2>2 DEF Routed
<1>2. RouterIInv => MovesDown
  BY <1>1 DEF MovesDown
<1> QED
  BY <1>2, RouterTypes, PTL
===============================================================================
