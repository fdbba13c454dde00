---------------------------- MODULE Routines_proof ----------------------------
(* Theorems about routines: their executions (RoutineRun), for any number of  *)
(* executions, steps, gates and approvals, any retry policy and any number of *)
(* faults of any kind; and the schedule that starts them (RoutineSchedule),   *)
(* for any number of edits, boots and firings. The two share no variable.     *)
EXTENDS RoutineRun, RoutineSchedule, FiniteSetTheorems, TLAPS

Answers == {"ok", "not_ok", "held", "refused", "error"}

Slot == [pc     : {"free", "desktop", "sent", "answered", "poll", "waiting", "inline", "done"},
         step   : Step,
         try    : Nat,
         answer : Answers \cup {None},
         hold   : Holds \cup {None},
         late   : BOOLEAN,
         result : {"completed", "failed", "aborted", "timed_out", "awaiting_approval", None}]

\* The variables have their types (`faults` is only counted, and nothing below
\* depends on it), and what waits to be read is an answer.
TypeOK ==
    /\ exec \in [Execs -> Slot]
    /\ \A e \in Execs : exec[e].pc = "answered" => exec[e].answer \in Answers
    /\ approval \in [Holds -> Filed \cup {None}]
    /\ effects \in [Execs -> [Step -> Nat]]
    /\ blind \in [Execs -> [Step -> Nat]]

------------------------------------------------------------------------------
(* What NothingPastTheGate rests on.                                        *)

\* The row a is what execution e filed for step s.
Own(a, e, s) == approval[a] # None /\ approval[a].exec = e /\ approval[a].step = s

\* An execution is at its first step until it starts, an answer that the step was
\* done is to a step without a gate, and what is polled is the step's own row.
InStep(e) ==
    LET x == exec[e] IN
    /\ x.pc = "free" => x.step = 1
    /\ x.pc = "answered" /\ x.answer \in {"ok", "not_ok"} => x.step \notin Gated
    /\ x.pc \in {"poll", "waiting"} \/ (x.pc = "answered" /\ x.answer = "held") =>
          x.hold \in Holds /\ Own(x.hold, e, x.step)

\* Behind the current step every gate was opened.
Passed(e) ==
    \A g \in Gated : g < exec[e].step =>
        \E a \in Holds : Own(a, e, g) /\ approval[a].status = "approved"

\* Beyond it nothing has happened.
Untouched(e) ==
    \A s \in Step : s > exec[e].step =>
        effects[e][s] = 0 /\ \A a \in Holds : ~Own(a, e, s)

GateInv == \A e \in Execs : InStep(e) /\ Passed(e) /\ Untouched(e)

------------------------------------------------------------------------------
(* What StepDoneOnce rests on: an account of who may still do a step.       *)

\* Rows whose approval would do the step.
Open(e, s) == {a \in Holds : Own(a, e, s) /\ approval[a].status = "pending"}

\* Whether the execution itself may still send the step.
Future(e, s) ==
    LET x == exec[e] IN
    IF \/ x.pc # "done" /\ x.step < s
       \/ x.pc \in {"free", "desktop", "sent", "inline"} /\ x.step = s
    THEN 1 ELSE 0

Account(e, s) ==
    /\ IsFiniteSet(Open(e, s))
    /\ effects[e][s] + Cardinality(Open(e, s)) + Future(e, s) <= 1 + blind[e][s]

AccountInv == \A e \in Execs, s \in Step : Account(e, s)

------------------------------------------------------------------------------
(* What the operators on a slot return.                                     *)

LEMMA StartedIs ==
  ASSUME NEW how \in {"desktop", "inline"}
  PROVE  /\ Started(how) \in Slot
         /\ Started(how).pc = how /\ Started(how).step = 1
<1>1. 1 \in Step
  BY RoutineAssumption DEF Step
<1>2. Idle \in Slot
  BY <1>1 DEF Idle, Slot, Answers
<1> QED
  BY <1>2 DEF Started, Idle, Slot, Answers

LEMMA EndedIs ==
  ASSUME NEW x \in Slot,
         NEW how \in {"completed", "failed", "aborted", "timed_out", "awaiting_approval"}
  PROVE  /\ Ended(x, how) \in Slot
         /\ Ended(x, how).pc = "done" /\ Ended(x, how).step = x.step
  BY DEF Ended, Slot, Answers

\* On to the next step, in the place given, or over.
LEMMA OnwardIs ==
  ASSUME NEW x \in Slot, NEW here \in {"sent", "inline"}
  PROVE  /\ Onward(x, here) \in Slot
         /\ \/ Onward(x, here).pc = "done" /\ Onward(x, here).step = x.step
            \/ Onward(x, here).pc = here /\ Onward(x, here).step = x.step + 1
<1>1. CASE x.step = NSteps
  BY <1>1, EndedIs DEF Onward
<1>2. CASE x.step # NSteps
  <2>1. x.step + 1 \in Step
    BY <1>2, RoutineAssumption DEF Slot, Answers, Step
  <2> QED
    BY <1>2, <2>1 DEF Onward, Slot, Answers
<1> QED
  BY <1>1, <1>2

\* The same step again from where it can be tried, or over.
LEMMA AgainIs ==
  ASSUME NEW x \in Slot
  PROVE  /\ Again(x) \in Slot
         /\ Again(x).step = x.step
         /\ \/ Again(x).pc = "done"
            \/ Again(x).pc = "sent" /\ x.pc = "answered"
            \/ Again(x).pc = x.pc /\ x.pc # "answered" /\ Again(x).hold = x.hold
<1>1. CASE x.try = Attempts
  BY <1>1, EndedIs DEF Again
<1>2. CASE x.try # Attempts
  <2>1. Again(x) = [x EXCEPT !.try = @ + 1, !.answer = None,
                             !.pc = IF @ = "answered" THEN "sent" ELSE @]
    BY <1>2 DEF Again
  <2>2. x.try + 1 \in Nat /\ (IF x.pc = "answered" THEN "sent" ELSE x.pc)
            \in {"free", "desktop", "sent", "answered", "poll", "waiting", "inline", "done"}
    BY DEF Slot
  <2>3. Again(x) \in Slot
    BY <2>1, <2>2 DEF Slot
  <2>4. /\ Again(x).step = x.step /\ Again(x).hold = x.hold
        /\ Again(x).pc = IF x.pc = "answered" THEN "sent" ELSE x.pc
    BY <2>1 DEF Slot, Answers
  <2> QED
    BY <2>3, <2>4
<1> QED
  BY <1>1, <1>2

------------------------------------------------------------------------------
(* What a step may be. The invariants are shown of these shapes, not of each *)
(* action again.                                                             *)

\* Execution e goes on as x.
Move(e, x) ==
    /\ x.pc = "answered" => x.answer \in Answers
    /\ exec' = [exec EXCEPT ![e] = x]

\* Step s of e is done n times, and nothing else is done.
Did(e, s, n) ==
    /\ effects' \in [Execs -> [Step -> Nat]]
    /\ effects'[e][s] = effects[e][s] + n
    /\ \A f \in Execs, q \in Step : f # e \/ q # s => effects'[f][q] = effects[f][q]

\* The row a is new, and waits for a decision about e's step.
Filing(e, a) ==
    /\ approval[a] = None
    /\ approval' \in [Holds -> Filed \cup {None}]
    /\ approval'[a] # None /\ approval'[a].status = "pending"
    /\ approval'[a].exec = e /\ approval'[a].step = exec[e].step
    /\ \A b \in Holds \ {a} : approval'[b] = approval[b]

Polls(e) ==
    exec[e].pc \in {"poll", "waiting"} \/ (exec[e].pc = "answered" /\ exec[e].answer = "held")

\* The same step, at the same place or further on in it, or the end.
Stays(e, x) ==
    /\ UNCHANGED <<approval, effects, blind>>
    /\ x.step = exec[e].step
    /\ x.pc \in {"desktop", "sent", "poll", "waiting", "done"}
    /\ x.pc \in {"desktop", "sent"} => exec[e].pc \in {"desktop", "sent"}
    /\ x.pc \in {"poll", "waiting"} => x.hold = exec[e].hold /\ Polls(e)

\* An attempt that had its answer is repeated, or was the last.
Repeats(e, x) ==
    /\ UNCHANGED <<approval, effects>>
    /\ exec[e].pc = "answered" /\ x.step = exec[e].step /\ x.pc \in {"sent", "done"}
    /\ blind' = [blind EXCEPT ![e][exec[e].step] = @ + 1]

\* The next step: the answer was that the step was done, or its row was approved.
Advances(e, x) ==
    /\ UNCHANGED <<approval, effects, blind>>
    /\ x.step = exec[e].step + 1 /\ x.pc = "sent"
    /\ \/ exec[e].pc = "answered" /\ exec[e].answer \in {"ok", "not_ok"}
       \/ exec[e].pc = "poll" /\ approval[exec[e].hold].status = "approved"

\* The API has answered.
Responds(e, x) ==
    /\ UNCHANGED blind
    /\ exec[e].pc = "sent" /\ x.pc = "answered" /\ x.step = exec[e].step
    /\ \/ /\ UNCHANGED approval
          /\ \E n \in {0, 1} : Did(e, exec[e].step, n)
          /\ x.answer # "held"
          /\ x.answer \in {"ok", "not_ok"} => exec[e].step \notin Gated
       \/ /\ UNCHANGED effects
          /\ \E a \in Holds : Filing(e, a) /\ (x.answer = "held" => x.hold = a)
          /\ x.answer \in {"held", "error"}

\* The inline walk has done or held a step.
Walks(e, x) ==
    /\ UNCHANGED blind
    /\ exec[e].pc = "inline"
    /\ \/ /\ UNCHANGED approval
          /\ x.step = exec[e].step /\ x.pc = "done"
          /\ \E n \in {0, 1} : Did(e, exec[e].step, n)
       \/ /\ UNCHANGED approval
          /\ exec[e].step \notin Gated
          /\ x.step = exec[e].step + 1 /\ x.pc = "inline"
          /\ Did(e, exec[e].step, 1)
       \/ /\ UNCHANGED effects
          /\ x.step = exec[e].step /\ x.pc = "done"
          /\ \E a \in Holds : Filing(e, a)

Goes(e, x) ==
    /\ Move(e, x)
    /\ Stays(e, x) \/ Repeats(e, x) \/ Advances(e, x) \/ Responds(e, x) \/ Walks(e, x)

\* Executions that had not begun are at their first step.
Begins(F) ==
    /\ \A f \in F : exec[f].pc = "free"
    /\ exec' \in [Execs -> Slot]
    /\ \A f \in F : exec'[f].pc \in {"desktop", "inline"} /\ exec'[f].step = 1
    /\ \A f \in Execs \ F : exec'[f] = exec[f]
    /\ UNCHANGED <<approval, effects, blind>>

LEMMA Does ==
  ASSUME TypeOK, NEW e \in Execs, NEW s \in Step, NEW n \in {0, 1},
         effects' = [effects EXCEPT ![e][s] = @ + n]
  PROVE  Did(e, s, n)
<1>1. effects[e] \in [Step -> Nat] /\ effects[e][s] + n \in Nat
  BY DEF TypeOK
<1>2. [effects[e] EXCEPT ![s] = @ + n] \in [Step -> Nat]
  BY <1>1
<1>3. effects' = [effects EXCEPT ![e] = [effects[e] EXCEPT ![s] = @ + n]]
  OBVIOUS
<1> QED
  BY <1>1, <1>2, <1>3 DEF Did, TypeOK

LEMMA DoesNothing ==
  ASSUME TypeOK, NEW e \in Execs, NEW s \in Step, UNCHANGED effects
  PROVE  Did(e, s, 0)
  BY DEF Did, TypeOK

LEMMA FilesOne ==
  ASSUME TypeOK, NEW e \in Execs, NEW a \in Holds, approval[a] = None, Files(e, a)
  PROVE  Filing(e, a)
<1> DEFINE r == [status |-> "pending", exec |-> e, step |-> exec[e].step]
<1>1. r \in Filed /\ r # None
  BY RoutineAssumption DEF TypeOK, Slot, Filed
<1>2. approval' = [approval EXCEPT ![a] = r]
  BY DEF Files
<1>3. approval'[a] = r /\ approval' \in [Holds -> Filed \cup {None}]
      /\ \A b \in Holds \ {a} : approval'[b] = approval[b]
  BY <1>1, <1>2 DEF TypeOK
<1> QED
  BY <1>1, <1>3 DEF Filing

LEMMA HandleGoes ==
  ASSUME TypeOK, NEW e \in Execs, Handle(e)
  PROVE  \E x \in Slot : Goes(e, x)
<1> DEFINE s == exec[e].step
           y(answer) == [exec[e] EXCEPT !.pc = "answered", !.answer = answer]
           z(a) == [exec[e] EXCEPT !.pc = "answered", !.answer = "held", !.hold = a]
<1>0. exec[e] \in Slot /\ s \in Step
  BY DEF TypeOK, Slot
<1>1. \A answer \in Answers :
        y(answer) \in Slot /\ y(answer).pc = "answered" /\ y(answer).answer = answer
        /\ y(answer).step = s
  BY <1>0 DEF Slot
<1>2. \A a \in Holds : z(a) \in Slot /\ z(a).pc = "answered" /\ z(a).answer = "held"
        /\ z(a).step = s /\ z(a).hold = a
  BY <1>0 DEF Slot, Answers
<1>3. ASSUME s \notin Gated, NEW answer \in {"ok", "not_ok"}, NEW n \in {0, 1},
             exec' = [exec EXCEPT ![e] = y(answer)],
             effects' = [effects EXCEPT ![e][s] = @ + n], UNCHANGED approval
      PROVE  Goes(e, y(answer))
  BY <1>0, <1>1, <1>3, Does DEF Handle, Goes, Move, Responds, Answers
<1>4. ASSUME NEW a \in Holds, approval[a] = None, Files(e, a),
             exec' = [exec EXCEPT ![e] = z(a)], UNCHANGED effects
      PROVE  Goes(e, z(a))
  <2>1. Filing(e, a)
    BY <1>4, FilesOne
  <2>2. UNCHANGED blind /\ exec[e].pc = "sent"
    BY DEF Handle
  <2> QED
    BY <1>2, <1>4, <2>1, <2>2 DEF Goes, Move, Responds, Answers
<1>e. ASSUME NEW a \in Holds, approval[a] = None, Files(e, a),
             exec' = [exec EXCEPT ![e] = y("error")], UNCHANGED effects
      PROVE  Goes(e, y("error"))
  <2>1. Filing(e, a)
    BY <1>e, FilesOne
  <2>2. UNCHANGED blind /\ exec[e].pc = "sent"
    BY DEF Handle
  <2> QED
    BY <1>1, <1>e, <2>1, <2>2 DEF Goes, Move, Responds, Answers
<1>5. ASSUME exec' = [exec EXCEPT ![e] = y("refused")], UNCHANGED <<approval, effects>>
      PROVE  Goes(e, y("refused"))
  BY <1>0, <1>1, <1>5, DoesNothing DEF Handle, Goes, Move, Responds, Answers
<1>6. ASSUME NEW n \in {0, 1}, effects' = [effects EXCEPT ![e][s] = @ + n],
             exec' = [exec EXCEPT ![e] = y("error")], UNCHANGED approval
      PROVE  Goes(e, y("error"))
  BY <1>0, <1>1, <1>6, Does DEF Handle, Goes, Move, Responds, Answers
<1>7. \/ /\ s \notin Gated /\ UNCHANGED approval
         /\ \E answer \in {"ok", "not_ok"}, n \in {0, 1} :
               /\ exec' = [exec EXCEPT ![e] = y(answer)]
               /\ effects' = [effects EXCEPT ![e][s] = @ + n]
      \/ /\ UNCHANGED effects
         /\ \E a \in Holds : /\ approval[a] = None /\ Files(e, a)
                              /\ exec' = [exec EXCEPT ![e] = z(a)]
      \/ exec' = [exec EXCEPT ![e] = y("refused")] /\ UNCHANGED <<approval, effects>>
      \/ /\ UNCHANGED approval
         /\ exec' = [exec EXCEPT ![e] = y("error")]
         /\ \E n \in {0, 1} : effects' = [effects EXCEPT ![e][s] = @ + n]
      \/ /\ UNCHANGED effects
         /\ exec' = [exec EXCEPT ![e] = y("error")]
         /\ \E a \in Holds : approval[a] = None /\ Files(e, a)
  <2>0. effects = [effects EXCEPT ![e][s] = @ + 0]
    BY <1>0 DEF TypeOK
  <2> USE  DEF Handle
  <2>1. CASE s \in Gated
    BY <2>0, <2>1
  <2>2. CASE s \notin Gated
    BY <2>2
  <2> QED
    BY <2>1, <2>2
<1>8. \A answer \in Answers : y(answer) \in Slot
  BY <1>1
<1>9. \A a \in Holds : z(a) \in Slot
  BY <1>2
<1> HIDE DEF y, z
<1> QED
  BY <1>3, <1>4, <1>e, <1>5, <1>6, <1>7, <1>8, <1>9 DEF Answers

LEMMA AnsweredGoes ==
  ASSUME TypeOK, NEW e \in Execs, Answered(e)
  PROVE  \E x \in Slot : Goes(e, x)
<1> DEFINE y == [exec[e] EXCEPT !.pc = "poll", !.try = 1]
<1>1. exec[e] \in Slot /\ exec[e].step \in Step /\ exec[e].answer \in Answers
  BY DEF TypeOK, Slot, Answered
<1>2. y \in Slot /\ y.pc = "poll" /\ y.step = exec[e].step /\ y.hold = exec[e].hold
  BY <1>1 DEF Slot
<1> HIDE DEF y
<1>3. exec[e].pc = "answered" /\ UNCHANGED <<approval, effects>>
  BY DEF Answered
<1>4. CASE exec[e].answer \in {"ok", "not_ok"}
  <2>1. exec' = [exec EXCEPT ![e] = Onward(exec[e], "sent")] /\ UNCHANGED blind
    BY <1>4 DEF Answered
  <2> QED
    BY <1>1, <1>3, <1>4, <2>1, OnwardIs DEF Goes, Move, Stays, Advances
<1>5. CASE exec[e].answer = "held"
  <2>1. exec' = [exec EXCEPT ![e] = y] /\ UNCHANGED blind
    BY <1>5 DEF Answered, y
  <2> QED
    BY <1>2, <1>3, <1>5, <2>1 DEF Goes, Move, Stays, Polls
<1>6. CASE exec[e].answer = "refused"
  <2>1. exec' = [exec EXCEPT ![e] = Ended(exec[e], "failed")] /\ UNCHANGED blind
    BY <1>6 DEF Answered
  <2> QED
    BY <1>1, <1>3, <2>1, EndedIs DEF Goes, Move, Stays
<1>7. CASE exec[e].answer = "error"
  <2>1. exec' = [exec EXCEPT ![e] = Again(exec[e])]
        /\ blind' = [blind EXCEPT ![e][exec[e].step] = @ + 1]
    BY <1>7 DEF Answered
  <2> QED
    BY <1>1, <1>3, <2>1, AgainIs DEF Goes, Move, Repeats
<1> QED
  BY <1>1, <1>4, <1>5, <1>6, <1>7 DEF Answers

LEMMA PollGoes ==
  ASSUME TypeOK, NEW e \in Execs, Poll(e)
  PROVE  \E x \in Slot : Goes(e, x)
<1> DEFINE y == [exec[e] EXCEPT !.pc = "waiting", !.try = 1]
<1>1. exec[e] \in Slot
  BY DEF TypeOK
<1>2. y \in Slot /\ y.pc = "waiting" /\ y.step = exec[e].step /\ y.hold = exec[e].hold
  BY <1>1 DEF Slot
<1> HIDE DEF y
<1>3. exec[e].pc = "poll" /\ UNCHANGED <<approval, effects, blind>>
  BY DEF Poll
<1>4. \/ exec' = [exec EXCEPT ![e] = y]
      \/ /\ exec' = [exec EXCEPT ![e] = Onward(exec[e], "sent")]
         /\ approval[exec[e].hold].status = "approved"
      \/ exec' = [exec EXCEPT ![e] = Ended(exec[e], "aborted")]
      \/ exec' = [exec EXCEPT ![e] = Ended(exec[e], "failed")]
  <2> DEFINE h == approval[exec[e].hold]
  <2>1. CASE h.status = "pending"
    BY <2>1 DEF Poll, y
  <2>2. CASE h.status = "approved"
    BY <2>2 DEF Poll
  <2>3. CASE h.status \notin {"pending", "approved"}
    BY <2>3 DEF Poll
  <2> QED
    BY <2>1, <2>2, <2>3
<1>5. CASE exec' = [exec EXCEPT ![e] = y]
  BY <1>2, <1>3, <1>5 DEF Goes, Move, Stays, Polls
<1>6. ASSUME exec' = [exec EXCEPT ![e] = Onward(exec[e], "sent")],
             approval[exec[e].hold].status = "approved"
      PROVE  \E x \in Slot : Goes(e, x)
  BY <1>1, <1>3, <1>6, OnwardIs DEF Goes, Move, Stays, Advances
<1>7. CASE \/ exec' = [exec EXCEPT ![e] = Ended(exec[e], "aborted")]
           \/ exec' = [exec EXCEPT ![e] = Ended(exec[e], "failed")]
  BY <1>1, <1>3, <1>7, EndedIs DEF Goes, Move, Stays
<1> QED
  BY <1>4, <1>5, <1>6, <1>7

LEMMA InlineGoes ==
  ASSUME TypeOK, NEW e \in Execs, InlineStep(e)
  PROVE  \E x \in Slot : Goes(e, x)
<1> DEFINE s == exec[e].step
<1>1. exec[e] \in Slot /\ s \in Step
  BY DEF TypeOK, Slot
<1>2. exec[e].pc = "inline" /\ UNCHANGED blind
  BY DEF InlineStep
<1>3. ASSUME NEW a \in Holds, approval[a] = None, Files(e, a), UNCHANGED effects,
             exec' = [exec EXCEPT ![e] = Ended(exec[e], "awaiting_approval")]
      PROVE  \E x \in Slot : Goes(e, x)
  BY <1>1, <1>2, <1>3, FilesOne, EndedIs DEF Goes, Move, Walks
<1>4. ASSUME s \notin Gated, exec' = [exec EXCEPT ![e] = Onward(exec[e], "inline")],
             effects' = [effects EXCEPT ![e][s] = @ + 1], UNCHANGED approval
      PROVE  \E x \in Slot : Goes(e, x)
  <2>1. Did(e, s, 1)
    BY <1>1, <1>4, Does
  <2> QED
    BY <1>1, <1>2, <1>4, <2>1, OnwardIs DEF Goes, Move, Walks
<1>5. ASSUME NEW n \in {0, 1}, exec' = [exec EXCEPT ![e] = Ended(exec[e], "failed")],
             effects' = [effects EXCEPT ![e][s] = @ + n], UNCHANGED approval
      PROVE  \E x \in Slot : Goes(e, x)
  <2>1. Did(e, s, n)
    BY <1>1, <1>5, Does
  <2> QED
    BY <1>1, <1>2, <1>5, <2>1, EndedIs DEF Goes, Move, Walks
<1> QED
  BY <1>3, <1>4, <1>5 DEF InlineStep

LEMMA AgainGoes ==
  ASSUME TypeOK, NEW e \in Execs, exec[e].pc \in {"desktop", "sent", "poll"},
         UNCHANGED <<approval, effects, blind>>, exec' = [exec EXCEPT ![e] = Again(@)]
  PROVE  \E x \in Slot : Goes(e, x)
<1>1. exec[e] \in Slot
  BY DEF TypeOK
<1>2. PICK x \in Slot : x = Again(exec[e])
  BY <1>1, AgainIs
<1>3. x.step = exec[e].step /\ (x.pc = "done" \/ (x.pc = exec[e].pc /\ x.hold = exec[e].hold))
  BY <1>1, <1>2, AgainIs
<1>4. exec' = [exec EXCEPT ![e] = x]
  BY <1>2
<1> QED
  BY <1>3, <1>4 DEF Goes, Move, Stays, Polls

\* The row a was pending and is decided; its step is done n times.
Decides(a) ==
    /\ approval[a] # None /\ approval[a].status = "pending"
    /\ approval' \in [Holds -> Filed \cup {None}]
    /\ approval'[a] # None /\ approval'[a].status # "pending"
    /\ approval'[a].exec = approval[a].exec /\ approval'[a].step = approval[a].step
    /\ \A b \in Holds \ {a} : approval'[b] = approval[b]
    /\ \E n \in {0, 1} : Did(approval[a].exec, approval[a].step, n)
    /\ UNCHANGED <<exec, blind>>

LEMMA DecideDecides ==
  ASSUME TypeOK, NEW a \in Holds, Decide(a)
  PROVE  Decides(a)
<1> DEFINE r == approval[a]
<1>1. r \in Filed /\ r.exec \in Execs /\ r.step \in Step
  BY DEF TypeOK, Decide, Filed
<1>2. PICK how \in {"approved", "rejected", "expired"} :
        approval' = [approval EXCEPT ![a] = [r EXCEPT !.status = how]]
  BY DEF Decide
<1>3. [r EXCEPT !.status = how] \in Filed /\ [r EXCEPT !.status = how] # None
      /\ [r EXCEPT !.status = how].status = how
      /\ [r EXCEPT !.status = how].exec = r.exec
      /\ [r EXCEPT !.status = how].step = r.step
  BY <1>1, RoutineAssumption DEF Filed
<1>4. approval'[a] = [r EXCEPT !.status = how]
      /\ approval' \in [Holds -> Filed \cup {None}]
      /\ \A b \in Holds \ {a} : approval'[b] = approval[b]
  BY <1>2, <1>3 DEF TypeOK
<1>5. \E n \in {0, 1} : Did(r.exec, r.step, n)
  <2>1. CASE \E n \in {0, 1} : effects' = [effects EXCEPT ![r.exec][r.step] = @ + n]
    BY <1>1, <2>1, Does
  <2>2. CASE UNCHANGED effects
    BY <1>1, <2>2, DoesNothing
  <2> QED
    BY <2>1, <2>2 DEF Decide
<1> QED
  BY <1>3, <1>4, <1>5 DEF Decides, Decide

\* Every step is a beginning, a decision, or one execution going on.
LEMMA StepShape ==
  ASSUME TypeOK, [Next]_vars
  PROVE  \/ UNCHANGED <<exec, approval, effects, blind>>
         \/ \E F \in SUBSET Execs : Begins(F)
         \/ \E a \in Holds : Decides(a)
         \/ \E e \in Execs, x \in Slot : Goes(e, x)
<1> DEFINE Goal == \/ \E F \in SUBSET Execs : Begins(F)
                   \/ \E e \in Execs, x \in Slot : Goes(e, x)
<1>s. \A e \in Execs : exec[e] \in Slot /\ exec[e].step \in Step
  BY DEF TypeOK, Slot
<1>1. ASSUME NEW e \in Execs, Start(e) PROVE Goal
  <2>1. ASSUME NEW how \in {"desktop", "inline"}, exec' = [exec EXCEPT ![e] = Started(how)]
        PROVE  Begins({e})
    BY <1>1, <2>1, StartedIs DEF Start, Begins, TypeOK
  <2>2. ASSUME NEW f \in Execs \ {e}, exec[f].pc = "free",
               exec' = [exec EXCEPT ![e] = Started("desktop"), ![f] = Started("inline")]
        PROVE  Begins({e, f})
    BY <1>1, <2>2, StartedIs DEF Start, Begins, TypeOK
  <2> QED
    BY <1>1, <2>1, <2>2 DEF Start
<1>2. ASSUME NEW e \in Execs, EnsureDesktop(e) PROVE Goal
  <2> DEFINE x == [exec[e] EXCEPT !.pc = "sent", !.try = 1]
  <2>1. x \in Slot /\ x.pc = "sent" /\ x.step = exec[e].step
    BY <1>s DEF Slot
  <2>2. exec' = [exec EXCEPT ![e] = x] /\ exec[e].pc = "desktop"
        /\ UNCHANGED <<approval, effects, blind>>
    BY <1>2 DEF EnsureDesktop
  <2> HIDE DEF x
  <2> QED
    BY <2>1, <2>2 DEF Goes, Move, Stays
<1>3. ASSUME NEW e \in Execs, DesktopFails(e) PROVE Goal
  <2>1. exec[e].pc = "desktop" /\ UNCHANGED <<approval, effects, blind>>
        /\ (exec' = [exec EXCEPT ![e] = Again(@)]
              \/ exec' = [exec EXCEPT ![e] = Ended(exec[e], "failed")])
    BY <1>3 DEF DesktopFails
  <2>2. CASE exec' = [exec EXCEPT ![e] = Again(@)]
    BY <2>1, <2>2, AgainGoes
  <2>3. CASE exec' = [exec EXCEPT ![e] = Ended(exec[e], "failed")]
    BY <1>s, <2>1, <2>3, EndedIs DEF Goes, Move, Stays
  <2> QED
    BY <2>1, <2>2, <2>3
<1>4. ASSUME NEW e \in Execs, AnswerLost(e) \/ InlineDies(e) PROVE Goal
  BY <1>4, <1>s, EndedIs DEF AnswerLost, InlineDies, Goes, Move, Stays
<1>5. ASSUME NEW e \in Execs, Unreachable(e) PROVE Goal
  <2>1. exec[e].pc \in {"desktop", "sent", "poll"} /\ UNCHANGED <<approval, effects, blind>>
        /\ exec' = [exec EXCEPT ![e] = Again(exec[e])]
    BY <1>5 DEF Unreachable
  <2> QED
    BY <2>1, AgainGoes
<1>6. ASSUME NEW e \in Execs, WorkerDies(e) PROVE Goal
  <2>1. exec[e].pc \in {"desktop", "sent", "answered", "poll"}
        /\ UNCHANGED <<approval, effects>> /\ exec' = [exec EXCEPT ![e] = Again(exec[e])]
    BY <1>6 DEF WorkerDies
  <2>2. CASE exec[e].pc = "answered"
    <3>1. blind' = [blind EXCEPT ![e][exec[e].step] = @ + 1]
      BY <1>6, <2>2 DEF WorkerDies
    <3> QED
      BY <1>s, <2>1, <2>2, <3>1, AgainIs DEF Goes, Move, Repeats
  <2>3. CASE exec[e].pc # "answered"
    <3>1. UNCHANGED blind
      BY <1>6, <2>3 DEF WorkerDies
    <3> QED
      BY <2>1, <2>3, <3>1, AgainGoes
  <2> QED
    BY <2>2, <2>3
<1>7. ASSUME NEW e \in Execs, DeadlinePasses(e) PROVE Goal
  <2> DEFINE x == [exec[e] EXCEPT !.late = TRUE]
  <2>1. x \in Slot /\ x.pc = exec[e].pc /\ x.step = exec[e].step /\ x.hold = exec[e].hold
    BY <1>s DEF Slot
  <2>2. exec' = [exec EXCEPT ![e] = x] /\ exec[e].pc \in {"poll", "waiting"}
        /\ UNCHANGED <<approval, effects, blind>>
    BY <1>7 DEF DeadlinePasses
  <2> HIDE DEF x
  <2> QED
    BY <2>1, <2>2 DEF Goes, Move, Stays, Polls
<1>8. ASSUME NEW e \in Execs, Wait(e) PROVE Goal
  <2> DEFINE x == [exec[e] EXCEPT !.pc = "poll"]
  <2>1. x \in Slot /\ x.pc = "poll" /\ x.step = exec[e].step /\ x.hold = exec[e].hold
    BY <1>s DEF Slot
  <2>2. exec[e].pc = "waiting" /\ UNCHANGED <<approval, effects, blind>>
        /\ (exec' = [exec EXCEPT ![e] = Ended(exec[e], "timed_out")]
              \/ exec' = [exec EXCEPT ![e] = x])
    BY <1>8 DEF Wait
  <2> HIDE DEF x
  <2> QED
    BY <1>s, <2>1, <2>2, EndedIs DEF Goes, Move, Stays, Polls
<1>9. CASE UNCHANGED vars
  BY <1>9 DEF vars
<1> QED
  BY <1>1, <1>2, <1>3, <1>4, <1>5, <1>6, <1>7, <1>8, <1>9, HandleGoes, AnsweredGoes,
     PollGoes, InlineGoes, DecideDecides DEF Next, WorkerStep

------------------------------------------------------------------------------
(* Types                                                                    *)

LEMMA InitTypes == Init => TypeOK
<1>1. Idle \in Slot /\ Idle.pc = "free"
  BY RoutineAssumption DEF Idle, Slot, Answers, Step
<1> QED
  BY <1>1 DEF Init, TypeOK

LEMMA StepTypes == TypeOK /\ [Next]_vars => TypeOK'
<1> SUFFICES ASSUME TypeOK, [Next]_vars PROVE TypeOK'
  OBVIOUS
<1>1. CASE UNCHANGED <<exec, approval, effects, blind>>
  BY <1>1 DEF TypeOK
<1>2. ASSUME NEW F \in SUBSET Execs, Begins(F) PROVE TypeOK'
  BY <1>2 DEF Begins, TypeOK
<1>3. ASSUME NEW a \in Holds, Decides(a) PROVE TypeOK'
  BY <1>3 DEF Decides, Did, TypeOK
<1>4. ASSUME NEW e \in Execs, NEW x \in Slot, Goes(e, x) PROVE TypeOK'
  <2>1. /\ exec' \in [Execs -> Slot]
        /\ \A f \in Execs : exec'[f].pc = "answered" => exec'[f].answer \in Answers
    BY <1>4 DEF Goes, Move, TypeOK
  <2>2. /\ approval' \in [Holds -> Filed \cup {None}]
        /\ effects' \in [Execs -> [Step -> Nat]]
    BY <1>4 DEF Goes, Stays, Repeats, Advances, Responds, Walks, Did, Filing, TypeOK
  <2>3. blind' \in [Execs -> [Step -> Nat]]
    <3>1. CASE UNCHANGED blind
      BY <3>1 DEF TypeOK
    <3>2. CASE blind' = [blind EXCEPT ![e][exec[e].step] = @ + 1]
      <4>1. exec[e].step \in Step
        BY DEF TypeOK, Slot
      <4>2. [blind[e] EXCEPT ![exec[e].step] = @ + 1] \in [Step -> Nat]
        BY <4>1 DEF TypeOK
      <4> QED
        BY <3>2, <4>2 DEF TypeOK
    <3> QED
      BY <1>4, <3>1, <3>2 DEF Goes, Stays, Repeats, Advances, Responds, Walks
  <2> QED
    BY <2>1, <2>2, <2>3 DEF TypeOK
<1> QED
  BY <1>1, <1>2, <1>3, <1>4, StepShape

------------------------------------------------------------------------------
(* The gates                                                                *)

\* What a step does to rows and effects: rows stay their owner's and approved ones
\* stay approved, and only the current step of the execution that goes on, or the
\* step of a pending row, is done or gets a new row.
Kept ==
    \A b \in Holds, f \in Execs, s \in Step :
        Own(b, f, s) => /\ Own(b, f, s)'
                        /\ approval[b].status = "approved" => approval'[b].status = "approved"

Touches(e, s) ==
    \A f \in Execs, q \in Step : f # e \/ q # s =>
        /\ effects'[f][q] = effects[f][q]
        /\ \A b \in Holds : Own(b, f, q)' => Own(b, f, q)

LEMMA GoesTouches ==
  ASSUME TypeOK, NEW e \in Execs, NEW x \in Slot, Goes(e, x)
  PROVE  Kept /\ Touches(e, exec[e].step)
<1> DEFINE s == exec[e].step
<1>1. CASE UNCHANGED <<approval, effects>>
  BY <1>1 DEF Kept, Touches, Own
<1>2. ASSUME UNCHANGED approval, NEW n \in {0, 1}, Did(e, s, n)
      PROVE  Kept /\ Touches(e, s)
  BY <1>2 DEF Kept, Touches, Own, Did
<1>3. ASSUME UNCHANGED effects, NEW a \in Holds, Filing(e, a)
      PROVE  Kept /\ Touches(e, s)
  <2>1. \A b \in Holds : b = a \/ approval'[b] = approval[b]
    BY <1>3 DEF Filing
  <2>2. Kept
    BY <1>3, <2>1 DEF Kept, Own, Filing
  <2>3. Touches(e, s)
    BY <1>3, <2>1 DEF Touches, Own, Filing
  <2> QED
    BY <2>2, <2>3
<1> QED
  BY <1>1, <1>2, <1>3 DEF Goes, Stays, Repeats, Advances, Responds, Walks

LEMMA DecidesTouches ==
  ASSUME TypeOK, NEW a \in Holds, Decides(a)
  PROVE  /\ approval[a].exec \in Execs /\ approval[a].step \in Step
         /\ Own(a, approval[a].exec, approval[a].step)
         /\ Kept /\ Touches(approval[a].exec, approval[a].step)
<1>1. approval[a].exec \in Execs /\ approval[a].step \in Step
      /\ Own(a, approval[a].exec, approval[a].step)
  BY DEF TypeOK, Decides, Filed, Own
<1>2. \A b \in Holds : b = a \/ approval'[b] = approval[b]
  BY DEF Decides
<1>3. Kept
  BY <1>2 DEF Kept, Own, Decides
<1>4. Touches(approval[a].exec, approval[a].step)
  BY <1>2 DEF Touches, Own, Decides, Did
<1> QED
  BY <1>1, <1>3, <1>4

LEMMA InitGates == Init => GateInv
<1> SUFFICES ASSUME Init PROVE GateInv
  OBVIOUS
<1>1. \A e \in Execs : exec[e].pc = "free" /\ exec[e].step = 1
  BY DEF Init, Idle
<1>2. \A a \in Holds, e \in Execs, s \in Step : ~Own(a, e, s)
  BY DEF Init, Own
<1>3. \A e \in Execs, s \in Step : effects[e][s] = 0
  BY DEF Init
<1>4. \A g \in Gated : ~(g < 1)
  BY RoutineAssumption DEF Step
<1> QED
  BY <1>1, <1>2, <1>3, <1>4 DEF GateInv, InStep, Passed, Untouched

\* An execution that neither moved nor had its steps touched keeps its gates.
LEMMA OthersGates ==
  ASSUME TypeOK, NEW f \in Execs, InStep(f), Passed(f), Untouched(f), Kept,
         exec'[f] = exec[f],
         \A q \in Step : q > exec[f].step =>
            effects'[f][q] = effects[f][q] /\ \A b \in Holds : Own(b, f, q)' => Own(b, f, q)
  PROVE  InStep(f)' /\ Passed(f)' /\ Untouched(f)'
<1>1. exec[f].step \in Step /\ Gated \subseteq Step
  BY RoutineAssumption DEF TypeOK, Slot
<1>2. InStep(f)'
  BY <1>1 DEF InStep, Kept
<1>3. Passed(f)'
  BY <1>1 DEF Passed, Kept
<1>4. Untouched(f)'
  BY <1>1 DEF Untouched
<1> QED
  BY <1>2, <1>3, <1>4

\* The execution that goes on keeps its own.
LEMMA GoesGates ==
  ASSUME TypeOK, GateInv, NEW e \in Execs, NEW x \in Slot, Goes(e, x),
         Kept, Touches(e, exec[e].step)
  PROVE  InStep(e)' /\ Passed(e)' /\ Untouched(e)'
<1> DEFINE s == exec[e].step
<1>1. s \in Step /\ x.step \in Step /\ Gated \subseteq Step /\ Step \subseteq Nat
  BY RoutineAssumption DEF TypeOK, Slot, Step
<1>2. exec'[e] = x /\ InStep(e) /\ Passed(e) /\ Untouched(e)
  BY DEF Goes, Move, TypeOK, GateInv
<1>3. x.step = s \/ (x.step = s + 1 /\ (s \in Gated => \E a \in Holds :
                          Own(a, e, s) /\ approval[a].status = "approved"))
  BY <1>2 DEF Goes, Stays, Repeats, Advances, Responds, Walks, InStep
<1>4. Passed(e)'
  <2> SUFFICES ASSUME NEW g \in Gated, g < x.step
               PROVE  \E a \in Holds : Own(a, e, g)' /\ approval'[a].status = "approved"
    BY <1>2 DEF Passed
  <2>1. \E a \in Holds : Own(a, e, g) /\ approval[a].status = "approved"
    <3>0. g \in Nat /\ s \in Nat
      BY <1>1
    <3>1. g < s \/ (g = s /\ x.step = s + 1)
      BY <1>3, <3>0
    <3> QED
      BY <1>2, <1>3, <3>1 DEF Passed
  <2> QED
    BY <1>1, <2>1 DEF Kept
<1>5. Untouched(e)'
  <2>0. s \in Nat /\ x.step \in Nat
    BY <1>1
  <2>1. \A q \in Nat : q > x.step => q > s /\ q # s
    BY <1>3, <2>0
  <2>2. \A q \in Step : q > x.step => q > s /\ q # s
    BY <1>1, <2>1
  <2> QED
    BY <1>2, <2>2 DEF Untouched, Touches
<1>6. InStep(e)'
  <2>1. CASE Stays(e, x)
    BY <1>1, <1>2, <2>1 DEF Stays, Polls, InStep, Kept
  <2>2. CASE Repeats(e, x) \/ Advances(e, x) \/ Walks(e, x)
    BY <1>2, <2>2 DEF Repeats, Advances, Walks, InStep
  <2>3. CASE Responds(e, x)
    BY <1>2, <2>3 DEF Responds, Filing, InStep, Own
  <2> QED
    BY <2>1, <2>2, <2>3 DEF Goes
<1> QED
  BY <1>4, <1>5, <1>6

LEMMA StepGates == TypeOK /\ GateInv /\ [Next]_vars => GateInv'
<1> SUFFICES ASSUME TypeOK, GateInv, [Next]_vars, NEW f \in Execs
             PROVE  InStep(f)' /\ Passed(f)' /\ Untouched(f)'
  BY DEF GateInv
<1>f. InStep(f) /\ Passed(f) /\ Untouched(f)
  BY DEF GateInv
<1>1. CASE UNCHANGED <<exec, approval, effects, blind>>
  BY <1>1, <1>f, OthersGates DEF Kept, Own
<1>2. ASSUME NEW F \in SUBSET Execs, Begins(F)
      PROVE  InStep(f)' /\ Passed(f)' /\ Untouched(f)'
  <2>1. exec'[f].step = exec[f].step
        /\ (exec'[f] = exec[f] \/ exec'[f].pc \in {"desktop", "inline"})
    BY <1>2, <1>f DEF Begins, InStep
  <2> QED
    BY <1>2, <1>f, <2>1 DEF Begins, InStep, Passed, Untouched, Own
<1>3. ASSUME NEW a \in Holds, Decides(a)
      PROVE  InStep(f)' /\ Passed(f)' /\ Untouched(f)'
  <2> DEFINE e == approval[a].exec
             s == approval[a].step
  <2>1. e \in Execs /\ s \in Step /\ Own(a, e, s) /\ Kept /\ Touches(e, s)
    BY <1>3, DecidesTouches
  <2>2. ~(f = e /\ s > exec[f].step)
    BY <1>f, <2>1 DEF Untouched
  <2>3. \A q \in Step : q > exec[f].step => f # e \/ q # s
    BY <2>2
  <2>4. exec' = exec
    BY <1>3 DEF Decides
  <2> HIDE DEF e, s
  <2> QED
    BY <1>f, <2>1, <2>3, <2>4, OthersGates DEF Touches
<1>4. ASSUME NEW e \in Execs, NEW x \in Slot, Goes(e, x)
      PROVE  InStep(f)' /\ Passed(f)' /\ Untouched(f)'
  <2>1. Kept /\ Touches(e, exec[e].step)
    BY <1>4, GoesTouches
  <2>2. CASE f = e
    BY <1>4, <2>1, <2>2, GoesGates
  <2>3. CASE f # e
    <3>1. exec'[f] = exec[f]
      BY <1>4, <2>3 DEF Goes, Move, TypeOK
    <3> QED
      BY <1>f, <2>1, <2>3, <3>1, OthersGates DEF Touches
  <2> QED
    BY <2>2, <2>3
<1> QED
  BY <1>1, <1>2, <1>3, <1>4, StepShape

LEMMA GatesSuffice == TypeOK /\ GateInv => NothingPastTheGate
<1> SUFFICES ASSUME TypeOK, GateInv, NEW e \in Execs, NEW g \in Gated, NEW s \in Step,
                    s > g, effects[e][s] > 0 \/ \E a \in Holds : Own(a, e, s)
             PROVE  \E a \in Holds : Own(a, e, g) /\ approval[a].status = "approved"
  BY DEF NothingPastTheGate, Own
<1>1. s \in Nat /\ g \in Nat /\ exec[e].step \in Nat
  BY RoutineAssumption DEF TypeOK, Slot, Step
<1>2. Passed(e) /\ Untouched(e)
  BY DEF GateInv
<1>3. ~(s > exec[e].step)
  BY <1>2 DEF Untouched
<1>4. g < exec[e].step
  BY <1>1, <1>3
<1> QED
  BY <1>2, <1>4 DEF Passed

------------------------------------------------------------------------------
(* The account                                                              *)

\* Only the rows of the one step can have changed.
LEMMA OpenKept ==
  ASSUME NEW f \in Execs, NEW q \in Step, Account(f, q),
         \A b \in Holds : \/ approval'[b] = approval[b]
                          \/ ~Own(b, f, q) /\ ~Own(b, f, q)'
  PROVE  /\ Open(f, q)' = Open(f, q) /\ IsFiniteSet(Open(f, q)')
         /\ Cardinality(Open(f, q)') = Cardinality(Open(f, q))
<1>1. \A b \in Holds :
         (Own(b, f, q) /\ approval[b].status = "pending")'
            <=> (Own(b, f, q) /\ approval[b].status = "pending")
  BY DEF Own
<1>2. Open(f, q)' = Open(f, q)
  BY <1>1 DEF Open
<1> QED
  BY <1>2 DEF Account

LEMMA FilingOpens ==
  ASSUME NEW e \in Execs, NEW s \in Step, s = exec[e].step,
         NEW a \in Holds, Filing(e, a), Account(e, s)
  PROVE  /\ IsFiniteSet(Open(e, s)')
         /\ Cardinality(Open(e, s)') = Cardinality(Open(e, s)) + 1
<1> DEFINE Row(b) == Own(b, e, s) /\ approval[b].status = "pending"
           NewRow(b) == /\ approval'[b] # None /\ approval'[b].exec = e
                        /\ approval'[b].step = s /\ approval'[b].status = "pending"
           O == Open(e, s)
           P == {b \in Holds : NewRow(b)}
<1>1. \A b \in Holds \ {a} : NewRow(b) <=> Row(b)
  BY DEF Filing, Own
<1>2. NewRow(a) /\ ~Row(a)
  BY DEF Filing, Own
<1>3. P = O \cup {a} /\ a \notin O
  BY <1>1, <1>2 DEF Open
<1>4. IsFiniteSet(O)
  BY DEF Account
<1> HIDE DEF O, P
<1>5. IsFiniteSet(P) /\ Cardinality(P) = Cardinality(O) + 1
  BY <1>3, <1>4, FS_AddElement
<1>6. P = Open(e, s)' /\ O = Open(e, s)
  BY DEF O, P, Open, Own
<1> QED
  BY <1>5, <1>6

LEMMA DecidesCloses ==
  ASSUME NEW e \in Execs, NEW s \in Step, NEW a \in Holds, Decides(a), Own(a, e, s),
         Account(e, s)
  PROVE  /\ IsFiniteSet(Open(e, s)')
         /\ Cardinality(Open(e, s)) \in Nat /\ Cardinality(Open(e, s)') \in Nat
         /\ Cardinality(Open(e, s)') = Cardinality(Open(e, s)) - 1
<1> DEFINE Row(b) == Own(b, e, s) /\ approval[b].status = "pending"
           NewRow(b) == /\ approval'[b] # None /\ approval'[b].exec = e
                        /\ approval'[b].step = s /\ approval'[b].status = "pending"
           O == Open(e, s)
           P == {b \in Holds : NewRow(b)}
<1>1. \A b \in Holds \ {a} : NewRow(b) <=> Row(b)
  BY DEF Decides, Own
<1>2. ~NewRow(a) /\ Row(a)
  BY DEF Decides, Own
<1>3. P = O \ {a} /\ a \in O
  BY <1>1, <1>2 DEF Open
<1>4. IsFiniteSet(O)
  BY DEF Account
<1> HIDE DEF O, P
<1>5. /\ IsFiniteSet(P) /\ Cardinality(P) = Cardinality(O) - 1
      /\ Cardinality(O) \in Nat /\ Cardinality(P) \in Nat
  BY <1>3, <1>4, FS_RemoveElement, FS_CardinalityType
<1>6. P = Open(e, s)' /\ O = Open(e, s)
  BY DEF O, P, Open, Own
<1> QED
  BY <1>5, <1>6

LEMMA InitAccount == Init => AccountInv
<1> SUFFICES ASSUME Init, NEW e \in Execs, NEW s \in Step PROVE Account(e, s)
  BY DEF AccountInv
<1>1. Open(e, s) = {}
  BY DEF Init, Open, Own
<1>2. effects[e][s] = 0 /\ blind[e][s] = 0
  BY DEF Init
<1>3. Future(e, s) \in {0, 1}
  BY DEF Future
<1>4. IsFiniteSet({}) /\ Cardinality({}) = 0
  BY FS_EmptySet
<1> QED
  BY <1>1, <1>2, <1>3, <1>4 DEF Account

\* What is done, filed or to come has not grown beyond what was repeated.
LEMMA Balanced ==
  ASSUME TypeOK, TypeOK', NEW f \in Execs, NEW q \in Step, Account(f, q),
         IsFiniteSet(Open(f, q)'),
         effects'[f][q] + Cardinality(Open(f, q)') + Future(f, q)' - blind'[f][q]
            <= effects[f][q] + Cardinality(Open(f, q)) + Future(f, q) - blind[f][q]
  PROVE  Account(f, q)'
<1>1. /\ effects[f][q] \in Nat /\ effects'[f][q] \in Nat
      /\ blind[f][q] \in Nat /\ blind'[f][q] \in Nat
  BY DEF TypeOK
<1>2. Cardinality(Open(f, q)) \in Nat /\ Cardinality(Open(f, q)') \in Nat
  BY FS_CardinalityType DEF Account
<1>3. Future(f, q) \in Nat /\ Future(f, q)' \in Nat
  BY DEF Future
<1> QED
  BY <1>1, <1>2, <1>3 DEF Account

\* Whether a step is still to come, once its execution has gone on.
LEMMA FutureFalls ==
  ASSUME TypeOK, NEW e \in Execs, NEW x \in Slot, Goes(e, x), NEW q \in Step
  PROVE  /\ Future(e, q) \in {0, 1} /\ Future(e, q)' \in {0, 1}
         /\ q # exec[e].step \/ Stays(e, x) \/ Advances(e, x) => Future(e, q)' <= Future(e, q)
         /\ q = exec[e].step /\ (Responds(e, x) \/ Walks(e, x)) =>
               Future(e, q) = 1 /\ Future(e, q)' = 0
<1>1. q \in Nat /\ exec[e].step \in Nat /\ x.step \in Nat
  BY RoutineAssumption DEF TypeOK, Slot, Step
<1>2. exec'[e] = x
  BY DEF Goes, Move, TypeOK
<1>3. Future(e, q) \in {0, 1} /\ Future(e, q)' \in {0, 1}
  BY DEF Future
<1>4. CASE Stays(e, x)
  <2>1. Future(e, q)' <= Future(e, q)
    BY <1>1, <1>2, <1>4 DEF Stays, Polls, Future
  <2>2. q = exec[e].step /\ (Responds(e, x) \/ Walks(e, x))
           => Future(e, q) = 1 /\ Future(e, q)' = 0
    BY <1>1, <1>2, <1>4 DEF Stays, Responds, Walks, Future
  <2> QED
    BY <1>3, <2>1, <2>2
<1>5. CASE Repeats(e, x)
  BY <1>1, <1>2, <1>3, <1>5 DEF Repeats, Stays, Advances, Responds, Walks, Future
<1>6. CASE Advances(e, x)
  BY <1>1, <1>2, <1>3, <1>6 DEF Advances, Responds, Walks, Future
<1>7. CASE Responds(e, x)
  BY <1>1, <1>2, <1>3, <1>7 DEF Stays, Advances, Responds, Polls, Future
<1>8. CASE Walks(e, x)
  BY <1>1, <1>2, <1>3, <1>8 DEF Stays, Advances, Walks, Polls, Future
<1> QED
  BY <1>4, <1>5, <1>6, <1>7, <1>8 DEF Goes

\* The account of the execution that goes on.
LEMMA GoesAccount ==
  ASSUME TypeOK, TypeOK', NEW e \in Execs, NEW x \in Slot, Goes(e, x),
         NEW q \in Step, Account(e, q)
  PROVE  Account(e, q)'
<1> DEFINE s == exec[e].step
           O == Cardinality(Open(e, q))
           P == Cardinality(Open(e, q)')
<1>1. /\ effects[e][q] \in Nat /\ effects'[e][q] \in Nat
      /\ blind[e][q] \in Nat /\ blind'[e][q] \in Nat
  BY DEF TypeOK
<1>2. O \in Nat /\ (UNCHANGED approval => IsFiniteSet(Open(e, q)') /\ P = O)
  BY OpenKept, FS_CardinalityType DEF Account
<1>3. Future(e, q) \in {0, 1} /\ Future(e, q)' \in {0, 1}
      /\ (q # s \/ Stays(e, x) \/ Advances(e, x) => Future(e, q)' <= Future(e, q))
      /\ (q = s /\ (Responds(e, x) \/ Walks(e, x)) => Future(e, q) = 1 /\ Future(e, q)' = 0)
  BY FutureFalls
<1>4. ASSUME NEW a \in Holds, Filing(e, a)
      PROVE  IsFiniteSet(Open(e, q)') /\ (q = s => P = O + 1) /\ (q # s => P = O)
  <2>1. CASE q = s
    BY <1>4, <2>1, FilingOpens
  <2>2. CASE q # s
    <3>1. \A b \in Holds : \/ approval'[b] = approval[b]
                           \/ ~Own(b, e, q) /\ ~Own(b, e, q)'
      BY <1>4, <2>2 DEF Filing, Own
    <3> QED
      BY <2>2, <3>1, OpenKept
  <2> QED
    BY <2>1, <2>2
<1> HIDE DEF O, P
<1>5. /\ IsFiniteSet(Open(e, q)')
      /\ effects'[e][q] + P + Future(e, q)' - blind'[e][q]
            <= effects[e][q] + O + Future(e, q) - blind[e][q]
  <2>1. CASE Stays(e, x) \/ Advances(e, x)
    BY <1>1, <1>2, <1>3, <2>1 DEF Stays, Advances
  <2>2. CASE Repeats(e, x)
    <3>1. blind'[e][q] = IF q = s THEN blind[e][q] + 1 ELSE blind[e][q]
      BY <2>2 DEF Repeats, TypeOK, Slot
    <3>2. UNCHANGED <<approval, effects>>
      BY <2>2 DEF Repeats
    <3> QED
      BY <1>1, <1>2, <1>3, <3>1, <3>2
  <2>3. CASE Responds(e, x) \/ Walks(e, x)
    <3>1. blind'[e][q] = blind[e][q]
      BY <2>3 DEF Responds, Walks
    <3>2. ASSUME UNCHANGED approval, NEW n \in {0, 1}, Did(e, s, n) PROVE <1>5!:
      <4>1. effects'[e][q] = IF q = s THEN effects[e][q] + n ELSE effects[e][q]
        BY <3>2 DEF Did
      <4> QED
        BY <1>1, <1>2, <1>3, <2>3, <3>1, <3>2, <4>1
    <3>3. ASSUME UNCHANGED effects, NEW a \in Holds, Filing(e, a) PROVE <1>5!:
      BY <1>1, <1>2, <1>3, <1>4, <2>3, <3>1, <3>3
    <3> QED
      BY <2>3, <3>2, <3>3 DEF Responds, Walks
  <2> QED
    BY <2>1, <2>2, <2>3 DEF Goes
<1> QED
  BY <1>5, Balanced DEF O, P

\* An execution that neither moved nor had this step done or filed.
LEMMA OthersAccount ==
  ASSUME TypeOK, TypeOK', NEW f \in Execs, NEW q \in Step, Account(f, q),
         effects'[f][q] = effects[f][q], blind'[f][q] = blind[f][q],
         Future(f, q)' = Future(f, q),
         \A b \in Holds : \/ approval'[b] = approval[b]
                          \/ ~Own(b, f, q) /\ ~Own(b, f, q)'
  PROVE  Account(f, q)'
<1>1. IsFiniteSet(Open(f, q)') /\ Cardinality(Open(f, q)') = Cardinality(Open(f, q))
  BY OpenKept
<1> QED
  BY <1>1 DEF Account

LEMMA StepAccount == TypeOK /\ GateInv /\ AccountInv /\ [Next]_vars => AccountInv'
<1> SUFFICES ASSUME TypeOK, GateInv, AccountInv, [Next]_vars, NEW f \in Execs, NEW q \in Step
             PROVE  Account(f, q)'
  BY DEF AccountInv
<1>t. TypeOK' /\ Account(f, q)
  BY StepTypes DEF AccountInv
<1>1. CASE UNCHANGED <<exec, approval, effects, blind>>
  BY <1>1, <1>t, OthersAccount DEF Future
<1>2. ASSUME NEW F \in SUBSET Execs, Begins(F) PROVE Account(f, q)'
  <2>1. Future(f, q)' = Future(f, q)
    <3>1. CASE f \in F
      <4>1. exec[f].pc = "free" /\ exec[f].step = 1
            /\ exec'[f].pc \in {"desktop", "inline"} /\ exec'[f].step = 1
        BY <1>2, <3>1 DEF Begins, GateInv, InStep
      <4> QED
        BY <4>1 DEF Future
    <3>2. CASE f \notin F
      BY <1>2, <3>2 DEF Begins, Future
    <3> QED
      BY <3>1, <3>2
  <2> QED
    BY <1>2, <1>t, <2>1, OthersAccount DEF Begins
<1>3. ASSUME NEW a \in Holds, Decides(a) PROVE Account(f, q)'
  <2> DEFINE e == approval[a].exec
             s == approval[a].step
  <2>1. e \in Execs /\ s \in Step /\ Own(a, e, s)
    BY <1>3, DecidesTouches
  <2>2. Future(f, q)' = Future(f, q) /\ blind' = blind
    BY <1>3 DEF Decides, Future
  <2>3. CASE f = e /\ q = s
    <3>1. /\ IsFiniteSet(Open(f, q)')
          /\ Cardinality(Open(f, q)) \in Nat /\ Cardinality(Open(f, q)') \in Nat
          /\ Cardinality(Open(f, q)') = Cardinality(Open(f, q)) - 1
      BY <1>3, <1>t, <2>1, <2>3, DecidesCloses
    <3>2. PICK n \in {0, 1} : effects'[f][q] = effects[f][q] + n
      BY <1>3, <2>3 DEF Decides, Did
    <3>3. /\ effects[f][q] \in Nat /\ blind[f][q] \in Nat /\ Future(f, q) \in {0, 1}
      BY DEF TypeOK, Future
    <3> QED
      BY <1>t, <2>2, <3>1, <3>2, <3>3, Balanced
  <2>4. CASE f # e \/ q # s
    <3>1. \A b \in Holds : \/ approval'[b] = approval[b]
                           \/ ~Own(b, f, q) /\ ~Own(b, f, q)'
      BY <1>3, <2>4 DEF Decides, Own
    <3>2. effects'[f][q] = effects[f][q]
      BY <1>3, <2>4 DEF Decides, Did
    <3> QED
      BY <1>t, <2>2, <3>1, <3>2, OthersAccount
  <2> QED
    BY <2>3, <2>4
<1>4. ASSUME NEW e \in Execs, NEW x \in Slot, Goes(e, x) PROVE Account(f, q)'
  <2>1. CASE f = e
    BY <1>4, <1>t, <2>1, GoesAccount
  <2>2. CASE f # e
    <3>1. exec'[f] = exec[f]
      BY <1>4, <2>2 DEF Goes, Move, TypeOK
    <3>2. Touches(e, exec[e].step)
      BY <1>4, GoesTouches
    <3>3. blind'[f][q] = blind[f][q]
      BY <1>4, <2>2 DEF Goes, Stays, Repeats, Advances, Responds, Walks, TypeOK
    <3>4. \A b \in Holds : \/ approval'[b] = approval[b]
                           \/ ~Own(b, f, q) /\ ~Own(b, f, q)'
      BY <1>4, <2>2 DEF Goes, Stays, Repeats, Advances, Responds, Walks, Filing, Own
    <3> QED
      BY <1>t, <2>2, <3>1, <3>2, <3>3, <3>4, OthersAccount DEF Touches, Future
  <2> QED
    BY <2>1, <2>2
<1> QED
  BY <1>1, <1>2, <1>3, <1>4, StepShape

LEMMA AccountSuffices == TypeOK /\ AccountInv => StepDoneOnce
<1> SUFFICES ASSUME TypeOK, AccountInv, NEW e \in Execs, NEW s \in Step
             PROVE  effects[e][s] <= 1 + blind[e][s]
  BY DEF StepDoneOnce
<1>1. Account(e, s) /\ effects[e][s] \in Nat /\ blind[e][s] \in Nat
  BY DEF AccountInv, TypeOK
<1>2. Cardinality(Open(e, s)) \in Nat /\ Future(e, s) \in Nat
  BY <1>1, FS_CardinalityType DEF Account, Future
<1> QED
  BY <1>1, <1>2 DEF Account

------------------------------------------------------------------------------
\* Executions, approvals and the counts of what was done and repeated keep their
\* types in every behaviour of the worker, the API and the human.
THEOREM RoutineTypeCorrect == Spec => []TypeOK
<1>1. Init => TypeOK
  BY InitTypes
<1>2. TypeOK /\ [Next]_vars => TypeOK'
  BY StepTypes
<1> QED
  BY <1>1, <1>2, PTL DEF Spec

\* However often attempts are repeated, polls run out and answers are lost, nothing
\* past a held step is done or filed before a human approved that step.
THEOREM GatesHold == Spec => []NothingPastTheGate
<1>1. Init => TypeOK /\ GateInv
  BY InitTypes, InitGates
<1>2. TypeOK /\ GateInv /\ [Next]_vars => TypeOK' /\ GateInv'
  BY StepTypes, StepGates
<1>3. TypeOK /\ GateInv => NothingPastTheGate
  BY GatesSuffice
<1> QED
  BY <1>1, <1>2, <1>3, PTL DEF Spec

\* A step is done once, and once more at most for each attempt repeated after a 5xx
\* or a death of the worker: no other fault, and no decision, doubles it.
THEOREM AttemptsAreCounted == Spec => []StepDoneOnce
<1>1. Init => TypeOK /\ GateInv /\ AccountInv
  BY InitTypes, InitGates, InitAccount
<1>2. TypeOK /\ GateInv /\ AccountInv /\ [Next]_vars => TypeOK' /\ GateInv' /\ AccountInv'
  BY StepTypes, StepGates, StepAccount
<1>3. TypeOK /\ AccountInv => StepDoneOnce
  BY AccountSuffices
<1> QED
  BY <1>1, <1>2, <1>3, PTL DEF Spec

------------------------------------------------------------------------------
(* The schedule: what holds of the row and its mirror while one request, or *)
(* the worker, is at work on them alone.                                    *)

Rows      == [version : Nat, enabled : BOOLEAN]
Schedules == [version : Nat, last : Firings \cup {Nothing}]
Syncs     == [pc   : {"idle", "refresh", "create", "replace", "recreate", "remove", "drop"},
              copy : Rows \cup {Nothing}]

ScheduleTypeOK ==
    /\ routine \in Rows \cup {Nothing}
    /\ schedule \in Schedules \cup {Nothing}
    /\ fired \in [Firings -> [pc : {"free", "running", "ended"}, version : Nat]]
    /\ sync \in [Editors -> Syncs]
    /\ \A q \in Editors : sync[q].pc \in {"create", "replace", "recreate"} => sync[q].copy \in Rows
    /\ boot \in [pc : {"idle", "upsert"}, copy : Rows \cup {Nothing}]
    /\ boot.pc = "upsert" => boot.copy \in Rows
    /\ strayed \in BOOLEAN /\ forgot \in BOOLEAN /\ since \in Nat

\* What is in flight is alone.
Alone ==
    /\ \A q \in Editors : sync[q].pc # "idle" => boot.pc = "idle"
    /\ \A p, q \in Editors : sync[p].pc # "idle" /\ sync[q].pc # "idle" => p = q

Follows == IF Enabled THEN schedule # Nothing /\ schedule.version = routine.version
           ELSE schedule = Nothing

\* How far the request q has come, when nobody else is at work.
Underway(x) ==
    /\ x.pc = "refresh" => routine # Nothing
    /\ x.pc \in {"create", "replace", "recreate"} => Enabled /\ x.copy = routine
    /\ x.pc \in {"recreate", "drop"} => schedule = Nothing
    /\ x.pc = "remove" => ~Enabled

Orderly ==
    /\ Alone
    /\ \A q \in Editors : Underway(sync[q])
    /\ boot.pc = "upsert" => Enabled /\ boot.copy = routine
    /\ AtRest => Follows

\* What runs is what the schedule started last.
Remembered ==
    \A e \in Firings : Running(e) => schedule # Nothing /\ schedule.last = e

\* Nobody has anything in hand that is older than what was last in line.
Fresh ==
    /\ routine # Nothing => since <= routine.version
    /\ schedule # Nothing => since <= schedule.version
    /\ \A q \in Editors : sync[q].pc \in {"create", "replace", "recreate"} =>
                            since <= sync[q].copy.version
    /\ boot.pc = "upsert" => since <= boot.copy.version

ScheduleIInv ==
    /\ ScheduleTypeOK
    /\ ~strayed => Orderly
    /\ Fresh
    /\ ~forgot => Remembered

LEMMA NothingElse ==
  /\ Nothing \notin Firings /\ Nothing \notin Rows /\ Nothing \notin Schedules
  /\ NoSync \in Syncs /\ NoSync.pc = "idle"
BY ScheduleAssumption DEF Rows, Schedules, Syncs, NoSync

LEMMA MirrorIs ==
  ASSUME NEW copy \in Rows, NEW last \in Firings \cup {Nothing}
  PROVE  /\ Mirror(copy, last) \in Schedules /\ Mirror(copy, last).version = copy.version
         /\ Mirror(copy, last).last = last
BY DEF Mirror, Rows, Schedules

LEMMA ScheduleInitOK == ScheduleInit => ScheduleIInv
<1> SUFFICES ASSUME ScheduleInit
             PROVE  ScheduleIInv
  OBVIOUS
<1>1. routine \in Rows /\ routine.enabled /\ routine # Nothing
  <2>1. routine \in Rows /\ routine.enabled
    BY DEF ScheduleInit, Rows
  <2> QED
    BY <2>1, NothingElse
<1>2. schedule \in Schedules /\ schedule.version = routine.version /\ schedule # Nothing
  BY <1>1, MirrorIs, NothingElse DEF ScheduleInit
<1>3. \A q \in Editors : sync[q] = NoSync
  BY DEF ScheduleInit
<1>4. ScheduleTypeOK
  BY <1>1, <1>2, <1>3, NothingElse DEF ScheduleInit, ScheduleTypeOK, NoSync
<1>5. Orderly
  BY <1>1, <1>2, <1>3 DEF ScheduleInit, Orderly, Alone, Underway, Enabled, Follows, NoSync, AtRest
<1>6. Remembered
  BY DEF ScheduleInit, Remembered, Running
<1>7. Fresh
  BY <1>2, <1>3 DEF ScheduleInit, Fresh, NoSync
<1> QED
  BY <1>4, <1>5, <1>6, <1>7 DEF ScheduleIInv

\* Firings touch what the schedule started last, and nothing else.
LEMMA FiringOK ==
  ASSUME ScheduleIInv, NEW e \in Firings, Fire(e) \/ ExecEnds(e)
  PROVE  ScheduleIInv'
<1>t. ScheduleTypeOK
  BY DEF ScheduleIInv
<1>1. UNCHANGED <<routine, sync, boot, strayed, since, forgot>>
  BY DEF Fire, ExecEnds
<1>2. CASE Fire(e)
  <2>1. /\ schedule \in Schedules /\ schedule # Nothing /\ ~Running(schedule.last)
        /\ schedule' = [schedule EXCEPT !.last = e]
        /\ fired' = [fired EXCEPT ![e] = [pc |-> "running", version |-> schedule.version]]
    BY <1>t, <1>2 DEF Fire, ScheduleTypeOK
  <2>2. schedule' \in Schedules /\ schedule'.version = schedule.version /\ schedule'.last = e
    BY <2>1 DEF Schedules
  <2>3. schedule.version \in Nat
    BY <2>1 DEF Schedules
  <2>4. ScheduleTypeOK'
    BY <1>t, <1>1, <2>1, <2>2, <2>3 DEF ScheduleTypeOK
  <2>5. (~strayed => Orderly)'
    BY <1>1, <2>1, <2>2, NothingElse DEF ScheduleIInv, Orderly, Alone, Underway, Enabled, Follows, AtRest
  <2>6. ~forgot => Remembered'
    <3> SUFFICES ASSUME ~forgot, NEW f \in Firings, Running(f)'
                 PROVE  (schedule # Nothing /\ schedule.last = f)'
      BY DEF Remembered
    <3>1. CASE f = e
      BY <2>2, <3>1, NothingElse
    <3>2. CASE f # e
      <4>1. Running(f)
        BY <1>t, <2>1, <3>2, NothingElse DEF Running, ScheduleTypeOK
      <4>2. schedule.last = f
        BY <4>1 DEF ScheduleIInv, Remembered
      <4> QED
        BY <2>1, <4>1, <4>2
    <3> QED
      BY <3>1, <3>2
  <2>7. Fresh'
    BY <1>1, <2>1, <2>2, NothingElse DEF ScheduleIInv, Fresh
  <2> QED
    BY <1>1, <2>4, <2>5, <2>6, <2>7 DEF ScheduleIInv
<1>3. CASE ExecEnds(e)
  <2>1. UNCHANGED schedule /\ fired' = [fired EXCEPT ![e].pc = "ended"]
    BY <1>3 DEF ExecEnds
  <2>2. fired' \in [Firings -> [pc : {"free", "running", "ended"}, version : Nat]]
    BY <1>t, <2>1 DEF ScheduleTypeOK
  <2>3. \A f \in Firings : Running(f)' => Running(f)
    BY <1>t, <2>1 DEF Running, ScheduleTypeOK
  <2>4. ScheduleTypeOK'
    BY <1>t, <1>1, <2>1, <2>2 DEF ScheduleTypeOK
  <2>5. (~strayed => Orderly)'
    BY <1>1, <2>1 DEF ScheduleIInv, Orderly, Alone, Underway, Enabled, Follows, AtRest
  <2>6. ~forgot => Remembered'
    BY <2>1, <2>3 DEF ScheduleIInv, Remembered
  <2>7. Fresh'
    BY <1>1, <2>1 DEF ScheduleIInv, Fresh
  <2> QED
    BY <1>1, <2>4, <2>5, <2>6, <2>7 DEF ScheduleIInv
<1> QED
  BY <1>2, <1>3

\* What is noted when all rests in line is the row's version, which the schedule starts.
LEMMA NotesOK ==
  ASSUME ScheduleIInv, NotesWhenInLine
  PROVE  /\ since' \in Nat
         /\ routine # Nothing => since' <= routine.version
         /\ schedule # Nothing => since' <= schedule.version
         /\ \A q \in Editors : sync[q].pc \in {"create", "replace", "recreate"} =>
                                since' <= sync[q].copy.version
         /\ boot.pc = "upsert" => since' <= boot.copy.version
<1>t. ScheduleTypeOK /\ Fresh
  BY DEF ScheduleIInv
<1>1. CASE AtRest /\ ~strayed /\ routine # Nothing
  <2>1. routine.version \in Nat /\ since' = routine.version
    BY <1>t, <1>1 DEF ScheduleTypeOK, Rows, NotesWhenInLine
  <2>2. schedule # Nothing => schedule.version = routine.version
    BY <1>1 DEF ScheduleIInv, Orderly, Follows
  <2>3. boot.pc = "idle" /\ \A q \in Editors : sync[q].pc = "idle"
    BY <1>1 DEF AtRest
  <2> QED
    BY <2>1, <2>2, <2>3
<1>2. CASE ~(AtRest /\ ~strayed /\ routine # Nothing)
  <2>1. since' = since /\ since \in Nat
    BY <1>t, <1>2 DEF NotesWhenInLine, ScheduleTypeOK
  <2> QED
    BY <1>t, <2>1 DEF Fresh
<1> QED
  BY <1>1, <1>2

LEMMA TakenUp ==
  ASSUME ScheduleIInv, NEW q \in Editors, NEW what \in {"refresh", "drop"}, TakesUp(q, what)
  PROVE  /\ sync' \in [Editors -> Syncs] /\ sync'[q].pc = what
         /\ \A p \in Editors : p # q => sync'[p] = sync[p]
         /\ routine \in Rows
         /\ since' \in Nat /\ since' <= routine.version
         /\ schedule # Nothing => since' <= schedule.version
         /\ \A p \in Editors : sync'[p].pc \in {"create", "replace", "recreate"} =>
                                since' <= sync'[p].copy.version
         /\ boot.pc = "upsert" => since' <= boot.copy.version
<1>1. sync \in [Editors -> Syncs] /\ routine \in Rows \cup {Nothing}
  BY DEF ScheduleIInv, ScheduleTypeOK
<1>2. sync' = [sync EXCEPT ![q].pc = what] /\ routine # Nothing /\ NotesWhenInLine
  BY DEF TakesUp
<1>3. [sync[q] EXCEPT !.pc = what] \in Syncs /\ [sync[q] EXCEPT !.pc = what].pc = what
  BY <1>1 DEF Syncs
<1>4. sync' = [sync EXCEPT ![q] = [sync[q] EXCEPT !.pc = what]]
  BY <1>1, <1>2
<1>5. /\ sync' \in [Editors -> Syncs] /\ sync'[q].pc = what
      /\ \A p \in Editors : p # q => sync'[p] = sync[p]
  BY <1>1, <1>3, <1>4
<1>6. \A p \in Editors : sync'[p].pc \in {"create", "replace", "recreate"} =>
                          since' <= sync'[p].copy.version
  BY <1>2, <1>5, NotesOK
<1> QED
  BY <1>1, <1>2, <1>5, <1>6, NotesOK

LEMMA EditOK ==
  ASSUME ScheduleIInv, NEW q \in Editors, Edit(q)
  PROVE  ScheduleIInv'
<1>t. ScheduleTypeOK
  BY DEF ScheduleIInv
<1>0. TakesUp(q, "refresh")
  BY DEF Edit
<1>1. /\ sync' \in [Editors -> Syncs] /\ sync'[q].pc = "refresh"
      /\ \A p \in Editors : p # q => sync'[p] = sync[p]
      /\ routine \in Rows
  BY <1>0, TakenUp
<1>2. PICK on \in BOOLEAN : routine' = [version |-> routine.version + 1, enabled |-> on]
  BY DEF Edit
<1>3. routine' \in Rows /\ routine' # Nothing /\ routine'.version = routine.version + 1 /\ routine.version \in Nat
  BY <1>1, <1>2, NothingElse DEF Rows
<1>4. UNCHANGED <<schedule, fired, boot, forgot>> /\ strayed' = ~AtRest
  BY DEF Edit
<1>m. strayed' \in BOOLEAN /\ (~strayed' => AtRest)
  BY <1>4 DEF AtRest
<1>n. since' \in Nat /\ since' <= routine.version
  BY <1>0, TakenUp
<1>5. ScheduleTypeOK'
  BY <1>t, <1>1, <1>3, <1>4, <1>m, <1>n DEF ScheduleTypeOK
<1>6. ~strayed' => Orderly'
  BY <1>1, <1>3, <1>4, <1>m DEF AtRest, Orderly, Alone, Underway
<1>7. ~forgot' => Remembered'
  BY <1>4 DEF ScheduleIInv, Remembered, Running
<1>8. Fresh'
  <2>1. since' <= routine'.version
    BY <1>3, <1>n
  <2> QED
    BY <1>0, <1>4, <2>1, TakenUp DEF Fresh
<1> QED
  BY <1>5, <1>6, <1>7, <1>8 DEF ScheduleIInv

\* A removed schedule starts nothing, and whether it had is noted.
LEMMA Forgets ==
  ASSUME ScheduleIInv, forgot' = (forgot \/ (schedule # Nothing /\ Running(schedule.last))),
         UNCHANGED fired
  PROVE  /\ forgot' \in BOOLEAN
         /\ ~forgot' => \A e \in Firings : ~Running(e)'
<1>1. forgot \in BOOLEAN
  BY DEF ScheduleIInv, ScheduleTypeOK
<1>2. ASSUME ~forgot', NEW e \in Firings, Running(e)
      PROVE  FALSE
  BY <1>1, <1>2 DEF ScheduleIInv, Remembered
<1> QED
  BY <1>1, <1>2 DEF Running

LEMMA DropOK ==
  ASSUME ScheduleIInv, NEW q \in Editors, Drop(q)
  PROVE  ScheduleIInv'
<1>t. ScheduleTypeOK
  BY DEF ScheduleIInv
<1>0. TakesUp(q, "drop") /\ UNCHANGED <<routine, fired, boot>>
  BY DEF Drop
<1>1. /\ sync' \in [Editors -> Syncs] /\ sync'[q].pc = "drop"
      /\ \A p \in Editors : p # q => sync'[p] = sync[p]
      /\ since' \in Nat
  BY <1>0, TakenUp
<1>c. \A p \in Editors : sync'[p].pc \in {"create", "replace", "recreate"} => sync'[p].copy \in Rows
  BY <1>t, <1>1 DEF ScheduleTypeOK
<1>2. CASE /\ schedule' = Nothing /\ strayed' = ~AtRest
           /\ forgot' = (forgot \/ (schedule # Nothing /\ Running(schedule.last)))
  <2>1. forgot' \in BOOLEAN /\ (~forgot' => \A e \in Firings : ~Running(e)')
    BY <1>0, <1>2, Forgets
  <2>2. strayed' \in BOOLEAN /\ (~strayed' => AtRest)
    BY <1>2 DEF AtRest
  <2>3. ScheduleTypeOK'
    BY <1>t, <1>0, <1>1, <1>2, <1>c, <2>1, <2>2 DEF ScheduleTypeOK
  <2>4. ~strayed' => Orderly'
    BY <1>0, <1>1, <1>2, <2>2 DEF AtRest, Orderly, Alone, Underway
  <2>5. ~forgot' => Remembered'
    BY <2>1 DEF Remembered
  <2>6. Fresh'
    BY <1>0, <1>2, TakenUp DEF Fresh
  <2> QED
    BY <2>3, <2>4, <2>5, <2>6 DEF ScheduleIInv
<1>3. CASE UNCHANGED <<schedule, forgot>> /\ strayed' = TRUE
  <2>1. ScheduleTypeOK'
    BY <1>t, <1>0, <1>1, <1>3, <1>c DEF ScheduleTypeOK
  <2>2. ~forgot' => Remembered'
    BY <1>0, <1>3 DEF ScheduleIInv, Remembered, Running
  <2>3. Fresh'
    BY <1>0, <1>3, TakenUp DEF Fresh
  <2> QED
    BY <1>3, <2>1, <2>2, <2>3 DEF ScheduleIInv
<1> QED
  BY <1>2, <1>3 DEF Drop

\* A step of the request q.
Steps(q) == /\ \A p \in Editors : p # q => sync'[p] = sync[p]
            /\ UNCHANGED <<boot, strayed, since>>

\* A request that is alone and stays so needs only to be where it says.
LEMMA StillAlone ==
  ASSUME Orderly, NEW q \in Editors, sync[q].pc # "idle", Steps(q),
         Underway(sync[q])', sync'[q].pc = "idle" => Follows'
  PROVE  Orderly'
<1>1. boot.pc = "idle" /\ \A p \in Editors : p # q => sync[p].pc = "idle"
  BY DEF Orderly, Alone
<1>b. boot.pc # "upsert"
  BY <1>1
<1>2. UNCHANGED boot /\ \A p \in Editors : p # q => sync'[p].pc = "idle"
  BY <1>1 DEF Steps
<1>3. \A p \in Editors : Underway(sync[p])'
  <2> SUFFICES ASSUME NEW p \in Editors, p # q
               PROVE  Underway(sync[p])'
    OBVIOUS
  <2>1. sync'[p].pc = "idle"
    BY <1>2
  <2> QED
    BY <2>1 DEF Underway
<1>4. Alone'
  BY <1>1, <1>2 DEF Alone
<1>5. AtRest' => Follows'
  BY DEF AtRest
<1> QED
  BY <1>b, <1>2, <1>3, <1>4, <1>5 DEF Orderly

LEMMA RefreshOK ==
  ASSUME ScheduleIInv, NEW q \in Editors, Refresh(q)
  PROVE  ScheduleIInv'
<1>t. ScheduleTypeOK
  BY DEF ScheduleIInv
<1>1. UNCHANGED <<routine, schedule, fired, boot, strayed, since, forgot>> /\ sync[q].pc = "refresh"
  BY DEF Refresh
<1>2. PICK x \in Syncs :
        /\ sync' = [sync EXCEPT ![q] = x]
        /\ routine = Nothing => x = NoSync
        /\ routine # Nothing => x.pc = (IF routine.enabled THEN "create" ELSE "remove") /\ x.copy = routine
  <2>1. CASE routine = Nothing
    BY <2>1, NothingElse DEF Refresh
  <2>2. CASE routine # Nothing
    <3>1. [pc |-> IF routine.enabled THEN "create" ELSE "remove", copy |-> routine] \in Syncs
      BY <1>t DEF Syncs, ScheduleTypeOK
    <3> QED
      BY <2>2, <3>1 DEF Refresh
  <2> QED
    BY <2>1, <2>2
<1>3. sync' \in [Editors -> Syncs] /\ sync'[q] = x /\ Steps(q)
  BY <1>t, <1>1, <1>2 DEF Steps, ScheduleTypeOK
<1>4. ScheduleTypeOK'
  <2>1. x.pc \in {"create", "replace", "recreate"} => x.copy \in Rows
    BY <1>t, <1>2, NothingElse DEF ScheduleTypeOK
  <2> QED
    BY <1>t, <1>1, <1>3, <2>1 DEF ScheduleTypeOK, Steps
<1>5. ASSUME ~strayed PROVE Orderly'
  <2>1. Orderly /\ routine # Nothing
    BY <1>1, <1>5 DEF ScheduleIInv, Orderly, Underway
  <2>2. Underway(sync[q])' /\ sync'[q].pc # "idle"
    BY <1>1, <1>2, <1>3, <2>1 DEF Underway, Enabled
  <2> QED
    BY <1>1, <1>3, <2>1, <2>2, StillAlone
<1>6. ~forgot' => Remembered'
  BY <1>1 DEF ScheduleIInv, Remembered, Running
<1>7. Fresh'
  <2>1. x.pc \in {"create", "replace", "recreate"} => since <= x.copy.version
    BY <1>2, NothingElse DEF ScheduleIInv, Fresh
  <2> QED
    BY <1>1, <1>3, <2>1 DEF ScheduleIInv, Fresh, Steps
<1> QED
  BY <1>1, <1>4, <1>5, <1>6, <1>7 DEF ScheduleIInv

LEMMA CreateOK ==
  ASSUME ScheduleIInv, NEW q \in Editors, Create(q)
  PROVE  ScheduleIInv'
<1>t. ScheduleTypeOK
  BY DEF ScheduleIInv
<1>1. UNCHANGED <<routine, fired, boot, strayed, since, forgot>> /\ sync[q].pc \in {"create", "recreate"}
  BY DEF Create
<1>2. sync[q] \in Syncs /\ sync[q].copy \in Rows
  BY <1>t, <1>1 DEF ScheduleTypeOK
<1>3. PICK x \in Syncs :
        /\ sync' = [sync EXCEPT ![q] = x]
        /\ \/ /\ schedule # Nothing /\ sync[q].pc = "create"
              /\ x.pc = "replace" /\ x.copy = sync[q].copy
           \/ (schedule = Nothing \/ sync[q].pc = "recreate") /\ x = NoSync
  <2>1. CASE schedule # Nothing /\ sync[q].pc = "create"
    <3>1. PICK x \in Syncs : x = [sync[q] EXCEPT !.pc = "replace"]
      BY <1>2 DEF Syncs
    <3>2. x.pc = "replace" /\ x.copy = sync[q].copy
      BY <1>2, <3>1 DEF Syncs
    <3>3. sync' = [sync EXCEPT ![q] = x]
      BY <2>1, <3>1 DEF Create
    <3> QED
      BY <2>1, <3>2, <3>3
  <2>2. CASE ~(schedule # Nothing /\ sync[q].pc = "create")
    <3>1. sync' = [sync EXCEPT ![q] = NoSync]
      BY <2>2 DEF Create
    <3> QED
      BY <1>1, <2>2, <3>1, NothingElse
  <2> QED
    BY <2>1, <2>2
<1>4. sync' \in [Editors -> Syncs] /\ sync'[q] = x /\ Steps(q)
  BY <1>t, <1>1, <1>3 DEF Steps, ScheduleTypeOK
<1>5. /\ schedule' \in Schedules
      /\ schedule = Nothing => schedule'.version = sync[q].copy.version /\ schedule'.last = Nothing
      /\ schedule # Nothing => schedule' = schedule
  BY <1>t, <1>2, MirrorIs DEF Create, ScheduleTypeOK
<1>6. ScheduleTypeOK'
  <2>1. x.pc \in {"create", "replace", "recreate"} => x.copy \in Rows
    BY <1>2, <1>3, NothingElse
  <2> QED
    BY <1>t, <1>1, <1>4, <1>5, <2>1 DEF ScheduleTypeOK, Steps
<1>7. ASSUME ~strayed PROVE Orderly'
  <2>1. Orderly /\ Enabled /\ sync[q].copy = routine
        /\ (sync[q].pc = "recreate" => schedule = Nothing)
    BY <1>1, <1>7 DEF ScheduleIInv, Orderly, Underway
  <2>2. Underway(sync[q])'
    BY <1>1, <1>3, <1>4, <2>1, NothingElse DEF Underway, Enabled
  <2>3. sync'[q].pc = "idle" => Follows'
    <3> SUFFICES ASSUME sync'[q].pc = "idle"
                 PROVE  Follows'
      OBVIOUS
    <3>1. schedule = Nothing
      BY <1>3, <1>4, <2>1
    <3>2. schedule' # Nothing /\ schedule'.version = routine.version
      BY <1>5, <2>1, <3>1, NothingElse
    <3> QED
      BY <1>1, <2>1, <3>2 DEF Follows, Enabled
  <2> QED
    BY <1>1, <1>4, <2>1, <2>2, <2>3, StillAlone
<1>8. ASSUME ~forgot PROVE Remembered'
  <2> SUFFICES ASSUME NEW e \in Firings, Running(e)
               PROVE  schedule' # Nothing /\ schedule'.last = e
    BY <1>1 DEF Remembered, Running
  <2>1. schedule # Nothing /\ schedule.last = e
    BY <1>8 DEF ScheduleIInv, Remembered
  <2> QED
    BY <1>5, <2>1
<1>9. Fresh'
  <2>1. since <= sync[q].copy.version
    BY <1>1 DEF ScheduleIInv, Fresh
  <2>2. x.pc \in {"create", "replace", "recreate"} => since <= x.copy.version
    BY <1>3, <2>1, NothingElse
  <2>3. since <= schedule'.version
    BY <1>5, <2>1 DEF ScheduleIInv, Fresh
  <2> QED
    BY <1>1, <1>4, <2>2, <2>3 DEF ScheduleIInv, Fresh, Steps
<1> QED
  BY <1>1, <1>6, <1>7, <1>8, <1>9 DEF ScheduleIInv

LEMMA RemoveOK ==
  ASSUME ScheduleIInv, NEW q \in Editors, Remove(q)
  PROVE  ScheduleIInv'
<1>t. ScheduleTypeOK
  BY DEF ScheduleIInv
<1>1. /\ UNCHANGED <<routine, fired, boot, strayed, since>> /\ sync[q].pc \in {"replace", "remove"}
      /\ schedule' = Nothing
  BY DEF Remove
<1>2. sync[q] \in Syncs /\ (sync[q].pc = "replace" => sync[q].copy \in Rows)
  BY <1>t DEF ScheduleTypeOK
<1>3. PICK x \in Syncs :
        /\ sync' = [sync EXCEPT ![q] = x]
        /\ \/ sync[q].pc = "replace" /\ x.pc = "recreate" /\ x.copy = sync[q].copy
           \/ sync[q].pc = "remove" /\ x = NoSync
  <2>1. CASE sync[q].pc = "replace"
    <3>1. PICK x \in Syncs : x = [sync[q] EXCEPT !.pc = "recreate"]
      BY <1>2 DEF Syncs
    <3>2. x.pc = "recreate" /\ x.copy = sync[q].copy
      BY <1>2, <3>1 DEF Syncs
    <3>3. sync' = [sync EXCEPT ![q] = x]
      BY <2>1, <3>1 DEF Remove
    <3> QED
      BY <2>1, <3>2, <3>3
  <2>2. CASE sync[q].pc = "remove"
    BY <2>2, NothingElse DEF Remove
  <2> QED
    BY <1>1, <2>1, <2>2
<1>4. sync' \in [Editors -> Syncs] /\ sync'[q] = x /\ Steps(q)
  BY <1>t, <1>1, <1>3 DEF Steps, ScheduleTypeOK
<1>5. forgot' \in BOOLEAN /\ (~forgot' => \A e \in Firings : ~Running(e)')
  BY <1>1, Forgets DEF Remove
<1>6. ScheduleTypeOK'
  <2>1. x.pc \in {"create", "replace", "recreate"} => x.copy \in Rows
    BY <1>2, <1>3, NothingElse
  <2> QED
    BY <1>t, <1>1, <1>4, <1>5, <2>1 DEF ScheduleTypeOK, Steps
<1>7. ASSUME ~strayed PROVE Orderly'
  <2>1. /\ Orderly
        /\ sync[q].pc = "replace" => Enabled /\ sync[q].copy = routine
        /\ sync[q].pc = "remove" => ~Enabled
    BY <1>1, <1>7 DEF ScheduleIInv, Orderly, Underway
  <2>2. Underway(sync[q])'
    BY <1>1, <1>3, <1>4, <2>1, NothingElse DEF Underway, Enabled
  <2>3. sync'[q].pc = "idle" => Follows'
    BY <1>1, <1>3, <1>4, <2>1 DEF Follows, Enabled
  <2> QED
    BY <1>1, <1>4, <2>1, <2>2, <2>3, StillAlone
<1>8. ~forgot' => Remembered'
  BY <1>5 DEF Remembered
<1>9. Fresh'
  <2>1. x.pc \in {"create", "replace", "recreate"} => since <= x.copy.version
    BY <1>3, NothingElse DEF ScheduleIInv, Fresh
  <2> QED
    BY <1>1, <1>4, <2>1 DEF ScheduleIInv, Fresh, Steps
<1> QED
  BY <1>1, <1>6, <1>7, <1>8, <1>9 DEF ScheduleIInv

LEMMA DroppedOK ==
  ASSUME ScheduleIInv, NEW q \in Editors, Dropped(q)
  PROVE  ScheduleIInv'
<1>t. ScheduleTypeOK
  BY DEF ScheduleIInv
<1>1. /\ UNCHANGED <<schedule, fired, boot, strayed, since, forgot>> /\ sync[q].pc = "drop"
      /\ routine' = Nothing /\ sync' = [sync EXCEPT ![q] = NoSync]
  BY DEF Dropped
<1>2. sync' \in [Editors -> Syncs] /\ sync'[q].pc = "idle" /\ Steps(q)
  BY <1>t, <1>1, NothingElse DEF Steps, ScheduleTypeOK
<1>3. ScheduleTypeOK'
  BY <1>t, <1>1, <1>2 DEF ScheduleTypeOK, Steps
<1>4. ASSUME ~strayed PROVE Orderly'
  <2>1. Orderly /\ schedule = Nothing
    BY <1>1, <1>4 DEF ScheduleIInv, Orderly, Underway
  <2>2. Underway(sync[q])' /\ Follows'
    BY <1>1, <1>2, <2>1 DEF Underway, Follows, Enabled
  <2> QED
    BY <1>1, <1>2, <2>1, <2>2, StillAlone
<1>5. ~forgot' => Remembered'
  BY <1>1 DEF ScheduleIInv, Remembered, Running
<1>6. Fresh'
  BY <1>1, <1>2 DEF ScheduleIInv, Fresh, Steps
<1> QED
  BY <1>1, <1>3, <1>4, <1>5, <1>6 DEF ScheduleIInv

LEMMA SyncFailsOK ==
  ASSUME ScheduleIInv, NEW q \in Editors, SyncFails(q)
  PROVE  ScheduleIInv'
<1>t. ScheduleTypeOK
  BY DEF ScheduleIInv
<1>1. UNCHANGED <<routine, schedule, fired, boot, since, forgot>> /\ strayed' = TRUE
      /\ sync' = [sync EXCEPT ![q] = NoSync]
  BY DEF SyncFails
<1>2. /\ sync' \in [Editors -> Syncs] /\ sync'[q].pc = "idle"
      /\ \A p \in Editors : p # q => sync'[p] = sync[p]
  BY <1>t, <1>1, NothingElse DEF ScheduleTypeOK
<1>3. ScheduleTypeOK'
  BY <1>t, <1>1, <1>2 DEF ScheduleTypeOK
<1>4. ~forgot' => Remembered'
  BY <1>1 DEF ScheduleIInv, Remembered, Running
<1>5. Fresh'
  BY <1>1, <1>2 DEF ScheduleIInv, Fresh
<1> QED
  BY <1>1, <1>3, <1>4, <1>5 DEF ScheduleIInv

LEMMA BootOK ==
  ASSUME ScheduleIInv, Boot
  PROVE  ScheduleIInv'
<1>t. ScheduleTypeOK
  BY DEF ScheduleIInv
<1>1. /\ UNCHANGED <<routine, schedule, fired, sync, forgot>> /\ strayed' = Strays
      /\ boot' = IF Enabled THEN [pc |-> "upsert", copy |-> routine] ELSE NoSync
      /\ NotesWhenInLine
  BY DEF Boot
<1>2. /\ boot' \in [pc : {"idle", "upsert"}, copy : Rows \cup {Nothing}]
      /\ boot'.pc = "upsert" => Enabled /\ boot'.copy = routine /\ boot'.copy \in Rows
  BY <1>t, <1>1 DEF ScheduleTypeOK, NoSync, Enabled
<1>3. ScheduleTypeOK'
  <2>1. strayed' \in BOOLEAN
    BY <1>t, <1>1 DEF ScheduleTypeOK, Strays, AtRest, Enabled
  <2> QED
    BY <1>t, <1>1, <1>2, <2>1, NotesOK DEF ScheduleTypeOK
<1>4. ~strayed' => Orderly'
  <2> SUFFICES ASSUME AtRest, ~strayed \/ Enabled
               PROVE  Orderly'
    BY <1>1 DEF Strays
  <2>1. boot.pc = "idle" /\ \A q \in Editors : sync'[q].pc = "idle"
    BY <1>1 DEF AtRest
  <2>2. Alone' /\ \A q \in Editors : Underway(sync[q])'
    BY <2>1 DEF Alone, Underway
  <2>3. (boot.pc = "upsert" => Enabled /\ boot.copy = routine)'
    BY <1>1, <1>2 DEF Enabled
  <2>4. AtRest' => Follows'
    <3>1. CASE Enabled
      <4>1. boot'.pc # "idle"
        BY <1>1, <3>1
      <4> QED
        BY <4>1 DEF AtRest
    <3>2. CASE ~strayed
      BY <1>1, <3>2 DEF ScheduleIInv, Orderly, Follows, Enabled
    <3> QED
      BY <3>1, <3>2
  <2> QED
    BY <2>2, <2>3, <2>4 DEF Orderly
<1>5. ~forgot' => Remembered'
  BY <1>1 DEF ScheduleIInv, Remembered, Running
<1>6. Fresh'
  BY <1>1, <1>2, NotesOK DEF Fresh, Enabled
<1> QED
  BY <1>3, <1>4, <1>5, <1>6 DEF ScheduleIInv

LEMMA UpsertOK ==
  ASSUME ScheduleIInv, Upsert
  PROVE  ScheduleIInv'
<1>t. ScheduleTypeOK
  BY DEF ScheduleIInv
<1>1. /\ UNCHANGED <<routine, fired, sync, since, forgot>> /\ boot' = NoSync
      /\ boot.pc = "upsert" /\ boot.copy \in Rows
  BY <1>t DEF Upsert, ScheduleTypeOK
<1>2. boot' \in [pc : {"idle", "upsert"}, copy : Rows \cup {Nothing}] /\ boot'.pc = "idle"
  BY <1>1 DEF NoSync
<1>3. CASE UNCHANGED schedule /\ strayed' = TRUE
  <2>1. ScheduleTypeOK'
    BY <1>t, <1>1, <1>2, <1>3 DEF ScheduleTypeOK
  <2>2. ~forgot' => Remembered'
    BY <1>1, <1>3 DEF ScheduleIInv, Remembered, Running
  <2>3. Fresh'
    BY <1>1, <1>2, <1>3 DEF ScheduleIInv, Fresh
  <2> QED
    BY <1>3, <2>1, <2>2, <2>3 DEF ScheduleIInv
<1>4. CASE /\ UNCHANGED strayed
           /\ schedule' = Mirror(boot.copy, IF schedule = Nothing THEN Nothing ELSE schedule.last)
  <2>1. PICK l \in Firings \cup {Nothing} :
          /\ l = (IF schedule = Nothing THEN Nothing ELSE schedule.last)
          /\ schedule' = Mirror(boot.copy, l)
    BY <1>t, <1>4 DEF ScheduleTypeOK, Schedules
  <2>2. /\ schedule' \in Schedules /\ schedule' # Nothing
        /\ schedule'.version = boot.copy.version /\ schedule'.last = l
    BY <1>1, <2>1, MirrorIs, NothingElse
  <2>3. ScheduleTypeOK'
    BY <1>t, <1>1, <1>2, <1>4, <2>2 DEF ScheduleTypeOK
  <2>4. ASSUME ~strayed PROVE Orderly'
    <3>1. Orderly /\ Enabled /\ boot.copy = routine
      BY <1>1, <2>4 DEF ScheduleIInv, Orderly
    <3>2. \A q \in Editors : sync[q].pc = "idle"
      BY <1>1, <3>1 DEF Orderly, Alone
    <3> QED
      BY <1>1, <1>2, <2>2, <3>1, <3>2 DEF Orderly, Alone, Underway, Enabled, Follows, AtRest
  <2>5. ASSUME ~forgot PROVE Remembered'
    <3> SUFFICES ASSUME NEW e \in Firings, Running(e)
                 PROVE  schedule' # Nothing /\ schedule'.last = e
      BY <1>1 DEF Remembered, Running
    <3>1. schedule # Nothing /\ schedule.last = e
      BY <2>5 DEF ScheduleIInv, Remembered
    <3> QED
      BY <2>1, <2>2, <3>1
  <2>6. Fresh'
    BY <1>1, <1>2, <2>2 DEF ScheduleIInv, Fresh
  <2> QED
    BY <1>1, <1>4, <2>3, <2>4, <2>5, <2>6 DEF ScheduleIInv
<1> QED
  BY <1>3, <1>4 DEF Upsert

LEMMA ScheduleNextOK == ScheduleIInv /\ [ScheduleNext]_scheduleVars => ScheduleIInv'
<1> SUFFICES ASSUME ScheduleIInv, [ScheduleNext]_scheduleVars
             PROVE  ScheduleIInv'
  OBVIOUS
<1>1. ASSUME NEW e \in Firings, Fire(e) \/ ExecEnds(e) PROVE ScheduleIInv'
  BY <1>1, FiringOK
<1>2. ASSUME NEW q \in Editors,
             \/ Edit(q) \/ Refresh(q) \/ Create(q) \/ Remove(q)
             \/ Drop(q) \/ Dropped(q) \/ SyncFails(q)
      PROVE  ScheduleIInv'
  BY <1>2, EditOK, RefreshOK, CreateOK, RemoveOK, DropOK, DroppedOK, SyncFailsOK
<1>3. CASE Boot \/ Upsert
  BY <1>3, BootOK, UpsertOK
<1>4. CASE UNCHANGED scheduleVars
  BY <1>4 DEF scheduleVars, ScheduleIInv, ScheduleTypeOK, Orderly, Alone, Underway, Enabled,
              Follows, Remembered, Running, AtRest, Fresh
<1> QED
  BY <1>1, <1>2, <1>3, <1>4 DEF ScheduleNext

\* The row and its schedule have their types, and everything at work on them alone is
\* where its steps have brought it.
THEOREM ScheduleTypes == ScheduleSpec => []ScheduleIInv
<1> QED
  BY ScheduleInitOK, ScheduleNextOK, PTL DEF ScheduleSpec

\* For any number of edits, deletions and boots, in any order: what came to rest without
\* a failure or a crossing left a schedule that starts the row's own version, and none
\* for a disabled or deleted routine; and no failure or crossing takes the schedule back
\* behind the version at which it last was in line (sync_routine_schedule,
\* delete_routine, reconcile_schedules).
THEOREM ScheduleIsTheRows == ScheduleSpec => []ScheduleFollowsRow
<1>1. ScheduleIInv => ScheduleFollowsRow
  <2> SUFFICES ASSUME ScheduleIInv
               PROVE  ScheduleFollowsRow
    OBVIOUS
  <2>1. AtRest /\ ~strayed => Follows
    BY DEF ScheduleIInv, Orderly
  <2>2. schedule # Nothing => schedule.version \in Nat /\ since \in Nat /\ since <= schedule.version
    BY DEF ScheduleIInv, Fresh, ScheduleTypeOK, Schedules
  <2> QED
    BY <2>1, <2>2 DEF ScheduleFollowsRow, Follows
<1> QED
  BY <1>1, ScheduleTypes, PTL

\* Nothing but a removal under a running execution makes two of them overlap: not the
\* boot's update in place (reconcile_schedules), however it falls.
THEOREM NoOverlapByItself == ScheduleSpec => []OverlapNeedsReplacement
<1>1. ScheduleIInv => OverlapNeedsReplacement
  <2> SUFFICES ASSUME ScheduleIInv, NEW e \in Firings, NEW f \in Firings, e # f,
                      Running(e), Running(f), ~forgot
               PROVE  FALSE
    BY DEF OverlapNeedsReplacement, ScheduleIInv, ScheduleTypeOK
  <2> QED
    BY DEF ScheduleIInv, Remembered
<1> QED
  BY <1>1, ScheduleTypes, PTL
==============================================================================
