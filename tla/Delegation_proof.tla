--------------------------- MODULE Delegation_proof ---------------------------
(***************************************************************************)
(* The bounds on hand-offs, for any number of tasks, runs and chains and   *)
(* any values of the caps.                                                 *)
(*                                                                         *)
(* Three actions put a run on a stack: StartTurn, Delegate and Resume. All *)
(* others only take runs off, keep every row's ancestry, and may park the  *)
(* run they take off: they are QuietStep, proved harmless once.            *)
(***************************************************************************)
EXTENDS Delegation, FiniteSetTheorems, SequenceTheorems, TLAPS

FrameType == [run : Nat \ {0}, refused : 0 .. MaxRefusals]

\* A parked run is on no stack: who resumes it is its only driver.
ParkedIsOff ==
    \A r \in DOMAIN run : run[r].status = "parked" => \A l \in Legs : ~OnStack(l, r)

\* A task that works for a chain nobody has resumed has the chain's root at the
\* bottom of its stack, and so the chain's one counter.
RootAtBottom ==
    \A l \in Legs : \A i \in DOMAIN leg[l].frames :
        run[leg[l].frames[i].run].root \notin resumed =>
            leg[l].frames[1].run = run[leg[l].frames[i].run].root

\* A root names itself as the root of its chain.
RootsNameThemselves == \A r \in Roots : run[r].root = r

\* Only a run at work can have been refused too often: callers have not.
CallersMayGoOn ==
    \A l \in Legs : \A i \in DOMAIN leg[l].frames :
        i + 1 \in DOMAIN leg[l].frames => leg[l].frames[i].refused < MaxRefusals

IInv == /\ TypeOK
        /\ CallersMayGoOn
        /\ RootsNameThemselves
        /\ OneStack
        /\ ParkedIsOff
        /\ RootAtBottom
        /\ DepthBounded
        /\ AllowanceSurvivesParking
        /\ TotalUnlessResumed

------------------------------------------------------------------------------
(* What the quiet actions have in common                                   *)

\* No row changes its place in its chain.
SameAncestry ==
    /\ DOMAIN run' = DOMAIN run
    /\ \A r \in DOMAIN run : /\ run'[r].parent = run[r].parent
                             /\ run'[r].root = run[r].root
                             /\ run'[r].depth = run[r].depth
                             /\ run'[r].hop = run[r].hop

\* A stack loses runs at most, and keeps its count while it has any.
StackShrinks(l) ==
    /\ DOMAIN leg'[l].frames \subseteq DOMAIN leg[l].frames
    /\ \A i \in DOMAIN leg'[l].frames :
          /\ leg'[l].frames[i].run = leg[l].frames[i].run
          /\ 1 \in DOMAIN leg'[l].frames
          /\ leg[l].spent <= leg'[l].spent
          /\ i + 1 \in DOMAIN leg'[l].frames =>
                leg'[l].frames[i].refused = leg[l].frames[i].refused

StacksShrink == \A l \in Legs : StackShrinks(l)

\* What is parked was parked, or has been taken off a stack with its count.
ParksWithCount ==
    \A r \in DOMAIN run : run'[r].status = "parked" =>
        \/ run[r].status = "parked" /\ run'[r].used = run[r].used
        \/ \E l \in Legs : OnStack(l, r) /\ run'[r].used = leg[l].spent
                           /\ \A m \in Legs : ~OnStack(m, r)'

Quiet == SameAncestry /\ StacksShrink /\ ParksWithCount /\ resumed' = resumed

------------------------------------------------------------------------------
(* Types                                                                   *)

\* The rows are numbered from one, and each set of rows is finite.
LEMMA RowFacts ==
    ASSUME TypeOK
    PROVE  /\ Len(run) \in Nat /\ DOMAIN run = 1 .. Len(run)
           /\ \A r \in DOMAIN run : run[r] \in Row
           /\ \A S \in SUBSET DOMAIN run : IsFiniteSet(S) /\ Cardinality(S) \in Nat
  <1>1. Len(run) \in Nat /\ DOMAIN run = 1 .. Len(run)
    BY LenProperties DEF TypeOK
  <1>2. \A r \in DOMAIN run : run[r] \in Row
    BY <1>1, ElementOfSeq DEF TypeOK
  <1>3. IsFiniteSet(DOMAIN run)
    BY <1>1, FS_Interval
  <1>4. ASSUME NEW S \in SUBSET DOMAIN run
        PROVE  IsFiniteSet(S) /\ Cardinality(S) \in Nat
    BY <1>3, FS_Subset, FS_CardinalityType
  <1> QED BY <1>1, <1>2, <1>4

\* A stack is numbered from one, from the task's first run to the one at work.
LEMMA StackFacts ==
    ASSUME TypeOK, NEW l \in Legs
    PROVE  /\ leg[l] \in LegSlot
           /\ leg[l].frames \in Seq(FrameType)
           /\ leg[l].spent \in Nat
           /\ Height(l) \in Nat /\ DOMAIN leg[l].frames = 1 .. Height(l)
           /\ \A i \in 1 .. Height(l) : /\ leg[l].frames[i] \in FrameType
                                        /\ leg[l].frames[i].run \in DOMAIN run
           /\ Busy(l) => Height(l) > 0 /\ Top(l) \in FrameType /\ Top(l).run \in DOMAIN run
           /\ Height(l) > 0 => Busy(l)
  <1>1. leg[l] \in LegSlot
    BY DEF TypeOK
  <1>2. leg[l].frames \in Seq(FrameType) /\ leg[l].spent \in Nat
    BY <1>1 DEF LegSlot, FrameType
  <1>3. Height(l) \in Nat /\ DOMAIN leg[l].frames = 1 .. Height(l)
    BY <1>2, LenProperties DEF Height
  <1>4. \A i \in 1 .. Height(l) : /\ leg[l].frames[i] \in FrameType
                                  /\ leg[l].frames[i].run \in DOMAIN run
    BY <1>2, <1>3, ElementOfSeq DEF TypeOK, Height
  <1>5. Busy(l) => Height(l) > 0
    BY <1>2, <1>3, EmptySeq DEF Busy, Height
  <1>6. Height(l) > 0 => Busy(l)
    BY <1>2, <1>3, EmptySeq DEF Busy, Height
  <1> QED BY <1>1, <1>2, <1>3, <1>4, <1>5, <1>6 DEF Top

\* An idle task, and one that has just been given a run.
LEMMA SlotTypes ==
    /\ IdleLeg \in LegSlot /\ DOMAIN IdleLeg.frames = {}
    /\ \A r \in Nat \ {0}, n \in Nat, b \in BOOLEAN :
         LET slot == [IdleLeg EXCEPT !.frames = <<Frame(r)>>, !.spent = n, !.first = b] IN
         /\ slot \in LegSlot /\ slot.spent = n
         /\ DOMAIN slot.frames = {1} /\ slot.frames[1].run = r
    /\ \A r \in Nat \ {0} :
         LET slot == [IdleLeg EXCEPT !.frames = <<Frame(r)>>] IN
         /\ slot \in LegSlot /\ slot.spent = 0
         /\ DOMAIN slot.frames = {1} /\ slot.frames[1].run = r
  <1> USE DelegationAssumption DEF IdleLeg, LegSlot, Frame
  <1>1. IdleLeg \in LegSlot /\ DOMAIN IdleLeg.frames = {}
    <2>1. <<>> \in Seq([run : Nat \ {0}, refused : 0 .. MaxRefusals]) /\ DOMAIN <<>> = {}
      OBVIOUS
    <2> QED BY <2>1
  <1>2. ASSUME NEW r \in Nat \ {0}, NEW n \in Nat, NEW b \in BOOLEAN
        PROVE  LET slot == [IdleLeg EXCEPT !.frames = <<Frame(r)>>, !.spent = n, !.first = b] IN
               /\ slot \in LegSlot /\ slot.spent = n
               /\ DOMAIN slot.frames = {1} /\ slot.frames[1].run = r
    <2>1. Frame(r) \in [run : Nat \ {0}, refused : 0 .. MaxRefusals] /\ Frame(r).run = r
      OBVIOUS
    <2>2. /\ <<Frame(r)>> \in Seq([run : Nat \ {0}, refused : 0 .. MaxRefusals])
          /\ DOMAIN <<Frame(r)>> = {1} /\ <<Frame(r)>>[1] = Frame(r)
      BY <2>1
    <2> QED BY <2>1, <2>2
  <1>3. ASSUME NEW r \in Nat \ {0}
        PROVE  LET slot == [IdleLeg EXCEPT !.frames = <<Frame(r)>>] IN
               /\ slot \in LegSlot /\ slot.spent = 0
               /\ DOMAIN slot.frames = {1} /\ slot.frames[1].run = r
    <2>1. Frame(r) \in [run : Nat \ {0}, refused : 0 .. MaxRefusals] /\ Frame(r).run = r
      OBVIOUS
    <2>2. /\ <<Frame(r)>> \in Seq([run : Nat \ {0}, refused : 0 .. MaxRefusals])
          /\ DOMAIN <<Frame(r)>> = {1} /\ <<Frame(r)>>[1] = Frame(r)
      BY <2>1
    <2> QED BY <2>1, <2>2
  <1> QED BY <1>1, <1>2, <1>3

\* The effect of giving an idle task a new run, as StartTurn and Resume do.
Begins(l, r, n) ==
    /\ ~Busy(l)
    /\ leg' \in [Legs -> LegSlot]
    /\ \A m \in Legs \ {l} : leg'[m] = leg[m]
    /\ DOMAIN leg'[l].frames = {1}
    /\ leg'[l].frames[1].run = r
    /\ leg'[l].spent = n

LEMMA StartBegins ==
    ASSUME TypeOK, NEW l \in Legs, StartTurn(l)
    PROVE  Begins(l, Len(run) + 1, 0)
  <1> DEFINE r == Len(run) + 1
             slot == [IdleLeg EXCEPT !.frames = <<Frame(r)>>]
  <1>1. r \in Nat \ {0}
    BY RowFacts
  <1>2. /\ slot \in LegSlot /\ slot.spent = 0
        /\ DOMAIN slot.frames = {1} /\ slot.frames[1].run = r
    BY <1>1, SlotTypes
  <1>3. leg' = [leg EXCEPT ![l] = slot] /\ ~Busy(l)
    BY DEF StartTurn
  <1> HIDE DEF slot
  <1>4. leg' \in [Legs -> LegSlot] /\ leg'[l] = slot /\ \A m \in Legs \ {l} : leg'[m] = leg[m]
    BY <1>2, <1>3 DEF TypeOK
  <1> QED BY <1>2, <1>3, <1>4 DEF Begins

LEMMA ResumeBegins ==
    ASSUME TypeOK, NEW l \in Legs, NEW r \in DOMAIN run, Resume(l, r)
    PROVE  Begins(l, r, run[r].used)
  <1> DEFINE slot == [IdleLeg EXCEPT !.frames = <<Frame(r)>>, !.spent = run[r].used,
                                     !.first = FALSE]
  <1>1. r \in Nat \ {0} /\ run[r].used \in Nat
    BY RowFacts DEF Row
  <1>2. /\ slot \in LegSlot /\ slot.spent = run[r].used
        /\ DOMAIN slot.frames = {1} /\ slot.frames[1].run = r
    BY <1>1, SlotTypes
  <1>3. leg' = [leg EXCEPT ![l] = slot] /\ ~Busy(l)
    BY DEF Resume
  <1> HIDE DEF slot
  <1>4. leg' \in [Legs -> LegSlot] /\ leg'[l] = slot /\ \A m \in Legs \ {l} : leg'[m] = leg[m]
    BY <1>2, <1>3 DEF TypeOK
  <1> QED BY <1>2, <1>3, <1>4 DEF Begins

\* A row added at the end.
Adds(row) ==
    /\ run' \in Seq(Row)
    /\ Len(run') = Len(run) + 1
    /\ DOMAIN run' = DOMAIN run \cup {Len(run) + 1}
    /\ \A r \in DOMAIN run : run'[r] = run[r]
    /\ run'[Len(run) + 1] = row

LEMMA AppendRow ==
    ASSUME TypeOK, NEW row \in Row, run' = Append(run, row)
    PROVE  Adds(row)
  <1>1. run \in Seq(Row)
    BY DEF TypeOK
  <1>2. /\ run' \in Seq(Row) /\ Len(run') = Len(run) + 1
        /\ \A i \in 1 .. Len(run) : run'[i] = run[i]
        /\ run'[Len(run) + 1] = row
    BY <1>1, AppendProperties
  <1>3. DOMAIN run = 1 .. Len(run) /\ DOMAIN run' = 1 .. Len(run') /\ Len(run) \in Nat
    BY <1>1, <1>2, LenProperties
  <1> QED BY <1>2, <1>3 DEF Adds

\* One column set, or two, in row r.
LEMMA SetRow ==
    ASSUME TypeOK, NEW r \in DOMAIN run, NEW s \in {"running", "parked", "ended"},
           NEW u \in Nat,
           \/ run' = [run EXCEPT ![r].status = s, ![r].used = u]
           \/ run' = [run EXCEPT ![r].status = s] /\ u = run[r].used
    PROVE  /\ run' \in Seq(Row) /\ SameAncestry
           /\ run'[r].status = s /\ run'[r].used = u
           /\ \A q \in DOMAIN run \ {r} : run'[q] = run[q]
  <1> DEFINE new == [run[r] EXCEPT !.status = s, !.used = u]
  <1>1. /\ run \in Seq(Row) /\ DOMAIN run = 1 .. Len(run)
        /\ run[r] \in Row
    BY RowFacts DEF TypeOK
  <1>2. run' = [run EXCEPT ![r] = new]
    BY <1>1 DEF Row
  <1>3. /\ new \in Row /\ new.status = s /\ new.used = u
        /\ new.parent = run[r].parent /\ new.root = run[r].root
        /\ new.depth = run[r].depth /\ new.hop = run[r].hop
    BY <1>1 DEF Row
  <1> HIDE DEF new
  <1>4. /\ run' \in Seq(Row) /\ DOMAIN run' = DOMAIN run
        /\ \A q \in DOMAIN run : run'[q] = IF q = r THEN new ELSE run[q]
    BY <1>1, <1>2, <1>3, ExceptSeq
  <1> QED BY <1>3, <1>4 DEF SameAncestry

------------------------------------------------------------------------------
(* Steps that keep the invariant, by their shape                           *)

\* What a run is charged with is a number.
LEMMA CountsAreNat ==
    ASSUME TypeOK, NEW r \in DOMAIN run
    PROVE  /\ IsFiniteSet(Children(r)) /\ Cardinality(Children(r)) \in Nat
           /\ IsFiniteSet(Delegated(r)) /\ Cardinality(Delegated(r)) \in Nat
           /\ run[r].hop \in Nat /\ run[r].used \in Nat /\ run[r].depth \in Nat
           /\ \A l \in Legs : leg[l].spent \in Nat
  <1>1. Children(r) \in SUBSET DOMAIN run /\ Delegated(r) \in SUBSET DOMAIN run
    BY DEF Children, Delegated
  <1>2. run[r] \in Row
    BY RowFacts
  <1> QED BY <1>1, <1>2, RowFacts, StackFacts DEF Row

LEMMA QuietKeeps ==
    ASSUME IInv, Quiet, run' \in Seq(Row), leg' \in [Legs -> LegSlot]
    PROVE  IInv'
  <1> USE DEF IInv, Quiet
  <1>1. \A l \in Legs, r \in DOMAIN run : OnStack(l, r)' => OnStack(l, r) /\ leg[l].spent <= leg'[l].spent
    BY DEF OnStack, StacksShrink, StackShrinks
  <1>2. \A r \in DOMAIN run : Children(r)' = Children(r) /\ Delegated(r)' = Delegated(r)
    BY DEF SameAncestry, Children, Delegated
  <1>a. Roots' = Roots /\ RootsNameThemselves'
    BY DEF Roots, RootsNameThemselves, SameAncestry
  <1>b. CallersMayGoOn'
    BY DEF CallersMayGoOn, StacksShrink, StackShrinks
  <1>3. TypeOK'
    <2>1. \A r \in DOMAIN run' : run'[r].parent < r /\ run'[r].root \in 1 .. r
      BY DEF TypeOK, SameAncestry
    <2>2. \A l \in Legs : \A i \in DOMAIN leg'[l].frames : leg'[l].frames[i].run \in DOMAIN run'
      BY DEF TypeOK, SameAncestry, StacksShrink, StackShrinks
    <2> QED BY <2>1, <2>2 DEF TypeOK
  <1>4. OneStack'
    BY DEF OneStack, StacksShrink, StackShrinks
  <1>5. ParkedIsOff'
    BY <1>1 DEF ParkedIsOff, ParksWithCount, SameAncestry
  <1>6. RootAtBottom'
    <2> SUFFICES ASSUME NEW l \in Legs, NEW i \in DOMAIN leg'[l].frames,
                        run'[leg'[l].frames[i].run].root \notin resumed
                 PROVE  leg'[l].frames[1].run = run'[leg'[l].frames[i].run].root
      BY DEF RootAtBottom
    <2>1. /\ i \in DOMAIN leg[l].frames /\ leg'[l].frames[i].run = leg[l].frames[i].run
          /\ leg'[l].frames[1].run = leg[l].frames[1].run
      BY DEF StacksShrink, StackShrinks
    <2>2. run'[leg[l].frames[i].run].root = run[leg[l].frames[i].run].root
      BY <2>1 DEF SameAncestry, TypeOK
    <2> QED BY <2>1, <2>2 DEF RootAtBottom
  <1>7. DepthBounded'
    BY DEF DepthBounded, SameAncestry
  <1>8. AllowanceSurvivesParking'
    <2> SUFFICES ASSUME NEW r \in DOMAIN run
                 PROVE  LET made == run[r].hop + Cardinality(Children(r)) IN
                        /\ \A l \in Legs : OnStack(l, r)' => made <= leg'[l].spent
                        /\ run'[r].status = "parked" => made <= run'[r].used
                        /\ made <= MaxTotal
      BY <1>2 DEF AllowanceSurvivesParking, SameAncestry
    <2> DEFINE made == run[r].hop + Cardinality(Children(r))
    <2>1. /\ made \in Nat /\ \A l \in Legs : leg[l].spent \in Nat /\ leg'[l].spent \in Nat
      BY CountsAreNat DEF LegSlot
    <2>2. /\ \A l \in Legs : OnStack(l, r) => made <= leg[l].spent
          /\ run[r].status = "parked" => made <= run[r].used
          /\ made <= MaxTotal
      BY DEF AllowanceSurvivesParking
    <2> HIDE DEF made
    <2>3. \A l \in Legs : OnStack(l, r)' => made <= leg'[l].spent
      BY <1>1, <2>1, <2>2
    <2>4. run'[r].status = "parked" => made <= run'[r].used
      BY <2>2 DEF ParksWithCount
    <2> QED BY <2>2, <2>3, <2>4 DEF made
  <1>9. TotalUnlessResumed'
    <2> SUFFICES ASSUME NEW r \in Roots \ resumed
                 PROVE  LET made == Cardinality(Delegated(r)) IN
                        /\ \A l \in Legs : OnStack(l, r)' => made <= leg'[l].spent
                        /\ made <= MaxTotal
      BY <1>2, <1>a DEF TotalUnlessResumed, Roots
    <2>0. r \in DOMAIN run
      BY DEF Roots
    <2> DEFINE made == Cardinality(Delegated(r))
    <2>1. /\ made \in Nat /\ \A l \in Legs : leg[l].spent \in Nat /\ leg'[l].spent \in Nat
      BY <2>0, CountsAreNat DEF LegSlot
    <2>2. /\ \A l \in Legs : OnStack(l, r) => made <= leg[l].spent
          /\ made <= MaxTotal
      BY DEF TotalUnlessResumed
    <2> HIDE DEF made
    <2>3. \A l \in Legs : OnStack(l, r)' => made <= leg'[l].spent
      BY <1>1, <2>0, <2>1, <2>2
    <2> QED BY <2>2, <2>3 DEF made
  <1> QED BY <1>a, <1>b, <1>3, <1>4, <1>5, <1>6, <1>7, <1>8, <1>9

\* A new root has no hand-offs, and no old row changes.
LEMMA StartKeeps ==
    ASSUME IInv, NEW l \in Legs, StartTurn(l)
    PROVE  IInv'
  <1>0. PICK k : k = Len(run) + 1
    OBVIOUS
  <1> DEFINE root == [status |-> "running", parent |-> 0, root |-> k,
                      depth |-> 0, used |-> 0, hop |-> 0]
  <1>1. TypeOK /\ k \in Nat \ {0} /\ k \notin DOMAIN run /\ DOMAIN run = 1 .. Len(run)
    BY <1>0, RowFacts DEF IInv
  <1>2. root \in Row
    BY <1>1 DEF Row
  <1>3. Adds(root)
    BY <1>0, <1>1, <1>2, AppendRow DEF StartTurn
  <1>4. Begins(l, k, 0)
    BY <1>0, <1>1, StartBegins
  <1>5. resumed' = resumed
    BY DEF StartTurn
  <1>6. /\ root.status = "running" /\ root.parent = 0 /\ root.root = k
        /\ root.depth = 0 /\ root.hop = 0
    OBVIOUS
  <1> HIDE DEF root
  <1>7. /\ DOMAIN run' = DOMAIN run \cup {k} /\ run'[k] = root
        /\ \A r \in DOMAIN run : run'[r] = run[r]
    BY <1>0, <1>3 DEF Adds
  <1>8. /\ leg' \in [Legs -> LegSlot] /\ ~Busy(l)
        /\ \A m \in Legs \ {l} : leg'[m] = leg[m]
        /\ DOMAIN leg'[l].frames = {1} /\ leg'[l].frames[1].run = k /\ leg'[l].spent = 0
    BY <1>4 DEF Begins
  <1>a. \A m \in Legs : \A i \in DOMAIN leg[m].frames : leg[m].frames[i].run \in DOMAIN run
    BY <1>1 DEF TypeOK
  <1>9. /\ \A m \in Legs, r \in DOMAIN run :
             OnStack(m, r)' => OnStack(m, r) /\ m # l /\ leg'[m].spent = leg[m].spent
        /\ \A m \in Legs : OnStack(m, k)' => m = l
    <2>1. ASSUME NEW m \in Legs, NEW r \in DOMAIN run, OnStack(m, r)'
          PROVE  OnStack(m, r) /\ m # l /\ leg'[m].spent = leg[m].spent
      <3>1. PICK i \in DOMAIN leg'[m].frames : leg'[m].frames[i].run = r
        BY <2>1 DEF OnStack
      <3>2. m # l
        BY <1>1, <1>8, <3>1
      <3> QED BY <1>8, <3>1, <3>2 DEF OnStack
    <2>2. ASSUME NEW m \in Legs, OnStack(m, k)', m # l
          PROVE  FALSE
      BY <1>1, <1>8, <1>a, <2>2 DEF OnStack
    <2> QED BY <2>1, <2>2
  <1>10. /\ \A r \in DOMAIN run : Children(r)' = Children(r) /\ Delegated(r)' = Delegated(r)
         /\ Children(k)' = {} /\ Delegated(k)' = {}
    <2>1. \A c \in DOMAIN run : run[c].parent # k /\ run[c].root # k
      <3>1. \A c \in DOMAIN run : /\ run[c].parent \in Nat /\ run[c].parent < c
                                  /\ run[c].root \in 1 .. c /\ c \in 1 .. Len(run)
        BY <1>1, RowFacts DEF TypeOK, Row
      <3> QED BY <1>0, <1>1, <3>1
    <2>2. \A r \in DOMAIN run : r # 0 /\ r # k
      BY <1>1
    <2>3. run'[k].parent = 0 /\ run'[k].root = k /\ k # 0
      BY <1>1, <1>6, <1>7
    <2>4. \A r \in DOMAIN run : Children(r)' = Children(r) /\ Delegated(r)' = Delegated(r)
      BY <1>7, <2>2, <2>3 DEF Children, Delegated
    <2>5. Children(k)' = {} /\ Delegated(k)' = {}
      BY <1>7, <2>1, <2>3 DEF Children, Delegated
    <2> QED BY <2>4, <2>5
  <1>b. Roots' = Roots \cup {k} /\ RootsNameThemselves'
    <2>1. Roots' = Roots \cup {k}
      BY <1>6, <1>7 DEF Roots
    <2> QED BY <1>6, <1>7, <2>1 DEF IInv, RootsNameThemselves, Roots
  <1>11. TypeOK'
    <2>1. \A r \in DOMAIN run' : run'[r].parent < r /\ run'[r].root \in 1 .. r
      BY <1>1, <1>6, <1>7 DEF TypeOK
    <2>2. \A m \in Legs : \A i \in DOMAIN leg'[m].frames : leg'[m].frames[i].run \in DOMAIN run'
      BY <1>7, <1>8, <1>a
    <2> QED BY <1>1, <1>3, <1>5, <1>8, <2>1, <2>2 DEF TypeOK, Adds
  <1>12. OneStack'
    BY <1>1, <1>8 DEF IInv, OneStack, TypeOK
  <1>13. ParkedIsOff'
    BY <1>6, <1>7, <1>9 DEF IInv, ParkedIsOff
  <1>14. RootAtBottom'
    BY <1>1, <1>5, <1>6, <1>7, <1>8 DEF IInv, RootAtBottom, TypeOK
  <1>15. DepthBounded'
    BY <1>6, <1>7, DelegationAssumption DEF IInv, DepthBounded
  <1>16. AllowanceSurvivesParking'
    <2>1. \A r \in DOMAIN run :
             LET made == run'[r].hop + Cardinality(Children(r)') IN
             /\ \A m \in Legs : OnStack(m, r)' => made <= leg'[m].spent
             /\ run'[r].status = "parked" => made <= run'[r].used
             /\ made <= MaxTotal
      BY <1>7, <1>9, <1>10 DEF IInv, AllowanceSurvivesParking
    <2>2. run'[k].hop + Cardinality(Children(k)') = 0
      BY <1>6, <1>7, <1>10, FS_EmptySet
    <2>3. /\ \A m \in Legs : OnStack(m, k)' => leg'[m].spent = 0
          /\ run'[k].status # "parked"
      BY <1>6, <1>7, <1>8, <1>9
    <2> QED BY <1>7, <2>1, <2>2, <2>3, DelegationAssumption DEF AllowanceSurvivesParking
  <1>17. TotalUnlessResumed'
    <2>1. \A r \in Roots \ resumed :
             LET made == Cardinality(Delegated(r)') IN
             /\ \A m \in Legs : OnStack(m, r)' => made <= leg'[m].spent
             /\ made <= MaxTotal
      BY <1>9, <1>10 DEF IInv, TotalUnlessResumed, Roots
    <2>2. Cardinality(Delegated(k)') = 0
      BY <1>10, FS_EmptySet
    <2>3. \A m \in Legs : OnStack(m, k)' => leg'[m].spent = 0
      BY <1>8, <1>9
    <2> QED BY <1>5, <1>b, <2>1, <2>2, <2>3, DelegationAssumption DEF TotalUnlessResumed
  <1>18. CallersMayGoOn'
    BY <1>8 DEF IInv, CallersMayGoOn
  <1> QED BY <1>b, <1>18, <1>11, <1>12, <1>13, <1>14, <1>15, <1>16, <1>17 DEF IInv

\* A parked run is on no stack and its row has its count: one task takes it up
\* with that count.
LEMMA ResumeKeeps ==
    ASSUME IInv, NEW l \in Legs, NEW r \in DOMAIN run, Resume(l, r)
    PROVE  IInv'
  <1>1. TypeOK /\ run[r].used \in Nat
    BY CountsAreNat DEF IInv
  <1>2. /\ run' \in Seq(Row) /\ SameAncestry /\ run'[r].status = "running"
        /\ \A q \in DOMAIN run \ {r} : run'[q] = run[q]
    <2>1. run' = [run EXCEPT ![r].status = "running"]
      BY DEF Resume
    <2> QED BY <1>1, <2>1, SetRow
  <1>3. /\ leg' \in [Legs -> LegSlot]
        /\ \A m \in Legs \ {l} : leg'[m] = leg[m]
        /\ DOMAIN leg'[l].frames = {1} /\ leg'[l].frames[1].run = r
        /\ leg'[l].spent = run[r].used
    BY <1>1, ResumeBegins DEF Begins
  <1>4. run[r].status = "parked" /\ resumed' = resumed \cup {run[r].root}
    BY DEF Resume
  <1>5. \A m \in Legs : ~OnStack(m, r)
    BY <1>4 DEF IInv, ParkedIsOff
  <1>6. /\ \A m \in Legs, q \in DOMAIN run \ {r} :
             OnStack(m, q)' => OnStack(m, q) /\ leg'[m].spent = leg[m].spent
        /\ \A m \in Legs : OnStack(m, r)' => m = l
    BY <1>3, <1>5 DEF OnStack
  <1>7. \A q \in DOMAIN run : Children(q)' = Children(q) /\ Delegated(q)' = Delegated(q)
    BY <1>2 DEF SameAncestry, Children, Delegated
  <1>a. Roots' = Roots /\ RootsNameThemselves'
    BY <1>2 DEF IInv, Roots, RootsNameThemselves, SameAncestry
  <1>8. TypeOK'
    <2>1. \A q \in DOMAIN run' : run'[q].parent < q /\ run'[q].root \in 1 .. q
      BY <1>1, <1>2 DEF TypeOK, SameAncestry
    <2>2. \A m \in Legs : \A i \in DOMAIN leg'[m].frames : leg'[m].frames[i].run \in DOMAIN run'
      BY <1>1, <1>2, <1>3 DEF TypeOK, SameAncestry
    <2>3. resumed' \subseteq Nat
      BY <1>1, <1>4, RowFacts DEF TypeOK, Row
    <2> QED BY <1>2, <1>3, <2>1, <2>2, <2>3 DEF TypeOK
  <1>9. OneStack'
    BY <1>3, <1>5 DEF IInv, OneStack, OnStack
  <1>10. ParkedIsOff'
    BY <1>2, <1>6 DEF IInv, ParkedIsOff, SameAncestry
  <1>11. RootAtBottom'
    <2> SUFFICES ASSUME NEW m \in Legs, NEW i \in DOMAIN leg'[m].frames,
                        run'[leg'[m].frames[i].run].root \notin resumed'
                 PROVE  leg'[m].frames[1].run = run'[leg'[m].frames[i].run].root
      BY DEF RootAtBottom
    <2>1. CASE m = l
      BY <1>2, <1>3, <1>4, <2>1 DEF SameAncestry
    <2>2. CASE m # l
      <3>1. leg'[m] = leg[m] /\ leg[m].frames[i].run \in DOMAIN run
        BY <1>1, <1>3, <2>2 DEF TypeOK
      <3>2. run'[leg[m].frames[i].run].root = run[leg[m].frames[i].run].root
        BY <1>2, <3>1 DEF SameAncestry
      <3> QED BY <1>4, <3>1, <3>2 DEF IInv, RootAtBottom
    <2> QED BY <2>1, <2>2
  <1>12. DepthBounded'
    BY <1>2 DEF IInv, DepthBounded, SameAncestry
  <1>13. AllowanceSurvivesParking'
    <2> SUFFICES ASSUME NEW q \in DOMAIN run
                 PROVE  LET made == run[q].hop + Cardinality(Children(q)) IN
                        /\ \A m \in Legs : OnStack(m, q)' => made <= leg'[m].spent
                        /\ run'[q].status = "parked" => made <= run'[q].used
                        /\ made <= MaxTotal
      BY <1>2, <1>7 DEF AllowanceSurvivesParking, SameAncestry
    <2>1. CASE q = r
      BY <1>2, <1>3, <1>4, <1>6, <2>1 DEF IInv, AllowanceSurvivesParking
    <2>2. CASE q # r
      BY <1>2, <1>6, <2>2 DEF IInv, AllowanceSurvivesParking
    <2> QED BY <2>1, <2>2
  <1>14. TotalUnlessResumed'
    <2> SUFFICES ASSUME NEW q \in Roots \ resumed'
                 PROVE  LET made == Cardinality(Delegated(q)) IN
                        /\ \A m \in Legs : OnStack(m, q)' => made <= leg'[m].spent
                        /\ made <= MaxTotal
      BY <1>7, <1>a DEF TotalUnlessResumed, Roots
    <2>1. q \in DOMAIN run /\ q # r
      BY <1>4 DEF IInv, RootsNameThemselves, Roots
    <2> QED BY <1>4, <1>6, <2>1 DEF IInv, TotalUnlessResumed
  <1>b. CallersMayGoOn'
    BY <1>3 DEF IInv, CallersMayGoOn
  <1> QED BY <1>a, <1>b, <1>8, <1>9, <1>10, <1>11, <1>12, <1>13, <1>14 DEF IInv

\* What Delegate does to the stacks: run k is put on top of task l's.
LEMMA DelegatePushes ==
    ASSUME TypeOK, NEW l \in Legs, NEW k, k = Len(run) + 1, Delegate(l)
    PROVE  /\ leg' \in [Legs -> LegSlot]
           /\ \A m \in Legs \ {l} : leg'[m] = leg[m]
           /\ Height(l) \in Nat \ {0} /\ DOMAIN leg[l].frames = 1 .. Height(l)
           /\ DOMAIN leg'[l].frames = 1 .. Height(l) + 1
           /\ \A i \in 1 .. Height(l) : leg'[l].frames[i] = leg[l].frames[i]
           /\ leg'[l].frames[Height(l) + 1].run = k
           /\ leg'[l].spent = leg[l].spent + 1
           /\ \A m \in Legs : \A i \in DOMAIN leg'[m].frames :
                 \/ m = l /\ i = Height(l) + 1
                 \/ /\ i \in DOMAIN leg[m].frames /\ (m = l => i \in 1 .. Height(l))
                    /\ leg'[m].frames[i].run = leg[m].frames[i].run
  <1> DEFINE fs == Append(leg[l].frames, Frame(k))
             slot == [leg[l] EXCEPT !.spent = leg[l].spent + 1, !.frames = fs]
  <1>1. /\ leg[l] \in LegSlot /\ leg[l].frames \in Seq(FrameType) /\ leg[l].spent \in Nat
        /\ Height(l) \in Nat /\ DOMAIN leg[l].frames = 1 .. Height(l)
    BY StackFacts
  <1>2. Height(l) > 0
    BY StackFacts DEF Delegate, Working
  <1>3. Frame(k) \in FrameType /\ Frame(k).run = k
    BY RowFacts, DelegationAssumption DEF Frame, FrameType
  <1>4. /\ fs \in Seq(FrameType) /\ Len(fs) = Height(l) + 1
        /\ \A i \in 1 .. Height(l) : fs[i] = leg[l].frames[i]
        /\ fs[Height(l) + 1] = Frame(k)
    BY <1>1, <1>3, AppendProperties DEF Height
  <1>5. DOMAIN fs = 1 .. Height(l) + 1
    BY <1>4, LenProperties
  <1>6. leg' = [leg EXCEPT ![l] = slot]
    BY DEF Delegate, TypeOK, LegSlot
  <1> HIDE DEF fs
  <1>7. slot \in LegSlot /\ slot.frames = fs /\ slot.spent = leg[l].spent + 1
    <2>1. fs \in Seq([run : Nat \ {0}, refused : 0 .. MaxRefusals])
      BY <1>4 DEF FrameType
    <2>2. leg[l].spent + 1 \in Nat
      BY <1>1
    <2> QED BY <1>1, <2>1, <2>2 DEF LegSlot
  <1> HIDE DEF slot
  <1>8. leg' \in [Legs -> LegSlot] /\ leg'[l] = slot /\ \A m \in Legs \ {l} : leg'[m] = leg[m]
    BY <1>6, <1>7 DEF TypeOK
  <1>9. PICK h : h = Height(l)
    OBVIOUS
  <1>10. ASSUME NEW m \in Legs, NEW i \in DOMAIN leg'[m].frames
         PROVE  \/ m = l /\ i = h + 1
                \/ /\ i \in DOMAIN leg[m].frames /\ (m = l => i \in 1 .. h)
                   /\ leg'[m].frames[i].run = leg[m].frames[i].run
    <2>1. CASE m # l
      BY <1>8, <2>1
    <2>2. CASE m = l
      <3>1. i \in 1 .. h + 1 /\ DOMAIN leg[m].frames = 1 .. h /\ h \in Nat
        BY <1>1, <1>5, <1>7, <1>8, <1>9, <2>2
      <3>2. i \in 1 .. h => leg'[m].frames[i].run = leg[m].frames[i].run
        BY <1>4, <1>7, <1>8, <1>9, <2>2
      <3>3. i \in 1 .. h \/ i = h + 1
        BY <3>1
      <3> QED BY <2>2, <3>1, <3>2, <3>3
    <2> QED BY <2>1, <2>2
  <1> QED BY <1>1, <1>2, <1>3, <1>4, <1>5, <1>7, <1>8, <1>9, <1>10

\* One hand-off more for the run at work and for its chain, one more on the
\* counter of the task that holds both: by OneStack no other counter is theirs.
LEMMA DelegateKeeps ==
    ASSUME IInv, NEW l \in Legs, Delegate(l)
    PROVE  IInv'
  <1>0. PICK k : k = Len(run) + 1
    OBVIOUS
  <1>1. PICK p, n, ro : p = Top(l).run /\ n = leg[l].spent + 1 /\ ro = run[p].root
    OBVIOUS
  <1> DEFINE child == [status |-> "running", parent |-> p, root |-> ro,
                       depth |-> run[p].depth + 1, used |-> n, hop |-> n]
  <1>2. /\ TypeOK /\ k \in Nat \ {0} /\ k \notin DOMAIN run /\ DOMAIN run = 1 .. Len(run)
        /\ \A r \in DOMAIN run : run[r] \in Row
    BY <1>0, RowFacts DEF IInv
  <1>3. /\ p \in DOMAIN run /\ p \in Nat \ {0} /\ run[p] \in Row /\ ro \in 1 .. p
        /\ leg[l].spent \in Nat /\ n \in Nat
    BY <1>1, <1>2, StackFacts DEF Delegate, Working, TypeOK
  <1>4. child \in Row
    BY <1>1, <1>3 DEF Row
  <1>5. Adds(child)
    <2>1. run' = Append(run, child)
      BY <1>1 DEF Delegate
    <2> QED BY <1>2, <1>4, <2>1, AppendRow
  <1>6. /\ child.status = "running" /\ child.parent = p /\ child.root = ro
        /\ child.depth = run[p].depth + 1 /\ child.hop = n
    OBVIOUS
  <1> HIDE DEF child
  <1>7. /\ DOMAIN run' = DOMAIN run \cup {k} /\ run'[k] = child
        /\ \A r \in DOMAIN run : run'[r] = run[r]
    BY <1>0, <1>5 DEF Adds
  <1>8. /\ leg' \in [Legs -> LegSlot]
        /\ \A m \in Legs \ {l} : leg'[m] = leg[m]
        /\ Height(l) \in Nat \ {0} /\ DOMAIN leg[l].frames = 1 .. Height(l)
        /\ DOMAIN leg'[l].frames = 1 .. Height(l) + 1
        /\ \A i \in 1 .. Height(l) : leg'[l].frames[i] = leg[l].frames[i]
        /\ leg'[l].frames[Height(l) + 1].run = k
        /\ leg'[l].spent = n
    BY <1>0, <1>1, <1>2, DelegatePushes
  <1>p. \A m \in Legs : \A i \in DOMAIN leg'[m].frames :
           \/ m = l /\ i = Height(l) + 1
           \/ /\ i \in DOMAIN leg[m].frames /\ (m = l => i \in 1 .. Height(l))
              /\ leg'[m].frames[i].run = leg[m].frames[i].run
    BY <1>0, <1>2, DelegatePushes
  <1>s. \A m \in Legs : leg[m].spent \in Nat /\ leg[m].spent <= leg'[m].spent
    <2>1. \A m \in Legs : leg[m].spent \in Nat
      BY <1>2, StackFacts
    <2>2. leg[l].spent <= n
      BY <1>1, <1>3
    <2> QED BY <1>8, <2>1, <2>2
  <1>9. resumed' = resumed /\ run[p].depth < MaxDepth /\ n <= MaxTotal
    <2>1. ~(run[p].depth >= MaxDepth) /\ ~(leg[l].spent >= MaxTotal)
      BY <1>1 DEF Delegate, Capped
    <2>2. resumed' = resumed
      BY DEF Delegate
    <2>3. run[p].depth \in Nat
      BY <1>3 DEF Row
    <2> QED BY <1>1, <1>3, <2>1, <2>2, <2>3, DelegationAssumption
  <1>10. \A m \in Legs : \A i \in DOMAIN leg[m].frames : leg[m].frames[i].run \in DOMAIN run
    BY <1>2 DEF TypeOK
  <1>11. leg[l].frames[Height(l)].run = p /\ OnStack(l, p)
    BY <1>1, <1>8 DEF OnStack, Top
  <1>12. \A m \in Legs, r \in DOMAIN run : OnStack(m, r)' => OnStack(m, r)
    <2> SUFFICES ASSUME NEW m \in Legs, NEW r \in DOMAIN run,
                        NEW i \in DOMAIN leg'[m].frames, leg'[m].frames[i].run = r
                 PROVE  OnStack(m, r)
      BY DEF OnStack
    <2> QED BY <1>2, <1>8, <1>p DEF OnStack
  <1>13. \A m \in Legs : OnStack(m, k)' => m = l
    BY <1>2, <1>10, <1>p DEF OnStack
  <1>14. \A m \in Legs, r \in DOMAIN run : OnStack(l, r) /\ OnStack(m, r) => m = l
    BY DEF IInv, OneStack, OnStack
  <1>15. /\ Children(p)' = Children(p) \cup {k} /\ Children(k)' = {}
         /\ \A r \in DOMAIN run \ {p} : Children(r)' = Children(r)
    <2>1. \A c \in DOMAIN run : run[c].parent # k
      <3>1. \A c \in DOMAIN run : run[c].parent \in Nat /\ run[c].parent < c /\ c \in 1 .. Len(run)
        BY <1>2 DEF TypeOK, Row
      <3> QED BY <1>0, <1>2, <3>1
    <2> QED BY <1>2, <1>3, <1>6, <1>7, <2>1 DEF Children
  <1>16. /\ Delegated(ro)' = Delegated(ro) \cup {k}
         /\ \A r \in DOMAIN run \ {ro} : Delegated(r)' = Delegated(r)
    BY <1>2, <1>3, <1>6, <1>7 DEF Delegated
  <1>17. Roots' = Roots /\ RootsNameThemselves'
    <2>1. Roots' = Roots
      BY <1>2, <1>3, <1>6, <1>7 DEF Roots
    <2> QED BY <1>7, <2>1 DEF IInv, RootsNameThemselves, Roots
  <1>18. TypeOK'
    <2>1. \A r \in DOMAIN run' : run'[r].parent < r /\ run'[r].root \in 1 .. r
      BY <1>0, <1>2, <1>3, <1>6, <1>7 DEF TypeOK
    <2>2. ASSUME NEW m \in Legs, NEW i \in DOMAIN leg'[m].frames
          PROVE  leg'[m].frames[i].run \in DOMAIN run'
      BY <1>7, <1>8, <1>10, <1>p
    <2>3. run' \in Seq(Row) /\ resumed' \subseteq Nat
      BY <1>2, <1>5, <1>9 DEF Adds, TypeOK
    <2> QED BY <1>8, <2>1, <2>2, <2>3 DEF TypeOK
  <1>19. OneStack'
    <2> SUFFICES ASSUME NEW m \in Legs, NEW q \in Legs,
                        NEW i \in DOMAIN leg'[m].frames, NEW j \in DOMAIN leg'[q].frames,
                        leg'[m].frames[i].run = leg'[q].frames[j].run
                 PROVE  m = q /\ i = j
      BY DEF OneStack
    <2>1. \A o \in Legs : \A h \in DOMAIN leg'[o].frames :
            \/ o = l /\ h = Height(l) + 1 /\ leg'[o].frames[h].run = k
            \/ /\ h \in DOMAIN leg[o].frames /\ leg'[o].frames[h].run = leg[o].frames[h].run
               /\ leg'[o].frames[h].run # k
      BY <1>2, <1>8, <1>10, <1>p
    <2>2. CASE m = l /\ i = Height(l) + 1 /\ leg'[m].frames[i].run = k
      BY <2>1, <2>2
    <2>3. CASE i \in DOMAIN leg[m].frames /\ leg'[m].frames[i].run = leg[m].frames[i].run
               /\ leg'[m].frames[i].run # k
      <3>1. j \in DOMAIN leg[q].frames /\ leg'[q].frames[j].run = leg[q].frames[j].run
        BY <2>1, <2>3
      <3>2. leg[m].frames[i].run = leg[q].frames[j].run
        BY <2>3, <3>1
      <3> QED BY <2>3, <3>1, <3>2 DEF IInv, OneStack
    <2> QED BY <2>1, <2>2, <2>3
  <1>20. ParkedIsOff'
    BY <1>6, <1>7, <1>12 DEF IInv, ParkedIsOff
  <1>21. RootAtBottom'
    <2> SUFFICES ASSUME NEW m \in Legs, NEW i \in DOMAIN leg'[m].frames,
                        run'[leg'[m].frames[i].run].root \notin resumed
                 PROVE  leg'[m].frames[1].run = run'[leg'[m].frames[i].run].root
      BY <1>9 DEF RootAtBottom
    <2>1. CASE m # l
      BY <1>7, <1>8, <1>10, <2>1 DEF IInv, RootAtBottom
    <2>2. CASE m = l /\ i \in 1 .. Height(l)
      <3>1. /\ i \in DOMAIN leg[l].frames /\ leg[l].frames[i].run \in DOMAIN run
            /\ leg'[l].frames[i].run = leg[l].frames[i].run
        BY <1>8, <1>10, <2>2
      <3>2. run[leg[l].frames[i].run].root \notin resumed
        BY <1>7, <2>2, <3>1
      <3>3. leg[l].frames[1].run = run[leg[l].frames[i].run].root
        BY <3>1, <3>2 DEF IInv, RootAtBottom
      <3>4. leg'[l].frames[1].run = leg[l].frames[1].run
        BY <1>8
      <3> QED BY <1>7, <2>2, <3>1, <3>3, <3>4
    <2>3. CASE m = l /\ i = Height(l) + 1
      <3>1. run'[leg'[m].frames[i].run].root = ro /\ ro \notin resumed
        BY <1>6, <1>7, <1>8, <2>3
      <3>2. leg[l].frames[1].run = ro
        <4>1. Height(l) \in DOMAIN leg[l].frames
          BY <1>8
        <4> QED BY <1>1, <1>11, <3>1, <4>1 DEF IInv, RootAtBottom
      <3> QED BY <1>8, <2>3, <3>1, <3>2
    <2> QED BY <1>p, <2>1, <2>2, <2>3
  <1>22. DepthBounded'
    BY <1>3, <1>6, <1>7, <1>9, DelegationAssumption DEF IInv, DepthBounded, Row
  <1>23. AllowanceSurvivesParking'
    <2>1. LET made == run'[k].hop + Cardinality(Children(k)') IN
          /\ \A m \in Legs : OnStack(m, k)' => made <= leg'[m].spent
          /\ run'[k].status = "parked" => made <= run'[k].used
          /\ made <= MaxTotal
      <3>1. run'[k].hop + Cardinality(Children(k)') = n
        BY <1>3, <1>6, <1>7, <1>15, FS_EmptySet
      <3>2. \A m \in Legs : OnStack(m, k)' => leg'[m].spent = n
        BY <1>8, <1>13
      <3> QED BY <1>3, <1>6, <1>7, <1>9, <3>1, <3>2
    <2>2. LET made == run'[p].hop + Cardinality(Children(p)') IN
          /\ \A m \in Legs : OnStack(m, p)' => made <= leg'[m].spent
          /\ run'[p].status = "parked" => made <= run'[p].used
          /\ made <= MaxTotal
      <3> DEFINE old == run[p].hop + Cardinality(Children(p))
      <3>1. run'[p].hop + Cardinality(Children(p)') = old + 1 /\ old \in Nat
        <4>1. IsFiniteSet(Children(p)) /\ Cardinality(Children(p)) \in Nat /\ run[p].hop \in Nat
          BY <1>2, <1>3, CountsAreNat
        <4>2. k \notin Children(p)
          BY <1>2 DEF Children
        <4>3. Cardinality(Children(p)') = Cardinality(Children(p)) + 1
          BY <1>15, <4>1, <4>2, FS_AddElement
        <4>4. run'[p].hop = run[p].hop
          BY <1>3, <1>7
        <4> QED BY <4>1, <4>3, <4>4
      <3>2. old <= leg[l].spent
        BY <1>3, <1>11 DEF IInv, AllowanceSurvivesParking
      <3> HIDE DEF old
      <3>3. old + 1 <= n
        BY <1>1, <1>3, <3>1, <3>2
      <3>4. \A m \in Legs : OnStack(m, p)' => leg'[m].spent = n
        BY <1>3, <1>8, <1>11, <1>12, <1>14
      <3>5. run'[p].status # "parked"
        BY <1>3, <1>7, <1>11 DEF IInv, ParkedIsOff
      <3> QED BY <1>3, <1>9, <3>1, <3>3, <3>4, <3>5, DelegationAssumption
    <2>3. ASSUME NEW r \in DOMAIN run \ {p}
          PROVE  LET made == run'[r].hop + Cardinality(Children(r)') IN
                 /\ \A m \in Legs : OnStack(m, r)' => made <= leg'[m].spent
                 /\ run'[r].status = "parked" => made <= run'[r].used
                 /\ made <= MaxTotal
      <3>1. run'[r] = run[r] /\ Children(r)' = Children(r)
        BY <1>7, <1>15, <2>3
      <3>2. \A m \in Legs : leg[m].spent \in Nat /\ leg[m].spent <= leg'[m].spent
        BY <1>s
      <3>3. \A m \in Legs : leg'[m].spent \in Nat
        BY <1>8 DEF LegSlot
      <3> DEFINE made == run[r].hop + Cardinality(Children(r))
      <3>4. made \in Nat
        BY <1>2, <2>3, CountsAreNat
      <3>5. /\ \A m \in Legs : OnStack(m, r) => made <= leg[m].spent
            /\ run[r].status = "parked" => made <= run[r].used
            /\ made <= MaxTotal
        BY <2>3 DEF IInv, AllowanceSurvivesParking
      <3> HIDE DEF made
      <3>6. \A m \in Legs : OnStack(m, r)' => made <= leg'[m].spent
        BY <1>12, <2>3, <3>2, <3>3, <3>4, <3>5
      <3> QED BY <3>1, <3>5, <3>6 DEF made
    <2> QED BY <1>7, <2>1, <2>2, <2>3 DEF AllowanceSurvivesParking
  <1>24. TotalUnlessResumed'
    <2> SUFFICES ASSUME NEW r \in Roots \ resumed
                 PROVE  LET made == Cardinality(Delegated(r)') IN
                        /\ \A m \in Legs : OnStack(m, r)' => made <= leg'[m].spent
                        /\ made <= MaxTotal
      BY <1>9, <1>17 DEF TotalUnlessResumed
    <2>0. r \in DOMAIN run
      BY DEF Roots
    <2> DEFINE old == Cardinality(Delegated(r))
    <2>1. /\ old \in Nat /\ IsFiniteSet(Delegated(r))
      BY <1>2, <2>0, CountsAreNat
    <2>2. /\ \A m \in Legs : OnStack(m, r) => old <= leg[m].spent
          /\ old <= MaxTotal
      BY DEF IInv, TotalUnlessResumed
    <2>3. CASE r = ro
      <3>1. k \notin Delegated(ro)
        BY <1>2 DEF Delegated
      <3>2. Cardinality(Delegated(r)') = old + 1
        BY <1>16, <2>1, <2>3, <3>1, FS_AddElement
      <3>3. OnStack(l, ro)
        <4>1. Height(l) \in DOMAIN leg[l].frames /\ 1 \in DOMAIN leg[l].frames
          BY <1>8
        <4>2. leg[l].frames[1].run = ro
          BY <1>1, <1>11, <2>3, <4>1 DEF IInv, RootAtBottom
        <4> QED BY <4>1, <4>2 DEF OnStack
      <3> HIDE DEF old
      <3>4. old + 1 <= n
        BY <1>1, <1>3, <2>1, <2>2, <2>3, <3>3
      <3>5. \A m \in Legs : OnStack(m, ro)' => leg'[m].spent = n
        BY <1>8, <1>12, <1>14, <2>0, <2>3, <3>3
      <3> QED BY <1>3, <1>9, <2>1, <2>3, <3>2, <3>4, <3>5, DelegationAssumption
    <2>4. CASE r # ro
      <3>1. Cardinality(Delegated(r)') = old
        BY <1>16, <2>0, <2>4
      <3>2. \A m \in Legs : /\ leg[m].spent \in Nat /\ leg[m].spent <= leg'[m].spent
                            /\ leg'[m].spent \in Nat
        BY <1>8, <1>s DEF LegSlot
      <3> HIDE DEF old
      <3>3. \A m \in Legs : OnStack(m, r)' => old <= leg'[m].spent
        BY <1>12, <2>0, <2>1, <2>2, <3>2
      <3> QED BY <2>2, <3>1, <3>3
    <2> QED BY <2>3, <2>4
  <1>25. CallersMayGoOn'
    <2> SUFFICES ASSUME NEW m \in Legs, NEW i \in DOMAIN leg'[m].frames,
                        i + 1 \in DOMAIN leg'[m].frames
                 PROVE  leg'[m].frames[i].refused < MaxRefusals
      BY DEF CallersMayGoOn
    <2>1. CASE m # l
      BY <1>8, <2>1 DEF IInv, CallersMayGoOn
    <2>2. CASE m = l
      <3>1. PICK h : h = Height(l)
        OBVIOUS
      <3>2. i \in 1 .. h + 1 /\ i + 1 \in 1 .. h + 1 /\ h \in Nat \ {0}
        BY <1>8, <2>2, <3>1
      <3>3. i \in 1 .. h /\ leg'[m].frames[i] = leg[l].frames[i]
        BY <1>8, <2>2, <3>1, <3>2
      <3>4. CASE i = h
        <4>1. leg[l].frames[h].refused < MaxRefusals
          BY <3>1 DEF Delegate, Working, Top
        <4> QED BY <3>3, <3>4, <4>1
      <3>5. CASE i # h
        <4>1. i \in DOMAIN leg[l].frames /\ i + 1 \in DOMAIN leg[l].frames
          BY <1>8, <3>1, <3>2, <3>5
        <4> QED BY <3>3, <4>1 DEF IInv, CallersMayGoOn
      <3> QED BY <3>4, <3>5
    <2> QED BY <2>1, <2>2
  <1> QED BY <1>25, <1>17, <1>18, <1>19, <1>20, <1>21, <1>22, <1>23, <1>24 DEF IInv

------------------------------------------------------------------------------
(* The quiet actions                                                       *)

\* A task that does not move keeps its stack.
LEMMA SameSlotShrinks ==
    ASSUME TypeOK, NEW m \in Legs, leg'[m] = leg[m]
    PROVE  StackShrinks(m)
  <1>1. PICK h : h = Height(m)
    OBVIOUS
  <1>2. leg[m].spent \in Nat /\ DOMAIN leg[m].frames = 1 .. h /\ h \in Nat
    BY <1>1, StackFacts
  <1> QED BY <1>2 DEF StackShrinks

\* A task goes idle: it keeps no run.
LEMMA LeavesNothing ==
    ASSUME TypeOK, NEW l \in Legs, leg' = [leg EXCEPT ![l] = IdleLeg]
    PROVE  /\ leg' \in [Legs -> LegSlot] /\ StacksShrink
           /\ \A r \in DOMAIN run : ~OnStack(l, r)'
           /\ \A m \in Legs \ {l}, r \in DOMAIN run : OnStack(m, r)' => OnStack(m, r)
  <1>1. /\ leg' \in [Legs -> LegSlot] /\ DOMAIN leg'[l].frames = {}
        /\ \A m \in Legs \ {l} : leg'[m] = leg[m]
    BY SlotTypes DEF TypeOK
  <1>2. StacksShrink
    <2>1. StackShrinks(l)
      BY <1>1 DEF StackShrinks
    <2> QED BY <1>1, <2>1, SameSlotShrinks DEF StacksShrink
  <1> QED BY <1>1, <1>2 DEF OnStack

\* The top run is taken off, or was the only one and the task goes idle.
LEMMA ReturnPops ==
    ASSUME TypeOK, CallersMayGoOn, OneStack, NEW l \in Legs, Busy(l),
           NEW ok \in BOOLEAN, Return(l, ok), NEW t, t = Top(l).run
    PROVE  /\ leg' \in [Legs -> LegSlot] /\ StacksShrink
           /\ \A m \in Legs : ~OnStack(m, t)'
  <1>1. PICK n : n = Height(l)
    OBVIOUS
  <1>2. /\ leg[l] \in LegSlot /\ leg[l].spent \in Nat
        /\ n \in Nat \ {0} /\ DOMAIN leg[l].frames = 1 .. n
        /\ \A i \in 1 .. n : leg[l].frames[i] \in FrameType
        /\ t \in DOMAIN run /\ leg[l].frames[n].run = t
    BY <1>1, StackFacts DEF Top
  <1>3. \A m \in Legs \ {l} : ~OnStack(m, t)
    BY <1>2 DEF OneStack, OnStack
  <1>4. CASE n = 1
    <2>1. leg' = [leg EXCEPT ![l] = IdleLeg]
      BY <1>1, <1>4 DEF Return
    <2> QED BY <1>2, <1>3, <2>1, LeavesNothing
  <1>5. CASE n # 1
    <2> DEFINE fs == [i \in 1 .. n - 1 |->
                        IF i = n - 1 THEN Count(leg[l].frames[i], ok) ELSE leg[l].frames[i]]
               slot == [leg[l] EXCEPT !.frames = fs]
    <2>1. /\ fs \in Seq([run : Nat \ {0}, refused : 0 .. MaxRefusals])
          /\ DOMAIN fs = 1 .. n - 1
          /\ \A i \in 1 .. n - 1 :
                /\ fs[i].run = leg[l].frames[i].run
                /\ i # n - 1 => fs[i].refused = leg[l].frames[i].refused
      <3>1. ASSUME NEW i \in 1 .. n - 1
            PROVE  /\ fs[i] \in FrameType /\ fs[i].run = leg[l].frames[i].run
                   /\ i # n - 1 => fs[i].refused = leg[l].frames[i].refused
        <4>1. i \in 1 .. n /\ i + 1 \in 1 .. n
          BY <1>2
        <4>2. leg[l].frames[i] \in FrameType /\ leg[l].frames[i].refused < MaxRefusals
          BY <1>2, <4>1 DEF CallersMayGoOn
        <4>3. /\ Count(leg[l].frames[i], ok) \in FrameType
              /\ Count(leg[l].frames[i], ok).run = leg[l].frames[i].run
          BY <4>2, DelegationAssumption DEF Count, FrameType
        <4> QED BY <4>2, <4>3
      <3>2. fs \in [1 .. n - 1 -> FrameType]
        BY <3>1
      <3>3. fs \in Seq(FrameType)
        BY <1>2, <3>2, SeqDef
      <3> QED BY <3>1, <3>2, <3>3 DEF FrameType
    <2>2. leg' = [leg EXCEPT ![l] = slot]
      BY <1>1, <1>5 DEF Return, TypeOK, LegSlot
    <2> HIDE DEF fs
    <2>3. slot \in LegSlot /\ slot.frames = fs /\ slot.spent = leg[l].spent
      BY <1>2, <2>1 DEF LegSlot
    <2> HIDE DEF slot
    <2>4. leg' \in [Legs -> LegSlot] /\ leg'[l] = slot /\ \A m \in Legs \ {l} : leg'[m] = leg[m]
      BY <2>2, <2>3 DEF TypeOK
    <2>5. StacksShrink
      <3>1. StackShrinks(l)
        <4>1. leg'[l].frames = fs /\ leg'[l].spent = leg[l].spent /\ leg[l].spent \in Nat
          BY <1>2, <2>3, <2>4
        <4>2. DOMAIN fs \subseteq DOMAIN leg[l].frames /\ 1 \in DOMAIN fs
          BY <1>2, <1>5, <2>1
        <4>3. \A i \in DOMAIN fs : i + 1 \in DOMAIN fs => i # n - 1
          BY <1>2, <2>1
        <4> QED BY <2>1, <4>1, <4>2, <4>3 DEF StackShrinks
      <3> QED BY <2>4, <3>1, SameSlotShrinks DEF StacksShrink
    <2>6. ~OnStack(l, t)'
      <3> SUFFICES ASSUME NEW i \in DOMAIN leg'[l].frames, leg'[l].frames[i].run = t
                   PROVE  FALSE
        BY DEF OnStack
      <3>1. i \in 1 .. n - 1 /\ leg[l].frames[i].run = t
        BY <2>1, <2>3, <2>4
      <3> QED BY <1>2, <3>1 DEF OneStack
    <2> QED BY <1>3, <2>4, <2>5, <2>6 DEF OnStack
  <1> QED BY <1>2, <1>4, <1>5

\* The run at work stays and its refusals, or the task's count, go up.
LEMMA RefusalCounts ==
    ASSUME TypeOK, NEW l \in Legs, Working(l), NEW n \in Nat, leg[l].spent <= n,
           leg' = [leg EXCEPT ![l] = [leg[l] EXCEPT !.spent = n,
                     !.frames = [leg[l].frames EXCEPT ![Height(l)] = Count(Top(l), FALSE)]]]
    PROVE  leg' \in [Legs -> LegSlot] /\ StacksShrink
  <1>1. PICK h, c : h = Height(l) /\ c = Count(Top(l), FALSE)
    OBVIOUS
  <1> DEFINE fs == [leg[l].frames EXCEPT ![h] = c]
             slot == [leg[l] EXCEPT !.spent = n, !.frames = fs]
  <1>2. /\ leg[l] \in LegSlot /\ leg[l].frames \in Seq(FrameType)
        /\ h \in Nat \ {0} /\ DOMAIN leg[l].frames = 1 .. h /\ h = Len(leg[l].frames)
        /\ Top(l) = leg[l].frames[h] /\ Top(l) \in FrameType
    BY <1>1, StackFacts DEF Working, Top, Height
  <1>3. c \in FrameType /\ c.run = Top(l).run
    <2>1. Top(l).refused < MaxRefusals
      BY DEF Working
    <2>2. c = [Top(l) EXCEPT !.refused = @ + 1]
      BY <1>1 DEF Count
    <2>3. PICK t : t = Top(l)
      OBVIOUS
    <2>4. t \in FrameType
      BY <1>2, <2>3
    <2>5. t.refused < MaxRefusals /\ c = [t EXCEPT !.refused = t.refused + 1]
      BY <2>1, <2>2, <2>3
    <2>6. c \in FrameType /\ c.run = t.run
      BY <2>4, <2>5, DelegationAssumption DEF FrameType
    <2> QED BY <2>3, <2>6
  <1>4. /\ fs \in Seq(FrameType) /\ DOMAIN fs = 1 .. h
        /\ \A i \in 1 .. h : fs[i] = IF i = h THEN c ELSE leg[l].frames[i]
    <2>1. h \in 1 .. Len(leg[l].frames)
      BY <1>2
    <2>2. fs \in Seq(FrameType)
      BY <1>2, <1>3, <2>1, ExceptSeq
    <2> QED BY <1>2, <2>2
  <1>5. \A i \in 1 .. h : /\ fs[i].run = leg[l].frames[i].run
                          /\ i + 1 \in 1 .. h => fs[i].refused = leg[l].frames[i].refused
    <2> SUFFICES ASSUME NEW i \in 1 .. h
                 PROVE  /\ fs[i].run = leg[l].frames[i].run
                        /\ i + 1 \in 1 .. h => fs[i].refused = leg[l].frames[i].refused
      OBVIOUS
    <2>1. CASE i = h
      BY <1>2, <1>3, <1>4, <2>1
    <2>2. CASE i # h
      BY <1>4, <2>2
    <2> QED BY <2>1, <2>2
  <1>6. leg' = [leg EXCEPT ![l] = slot]
    BY <1>1
  <1>7. fs \in Seq([run : Nat \ {0}, refused : 0 .. MaxRefusals])
    BY <1>4 DEF FrameType
  <1> HIDE DEF fs
  <1>8. slot \in LegSlot /\ slot.frames = fs /\ slot.spent = n
    BY <1>2, <1>7 DEF LegSlot
  <1> HIDE DEF slot
  <1>9. leg' \in [Legs -> LegSlot] /\ leg'[l] = slot /\ \A m \in Legs \ {l} : leg'[m] = leg[m]
    BY <1>6, <1>8 DEF TypeOK
  <1>10. StacksShrink
    <2>1. StackShrinks(l)
      <3>1. leg'[l].frames = fs /\ leg[l].spent <= leg'[l].spent
        BY <1>8, <1>9
      <3>2. DOMAIN fs = DOMAIN leg[l].frames /\ 1 \in DOMAIN fs
        BY <1>2, <1>4
      <3>3. \A i \in DOMAIN fs : /\ fs[i].run = leg[l].frames[i].run
                                 /\ i + 1 \in DOMAIN fs => fs[i].refused = leg[l].frames[i].refused
        BY <1>4, <1>5
      <3> QED BY <3>1, <3>2, <3>3 DEF StackShrinks
    <2> QED BY <1>9, <2>1, SameSlotShrinks DEF StacksShrink
  <1> QED BY <1>9, <1>10

\* Nothing on a stack changes.
LEMMA StacksUnchanged ==
    ASSUME TypeOK, leg' = leg
    PROVE  leg' \in [Legs -> LegSlot] /\ StacksShrink
  BY SameSlotShrinks DEF StacksShrink, TypeOK

\* Nothing in a row changes.
LEMMA RowsUnchanged ==
    ASSUME TypeOK, run' = run
    PROVE  run' \in Seq(Row) /\ SameAncestry /\ ParksWithCount
  BY DEF TypeOK, SameAncestry, ParksWithCount

\* One row is given a status that is not "parked".
LEMMA RowEnds ==
    ASSUME TypeOK, NEW r \in DOMAIN run, run' = [run EXCEPT ![r].status = "ended"]
    PROVE  run' \in Seq(Row) /\ SameAncestry /\ ParksWithCount
  <1>1. run[r].used \in Nat
    BY CountsAreNat
  <1>2. /\ run' \in Seq(Row) /\ SameAncestry /\ run'[r].status = "ended"
        /\ \A q \in DOMAIN run \ {r} : run'[q] = run[q]
    BY <1>1, SetRow
  <1> QED BY <1>2 DEF ParksWithCount

LEMMA QuietActions ==
    ASSUME IInv
    PROVE  /\ \A l \in Legs : StartFails(l) \/ Refuse(l) => IInv'
           /\ \A l \in Legs : ChildRaises(l) \/ RootRaises(l) \/ LegDies(l) => IInv'
           /\ \A l \in Legs, s \in {"ended", "parked"} : End(l, s) => IInv'
           /\ \A l \in Legs : Deadline(l) => IInv'
           /\ \A r \in DOMAIN run : WriteOff(r) => IInv'
  <1>t. TypeOK /\ CallersMayGoOn /\ OneStack
    BY DEF IInv
  <1>1. ASSUME NEW l \in Legs, StartFails(l) \/ Refuse(l) PROVE IInv'
    <2>1. PICK n \in Nat : /\ leg[l].spent <= n
                           /\ leg' = [leg EXCEPT ![l] = [leg[l] EXCEPT !.spent = n,
                                !.frames = [leg[l].frames EXCEPT ![Height(l)] = Count(Top(l), FALSE)]]]
      <3>1. leg[l].spent \in Nat /\ leg[l] \in LegSlot
        BY <1>t, StackFacts
      <3>2. CASE StartFails(l)
        <4>1. leg[l].spent + 1 \in Nat /\ leg[l].spent <= leg[l].spent + 1
          BY <3>1
        <4>2. leg' = [leg EXCEPT ![l] = [leg[l] EXCEPT !.spent = leg[l].spent + 1,
                        !.frames = [leg[l].frames EXCEPT ![Height(l)] = Count(Top(l), FALSE)]]]
          BY <1>t, <3>1, <3>2 DEF StartFails, TypeOK, LegSlot, Top
        <4> QED BY <4>1, <4>2
      <3>3. CASE Refuse(l)
        <4>1. leg' = [leg EXCEPT ![l] = [leg[l] EXCEPT !.spent = leg[l].spent,
                        !.frames = [leg[l].frames EXCEPT ![Height(l)] = Count(Top(l), FALSE)]]]
          BY <1>t, <3>1, <3>3 DEF Refuse, TypeOK, LegSlot, Top
        <4>2. leg[l].spent <= leg[l].spent
          BY <3>1
        <4> QED BY <3>1, <4>1, <4>2
      <3> QED BY <1>1, <3>2, <3>3
    <2>2. Working(l) /\ run' = run /\ resumed' = resumed
      BY <1>1 DEF StartFails, Refuse
    <2>3. leg' \in [Legs -> LegSlot] /\ StacksShrink
      BY <1>t, <2>1, <2>2, RefusalCounts
    <2> QED BY <1>t, <2>2, <2>3, RowsUnchanged, QuietKeeps DEF Quiet
  <1>2. ASSUME NEW l \in Legs, ChildRaises(l) \/ RootRaises(l) \/ LegDies(l) PROVE IInv'
    <2>1. CASE ChildRaises(l)
      <3>1. Busy(l) /\ Return(l, FALSE) /\ run' = run /\ resumed' = resumed
        <4>1. Height(l) > 1 /\ Height(l) \in Nat /\ (Height(l) > 0 => Busy(l))
          BY <1>t, <2>1, StackFacts DEF ChildRaises
        <4>2. Busy(l)
          BY <4>1
        <4> QED BY <2>1, <4>2 DEF ChildRaises
      <3>2. leg' \in [Legs -> LegSlot] /\ StacksShrink
        BY <1>t, <3>1, ReturnPops
      <3> QED BY <1>t, <3>1, <3>2, RowsUnchanged, QuietKeeps DEF Quiet
    <2>2. CASE RootRaises(l)
      <3>1. leg' = [leg EXCEPT ![l] = IdleLeg] /\ resumed' = resumed
        BY <2>2 DEF RootRaises
      <3>2. Top(l).run \in DOMAIN run
        BY <1>t, <2>2, StackFacts DEF RootRaises
      <3>3. run' \in Seq(Row) /\ SameAncestry /\ ParksWithCount
        BY <1>t, <2>2, <3>2, RowsUnchanged, RowEnds DEF RootRaises
      <3> QED BY <1>t, <3>1, <3>3, LeavesNothing, QuietKeeps DEF Quiet
    <2>3. CASE LegDies(l)
      <3>1. leg' = [leg EXCEPT ![l] = IdleLeg] /\ run' = run /\ resumed' = resumed
        BY <2>3 DEF LegDies
      <3> QED BY <1>t, <3>1, RowsUnchanged, LeavesNothing, QuietKeeps DEF Quiet
    <2> QED BY <1>2, <2>1, <2>2, <2>3
  <1>3. ASSUME NEW l \in Legs, NEW s \in {"ended", "parked"}, End(l, s) PROVE IInv'
    <2>1. PICK t : t = Top(l).run
      OBVIOUS
    <2>2. /\ Busy(l) /\ Return(l, TRUE) /\ resumed' = resumed
          /\ run' = [run EXCEPT ![t].status = s, ![t].used = leg[l].spent]
      BY <1>3, <2>1 DEF End
    <2>3. t \in DOMAIN run /\ leg[l].spent \in Nat /\ OnStack(l, t)
      BY <1>t, <2>1, <2>2, StackFacts DEF OnStack, Top
    <2>4. /\ leg' \in [Legs -> LegSlot] /\ StacksShrink
          /\ \A m \in Legs : ~OnStack(m, t)'
      BY <1>t, <2>1, <2>2, ReturnPops
    <2>5. /\ run' \in Seq(Row) /\ SameAncestry
          /\ run'[t].status = s /\ run'[t].used = leg[l].spent
          /\ \A q \in DOMAIN run \ {t} : run'[q] = run[q]
      BY <1>t, <2>2, <2>3, SetRow
    <2>6. ParksWithCount
      BY <2>3, <2>4, <2>5 DEF ParksWithCount
    <2> QED BY <2>2, <2>4, <2>5, <2>6, QuietKeeps DEF Quiet
  <1>4. ASSUME NEW l \in Legs, Deadline(l) PROVE IInv'
    <2>1. /\ leg' = [leg EXCEPT ![l].late = TRUE] /\ run' = run /\ resumed' = resumed
      BY <1>4 DEF Deadline
    <2>2. leg' \in [Legs -> LegSlot] /\ StacksShrink
      <3>1. \A m \in Legs : /\ leg'[m].frames = leg[m].frames /\ leg'[m].spent = leg[m].spent
                            /\ leg'[m] \in LegSlot
        BY <1>t, <2>1 DEF TypeOK, LegSlot
      <3>2. leg' \in [Legs -> LegSlot]
        BY <1>t, <2>1, <3>1 DEF TypeOK
      <3>3. ASSUME NEW m \in Legs PROVE StackShrinks(m)
        <4>1. PICK h : h = Height(m)
          OBVIOUS
        <4>2. leg[m].spent \in Nat /\ DOMAIN leg[m].frames = 1 .. h /\ h \in Nat
          BY <1>t, <4>1, StackFacts
        <4>3. leg'[m].frames = leg[m].frames /\ leg[m].spent <= leg'[m].spent
          BY <3>1, <4>2
        <4> QED BY <4>2, <4>3 DEF StackShrinks
      <3> QED BY <3>2, <3>3 DEF StacksShrink
    <2> QED BY <1>t, <2>1, <2>2, RowsUnchanged, QuietKeeps DEF Quiet
  <1>5. ASSUME NEW r \in DOMAIN run, WriteOff(r) PROVE IInv'
    <2>1. leg' = leg /\ resumed' = resumed /\ run' = [run EXCEPT ![r].status = "ended"]
      BY <1>5 DEF WriteOff
    <2> QED BY <1>t, <2>1, StacksUnchanged, RowEnds, QuietKeeps DEF Quiet
  <1> QED BY <1>1, <1>2, <1>3, <1>4, <1>5

------------------------------------------------------------------------------
(* Theorems                                                                *)

LEMMA Initially == Init => IInv
  <1> SUFFICES ASSUME Init PROVE IInv
    OBVIOUS
  <1>1. run = <<>> /\ DOMAIN run = {} /\ run \in Seq(Row) /\ resumed = {}
    BY DEF Init
  <1>2. leg \in [Legs -> LegSlot] /\ \A l \in Legs : DOMAIN leg[l].frames = {}
    BY SlotTypes DEF Init
  <1> QED BY <1>1, <1>2 DEF IInv, TypeOK, CallersMayGoOn, RootsNameThemselves, Roots, OneStack,
          ParkedIsOff, RootAtBottom, DepthBounded, AllowanceSurvivesParking, TotalUnlessResumed

LEMMA Inductive == IInv /\ [Next]_vars => IInv'
  <1> SUFFICES ASSUME IInv, [Next]_vars PROVE IInv'
    OBVIOUS
  <1>1. ASSUME NEW l \in Legs, StartTurn(l) PROVE IInv'
    BY <1>1, StartKeeps
  <1>2. ASSUME NEW l \in Legs, LegGoesOn(l) PROVE IInv'
    BY <1>2, DelegateKeeps, QuietActions DEF LegGoesOn
  <1>3. ASSUME NEW l \in Legs, LegDies(l) \/ Deadline(l) PROVE IInv'
    BY <1>3, QuietActions
  <1>4. ASSUME NEW l \in Legs, NEW r \in DOMAIN run, Resume(l, r) PROVE IInv'
    BY <1>4, ResumeKeeps
  <1>5. ASSUME NEW r \in DOMAIN run, WriteOff(r) PROVE IInv'
    BY <1>5, QuietActions
  <1>6. CASE UNCHANGED vars
    <2>1. TypeOK /\ run' = run /\ leg' = leg /\ resumed' = resumed
      BY <1>6 DEF IInv, vars
    <2> QED BY <2>1, RowsUnchanged, StacksUnchanged, QuietKeeps DEF Quiet
  <1> QED BY <1>1, <1>2, <1>3, <1>4, <1>5, <1>6 DEF Next

LEMMA AlwaysIInv == Spec => []IInv
  BY Initially, Inductive, PTL DEF Spec

\* Rows, stacks and counts keep their types, and every frame names a row.
THEOREM DelegationTypeCorrect == Spec => []TypeOK
  <1>1. IInv => TypeOK
    BY DEF IInv
  <1> QED BY <1>1, AlwaysIInv, PTL

\* DELEGATION_MAX_DEPTH bounds how far any run is from the person who asked.
THEOREM NobodyIsTooDeep == Spec => []DepthBounded
  <1>1. IInv => DepthBounded
    BY DEF IInv
  <1> QED BY <1>1, AlwaysIInv, PTL

\* Two tasks never drive one run, and no run is on a stack twice: delegation
\* nests, and the claim of a parked run finds it on no stack.
THEOREM RunsAreDrivenOnce == Spec => []OneStack
  <1>1. IInv => OneStack
    BY DEF IInv
  <1> QED BY <1>1, AlwaysIInv, PTL

\* However often a run parks and is resumed, the count it is held to knows every
\* hand-off it has made, and it makes no more than DELEGATION_MAX_TOTAL.
THEOREM AllowanceIsNotRefilled == Spec => []AllowanceSurvivesParking
  <1>1. IInv => AllowanceSurvivesParking
    BY DEF IInv
  <1> QED BY <1>1, AlwaysIInv, PTL

\* A chain none of whose runs has been resumed keeps to DELEGATION_MAX_TOTAL.
THEOREM UnresumedKeepsTheTotal == Spec => []TotalUnlessResumed
  <1>1. IInv => TotalUnlessResumed
    BY DEF IInv
  <1> QED BY <1>1, AlwaysIInv, PTL
=============================================================================
