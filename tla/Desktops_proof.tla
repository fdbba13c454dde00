---------------------------- MODULE Desktops_proof ----------------------------
(* Theorems about a bot's desktop: the steps taken in its page (PageRefs),     *)
(* for any document, any number of changes to it, listings and restarts, and   *)
(* however much is remembered of them; and the computer the page is on         *)
(* (Desktop), for any number of requests, calls and faults and each of the     *)
(* three drivers. The two share no variable.                                   *)
EXTENDS PageRefs, Desktop, FiniteSetTheorems, SequenceTheorems, WellFoundedInduction, TLAPS

Shows == [Nodes -> Labels \cup {"none"}]
Page  == [doc : Nat, url : Urls, shows : Shows, changes : Nat, restarts : Nat]

\* An element as a listing gives it, a listing, and what the loop keeps of one.
Entry == [ref : Nat, node : Nodes, label : Labels]
Snap  == [id : Nat, doc : Nat, refs : SUBSET Entry]
Sheet == [id : Nat, life : Nat, url : Urls, refs : SUBSET [ref : Nat, label : Labels]]

Sidecar == [snaps : Seq(Snap), lastRef : Nat, lastSnap : Nat]

Step ==
    [pc       : {"idle", "reading", "read", "held", "looking", "looked", "calling", "aimed", "refused"},
     ref      : Nat,
     pin      : Nat,
     label    : Labels \cup {"none"},
     url      : Urls \cup {"none"},
     life     : Nat,
     approved : BOOLEAN,
     again    : BOOLEAN,
     node     : Nodes \cup {0},
     inputs   : Nat]

Look == [doc : Nat, shows : Shows, list : SUBSET Nodes, partial : BOOLEAN,
         missed : SUBSET Nodes]

TypeOK ==
    /\ page \in Page
    /\ sidecar \in Sidecar
    /\ memory \in Seq(Sheet)
    /\ step \in Step
    /\ look \in Look

------------------------------------------------------------------------------
\* The sidecar can take a reference for nothing but an element of that label.
Kept(ref, label) ==
    /\ ref <= sidecar.lastRef
    /\ \A s \in Range(sidecar.snaps) : \A e \in s.refs : e.ref = ref => e.label = label

\* References count up within a life of the sidecar; what a listing of this life
\* called an element, and what a step of this life was judged by, is kept.
Numbered == \A s \in Range(sidecar.snaps) : \A e \in s.refs : e.ref <= sidecar.lastRef

Recalled(s) ==
    /\ s.life <= page.restarts
    /\ s.life = page.restarts => \A r \in s.refs : Kept(r.ref, r.label)

Judged(s) ==
    /\ s.life <= page.restarts
    /\ s.label # "none" /\ s.life = page.restarts => Kept(s.ref, s.label)

Known ==
    /\ Numbered
    /\ \A i \in DOMAIN memory : Recalled(memory[i])
    /\ Judged(step)

\* A listing shows elements that bear a label; one made to look for a label holds
\* elements of that label, and all of them in the frames it did not miss unless it says
\* that it was cut short.
Bears(l, label) == {n \in Nodes \ l.missed : l.shows[n] = label}

Sees(s, l) ==
    /\ \A n \in l.list : l.shows[n] \in Labels
    /\ s.pc \in {"looking", "looked"} => s.label # "none"
    /\ s.pc = "looked" => /\ l.list \subseteq Bears(l, s.label)
                          /\ l.list # Bears(l, s.label) => l.partial

\* A step that goes on has put no input into the page.
OneInput(s) ==
    /\ s.inputs <= 1
    /\ s.pc # "idle" => s.inputs = 0

IInv == TypeOK /\ Known /\ Sees(step, look) /\ OneInput(step)

------------------------------------------------------------------------------
(* What the operators return.                                                *)

LEMMA NewestIs ==
  ASSUME NEW S, NEW s \in Seq(S), NEW x \in S, NEW k \in Nat \ {0}
  PROVE  /\ Newest(Append(s, x), k) \in Seq(S)
         /\ \A y \in Range(Newest(Append(s, x), k)) : y = x \/ y \in Range(s)
         /\ \A i \in DOMAIN Newest(Append(s, x), k) :
               Newest(Append(s, x), k)[i] = x \/ \E j \in DOMAIN s : Newest(Append(s, x), k)[i] = s[j]
<1> DEFINE a == Append(s, x)
           m == IF Len(a) > k THEN Len(a) - k + 1 ELSE 1
           b == SubSeq(a, m, Len(a))
<1>1. Newest(a, k) = b
  BY DEF Newest
<1>2. /\ Len(s) \in Nat /\ DOMAIN s = 1 .. Len(s) /\ Len(a) = Len(s) + 1
      /\ \A i \in 1 .. Len(s) : a[i] = s[i] /\ a[i] \in S
      /\ a[Len(s) + 1] = x
  BY AppendProperties, LenProperties, ElementOfSeq
<1>3. m \in Nat /\ 1 <= m /\ m <= Len(a)
  BY <1>2
<1> HIDE DEF a, m
<1>4. \A i \in m .. Len(a) : a[i] \in S /\ (a[i] = x \/ \E j \in DOMAIN s : a[i] = s[j])
  <2> TAKE i \in m .. Len(a)
  <2>1. i \in 1 .. Len(s) \/ i = Len(s) + 1
    BY <1>2, <1>3
  <2> QED
    BY <1>2, <2>1
<1>5. /\ b \in Seq(S) /\ Len(b) = Len(a) - m + 1
      /\ \A i \in 1 .. Len(a) - m + 1 : b[i] = a[m + i - 1]
  <2>1. m \in Int /\ Len(a) \in Int
    BY <1>2, <1>3
  <2> QED
    BY <1>3, <1>4, <2>1, SubSeqProperties
<1>6. \A i \in DOMAIN b : b[i] = x \/ \E j \in DOMAIN s : b[i] = s[j]
  <2> TAKE i \in DOMAIN b
  <2>1. i \in 1 .. Len(a) - m + 1
    BY <1>5, LenProperties
  <2>2. m + i - 1 \in m .. Len(a)
    BY <1>2, <1>3, <2>1
  <2> QED
    BY <1>4, <1>5, <2>1, <2>2
<1> HIDE DEF b
<1> USE DEF a
<1>7. \A y \in Range(b) : y = x \/ y \in Range(s)
  BY <1>6 DEF Range
<1> QED
  BY <1>1, <1>5, <1>6, <1>7

\* The place of a node among those of the listing.
Rank(n) == Cardinality({m \in look.list : m <= n})

LEMMA RanksAre ==
  ASSUME look.list \subseteq Nodes
  PROVE  /\ Cardinality(look.list) \in Nat
         /\ \A n \in look.list : Rank(n) \in Nat /\ 1 <= Rank(n) /\ Rank(n) <= Cardinality(look.list)
         /\ \A m, n \in look.list : Rank(m) = Rank(n) => m = n
<1>1. look.list \subseteq Nat /\ IsFiniteSet(look.list)
  BY PageRefsAssumption, FS_Subset
<1> DEFINE UpTo(n) == {m \in look.list : m <= n}
<1>2. \A n \in look.list : /\ IsFiniteSet(UpTo(n)) /\ Rank(n) = Cardinality(UpTo(n)) /\ Rank(n) \in Nat
                           /\ Rank(n) <= Cardinality(look.list)
  <2> TAKE n \in look.list
  <2>1. UpTo(n) \in SUBSET look.list
    OBVIOUS
  <2>2. IsFiniteSet(UpTo(n)) /\ Cardinality(UpTo(n)) <= Cardinality(look.list)
    BY <1>1, <2>1, FS_Subset
  <2> QED
    BY <2>2, FS_CardinalityType DEF Rank
<1>3. \A n \in look.list : Rank(n) # 0
  <2> TAKE n \in look.list
  <2>1. n \in UpTo(n)
    BY <1>1
  <2> QED
    BY <1>2, <2>1, FS_EmptySet
<1>4. ASSUME NEW m \in look.list, NEW n \in look.list, m < n PROVE Rank(m) < Rank(n)
  <2>1. n \notin UpTo(m) /\ UpTo(m) \cup {n} \in SUBSET UpTo(n)
    BY <1>1, <1>4
  <2>2. Cardinality(UpTo(m) \cup {n}) = Cardinality(UpTo(m)) + 1
    BY <1>2, <2>1, FS_AddElement
  <2>3. Cardinality(UpTo(m) \cup {n}) <= Cardinality(UpTo(n))
    BY <1>2, <2>1, FS_Subset
  <2> HIDE DEF UpTo
  <2> QED
    BY <1>2, <2>2, <2>3
<1>5. \A m, n \in look.list : Rank(m) = Rank(n) => m = n
  <2> SUFFICES ASSUME NEW m \in look.list, NEW n \in look.list, Rank(m) = Rank(n), m # n PROVE FALSE
    OBVIOUS
  <2>1. m < n \/ n < m
    BY <1>1
  <2>2. Rank(m) < Rank(n) \/ Rank(n) < Rank(m)
    BY <1>4, <2>1
  <2>3. Rank(m) \in Nat /\ Rank(n) \in Nat
    BY <1>2
  <2> HIDE DEF UpTo
  <2> QED
    BY <2>2, <2>3
<1>6. Cardinality(look.list) \in Nat
  BY <1>1, FS_CardinalityType
<1>7. \A n \in look.list : Rank(n) \in Nat /\ 1 <= Rank(n) /\ Rank(n) <= Cardinality(look.list)
  <2> TAKE n \in look.list
  <2>1. Rank(n) \in Nat /\ Rank(n) <= Cardinality(look.list) /\ Rank(n) # 0
    BY <1>2, <1>3
  <2> QED
    BY <2>1
<1> QED
  BY <1>5, <1>6, <1>7

\* A listing's references are past every other, and each is one element's.
LEMMA MintedIs ==
  ASSUME TypeOK, Sees(step, look)
  PROVE  /\ Minted \subseteq Entry
         /\ sidecar.lastRef + Cardinality(look.list) \in Nat
         /\ \A e \in Minted : /\ sidecar.lastRef < e.ref
                              /\ e.ref <= sidecar.lastRef + Cardinality(look.list)
                              /\ e.node \in look.list /\ e.label = look.shows[e.node]
         /\ \A e, f \in Minted : e.ref = f.ref => e = f
<1>1. sidecar.lastRef \in Nat /\ look.list \subseteq Nodes
  BY DEF TypeOK, Sidecar, Look
<1>2. Minted = {[ref |-> sidecar.lastRef + Rank(n), node |-> n, label |-> look.shows[n]] : n \in look.list}
  BY DEF Minted, Rank
<1>3. \A e \in Minted : /\ e.node \in look.list /\ e.ref = sidecar.lastRef + Rank(e.node)
                        /\ e.label = look.shows[e.node]
                        /\ e = [ref |-> e.ref, node |-> e.node, label |-> e.label]
  BY <1>2
<1>4. /\ Cardinality(look.list) \in Nat
      /\ \A n \in look.list : Rank(n) \in Nat /\ 1 <= Rank(n) /\ Rank(n) <= Cardinality(look.list)
      /\ \A m, n \in look.list : Rank(m) = Rank(n) => m = n
  BY <1>1, RanksAre
<1>5. \A n \in look.list : /\ sidecar.lastRef + Rank(n) \in Nat /\ sidecar.lastRef < sidecar.lastRef + Rank(n)
                           /\ sidecar.lastRef + Rank(n) <= sidecar.lastRef + Cardinality(look.list)
  BY <1>1, <1>4
<1>6. Minted \subseteq Entry
  BY <1>1, <1>2, <1>5 DEF Entry, Sees
<1>7. \A e, f \in Minted : e.ref = f.ref => e = f
  <2> SUFFICES ASSUME NEW e \in Minted, NEW f \in Minted, e.ref = f.ref PROVE e = f
    OBVIOUS
  <2>1. Rank(e.node) = Rank(f.node)
    <3>1. sidecar.lastRef + Rank(e.node) = sidecar.lastRef + Rank(f.node)
      BY <1>3
    <3>2. Rank(e.node) \in Nat /\ Rank(f.node) \in Nat
      BY <1>3, <1>4
    <3> QED
      BY <1>1, <3>1, <3>2
  <2>2. e.node = f.node
    BY <1>3, <1>4, <2>1
  <2> QED
    BY <1>3, <2>2
<1>8. sidecar.lastRef + Cardinality(look.list) \in Nat
  BY <1>1, <1>4
<1>9. \A e \in Minted : /\ sidecar.lastRef < e.ref
                        /\ e.ref <= sidecar.lastRef + Cardinality(look.list)
  BY <1>3, <1>5
<1> QED
  BY <1>3, <1>6, <1>7, <1>8, <1>9

\* Of the places of a sequence, one is the last.
LEMMA LastIs ==
  ASSUME NEW n \in Nat, NEW I \in SUBSET (1 .. n), I # {}
  PROVE  \E i \in I : \A j \in I : j <= i
<1> DEFINE T == {n - i : i \in I}
<1>1. T \subseteq Nat /\ T # {}
  <2>1. \A i \in I : n - i \in Nat
    OBVIOUS
  <2>2. PICK i : i \in I
    OBVIOUS
  <2>3. n - i \in T
    BY <2>2
  <2>4. T \subseteq Nat
    BY <2>1
  <2> QED
    BY <2>3, <2>4
<1> DEFINE R == OpToRel(<, Nat)
<1>2. \A x, y \in Nat : x < y => <<x, y>> \in R
  BY DEF OpToRel
<1>3. IsWellFoundedOn(R, Nat)
  BY NatLessThanWellFounded
<1> HIDE DEF T, R
<1>4. PICK x \in T : \A y \in T : <<y, x>> \notin R
  BY <1>1, <1>3, WFMin
<1>5. \A y \in T : x <= y
  <2> TAKE y \in T
  <2>1. x \in Nat /\ y \in Nat /\ ~(y < x)
    BY <1>1, <1>2, <1>4
  <2> QED
    BY <2>1
<1>6. PICK i \in I : x = n - i
  BY DEF T
<1>7. \A j \in I : n - i <= n - j
  BY <1>5, <1>6 DEF T
<1> QED
  BY <1>7

\* What is said of a reference is what the newest listing that had it said.
LEMMA AnnotatedIs ==
  ASSUME TypeOK, Known, NEW ref \in Nat
  PROVE  /\ Annotated(ref) \in Step /\ Judged(Annotated(ref))
         /\ Annotated(ref).inputs = 0 /\ Annotated(ref).pc = "idle"
<1> DEFINE known == {i \in DOMAIN memory : Remembers(memory[i], ref)}
<1>0. /\ NoStep \in Step /\ page.restarts \in Nat /\ sidecar.lastRef \in Nat
      /\ DOMAIN memory = 1 .. Len(memory) /\ Len(memory) \in Nat
      /\ \A i \in DOMAIN memory : memory[i] \in Sheet
  <2>1. NoStep \in Step
    BY DEF NoStep, Step
  <2> QED
    BY <2>1, LenProperties, ElementOfSeq DEF TypeOK, Page, Sidecar
<1>1. CASE known = {}
  <2>1. Annotated(ref) = [NoStep EXCEPT !.ref = ref]
    BY <1>1 DEF Annotated
  <2>2. [NoStep EXCEPT !.ref = ref] \in Step /\ [NoStep EXCEPT !.ref = ref].label = "none"
        /\ [NoStep EXCEPT !.ref = ref].life = 0
        /\ [NoStep EXCEPT !.ref = ref].inputs = 0 /\ [NoStep EXCEPT !.ref = ref].pc = "idle"
    BY DEF NoStep, Step
  <2> QED
    BY <1>0, <2>1, <2>2 DEF Judged
<1>2. CASE known # {}
  <2> DEFINE c == CHOOSE i \in known : \A j \in known : j <= i
             s == memory[c]
             r == CHOOSE q \in s.refs : q.ref = ref
  <2>1. c \in known
    <3>1. known \subseteq 1 .. Len(memory)
      BY <1>0
    <3>2. \E i \in known : \A j \in known : j <= i
      BY <1>0, <1>2, <3>1, LastIs
    <3> QED
      BY <3>2
  <2>2. s \in Sheet /\ Recalled(s) /\ Remembers(s, ref)
    BY <1>0, <2>1 DEF Known
  <2>3. r \in s.refs /\ r.ref = ref
    BY <2>2 DEF Remembers
  <2>4. Annotated(ref) = [NoStep EXCEPT !.ref = ref, !.pin = s.id, !.url = s.url, !.life = s.life,
                                        !.label = r.label]
    BY <1>2 DEF Annotated
  <2> HIDE DEF c, r
  <2>5. r.label \in Labels /\ s.id \in Nat /\ s.url \in Urls /\ s.life \in Nat
    BY <2>2, <2>3 DEF Sheet
  <2> DEFINE a == [NoStep EXCEPT !.ref = ref, !.pin = s.id, !.url = s.url, !.life = s.life,
                                 !.label = r.label]
  <2>6. a \in Step /\ a.ref = ref /\ a.life = s.life /\ a.label = r.label /\ a.inputs = 0 /\ a.pc = "idle"
    BY <2>5 DEF NoStep, Step
  <2>7. Judged(a)
    BY <2>2, <2>3, <2>6 DEF Judged, Recalled
  <2> QED
    BY <2>4, <2>6, <2>7
<1> QED
  BY <1>1, <1>2
------------------------------------------------------------------------------
(* What may become of a step and of the listing in hand.                     *)

Sound(s, l) == Judged(s) /\ Sees(s, l) /\ OneInput(s)

\* The step goes on as s, the listing as l; nothing new is stored or remembered.
Turns(s, l) ==
    /\ step' = s /\ look' = l /\ Sound(s, l)
    /\ page' \in Page /\ page'.restarts = page.restarts
    /\ sidecar' = sidecar \/ sidecar' = [sidecar EXCEPT !.snaps = <<>>]
    /\ memory' = memory \/ memory' = <<>>

LEMMA NothingIs ==
  ASSUME TypeOK
  PROVE  /\ NoLook \in Look /\ Begun \in Look /\ NoStep \in Step
         /\ Sound(NoStep, NoLook) /\ Sound([NoStep EXCEPT !.pc = "reading"], Begun)
         /\ [NoStep EXCEPT !.pc = "reading"] \in Step
         /\ NoLook.list = {} /\ Begun.list = {}
<1>1. page.doc \in Nat /\ page.restarts \in Nat
  BY DEF TypeOK, Page
<1>2. NoLook \in Look /\ NoLook.list = {}
  BY DEF NoLook, Look, Shows
<1>3. Begun = [NoLook EXCEPT !.doc = page.doc]
  BY DEF Begun
<1>4. Begun \in Look /\ Begun.list = {}
  BY <1>1, <1>2, <1>3 DEF Look
<1>5. NoStep \in Step /\ NoStep.pc = "idle" /\ NoStep.label = "none" /\ NoStep.life = 0 /\ NoStep.inputs = 0
  BY DEF NoStep, Step
<1>6. /\ [NoStep EXCEPT !.pc = "reading"] \in Step /\ [NoStep EXCEPT !.pc = "reading"].pc = "reading"
      /\ [NoStep EXCEPT !.pc = "reading"].label = "none" /\ [NoStep EXCEPT !.pc = "reading"].life = 0
      /\ [NoStep EXCEPT !.pc = "reading"].inputs = 0
  BY <1>5 DEF Step
<1>7. Sound(NoStep, NoLook)
  BY <1>1, <1>2, <1>5 DEF Sound, Judged, Sees, OneInput
<1>8. Sound([NoStep EXCEPT !.pc = "reading"], Begun)
  BY <1>1, <1>4, <1>6 DEF Sound, Judged, Sees, OneInput
<1> QED
  BY <1>2, <1>4, <1>5, <1>6, <1>7, <1>8

\* A step that is over, with or without an input.
LEMMA OverIs ==
  ASSUME TypeOK, NEW n \in {0, 1}, NEW l \in Look, Sees(step, l)
  PROVE  Over(n) \in Step /\ Sound(Over(n), l)
<1>1. page.restarts \in Nat
  BY DEF TypeOK, Page
<1>2. /\ Over(n) \in Step /\ Over(n).pc = "idle" /\ Over(n).label = "none" /\ Over(n).life = 0
      /\ Over(n).inputs = n
  <2>1. /\ NoStep \in Step /\ NoStep.pc = "idle" /\ NoStep.label = "none" /\ NoStep.life = 0
        /\ n \in Nat
    BY DEF NoStep, Step
  <2> HIDE DEF NoStep
  <2> QED
    BY <2>1 DEF Over, Step
<1> QED
  BY <1>1, <1>2 DEF Sound, Judged, Sees, OneInput

------------------------------------------------------------------------------
(* The steps that store nothing.                                             *)

LEMMA PageTurns ==
  ASSUME IInv, Navigates \/ Changes
  PROVE  Turns(step, look)
<1>0. page \in Page /\ page.doc \in Nat /\ page.changes \in Nat /\ page.shows \in Shows
  BY DEF IInv, TypeOK, Page
<1>a. PICK d \in Nat, c \in Nat : d = page.doc + 1 /\ c = page.changes + 1
  BY <1>0
<1>1. UNCHANGED <<sidecar, memory, step, look>>
  BY DEF Navigates, Changes
<1>2. page' \in Page /\ page'.restarts = page.restarts
  <2>1. CASE Navigates
    <3>1. PICK url \in Urls, shows \in Shows :
            page' = [page EXCEPT !.doc = @ + 1, !.url = url, !.shows = shows]
      BY <2>1 DEF Navigates, Shows
    <3>2. page' = [page EXCEPT !.doc = d, !.url = url, !.shows = shows]
      BY <1>0, <1>a, <3>1
    <3> QED
      BY <1>0, <3>2 DEF Page
  <2>2. CASE \E n \in Nodes, label \in Labels \cup {"none"} :
               page' = [page EXCEPT !.shows[n] = label, !.changes = @ + 1]
    <3>1. PICK n \in Nodes, label \in Labels \cup {"none"} :
            page' = [page EXCEPT !.shows[n] = label, !.changes = @ + 1]
      BY <2>2
    <3>2. [page.shows EXCEPT ![n] = label] \in Shows
      BY <1>0 DEF Shows
    <3>3. page' = [page EXCEPT !.shows = [page.shows EXCEPT ![n] = label], !.changes = c]
      BY <1>0, <1>a, <3>1 DEF Page
    <3> QED
      BY <1>0, <3>2, <3>3 DEF Page
  <2>3. CASE \E url \in Urls : page' = [page EXCEPT !.url = url, !.changes = @ + 1]
    <3>1. PICK url \in Urls : page' = [page EXCEPT !.url = url, !.changes = @ + 1]
      BY <2>3
    <3>2. page' = [page EXCEPT !.url = url, !.changes = c]
      BY <1>a, <3>1
    <3> QED
      BY <1>0, <3>2 DEF Page
  <2> QED
    BY <2>1, <2>2, <2>3 DEF Navigates, Changes
<1>3. Sound(step, look)
  BY DEF IInv, Known, Sound
<1> QED
  BY <1>1, <1>2, <1>3 DEF Turns

LEMMA GoesTurns ==
  ASSUME IInv, Goes
  PROVE  Turns(NoStep, look)
<1>0. page \in Page /\ page.doc \in Nat /\ TypeOK /\ look \in Look /\ Sees(step, look)
  BY DEF IInv, TypeOK, Page
<1>1. PICK url \in Urls, shows \in Shows :
        page' = [page EXCEPT !.doc = @ + 1, !.url = url, !.shows = shows]
  BY DEF Goes, Shows
<1>2. page' \in Page /\ page'.restarts = page.restarts
  <2>1. PICK d \in Nat : d = page.doc + 1
    BY <1>0
  <2>2. page' = [page EXCEPT !.doc = d, !.url = url, !.shows = shows]
    BY <1>1, <2>1
  <2> QED
    BY <1>0, <2>2 DEF Page
<1>3. /\ sidecar' = [sidecar EXCEPT !.snaps = <<>>]
      /\ step' = NoStep
      /\ UNCHANGED <<memory, look>>
  BY DEF Goes
<1>4. Sound(NoStep, look)
  BY <1>0, NothingIs DEF Sound, Sees, NoStep
<1> QED
  BY <1>2, <1>3, <1>4 DEF Turns

LEMMA ReadsTurns ==
  ASSUME IInv, Reads
  PROVE  \E s \in Step, l \in Look : Turns(s, l)
<1>1. /\ step' = [NoStep EXCEPT !.pc = "reading"] /\ look' = Begun
      /\ UNCHANGED <<page, sidecar, memory>>
  BY DEF Reads
<1>2. TypeOK /\ page \in Page
  BY DEF IInv, TypeOK
<1> QED
  BY <1>1, <1>2, NothingIs DEF Turns

LEMMA CollectsTurns ==
  ASSUME IInv, Collects
  PROVE  \E s \in Step, l \in Look : Turns(s, l)
<1>0. /\ TypeOK /\ page \in Page /\ page.shows \in Shows /\ step \in Step /\ look \in Look
      /\ Judged(step) /\ Sees(step, look) /\ OneInput(step)
  BY DEF IInv, TypeOK, Known, Page
<1> DEFINE All == IF step.pc = "reading" THEN Bearing("next") \cup Bearing("send")
                  ELSE Bearing(step.label)
           p == IF step.pc = "reading" THEN "read" ELSE "looked"
<1>a. PICK errors \in SUBSET Frames :
        \E list \in SUBSET (All \ UNION errors), partial \in BOOLEAN :
          /\ step.pc = "looking" /\ list # All \ UNION errors => partial
          /\ look' = [look EXCEPT !.shows = page.shows, !.list = list, !.partial = partial,
                                  !.missed = UNION errors]
  BY DEF Collects
<1>b. PICK missed \in SUBSET Nodes : missed = UNION errors
  BY PageRefsAssumption
<1> DEFINE there == All \ missed
<1>1. PICK list \in SUBSET there, partial \in BOOLEAN :
        /\ step.pc = "looking" /\ list # there => partial
        /\ look' = [look EXCEPT !.shows = page.shows, !.list = list, !.partial = partial,
                                !.missed = missed]
  BY <1>a, <1>b
<1>2. /\ step.pc \in {"reading", "looking"} /\ step' = [step EXCEPT !.pc = p]
      /\ UNCHANGED <<page, sidecar, memory>>
  BY DEF Collects
<1> DEFINE l == [look EXCEPT !.shows = page.shows, !.list = list, !.partial = partial,
                             !.missed = missed]
           s == [step EXCEPT !.pc = p]
<1>3. there \subseteq Nodes
  BY DEF Bearing
<1>4. /\ l \in Look /\ l.shows = page.shows /\ l.list = list /\ l.partial = partial
      /\ l.missed = missed
  BY <1>0, <1>3 DEF Look
<1>5. /\ s \in Step /\ s.label = step.label /\ s.life = step.life /\ s.ref = step.ref
      /\ s.inputs = step.inputs /\ s.pc = p
  BY <1>0, <1>2 DEF Step
<1>6. Judged(s) /\ OneInput(s)
  BY <1>0, <1>2, <1>5 DEF Judged, OneInput
<1>7. Sees(s, l)
  <2>1. CASE step.pc = "reading"
    <3>1. p = "read" /\ \A n \in list : page.shows[n] \in Labels
      BY <2>1 DEF Bearing, Labels
    <3> QED
      BY <1>4, <1>5, <3>1 DEF Sees
  <2>2. CASE step.pc = "looking"
    <3>1. there = Bears(l, step.label)
      BY <1>4, <2>2 DEF Bearing, Bears
    <3>2. step.label \in Labels
      BY <1>0, <2>2 DEF Sees, Step
    <3>3. \A n \in list : page.shows[n] \in Labels
      BY <2>2, <3>2 DEF Bearing
    <3>4. list \subseteq Bears(l, step.label) /\ (list # Bears(l, step.label) => partial)
      BY <1>1, <2>2, <3>1
    <3>5. s.label # "none"
      BY <1>5, <3>2 DEF Labels
    <3> QED
      BY <1>4, <1>5, <3>3, <3>4, <3>5 DEF Sees
  <2> QED
    BY <1>2, <2>1, <2>2
<1> HIDE DEF l, s
<1>8. step' = s /\ look' = l
  BY <1>1, <1>2 DEF l, s
<1> QED
  BY <1>0, <1>2, <1>4, <1>5, <1>6, <1>7, <1>8 DEF Turns, Sound

\* A step that is approved is looked for anew, or called at once.
LEMMA ApprovedTurns ==
  ASSUME TypeOK, NEW s \in Step, Judged(s), s.inputs = 0, Approved(s)
  PROVE  \E x \in Step, l \in Look : step' = x /\ look' = l /\ Sound(x, l)
<1>1. CASE s.label = "none"
  <2>1. step' = [s EXCEPT !.approved = TRUE, !.pc = "calling"] /\ look' = NoLook
    BY <1>1 DEF Approved
  <2>2. [s EXCEPT !.approved = TRUE, !.pc = "calling"] \in Step
    BY DEF Step
  <2>3. Sound([s EXCEPT !.approved = TRUE, !.pc = "calling"], NoLook)
    BY NothingIs DEF Sound, Judged, Sees, OneInput, Step
  <2> QED
    BY <2>1, <2>2, <2>3, NothingIs
<1>2. CASE s.label # "none"
  <2>1. step' = [s EXCEPT !.approved = TRUE, !.pc = "looking"] /\ look' = Begun
    BY <1>2 DEF Approved
  <2>2. [s EXCEPT !.approved = TRUE, !.pc = "looking"] \in Step
    BY DEF Step
  <2>3. Sound([s EXCEPT !.approved = TRUE, !.pc = "looking"], Begun)
    BY <1>2, NothingIs DEF Sound, Judged, Sees, OneInput, Step
  <2> QED
    BY <2>1, <2>2, <2>3, NothingIs
<1> QED
  BY <1>1, <1>2

\* A step is proposed: it is held, approved by a permission, or called.
LEMMA ProposesTurns ==
  ASSUME IInv, NEW ref \in Nat, Proposes(ref)
  PROVE  \E s \in Step, l \in Look : Turns(s, l)
<1>0. /\ TypeOK /\ Known /\ page \in Page /\ look \in Look /\ Sees(step, look)
      /\ page' = page /\ sidecar' = sidecar
  BY DEF IInv, TypeOK, Proposes
<1>1. PICK s \in Step : s = Annotated(ref) /\ Judged(s) /\ s.inputs = 0
  BY <1>0, AnnotatedIs
<1>2. \/ step' = [s EXCEPT !.pc = "held"] /\ memory' = <<>> /\ UNCHANGED look
      \/ Approved(s) /\ UNCHANGED memory
      \/ step' = [s EXCEPT !.pc = "calling"] /\ UNCHANGED <<memory, look>>
  BY <1>1 DEF Proposes
<1>3. ASSUME NEW p \in {"held", "calling"}, step' = [s EXCEPT !.pc = p], UNCHANGED look,
             memory' = memory \/ memory' = <<>>
      PROVE  \E x \in Step, l \in Look : Turns(x, l)
  <2> DEFINE x == [s EXCEPT !.pc = p]
  <2>1. /\ x \in Step /\ x.pc = p /\ x.label = s.label /\ x.life = s.life /\ x.ref = s.ref
        /\ x.inputs = 0
    BY <1>1 DEF Step
  <2> HIDE DEF x
  <2>2. Sound(x, look)
    BY <1>0, <1>1, <2>1 DEF Sound, Judged, Sees, OneInput
  <2>3. step' = x
    BY <1>3 DEF x
  <2> QED
    BY <1>0, <1>3, <2>1, <2>2, <2>3 DEF Turns
<1>4. CASE Approved(s) /\ UNCHANGED memory
  <2>1. PICK x \in Step, l \in Look : step' = x /\ look' = l /\ Sound(x, l)
    BY <1>0, <1>1, <1>4, ApprovedTurns
  <2> QED
    BY <1>0, <1>4, <2>1 DEF Turns
<1> QED
  BY <1>2, <1>3, <1>4

LEMMA DecidedTurns ==
  ASSUME IInv, Decided
  PROVE  \E s \in Step, l \in Look : Turns(s, l)
<1>0. /\ TypeOK /\ page \in Page /\ look \in Look /\ Sees(step, look) /\ step \in Step
      /\ Judged(step) /\ step.inputs = 0
      /\ UNCHANGED <<page, sidecar, memory>>
  BY DEF IInv, TypeOK, Decided, Known, OneInput
<1>1. CASE Approved(step)
  <2>1. PICK x \in Step, l \in Look : step' = x /\ look' = l /\ Sound(x, l)
    BY <1>0, <1>1, ApprovedTurns
  <2> QED
    BY <1>0, <2>1 DEF Turns
<1>2. CASE step' = NoStep /\ UNCHANGED look
  <2>1. Sound(NoStep, look)
    BY <1>0, NothingIs DEF Sound, Sees, NoStep
  <2> QED
    BY <1>0, <1>2, <2>1, NothingIs DEF Turns
<1> QED
  BY <1>1, <1>2 DEF Decided

\* The sidecar finds the element of a reference, or does not.
LEMMA CallTurns ==
  ASSUME IInv, Resolves \/ Refuses
  PROVE  \E s \in Step, l \in Look : Turns(s, l)
<1>0. /\ TypeOK /\ page \in Page /\ look \in Look /\ Sees(step, look) /\ step \in Step
      /\ Judged(step) /\ step.inputs = 0
      /\ UNCHANGED <<page, memory, look>>
  BY DEF IInv, TypeOK, Resolves, Refuses, Known, OneInput
<1>1. PICK p \in {"aimed", "refused"}, n \in Nodes \cup {0} : step' = [step EXCEPT !.pc = p, !.node = n]
  <2>1. CASE Resolves
    <3>1. PICK s \in Listings : step' = [step EXCEPT !.pc = "aimed", !.node = Element(s).node]
      BY <2>1 DEF Resolves
    <3>2. s \in Snap /\ \E e \in s.refs : e.ref = step.ref
      <4>1. Range(sidecar.snaps) \subseteq Snap
        BY <1>0, RangeOfSeq DEF TypeOK, Sidecar
      <4> QED
        BY <4>1 DEF Listings
    <3>3. Element(s) \in Entry
      BY <3>2 DEF Element, Snap
    <3> QED
      BY <3>1, <3>3 DEF Entry
  <2>2. CASE Refuses
    <3>1. step' = [step EXCEPT !.pc = "refused"]
      BY <2>2 DEF Refuses
    <3>2. [step EXCEPT !.pc = "refused"] = [step EXCEPT !.pc = "refused", !.node = step.node]
          /\ step.node \in Nodes \cup {0}
      BY <1>0 DEF Step
    <3> QED
      BY <3>1, <3>2
  <2> QED
    BY <2>1, <2>2
<1> DEFINE x == [step EXCEPT !.pc = p, !.node = n]
<1>2. /\ x \in Step /\ x.pc = p /\ x.label = step.label /\ x.life = step.life /\ x.ref = step.ref
      /\ x.inputs = 0
  BY <1>0 DEF Step
<1> HIDE DEF x
<1>3. Sound(x, look)
  BY <1>0, <1>2 DEF Sound, Judged, Sees, OneInput
<1>4. step' = x
  BY <1>1 DEF x
<1>5. sidecar' = sidecar \/ sidecar' = [sidecar EXCEPT !.snaps = <<>>]
  BY DEF Resolves, Refuses
<1> QED
  BY <1>0, <1>2, <1>3, <1>4, <1>5 DEF Turns

LEMMA RecoversTurns ==
  ASSUME IInv, Recovers
  PROVE  \E s \in Step, l \in Look : Turns(s, l)
<1>0. /\ TypeOK /\ page \in Page /\ look \in Look /\ Sees(step, look) /\ step \in Step
      /\ Judged(step) /\ step.inputs = 0
      /\ UNCHANGED <<page, sidecar, memory>>
  BY DEF IInv, TypeOK, Recovers, Known, OneInput
<1>1. CASE step' = NoStep /\ UNCHANGED look
  <2>1. Sound(NoStep, look)
    BY <1>0, NothingIs DEF Sound, Sees, NoStep
  <2> QED
    BY <1>0, <1>1, <2>1, NothingIs DEF Turns
<1>2. CASE step.label # "none" /\ step' = [step EXCEPT !.pc = "looking", !.again = TRUE] /\ look' = Begun
  <2> DEFINE x == [step EXCEPT !.pc = "looking", !.again = TRUE]
  <2>1. /\ x \in Step /\ x.pc = "looking" /\ x.label = step.label /\ x.life = step.life
        /\ x.ref = step.ref /\ x.inputs = 0
    BY <1>0 DEF Step
  <2> HIDE DEF x
  <2>2. Sound(x, Begun)
    BY <1>0, <1>2, <2>1, NothingIs DEF Sound, Judged, Sees, OneInput
  <2>3. step' = x
    BY <1>2 DEF x
  <2> QED
    BY <1>0, <1>2, <2>1, <2>2, <2>3, NothingIs DEF Turns
<1> QED
  BY <1>1, <1>2 DEF Recovers

\* The input is dispatched, or is not, or the call gives no answer.
LEMMA EndTurns ==
  ASSUME IInv, Acts \/ NotActionable \/ CallFails
  PROVE  \E s \in Step, l \in Look : Turns(s, l)
<1>0. /\ TypeOK /\ page \in Page /\ look \in Look /\ Sees(step, look) /\ step \in Step
      /\ Judged(step) /\ step.inputs = 0
      /\ UNCHANGED <<page, sidecar, memory>>
  BY DEF IInv, TypeOK, Acts, NotActionable, CallFails, Known, OneInput
<1>1. ASSUME NEW n \in {0, 1}, step' = Over(n), look' = look
      PROVE  \E s \in Step, l \in Look : Turns(s, l)
  BY <1>0, <1>1, OverIs DEF Turns
<1>2. CASE Acts
  <2>1. step' = Over(1) /\ look' = look
    BY <1>0, <1>2 DEF Acts
  <2> QED
    BY <1>1, <2>1
<1>3. CASE CallFails
  <2>1. step' = Over(0) /\ look' = NoLook
    BY <1>0, <1>3 DEF CallFails
  <2>2. NoLook \in Look /\ (Sees(step, NoLook) \/ step.pc = "looked")
    BY <1>0, NothingIs DEF Sees
  <2>3. step.pc # "looked"
    BY <1>3 DEF CallFails
  <2> QED
    BY <1>0, <2>1, <2>2, <2>3, OverIs DEF Turns
<1>4. CASE NotActionable
  <2>1. CASE step' = Over(step.inputs)
    BY <1>0, <1>1, <1>4, <2>1 DEF NotActionable
  <2>2. CASE step' = [step EXCEPT !.pc = "calling", !.again = TRUE, !.node = 0]
    <3> DEFINE x == [step EXCEPT !.pc = "calling", !.again = TRUE, !.node = 0]
    <3>1. /\ x \in Step /\ x.pc = "calling" /\ x.label = step.label /\ x.life = step.life
          /\ x.ref = step.ref /\ x.inputs = 0
      BY <1>0 DEF Step
    <3> HIDE DEF x
    <3>2. Sound(x, look)
      BY <1>0, <3>1 DEF Sound, Judged, Sees, OneInput
    <3>3. step' = x /\ look' = look
      BY <1>4, <2>2 DEF x, NotActionable
    <3> QED
      BY <1>0, <3>1, <3>2, <3>3 DEF Turns
  <2> QED
    BY <1>4, <2>1, <2>2 DEF NotActionable
<1> QED
  BY <1>2, <1>3, <1>4

\* Nothing that was kept is lost by forgetting listings.
LEMMA TurnsKeeps ==
  ASSUME IInv, NEW s \in Step, NEW l \in Look, Turns(s, l)
  PROVE  IInv'
<1>0. /\ TypeOK /\ Known /\ sidecar \in Sidecar /\ memory \in Seq(Sheet)
      /\ step' = s /\ look' = l /\ Judged(s) /\ Sees(s, l) /\ OneInput(s)
      /\ page' \in Page /\ page'.restarts = page.restarts
  BY DEF IInv, TypeOK, Turns, Sound
<1>1. /\ sidecar' \in Sidecar /\ sidecar'.lastRef = sidecar.lastRef
      /\ \A n \in Range(sidecar'.snaps) : n \in Range(sidecar.snaps)
  <2>1. CASE sidecar' = sidecar
    BY <1>0, <2>1
  <2>2. CASE sidecar' = [sidecar EXCEPT !.snaps = <<>>]
    <3>1. <<>> \in Seq(Snap) /\ Range(<<>>) = {}
      BY EmptySeq DEF Range
    <3> QED
      BY <1>0, <2>2, <3>1 DEF Sidecar
  <2> QED
    BY <2>1, <2>2 DEF Turns
<1>2. memory' \in Seq(Sheet) /\ \A i \in DOMAIN memory' : Recalled(memory'[i])
  <2>1. CASE memory' = memory
    BY <1>0, <2>1 DEF Known
  <2>2. CASE memory' = <<>>
    <3>1. <<>> \in Seq(Sheet) /\ DOMAIN <<>> = {}
      BY EmptySeq
    <3> QED
      BY <2>2, <3>1
  <2> QED
    BY <2>1, <2>2 DEF Turns
<1>3. \A ref, label : Kept(ref, label) => Kept(ref, label)'
  BY <1>1 DEF Kept
<1>4. \A m : Recalled(m) => Recalled(m)'
  BY <1>0, <1>3 DEF Recalled
<1>5. Judged(s)'
  BY <1>0, <1>3 DEF Judged
<1>6. Numbered'
  BY <1>0, <1>1 DEF Known, Numbered
<1>7. Known'
  BY <1>0, <1>2, <1>4, <1>5, <1>6 DEF Known
<1> QED
  BY <1>0, <1>1, <1>2, <1>7 DEF IInv, TypeOK, Sees, OneInput, Bears
------------------------------------------------------------------------------
(* The steps that store a listing.                                           *)

\* A new listing takes no reference from an old one, and keeps its own.
LEMMA StoredIs ==
  ASSUME TypeOK, Numbered, Sees(step, look), sidecar' = Stored
  PROVE  /\ sidecar' \in Sidecar /\ Numbered'
         /\ \A ref \in Nat : \A label : Kept(ref, label) => Kept(ref, label)'
         /\ \A e \in Minted : Kept(e.ref, e.label)'
<1>0. /\ sidecar \in Sidecar /\ sidecar.snaps \in Seq(Snap) /\ sidecar.lastSnap \in Nat
      /\ sidecar.lastRef \in Nat /\ look.doc \in Nat /\ KeepSnaps \in Nat \ {0}
  BY PageRefsAssumption DEF TypeOK, Sidecar, Look
<1>1. PICK top \in Nat : top = sidecar.lastRef + Cardinality(look.list)
  BY MintedIs
<1>2. /\ Minted \subseteq Entry
      /\ \A e \in Minted : sidecar.lastRef < e.ref /\ e.ref <= top /\ e.ref \in Nat
      /\ \A e, f \in Minted : e.ref = f.ref => e = f
      /\ sidecar.lastRef <= top
  <2>1. /\ Minted \subseteq Entry
        /\ \A e \in Minted : sidecar.lastRef < e.ref /\ e.ref <= top
        /\ \A e, f \in Minted : e.ref = f.ref => e = f
    BY <1>1, MintedIs
  <2>2. Cardinality(look.list) \in Nat
    <3>1. look.list \subseteq Nodes
      BY DEF TypeOK, Look
    <3> QED
      BY <3>1, RanksAre
  <2> QED
    BY <1>0, <1>1, <2>1, <2>2 DEF Entry
<1>i. PICK id \in Nat : id = sidecar.lastSnap + 1
  BY <1>0
<1>3. PICK new \in Snap : new = [id |-> id, doc |-> look.doc, refs |-> Minted] /\ new.refs = Minted
  <2>1. [id |-> id, doc |-> look.doc, refs |-> Minted] \in Snap
    BY <1>0, <1>2 DEF Snap
  <2> QED
    BY <2>1
<1>4. PICK kept : kept = Newest(Append(sidecar.snaps, new), KeepSnaps)
  OBVIOUS
<1>5. kept \in Seq(Snap) /\ \A s \in Range(kept) : s = new \/ s \in Range(sidecar.snaps)
  BY <1>0, <1>4, NewestIs
<1>6. sidecar' = [snaps |-> kept, lastRef |-> top, lastSnap |-> id]
  BY <1>1, <1>i, <1>3, <1>4 DEF Stored
<1>7. sidecar' \in Sidecar /\ sidecar'.snaps = kept /\ sidecar'.lastRef = top
  BY <1>0, <1>5, <1>6 DEF Sidecar
<1>8. \A s \in Range(sidecar.snaps) : \A e \in s.refs : e.ref <= sidecar.lastRef /\ e.ref \in Nat
  <2>1. Range(sidecar.snaps) \subseteq Snap
    BY <1>0, RangeOfSeq
  <2> QED
    BY <2>1 DEF Numbered, Snap, Entry
<1>9. Numbered'
  <2>1. \A s \in Range(kept) : \A e \in s.refs : e.ref <= top
    BY <1>0, <1>2, <1>3, <1>5, <1>8
  <2> QED
    BY <1>7, <2>1 DEF Numbered
<1>10. ASSUME NEW ref \in Nat, NEW label, Kept(ref, label) PROVE Kept(ref, label)'
  <2>1. ref <= sidecar.lastRef /\ ref <= top
    BY <1>0, <1>2, <1>10 DEF Kept
  <2>2. \A e \in Minted : e.ref # ref
    BY <1>0, <1>2, <2>1
  <2>3. \A s \in Range(kept) : \A e \in s.refs : e.ref = ref => e.label = label
    BY <1>3, <1>5, <1>10, <2>2 DEF Kept
  <2> QED
    BY <1>7, <2>1, <2>3 DEF Kept
<1>11. ASSUME NEW e \in Minted PROVE Kept(e.ref, e.label)'
  <2>1. PICK ref \in Nat, label \in Labels : ref = e.ref /\ label = e.label
    BY <1>2 DEF Entry
  <2>2. \A s \in Range(sidecar.snaps) : \A g \in s.refs : g.ref # ref
    <3>1. sidecar.lastRef < ref
      BY <1>2, <2>1
    <3> QED
      BY <1>0, <1>8, <3>1
  <2>3. \A g \in Minted : g.ref = ref => g.label = label
    BY <1>2, <2>1
  <2>4. \A s \in Range(kept) : \A g \in s.refs : g.ref = ref => g.label = label
    BY <1>3, <1>5, <2>2, <2>3
  <2>5. ref <= top
    BY <1>2, <2>1
  <2>6. Kept(ref, label)'
    BY <1>7, <2>4, <2>5 DEF Kept
  <2> QED
    BY <2>1, <2>6 DEF Kept, Minted
<1> QED
  BY <1>7, <1>9, <1>10, <1>11

LEMMA HasReadKeeps ==
  ASSUME IInv, HasRead
  PROVE  IInv'
<1>0. /\ TypeOK /\ Known /\ Numbered /\ Sees(step, look)
      /\ page \in Page /\ page.restarts \in Nat /\ page.url \in Urls /\ sidecar.lastSnap \in Nat
      /\ memory \in Seq(Sheet) /\ Memory \in Nat \ {0}
  BY PageRefsAssumption DEF IInv, TypeOK, Known, Page, Sidecar
<1>1. sidecar' = Stored /\ step' = NoStep /\ look' = NoLook /\ page' = page
  BY DEF HasRead
<1>2. /\ sidecar' \in Sidecar /\ Numbered'
      /\ \A ref \in Nat : \A label : Kept(ref, label) => Kept(ref, label)'
      /\ \A e \in Minted : Kept(e.ref, e.label)'
  BY <1>0, <1>1, StoredIs
<1> DEFINE told == {[ref |-> e.ref, label |-> e.label] : e \in Minted}
<1>3. Minted \subseteq Entry
  BY <1>0, MintedIs
<1>4. told \in SUBSET [ref : Nat, label : Labels] /\ \A r \in told : Kept(r.ref, r.label)'
  <2>1. told \in SUBSET [ref : Nat, label : Labels]
    BY <1>3 DEF Entry
  <2>2. ASSUME NEW r \in told PROVE Kept(r.ref, r.label)'
    <3>1. PICK e \in Minted : r = [ref |-> e.ref, label |-> e.label]
      BY <2>2
    <3>2. PICK ref, label : ref = e.ref /\ label = e.label
      OBVIOUS
    <3>3. Kept(ref, label)'
      BY <1>2, <3>2 DEF Kept
    <3>4. r.ref = ref /\ r.label = label
      BY <3>1, <3>2
    <3> QED
      BY <3>3, <3>4
  <2> QED
    BY <2>1, <2>2
<1> HIDE DEF told
<1>i. PICK id \in Nat : id = sidecar.lastSnap + 1
  BY <1>0
<1>5. PICK new \in Sheet :
        /\ new = [id |-> id, life |-> page.restarts, url |-> page.url, refs |-> told]
        /\ new.life = page.restarts /\ new.refs = told
  <2>1. [id |-> id, life |-> page.restarts, url |-> page.url, refs |-> told] \in Sheet
    BY <1>0, <1>4 DEF Sheet
  <2> QED
    BY <2>1
<1>6. memory' = Newest(Append(memory, new), Memory)
  BY <1>i, <1>5 DEF HasRead, told
<1>7. PICK m : m = Newest(Append(memory, new), Memory)
  OBVIOUS
<1>8. m \in Seq(Sheet) /\ \A i \in DOMAIN m : m[i] = new \/ \E j \in DOMAIN memory : m[i] = memory[j]
  BY <1>0, <1>7, NewestIs
<1>9. Recalled(new)'
  BY <1>0, <1>1, <1>4, <1>5 DEF Recalled
<1>10. \A j \in DOMAIN memory : Recalled(memory[j]) /\ memory[j] \in Sheet
  BY <1>0, ElementOfSeq, LenProperties DEF Known
<1>11. \A s \in Sheet : Recalled(s) => Recalled(s)'
  BY <1>1, <1>2 DEF Recalled, Sheet
<1>12. \A i \in DOMAIN m : Recalled(m[i])'
  BY <1>8, <1>9, <1>10, <1>11
<1>13. Judged(NoStep)'
  BY <1>0, <1>1 DEF Judged, NoStep
<1>14. Known'
  BY <1>1, <1>2, <1>6, <1>7, <1>12, <1>13 DEF Known
<1>15. Sees(NoStep, NoLook) /\ OneInput(NoStep)
  BY <1>0, NothingIs DEF Sound
<1> QED
  BY <1>0, <1>1, <1>2, <1>6, <1>7, <1>8, <1>14, <1>15, NothingIs DEF IInv, TypeOK, Sees, OneInput, Bears

LEMMA LookedForIs ==
  ASSUME NEW s \in Step, NEW l \in Look, Sees(s, l), s.pc = "looked"
  PROVE  l.list \subseteq Bears(l, s.label) /\ (~l.partial => l.list = Bears(l, s.label))
<1>1. l.list \subseteq Bears(l, s.label)
  BY DEF Sees
<1>2. ~l.partial => l.list = Bears(l, s.label)
  BY DEF Sees, Look
<1> QED
  BY <1>1, <1>2

\* The step goes on with the reference of the one element found.
LEMMA HasLookedKeeps ==
  ASSUME IInv, HasLooked
  PROVE  IInv'
<1>0. /\ TypeOK /\ Known /\ Numbered /\ Sees(step, look) /\ Judged(step) /\ step \in Step
      /\ page \in Page /\ page.restarts \in Nat /\ sidecar.lastSnap \in Nat
      /\ memory \in Seq(Sheet) /\ step.inputs = 0 /\ step.pc = "looked"
  BY DEF IInv, TypeOK, Known, Page, Sidecar, OneInput, HasLooked
<1>1. sidecar' = Stored /\ look' = NoLook /\ page' = page /\ memory' = memory
  BY DEF HasLooked
<1>2. /\ sidecar' \in Sidecar /\ Numbered'
      /\ \A ref \in Nat : \A label : Kept(ref, label) => Kept(ref, label)'
      /\ \A e \in Minted : Kept(e.ref, e.label)'
  BY <1>0, <1>1, StoredIs
<1>3. \A i \in DOMAIN memory : Recalled(memory[i])'
  <2>1. \A j \in DOMAIN memory : Recalled(memory[j]) /\ memory[j] \in Sheet
    BY <1>0, ElementOfSeq, LenProperties DEF Known
  <2>2. \A s \in Sheet : Recalled(s) => Recalled(s)'
    BY <1>1, <1>2 DEF Recalled, Sheet
  <2> QED
    BY <1>1, <2>1, <2>2
<1>4. PICK s \in Step : step' = s /\ Judged(s)' /\ Sees(s, NoLook) /\ OneInput(s)
  <2>1. CASE ~Found(look.list)
    <3>1. Judged(NoStep)'
      BY <1>0, <1>1 DEF Judged, NoStep
    <3>2. step' = NoStep
      BY <2>1 DEF HasLooked
    <3> QED
      BY <1>0, <3>1, <3>2, NothingIs DEF Sound
  <2>2. CASE Found(look.list)
    <3>1. PICK e \in Minted : e = CHOOSE f \in Minted : TRUE
      <4>1. look.list # {}
        <5>1. Cardinality(look.list) = 1
          BY <2>2 DEF Found
        <5> QED
          BY <5>1, FS_EmptySet
      <4>2. Minted # {}
        BY <4>1 DEF Minted
      <4> QED
        BY <4>2
    <3>2. e \in Entry /\ e.label = step.label
      <4>1. e \in Entry /\ e.node \in look.list /\ e.label = look.shows[e.node]
        BY <1>0, MintedIs
      <4>2. look.list \subseteq Bears(look, step.label)
        BY <1>0, LookedForIs DEF TypeOK
      <4> QED
        BY <4>1, <4>2 DEF Bears
    <3>3. PICK ref \in Nat, pin \in Nat, label \in Labels :
            ref = e.ref /\ pin = sidecar.lastSnap + 1 /\ label = step.label
      BY <1>0, <3>2 DEF Entry
    <3>4. Kept(ref, label)'
      BY <1>2, <3>2, <3>3 DEF Kept
    <3> DEFINE s == [step EXCEPT !.pc = "calling", !.pin = pin, !.life = page.restarts, !.ref = ref]
    <3>5. step' = s
      BY <2>2, <3>1, <3>3 DEF HasLooked
    <3>6. /\ s \in Step /\ s.pc = "calling" /\ s.label = label /\ s.life = page.restarts /\ s.ref = ref
          /\ s.inputs = 0
      BY <1>0, <3>3 DEF Step
    <3>7. PICK x \in Step : x = s
      BY <3>6
    <3> HIDE DEF s
    <3>8. Judged(x)'
      BY <1>0, <1>1, <3>4, <3>6, <3>7 DEF Judged
    <3>9. Sees(x, NoLook) /\ OneInput(x)
      BY <3>6, <3>7, <1>0, NothingIs DEF Sees, OneInput
    <3> QED
      BY <3>5, <3>7, <3>8, <3>9
  <2> QED
    BY <2>1, <2>2
<1>5. Known'
  BY <1>1, <1>2, <1>3, <1>4 DEF Known
<1> QED
  BY <1>0, <1>1, <1>2, <1>4, <1>5, NothingIs DEF IInv, TypeOK, Sees, OneInput, Bears
------------------------------------------------------------------------------
(* The beginning, a restart, and every step.                                 *)

\* Another life of the sidecar: nothing said in an earlier one is claimed any more.
LEMMA RestartsKeeps ==
  ASSUME IInv, Restarts
  PROVE  IInv'
<1>0. /\ TypeOK /\ Known /\ page \in Page /\ page.restarts \in Nat /\ step \in Step /\ Judged(step)
      /\ memory \in Seq(Sheet) /\ OneInput(step) /\ UNCHANGED memory
  BY DEF IInv, TypeOK, Known, Page, Restarts
<1>1. PICK n \in Nat : n = page.restarts + 1
  BY <1>0
<1>2. page' \in Page /\ page'.restarts = n
  <2>1. page' = [page EXCEPT !.restarts = n]
    BY <1>1 DEF Restarts
  <2> QED
    BY <1>0, <2>1 DEF Page
<1>3. sidecar' \in Sidecar /\ Numbered'
  <2>1. <<>> \in Seq(Snap) /\ Range(<<>>) = {}
    BY EmptySeq DEF Range
  <2>2. sidecar' \in Sidecar /\ sidecar'.snaps = <<>>
    BY <2>1 DEF Restarts, NewSidecar, Sidecar
  <2> QED
    BY <2>1, <2>2 DEF Numbered
<1>4. PICK s \in Step : step' = s /\ s.life <= page.restarts /\ Sees(s, NoLook) /\ OneInput(s) /\ s.life \in Nat
  <2>1. CASE step.pc = "held"
    <3>1. step' = step /\ step.life <= page.restarts
      BY <1>0, <2>1 DEF Restarts, Judged
    <3>2. Sees(step, NoLook)
      BY <1>0, <2>1, NothingIs DEF Sees
    <3> QED
      BY <1>0, <3>1, <3>2 DEF Step
  <2>2. CASE step.pc # "held"
    <3>1. step' = NoStep
      BY <2>2 DEF Restarts
    <3> QED
      BY <1>0, <3>1, NothingIs DEF Sound, Judged, Step
  <2> QED
    BY <2>1, <2>2
<1>5. Judged(s)'
  <2>1. s.life <= n /\ s.life # n
    BY <1>0, <1>1, <1>4
  <2> QED
    BY <1>2, <2>1 DEF Judged
<1>6. \A i \in DOMAIN memory : Recalled(memory[i])'
  <2>1. \A j \in DOMAIN memory : Recalled(memory[j]) /\ memory[j] \in Sheet
    BY <1>0, ElementOfSeq, LenProperties DEF Known
  <2>2. ASSUME NEW m \in Sheet, Recalled(m) PROVE Recalled(m)'
    <3>1. m.life \in Nat /\ m.life <= page.restarts
      BY <2>2 DEF Sheet, Recalled
    <3>2. m.life <= n /\ m.life # n
      BY <1>0, <1>1, <3>1
    <3> QED
      BY <1>2, <3>2 DEF Recalled
  <2> QED
    BY <1>0, <2>1, <2>2
<1>7. Known'
  BY <1>0, <1>3, <1>4, <1>5, <1>6 DEF Known
<1>8. look' = NoLook
  BY DEF Restarts
<1> QED
  BY <1>0, <1>2, <1>3, <1>4, <1>7, <1>8, NothingIs DEF IInv, TypeOK, Sees, OneInput, Bears

LEMMA InitHolds == Init => IInv
<1> SUFFICES ASSUME Init PROVE IInv
  OBVIOUS
<1>1. PICK shows \in Shows : page = [doc |-> 0, url |-> "here", shows |-> shows, changes |-> 0, restarts |-> 0]
  BY DEF Init, Shows
<1>2. page \in Page
  BY <1>1 DEF Page, Urls
<1>3. /\ <<>> \in Seq(Snap) /\ <<>> \in Seq(Sheet) /\ Range(<<>>) = {} /\ DOMAIN <<>> = {}
  BY EmptySeq DEF Range
<1>4. sidecar \in Sidecar /\ sidecar.snaps = <<>> /\ memory = <<>> /\ step = NoStep /\ look = NoLook
  BY <1>3 DEF Init, NewSidecar, Sidecar
<1>5. NoStep \in Step /\ NoLook \in Look
  BY DEF NoStep, NoLook, Step, Look, Shows
<1>6. TypeOK
  BY <1>2, <1>3, <1>4, <1>5 DEF TypeOK
<1>7. Sound(NoStep, NoLook)
  BY <1>6, NothingIs
<1> QED
  BY <1>3, <1>4, <1>6, <1>7 DEF IInv, Known, Numbered, Sound

LEMMA StepKeeps == IInv /\ [Next]_vars => IInv'
<1> SUFFICES ASSUME IInv, [Next]_vars PROVE IInv'
  OBVIOUS
<1>0. step \in Step /\ look \in Look /\ NoStep \in Step
  BY NothingIs DEF IInv, TypeOK
<1>1. CASE Navigates \/ Changes
  BY <1>0, <1>1, PageTurns, TurnsKeeps
<1>2. CASE Goes
  BY <1>0, <1>2, GoesTurns, TurnsKeeps
<1>3. CASE Reads \/ Collects
  BY <1>3, ReadsTurns, CollectsTurns, TurnsKeeps
<1>4. CASE \E ref \in 1 .. MaxRef : Proposes(ref)
  BY <1>4, ProposesTurns, TurnsKeeps
<1>5. CASE Decided \/ Resolves \/ Refuses
  BY <1>5, DecidedTurns, CallTurns, TurnsKeeps
<1>6. CASE Recovers \/ Acts \/ NotActionable \/ CallFails
  BY <1>6, RecoversTurns, EndTurns, TurnsKeeps
<1>7. CASE UNCHANGED vars
  <2>1. UNCHANGED <<page, sidecar, memory, step, look>>
    BY <1>7 DEF vars
  <2>2. Turns(step, look)
    BY <2>1 DEF Turns, Sound, IInv, Known, TypeOK
  <2> QED
    BY <1>0, <2>2, TurnsKeeps
<1> QED
  BY <1>1, <1>2, <1>3, <1>4, <1>5, <1>6, <1>7, RestartsKeeps, HasReadKeeps, HasLookedKeeps DEF Next

LEMMA Invariant == Spec => []IInv
<1> QED
  BY InitHolds, StepKeeps, PTL DEF Spec
------------------------------------------------------------------------------
(* The theorems.                                                             *)

\* The tab, the sidecar's listings, the loop's memory and the step in hand have their
\* types, in every run.
THEOREM PageRefsTypeCorrect == Spec => []TypeOK
<1>1. IInv => TypeOK
  BY DEF IInv
<1> QED
  BY <1>1, Invariant, PTL

\* However a step is refused, approved, looked for again or tried again, it puts one
\* input into the page at most.
THEOREM OneInputPerStepHolds == Spec => []OneInputPerStep
<1>1. IInv => OneInputPerStep
  BY DEF IInv, OneInput, OneInputPerStep
<1> QED
  BY <1>1, Invariant, PTL

\* What a labelled step of this life of the sidecar is aimed at bears the label the step
\* was judged by, whatever has become of the page, the listings and the references.
THEOREM AimedAsJudgedHolds == Spec => AimedAsJudged
<1>1. IInv /\ [Next]_vars =>
        [step'.pc = "aimed" /\ step.pc = "calling" /\ step.label # "none"
           /\ step.life = page.restarts => page.shows[step'.node] = step.label]_vars
  <2> SUFFICES ASSUME IInv, Next, step'.pc = "aimed", step.pc = "calling", step.label # "none",
                      step.life = page.restarts
               PROVE  page.shows[step'.node] = step.label
    BY DEF vars
  <2>0. step \in Step /\ Kept(step.ref, step.label) /\ NoStep.pc = "idle"
    BY DEF IInv, TypeOK, Known, Judged, NoStep
  <2>1. Resolves
    <3>1. ~(Navigates \/ Changes \/ Reads \/ Collects \/ HasRead \/ Decided \/ Recovers \/ HasLooked)
      BY DEF Navigates, Changes, Reads, Collects, HasRead, Decided, Recovers, HasLooked
    <3>2. ~(Acts \/ NotActionable \/ Goes \/ \E ref \in 1 .. MaxRef : Proposes(ref))
      BY DEF Acts, NotActionable, Goes, Proposes
    <3>3. ~Refuses
      BY <2>0 DEF Refuses, Step
    <3>4. ~(Restarts \/ CallFails)
      BY <2>0 DEF Restarts, CallFails, Over, NoStep
    <3> QED
      BY <3>1, <3>2, <3>3, <3>4 DEF Next
  <2>2. PICK s \in Listings : StillIs(Element(s)) /\ step' = [step EXCEPT !.pc = "aimed", !.node = Element(s).node]
    BY <2>1 DEF Resolves
  <2>3. Element(s) \in s.refs /\ Element(s).ref = step.ref /\ s \in Range(sidecar.snaps)
    BY DEF Listings, Element
  <2>4. Element(s).label = step.label
    BY <2>0, <2>3 DEF Kept
  <2>5. step'.node = Element(s).node
    BY <2>0, <2>2 DEF Step
  <2> QED
    BY <2>2, <2>4, <2>5 DEF StillIs
<1> QED
  BY <1>1, Invariant, PTL DEF Spec, AimedAsJudged

\* A step is aimed anew only at the one element of its label in all that could be read.
THEOREM OnlyOneOfItsKindHolds == Spec => OnlyOneOfItsKind
<1>1. IInv /\ [Next]_vars =>
        [step.pc = "looked" /\ step'.pc = "calling" =>
           Cardinality({n \in Nodes \ look.missed : look.shows[n] = step.label}) = 1]_vars
  <2> SUFFICES ASSUME IInv, Next, step.pc = "looked", step'.pc = "calling"
               PROVE  Cardinality({n \in Nodes \ look.missed : look.shows[n] = step.label}) = 1
    BY DEF vars
  <2>0. Sees(step, look) /\ NoStep.pc = "idle"
    BY DEF IInv, NoStep
  <2>1. HasLooked
    <3>1. ~(Navigates \/ Changes \/ Reads \/ Collects \/ HasRead \/ Decided \/ Recovers \/ Resolves \/ Refuses)
      BY DEF Navigates, Changes, Reads, Collects, HasRead, Decided, Recovers, Resolves, Refuses
    <3>2. ~(Acts \/ NotActionable \/ Goes \/ CallFails \/ \E ref \in 1 .. MaxRef : Proposes(ref))
      BY DEF Acts, NotActionable, Goes, CallFails, Proposes
    <3>3. ~Restarts
      BY <2>0 DEF Restarts
    <3> QED
      BY <3>1, <3>2, <3>3 DEF Next
  <2>2. Found(look.list)
    BY <2>0, <2>1 DEF HasLooked
  <2>3. look.list = Bears(look, step.label)
    BY <2>0, <2>2, LookedForIs DEF Found, IInv, TypeOK
  <2> QED
    BY <2>2, <2>3 DEF Found, Bears
<1> QED
  BY <1>1, Invariant, PTL DEF Spec, OnlyOneOfItsKind

------------------------------------------------------------------------------
(* The desktop: where the row and its computer stand while one request is   *)
(* at work on them alone.                                                   *)

Handles == Ids \cup {ByName, None}
DesktopRows == [state : States, handle : Handles, url : BOOLEAN]
Boxes == [id : IF mode = "docker" THEN Ids ELSE {ByName}, up : BOOLEAN]
CallPlaces == {"idle", "clear", "make", "wait", "made", "failed", "stop", "stopped",
               "suspend", "parked", "resume", "woken"}
DesktopCalls == [pc : CallPlaces, copy : DesktopRows, info : Handles]

DesktopTypeOK ==
    /\ mode \in AllModes
    /\ row \in DesktopRows
    /\ box \in Boxes \cup {None}
    /\ call \in [Requests -> DesktopCalls]
    /\ muddled \in BOOLEAN

\* The computer behind a row that has been put to sleep, and behind one that works.
Asleep ==
    IF row.handle = None \/ mode = "k8s" THEN box = None
    ELSE box = [id |-> row.handle, up |-> FALSE] /\ (mode = "docker" => row.url)
Awake ==
    IF row.handle = None THEN box = None
    ELSE box = [id |-> row.handle, up |-> TRUE] /\ row.url

\* A desktop nobody is at work on.
Resting ==
    \/ row.state = "absent" /\ row.handle = None /\ box = None
    \/ row.state = "running" /\ Awake
    \/ row.state = "suspended" /\ Asleep

\* How far a call has come that is alone: what it read is still what the row says,
\* nothing has failed, and the computer is as its driver left it.
Along(x) ==
    /\ x.pc # "idle" => x.copy = row
    /\ x.pc # "failed"
    /\ x.pc = "make" /\ mode # "aci" => box = None
    /\ x.pc = "wait" => box = [id |-> ByName, up |-> TRUE]
    /\ x.pc = "made" => x.info # None /\ box = [id |-> x.info, up |-> TRUE]
    /\ x.pc = "stop" /\ box # None => row.handle = box.id
    /\ x.pc = "stopped" => box = None
    /\ x.pc = "suspend" => Resting
    /\ x.pc = "parked" => Asleep
    /\ x.pc = "resume" => Asleep /\ row.handle # None /\ mode # "k8s"
    /\ x.pc = "woken" => Awake

AtMostOne == \A p, q \in Requests : call[p].pc # "idle" /\ call[q].pc # "idle" => p = q

OneAtWork ==
    /\ AtMostOne
    /\ \A q \in Requests : Along(call[q])
    /\ Quiet => Resting

DesktopIInv == DesktopTypeOK /\ (~muddled => OneAtWork)

LEMMA NoneElse ==
  /\ None \notin Ids /\ ByName # None /\ ByName \notin Ids /\ None \notin Boxes
  /\ \A id \in Ids \cup {ByName}, up \in BOOLEAN : [id |-> id, up |-> up] # None
BY DesktopAssumption DEF Boxes

LEMMA RowIs ==
  ASSUME NEW r
  PROVE  r \in DesktopRows <=> /\ r = [state |-> r.state, handle |-> r.handle, url |-> r.url]
                               /\ r.state \in States /\ r.handle \in Handles /\ r.url \in BOOLEAN
BY DEF DesktopRows

\* A flush leaves a row, and the new one where the row is still what was read.
LEMMA WrittenIs ==
  ASSUME NEW q, row \in DesktopRows, call[q].copy \in DesktopRows, NEW new \in DesktopRows
  PROVE  /\ Written(q, new) \in DesktopRows
         /\ call[q].copy = row => Written(q, new) = new
<1>1. DOMAIN row = {"state", "handle", "url"} /\ DOMAIN new = {"state", "handle", "url"}
  BY DEF DesktopRows
<1> DEFINE w == Written(q, new)
           col(c) == IF new[c] # call[q].copy[c] THEN new[c] ELSE row[c]
<1>2. w = [c \in {"state", "handle", "url"} |-> col(c)]
  BY <1>1 DEF Written
<1>3. w = [state |-> col("state"), handle |-> col("handle"), url |-> col("url")]
  BY <1>2
<1>4. col("state") \in States /\ col("handle") \in Handles /\ col("url") \in BOOLEAN
  BY DEF DesktopRows
<1> HIDE DEF col
<1>5. w \in DesktopRows
  BY <1>3, <1>4 DEF DesktopRows
<1>6. ASSUME call[q].copy = row PROVE w = new
  <2>1. col("state") = new.state /\ col("handle") = new.handle /\ col("url") = new.url
    BY <1>6 DEF col
  <2>2. new = [state |-> new.state, handle |-> new.handle, url |-> new.url]
    BY DEF DesktopRows
  <2> QED
    BY <1>3, <2>1, <2>2
<1> QED
  BY <1>5, <1>6

\* A step of the call q.
OnlyMoves(q) == \A p \in Requests : p # q => call'[p] = call[p]

\* A call that is alone and stays so needs only to be where it says.
LEMMA AloneStill ==
  ASSUME OneAtWork, NEW q \in Requests, call[q].pc # "idle", OnlyMoves(q),
         Along(call[q])', call'[q].pc = "idle" => Resting'
  PROVE  OneAtWork'
<1>1. \A p \in Requests : p # q => call'[p].pc = "idle"
  BY DEF OneAtWork, AtMostOne, OnlyMoves
<1>2. AtMostOne'
  BY <1>1 DEF AtMostOne
<1>3. \A p \in Requests : Along(call[p])'
  BY <1>1 DEF Along
<1>4. Quiet' => Resting'
  BY DEF Quiet
<1> QED
  BY <1>2, <1>3, <1>4 DEF OneAtWork

\* How a call goes on: its place, and perhaps what it has made.
LEMMA Onwards ==
  ASSUME DesktopTypeOK, NEW q \in Requests, NEW where \in CallPlaces
  PROVE  /\ call' = [call EXCEPT ![q].pc = where] =>
              /\ call' \in [Requests -> DesktopCalls] /\ OnlyMoves(q)
              /\ call'[q].pc = where /\ call'[q].copy = call[q].copy
              /\ call'[q].info = call[q].info
         /\ \A i \in Handles :
              call' = [call EXCEPT ![q].pc = where, ![q].info = i] =>
                 /\ call' \in [Requests -> DesktopCalls] /\ OnlyMoves(q)
                 /\ call'[q].pc = where /\ call'[q].copy = call[q].copy
                 /\ call'[q].info = i
<1>t. call \in [Requests -> DesktopCalls] /\ call[q] \in DesktopCalls
  BY DEF DesktopTypeOK
<1>1. ASSUME call' = [call EXCEPT ![q].pc = where]
      PROVE  /\ call' \in [Requests -> DesktopCalls] /\ OnlyMoves(q)
             /\ call'[q].pc = where /\ call'[q].copy = call[q].copy
             /\ call'[q].info = call[q].info
  <2>1. PICK x : x = [call[q] EXCEPT !.pc = where]
    OBVIOUS
  <2>2. /\ x \in DesktopCalls /\ x.pc = where /\ x.copy = call[q].copy
        /\ x.info = call[q].info
    BY <1>t, <2>1 DEF DesktopCalls
  <2>3. call' = [call EXCEPT ![q] = x]
    BY <1>t, <1>1, <2>1
  <2> QED
    BY <1>t, <2>2, <2>3 DEF OnlyMoves
<1>2. ASSUME NEW i \in Handles, call' = [call EXCEPT ![q].pc = where, ![q].info = i]
      PROVE  /\ call' \in [Requests -> DesktopCalls] /\ OnlyMoves(q)
             /\ call'[q].pc = where /\ call'[q].copy = call[q].copy
             /\ call'[q].info = i
  <2>1. PICK x : x = [call[q] EXCEPT !.pc = where, !.info = i]
    OBVIOUS
  <2>2. x \in DesktopCalls /\ x.pc = where /\ x.copy = call[q].copy /\ x.info = i
    BY <1>t, <2>1 DEF DesktopCalls
  <2>3. call' = [call EXCEPT ![q] = x]
    BY <1>t, <1>2, <2>1
  <2> QED
    BY <1>t, <2>2, <2>3 DEF OnlyMoves
<1> QED
  BY <1>1, <1>2

LEMMA EndsIs ==
  ASSUME DesktopTypeOK, NEW q \in Requests, Ends(q)
  PROVE  call' \in [Requests -> DesktopCalls] /\ OnlyMoves(q) /\ call'[q].pc = "idle"
<1>1. NoCall \in DesktopCalls /\ NoCall.pc = "idle"
  BY DEF NoCall, Absent, DesktopCalls, CallPlaces, DesktopRows, States, Handles
<1> QED
  BY <1>1 DEF DesktopTypeOK, Ends, OnlyMoves

LEMMA DesktopInitOK == DesktopInit => DesktopIInv
<1> SUFFICES ASSUME DesktopInit
             PROVE  DesktopIInv
  OBVIOUS
<1>1. NoCall \in DesktopCalls /\ NoCall.pc = "idle" /\ Absent \in DesktopRows
  BY DEF NoCall, Absent, DesktopCalls, CallPlaces, DesktopRows, States, Handles
<1>2. DesktopTypeOK
  BY <1>1, DesktopAssumption DEF DesktopInit, DesktopTypeOK
<1>3. \A q \in Requests : call[q].pc = "idle"
  BY <1>1 DEF DesktopInit
<1>4. Resting
  BY DEF DesktopInit, Resting, Absent
<1> QED
  BY <1>2, <1>3, <1>4 DEF DesktopIInv, OneAtWork, AtMostOne, Along

\* A driver that fails, and a request that dies, muddle things: what is left to show is
\* that the types are kept.
LEMMA MuddledOK ==
  ASSUME DesktopIInv, UNCHANGED <<mode, row>>, box' \in Boxes \cup {None},
         call' \in [Requests -> DesktopCalls], muddled' = TRUE
  PROVE  DesktopIInv'
BY DEF DesktopIInv, DesktopTypeOK, Boxes

LEMMA GivesUpOK ==
  ASSUME DesktopIInv, NEW q \in Requests, NEW i \in Handles, GivesUp(q, i),
         UNCHANGED <<mode, row>>, box' \in Boxes \cup {None}
  PROVE  DesktopIInv'
<1>1. DesktopTypeOK
  BY DEF DesktopIInv
<1>2. call' = [call EXCEPT ![q].pc = "failed", ![q].info = i] /\ muddled' = TRUE
  BY DEF GivesUp
<1>3. "failed" \in CallPlaces
  BY DEF CallPlaces
<1>4. call' \in [Requests -> DesktopCalls]
  BY <1>1, <1>2, <1>3, Onwards
<1> QED
  BY <1>2, <1>4, MuddledOK

\* A step that muddles nothing: the types are kept, and a call that was alone is where
\* it says.
LEMMA StepOK ==
  ASSUME DesktopIInv, NEW q \in Requests, call[q].pc # "idle", OnlyMoves(q),
         UNCHANGED <<mode, muddled>>, row' \in DesktopRows, box' \in Boxes \cup {None},
         call' \in [Requests -> DesktopCalls],
         OneAtWork => Along(call[q])' /\ (call'[q].pc = "idle" => Resting')
  PROVE  DesktopIInv'
<1>1. DesktopTypeOK'
  BY DEF DesktopIInv, DesktopTypeOK, Boxes
<1>2. ASSUME ~muddled PROVE OneAtWork'
  BY <1>2, AloneStill DEF DesktopIInv
<1> QED
  BY <1>1, <1>2 DEF DesktopIInv

------------------------------------------------------------------------------
(* A request is taken up.                                                   *)

LEMMA TakesOK ==
  ASSUME DesktopIInv, NEW q \in Requests, NEW where \in CallPlaces \ {"idle"},
         NEW copy \in DesktopRows, Takes(q, where, copy),
         row' \in DesktopRows, UNCHANGED <<mode, box>>, muddled' \in BOOLEAN,
         ~muddled' => Quiet /\ (call'[q] = [pc |-> where, copy |-> copy, info |-> None] => Along(call[q])')
  PROVE  DesktopIInv'
<1>t. DesktopTypeOK
  BY DEF DesktopIInv
<1> DEFINE x == [pc |-> where, copy |-> copy, info |-> None]
<1>1. x \in DesktopCalls /\ x.pc = where
  BY DEF DesktopCalls, Handles
<1>2. call' = [call EXCEPT ![q] = x]
  BY DEF Takes
<1> HIDE DEF x
<1>3. call' \in [Requests -> DesktopCalls] /\ OnlyMoves(q) /\ call'[q] = x
  BY <1>t, <1>1, <1>2 DEF DesktopTypeOK, OnlyMoves
<1>4. DesktopTypeOK'
  BY <1>t, <1>3 DEF DesktopTypeOK, Boxes
<1>5. ASSUME ~muddled' PROVE OneAtWork'
  <2>1. Quiet /\ Along(call[q])'
    BY <1>3, <1>5 DEF x
  <2>2. \A p \in Requests : p # q => call'[p].pc = "idle"
    BY <1>3, <2>1 DEF OnlyMoves, Quiet
  <2>3. AtMostOne'
    BY <2>2 DEF AtMostOne
  <2>4. \A p \in Requests : Along(call[p])'
    BY <2>1, <2>2 DEF Along
  <2>5. ~Quiet'
    BY <1>1, <1>3 DEF Quiet
  <2> QED
    BY <2>3, <2>4, <2>5 DEF OneAtWork
<1> QED
  BY <1>4, <1>5 DEF DesktopIInv

\* The row with another state.
LEMMA InState ==
  ASSUME row \in DesktopRows, NEW s \in States, NEW r, r = [row EXCEPT !.state = s]
  PROVE  r \in DesktopRows /\ r.state = s /\ r.handle = row.handle /\ r.url = row.url
BY DEF DesktopRows

LEMMA StartOK ==
  ASSUME DesktopIInv, NEW q \in Requests, Start(q)
  PROVE  DesktopIInv'
<1>t. row \in DesktopRows
  BY DEF DesktopIInv, DesktopTypeOK
<1>1. PICK where \in CallPlaces \ {"idle"} : where = IF mode = "aci" THEN "make" ELSE "clear"
  BY DEF CallPlaces
<1>2. PICK r \in DesktopRows : r = [row EXCEPT !.state = "starting"]
  BY <1>t, InState DEF States
<1>3. Takes(q, where, r) /\ row' = r /\ muddled' = ~Quiet /\ UNCHANGED <<mode, box>>
  BY <1>1, <1>2 DEF Start
<1>4. call'[q] = [pc |-> where, copy |-> r, info |-> None] => Along(call[q])'
  BY <1>1, <1>3 DEF Along
<1> QED
  BY <1>3, <1>4, TakesOK

LEMMA StopOK ==
  ASSUME DesktopIInv, NEW q \in Requests, Stop(q)
  PROVE  DesktopIInv'
<1>t. row \in DesktopRows /\ muddled \in BOOLEAN /\ box \in Boxes \cup {None}
  BY DEF DesktopIInv, DesktopTypeOK
<1>1. PICK r \in DesktopRows : r = [row EXCEPT !.state = "stopping"] /\ r.handle = row.handle
  BY <1>t, InState DEF States
<1>2. Takes(q, "stop", r) /\ row' = r /\ muddled' = (muddled \/ ~Quiet) /\ UNCHANGED <<mode, box>>
  BY <1>1 DEF Stop
<1>3. ASSUME ~muddled', call'[q] = [pc |-> "stop", copy |-> r, info |-> None]
      PROVE  Along(call[q])'
  <2>1. Resting
    BY <1>t, <1>2, <1>3 DEF DesktopIInv, OneAtWork
  <2>2. box # None => row.handle = box.id
    BY <2>1 DEF Resting, Awake, Asleep
  <2> QED
    BY <1>1, <1>2, <1>3, <2>2 DEF Along
<1>4. "stop" \in CallPlaces \ {"idle"} /\ muddled' \in BOOLEAN /\ (~muddled' => Quiet)
  BY <1>t, <1>2 DEF CallPlaces, Quiet
<1> QED
  BY <1>2, <1>3, <1>4, TakesOK

LEMMA SuspendOK ==
  ASSUME DesktopIInv, NEW q \in Requests, Suspend(q)
  PROVE  DesktopIInv'
<1>t. row \in DesktopRows /\ muddled \in BOOLEAN
  BY DEF DesktopIInv, DesktopTypeOK
<1>2. Takes(q, "suspend", row) /\ muddled' = (muddled \/ ~Quiet) /\ UNCHANGED <<mode, row, box>>
  BY DEF Suspend
<1>3. ASSUME ~muddled', call'[q] = [pc |-> "suspend", copy |-> row, info |-> None]
      PROVE  Along(call[q])'
  <2>1. Resting
    BY <1>t, <1>2, <1>3 DEF DesktopIInv, OneAtWork
  <2>2. Resting'
    BY <1>2, <2>1 DEF Resting, Awake, Asleep
  <2> QED
    BY <1>2, <1>3, <2>2 DEF Along
<1>4. "suspend" \in CallPlaces \ {"idle"} /\ muddled' \in BOOLEAN /\ (~muddled' => Quiet)
  BY <1>t, <1>2 DEF CallPlaces, Quiet
<1> QED
  BY <1>t, <1>2, <1>3, <1>4, TakesOK

LEMMA ResumeOK ==
  ASSUME DesktopIInv, NEW q \in Requests, Resume(q)
  PROVE  DesktopIInv'
<1>t. row \in DesktopRows /\ muddled \in BOOLEAN
  BY DEF DesktopIInv, DesktopTypeOK
<1>1. PICK where \in CallPlaces \ {"idle"} :
        where = IF row.handle = None THEN "woken" ELSE IF mode = "k8s" THEN "clear" ELSE "resume"
  BY DEF CallPlaces
<1>2. /\ Takes(q, where, row) /\ muddled' = (muddled \/ ~Quiet) /\ UNCHANGED <<mode, row, box>>
      /\ row.state = "suspended"
  BY <1>1 DEF Resume
<1>3. ASSUME ~muddled', call'[q] = [pc |-> where, copy |-> row, info |-> None]
      PROVE  Along(call[q])'
  <2>1. Asleep
    BY <1>t, <1>2, <1>3 DEF DesktopIInv, OneAtWork, Resting
  <2>2. /\ Asleep'
        /\ row.handle = None => Awake'
    BY <1>2, <2>1 DEF Asleep, Awake
  <2> QED
    BY <1>1, <1>2, <1>3, <2>2 DEF Along
<1>4. muddled' \in BOOLEAN /\ (~muddled' => Quiet)
  BY <1>t, <1>2 DEF Quiet
<1> QED
  BY <1>t, <1>2, <1>3, <1>4, TakesOK

------------------------------------------------------------------------------
(* The drivers.                                                             *)

\* What has the bot's name goes before the next computer comes.
LEMMA RemovesOK ==
  ASSUME DesktopIInv, NEW q \in Requests, call[q].pc = "clear", Removes(q, "make")
  PROVE  DesktopIInv'
<1>t. DesktopTypeOK
  BY DEF DesktopIInv
<1>1. /\ call' = [call EXCEPT ![q].pc = "make"]
      /\ UNCHANGED <<mode, row>>
  BY DEF Removes, MovesTo
<1>2. /\ call' \in [Requests -> DesktopCalls] /\ OnlyMoves(q)
      /\ call'[q].pc = "make" /\ call'[q].copy = call[q].copy
  BY <1>t, <1>1, Onwards DEF CallPlaces
<1>3. CASE box' = None /\ UNCHANGED muddled
  <2>1. OneAtWork => Along(call[q])'
    BY <1>1, <1>2, <1>3 DEF OneAtWork, Along
  <2> QED
    BY <1>t, <1>1, <1>2, <1>3, <2>1, StepOK DEF DesktopTypeOK
<1>4. CASE UNCHANGED box /\ muddled' = TRUE
  BY <1>t, <1>1, <1>2, <1>4, MuddledOK DEF DesktopTypeOK
<1> QED
  BY <1>3, <1>4 DEF Removes

\* A computer that could not be made because the name was taken: the call was not alone.
LEMMA TakenOK ==
  ASSUME DesktopIInv, NEW q \in Requests, call[q].pc = "make", mode # "aci", box # None,
         MovesTo(q, "failed"), UNCHANGED <<mode, row, box, muddled>>
  PROVE  DesktopIInv'
<1>t. DesktopTypeOK
  BY DEF DesktopIInv
<1>1. ~OneAtWork
  BY DEF OneAtWork, Along
<1>2. call' \in [Requests -> DesktopCalls] /\ OnlyMoves(q)
  BY <1>t, Onwards DEF MovesTo, CallPlaces
<1> QED
  BY <1>t, <1>1, <1>2, StepOK DEF DesktopTypeOK

LEMMA DockerRunOK ==
  ASSUME DesktopIInv, NEW q \in Requests, DockerRun(q)
  PROVE  DesktopIInv'
<1>t. DesktopTypeOK
  BY DEF DesktopIInv
<1>1. mode = "docker" /\ call[q].pc = "make" /\ UNCHANGED <<mode, row>>
  BY DEF DockerRun
<1>2. CASE box # None
  BY <1>1, <1>2, TakenOK DEF DockerRun
<1>3. CASE box = None
  <2>1. PICK id \in Ids :
          \/ /\ box' = [id |-> id, up |-> TRUE]
             /\ call' = [call EXCEPT ![q].pc = "made", ![q].info = id]
             /\ UNCHANGED muddled
          \/ box' = [id |-> id, up |-> FALSE] /\ GivesUp(q, None)
    BY <1>3 DEF DockerRun
  <2>2. /\ id \in Handles /\ id # None
        /\ [id |-> id, up |-> TRUE] \in Boxes /\ [id |-> id, up |-> FALSE] \in Boxes
    BY <1>1, NoneElse DEF Handles, Boxes
  <2>3. CASE box' = [id |-> id, up |-> FALSE] /\ GivesUp(q, None)
    BY <1>1, <2>2, <2>3, GivesUpOK DEF Handles
  <2>4. CASE /\ box' = [id |-> id, up |-> TRUE]
             /\ call' = [call EXCEPT ![q].pc = "made", ![q].info = id]
             /\ UNCHANGED muddled
    <3>1. /\ call' \in [Requests -> DesktopCalls] /\ OnlyMoves(q)
          /\ call'[q].pc = "made" /\ call'[q].copy = call[q].copy /\ call'[q].info = id
      BY <1>t, <2>2, <2>4, Onwards DEF CallPlaces
    <3>2. OneAtWork => Along(call[q])'
      BY <1>1, <2>2, <2>4, <3>1 DEF OneAtWork, Along
    <3> QED
      BY <1>t, <1>1, <2>2, <2>4, <3>1, <3>2, StepOK DEF DesktopTypeOK
  <2> QED
    BY <2>1, <2>3, <2>4
<1> QED
  BY <1>2, <1>3

\* Both drivers that go by the name wait until it serves.
LEMMA CreatedOK ==
  ASSUME DesktopIInv, NEW q \in Requests, call[q].pc \in {"make", "resume"}, mode # "docker",
         MovesTo(q, "wait"),
         box' = [id |-> ByName, up |-> TRUE], UNCHANGED <<mode, row, muddled>>
  PROVE  DesktopIInv'
<1>t. DesktopTypeOK
  BY DEF DesktopIInv
<1>1. /\ call' \in [Requests -> DesktopCalls] /\ OnlyMoves(q)
      /\ call'[q].pc = "wait" /\ call'[q].copy = call[q].copy
  BY <1>t, Onwards DEF MovesTo, CallPlaces
<1>2. OneAtWork => Along(call[q])'
  BY <1>1 DEF OneAtWork, Along
<1>3. box' \in Boxes \cup {None}
  BY DEF Boxes
<1> QED
  BY <1>t, <1>1, <1>2, <1>3, StepOK DEF DesktopTypeOK

LEMMA CreatesOK ==
  ASSUME DesktopIInv, NEW q \in Requests, AciCreate(q) \/ K8sCreate(q)
  PROVE  DesktopIInv'
<1>t. DesktopTypeOK
  BY DEF DesktopIInv
<1>1. call[q].pc = "make" /\ UNCHANGED <<mode, row>> /\ mode \in {"aci", "k8s"}
  BY DEF AciCreate, K8sCreate
<1>2. \/ box' = [id |-> ByName, up |-> TRUE] /\ MovesTo(q, "wait") /\ UNCHANGED muddled
      \/ GivesUp(q, None) /\ (UNCHANGED box \/ box' = [id |-> ByName, up |-> TRUE])
      \/ mode = "k8s" /\ box # None /\ MovesTo(q, "failed") /\ UNCHANGED <<box, muddled>>
  BY DEF AciCreate, K8sCreate
<1>3. CASE box' = [id |-> ByName, up |-> TRUE] /\ MovesTo(q, "wait") /\ UNCHANGED muddled
  BY <1>1, <1>3, CreatedOK
<1>4. CASE GivesUp(q, None) /\ (UNCHANGED box \/ box' = [id |-> ByName, up |-> TRUE])
  <2>1. [id |-> ByName, up |-> TRUE] \in Boxes /\ box \in Boxes \cup {None}
    BY <1>t, <1>1 DEF DesktopTypeOK, Boxes
  <2>2. box' \in Boxes \cup {None} /\ None \in Handles
    BY <1>4, <2>1 DEF Handles
  <2> QED
    BY <1>1, <1>4, <2>2, GivesUpOK
<1>5. CASE mode = "k8s" /\ box # None /\ MovesTo(q, "failed") /\ UNCHANGED <<box, muddled>>
  BY <1>1, <1>5, TakenOK
<1> QED
  BY <1>2, <1>3, <1>4, <1>5

LEMMA PollsOK ==
  ASSUME DesktopIInv, NEW q \in Requests, Polls(q)
  PROVE  DesktopIInv'
<1>t. DesktopTypeOK
  BY DEF DesktopIInv
<1>1. call[q].pc = "wait" /\ UNCHANGED <<mode, row, box>> /\ ByName \in Handles /\ ByName # None
  BY NoneElse DEF Polls, Handles
<1>2. CASE call' = [call EXCEPT ![q].pc = "made", ![q].info = ByName] /\ UNCHANGED muddled
  <2>1. /\ call' \in [Requests -> DesktopCalls] /\ OnlyMoves(q)
        /\ call'[q].pc = "made" /\ call'[q].copy = call[q].copy /\ call'[q].info = ByName
    BY <1>t, <1>1, <1>2, Onwards DEF CallPlaces
  <2>2. OneAtWork => Along(call[q])'
    BY <1>1, <2>1 DEF OneAtWork, Along
  <2> QED
    BY <1>t, <1>1, <1>2, <2>1, <2>2, StepOK DEF DesktopTypeOK
<1>3. CASE GivesUp(q, ByName)
  BY <1>t, <1>1, <1>3, GivesUpOK DEF DesktopTypeOK
<1> QED
  BY <1>2, <1>3 DEF Polls

LEMMA NotConfiguredOK ==
  ASSUME DesktopIInv, NEW q \in Requests, NotConfigured(q)
  PROVE  DesktopIInv'
BY GivesUpOK DEF NotConfigured, Handles, DesktopIInv, DesktopTypeOK

------------------------------------------------------------------------------
(* The row catches up with what was done.                                   *)

LEMMA StartedOK ==
  ASSUME DesktopIInv, NEW q \in Requests, Started(q)
  PROVE  DesktopIInv'
<1>t. DesktopTypeOK /\ row \in DesktopRows /\ call[q] \in DesktopCalls
  BY DEF DesktopIInv, DesktopTypeOK
<1> DEFINE new == [state |-> "running", handle |-> call[q].info, url |-> TRUE]
<1>1. new \in DesktopRows /\ call[q].copy \in DesktopRows
  BY <1>t DEF DesktopRows, DesktopCalls, States
<1>2. call[q].pc = "made" /\ row' = Written(q, new) /\ Ends(q) /\ UNCHANGED <<mode, box, muddled>>
  BY DEF Started
<1>3. row' \in DesktopRows /\ (call[q].copy = row => row' = new)
  BY <1>t, <1>1, <1>2, WrittenIs
<1>4. call' \in [Requests -> DesktopCalls] /\ OnlyMoves(q) /\ call'[q].pc = "idle"
  BY <1>t, <1>2, EndsIs
<1>5. ASSUME OneAtWork PROVE Along(call[q])' /\ Resting'
  <2>1. /\ row' = new /\ call[q].info # None
        /\ box' = [id |-> call[q].info, up |-> TRUE]
    BY <1>2, <1>3, <1>5 DEF OneAtWork, Along
  <2>2. Resting'
    BY <2>1 DEF Resting, Awake
  <2> QED
    BY <1>4, <2>2 DEF Along
<1> QED
  BY <1>t, <1>2, <1>3, <1>4, <1>5, StepOK DEF DesktopTypeOK

LEMMA FailedOK ==
  ASSUME DesktopIInv, NEW q \in Requests, Failed(q)
  PROVE  DesktopIInv'
<1>t. DesktopTypeOK /\ row \in DesktopRows /\ call[q] \in DesktopCalls
  BY DEF DesktopIInv, DesktopTypeOK
<1>1. call[q].copy \in DesktopRows /\ call[q].copy.handle \in Handles /\ call[q].info \in Handles
  BY <1>t DEF DesktopRows, DesktopCalls
<1>2. PICK h \in Handles :
        h = IF call[q].copy.state = "starting" /\ call[q].info # None
            THEN call[q].info ELSE call[q].copy.handle
  BY <1>1
<1>3. PICK new : new = [call[q].copy EXCEPT !.state = "error", !.handle = h]
  OBVIOUS
<1>4. new \in DesktopRows
  BY <1>1, <1>2, <1>3 DEF DesktopRows, States
<1>5. call[q].pc = "failed" /\ row' = Written(q, new) /\ Ends(q) /\ UNCHANGED <<mode, box, muddled>>
  BY <1>2, <1>3 DEF Failed
<1>6. row' \in DesktopRows
  BY <1>t, <1>1, <1>4, <1>5, WrittenIs
<1>7. call' \in [Requests -> DesktopCalls] /\ OnlyMoves(q) /\ call'[q].pc = "idle"
  BY <1>t, <1>5, EndsIs
<1>8. ~OneAtWork
  BY <1>5 DEF OneAtWork, Along
<1> QED
  BY <1>t, <1>5, <1>6, <1>7, <1>8, StepOK DEF DesktopTypeOK

\* A driver finds the computer of a call that is alone, if there is one.
LEMMA FindsIt ==
  ASSUME DesktopTypeOK, OneAtWork, NEW q \in Requests, call[q].pc # "idle",
         box # None, row.handle = box.id
  PROVE  Finds(q)
<1>1. call[q].copy = row
  BY DEF OneAtWork, Along
<1>2. box.id # None
  BY NoneElse DEF DesktopTypeOK, Boxes
<1> QED
  BY <1>1, <1>2 DEF Finds

\* Where a teardown goes, and that alone it takes the computer with it.
LEMMA TearsDownOK ==
  ASSUME DesktopIInv, NEW q \in Requests,
         \/ call[q].pc = "stop" /\ TearsDown(q, "stopped")
         \/ mode = "k8s" /\ call[q].pc = "suspend" /\ TearsDown(q, "parked")
  PROVE  DesktopIInv'
<1>t. DesktopTypeOK
  BY DEF DesktopIInv
<1>1. PICK next \in {"stopped", "parked"} :
        /\ TearsDown(q, next)
        /\ next = "stopped" => call[q].pc = "stop"
        /\ next = "parked" => mode = "k8s" /\ call[q].pc = "suspend"
  OBVIOUS
<1>2. call' = [call EXCEPT ![q].pc = next] /\ UNCHANGED <<mode, row>> /\ call[q].pc # "idle"
  BY <1>1 DEF TearsDown, MovesTo
<1>3. /\ call' \in [Requests -> DesktopCalls] /\ OnlyMoves(q)
      /\ call'[q].pc = next /\ call'[q].copy = call[q].copy
  BY <1>t, <1>2, Onwards DEF CallPlaces
<1>4. ASSUME box' = IF Finds(q) THEN None ELSE box, UNCHANGED muddled
      PROVE  DesktopIInv'
  <2>1. ASSUME OneAtWork PROVE Along(call[q])'
    <3>1. call[q].copy = row /\ Along(call[q])
      BY <1>2, <2>1 DEF OneAtWork, Along
    <3>2. box # None => row.handle = box.id
      BY <1>1, <3>1 DEF Along, Resting, Awake, Asleep
    <3>3. box' = None
      BY <1>t, <1>2, <1>4, <2>1, <3>2, FindsIt
    <3>4. ASSUME next = "parked" PROVE Asleep'
      BY <1>1, <1>2, <3>3, <3>4 DEF Asleep
    <3> QED
      BY <1>1, <1>2, <1>3, <3>1, <3>3, <3>4 DEF Along
  <2>2. box' \in Boxes \cup {None}
    BY <1>t, <1>4 DEF DesktopTypeOK
  <2> QED
    BY <1>t, <1>2, <1>3, <1>4, <2>1, <2>2, StepOK DEF DesktopTypeOK
<1>5. ASSUME UNCHANGED box, muddled' = TRUE
      PROVE  DesktopIInv'
  BY <1>t, <1>2, <1>3, <1>5, MuddledOK DEF DesktopTypeOK
<1> QED
  BY <1>1, <1>4, <1>5 DEF TearsDown

LEMMA StoppedOK ==
  ASSUME DesktopIInv, NEW q \in Requests, Stopped(q)
  PROVE  DesktopIInv'
<1>t. DesktopTypeOK /\ row \in DesktopRows /\ call[q].copy \in DesktopRows
  BY DEF DesktopIInv, DesktopTypeOK, DesktopCalls
<1>1. Absent \in DesktopRows /\ Absent.state = "absent" /\ Absent.handle = None
  BY DEF Absent, DesktopRows, States, Handles
<1>2. call[q].pc = "stopped" /\ row' = Written(q, Absent) /\ Ends(q) /\ UNCHANGED <<mode, box, muddled>>
  BY DEF Stopped
<1>3. row' \in DesktopRows /\ (call[q].copy = row => row' = Absent)
  BY <1>t, <1>1, <1>2, WrittenIs
<1>4. call' \in [Requests -> DesktopCalls] /\ OnlyMoves(q) /\ call'[q].pc = "idle"
  BY <1>t, <1>2, EndsIs
<1>5. ASSUME OneAtWork PROVE Along(call[q])' /\ Resting'
  <2>1. row' = Absent /\ box' = None
    BY <1>2, <1>3, <1>5 DEF OneAtWork, Along
  <2>2. Resting'
    BY <1>1, <2>1 DEF Resting
  <2> QED
    BY <1>4, <2>2 DEF Along
<1> QED
  BY <1>t, <1>2, <1>3, <1>4, <1>5, StepOK DEF DesktopTypeOK

------------------------------------------------------------------------------
(* Suspending and resuming in place.                                        *)

\* Putting the computer to sleep in place.
LEMMA PausedOK ==
  ASSUME DesktopIInv, NEW q \in Requests, call[q].pc = "suspend", mode # "k8s",
         box' = IF Finds(q) THEN [box EXCEPT !.up = FALSE] ELSE box,
         MovesTo(q, "parked"), UNCHANGED <<mode, row, muddled>>
  PROVE  DesktopIInv'
<1>t. DesktopTypeOK /\ box \in Boxes \cup {None} /\ row \in DesktopRows
  BY DEF DesktopIInv, DesktopTypeOK
<1>1. /\ call' \in [Requests -> DesktopCalls] /\ OnlyMoves(q)
      /\ call'[q].pc = "parked" /\ call'[q].copy = call[q].copy
  BY <1>t, Onwards DEF MovesTo, CallPlaces
<1>2. /\ box' \in Boxes \cup {None}
      /\ Finds(q) => box' = [id |-> box.id, up |-> FALSE]
  BY <1>t DEF Finds, Boxes
<1>3. ASSUME OneAtWork PROVE Along(call[q])'
  <2>1. call[q].copy = row /\ Resting
    BY <1>3 DEF OneAtWork, Along
  <2>2. box # None => row.handle = box.id
    BY <2>1 DEF Resting, Awake, Asleep
  <2>3. box # None => box' = [id |-> row.handle, up |-> FALSE]
    BY <1>t, <1>2, <1>3, <2>2, FindsIt
  <2>4. /\ row.handle = None => box = None
        /\ row.handle # None => box # None /\ (mode = "docker" => row.url)
    <3>1. row.handle # None => row.handle \in Ids \cup {ByName}
      BY <1>t DEF DesktopRows, Handles
    <3>2. row.handle # None => \A up \in BOOLEAN : [id |-> row.handle, up |-> up] # None
      BY <3>1, NoneElse
    <3> QED
      BY <2>1, <3>2 DEF Resting, Awake, Asleep
  <2>5. box = None => box' = None
    BY DEF Finds
  <2>6. Asleep'
    BY <2>3, <2>4, <2>5 DEF Asleep
  <2> QED
    BY <1>1, <2>1, <2>6 DEF Along
<1> QED
  BY <1>t, <1>1, <1>2, <1>3, StepOK

LEMMA DockerPauseOK ==
  ASSUME DesktopIInv, NEW q \in Requests, DockerPause(q)
  PROVE  DesktopIInv'
<1>t. DesktopTypeOK
  BY DEF DesktopIInv
<1>1. /\ mode = "docker" /\ call[q].pc = "suspend" /\ MovesTo(q, "parked")
      /\ UNCHANGED <<mode, row>>
  BY DEF DockerPause
<1>2. ASSUME box' = IF Finds(q) THEN [box EXCEPT !.up = FALSE] ELSE box, UNCHANGED muddled
      PROVE  DesktopIInv'
  BY <1>1, <1>2, PausedOK
<1>3. ASSUME UNCHANGED box, muddled' = TRUE
      PROVE  DesktopIInv'
  <2>1. call' \in [Requests -> DesktopCalls]
    BY <1>t, <1>1, Onwards DEF MovesTo, CallPlaces
  <2> QED
    BY <1>t, <1>1, <1>3, <2>1, MuddledOK DEF DesktopTypeOK
<1> QED
  BY <1>2, <1>3 DEF DockerPause

\* A group that is not found: the call was not alone.
LEMMA LostOK ==
  ASSUME DesktopIInv, NEW q \in Requests, call[q].pc # "idle", ~OneAtWork,
         MovesTo(q, "failed"), UNCHANGED <<mode, row, box, muddled>>
  PROVE  DesktopIInv'
<1>t. DesktopTypeOK
  BY DEF DesktopIInv
<1>1. call' \in [Requests -> DesktopCalls] /\ OnlyMoves(q)
  BY <1>t, Onwards DEF MovesTo, CallPlaces
<1> QED
  BY <1>t, <1>1, StepOK DEF DesktopTypeOK

LEMMA AciStopGroupOK ==
  ASSUME DesktopIInv, NEW q \in Requests, AciStopGroup(q)
  PROVE  DesktopIInv'
<1>t. DesktopTypeOK /\ row \in DesktopRows
  BY DEF DesktopIInv, DesktopTypeOK
<1>1. mode = "aci" /\ call[q].pc = "suspend" /\ UNCHANGED <<mode, row>>
  BY DEF AciStopGroup
<1>2. ASSUME box' = IF Finds(q) THEN [box EXCEPT !.up = FALSE] ELSE box,
             MovesTo(q, "parked"), UNCHANGED muddled
      PROVE  DesktopIInv'
  BY <1>1, <1>2, PausedOK
<1>3. ASSUME call[q].copy.handle # None, box = None, MovesTo(q, "failed"), UNCHANGED <<box, muddled>>
      PROVE  DesktopIInv'
  <2>1. ASSUME OneAtWork PROVE FALSE
    <3>1. row.handle # None /\ Resting
      BY <1>1, <1>3, <2>1 DEF OneAtWork, Along
    <3>2. \A up \in BOOLEAN : [id |-> row.handle, up |-> up] # None
      BY <1>t, <3>1, NoneElse DEF DesktopRows, Handles
    <3> QED
      BY <1>1, <1>3, <3>1, <3>2 DEF Resting, Awake, Asleep
  <2> QED
    BY <1>1, <1>3, <2>1, LostOK
<1>4. ASSUME GivesUp(q, None), UNCHANGED box
      PROVE  DesktopIInv'
  BY <1>t, <1>1, <1>4, GivesUpOK DEF DesktopTypeOK, Handles
<1> QED
  BY <1>2, <1>3, <1>4 DEF AciStopGroup

LEMMA SuspendedOK ==
  ASSUME DesktopIInv, NEW q \in Requests, Suspended(q)
  PROVE  DesktopIInv'
<1>t. DesktopTypeOK /\ row \in DesktopRows /\ call[q].copy \in DesktopRows
  BY DEF DesktopIInv, DesktopTypeOK, DesktopCalls
<1>1. PICK u \in BOOLEAN :
        u <=> call[q].copy.url /\ (mode = "docker" \/ call[q].copy.handle = None)
  OBVIOUS
<1>2. PICK new : new = [call[q].copy EXCEPT !.state = "suspended", !.url = u]
  OBVIOUS
<1>3. /\ new \in DesktopRows /\ new.state = "suspended" /\ new.handle = call[q].copy.handle
      /\ new.url = u
  BY <1>t, <1>1, <1>2 DEF DesktopRows, States
<1>4. u = (call[q].copy.url /\ (mode = "docker" \/ call[q].copy.handle = None))
  BY <1>t, <1>1, RowIs
<1>5. call[q].pc = "parked" /\ row' = Written(q, new) /\ Ends(q) /\ UNCHANGED <<mode, box, muddled>>
  BY <1>2, <1>4 DEF Suspended
<1>6. row' \in DesktopRows /\ (call[q].copy = row => row' = new)
  BY <1>t, <1>3, <1>5, WrittenIs
<1>7. call' \in [Requests -> DesktopCalls] /\ OnlyMoves(q) /\ call'[q].pc = "idle"
  BY <1>t, <1>5, EndsIs
<1>8. ASSUME OneAtWork PROVE Along(call[q])' /\ Resting'
  <2>1. call[q].copy = row /\ Asleep
    BY <1>5, <1>8 DEF OneAtWork, Along
  <2>2. row'.state = "suspended" /\ row'.handle = row.handle /\ (mode = "docker" /\ row.url => row'.url)
    BY <1>1, <1>3, <1>6, <2>1
  <2>3. Asleep'
    BY <1>5, <2>1, <2>2 DEF Asleep
  <2> QED
    BY <1>7, <2>2, <2>3 DEF Along, Resting
<1> QED
  BY <1>t, <1>5, <1>6, <1>7, <1>8, StepOK DEF DesktopTypeOK

\* The computer a call that is alone wakes up is there.
LEMMA WakesIt ==
  ASSUME DesktopTypeOK, OneAtWork, NEW q \in Requests, call[q].pc = "resume"
  PROVE  Finds(q) /\ box.id = row.handle /\ (mode = "docker" => row.url)
<1>1. row \in DesktopRows /\ Asleep /\ row.handle # None /\ mode # "k8s"
  BY DEF DesktopTypeOK, OneAtWork, Along
<1>2. row.handle \in Ids \cup {ByName}
  BY <1>1 DEF DesktopRows, Handles
<1>3. box = [id |-> row.handle, up |-> FALSE] /\ (mode = "docker" => row.url)
  BY <1>1 DEF Asleep
<1>4. box # None
  BY <1>2, <1>3, NoneElse
<1>5. box.id = row.handle
  BY <1>3
<1> QED
  BY <1>3, <1>4, <1>5, FindsIt

LEMMA DockerUnpauseOK ==
  ASSUME DesktopIInv, NEW q \in Requests, DockerUnpause(q)
  PROVE  DesktopIInv'
<1>t. DesktopTypeOK /\ box \in Boxes \cup {None}
  BY DEF DesktopIInv, DesktopTypeOK
<1>1. mode = "docker" /\ call[q].pc = "resume" /\ UNCHANGED <<mode, row>>
  BY DEF DockerUnpause, Wakes
<1>2. ASSUME Finds(q), box' = [box EXCEPT !.up = TRUE], MovesTo(q, "woken"), UNCHANGED muddled
      PROVE  DesktopIInv'
  <2>1. /\ call' \in [Requests -> DesktopCalls] /\ OnlyMoves(q)
        /\ call'[q].pc = "woken" /\ call'[q].copy = call[q].copy
    BY <1>t, <1>2, Onwards DEF MovesTo, CallPlaces
  <2>2. box' \in Boxes /\ box' = [id |-> box.id, up |-> TRUE]
    BY <1>t, <1>2 DEF Finds, Boxes
  <2>3. ASSUME OneAtWork PROVE Along(call[q])'
    <3>1. call[q].copy = row /\ row.handle # None
      BY <1>1, <2>3 DEF OneAtWork, Along
    <3>2. Awake'
      BY <1>t, <1>1, <2>2, <2>3, <3>1, WakesIt DEF Awake
    <3> QED
      BY <1>1, <2>1, <3>1, <3>2 DEF Along
  <2> QED
    BY <1>t, <1>1, <1>2, <2>1, <2>2, <2>3, StepOK DEF DesktopTypeOK
<1>3. ASSUME ~Finds(q), MovesTo(q, "failed"), UNCHANGED <<box, muddled>>
      PROVE  DesktopIInv'
  BY <1>t, <1>1, <1>3, WakesIt, LostOK
<1>4. ASSUME GivesUp(q, None), UNCHANGED box
      PROVE  DesktopIInv'
  BY <1>t, <1>1, <1>4, GivesUpOK DEF DesktopTypeOK, Handles
<1> QED
  BY <1>2, <1>3, <1>4 DEF DockerUnpause, Wakes

LEMMA AciStartGroupOK ==
  ASSUME DesktopIInv, NEW q \in Requests, AciStartGroup(q)
  PROVE  DesktopIInv'
<1>t. DesktopTypeOK /\ box \in Boxes \cup {None}
  BY DEF DesktopIInv, DesktopTypeOK
<1>1. mode = "aci" /\ call[q].pc = "resume" /\ UNCHANGED <<mode, row>>
  BY DEF AciStartGroup, Wakes
<1>2. ASSUME Finds(q), box' = [box EXCEPT !.up = TRUE], MovesTo(q, "wait"), UNCHANGED muddled
      PROVE  DesktopIInv'
  <2>1. box' = [id |-> ByName, up |-> TRUE]
    BY <1>t, <1>1, <1>2 DEF Finds, Boxes
  <2> QED
    BY <1>1, <1>2, <2>1, CreatedOK
<1>3. ASSUME ~Finds(q), MovesTo(q, "failed"), UNCHANGED <<box, muddled>>
      PROVE  DesktopIInv'
  BY <1>t, <1>1, <1>3, WakesIt, LostOK
<1>4. ASSUME GivesUp(q, None), UNCHANGED box
      PROVE  DesktopIInv'
  BY <1>t, <1>1, <1>4, GivesUpOK DEF DesktopTypeOK, Handles
<1> QED
  BY <1>2, <1>3, <1>4 DEF AciStartGroup, Wakes

LEMMA WokenOK ==
  ASSUME DesktopIInv, NEW q \in Requests, Woken(q)
  PROVE  DesktopIInv'
<1>t. DesktopTypeOK /\ row \in DesktopRows /\ call[q].copy \in DesktopRows
  BY DEF DesktopIInv, DesktopTypeOK, DesktopCalls
<1>1. PICK new : new = [call[q].copy EXCEPT !.state = "running"]
  OBVIOUS
<1>2. /\ new \in DesktopRows /\ new.state = "running" /\ new.handle = call[q].copy.handle
      /\ new.url = call[q].copy.url
  BY <1>t, <1>1 DEF DesktopRows, States
<1>3. call[q].pc = "woken" /\ row' = Written(q, new) /\ Ends(q) /\ UNCHANGED <<mode, box, muddled>>
  BY <1>1 DEF Woken
<1>4. row' \in DesktopRows /\ (call[q].copy = row => row' = new)
  BY <1>t, <1>2, <1>3, WrittenIs
<1>5. call' \in [Requests -> DesktopCalls] /\ OnlyMoves(q) /\ call'[q].pc = "idle"
  BY <1>t, <1>3, EndsIs
<1>6. ASSUME OneAtWork PROVE Along(call[q])' /\ Resting'
  <2>1. call[q].copy = row /\ Awake
    BY <1>3, <1>6 DEF OneAtWork, Along
  <2>2. row'.state = "running" /\ row'.handle = row.handle /\ row'.url = row.url
    BY <1>2, <1>4, <2>1
  <2>3. Awake'
    BY <1>3, <2>1, <2>2 DEF Awake
  <2> QED
    BY <1>5, <2>2, <2>3 DEF Along, Resting
<1> QED
  BY <1>t, <1>3, <1>4, <1>5, <1>6, StepOK DEF DesktopTypeOK

LEMMA K8sParkOK ==
  ASSUME DesktopIInv, NEW q \in Requests, K8sPark(q)
  PROVE  DesktopIInv'
<1>t. DesktopTypeOK /\ box \in Boxes \cup {None}
  BY DEF DesktopIInv, DesktopTypeOK
<1>1. mode = "k8s" /\ call[q].pc = "suspend"
  BY DEF K8sPark
<1>2. CASE TearsDown(q, "parked")
  BY <1>1, <1>2, TearsDownOK
<1>3. CASE GivesUp(q, None) /\ UNCHANGED <<mode, row, box>>
  BY <1>t, <1>3, GivesUpOK DEF DesktopTypeOK, Handles
<1> QED
  BY <1>2, <1>3 DEF K8sPark

LEMMA DiesOK ==
  ASSUME DesktopIInv, NEW q \in Requests, Dies(q)
  PROVE  DesktopIInv'
<1>t. DesktopTypeOK /\ box \in Boxes \cup {None}
  BY DEF DesktopIInv, DesktopTypeOK
<1>1. Ends(q) /\ muddled' = TRUE /\ UNCHANGED <<mode, row, box>>
  BY DEF Dies
<1> QED
  BY <1>t, <1>1, EndsIs, MuddledOK

------------------------------------------------------------------------------
LEMMA DesktopNextOK == DesktopIInv /\ [DesktopNext]_desktopVars => DesktopIInv'
<1> SUFFICES ASSUME DesktopIInv, [DesktopNext]_desktopVars
             PROVE  DesktopIInv'
  OBVIOUS
<1>1. CASE UNCHANGED desktopVars
  BY <1>1 DEF desktopVars, DesktopIInv, DesktopTypeOK, OneAtWork, AtMostOne, Along, Resting,
              Asleep, Awake, Quiet, Boxes
<1>2. ASSUME NEW q \in Requests,
             \/ Start(q) \/ NotConfigured(q) \/ Started(q) \/ Failed(q)
             \/ Stop(q) \/ Stopped(q) \/ Suspend(q) \/ Suspended(q) \/ Resume(q) \/ Woken(q)
      PROVE  DesktopIInv'
  BY <1>2, StartOK, NotConfiguredOK, StartedOK, FailedOK, StopOK, StoppedOK, SuspendOK,
     SuspendedOK, ResumeOK, WokenOK
<1>3. ASSUME NEW q \in Requests,
             \/ DockerClear(q) \/ DockerRun(q) \/ DockerStop(q) \/ DockerPause(q)
             \/ DockerUnpause(q)
      PROVE  DesktopIInv'
  BY <1>3, RemovesOK, DockerRunOK, TearsDownOK, DockerPauseOK, DockerUnpauseOK
     DEF DockerClear, DockerStop
<1>4. ASSUME NEW q \in Requests,
             \/ AciCreate(q) \/ AciPoll(q) \/ AciDelete(q) \/ AciStopGroup(q)
             \/ AciStartGroup(q)
      PROVE  DesktopIInv'
  BY <1>4, CreatesOK, PollsOK, TearsDownOK, AciStopGroupOK, AciStartGroupOK
     DEF AciPoll, AciDelete
<1>5. ASSUME NEW q \in Requests,
             \/ K8sClear(q) \/ K8sCreate(q) \/ K8sPoll(q) \/ K8sDelete(q) \/ K8sPark(q)
             \/ Dies(q)
      PROVE  DesktopIInv'
  BY <1>5, RemovesOK, CreatesOK, PollsOK, TearsDownOK, K8sParkOK, DiesOK
     DEF K8sClear, K8sPoll, K8sDelete
<1> QED
  BY <1>1, <1>2, <1>3, <1>4, <1>5 DEF DesktopNext

\* While no call has met another, no driver has failed and no request has died since the
\* last start that worked alone, the row tells a call what is there: every call in flight
\* reads the row as it still is, and its driver finds the computer the row names
\* (desktop.py).
THEOREM DesktopTypes == DesktopSpec => []DesktopIInv
<1> QED
  BY DesktopInitOK, DesktopNextOK, PTL DEF DesktopSpec

\* A row that says running, with a handle and nobody at work on it, names a computer that
\* runs and its address: for every number of requests, whatever calls came before, and
\* for each of the three drivers (start_desktop, resume_desktop).
THEOREM RunningDesktopsServe == DesktopSpec => []RunningIsServed
<1>1. DesktopIInv => RunningIsServed
  BY DEF DesktopIInv, RunningIsServed, Settled, OneAtWork, Resting, Awake
<1> QED
  BY <1>1, DesktopTypes, PTL

\* Nothing runs, and costs, behind a row that is absent or suspended: for every number of
\* requests, and for each of the three drivers (stop_desktop, suspend_desktop).
THEOREM NothingIsLeft == DesktopSpec => []NothingLeftBehind
<1>1. DesktopIInv => NothingLeftBehind
  <2> SUFFICES ASSUME DesktopIInv, Settled
               PROVE  /\ row.state = "absent" => box = None
                      /\ row.state = "suspended" => (box # None => ~box.up)
    BY DEF NothingLeftBehind
  <2>1. Resting
    BY DEF DesktopIInv, Settled, OneAtWork
  <2> QED
    BY <2>1 DEF Resting, Asleep
<1> QED
  BY <1>1, DesktopTypes, PTL
==============================================================================
