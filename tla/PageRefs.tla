-------------------------------- MODULE PageRefs --------------------------------
(***************************************************************************)
(* A bot's steps in a page: the listing it reads, the references it acts   *)
(* by, the gate that judges a step by the label of its element, the        *)
(* sidecar that turns a reference back into an element, and the second     *)
(* look taken when a reference has gone stale or a person has said yes.    *)
(* The page changes by itself between any two steps. One tab; a role and   *)
(* an accessible name are one label; the one click stands for every op     *)
(* that takes a reference.                                                 *)
(***************************************************************************)
EXTENDS Naturals, Sequences, FiniteSets, Functions

CONSTANTS
    Nodes,        \* a set of numbers: the places of a document that may hold an element
    Frames,       \* the frames of a page, each a set of places
    MaxEvents,    \* bound: documents loaded, changes within one, restarts of the sidecar
    MaxSnaps,     \* bound: listings made by one life of the sidecar
    KeepSnaps,    \* SNAPSHOT_KEEP
    Memory        \* BROWSER_SNAPSHOT_MEMORY

ASSUME PageRefsAssumption ==
    /\ Nodes \subseteq Nat \ {0} /\ IsFiniteSet(Nodes)
    /\ Frames \subseteq SUBSET Nodes /\ MaxEvents \in Nat
    /\ {MaxSnaps, KeepSnaps, Memory} \subseteq Nat \ {0}

VARIABLES
    page,     \* the tab
    sidecar,  \* what the sidecar remembers of its listings
    memory,   \* AgentSession.browser_snapshots, oldest first
    step,     \* the step or the read in hand
    look      \* the listing being made

vars == <<page, sidecar, memory, step, look>>

------------------------------------------------------------------------------
Labels == {"next", "send"}          \* a label that means nothing, one that sends
Urls   == {"here", "there"}
MaxRef == MaxSnaps * Cardinality(Nodes)

NoStep == [pc |-> "idle", ref |-> 0, pin |-> 0, label |-> "none", url |-> "none",
           life |-> 0, approved |-> FALSE, again |-> FALSE, node |-> 0, inputs |-> 0]
NoLook == [doc |-> 0, shows |-> [n \in Nodes |-> "none"], list |-> {}, partial |-> FALSE,
           missed |-> {}]

NewSidecar == [snaps |-> <<>>, lastRef |-> 0, lastSnap |-> 0]

Init ==
    /\ \E shows \in [Nodes -> Labels \cup {"none"}] :
          page = [doc |-> 0, url |-> "here", shows |-> shows, changes |-> 0, restarts |-> 0]
    /\ sidecar = NewSidecar
    /\ memory = <<>>
    /\ step = NoStep
    /\ look = NoLook

------------------------------------------------------------------------------
(* The page, which does as it likes                                        *)

MayHappen == page.doc + page.changes + page.restarts < MaxEvents

\* The person at the screen, a script or a redirect loads another document.
Navigates ==
    /\ MayHappen
    /\ \E url \in Urls, shows \in [Nodes -> Labels \cup {"none"}] :
          page' = [page EXCEPT !.doc = @ + 1, !.url = url, !.shows = shows]
    /\ UNCHANGED <<sidecar, memory, step, look>>

\* A script renames, adds or removes an element, or rewrites the address.
Changes ==
    /\ MayHappen
    /\ \/ \E n \in Nodes, label \in Labels \cup {"none"} :
             page' = [page EXCEPT !.shows[n] = label, !.changes = @ + 1]
       \/ \E url \in Urls : page' = [page EXCEPT !.url = url, !.changes = @ + 1]
    /\ UNCHANGED <<sidecar, memory, step, look>>

\* The supervisor restarts the sidecar, and Chromium goes on; a call in flight is answered as unreachable.
Restarts ==
    /\ MayHappen
    /\ page' = [page EXCEPT !.restarts = @ + 1]
    /\ sidecar' = NewSidecar
    /\ step' = IF step.pc = "held" THEN step ELSE NoStep
    /\ look' = NoLook
    /\ UNCHANGED memory

------------------------------------------------------------------------------
(* Listing the page                                                        *)

\* Nobody sees more of a page than the walk over its elements returned.
Begun == [NoLook EXCEPT !.doc = page.doc]

\* browser_snapshot: the document is identified first ...
Reads ==
    /\ step.pc = "idle" /\ sidecar.lastSnap < MaxSnaps
    /\ step' = [NoStep EXCEPT !.pc = "reading"]
    /\ look' = Begun
    /\ UNCHANGED <<page, sidecar, memory>>

Bearing(label) == {n \in Nodes : page.shows[n] = label}

\* ... then its elements are collected, frame by frame. The model may ask for part of the
\* page; a second look asks for everything that bears the label, and may be cut short,
\* which it says. A frame whose elements could not be collected is left out, and of that
\* nothing is said.
Collects ==
    /\ step.pc \in {"reading", "looking"}
    /\ \E errors \in SUBSET Frames :
          LET missed == UNION errors
              there  == (IF step.pc = "reading" THEN Bearing("next") \cup Bearing("send")
                         ELSE Bearing(step.label)) \ missed
          IN \E list \in SUBSET there, partial \in BOOLEAN :
                /\ step.pc = "looking" /\ list # there => partial
                /\ step.pc = "reading" => ~partial
                /\ look' = [look EXCEPT !.shows = page.shows, !.list = list,
                                        !.partial = partial, !.missed = missed]
    /\ step' = [step EXCEPT !.pc = IF @ = "reading" THEN "read" ELSE "looked"]
    /\ UNCHANGED <<page, sidecar, memory>>

\* References are numbered on, in document order, and never again.
Minted ==
    {[ref |-> sidecar.lastRef + Cardinality({m \in look.list : m <= n}),
      node |-> n, label |-> look.shows[n]] : n \in look.list}

Newest(s, k) == SubSeq(s, IF Len(s) > k THEN Len(s) - k + 1 ELSE 1, Len(s))

Stored ==
    [snaps |-> Newest(Append(sidecar.snaps,
                             [id |-> sidecar.lastSnap + 1, doc |-> look.doc, refs |-> Minted]),
                      KeepSnaps),
     lastRef |-> sidecar.lastRef + Cardinality(look.list),
     lastSnap |-> sidecar.lastSnap + 1]

\* The address reported is the one the tab has by then. The loop remembers what each
\* reference was (and, a history, in which life of the sidecar it was minted).
HasRead ==
    /\ step.pc = "read"
    /\ sidecar' = Stored
    /\ memory' = Newest(Append(memory, [id |-> sidecar.lastSnap + 1, life |-> page.restarts,
                                        url |-> page.url,
                                        refs |-> {[ref |-> e.ref, label |-> e.label] : e \in Minted}]),
                        Memory)
    /\ step' = NoStep
    /\ look' = NoLook
    /\ UNCHANGED page

\* The model goes to another page: the sidecar forgets the references of the tab.
Goes ==
    /\ step.pc = "idle" /\ MayHappen
    /\ \E url \in Urls, shows \in [Nodes -> Labels \cup {"none"}] :
          page' = [page EXCEPT !.doc = @ + 1, !.url = url, !.shows = shows]
    /\ sidecar' = [sidecar EXCEPT !.snaps = <<>>]
    /\ step' = NoStep
    /\ UNCHANGED <<memory, look>>

------------------------------------------------------------------------------
(* Proposing a step, and the gate                                          *)

Remembers(s, ref) == \E r \in s.refs : r.ref = ref

\* The newest listing that minted the reference says what it is called, where it was, and
\* which listing the sidecar must find it in. Nothing is said of a reference none minted.
Annotated(ref) ==
    LET known == {i \in DOMAIN memory : Remembers(memory[i], ref)} IN
    IF known = {} THEN [NoStep EXCEPT !.ref = ref]
    ELSE LET s == memory[CHOOSE i \in known : \A j \in known : j <= i] IN
         [NoStep EXCEPT !.ref = ref, !.pin = s.id, !.url = s.url, !.life = s.life,
                        !.label = (CHOOSE r \in s.refs : r.ref = ref).label]

\* A step that was approved is aimed anew, if anything is known to aim by.
Approved(s) ==
    /\ s.label # "none" => sidecar.lastSnap < MaxSnaps
    /\ step' = [s EXCEPT !.approved = TRUE, !.pc = IF s.label = "none" THEN "calling" ELSE "looking"]
    /\ look' = IF s.label = "none" THEN NoLook ELSE Begun

\* The model names any reference, and may declare a risk the label does not show. A step
\* that sends is held, and ends the leg with its memory, or is covered by a permission.
Proposes(ref) ==
    /\ step.pc = "idle"
    /\ \E declared \in BOOLEAN : LET s == Annotated(ref) IN
          IF declared \/ s.label = "send"
          THEN \/ /\ step' = [s EXCEPT !.pc = "held"]
                  /\ memory' = <<>>
                  /\ UNCHANGED look
               \/ Approved(s) /\ UNCHANGED memory
          ELSE /\ step' = [s EXCEPT !.pc = "calling"]
               /\ UNCHANGED <<memory, look>>
    /\ UNCHANGED <<page, sidecar>>

\* A person decides, whenever they get to it.
Decided ==
    /\ step.pc = "held"
    /\ \/ Approved(step)
       \/ step' = NoStep /\ UNCHANGED look
    /\ UNCHANGED <<page, sidecar, memory>>

------------------------------------------------------------------------------
(* Acting by reference                                                     *)

\* The listing that holds the reference, if one does; whether it is the one pinned, of the
\* document in the tab; and whether the element still is what it was listed as.
Listings   == {s \in Range(sidecar.snaps) : \E e \in s.refs : e.ref = step.ref}
Element(s) == CHOOSE e \in s.refs : e.ref = step.ref
IsPinned(s)  == step.pin \in {0, s.id}
IsCurrent(s) == s.doc = page.doc
StillIs(e)   == page.shows[e.node] = e.label

\* Mutant: what the element has become is not asked again.
ResolvesAttached ==
    /\ step.pc = "calling"
    /\ \E s \in Listings :
          /\ IsPinned(s) /\ IsCurrent(s) /\ page.shows[Element(s).node] # "none"
          /\ step' = [step EXCEPT !.pc = "aimed", !.node = Element(s).node]
    /\ UNCHANGED <<page, sidecar, memory, look>>

Resolves ==
    /\ step.pc = "calling"
    /\ \E s \in Listings :
          /\ IsPinned(s) /\ IsCurrent(s) /\ StillIs(Element(s))
          /\ step' = [step EXCEPT !.pc = "aimed", !.node = Element(s).node]
    /\ UNCHANGED <<page, sidecar, memory, look>>

\* stale_ref or unknown_ref, before anything was done. A listing of another document
\* takes the tab's references with it.
Refuses ==
    /\ step.pc = "calling"
    /\ \A s \in Listings : ~(IsPinned(s) /\ IsCurrent(s) /\ StillIs(Element(s)))
    /\ sidecar' = IF \E s \in Listings : IsPinned(s) /\ ~IsCurrent(s)
                  THEN [sidecar EXCEPT !.snaps = <<>>] ELSE sidecar
    /\ step' = [step EXCEPT !.pc = "refused"]
    /\ UNCHANGED <<page, memory, look>>

\* A refused reference is looked for again, once, by what it was called.
Recovers ==
    /\ step.pc = "refused"
    /\ IF step.approved \/ step.again \/ step.label = "none" \/ sidecar.lastSnap = MaxSnaps
       THEN step' = NoStep /\ UNCHANGED look
       ELSE /\ step' = [step EXCEPT !.pc = "looking", !.again = TRUE]
            /\ look' = Begun
    /\ UNCHANGED <<page, sidecar, memory>>

\* Mutant: the only match of a listing cut short counts as the only one.
FoundAnyway(matches) == page.url = step.url /\ Cardinality(matches) = 1

\* The one element of that label, provably the only one, on the page it was on.
Found(matches) == page.url = step.url /\ Cardinality(matches) = 1 /\ ~look.partial

\* The second look is stored like any other; the loop never hears of its references.
HasLooked ==
    /\ step.pc = "looked"
    /\ sidecar' = Stored
    /\ step' = IF Found(look.list)
               THEN [step EXCEPT !.pc = "calling", !.pin = sidecar.lastSnap + 1,
                                 !.life = page.restarts,
                                 !.ref = (CHOOSE e \in Minted : TRUE).ref]
               ELSE NoStep
    /\ look' = NoLook
    /\ UNCHANGED <<page, memory>>

Over(inputs) == [NoStep EXCEPT !.inputs = inputs]

\* Mutant: a call that gave no answer is made again.
ActsAgain ==
    /\ step.pc = "aimed"
    /\ \/ step' = Over(step.inputs + 1)
       \/ ~step.again /\ step' = [step EXCEPT !.pc = "calling", !.again = TRUE, !.inputs = @ + 1]
    /\ UNCHANGED <<page, sidecar, memory, look>>

\* The input is dispatched, whatever is then heard of it: an answer, a timeout, an error.
Acts ==
    /\ step.pc = "aimed"
    /\ step' = Over(step.inputs + 1)
    /\ UNCHANGED <<page, sidecar, memory, look>>

\* Covered, off screen, disabled: refused before the input. An approved step on an
\* element that is not covered is scrolled to and tried once more.
NotActionable ==
    /\ step.pc = "aimed"
    /\ \/ step' = Over(step.inputs)
       \/ /\ step.approved /\ step.label # "none" /\ ~step.again
          /\ step' = [step EXCEPT !.pc = "calling", !.again = TRUE, !.node = 0]
    /\ UNCHANGED <<page, sidecar, memory, look>>

\* The sidecar cannot be reached, or the browser does not answer: no second attempt.
CallFails ==
    /\ step.pc \in {"reading", "looking", "calling", "aimed"}
    /\ step' = Over(step.inputs)
    /\ look' = NoLook
    /\ UNCHANGED <<page, sidecar, memory>>

------------------------------------------------------------------------------
Next ==
    \/ Navigates \/ Changes \/ Restarts
    \/ Reads \/ Collects \/ HasRead \/ Goes
    \/ (\E ref \in 1 .. MaxRef : Proposes(ref)) \/ Decided
    \/ Resolves \/ Refuses \/ Recovers \/ HasLooked
    \/ Acts \/ NotActionable \/ CallFails

Spec == Init /\ [][Next]_vars

------------------------------------------------------------------------------
\* What the gate judged is what is acted on: an element the sidecar lets a labelled step
\* act on bears that label at that moment, however old the reference, whoever approved
\* it and whatever has become of the page; unless the reference is from before the
\* sidecar was restarted, when its number may have been given out again.
AimedAsJudged ==
    [][step'.pc = "aimed" /\ step.pc = "calling" /\ step.label # "none"
            /\ step.life = page.restarts =>
          page.shows[step'.node] = step.label]_vars

\* A step is re-aimed only at an element that was the only one of its label, listed or
\* not, in all the frames of the page that could be read. Of a frame that could not,
\* nothing is known, though the sidecar means a listing that lacks one to say so.
OnlyOneOfItsKind ==
    [][step.pc = "looked" /\ step'.pc = "calling" =>
          Cardinality({n \in Nodes \ look.missed : look.shows[n] = step.label}) = 1]_vars

\* Looking again, scrolling and trying again never put two inputs into the page for one
\* step.
OneInputPerStep == step.inputs <= 1

===============================================================================
