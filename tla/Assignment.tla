------------------------------ MODULE Assignment ------------------------------
(***************************************************************************)
(* What the queue promises the people whose bots work it off: an item      *)
(* changes hands only on the record, and whoever it is given to is told at *)
(* most once. Being assigned does not oblige: an item may be given away,   *)
(* closed or lost before anybody is told. WorkQueue implements this, with  *)
(* the rows, copies and replicas it takes (OwnersAreAssigned there).       *)
(***************************************************************************)
EXTENDS Naturals, Sequences

CONSTANTS
    Items,     \* pieces of work
    Bots,      \* who may own one
    None

VARIABLES
    owner,     \* who has the item, or None
    record,    \* for each item, who had it before and who got it, every time
    told       \* how often somebody was told to start on the item

Init == /\ owner  = [i \in Items |-> None]
        /\ record = [i \in Items |-> <<>>]
        /\ told   = [i \in Items |-> 0]

\* On the record stands who it was believed to be with.
Assign(i, b) == /\ owner' = [owner EXCEPT ![i] = b]
                /\ \E from \in Bots \cup {None} :
                      record' = [record EXCEPT ![i] = Append(@, [from |-> from, to |-> b])]
                /\ UNCHANGED told

\* Items, or their owners, go away.
Lose(S) == /\ owner' = [i \in Items |-> IF i \in S THEN None ELSE owner[i]]
           /\ UNCHANGED <<record, told>>

Tell(i) == /\ told[i] < Len(record[i])
           /\ told' = [told EXCEPT ![i] = @ + 1]
           /\ UNCHANGED <<owner, record>>

Next == \/ \E i \in Items, b \in Bots : Assign(i, b)
        \/ \E S \in SUBSET Items : Lose(S)
        \/ \E i \in Items : Tell(i)

Spec == Init /\ [][Next]_<<owner, record, told>>
===============================================================================
