--------------------------- MODULE WorkQueue_proof ---------------------------
(* Proofs about WorkQueue, for any items, bots, replicas, batch and faults.  *)
EXTENDS WorkQueue, FiniteSetTheorems, TLAPS

\* The loops that have claimed item i and not yet woken anybody about it.
Holding(i) == {d \in Dispatchers : i \in disp[d].todo}

\* A wake the row still owes: it is there and has no stamp.
Owed(i) == IF Exists(i) /\ ~row[i].stamped THEN 1 ELSE 0

\* Wakes given, promised and owed never exceed the assignments on record.
WithinBudget ==
    \A i \in Items : wakes[i] + Cardinality(Holding(i)) + Owed(i) <= Len(ledger[i])

IdleHoldsNothing == \A d \in Dispatchers : disp[d].pc = "idle" => disp[d].todo = {}

------------------------------------------------------------------------------
(* What a commit does to a row                                               *)

\* Appending to a sequence of E.
LEMMA AppendFacts ==
  ASSUME NEW E, NEW s \in Seq(E), NEW e \in E
  PROVE  /\ Append(s, e) \in Seq(E)
         /\ Len(Append(s, e)) = Len(s) + 1
         /\ Append(s, e)[Len(s) + 1] = e
OBVIOUS

\* A row with one column replaced is a row.
LEMMA RowFacts ==
  ASSUME NEW w \in Row, NEW b \in BOOLEAN
  PROVE  /\ [w EXCEPT !.run = b] \in Row
         /\ [w EXCEPT !.owner = None] \in Row
         /\ [w EXCEPT !.stamped = TRUE, !.status = "working"] \in Row
BY DEF Row, Statuses, Open

\* A merged row is a row; it keeps the columns the copy did not change.
LEMMA MergeRow ==
  ASSUME NEW now \in Row, NEW old \in Row, NEW new \in Row
  PROVE  /\ Merge(now, old, new) \in Row
         /\ new.owner = old.owner => Merge(now, old, new).owner = now.owner
         /\ new.owner # old.owner => Merge(now, old, new).owner = new.owner
         /\ new.stamped = old.stamped => Merge(now, old, new).stamped = now.stamped
         /\ now.status \in Statuses /\ new.status \in Statuses
              => Merge(now, old, new).status \in Statuses
  BY DEF Merge, Column, Row

\* A status edit writes the status and nothing else.
LEMMA StatusEdit ==
  ASSUME TypeOK, NEW i \in Items, NEW old \in Row, NEW s \in Statuses, Exists(i),
         WriteRow(i, old, [old EXCEPT !.status = s])
  PROVE  /\ row' \in [Items -> Row]
         /\ \A j \in Items : /\ row'[j].owner = row[j].owner
                             /\ row'[j].stamped = row[j].stamped
                             /\ Exists(j)' = Exists(j)
<1> DEFINE new == [old EXCEPT !.status = s]
<1>1. /\ new \in Row /\ new.owner = old.owner /\ new.stamped = old.stamped
      /\ new.status = s
  BY DEF Row, Statuses
<1>2. row[i] \in Row /\ row' = [row EXCEPT ![i] = Merge(row[i], old, new)]
  BY DEF TypeOK, WriteRow
<1>3. /\ Merge(row[i], old, new) \in Row
      /\ Merge(row[i], old, new).owner = row[i].owner
      /\ Merge(row[i], old, new).stamped = row[i].stamped
      /\ Merge(row[i], old, new).status \in Statuses
  BY <1>1, <1>2, MergeRow DEF Exists
<1> HIDE DEF new
<1>4. row' \in [Items -> Row]
  BY <1>2, <1>3 DEF TypeOK
<1>5. ASSUME NEW j \in Items
      PROVE  /\ row'[j].owner = row[j].owner
             /\ row'[j].stamped = row[j].stamped
             /\ Exists(j)' = Exists(j)
  <2>1. CASE j = i
    BY <1>2, <1>3, <2>1 DEF TypeOK, Exists
  <2>2. CASE j # i
    BY <1>2, <2>2 DEF TypeOK, Exists
  <2> QED
    BY <2>1, <2>2
<1> QED
  BY <1>4, <1>5

\* A handover gives the row its new owner and the ledger one more entry.
LEMMA HandOverFacts ==
  ASSUME TypeOK, NEW i \in Items, NEW old \in Row, NEW b \in Bots, HandOver(i, old, b)
  PROVE  /\ row' \in [Items -> Row]
         /\ ledger' \in [Items -> Seq([from : Bots \cup {None}, to : Bots])]
         /\ row'[i].owner = b
         /\ ledger'[i][Len(ledger'[i])].to = b
         /\ Len(ledger'[i]) = Len(ledger[i]) + 1
         /\ Exists(i) /\ Exists(i)'
         /\ \A j \in Items \ {i} : row'[j] = row[j] /\ ledger'[j] = ledger[j]
<1> DEFINE new == Marked([old EXCEPT !.owner = b])
           entry == [from |-> old.owner, to |-> b]
<1>1. new \in Row /\ new.owner = b /\ new.status \in Statuses
  BY DEF Row, Statuses, Open, Marked
<1>2. /\ row[i] \in Row /\ row' = [row EXCEPT ![i] = Merge(row[i], old, new)]
      /\ old.owner # b /\ row[i].status \in Statuses
      /\ ledger' = [ledger EXCEPT ![i] = Append(ledger[i], entry)]
  BY DEF TypeOK, WriteRow, HandOver, Exists
<1>3. /\ Merge(row[i], old, new) \in Row
      /\ Merge(row[i], old, new).owner = b
      /\ Merge(row[i], old, new).status \in Statuses
  BY <1>1, <1>2, MergeRow
<1> HIDE DEF new
<1>4. entry \in [from : Bots \cup {None}, to : Bots] /\ entry.to = b
  BY DEF Row
<1> HIDE DEF entry
<1>5. ledger[i] \in Seq([from : Bots \cup {None}, to : Bots])
  BY DEF TypeOK
<1>6. /\ Append(ledger[i], entry) \in Seq([from : Bots \cup {None}, to : Bots])
      /\ Len(Append(ledger[i], entry)) = Len(ledger[i]) + 1
      /\ Append(ledger[i], entry)[Len(ledger[i]) + 1] = entry
  BY <1>4, <1>5
<1>7. row' \in [Items -> Row] /\ row'[i] = Merge(row[i], old, new)
  BY <1>2, <1>3 DEF TypeOK
<1>8. /\ ledger' \in [Items -> Seq([from : Bots \cup {None}, to : Bots])]
      /\ ledger'[i] = Append(ledger[i], entry)
  BY <1>2, <1>6 DEF TypeOK
<1>9. \A j \in Items \ {i} : row'[j] = row[j] /\ ledger'[j] = ledger[j]
  BY <1>2 DEF TypeOK
<1> QED
  BY <1>2, <1>3, <1>4, <1>6, <1>7, <1>8, <1>9 DEF Exists

------------------------------------------------------------------------------
(* Type correctness, one part of the state at a time                         *)

Entry == [from : Bots \cup {None}, to : Bots]

TableTypes ==
    /\ row \in [Items -> Row] /\ ledger \in [Items -> Seq(Entry)]
    /\ bots \subseteq Bots
    /\ wakes \in [Items -> Nat]

DispTypes ==
    /\ disp \in [Dispatchers -> DispSlot]
    /\ \A d \in Dispatchers :
          /\ disp[d].pc \in {"run", "tool"} => disp[d].item \in Items
          /\ disp[d].pc = "tool" => disp[d].touched \in Items

ReqTypes ==
    /\ req \in [Requests -> [item : Items \cup {None}, seen : Row]]
    /\ \A q \in Requests : req[q] # IdleReq => req[q].item \in Items

\* The type invariant splits into its table, dispatcher and request parts.
LEMMA Parts == TypeOK <=> TableTypes /\ DispTypes /\ ReqTypes
BY DEF TypeOK, TableTypes, DispTypes, ReqTypes, Entry

\* The steps that write the table, case by case.
LEMMA TableStep == TypeOK /\ [Next]_vars => TableTypes'
<1> SUFFICES ASSUME TypeOK, [Next]_vars PROVE TableTypes'
  OBVIOUS
<1> USE DEF TypeOK, TableTypes, Entry
<1>1. ASSUME NEW d \in Dispatchers, NEW S \in SUBSET {i \in Items : Pending(i)},
             row' = [i \in Items |-> IF i \in S THEN [row[i] EXCEPT !.stamped = TRUE,
                                                           !.status = "working"]
                                                ELSE row[i]]
      PROVE  row' \in [Items -> Row]
  <2>1. ASSUME NEW i \in Items
        PROVE  [row[i] EXCEPT !.stamped = TRUE, !.status = "working"] \in Row
    BY RowFacts
  <2> QED
    BY <1>1, <2>1
<1>2. ASSUME NEW d \in Dispatchers, Claim(d) PROVE TableTypes'
  <2>1. row' \in [Items -> Row]
    BY <1>1, <1>2 DEF Claim
  <2> QED
    BY <1>2, <2>1 DEF Claim
<1>3. ASSUME NEW d \in Dispatchers, NEW i \in Items, Wake(d, i) PROVE TableTypes'
  <2>1. wakes' \in [Items -> Nat]
    BY <1>3 DEF Wake
  <2> QED
    BY <1>3, <2>1 DEF Wake
<1>4. ASSUME NEW d \in Dispatchers, NEW i \in Items, NEW s \in Statuses,
             BotUpdates(d, i, s)
      PROVE  TableTypes'
  <2>1. disp[d].mem[i] \in Row
    BY DEF DispSlot
  <2>2. row' \in [Items -> Row]
    BY <1>4, <2>1, StatusEdit DEF BotUpdates
  <2> QED
    BY <1>4, <2>2 DEF BotUpdates
<1>5. ASSUME NEW d \in Dispatchers, NEW i \in Items, NEW b \in Bots, BotTransfers(d, i, b)
      PROVE  TableTypes'
  <2>1. disp[d].mem[i] \in Row /\ HandOver(i, disp[d].mem[i], b)
    BY <1>5 DEF DispSlot, BotTransfers
  <2>2. row' \in [Items -> Row] /\ ledger' \in [Items -> Seq(Entry)]
    BY <2>1, HandOverFacts
  <2> QED
    BY <2>1, <2>2 DEF HandOver
<1>6. ASSUME NEW d \in Dispatchers, NEW ran \in BOOLEAN, RunEnds(d, ran) PROVE TableTypes'
  <2>1. \A i \in Items : [row[i] EXCEPT !.run = ran] \in Row
    BY RowFacts
  <2>2. row' = row \/ row' = [row EXCEPT ![disp[d].item].run = ran]
    BY <1>6 DEF RunEnds
  <2>3. disp[d].item \in Items
    BY <1>6 DEF RunEnds
  <2>4. row' \in [Items -> Row]
    BY <2>1, <2>2, <2>3
  <2> QED
    BY <1>6, <2>4 DEF RunEnds
<1>7. ASSUME NEW q \in Requests, NEW s \in Statuses, Patch(q, s) PROVE TableTypes'
  <2>1. req[q].item \in Items /\ req[q].seen \in Row
    BY <1>7 DEF Patch
  <2>2. row' \in [Items -> Row]
    BY <1>7, <2>1, StatusEdit DEF Patch
  <2> QED
    BY <1>7, <2>2 DEF Patch
<1>8. ASSUME NEW q \in Requests, NEW b \in Bots, Transfer(q, b) PROVE TableTypes'
  <2>1. req[q].item \in Items /\ req[q].seen \in Row /\ HandOver(req[q].item, req[q].seen, b)
    BY <1>8 DEF Transfer
  <2>2. row' \in [Items -> Row] /\ ledger' \in [Items -> Seq(Entry)]
    BY <2>1, HandOverFacts
  <2> QED
    BY <2>1, <2>2 DEF HandOver
<1>9. ASSUME NEW i \in Items, NEW b \in Bots, NEW s \in Statuses, CreateItem(i, b, s)
      PROVE  TableTypes'
  <2>1. [Blank EXCEPT !.owner = b, !.status = s] \in Row
    BY DEF Blank, Row, Statuses
  <2>2. [from |-> None, to |-> b] \in Entry
    OBVIOUS
  <2>3. Append(ledger[i], [from |-> None, to |-> b]) \in Seq(Entry)
    BY <2>2, AppendFacts
  <2> QED
    BY <1>9, <2>1, <2>3 DEF CreateItem
<1>10. ASSUME NEW i \in Items, DeleteItem(i) PROVE TableTypes'
  <2>1. [Blank EXCEPT !.status = "gone"] \in Row
    BY DEF Blank, Row, Statuses
  <2> QED
    BY <1>10, <2>1 DEF DeleteItem
<1>11. ASSUME NEW b \in Bots, DeleteBot(b) PROVE TableTypes'
  <2>1. \A i \in Items : [row[i] EXCEPT !.owner = None] \in Row
    BY RowFacts
  <2> QED
    BY <1>11, <2>1 DEF DeleteBot
<1>12. ASSUME NEW d \in Dispatchers, NEW i \in Items,
              SkipOrphan(d, i) \/ BotRefreshes(d) \/ PassFails(d)
       PROVE  TableTypes'
  BY <1>12 DEF SkipOrphan, BotRefreshes, PassFails
<1>13. ASSUME NEW d \in Dispatchers, BotRefreshes(d) \/ PassFails(d) PROVE TableTypes'
  BY <1>13 DEF BotRefreshes, PassFails
<1>14. ASSUME NEW q \in Requests, NEW i \in Items, RequestReads(q, i) PROVE TableTypes'
  BY <1>14 DEF RequestReads
<1>15. ASSUME NEW q \in Requests, RequestEnds(q) PROVE TableTypes'
  BY <1>15 DEF RequestEnds
<1>16. CASE UNCHANGED vars
  BY <1>16 DEF vars
<1> HIDE DEF TypeOK, TableTypes, Entry
<1> QED
  BY <1>2, <1>3, <1>4, <1>5, <1>6, <1>7, <1>8, <1>9, <1>10, <1>11, <1>12, <1>13,
     <1>14, <1>15, <1>16 DEF Next, DispStep, PassStep, RequestStep

\* A loop may be given any well-formed slot.
LEMMA NewSlot ==
  ASSUME DispTypes, NEW d \in Dispatchers, NEW w \in DispSlot,
         w.pc \in {"run", "tool"} => w.item \in Items,
         w.pc = "tool" => w.touched \in Items,
         disp' = [disp EXCEPT ![d] = w]
  PROVE  DispTypes'
BY DEF DispTypes

\* A loop that sleeps has a well-formed slot; so has one that moves on.
LEMMA IdleTypes == IdleDisp \in DispSlot /\ IdleDisp.pc = "idle"
<1>1. Blank \in Row
  BY DEF Blank, Row
<1> QED
  BY <1>1 DEF IdleDisp, DispSlot

\* Moving on to the rest of a batch keeps the dispatchers' types.
LEMMA MoveOnTypes ==
  ASSUME DispTypes, NEW d \in Dispatchers, NEW T \in SUBSET Items, MoveOn(d, T)
  PROVE  DispTypes'
<1> DEFINE w == IF T = {} THEN IdleDisp
                ELSE [disp[d] EXCEPT !.pc = "pass", !.todo = T,
                                     !.item = None, !.bot = None]
<1>1. disp[d] \in DispSlot
  BY DEF DispTypes
<1>2. w \in DispSlot /\ w.pc \in {"idle", "pass"}
  BY <1>1, IdleTypes DEF DispSlot
<1>3. disp' = [disp EXCEPT ![d] = w]
  BY DEF MoveOn
<1> QED
  BY <1>2, <1>3, NewSlot

\* Giving up a pass keeps the dispatchers' types.
LEMMA AbandonTypes ==
  ASSUME DispTypes, NEW d \in Dispatchers, Abandon(d) PROVE DispTypes'
BY IdleTypes, NewSlot DEF Abandon

\* The loops, case by case.
LEMMA DispStepTypes == TypeOK /\ [Next]_vars => DispTypes'
<1> SUFFICES ASSUME TypeOK, DispTypes, [Next]_vars PROVE DispTypes'
  BY Parts
<1>0. ASSUME NEW d \in Dispatchers PROVE disp[d] \in DispSlot
  BY <1>0 DEF DispTypes
<1>1. ASSUME NEW d \in Dispatchers, Claim(d) PROVE DispTypes'
  <2> PICK S \in SUBSET {i \in Items : Pending(i)} :
        disp' = [disp EXCEPT ![d] =
           [IdleDisp EXCEPT !.pc = "pass", !.claimed = S, !.todo = S,
                !.mem = [i \in Items |-> IF i \in S
                           THEN [row[i] EXCEPT !.stamped = TRUE, !.status = "working"]
                           ELSE Blank]]]
    BY <1>1 DEF Claim
  <2> DEFINE m == [i \in Items |-> IF i \in S
                     THEN [row[i] EXCEPT !.stamped = TRUE, !.status = "working"]
                     ELSE Blank]
             w == [IdleDisp EXCEPT !.pc = "pass", !.claimed = S, !.todo = S, !.mem = m]
  <2>1. Blank \in Row /\ \A i \in Items : row[i] \in Row
    BY DEF TypeOK, Blank, Row
  <2>2. m \in [Items -> Row]
    BY <2>1, RowFacts
  <2>3. disp' = [disp EXCEPT ![d] = w]
    OBVIOUS
  <2> HIDE DEF m
  <2>4. w \in DispSlot /\ w.pc = "pass"
    BY <2>2, IdleTypes DEF DispSlot
  <2> HIDE DEF w
  <2> QED
    BY <2>3, <2>4, NewSlot
<1>2. ASSUME NEW d \in Dispatchers, NEW i \in Items, Wake(d, i) PROVE DispTypes'
  <2> DEFINE w == [disp[d] EXCEPT !.pc = "run", !.todo = @ \ {i}, !.item = i,
                                  !.bot = disp[d].mem[i].owner]
  <2>1. disp' = [disp EXCEPT ![d] = w]
    BY <1>0, <1>2 DEF Wake, DispTypes
  <2>2. disp[d].mem[i].owner \in Bots \cup {None}
    BY <1>0 DEF DispSlot, Row
  <2>3. w \in DispSlot /\ w.pc = "run" /\ w.item = i
    BY <1>0, <2>2 DEF DispSlot
  <2> HIDE DEF w
  <2> QED
    BY <2>1, <2>3, NewSlot
<1>3. ASSUME NEW d \in Dispatchers, NEW i \in Items, SkipOrphan(d, i) PROVE DispTypes'
  <2>1. disp[d].todo \ {i} \in SUBSET Items /\ MoveOn(d, disp[d].todo \ {i})
    BY <1>0, <1>3 DEF DispSlot, SkipOrphan
  <2> QED
    BY <2>1, MoveOnTypes
<1>4. ASSUME NEW d \in Dispatchers, NEW i \in Items, disp[d].pc = "run",
             disp' = [disp EXCEPT ![d].pc = "tool", ![d].touched = i]
      PROVE  DispTypes'
  <2> DEFINE w == [disp[d] EXCEPT !.pc = "tool", !.touched = i]
  <2>1. disp' = [disp EXCEPT ![d] = w]
    BY <1>0, <1>4 DEF DispTypes
  <2>2. w \in DispSlot /\ w.pc = "tool" /\ w.touched = i /\ w.item \in Items
    BY <1>0, <1>4 DEF DispSlot, DispTypes
  <2> HIDE DEF w
  <2> QED
    BY <2>1, <2>2, NewSlot
<1>5. ASSUME NEW d \in Dispatchers, BotRefreshes(d) PROVE DispTypes'
  <2> DEFINE i == disp[d].touched
             w == [disp[d] EXCEPT !.pc = "run", !.touched = None,
                                  !.mem = [@ EXCEPT ![i] = row[i]]]
  <2>1. i \in Items /\ disp[d].item \in Items /\ row[i] \in Row
    BY <1>5 DEF BotRefreshes, DispTypes, TypeOK
  <2>2. Abandon(d) \/ disp' = [disp EXCEPT ![d] = w]
    <3>1. \/ Abandon(d)
          \/ disp' = [disp EXCEPT ![d].pc = "run", ![d].touched = None,
                                  ![d].mem[i] = row[i]]
      BY <1>5 DEF BotRefreshes
    <3>2. [disp EXCEPT ![d].pc = "run", ![d].touched = None, ![d].mem[i] = row[i]]
            = [disp EXCEPT ![d] = w]
      BY <1>0 DEF DispTypes, DispSlot
    <3> QED
      BY <3>1, <3>2
  <2>3. w \in DispSlot /\ w.pc = "run" /\ w.item \in Items
    BY <1>0, <2>1 DEF DispSlot
  <2> HIDE DEF w
  <2> QED
    BY <2>2, <2>3, NewSlot, AbandonTypes
<1>6. ASSUME NEW d \in Dispatchers, NEW ran \in BOOLEAN, RunEnds(d, ran) PROVE DispTypes'
  <2>1. MoveOn(d, disp[d].todo) \/ Abandon(d)
    BY <1>6 DEF RunEnds
  <2>2. disp[d].todo \in SUBSET Items
    BY <1>0 DEF DispSlot
  <2> QED
    BY <2>1, <2>2, MoveOnTypes, AbandonTypes
<1>7. ASSUME NEW d \in Dispatchers, PassFails(d) PROVE DispTypes'
  BY <1>7, AbandonTypes DEF PassFails
<1>8. ASSUME NEW d \in Dispatchers, DispStep(d) PROVE DispTypes'
  BY <1>1, <1>2, <1>3, <1>4, <1>5, <1>6, <1>7, <1>8
     DEF DispStep, PassStep, BotUpdates, BotTransfers
<1>9. CASE UNCHANGED disp
  BY <1>9 DEF DispTypes
<1> QED
  BY <1>8, <1>9 DEF Next, RequestStep, RequestReads, Patch, Transfer, RequestEnds,
     CreateItem, DeleteItem, DeleteBot, vars

\* The requests: each is idle or holds a row it has loaded.
LEMMA ReqStepTypes == TypeOK /\ [Next]_vars => ReqTypes'
<1> SUFFICES ASSUME TypeOK, ReqTypes, [Next]_vars PROVE ReqTypes'
  BY Parts
<1>1. ASSUME NEW q \in Requests, Reply(q) PROVE ReqTypes'
  <2>1. IdleReq \in [item : Items \cup {None}, seen : Row]
    BY DEF IdleReq, Blank, Row
  <2> QED
    BY <1>1, <2>1 DEF Reply, ReqTypes
<1>2. ASSUME NEW q \in Requests, NEW i \in Items, RequestReads(q, i) PROVE ReqTypes'
  <2>1. row[i] \in Row
    BY DEF TypeOK
  <2> QED
    BY <1>2, <2>1 DEF RequestReads, ReqTypes
<1>3. CASE UNCHANGED req
  BY <1>3 DEF ReqTypes
<1> QED
  BY <1>1, <1>2, <1>3 DEF Next, RequestStep, Patch, Transfer, RequestEnds, DispStep,
     PassStep, Claim, Wake, SkipOrphan, BotUpdates, BotTransfers, BotRefreshes,
     RunEnds, PassFails, CreateItem, DeleteItem, DeleteBot, vars

\* The initial state: no items, every bot, nobody at work.
LEMMA InitTypes == Init => TypeOK
<1> SUFFICES ASSUME Init PROVE TableTypes /\ DispTypes /\ ReqTypes
  BY Parts
<1>1. Blank \in Row /\ IdleReq \in [item : Items \cup {None}, seen : Row]
  BY DEF Blank, Row, IdleReq
<1>2. <<>> \in Seq(Entry)
  OBVIOUS
<1>3. TableTypes
  BY <1>1, <1>2 DEF Init, TableTypes
<1>4. DispTypes
  BY IdleTypes DEF Init, DispTypes
<1>5. ReqTypes
  BY <1>1 DEF Init, ReqTypes
<1> QED
  BY <1>3, <1>4, <1>5

\* Every step keeps the types.
LEMMA NextTypes == TypeOK /\ [Next]_vars => TypeOK'
BY Parts, TableStep, DispStepTypes, ReqStepTypes, PTL

\* Type correctness of the queue.
THEOREM QueueTypeCorrect == Spec => []TypeOK
BY InitTypes, NextTypes, PTL DEF Spec

------------------------------------------------------------------------------
(* The ledger                                                                *)

\* A step that changes no owner and no ledger, or removes owners, is harmless.
LEMMA OwnersKept ==
  ASSUME LedgerNamesOwner, ledger' = ledger,
         \A i \in Items : row'[i].owner \in {row[i].owner, None}
  PROVE  LedgerNamesOwner'
BY DEF LedgerNamesOwner

\* A handover records the owner it makes.
LEMMA HandOverKeepsLedger ==
  ASSUME TypeOK, LedgerNamesOwner, NEW i \in Items, NEW old \in Row, NEW b \in Bots,
         HandOver(i, old, b)
  PROVE  LedgerNamesOwner'
<1>1. ledger[i] \in Seq([from : Bots \cup {None}, to : Bots])
  BY DEF TypeOK
<1>2. ledger'[i] \in Seq([from : Bots \cup {None}, to : Bots])
  BY HandOverFacts
<1>3. Len(ledger[i]) \in Nat /\ Len(ledger'[i]) = Len(ledger[i]) + 1
  BY <1>1, HandOverFacts
<1>4. ledger'[i] # <<>>
  BY <1>2, <1>3
<1>5. /\ row'[i].owner = b /\ ledger'[i][Len(ledger'[i])].to = b
      /\ \A j \in Items \ {i} : row'[j] = row[j] /\ ledger'[j] = ledger[j]
  BY HandOverFacts
<1> QED
  BY <1>4, <1>5 DEF LedgerNamesOwner

\* Who may change an owner: a create, a handover, a deleted bot or item.
LEMMA LedgerStep == TypeOK /\ LedgerNamesOwner /\ [Next]_vars => LedgerNamesOwner'
<1> SUFFICES ASSUME TypeOK, LedgerNamesOwner, [Next]_vars PROVE LedgerNamesOwner'
  OBVIOUS
<1>0. /\ row \in [Items -> Row] /\ disp \in [Dispatchers -> DispSlot]
      /\ \A q \in Requests : req[q].seen \in Row
  BY DEF TypeOK
<1>1. ASSUME NEW d \in Dispatchers, Claim(d) PROVE LedgerNamesOwner'
  <2> PICK S \in SUBSET {i \in Items : Pending(i)} :
        row' = [i \in Items |-> IF i \in S THEN [row[i] EXCEPT !.stamped = TRUE,
                                                      !.status = "working"]
                                           ELSE row[i]]
    BY <1>1 DEF Claim
  <2>1. \A i \in Items : row'[i].owner = row[i].owner
    BY <1>0 DEF Row
  <2> QED
    BY <1>1, <2>1, OwnersKept DEF Claim
<1>2. ASSUME NEW i \in Items, NEW old \in Row, NEW s \in Statuses, Exists(i),
             WriteRow(i, old, [old EXCEPT !.status = s]), ledger' = ledger
      PROVE  LedgerNamesOwner'
  BY <1>2, StatusEdit, OwnersKept
<1>3. ASSUME NEW d \in Dispatchers, NEW i \in Items, NEW s \in Statuses,
             BotUpdates(d, i, s)
      PROVE  LedgerNamesOwner'
  <2>1. disp[d].mem[i] \in Row
    BY <1>0 DEF DispSlot
  <2> QED
    BY <1>2, <1>3, <2>1 DEF BotUpdates
<1>4. ASSUME NEW q \in Requests, NEW s \in Statuses, Patch(q, s) PROVE LedgerNamesOwner'
  <2>1. req[q].item \in Items
    BY <1>4 DEF Patch, TypeOK
  <2> QED
    BY <1>0, <1>2, <1>4, <2>1 DEF Patch
<1>5. ASSUME NEW d \in Dispatchers, NEW i \in Items, NEW b \in Bots, BotTransfers(d, i, b)
      PROVE  LedgerNamesOwner'
  <2>1. disp[d].mem[i] \in Row
    BY <1>0 DEF DispSlot
  <2> QED
    BY <1>5, <2>1, HandOverKeepsLedger DEF BotTransfers
<1>6. ASSUME NEW q \in Requests, NEW b \in Bots, Transfer(q, b) PROVE LedgerNamesOwner'
  <2>1. req[q].item \in Items
    BY <1>6 DEF Transfer, TypeOK
  <2> QED
    BY <1>0, <1>6, <2>1, HandOverKeepsLedger DEF Transfer
<1>7. ASSUME NEW d \in Dispatchers, NEW ran \in BOOLEAN, RunEnds(d, ran)
      PROVE  LedgerNamesOwner'
  <2>1. row' = row \/ row' = [row EXCEPT ![disp[d].item].run = ran]
    BY <1>7 DEF RunEnds
  <2>2. \A i \in Items : row'[i].owner = row[i].owner
    BY <1>0, <2>1 DEF Row
  <2>3. ledger' = ledger
    BY <1>7 DEF RunEnds
  <2> QED
    BY <2>2, <2>3, OwnersKept
<1>8. ASSUME NEW i \in Items, NEW b \in Bots, NEW s \in Statuses, CreateItem(i, b, s)
      PROVE  LedgerNamesOwner'
  <2> DEFINE e == [from |-> None, to |-> b]
  <2>1. ledger[i] \in Seq(Entry) /\ ledger \in [Items -> Seq(Entry)] /\ e \in Entry
    BY DEF TypeOK, Entry
  <2>2. e.to = b
    OBVIOUS
  <2> HIDE DEF e
  <2>3. /\ Append(ledger[i], e) \in Seq(Entry)
        /\ Len(Append(ledger[i], e)) = Len(ledger[i]) + 1
        /\ Append(ledger[i], e)[Len(ledger[i]) + 1] = e
        /\ Len(ledger[i]) \in Nat
    BY <2>1, AppendFacts
  <2>4. Append(ledger[i], e) # <<>>
    BY <2>3
  <2>5. /\ ledger' = [ledger EXCEPT ![i] = Append(@, e)]
        /\ row' = [row EXCEPT ![i] = [Blank EXCEPT !.owner = b, !.status = s]]
    BY <1>8 DEF CreateItem, e
  <2>6. ledger'[i] = Append(ledger[i], e) /\ row'[i].owner = b
    BY <1>0, <2>1, <2>5 DEF Blank
  <2>7. \A j \in Items \ {i} : row'[j] = row[j] /\ ledger'[j] = ledger[j]
    BY <1>0, <2>1, <2>5
  <2> QED
    BY <2>2, <2>3, <2>4, <2>6, <2>7 DEF LedgerNamesOwner
<1>9. ASSUME NEW i \in Items, DeleteItem(i) PROVE LedgerNamesOwner'
  <2>1. \A j \in Items : row'[j].owner \in {row[j].owner, None}
    BY <1>0, <1>9 DEF DeleteItem, Blank
  <2> QED
    BY <1>9, <2>1, OwnersKept DEF DeleteItem
<1>10. ASSUME NEW b \in Bots, DeleteBot(b) PROVE LedgerNamesOwner'
  <2>1. \A j \in Items : row'[j].owner \in {row[j].owner, None}
    BY <1>0, <1>10 DEF DeleteBot, Row
  <2> QED
    BY <1>10, <2>1, OwnersKept DEF DeleteBot
<1>11. CASE UNCHANGED <<row, ledger>>
  BY <1>11, OwnersKept
<1> QED
  BY <1>1, <1>3, <1>4, <1>5, <1>6, <1>7, <1>8, <1>9, <1>10, <1>11
     DEF Next, DispStep, PassStep, RequestStep, Wake, SkipOrphan, BotRefreshes,
         PassFails, RequestReads, RequestEnds, vars

\* No code path moves an owner without a ledger row that names the new one.
THEOREM OwnershipIsRecorded == Spec => []LedgerNamesOwner
<1>1. Init => LedgerNamesOwner
  BY DEF Init, LedgerNamesOwner, Blank
<1> QED
  BY <1>1, LedgerStep, QueueTypeCorrect, PTL DEF Spec

------------------------------------------------------------------------------
(* The budget of wakes                                                       *)

Budget == TypeOK /\ IdleHoldsNothing /\ WithinBudget

Numbers ==
    \A i \in Items :
        /\ wakes[i] \in Nat /\ Len(ledger[i]) \in Nat /\ Owed(i) \in {0, 1}
        /\ IsFiniteSet(Holding(i)) /\ Cardinality(Holding(i)) \in Nat

\* The numbers of the budget are numbers.
LEMMA BudgetTypes == TypeOK => Numbers
<1> SUFFICES ASSUME TypeOK, NEW i \in Items
             PROVE  /\ wakes[i] \in Nat /\ Len(ledger[i]) \in Nat /\ Owed(i) \in {0, 1}
                    /\ IsFiniteSet(Holding(i)) /\ Cardinality(Holding(i)) \in Nat
  BY DEF Numbers
<1>1. wakes[i] \in Nat
  BY DEF TypeOK
<1>2. ledger[i] \in Seq(Entry)
  BY DEF TypeOK, Entry
<1>3. Len(ledger[i]) \in Nat
  BY <1>2
<1>4. Holding(i) \in SUBSET Dispatchers
  BY DEF Holding
<1>5. IsFiniteSet(Holding(i)) /\ Cardinality(Holding(i)) \in Nat
  BY <1>4, QueueAssumption, FS_Subset, FS_CardinalityType
<1> QED
  BY <1>1, <1>3, <1>5 DEF Owed

\* They are so in every step.
LEMMA StepNumbers == TypeOK /\ TypeOK' => Numbers /\ Numbers'
BY BudgetTypes, PTL

\* What a step comes to owe is covered by what it records.
Covered == \A i \in Items : Owed(i)' + Len(ledger[i]) <= Owed(i) + Len(ledger'[i])

\* A step that wakes nobody, claims nothing and records what it owes.
LEMMA QuietBudget ==
  ASSUME Budget, TypeOK', wakes' = wakes,
         \A d \in Dispatchers : disp'[d].todo \subseteq disp[d].todo,
         Covered
  PROVE  WithinBudget'
<1> SUFFICES ASSUME NEW i \in Items
             PROVE  wakes'[i] + Cardinality(Holding(i)') + Owed(i)' <= Len(ledger'[i])
  BY DEF WithinBudget
<1>1. Holding(i)' \in SUBSET Holding(i)
  BY DEF Holding
<1>2. Cardinality(Holding(i)') <= Cardinality(Holding(i))
  BY <1>1, BudgetTypes, FS_Subset DEF Budget, Numbers
<1>3. wakes[i] + Cardinality(Holding(i)) + Owed(i) <= Len(ledger[i])
  BY DEF Budget, WithinBudget
<1>4. /\ wakes[i] \in Nat /\ Len(ledger[i]) \in Nat /\ Owed(i) \in {0, 1}
      /\ Cardinality(Holding(i)) \in Nat
  BY BudgetTypes DEF Budget, Numbers
<1>5. /\ wakes'[i] \in Nat /\ Len(ledger'[i]) \in Nat /\ Owed(i)' \in {0, 1}
      /\ Cardinality(Holding(i)') \in Nat
  BY StepNumbers DEF Budget, Numbers
<1> QED
  BY <1>2, <1>3, <1>4, <1>5 DEF Covered

\* Moving on and giving up only shorten the list of items still to wake.
LEMMA TodoShrinks ==
  ASSUME DispTypes, IdleHoldsNothing, NEW d \in Dispatchers,
         NEW T \in SUBSET disp[d].todo, MoveOn(d, T) \/ Abandon(d)
  PROVE  /\ \A e \in Dispatchers : disp'[e].todo \subseteq disp[e].todo
         /\ IdleHoldsNothing'
<1>1. disp \in [Dispatchers -> DispSlot]
  BY DEF DispTypes
<1>2. /\ IdleDisp.todo = {}
      /\ [disp[d] EXCEPT !.pc = "pass", !.todo = T, !.item = None, !.bot = None].todo = T
      /\ [disp[d] EXCEPT !.pc = "pass", !.todo = T, !.item = None, !.bot = None].pc = "pass"
  BY <1>1 DEF IdleDisp, DispSlot
<1>3. \A e \in Dispatchers \ {d} : disp'[e] = disp[e]
  BY <1>1 DEF MoveOn, Abandon
<1>4. \/ disp'[d] = IdleDisp
      \/ disp'[d] = [disp[d] EXCEPT !.pc = "pass", !.todo = T, !.item = None, !.bot = None]
  BY <1>1 DEF MoveOn, Abandon
<1> QED
  BY <1>2, <1>3, <1>4 DEF IdleHoldsNothing

\* A loop that stays in its run keeps what it has still to wake.
LEMMA TodoStays ==
  ASSUME DispTypes, IdleHoldsNothing, NEW d \in Dispatchers, NEW w \in DispSlot,
         w.todo = disp[d].todo, w.pc # "idle", disp' = [disp EXCEPT ![d] = w]
  PROVE  /\ \A e \in Dispatchers : disp'[e].todo \subseteq disp[e].todo
         /\ IdleHoldsNothing'
BY DEF DispTypes, IdleHoldsNothing

\* Every step of a loop but the claim and the wake is quiet.
LEMMA QuietLoop ==
  ASSUME Budget, NEW d \in Dispatchers,
         \/ \E i \in Items : SkipOrphan(d, i)
         \/ \E i \in Items, s \in Statuses : BotUpdates(d, i, s)
         \/ \E i \in Items, b \in Bots : BotTransfers(d, i, b)
         \/ BotRefreshes(d) \/ PassFails(d)
         \/ \E ran \in BOOLEAN : RunEnds(d, ran)
  PROVE  /\ \A e \in Dispatchers : disp'[e].todo \subseteq disp[e].todo
         /\ IdleHoldsNothing'
<1>1. DispTypes /\ IdleHoldsNothing /\ disp[d] \in DispSlot
  BY Parts DEF Budget, DispTypes
<1>2. CASE \/ \E i \in Items : SkipOrphan(d, i)
           \/ \E ran \in BOOLEAN : RunEnds(d, ran)
           \/ PassFails(d)
  <2>1. \E T \in SUBSET disp[d].todo : MoveOn(d, T) \/ Abandon(d)
    BY <1>2 DEF SkipOrphan, RunEnds, PassFails
  <2> QED
    BY <1>1, <2>1, TodoShrinks
<1>3. CASE \/ \E i \in Items, s \in Statuses : BotUpdates(d, i, s)
           \/ \E i \in Items, b \in Bots : BotTransfers(d, i, b)
  <2>1. PICK i \in Items : disp' = [disp EXCEPT ![d].pc = "tool", ![d].touched = i]
    BY <1>3 DEF BotUpdates, BotTransfers
  <2>2. disp' = [disp EXCEPT ![d] = [disp[d] EXCEPT !.pc = "tool", !.touched = i]]
    BY <1>1, <2>1 DEF DispTypes
  <2>3. /\ [disp[d] EXCEPT !.pc = "tool", !.touched = i] \in DispSlot
        /\ [disp[d] EXCEPT !.pc = "tool", !.touched = i].todo = disp[d].todo
        /\ [disp[d] EXCEPT !.pc = "tool", !.touched = i].pc = "tool"
    BY <1>1 DEF DispSlot
  <2> QED
    BY <1>1, <2>2, <2>3, TodoStays
<1>4. CASE BotRefreshes(d)
  <2> DEFINE i == disp[d].touched
  <2>1. \/ Abandon(d)
        \/ disp' = [disp EXCEPT ![d].pc = "run", ![d].touched = None,
                                ![d].mem[i] = row[i]]
    BY <1>4 DEF BotRefreshes
  <2>2. CASE Abandon(d)
    BY <1>1, <2>2, TodoShrinks
  <2>3. CASE disp' = [disp EXCEPT ![d].pc = "run", ![d].touched = None,
                                  ![d].mem[i] = row[i]]
    <3>1. /\ disp'[d].todo = disp[d].todo /\ disp'[d].pc = "run"
          /\ \A e \in Dispatchers \ {d} : disp'[e] = disp[e]
      BY <1>1, <2>3 DEF DispTypes, DispSlot
    <3> QED
      BY <1>1, <3>1 DEF IdleHoldsNothing
  <2> QED
    BY <2>1, <2>2, <2>3
<1> QED
  BY <1>2, <1>3, <1>4

\* The rows a quiet step leaves owe no more than its ledger has grown.
LEMMA OwedStays ==
  ASSUME TypeOK, ledger' = ledger,
         \A i \in Items : (Exists(i) /\ ~row[i].stamped)'
                             => Exists(i) /\ ~row[i].stamped
  PROVE  Covered
<1> SUFFICES ASSUME NEW i \in Items
             PROVE  Owed(i)' + Len(ledger[i]) <= Owed(i) + Len(ledger'[i])
  BY DEF Covered
<1>1. Len(ledger[i]) \in Nat
  BY BudgetTypes DEF Numbers
<1> QED
  BY <1>1 DEF Owed

\* A handover may take the stamp away: it has recorded one assignment more.
LEMMA HandOverOwes ==
  ASSUME TypeOK, NEW i \in Items, NEW old \in Row, NEW b \in Bots, HandOver(i, old, b)
  PROVE  Covered
<1> SUFFICES ASSUME NEW j \in Items
             PROVE  Owed(j)' + Len(ledger[j]) <= Owed(j) + Len(ledger'[j])
  BY DEF Covered
<1>1. Len(ledger[j]) \in Nat
  BY BudgetTypes DEF Numbers
<1>2. /\ Len(ledger'[i]) = Len(ledger[i]) + 1
      /\ \A k \in Items \ {i} : row'[k] = row[k] /\ ledger'[k] = ledger[k]
  BY HandOverFacts
<1>3. Owed(j) \in {0, 1} /\ Owed(j)' \in {0, 1}
  BY DEF Owed
<1>4. CASE j = i
  BY <1>1, <1>2, <1>3, <1>4
<1>5. CASE j # i
  <2>1. Owed(j)' = Owed(j)
    BY <1>2, <1>5 DEF Owed, Exists
  <2> QED
    BY <1>1, <1>2, <1>3, <1>5, <2>1
<1> QED
  BY <1>4, <1>5

\* What a step owes afterwards is covered, the claim's and the wake's aside.
LEMMA TableOwes ==
  ASSUME TypeOK, [Next]_vars,
         ~ \E d \in Dispatchers : Claim(d)
  PROVE  Covered
<1>0. /\ row \in [Items -> Row] /\ disp \in [Dispatchers -> DispSlot]
      /\ \A q \in Requests : req[q].seen \in Row
  BY DEF TypeOK
<1>1. ASSUME NEW i \in Items, NEW old \in Row, NEW s \in Statuses, Exists(i),
             WriteRow(i, old, [old EXCEPT !.status = s]), ledger' = ledger
      PROVE  Covered
  <2>1. \A j \in Items : row'[j].stamped = row[j].stamped /\ Exists(j)' = Exists(j)
    BY <1>1, StatusEdit
  <2> QED
    BY <1>1, <2>1, OwedStays
<1>2. ASSUME NEW d \in Dispatchers, NEW i \in Items, NEW s \in Statuses,
             BotUpdates(d, i, s)
      PROVE  Covered
  <2>1. disp[d].mem[i] \in Row
    BY <1>0 DEF DispSlot
  <2> QED
    BY <1>1, <1>2, <2>1 DEF BotUpdates
<1>3. ASSUME NEW q \in Requests, NEW s \in Statuses, Patch(q, s) PROVE Covered
  <2>1. req[q].item \in Items
    BY <1>3 DEF Patch, TypeOK
  <2> QED
    BY <1>0, <1>1, <1>3, <2>1 DEF Patch
<1>4. ASSUME NEW d \in Dispatchers, NEW i \in Items, NEW b \in Bots, BotTransfers(d, i, b)
      PROVE  Covered
  <2>1. disp[d].mem[i] \in Row
    BY <1>0 DEF DispSlot
  <2> QED
    BY <1>4, <2>1, HandOverOwes DEF BotTransfers
<1>5. ASSUME NEW q \in Requests, NEW b \in Bots, Transfer(q, b) PROVE Covered
  <2>1. req[q].item \in Items
    BY <1>5 DEF Transfer, TypeOK
  <2> QED
    BY <1>0, <1>5, <2>1, HandOverOwes DEF Transfer
<1>6. ASSUME NEW d \in Dispatchers, NEW ran \in BOOLEAN, RunEnds(d, ran) PROVE Covered
  <2>1. row' = row \/ row' = [row EXCEPT ![disp[d].item].run = ran]
    BY <1>6 DEF RunEnds
  <2>2. \A i \in Items : row'[i].stamped = row[i].stamped /\ row'[i].status = row[i].status
    BY <1>0, <2>1 DEF Row
  <2>3. ledger' = ledger
    BY <1>6 DEF RunEnds
  <2> QED
    BY <2>2, <2>3, OwedStays DEF Exists
<1>7. ASSUME NEW i \in Items, NEW b \in Bots, NEW s \in Statuses, CreateItem(i, b, s)
      PROVE  Covered
  <2> DEFINE e == [from |-> None, to |-> b]
  <2>1. ledger[i] \in Seq(Entry) /\ ledger \in [Items -> Seq(Entry)] /\ e \in Entry
    BY DEF TypeOK, Entry
  <2>2. ledger' = [ledger EXCEPT ![i] = Append(@, e)]
    BY <1>7 DEF CreateItem
  <2> HIDE DEF e
  <2>3. Len(Append(ledger[i], e)) = Len(ledger[i]) + 1
    BY <2>1, AppendFacts
  <2>4. ledger'[i] = Append(ledger[i], e) /\ \A j \in Items \ {i} : ledger'[j] = ledger[j]
    BY <2>1, <2>2
  <2>5. ~Exists(i) /\ \A j \in Items \ {i} : row'[j] = row[j]
    BY <1>0, <1>7 DEF CreateItem, Exists, Statuses, Open
  <2> SUFFICES ASSUME NEW j \in Items
               PROVE  Owed(j)' + Len(ledger[j]) <= Owed(j) + Len(ledger'[j])
    BY DEF Covered
  <2>6. Len(ledger[j]) \in Nat
    BY BudgetTypes DEF Numbers
  <2>9. Owed(j) \in {0, 1} /\ Owed(j)' \in {0, 1}
    BY DEF Owed
  <2>7. CASE j = i
    BY <2>3, <2>4, <2>6, <2>7, <2>9
  <2>8. CASE j # i
    <3>1. Owed(j)' = Owed(j)
      BY <2>5, <2>8 DEF Owed, Exists
    <3> QED
      BY <2>4, <2>6, <2>8, <2>9, <3>1
  <2> QED
    BY <2>7, <2>8
<1>8. ASSUME NEW i \in Items, DeleteItem(i) PROVE Covered
  <2>1. /\ ledger' = ledger /\ ~Exists(i)'
        /\ \A j \in Items \ {i} : row'[j] = row[j]
    BY <1>0, <1>8 DEF DeleteItem, Exists, Blank, Statuses, Open
  <2> QED
    BY <2>1, OwedStays DEF Exists
<1>9. ASSUME NEW b \in Bots, DeleteBot(b) PROVE Covered
  <2>1. \A i \in Items : row'[i].stamped = row[i].stamped /\ row'[i].status = row[i].status
    BY <1>0, <1>9 DEF DeleteBot, Row
  <2>2. ledger' = ledger
    BY <1>9 DEF DeleteBot
  <2> QED
    BY <2>1, <2>2, OwedStays DEF Exists
<1>10. CASE UNCHANGED <<row, ledger>>
  BY <1>10, OwedStays DEF Exists
<1>11. ASSUME NEW d \in Dispatchers, DispStep(d) PROVE Covered
  BY <1>2, <1>4, <1>6, <1>10, <1>11
     DEF DispStep, PassStep, Wake, SkipOrphan, BotRefreshes, PassFails
<1>12. ASSUME NEW q \in Requests, RequestStep(q) PROVE Covered
  BY <1>3, <1>5, <1>10, <1>12 DEF RequestStep, RequestReads, RequestEnds
<1> QED
  BY <1>7, <1>8, <1>9, <1>10, <1>11, <1>12 DEF Next, vars

\* A claim stamps what it takes and promises one wake for it.
LEMMA ClaimBudget ==
  ASSUME Budget, TypeOK', NEW d \in Dispatchers, Claim(d)
  PROVE  WithinBudget' /\ IdleHoldsNothing'
<1> PICK S \in SUBSET {i \in Items : Pending(i)} :
      /\ disp[d].pc = "idle"
      /\ row' = [i \in Items |-> IF i \in S THEN [row[i] EXCEPT !.stamped = TRUE,
                                                    !.status = "working"]
                                         ELSE row[i]]
      /\ disp' = [disp EXCEPT ![d] =
           [IdleDisp EXCEPT !.pc = "pass", !.claimed = S, !.todo = S,
                !.mem = [i \in Items |-> IF i \in S
                           THEN [row[i] EXCEPT !.stamped = TRUE, !.status = "working"]
                           ELSE Blank]]]
  BY DEF Claim
<1>1. /\ TypeOK /\ IdleHoldsNothing /\ WithinBudget
      /\ disp \in [Dispatchers -> DispSlot] /\ row \in [Items -> Row]
      /\ ledger' = ledger /\ wakes' = wakes
  BY DEF Budget, TypeOK, Claim
<1>2. disp[d].todo = {}
  BY <1>1 DEF IdleHoldsNothing
<1>3. /\ disp'[d].todo = S /\ disp'[d].pc = "pass"
      /\ \A e \in Dispatchers \ {d} : disp'[e] = disp[e]
  BY <1>1 DEF IdleDisp
<1>4. IdleHoldsNothing'
  BY <1>1, <1>3 DEF IdleHoldsNothing
<1>5. Numbers /\ Numbers'
  BY <1>1, StepNumbers
<1>6. ASSUME NEW i \in Items
      PROVE  wakes'[i] + Cardinality(Holding(i)') + Owed(i)' <= Len(ledger'[i])
  <2>1. /\ wakes[i] \in Nat /\ Len(ledger[i]) \in Nat
        /\ IsFiniteSet(Holding(i)) /\ Cardinality(Holding(i)) \in Nat
        /\ wakes[i] + Cardinality(Holding(i)) + Owed(i) <= Len(ledger[i])
    BY <1>1, <1>5 DEF Numbers, WithinBudget
  <2>2. CASE i \in S
    <3>1. Owed(i) = 1
      BY <2>2 DEF Owed, Pending, Exists, Statuses, Open
    <3>2. row'[i].stamped = TRUE
      BY <1>1, <2>2 DEF Row
    <3>3. Owed(i)' = 0
      BY <3>2 DEF Owed
    <3>4. Holding(i)' = Holding(i) \cup {d} /\ d \notin Holding(i)
      BY <1>2, <1>3, <2>2 DEF Holding
    <3>5. Cardinality(Holding(i)') = Cardinality(Holding(i)) + 1
      BY <2>1, <3>4, FS_AddElement
    <3>6. wakes'[i] = wakes[i] /\ Len(ledger'[i]) = Len(ledger[i])
      BY <1>1
    <3> QED
      BY ONLY <2>1, <3>1, <3>3, <3>5, <3>6
  <2>3. CASE i \notin S
    <3>1. Owed(i)' = Owed(i)
      BY <2>3 DEF Owed, Exists
    <3>2. Holding(i)' = Holding(i)
      BY <1>2, <1>3, <2>3 DEF Holding
    <3> QED
      BY <1>1, <2>1, <3>1, <3>2
  <2> QED
    BY <2>2, <2>3
<1> QED
  BY <1>4, <1>6 DEF WithinBudget

\* A wake keeps the promise a claim has made.
LEMMA WakeBudget ==
  ASSUME Budget, TypeOK', NEW d \in Dispatchers, NEW i \in Items, Wake(d, i)
  PROVE  WithinBudget' /\ IdleHoldsNothing'
<1>1. /\ TypeOK /\ IdleHoldsNothing /\ WithinBudget
      /\ disp \in [Dispatchers -> DispSlot] /\ wakes \in [Items -> Nat]
      /\ ledger' = ledger /\ row' = row /\ i \in disp[d].todo
      /\ wakes' = [wakes EXCEPT ![i] = @ + 1]
  BY DEF Budget, TypeOK, Wake
<1>2. /\ disp'[d].todo = disp[d].todo \ {i} /\ disp'[d].pc = "run"
      /\ \A e \in Dispatchers \ {d} : disp'[e] = disp[e]
  BY <1>1 DEF Wake, DispSlot
<1>3. IdleHoldsNothing'
  BY <1>1, <1>2 DEF IdleHoldsNothing
<1>4. Numbers /\ Numbers'
  BY <1>1, StepNumbers
<1>5. ASSUME NEW j \in Items
      PROVE  wakes'[j] + Cardinality(Holding(j)') + Owed(j)' <= Len(ledger'[j])
  <2>1. /\ wakes[j] \in Nat /\ Len(ledger[j]) \in Nat /\ Owed(j) \in {0, 1}
        /\ IsFiniteSet(Holding(j)) /\ Cardinality(Holding(j)) \in Nat
        /\ wakes[j] + Cardinality(Holding(j)) + Owed(j) <= Len(ledger[j])
    BY <1>1, <1>4 DEF Numbers, WithinBudget
  <2>2. Owed(j)' = Owed(j)
    BY <1>1 DEF Owed, Exists
  <2>3. CASE j = i
    <3>1. Holding(j)' = Holding(j) \ {d} /\ d \in Holding(j)
      BY <1>1, <1>2, <2>3 DEF Holding
    <3>2. Cardinality(Holding(j)') = Cardinality(Holding(j)) - 1
      BY <2>1, <3>1, FS_RemoveElement
    <3>3. wakes'[j] = wakes[j] + 1
      BY <1>1, <2>3
    <3> QED
      BY <1>1, <2>1, <2>2, <3>2, <3>3
  <2>4. CASE j # i
    <3>1. Holding(j)' = Holding(j) /\ wakes'[j] = wakes[j]
      BY <1>1, <1>2, <2>4 DEF Holding
    <3> QED
      BY <1>1, <2>1, <2>2, <3>1
  <2> QED
    BY <2>3, <2>4
<1> QED
  BY <1>3, <1>5 DEF WithinBudget

\* The budget is inductive.
LEMMA NextBudget == Budget /\ [Next]_vars => Budget'
<1> SUFFICES ASSUME Budget, [Next]_vars PROVE WithinBudget' /\ IdleHoldsNothing'
  BY NextTypes DEF Budget
<1>1. TypeOK /\ TypeOK' /\ IdleHoldsNothing
  BY NextTypes DEF Budget
<1>2. CASE \E d \in Dispatchers : Claim(d)
  BY <1>1, <1>2, ClaimBudget
<1>3. CASE \E d \in Dispatchers, i \in Items : Wake(d, i)
  BY <1>1, <1>3, WakeBudget
<1>4. CASE ~ (\/ \E d \in Dispatchers : Claim(d)
              \/ \E d \in Dispatchers, i \in Items : Wake(d, i))
  <2>1. Covered
    BY <1>1, <1>4, TableOwes
  <2>2. /\ wakes' = wakes
        /\ \A e \in Dispatchers : disp'[e].todo \subseteq disp[e].todo
        /\ IdleHoldsNothing'
    <3>1. CASE UNCHANGED <<disp, wakes>>
      BY <1>1, <3>1 DEF IdleHoldsNothing
    <3>2. ASSUME NEW d \in Dispatchers, DispStep(d)
          PROVE  /\ wakes' = wakes
                 /\ \A e \in Dispatchers : disp'[e].todo \subseteq disp[e].todo
                 /\ IdleHoldsNothing'
      <4>1. wakes' = wakes
        BY <1>4, <3>2 DEF DispStep, PassStep, SkipOrphan, BotUpdates, BotTransfers,
           HandOver, BotRefreshes, PassFails, RunEnds
      <4> QED
        BY <1>4, <3>2, <4>1, QuietLoop DEF DispStep, PassStep
    <3> QED
      BY <3>1, <3>2 DEF Next, RequestStep, RequestReads, Patch, Transfer, HandOver,
         RequestEnds, CreateItem, DeleteItem, DeleteBot, vars
  <2> QED
    BY <1>1, <2>1, <2>2, QuietBudget
<1> QED
  BY <1>2, <1>3, <1>4

\* At first nothing is owed, held or on record.
LEMMA InitBudget == Init => Budget
<1> SUFFICES ASSUME Init PROVE IdleHoldsNothing /\ WithinBudget
  BY InitTypes DEF Budget
<1>1. IdleHoldsNothing
  BY DEF Init, IdleHoldsNothing, IdleDisp
<1>2. ASSUME NEW i \in Items
      PROVE  wakes[i] + Cardinality(Holding(i)) + Owed(i) <= Len(ledger[i])
  <2>1. Holding(i) = {}
    BY DEF Init, Holding, IdleDisp
  <2>2. Cardinality(Holding(i)) = 0
    BY <2>1, FS_EmptySet
  <2>3. Owed(i) = 0 /\ wakes[i] = 0 /\ ledger[i] = <<>>
    BY DEF Init, Owed, Exists, Blank, Statuses, Open
  <2> QED
    BY <2>2, <2>3
<1> QED
  BY <1>1, <1>2 DEF WithinBudget

\* However many replicas, requests and failures: an item is woken at most once
\* for each assignment on record.
THEOREM WakesAreAssigned == Spec => []OneWakePerAssignment
<1>1. Budget => OneWakePerAssignment
  <2> SUFFICES ASSUME Budget, NEW i \in Items PROVE wakes[i] <= Len(ledger[i])
    BY DEF OneWakePerAssignment
  <2>1. /\ wakes[i] \in Nat /\ Len(ledger[i]) \in Nat /\ Owed(i) \in {0, 1}
        /\ Cardinality(Holding(i)) \in Nat
        /\ wakes[i] + Cardinality(Holding(i)) + Owed(i) <= Len(ledger[i])
    BY BudgetTypes DEF Budget, Numbers, WithinBudget
  <2> QED
    BY <2>1
<1> QED
  BY <1>1, InitBudget, NextBudget, PTL DEF Spec

------------------------------------------------------------------------------
(* The table implements Assignment: every step of the queue assigns, loses,  *)
(* tells, or leaves what is seen from outside alone.                         *)

Unseen == UNCHANGED <<Owner, ledger, wakes>>

\* Owners that stay are not seen to change.
LEMMA OwnerStays ==
  ASSUME \A i \in Items : row'[i].owner = row[i].owner
  PROVE  Owner' = Owner
BY DEF Owner

\* A handover, from whatever copy, assigns.
LEMMA HandOverAssigns ==
  ASSUME TypeOK, NEW i \in Items, NEW old \in Row, NEW b \in Bots, HandOver(i, old, b)
  PROVE  Assigned!Next
<1>1. /\ row'[i].owner = b
      /\ \A j \in Items \ {i} : row'[j] = row[j]
  BY HandOverFacts
<1>2. Owner' = [Owner EXCEPT ![i] = b]
  BY <1>1 DEF Owner
<1>3. old.owner \in Bots \cup {None}
  BY DEF Row
<1>4. ledger' = [ledger EXCEPT ![i] = Append(@, [from |-> old.owner, to |-> b])] /\ wakes' = wakes
  BY DEF HandOver
<1>5. Assigned!Assign(i, b)
  BY <1>2, <1>3, <1>4 DEF Assigned!Assign
<1> QED
  BY <1>5 DEF Assigned!Next

LEMMA CreationAssigns ==
  ASSUME TypeOK, NEW i \in Items, NEW b \in Bots, NEW s \in Statuses, CreateItem(i, b, s)
  PROVE  Assigned!Next
<1>1. row' = [row EXCEPT ![i] = [Blank EXCEPT !.owner = b, !.status = s]]
  BY DEF CreateItem
<1>2. row'[i].owner = b /\ \A j \in Items \ {i} : row'[j] = row[j]
  BY <1>1 DEF TypeOK, Blank
<1>3. Owner' = [Owner EXCEPT ![i] = b]
  BY <1>2 DEF Owner
<1>4. ledger' = [ledger EXCEPT ![i] = Append(@, [from |-> None, to |-> b])] /\ wakes' = wakes
  BY DEF CreateItem
<1>5. Assigned!Assign(i, b)
  BY <1>3, <1>4 DEF Assigned!Assign
<1> QED
  BY <1>5 DEF Assigned!Next

LEMMA DeletionLoses ==
  ASSUME TypeOK, (\E i \in Items : DeleteItem(i)) \/ (\E b \in Bots : DeleteBot(b))
  PROVE  Assigned!Next
<1>1. ASSUME NEW S \in SUBSET Items,
             \A i \in Items : row'[i].owner = IF i \in S THEN None ELSE row[i].owner,
             UNCHANGED <<ledger, wakes>>
      PROVE  Assigned!Next
  <2>1. Owner' = [i \in Items |-> IF i \in S THEN None ELSE Owner[i]]
    BY <1>1 DEF Owner
  <2>2. Assigned!Lose(S)
    BY <1>1, <2>1 DEF Assigned!Lose
  <2> QED
    BY <2>2 DEF Assigned!Next
<1>2. ASSUME NEW i \in Items, DeleteItem(i) PROVE Assigned!Next
  <2>1. \A j \in Items : row'[j].owner = IF j \in {i} THEN None ELSE row[j].owner
    BY <1>2 DEF DeleteItem, Blank, TypeOK
  <2> QED
    BY <1>1, <1>2, <2>1 DEF DeleteItem
<1>3. ASSUME NEW b \in Bots, DeleteBot(b) PROVE Assigned!Next
  <2> DEFINE S == {i \in Items : row[i].owner = b}
  <2>1. \A j \in Items : row'[j].owner = IF j \in S THEN None ELSE row[j].owner
    BY <1>3 DEF DeleteBot, TypeOK, Row
  <2> HIDE DEF S
  <2>2. S \in SUBSET Items
    BY DEF S
  <2> QED
    BY <1>1, <1>3, <2>1, <2>2 DEF DeleteBot
<1> QED
  BY <1>2, <1>3

\* A wake is within the budget, so it tells.
LEMMA WakeTells ==
  ASSUME Budget, NEW d \in Dispatchers, NEW i \in Items, Wake(d, i)
  PROVE  Assigned!Next
<1>1. /\ wakes[i] \in Nat /\ Len(ledger[i]) \in Nat /\ Owed(i) \in {0, 1}
      /\ IsFiniteSet(Holding(i)) /\ Cardinality(Holding(i)) \in Nat
      /\ wakes[i] + Cardinality(Holding(i)) + Owed(i) <= Len(ledger[i])
  BY BudgetTypes DEF Budget, Numbers, WithinBudget
<1>2. d \in Holding(i)
  BY DEF Wake, Holding
<1>3. Cardinality(Holding(i)) # 0
  BY <1>1, <1>2, FS_EmptySet
<1>4. wakes[i] < Len(ledger[i])
  BY <1>1, <1>3
<1>5. Owner' = Owner
  BY OwnerStays DEF Wake
<1>6. Assigned!Tell(i)
  BY <1>4, <1>5 DEF Wake, Assigned!Tell
<1> QED
  BY <1>6 DEF Assigned!Next

\* What a dispatcher does is an assignment, a telling, or not seen.
LEMMA DispatcherMaps ==
  ASSUME Budget, NEW d \in Dispatchers, DispStep(d)
  PROVE  Assigned!Next \/ Unseen
<1>t. TypeOK /\ row \in [Items -> Row] /\ disp[d] \in DispSlot
  BY DEF Budget, TypeOK
<1>m. disp[d].mem \in [Items -> Row]
  BY <1>t DEF DispSlot
<1>0. TypeOK /\ row \in [Items -> Row] /\ \A i \in Items : disp[d].mem[i] \in Row
  BY <1>t, <1>m
<1>1. ASSUME Claim(d) PROVE Unseen
  <2>1. PICK S \in SUBSET {i \in Items : Pending(i)} :
          row' = [i \in Items |-> IF i \in S THEN [row[i] EXCEPT !.stamped = TRUE,
                                                        !.status = "working"]
                                             ELSE row[i]]
    BY <1>1 DEF Claim
  <2>2. \A i \in Items : row'[i].owner = row[i].owner
    BY <1>0, <2>1 DEF Row
  <2> QED
    BY <1>1, <2>2, OwnerStays DEF Claim, Unseen
<1>2. ASSUME NEW i \in Items, NEW s \in Statuses, BotUpdates(d, i, s) PROVE Unseen
  <2>1. \A j \in Items : row'[j].owner = row[j].owner
    BY <1>0, <1>2, StatusEdit DEF BotUpdates
  <2> QED
    BY <1>2, <2>1, OwnerStays DEF BotUpdates, Unseen
<1>3. ASSUME NEW i \in Items, NEW b \in Bots, BotTransfers(d, i, b) PROVE Assigned!Next
  BY <1>0, <1>3, HandOverAssigns DEF BotTransfers
<1>4. ASSUME NEW ran \in BOOLEAN, RunEnds(d, ran) PROVE Unseen
  <2>1. row' = row \/ row' = [row EXCEPT ![disp[d].item].run = ran]
    BY <1>4 DEF RunEnds
  <2>2. \A i \in Items : row'[i].owner = row[i].owner
    BY <1>0, <2>1 DEF Row
  <2> QED
    BY <1>4, <2>2, OwnerStays DEF RunEnds, Unseen
<1>5. ASSUME UNCHANGED <<row, ledger, wakes>> PROVE Unseen
  BY <1>5, OwnerStays DEF Unseen
<1>6. ASSUME NEW i \in Items, Wake(d, i) PROVE Assigned!Next
  BY <1>6, WakeTells
<1> QED
  BY <1>1, <1>2, <1>3, <1>4, <1>5, <1>6
     DEF DispStep, PassStep, SkipOrphan, BotRefreshes, PassFails

\* So is what a request does.
LEMMA RequestMaps ==
  ASSUME TypeOK, NEW q \in Requests, RequestStep(q)
  PROVE  Assigned!Next \/ Unseen
<1>0. req[q].seen \in Row /\ (req[q] # IdleReq => req[q].item \in Items)
  BY DEF TypeOK
<1>1. ASSUME NEW s \in Statuses, Patch(q, s) PROVE Unseen
  <2>1. \A j \in Items : row'[j].owner = row[j].owner
    BY <1>0, <1>1, StatusEdit DEF Patch
  <2> QED
    BY <1>1, <2>1, OwnerStays DEF Patch, Unseen
<1>2. ASSUME NEW b \in Bots, Transfer(q, b) PROVE Assigned!Next
  BY <1>0, <1>2, HandOverAssigns DEF Transfer
<1>3. ASSUME UNCHANGED <<row, ledger, wakes>> PROVE Unseen
  BY <1>3, OwnerStays DEF Unseen
<1> QED
  BY <1>1, <1>2, <1>3 DEF RequestStep, RequestReads, RequestEnds

\* Every step maps to a step of Assignment or to a stutter.
LEMMA QueueMaps ==
  ASSUME Budget, [Next]_vars
  PROVE  Assigned!Next \/ Unseen
<1>1. TypeOK
  BY DEF Budget
<1>2. CASE UNCHANGED vars
  BY <1>2, OwnerStays DEF vars, Unseen
<1> QED
  BY <1>1, <1>2, DispatcherMaps, RequestMaps, CreationAssigns, DeletionLoses DEF Next

\* For any number of items, bots, replicas and requests, whatever copies they write from
\* and whatever dies, the queue keeps what it promises an owner (work_items,
\* work_dispatch).
THEOREM AssignmentsAreKept == Spec => OwnersAreAssigned
<1>1. Init => Assigned!Init
  BY DEF Init, Assigned!Init, Owner, Blank
<1>2. Budget /\ [Next]_vars => [Assigned!Next]_<<Owner, ledger, wakes>>
  BY QueueMaps DEF Unseen
<1> QED
  BY <1>1, <1>2, InitBudget, NextBudget, PTL DEF Spec, OwnersAreAssigned, Assigned!Spec
=============================================================================
