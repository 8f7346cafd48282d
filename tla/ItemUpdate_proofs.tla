-------------------------- MODULE ItemUpdate_proofs --------------------------
(***************************************************************************)
(* Proofs about ItemUpdate, for any number of requests, items, fields and  *)
(* edits, and every set of faults.                                         *)
(***************************************************************************)
EXTENDS ItemUpdate, WellFoundedInduction, TLAPS

\* A set of indices that is not empty has a last one.
LEMMA LastExists ==
  ASSUME NEW n \in Nat, NEW S, S \subseteq 1..n, S # {}
  PROVE  \E m \in S : \A k \in S : k <= m
<1> DEFINE T == {n - k : k \in S}
           R == {p \in Nat \X Nat : p[1] < p[2]}
<1>1. IsWellFoundedOn(OpToRel(<, Nat), Nat)
  BY NatLessThanWellFounded, Zenon
<1>2. OpToRel(<, Nat) = R
  BY Zenon DEF OpToRel
<1>3. IsWellFoundedOn(R, Nat)
  BY <1>1, <1>2, Zenon
<1>4. T \subseteq Nat /\ T # {}
  <2>1. \A k \in S : k \in 1..n /\ n - k \in Nat
    OBVIOUS
  <2>2. T # {}
    OBVIOUS
  <2> QED
    BY <2>1, <2>2
<1> HIDE DEF R
<1>5. \E x \in T : \A y \in T : ~(<<y, x>> \in R)
  <2> HIDE DEF T
  <2> QED
    BY <1>3, <1>4, WFMin, Zenon
<1>6. PICK x \in T : \A y \in T : ~(y < x)
  BY <1>4, <1>5 DEF R
<1>7. PICK m \in S : x = n - m
  BY <1>6
<1>8. \A k \in S : ~(n - k < n - m)
  BY <1>6, <1>7
<1> QED
  BY <1>8

\* What a body is made of.
LEMMA CommandType ==
  ASSUME NEW c \in Command
  PROVE  /\ c.kind \in {"update", "purchased", "manufactured"} /\ c.item \in Item
         /\ Len(c.changes) \in Nat
         /\ \A n \in 1..Len(c.changes) :
              /\ c.changes[n].field \in Field /\ c.changes[n].new \in Value
<1>1. /\ c.kind \in {"update", "purchased", "manufactured"} /\ c.item \in Item
      /\ c.changes \in Seq(Change)
  BY CommandAssumption
<1>2. \A n \in 1..Len(c.changes) : c.changes[n] \in Change
  <2> HIDE DEF Change
  <2> QED
    BY <1>1
<1>3. Len(c.changes) \in Nat
  BY <1>1
<1> QED
  BY <1>1, <1>2, <1>3 DEF Change

\* Changes leave an item well-typed, whichever field they name twice.
LEMMA WithType ==
  ASSUME NEW fields \in Fields, NEW c \in Command
  PROVE  With(fields, c.changes) \in Fields
<1> DEFINE Given(f) == {n \in 1..Len(c.changes) : c.changes[n].field = f}
           Last(f) == CHOOSE n \in Given(f) : \A m \in Given(f) : m <= n
           New(f) == IF Given(f) = {} THEN fields[f] ELSE c.changes[Last(f)].new
<1>1. ASSUME NEW f \in Field PROVE New(f) \in Value
  <2>1. CASE Given(f) = {}
    BY <2>1 DEF Fields
  <2>2. CASE Given(f) # {}
    <3>1. Given(f) \subseteq 1..Len(c.changes) /\ Len(c.changes) \in Nat
      BY CommandType
    <3>2. \E n \in Given(f) : \A m \in Given(f) : m <= n
      BY <2>2, <3>1, LastExists
    <3>3. Last(f) \in Given(f)
      BY <3>2
    <3>4. c.changes[Last(f)].new \in Value
      BY <3>1, <3>3, CommandType
    <3> QED
      BY <2>2, <3>4
  <2> QED
    BY <2>1, <2>2
<1>2. With(fields, c.changes) = [f \in Field |-> New(f)]
  BY DEF With
<1> HIDE DEF New
<1> QED
  BY <1>1, <1>2 DEF Fields

\* A copy and a patched item are items.
LEMMA CardType ==
  ASSUME TypeOK
  PROVE  /\ Copied \in ItemState
         /\ \A r \in Request : /\ cmd[r] \in Command /\ cmd[r].item \in Item
                               /\ Card(r) \in ItemState \cup {None}
                               /\ Card(r) # None => Patched(Card(r), cmd[r].changes) \in ItemState
<1>1. Copied \in ItemState
  BY TemplateAssumption DEF Copied, ItemState
<1>2. ASSUME NEW r \in Request
      PROVE  cmd[r] \in Command /\ cmd[r].item \in Item /\ Card(r) \in ItemState \cup {None}
  BY CommandType DEF TypeOK, Card
<1>3. ASSUME NEW r \in Request, Card(r) # None
      PROVE  Patched(Card(r), cmd[r].changes) \in ItemState
  <2>1. Card(r) \in ItemState /\ cmd[r] \in Command
    BY <1>2, <1>3
  <2>2. Card(r).fields \in Fields /\ Card(r).version \in Nat
    BY <2>1 DEF ItemState
  <2>3. With(Card(r).fields, cmd[r].changes) \in Fields
    BY <2>1, <2>2, WithType
  <2> QED
    BY <2>2, <2>3 DEF Patched, ItemState
<1> QED
  BY <1>1, <1>2, <1>3

\* Nothing is there at first.
LEMMA InitInv == Init => IInv
<1> SUFFICES ASSUME Init PROVE IInv
  OBVIOUS
<1>1. TypeOK
  BY TemplateAssumption, MixAssumption DEF Init, TypeOK, Stage, Copied, ItemState
<1> QED
  BY <1>1 DEF Init, IInv, SeenInv, PatchInv, Sends, StageInv, MadeInv, OneMaker

\* A request does not change what it asks.
LEMMA BodiesStay == [Next]_vars => cmd' = cmd
  BY DEF Next, vars, ServerStep, Failure, Arrive, ReadForUpdate, LookUp, CopyTemplate, ReadCopy,
     PatchItem, Reload, NotFound, ReadFails, WriteRefused, WriteTimesOut, WorkerDies,
     DeliverLatePatch, DeliverLateCopy, Edit

\* The version of an item only grows, and no two contents share one.
LEMMA CardSteps ==
  ASSUME IInv, [Next]_vars, NEW i \in Item, items[i] # None
  PROVE  /\ items'[i] # None
         /\ items'[i] = items[i] \/ items'[i].version > items[i].version
<1> DEFINE Grows == items'[i] # None /\ (items'[i] = items[i] \/ items'[i].version > items[i].version)
<1>0. TypeOK /\ items[i] \in ItemState /\ items[i].version \in Nat
  BY DEF IInv, TypeOK, ItemState
<1>1. ASSUME NEW r \in Request, ApplyPatch(r), Card(r) # None PROVE Grows
  <2>1. Patched(Card(r), cmd[r].changes) \in ItemState /\ cmd[r].item \in Item
    BY <1>0, <1>1, CardType
  <2>2. CASE cmd[r].item = i
    <3>1. items'[i] = Patched(items[i], cmd[r].changes)
      BY <1>0, <1>1, <2>2 DEF ApplyPatch, Card, TypeOK
    <3> QED
      BY <1>0, <2>1, <2>2, <3>1, DistinctAssumption DEF Patched, Card
  <2>3. CASE cmd[r].item # i
    BY <1>0, <1>1, <2>3 DEF ApplyPatch, TypeOK
  <2> QED
    BY <2>2, <2>3
<1>2. ASSUME NEW r \in Request, MakeCopy(r), Card(r) = None PROVE Grows
  <2>1. cmd[r].item # i
    BY <1>2 DEF Card
  <2> QED
    BY <1>0, <1>2, <2>1 DEF MakeCopy, TypeOK
<1>3. ASSUME NEW j \in Item, Edit(j) PROVE Grows
  <2>1. PICK f \in Field, v \in Value :
          items' = [items EXCEPT ![j] = [fields |-> [items[j].fields EXCEPT ![f] = v],
                                         version |-> items[j].version + 1]]
    BY <1>3 DEF Edit
  <2>2. CASE j = i
    <3>1. items'[i] = [fields |-> [items[i].fields EXCEPT ![f] = v], version |-> items[i].version + 1]
      BY <1>0, <2>1, <2>2 DEF TypeOK
    <3>2. [items[i].fields EXCEPT ![f] = v] \in Fields
      BY <1>0 DEF ItemState, Fields
    <3>3. items'[i] \in ItemState
      BY <1>0, <3>1, <3>2 DEF ItemState
    <3> QED
      BY <1>0, <3>1, <3>3, DistinctAssumption
  <2>3. CASE j # i
    BY <1>0, <2>1, <2>3 DEF TypeOK
  <2> QED
    BY <2>2, <2>3
<1>4. CASE items' = items
  BY <1>4
<1>5. ASSUME NEW r \in Request, ServerStep(r) \/ Failure(r) \/ Arrive(r) PROVE Grows
  BY <1>1, <1>2, <1>4, <1>5
  DEF ServerStep, Failure, Arrive, ReadForUpdate, LookUp, CopyTemplate, ReadCopy, PatchItem, Reload,
      NotFound, ReadFails, WriteRefused, WriteTimesOut, WorkerDies, Unchanged, erpVars
<1>6. ASSUME NEW r \in Request, DeliverLatePatch(r) \/ DeliverLateCopy(r) PROVE Grows
  BY <1>1, <1>2, <1>4, <1>6 DEF DeliverLatePatch, DeliverLateCopy, Unchanged, erpVars
<1> QED
  BY <1>3, <1>4, <1>5, <1>6 DEF Next, vars

\* Every step preserves the types.
LEMMA StepType == IInv /\ [Next]_vars => TypeOK'
<1> SUFFICES ASSUME IInv, [Next]_vars PROVE TypeOK'
  OBVIOUS
<1> USE DistinctAssumption
    DEF IInv, TypeOK, Stage, GoTo, erpVars, underWay
<1>1. ASSUME NEW r \in Request, Arrive(r) PROVE TypeOK'
  BY <1>1, CommandType, SMTT(30) DEF Arrive
<1>2. ASSUME NEW r \in Request, ReadForUpdate(r) PROVE TypeOK'
  <2>1. stage' \in [Request -> Stage]
    BY <1>2 DEF ReadForUpdate
  <2>2. seen' \in [Request -> ItemState \cup {None}]
    BY <1>2, CardType DEF ReadForUpdate, Note
  <2> HIDE DEF Stage, TypeOK
  <2> QED
    BY <1>2, <2>1, <2>2 DEF ReadForUpdate, TypeOK
<1>3. ASSUME NEW r \in Request, LookUp(r) PROVE TypeOK'
  <2>1. stage' \in [Request -> Stage]
    BY <1>3 DEF LookUp
  <2>2. seen' \in [Request -> ItemState \cup {None}]
    BY <1>3, CardType DEF LookUp, Note
  <2> HIDE DEF Stage, TypeOK
  <2> QED
    BY <1>3, <2>1, <2>2 DEF LookUp, TypeOK
<1>4. ASSUME NEW r \in Request, CopyTemplate(r) PROVE TypeOK'
  <2>1. stage' \in [Request -> Stage]
    BY <1>4 DEF CopyTemplate
  <2>2. items' \in [Item -> ItemState \cup {None}]
    BY <1>4, CardType DEF CopyTemplate, MakeCopy
  <2>3. made' \subseteq Request /\ applied' \subseteq Request
    BY <1>4 DEF CopyTemplate, MakeCopy
  <2> HIDE DEF Stage
  <2> QED
    BY <1>4, <2>1, <2>2, <2>3 DEF CopyTemplate
<1>5. ASSUME NEW r \in Request, ReadCopy(r) PROVE TypeOK'
  <2>1. stage' \in [Request -> Stage]
    BY <1>5 DEF ReadCopy
  <2>2. seen' \in [Request -> ItemState \cup {None}]
    BY <1>5, CardType DEF ReadCopy, Note
  <2> HIDE DEF Stage, TypeOK
  <2> QED
    BY <1>5, <2>1, <2>2 DEF ReadCopy, TypeOK
<1>6. ASSUME NEW r \in Request, PatchItem(r) PROVE TypeOK'
  <2>1. stage' \in [Request -> Stage]
    BY <1>6 DEF PatchItem
  <2>2. items' \in [Item -> ItemState \cup {None}]
    BY <1>6, CardType DEF PatchItem, ApplyPatch, Unchanged
  <2>3. made' \subseteq Request /\ applied' \subseteq Request
    BY <1>6 DEF PatchItem, ApplyPatch, Unchanged
  <2> HIDE DEF Stage
  <2> QED
    BY <1>6, <2>1, <2>2, <2>3 DEF PatchItem
<1>7. ASSUME NEW r \in Request, Reload(r) PROVE TypeOK'
  BY <1>7, CommandType, SMTT(30) DEF Reload
<1>8. ASSUME NEW r \in Request, NotFound(r) PROVE TypeOK'
  BY <1>8, CommandType, SMTT(30) DEF NotFound
<1>9. ASSUME NEW r \in Request, ReadFails(r) PROVE TypeOK'
  BY <1>9, CommandType, SMTT(30) DEF ReadFails
<1>10. ASSUME NEW r \in Request, WriteTimesOut(r) PROVE TypeOK'
  BY <1>10, CommandType, SMTT(30) DEF WriteTimesOut
<1>11. ASSUME NEW r \in Request, WorkerDies(r) PROVE TypeOK'
  BY <1>11, CommandType, SMTT(30) DEF WorkerDies, Ended
<1>12. ASSUME NEW r \in Request, DeliverLatePatch(r) PROVE TypeOK'
  <2>1. stage' \in [Request -> Stage]
    BY <1>12 DEF DeliverLatePatch
  <2>2. items' \in [Item -> ItemState \cup {None}]
    BY <1>12, CardType DEF DeliverLatePatch, ApplyPatch, Unchanged
  <2>3. made' \subseteq Request /\ applied' \subseteq Request
    BY <1>12 DEF DeliverLatePatch, ApplyPatch, Unchanged
  <2> HIDE DEF Stage
  <2> QED
    BY <1>12, <2>1, <2>2, <2>3 DEF DeliverLatePatch
<1>13. ASSUME NEW r \in Request, DeliverLateCopy(r) PROVE TypeOK'
  <2>1. stage' \in [Request -> Stage]
    BY <1>13 DEF DeliverLateCopy
  <2>2. items' \in [Item -> ItemState \cup {None}]
    BY <1>13, CardType DEF DeliverLateCopy, MakeCopy
  <2>3. made' \subseteq Request /\ applied' \subseteq Request
    BY <1>13 DEF DeliverLateCopy, MakeCopy
  <2> HIDE DEF Stage
  <2> QED
    BY <1>13, <2>1, <2>2, <2>3 DEF DeliverLateCopy
<1>14. ASSUME NEW i \in Item, Edit(i) PROVE TypeOK'
  <2>1. items[i] \in ItemState
    BY <1>14 DEF Edit
  <2>2. \A f \in Field, v \in Value :
          [fields |-> [items[i].fields EXCEPT ![f] = v], version |-> items[i].version + 1] \in ItemState
    BY <2>1 DEF ItemState, Fields
  <2>3. items' \in [Item -> ItemState \cup {None}]
    BY <1>14, <2>2 DEF Edit
  <2> QED
    BY <1>14, <2>3 DEF Edit
<1>15. CASE UNCHANGED vars
  BY <1>15 DEF vars
<1>16. ASSUME NEW r \in Request, WriteRefused(r) PROVE TypeOK'
  BY <1>16, CommandType, SMTT(30) DEF WriteRefused
<1> QED
  BY <1>1, <1>2, <1>3, <1>4, <1>5, <1>6, <1>7,
     <1>8, <1>9, <1>10, <1>11, <1>12, <1>13, <1>14, <1>15, <1>16
  DEF Next, ServerStep, Failure

\* What a request has read stays comparable with what there is.
LEMMA StepSeen == IInv /\ [Next]_vars => SeenInv'
<1> SUFFICES ASSUME IInv, [Next]_vars, NEW q \in Request, seen'[q] # None
             PROVE  (/\ Card(q) # None
                     /\ seen[q].version <= Card(q).version
                     /\ seen[q].version = Card(q).version => seen[q].fields = Card(q).fields)'
  BY DEF SeenInv
<1>0. TypeOK /\ TypeOK'
  BY StepType DEF IInv
<1>1. cmd' = cmd
  BY BodiesStay
<1>2. seen'[q] = seen[q] \/ (seen'[q] = Card(q) /\ items' = items)
  BY <1>0 DEF TypeOK, Next, vars, ServerStep, Failure, Arrive, ReadForUpdate, LookUp, CopyTemplate,
     ReadCopy, PatchItem, Reload, NotFound, ReadFails, WriteRefused, WriteTimesOut, WorkerDies,
     DeliverLatePatch, DeliverLateCopy, Edit, Note, erpVars
<1>3. cmd[q].item \in Item
  BY <1>0, CardType
<1>4. CASE seen'[q] = Card(q) /\ items' = items
  <2>1. Card(q) \in ItemState
    BY <1>0, <1>4, CardType
  <2> QED
    BY <1>1, <1>4, <2>1 DEF Card, ItemState
<1>5. CASE seen'[q] = seen[q]
  <2>1. /\ Card(q) # None /\ seen[q].version <= Card(q).version
        /\ seen[q].version = Card(q).version => seen[q].fields = Card(q).fields
    BY <1>5 DEF IInv, SeenInv
  <2>2. /\ items'[cmd[q].item] # None
        /\ items'[cmd[q].item] = items[cmd[q].item] \/ items'[cmd[q].item].version > items[cmd[q].item].version
    BY <1>3, <2>1, CardSteps DEF Card
  <2>3. /\ seen[q].version \in Nat /\ items[cmd[q].item].version \in Nat
        /\ items'[cmd[q].item].version \in Nat
    BY <1>0, <1>3, <1>5, <2>1, <2>2 DEF TypeOK, ItemState, Card
  <2> QED
    BY <1>1, <1>5, <2>1, <2>2, <2>3 DEF Card
<1> QED
  BY <1>2, <1>4, <1>5

\* A PATCH is sent, and stays under way, on the terms it was accepted on.
LEMMA StepPatch == IInv /\ [Next]_vars => PatchInv'
<1> SUFFICES ASSUME IInv, [Next]_vars PROVE PatchInv'
  OBVIOUS
<1> USE DistinctAssumption
    DEF IInv, TypeOK, PatchInv, StageInv, MadeInv, Sends, GoTo, erpVars, underWay
<1>1. ASSUME NEW r \in Request, Arrive(r) PROVE PatchInv'
  BY <1>1, CommandType, SMTT(30) DEF Arrive
<1>2. ASSUME NEW r \in Request, ReadForUpdate(r) PROVE PatchInv'
  BY <1>2, CommandType, SMTT(30) DEF ReadForUpdate, Note, Card
<1>3. ASSUME NEW r \in Request, LookUp(r) PROVE PatchInv'
  BY <1>3, CommandType, SMTT(30) DEF LookUp, Note, Card
<1>4. ASSUME NEW r \in Request, CopyTemplate(r) PROVE PatchInv'
  BY <1>4, CommandType, SMTT(30) DEF CopyTemplate, MakeCopy, Card, Copied
<1>5. ASSUME NEW r \in Request, ReadCopy(r) PROVE PatchInv'
  BY <1>5, CommandType, SMTT(30) DEF ReadCopy, Note, Card
<1>6. ASSUME NEW r \in Request, PatchItem(r) PROVE PatchInv'
  BY <1>6, CommandType, SMTT(30) DEF PatchItem, ApplyPatch, Patched, Unchanged, Card
<1>7. ASSUME NEW r \in Request, Reload(r) PROVE PatchInv'
  BY <1>7, CommandType, SMTT(30) DEF Reload
<1>8. ASSUME NEW r \in Request, NotFound(r) PROVE PatchInv'
  BY <1>8, CommandType, SMTT(30) DEF NotFound
<1>9. ASSUME NEW r \in Request, ReadFails(r) PROVE PatchInv'
  BY <1>9, CommandType, SMTT(30) DEF ReadFails
<1>10. ASSUME NEW r \in Request, WriteTimesOut(r) PROVE PatchInv'
  BY <1>10, CommandType, SMTT(30) DEF WriteTimesOut
<1>11. ASSUME NEW r \in Request, WorkerDies(r) PROVE PatchInv'
  BY <1>11, CommandType, SMTT(30) DEF WorkerDies, Ended
<1>12. ASSUME NEW r \in Request, DeliverLatePatch(r) PROVE PatchInv'
  BY <1>12, CommandType, SMTT(30) DEF DeliverLatePatch, ApplyPatch, Patched, Unchanged, Card
<1>13. ASSUME NEW r \in Request, DeliverLateCopy(r) PROVE PatchInv'
  BY <1>13, CommandType, SMTT(30) DEF DeliverLateCopy, MakeCopy, Card, Copied
<1>14. ASSUME NEW i \in Item, Edit(i) PROVE PatchInv'
  BY <1>14, CommandType, SMTT(30) DEF Edit
<1>15. CASE UNCHANGED vars
  BY <1>15 DEF vars
<1>16. ASSUME NEW r \in Request, WriteRefused(r) PROVE PatchInv'
  BY <1>16, CommandType, SMTT(30) DEF WriteRefused
<1> QED
  BY <1>1, <1>2, <1>3, <1>4, <1>5, <1>6, <1>7,
     <1>8, <1>9, <1>10, <1>11, <1>12, <1>13, <1>14, <1>15, <1>16
  DEF Next, ServerStep, Failure

\* Every step preserves what requests on their way have done.
LEMMA StepStage == IInv /\ [Next]_vars => StageInv'
<1> SUFFICES ASSUME IInv, [Next]_vars PROVE StageInv'
  OBVIOUS
<1> USE DistinctAssumption
    DEF IInv, TypeOK, PatchInv, StageInv, Sends, GoTo, erpVars, underWay
<1>1. ASSUME NEW r \in Request, Arrive(r) PROVE StageInv'
  BY <1>1, CommandType, SMTT(30) DEF Arrive
<1>2. ASSUME NEW r \in Request, ReadForUpdate(r) PROVE StageInv'
  BY <1>2, CommandType, SMTT(30) DEF ReadForUpdate, Note, Card
<1>3. ASSUME NEW r \in Request, LookUp(r) PROVE StageInv'
  BY <1>3, CommandType, SMTT(30) DEF LookUp, Note, Card
<1>4. ASSUME NEW r \in Request, CopyTemplate(r) PROVE StageInv'
  BY <1>4, CommandType, SMTT(30) DEF CopyTemplate, MakeCopy, Card, Copied
<1>5. ASSUME NEW r \in Request, ReadCopy(r) PROVE StageInv'
  BY <1>5, CommandType, SMTT(30) DEF ReadCopy, Note, Card
<1>6. ASSUME NEW r \in Request, PatchItem(r) PROVE StageInv'
  BY <1>6, CommandType, SMTT(30) DEF PatchItem, ApplyPatch, Patched, Unchanged, Card
<1>7. ASSUME NEW r \in Request, Reload(r) PROVE StageInv'
  BY <1>7, CommandType, SMTT(30) DEF Reload
<1>8. ASSUME NEW r \in Request, NotFound(r) PROVE StageInv'
  BY <1>8, CommandType, SMTT(30) DEF NotFound
<1>9. ASSUME NEW r \in Request, ReadFails(r) PROVE StageInv'
  BY <1>9, CommandType, SMTT(30) DEF ReadFails
<1>10. ASSUME NEW r \in Request, WriteTimesOut(r) PROVE StageInv'
  BY <1>10, CommandType, SMTT(30) DEF WriteTimesOut
<1>11. ASSUME NEW r \in Request, WorkerDies(r) PROVE StageInv'
  BY <1>11, CommandType, SMTT(30) DEF WorkerDies, Ended
<1>12. ASSUME NEW r \in Request, DeliverLatePatch(r) PROVE StageInv'
  BY <1>12, CommandType, SMTT(30) DEF DeliverLatePatch, ApplyPatch, Patched, Unchanged, Card
<1>13. ASSUME NEW r \in Request, DeliverLateCopy(r) PROVE StageInv'
  BY <1>13, CommandType, SMTT(30) DEF DeliverLateCopy, MakeCopy, Card, Copied
<1>14. ASSUME NEW i \in Item, Edit(i) PROVE StageInv'
  BY <1>14, CommandType, SMTT(30) DEF Edit
<1>15. CASE UNCHANGED vars
  BY <1>15 DEF vars
<1>16. ASSUME NEW r \in Request, WriteRefused(r) PROVE StageInv'
  BY <1>16, CommandType, SMTT(30) DEF WriteRefused
<1> QED
  BY <1>1, <1>2, <1>3, <1>4, <1>5, <1>6, <1>7,
     <1>8, <1>9, <1>10, <1>11, <1>12, <1>13, <1>14, <1>15, <1>16
  DEF Next, ServerStep, Failure

\* An item that was copied is there from then on.
LEMMA StepMade == IInv /\ [Next]_vars => MadeInv'
<1> SUFFICES ASSUME IInv, [Next]_vars, NEW q \in made' PROVE Card(q)' # None
  BY DEF MadeInv
<1>1. TypeOK /\ TypeOK' /\ cmd' = cmd /\ q \in Request
  BY StepType, BodiesStay DEF IInv, TypeOK
<1>2. cmd[q].item \in Item
  BY <1>1, CardType
<1>3. CASE q \in made
  BY <1>1, <1>2, <1>3, CardSteps DEF IInv, MadeInv, Card
<1>4. CASE q \notin made
  <2>1. MakeCopy(q)
    BY <1>1, <1>4 DEF Next, vars, ServerStep, Failure, Arrive, ReadForUpdate, LookUp, CopyTemplate,
       ReadCopy, PatchItem, Reload, NotFound, ReadFails, WriteRefused, WriteTimesOut, WorkerDies,
       ApplyPatch,
       MakeCopy, DeliverLatePatch, DeliverLateCopy, Edit, erpVars
  <2>2. items'[cmd[q].item] = Copied /\ Copied \in ItemState
    BY <1>1, <1>2, <2>1, CardType DEF MakeCopy, TypeOK
  <2> QED
    BY <1>1, <2>2, DistinctAssumption DEF Card
<1> QED
  BY <1>3, <1>4

\* A second copy of an item is never made.
LEMMA StepMaker == IInv /\ [Next]_vars => OneMaker'
<1> SUFFICES ASSUME IInv, [Next]_vars PROVE OneMaker'
  OBVIOUS
<1> USE DistinctAssumption
    DEF IInv, TypeOK, OneMaker, PatchInv, StageInv, MadeInv, Sends, GoTo, erpVars, underWay
<1>1. ASSUME NEW r \in Request, Arrive(r) PROVE OneMaker'
  BY <1>1, CommandType, SMTT(30) DEF Arrive
<1>2. ASSUME NEW r \in Request, ReadForUpdate(r) PROVE OneMaker'
  BY <1>2, CommandType, SMTT(30) DEF ReadForUpdate, Note, Card
<1>3. ASSUME NEW r \in Request, LookUp(r) PROVE OneMaker'
  BY <1>3, CommandType, SMTT(30) DEF LookUp, Note, Card
<1>4. ASSUME NEW r \in Request, CopyTemplate(r) PROVE OneMaker'
  BY <1>4, CommandType, SMTT(30) DEF CopyTemplate, MakeCopy, Card, Copied
<1>5. ASSUME NEW r \in Request, ReadCopy(r) PROVE OneMaker'
  BY <1>5, CommandType, SMTT(30) DEF ReadCopy, Note, Card
<1>6. ASSUME NEW r \in Request, PatchItem(r) PROVE OneMaker'
  BY <1>6, CommandType, SMTT(30) DEF PatchItem, ApplyPatch, Patched, Unchanged, Card
<1>7. ASSUME NEW r \in Request, Reload(r) PROVE OneMaker'
  BY <1>7, CommandType, SMTT(30) DEF Reload
<1>8. ASSUME NEW r \in Request, NotFound(r) PROVE OneMaker'
  BY <1>8, CommandType, SMTT(30) DEF NotFound
<1>9. ASSUME NEW r \in Request, ReadFails(r) PROVE OneMaker'
  BY <1>9, CommandType, SMTT(30) DEF ReadFails
<1>10. ASSUME NEW r \in Request, WriteTimesOut(r) PROVE OneMaker'
  BY <1>10, CommandType, SMTT(30) DEF WriteTimesOut
<1>11. ASSUME NEW r \in Request, WorkerDies(r) PROVE OneMaker'
  BY <1>11, CommandType, SMTT(30) DEF WorkerDies, Ended
<1>12. ASSUME NEW r \in Request, DeliverLatePatch(r) PROVE OneMaker'
  BY <1>12, CommandType, SMTT(30) DEF DeliverLatePatch, ApplyPatch, Patched, Unchanged, Card
<1>13. ASSUME NEW r \in Request, DeliverLateCopy(r) PROVE OneMaker'
  BY <1>13, CommandType, SMTT(30) DEF DeliverLateCopy, MakeCopy, Card, Copied
<1>14. ASSUME NEW i \in Item, Edit(i) PROVE OneMaker'
  BY <1>14, CommandType, SMTT(30) DEF Edit
<1>15. CASE UNCHANGED vars
  BY <1>15 DEF vars
<1>16. ASSUME NEW r \in Request, WriteRefused(r) PROVE OneMaker'
  BY <1>16, CommandType, SMTT(30) DEF WriteRefused
<1> QED
  BY <1>1, <1>2, <1>3, <1>4, <1>5, <1>6, <1>7,
     <1>8, <1>9, <1>10, <1>11, <1>12, <1>13, <1>14, <1>15, <1>16
  DEF Next, ServerStep, Failure

\* Every step preserves the invariant.
LEMMA StepInv == IInv /\ [Next]_vars => IInv'
  BY StepType, StepSeen, StepPatch, StepStage, StepMade, StepMaker DEF IInv

\* The invariant holds in every behaviour.
THEOREM Invariance == Spec => []IInv
  BY InitInv, StepInv, PTL DEF Spec

\* Every variable has its type.
THEOREM TypeCorrect == Spec => []TypeOK
<1>1. IInv => TypeOK
  BY DEF IInv
<1> QED
  BY <1>1, Invariance, PTL

\* A 200 or 201 has its copy and changes in the ERP; a 409 to an update has
\* written nothing and never will (item_service.py:153-200).
THEOREM OutcomesHonest == Spec => []OutcomeIsHonest
<1>1. IInv => OutcomeIsHonest
  BY DEF IInv, StageInv, OutcomeIsHonest
<1> QED
  BY <1>1, Invariance, PTL

\* An item has one maker, and a new item's data come from it
\* (item_service.py:221-272).
THEOREM SingleMaker == Spec => []OneMaker
<1>1. IInv => OneMaker
  BY DEF IInv
<1> QED
  BY <1>1, Invariance, PTL

-----------------------------------------------------------------------------
(***************************************************************************)
(* The handlers implement the contract.                                    *)
(***************************************************************************)
\* What a client knows of an item card.
Shown(card) == IF card = None THEN None ELSE card.fields
ShownItems == [i \in Item |-> Shown(items[i])]
ShownSeen == [r \in Request |-> Shown(seen[r])]

\* An item that is there shows its fields.
LEMMA ShownCard ==
  ASSUME TypeOK, NEW r \in Request
  PROVE  /\ cmd[r].item \in Item
         /\ ShownItems[cmd[r].item] = Shown(Card(r))
         /\ Card(r) # None <=> Shown(Card(r)) # None
<1>1. cmd[r].item \in Item /\ Card(r) \in ItemState \cup {None}
  BY CardType
<1>2. Card(r) # None => Card(r).fields \in Fields
  BY <1>1 DEF ItemState
<1> QED
  BY <1>1, <1>2, DistinctAssumption DEF ShownItems, Shown, Card

\* A read of the item is a look.
LEMMA NoteLooks ==
  ASSUME TypeOK, NEW r \in Request, r \notin applied, Note(r), UNCHANGED <<cmd, erpVars>>
  PROVE  Contract!Look(r)
<1>1. ShownSeen' = [ShownSeen EXCEPT ![r] = ShownItems[cmd[r].item]]
  BY ShownCard DEF TypeOK, Note, ShownSeen
<1>2. ShownItems' = ShownItems
  BY DEF erpVars, ShownItems
<1>3. UNCHANGED <<cmd, made, applied>>
  BY DEF erpVars
<1> QED
  BY <1>1, <1>2, <1>3 DEF ShownItems, ShownSeen, Shown, Contract!Look

\* A copy that is made is a make.
LEMMA CopyMakes ==
  ASSUME TypeOK, NEW r \in Request, cmd[r].kind # "update", r \notin made \cup applied,
         Card(r) = None, MakeCopy(r), UNCHANGED <<cmd, seen>>
  PROVE  Contract!Make(r)
<1>1. ShownItems[cmd[r].item] = None
  BY ShownCard DEF Shown
<1>2. ShownItems' = [ShownItems EXCEPT ![cmd[r].item] = Template]
  <2>1. Copied # None /\ Copied.fields = Template
    BY CardType, DistinctAssumption DEF Copied
  <2> QED
    BY <2>1, ShownCard DEF TypeOK, MakeCopy, ShownItems, Shown
<1>3. ShownSeen' = ShownSeen /\ UNCHANGED <<cmd, applied>> /\ made' = made \cup {r}
  BY DEF ShownSeen, MakeCopy
<1> QED
  BY <1>1, <1>2, <1>3 DEF ShownItems, ShownSeen, Shown, Contract!Make, Contract!Creates

\* A PATCH that passes its If-Match is a change of the values it accepted.
LEMMA PatchChanges ==
  ASSUME IInv, NEW r \in Request, Sends(r), Unchanged(r), ApplyPatch(r), UNCHANGED <<cmd, seen>>
  PROVE  Contract!Change(r)
<1> DEFINE i == cmd[r].item
           c == cmd[r].changes
<1>1. TypeOK /\ seen[r] # None /\ r \notin applied /\ Card(r) # None
  BY DEF IInv, PatchInv, Unchanged
<1>2. seen[r].fields = Card(r).fields
  BY <1>1 DEF IInv, SeenInv, Unchanged
<1>3. ShownSeen[r] # None /\ ShownSeen[r] = seen[r].fields /\ ShownItems[i] = ShownSeen[r]
  BY <1>1, <1>2, ShownCard DEF ShownSeen, Shown
<1>4. IF cmd[r].kind = "update" THEN Meets(ShownSeen[r], c) ELSE r \in made
  BY <1>3 DEF IInv, PatchInv
<1>5. IF Contract!Creates(r) THEN r \in made ELSE Contract!Accepts(r, ShownSeen[r])
  BY <1>4 DEF Meets, Contract!Creates, Contract!Accepts
<1>6. ShownItems' = [ShownItems EXCEPT ![i] = Contract!After(ShownSeen[r], c)]
  <2>1. Patched(Card(r), c) \in ItemState
    BY <1>1, CardType
  <2>2. Patched(Card(r), c).fields = With(Card(r).fields, c)
    BY DEF Patched
  <2>3. Patched(Card(r), c) # None
    BY <2>1, DistinctAssumption
  <2>4. With(Card(r).fields, c) = Contract!After(ShownSeen[r], c)
    BY <1>2, <1>3 DEF With, Contract!After
  <2> QED
    BY <1>1, <2>2, <2>3, <2>4, ShownCard DEF TypeOK, ApplyPatch, ShownItems, Shown
<1>7. ShownSeen' = ShownSeen /\ UNCHANGED <<cmd, made>> /\ applied' = applied \cup {r}
  BY DEF ShownSeen, ApplyPatch
<1> QED
  BY <1>1, <1>3, <1>5, <1>6, <1>7 DEF ShownItems, ShownSeen, Shown, Contract!Change

\* What people do is an edit.
LEMMA EditEdits ==
  ASSUME TypeOK, NEW i \in Item, Edit(i)
  PROVE  Contract!Edit(i)
<1>1. items[i] \in ItemState /\ items[i] # None
  BY DEF TypeOK, Edit
<1>2. PICK f \in Field, v \in Value :
        items' = [items EXCEPT ![i] = [fields |-> [items[i].fields EXCEPT ![f] = v],
                                       version |-> items[i].version + 1]]
  BY DEF Edit
<1> DEFINE new == [items[i].fields EXCEPT ![f] = v]
           card == [fields |-> new, version |-> items[i].version + 1]
<1>3. new \in [Field -> Value]
  BY <1>1 DEF ItemState, Fields
<1>4. card \in ItemState /\ card.fields = new
  BY <1>1, <1>3 DEF ItemState, Fields
<1>5. card # None
  BY <1>4, DistinctAssumption
<1>6. items' = [items EXCEPT ![i] = card]
  BY <1>2
<1> HIDE DEF card, new
<1>7. ShownItems' = [ShownItems EXCEPT ![i] = new]
  BY <1>4, <1>5, <1>6 DEF TypeOK, ShownItems, Shown
<1>8. ShownItems[i] # None
  <2>1. items[i].fields \in Fields
    BY <1>1 DEF ItemState
  <2> QED
    BY <1>1, <2>1, DistinctAssumption DEF ShownItems, Shown
<1>9. ShownSeen' = ShownSeen /\ UNCHANGED <<cmd, made, applied>>
  BY DEF Edit, ShownSeen
<1> QED
  BY <1>3, <1>7, <1>8, <1>9 DEF ShownItems, ShownSeen, Shown, Contract!Edit

\* The handlers implement the contract: changes go in together, once, onto the
\* values the request has accepted; a copy goes only where there is no item
\* (item_service.py:153-272).
THEOREM HandlersImplementItemContract == Spec => ImplementsItemContract
<1>1. Init => Contract!Init
  <2> SUFFICES ASSUME Init PROVE Contract!Init
    OBVIOUS
  <2>1. cmd \in [Request -> Command]
    BY MixAssumption DEF Init
  <2>2. \A i \in Item : items[i] \in {None, Copied}
    BY DEF Init
  <2>3. Copied # None /\ Copied.fields = Template
    BY TemplateAssumption, DistinctAssumption DEF Copied, ItemState
  <2>4. [i \in Item |-> IF items[i] = None THEN None ELSE items[i].fields]
          \in [Item -> {None, Template}]
    BY <2>2, <2>3
  <2> QED
    BY <2>1, <2>4 DEF Init, Contract!Init
<1>2. IInv /\ [Next]_vars => [Contract!Next]_(Contract!vars)
  <2> SUFFICES ASSUME IInv, [Next]_vars PROVE Contract!Next \/ UNCHANGED Contract!vars
    BY Zenon
  <2>0. TypeOK
    BY DEF IInv
  <2>1. ASSUME NEW r \in Request, ReadForUpdate(r) \/ LookUp(r) \/ ReadCopy(r)
        PROVE  Contract!Next
    <3>1. r \notin applied /\ Note(r) /\ UNCHANGED <<cmd, erpVars>>
      BY <2>1 DEF ReadForUpdate, LookUp, ReadCopy, IInv, StageInv
    <3> QED
      BY <2>0, <3>1, NoteLooks DEF Contract!Next
  <2>2. ASSUME NEW r \in Request, CopyTemplate(r) \/ DeliverLateCopy(r)
        PROVE  Contract!Next \/ UNCHANGED Contract!vars
    <3>1. CASE UNCHANGED erpVars
      BY <2>2, <3>1 DEF CopyTemplate, DeliverLateCopy, erpVars, Contract!vars
    <3>2. CASE Card(r) = None /\ MakeCopy(r)
      <4>1. cmd[r].kind # "update" /\ r \notin made \cup applied
        BY <2>2 DEF CopyTemplate, DeliverLateCopy, IInv, StageInv
      <4>2. UNCHANGED <<cmd, seen>>
        BY <2>2 DEF CopyTemplate, DeliverLateCopy
      <4> QED
        BY <2>0, <3>2, <4>1, <4>2, CopyMakes DEF Contract!Next
    <3> QED
      BY <2>2, <3>1, <3>2 DEF CopyTemplate, DeliverLateCopy
  <2>3. ASSUME NEW r \in Request, PatchItem(r) \/ DeliverLatePatch(r)
        PROVE  Contract!Next \/ UNCHANGED Contract!vars
    <3>1. CASE UNCHANGED erpVars
      BY <2>3, <3>1 DEF PatchItem, DeliverLatePatch, erpVars, Contract!vars
    <3>2. CASE Unchanged(r) /\ ApplyPatch(r)
      <4>1. Sends(r) /\ UNCHANGED <<cmd, seen>>
        BY <2>3 DEF PatchItem, DeliverLatePatch, Sends
      <4> QED
        BY <3>2, <4>1, PatchChanges DEF Contract!Next
    <3> QED
      BY <2>3, <3>1, <3>2 DEF PatchItem, DeliverLatePatch
  <2>4. ASSUME NEW r \in Request, Arrive(r) \/ Reload(r) \/ Failure(r)
        PROVE  UNCHANGED Contract!vars
    BY <2>4 DEF Arrive, Reload, Failure, NotFound, ReadFails, WriteRefused, WriteTimesOut,
       WorkerDies, erpVars,
       Contract!vars
  <2>5. ASSUME NEW i \in Item, Edit(i) PROVE Contract!Next
    BY <2>0, <2>5, EditEdits DEF Contract!Next
  <2>6. CASE UNCHANGED vars
    BY <2>6 DEF vars, Contract!vars
  <2> QED
    BY <2>1, <2>2, <2>3, <2>4, <2>5, <2>6 DEF Next, ServerStep
<1> QED
  BY <1>1, <1>2, Invariance, PTL DEF Spec, ImplementsItemContract, Contract!Spec
=============================================================================
