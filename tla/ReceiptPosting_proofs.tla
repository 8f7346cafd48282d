----------------------- MODULE ReceiptPosting_proofs -----------------------
(***************************************************************************)
(* Proofs about ReceiptPosting, for every number of requests, lines and    *)
(* bodies, and every set of faults.                                        *)
(***************************************************************************)
EXTENDS ReceiptPosting, FiniteSetTheorems, TLAPS

\* A body has lines, of the order's lines and with positive quantities.
LEMMA CommandType ==
  ASSUME NEW c \in Command
  PROVE  /\ c.lines \in Seq([line : Line, quantity : Nat \ {0}])
         /\ c.refs \subseteq Ref /\ IsFiniteSet(c.refs)
         /\ c.delay \in BOOLEAN /\ c.key \in Key \cup {NoKey}
         /\ Len(c.lines) \in Nat \ {0}
         /\ \A i \in 1..Len(c.lines) : /\ c.lines[i].line \in Line
                                       /\ c.lines[i].quantity \in Nat \ {0}
<1> DEFINE Item == [line : Line, quantity : Nat \ {0}]
<1>1. /\ c.lines \in Seq(Item) /\ c.refs \subseteq Ref
      /\ c.delay \in BOOLEAN /\ c.key \in Key \cup {NoKey}
  BY CommandAssumption
<1>2. IsFiniteSet(c.refs) /\ Len(c.lines) > 0
  BY NonEmptyAssumption
<1>3. \A i \in 1..Len(c.lines) : c.lines[i] \in Item
  <2> HIDE DEF Item
  <2> QED
    BY <1>1
<1>4. Len(c.lines) \in Nat
  BY <1>1
<1> QED
  BY <1>1, <1>2, <1>3, <1>4

\* Before its first line is sent, a body has asked for nothing.
LEMMA AskedNothing ==
  ASSUME NEW c \in Command
  PROVE  AskedUpTo(c, 0) = [l \in Line |-> 0]
  BY DEF AskedUpTo

\* Sending a line extends what was asked for, whether or not the body had named
\* the line before (erp_client.py:829-840).
LEMMA AskedNext ==
  ASSUME NEW c \in Command, NEW n \in Nat, n + 1 <= Len(c.lines)
  PROVE  AskedUpTo(c, n + 1) =
           [AskedUpTo(c, n) EXCEPT ![c.lines[n + 1].line] = c.lines[n + 1].quantity]
<1> DEFINE Given(l, m) == {i \in 1..m : c.lines[i].line = l}
           Last(S) == CHOOSE i \in S : \A j \in S : j <= i
           Quantity(S) == IF S = {} THEN 0 ELSE c.lines[Last(S)].quantity
           Asked(l, m) == Quantity(Given(l, m))
<1>1. \A m \in Nat : AskedUpTo(c, m) = [l \in Line |-> Asked(l, m)]
  BY DEF AskedUpTo
<1>2. ASSUME NEW l \in Line, l # c.lines[n + 1].line
      PROVE  Asked(l, n + 1) = Asked(l, n)
  <2>1. Given(l, n + 1) = Given(l, n)
    BY <1>2
  <2> HIDE DEF Given, Quantity
  <2> QED
    BY <2>1
<1>3. ASSUME NEW l \in Line, l = c.lines[n + 1].line
      PROVE  Asked(l, n + 1) = c.lines[n + 1].quantity
  <2>1. n + 1 \in Given(l, n + 1) /\ \A j \in Given(l, n + 1) : j <= n + 1
    BY <1>3
  <2>2. Given(l, n + 1) \subseteq Nat
    OBVIOUS
  <2> HIDE DEF Given
  <2>3. \A i \in Given(l, n + 1) :
          (\A j \in Given(l, n + 1) : j <= i) => i = n + 1
    BY <2>1, <2>2
  <2>4. Last(Given(l, n + 1)) = n + 1
    BY <2>1, <2>3
  <2> HIDE DEF Last
  <2> QED
    BY <2>1, <2>4
<1> HIDE DEF Asked
<1> QED
  BY <1>1, <1>2, <1>3

\* No request has come and the order carries what the ERP proposes.
LEMMA InitInv == Init => IInv
<1> SUFFICES ASSUME Init PROVE IInv
  OBVIOUS
<1> USE DEF Init
<1>1. TypeOK
  BY OrderAssumption, DistinctAssumption DEF TypeOK, Stage, Quantities
<1>2. RequestInv
  BY CommandType DEF RequestInv, Unwritten, Writing, Storing, Enqueued
<1>3. IsFiniteSet(receipts)
  BY FS_EmptySet
<1> QED
  BY <1>1, <1>2, <1>3, DistinctAssumption
  DEF IInv, OwnerInv, EveryReceiptHasItsTrail, UndisturbedReceiptIsExact

\* What a request works with is well-typed.
LEMMA CurrentType ==
  ASSUME IInv, NEW r \in Request
  PROVE  /\ cmd[r] \in Command
         /\ Current(r).line \in Line /\ Current(r).quantity \in Nat
         /\ Len(cmd[r].lines) \in Nat \ {0} /\ at[r] \in 1..Len(cmd[r].lines)
         /\ cmd[r].key \in Key \cup {NoKey} /\ cmd[r].refs \subseteq Ref
  BY CommandType DEF IInv, TypeOK, RequestInv, Current

\* Every step preserves the types; a job posts no more than what is outstanding.
LEMMA StepType == IInv /\ [Next]_vars => TypeOK'
<1> SUFFICES ASSUME IInv, [Next]_vars PROVE TypeOK'
  OBVIOUS
<1> USE DistinctAssumption DEF IInv, TypeOK, Stage, GoTo, erpFields, erpLedger, dbVars, keyVars
<1>1. ASSUME NEW r \in Request, Arrive(r) PROVE TypeOK'
  BY <1>1, CurrentType, SMTT(60) DEF Arrive
<1>2. ASSUME NEW r \in Request, CheckIdempotency(r) PROVE TypeOK'
  BY <1>2, CurrentType, SMTT(60) DEF CheckIdempotency
<1>3. ASSUME NEW r \in Request, ValidateLine(r) PROVE TypeOK'
  <2>1. stage' \in [Request -> Stage] /\ at' \in [Request -> Nat \ {0}]
    BY <1>3 DEF ValidateLine
  <2> HIDE DEF Stage
  <2> QED
    BY <1>3, <2>1 DEF ValidateLine
<1>4. ASSUME NEW r \in Request, SetToZero(r) PROVE TypeOK'
  <2>1. stage' \in [Request -> Stage]
    BY <1>4 DEF SetToZero, Answer
  <2>2. toReceive' \in Quantities
    BY <1>4 DEF SetToZero, Quantities
  <2> HIDE DEF Stage
  <2> QED
    BY <1>4, <2>1, <2>2 DEF SetToZero
<1>5. ASSUME NEW r \in Request, UpdateVendShipNo(r) PROVE TypeOK'
  <2>1. stage' \in [Request -> Stage]
    BY <1>5 DEF UpdateVendShipNo, Answer
  <2>2. shipmentNo' \in Ref /\ owner' \in Request \cup {None} /\ touched' \subseteq Request
    BY <1>5, CurrentType DEF UpdateVendShipNo, Touch
  <2> HIDE DEF Stage
  <2> QED
    BY <1>5, <2>1, <2>2 DEF UpdateVendShipNo
<1>6. ASSUME NEW r \in Request, UpdateToReceiveLine(r) PROVE TypeOK'
  <2>1. stage' \in [Request -> Stage] /\ at' \in [Request -> Nat \ {0}]
    BY <1>6 DEF UpdateToReceiveLine, Answer
  <2>2. toReceive' \in Quantities
    BY <1>6, CurrentType DEF UpdateToReceiveLine, Quantities
  <2>3. owner' \in Request \cup {None} /\ touched' \subseteq Request
    BY <1>6 DEF UpdateToReceiveLine, Touch
  <2> HIDE DEF Stage
  <2> QED
    BY <1>6, <2>1, <2>2, <2>3 DEF UpdateToReceiveLine
<1>7. ASSUME NEW r \in Request, ReceiveMaterial(r) PROVE TypeOK'
  <2>1. stage' \in [Request -> Stage]
    BY <1>7 DEF ReceiveMaterial, Answer
  <2>2. job' \in [Request -> {"none", "queued", "posted", "failed"}]
    BY <1>7 DEF ReceiveMaterial
  <2> HIDE DEF Stage
  <2> QED
    BY <1>7, <2>1, <2>2 DEF ReceiveMaterial
<1>8. ASSUME NEW r \in Request, CheckForError(r) PROVE TypeOK'
  BY <1>8, CurrentType, SMTT(60) DEF CheckForError, Answer
<1>9. ASSUME NEW r \in Request, GetPurchaseOrder(r) PROVE TypeOK'
  BY <1>9, CurrentType, SMTT(60) DEF GetPurchaseOrder, Answer
<1>10. ASSUME NEW r \in Request, CallIsLost(r) PROVE TypeOK'
  BY <1>10, CurrentType, SMTT(60) DEF CallIsLost
<1>11. ASSUME NEW r \in Request, SaveRecord(r) PROVE TypeOK'
  <2>1. stage' \in [Request -> Stage]
    BY <1>11 DEF SaveRecord
  <2>2. idem' \in [Key -> Request \cup {Other, None}]
    BY <1>11 DEF SaveRecord
  <2> HIDE DEF Stage
  <2> QED
    BY <1>11, <2>1, <2>2 DEF SaveRecord
<1>12. ASSUME NEW r \in Request, WriteAudit(r) PROVE TypeOK'
  <2>1. stage' \in [Request -> Stage] /\ audit' \subseteq Request
    BY <1>12 DEF WriteAudit
  <2> HIDE DEF Stage
  <2> QED
    BY <1>12, <2>1 DEF WriteAudit
<1>13. ASSUME NEW r \in Request, JobPosts(r) PROVE TypeOK'
  <2>1. \A l \in Line : toReceive[l] \in Nat /\ Outstanding(l) - toReceive[l] \in Nat
    BY <1>13, OrderAssumption DEF JobPosts, Postable, Outstanding, Quantities
  <2>2. received' \in Quantities /\ toReceive' \in Quantities
    BY <1>13, <2>1 DEF JobPosts, Quantities
  <2>3. Cardinality(receipts) + 1 \in Nat
    BY FS_CardinalityType
  <2> DEFINE new == [no |-> Cardinality(receipts) + 1, by |-> r, ref |-> shipmentNo,
                     lines |-> toReceive, alone |-> owner = r]
  <2>4. new \in Receipt
    BY <2>3 DEF Receipt
  <2>5. receipts' \subseteq Receipt
    BY <1>13, <2>4 DEF JobPosts
  <2> HIDE DEF new
  <2> QED
    BY <1>13, <2>2, <2>5 DEF JobPosts
<1>14. ASSUME NEW r \in Request, JobFails(r) PROVE TypeOK'
  BY <1>14, CurrentType, SMTT(60) DEF JobFails
<1>15. ASSUME NEW l \in Line, CloseLine(l) PROVE TypeOK'
  BY <1>15 DEF CloseLine
<1>16. ASSUME NEW r \in Request, PurgeExpired(r) PROVE TypeOK'
  <2>1. stage' \in [Request -> Stage]
    BY <1>16 DEF PurgeExpired
  <2>2. idem' \in [Key -> Request \cup {Other, None}] /\ aged' \subseteq Key
    BY <1>16 DEF PurgeExpired
  <2> HIDE DEF Stage
  <2> QED
    BY <1>16, <2>1, <2>2 DEF PurgeExpired
<1>17. ASSUME NEW r \in Request, CompareWithWinner(r) PROVE TypeOK'
  <2>1. stage' \in [Request -> Stage]
    BY <1>17 DEF CompareWithWinner
  <2> HIDE DEF Stage
  <2> QED
    BY <1>17, <2>1 DEF CompareWithWinner
<1>18. ASSUME NEW k \in Key, RecordExpires(k) PROVE TypeOK'
  BY <1>18 DEF RecordExpires
<1>19. CASE UNCHANGED vars
  BY <1>19 DEF vars
<1> QED
  BY <1>1, <1>2, <1>3, <1>4, <1>5, <1>6, <1>7, <1>8, <1>9, <1>10, <1>11, <1>12,
     <1>13, <1>14, <1>15, <1>16, <1>17, <1>18, <1>19 DEF Next, ServerStep

\* Every step preserves what requests on their way have done.
LEMMA StepRequest == IInv /\ [Next]_vars => RequestInv'
<1> SUFFICES ASSUME IInv, [Next]_vars PROVE RequestInv'
  OBVIOUS
<1> USE DistinctAssumption
    DEF IInv, TypeOK, RequestInv, Unwritten, Writing, Storing, Enqueued, GoTo, erpFields, erpLedger,
        dbVars, keyVars
<1>1. ASSUME NEW r \in Request, Arrive(r) PROVE RequestInv'
  BY <1>1, CurrentType, SMTT(60) DEF Arrive
<1>2. ASSUME NEW r \in Request, CheckIdempotency(r) PROVE RequestInv'
  BY <1>2, CurrentType, SMTT(60) DEF CheckIdempotency
<1>3. ASSUME NEW r \in Request, ValidateLine(r) PROVE RequestInv'
  BY <1>3, CurrentType, SMTT(60) DEF ValidateLine, LineAllowed, LastLine
<1>4. ASSUME NEW r \in Request, SetToZero(r) PROVE RequestInv'
  BY <1>4, CurrentType, SMTT(60) DEF SetToZero, Answer
<1>5. ASSUME NEW r \in Request, UpdateVendShipNo(r) PROVE RequestInv'
  BY <1>5, CurrentType, SMTT(60) DEF UpdateVendShipNo, Answer, Touch
<1>6. ASSUME NEW r \in Request, UpdateToReceiveLine(r) PROVE RequestInv'
  BY <1>6, CurrentType, SMTT(60) DEF UpdateToReceiveLine, Answer, Touch, LastLine
<1>7. ASSUME NEW r \in Request, ReceiveMaterial(r) PROVE RequestInv'
  BY <1>7, CurrentType, SMTT(60) DEF ReceiveMaterial, Answer
<1>8. ASSUME NEW r \in Request, CheckForError(r) PROVE RequestInv'
  BY <1>8, CurrentType, SMTT(60) DEF CheckForError, Answer
<1>9. ASSUME NEW r \in Request, GetPurchaseOrder(r) PROVE RequestInv'
  BY <1>9, CurrentType, SMTT(60) DEF GetPurchaseOrder, Answer
<1>10. ASSUME NEW r \in Request, CallIsLost(r) PROVE RequestInv'
  BY <1>10, CurrentType, SMTT(60) DEF CallIsLost
<1>11. ASSUME NEW r \in Request, SaveRecord(r) PROVE RequestInv'
  BY <1>11, CurrentType, SMTT(60) DEF SaveRecord
<1>12. ASSUME NEW r \in Request, WriteAudit(r) PROVE RequestInv'
  BY <1>12, CurrentType, SMTT(60) DEF WriteAudit
<1>13. ASSUME NEW r \in Request, JobPosts(r) PROVE RequestInv'
  BY <1>13, CurrentType, SMTT(60) DEF JobPosts, Postable, Outstanding
<1>14. ASSUME NEW r \in Request, JobFails(r) PROVE RequestInv'
  BY <1>14, CurrentType, SMTT(60) DEF JobFails
<1>15. ASSUME NEW l \in Line, CloseLine(l) PROVE RequestInv'
  BY <1>15 DEF CloseLine
<1>16. ASSUME NEW r \in Request, PurgeExpired(r) PROVE RequestInv'
  BY <1>16, CurrentType, SMTT(60) DEF PurgeExpired
<1>17. ASSUME NEW r \in Request, CompareWithWinner(r) PROVE RequestInv'
  BY <1>17, CurrentType, SMTT(60) DEF CompareWithWinner
<1>18. ASSUME NEW k \in Key, RecordExpires(k) PROVE RequestInv'
  BY <1>18 DEF RecordExpires
<1>19. CASE UNCHANGED vars
  BY <1>19 DEF vars
<1> QED
  BY <1>1, <1>2, <1>3, <1>4, <1>5, <1>6, <1>7, <1>8, <1>9, <1>10, <1>11, <1>12,
     <1>13, <1>14, <1>15, <1>16, <1>17, <1>18, <1>19 DEF Next, ServerStep

\* Every step preserves what the order holds when nobody has come between the
\* writes of one request.
LEMMA StepOwner == IInv /\ [Next]_vars => OwnerInv'
<1> SUFFICES ASSUME IInv, [Next]_vars PROVE OwnerInv'
  OBVIOUS
<1> USE DistinctAssumption
    DEF IInv, TypeOK, RequestInv, OwnerInv, Unwritten, Writing, Storing, Enqueued, GoTo,
        erpFields, erpLedger, dbVars, keyVars
<1>1. ASSUME NEW r \in Request, Arrive(r) PROVE OwnerInv'
  BY <1>1, CurrentType, SMTT(60) DEF Arrive
<1>2. ASSUME NEW r \in Request, CheckIdempotency(r) PROVE OwnerInv'
  BY <1>2, CurrentType, SMTT(60) DEF CheckIdempotency
<1>3. ASSUME NEW r \in Request, ValidateLine(r) PROVE OwnerInv'
  BY <1>3, CurrentType, SMTT(60) DEF ValidateLine, LineAllowed, LastLine
<1>4. ASSUME NEW r \in Request, SetToZero(r) PROVE OwnerInv'
  <2>1. toReceive' = AskedUpTo(cmd[r], 0)
    BY <1>4, AskedNothing DEF SetToZero
  <2> QED
    BY <1>4, <2>1 DEF SetToZero, Answer
<1>5. ASSUME NEW r \in Request, UpdateVendShipNo(r) PROVE OwnerInv'
  <2>1. cmd[r].refs = {shipmentNo'}
    <3>1. PICK x : cmd[r].refs = {x}
      BY <1>5, CommandType, FS_Singleton DEF UpdateVendShipNo
    <3> QED
      BY <1>5, <3>1 DEF UpdateVendShipNo
  <2>2. CASE owner = r
    BY <1>5, <2>1, <2>2 DEF UpdateVendShipNo, Answer, Touch
  <2>3. CASE owner # r
    BY <1>5, <2>3 DEF UpdateVendShipNo, Answer, Touch
  <2> QED
    BY <2>2, <2>3
<1>6. ASSUME NEW r \in Request, UpdateToReceiveLine(r) PROVE OwnerInv'
  <2>1. CASE owner = r
    <3> DEFINE c == cmd[r]  n == at[r] - 1
    <3>1. c \in Command /\ n \in Nat /\ n + 1 = at[r] /\ n + 1 <= Len(c.lines)
      BY CurrentType
    <3>2. toReceive = AskedUpTo(c, n) /\ c.refs = {shipmentNo}
      BY <1>6, <2>1 DEF UpdateToReceiveLine
    <3>3. toReceive' = AskedUpTo(c, at[r])
      <4>1. toReceive' = [AskedUpTo(c, n) EXCEPT ![c.lines[n + 1].line] = c.lines[n + 1].quantity]
        BY <1>6, <3>1, <3>2 DEF UpdateToReceiveLine, Current
      <4> QED
        BY <3>1, <4>1, AskedNext
    <3>4. CASE ~LastLine(r)
      <4>1. /\ stage'[r] \in {"sending", "failed"} /\ at'[r] = at[r] + 1
            /\ job' = job /\ job[r] = "none" /\ owner' = r
            /\ cmd' = cmd /\ shipmentNo' = shipmentNo
        BY <1>6, <2>1, <3>4 DEF UpdateToReceiveLine, Answer, Touch
      <4>2. at'[r] - 1 = at[r]
        BY <3>1, <4>1
      <4> QED
        BY <3>2, <3>3, <4>1, <4>2
    <3>5. CASE LastLine(r)
      BY <1>6, <2>1, <3>1, <3>2, <3>3, <3>5
      DEF UpdateToReceiveLine, Answer, Touch, LastLine, AskedFor
    <3> QED
      BY <3>4, <3>5
  <2>2. CASE owner # r
    BY <1>6, <2>2 DEF UpdateToReceiveLine, Touch
  <2> QED
    BY <2>1, <2>2
<1>7. ASSUME NEW r \in Request, ReceiveMaterial(r) PROVE OwnerInv'
  BY <1>7, CurrentType, SMTT(60) DEF ReceiveMaterial, Answer
<1>8. ASSUME NEW r \in Request, CheckForError(r) PROVE OwnerInv'
  BY <1>8, CurrentType, SMTT(60) DEF CheckForError, Answer
<1>9. ASSUME NEW r \in Request, GetPurchaseOrder(r) PROVE OwnerInv'
  BY <1>9, CurrentType, SMTT(60) DEF GetPurchaseOrder, Answer
<1>10. ASSUME NEW r \in Request, CallIsLost(r) PROVE OwnerInv'
  BY <1>10, CurrentType, SMTT(60) DEF CallIsLost
<1>11. ASSUME NEW r \in Request, SaveRecord(r) PROVE OwnerInv'
  BY <1>11, CurrentType, SMTT(60) DEF SaveRecord
<1>12. ASSUME NEW r \in Request, WriteAudit(r) PROVE OwnerInv'
  BY <1>12, CurrentType, SMTT(60) DEF WriteAudit
<1>13. ASSUME NEW r \in Request, JobPosts(r) PROVE OwnerInv'
  BY <1>13, CurrentType, SMTT(60) DEF JobPosts, Postable, Outstanding
<1>14. ASSUME NEW r \in Request, JobFails(r) PROVE OwnerInv'
  BY <1>14, CurrentType, SMTT(60) DEF JobFails
<1>15. ASSUME NEW l \in Line, CloseLine(l) PROVE OwnerInv'
  BY <1>15 DEF CloseLine
<1>16. ASSUME NEW r \in Request, PurgeExpired(r) PROVE OwnerInv'
  BY <1>16, CurrentType, SMTT(60) DEF PurgeExpired
<1>17. ASSUME NEW r \in Request, CompareWithWinner(r) PROVE OwnerInv'
  BY <1>17, CurrentType, SMTT(60) DEF CompareWithWinner
<1>18. ASSUME NEW k \in Key, RecordExpires(k) PROVE OwnerInv'
  BY <1>18 DEF RecordExpires
<1>19. CASE UNCHANGED vars
  BY <1>19 DEF vars
<1> QED
  BY <1>1, <1>2, <1>3, <1>4, <1>5, <1>6, <1>7, <1>8, <1>9, <1>10, <1>11, <1>12,
     <1>13, <1>14, <1>15, <1>16, <1>17, <1>18, <1>19 DEF Next, ServerStep

\* What the posted receipts, the replies and the records have behind them.
ReceiptsInv ==
  /\ IsFiniteSet(receipts)
  /\ EveryReceiptHasItsTrail /\ UndisturbedReceiptIsExact

\* Every step preserves what the posted receipts and the replies have behind them.
LEMMA StepReceipts == IInv /\ [Next]_vars => ReceiptsInv'
<1> SUFFICES ASSUME IInv, [Next]_vars PROVE ReceiptsInv'
  OBVIOUS
<1> USE DistinctAssumption
    DEF IInv, ReceiptsInv, TypeOK, RequestInv, Unwritten, Writing, Storing, Enqueued,
        EveryReceiptHasItsTrail, UndisturbedReceiptIsExact, IsExact,
        GoTo, erpFields, erpLedger, dbVars, keyVars
<1>1. ASSUME NEW r \in Request, Arrive(r) PROVE ReceiptsInv'
  BY <1>1, CurrentType, SMTT(60) DEF Arrive
<1>2. ASSUME NEW r \in Request, CheckIdempotency(r) PROVE ReceiptsInv'
  BY <1>2, CurrentType, SMTT(60) DEF CheckIdempotency
<1>3. ASSUME NEW r \in Request, ValidateLine(r) PROVE ReceiptsInv'
  BY <1>3, CurrentType, SMTT(60) DEF ValidateLine, LineAllowed, LastLine
<1>4. ASSUME NEW r \in Request, SetToZero(r) PROVE ReceiptsInv'
  BY <1>4, CurrentType, SMTT(60) DEF SetToZero, Answer
<1>5. ASSUME NEW r \in Request, UpdateVendShipNo(r) PROVE ReceiptsInv'
  BY <1>5, CurrentType, SMTT(60) DEF UpdateVendShipNo, Answer, Touch
<1>6. ASSUME NEW r \in Request, UpdateToReceiveLine(r) PROVE ReceiptsInv'
  BY <1>6, CurrentType, SMTT(60) DEF UpdateToReceiveLine, Answer, Touch, LastLine
<1>7. ASSUME NEW r \in Request, ReceiveMaterial(r) PROVE ReceiptsInv'
  BY <1>7, CurrentType, SMTT(60) DEF ReceiveMaterial, Answer
<1>8. ASSUME NEW r \in Request, CheckForError(r) PROVE ReceiptsInv'
  BY <1>8, CurrentType, SMTT(60) DEF CheckForError, Answer
<1>9. ASSUME NEW r \in Request, GetPurchaseOrder(r) PROVE ReceiptsInv'
  BY <1>9, CurrentType, SMTT(60) DEF GetPurchaseOrder, Answer
<1>10. ASSUME NEW r \in Request, CallIsLost(r) PROVE ReceiptsInv'
  BY <1>10, CurrentType, SMTT(60) DEF CallIsLost
<1>11. ASSUME NEW r \in Request, SaveRecord(r) PROVE ReceiptsInv'
  <2>1. /\ receipts' = receipts /\ touched' = touched /\ job' = job /\ audit' = audit /\ cmd' = cmd
        /\ \A q \in Request : stage'[q] = "answered" => stage[q] = "answered"
    BY <1>11 DEF SaveRecord
  <2>2. job[r] # "none"
    BY <1>11 DEF SaveRecord
  <2>3. \A k \in Key : idem'[k] = idem[k] \/ (idem'[k] = r /\ cmd[r].key = k)
    BY <1>11 DEF SaveRecord
  <2>4. EveryReceiptHasItsTrail'
    BY <2>1, <2>2, <2>3
  <2> QED
    BY <2>1, <2>4
<1>12. ASSUME NEW r \in Request, WriteAudit(r) PROVE ReceiptsInv'
  BY <1>12, CurrentType, SMTT(60) DEF WriteAudit
<1>13. ASSUME NEW r \in Request, JobPosts(r) PROVE ReceiptsInv'
  <2> DEFINE new == [no |-> Cardinality(receipts) + 1, by |-> r, ref |-> shipmentNo,
                     lines |-> toReceive, alone |-> owner = r]
  <2>1. receipts' = receipts \cup {new} /\ new.by = r /\ cmd' = cmd
    BY <1>13 DEF JobPosts
  <2>2. IsFiniteSet(receipts')
    BY <2>1, FS_AddElement
  <2>3. \A doc \in receipts : doc.by # r
    BY <1>13 DEF JobPosts
  <2>4. new.alone => IsExact(new)
    <3>1. CASE owner = r
      <4>1. toReceive = AskedFor(cmd[r]) /\ cmd[r].refs = {shipmentNo}
        BY <1>13, <3>1 DEF OwnerInv, JobPosts
      <4>2. new.lines = toReceive /\ new.by = r /\ new.ref = shipmentNo
        OBVIOUS
      <4> HIDE DEF new
      <4> QED
        BY <4>1, <4>2
    <3>2. CASE owner # r
      BY <3>2
    <3> QED
      BY <3>1, <3>2
  <2> HIDE DEF new
  <2>5. \A a, b \in receipts' : a.by = b.by => a = b
    BY <2>1, <2>3
  <2>6. EveryReceiptHasItsTrail'
    BY <1>13, <2>1, <2>5 DEF JobPosts
  <2>7. UndisturbedReceiptIsExact'
    BY <2>1, <2>4
  <2> QED
    BY <2>2, <2>6, <2>7
<1>14. ASSUME NEW r \in Request, JobFails(r) PROVE ReceiptsInv'
  BY <1>14, CurrentType, SMTT(60) DEF JobFails
<1>15. ASSUME NEW l \in Line, CloseLine(l) PROVE ReceiptsInv'
  BY <1>15 DEF CloseLine
<1>16. ASSUME NEW r \in Request, PurgeExpired(r) PROVE ReceiptsInv'
  <2>1. /\ UNCHANGED <<receipts, touched, job, audit, cmd>>
        /\ \A q \in Request : stage'[q] = "answered" => stage[q] = "answered"
    BY <1>16 DEF PurgeExpired
  <2>2. \A k \in Key : idem'[k] \in Request => idem'[k] = idem[k]
    BY <1>16 DEF PurgeExpired
  <2> QED
    BY <2>1, <2>2
<1>17. ASSUME NEW r \in Request, CompareWithWinner(r) PROVE ReceiptsInv'
  BY <1>17, CurrentType, SMTT(60) DEF CompareWithWinner
<1>18. ASSUME NEW k \in Key, RecordExpires(k) PROVE ReceiptsInv'
  BY <1>18 DEF RecordExpires
<1>19. CASE UNCHANGED vars
  BY <1>19 DEF vars
<1> QED
  BY <1>1, <1>2, <1>3, <1>4, <1>5, <1>6, <1>7, <1>8, <1>9, <1>10, <1>11, <1>12,
     <1>13, <1>14, <1>15, <1>16, <1>17, <1>18, <1>19 DEF Next, ServerStep

\* Every step preserves the invariant.
LEMMA StepInv == IInv /\ [Next]_vars => IInv'
  BY StepType, StepRequest, StepOwner, StepReceipts DEF IInv, ReceiptsInv

\* The invariant holds in every behaviour.
THEOREM Invariance == Spec => []IInv
  BY InitInv, StepInv, PTL DEF Spec

\* Type correctness.
THEOREM TypeCorrect == Spec => []TypeOK
<1>1. IInv => TypeOK
  BY DEF IInv
<1> QED
  BY Invariance, <1>1, PTL

\* A request that is refused, or answered from the table, has written nothing to
\* the order, started no job and left no audit row (purchasing_service.py:643-667
\* comes before erp_client.py:785).
THEOREM RefusalsTouchNothing == Spec => []RefusalTouchesNothing
<1>1. IInv => RefusalTouchesNothing
  BY DEF IInv, RequestInv, RefusalTouchesNothing, Unwritten, Writing
<1> QED
  BY Invariance, <1>1, PTL

\* Every receipt has a validated request of its own behind it, whatever answers are
\* lost, every 201 a job and an audit row, every stored reply a job
\* (purchasing_service.py:669-716, erp_client.py:842-927).
THEOREM TrailComplete == Spec => []EveryReceiptHasItsTrail
<1>1. IInv => EveryReceiptHasItsTrail
  BY DEF IInv
<1> QED
  BY Invariance, <1>1, PTL

\* A request that had the order for itself is posted exactly, for any body, repeated
\* lines included (erp_client.py:785-851).
THEOREM UndisturbedExact == Spec => []UndisturbedReceiptIsExact
<1>1. IInv => UndisturbedReceiptIsExact
  BY DEF IInv
<1> QED
  BY Invariance, <1>1, PTL

-----------------------------------------------------------------------------
(***************************************************************************)
(* The steps of a request run out.                                         *)
(***************************************************************************)
\* The stages are left in their order.
LEMMA StageOrder ==
  /\ StepsAfter("idle") = 14 /\ StepsAfter("checking") = 13 /\ StepsAfter("purging") = 12
  /\ StepsAfter("validating") = 11 /\ StepsAfter("zeroing") = 10
  /\ StepsAfter("shipping") = 9 /\ StepsAfter("sending") = 8
  /\ StepsAfter("enqueueing") = 7 /\ StepsAfter("verifying") = 6
  /\ StepsAfter("reading") = 5 /\ StepsAfter("saving") = 4 /\ StepsAfter("comparing") = 3
  /\ StepsAfter("repurging") = 2 /\ StepsAfter("auditing") = 1
  /\ \A s \in Ended : StepsAfter(s) = 0
  /\ \A s \in Stage : StepsAfter(s) \in 0..14
BY DEF StepsAfter, Ended, Stage

\* A request walks over its lines twice: to validate them and to send them.
LEMMA LinesOrder ==
  ASSUME NEW r, NEW n \in Nat \ {0}, Len(cmd[r].lines) = n, at[r] \in 1..n
  PROVE  /\ stage[r] \in {"idle", "checking", "purging", "validating"} => LinesAhead(r) = 2 * n - at[r]
         /\ stage[r] \in {"zeroing", "shipping", "sending"} => LinesAhead(r) = n - at[r]
         /\ stage[r] \notin {"idle", "checking", "purging", "validating", "zeroing", "shipping",
                          "sending"}
            => LinesAhead(r) = 0
         /\ LinesAhead(r) \in Nat
BY DEF LinesAhead

\* A step of the service uses up one of its request's: it leaves a stage for a later
\* one or a line for the next.
LEMMA StepUsesUp ==
  ASSUME IInv, NEW r \in Request, ServerStep(r)
  PROVE  Left(r)' \in 0..Left(r) /\ Left(r)' # Left(r)
<1>. DEFINE n == Len(cmd[r].lines)
<1>1. /\ n \in Nat \ {0} /\ at[r] \in 1..n
      /\ stage[r] \in {"zeroing", "shipping"} => at[r] = 1
  BY CurrentType DEF IInv, RequestInv
<1>2. cmd' = cmd
  BY DEF ServerStep, CheckIdempotency, PurgeExpired, ValidateLine, SetToZero, UpdateVendShipNo,
     UpdateToReceiveLine, ReceiveMaterial, CheckForError, GetPurchaseOrder, CallIsLost,
     SaveRecord, CompareWithWinner, WriteAudit
<1>3. n' = n
  BY <1>2
<1>4. ASSUME NEW s, GoTo(r, s) PROVE stage'[r] = s
  BY <1>4 DEF GoTo, IInv, TypeOK
<1>5. at'[r] \in 1..n
  BY <1>1 DEF IInv, TypeOK, ServerStep, CheckIdempotency, PurgeExpired, ValidateLine, LastLine, SetToZero,
     UpdateVendShipNo, UpdateToReceiveLine, ReceiveMaterial, CheckForError,
     GetPurchaseOrder, CallIsLost, SaveRecord, CompareWithWinner, WriteAudit
<1>. DEFINE a == stage[r]  b == stage'[r]  i == at[r]  j == at'[r]
            Ahead(s, m) == IF s \in {"idle", "checking", "purging", "validating"} THEN 2 * n - m
                           ELSE IF s \in {"zeroing", "shipping", "sending"} THEN n - m
                           ELSE 0
<1>6. Left(r) = StepsAfter(a) + Ahead(a, i) /\ Left(r)' = StepsAfter(b) + Ahead(b, j)
  BY <1>2 DEF Left, LinesAhead
<1>. HIDE DEF n, a, b, i, j
<1>7. CASE b = "failed" /\ a \in Stage \ Ended
  <2>1. StepsAfter(a) > 0
    BY <1>7 DEF StepsAfter, Stage, Ended
  <2>2. Ahead(a, i) \in Nat /\ Ahead(b, j) = 0
    BY <1>1, <1>7 DEF a, i
  <2>. QED  BY <1>6, <1>7, <2>1, <2>2, StageOrder DEF Ended
<1>8. CASE /\ \/ a = "checking" /\ b \in {"replayed", "purging", "validating"}
              \/ a = "purging" /\ b = "validating"
           /\ j = i
  BY <1>1, <1>5, <1>6, <1>8, StageOrder DEF Ended, i, j
<1>9. CASE a = "validating" /\ b = "rejected"
  BY <1>1, <1>5, <1>6, <1>9, StageOrder DEF Ended, i, j
<1>10. CASE a = "validating" /\ b = "validating" /\ j = i + 1
  BY <1>1, <1>5, <1>6, <1>10, StageOrder DEF Ended, i, j
<1>11. CASE a = "validating" /\ b = "zeroing"
  BY <1>1, <1>5, <1>6, <1>11, StageOrder DEF Ended, i, j
<1>12. CASE \/ a = "zeroing" /\ b = "shipping" /\ j = i
            \/ a = "shipping" /\ b = "sending" /\ j = i
            \/ a = "sending" /\ b = "sending" /\ j = i + 1
            \/ a = "sending" /\ b = "enqueueing"
  BY <1>1, <1>5, <1>6, <1>12, StageOrder DEF Ended, i, j
<1>13. CASE \/ a = "enqueueing" /\ b \in {"verifying", "reading"}
            \/ a = "verifying" /\ b = "reading"
            \/ a = "reading" /\ b \in {"saving", "auditing"}
            \/ a = "saving" /\ b \in {"comparing", "auditing"}
            \/ a = "comparing" /\ b \in {"repurging", "auditing"}
            \/ a = "repurging" /\ b = "auditing"
            \/ a = "auditing" /\ b = "answered"
  BY <1>6, <1>13, StageOrder DEF Ended
<1>14. CASE CheckIdempotency(r)
  BY <1>4, <1>7, <1>8, <1>14 DEF CheckIdempotency, Stage, Ended, a, b, i, j
<1>15. CASE ValidateLine(r)
  <2>1. at' = at \/ at' = [at EXCEPT ![r] = @ + 1] \/ at' = [at EXCEPT ![r] = 1]
    BY <1>15 DEF ValidateLine
  <2>2. at' = [at EXCEPT ![r] = @ + 1] => j = i + 1
    BY DEF IInv, TypeOK, i, j
  <2>. QED  BY <1>4, <1>9, <1>10, <1>11, <1>15, <2>1, <2>2 DEF ValidateLine, a, b
<1>16. CASE UpdateToReceiveLine(r)
  <2>1. at' = [at EXCEPT ![r] = @ + 1] => j = i + 1
    BY DEF IInv, TypeOK, i, j
  <2>. QED  BY <1>4, <1>7, <1>12, <1>16, <2>1 DEF UpdateToReceiveLine, Answer, Stage, Ended, a, b
<1>17. CASE SetToZero(r) \/ UpdateVendShipNo(r)
  BY <1>4, <1>7, <1>12, <1>17 DEF SetToZero, UpdateVendShipNo, Answer, Stage, Ended, a, b, i, j
<1>18. CASE ReceiveMaterial(r) \/ CheckForError(r) \/ GetPurchaseOrder(r) \/ CallIsLost(r)
  BY <1>4, <1>7, <1>13, <1>18 DEF ReceiveMaterial, CheckForError, GetPurchaseOrder, CallIsLost,
     Answer, Stage, Ended, a, b
<1>19. CASE SaveRecord(r) \/ CompareWithWinner(r) \/ WriteAudit(r)
  BY <1>4, <1>7, <1>13, <1>19 DEF SaveRecord, CompareWithWinner, WriteAudit, Stage, Ended, a, b
<1>20. CASE PurgeExpired(r)
  BY <1>4, <1>8, <1>13, <1>20 DEF PurgeExpired, a, b, i, j
<1>. QED  BY <1>14, <1>15, <1>16, <1>17, <1>18, <1>19, <1>20 DEF ServerStep

\* No step of another request or of the ERP gives a step back.
LEMMA OthersUseNothing ==
  ASSUME IInv, Next, NEW q \in Request
  PROVE  Left(q)' \in 0..Left(q)
<1>1. /\ Len(cmd[q].lines) \in Nat \ {0} /\ at[q] \in 1..Len(cmd[q].lines)
      /\ stage[q] \in Stage
  BY CurrentType DEF IInv, TypeOK
<1>2. Left(q) \in Nat
  <2>1. LinesAhead(q) \in Nat
    BY <1>1, LinesOrder
  <2>2. StepsAfter(stage[q]) \in Nat
    BY <1>1, StageOrder
  <2>. QED  BY <2>1, <2>2 DEF Left
<1>3. ASSUME NEW r \in Request, Arrive(r) PROVE Left(q)' \in 0..Left(q)
  <2>1. UNCHANGED <<cmd, at>>
    BY <1>3 DEF Arrive
  <2>2. CASE r # q
    <3>1. stage'[q] = stage[q]
      BY <1>3, <2>2 DEF Arrive, GoTo, IInv, TypeOK
    <3>. QED  BY <2>1, <3>1, <1>2 DEF Left, LinesAhead
  <2>3. CASE r = q
    <3>1. stage[q] = "idle" /\ stage'[q] \in {"checking", "validating"}
      BY <1>3, <2>3 DEF Arrive, GoTo, IInv, TypeOK
    <3>2. LinesAhead(q)' = LinesAhead(q) /\ LinesAhead(q) \in Nat
      BY <1>1, <2>1, <3>1 DEF LinesAhead
    <3>. QED  BY <3>1, <3>2, StageOrder DEF Left
  <2>. QED  BY <2>2, <2>3
<1>4. ASSUME NEW r \in Request, ServerStep(r), r # q PROVE Left(q)' = Left(q)
  <2>1. cmd' = cmd /\ at'[q] = at[q] /\ stage'[q] = stage[q]
    BY <1>4 DEF ServerStep, CheckIdempotency, PurgeExpired, ValidateLine, SetToZero, UpdateVendShipNo,
       UpdateToReceiveLine, ReceiveMaterial, CheckForError, GetPurchaseOrder, CallIsLost,
       SaveRecord, CompareWithWinner, WriteAudit, Answer, GoTo, IInv, TypeOK
  <2>. QED  BY <2>1 DEF Left, LinesAhead
<1>5. CASE \/ \E r \in Request : JobPosts(r) \/ JobFails(r)
           \/ \E k \in Key : RecordExpires(k)
           \/ \E l \in Line : CloseLine(l)
  <2>1. UNCHANGED <<cmd, at, stage>>
    BY <1>5 DEF JobPosts, JobFails, RecordExpires, CloseLine
  <2>. QED  BY <2>1, <1>2 DEF Left, LinesAhead
<1>. QED  BY <1>2, <1>3, <1>4, <1>5, StepUsesUp DEF Next

\* Whatever the requests, the ERP and the failures do, a request with n lines has at
\* most 2 n + 13 steps, and each one that the service takes is gone.
THEOREM StepsOfReceiptsRunOut == Spec => StepsRunOut
<1>1. IInv /\ [Next]_vars =>
        [\A r \in Request : /\ Left(r)' \in 0..Left(r)
                            /\ ServerStep(r) => Left(r)' # Left(r)]_vars
  BY StepUsesUp, OthersUseNothing
<1>. QED  BY <1>1, Invariance, PTL DEF Spec, StepsRunOut
-----------------------------------------------------------------------------
(***************************************************************************)
(* The endpoint implements the contract of a write.                        *)
(***************************************************************************)
\* What a call may do to the order before its answer comes.
Wrote(r) == /\ touched' = touched \cup {r}
            /\ job' \in {job, [job EXCEPT ![r] = "queued"]}
Kept == UNCHANGED <<touched, job>>

\* A request that is on its way goes on, fails or is refused.
LEMMA Moves ==
  ASSUME TypeOK, NEW r \in Request, NEW s \in Stage, GoTo(r, s),
         PhaseOf(stage[r]) = "open", UNCHANGED <<cmd, idem, audit>>
  PROVE  /\ PhaseOf(s) = "open" /\ Kept => UNCHANGED Contract!vars
         /\ PhaseOf(s) = "open" /\ Wrote(r) => Contract!TakeEffect(r)
         /\ PhaseOf(s) = "failed" /\ (Kept \/ Wrote(r)) => Contract!Fail(r)
         /\ PhaseOf(s) = "refused" /\ Kept /\ r \notin touched => Contract!Refuse(r)
<1> DEFINE phase == [q \in Request |-> PhaseOf(stage[q])]
           whole == {q \in Request : job[q] # "none"}
<1>1. [q \in Request |-> PhaseOf(stage'[q])] = [phase EXCEPT ![r] = PhaseOf(s)]
  BY DEF TypeOK, GoTo
<1>2. [q \in Request |-> cmd'[q].key] = [q \in Request |-> cmd[q].key]
  OBVIOUS
<1>3. Kept => {q \in Request : job'[q] # "none"} = whole
  BY DEF Kept
<1>4. Wrote(r) => {q \in Request : job'[q] # "none"} \in {whole, whole \cup {r}}
  BY DEF Wrote, TypeOK
<1>5. PhaseOf(s) = "open" => [q \in Request |-> PhaseOf(stage'[q])] = phase
  BY <1>1
<1> USE DEF Contract!End, Contract!MayTake, Contract!Takes, Contract!effect
<1>6. PhaseOf(s) = "open" /\ Kept => UNCHANGED Contract!vars
  BY <1>2, <1>3, <1>5 DEF Contract!vars, Kept
<1>7. PhaseOf(s) = "open" /\ Wrote(r) => Contract!TakeEffect(r)
  BY <1>2, <1>4, <1>5 DEF Contract!TakeEffect, Wrote
<1>8. PhaseOf(s) = "failed" /\ (Kept \/ Wrote(r)) => Contract!Fail(r)
  <2>1. PhaseOf(s) = "failed" /\ Kept => Contract!Fail(r)
    BY <1>1, <1>2, <1>3 DEF Contract!Fail, Kept
  <2>2. PhaseOf(s) = "failed" /\ Wrote(r) => Contract!Fail(r)
    BY <1>1, <1>2, <1>4 DEF Contract!Fail, Wrote
  <2> QED
    BY <2>1, <2>2
<1>9. PhaseOf(s) = "refused" /\ Kept /\ r \notin touched => Contract!Refuse(r)
  BY <1>1, <1>2, <1>3 DEF Contract!Refuse, Kept
<1> QED
  BY <1>6, <1>7, <1>8, <1>9

\* Every step of a request is a step of the contract, or shows nothing: a body is
\* refused before the first call writes, and answered after its audit row.
LEMMA RequestImplements ==
  ASSUME IInv, NEW r \in Request, Arrive(r) \/ ServerStep(r)
  PROVE  [Contract!Next]_(Contract!vars)
<1> DEFINE Mapped == Contract!Next \/ UNCHANGED Contract!vars
<1> SUFFICES Mapped
  OBVIOUS
<1>0. /\ Contract!Fail(r) \/ Contract!Refuse(r) \/ Contract!Replay(r) => Mapped
      /\ Contract!TakeEffect(r) \/ Contract!Answer(r) \/ Contract!Remember(r) => Mapped
  BY DEF Contract!Next
<1> HIDE DEF Mapped
<1>a. TypeOK /\ RequestInv
  BY DEF IInv
<1>1. ASSUME NEW s \in Stage, GoTo(r, s), PhaseOf(stage[r]) = "open",
             UNCHANGED <<cmd, idem, audit>>,
             \/ PhaseOf(s) \in {"open", "failed"} /\ (Kept \/ Wrote(r))
             \/ PhaseOf(s) = "refused" /\ Kept /\ r \notin touched
      PROVE  Mapped
  <2>1. UNCHANGED Contract!vars => Mapped
    BY DEF Mapped
  <2> QED
    BY <1>0, <1>a, <1>1, <2>1, Moves
<1> USE DEF dbVars, keyVars, erpFields, erpLedger, PhaseOf, Stage
<1>2. CASE Arrive(r)
  BY <1>1, <1>2 DEF Arrive, Kept
<1>3. CASE CheckIdempotency(r)
  <2>1. CASE GoTo(r, "replayed")
    <3>1. /\ stage[r] = "checking" /\ idem[cmd[r].key] \in Request
          /\ cmd' = cmd /\ UNCHANGED <<dbVars, touched, job>>
      BY <1>3, <1>a, <2>1 DEF CheckIdempotency, GoTo, TypeOK
    <3>2. cmd[r].key \in Key /\ r \notin touched
      BY <1>a, <3>1, CurrentType DEF RequestInv, Unwritten
    <3>3. [q \in Request |-> PhaseOf(stage'[q])]
            = [[q \in Request |-> PhaseOf(stage[q])] EXCEPT ![r] = "replayed"]
      BY <1>a, <2>1 DEF TypeOK, GoTo
    <3>4. Contract!Replay(r)
      BY <3>1, <3>2, <3>3, DistinctAssumption DEF Contract!Replay, Contract!End, Contract!effect
    <3> QED
      BY <1>0, <3>4
  <2>2. CASE GoTo(r, "validating") \/ GoTo(r, "purging") \/ GoTo(r, "failed")
    BY <1>1, <1>3, <2>2 DEF CheckIdempotency, Kept
  <2> QED
    BY <1>3, <2>1, <2>2 DEF CheckIdempotency
<1>4. CASE ValidateLine(r)
  <2>1. stage[r] = "validating" /\ UNCHANGED <<cmd, idem, audit>> /\ Kept
    BY <1>4 DEF ValidateLine, Kept
  <2>2. r \notin touched
    BY <1>a, <2>1 DEF RequestInv, Unwritten
  <2>3. GoTo(r, "rejected") \/ GoTo(r, "validating") \/ GoTo(r, "zeroing")
    BY <1>4, <1>a DEF ValidateLine, GoTo, TypeOK
  <2> QED
    BY <1>1, <2>1, <2>2, <2>3
<1>5. CASE SetToZero(r)
  BY <1>1, <1>5 DEF SetToZero, Answer, Wrote
<1>6. CASE UpdateVendShipNo(r)
  BY <1>1, <1>6 DEF UpdateVendShipNo, Answer, Touch, Wrote
<1>7. CASE UpdateToReceiveLine(r)
  BY <1>1, <1>7 DEF UpdateToReceiveLine, Answer, Touch, Wrote
<1>8. CASE ReceiveMaterial(r)
  <2>1. r \in touched
    BY <1>8, <1>a DEF ReceiveMaterial, RequestInv, Writing
  <2> QED
    BY <1>1, <1>8, <2>1 DEF ReceiveMaterial, Answer, Wrote
<1>9. CASE CheckForError(r)
  BY <1>1, <1>9 DEF CheckForError, Answer, Kept
<1>10. CASE GetPurchaseOrder(r)
  BY <1>1, <1>10 DEF GetPurchaseOrder, Answer, Kept
<1>11. CASE CallIsLost(r)
  BY <1>1, <1>11 DEF CallIsLost, Kept
<1>12. CASE SaveRecord(r)
  <2>1. CASE (GoTo(r, "failed") \/ GoTo(r, "comparing")) /\ UNCHANGED idem
    BY <1>1, <1>12, <2>1 DEF SaveRecord, Kept
  <2>2. CASE /\ idem[cmd[r].key] = None /\ GoTo(r, "auditing")
             /\ idem' = [idem EXCEPT ![cmd[r].key] = r]
    <3>1. /\ stage[r] = "saving"
          /\ UNCHANGED <<cmd, audit, touched, job>>
      BY <1>12 DEF SaveRecord
    <3>2. cmd[r].key \in Key /\ job[r] # "none"
      BY <1>a, <3>1, CurrentType DEF RequestInv, Storing, Enqueued
    <3>3. [q \in Request |-> PhaseOf(stage'[q])] = [q \in Request |-> PhaseOf(stage[q])]
      BY <1>a, <2>2, <3>1 DEF TypeOK, GoTo
    <3>4. [k \in Key |-> IF idem'[k] \in Request THEN idem'[k] ELSE None]
            = [[k \in Key |-> IF idem[k] \in Request THEN idem[k] ELSE None]
                 EXCEPT ![cmd[r].key] = r]
      BY <1>a, <2>2 DEF TypeOK
    <3>5. Contract!Remember(r)
      BY <2>2, <3>1, <3>2, <3>3, <3>4, DistinctAssumption DEF Contract!Remember, Contract!effect
    <3> QED
      BY <1>0, <3>5
  <2> QED
    BY <1>12, <2>1, <2>2 DEF SaveRecord
<1>13. CASE WriteAudit(r)
  <2>1. CASE GoTo(r, "failed") /\ UNCHANGED audit
    BY <1>1, <1>13, <2>1 DEF WriteAudit, Kept
  <2>2. CASE GoTo(r, "answered") /\ audit' = audit \cup {r}
    <3>1. /\ stage[r] = "auditing"
          /\ UNCHANGED <<cmd, idem, touched, job>>
      BY <1>13 DEF WriteAudit
    <3>2. job[r] # "none"
      BY <1>a, <3>1 DEF RequestInv, Enqueued
    <3>3. [q \in Request |-> PhaseOf(stage'[q])]
            = [[q \in Request |-> PhaseOf(stage[q])] EXCEPT ![r] = "answered"]
      BY <1>a, <2>2 DEF TypeOK, GoTo
    <3>4. audit' = audit \cup ({r} \cap Request)
      BY <2>2
    <3>5. Contract!Answer(r)
      BY <3>1, <3>2, <3>3, <3>4
         DEF Contract!Answer, Contract!End, Contract!MayTake, Contract!effect
    <3> QED
      BY <1>0, <3>5
  <2> QED
    BY <1>13, <2>1, <2>2 DEF WriteAudit
<1>14. CASE CompareWithWinner(r)
  BY <1>1, <1>14 DEF CompareWithWinner, Kept
<1>15. CASE PurgeExpired(r)
  <2>1. CASE UNCHANGED idem
    BY <1>1, <1>15, <2>1 DEF PurgeExpired, Kept
  <2>2. CASE idem' = [idem EXCEPT ![cmd[r].key] = None]
    <3>1. /\ stage[r] \in {"purging", "repurging"}
          /\ UNCHANGED <<cmd, audit, touched, job>>
      BY <1>15 DEF PurgeExpired
    <3>2. PICK k \in Key : k = cmd[r].key
      BY <1>a, <3>1, CurrentType DEF RequestInv, Storing
    <3>3. [q \in Request |-> PhaseOf(stage'[q])] = [q \in Request |-> PhaseOf(stage[q])]
      BY <1>15, <1>a DEF TypeOK, PurgeExpired, GoTo
    <3>4. [x \in Key |-> IF idem'[x] \in Request THEN idem'[x] ELSE None]
            = [[x \in Key |-> IF idem[x] \in Request THEN idem[x] ELSE None]
                 EXCEPT ![k] = None]
      BY <1>a, <2>2, <3>2, DistinctAssumption DEF TypeOK
    <3>5. Contract!Forget(k)
      BY <3>1, <3>3, <3>4 DEF Contract!Forget, Contract!effect
    <3> QED
      BY <3>5 DEF Mapped, Contract!Next
  <2> QED
    BY <1>15, <2>1, <2>2 DEF PurgeExpired
<1> QED
  BY <1>2, <1>3, <1>4, <1>5, <1>6, <1>7, <1>8, <1>9, <1>10, <1>11, <1>12, <1>13,
     <1>14, <1>15 DEF ServerStep

\* Every behaviour of the endpoint is one the contract allows, whatever interleaves
\* on the order and whichever answer, job or transaction is lost.
THEOREM ReceiptsImplementContract == Spec => ImplementsContract
<1>1. Init => Contract!Init
  BY DistinctAssumption DEF Init, Contract!Init, PhaseOf
<1>2. IInv /\ [Next]_vars => [Contract!Next]_(Contract!vars)
  <2> SUFFICES ASSUME IInv, [Next]_vars PROVE [Contract!Next]_(Contract!vars)
    OBVIOUS
  <2>1. ASSUME NEW r \in Request, Arrive(r) \/ ServerStep(r)
        PROVE  [Contract!Next]_(Contract!vars)
    BY <2>1, RequestImplements
  <2>2. ASSUME NEW r \in Request, JobPosts(r) \/ JobFails(r)
        PROVE  UNCHANGED Contract!vars
    <3>1. {q \in Request : job'[q] # "none"} = {q \in Request : job[q] # "none"}
      BY <2>2 DEF JobPosts, JobFails, IInv, TypeOK
    <3> QED
      BY <2>2, <3>1 DEF JobPosts, JobFails, erpFields, dbVars, keyVars, Contract!vars, Contract!effect
  <2>3. CASE \/ \E l \in Line : CloseLine(l)
             \/ \E k \in Key : RecordExpires(k)
             \/ UNCHANGED vars
    BY <2>3 DEF CloseLine, RecordExpires, vars, erpFields, erpLedger, dbVars, keyVars, Contract!vars, Contract!effect
  <2> QED
    BY <2>1, <2>2, <2>3 DEF Next
<1> QED
  BY <1>1, <1>2, Invariance, PTL DEF Spec, ImplementsContract, Contract!Spec
=============================================================================
