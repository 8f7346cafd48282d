-------------------------- MODULE KeyedWrites_proofs --------------------------
(***************************************************************************)
(* Proofs about KeyedWrites, for any number of requests, keys and lines,   *)
(* every body and every set of faults.                                     *)
(***************************************************************************)
EXTENDS KeyedWrites, TLAPS

\* What a body is made of.
LEMMA BodyType ==
  ASSUME NEW c \in Command
  PROVE  /\ c.kind \in {"return", "reply", "comment"} /\ c.key \in Key \cup {NoKey}
         /\ Len(c.lines) \in Nat
         /\ c.kind = "return" => Len(c.lines) > 0
         /\ \A n \in 1..Len(c.lines) :
              /\ c.lines[n].line \in Line
              /\ c.lines[n].quantity \in Nat /\ c.lines[n].quantity > 0
              /\ c.lines[n] = [line |-> c.lines[n].line, quantity |-> c.lines[n].quantity]
<1> DEFINE Given == [line : Line, quantity : Nat \ {0}]
<1>1. /\ c.kind \in {"return", "reply", "comment"} /\ c.key \in Key \cup {NoKey}
      /\ c.lines \in Seq(Given)
  BY CommandAssumption
<1>2. \A n \in 1..Len(c.lines) : c.lines[n] \in Given
  <2> HIDE DEF Given
  <2> QED
    BY <1>1
<1>3. Len(c.lines) \in Nat
  BY <1>1
<1> QED
  BY <1>1, <1>2, <1>3, BodyAssumption

\* A request does not change what it asks.
LEMMA BodiesStay == [Next]_vars => cmd' = cmd
  BY DEF Next, ServerStep, vars, Arrive, CheckKey, Validate, MakeHeader, PostLine, Remark,
     ReadBack, SendMessage, SaveRecord, WriteAudit, CallFails, CallTimesOut, LateCall,
     WorkerDies, PurgeExpired, CompareWithWinner, RecordExpires

\* Nothing is made at first.
LEMMA InitInv == Init => IInv
<1> SUFFICES ASSUME Init PROVE IInv
  OBVIOUS
<1>1. TypeOK
  BY MixAssumption DEF Init, TypeOK, Stage
<1>2. ASSUME NEW r \in Request PROVE RequestInv(r) /\ DocumentInv(r) /\ ReplayInv(r)
  BY <1>2 DEF Init, RequestInv, DocumentInv, ReplayInv, Unwritten, Made, Storing, Written
<1>3. ASSUME NEW k \in Key PROVE RecordInv(k)
  BY <1>3, DistinctAssumption DEF Init, RecordInv
<1> QED
  BY <1>1, <1>2, <1>3 DEF IInv

\* What a step does to the return order of a request: nothing, its header, or the
\* next line, where there is none with that number.
HeaderMade(q) ==
  /\ docs[q] = None /\ docs' = [docs EXCEPT ![q] = Empty] /\ at' = at
LineMade(q) ==
  /\ docs[q] # None /\ at[q] < Len(cmd[q].lines) /\ docs[q][NextLine(q).line] = 0
  /\ docs' = [docs EXCEPT ![q] = Add(docs[q], NextLine(q))]
  /\ at' = [at EXCEPT ![q] = at[q] + 1]

\* Return orders grow by the header and the lines of validated bodies only.
LEMMA DocumentSteps ==
  ASSUME IInv, [Next]_vars
  PROVE  \/ docs' = docs /\ at' = at
         \/ \E q \in Request : IsReturn(q) /\ Valid(q) /\ (HeaderMade(q) \/ LineMade(q))
<1> DEFINE Goal == \/ docs' = docs /\ at' = at
                   \/ \E q \in Request : IsReturn(q) /\ Valid(q)
                                          /\ (HeaderMade(q) \/ LineMade(q))
<1>1. ASSUME NEW r \in Request, MakeHeader(r) PROVE Goal
  <2>1. docs[r] = None /\ IsReturn(r) /\ Valid(r)
    BY <1>1 DEF IInv, RequestInv, DocumentInv, MakeHeader, Unwritten
  <2> QED
    BY <1>1, <2>1 DEF MakeHeader, AddHeader, HeaderMade
<1>2. ASSUME NEW r \in Request, PostLine(r) PROVE Goal
  <2>1. docs[r] # None /\ IsReturn(r) /\ Valid(r) /\ at[r] < Len(cmd[r].lines)
    BY <1>2 DEF IInv, RequestInv, DocumentInv, PostLine
  <2>2. CASE docs[r][NextLine(r).line] = 0 /\ AddLine(r)
    BY <2>1, <2>2 DEF AddLine, LineMade
  <2>3. CASE UNCHANGED outside
    BY <2>3 DEF outside
  <2> QED
    BY <1>2, <2>2, <2>3 DEF PostLine
<1>3. ASSUME NEW r \in Request, LateCall(r) PROVE Goal
  <2>1. IsReturn(r) => Valid(r) /\ (docs[r] # None => at[r] < Len(cmd[r].lines))
    BY <1>3 DEF IInv, RequestInv, DocumentInv, LateCall
  <2>2. \/ docs' = docs /\ at' = at
        \/ IsReturn(r) /\ docs[r] = None /\ AddHeader(r)
        \/ IsReturn(r) /\ docs[r] # None /\ docs[r][NextLine(r).line] = 0 /\ AddLine(r)
    BY <1>3 DEF LateCall, outside
  <2> QED
    BY <2>1, <2>2 DEF AddHeader, AddLine, HeaderMade, LineMade
<1> QED
  BY <1>1, <1>2, <1>3
  DEF Next, ServerStep, vars, outside, Arrive, CheckKey, Validate, Remark, ReadBack,
  SendMessage,
      SaveRecord, WriteAudit, CallFails, CallTimesOut, WorkerDies,
      PurgeExpired, CompareWithWinner, RecordExpires

\* The next line of a body that has one.
LEMMA NextLineType ==
  ASSUME TypeOK, NEW q \in Request, at[q] < Len(cmd[q].lines)
  PROVE  /\ at[q] + 1 \in 1..Len(cmd[q].lines)
         /\ NextLine(q).line \in Line /\ NextLine(q).quantity \in Nat
            /\ NextLine(q).quantity > 0
<1>1. cmd[q] \in Command /\ at[q] \in Nat /\ Len(cmd[q].lines) \in Nat
  BY BodyType DEF TypeOK
<1>2. at[q] + 1 \in 1..Len(cmd[q].lines)
  BY <1>1
<1> QED
  BY <1>1, <1>2, BodyType DEF NextLine

\* What a line adds is an order again.
LEMMA AddType ==
  ASSUME NEW doc \in Document, NEW l, l.line \in Line, l.quantity \in Nat
  PROVE  /\ Add(doc, l) \in Document
         /\ \A m \in Line : Add(doc, l)[m] = IF m = l.line THEN l.quantity ELSE doc[m]
  BY DEF Add, Document

\* Orders stay orders.
LEMMA StepDocType == IInv /\ [Next]_vars =>
  docs' \in [Request -> Document \cup {None}] /\ at' \in [Request -> Nat]
<1> SUFFICES ASSUME IInv, [Next]_vars
             PROVE  docs' \in [Request -> Document \cup {None}] /\ at' \in [Request -> Nat]
  OBVIOUS
<1>0. TypeOK
  BY DEF IInv
<1>1. ASSUME NEW q \in Request, HeaderMade(q)
      PROVE  docs' \in [Request -> Document \cup {None}] /\ at' \in [Request -> Nat]
  <2>1. Empty \in Document
    BY DEF Empty, Document
  <2> QED
    BY <1>0, <1>1, <2>1 DEF HeaderMade, TypeOK
<1>2. ASSUME NEW q \in Request, LineMade(q)
      PROVE  docs' \in [Request -> Document \cup {None}] /\ at' \in [Request -> Nat]
  <2>1. docs[q] \in Document /\ at[q] < Len(cmd[q].lines)
    BY <1>0, <1>2 DEF LineMade, TypeOK
  <2>2. Add(docs[q], NextLine(q)) \in Document
    BY <1>0, <2>1, NextLineType, AddType
  <2>3. at[q] + 1 \in Nat
    BY <1>0 DEF TypeOK
  <2> QED
    BY <1>0, <1>2, <2>2, <2>3 DEF LineMade, TypeOK
<1> QED
  BY <1>0, <1>1, <1>2, DocumentSteps DEF TypeOK

\* Every step preserves the types.
LEMMA StepType == IInv /\ [Next]_vars => TypeOK'
<1> SUFFICES ASSUME IInv, [Next]_vars PROVE TypeOK'
  OBVIOUS
<1>0. docs' \in [Request -> Document \cup {None}] /\ at' \in [Request -> Nat]
  BY StepDocType
<1>a. cmd' \in [Request -> Command]
  BY BodiesStay DEF IInv, TypeOK
<1>b. \A r \in Request : Keyed(r) => cmd[r].key \in Key
  BY BodyType DEF IInv, TypeOK, Keyed
<1>c. \A r \in Request : Keyed(r) \/ stage[r] \notin {"checking", "purging"} \cup Storing
  BY DEF IInv, RequestInv
<1>d. TypeOK
  BY DEF IInv
<1> USE DEF TypeOK, GoTo, outside, dbVars, keyVars, keyVars
<1>1. ASSUME NEW r \in Request, Arrive(r) PROVE TypeOK'
  BY <1>1, <1>0, <1>a, <1>b, <1>c, <1>d, SMTT(30) DEF Arrive, Stage, Start
<1>2. ASSUME NEW r \in Request, CheckKey(r) PROVE TypeOK'
  BY <1>2, <1>0, <1>a, <1>b, <1>c, <1>d, SMTT(30) DEF CheckKey, Stage, Start
<1>3. ASSUME NEW r \in Request, Validate(r) PROVE TypeOK'
  BY <1>3, <1>0, <1>a, <1>b, <1>c, <1>d, SMTT(30) DEF Validate, Stage, Start
<1>4. ASSUME NEW r \in Request, MakeHeader(r) PROVE TypeOK'
  BY <1>4, <1>0, <1>a, <1>b, <1>c, <1>d, SMTT(30) DEF MakeHeader, AddHeader, Stage, Start
<1>5. ASSUME NEW r \in Request, PostLine(r) PROVE TypeOK'
  <2>1. sent' \subseteq Request
    BY <1>5, <1>d DEF PostLine, AddLine
  <2>2. stage' \in [Request -> Stage]
    BY <1>5, <1>d DEF PostLine, Stage
  <2> QED
    BY <1>5, <2>1, <2>2, <1>0, <1>a, <1>d DEF PostLine
<1>6. ASSUME NEW r \in Request, Remark(r) PROVE TypeOK'
  BY <1>6, <1>0, <1>a, <1>b, <1>c, <1>d, SMTT(30) DEF Remark, Stage, Start
<1>7. ASSUME NEW r \in Request, ReadBack(r) PROVE TypeOK'
  BY <1>7, <1>0, <1>a, <1>b, <1>c, <1>d, SMTT(30) DEF ReadBack, Stage, Start
<1>8. ASSUME NEW r \in Request, SendMessage(r) PROVE TypeOK'
  BY <1>8, <1>0, <1>a, <1>b, <1>c, <1>d, SMTT(30) DEF SendMessage, Stage, Start
<1>9. ASSUME NEW r \in Request, SaveRecord(r) PROVE TypeOK'
  BY <1>9, <1>0, <1>a, <1>b, <1>c, <1>d, SMTT(30) DEF SaveRecord, Stage, Start
<1>10. ASSUME NEW r \in Request, WriteAudit(r) PROVE TypeOK'
  BY <1>10, <1>0, <1>a, <1>b, <1>c, <1>d, SMTT(30) DEF WriteAudit, Stage, Start
<1>11. ASSUME NEW r \in Request, CallFails(r) PROVE TypeOK'
  BY <1>11, <1>0, <1>a, <1>b, <1>c, <1>d, SMTT(30) DEF CallFails, Stage, Start
<1>12. ASSUME NEW r \in Request, CallTimesOut(r) PROVE TypeOK'
  BY <1>12, <1>0, <1>a, <1>b, <1>c, <1>d, SMTT(30) DEF CallTimesOut, Stage, Start
<1>13. ASSUME NEW r \in Request, LateCall(r) PROVE TypeOK'
  <2>1. sent' \subseteq Request
    BY <1>13, <1>d DEF LateCall, AddLine, AddHeader
  <2>2. stage' \in [Request -> Stage]
    BY <1>13, <1>d DEF LateCall, Stage
  <2> QED
    BY <1>13, <2>1, <2>2, <1>0, <1>a, <1>d DEF LateCall
<1>14. ASSUME NEW r \in Request, WorkerDies(r) PROVE TypeOK'
  BY <1>14, <1>0, <1>a, <1>b, <1>c, <1>d, SMTT(30) DEF WorkerDies, Stage, Start
<1>15. CASE UNCHANGED vars
  BY <1>15, <1>0, <1>a, <1>b, <1>c, <1>d, SMTT(30) DEF vars, Stage, Start
<1>16. ASSUME NEW r \in Request, PurgeExpired(r) PROVE TypeOK'
  BY <1>16, <1>0, <1>a, <1>b, <1>c, <1>d, SMTT(30) DEF PurgeExpired, Stage, Storing, Start
<1>17. ASSUME NEW r \in Request, CompareWithWinner(r) PROVE TypeOK'
  BY <1>17, <1>0, <1>a, <1>b, <1>c, <1>d, SMTT(30) DEF CompareWithWinner, Stage, Storing, Start
<1>18. ASSUME NEW k \in Key, RecordExpires(k) PROVE TypeOK'
  BY <1>18, <1>0, <1>a, <1>d DEF RecordExpires
<1> QED
  BY <1>1, <1>2, <1>3, <1>4, <1>5, <1>6, <1>7, <1>8,
     <1>9, <1>10, <1>11, <1>12, <1>13, <1>14, <1>15, <1>16, <1>17, <1>18
  DEF Next, ServerStep

\* What a step does to one return order.
LEMMA OrderSteps ==
  ASSUME IInv, [Next]_vars, NEW q \in Request
  PROVE  \/ docs'[q] = docs[q] /\ at'[q] = at[q]
         \/ IsReturn(q) /\ Valid(q) /\ HeaderMade(q)
         \/ IsReturn(q) /\ Valid(q) /\ LineMade(q)
<1>1. docs \in [Request -> Document \cup {None}] /\ at \in [Request -> Nat]
  BY DEF IInv, TypeOK
<1>2. ASSUME NEW p \in Request, p # q, HeaderMade(p) \/ LineMade(p)
      PROVE  docs'[q] = docs[q] /\ at'[q] = at[q]
  BY <1>1, <1>2 DEF HeaderMade, LineMade
<1> QED
  BY <1>2, DocumentSteps

\* An order is not taken back.
LEMMA OrderStays ==
  ASSUME IInv, [Next]_vars, NEW q \in Request, docs[q] # None
  PROVE  docs'[q] # None
<1>1. CASE LineMade(q)
  <2>1. TypeOK /\ docs[q] \in Document /\ at[q] < Len(cmd[q].lines)
    BY <1>1 DEF IInv, TypeOK, LineMade
  <2>2. Add(docs[q], NextLine(q)) \in Document
    BY <2>1, NextLineType, AddType
  <2> QED
    BY <1>1, <2>1, <2>2, DistinctAssumption DEF LineMade, TypeOK
<1> QED
  BY <1>1, OrderSteps DEF HeaderMade

\* Nor is a message.
LEMMA SentStays == [Next]_vars => sent \subseteq sent'
  BY DEF Next, ServerStep, vars, outside, Arrive, CheckKey, Validate, MakeHeader, PostLine,
     Remark,
     ReadBack, SendMessage, SaveRecord, WriteAudit, CallFails, CallTimesOut, LateCall,
     WorkerDies, PurgeExpired, CompareWithWinner, RecordExpires,
     AddHeader, AddLine

\* What is whole stays whole: no line is added to an order that has them all.
LEMMA WholeStays ==
  ASSUME IInv, [Next]_vars, NEW q \in Request, Whole(q)
  PROVE  Whole(q)'
<1>0. cmd' = cmd
  BY BodiesStay
<1>1. CASE ~IsReturn(q)
  BY <1>0, <1>1, SentStays DEF Whole, IsReturn
<1>2. CASE IsReturn(q)
  <2>1. ~HeaderMade(q)
    BY <1>2 DEF Whole, HeaderMade
  <2>2. ~LineMade(q)
    <3> SUFFICES ASSUME LineMade(q) PROVE FALSE
      OBVIOUS
    <3>1. TypeOK /\ at[q] < Len(cmd[q].lines) /\ docs[q][NextLine(q).line] = 0
      BY DEF IInv, LineMade
    <3>2. at[q] + 1 \in 1..Len(cmd[q].lines) /\ NextLine(q).quantity > 0
      BY <3>1, NextLineType
    <3>3. docs[q][NextLine(q).line] = NextLine(q).quantity
      BY <1>2, <3>2 DEF Whole, NextLine
    <3> QED
      BY <3>1, <3>2, <3>3
  <2>3. docs'[q] = docs[q]
    BY <2>1, <2>2, OrderSteps
  <2> QED
    BY <1>0, <1>2, <2>3 DEF Whole, IsReturn
<1> QED
  BY <1>1, <1>2

\* Only a valid body gets as far as an order.
LEMMA StepValid ==
  ASSUME IInv, [Next]_vars, NEW q \in Request
  PROVE  /\ stage'[q] \in {"making", "sending"} \cup Made => Valid(q)
         /\ q \in overdue' /\ IsReturn(q) => Valid(q)
<1> DEFINE Goal == /\ stage'[q] \in {"making", "sending"} \cup Made => Valid(q)
                   /\ q \in overdue' /\ IsReturn(q) => Valid(q)
<1>a. TypeOK /\ RequestInv(q) /\ DocumentInv(q)
  BY DEF IInv
<1> USE DEF TypeOK, RequestInv, DocumentInv, Made, GoTo
<1>1. ASSUME NEW r \in Request, Arrive(r) PROVE Goal
  BY <1>1, <1>a, SMTT(30) DEF Arrive, Start
<1>2. ASSUME NEW r \in Request, CheckKey(r) PROVE Goal
  BY <1>2, <1>a, SMTT(30) DEF CheckKey, Start
<1>3. ASSUME NEW r \in Request, Validate(r) PROVE Goal
  BY <1>3, <1>a, SMTT(30) DEF Validate, Valid, Start
<1>4. ASSUME NEW r \in Request, MakeHeader(r) PROVE Goal
  BY <1>4, <1>a, SMTT(30) DEF MakeHeader, Start
<1>5. ASSUME NEW r \in Request, PostLine(r) PROVE Goal
  BY <1>5, <1>a, SMTT(30) DEF PostLine, Start
<1>6. ASSUME NEW r \in Request, Remark(r) PROVE Goal
  BY <1>6, <1>a, SMTT(30) DEF Remark, Start
<1>7. ASSUME NEW r \in Request, ReadBack(r) PROVE Goal
  BY <1>7, <1>a, SMTT(30) DEF ReadBack, Start
<1>8. ASSUME NEW r \in Request, SendMessage(r) PROVE Goal
  BY <1>8, <1>a, SMTT(30) DEF SendMessage, Start
<1>9. ASSUME NEW r \in Request, SaveRecord(r) PROVE Goal
  BY <1>9, <1>a, SMTT(30) DEF SaveRecord, Start
<1>10. ASSUME NEW r \in Request, WriteAudit(r) PROVE Goal
  BY <1>10, <1>a, SMTT(30) DEF WriteAudit, Start
<1>11. ASSUME NEW r \in Request, CallFails(r) PROVE Goal
  BY <1>11, <1>a, SMTT(30) DEF CallFails, Start
<1>12. ASSUME NEW r \in Request, CallTimesOut(r) PROVE Goal
  BY <1>12, <1>a, SMTT(30) DEF CallTimesOut, Start
<1>13. ASSUME NEW r \in Request, LateCall(r) PROVE Goal
  BY <1>13, <1>a, SMTT(30) DEF LateCall, Start
<1>14. ASSUME NEW r \in Request, WorkerDies(r) PROVE Goal
  BY <1>14, <1>a, SMTT(30) DEF WorkerDies, Start
<1>15. CASE UNCHANGED vars
  BY <1>15, <1>a, SMTT(30) DEF vars, Start
<1>16. ASSUME NEW r \in Request, PurgeExpired(r) PROVE Goal
  BY <1>16, <1>a, SMTT(30) DEF PurgeExpired, Start
<1>17. ASSUME NEW r \in Request, CompareWithWinner(r) PROVE Goal
  BY <1>17, <1>a, SMTT(30) DEF CompareWithWinner, Start
<1>18. ASSUME NEW k \in Key, RecordExpires(k) PROVE Goal
  BY <1>18, <1>a DEF RecordExpires
<1> QED
  BY <1>1, <1>2, <1>3, <1>4, <1>5, <1>6, <1>7, <1>8,
     <1>9, <1>10, <1>11, <1>12, <1>13, <1>14, <1>15, <1>16, <1>17, <1>18
  DEF Next, ServerStep

\* Every step preserves what a return order holds.
LEMMA StepDocument ==
  ASSUME IInv, [Next]_vars, NEW q \in Request
  PROVE  DocumentInv(q)'
<1>a. /\ TypeOK /\ RequestInv(q) /\ DocumentInv(q)
      /\ cmd[q] \in Command
  BY DEF IInv, TypeOK
<1>b. cmd' = cmd
  BY BodiesStay
<1>c. IsReturn(q)' = IsReturn(q) /\ Keyed(q)' = Keyed(q) /\ Valid(q)' = Valid(q)
  BY <1>b DEF IsReturn, Keyed, Valid, LineAllowed
<1>1. /\ (stage[q] \in {"making", "sending"} \cup Made => Valid(q))'
      /\ (q \in overdue /\ IsReturn(q) => Valid(q))'
  BY <1>c, StepValid
<1>2. (docs[q] # None => Valid(q))'
  BY <1>a, <1>c, OrderSteps DEF DocumentInv
<1>3. (docs[q] = None => at[q] = 0)'
  <2> SUFFICES ASSUME docs'[q] = None PROVE at'[q] = 0
    OBVIOUS
  <2>1. docs[q] = None
    BY OrderStays
  <2> QED
    BY <1>a, <2>1, OrderSteps DEF DocumentInv, HeaderMade, LineMade
<1>4. ASSUME docs'[q] # None
      PROVE  /\ at'[q] <= Len(cmd[q].lines)
             /\ \A n \in 1..at'[q] : docs'[q][cmd[q].lines[n].line] = cmd[q].lines[n].quantity
             /\ \A l \in Line : docs'[q][l] > 0 => \E n \in 1..at'[q] : cmd[q].lines[n].line = l
  <2>1. CASE docs'[q] = docs[q] /\ at'[q] = at[q]
    BY <1>a, <1>4, <2>1 DEF DocumentInv, Ordered
  <2>2. CASE HeaderMade(q)
    <3>1. docs'[q] = Empty /\ at'[q] = 0
      BY <1>a, <2>2 DEF HeaderMade, DocumentInv, TypeOK
    <3>2. Len(cmd[q].lines) \in Nat
      BY <1>a, BodyType
    <3> QED
      BY <3>1, <3>2 DEF Empty
  <2>3. CASE LineMade(q)
    <3> DEFINE L == NextLine(q)
               c == cmd[q]
    <3>1. docs[q] # None /\ docs[q] \in Document /\ at[q] \in Nat /\ at[q] < Len(c.lines)
      BY <1>a, <2>3 DEF TypeOK, LineMade
    <3>2. L.line \in Line /\ L.quantity \in Nat /\ L.quantity > 0 /\ L = c.lines[at[q] + 1]
      BY <1>a, <3>1, NextLineType DEF NextLine
    <3>3. at'[q] = at[q] + 1 /\ docs'[q] = Add(docs[q], L) /\ docs[q][L.line] = 0
      BY <1>a, <2>3 DEF TypeOK, LineMade
    <3> HIDE DEF L, c
    <3>4. \A m \in Line : docs'[q][m] = IF m = L.line THEN L.quantity ELSE docs[q][m]
      BY <3>1, <3>2, <3>3, AddType
    <3>5. Len(c.lines) \in Nat /\ \A n \in 1..Len(c.lines) :
            c.lines[n].line \in Line /\ c.lines[n].quantity \in Nat /\ c.lines[n].quantity > 0
      BY <1>a, BodyType DEF c
    <3>6. /\ \A n \in 1..at[q] : docs[q][c.lines[n].line] = c.lines[n].quantity
          /\ \A l \in Line : docs[q][l] > 0 => \E n \in 1..at[q] : c.lines[n].line = l
      BY <1>a, <3>1 DEF DocumentInv, Ordered, c
    <3>7. \A n \in 1..at[q] + 1 : docs'[q][c.lines[n].line] = c.lines[n].quantity
      <4> SUFFICES ASSUME NEW n \in 1..at[q] + 1
                   PROVE  docs'[q][c.lines[n].line] = c.lines[n].quantity
        OBVIOUS
      <4>1. CASE n = at[q] + 1
        BY <3>2, <3>4, <4>1
      <4>2. CASE n \in 1..at[q]
        <5>1. n \in 1..Len(c.lines)
          BY <3>1, <3>5, <4>2
        <5>2. docs[q][c.lines[n].line] > 0
          BY <3>5, <3>6, <4>2, <5>1
        <5> QED
          BY <3>3, <3>4, <3>5, <3>6, <4>2, <5>1, <5>2
      <4> QED
        BY <3>1, <4>1, <4>2
    <3>8. \A l \in Line : docs'[q][l] > 0 => \E n \in 1..at[q] + 1 : c.lines[n].line = l
      <4> SUFFICES ASSUME NEW l \in Line, docs'[q][l] > 0
                   PROVE  \E n \in 1..at[q] + 1 : c.lines[n].line = l
        OBVIOUS
      <4>1. CASE l = L.line
        BY <3>1, <3>2, <4>1
      <4>2. CASE l # L.line
        <5>1. PICK n \in 1..at[q] : c.lines[n].line = l
          BY <3>4, <3>6, <4>2
        <5> QED
          BY <3>1, <5>1
      <4> QED
        BY <4>1, <4>2
    <3>9. at[q] + 1 <= Len(c.lines)
      BY <3>1, <3>5
    <3> QED
      BY <3>3, <3>7, <3>8, <3>9 DEF c
  <2> QED
    BY <2>1, <2>2, <2>3, OrderSteps
<1>5. (docs[q] # None =>
         /\ at[q] <= Len(cmd[q].lines)
         /\ \A n \in 1..at[q] : Ordered(q, n)
         /\ \A l \in Line : docs[q][l] > 0 => \E n \in 1..at[q] : cmd[q].lines[n].line = l)'
  BY <1>b, <1>4 DEF Ordered
<1> QED
  BY <1>1, <1>2, <1>3, <1>5 DEF DocumentInv

\* Every step preserves what a request on its way has done.
LEMMA StepRequest ==
  ASSUME IInv, [Next]_vars, NEW q \in Request
  PROVE  RequestInv(q)'
<1>a. TypeOK /\ RequestInv(q) /\ DocumentInv(q) /\ cmd[q] \in Command
  BY DEF IInv, TypeOK
<1>b. /\ stage \in [Request -> Stage] /\ docs \in [Request -> Document \cup {None}]
      /\ at \in [Request -> Nat] /\ stage[q] \in Stage /\ at[q] \in Nat
  BY <1>a DEF TypeOK
<1>c. IsReturn(q)' = IsReturn(q) /\ Keyed(q)' = Keyed(q) /\ cmd' = cmd
  BY BodiesStay DEF IsReturn, Keyed
<1>d. (Whole(q) => Whole(q)') /\ (docs[q] # None => docs'[q] # None)
  BY WholeStays, OrderStays
<1>e. /\ Len(cmd[q].lines) \in Nat /\ (IsReturn(q) => Len(cmd[q].lines) > 0)
      /\ cmd[q].kind = "reply" => ~IsReturn(q)
  BY <1>a, BodyType DEF IsReturn
<1>f. Empty # None
  BY DistinctAssumption DEF Empty, Document
<1>g. stage[q] \in Made => Whole(q)
  <2> SUFFICES ASSUME stage[q] \in Made PROVE Whole(q)
    OBVIOUS
  <2>1. docs[q] # None /\ IsReturn(q) /\ at[q] = Len(cmd[q].lines)
    BY <1>a DEF RequestInv
  <2> QED
    BY <1>a, <1>b, <2>1 DEF DocumentInv, Ordered, Whole
<1>h. (docs[q] = None => at[q] = 0) /\ (docs[q] # None => at[q] <= Len(cmd[q].lines))
  BY <1>a DEF DocumentInv
<1>i. RequestInv(q)
  BY <1>a
<1> HIDE DEF Stage
<1>1. ASSUME NEW r \in Request, Arrive(r) PROVE RequestInv(q)'
  <2>1. /\ docs'[q] = docs[q] /\ at'[q] = at[q] /\ (q \in sent' <=> q \in sent)
        /\ (q \in overdue' <=> q \in overdue) /\ audit' = audit
        /\ r # q => stage'[q] = stage[q]
        /\ r = q => stage[q] = "idle" /\ stage'[q] = IF Keyed(q) THEN "checking" ELSE Start(q)
    BY <1>1, <1>b DEF Arrive, GoTo, outside, dbVars, keyVars, keyVars
  <2> QED
    BY <2>1, <1>c, <1>d, <1>e, <1>f, <1>g, <1>h, <1>i, <1>b, SMTT(30) DEF RequestInv,
       Unwritten, Made, Storing, Written, Start
<1>2. ASSUME NEW r \in Request, CheckKey(r) PROVE RequestInv(q)'
  <2>1. /\ docs'[q] = docs[q] /\ at'[q] = at[q] /\ (q \in sent' <=> q \in sent)
        /\ (q \in overdue' <=> q \in overdue) /\ audit' = audit
        /\ r # q => stage'[q] = stage[q]
        /\ r = q => /\ stage[q] = "checking"
                    /\ stage'[q] \in {Start(q), "purging", "replayed", "failed"}
    BY <1>2, <1>b DEF CheckKey, GoTo, outside, dbVars, keyVars, keyVars
  <2> QED
    BY <2>1, <1>c, <1>d, <1>e, <1>f, <1>g, <1>h, <1>i, <1>b, SMTT(30) DEF RequestInv,
       Unwritten, Made, Storing, Written, Start
<1>3. ASSUME NEW r \in Request, Validate(r) PROVE RequestInv(q)'
  <2>1. /\ docs'[q] = docs[q] /\ at'[q] = at[q] /\ (q \in sent' <=> q \in sent)
        /\ (q \in overdue' <=> q \in overdue) /\ audit' = audit
        /\ r # q => stage'[q] = stage[q]
        /\ r = q => stage[q] = "validating" /\ stage'[q] \in {"making", "refused"}
    BY <1>3, <1>b DEF Validate, GoTo, outside, dbVars, keyVars, keyVars
  <2> QED
    BY <2>1, <1>c, <1>d, <1>e, <1>f, <1>g, <1>h, <1>i, <1>b, SMTT(30) DEF RequestInv,
       Unwritten, Made, Storing, Written, Start
<1>4. ASSUME NEW r \in Request, MakeHeader(r) PROVE RequestInv(q)'
  <2>1. /\ at'[q] = at[q] /\ (q \in sent' <=> q \in sent)
        /\ (q \in overdue' <=> q \in overdue) /\ audit' = audit
        /\ r # q => stage'[q] = stage[q]
        /\ r = q => stage[q] = "making" /\ stage'[q] = "sending" /\ docs'[q] = Empty
        /\ r # q => docs'[q] = docs[q]
    BY <1>4, <1>b DEF MakeHeader, GoTo, outside, dbVars, keyVars, AddHeader
  <2> QED
    BY <2>1, <1>c, <1>d, <1>e, <1>f, <1>g, <1>h, <1>i, <1>b, SMTT(30) DEF RequestInv,
       Unwritten, Made, Storing, Written, Start, Empty
<1>5. ASSUME NEW r \in Request, PostLine(r) PROVE RequestInv(q)'
  <2>1. /\ (q \in sent' <=> q \in sent)
        /\ (q \in overdue' <=> q \in overdue) /\ audit' = audit
        /\ r # q => stage'[q] = stage[q] /\ docs'[q] = docs[q] /\ at'[q] = at[q]
        /\ r = q => /\ stage[q] = "sending"
                      /\ \/ /\ at'[q] = at[q] + 1
                            /\ stage'[q] = IF LastLine(q) THEN "remarking" ELSE "sending"
                         \/ stage'[q] = "failed" /\ docs'[q] = docs[q] /\ at'[q] = at[q]
    BY <1>5, <1>b DEF PostLine, GoTo, outside, dbVars, keyVars, AddLine
  <2> QED
    BY <2>1, <1>c, <1>d, <1>e, <1>f, <1>g, <1>h, <1>i, <1>b, SMTT(30) DEF RequestInv,
       Unwritten, Made, Storing, Written, Start, LastLine
<1>6. ASSUME NEW r \in Request, Remark(r) PROVE RequestInv(q)'
  <2>1. /\ docs'[q] = docs[q] /\ at'[q] = at[q] /\ (q \in sent' <=> q \in sent)
        /\ (q \in overdue' <=> q \in overdue) /\ audit' = audit
        /\ r # q => stage'[q] = stage[q]
        /\ r = q => stage[q] = "remarking" /\ stage'[q] = "reading"
    BY <1>6, <1>b DEF Remark, GoTo, outside, dbVars, keyVars, keyVars
  <2> QED
    BY <2>1, <1>c, <1>d, <1>e, <1>f, <1>g, <1>h, <1>i, <1>b, SMTT(30) DEF RequestInv,
       Unwritten, Made, Storing, Written, Start
<1>7. ASSUME NEW r \in Request, ReadBack(r) PROVE RequestInv(q)'
  <2>1. /\ docs'[q] = docs[q] /\ at'[q] = at[q] /\ (q \in sent' <=> q \in sent)
        /\ (q \in overdue' <=> q \in overdue) /\ audit' = audit
        /\ r # q => stage'[q] = stage[q]
        /\ r = q => stage[q] = "reading"
           /\ stage'[q] \in {IF Keyed(q) THEN "saving" ELSE "auditing", "failed"}
    BY <1>7, <1>b DEF ReadBack, GoTo, outside, dbVars, keyVars, keyVars
  <2> QED
    BY <2>1, <1>c, <1>d, <1>e, <1>f, <1>g, <1>h, <1>i, <1>b, SMTT(30) DEF RequestInv,
       Unwritten, Made, Storing, Written, Start
<1>8. ASSUME NEW r \in Request, SendMessage(r) PROVE RequestInv(q)'
  <2>1. /\ docs'[q] = docs[q] /\ at'[q] = at[q]
        /\ (q \in overdue' <=> q \in overdue) /\ audit' = audit
        /\ r # q => stage'[q] = stage[q] /\ (q \in sent' <=> q \in sent)
        /\ r = q => /\ stage[q] = "posting" /\ q \in sent'
                      /\ stage'[q] \in {IF cmd[q].kind = "reply"
                         /\ Keyed(q) THEN "saving" ELSE "answered",
                                        "failed"}
    BY <1>8, <1>b DEF SendMessage, GoTo, outside, dbVars, keyVars, keyVars
  <2> QED
    BY <2>1, <1>c, <1>d, <1>e, <1>f, <1>g, <1>h, <1>i, <1>b, SMTT(30) DEF RequestInv,
       Unwritten, Made, Storing, Written, Start, Whole, IsReturn
<1>9. ASSUME NEW r \in Request, SaveRecord(r) PROVE RequestInv(q)'
  <2>1. /\ docs'[q] = docs[q] /\ at'[q] = at[q] /\ (q \in sent' <=> q \in sent)
        /\ (q \in overdue' <=> q \in overdue) /\ audit' = audit
        /\ r # q => stage'[q] = stage[q]
        /\ r = q => stage[q] = "saving" /\ stage'[q] \in {"auditing", "comparing", "failed"}
    BY <1>9, <1>b DEF SaveRecord, GoTo, outside, dbVars, keyVars, keyVars
  <2> QED
    BY <2>1, <1>c, <1>d, <1>e, <1>f, <1>g, <1>h, <1>i, <1>b, SMTT(30) DEF RequestInv,
       Unwritten, Made, Storing, Written, Start
<1>10. ASSUME NEW r \in Request, WriteAudit(r) PROVE RequestInv(q)'
  <2>1. /\ docs'[q] = docs[q] /\ at'[q] = at[q] /\ (q \in sent' <=> q \in sent)
        /\ (q \in overdue' <=> q \in overdue) /\ audit \subseteq audit'
        /\ r # q => stage'[q] = stage[q]
        /\ r = q => /\ stage[q] = "auditing"
                      /\ \/ stage'[q] = "answered" /\ q \in audit'
                         \/ stage'[q] = "failed"
    BY <1>10, <1>b DEF WriteAudit, GoTo, outside, dbVars, keyVars, keyVars
  <2> QED
    BY <2>1, <1>c, <1>d, <1>e, <1>f, <1>g, <1>h, <1>i, <1>b, SMTT(30) DEF RequestInv,
       Unwritten, Made, Storing, Written, Start
<1>11. ASSUME NEW r \in Request, CallFails(r) PROVE RequestInv(q)'
  <2>1. /\ docs'[q] = docs[q] /\ at'[q] = at[q] /\ (q \in sent' <=> q \in sent)
        /\ (q \in overdue' <=> q \in overdue) /\ audit' = audit
        /\ r # q => stage'[q] = stage[q]
        /\ r = q => stage'[q] = "failed"
    BY <1>11, <1>b DEF CallFails, GoTo, outside, dbVars, keyVars, keyVars
  <2> QED
    BY <2>1, <1>c, <1>d, <1>e, <1>f, <1>g, <1>h, <1>i, <1>b, SMTT(30) DEF RequestInv,
       Unwritten, Made, Storing, Written, Start
<1>12. ASSUME NEW r \in Request, CallTimesOut(r) PROVE RequestInv(q)'
  <2>1. /\ docs'[q] = docs[q] /\ at'[q] = at[q] /\ (q \in sent' <=> q \in sent)
        /\ audit' = audit
        /\ r # q => stage'[q] = stage[q] /\ (q \in overdue' <=> q \in overdue)
        /\ r = q => stage[q] \in {"making", "sending", "posting"} /\ stage'[q] = "failed"
    BY <1>12, <1>b DEF CallTimesOut, GoTo, outside, dbVars, keyVars, keyVars
  <2> QED
    BY <2>1, <1>c, <1>d, <1>e, <1>f, <1>g, <1>h, <1>i, <1>b, SMTT(30) DEF RequestInv,
       Unwritten, Made, Storing, Written, Start
<1>13. ASSUME NEW r \in Request, LateCall(r) PROVE RequestInv(q)'
  <2>1. /\ stage'[q] = stage[q] /\ audit' = audit /\ (q \in overdue' => q \in overdue)
        /\ r # q => /\ docs'[q] = docs[q] /\ at'[q] = at[q]
                      /\ (q \in sent' <=> q \in sent)
        /\ r = q => q \in overdue /\ q \notin overdue'
    BY <1>13, <1>b DEF LateCall, GoTo, outside, dbVars, keyVars, AddHeader, AddLine
  <2> QED
    BY <2>1, <1>c, <1>d, <1>e, <1>f, <1>g, <1>h, <1>i, <1>b, SMTT(30) DEF RequestInv,
       Unwritten, Made, Storing, Written, Start
<1>14. ASSUME NEW r \in Request, WorkerDies(r) PROVE RequestInv(q)'
  <2>1. /\ docs'[q] = docs[q] /\ at'[q] = at[q] /\ (q \in sent' <=> q \in sent)
        /\ (q \in overdue' <=> q \in overdue) /\ audit' = audit
        /\ r # q => stage'[q] = stage[q]
        /\ r = q => stage'[q] = "failed"
    BY <1>14, <1>b DEF WorkerDies, GoTo, outside, dbVars, keyVars, keyVars
  <2> QED
    BY <2>1, <1>c, <1>d, <1>e, <1>f, <1>g, <1>h, <1>i, <1>b, SMTT(30) DEF RequestInv,
       Unwritten, Made, Storing, Written, Start
<1>15. CASE UNCHANGED vars
  <2>1. /\ docs'[q] = docs[q] /\ at'[q] = at[q] /\ (q \in sent' <=> q \in sent)
        /\ (q \in overdue' <=> q \in overdue) /\ audit' = audit
        /\ stage'[q] = stage[q]
    BY <1>15, <1>b DEF vars, outside, dbVars, keyVars, keyVars
  <2> QED
    BY <2>1, <1>c, <1>d, <1>e, <1>f, <1>g, <1>h, <1>i, <1>b, SMTT(30) DEF RequestInv,
       Unwritten, Made, Storing, Written, Start
<1>16. ASSUME NEW r \in Request, PurgeExpired(r) PROVE RequestInv(q)'
  <2>1. /\ docs'[q] = docs[q] /\ at'[q] = at[q] /\ (q \in sent' <=> q \in sent)
        /\ (q \in overdue' <=> q \in overdue) /\ audit' = audit
        /\ r # q => stage'[q] = stage[q]
        /\ r = q => \/ stage[q] = "purging" /\ stage'[q] = Start(q)
                    \/ stage[q] = "repurging" /\ stage'[q] = "auditing"
    BY <1>16, <1>b DEF PurgeExpired, GoTo, outside, dbVars, keyVars
  <2> QED
    BY <2>1, <1>c, <1>d, <1>e, <1>f, <1>g, <1>h, <1>i, <1>b, SMTT(30) DEF RequestInv,
       Unwritten, Made, Storing, Written, Start
<1>17. ASSUME NEW r \in Request, CompareWithWinner(r) PROVE RequestInv(q)'
  <2>1. /\ docs'[q] = docs[q] /\ at'[q] = at[q] /\ (q \in sent' <=> q \in sent)
        /\ (q \in overdue' <=> q \in overdue) /\ audit' = audit
        /\ r # q => stage'[q] = stage[q]
        /\ r = q => /\ stage[q] = "comparing"
                    /\ stage'[q] \in {"repurging", "auditing", "failed"}
    BY <1>17, <1>b DEF CompareWithWinner, GoTo, outside, dbVars, keyVars
  <2> QED
    BY <2>1, <1>c, <1>d, <1>e, <1>f, <1>g, <1>h, <1>i, <1>b, SMTT(30) DEF RequestInv,
       Unwritten, Made, Storing, Written, Start
<1>18. ASSUME NEW k \in Key, RecordExpires(k) PROVE RequestInv(q)'
  <2>1. /\ docs'[q] = docs[q] /\ at'[q] = at[q] /\ (q \in sent' <=> q \in sent)
        /\ (q \in overdue' <=> q \in overdue) /\ audit' = audit
        /\ stage'[q] = stage[q]
    BY <1>18, <1>b DEF RecordExpires, GoTo, outside, dbVars, keyVars
  <2> QED
    BY <2>1, <1>c, <1>d, <1>e, <1>f, <1>g, <1>h, <1>i, <1>b, SMTT(30) DEF RequestInv,
       Unwritten, Made, Storing, Written, Start
<1> QED
  BY <1>1, <1>2, <1>3, <1>4, <1>5, <1>6, <1>7, <1>8,
     <1>9, <1>10, <1>11, <1>12, <1>13, <1>14, <1>15, <1>16, <1>17, <1>18
  DEF Next, ServerStep

\* Who is served from the table has found a reply of its own kind there.
LEMMA ReplaySteps ==
  ASSUME TypeOK, [Next]_vars, NEW q \in Request, stage'[q] = "replayed", stage[q] # "replayed"
  PROVE  stage[q] = "checking" /\ Readable(q, idem[cmd[q].key])
<1> DEFINE Goal == stage[q] = "checking" /\ Readable(q, idem[cmd[q].key])
<1>1. stage \in [Request -> Stage]
  BY DEF TypeOK
<1>2. ASSUME NEW r \in Request, r # q,
             \/ Arrive(r) \/ ServerStep(r)
             \/ CallFails(r) \/ CallTimesOut(r) \/ LateCall(r) \/ WorkerDies(r)
      PROVE  stage'[q] = stage[q]
  BY <1>1, <1>2 DEF ServerStep, Arrive, CheckKey, PurgeExpired, Validate, MakeHeader, PostLine,
     Remark, ReadBack, SendMessage, SaveRecord, CompareWithWinner, WriteAudit, CallFails,
     CallTimesOut, LateCall, WorkerDies, GoTo
<1>3. CASE CheckKey(q)
  BY <1>1, <1>3 DEF CheckKey, GoTo, Start
<1>4. CASE \/ Arrive(q) \/ PurgeExpired(q) \/ Validate(q) \/ MakeHeader(q) \/ PostLine(q)
           \/ Remark(q) \/ ReadBack(q) \/ SendMessage(q) \/ SaveRecord(q)
           \/ CompareWithWinner(q) \/ WriteAudit(q)
           \/ CallFails(q) \/ CallTimesOut(q) \/ LateCall(q) \/ WorkerDies(q)
  BY <1>1, <1>4 DEF Arrive, PurgeExpired, Validate, MakeHeader, PostLine, Remark, ReadBack,
     SendMessage, SaveRecord, CompareWithWinner, WriteAudit, CallFails, CallTimesOut,
     LateCall, WorkerDies, GoTo, Start
<1>5. CASE (\E k \in Key : RecordExpires(k)) \/ UNCHANGED vars
  BY <1>5 DEF RecordExpires, vars
<1>. QED  BY <1>2, <1>3, <1>4, <1>5 DEF Next, ServerStep

\* Every step preserves what is behind a reply from the table: no write is undone.
LEMMA StepReplay ==
  ASSUME IInv, [Next]_vars, NEW q \in Request
  PROVE  ReplayInv(q)'
<1> DEFINE Behind(p) == SameKey(q, p) /\ Whole(p) /\ (IsReturn(p) <=> IsReturn(q))
<1>1. cmd' = cmd
  BY BodiesStay
<1>2. SUFFICES ASSUME stage'[q] = "replayed" PROVE \E p \in Request \ {q} : Behind(p)'
  BY DEF ReplayInv
<1>3. ASSUME NEW p \in Request, Behind(p) PROVE Behind(p)'
  BY <1>1, <1>3, WholeStays DEF SameKey, Keyed, IsReturn
<1>4. \E p \in Request \ {q} : Behind(p)
  <2>1. CASE stage[q] = "replayed"
    BY <2>1 DEF IInv, ReplayInv
  <2>2. CASE stage[q] # "replayed"
    <3> DEFINE k == cmd[q].key
               p == idem[k]
    <3>1. stage[q] = "checking" /\ Readable(q, p)
      BY <1>2, <2>2, ReplaySteps DEF IInv
    <3>2. Keyed(q) /\ k \in Key /\ docs[q] = None /\ q \notin sent
      BY <3>1, BodyType DEF IInv, TypeOK, RequestInv, Unwritten, Keyed
    <3>3. p \in Request /\ cmd[p].key = k /\ Whole(p)
      BY <3>1, <3>2 DEF IInv, RecordInv, Readable
    <3>4. p # q
      BY <3>2, <3>3 DEF Whole
    <3>5. Behind(p)
      BY <3>1, <3>2, <3>3 DEF SameKey, Readable, IsReturn
    <3> HIDE DEF p, Behind
    <3>. QED  BY <3>3, <3>4, <3>5
  <2>. QED  BY <2>1, <2>2
<1> HIDE DEF Behind
<1>. QED  BY <1>3, <1>4

\* Every step preserves what the table holds.
LEMMA StepRecord ==
  ASSUME IInv, [Next]_vars, NEW k \in Key
  PROVE  RecordInv(k)'
<1>1. cmd' = cmd /\ RecordInv(k) /\ idem \in [Key -> Request \cup {Other, None}]
  BY BodiesStay DEF IInv, TypeOK
<1>2. ASSUME NEW p \in Request, cmd[p].key = k, Whole(p), idem'[k] = p PROVE RecordInv(k)'
  <2>1. Whole(p)'
    BY <1>2, WholeStays
  <2> QED
    BY <1>1, <1>2, <2>1 DEF RecordInv, Whole, IsReturn
<1>3. CASE idem'[k] = idem[k]
  <2>1. CASE idem[k] \in Request
    <3> DEFINE p == idem[k]
    <3>1. p \in Request /\ cmd[p].key = k /\ Whole(p)
      BY <1>1, <2>1 DEF RecordInv
    <3> QED
      BY <1>2, <1>3, <3>1
  <2>2. CASE idem[k] \notin Request
    BY <1>3, <2>2 DEF RecordInv
  <2> QED
    BY <2>1, <2>2
<1>4. ASSUME NEW r \in Request, SaveRecord(r) PROVE RecordInv(k)'
  <2>1. CASE cmd[r].key = k /\ idem' = [idem EXCEPT ![k] = r]
    <3>1. Whole(r)
      BY <1>4 DEF IInv, RequestInv, Storing, Written, SaveRecord
    <3> QED
      BY <1>1, <1>2, <2>1, <3>1
  <2>2. CASE idem'[k] = idem[k]
    BY <1>3, <2>2
  <2> QED
    BY <1>1, <1>4, <2>1, <2>2 DEF SaveRecord, keyVars
<1>5. ASSUME NEW r \in Request, PurgeExpired(r) PROVE RecordInv(k)'
  <2>1. idem'[k] = idem[k] \/ idem'[k] = None
    BY <1>1, <1>5 DEF PurgeExpired, keyVars
  <2> QED
    BY <1>3, <2>1, DistinctAssumption DEF RecordInv
<1>6. idem' = idem \/ \E r \in Request : SaveRecord(r) \/ PurgeExpired(r)
  BY DEF Next, ServerStep, vars, dbVars, keyVars, Arrive, CheckKey, Validate, MakeHeader, PostLine,
     Remark,
     ReadBack, SendMessage, WriteAudit, CallFails, CallTimesOut, LateCall, WorkerDies,
     CompareWithWinner, RecordExpires
<1> QED
  BY <1>3, <1>4, <1>5, <1>6

\* The invariant is inductive.
LEMMA StepInv == IInv /\ [Next]_vars => IInv'
<1> SUFFICES ASSUME IInv, [Next]_vars PROVE IInv'
  OBVIOUS
<1>1. TypeOK'
  BY StepType
<1>2. \A r \in Request : RequestInv(r)' /\ DocumentInv(r)' /\ ReplayInv(r)'
  BY StepRequest, StepDocument, StepReplay
<1>3. \A k \in Key : RecordInv(k)'
  BY StepRecord
<1> QED
  BY <1>1, <1>2, <1>3 DEF IInv

\* IInv holds in every reachable state.
LEMMA Invariance == Spec => []IInv
<1>1. Init => IInv
  BY InitInv
<1>2. IInv /\ [Next]_vars => IInv'
  BY StepInv
<1> QED
  BY <1>1, <1>2, PTL DEF Spec

\* Type correctness: every variable of the two keyed writes keeps its type.
THEOREM TypeCorrect == Spec => []TypeOK
<1>1. IInv => TypeOK
  BY DEF IInv
<1> QED
  BY <1>1, Invariance, PTL

\* A 201 has its whole write and its audit row behind it, and one from the table a
\* whole write of its own kind; what is refused or served from the table writes nothing.
THEOREM AnswersGenuine == Spec => []AnswerIsGenuine
<1>1. IInv => AnswerIsGenuine
  <2> SUFFICES ASSUME IInv, NEW r \in Request
               PROVE  /\ stage[r] = "answered" => Whole(r) /\ (IsReturn(r) => r \in audit)
                      /\ stage[r] = "replayed" =>
                           \E q \in Request \ {r} :
                             SameKey(r, q) /\ Whole(q) /\ (IsReturn(q) <=> IsReturn(r))
                      /\ stage[r] \in {"replayed", "refused"} => Untouched(r)
    BY DEF AnswerIsGenuine
  <2>1. TypeOK /\ RequestInv(r) /\ ReplayInv(r)
    BY DEF IInv
  <2>2. stage[r] = "answered" => Whole(r) /\ (IsReturn(r) => r \in audit)
    BY <2>1 DEF RequestInv, Written
  <2>3. stage[r] \in {"replayed", "refused"} => Untouched(r)
    BY <2>1 DEF RequestInv, Unwritten, Untouched
  <2>4. stage[r] = "replayed" =>
          \E q \in Request \ {r} :
            SameKey(r, q) /\ Whole(q) /\ (IsReturn(q) <=> IsReturn(r))
    BY <2>1 DEF ReplayInv
  <2> QED
    BY <2>2, <2>3, <2>4
<1> QED
  BY <1>1, Invariance, PTL

\* Whatever fails or comes late, a return order holds lines of its body only, in
\* order, and no more of a line than the receipt has.
THEOREM ReturnsFit == Spec => []ReturnFitsReceipt
<1>1. IInv => ReturnFitsReceipt
  <2> SUFFICES ASSUME IInv, NEW r \in Request, docs[r] # None
               PROVE  /\ \A n \in 1..Len(cmd[r].lines) :
                           docs[r][cmd[r].lines[n].line] # 0 \/ n > at[r]
                      /\ \A l \in Line : docs[r][l] > 0 =>
                           /\ docs[r][l] <= Received[l]
                           /\ \E n \in 1..at[r] :
                                cmd[r].lines[n] = [line |-> l, quantity |-> docs[r][l]]
    BY DEF ReturnFitsReceipt
  <2> DEFINE c == cmd[r]
  <2>1. /\ c \in Command /\ at[r] \in Nat /\ docs[r] \in Document /\ at[r] <= Len(c.lines)
        /\ \A n \in 1..at[r] : docs[r][c.lines[n].line] = c.lines[n].quantity
        /\ \A l \in Line : docs[r][l] > 0 => \E n \in 1..at[r] : c.lines[n].line = l
        /\ \A n \in 1..Len(c.lines) : c.lines[n].quantity <= Received[c.lines[n].line]
    BY DEF IInv, TypeOK, DocumentInv, Ordered, Valid, LineAllowed
  <2> HIDE DEF c
  <2>2. /\ Len(c.lines) \in Nat
        /\ \A n \in 1..Len(c.lines) :
             /\ c.lines[n].quantity \in Nat /\ c.lines[n].quantity > 0
             /\ c.lines[n] = [line |-> c.lines[n].line, quantity |-> c.lines[n].quantity]
    BY <2>1, BodyType
  <2>3. \A n \in 1..Len(c.lines) : n \in 1..at[r] \/ n > at[r]
    BY <2>1, <2>2
  <2>4. \A n \in 1..at[r] : n \in 1..Len(c.lines)
    BY <2>1, <2>2
  <2>5. \A n \in 1..Len(c.lines) : docs[r][c.lines[n].line] # 0 \/ n > at[r]
    <3> SUFFICES ASSUME NEW n \in 1..Len(c.lines), n \in 1..at[r]
                 PROVE  docs[r][c.lines[n].line] # 0
      BY <2>3
    <3>1. docs[r][c.lines[n].line] = c.lines[n].quantity
      BY <2>1
    <3>2. c.lines[n].quantity \in Nat /\ c.lines[n].quantity > 0
      BY <2>2
    <3> QED
      BY <3>1, <3>2
  <2>6. ASSUME NEW l \in Line, docs[r][l] > 0
        PROVE  /\ docs[r][l] <= Received[l]
               /\ \E n \in 1..at[r] : c.lines[n] = [line |-> l, quantity |-> docs[r][l]]
    <3>1. PICK n \in 1..at[r] : c.lines[n].line = l
      BY <2>1, <2>6
    <3>2. docs[r][l] = c.lines[n].quantity /\ n \in 1..Len(c.lines)
      BY <2>1, <2>4, <3>1
    <3>3. c.lines[n] = [line |-> l, quantity |-> docs[r][l]]
      BY <2>2, <3>1, <3>2
    <3> QED
      BY <2>1, <3>1, <3>2, <3>3
  <2> QED
    BY <2>5, <2>6 DEF c
<1> QED
  BY <1>1, Invariance, PTL

-----------------------------------------------------------------------------
(***************************************************************************)
(* The steps of a request run out.                                         *)
(***************************************************************************)
\* The stages are left in their order.
LEMMA StageOrder ==
  /\ StepsAfter("idle") = 12 /\ StepsAfter("checking") = 11 /\ StepsAfter("purging") = 10
  /\ StepsAfter("validating") = 9 /\ StepsAfter("making") = 8 /\ StepsAfter("sending") = 7
  /\ StepsAfter("remarking") = 6 /\ StepsAfter("reading") = 5 /\ StepsAfter("posting") = 5
  /\ StepsAfter("saving") = 4 /\ StepsAfter("comparing") = 3
  /\ StepsAfter("repurging") = 2 /\ StepsAfter("auditing") = 1
  /\ \A s \in Ended : StepsAfter(s) = 0
  /\ \A s \in Stage \ Ended : StepsAfter(s) > 0
  /\ \A s \in Stage : StepsAfter(s) \in Nat
BY DEF StepsAfter, Ended, Stage

\* A line that is still to be sent is one of the body.
LEMMA LinesType ==
  ASSUME IInv, NEW r \in Request
  PROVE  /\ Len(cmd[r].lines) \in Nat /\ at[r] \in Nat /\ LinesAhead(r) \in Nat
         /\ stage[r] \in Stage /\ Left(r) \in Nat
<1>1. Len(cmd[r].lines) \in Nat /\ at[r] \in Nat /\ stage[r] \in Stage
  BY BodyType DEF IInv, TypeOK
<1>2. /\ stage[r] \in {"idle", "checking", "purging", "validating", "making"} => at[r] = 0
      /\ stage[r] = "sending" => at[r] < Len(cmd[r].lines)
  BY DEF IInv, RequestInv, DocumentInv, Unwritten
<1>3. LinesAhead(r) \in Nat
  BY <1>1, <1>2 DEF LinesAhead
<1>4. StepsAfter(stage[r]) \in Nat
  BY <1>1, StageOrder
<1>. QED  BY <1>1, <1>3, <1>4 DEF Left

\* A step of the service uses up one of its request's: it leaves a stage for a later
\* one or a line for the next.
LEMMA StepUsesUp ==
  ASSUME IInv, NEW r \in Request, ServerStep(r)
  PROVE  Left(r)' \in 0..Left(r) /\ Left(r)' # Left(r)
<1>1. /\ Len(cmd[r].lines) \in Nat /\ at[r] \in Nat /\ LinesAhead(r) \in Nat
      /\ stage[r] \in Stage /\ Left(r) \in Nat
  BY LinesType
<1>2. cmd' = cmd
  BY BodiesStay DEF Next
<1>3. ASSUME NEW s, GoTo(r, s) PROVE stage'[r] = s
  BY <1>3 DEF GoTo, IInv, TypeOK
<1>4. ASSUME LinesAhead(r)' \in 0..LinesAhead(r), StepsAfter(stage'[r]) \in 0..StepsAfter(stage[r]),
             \/ LinesAhead(r)' # LinesAhead(r)
             \/ StepsAfter(stage'[r]) # StepsAfter(stage[r])
      PROVE  Left(r)' \in 0..Left(r) /\ Left(r)' # Left(r)
  <2>1. StepsAfter(stage[r]) \in Nat
    BY <1>1, StageOrder
  <2>. QED  BY <1>1, <1>4, <2>1 DEF Left
<1>5. ASSUME at' = at \/ stage'[r] \notin {"idle", "checking", "purging", "validating", "making", "sending"},
             stage[r] \notin Ended \cup {"idle", "remarking", "reading", "posting",
                                               "auditing"} \cup Storing
                \/ stage'[r] \notin {"idle", "checking", "purging", "validating", "making", "sending"}
      PROVE  LinesAhead(r)' \in 0..LinesAhead(r)
  BY <1>1, <1>2, <1>5 DEF LinesAhead, Stage, Ended, Storing
<1>6. CASE CheckKey(r)
  <2>1. /\ stage[r] = "checking" /\ at' = at
        /\ stage'[r] \in {"purging", "validating", "posting", "replayed", "failed"}
    BY <1>3, <1>6 DEF CheckKey, Start, outside
  <2>2. LinesAhead(r)' \in 0..LinesAhead(r)
    BY <1>5, <2>1 DEF Ended, Storing
  <2>3. StepsAfter(stage'[r]) \in 0..10 /\ StepsAfter(stage[r]) = 11
    BY <2>1, StageOrder DEF Ended
  <2>. QED  BY <1>4, <2>2, <2>3
<1>7. CASE Validate(r) \/ MakeHeader(r)
  <2>1. /\ at' = at
        /\ \/ stage[r] = "validating" /\ stage'[r] \in {"making", "refused"}
           \/ stage[r] = "making" /\ stage'[r] = "sending"
    BY <1>3, <1>7 DEF Validate, MakeHeader, AddHeader, outside
  <2>2. LinesAhead(r)' \in 0..LinesAhead(r)
    BY <1>5, <2>1 DEF Ended, Storing
  <2>3. /\ StepsAfter(stage'[r]) \in 0..StepsAfter(stage[r])
        /\ StepsAfter(stage'[r]) # StepsAfter(stage[r])
    BY <2>1, StageOrder DEF Ended
  <2>. QED  BY <1>4, <2>2, <2>3
<1>8. CASE PostLine(r)
  <2>1. stage[r] = "sending" /\ at[r] < Len(cmd[r].lines)
    BY <1>8 DEF PostLine, IInv, RequestInv
  <2>2. \/ at'[r] = at[r] + 1 /\ at[r] + 1 < Len(cmd[r].lines) /\ stage'[r] = "sending"
        \/ stage'[r] \in {"remarking", "failed"}
    BY <1>1, <1>3, <1>8, <2>1 DEF PostLine, AddLine, LastLine, IInv, TypeOK
  <2>3. CASE at'[r] = at[r] + 1 /\ at[r] + 1 < Len(cmd[r].lines) /\ stage'[r] = "sending"
    <3>1. /\ LinesAhead(r) = Len(cmd[r].lines) - at[r]
          /\ LinesAhead(r)' = Len(cmd[r].lines) - (at[r] + 1)
      BY <1>2, <2>1, <2>3 DEF LinesAhead
    <3>2. LinesAhead(r)' \in 0..LinesAhead(r) /\ LinesAhead(r)' # LinesAhead(r)
      BY <1>1, <2>3, <3>1
    <3>3. StepsAfter(stage'[r]) \in 0..StepsAfter(stage[r])
      BY <2>1, <2>3, StageOrder
    <3>. QED  BY <1>4, <3>2, <3>3
  <2>4. CASE stage'[r] \in {"remarking", "failed"}
    <3>1. LinesAhead(r)' \in 0..LinesAhead(r)
      BY <1>5, <2>4 DEF Ended, Storing
    <3>2. StepsAfter(stage'[r]) \in 0..6 /\ StepsAfter(stage[r]) = 7
      BY <2>1, <2>4, StageOrder DEF Ended
    <3>. QED  BY <1>4, <3>1, <3>2
  <2>. QED  BY <2>2, <2>3, <2>4
<1>9. CASE \/ Remark(r) \/ ReadBack(r) \/ SendMessage(r) \/ SaveRecord(r)
            \/ CompareWithWinner(r) \/ WriteAudit(r)
  <2>1. \/ stage[r] = "remarking" /\ stage'[r] = "reading"
        \/ stage[r] \in {"reading", "posting"} /\ stage'[r] \in {"saving", "auditing"} \cup Ended
        \/ stage[r] = "saving" /\ stage'[r] \in {"comparing", "auditing", "failed"}
        \/ stage[r] = "comparing" /\ stage'[r] \in {"repurging", "auditing", "failed"}
        \/ stage[r] = "auditing" /\ stage'[r] \in Ended
    BY <1>3, <1>9 DEF Remark, ReadBack, SendMessage, SaveRecord, CompareWithWinner, WriteAudit, Ended
  <2>2. LinesAhead(r)' \in 0..LinesAhead(r)
    BY <1>5, <2>1 DEF Ended, Storing
  <2>3. /\ StepsAfter(stage'[r]) \in 0..StepsAfter(stage[r])
        /\ StepsAfter(stage'[r]) # StepsAfter(stage[r])
    BY <2>1, StageOrder DEF Ended
  <2>. QED  BY <1>4, <2>2, <2>3
<1>10. CASE PurgeExpired(r)
  <2>1. /\ at' = at
        /\ \/ stage[r] = "purging" /\ stage'[r] \in {"validating", "posting"}
           \/ stage[r] = "repurging" /\ stage'[r] = "auditing"
    BY <1>3, <1>10 DEF PurgeExpired, Start, outside
  <2>2. LinesAhead(r)' \in 0..LinesAhead(r)
    BY <1>5, <2>1 DEF Ended, Storing
  <2>3. /\ StepsAfter(stage'[r]) \in 0..StepsAfter(stage[r])
        /\ StepsAfter(stage'[r]) # StepsAfter(stage[r])
    BY <2>1, StageOrder DEF Ended
  <2>. QED  BY <1>4, <2>2, <2>3
<1>. QED  BY <1>6, <1>7, <1>8, <1>9, <1>10 DEF ServerStep

\* No step of another request, no failure and no late call gives a step back.
LEMMA OthersUseNothing ==
  ASSUME IInv, Next, NEW q \in Request
  PROVE  Left(q)' \in 0..Left(q)
<1>1. /\ Len(cmd[q].lines) \in Nat /\ at[q] \in Nat /\ LinesAhead(q) \in Nat
      /\ stage[q] \in Stage /\ Left(q) \in Nat
  BY LinesType
<1>2. cmd' = cmd
  BY BodiesStay
<1>3. ASSUME at'[q] = at[q], stage'[q] = stage[q] PROVE Left(q)' = Left(q)
  BY <1>2, <1>3 DEF Left, LinesAhead
<1>4. ASSUME NEW r \in Request, Arrive(r), r = q PROVE Left(q)' \in 0..Left(q)
  <2>1. at' = at /\ stage[q] = "idle" /\ stage'[q] \in {"checking", "validating", "posting"}
    BY <1>4 DEF Arrive, Start, outside, GoTo, IInv, TypeOK
  <2>2. LinesAhead(q)' \in 0..LinesAhead(q)
    BY <1>1, <1>2, <2>1 DEF LinesAhead
  <2>3. StepsAfter(stage'[q]) \in 0..11 /\ StepsAfter(stage[q]) = 12
    BY <2>1, StageOrder
  <2>. QED  BY <1>1, <2>2, <2>3 DEF Left
<1>5. ASSUME NEW r \in Request, CallFails(r) \/ CallTimesOut(r) \/ WorkerDies(r), r = q
      PROVE  Left(q)' \in 0..Left(q)
  <2>1. stage'[q] = "failed"
    BY <1>5 DEF CallFails, CallTimesOut, WorkerDies, GoTo, IInv, TypeOK
  <2>2. Left(q)' = 0
    BY <2>1, StageOrder DEF Left, LinesAhead, Ended
  <2>. QED  BY <1>1, <2>2
<1>6. ASSUME NEW r \in Request, LateCall(r), r = q PROVE Left(q)' \in 0..Left(q)
  <2>1. stage[q] = "failed" /\ stage' = stage
    BY <1>6 DEF LateCall, IInv, RequestInv
  <2>2. Left(q)' = 0
    BY <2>1, StageOrder DEF Left, LinesAhead, Ended
  <2>. QED  BY <1>1, <2>2
<1>7. ASSUME NEW r \in Request, r # q,
             \/ Arrive(r) \/ ServerStep(r)
             \/ CallFails(r) \/ CallTimesOut(r) \/ LateCall(r) \/ WorkerDies(r)
      PROVE  at'[q] = at[q] /\ stage'[q] = stage[q]
  <2>1. CASE PostLine(r) \/ MakeHeader(r) \/ LateCall(r)
    BY <1>7, <2>1 DEF PostLine, MakeHeader, LateCall, AddHeader, AddLine, outside, GoTo,
       IInv, TypeOK
  <2>2. CASE ~(PostLine(r) \/ MakeHeader(r) \/ LateCall(r))
    BY <1>7, <2>2 DEF outside, ServerStep, Arrive, CheckKey, Validate, Remark, ReadBack,
       SendMessage, SaveRecord, WriteAudit, CallFails, CallTimesOut, WorkerDies,
       PurgeExpired, CompareWithWinner, GoTo,
       IInv, TypeOK
  <2>. QED  BY <2>1, <2>2
<1>8. ASSUME NEW k \in Key, RecordExpires(k) PROVE at'[q] = at[q] /\ stage'[q] = stage[q]
  BY <1>8 DEF RecordExpires, outside
<1>. QED  BY <1>1, <1>3, <1>4, <1>5, <1>6, <1>7, <1>8, StepUsesUp DEF Next

\* Whatever the requests and the failures do, a request with n lines has at most
\* n + 12 steps, and each one that the service takes is gone.
THEOREM StepsOfWritesRunOut == Spec => StepsRunOut
<1>1. IInv /\ [Next]_vars =>
        [\A r \in Request : /\ Left(r)' \in 0..Left(r)
                            /\ ServerStep(r) => Left(r)' # Left(r)]_vars
  BY StepUsesUp, OthersUseNothing
<1>. QED  BY <1>1, Invariance, PTL DEF Spec, StepsRunOut

-----------------------------------------------------------------------------
(***************************************************************************)
(* Returns and replies implement the contract of a write.                  *)
(***************************************************************************)
StepOf(r) == \/ Arrive(r) \/ ServerStep(r)
             \/ CallFails(r) \/ CallTimesOut(r) \/ LateCall(r) \/ WorkerDies(r)

\* A step touches no order and no message but its own request's.
LEMMA OthersStay ==
  ASSUME TypeOK, NEW r \in Request, StepOf(r), NEW q \in Request, q # r
  PROVE  docs'[q] = docs[q] /\ (q \in sent' <=> q \in sent)
<1>1. CASE MakeHeader(r) \/ PostLine(r) \/ LateCall(r)
  BY <1>1 DEF TypeOK, MakeHeader, PostLine, LateCall, AddHeader, AddLine, outside
<1>2. CASE SendMessage(r)
  BY <1>2 DEF SendMessage
<1> QED
  BY <1>1, <1>2
     DEF StepOf, ServerStep, outside, Arrive, CheckKey, Validate, Remark, ReadBack, SaveRecord,
         WriteAudit, CallFails, CallTimesOut, WorkerDies, PurgeExpired, CompareWithWinner

\* Whatever a step of a request does outside is an effect the contract knows: nothing,
\* or some more of this request's write.
LEMMA EffectGrows ==
  ASSUME IInv, NEW r \in Request, StepOf(r)
  PROVE  Contract!MayTake(r)
<1> DEFINE begun == {q \in Request : Begun(q)}
           whole == {q \in Request : Whole(q)}
<1>1. TypeOK /\ [Next]_vars
  BY DEF IInv, StepOf, Next
<1>2. cmd' = cmd
  BY <1>1, BodiesStay
<1>3. ASSUME NEW q \in Request, q # r
      PROVE  (Begun(q)' <=> Begun(q)) /\ (Whole(q)' <=> Whole(q))
  BY <1>1, <1>2, <1>3, OthersStay DEF Begun, Whole, IsReturn
<1>4. (Begun(r) => Begun(r)') /\ (Whole(r) => Whole(r)')
  BY <1>1, OrderStays, SentStays, WholeStays DEF Begun
<1>5. Whole(r)' => Begun(r)'
  BY DEF Whole, Begun
<1> HIDE DEF begun, whole
<1>6. CASE Begun(r)'
  <2>1. begun' = begun \cup {r}
    BY <1>3, <1>6 DEF begun
  <2>2. whole' \in {whole, whole \cup {r}}
    BY <1>3, <1>4 DEF whole
  <2> QED
    BY <2>1, <2>2 DEF Contract!MayTake, Contract!Takes, begun, whole
<1>7. CASE ~Begun(r)'
  <2>1. begun' = begun /\ whole' = whole
    BY <1>3, <1>4, <1>5, <1>7 DEF begun, whole
  <2> QED
    BY <2>1 DEF Contract!MayTake, Contract!effect, begun, whole
<1> QED
  BY <1>6, <1>7

\* A request that is on its way goes on, fails or is refused.
LEMMA Moves ==
  ASSUME TypeOK, NEW r \in Request, NEW s \in Stage, GoTo(r, s), stage[r] \notin Ended,
         Contract!MayTake(r), UNCHANGED <<cmd, idem, audit>>
  PROVE  /\ s \notin Ended => Contract!TakeEffect(r) \/ UNCHANGED Contract!vars
         /\ s = "failed" => Contract!Fail(r)
         /\ s = "refused" /\ ~Begun(r) /\ UNCHANGED Contract!effect => Contract!Refuse(r)
<1> DEFINE phase == [q \in Request |-> PhaseOf(stage[q])]
<1>1. phase' = [phase EXCEPT ![r] = PhaseOf(s)] /\ phase[r] = "open"
  BY DEF TypeOK, GoTo, PhaseOf
<1>2. s \notin Ended => phase' = phase
  BY <1>1 DEF PhaseOf
<1>3. /\ [q \in Request |-> cmd'[q].key] = [q \in Request |-> cmd[q].key]
      /\ {q \in Request : IsReturn(q)'} = {q \in Request : IsReturn(q)}
  BY DEF IsReturn
<1>4. s \in {"failed", "refused"} => PhaseOf(s) = s
  BY DEF PhaseOf, Ended
<1>5. s \notin Ended => Contract!TakeEffect(r) \/ UNCHANGED Contract!vars
  <2>1. Contract!Takes(r) /\ s \notin Ended => Contract!TakeEffect(r)
    BY <1>1, <1>2, <1>3 DEF Contract!TakeEffect
  <2>2. UNCHANGED Contract!effect /\ s \notin Ended => UNCHANGED Contract!vars
    BY <1>2, <1>3 DEF Contract!vars, Contract!effect
  <2> QED
    BY <2>1, <2>2 DEF Contract!MayTake
<1>6. s = "failed" => Contract!Fail(r)
  BY <1>1, <1>3, <1>4 DEF Contract!Fail, Contract!End
<1>7. s = "refused" /\ ~Begun(r) /\ UNCHANGED Contract!effect => Contract!Refuse(r)
  BY <1>1, <1>3, <1>4 DEF Contract!Refuse, Contract!End
<1> QED
  BY <1>5, <1>6, <1>7

\* What is done outside stays as it is when neither system is asked.
LEMMA NothingOutside ==
  ASSUME UNCHANGED <<docs, sent, cmd>>
  PROVE  UNCHANGED Contract!effect
  BY DEF Contract!effect, Begun, Whole, IsReturn

\* A step of a request is a step of the contract, or shows nothing.
LEMMA RequestImplements ==
  ASSUME IInv, NEW r \in Request, StepOf(r)
  PROVE  [Contract!Next]_(Contract!vars)
<1> DEFINE Mapped == Contract!Next \/ UNCHANGED Contract!vars
<1> SUFFICES Mapped
  OBVIOUS
<1>0. /\ Contract!Fail(r) \/ Contract!Refuse(r) \/ Contract!Replay(r) => Mapped
      /\ Contract!TakeEffect(r) \/ Contract!Answer(r) \/ Contract!Remember(r) => Mapped
      /\ UNCHANGED Contract!vars => Mapped
  BY DEF Contract!Next
<1> HIDE DEF Mapped
<1>a. /\ TypeOK /\ RequestInv(r) /\ cmd[r] \in Command
      /\ Contract!MayTake(r) /\ cmd' = cmd
  BY EffectGrows, BodiesStay DEF IInv, TypeOK, StepOf, Next
<1>b. stage[r] \in Unwritten => ~Begun(r)
  BY <1>a DEF RequestInv, Begun
<1>c. (Keyed(r) => cmd[r].key \in Key) /\ (Whole(r) => Whole(r)')
  BY <1>a, BodyType, WholeStays DEF Keyed, StepOf, Next
<1>1. ASSUME NEW s \in Stage, GoTo(r, s), stage[r] \notin Ended, UNCHANGED <<idem, audit>>,
             s \notin Ended \/ s = "failed"
      PROVE  Mapped
  BY <1>0, <1>a, <1>1, Moves
<1>d. ASSUME NEW s \in {"answered", "replayed"}, GoTo(r, s), stage[r] \notin Ended
      PROVE  /\ [q \in Request |-> PhaseOf(stage'[q])]
                  = [[q \in Request |-> PhaseOf(stage[q])] EXCEPT ![r] = s]
             /\ PhaseOf(stage[r]) = "open"
             /\ {q \in Request : IsReturn(q)'} = {q \in Request : IsReturn(q)}
  BY <1>a, <1>d DEF GoTo, TypeOK, PhaseOf, Ended, IsReturn
<1> USE DEF dbVars, keyVars, outside, Stage, Ended
<1>2. CASE Arrive(r)
  BY <1>1, <1>2 DEF Arrive, Start
<1>3. CASE CheckKey(r)
  <2>1. stage[r] = "checking" /\ UNCHANGED <<docs, sent, cmd, idem, audit>>
    BY <1>3 DEF CheckKey
  <2>2. CASE GoTo(r, "replayed")
    <3>1. idem[cmd[r].key] \in Request
      BY <1>3, <1>a, <2>2 DEF CheckKey, GoTo, TypeOK, Readable, Start
    <3>2. cmd[r].key \in Key /\ ~Begun(r)
      BY <1>a, <1>b, <1>c, <2>1 DEF RequestInv, Unwritten
    <3>3. UNCHANGED Contract!effect
      BY <2>1, NothingOutside
    <3>4. Contract!Replay(r)
      BY <1>d, <2>1, <2>2, <3>1, <3>2, <3>3, DistinctAssumption
         DEF Contract!Replay, Contract!End
    <3> QED
      BY <1>0, <3>4
  <2>3. CASE GoTo(r, Start(r)) \/ GoTo(r, "purging") \/ GoTo(r, "failed")
    BY <1>1, <2>1, <2>3 DEF Start
  <2> QED
    BY <1>3, <2>2, <2>3 DEF CheckKey
<1>4. CASE Validate(r)
  <2>1. stage[r] = "validating" /\ UNCHANGED <<docs, sent, cmd, idem, audit>>
    BY <1>4 DEF Validate
  <2>2. CASE GoTo(r, "refused")
    <3>1. ~Begun(r) /\ UNCHANGED Contract!effect
      BY <1>b, <2>1, NothingOutside DEF Unwritten
    <3> QED
      BY <1>0, <1>a, <2>1, <2>2, <3>1, Moves
  <2>3. CASE GoTo(r, "making")
    BY <1>1, <2>1, <2>3
  <2> QED
    BY <1>4, <2>2, <2>3 DEF Validate
<1>5. CASE MakeHeader(r) \/ PostLine(r) \/ Remark(r) \/ ReadBack(r)
  BY <1>1, <1>5 DEF MakeHeader, PostLine, Remark, ReadBack
<1>6. CASE CallFails(r) \/ CallTimesOut(r) \/ WorkerDies(r)
  BY <1>1, <1>6, <1>a DEF CallFails, CallTimesOut, WorkerDies, TypeOK
<1>7. CASE SendMessage(r)
  <2>1. CASE GoTo(r, "answered")
    <3>1. /\ stage[r] = "posting" /\ r \in sent' /\ UNCHANGED <<cmd, idem, audit>>
      BY <1>7 DEF SendMessage
    <3>2. ~IsReturn(r) /\ Whole(r)'
      BY <1>a, <3>1 DEF RequestInv, Whole, IsReturn
    <3>3. Contract!Answer(r)
      BY <1>a, <1>d, <2>1, <3>1, <3>2 DEF Contract!Answer, Contract!End
    <3> QED
      BY <1>0, <3>3
  <2>2. CASE GoTo(r, "saving") \/ GoTo(r, "failed")
    BY <1>1, <1>7, <2>2 DEF SendMessage
  <2> QED
    BY <1>7, <2>1, <2>2 DEF SendMessage
<1>8. CASE SaveRecord(r)
  <2>1. CASE (GoTo(r, "failed") \/ GoTo(r, "comparing")) /\ UNCHANGED idem
    BY <1>1, <1>8, <2>1 DEF SaveRecord
  <2>2. CASE /\ idem[cmd[r].key] = None /\ idem' = [idem EXCEPT ![cmd[r].key] = r]
             /\ GoTo(r, "auditing")
    <3>1. stage[r] = "saving" /\ UNCHANGED <<docs, sent, cmd, audit>>
      BY <1>8 DEF SaveRecord
    <3>2. cmd[r].key \in Key /\ Whole(r)
      BY <1>a, <1>c, <3>1 DEF RequestInv, Storing, Written
    <3>3. /\ [q \in Request |-> PhaseOf(stage'[q])] = [q \in Request |-> PhaseOf(stage[q])]
          /\ PhaseOf(stage[r]) = "open"
          /\ {q \in Request : IsReturn(q)'} = {q \in Request : IsReturn(q)}
      BY <1>a, <2>2, <3>1 DEF TypeOK, GoTo, PhaseOf, IsReturn
    <3>4. [k \in Key |-> IF idem'[k] \in Request THEN idem'[k] ELSE None]
            = [[k \in Key |-> IF idem[k] \in Request THEN idem[k] ELSE None]
                 EXCEPT ![cmd[r].key] = r]
      BY <1>a, <2>2, <3>2 DEF TypeOK
    <3>5. idem[cmd[r].key] \notin Request
      BY <2>2, DistinctAssumption
    <3>6. UNCHANGED Contract!effect
      BY <3>1, NothingOutside
    <3>7. Contract!Remember(r)
      BY <3>1, <3>2, <3>3, <3>4, <3>5, <3>6 DEF Contract!Remember
    <3> QED
      BY <1>0, <3>7
  <2> QED
    BY <1>8, <2>1, <2>2 DEF SaveRecord
<1>9. CASE WriteAudit(r)
  <2>1. CASE GoTo(r, "failed") /\ UNCHANGED audit
    BY <1>1, <1>9, <2>1 DEF WriteAudit
  <2>2. CASE IsReturn(r) /\ audit' = audit \cup {r} /\ GoTo(r, "answered")
    <3>1. stage[r] = "auditing" /\ UNCHANGED <<docs, sent, cmd, idem>>
      BY <1>9 DEF WriteAudit
    <3>2. Whole(r)'
      BY <1>a, <1>c, <3>1 DEF RequestInv, Written
    <3>3. Contract!Answer(r)
      BY <1>a, <1>d, <2>2, <3>1, <3>2 DEF Contract!Answer, Contract!End
    <3> QED
      BY <1>0, <3>3
  <2> QED
    BY <1>9, <2>1, <2>2 DEF WriteAudit
<1>10. CASE LateCall(r)
  <2>1. stage[r] = "failed" /\ UNCHANGED <<stage, cmd, idem, audit>>
    BY <1>10, <1>a DEF LateCall, RequestInv
  <2>2. PhaseOf(stage[r]) = "failed" /\ {q \in Request : IsReturn(q)'} = {q \in Request : IsReturn(q)}
    BY <2>1 DEF PhaseOf, IsReturn
  <2>3. Contract!Takes(r) => Contract!TakeEffect(r)
    BY <2>1, <2>2 DEF Contract!TakeEffect
  <2>4. UNCHANGED Contract!effect => UNCHANGED Contract!vars
    BY <2>1, <2>2 DEF Contract!vars, Contract!effect
  <2> QED
    BY <1>0, <1>a, <2>3, <2>4 DEF Contract!MayTake
<1>11. CASE CompareWithWinner(r)
  BY <1>1, <1>11 DEF CompareWithWinner
<1>12. CASE PurgeExpired(r)
  <2>1. CASE UNCHANGED idem
    BY <1>1, <1>12, <2>1 DEF PurgeExpired, Start
  <2>2. CASE idem' = [idem EXCEPT ![cmd[r].key] = None]
    <3>1. stage[r] \in {"purging", "repurging"} /\ UNCHANGED <<docs, sent, cmd, audit>>
      BY <1>12 DEF PurgeExpired
    <3>2. PICK k \in Key : k = cmd[r].key
      BY <1>a, <1>c, <3>1 DEF RequestInv, Storing
    <3>3. /\ [q \in Request |-> PhaseOf(stage'[q])] = [q \in Request |-> PhaseOf(stage[q])]
          /\ {q \in Request : IsReturn(q)'} = {q \in Request : IsReturn(q)}
      BY <1>12, <1>a DEF TypeOK, PurgeExpired, GoTo, PhaseOf, IsReturn, Start
    <3>4. [x \in Key |-> IF idem'[x] \in Request THEN idem'[x] ELSE None]
            = [[x \in Key |-> IF idem[x] \in Request THEN idem[x] ELSE None]
                 EXCEPT ![k] = None]
      BY <1>a, <2>2, <3>2, DistinctAssumption DEF TypeOK
    <3>5. UNCHANGED Contract!effect
      BY <3>1, NothingOutside
    <3>6. Contract!Forget(k)
      BY <3>1, <3>3, <3>4, <3>5 DEF Contract!Forget
    <3> QED
      BY <3>6 DEF Mapped, Contract!Next
  <2> QED
    BY <1>12, <2>1, <2>2 DEF PurgeExpired
<1> QED
  BY <1>2, <1>3, <1>4, <1>5, <1>6, <1>7, <1>8, <1>9, <1>10, <1>11, <1>12 DEF StepOf, ServerStep

\* At first nothing is begun; a record of another endpoint remembers none of these.
LEMMA InitContract == Init => Contract!Init
<1> SUFFICES ASSUME Init PROVE Contract!Init
  OBVIOUS
<1>1. ASSUME NEW r \in Request PROVE ~Begun(r) /\ ~Whole(r)
  BY <1>1 DEF Init, Begun, Whole
<1>2. \A k \in Key : idem[k] \notin Request
  BY DistinctAssumption DEF Init
<1> QED
  BY <1>1, <1>2 DEF Init, Contract!Init, PhaseOf, Ended

\* Every behaviour of the two endpoints is one the contract allows, whatever fails
\* half-way, arrives late or finds another's record under its key.
THEOREM KeyedWritesImplementContract == Spec => ImplementsContract
<1>1. IInv /\ [Next]_vars => [Contract!Next]_(Contract!vars)
  <2> SUFFICES ASSUME IInv, [Next]_vars PROVE [Contract!Next]_(Contract!vars)
    OBVIOUS
  <2>1. ASSUME NEW r \in Request, StepOf(r) PROVE [Contract!Next]_(Contract!vars)
    BY <2>1, RequestImplements
  <2>3. ASSUME NEW k \in Key, RecordExpires(k) PROVE UNCHANGED Contract!vars
    BY <2>3 DEF RecordExpires, outside, Contract!vars, Contract!effect, Begun, Whole, IsReturn
  <2>2. CASE UNCHANGED vars
    BY <2>2 DEF vars, Contract!vars, Contract!effect, Begun, Whole, IsReturn
  <2> QED
    BY <2>1, <2>2, <2>3 DEF Next, StepOf
<1> QED
  BY <1>1, InitContract, Invariance, PTL DEF Spec, ImplementsContract, Contract!Spec
=============================================================================
