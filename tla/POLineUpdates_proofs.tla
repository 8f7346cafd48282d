------------------------ MODULE POLineUpdates_proofs ------------------------
(***************************************************************************)
(* Theorems about POLineUpdates, for every set of requests, lines, keys    *)
(* and commands and every combination of failures.                         *)
(***************************************************************************)
EXTENDS POLineUpdates, TLAPS

\* Writing one attribute of a row gives a row.
LEMMA WithIsRow ==
  ASSUME NEW row \in Row, NEW f \in Attribute, NEW v \in Int
  PROVE  With(row, f, v) \in Row
BY DEF With, Row

\* A command's parts have the types its consumers rely on.
LEMMA CommandParts ==
  ASSUME TypeOK, NEW r \in Request
  PROVE  /\ cmd[r].line \in Line /\ cmd[r].field \in Attribute
         /\ cmd[r].value \in Int /\ cmd[r].key \in Key \cup {NoKey}
BY CommandAssumption DEF TypeOK, Attribute

\* A PATCH keeps the ERP's table a table of rows.
LEMMA PatchTypes ==
  ASSUME TypeOK, NEW r \in Request, ApplyPatch(r)
  PROVE  /\ erp' \in [Line -> Row]
         /\ replaced' \in [Request -> SUBSET Int]
<1>1. cmd[r].line \in Line /\ cmd[r].field \in Attribute /\ cmd[r].value \in Int
  BY CommandParts
<1>2. erp[cmd[r].line] \in Row
  BY <1>1 DEF TypeOK
<1>3. With(erp[cmd[r].line], cmd[r].field, cmd[r].value) \in Row
  BY <1>1, <1>2, WithIsRow
<1>4. erp' \in [Line -> Row]
  BY <1>1, <1>3 DEF ApplyPatch, TypeOK
<1>5. erp[cmd[r].line].data[cmd[r].field] \in Int
  BY <1>1, <1>2 DEF Row
<1>. QED
  BY <1>4, <1>5 DEF ApplyPatch, TypeOK

-----------------------------------------------------------------------------
(***************************************************************************)
(* Type correctness.  How far a request is (RequestInv) is needed: a step  *)
(* that stores a reply or the value that was seen must know there is one.  *)
(***************************************************************************)
LEMMA RequestStepTypes ==
  ASSUME TypeOK, \A o \in Request : RequestInv(o), NEW r \in Request,
         Arrive(r) \/ ServerStep(r) \/ DeliverLatePatch(r) \/ WorkerDies(r)
  PROVE  TypeOK'
<1> USE CommandParts DEF TypeOK, GoTo, Stage, worldVars, erpVars, dbVars
<1>. RequestInv(r)
  OBVIOUS
<1>1. CASE Arrive(r)
  BY <1>1 DEF Arrive
<1>2. CASE CheckIdempotency(r)
  BY <1>2 DEF CheckIdempotency, Found, Record, RequestInv, UsesKey, Keyed
<1>3. CASE PurgeExpired(r)
  BY <1>3 DEF PurgeExpired, RequestInv
<1>4. CASE FetchAndValidate(r)
  BY <1>4 DEF FetchAndValidate
<1>5. CASE FetchFails(r)
  BY <1>5 DEF FetchFails
<1>6. CASE PatchLine(r)
  BY <1>6, PatchTypes DEF PatchLine
<1>7. CASE PatchRefused(r)
  BY <1>7 DEF PatchRefused
<1>8. CASE PatchTimesOut(r)
  BY <1>8, PatchTypes DEF PatchTimesOut, MaxAttempts, RequestInv
<1>9. CASE ReadBack(r)
  BY <1>9 DEF ReadBack
<1>10. CASE ReadBackFails(r)
  BY <1>10 DEF ReadBackFails
<1>11. CASE SaveRecord(r)
  <2>1. reply[r] \in Row
    BY <1>11 DEF SaveRecord, RequestInv, Replied
  <2>2. [reply |-> reply[r], expired |-> FALSE, by |-> r] \in Record
    BY <2>1 DEF Record
  <2>3. idem' \in [Key -> Record \cup {None}]
    BY <1>11, <2>2 DEF SaveRecord
  <2>. QED  BY <1>11, <2>3 DEF SaveRecord
<1>12. CASE SaveFails(r)
  BY <1>12 DEF SaveFails
<1>13. CASE CompareWithWinner(r)
  BY <1>13 DEF CompareWithWinner
<1>14. CASE WriteAudit(r)
  BY <1>14 DEF WriteAudit, AuditRow, Row, RequestInv, Patched, Replied, Validated
<1>15. CASE AuditFails(r)
  BY <1>15 DEF AuditFails
<1>16. CASE DeliverLatePatch(r)
  BY <1>16, PatchTypes DEF DeliverLatePatch, MaxAttempts
<1>17. CASE WorkerDies(r)
  BY <1>17 DEF WorkerDies
<1>. QED
  BY <1>1, <1>2, <1>3, <1>4, <1>5, <1>6, <1>7, <1>8, <1>9, <1>10, <1>11,
     <1>12, <1>13, <1>14, <1>15, <1>16, <1>17 DEF ServerStep
-----------------------------------------------------------------------------
(***************************************************************************)
(* The steps of a request preserve RequestInv: its own because each stage  *)
(* is entered with what the next ones rely on, the others' because a step  *)
(* touches its own request only.                                           *)
(***************************************************************************)
\* A PATCH that takes effect leaves its request with something replaced.
LEMMA PatchTakes ==
  ASSUME TypeOK, NEW r \in Request, ApplyPatch(r)
  PROVE  /\ replaced'[r] # {}
         /\ \A o \in Request : o # r => replaced'[o] = replaced[o]
BY DEF ApplyPatch, TypeOK

\* Validation lets through only what the rules accept.
LEMMA AllowedIsRulesHold ==
  ASSUME NEW c \in Command, NEW row \in Row, Allowed(c, row)
  PROVE  RulesHold(c, row)
BY CommandAssumption DEF Allowed, DateAllowed, PriceAllowed, QuantityAllowed, RulesHold, Field

\* The rules read what no PATCH writes: the line's status, the date it was ordered
\* and what has been received of it.  So they outlive the PATCHes of the others.
LEMMA PatchKeepsRules ==
  ASSUME TypeOK, NEW r \in Request, ApplyPatch(r), today' = today, cmd' = cmd,
         NEW o \in Request, IsLegal(o)
  PROVE  IsLegal(o)'
<1>1. /\ cmd[o].line \in Line /\ cmd[r].line \in Line /\ cmd[r].field \in Field
      /\ erp[cmd[o].line] \in Row
  BY CommandParts, CommandAssumption DEF TypeOK
<1>2. CASE cmd[o].line # cmd[r].line
  <2>1. erp'[cmd[o].line] = erp[cmd[o].line]
    BY <1>1, <1>2 DEF ApplyPatch, TypeOK
  <2>. QED  BY <2>1 DEF IsLegal, RulesHold
<1>3. CASE cmd[o].line = cmd[r].line
  <2>1. erp'[cmd[o].line] = With(erp[cmd[o].line], cmd[r].field, cmd[r].value)
    BY <1>1, <1>3 DEF ApplyPatch, TypeOK
  <2>2. /\ erp'[cmd[o].line].status = erp[cmd[o].line].status
        /\ erp'[cmd[o].line].data["order_date"] = erp[cmd[o].line].data["order_date"]
        /\ erp'[cmd[o].line].data["quantity_received"]
             = erp[cmd[o].line].data["quantity_received"]
    BY <1>1, <2>1 DEF With, Row, Attribute, Field
  <2>. QED  BY <2>2 DEF IsLegal, RulesHold
<1>. QED  BY <1>2, <1>3

\* What the steps of one request do to the records of all.
LEMMA RequestStepInv ==
  ASSUME TypeOK, \A o \in Request : RequestInv(o), NEW r \in Request,
         Arrive(r) \/ ServerStep(r) \/ DeliverLatePatch(r) \/ WorkerDies(r)
  PROVE  \A o \in Request : RequestInv(o)'
<1> SUFFICES ASSUME NEW o \in Request PROVE RequestInv(o)'
  OBVIOUS
<1>. RequestInv(o) /\ RequestInv(r)
  OBVIOUS
<1>0. IsLegal(o) => IsLegal(o)'
  <2>1. UNCHANGED <<today, cmd>> /\ (erp' = erp \/ ApplyPatch(r))
    BY DEF Arrive, ServerStep, DeliverLatePatch, WorkerDies, CheckIdempotency,
       PurgeExpired, FetchAndValidate, FetchFails, PatchLine, PatchRefused, PatchTimesOut,
       ReadBack, ReadBackFails, SaveRecord, SaveFails, CompareWithWinner, WriteAudit,
       AuditFails, worldVars, erpVars
  <2>2. UNCHANGED <<today, cmd, erp>> => IsLegal(o)' = IsLegal(o)
    BY DEF IsLegal, RulesHold
  <2>. QED  BY <2>1, <2>2, PatchKeepsRules
<1> USE <1>0 DEF TypeOK, GoTo, worldVars, erpVars, dbVars, RequestInv, Took, Keyed,
            Unpatched, Replied, Patched, UsesKey, Ended, Validated
<1>1. CASE Arrive(r)
  BY <1>1 DEF Arrive
<1>2. CASE CheckIdempotency(r)
  <2>1. Found(cmd[r].key) => idem[cmd[r].key].reply \in Row
    BY <1>2, CommandParts DEF CheckIdempotency, Found, Record
  <2>. QED  BY <1>2, <2>1, DistinctAssumption DEF CheckIdempotency
<1>3. CASE PurgeExpired(r)
  BY <1>3 DEF PurgeExpired
<1>4. CASE FetchAndValidate(r)
  <2>1. erp[cmd[r].line] \in Row
    BY CommandParts
  <2>2. seen'[r] = erp[cmd[r].line] /\ seen'[r] # None
    BY <1>4, <2>1, DistinctAssumption DEF FetchAndValidate
  <2>3. stage'[r] = "updating" => IsLegal(r)'
    <3>1. stage'[r] = "updating" => IsLegal(r)
      BY <1>4, <2>1, AllowedIsRulesHold DEF FetchAndValidate, IsLegal
    <3>2. IsLegal(r)' = IsLegal(r)
      BY <1>4 DEF FetchAndValidate, IsLegal, RulesHold
    <3>. QED  BY <3>1, <3>2
  <2>. QED  BY <1>4, <2>2, <2>3 DEF FetchAndValidate, MaxAttempts
<1>5. CASE FetchFails(r)
  BY <1>5 DEF FetchFails
<1>6. CASE PatchLine(r)
  BY <1>6, PatchTakes DEF PatchLine
<1>7. CASE PatchRefused(r)
  BY <1>7 DEF PatchRefused
<1>8. CASE PatchTimesOut(r)
  BY <1>8, PatchTakes DEF PatchTimesOut, MaxAttempts
<1>9. CASE ReadBack(r)
  <2>1. erp[cmd[r].line] # None
    BY CommandParts, DistinctAssumption
  <2>. QED  BY <1>9, <2>1 DEF ReadBack
<1>10. CASE ReadBackFails(r)
  BY <1>10 DEF ReadBackFails
<1>11. CASE SaveRecord(r)
  BY <1>11 DEF SaveRecord
<1>12. CASE SaveFails(r)
  BY <1>12 DEF SaveFails
<1>13. CASE CompareWithWinner(r)
  BY <1>13 DEF CompareWithWinner
<1>14. CASE WriteAudit(r)
  BY <1>14 DEF WriteAudit
<1>15. CASE AuditFails(r)
  BY <1>15 DEF AuditFails
<1>16. CASE DeliverLatePatch(r)
  BY <1>16, PatchTakes DEF DeliverLatePatch
<1>17. CASE WorkerDies(r)
  BY <1>17 DEF WorkerDies
<1>. QED
  BY <1>1, <1>2, <1>3, <1>4, <1>5, <1>6, <1>7, <1>8, <1>9, <1>10, <1>11,
     <1>12, <1>13, <1>14, <1>15, <1>16, <1>17 DEF ServerStep
-----------------------------------------------------------------------------
(***************************************************************************)
(* The audit trail: only WriteAudit adds a row, in the step that answers,  *)
(* and an answered request does not move any more.                         *)
(***************************************************************************)
LEMMA RequestStepAudit ==
  ASSUME TypeOK, \A o \in Request : RequestInv(o), AuditInv, NEW r \in Request,
         Arrive(r) \/ ServerStep(r) \/ DeliverLatePatch(r) \/ WorkerDies(r)
  PROVE  AuditInv'
<1> USE DEF TypeOK, AuditRow, GoTo, worldVars, erpVars, dbVars, AuditInv, Ended
<1>1. CASE Arrive(r)
  BY <1>1 DEF Arrive
<1>2. CASE CheckIdempotency(r)
  BY <1>2 DEF CheckIdempotency
<1>3. CASE PurgeExpired(r)
  BY <1>3 DEF PurgeExpired
<1>4. CASE FetchAndValidate(r)
  BY <1>4 DEF FetchAndValidate
<1>5. CASE FetchFails(r)
  BY <1>5 DEF FetchFails
<1>6. CASE PatchLine(r)
  BY <1>6 DEF PatchLine
<1>7. CASE PatchRefused(r)
  BY <1>7 DEF PatchRefused
<1>8. CASE PatchTimesOut(r)
  BY <1>8 DEF PatchTimesOut
<1>9. CASE ReadBack(r)
  BY <1>9 DEF ReadBack
<1>10. CASE ReadBackFails(r)
  BY <1>10 DEF ReadBackFails
<1>11. CASE SaveRecord(r)
  BY <1>11 DEF SaveRecord
<1>12. CASE SaveFails(r)
  BY <1>12 DEF SaveFails
<1>13. CASE CompareWithWinner(r)
  BY <1>13 DEF CompareWithWinner
<1>14. CASE WriteAudit(r)
  <2>. DEFINE row == [req |-> r, previous |-> seen[r].data[cmd[r].field],
                      next |-> cmd[r].value]
  <2>1. /\ audit' = audit \cup {row}
        /\ stage' = [stage EXCEPT ![r] = "answered"] /\ stage[r] = "auditing"
        /\ seen' = seen /\ cmd' = cmd
    BY <1>14 DEF WriteAudit
  <2>2. \A a \in audit' : /\ stage'[a.req] = "answered"
                         /\ a.previous = seen'[a.req].data[cmd'[a.req].field]
                         /\ a.next = cmd'[a.req].value
    BY <2>1
  <2>3. ASSUME NEW o \in Request, stage'[o] = "answered"
        PROVE  \E a \in audit' : a.req = o
    <3>1. CASE o = r
      <4>1. row \in audit' /\ row.req = r
        BY <2>1
      <4>. QED  BY <3>1, <4>1
    <3>2. CASE o # r
      BY <2>1, <2>3, <3>2
    <3>. QED  BY <3>1, <3>2
  <2>. QED  BY <2>2, <2>3
<1>15. CASE AuditFails(r)
  BY <1>15 DEF AuditFails
<1>16. CASE DeliverLatePatch(r)
  BY <1>16 DEF DeliverLatePatch
<1>17. CASE WorkerDies(r)
  BY <1>17 DEF WorkerDies
<1>. QED
  BY <1>1, <1>2, <1>3, <1>4, <1>5, <1>6, <1>7, <1>8, <1>9, <1>10, <1>11,
     <1>12, <1>13, <1>14, <1>15, <1>16, <1>17 DEF ServerStep

-----------------------------------------------------------------------------
(***************************************************************************)
(* The idempotency table: a record is stored by a request that has had its *)
(* reply from the ERP, and that request keeps the reply for good.          *)
(***************************************************************************)
LEMMA PurgeStore ==
  ASSUME TypeOK, NEW r \in Request, RequestInv(r), StoreInv, PurgeExpired(r)
  PROVE  StoreInv'
<1>1. /\ cmd' = cmd /\ reply' = reply /\ replaced' = replaced
      /\ \A o \in Request : stage[o] \in Settled => stage'[o] \in Settled
      /\ \A o \in Request : stage'[o] = "replayed" => stage[o] = "replayed"
  BY DEF PurgeExpired, GoTo, worldVars, erpVars, TypeOK, Settled
<1>2. cmd[r].key \in Key
  BY CommandParts DEF PurgeExpired, RequestInv, UsesKey, Keyed
<1>3. \A k \in Key : idem'[k] # None => idem[k] # None /\ idem'[k] = idem[k]
  BY <1>2 DEF PurgeExpired, TypeOK
<1>4. \A o \in Request, k \in Key \cup {NoKey} : Author(o, k) => Author(o, k)'
  BY <1>1 DEF Author, Took
<1>5. ASSUME NEW k \in Key, idem'[k] # None
      PROVE  Author(idem[k].by, k)' /\ reply'[idem'[k].by] = idem'[k].reply
  <2>1. idem'[k] = idem[k] /\ Author(idem[k].by, k) /\ reply[idem[k].by] = idem[k].reply
    BY <1>3, <1>5 DEF StoreInv
  <2>2. idem[k].by \in Request
    BY <1>3, <1>5 DEF TypeOK, Record
  <2>. QED  BY <1>1, <1>4, <2>1, <2>2 DEF Author, Took
<1>6. ASSUME NEW q \in Request, stage'[q] = "replayed"
      PROVE  \E o \in Request : Author(o, cmd[q].key)' /\ reply'[o] = reply'[q]
  <2>1. PICK o \in Request : Author(o, cmd[q].key) /\ reply[o] = reply[q]
    BY <1>1, <1>6 DEF StoreInv
  <2>2. cmd[q].key \in Key \cup {NoKey}
    BY CommandParts
  <2>. QED  BY <1>1, <2>1, <2>2 DEF Author, Took
<1>. QED  BY <1>1, <1>5, <1>6 DEF StoreInv, Author, Took

\* A request that finds a record has the reply of the record's author.
LEMMA CheckStore ==
  ASSUME TypeOK, NEW r \in Request, RequestInv(r), StoreInv, CheckIdempotency(r)
  PROVE  StoreInv'
<1>. DEFINE k == cmd[r].key
           StillAuthor(o, n) == /\ cmd'[o].key = n /\ stage'[o] \in Settled
                                /\ replaced'[o] # {} /\ reply'[o] = reply[o]
<1>1. k \in Key
  BY CommandParts DEF CheckIdempotency, RequestInv, UsesKey, Keyed
<1>2. /\ stage[r] = "checking"
      /\ UNCHANGED <<cmd, replaced, idem>>
      /\ \E s \in {"replayed", "purging", "fetching"} : stage' = [stage EXCEPT ![r] = s]
  BY DEF CheckIdempotency, GoTo, worldVars, erpVars, dbVars
<1>3. \/ reply' = reply /\ stage'[r] # "replayed"
      \/ idem[k] # None /\ reply' = [reply EXCEPT ![r] = idem[k].reply]
  BY DEF CheckIdempotency, Found, GoTo, TypeOK
<1>4. \A o \in Request, n \in Key \cup {NoKey} :
        Author(o, n) => StillAuthor(o, n)
  <2>. SUFFICES ASSUME NEW o \in Request, NEW n \in Key \cup {NoKey}, Author(o, n)
                PROVE  StillAuthor(o, n)
    OBVIOUS
  <2>1. o # r
    BY <1>2 DEF Author, Settled
  <2>. QED  BY <1>2, <1>3, <2>1 DEF Author, Took, TypeOK
<1>5. ASSUME NEW n \in Key, idem'[n] # None
      PROVE  StillAuthor(idem'[n].by, n) /\ reply'[idem'[n].by] = idem'[n].reply
  <2>1. idem'[n] = idem[n] /\ Author(idem[n].by, n) /\ reply[idem[n].by] = idem[n].reply
    BY <1>2, <1>5 DEF StoreInv
  <2>2. idem[n].by \in Request
    BY <1>2, <1>5 DEF TypeOK, Record
  <2>. QED  BY <1>4, <2>1, <2>2
<1>6. ASSUME NEW q \in Request, stage'[q] = "replayed"
      PROVE  \E o \in Request : StillAuthor(o, cmd[q].key) /\ reply'[o] = reply'[q]
  <2>1. CASE q = r
    <3>1. idem[k] # None /\ reply'[r] = idem[k].reply
      BY <1>3, <1>6, <2>1 DEF TypeOK
    <3>2. Author(idem[k].by, k) /\ reply[idem[k].by] = idem[k].reply
      BY <1>1, <3>1 DEF StoreInv
    <3>3. idem[k].by \in Request
      BY <1>1, <3>1 DEF TypeOK, Record
    <3>4. StillAuthor(idem[k].by, k)
      BY <1>1, <1>4, <3>2, <3>3
    <3>. QED  BY <2>1, <3>1, <3>2, <3>3, <3>4
  <2>2. CASE q # r
    <3>1. stage[q] = "replayed" /\ reply'[q] = reply[q]
      BY <1>2, <1>3, <1>6, <2>2 DEF TypeOK
    <3>2. PICK o \in Request : Author(o, cmd[q].key) /\ reply[o] = reply[q]
      BY <3>1 DEF StoreInv
    <3>3. cmd[q].key \in Key \cup {NoKey}
      BY CommandParts
    <3>4. StillAuthor(o, cmd[q].key)
      BY <1>4, <3>2, <3>3
    <3>. QED  BY <3>1, <3>2, <3>4
  <2>. QED  BY <2>1, <2>2
<1>. QED  BY <1>2, <1>5, <1>6 DEF StoreInv, Author, Took

\* What the steps of one request do to the two tables.
LEMMA RequestStepStore ==
  ASSUME TypeOK, \A o \in Request : RequestInv(o), StoreInv, NEW r \in Request,
         Arrive(r) \/ ServerStep(r) \/ DeliverLatePatch(r) \/ WorkerDies(r)
  PROVE  StoreInv'
<1>. RequestInv(r)
  OBVIOUS
<1> USE CommandParts DEF TypeOK, Record, GoTo, worldVars, erpVars, dbVars, StoreInv, Author,
            Settled, Took, Ended
<1>1. CASE Arrive(r)
  BY <1>1 DEF Arrive
<1>2. CASE CheckIdempotency(r)
  BY <1>2, CheckStore
<1>3. CASE PurgeExpired(r)
  BY <1>3, PurgeStore
<1>4. CASE FetchAndValidate(r)
  BY <1>4 DEF FetchAndValidate
<1>5. CASE FetchFails(r)
  BY <1>5 DEF FetchFails
<1>6. CASE PatchLine(r)
  BY <1>6, PatchTakes DEF PatchLine
<1>7. CASE PatchRefused(r)
  BY <1>7 DEF PatchRefused
<1>8. CASE PatchTimesOut(r)
  BY <1>8, PatchTakes DEF PatchTimesOut
<1>9. CASE ReadBack(r)
  BY <1>9 DEF ReadBack
<1>10. CASE ReadBackFails(r)
  BY <1>10 DEF ReadBackFails
<1>11. CASE SaveRecord(r)
  BY <1>11 DEF SaveRecord, RequestInv, UsesKey, Keyed, Replied, Patched
<1>12. CASE SaveFails(r)
  BY <1>12 DEF SaveFails
<1>13. CASE CompareWithWinner(r)
  <2>1. /\ stage[r] = "comparing" /\ UNCHANGED <<cmd, idem, reply, replaced>>
        /\ \E s \in {"failed", "auditing", "repurging"} : stage' = [stage EXCEPT ![r] = s]
    BY <1>13 DEF CompareWithWinner
  <2>. QED  BY <2>1
<1>14. CASE WriteAudit(r)
  BY <1>14 DEF WriteAudit
<1>15. CASE AuditFails(r)
  BY <1>15 DEF AuditFails
<1>16. CASE DeliverLatePatch(r)
  BY <1>16, PatchTakes DEF DeliverLatePatch
<1>17. CASE WorkerDies(r)
  BY <1>17 DEF WorkerDies
<1>. QED
  BY <1>1, <1>2, <1>3, <1>4, <1>5, <1>6, <1>7, <1>8, <1>9, <1>10, <1>11,
     <1>12, <1>13, <1>14, <1>15, <1>16, <1>17 DEF ServerStep
-----------------------------------------------------------------------------
(***************************************************************************)
(* The environment: a record ages, the day changes, people edit lines.     *)
(***************************************************************************)
LEMMA EnvironmentStep ==
  ASSUME IInv, (\E k \in Key : RecordExpires(k)) \/ Midnight \/ \E l \in Line : ErpEdit(l)
  PROVE  IInv'
<1>1. ASSUME NEW k \in Key, RecordExpires(k) PROVE IInv'
  <2>. USE <1>1 DEF IInv, RecordExpires, worldVars, erpVars, TypeOK, Record
  <2>1. TypeOK'
    OBVIOUS
  <2>2. (\A r \in Request : RequestInv(r))'
    BY DEF RequestInv, Took, Keyed, Validated, IsLegal, RulesHold
  <2>3. AuditInv'
    BY DEF AuditInv
  <2>4. StoreInv'
    BY DEF StoreInv, Author, Took
  <2>. QED  BY <2>1, <2>2, <2>3, <2>4
<1>2. CASE Midnight
  <2>. USE <1>2 DEF Midnight, IInv, TypeOK, erpVars, dbVars
  <2>1. TypeOK' /\ AuditInv' /\ StoreInv'
    BY DEF AuditInv, StoreInv, Author, Took
  <2>2. ASSUME NEW r \in Request PROVE RequestInv(r)'
    <3>1. RequestInv(r)
      OBVIOUS
    <3>2. cmd[r].field # "promise_date" => IsLegal(r)' = IsLegal(r)
      BY DEF IsLegal, RulesHold
    <3>. QED  BY <3>1, <3>2 DEF RequestInv, Took, Keyed, Validated
  <2>. QED  BY <2>1, <2>2
<1>3. ASSUME NEW l \in Line, ErpEdit(l) PROVE IInv'
  <2>. USE <1>3 DEF IInv, ErpEdit, dbVars, TypeOK
  <2>1. erp[l] \in Row
    OBVIOUS
  <2>2. /\ \A s \in Status : [status |-> s, data |-> erp[l].data] \in Row
        /\ With(erp[l], "quantity_received", erp[l].data["quantity_received"] + 1) \in Row
    BY <2>1 DEF Row, With, Attribute
  <2>3. TypeOK'
    BY <2>2, ValueAssumption
  <2>4. ASSUME NEW r \in Request PROVE RequestInv(r)'
    <3>1. RequestInv(r) /\ cmd' = cmd /\ today' = today
      OBVIOUS
    <3>2. CASE cmd[r].line = l
      BY <3>1, <3>2 DEF RequestInv, Took, Keyed, Validated
    <3>3. CASE cmd[r].line # l
      <4>1. erp'[cmd[r].line] = erp[cmd[r].line]
        BY <3>3, CommandParts
      <4>2. IsLegal(r)' = IsLegal(r)
        BY <3>1, <4>1 DEF IsLegal, RulesHold
      <4>. QED  BY <3>1, <4>2 DEF RequestInv, Took, Keyed, Validated
    <3>. QED  BY <3>2, <3>3
  <2>5. AuditInv' /\ StoreInv'
    BY DEF AuditInv, StoreInv, Author, Took
  <2>. QED  BY <2>3, <2>4, <2>5
<1>. QED
  BY <1>1, <1>2, <1>3

-----------------------------------------------------------------------------
(***************************************************************************)
(* The invariant and what follows from it.                                 *)
(***************************************************************************)
LEMMA InitInv == Init => IInv
<1> SUFFICES ASSUME Init PROVE IInv
  OBVIOUS
<1>1. TypeOK
  BY ValueAssumption DEF Init, TypeOK, Stage, MaxAttempts
<1>2. \A r \in Request : RequestInv(r)
  BY DEF Init, RequestInv, Took, Patched, Replied, UsesKey
<1>3. AuditInv /\ StoreInv
  BY DEF Init, AuditInv, StoreInv
<1>. QED
  BY <1>1, <1>2, <1>3 DEF IInv

\* Every step preserves the inductive invariant.
LEMMA NextInv == IInv /\ [Next]_vars => IInv'
<1> SUFFICES ASSUME IInv, [Next]_vars PROVE IInv'
  OBVIOUS
<1>1. ASSUME NEW r \in Request,
             Arrive(r) \/ ServerStep(r) \/ DeliverLatePatch(r) \/ WorkerDies(r)
      PROVE  IInv'
  BY <1>1, RequestStepTypes, RequestStepInv, RequestStepAudit, RequestStepStore
     DEF IInv
<1>2. CASE UNCHANGED vars
  BY <1>2 DEF vars, IInv, TypeOK, RequestInv, Took, Keyed, Validated, IsLegal,
              RulesHold, AuditInv, StoreInv, Author
<1>. QED
  BY <1>1, <1>2, EnvironmentStep DEF Next

\* The inductive invariant holds in every state of every behaviour.
THEOREM Invariance == Spec => []IInv
BY InitInv, NextInv, PTL DEF Spec

\* Every variable keeps its type.
THEOREM TypeCorrect == Spec => []TypeOK
<1>1. IInv => TypeOK
  BY DEF IInv
<1>. QED  BY <1>1, Invariance, PTL

\* The audit trail names only requests whose PATCH reached the ERP, each once,
\* and every request that was answered from the ERP.
THEOREM AuditTrailSound == Spec => []AuditTrailIsSound
<1>1. IInv => AuditTrailIsSound
  BY DEF IInv, TypeOK, AuditRow, AuditInv, AuditTrailIsSound, RequestInv, Patched, Replied
<1>. QED  BY <1>1, Invariance, PTL

\* A refused or replayed request leaves nothing behind, in the ERP or in the
\* database.
THEOREM RefusalTraceless == Spec => []RefusalLeavesNoTrace
<1>1. IInv => RefusalLeavesNoTrace
  BY DEF IInv, TypeOK, AuditRow, Record, AuditInv, StoreInv, Author, Settled,
         RefusalLeavesNoTrace, RequestInv, Unpatched, Took
<1>. QED  BY <1>1, Invariance, PTL

\* No client is given a reply, fresh or replayed, that no ERP update under its
\* key produced.
THEOREM RepliesEarned == Spec => []ReplyWasEarned
<1>1. IInv => ReplyWasEarned
  BY DEF IInv, TypeOK, Record, StoreInv, Author, ReplyWasEarned, RequestInv,
         Patched, Replied, UsesKey, Keyed, SameKey
<1>. QED  BY <1>1, Invariance, PTL

\* Whenever a PATCH takes effect, be it long after its request is gone, the line it
\* changes obeys every rule of its handler, unless people at work in the ERP or
\* midnight have come between.
THEOREM PatchesLegal == Spec => PatchIsLegal
<1>1. IInv /\ [Next]_vars =>
        [\A r \in Request : PatchLine(r) \/ DeliverLatePatch(r) =>
           r \in overtaken \/ IsLegal(r)]_vars
  BY DEF IInv, RequestInv, PatchLine, DeliverLatePatch
<1>. QED  BY <1>1, Invariance, PTL DEF Spec, PatchIsLegal

\* A stored reply is never overwritten by another.
THEOREM StoredReplyStable == Spec => StoredReplyIsStable
<1>. DEFINE Stable == \A k \in Key : idem[k] # None /\ idem'[k] # None =>
                        idem'[k].reply = idem[k].reply /\ idem'[k].by = idem[k].by
<1>1. IInv /\ [Next]_vars => [Stable]_vars
  <2> SUFFICES ASSUME IInv, Next PROVE Stable
    OBVIOUS
  <2>1. TypeOK
    BY DEF IInv
  <2>2. ASSUME NEW r \in Request, Arrive(r) \/ ServerStep(r) \/ DeliverLatePatch(r) \/ WorkerDies(r)
        PROVE  Stable
    <3>1. idem' = idem \/ PurgeExpired(r) \/ SaveRecord(r)
      BY <2>2 DEF Arrive, ServerStep, DeliverLatePatch, WorkerDies, CheckIdempotency,
           FetchAndValidate, FetchFails, PatchLine, PatchRefused, PatchTimesOut,
           ReadBack, ReadBackFails, SaveFails, CompareWithWinner, WriteAudit,
           AuditFails, dbVars
    <3>. QED  BY <2>1, <3>1 DEF PurgeExpired, SaveRecord, TypeOK
  <2>3. ASSUME NEW k \in Key, RecordExpires(k) PROVE Stable
    BY <2>1, <2>3 DEF RecordExpires, TypeOK, Record
  <2>4. CASE Midnight \/ \E l \in Line : ErpEdit(l)
    BY <2>4 DEF Midnight, ErpEdit, dbVars
  <2>. QED  BY <2>2, <2>3, <2>4 DEF Next
<1>. QED  BY <1>1, Invariance, PTL DEF Spec, StoredReplyIsStable
-----------------------------------------------------------------------------
(***************************************************************************)
(* The steps of a request run out.                                         *)
(***************************************************************************)
\* The stages are left in their order.
LEMMA StageOrder ==
  /\ StepsAfter("idle") = 10 /\ StepsAfter("checking") = 9 /\ StepsAfter("purging") = 8
  /\ StepsAfter("fetching") = 7 /\ StepsAfter("updating") = 6 /\ StepsAfter("reading") = 5
  /\ StepsAfter("saving") = 4 /\ StepsAfter("comparing") = 3
  /\ StepsAfter("repurging") = 2 /\ StepsAfter("auditing") = 1
  /\ \A s \in Ended : StepsAfter(s) = 0
  /\ \A s \in Stage : StepsAfter(s) \in 0..10
BY DEF StepsAfter, Ended, Stage

\* A step of the service uses up one of its request's: it leaves a stage for a later
\* one, or counts an attempt.
LEMMA StepUsesUp ==
  ASSUME TypeOK, NEW r \in Request, RequestInv(r), ServerStep(r)
  PROVE  Left(r)' \in 0..Left(r) /\ Left(r)' # Left(r)
<1>. DEFINE later == /\ StepsAfter(stage'[r]) \in Nat /\ attempt' = attempt
                    /\ StepsAfter(stage'[r]) < StepsAfter(stage[r])
<1>1. attempt[r] \in 0..MaxAttempts /\ MaxAttempts \in Nat /\ stage[r] \in Stage
  BY DEF TypeOK, MaxAttempts
<1>2. ASSUME NEW s \in Stage, GoTo(r, s) PROVE stage'[r] = s
  BY <1>2 DEF GoTo, TypeOK
<1>3. CASE CheckIdempotency(r) \/ PurgeExpired(r) \/ FetchAndValidate(r) \/ FetchFails(r)
  <2>1. later
    BY <1>2, <1>3, StageOrder DEF CheckIdempotency, PurgeExpired, FetchAndValidate,
       FetchFails, Stage, Ended
  <2>. QED  BY <2>1, <1>1, StageOrder DEF Left
<1>4. CASE PatchLine(r) \/ PatchRefused(r) \/ ReadBack(r) \/ ReadBackFails(r)
  <2>1. later
    BY <1>2, <1>4, StageOrder DEF PatchLine, PatchRefused, ReadBack, ReadBackFails,
       Stage, Ended
  <2>. QED  BY <2>1, <1>1, StageOrder DEF Left
<1>5. CASE SaveRecord(r) \/ SaveFails(r) \/ CompareWithWinner(r) \/ WriteAudit(r) \/ AuditFails(r)
  <2>1. later
    BY <1>2, <1>5, StageOrder DEF SaveRecord, SaveFails, CompareWithWinner, WriteAudit,
       AuditFails, Stage, Ended
  <2>. QED  BY <2>1, <1>1, StageOrder DEF Left
<1>6. CASE PatchTimesOut(r)
  <2>1. attempt[r] < MaxAttempts /\ attempt'[r] = attempt[r] + 1
    BY <1>6 DEF PatchTimesOut, RequestInv, TypeOK
  <2>2. stage[r] = "updating" /\ stage'[r] \in {"updating", "failed"}
    BY <1>2, <1>6 DEF PatchTimesOut, Stage
  <2>. QED  BY <2>1, <2>2, <1>1, StageOrder DEF Left, Ended
<1>. QED  BY <1>3, <1>4, <1>5, <1>6 DEF ServerStep

\* No step of another request, of the ERP or of time gives a step back.
LEMMA OthersUseNothing ==
  ASSUME TypeOK, Next, NEW q \in Request, RequestInv(q)
  PROVE  Left(q)' \in 0..Left(q)
<1>1. attempt[q] \in 0..MaxAttempts /\ MaxAttempts \in Nat /\ stage[q] \in Stage
  BY DEF TypeOK, MaxAttempts
<1>2. Left(q) \in Nat
  BY <1>1, StageOrder DEF Left
<1>3. ASSUME NEW r \in Request, Arrive(r) \/ WorkerDies(r) PROVE Left(q)' \in 0..Left(q)
  <2>1. attempt' = attempt
    BY <1>3 DEF Arrive, WorkerDies
  <2>2. StepsAfter(stage'[q]) \in Nat /\ StepsAfter(stage'[q]) <= StepsAfter(stage[q])
    BY <1>3, <1>1, StageOrder DEF Arrive, WorkerDies, GoTo, TypeOK, Ended
  <2>. QED  BY <2>1, <2>2, <1>1, StageOrder DEF Left
<1>4. ASSUME NEW r \in Request, ServerStep(r), r # q PROVE Left(q)' = Left(q)
  BY <1>4 DEF ServerStep, CheckIdempotency, PurgeExpired, FetchAndValidate, FetchFails,
     PatchLine, PatchRefused, PatchTimesOut, ReadBack, ReadBackFails, SaveRecord,
     SaveFails, CompareWithWinner, WriteAudit, AuditFails, GoTo, TypeOK, Left
<1>5. CASE (\E r \in Request : DeliverLatePatch(r)) \/ (\E k \in Key : RecordExpires(k))
           \/ Midnight \/ \E l \in Line : ErpEdit(l)
  BY <1>5, <1>2 DEF DeliverLatePatch, RecordExpires, Midnight, ErpEdit, Left
<1>. QED  BY <1>2, <1>3, <1>4, <1>5, StepUsesUp DEF Next

\* Whatever the requests, the ERP and the failures do, a request has at most
\* MaxAttempts + 10 steps, and each one that the service takes is gone.
THEOREM StepsOfRequestsRunOut == Spec => StepsRunOut
<1>1. IInv /\ [Next]_vars =>
        [\A r \in Request : /\ Left(r)' \in 0..Left(r)
                            /\ ServerStep(r) => Left(r)' # Left(r)]_vars
  BY StepUsesUp, OthersUseNothing DEF IInv
<1>. QED  BY <1>1, Invariance, PTL DEF Spec, StepsRunOut
-----------------------------------------------------------------------------
(***************************************************************************)
(* The handlers implement the contract.                                    *)
(***************************************************************************)
\* A step of one request that ends it without touching the tables or the ERP.
LEMMA EndsRequest ==
  ASSUME TypeOK, NEW r \in Request, NEW s \in Stage, stage' = [stage EXCEPT ![r] = s],
         cmd' = cmd, idem' = idem, audit' = audit, replaced' = replaced,
         PhaseOf(stage[r]) = "open"
  PROVE  /\ PhaseOf(s) = "open" => UNCHANGED Contract!vars
         /\ PhaseOf(s) = "failed" => Contract!Fail(r)
         /\ PhaseOf(s) = "refused" /\ ~Took(r) => Contract!Refuse(r)
         /\ /\ PhaseOf(s) = "replayed" /\ ~Took(r)
            /\ cmd[r].key \in Key /\ idem[cmd[r].key] # None
            => Contract!Replay(r)
<1> USE DEF TypeOK
<1>1. [q \in Request |-> PhaseOf(stage'[q])]
        = [[q \in Request |-> PhaseOf(stage[q])] EXCEPT ![r] = PhaseOf(s)]
  OBVIOUS
<1>. DEFINE rest == /\ [q \in Request |-> cmd'[q].key] = [q \in Request |-> cmd[q].key]
                    /\ {q \in Request : Took(q)'} = {q \in Request : Took(q)}
                    /\ {q \in Request : \E a \in audit' : a.req = q}
                         = {q \in Request : \E a \in audit : a.req = q}
                    /\ [k \in Key |-> IF idem'[k] = None THEN None ELSE idem'[k].by]
                         = [k \in Key |-> IF idem[k] = None THEN None ELSE idem[k].by]
<1>2. rest
  BY DEF Took
<1>3. PhaseOf(s) = "open" => UNCHANGED Contract!vars
  BY <1>1, <1>2 DEF Contract!vars, Contract!effect
<1>4. PhaseOf(s) = "failed" => Contract!Fail(r)
  BY <1>1, <1>2 DEF Contract!Fail, Contract!End, Contract!MayTake, Contract!effect
<1>5. PhaseOf(s) = "refused" /\ ~Took(r) => Contract!Refuse(r)
  BY <1>1, <1>2 DEF Contract!Refuse, Contract!End, Contract!effect
<1>6. (/\ PhaseOf(s) = "replayed" /\ ~Took(r)
       /\ cmd[r].key \in Key /\ idem[cmd[r].key] # None)
      => Contract!Replay(r)
  <2>1. idem[cmd[r].key] # None /\ cmd[r].key \in Key => idem[cmd[r].key].by # None
    BY DistinctAssumption DEF Record
  <2>. QED  BY <1>1, <1>2, <2>1 DEF Contract!Replay, Contract!End, Contract!effect
<1>. QED  BY <1>3, <1>4, <1>5, <1>6
\* A PATCH that takes effect is the contract's TakeEffect, or nothing new.
LEMMA TakesEffect ==
  ASSUME TypeOK, NEW r \in Request, ApplyPatch(r), NEW s \in Stage,
         stage' = [stage EXCEPT ![r] = s], PhaseOf(s) = PhaseOf(stage[r]),
         cmd' = cmd, idem' = idem, audit' = audit,
         PhaseOf(stage[r]) \in {"open", "failed"} \/ Took(r)
  PROVE  Contract!TakeEffect(r) \/ UNCHANGED Contract!vars
<1> USE DEF TypeOK
<1>1. [q \in Request |-> PhaseOf(stage'[q])] = [q \in Request |-> PhaseOf(stage[q])]
  OBVIOUS
<1>2. {q \in Request : Took(q)'} = {q \in Request : Took(q)} \cup {r}
  BY PatchTakes DEF Took
<1>3. CASE PhaseOf(stage[r]) \in {"open", "failed"}
  BY <1>1, <1>2, <1>3 DEF Contract!TakeEffect, Contract!Takes
<1>4. CASE Took(r)
  BY <1>1, <1>2, <1>4 DEF Contract!vars, Contract!effect
<1>. QED  BY <1>3, <1>4

\* A row deleted is forgotten, a row inserted is remembered.
LEMMA RequestStepImplements ==
  ASSUME TypeOK, \A o \in Request : RequestInv(o), NEW r \in Request,
         Arrive(r) \/ ServerStep(r) \/ DeliverLatePatch(r) \/ WorkerDies(r)
  PROVE  [Contract!Next]_(Contract!vars)
<1>. RequestInv(r) /\ RequestInv(r)'
  BY RequestStepInv
<1>. DEFINE Mapped == Contract!Next \/ UNCHANGED Contract!vars
<1>0. /\ Contract!Fail(r) \/ Contract!Refuse(r) \/ Contract!Replay(r) => Mapped
      /\ Contract!TakeEffect(r) \/ Contract!Answer(r) \/ Contract!Remember(r) => Mapped
  BY DEF Contract!Next
<1> USE DEF GoTo, worldVars, erpVars, dbVars, PhaseOf, Stage
<1>1. ASSUME NEW s \in Stage, PhaseOf(stage[r]) = "open",
             PhaseOf(s) \in {"open", "failed"} \/ (s = "rejected" /\ ~Took(r)),
             GoTo(r, s), cmd' = cmd, UNCHANGED dbVars, replaced' = replaced
      PROVE  Mapped
  BY <1>0, <1>1, EndsRequest
<1>2. CASE Arrive(r)
  BY <1>1, <1>2 DEF Arrive
<1>3. CASE CheckIdempotency(r)
  <2>1. CASE stage'[r] = "replayed"
    <3>1. /\ stage[r] = "checking" /\ GoTo(r, "replayed") /\ Found(cmd[r].key)
          /\ cmd' = cmd /\ UNCHANGED dbVars /\ replaced' = replaced
      BY <1>3, <2>1 DEF CheckIdempotency, TypeOK
    <3>2. cmd[r].key \in Key /\ ~Took(r)
      BY <3>1, CommandParts DEF RequestInv, UsesKey, Unpatched, Keyed, Took
    <3>. QED  BY <1>0, <3>1, <3>2, EndsRequest DEF Found
  <2>2. CASE stage'[r] # "replayed"
    <3>1. /\ stage[r] = "checking" /\ (GoTo(r, "purging") \/ GoTo(r, "fetching"))
          /\ cmd' = cmd /\ UNCHANGED dbVars /\ replaced' = replaced
      BY <1>3, <2>2 DEF CheckIdempotency, TypeOK
    <3>. QED  BY <1>1, <3>1
  <2>. QED  BY <2>1, <2>2
<1>4. CASE PurgeExpired(r)
  <2>1. cmd[r].key \in Key
    BY <1>4, CommandParts DEF PurgeExpired, RequestInv, UsesKey, Keyed
  <2>2. CASE UNCHANGED idem
    BY <1>1, <1>4, <2>2 DEF PurgeExpired
  <2>3. CASE idem' = [idem EXCEPT ![cmd[r].key] = None]
    <3>1. [q \in Request |-> PhaseOf(stage'[q])] = [q \in Request |-> PhaseOf(stage[q])]
      BY <1>4 DEF PurgeExpired, TypeOK
    <3>2. [k \in Key |-> IF idem'[k] = None THEN None ELSE idem'[k].by]
            = [[k \in Key |-> IF idem[k] = None THEN None ELSE idem[k].by]
                 EXCEPT ![cmd[r].key] = None]
      BY <2>1, <2>3 DEF TypeOK
    <3>3. PICK k \in Key : k = cmd[r].key
      BY <2>1
    <3>4. Contract!Forget(k)
      BY <1>4, <3>1, <3>2, <3>3 DEF PurgeExpired, Contract!Forget, Contract!effect,
             Took
    <3>. QED  BY <3>4 DEF Contract!Next
  <2>. QED  BY <1>4, <2>2, <2>3 DEF PurgeExpired
<1>5. CASE FetchAndValidate(r)
  BY <1>1, <1>5 DEF FetchAndValidate, RequestInv, Unpatched, Took
<1>6. CASE PatchLine(r)
  BY <1>0, <1>6, TakesEffect DEF PatchLine
<1>7. CASE PatchTimesOut(r)
  BY <1>1, <1>7 DEF PatchTimesOut
<1>8. CASE DeliverLatePatch(r)
  <2>1. PhaseOf(stage[r]) \in {"open", "failed"} \/ Took(r)
    BY <1>8 DEF DeliverLatePatch, RequestInv, Unpatched, Patched, Replied, TypeOK
  <2>2. stage' = [stage EXCEPT ![r] = stage[r]] /\ stage[r] \in Stage
    BY <1>8 DEF DeliverLatePatch, TypeOK
  <2>. QED  BY <1>0, <1>8, <2>1, <2>2, TakesEffect DEF DeliverLatePatch
<1>9. CASE ReadBack(r)
  BY <1>1, <1>9 DEF ReadBack
<1>10. CASE SaveRecord(r)
  <2>1. cmd[r].key \in Key /\ Took(r)
    BY <1>10, CommandParts DEF SaveRecord, RequestInv, UsesKey, Keyed, Patched, Replied
  <2>2. CASE UNCHANGED idem
    BY <1>1, <1>10, <2>2 DEF SaveRecord
  <2>3. CASE idem' # idem
    <3>1. /\ idem[cmd[r].key] = None
          /\ idem' = [idem EXCEPT ![cmd[r].key] =
                        [reply |-> reply[r], expired |-> FALSE, by |-> r]]
      BY <1>10, <2>3 DEF SaveRecord
    <3>2. [reply |-> reply[r], expired |-> FALSE, by |-> r] # None
      <4>1. reply[r] \in Row
        BY <1>10 DEF SaveRecord, RequestInv, Replied, TypeOK
      <4>2. [reply |-> reply[r], expired |-> FALSE, by |-> r] \in Record
        BY <4>1 DEF Record
      <4>. QED  BY <4>2, DistinctAssumption
    <3>3. [k \in Key |-> IF idem'[k] = None THEN None ELSE idem'[k].by]
            = [[k \in Key |-> IF idem[k] = None THEN None ELSE idem[k].by]
                 EXCEPT ![cmd[r].key] = r]
      BY <2>1, <3>1, <3>2 DEF TypeOK
    <3>4. [q \in Request |-> PhaseOf(stage'[q])] = [q \in Request |-> PhaseOf(stage[q])]
      BY <1>10 DEF SaveRecord, TypeOK
    <3>5. PhaseOf(stage[r]) = "open"
      BY <1>10 DEF SaveRecord
    <3>6. Contract!Remember(r)
      BY <1>10, <2>1, <3>1, <3>3, <3>4, <3>5 DEF SaveRecord, Contract!Remember,
             Contract!effect, Took
    <3>. QED  BY <1>0, <3>6
  <2>. QED  BY <2>2, <2>3
<1>11. CASE CompareWithWinner(r)
  BY <1>1, <1>11 DEF CompareWithWinner
<1>12. CASE WriteAudit(r)
  <2>1. [q \in Request |-> PhaseOf(stage'[q])]
          = [[q \in Request |-> PhaseOf(stage[q])] EXCEPT ![r] = "answered"]
    BY <1>12 DEF WriteAudit, TypeOK
  <2>2. {q \in Request : \E a \in audit' : a.req = q}
          = {q \in Request : \E a \in audit : a.req = q} \cup {r}
    <3>. DEFINE row == [req |-> r, previous |-> seen[r].data[cmd[r].field],
                        next |-> cmd[r].value]
    <3>1. audit' = audit \cup {row} /\ row.req = r
      BY <1>12 DEF WriteAudit
    <3>. HIDE DEF row
    <3>. QED  BY <3>1
  <2>3. Took(r) /\ PhaseOf(stage[r]) = "open"
    BY <1>12 DEF WriteAudit, RequestInv, Patched, Replied
  <2>4. Contract!Answer(r)
    BY <1>12, <2>1, <2>2, <2>3 DEF WriteAudit, Contract!Answer,
           Contract!End, Contract!MayTake, Contract!effect, Took
  <2>. QED  BY <1>0, <2>4
<1>13. CASE FetchFails(r) \/ PatchRefused(r) \/ ReadBackFails(r) \/ SaveFails(r)
            \/ AuditFails(r)
  BY <1>1, <1>13 DEF FetchFails, PatchRefused, ReadBackFails, SaveFails, AuditFails
<1>14. CASE WorkerDies(r)
  <2>1. PhaseOf(stage[r]) = "open"
    BY <1>14 DEF WorkerDies, Ended, TypeOK
  <2>. QED  BY <1>1, <1>14, <2>1 DEF WorkerDies
<1>. QED
  BY <1>2, <1>3, <1>4, <1>5, <1>6, <1>7, <1>8, <1>9, <1>10, <1>11, <1>12,
     <1>13, <1>14 DEF ServerStep

\* Every behaviour of the handlers is one the contract allows.
THEOREM HandlersImplementContract == Spec => ImplementsContract
<1>1. Init => Contract!Init
  BY DEF Init, Contract!Init, PhaseOf, Took
<1>2. IInv /\ [Next]_vars => [Contract!Next]_(Contract!vars)
  <2> SUFFICES ASSUME IInv, [Next]_vars PROVE [Contract!Next]_(Contract!vars)
    OBVIOUS
  <2>1. ASSUME NEW r \in Request,
               Arrive(r) \/ ServerStep(r) \/ DeliverLatePatch(r) \/ WorkerDies(r)
        PROVE  [Contract!Next]_(Contract!vars)
    BY <2>1, RequestStepImplements DEF IInv
  <2>2. ASSUME NEW k \in Key, RecordExpires(k)
        PROVE  UNCHANGED Contract!vars
    <3>1. \A q \in Key : (IF idem'[q] = None THEN None ELSE idem'[q].by)
                          = (IF idem[q] = None THEN None ELSE idem[q].by)
      <4>. DEFINE old == idem[k]
      <4>1. /\ idem[k] # None /\ idem[k] \in Record
            /\ idem' = [idem EXCEPT ![k] = [idem[k] EXCEPT !.expired = TRUE]]
        BY <2>2 DEF RecordExpires, IInv, TypeOK
      <4>2. /\ [idem[k] EXCEPT !.expired = TRUE] \in Record
            /\ [idem[k] EXCEPT !.expired = TRUE].by = idem[k].by
        BY <4>1 DEF Record
      <4>. QED  BY <4>1, <4>2, DistinctAssumption DEF IInv, TypeOK
    <3>. QED  BY <2>2, <3>1 DEF RecordExpires, Contract!vars, Contract!effect, worldVars,
           erpVars, Took
  <2>3. CASE Midnight \/ (\E l \in Line : ErpEdit(l)) \/ UNCHANGED vars
    BY <2>3 DEF Midnight, ErpEdit, vars, dbVars, erpVars, Contract!vars, Contract!effect,
         Took
  <2>. QED  BY <2>1, <2>2, <2>3 DEF Next
<1>. QED  BY <1>1, <1>2, Invariance, PTL DEF Spec, ImplementsContract, Contract!Spec
=============================================================================
