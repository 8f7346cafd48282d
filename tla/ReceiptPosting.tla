--------------------------- MODULE ReceiptPosting ---------------------------
(***************************************************************************)
(* Posting a goods receipt on one purchase order: PurchasingService.       *)
(* create_receipt and ERPClient.create_receipt.  The client does not send  *)
(* the receipt: it edits the order's "quantity to receive" fields and its  *)
(* vendor shipment number in the ERP, one HTTP call each, and then asks    *)
(* the ERP to post whatever they hold, which a job of the ERP does later.  *)
(* Requests of several workers interleave between the calls.               *)
(*                                                                         *)
(* The lines are validated on rows read by the names of the ERP port.  The *)
(* adapter that is shipped hands out Business Central's own rows           *)
(* (erp_client.py:315), in which every one of them is missing:             *)
(* PortRows = FALSE.  Nor is a record stored or read as the code stands    *)
(* (audit.py:77,123): that is the case in which every access to the table  *)
(* fails, which Faults allows.                                             *)
(***************************************************************************)
EXTENDS Integers, Sequences, FiniteSets

CONSTANTS
  Request,           \* POST /purchase-orders/{po_id}/receipts
  Line,              \* the lines of the order
  Ref,               \* vendor shipment references
  Key, NoKey, None,
  Other,             \* a record of another endpoint under one of the keys
  Ordered,           \* the quantity ordered, by line
  Command,           \* the bodies clients send
  PortRows,          \* the ERP client's rows have the names the service reads
  Faults             \* the kinds of failure that may happen

FaultKind == {"erp", "job", "db", "expiry"}
Quantities == [Line -> Nat]

ASSUME OrderAssumption == Ordered \in Quantities
ASSUME CommandAssumption ==
  Command \subseteq [lines : Seq([line : Line, quantity : Nat \ {0}]),
                     refs : SUBSET Ref, delay : BOOLEAN, key : Key \cup {NoKey}]
ASSUME NonEmptyAssumption ==
  \A c \in Command : Len(c.lines) > 0 /\ IsFiniteSet(c.refs)
ASSUME SwitchAssumption == PortRows \in BOOLEAN /\ Faults \subseteq FaultKind
ASSUME DistinctAssumption == /\ NoKey \notin Key
                             /\ None \notin Request \cup Ref \cup {Other}
                             /\ Other \notin Request

VARIABLES
  received,   \* ERP: quantity received, by line
  toReceive,  \* ERP: quantity to receive, by line
  shipmentNo, \* ERP: the order's vendor shipment number
  closed,     \* ERP: the lines that are closed or cancelled
  job,        \* ERP: the job queue entry each request created
  receipts,   \* ERP: the posted receipts
  cmd,        \* the body of each request
  stage,      \* where each request is
  at,         \* the index in command.lines of its loop
  idem,       \* the idempotency table: the request whose reply is stored
  aged,       \* the keys whose record has outlived settings.idempotency_ttl_hours
  audit,      \* the requests with an audit row
  touched,    \* observation: the requests that wrote to the order
  owner       \* observation: the request whose writes alone the order carries

erpFields == <<toReceive, shipmentNo, touched, owner>>
erpLedger == <<received, job, receipts>>
keyVars == <<idem, aged>>
dbVars == <<keyVars, audit>>
vars == <<received, toReceive, shipmentNo, closed, job, receipts, cmd, stage, at,
          idem, aged, audit, touched, owner>>

Stage == {"idle", "checking", "purging", "validating", "zeroing", "shipping",
          "sending", "enqueueing", "verifying", "reading",
          "saving", "comparing", "repurging", "auditing",
          "answered", "replayed", "rejected", "failed"}
Ended == {"answered", "replayed", "rejected", "failed"}
Receipt == [no : Nat, by : Request, ref : Ref \cup {None}, lines : Quantities,
            alone : BOOLEAN]

TypeOK ==
  /\ received \in Quantities
  /\ toReceive \in Quantities
  /\ shipmentNo \in Ref \cup {None}
  /\ closed \subseteq Line
  /\ job \in [Request -> {"none", "queued", "posted", "failed"}]
  /\ receipts \subseteq Receipt
  /\ cmd \in [Request -> Command]
  /\ stage \in [Request -> Stage]
  /\ at \in [Request -> Nat \ {0}]
  /\ idem \in [Key -> Request \cup {Other, None}]
  /\ aged \subseteq Key
  /\ audit \subseteq Request
  /\ touched \subseteq Request
  /\ owner \in Request \cup {None}

Outstanding(l) == Ordered[l] - received[l]

Init ==
  /\ received = [l \in Line |-> 0]
  /\ toReceive = Ordered       \* what the ERP proposes until someone edits it
  /\ shipmentNo = None
  /\ closed = {}
  /\ job = [r \in Request |-> "none"]
  /\ receipts = {}
  /\ cmd \in [Request -> Command]
  /\ stage = [r \in Request |-> "idle"]
  /\ at = [r \in Request |-> 1]
  /\ idem \in [Key -> {Other, None}]
  /\ aged = {}
  /\ audit = {}
  /\ touched = {}
  /\ owner = None

GoTo(r, s) == stage' = [stage EXCEPT ![r] = s]
Current(r) == cmd[r].lines[at[r]]
LastLine(r) == at[r] = Len(cmd[r].lines)

-----------------------------------------------------------------------------
(***************************************************************************)
(* PurchasingService.create_receipt, up to the ERP call.                   *)
(***************************************************************************)
Arrive(r) ==
  /\ stage[r] = "idle"
  /\ GoTo(r, IF cmd[r].key # NoKey THEN "checking" ELSE "validating")
  /\ UNCHANGED <<erpFields, erpLedger, closed, cmd, at, dbVars>>

\* ReceiptDTO(**cached) fails on a reply of another endpoint.  A look at the table
\* that fails is taken for a key nobody has used.
CheckIdempotency(r) ==
  LET k == cmd[r].key IN
  /\ stage[r] = "checking"
  /\ \/ idem[k] = None /\ GoTo(r, "validating")
     \/ k \in aged /\ GoTo(r, "purging")
     \/ idem[k] = Other /\ k \notin aged /\ GoTo(r, "failed")
     \/ idem[k] \in Request /\ k \notin aged /\ GoTo(r, "replayed")
     \/ "db" \in Faults /\ GoTo(r, "validating")
  /\ UNCHANGED <<erpFields, erpLedger, closed, cmd, at, dbVars>>

\* The DELETE names only the key: it deletes what is stored under it by then.
PurgeExpired(r) ==
  LET k == cmd[r].key IN
  /\ \/ stage[r] = "purging" /\ GoTo(r, "validating")
     \/ stage[r] = "repurging" /\ GoTo(r, "auditing")
  /\ \/ idem' = [idem EXCEPT ![k] = None] /\ aged' = aged \ {k}
     \/ "db" \in Faults /\ UNCHANGED keyVars
  /\ UNCHANGED <<erpFields, erpLedger, closed, cmd, at, audit>>

\* .get(name, 0): a row without the names is one of which nothing is outstanding.
LineAllowed(r) ==
  /\ PortRows => Current(r).line \notin closed
  /\ Current(r).quantity <= IF PortRows THEN Outstanding(Current(r).line) ELSE 0

\* One get_poline and one _validate_receipt_line; after the last line, the
\* shipment references of the body must come down to one.
ValidateLine(r) ==
  /\ stage[r] = "validating"
  /\ \/ ~LineAllowed(r) /\ GoTo(r, "rejected") /\ UNCHANGED at
     \/ /\ LineAllowed(r) /\ ~LastLine(r)
        /\ at' = [at EXCEPT ![r] = @ + 1]
        /\ UNCHANGED stage
     \/ /\ LineAllowed(r) /\ LastLine(r)
        /\ at' = [at EXCEPT ![r] = 1]
        /\ GoTo(r, IF Cardinality(cmd[r].refs) = 1 THEN "zeroing" ELSE "rejected")
  /\ UNCHANGED <<erpFields, erpLedger, closed, cmd, dbVars>>

-----------------------------------------------------------------------------
(***************************************************************************)
(* ERPClient.create_receipt.  A call whose answer is lost ends the request *)
(* whether or not the ERP has done what it was asked; nothing is retried   *)
(* or undone.                                                              *)
(***************************************************************************)
Answer(r, next) ==
  \/ GoTo(r, next)
  \/ "erp" \in Faults /\ GoTo(r, "failed")

Touch(r) ==
  /\ touched' = touched \cup {r}
  /\ owner' = IF owner = r THEN r ELSE None

\* Mutant of SetToZero: the fields keep what they hold.
SkipZero(r) ==
  /\ stage[r] = "zeroing"
  /\ touched' = touched \cup {r} /\ owner' = r
  /\ Answer(r, "shipping")
  /\ UNCHANGED <<toReceive, shipmentNo, erpLedger, closed, cmd, at, dbVars>>

SetToZero(r) ==
  /\ stage[r] = "zeroing"
  /\ toReceive' = [l \in Line |-> 0]
  /\ touched' = touched \cup {r} /\ owner' = r
  /\ Answer(r, "shipping")
  /\ UNCHANGED <<shipmentNo, erpLedger, closed, cmd, at, dbVars>>

UpdateVendShipNo(r) ==
  /\ stage[r] = "shipping"
  /\ shipmentNo' \in cmd[r].refs
  /\ Touch(r)
  /\ Answer(r, "sending")
  /\ UNCHANGED <<toReceive, erpLedger, closed, cmd, at, dbVars>>

\* Mutant of UpdateToReceiveLine: what is received already is subtracted.
SendDifference(r) ==
  LET l == Current(r).line IN
  /\ stage[r] = "sending"
  /\ toReceive' = [toReceive EXCEPT ![l] = Current(r).quantity - received[l]]
  /\ Touch(r)
  /\ \/ ~LastLine(r) /\ at' = [at EXCEPT ![r] = @ + 1] /\ Answer(r, "sending")
     \/ LastLine(r) /\ UNCHANGED at /\ Answer(r, "enqueueing")
  /\ UNCHANGED <<shipmentNo, erpLedger, closed, cmd, dbVars>>

\* Mutant of UpdateToReceiveLine: a line is validated when it is sent.
SendOrReject(r) ==
  /\ stage[r] = "sending"
  /\ toReceive' = [toReceive EXCEPT ![Current(r).line] = Current(r).quantity]
  /\ Touch(r)
  /\ \/ ~LineAllowed(r) /\ UNCHANGED at /\ GoTo(r, "rejected")
     \/ LineAllowed(r) /\ UNCHANGED at /\ Answer(r, "enqueueing")
  /\ UNCHANGED <<shipmentNo, erpLedger, closed, cmd, dbVars>>

UpdateToReceiveLine(r) ==
  /\ stage[r] = "sending"
  /\ toReceive' = [toReceive EXCEPT ![Current(r).line] = Current(r).quantity]
  /\ Touch(r)
  /\ \/ ~LastLine(r) /\ at' = [at EXCEPT ![r] = @ + 1] /\ Answer(r, "sending")
     \/ LastLine(r) /\ UNCHANGED at /\ Answer(r, "enqueueing")
  /\ UNCHANGED <<shipmentNo, erpLedger, closed, cmd, dbVars>>

\* Mutant of ReceiveMaterial: the call is sent again when its answer is lost.
RetryReceiveMaterial(r) ==
  /\ stage[r] = "enqueueing"
  /\ job' = [job EXCEPT ![r] = "queued"]
  /\ \/ GoTo(r, "reading")
     \/ "erp" \in Faults /\ UNCHANGED stage
  /\ UNCHANGED <<erpFields, received, receipts, closed, cmd, at, dbVars>>

\* The job is checked once, after a delay, unless the delay is 0 or the ERP
\* gave no entry id.
ReceiveMaterial(r) ==
  /\ stage[r] = "enqueueing"
  /\ job' = [job EXCEPT ![r] = "queued"]
  /\ \/ cmd[r].delay /\ Answer(r, "verifying")
     \/ Answer(r, "reading")
  /\ UNCHANGED <<erpFields, received, receipts, closed, cmd, at, dbVars>>

\* Mutant of CheckForError: it polls until the job has run.
PollJob(r) ==
  /\ stage[r] = "verifying" /\ job[r] # "queued"
  /\ IF job[r] = "failed" THEN GoTo(r, "failed") ELSE Answer(r, "reading")
  /\ UNCHANGED <<erpFields, erpLedger, closed, cmd, at, dbVars>>

CheckForError(r) ==
  /\ stage[r] = "verifying"
  /\ IF job[r] = "failed" THEN GoTo(r, "failed") ELSE Answer(r, "reading")
  /\ UNCHANGED <<erpFields, erpLedger, closed, cmd, at, dbVars>>

GetPurchaseOrder(r) ==
  /\ stage[r] = "reading"
  /\ Answer(r, IF cmd[r].key # NoKey THEN "saving" ELSE "auditing")
  /\ UNCHANGED <<erpFields, erpLedger, closed, cmd, at, dbVars>>

CallIsLost(r) ==
  /\ "erp" \in Faults
  /\ stage[r] \in {"validating", "zeroing", "shipping", "sending", "enqueueing"}
  /\ GoTo(r, "failed")
  /\ UNCHANGED <<erpFields, erpLedger, closed, cmd, at, dbVars>>

-----------------------------------------------------------------------------
(***************************************************************************)
(* Back in the service: the idempotency record, then the audit row.        *)
(***************************************************************************)
SaveRecord(r) ==
  LET k == cmd[r].key IN
  /\ stage[r] = "saving"
  /\ \/ /\ idem[k] = None
        /\ idem' = [idem EXCEPT ![k] = r] /\ UNCHANGED aged
        /\ GoTo(r, "auditing")
     \/ idem[k] # None /\ GoTo(r, "comparing") /\ UNCHANGED keyVars
     \/ "db" \in Faults /\ GoTo(r, "failed") /\ UNCHANGED keyVars   \* or TypeError
  /\ UNCHANGED <<erpFields, erpLedger, closed, cmd, at, audit>>

\* IntegrityError: the record that won is read again.  No two replies are equal,
\* each has its created_at; a record that cannot be read, or is gone, is no error.
CompareWithWinner(r) ==
  LET k == cmd[r].key IN
  /\ stage[r] = "comparing"
  /\ \/ idem[k] # None /\ k \notin aged /\ GoTo(r, "failed")
     \/ k \in aged /\ GoTo(r, "repurging")
     \/ (idem[k] = None \/ "db" \in Faults) /\ GoTo(r, "auditing")
  /\ UNCHANGED <<erpFields, erpLedger, closed, cmd, at, dbVars>>

WriteAudit(r) ==
  /\ stage[r] = "auditing"
  /\ \/ audit' = audit \cup {r} /\ GoTo(r, "answered")
     \/ "db" \in Faults /\ GoTo(r, "failed") /\ UNCHANGED audit
  /\ UNCHANGED <<erpFields, erpLedger, closed, cmd, at, keyVars>>

-----------------------------------------------------------------------------
(***************************************************************************)
(* The ERP.                                                                *)
(***************************************************************************)
\* The job of a request posts what the fields hold when it runs, if that is
\* something and no more than what is outstanding; then the ERP proposes the
\* rest again.
Postable == /\ \E l \in Line : toReceive[l] > 0
            /\ \A l \in Line : toReceive[l] <= Outstanding(l)

JobPosts(r) ==
  /\ job[r] = "queued" /\ Postable
  /\ job' = [job EXCEPT ![r] = "posted"]
  /\ received' = [l \in Line |-> received[l] + toReceive[l]]
  /\ toReceive' = [l \in Line |-> Outstanding(l) - toReceive[l]]
  /\ receipts' = receipts \cup
       {[no |-> Cardinality(receipts) + 1, by |-> r, ref |-> shipmentNo,
         lines |-> toReceive, alone |-> owner = r]}
  /\ owner' = None
  /\ UNCHANGED <<shipmentNo, touched, closed, cmd, stage, at, dbVars>>

JobFails(r) ==
  /\ job[r] = "queued"
  /\ ~Postable \/ "job" \in Faults
  /\ job' = [job EXCEPT ![r] = "failed"]
  /\ UNCHANGED <<erpFields, received, receipts, closed, cmd, stage, at, dbVars>>

RecordExpires(k) ==
  /\ "expiry" \in Faults
  /\ idem[k] # None /\ k \notin aged
  /\ aged' = aged \cup {k}
  /\ UNCHANGED <<erpFields, erpLedger, closed, cmd, stage, at, idem, audit>>

\* People close or cancel a line inside the ERP.
CloseLine(l) ==
  /\ l \notin closed
  /\ closed' = closed \cup {l}
  /\ UNCHANGED <<erpFields, erpLedger, cmd, stage, at, dbVars>>

ServerStep(r) ==
  \/ CheckIdempotency(r) \/ PurgeExpired(r) \/ ValidateLine(r)
  \/ SetToZero(r) \/ UpdateVendShipNo(r) \/ UpdateToReceiveLine(r)
  \/ ReceiveMaterial(r) \/ CheckForError(r) \/ GetPurchaseOrder(r) \/ CallIsLost(r)
  \/ SaveRecord(r) \/ CompareWithWinner(r) \/ WriteAudit(r)

Next ==
  \/ \E r \in Request : Arrive(r) \/ ServerStep(r) \/ JobPosts(r) \/ JobFails(r)
  \/ \E k \in Key : RecordExpires(k)
  \/ \E l \in Line : CloseLine(l)

Spec == Init /\ [][Next]_vars

\* The worker goes on with a request it has started: every call has a timeout
\* (settings.request_timeout).  Nothing is assumed of the ERP's job queue.
FairSpec == Spec /\ \A r \in Request : WF_vars(ServerStep(r))

-----------------------------------------------------------------------------
(***************************************************************************)
(* Properties.                                                             *)
(***************************************************************************)
\* What the first n lines of a body ask to receive; a line given twice counts as
\* given last, which is what the ERP is told.
AskedUpTo(c, n) ==
  [l \in Line |->
     LET given == {i \in 1..n : c.lines[i].line = l} IN
     IF given = {} THEN 0
     ELSE c.lines[CHOOSE i \in given : \A j \in given : j <= i].quantity]

AskedFor(c) == AskedUpTo(c, Len(c.lines))

IsExact(doc) == /\ doc.lines = AskedFor(cmd[doc.by])
                /\ cmd[doc.by].refs = {doc.ref}

\* A request that had the order for itself from its setToZero until its job ran
\* is posted exactly, its lines and no others under its own shipment number,
\* whatever half-done requests left behind before it.
UndisturbedReceiptIsExact == \A doc \in receipts : doc.alone => IsExact(doc)

\* The lines are validated before the first write: a body that is refused, for
\* its last line or for its shipment references, has changed nothing in the
\* ERP, nor has one that is answered from the idempotency table.
RefusalTouchesNothing ==
  \A r \in Request : stage[r] \in {"rejected", "replayed"} =>
     r \notin touched /\ job[r] = "none" /\ r \notin audit

\* Every material movement has a validated request behind it, and no two have the
\* same one, although answers get lost: no step of create_receipt is retried.  A 201
\* that is not a replay has the job and the audit row, a stored reply the job.
EveryReceiptHasItsTrail ==
  /\ \A doc \in receipts : doc.by \in touched /\ job[doc.by] = "posted"
  /\ \A a, b \in receipts : a.by = b.by => a = b
  /\ \A r \in Request : stage[r] = "answered" => job[r] # "none" /\ r \in audit
  /\ \A k \in Key : idem[k] \in Request => cmd[idem[k]].key = k /\ job[idem[k]] # "none"

\* The answer does not wait for the job queue: a request ends even when the ERP
\* never runs its job.
EveryReceiptRequestEnds ==
  \A r \in Request : stage[r] # "idle" ~> stage[r] \in Ended
\* What keeps it so: every step of the service uses up one of the finitely many
\* that a request has, two for each line of its body and one for each call, and
\* nothing the order, the job queue or another request does gives one back.
StepsAfter(s) ==
  CASE s = "idle" -> 14       [] s = "checking" -> 13   [] s = "purging" -> 12
    [] s = "validating" -> 11 [] s = "zeroing" -> 10    [] s = "shipping" -> 9
    [] s = "sending" -> 8     [] s = "enqueueing" -> 7  [] s = "verifying" -> 6
    [] s = "reading" -> 5     [] s = "saving" -> 4      [] s = "comparing" -> 3
    [] s = "repurging" -> 2   [] s = "auditing" -> 1    [] OTHER -> 0
LinesAhead(r) ==
  CASE stage[r] \in {"idle", "checking", "purging", "validating"} -> 2 * Len(cmd[r].lines) - at[r]
    [] stage[r] \in {"zeroing", "shipping", "sending"} -> Len(cmd[r].lines) - at[r]
    [] OTHER -> 0
Left(r) == StepsAfter(stage[r]) + LinesAhead(r)
StepsRunOut ==
  [][\A r \in Request : /\ Left(r)' \in 0..Left(r)
                        /\ ServerStep(r) => Left(r)' # Left(r)]_vars
-----------------------------------------------------------------------------
(***************************************************************************)
(* The inductive invariant.                                                *)
(***************************************************************************)
Unwritten == {"idle", "checking", "purging", "validating", "zeroing", "rejected", "replayed"}
Writing == {"shipping", "sending", "enqueueing"}
Storing == {"saving", "comparing", "repurging"}
Enqueued == {"verifying", "reading", "auditing", "answered"} \cup Storing

\* What a request on its way has done.
RequestInv ==
  \A r \in Request :
    /\ at[r] \in 1..Len(cmd[r].lines)
    /\ stage[r] \in {"idle", "zeroing", "shipping"} => at[r] = 1
    /\ stage[r] \in {"checking", "purging", "replayed"} \cup Storing => cmd[r].key # NoKey
    /\ stage[r] \in {"zeroing", "shipping"} => Cardinality(cmd[r].refs) = 1
    /\ stage[r] \in Unwritten => r \notin touched
    /\ stage[r] \in Unwritten \cup Writing => job[r] = "none"
    /\ stage[r] \in Writing \cup Enqueued \/ job[r] # "none" => r \in touched
    /\ stage[r] \in Enqueued => job[r] # "none"
    /\ r \in audit <=> stage[r] = "answered"

\* What the order holds when its last writer has had it for itself.
OwnerInv ==
  owner # None =>
    LET r == owner  c == cmd[owner] IN
    /\ stage[r] \notin Unwritten
    /\ stage[r] = "shipping" => toReceive = AskedUpTo(c, 0)
    /\ stage[r] = "sending" => toReceive = AskedUpTo(c, at[r] - 1)
    /\ stage[r] = "enqueueing" \/ job[r] = "queued" => toReceive = AskedFor(c)
    /\ stage[r] \in {"sending", "enqueueing"} \/ job[r] = "queued" => c.refs = {shipmentNo}

IInv ==
  /\ TypeOK /\ IsFiniteSet(receipts)
  /\ RequestInv /\ OwnerInv
  /\ EveryReceiptHasItsTrail /\ UndisturbedReceiptIsExact

-----------------------------------------------------------------------------
(***************************************************************************)
(* Refinement: what a client, the ERP and the tables show of a receipt.    *)
(* The order carries something of it once a call has written, all of it    *)
(* once the ERP has its job.                                               *)
(***************************************************************************)
PhaseOf(s) ==
  CASE s \in {"answered", "replayed", "failed"} -> s
    [] s = "rejected" -> "refused"
    [] OTHER -> "open"

Contract == INSTANCE UpdateContract WITH
  keyOf <- [r \in Request |-> cmd[r].key],
  owes <- Request,
  phase <- [r \in Request |-> PhaseOf(stage[r])],
  begun <- touched,
  whole <- {r \in Request : job[r] # "none"},
  audited <- audit,
  ledger <- [k \in Key |-> IF idem[k] \in Request THEN idem[k] ELSE None]

\* The endpoint implements the contract of a write, step by step: nothing is in the
\* order before the whole body is validated, and a 201 has its job and its audit row
\* or repeats the reply of a receipt that has its job.
ImplementsContract == Contract!Spec

=============================================================================
