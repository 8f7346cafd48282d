--------------------------- MODULE POLineUpdates ---------------------------
(***************************************************************************)
(* Updating one attribute of a purchase-order line through the platform:   *)
(* PurchasingService.update_poline_date, update_poline_price and           *)
(* update_poline_quantity, the ERP client calls they make, the idempotency *)
(* table and the audit table.                                              *)
(*                                                                         *)
(* Several requests run at once (entrypoint.sh starts several uvicorn      *)
(* workers), so a request can be overtaken between any two of its awaits   *)
(* and between any two of its database transactions.  Each request carries *)
(* its command from the start; a client that retries is a second request   *)
(* with an equal command.                                                  *)
(*                                                                         *)
(* The service reads the rows of the ERP port by the names its tests give  *)
(* them (promise_date, unit_price, quantity).  ERPClient, the adapter that *)
(* is shipped, hands out Business Central's own row (erp_client.py:315),   *)
(* which has none of them: PortRows = FALSE, and every read of a row is a  *)
(* KeyError.  What happens then is among what happens when reads may fail. *)
(***************************************************************************)
EXTENDS Integers, FiniteSets

CONSTANTS
  Request,         \* the HTTP requests that may arrive
  Line,            \* purchase-order lines
  Key,             \* idempotency keys
  NoKey,           \* a request that carries no key
  None,            \* Python's None
  Command,         \* the update commands clients send
  Day,             \* the dates of the model, an interval of integers
  InitialRow,      \* the ERP's line at the start
  PortRows,        \* the ERP client's rows have the names the service reads
  ResponseEncodes, \* json.dumps accepts result.model_dump() (audit.py:123)
  AwareClock,      \* created_at compares with an aware datetime (audit.py:77)
  Faults,          \* the kinds of failure that may happen
  MaxErpEdits      \* bound on changes made by people inside the ERP

Field == {"promise_date", "unit_price", "quantity"}
Attribute == Field \cup {"order_date", "quantity_received"}
Status == {"open", "closed", "cancelled", "invoiced"}
Row == [status : Status, data : [Attribute -> Int]]
Record == [reply : Row, expired : BOOLEAN, by : Request]
AuditRow == [req : Request, previous : Int, next : Int]
FaultKind == {"erp_read", "patch", "db_read", "db_write", "crash", "expiry"}

ASSUME CommandAssumption ==
  Command \subseteq [line : Line, field : Field, value : Int, key : Key \cup {NoKey}]
ASSUME ValueAssumption == /\ InitialRow \in [Line -> Row]
                          /\ Day \subseteq Int
                          /\ MaxErpEdits \in Nat
ASSUME SwitchAssumption == /\ PortRows \in BOOLEAN
                           /\ ResponseEncodes \in BOOLEAN
                           /\ AwareClock \in BOOLEAN
                           /\ Faults \subseteq FaultKind
ASSUME DistinctAssumption == NoKey \notin Key /\ None \notin Row \cup Record \cup Request

\* tenacity's stop_after_attempt(3) around every update_poline_* call.
MaxAttempts == 3

VARIABLES
  erp,      \* the ERP's own table of lines
  today,    \* date.today()
  edits,    \* how many times people changed lines inside the ERP
  overtaken, \* observation: the requests whose row was edited, or whose day
            \* passed, after they had read it
  cmd,      \* the command each request carries
  stage,    \* where each request is
  seen,     \* the row get_poline returned for validation
  attempt,  \* PATCH attempts already spent by a request
  late,     \* PATCHes that timed out on our side and are still travelling
  reply,    \* the DTO a request is about to return or has returned
  idem,     \* the idempotency table
  audit,    \* the audit table
  replaced  \* observation: the values each request's PATCHes overwrote

erpVars == <<erp, late, replaced>>
dbVars == <<idem, audit>>
worldVars == <<today, edits, overtaken, cmd>>
vars == <<erp, today, edits, overtaken, cmd, stage, seen, attempt, late, reply, idem,
          audit, replaced>>

Stage == {"idle", "checking", "purging", "fetching", "updating", "reading",
          "saving", "comparing", "repurging", "auditing",
          "answered", "replayed", "rejected", "failed", "lost"}
Ended == {"answered", "replayed", "rejected", "failed", "lost"}

TypeOK ==
  /\ erp \in [Line -> Row]
  /\ today \in Day
  /\ edits \in 0..MaxErpEdits
  /\ overtaken \subseteq Request
  /\ cmd \in [Request -> Command]
  /\ stage \in [Request -> Stage]
  /\ seen \in [Request -> Row \cup {None}]
  /\ attempt \in [Request -> 0..MaxAttempts]
  /\ late \in [Request -> 0..MaxAttempts]
  /\ reply \in [Request -> Row \cup {None}]
  /\ idem \in [Key -> Record \cup {None}]
  /\ audit \subseteq AuditRow
  /\ replaced \in [Request -> SUBSET Int]

Init ==
  /\ erp = InitialRow
  /\ today \in {d \in Day : \A e \in Day : d <= e}
  /\ edits = 0
  /\ overtaken = {}
  /\ cmd \in [Request -> Command]
  /\ stage = [r \in Request |-> "idle"]
  /\ seen = [r \in Request |-> None]
  /\ attempt = [r \in Request |-> 0]
  /\ late = [r \in Request |-> 0]
  /\ reply = [r \in Request |-> None]
  /\ idem = [k \in Key |-> None]
  /\ audit = {}
  /\ replaced = [r \in Request |-> {}]

GoTo(r, s) == stage' = [stage EXCEPT ![r] = s]
Keyed(r) == cmd[r].key # NoKey

-----------------------------------------------------------------------------
(***************************************************************************)
(* The business rules of the three handlers.                               *)
(***************************************************************************)
DateAllowed(row, newDate) ==
  /\ row.status \notin {"closed", "cancelled"}
  /\ newDate >= today
  /\ newDate >= row.data["order_date"]

\* Mutant of PriceAllowed: the rule about received quantities is dropped.
PriceAllowedAfterReceipt(row, newPrice) ==
  row.status \notin {"closed", "cancelled", "invoiced"} /\ newPrice > 0

PriceAllowed(row, newPrice) ==
  /\ row.status \notin {"closed", "cancelled", "invoiced"}
  /\ row.data["quantity_received"] <= 0
  /\ newPrice > 0

QuantityAllowed(row, newQuantity) ==
  /\ row.status \notin {"closed", "cancelled"}
  /\ newQuantity >= row.data["quantity_received"]
  /\ newQuantity > 0

Allowed(c, row) ==
  \/ c.field = "promise_date" /\ DateAllowed(row, c.value)
  \/ c.field = "unit_price" /\ PriceAllowed(row, c.value)
  \/ c.field = "quantity" /\ QuantityAllowed(row, c.value)

\* The percentage of change divides by the current price or quantity.
ChangeComputable(c, row) ==
  c.field \in {"unit_price", "quantity"} => row.data[c.field] # 0

\* What FastAPI's body models let through.
WellFormed(c) ==
  IF c.field = "promise_date" THEN c.value >= today ELSE c.value > 0

-----------------------------------------------------------------------------
(***************************************************************************)
(* The request's steps, up to the ERP update.                              *)
(***************************************************************************)
Arrive(r) ==
  /\ stage[r] = "idle"
  /\ WellFormed(cmd[r])
  /\ GoTo(r, IF Keyed(r) THEN "checking" ELSE "fetching")
  /\ UNCHANGED <<worldVars, erpVars, dbVars, seen, attempt, reply>>

\* What the SELECT of get_idempotency_record leads to: the stored reply, a row
\* to delete because it expired, or nothing.  Comparing a naive created_at with
\* an aware now raises, and the blanket handler turns any error into "no row".
Found(k) == idem[k] # None /\ AwareClock /\ ~idem[k].expired
ToPurge(k) == idem[k] # None /\ AwareClock /\ idem[k].expired

\* Mutant of CheckIdempotency: a hit returns the row of the table, not the reply.
HitReturnsTheRow(r) ==
  /\ stage[r] = "checking"
  /\ IF Found(cmd[r].key)
     THEN reply' = [reply EXCEPT ![r] = idem[cmd[r].key]] /\ GoTo(r, "replayed")
     ELSE GoTo(r, "fetching") /\ UNCHANGED reply
  /\ UNCHANGED <<worldVars, erpVars, dbVars, seen, attempt>>

CheckIdempotency(r) ==
  LET k == cmd[r].key IN
  /\ stage[r] = "checking"
  /\ \/ /\ Found(k)
        /\ reply' = [reply EXCEPT ![r] = idem[k].reply]
        /\ GoTo(r, "replayed")
     \/ ToPurge(k) /\ GoTo(r, "purging") /\ UNCHANGED reply
     \/ ~Found(k) /\ ~ToPurge(k) /\ GoTo(r, "fetching") /\ UNCHANGED reply
     \/ "db_read" \in Faults /\ GoTo(r, "fetching") /\ UNCHANGED reply
  /\ UNCHANGED <<worldVars, erpVars, dbVars, seen, attempt>>

\* The DELETE of an expired row names only its key: it deletes whatever is
\* stored under the key by the time it runs.
PurgeExpired(r) ==
  /\ \/ stage[r] = "purging" /\ GoTo(r, "fetching")
     \/ stage[r] = "repurging" /\ GoTo(r, "auditing")
  /\ \/ idem' = [idem EXCEPT ![cmd[r].key] = None]
     \/ "db_write" \in Faults /\ UNCHANGED idem
  /\ UNCHANGED <<worldVars, erpVars, audit, seen, attempt, reply>>

FetchAndValidate(r) ==
  LET row == erp[cmd[r].line] IN
  /\ stage[r] = "fetching"
  /\ PortRows
  /\ seen' = [seen EXCEPT ![r] = row]
  /\ GoTo(r, IF ~Allowed(cmd[r], row) THEN "rejected"
             ELSE IF ~ChangeComputable(cmd[r], row) THEN "failed"
             ELSE "updating")
  /\ UNCHANGED <<worldVars, erpVars, dbVars, attempt, reply>>

\* The call fails, or the row lacks the name that is read first.
FetchFails(r) ==
  /\ stage[r] = "fetching"
  /\ "erp_read" \in Faults \/ ~PortRows
  /\ GoTo(r, "failed")
  /\ UNCHANGED <<worldVars, erpVars, dbVars, seen, attempt, reply>>

-----------------------------------------------------------------------------
(***************************************************************************)
(* ERPClient.update_poline_*: at most three attempts, each of them GET,    *)
(* PATCH without If-Match, GET.  The three methods differ in the field.    *)
(***************************************************************************)
With(row, field, value) ==
  [status |-> row.status, data |-> [row.data EXCEPT ![field] = value]]

ApplyPatch(r) ==
  LET c == cmd[r] IN
  /\ erp' = [erp EXCEPT ![c.line] = With(@, c.field, c.value)]
  /\ replaced' = [replaced EXCEPT ![r] = @ \cup {erp[c.line].data[c.field]}]

PatchLine(r) ==
  /\ stage[r] = "updating"
  /\ ApplyPatch(r)
  /\ GoTo(r, "reading")
  /\ UNCHANGED <<worldVars, dbVars, seen, attempt, late, reply>>

\* Mutant of PatchRefused: __exit__ writes the row whatever the exception.
RefusedPatchIsAudited(r) ==
  /\ stage[r] = "updating"
  /\ "patch" \in Faults
  /\ audit' = audit \cup {[req |-> r, previous |-> seen[r].data[cmd[r].field],
                           next |-> cmd[r].value]}
  /\ GoTo(r, "failed")
  /\ UNCHANGED <<worldVars, erpVars, idem, seen, attempt, reply>>

PatchRefused(r) ==
  /\ stage[r] = "updating"
  /\ "patch" \in Faults
  /\ GoTo(r, "failed")
  /\ UNCHANGED <<worldVars, erpVars, dbVars, seen, attempt, reply>>

\* Mutant of PatchTimesOut: the last timeout is swallowed.
LastTimeoutSwallowed(r) ==
  /\ stage[r] = "updating"
  /\ "patch" \in Faults
  /\ attempt' = [attempt EXCEPT ![r] = @ + 1]
  /\ GoTo(r, IF attempt[r] + 1 < MaxAttempts THEN "updating" ELSE "reading")
  /\ late' \in {late, [late EXCEPT ![r] = @ + 1]}
  /\ UNCHANGED <<worldVars, dbVars, erp, replaced, seen, reply>>

\* Mutant of PatchTimesOut: the counter of attempts starts again.
RetriesForever(r) ==
  /\ stage[r] = "updating"
  /\ "patch" \in Faults
  /\ attempt' = [attempt EXCEPT ![r] = (@ + 1) % MaxAttempts]
  /\ UNCHANGED <<worldVars, dbVars, erpVars, stage, seen, reply>>

\* A timeout says nothing about the PATCH: it was lost, or the ERP has it and
\* takes it sooner or later.  Tenacity sends another until the attempts are spent.
PatchTimesOut(r) ==
  /\ stage[r] = "updating"
  /\ "patch" \in Faults
  /\ attempt' = [attempt EXCEPT ![r] = @ + 1]
  /\ GoTo(r, IF attempt[r] + 1 < MaxAttempts THEN "updating" ELSE "failed")
  /\ late' \in {late, [late EXCEPT ![r] = @ + 1]}
  /\ UNCHANGED <<worldVars, dbVars, erp, replaced, seen, reply>>

DeliverLatePatch(r) ==
  /\ late[r] > 0
  /\ ApplyPatch(r)
  /\ late' = [late EXCEPT ![r] = @ - 1]
  /\ UNCHANGED <<worldVars, dbVars, stage, seen, attempt, reply>>

ReadBack(r) ==
  /\ stage[r] = "reading"
  /\ PortRows
  /\ reply' = [reply EXCEPT ![r] = erp[cmd[r].line]]
  /\ GoTo(r, IF Keyed(r) THEN "saving" ELSE "auditing")
  /\ UNCHANGED <<worldVars, erpVars, dbVars, seen, attempt>>

\* Mutant of ReadBackFails: the client is told that the update was refused.
ReadBackFailureIsRefusal(r) ==
  /\ stage[r] = "reading"
  /\ "erp_read" \in Faults
  /\ GoTo(r, "rejected")
  /\ UNCHANGED <<worldVars, erpVars, dbVars, seen, attempt, reply>>

ReadBackFails(r) ==
  /\ stage[r] = "reading"
  /\ "erp_read" \in Faults \/ ~PortRows
  /\ GoTo(r, "failed")
  /\ UNCHANGED <<worldVars, erpVars, dbVars, seen, attempt, reply>>

-----------------------------------------------------------------------------
(***************************************************************************)
(* After the ERP update: the idempotency record, then, when the with-block *)
(* is left without an exception, the audit row.  Two transactions.         *)
(***************************************************************************)
SaveRecord(r) ==
  LET k == cmd[r].key IN
  /\ stage[r] = "saving"
  /\ ResponseEncodes
  /\ \/ /\ idem[k] = None
        /\ idem' = [idem EXCEPT
                      ![k] = [reply |-> reply[r], expired |-> FALSE, by |-> r]]
        /\ GoTo(r, "auditing")
     \/ /\ idem[k] # None
        /\ GoTo(r, "comparing")
        /\ UNCHANGED idem
  /\ UNCHANGED <<worldVars, erpVars, audit, seen, attempt, reply>>

SaveFails(r) ==
  /\ stage[r] = "saving"
  /\ ~ResponseEncodes \/ "db_write" \in Faults
  /\ GoTo(r, "failed")
  /\ UNCHANGED <<worldVars, erpVars, dbVars, seen, attempt, reply>>

\* IntegrityError: the row that won is read again and compared; a row that can
\* not be read or has expired is taken for an equal one.
CompareWithWinner(r) ==
  LET k == cmd[r].key IN
  /\ stage[r] = "comparing"
  /\ \/ Found(k) /\ idem[k].reply # reply[r] /\ GoTo(r, "failed")
     \/ Found(k) /\ idem[k].reply = reply[r] /\ GoTo(r, "auditing")
     \/ ToPurge(k) /\ GoTo(r, "repurging")
     \/ ~Found(k) /\ ~ToPurge(k) /\ GoTo(r, "auditing")
     \/ "db_read" \in Faults /\ GoTo(r, "auditing")
  /\ UNCHANGED <<worldVars, erpVars, dbVars, seen, attempt, reply>>

WriteAudit(r) ==
  LET c == cmd[r] IN
  /\ stage[r] = "auditing"
  /\ audit' = audit \cup {[req |-> r, previous |-> seen[r].data[c.field],
                           next |-> c.value]}
  /\ GoTo(r, "answered")
  /\ UNCHANGED <<worldVars, erpVars, idem, seen, attempt, reply>>

AuditFails(r) ==
  /\ stage[r] = "auditing"
  /\ "db_write" \in Faults
  /\ GoTo(r, "failed")
  /\ UNCHANGED <<worldVars, erpVars, dbVars, seen, attempt, reply>>

-----------------------------------------------------------------------------
(***************************************************************************)
(* The environment.                                                        *)
(***************************************************************************)
\* The worker that serves the request dies; nothing of it survives but what
\* the ERP and the database already hold.
WorkerDies(r) ==
  /\ "crash" \in Faults
  /\ stage[r] \notin Ended \cup {"idle"}
  /\ GoTo(r, "lost")
  /\ UNCHANGED <<worldVars, erpVars, dbVars, seen, attempt, reply>>

\* A record outlives settings.idempotency_ttl_hours.
RecordExpires(k) ==
  /\ "expiry" \in Faults
  /\ idem[k] # None /\ ~idem[k].expired
  /\ idem' = [idem EXCEPT ![k].expired = TRUE]
  /\ UNCHANGED <<worldVars, erpVars, audit, stage, seen, attempt, reply>>

Validated(r) == seen[r] # None

Midnight ==
  /\ today + 1 \in Day
  /\ today' = today + 1
  /\ overtaken' = overtaken \cup {r \in Request :
                                   Validated(r) /\ cmd[r].field = "promise_date"}
  /\ UNCHANGED <<erpVars, dbVars, edits, cmd, stage, seen, attempt, reply>>

\* People work on the same line inside Business Central.
ErpEdit(l) ==
  /\ edits < MaxErpEdits
  /\ edits' = edits + 1
  /\ overtaken' = overtaken \cup {r \in Request : Validated(r) /\ cmd[r].line = l}
  /\ \/ \E s \in Status : erp' = [erp EXCEPT ![l] = [status |-> s, data |-> @.data]]
     \/ LET received == erp[l].data["quantity_received"]
        IN  erp' = [erp EXCEPT ![l] = With(@, "quantity_received", received + 1)]
  /\ UNCHANGED <<dbVars, today, cmd, stage, seen, attempt, late, reply, replaced>>

ServerStep(r) ==
  \/ CheckIdempotency(r) \/ PurgeExpired(r)
  \/ FetchAndValidate(r) \/ FetchFails(r)
  \/ PatchLine(r) \/ PatchRefused(r) \/ PatchTimesOut(r)
  \/ ReadBack(r) \/ ReadBackFails(r)
  \/ SaveRecord(r) \/ SaveFails(r) \/ CompareWithWinner(r)
  \/ WriteAudit(r) \/ AuditFails(r)

Next ==
  \/ \E r \in Request :
       Arrive(r) \/ ServerStep(r) \/ DeliverLatePatch(r) \/ WorkerDies(r)
  \/ \E k \in Key : RecordExpires(k)
  \/ Midnight
  \/ \E l \in Line : ErpEdit(l)

Spec == Init /\ [][Next]_vars

\* A worker goes on serving a request it has started: every await of the
\* handlers has a timeout, and the event loop runs what is ready.
Fairness == \A r \in Request : WF_vars(ServerStep(r))
FairSpec == Spec /\ Fairness
-----------------------------------------------------------------------------
(***************************************************************************)
(* Properties.                                                             *)
(***************************************************************************)
Took(r) == replaced[r] # {}    \* some PATCH of r took effect in the ERP
SameKey(r, o) == Keyed(r) /\ cmd[r].key = cmd[o].key

\* The audit trail does not lie and does not miss a success: a row names a
\* request whose PATCH reached the ERP and says what it wrote, a request has
\* at most one row, and every 200 that is not a replay has one (audit.py:
\* AuditContext.__exit__ writes it only when the handler raised nothing).
AuditTrailIsSound ==
  /\ \A a \in audit : Took(a.req) /\ a.next = cmd[a.req].value
  /\ \A a, b \in audit : a.req = b.req => a = b
  /\ \A r \in Request : stage[r] = "answered" => \E a \in audit : a.req = r

\* A request that the business rules refuse, or that is served from the
\* idempotency table, leaves no trace: neither now nor through a PATCH that
\* arrives later, no audit row, no idempotency record.
RefusalLeavesNoTrace ==
  \A r \in Request : stage[r] \in {"rejected", "replayed"} =>
     /\ ~Took(r) /\ late[r] = 0
     /\ \A a \in audit : a.req # r
     /\ \A k \in Key : idem[k] # None => idem[k].by # r

\* Whatever a client is told under a key comes from an ERP update that took
\* place under that key, and so does every stored record: a replay never
\* returns the reply of a request that failed before its PATCH.
ReplyWasEarned ==
  /\ \A r \in Request : stage[r] = "answered" => Took(r)
  /\ \A r \in Request : stage[r] = "replayed" =>
        \E o \in Request : SameKey(r, o) /\ Took(o) /\ reply[o] = reply[r]
  /\ \A k \in Key : idem[k] # None =>
        LET o == idem[k].by IN
        cmd[o].key = k /\ Took(o) /\ reply[o] = idem[k].reply

\* A stored reply is never overwritten by another one: a record only ages, or
\* is deleted.
StoredReplyIsStable ==
  [][\A k \in Key : idem[k] # None /\ idem'[k] # None =>
        idem'[k].reply = idem[k].reply /\ idem'[k].by = idem[k].by]_vars

\* The business rules, as the docstrings of the three handlers list them.
RulesHold(c, row) ==
  /\ row.status \notin {"closed", "cancelled"}
  /\ c.field = "promise_date" => c.value >= today /\ c.value >= row.data["order_date"]
  /\ c.field = "unit_price" => /\ row.status # "invoiced"
                               /\ row.data["quantity_received"] <= 0
                               /\ c.value > 0
  /\ c.field = "quantity" => c.value >= row.data["quantity_received"] /\ c.value > 0
IsLegal(r) == RulesHold(cmd[r], erp[cmd[r].line])

\* A PATCH is sent some awaits after the row it was validated on was read, without
\* If-Match, and may take effect long after that.  The line it then changes still
\* obeys every rule, whatever the other requests did to it meanwhile: only people
\* at work in the ERP and midnight can make a validated PATCH an illegal one.
PatchIsLegal ==
  [][\A r \in Request : PatchLine(r) \/ DeliverLatePatch(r) =>
        r \in overtaken \/ IsLegal(r)]_vars

\* A request that arrived is answered or fails: the retries of the ERP client
\* are bounded and no step waits for another request.
EveryRequestEnds ==
  \A r \in Request : stage[r] # "idle" ~> stage[r] \in Ended

\* What keeps it so, whoever else works on the same line or under the same key
\* meanwhile: every step of the service uses up one of the finitely many that a
\* request has, and nothing gives one back.  The only loop is Tenacity's, and its
\* attempts are counted.
StepsAfter(s) ==
  CASE s = "idle" -> 10     [] s = "checking" -> 9   [] s = "purging" -> 8
    [] s = "fetching" -> 7  [] s = "updating" -> 6   [] s = "reading" -> 5
    [] s = "saving" -> 4    [] s = "comparing" -> 3  [] s = "repurging" -> 2
    [] s = "auditing" -> 1  [] OTHER -> 0
Left(r) == StepsAfter(stage[r]) + (MaxAttempts - attempt[r])
StepsRunOut ==
  [][\A r \in Request : /\ Left(r)' \in 0..Left(r)
                        /\ ServerStep(r) => Left(r)' # Left(r)]_vars

-----------------------------------------------------------------------------
(***************************************************************************)
(* The inductive invariant.  None of the properties above is inductive:    *)
(* they say nothing of the requests that are still on their way.           *)
(***************************************************************************)
Unpatched == {"idle", "checking", "purging", "fetching", "replayed", "rejected"}
Replied == {"saving", "comparing", "repurging", "auditing", "answered"}
Patched == Replied \cup {"reading"}
Settled == {"auditing", "answered", "failed", "lost"}
UsesKey == {"checking", "purging", "saving", "comparing", "repurging", "replayed"}

\* How far a request is tells what it has done to the ERP and what it knows.
RequestInv(r) ==
  /\ stage[r] \in Unpatched => attempt[r] = 0 /\ replaced[r] = {}
  /\ stage[r] \in Patched => Took(r)
  /\ stage[r] = "updating" => attempt[r] < MaxAttempts
  /\ late[r] <= attempt[r]
  /\ stage[r] \in Patched \cup {"updating"} \/ late[r] > 0 => Validated(r)
  /\ stage[r] = "updating" \/ late[r] > 0 => r \in overtaken \/ IsLegal(r)
  /\ stage[r] \in Replied \cup {"replayed"} => reply[r] # None
  /\ stage[r] \in UsesKey => Keyed(r)

\* An audit row is written by the step that answers.
AuditInv ==
  /\ \A a \in audit : /\ stage[a.req] = "answered"
                      /\ a.previous = seen[a.req].data[cmd[a.req].field]
                      /\ a.next = cmd[a.req].value
  /\ \A r \in Request : stage[r] = "answered" => \E a \in audit : a.req = r

\* A record is the reply of a request that has left the ERP behind it.
Author(o, k) == cmd[o].key = k /\ stage[o] \in Settled /\ Took(o)
StoreInv ==
  /\ \A k \in Key : idem[k] # None =>
        Author(idem[k].by, k) /\ reply[idem[k].by] = idem[k].reply
  /\ \A r \in Request : stage[r] = "replayed" =>
        \E o \in Request : Author(o, cmd[r].key) /\ reply[o] = reply[r]

IInv == TypeOK /\ (\A r \in Request : RequestInv(r)) /\ AuditInv /\ StoreInv

-----------------------------------------------------------------------------
(***************************************************************************)
(* Refinement: what a client, the ERP and the tables show of a request.    *)
(***************************************************************************)
PhaseOf(s) ==
  CASE s \in {"answered", "replayed", "failed"} -> s
    [] s = "rejected" -> "refused"
    [] s = "lost" -> "failed"
    [] OTHER -> "open"

Contract == INSTANCE UpdateContract WITH
  keyOf <- [r \in Request |-> cmd[r].key],
  phase <- [r \in Request |-> PhaseOf(stage[r])],
  owes <- Request,
  begun <- {r \in Request : Took(r)},
  whole <- {r \in Request : Took(r)},
  audited <- {r \in Request : \E a \in audit : a.req = r},
  ledger <- [k \in Key |-> IF idem[k] = None THEN None ELSE idem[k].by]

\* The handlers implement the contract, step by step.
ImplementsContract == Contract!Spec

=============================================================================
