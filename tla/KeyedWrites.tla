----------------------------- MODULE KeyedWrites -----------------------------
(***************************************************************************)
(* Two writes that share the idempotency table with the purchase-order     *)
(* updates and the receipts: POST /purchase-orders/{id}/returns, which     *)
(* makes a return order in the ERP by one call for its header and one for  *)
(* each line, and POST /conversations/{id}/actions/reply, which sends a    *)
(* message through Front.  Nothing of either is repeated or undone.        *)
(*                                                                         *)
(* Keys are not bound to an endpoint or a body.  As the code stands, no    *)
(* record is stored (json.dumps of a datetime, audit.py:120) or read       *)
(* (audit.py:77): a look at the table that fails is among the Faults, a    *)
(* reply that cannot be stored is ResponseEncodes = FALSE.                 *)
(***************************************************************************)
EXTENDS Integers, Sequences

CONSTANTS
  Request,
  Line,      \* the line numbers a body may name
  Key, NoKey, None,
  Other,     \* a record of another endpoint: a line update or a receipt
  Received,  \* the lines of the posted receipt: quantity received, 0 if there is none
  Command,   \* the bodies clients send
  Mix,       \* what requests may arrive together
  ResponseEncodes, \* json.dumps accepts the replies (audit.py:120)
  Faults     \* the kinds of failure that may happen

FaultKind == {"call", "late", "slow", "db", "crash", "expiry"}
Document == [Line -> Nat]

ASSUME ReceiptAssumption == Received \in Document
ASSUME CommandAssumption ==
  Command \subseteq [kind : {"return", "reply", "comment"}, key : Key \cup {NoKey},
                     lines : Seq([line : Line, quantity : Nat \ {0}])]
ASSUME BodyAssumption == \A c \in Command : c.kind = "return" => Len(c.lines) > 0
ASSUME MixAssumption == Mix \subseteq [Request -> Command]
ASSUME SwitchAssumption == ResponseEncodes \in BOOLEAN /\ Faults \subseteq FaultKind
ASSUME DistinctAssumption == /\ NoKey \notin Key
                             /\ None \notin Document \cup Request \cup {Other}
                             /\ Other \notin Request

VARIABLES
  docs,     \* ERP: the return order each request has made
  at,       \* ERP: how many lines of its body the order has got
  sent,     \* Front: the requests whose message was sent
  overdue,  \* the requests with a call under way that nobody waits for
  idem,     \* the idempotency table: the request whose reply is stored
  aged,     \* the keys whose record has outlived settings.idempotency_ttl_hours
  audit,    \* the requests with an audit row
  cmd,      \* the body of each request
  stage     \* where each request is

outside == <<docs, at, sent>>
keyVars == <<idem, aged>>
dbVars == <<keyVars, audit>>
vars == <<docs, at, sent, overdue, idem, aged, audit, cmd, stage>>

Stage == {"idle", "checking", "purging", "validating", "making", "sending", "remarking",
          "reading", "posting", "saving", "comparing", "repurging", "auditing",
          "answered", "replayed", "refused", "failed"}
Ended == {"answered", "replayed", "refused", "failed"}

TypeOK ==
  /\ docs \in [Request -> Document \cup {None}]
  /\ at \in [Request -> Nat]
  /\ sent \subseteq Request /\ overdue \subseteq Request /\ audit \subseteq Request
  /\ idem \in [Key -> Request \cup {Other, None}]
  /\ aged \subseteq Key
  /\ cmd \in [Request -> Command]
  /\ stage \in [Request -> Stage]

Init ==
  /\ docs = [r \in Request |-> None]
  /\ at = [r \in Request |-> 0]
  /\ sent = {} /\ overdue = {} /\ audit = {}
  /\ idem \in [Key -> {Other, None}]
  /\ aged = {}
  /\ cmd \in Mix
  /\ stage = [r \in Request |-> "idle"]

GoTo(r, s) == stage' = [stage EXCEPT ![r] = s]
IsReturn(r) == cmd[r].kind = "return"
Keyed(r) == cmd[r].key # NoKey
Start(r) == IF IsReturn(r) THEN "validating" ELSE "posting"

-----------------------------------------------------------------------------
(***************************************************************************)
(* The key.                                                                *)
(***************************************************************************)
SameKey(r, q) == Keyed(r) /\ cmd[q].key = cmd[r].key

Arrive(r) ==
  /\ stage[r] = "idle"
  /\ GoTo(r, IF Keyed(r) THEN "checking" ELSE Start(r))
  /\ UNCHANGED <<outside, overdue, dbVars, cmd>>

\* Mutant of Readable: the stored reply is taken as it is.
AnyRecord(r, record) == record # None

\* ReturnDTO(**cached), ConversationReplyResponse(**cached): a reply of another
\* endpoint lacks the fields.
Readable(r, record) ==
  record \in Request /\ (cmd[record].kind = "return" <=> IsReturn(r))

\* A look at the table that fails is taken for a key nobody has used.
CheckKey(r) ==
  LET k == cmd[r].key IN
  /\ stage[r] = "checking"
  /\ \/ idem[k] = None /\ GoTo(r, Start(r))
     \/ k \in aged /\ GoTo(r, "purging")
     \/ idem[k] # None /\ k \notin aged /\ Readable(r, idem[k]) /\ GoTo(r, "replayed")
     \/ idem[k] # None /\ k \notin aged /\ ~Readable(r, idem[k]) /\ GoTo(r, "failed")
     \/ "db" \in Faults /\ GoTo(r, Start(r))
  /\ UNCHANGED <<outside, overdue, dbVars, cmd>>

\* The DELETE names only the key: it deletes what is stored under it by then.
PurgeExpired(r) ==
  LET k == cmd[r].key IN
  /\ \/ stage[r] = "purging" /\ GoTo(r, Start(r))
     \/ stage[r] = "repurging" /\ GoTo(r, "auditing")
  /\ \/ idem' = [idem EXCEPT ![k] = None] /\ aged' = aged \ {k}
     \/ "db" \in Faults /\ UNCHANGED keyVars
  /\ UNCHANGED <<outside, overdue, audit, cmd>>

-----------------------------------------------------------------------------
(***************************************************************************)
(* PurchasingService.create_return and ERPClient.create_return.            *)
(***************************************************************************)
\* Mutant of LineAllowed: what is asked is not compared with what was received.
OnReceipt(l) == Received[l.line] > 0

LineAllowed(l) == l.quantity <= Received[l.line]

Validate(r) ==
  /\ stage[r] = "validating"
  /\ GoTo(r, IF \A n \in 1..Len(cmd[r].lines) : LineAllowed(cmd[r].lines[n])
             THEN "making" ELSE "refused")
  /\ UNCHANGED <<outside, overdue, dbVars, cmd>>

Empty == [l \in Line |-> 0]
Add(doc, l) == [doc EXCEPT ![l.line] = l.quantity]
NextLine(r) == cmd[r].lines[at[r] + 1]
LastLine(r) == at[r] + 1 = Len(cmd[r].lines)

AddHeader(r) == docs' = [docs EXCEPT ![r] = Empty] /\ UNCHANGED <<at, sent>>
AddLine(r) == /\ docs' = [docs EXCEPT ![r] = Add(docs[r], NextLine(r))]
              /\ at' = [at EXCEPT ![r] = at[r] + 1]
              /\ UNCHANGED sent

MakeHeader(r) ==
  /\ stage[r] = "making"
  /\ AddHeader(r)
  /\ GoTo(r, "sending")
  /\ UNCHANGED <<overdue, dbVars, cmd>>

\* Lines keep their number of the receipt: the ERP refuses one that is there.
PostLine(r) ==
  /\ stage[r] = "sending"
  /\ \/ /\ docs[r][NextLine(r).line] = 0
        /\ AddLine(r)
        /\ GoTo(r, IF LastLine(r) THEN "remarking" ELSE "sending")
     \/ /\ docs[r][NextLine(r).line] # 0
        /\ GoTo(r, "failed")
        /\ UNCHANGED outside
  /\ UNCHANGED <<overdue, dbVars, cmd>>

\* The reason is patched into the header; a refusal is only logged.
Remark(r) ==
  /\ stage[r] = "remarking"
  /\ GoTo(r, "reading")
  /\ UNCHANGED <<outside, overdue, dbVars, cmd>>

\* The ERP may not show the new order yet.
ReadBack(r) ==
  /\ stage[r] = "reading"
  /\ \/ GoTo(r, IF Keyed(r) THEN "saving" ELSE "auditing")
     \/ "slow" \in Faults /\ GoTo(r, "failed")
  /\ UNCHANGED <<outside, overdue, dbVars, cmd>>

-----------------------------------------------------------------------------
(***************************************************************************)
(* ConversationService.reply_to_conversation.                              *)
(***************************************************************************)
\* Front's answer may lack what _map_message and _map_comment need.
SendMessage(r) ==
  /\ stage[r] = "posting"
  /\ sent' = sent \cup {r} /\ UNCHANGED <<docs, at>>
  /\ \/ GoTo(r, IF cmd[r].kind = "reply" /\ Keyed(r) THEN "saving" ELSE "answered")
     \/ "call" \in Faults /\ GoTo(r, "failed")
  /\ UNCHANGED <<overdue, dbVars, cmd>>

-----------------------------------------------------------------------------
(***************************************************************************)
(* save_idempotency_record and write_audit_log.                            *)
(***************************************************************************)
\* Mutant of SaveRecord: the order is stored, not the reply.
SaveOrder(r) ==
  LET k == cmd[r].key IN
  /\ stage[r] = "saving"
  /\ idem[k] = None /\ idem' = [idem EXCEPT ![k] = docs[r]]
  /\ GoTo(r, "auditing")
  /\ UNCHANGED <<outside, overdue, aged, audit, cmd>>

SaveRecord(r) ==
  LET k == cmd[r].key IN
  /\ stage[r] = "saving"
  /\ \/ /\ ResponseEncodes /\ idem[k] = None
        /\ idem' = [idem EXCEPT ![k] = r] /\ UNCHANGED aged
        /\ GoTo(r, "auditing")
     \/ ResponseEncodes /\ idem[k] # None /\ GoTo(r, "comparing") /\ UNCHANGED keyVars
     \/ (~ResponseEncodes \/ "db" \in Faults) /\ GoTo(r, "failed") /\ UNCHANGED keyVars
  /\ UNCHANGED <<outside, overdue, audit, cmd>>

\* IntegrityError: the record that won is read again.  It is never an equal one; one
\* that cannot be read, or is gone, is no error.
CompareWithWinner(r) ==
  LET k == cmd[r].key IN
  /\ stage[r] = "comparing"
  /\ \/ idem[k] # None /\ k \notin aged /\ GoTo(r, "failed")
     \/ k \in aged /\ GoTo(r, "repurging")
     \/ (idem[k] = None \/ "db" \in Faults) /\ GoTo(r, "auditing")
  /\ UNCHANGED <<outside, overdue, dbVars, cmd>>

\* A reply's call of write_audit_log names no action: a TypeError.
WriteAudit(r) ==
  /\ stage[r] = "auditing"
  /\ \/ IsReturn(r) /\ audit' = audit \cup {r} /\ GoTo(r, "answered")
     \/ /\ ~IsReturn(r) \/ "db" \in Faults
        /\ GoTo(r, "failed")
        /\ UNCHANGED audit
  /\ UNCHANGED <<outside, overdue, keyVars, cmd>>

-----------------------------------------------------------------------------
(***************************************************************************)
(* Failures.  A call that fails has done nothing; one without an answer    *)
(* may still be done.                                                      *)
(***************************************************************************)
CallFails(r) ==
  /\ "call" \in Faults
  /\ stage[r] \in {"validating", "making", "sending", "remarking", "reading", "posting"}
  /\ GoTo(r, "failed")
  /\ UNCHANGED <<outside, overdue, dbVars, cmd>>

CallTimesOut(r) ==
  /\ "late" \in Faults
  /\ stage[r] \in {"making", "sending", "posting"}
  /\ overdue' = overdue \cup {r}
  /\ GoTo(r, "failed")
  /\ UNCHANGED <<outside, dbVars, cmd>>

LateCall(r) ==
  /\ r \in overdue
  /\ overdue' = overdue \ {r}
  /\ CASE ~IsReturn(r) -> sent' = sent \cup {r} /\ UNCHANGED <<docs, at>>
       [] IsReturn(r) /\ docs[r] = None -> AddHeader(r)
       [] IsReturn(r) /\ docs[r] # None ->
            IF docs[r][NextLine(r).line] = 0 THEN AddLine(r) ELSE UNCHANGED outside
  /\ UNCHANGED <<dbVars, cmd, stage>>

WorkerDies(r) ==
  /\ "crash" \in Faults
  /\ stage[r] \notin Ended \cup {"idle"}
  /\ GoTo(r, "failed")
  /\ UNCHANGED <<outside, overdue, dbVars, cmd>>

RecordExpires(k) ==
  /\ "expiry" \in Faults
  /\ idem[k] # None /\ k \notin aged
  /\ aged' = aged \cup {k}
  /\ UNCHANGED <<outside, overdue, idem, audit, cmd, stage>>

ServerStep(r) ==
  \/ CheckKey(r) \/ PurgeExpired(r) \/ Validate(r) \/ MakeHeader(r) \/ PostLine(r) \/ Remark(r) \/ ReadBack(r)
  \/ SendMessage(r) \/ SaveRecord(r) \/ CompareWithWinner(r) \/ WriteAudit(r)

Next ==
  \/ \E r \in Request : \/ Arrive(r) \/ ServerStep(r)
                        \/ CallFails(r) \/ CallTimesOut(r) \/ LateCall(r) \/ WorkerDies(r)
  \/ \E k \in Key : RecordExpires(k)

Spec == Init /\ [][Next]_vars

-----------------------------------------------------------------------------
(***************************************************************************)
(* Properties.                                                             *)
(***************************************************************************)
\* The write of a request is complete: its return order has every line of the
\* body, its message is sent.
Whole(r) ==
  IF IsReturn(r)
  THEN docs[r] # None /\ \A n \in 1..Len(cmd[r].lines) :
                           docs[r][cmd[r].lines[n].line] = cmd[r].lines[n].quantity
  ELSE r \in sent
Untouched(r) == docs[r] = None /\ r \notin sent \cup overdue

\* A 201 has its whole write behind it, and a return its audit row; one that is
\* given from the table has a whole write of its own kind, made by another
\* request under its key; and a request that is refused or served from the table
\* writes nothing, not even late.
AnswerIsGenuine ==
  \A r \in Request :
    /\ stage[r] = "answered" => Whole(r) /\ (IsReturn(r) => r \in audit)
    /\ stage[r] = "replayed" =>
         \E q \in Request \ {r} : SameKey(r, q) /\ Whole(q) /\ (IsReturn(q) <=> IsReturn(r))
    /\ stage[r] \in {"replayed", "refused"} => Untouched(r)

\* Whatever fails half-way or arrives late, a return order has no line but those
\* its body names, in their order and with none left out in between, and gives
\* back no more of a line than the receipt has.
ReturnFitsReceipt ==
  \A r \in Request : docs[r] # None =>
    /\ \A n \in 1..Len(cmd[r].lines) :
         docs[r][cmd[r].lines[n].line] # 0 \/ n > at[r]
    /\ \A l \in Line : docs[r][l] > 0 =>
         /\ docs[r][l] <= Received[l]
         /\ \E n \in 1..at[r] : cmd[r].lines[n] = [line |-> l, quantity |-> docs[r][l]]

\* A request that has started ends if its worker goes on: every step of the service
\* uses up one of the finitely many a request has, one for each line of its body and
\* one for each other call, and nothing gives one back, a late call as little as the
\* requests under the same key.
StepsAfter(s) ==
  CASE s = "idle" -> 12       [] s = "checking" -> 11   [] s = "purging" -> 10
    [] s = "validating" -> 9  [] s = "making" -> 8      [] s = "sending" -> 7
    [] s = "remarking" -> 6   [] s = "reading" -> 5     [] s = "posting" -> 5
    [] s = "saving" -> 4      [] s = "comparing" -> 3   [] s = "repurging" -> 2
    [] s = "auditing" -> 1    [] OTHER -> 0
LinesAhead(r) ==
  IF stage[r] \in {"idle", "checking", "purging", "validating", "making", "sending"}
  THEN Len(cmd[r].lines) - at[r] ELSE 0
Left(r) == StepsAfter(stage[r]) + LinesAhead(r)
StepsRunOut ==
  [][\A r \in Request : /\ Left(r)' \in 0..Left(r)
                        /\ ServerStep(r) => Left(r)' # Left(r)]_vars

-----------------------------------------------------------------------------
(***************************************************************************)
(* The inductive invariant.                                                *)
(***************************************************************************)
Unwritten == {"idle", "checking", "purging", "validating", "making", "posting",
              "replayed", "refused"}
Made == {"remarking", "reading"}
Storing == {"saving", "comparing", "repurging"}
Written == {"auditing", "answered"} \cup Storing

\* What a request has done at each stage.
RequestInv(r) ==
  /\ stage[r] \in Unwritten => docs[r] = None /\ r \notin sent
  /\ r \in overdue => stage[r] = "failed"
  /\ stage[r] \in {"validating", "making", "sending"} \cup Made => IsReturn(r)
  /\ stage[r] = "posting" => ~IsReturn(r)
  /\ stage[r] \in {"checking", "purging", "replayed"} \cup Storing => Keyed(r)
  /\ stage[r] \in {"sending"} \cup Made => docs[r] # None
  /\ stage[r] = "sending" \/ (IsReturn(r) /\ r \in overdue /\ docs[r] # None) =>
       at[r] < Len(cmd[r].lines)
  /\ stage[r] \in Made => at[r] = Len(cmd[r].lines)
  /\ stage[r] \in Written => Whole(r)
  /\ stage[r] = "answered" /\ IsReturn(r) => r \in audit

\* What a return order holds are the first lines of its body, validated.
Valid(r) == \A n \in 1..Len(cmd[r].lines) : LineAllowed(cmd[r].lines[n])
Ordered(r, n) == docs[r][cmd[r].lines[n].line] = cmd[r].lines[n].quantity
DocumentInv(r) ==
  /\ stage[r] \in {"making", "sending"} \cup Made => Valid(r)
  /\ docs[r] # None \/ (r \in overdue /\ IsReturn(r)) => Valid(r)
  /\ docs[r] = None => at[r] = 0
  /\ docs[r] # None =>
       /\ at[r] <= Len(cmd[r].lines)
       /\ \A n \in 1..at[r] : Ordered(r, n)
       /\ \A l \in Line : docs[r][l] > 0 => \E n \in 1..at[r] : cmd[r].lines[n].line = l

\* What is given from the table was whole under the same key when it was stored.
ReplayInv(r) ==
  stage[r] = "replayed" =>
    \E q \in Request \ {r} : SameKey(r, q) /\ Whole(q) /\ (IsReturn(q) <=> IsReturn(r))

\* What the table holds is whole.
RecordInv(k) == idem[k] \in Request => cmd[idem[k]].key = k /\ Whole(idem[k])

IInv ==
  /\ TypeOK
  /\ \A r \in Request : RequestInv(r) /\ DocumentInv(r) /\ ReplayInv(r)
  /\ \A k \in Key : RecordInv(k)

-----------------------------------------------------------------------------
(***************************************************************************)
(* Refinement: what a client, the ERP or Front, and the tables show of a   *)
(* write.  A record of another endpoint is no reply of these.              *)
(***************************************************************************)
PhaseOf(s) == IF s \in Ended THEN s ELSE "open"
Begun(r) == docs[r] # None \/ r \in sent

Contract == INSTANCE UpdateContract WITH
  keyOf <- [r \in Request |-> cmd[r].key],
  owes <- {r \in Request : IsReturn(r)},
  phase <- [r \in Request |-> PhaseOf(stage[r])],
  begun <- {r \in Request : Begun(r)},
  whole <- {r \in Request : Whole(r)},
  audited <- audit,
  ledger <- [k \in Key |-> IF idem[k] \in Request THEN idem[k] ELSE None]

\* Returns and replies implement the contract of a write, step by step: a 201 has its
\* whole return order and its audit row, or its message, behind it, or repeats the
\* reply of a request that has.
ImplementsContract == Contract!Spec

-----------------------------------------------------------------------------
(***************************************************************************)
(* What the documents say and the code does not do.                        *)
(***************************************************************************)
\* README.md:439 "All write operations support idempotency via the `Idempotency-Key`
\* header": a request that looks its key up after another one under it has ended, its
\* write made, does not make that write again.
WriteIsNotRepeated ==
  [][\A r, q \in Request :
       /\ SameKey(r, q) /\ cmd[q].kind = cmd[r].kind
       /\ stage[q] \in Ended /\ Whole(q)
       /\ stage[r] = "checking"
       => stage'[r] # Start(r)]_vars
=============================================================================
