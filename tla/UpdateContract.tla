--------------------------- MODULE UpdateContract ---------------------------
(***************************************************************************)
(* What the platform promises of a write, whatever the calls it takes and  *)
(* whichever endpoint it comes by: the update of a line, a receipt, a      *)
(* return, a message.  Nobody is answered before the system outside holds  *)
(* the whole of the change and, where the endpoint owes one, the audit     *)
(* trail has its row; no row comes another way.  A reply is repeated only  *)
(* while the ledger remembers a request that is whole under the same key.  *)
(* A request that was refused or repeated never changes anything.          *)
(*                                                                         *)
(* It does not promise that a request that fails has changed nothing, or   *)
(* all of it or nothing, nor that a key changes things only once: the code *)
(* does none of these.                                                     *)
(***************************************************************************)
CONSTANTS Request, Key, None

VARIABLES
  keyOf,    \* the key of each request, never changes
  owes,     \* the requests whose answer owes an audit row, never changes
  phase,    \* what the client knows: open, answered, replayed, refused, failed
  begun,    \* the requests of whose change the system outside has something
  whole,    \* the requests of whose change it has everything
  audited,  \* the requests the audit trail names
  ledger    \* per key, the request whose reply is kept

effect == <<begun, whole>>
vars == <<keyOf, owes, phase, begun, whole, audited, ledger>>

Init ==
  /\ phase = [r \in Request |-> "open"]
  /\ begun = {} /\ whole = {}
  /\ audited = {}
  /\ ledger = [k \in Key |-> None]

Takes(r) == begun' = begun \cup {r} /\ whole' \in {whole, whole \cup {r}}
MayTake(r) == Takes(r) \/ UNCHANGED effect
End(r, p) == phase[r] = "open" /\ phase' = [phase EXCEPT ![r] = p]

\* The system outside takes some of the change, perhaps after it was given up.
TakeEffect(r) ==
  /\ phase[r] \in {"open", "failed"}
  /\ Takes(r)
  /\ UNCHANGED <<keyOf, owes, phase, audited, ledger>>

Remember(r) ==
  /\ phase[r] = "open" /\ r \in whole
  /\ keyOf[r] \in Key /\ ledger[keyOf[r]] = None
  /\ ledger' = [ledger EXCEPT ![keyOf[r]] = r]
  /\ UNCHANGED <<keyOf, owes, phase, effect, audited>>

Forget(k) ==
  /\ ledger' = [ledger EXCEPT ![k] = None]
  /\ UNCHANGED <<keyOf, owes, phase, effect, audited>>

Answer(r) ==
  /\ End(r, "answered")
  /\ MayTake(r) /\ r \in whole'
  /\ audited' = audited \cup ({r} \cap owes)
  /\ UNCHANGED <<keyOf, owes, ledger>>

Replay(r) ==
  /\ End(r, "replayed") /\ r \notin begun
  /\ keyOf[r] \in Key /\ ledger[keyOf[r]] # None
  /\ UNCHANGED <<keyOf, owes, effect, audited, ledger>>

Refuse(r) ==
  /\ End(r, "refused") /\ r \notin begun
  /\ UNCHANGED <<keyOf, owes, effect, audited, ledger>>

Fail(r) ==
  /\ End(r, "failed")
  /\ MayTake(r)
  /\ UNCHANGED <<keyOf, owes, audited, ledger>>

Next ==
  \/ \E r \in Request : TakeEffect(r) \/ Remember(r) \/ Answer(r) \/ Replay(r)
                        \/ Refuse(r) \/ Fail(r)
  \/ \E k \in Key : Forget(k)

Spec == Init /\ [][Next]_vars
=============================================================================
