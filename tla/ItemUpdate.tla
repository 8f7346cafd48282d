----------------------------- MODULE ItemUpdate -----------------------------
(***************************************************************************)
(* POST /items/{id}/update, /items/purchased and /items/manufactured:      *)
(* ItemService on the item card of Business Central.  An update reads the  *)
(* item, compares the values the client expects, and sends one PATCH with  *)
(* the ETag it has read.  A creation copies a template where there is no   *)
(* item; a purchased one then reads the copy and patches its data in.      *)
(* There is no transaction around these calls, no retry and nothing is     *)
(* undone; requests of all workers and people in the ERP interleave.       *)
(*                                                                         *)
(* Business Central gives an ETag with every item it returns as            *)
(* application/json, so the fall-back "*" of update_item is not used; it   *)
(* is the item's version here.  Items are not deleted.                     *)
(***************************************************************************)
EXTENDS Integers, Sequences

CONSTANTS
  Request,
  Item,
  Field, Value, \* the fields a client may change, and what they hold
  None,
  Template,     \* the fields of a copy of the template
  Command,      \* the bodies clients send
  Mix,          \* what requests may arrive together
  EditLimit,    \* people edit an item only up to this version of it
  Faults        \* the kinds of failure that may happen

FaultKind == {"read", "slow", "refusal", "write", "crash"}
Fields == [Field -> Value]
ItemState == [fields : Fields, version : Nat]
Change == [field : Field, expected : Value \cup {None}, new : Value]

ASSUME TemplateAssumption == Template \in Fields
ASSUME CommandAssumption ==
  Command \subseteq [kind : {"update", "purchased", "manufactured"}, item : Item,
                     changes : Seq(Change)]
ASSUME BodyAssumption == \A c \in Command : c.kind # "manufactured" => Len(c.changes) > 0
ASSUME MixAssumption == Mix \subseteq [Request -> Command]
ASSUME BoundAssumption == EditLimit \in Nat /\ Faults \subseteq FaultKind
ASSUME DistinctAssumption == None \notin ItemState \cup Fields

VARIABLES
  items,      \* ERP: the item cards
  cmd,        \* the body of each request
  stage,      \* where each request is
  seen,       \* the item each request has read last
  latePatch,  \* requests whose PATCH is under way though nobody waits for it
  lateCopy,   \* requests whose copy is under way though nobody waits for it
  made,       \* observation: the requests whose copy was made
  applied     \* observation: the requests whose PATCH was applied

erpVars == <<items, made, applied>>
underWay == <<latePatch, lateCopy>>
vars == <<items, cmd, stage, seen, latePatch, lateCopy, made, applied>>

Stage == {"idle", "reading", "copying", "checking", "patching", "reloading",
          "answered", "conflict", "failed"}
Ended == {"answered", "conflict", "failed"}

TypeOK ==
  /\ items \in [Item -> ItemState \cup {None}]
  /\ cmd \in [Request -> Command]
  /\ stage \in [Request -> Stage]
  /\ seen \in [Request -> ItemState \cup {None}]
  /\ latePatch \subseteq Request /\ lateCopy \subseteq Request
  /\ made \subseteq Request /\ applied \subseteq Request

Copied == [fields |-> Template, version |-> 1]

Init ==
  /\ items \in [Item -> {None, Copied}]
  /\ cmd \in Mix
  /\ stage = [r \in Request |-> "idle"]
  /\ seen = [r \in Request |-> None]
  /\ latePatch = {} /\ lateCopy = {}
  /\ made = {} /\ applied = {}

GoTo(r, s) == stage' = [stage EXCEPT ![r] = s]
Card(r) == items[cmd[r].item]
Note(r) == seen' = [seen EXCEPT ![r] = Card(r)]

-----------------------------------------------------------------------------
(***************************************************************************)
(* ItemService.                                                            *)
(***************************************************************************)
Arrive(r) ==
  /\ stage[r] = "idle"
  /\ GoTo(r, "reading")
  /\ UNCHANGED <<cmd, seen, erpVars, underWay>>

\* A change without an expected value is taken as it is.
Meets(fields, changes) ==
  \A n \in 1..Len(changes) : changes[n].expected \in {None, fields[changes[n].field]}

ReadForUpdate(r) ==
  /\ stage[r] = "reading" /\ cmd[r].kind = "update"
  /\ Note(r)
  /\ \/ Card(r) = None /\ GoTo(r, "failed")
     \/ /\ Card(r) # None
        /\ GoTo(r, IF Meets(Card(r).fields, cmd[r].changes) THEN "patching" ELSE "conflict")
  /\ UNCHANGED <<cmd, erpVars, underWay>>

LookUp(r) ==
  /\ stage[r] = "reading" /\ cmd[r].kind # "update"
  /\ Note(r)
  /\ GoTo(r, IF Card(r) = None THEN "copying" ELSE "conflict")
  /\ UNCHANGED <<cmd, erpVars, underWay>>

MakeCopy(r) ==
  /\ items' = [items EXCEPT ![cmd[r].item] = Copied]
  /\ made' = made \cup {r}
  /\ UNCHANGED applied

\* The copy is made, or the ERP has the item by now and refuses it.
CopyTemplate(r) ==
  /\ stage[r] = "copying"
  /\ \/ /\ Card(r) = None
        /\ MakeCopy(r)
        /\ GoTo(r, IF cmd[r].kind = "purchased" THEN "checking" ELSE "reloading")
     \/ /\ Card(r) # None
        /\ \E s \in {"conflict", "failed"} : GoTo(r, s)
        /\ UNCHANGED erpVars
  /\ UNCHANGED <<cmd, seen, underWay>>

\* After a second, the copy is read for its system id and its ETag.
ReadCopy(r) ==
  /\ stage[r] = "checking"
  /\ Note(r)
  /\ GoTo(r, "patching")
  /\ UNCHANGED <<cmd, erpVars, underWay>>

\* The ERP does not show the copy, or the changed item, yet.
NotFound(r) ==
  /\ "slow" \in Faults /\ stage[r] \in {"checking", "reloading"}
  /\ GoTo(r, "failed")
  /\ UNCHANGED <<cmd, seen, erpVars, underWay>>

Unchanged(r) == Card(r) # None /\ Card(r).version = seen[r].version

\* Mutant of With: the expected value is written.
WithExpected(fields, changes) ==
  [f \in Field |->
     LET given == {n \in 1..Len(changes) : changes[n].field = f} IN
     IF given = {} THEN fields[f] ELSE changes[CHOOSE n \in given : TRUE].expected]

\* The payload has one value for each field, the last one given.
With(fields, changes) ==
  [f \in Field |->
     LET given == {n \in 1..Len(changes) : changes[n].field = f} IN
     IF given = {} THEN fields[f]
     ELSE changes[CHOOSE n \in given : \A m \in given : m <= n].new]

Patched(card, changes) ==
  [fields |-> With(card.fields, changes), version |-> card.version + 1]

ApplyPatch(r) ==
  /\ items' = [items EXCEPT ![cmd[r].item] = Patched(Card(r), cmd[r].changes)]
  /\ applied' = applied \cup {r}
  /\ UNCHANGED made

\* Mutant of PatchItem: the PATCH is sent without the ETag.
PatchAnyVersion(r) ==
  /\ stage[r] = "patching"
  /\ ApplyPatch(r) /\ GoTo(r, "reloading")
  /\ UNCHANGED <<cmd, seen, underWay>>

\* If-Match: the item must be the one that was read.
PatchItem(r) ==
  /\ stage[r] = "patching"
  /\ \/ Unchanged(r) /\ ApplyPatch(r) /\ GoTo(r, "reloading")
     \/ /\ ~Unchanged(r)
        /\ \E s \in {"conflict", "failed"} : GoTo(r, s)
        /\ UNCHANGED erpVars
  /\ UNCHANGED <<cmd, seen, underWay>>

Reload(r) ==
  /\ stage[r] = "reloading"
  /\ GoTo(r, "answered")
  /\ UNCHANGED <<cmd, seen, erpVars, underWay>>

ReadFails(r) ==
  /\ "read" \in Faults /\ stage[r] \in {"reading", "checking", "reloading"}
  /\ GoTo(r, "failed")
  /\ UNCHANGED <<cmd, seen, erpVars, underWay>>

\* Mutant of WriteTimesOut: a PATCH without an answer is sent again.
PatchAgain(r) ==
  /\ "write" \in Faults
  /\ \/ stage[r] = "copying" /\ GoTo(r, "failed")
        /\ lateCopy' = lateCopy \cup {r} /\ UNCHANGED latePatch
     \/ stage[r] = "patching" /\ UNCHANGED stage
        /\ latePatch' = latePatch \cup {r} /\ UNCHANGED lateCopy
  /\ UNCHANGED <<cmd, seen, erpVars>>

\* A call without an answer fails the request; the ERP may still do it, or not.
WriteTimesOut(r) ==
  /\ "write" \in Faults
  /\ \/ stage[r] = "copying" /\ lateCopy' = lateCopy \cup {r} /\ UNCHANGED latePatch
     \/ stage[r] = "patching" /\ latePatch' = latePatch \cup {r} /\ UNCHANGED lateCopy
  /\ GoTo(r, "failed")
  /\ UNCHANGED <<cmd, seen, erpVars>>

\* The template is missing, or the ERP's own rules do not take the values.
WriteRefused(r) ==
  /\ "refusal" \in Faults /\ stage[r] \in {"copying", "patching"}
  /\ GoTo(r, "failed")
  /\ UNCHANGED <<cmd, seen, erpVars, underWay>>

WorkerDies(r) ==
  /\ "crash" \in Faults /\ stage[r] \notin Ended \cup {"idle"}
  /\ GoTo(r, "failed")
  /\ UNCHANGED <<cmd, seen, erpVars, underWay>>

-----------------------------------------------------------------------------
(***************************************************************************)
(* The ERP.                                                                *)
(***************************************************************************)
DeliverLatePatch(r) ==
  /\ r \in latePatch
  /\ latePatch' = latePatch \ {r}
  /\ IF Unchanged(r) THEN ApplyPatch(r) ELSE UNCHANGED erpVars
  /\ UNCHANGED <<cmd, stage, seen, lateCopy>>

DeliverLateCopy(r) ==
  /\ r \in lateCopy
  /\ lateCopy' = lateCopy \ {r}
  /\ IF Card(r) = None THEN MakeCopy(r) ELSE UNCHANGED erpVars
  /\ UNCHANGED <<cmd, stage, seen, latePatch>>

\* People, or other programs, change a field of the item card.
Edit(i) ==
  /\ items[i] # None /\ items[i].version < EditLimit
  /\ \E f \in Field, v \in Value :
       items' = [items EXCEPT ![i] = [fields |-> [items[i].fields EXCEPT ![f] = v],
                                      version |-> items[i].version + 1]]
  /\ UNCHANGED <<cmd, stage, seen, made, applied, underWay>>

ServerStep(r) ==
  \/ ReadForUpdate(r) \/ LookUp(r) \/ CopyTemplate(r) \/ ReadCopy(r)
  \/ PatchItem(r) \/ Reload(r)

Failure(r) ==
  NotFound(r) \/ ReadFails(r) \/ WriteRefused(r) \/ WriteTimesOut(r) \/ WorkerDies(r)

Next ==
  \/ \E r \in Request : Arrive(r) \/ ServerStep(r) \/ Failure(r)
                        \/ DeliverLatePatch(r) \/ DeliverLateCopy(r)
  \/ \E i \in Item : Edit(i)

Spec == Init /\ [][Next]_vars

-----------------------------------------------------------------------------
(***************************************************************************)
(* Properties.                                                             *)
(***************************************************************************)
Contract == INSTANCE ItemContract WITH
  value <- [i \in Item |-> IF items[i] = None THEN None ELSE items[i].fields],
  basis <- [r \in Request |-> IF seen[r] = None THEN None ELSE seen[r].fields],
  done <- applied

\* Whatever is edited, lost or late, a request's changes go in together, once, and
\* onto the very values it has read and accepted; a copy goes only where there is
\* no item, and a new item's data onto the copy of its own request.
ImplementsItemContract == Contract!Spec

\* What the status says is so, now and later: a 200 or 201 has its copy and its
\* changes in the ERP; a 409 to an update, or to a creation whose copy was not
\* made, has written nothing, and nothing of it is still under way.
OutcomeIsHonest ==
  \A r \in Request :
    /\ stage[r] = "answered" =>
         /\ cmd[r].kind # "update" => r \in made
         /\ cmd[r].kind # "manufactured" => r \in applied
    /\ stage[r] = "conflict" =>
         r \notin applied \cup latePatch \cup lateCopy

-----------------------------------------------------------------------------
(***************************************************************************)
(* The inductive invariant.                                                *)
(***************************************************************************)
\* Versions only grow, and each stands for one set of fields.
SeenInv ==
  \A r \in Request : seen[r] # None =>
    /\ Card(r) # None
    /\ seen[r].version <= Card(r).version
    /\ seen[r].version = Card(r).version => seen[r].fields = Card(r).fields

\* A PATCH is sent by requests that have read and accepted the item.
Sends(r) == stage[r] = "patching" \/ r \in latePatch
PatchInv ==
  \A r \in Request : Sends(r) =>
    /\ seen[r] # None /\ r \notin applied
    /\ IF cmd[r].kind = "update" THEN Meets(seen[r].fields, cmd[r].changes) ELSE r \in made

\* What a request has done at each stage.
StageInv ==
  \A r \in Request :
    /\ r \in latePatch \cup lateCopy => stage[r] = "failed"
    /\ r \notin latePatch \/ r \notin lateCopy
    /\ stage[r] \in {"idle", "reading", "copying"} \/ r \in lateCopy =>
         r \notin made \cup applied
    /\ stage[r] \in {"copying", "checking"} \/ r \in lateCopy \cup made => cmd[r].kind # "update"
    /\ stage[r] = "checking" => r \in made /\ r \notin applied
    /\ stage[r] = "conflict" => r \notin applied
    /\ stage[r] \in {"reloading", "answered"} =>
         /\ cmd[r].kind # "update" => r \in made
         /\ cmd[r].kind # "manufactured" => r \in applied

\* A copy stays.
MadeInv == \A r \in made : Card(r) # None

\* Of all the requests to create an item, at most one makes it, even when copies
\* arrive late, and data are patched into a new item by the request that made it.
OneMaker ==
  /\ \A q, r \in made : cmd[q].item = cmd[r].item => q = r
  /\ \A r \in applied : cmd[r].kind # "update" => r \in made

IInv == TypeOK /\ SeenInv /\ PatchInv /\ StageInv /\ MadeInv /\ OneMaker
=============================================================================
