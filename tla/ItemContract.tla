---------------------------- MODULE ItemContract ----------------------------
(***************************************************************************)
(* What the platform promises of the items it writes to, whatever the      *)
(* steps it takes: a request's changes are made together, at most once,    *)
(* and to exactly the values the request has looked at and accepted; an    *)
(* item is made at most once, where there is none, and the data of a new   *)
(* item go to the copy that the same request has made.  It does not        *)
(* promise that an item that is made gets its data.                        *)
(***************************************************************************)
EXTENDS Integers, Sequences

CONSTANTS Request, Item, Field, Value, None, Template, Command

VARIABLES
  cmd,   \* what each request asks, never changes
  value, \* the fields of each item, None where there is no item
  basis, \* the fields each request has looked at last
  made,  \* the requests that have made their item
  done   \* the requests whose changes are in

vars == <<cmd, value, basis, made, done>>

Creates(r) == cmd[r].kind # "update"

\* The changes of a command, the last one of each field.
After(fields, changes) ==
  [f \in Field |->
     LET given == {n \in 1..Len(changes) : changes[n].field = f} IN
     IF given = {} THEN fields[f]
     ELSE changes[CHOOSE n \in given : \A m \in given : m <= n].new]

Accepts(r, fields) ==
  \A n \in 1..Len(cmd[r].changes) :
    LET c == cmd[r].changes[n] IN c.expected = None \/ c.expected = fields[c.field]

Init ==
  /\ cmd \in [Request -> Command]
  /\ value \in [Item -> {None, Template}]
  /\ basis = [r \in Request |-> None]
  /\ made = {}
  /\ done = {}

Look(r) ==
  /\ r \notin done
  /\ basis' = [basis EXCEPT ![r] = value[cmd[r].item]]
  /\ UNCHANGED <<cmd, value, made, done>>

Make(r) ==
  /\ Creates(r) /\ r \notin made \cup done /\ value[cmd[r].item] = None
  /\ value' = [value EXCEPT ![cmd[r].item] = Template]
  /\ made' = made \cup {r}
  /\ UNCHANGED <<cmd, basis, done>>

Change(r) ==
  LET i == cmd[r].item IN
  /\ r \notin done
  /\ basis[r] # None /\ value[i] = basis[r]
  /\ IF Creates(r) THEN r \in made ELSE Accepts(r, basis[r])
  /\ value' = [value EXCEPT ![i] = After(basis[r], cmd[r].changes)]
  /\ done' = done \cup {r}
  /\ UNCHANGED <<cmd, basis, made>>

\* Somebody else changes the item in the ERP.
Edit(i) ==
  /\ value[i] # None
  /\ \E fields \in [Field -> Value] : value' = [value EXCEPT ![i] = fields]
  /\ UNCHANGED <<cmd, basis, made, done>>

Next ==
  \/ \E r \in Request : Look(r) \/ Make(r) \/ Change(r)
  \/ \E i \in Item : Edit(i)

Spec == Init /\ [][Next]_vars
=============================================================================
