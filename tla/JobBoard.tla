------------------------------ MODULE JobBoard ------------------------------
(***************************************************************************)
(* What the autopilot promises of its tables, whatever the statements and  *)
(* locks it takes: a request changes them at most once and all at once.    *)
(*                                                                         *)
(* A plan takes the place of the plans it has found, and of nothing that   *)
(* came after it looked.  A job is handed out with a decision for it, by a *)
(* request to which it was on offer: when that request looked, the job was *)
(* planned, or its plan was not on the board.  What was given up or        *)
(* cancelled never becomes planned again.                                  *)
(*                                                                         *)
(* It does not promise that a plan that is published cancels the one       *)
(* before, that a job that is handed out gets its mark, that a mark is on  *)
(* the right job when the plan is not on the board, nor that a job is      *)
(* handed out only once: the code does none of these.                      *)
(***************************************************************************)
CONSTANTS Request, Batch, Op, Machine, None

VARIABLES
  row,      \* the jobs on the board
  decision, \* the job each request was given
  ignores,  \* operations not to be suggested for a while
  up,       \* the machines in service
  found,    \* the plans that a new plan takes the place of
  offer,    \* the jobs each request may be given
  done      \* the requests that have changed the board

vars == <<row, decision, ignores, up, found, offer, done>>

Job == [batch : Batch, op : Op]
PlannedRow == [machine : Machine, status : {"planned"}, decision : {None}]

OnBoard(b) == \E o \in Op : row[b][o] # None
IsPlanned(b, o) == row[b][o] # None /\ row[b][o].status = "planned"

Put(b, o, x) == row' = [c \in Batch |-> [p \in Op |->
                          IF c = b /\ p = o THEN x ELSE row[c][p]]]
Finish(r) == r \notin done /\ done' = done \cup {r}

Init ==
  /\ row \in [Batch -> [Op -> PlannedRow \cup {None}]]
  /\ \A r \in Request : ~OnBoard(r)
  /\ decision = [r \in Request |-> None]
  /\ ignores = {}
  /\ up = [m \in Machine |-> TRUE]
  /\ found = [r \in Request |-> {}]
  /\ offer = [r \in Request |-> {}]
  /\ done = {}

\* A planner looks which plans there are, or forgets what it has found.
Survey(r) ==
  /\ r \notin done /\ found[r] = {}
  /\ found' = [found EXCEPT ![r] = {b \in Batch : OnBoard(b)}]
  /\ UNCHANGED <<row, decision, ignores, up, offer, done>>

Abandon(r) ==
  /\ r \notin done
  /\ found' = [found EXCEPT ![r] = {}]
  /\ UNCHANGED <<row, decision, ignores, up, offer, done>>

Cancelled(x) == [x EXCEPT !.status = "cancelled"]

Publish(r) ==
  /\ Finish(r) /\ ~OnBoard(r)
  /\ \E new \in [Op -> PlannedRow \cup {None}] :
       row' = [b \in Batch |-> [o \in Op |->
                 IF b = r THEN new[o]
                 ELSE IF b \in found[r] /\ IsPlanned(b, o) THEN Cancelled(row[b][o])
                 ELSE row[b][o]]]
  /\ UNCHANGED <<decision, ignores, up, found, offer>>

\* A request looks at one plan, and leaves out what does not suit.
Look(r) ==
  /\ r \notin done /\ offer[r] = {}
  /\ \E b \in Batch : \E S \in SUBSET {o \in Op : IsPlanned(b, o) \/ ~OnBoard(b)} :
       offer' = [offer EXCEPT ![r] = {[batch |-> b, op |-> o] : o \in S}]
  /\ UNCHANGED <<row, decision, ignores, up, found, done>>

LeaveOut(r) ==
  /\ r \notin done
  /\ \E S \in SUBSET offer[r] : offer' = [offer EXCEPT ![r] = S]
  /\ UNCHANGED <<row, decision, ignores, up, found, done>>

Mark(r, b, o) ==
  /\ row[b][o] # None
  /\ Put(b, o, [row[b][o] EXCEPT !.status = "dispatched", !.decision = r])

HandOut(r) ==
  /\ Finish(r)
  /\ \E job \in offer[r] :
       /\ decision' = [decision EXCEPT ![r] = job]
       /\ \/ row' = row
          \/ \E b \in Batch, o \in Op :
               (OnBoard(job.batch) => job = [batch |-> b, op |-> o]) /\ Mark(r, b, o)
  /\ UNCHANGED <<ignores, up, found, offer>>

Skip(b, o, d) ==
  Put(b, o, [row[b][o] EXCEPT !.status = "skipped", !.decision = IF d = None THEN @ ELSE d])

\* Any job on the board may be given up, in the name of any decision.
GiveUp(r) ==
  /\ Finish(r)
  /\ \E b \in Batch, o \in Op :
       /\ row[b][o] # None
       /\ ignores' \in {ignores, ignores \cup {o}}
       /\ \/ row' = row
          \/ \E d \in {None} \cup {q \in Request : decision[q] # None} : Skip(b, o, d)
  /\ UNCHANGED <<decision, up, found, offer>>

SetMachine(r) ==
  /\ Finish(r)
  /\ \E m \in Machine, isUp \in BOOLEAN : up' = [up EXCEPT ![m] = isUp]
  /\ UNCHANGED <<row, decision, ignores, found, offer>>

ChangeNothing(r) ==
  /\ Finish(r)
  /\ UNCHANGED <<row, decision, ignores, up, found, offer>>

RunOut(o) ==
  /\ ignores' = ignores \ {o}
  /\ UNCHANGED <<row, decision, up, found, offer, done>>

Next ==
  \/ \E r \in Request : \/ Survey(r) \/ Abandon(r) \/ Publish(r) \/ Look(r) \/ LeaveOut(r)
                        \/ HandOut(r) \/ GiveUp(r) \/ SetMachine(r) \/ ChangeNothing(r)
  \/ \E o \in Op : RunOut(o)

Spec == Init /\ [][Next]_vars
=============================================================================
