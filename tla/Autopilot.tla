----------------------------- MODULE Autopilot -----------------------------
(***************************************************************************)
(* The Fastems1 autopilot: POST /plan/refresh, /next, /refuse and          *)
(* /machine/status on the tables AutopilotPlannedJob, AutopilotDecision,   *)
(* AutopilotJobIgnore and AutopilotMachineStatus.                          *)
(*                                                                         *)
(* The four endpoints are coroutines that call the database synchronously: *)
(* a statement that waits for a row lock holds the event loop of its       *)
(* worker.  What a request wrote stays locked until its session commits,   *)
(* which the dependency get_autopilot_session does on a thread after the   *)
(* endpoint has returned, once the event loop has come back to it.         *)
(*                                                                         *)
(* Sessions are READ COMMITTED (db.py): a query waits, with the event loop *)
(* held, for rows that an open session has written, unless the server is   *)
(* set to give it the rows before (ReadersWait).  It is taken to see one   *)
(* state of its table, the one in which it ends.                           *)
(*                                                                         *)
(* An operation stands for (work order, part, operation), the job key.     *)
(* Which of the eligible jobs scores best is left open, as are pallets.    *)
(***************************************************************************)
EXTENDS Integers, FiniteSets

CONSTANTS
  Request,   \* HTTP requests; a plan batch is named by the request that made it
  FirstPlan, \* the batch an earlier refresh left, if any
  Worker,    \* uvicorn workers (entrypoint.sh)
  Op,        \* operations of the production system
  PlainOp,   \* those whose part code is the decimal PartId of the tables
  Machine,
  None,
  Order,     \* the order of the production API's list and of DEFAULT_MACHINE_IDS
  Allowed,   \* the machines an operation may run on
  Limit,     \* fastems1_plan_jobs_per_machine, 0 for no limit
  ReadersWait, \* the server keeps a query waiting for rows that are not committed
  Mix,       \* what requests may arrive together, and at which workers
  Faults     \* the kinds of failure that may happen

Kind == {"refresh", "next", "refuse", "status"}
FaultKind == {"read", "write", "commit", "http", "crash"}
Batch == Request \cup {FirstPlan}
Row == [machine : Machine, status : {"planned", "dispatched", "skipped", "cancelled"},
        decision : Request \cup {None}]
Rows == [Batch -> [Op -> Row \cup {None}]]
Target == [batch : Batch, op : Op]
Nothing == [batch |-> None, op |-> None]
Aim == [batch : Batch, op : Op \cup {None}] \cup {Nothing}
Setting == [machine : Machine, up : BOOLEAN]

ASSUME OrderAssumption ==
  /\ Order \in [Op \cup Machine -> Nat]
  /\ \A S \in (SUBSET Machine) \ {{}} : \E m \in S : \A n \in S : Order[m] <= Order[n]
ASSUME AllowedAssumption == Allowed \in [Op -> SUBSET Machine] /\ PlainOp \subseteq Op
ASSUME MixAssumption ==
  /\ ReadersWait \in BOOLEAN
  /\ Limit \in Nat /\ Faults \subseteq FaultKind
  /\ Mix \subseteq [kind : [Request -> Kind], place : [Request -> Worker]]
ASSUME DistinctAssumption == /\ FirstPlan \notin Request
                             /\ None \notin Row \cup Batch \cup Op \cup Machine
                             /\ None \notin Target \cup Setting

VARIABLES
  kind,     \* what each request asks
  place,    \* the worker that serves it
  active,   \* operations the production API lists
  plan,     \* AutopilotPlannedJob, committed
  stamp,    \* TsPlannedUtc of each batch, 0 before it is made
  now,      \* the last of these
  decision, \* AutopilotDecision: the job each request decided for, committed
  ignores,  \* AutopilotJobIgnore: operations with an ignore that has not run out
  up,       \* AutopilotMachineStatus
  memory,   \* _memory_state of each worker: its latest batch that was not stored
  stage,    \* where each request is
  loop,     \* the request that holds the event loop between two statements
  dirty,    \* rows each open transaction has written, and thereby locked
  inserted, \* the transaction's decision, ignore or machine status is written
  target,   \* the job a next or refuse is about
  given,    \* the decision a refusal names
  setting,  \* the machine status a request sets
  view,     \* the jobs a next works with
  draft,    \* the machine a refresh plans each operation for
  known,    \* observation: decisions committed when a next listed the jobs
  barred,   \* observation: ignores in force since a next arrived
  retired,  \* observation: the batches a refresh has retired
  unmarked, \* observation: the requests whose job could not be marked
  blind     \* observation: the requests whose query for ignores failed

tables == <<plan, stamp, now, decision, ignores, up>>
world == <<kind, place, active>>
locals == <<target, given, setting, view, draft>>
ghosts == <<known, barred, retired, unmarked, blind>>
vars == <<kind, place, active, plan, stamp, now, decision, ignores, up, memory, stage, loop,
          dirty, inserted, target, given, setting, view, draft,
          known, barred, retired, unmarked, blind>>

\* Once it has "returned", all that is left to an endpoint is to build its answer,
\* with an await if /next was asked for details, and to leave its session.
Stage == {"idle", "planning", "checking", "picking", "retiring", "inserting",
          "asking", "listing", "hydrating", "filtering", "scoring", "marking",
          "seeking", "skipping", "upserting", "relisting",
          "returned", "committing", "answered", "declined", "failed", "lost"}
Ended == {"answered", "declined", "failed", "lost"}

WorldType == [kind |-> kind, place |-> place] \in Mix /\ active \subseteq Op
TablesType == /\ plan \in Rows
              /\ stamp \in [Batch -> Nat] /\ now \in Nat
              /\ decision \in [Request -> Target \cup {None}]
              /\ ignores \subseteq Op
              /\ up \in [Machine -> BOOLEAN]
ControlType == /\ memory \in [Worker -> Request \cup {None}]
               /\ stage \in [Request -> Stage]
               /\ loop \in [Worker -> Request \cup {None}]
               /\ dirty \in [Request -> Rows]
               /\ inserted \in [Request -> BOOLEAN]
LocalsType == /\ target \in [Request -> Aim]
              /\ given \in [Request -> Request \cup {None}]
              /\ setting \in [Request -> Setting \cup {None}]
              /\ view \in [Request -> [Op -> Row \cup {None}]]
              /\ draft \in [Request -> [Op -> Machine \cup {None}]]
GhostsType == /\ known \in [Request -> SUBSET Request]
              /\ barred \in [Request -> SUBSET Op]
              /\ retired \in [Request -> SUBSET Batch]
              /\ unmarked \subseteq Request /\ blind \subseteq Request

TypeOK == WorldType /\ TablesType /\ ControlType /\ LocalsType /\ GhostsType

Planned(m) == [machine |-> m, status |-> "planned", decision |-> None]
NoRows == [b \in Batch |-> [o \in Op |-> None]]
\* Mutant of IsPlanned: every row that nobody gave up counts.
IsNotRetired(row) == row # None /\ row.status \notin {"skipped", "cancelled"}

\* Mutant of IsPlanned: the status is not looked at.
IsRow(row) == row # None

IsPlanned(row) == row # None /\ row.status = "planned"

NoLocks(r) == \A b \in Batch, o \in Op : dirty[r][b][o] = None
RowLocked(r, b, o) == \E q \in Request \ {r} : dirty[q][b][o] # None
MachineLocked(r, m) ==
  \E q \in Request \ {r} : kind[q] = "status" /\ inserted[q] /\ setting[q].machine = m
InTable(b) == \E o \in Op : plan[b][o] # None
FromMemory(r) == ~InTable(target[r].batch)

\* A query of q meets rows of r that are not committed: the queries for plans and for
\* the jobs of one go through the table of jobs.
QueryMeets(q, r) ==
  \/ stage[q] \in {"asking", "listing"} /\ ~NoLocks(r)
  \/ /\ stage[q] = "seeking" /\ target[q] # Nothing
     /\ dirty[r][target[q].batch][target[q].op] # None
  \/ stage[q] = "filtering" /\ kind[r] = "refuse" /\ inserted[r]
  \/ stage[q] \in {"checking", "relisting"} /\ kind[r] = "status" /\ inserted[r]

\* The statement of q waits for a lock of r.
WaitsFor(q, r) ==
  /\ q # r
  /\ \/ stage[q] = "retiring" /\ ~NoLocks(r)
     \/ /\ stage[q] \in {"marking", "skipping"} /\ ~FromMemory(q)
        /\ dirty[r][target[q].batch][target[q].op] # None
     \/ /\ stage[q] = "upserting" /\ kind[r] = "status" /\ inserted[r]
        /\ setting[r].machine = setting[q].machine
     \/ ReadersWait /\ QueryMeets(q, r)
Waits(r) == \E q \in Request : WaitsFor(r, q)

LoopFree(r) == loop[place[r]] = None
HoldsLoop(r) == loop[place[r]] = r
KeepLoop(r) == loop' = [loop EXCEPT ![place[r]] = r]
YieldLoop(r) == loop' = [loop EXCEPT ![place[r]] = None]
AimAt(r, b, o) == target' = [target EXCEPT ![r] = [batch |-> b, op |-> o]]
GoTo(r, s) == stage' = [stage EXCEPT ![r] = s]
Write(r, b, o, row) ==
  dirty' = [q \in Request |-> [c \in Batch |-> [p \in Op |->
              IF q = r /\ c = b /\ p = o THEN row ELSE dirty[q][c][p]]]]

-----------------------------------------------------------------------------
(***************************************************************************)
(* AutopilotPlannerService.refresh_plan: which machine each operation goes *)
(* to.  The cap on jobs is taken from each machine's list before the jobs  *)
(* other machines have are left out.                                       *)
(***************************************************************************)
FilterForMachine(listed, m) ==
  LET fit == {o \in listed : m \in Allowed[o]} IN IF fit = {} THEN listed ELSE fit

FirstJobs(S) ==
  IF Limit = 0 THEN S
  ELSE {o \in S : Cardinality({p \in S : Order[p] < Order[o]}) < Limit}

Takers(o, listed, machines) ==
  {m \in machines : o \in FirstJobs(FilterForMachine(listed, m))}

Draft(listed, machines) ==
  [o \in Op |->
     LET t == Takers(o, listed, machines) IN
     IF t = {} THEN None ELSE CHOOSE m \in t : \A n \in t : Order[m] <= Order[n]]

Available == IF \E m \in Machine : up[m] THEN {m \in Machine : up[m]} ELSE Machine

Entries(d) == [o \in Op |-> IF d[o] = None THEN None ELSE Planned(d[o])]

Init ==
  /\ \E mix \in Mix : kind = mix.kind /\ place = mix.place
  /\ active = Op
  /\ up = [m \in Machine |-> TRUE]
  /\ \E made \in BOOLEAN :
       /\ plan = [NoRows EXCEPT ![FirstPlan] =
                    IF made THEN Entries(Draft(Op, Machine)) ELSE @]
       /\ stamp = [b \in Batch |-> IF made /\ b = FirstPlan THEN 1 ELSE 0]
  /\ now = 1
  /\ decision = [r \in Request |-> None]
  /\ ignores = {}
  /\ memory = [w \in Worker |-> None]
  /\ stage = [r \in Request |-> "idle"]
  /\ loop = [w \in Worker |-> None]
  /\ dirty = [r \in Request |-> NoRows]
  /\ inserted = [r \in Request |-> FALSE]
  /\ target = [r \in Request |-> Nothing]
  /\ given = [r \in Request |-> None]
  /\ setting = [r \in Request |-> None]
  /\ view = [r \in Request |-> [o \in Op |-> None]]
  /\ draft = [r \in Request |-> [o \in Op |-> None]]
  /\ known = [r \in Request |-> {}]
  /\ barred = [r \in Request |-> {}]
  /\ retired = [r \in Request |-> {}]
  /\ unmarked = {}
  /\ blind = {}

Refresh(r) ==
  /\ kind[r] = "refresh" /\ stage[r] = "idle" /\ LoopFree(r)
  /\ GoTo(r, "planning")
  /\ UNCHANGED <<world, tables, memory, loop, dirty, inserted, locals, ghosts>>

\* The client answers an HTTP error with an empty list.
ListOperations(r) ==
  /\ stage[r] = "planning" /\ LoopFree(r)
  /\ \/ (active = {} \/ "http" \in Faults) /\ GoTo(r, "declined") /\ UNCHANGED loop
     \/ active # {} /\ KeepLoop(r) /\ GoTo(r, "checking")
  /\ UNCHANGED <<world, tables, memory, dirty, inserted, locals, ghosts>>

\* What a request was told of the production system, of which some may be finished.
Listed == {S \in SUBSET Op : active \subseteq S}

\* A query for the machine status that fails is an empty table, in which every machine
\* is available.
ListMachineStatus(r) ==
  /\ stage[r] = "checking"
  /\ \E listed \in Listed \ {{}}, machines \in SUBSET Machine :
       /\ \/ machines = Available /\ ~Waits(r)
          \/ machines = Machine /\ "read" \in Faults
       /\ draft' = [draft EXCEPT ![r] = Draft(listed, machines)]
  /\ YieldLoop(r) /\ GoTo(r, "picking")
  /\ UNCHANGED <<world, tables, memory, dirty, inserted, target, given, setting, view, ghosts>>

\* After the pallets have been picked, create_plan_batch runs without an await.
BeginBatch(r) ==
  /\ stage[r] = "picking" /\ LoopFree(r)
  /\ now' = now + 1 /\ stamp' = [stamp EXCEPT ![r] = now + 1]
  /\ KeepLoop(r) /\ GoTo(r, "retiring")
  /\ UNCHANGED <<world, plan, decision, ignores, up, memory, dirty, inserted, locals, ghosts>>

Cancelled(row) == [row EXCEPT !.status = "cancelled"]

\* Mutant of Retire: only the latest batch is retired.
RetireLatest(r) ==
  /\ stage[r] = "retiring" /\ \A q \in Request \ {r} : NoLocks(q)
  /\ dirty' = [dirty EXCEPT ![r] = [b \in Batch |-> [o \in Op |->
       IF IsPlanned(plan[b][o]) /\ \A c \in Batch \ {r} : stamp[c] <= stamp[b]
       THEN Cancelled(plan[b][o]) ELSE None]]]
  /\ retired' = [retired EXCEPT ![r] = {b \in Batch : InTable(b)}]
  /\ GoTo(r, "inserting")
  /\ UNCHANGED <<world, tables, memory, loop, inserted, locals, known, barred, unmarked, blind>>

\* UPDATE ... SET Status = 'cancelled' WHERE Status = 'planned' scans the table.
Retire(r) ==
  /\ stage[r] = "retiring" /\ \A q \in Request \ {r} : NoLocks(q)
  /\ \/ /\ dirty' = [dirty EXCEPT ![r] = [b \in Batch |-> [o \in Op |->
              IF IsPlanned(plan[b][o])
              THEN Cancelled(plan[b][o]) ELSE None]]]
        /\ retired' = [retired EXCEPT ![r] = {b \in Batch : InTable(b)}]
     \/ "write" \in Faults /\ UNCHANGED <<dirty, retired>>
  /\ GoTo(r, "inserting")
  /\ UNCHANGED <<world, tables, memory, loop, inserted, locals, known, barred, unmarked, blind>>

\* An INSERT that fails rolls back the retirement as well, and the batch is kept
\* in the memory of the worker.
InsertBatch(r) ==
  /\ stage[r] = "inserting"
  /\ \/ /\ dirty' = [dirty EXCEPT ![r] = [b \in Batch |->
                       IF b = r THEN Entries(draft[r]) ELSE dirty[r][b]]]
        /\ UNCHANGED <<memory, retired>>
     \/ /\ "write" \in Faults
        /\ dirty' = [dirty EXCEPT ![r] = NoRows]
        /\ retired' = [retired EXCEPT ![r] = {}]
        /\ memory' = [memory EXCEPT ![place[r]] = r]
  /\ YieldLoop(r) /\ GoTo(r, "returned")
  /\ UNCHANGED <<world, tables, inserted, locals, known, barred, unmarked, blind>>

-----------------------------------------------------------------------------
(***************************************************************************)
(* AutopilotSuggestionService.next_suggestion.                             *)
(***************************************************************************)
LatestInTable == {b \in Batch : InTable(b) /\ \A c \in Batch : InTable(c) => stamp[c] <= stamp[b]}
LatestInMemory(r) == {memory[place[r]]} \ {None}

Ask(r) ==
  /\ kind[r] = "next" /\ stage[r] = "idle" /\ LoopFree(r)
  /\ barred' = [barred EXCEPT ![r] = ignores]
  /\ KeepLoop(r) /\ GoTo(r, "asking")
  /\ UNCHANGED <<world, tables, memory, dirty, inserted, locals, known, retired, unmarked, blind>>

\* The table, or when it is empty or cannot be read, this worker's memory.
FetchLatestPlanBatch(r) ==
  /\ stage[r] = "asking"
  /\ \/ \E b \in Batch :
          /\ \/ b \in LatestInTable /\ ~Waits(r)
             \/ /\ b \in LatestInMemory(r)
                /\ (LatestInTable = {} /\ ~Waits(r)) \/ "read" \in Faults
          /\ AimAt(r, b, None) /\ GoTo(r, "listing") /\ UNCHANGED loop
     \/ /\ LatestInMemory(r) = {}
        /\ (LatestInTable = {} /\ ~Waits(r)) \/ "read" \in Faults
        /\ YieldLoop(r) /\ GoTo(r, "declined") /\ UNCHANGED target
  /\ UNCHANGED <<world, tables, memory, dirty, inserted, given, setting, view, draft, ghosts>>

\* list_planned_jobs turns to the memory only when the query fails.
ListPlannedJobs(r) ==
  LET b == target[r].batch IN
  /\ stage[r] = "listing"
  /\ \/ ~Waits(r) /\ view' = [view EXCEPT ![r] = plan[b]]
     \/ /\ "read" \in Faults
        /\ view' = [view EXCEPT ![r] =
                      IF FromMemory(r) THEN Entries(draft[b]) ELSE [o \in Op |-> None]]
  /\ known' = [known EXCEPT ![r] = {q \in Request : decision[q] # None}]
  /\ YieldLoop(r) /\ GoTo(r, "hydrating")
  /\ UNCHANGED <<world, tables, memory, dirty, inserted, target, given, setting, draft,
                 barred, retired, unmarked, blind>>

\* Mutant of IsIgnored: a job that was found in the production system never matches.
IsIgnoredUnlessListed(o, listed, ignored) == o \in ignored /\ o \notin listed

\* _is_ignored compares strings.  The ignore has the decimal ids of the tables;
\* a job has them too until _hydrate_job_metadata finds its operation in the
\* production system and sets part_id to the part's code.
IsIgnored(o, listed, ignored) == o \in ignored /\ (o \in listed => o \in PlainOp)

\* A job from memory has the operation's id, which no ignore has.
Eligible(r, listed, ignored) ==
  {o \in Op : /\ IsPlanned(view[r][o])
              /\ FromMemory(r) \/ ~IsIgnored(o, listed, ignored)}

\* The jobs get their metadata, and those that are not planned are left out.
Hydrate(r) ==
  /\ stage[r] = "hydrating" /\ LoopFree(r)
  /\ IF \E o \in Op : IsPlanned(view[r][o])
     THEN KeepLoop(r) /\ GoTo(r, "filtering")
     ELSE GoTo(r, "declined") /\ UNCHANGED loop
  /\ UNCHANGED <<world, tables, memory, dirty, inserted, locals, ghosts>>

ListActiveIgnores(r) ==
  /\ stage[r] = "filtering"
  /\ \E listed \in Listed \cup (IF "http" \in Faults THEN {{}} ELSE {}), read \in BOOLEAN :
       LET eligible == Eligible(r, listed, IF read THEN ignores ELSE {})
       IN /\ IF read THEN ~Waits(r) ELSE "read" \in Faults
          /\ view' = [view EXCEPT ![r] = [o \in Op |->
                        IF o \in eligible THEN view[r][o] ELSE None]]
          /\ blind' = IF read THEN blind ELSE blind \cup {r}
          /\ GoTo(r, IF eligible = {} THEN "declined" ELSE "scoring")
  /\ YieldLoop(r)
  /\ UNCHANGED <<world, tables, memory, dirty, inserted, target, given, setting,
                 draft, known, barred, retired, unmarked>>

\* Mutant of InsertDecision: the job is marked whether or not the decision is written.
InsertOrGoOn(r) ==
  /\ stage[r] = "scoring" /\ LoopFree(r)
  /\ \E o \in Op : view[r][o] # None /\ AimAt(r, target[r].batch, o)
  /\ \/ inserted' = [inserted EXCEPT ![r] = TRUE]
     \/ "write" \in Faults /\ UNCHANGED inserted
  /\ KeepLoop(r) /\ GoTo(r, "marking")
  /\ UNCHANGED <<world, tables, memory, dirty, given, setting, view, draft, ghosts>>

InsertDecision(r) ==
  /\ stage[r] = "scoring" /\ LoopFree(r)
  /\ \E o \in Op : view[r][o] # None /\ AimAt(r, target[r].batch, o)
  /\ \/ /\ inserted' = [inserted EXCEPT ![r] = TRUE]
        /\ KeepLoop(r) /\ GoTo(r, "marking")
     \/ "write" \in Faults /\ GoTo(r, "returned") /\ UNCHANGED <<inserted, loop>>
  /\ UNCHANGED <<world, tables, memory, dirty, given, setting, view, draft, ghosts>>

\* UPDATE ... WHERE PlannedJobId: a job from memory is numbered from 1, as are
\* the oldest rows of the table, which have nothing to do with it.
Oldest(b) == InTable(b) /\ \A c \in Batch : InTable(c) => stamp[b] <= stamp[c]

JobRow(r, b, o) ==
  /\ plan[b][o] # None
  /\ IF FromMemory(r) THEN Oldest(b) ELSE target[r] = [batch |-> b, op |-> o]

Dispatched(row, r) == [row EXCEPT !.status = "dispatched", !.decision = r]

MarkDispatched(r) ==
  /\ stage[r] = "marking"
  /\ \/ /\ \E b \in Batch, o \in Op :
             JobRow(r, b, o) /\ ~RowLocked(r, b, o)
             /\ Write(r, b, o, Dispatched(plan[b][o], r))
        /\ UNCHANGED unmarked
     \/ /\ "write" \in Faults \/ FromMemory(r)
        /\ unmarked' = unmarked \cup {r} /\ UNCHANGED dirty
  /\ YieldLoop(r) /\ GoTo(r, "returned")
  /\ UNCHANGED <<world, tables, memory, inserted, locals, known, barred, retired, blind>>

-----------------------------------------------------------------------------
(***************************************************************************)
(* AutopilotControlService.refuse_job and set_machine_status.              *)
(***************************************************************************)
\* The client names a job by its number, in whatever state it is, or a number no row
\* has; the decision is its word.
Refuse(r) ==
  /\ kind[r] = "refuse" /\ stage[r] = "idle" /\ LoopFree(r)
  /\ \/ \E b \in Batch, o \in Op : plan[b][o] # None /\ AimAt(r, b, o)
     \/ UNCHANGED target
  /\ \E d \in {None} \cup {q \in Request : decision[q] # None} :
       given' = [given EXCEPT ![r] = d]
  /\ KeepLoop(r) /\ GoTo(r, "seeking")
  /\ UNCHANGED <<world, tables, memory, dirty, inserted, setting, view, draft, ghosts>>

\* get_planned_job: when the query fails or has no row, the number is looked up among
\* the jobs of all plans in this worker's memory.  Its last one stands for them: what is
\* written for a job of a plan that was not stored depends on the number alone.
InMemory(r, b, o) == b \in LatestInMemory(r) /\ draft[b][o] # None

GetPlannedJob(r) ==
  /\ stage[r] = "seeking"
  /\ \/ /\ \/ target[r] # Nothing /\ ~Waits(r) /\ UNCHANGED target
           \/ /\ target[r] = Nothing \/ "read" \in Faults
              /\ \E b \in Batch, o \in Op : InMemory(r, b, o) /\ AimAt(r, b, o)
        /\ \/ inserted' = [inserted EXCEPT ![r] = TRUE]
           \/ "write" \in Faults /\ UNCHANGED inserted
        /\ GoTo(r, "skipping") /\ UNCHANGED loop
     \/ /\ target[r] = Nothing \/ "read" \in Faults
        /\ YieldLoop(r) /\ GoTo(r, "declined") /\ UNCHANGED <<target, inserted>>
  /\ UNCHANGED <<world, tables, memory, dirty, given, setting, view, draft, ghosts>>

\* Mutant of Skipped: the status the endpoint answers is stored.
SkippedAsIgnored(row, d) ==
  [row EXCEPT !.status = "ignored", !.decision = IF d = None THEN @ ELSE d]

Skipped(row, d) ==
  [row EXCEPT !.status = "skipped", !.decision = IF d = None THEN @ ELSE d]

MarkSkipped(r) ==
  /\ stage[r] = "skipping"
  /\ \/ \E b \in Batch, o \in Op :
          /\ JobRow(r, b, o) /\ ~RowLocked(r, b, o)
          /\ Write(r, b, o, Skipped(plan[b][o], given[r]))
     \/ ("write" \in Faults \/ FromMemory(r)) /\ UNCHANGED dirty
  /\ YieldLoop(r) /\ GoTo(r, "returned")
  /\ UNCHANGED <<world, tables, memory, inserted, locals, ghosts>>

SetMachineStatus(r) ==
  /\ kind[r] = "status" /\ stage[r] = "idle" /\ LoopFree(r)
  /\ \E s \in Setting : setting' = [setting EXCEPT ![r] = s]
  /\ KeepLoop(r) /\ GoTo(r, "upserting")
  /\ UNCHANGED <<world, tables, memory, dirty, inserted, target, given, view, draft, ghosts>>

UpsertMachineStatus(r) ==
  /\ stage[r] = "upserting"
  /\ \/ ~MachineLocked(r, setting[r].machine) /\ inserted' = [inserted EXCEPT ![r] = TRUE]
     \/ "write" \in Faults /\ UNCHANGED inserted
  /\ GoTo(r, "relisting")
  /\ UNCHANGED <<world, tables, memory, loop, dirty, locals, ghosts>>

\* Two sessions that have each set a machine wait for each other.
Deadlocked(r) ==
  /\ ReadersWait /\ stage[r] = "relisting" /\ inserted[r]
  /\ \E q \in Request \ {r} : stage[q] = "relisting" /\ inserted[q]

\* The endpoint answers with the status of all machines, or with an empty list when
\* the query fails.  Of two sessions in a deadlock the database rolls one back.
RelistMachines(r) ==
  /\ stage[r] = "relisting"
  /\ \/ (~Waits(r) \/ "read" \in Faults) /\ UNCHANGED inserted
     \/ Deadlocked(r) /\ inserted' = [inserted EXCEPT ![r] = FALSE]
  /\ YieldLoop(r) /\ GoTo(r, "returned")
  /\ UNCHANGED <<world, tables, memory, dirty, locals, ghosts>>

-----------------------------------------------------------------------------
(***************************************************************************)
(* get_autopilot_session after its yield: the event loop hands the session *)
(* to a thread, which commits.                                             *)
(***************************************************************************)
\* Mutant of HandOver: a session without writes is never closed.
HandOverWrites(r) ==
  /\ stage[r] = "returned" /\ LoopFree(r) /\ (inserted[r] \/ ~NoLocks(r))
  /\ GoTo(r, "committing")
  /\ UNCHANGED <<world, tables, memory, loop, dirty, inserted, locals, ghosts>>

HandOver(r) ==
  /\ stage[r] = "returned" /\ LoopFree(r)
  /\ GoTo(r, "committing")
  /\ UNCHANGED <<world, tables, memory, loop, dirty, inserted, locals, ghosts>>

\* Mutant of ReleaseLocks: a session that ends is not closed.
LeaveOpen(r) == UNCHANGED <<dirty, inserted>>

ReleaseLocks(r) == /\ dirty' = [dirty EXCEPT ![r] = NoRows]
                   /\ inserted' = [inserted EXCEPT ![r] = FALSE]

\* The ignore for a job from memory has a number no row of the plans has.
Commit(r) ==
  /\ stage[r] = "committing"
  /\ plan' = [b \in Batch |-> [o \in Op |->
                IF dirty[r][b][o] # None THEN dirty[r][b][o] ELSE plan[b][o]]]
  /\ decision' = IF kind[r] = "next" /\ inserted[r]
                 THEN [decision EXCEPT ![r] = target[r]] ELSE decision
  /\ ignores' = IF kind[r] = "refuse" /\ inserted[r] /\ ~FromMemory(r)
                THEN ignores \cup {target[r].op} ELSE ignores
  /\ up' = IF kind[r] = "status" /\ inserted[r]
           THEN [up EXCEPT ![setting[r].machine] = setting[r].up] ELSE up
  /\ ReleaseLocks(r) /\ GoTo(r, "answered")
  /\ UNCHANGED <<world, stamp, now, memory, loop, locals, ghosts>>

CommitFails(r) ==
  /\ "commit" \in Faults /\ stage[r] = "committing"
  /\ ReleaseLocks(r) /\ GoTo(r, "failed")
  /\ UNCHANGED <<world, tables, memory, loop, locals, ghosts>>

-----------------------------------------------------------------------------
(***************************************************************************)
(* The environment.                                                        *)
(***************************************************************************)
WorkerDies(w) ==
  LET victim(q) == place[q] = w /\ stage[q] \notin Ended \cup {"idle"} IN
  /\ "crash" \in Faults /\ \E q \in Request : victim(q)
  /\ stage' = [q \in Request |-> IF victim(q) THEN "lost" ELSE stage[q]]
  /\ dirty' = [q \in Request |-> IF victim(q) THEN NoRows ELSE dirty[q]]
  /\ inserted' = [q \in Request |-> inserted[q] /\ ~victim(q)]
  /\ memory' = [memory EXCEPT ![w] = None]
  /\ loop' = [loop EXCEPT ![w] = None]
  /\ UNCHANGED <<world, tables, locals, ghosts>>

FinishOperation(o) ==
  /\ o \in active /\ active' = active \ {o}
  /\ UNCHANGED <<kind, place, tables, memory, stage, loop, dirty, inserted, locals, ghosts>>

IgnoreRunsOut(o) ==
  /\ o \in ignores /\ ignores' = ignores \ {o}
  /\ barred' = [r \in Request |-> barred[r] \ {o}]
  /\ UNCHANGED <<world, plan, stamp, now, decision, up, memory, stage, loop, dirty, inserted,
                 locals, known, retired, unmarked, blind>>

ServerStep(r) ==
  \/ ListOperations(r) \/ ListMachineStatus(r) \/ BeginBatch(r) \/ Retire(r) \/ InsertBatch(r)
  \/ FetchLatestPlanBatch(r) \/ ListPlannedJobs(r) \/ Hydrate(r) \/ ListActiveIgnores(r)
  \/ InsertDecision(r) \/ MarkDispatched(r)
  \/ GetPlannedJob(r) \/ MarkSkipped(r) \/ UpsertMachineStatus(r) \/ RelistMachines(r)
  \/ HandOver(r) \/ Commit(r) \/ CommitFails(r)

Next ==
  \/ \E r \in Request :
       \/ Refresh(r) \/ Ask(r) \/ Refuse(r) \/ SetMachineStatus(r)
       \/ ServerStep(r)
  \/ \E w \in Worker : WorkerDies(w)
  \/ \E o \in Op : FinishOperation(o) \/ IgnoreRunsOut(o)

Spec == Init /\ [][Next]_vars

\* HTTP clients have timeouts, a worker's loop runs what is ready and its threads
\* commit, and the database ends a deadlock.  Nothing is assumed of clients, of the
\* production system or of faults, and a statement that waits does not have to fail.
FairSpec ==
  Spec /\ \A r \in Request : WF_vars((~Waits(r) \/ Deadlocked(r)) /\ ServerStep(r))

-----------------------------------------------------------------------------
(***************************************************************************)
(* Properties.                                                             *)
(***************************************************************************)
\* The decision and the mark on its job are one transaction, and a job is marked
\* only when the decision was written: a dispatched row names a decision that is
\* in the table, its own, or one for a job of a plan that was never stored, whose
\* number is that of an old row.
DispatchedRowsHaveDecisions ==
  \A b \in Batch, o \in Op :
    plan[b][o] # None /\ plan[b][o].status = "dispatched" =>
      \E d \in Request : /\ plan[b][o].decision = d /\ decision[d] # None
                         /\ \/ decision[d] = [batch |-> b, op |-> o]
                            \/ ~InTable(decision[d].batch)

\* Two calls of /next give the same job only if they overlap: a job whose
\* decision was committed when a call lists the jobs is not decided for again,
\* unless marking it had failed.
LaterSuggestionsDiffer ==
  \A r, q \in Request :
    q \in known[r] /\ decision[r] # None /\ decision[q] = decision[r] /\ InTable(decision[r].batch)
      => q \in unmarked

Suggests(r, o) == kind[r] = "next" /\ target[r].op = o /\ InTable(target[r].batch)

\* A job that was refused before a call of /next, and whose ignore has not run
\* out, is not suggested by it, whatever refreshes came between, provided the
\* part's code is its number in the tables and the ignores could be read.
PlainRefusedJobStaysAway ==
  \A r \in Request, o \in PlainOp : Suggests(r, o) /\ o \in barred[r] => r \in blind

\* A refresh that is stored leaves no job planned in the batches it found, even
\* when other requests were dispatching or refusing those jobs meanwhile.
RetiredPlansStayDead ==
  \A r \in Request : InTable(r) =>
    \A b \in retired[r], o \in Op : ~IsPlanned(plan[b][o])

\* A refresh may overtake a dispatch but never takes it back: a dispatched job
\* changes only by a refusal.  A job that was refused or retired is dispatched again
\* only by a call of /next whose own list, made before, still had it as planned, or
\* by the row number of a job that was never stored: no call brings back what was
\* gone when it looked.
OnlyOverlapRevives ==
  [][\A b \in Batch, o \in Op :
       LET old == plan[b][o]  new == plan'[b][o] IN
       old # None =>
         /\ old.status = "dispatched" =>
              new # None /\ new.status \in {"dispatched", "skipped"}
         /\ old.status \in {"skipped", "cancelled"} /\ new # None /\ new.status = "dispatched" =>
              \E q \in Request :
                /\ new.decision = q
                /\ \/ target[q].batch = b /\ view[q][o] # None /\ view[q][o].status = "planned"
                   \/ ~InTable(target[q].batch)]_plan

\* A request that has written and cannot commit, because its event loop is held
\* by a request that waits for a lock.
Stuck == \E r \in Request : /\ stage[r] = "returned" /\ ~LoopFree(r)
                            /\ Waits(loop[place[r]])

\* Unless an event loop is held for ever, the service comes to rest, with every request
\* that arrived ended.
EndsUnlessStuck ==
  <>[]Stuck \/ <>[](\A r \in Request : stage[r] \in Ended \cup {"idle"})

-----------------------------------------------------------------------------
(***************************************************************************)
(* The inductive invariant.                                                *)
(***************************************************************************)
Closing == {"returned", "committing"}

\* What a request holds at each stage, by its kind.
StageOf(r) ==
  /\ stage[r] \in {"planning", "checking", "picking", "retiring", "inserting"} =>
       kind[r] = "refresh"
  /\ stage[r] \in {"asking", "listing", "hydrating", "filtering", "scoring", "marking"} =>
       kind[r] = "next"
  /\ stage[r] \in {"listing", "hydrating", "filtering", "scoring", "marking"} =>
       target[r].batch # None
  /\ kind[r] = "next" /\ stage[r] \in {"idle", "asking", "listing", "hydrating", "filtering",
                                      "scoring"} =>
       target[r].op = None
  /\ stage[r] \in {"seeking", "skipping"} => kind[r] = "refuse"
  /\ stage[r] = "idle" => target[r] = Nothing
  /\ kind[r] = "refuse" /\ target[r] # Nothing => target[r] \in Target
  /\ stage[r] = "skipping" => target[r] \in Target
  /\ stage[r] \in {"upserting", "relisting"} => kind[r] = "status" /\ setting[r] # None
  /\ stage[r] = "marking" => inserted[r]
  /\ inserted[r] => /\ stage[r] \in {"marking", "skipping", "relisting"} \cup Closing
                    /\ kind[r] \in {"next", "refuse"} => target[r] \in Target
                    /\ kind[r] = "status" => setting[r] # None
StageInv == \A r \in Request : StageOf(r)

\* A batch that is not in the table and will never be.
Dead(b) == /\ b \in Request /\ ~InTable(b) /\ stage[b] \in Closing \cup Ended
           /\ \A o \in Op : dirty[b][b][o] = None

\* Batches are in the table when their refresh has committed, and whatever else a
\* request works with never gets there.
BatchInv ==
  /\ \A r \in Request : InTable(r) => stage[r] = "answered"
  /\ \A w \in Worker : memory[w] # None => Dead(memory[w])
  /\ \A r \in Request : target[r].batch # None => InTable(target[r].batch) \/ Dead(target[r].batch)
  /\ \A r \in Request : kind[r] = "refuse" /\ target[r] # Nothing =>
       FromMemory(r) \/ plan[target[r].batch][target[r].op] # None
  /\ \A r \in Request : \A b \in retired[r] : InTable(b)

\* Only a request between its first write and its commit holds locks.
HoldingInv ==
  \A r \in Request : NoLocks(r) \/ stage[r] \in {"inserting"} \cup Closing

\* What an open session has written to a row that nobody else can write to.
LockOf(r, b, o) ==
  LET old == plan[b][o]  new == dirty[r][b][o] IN
  /\ \A q \in Request \ {r} : dirty[q][b][o] = None
  /\ b = r => kind[r] = "refresh" /\ old = None /\ new.status = "planned"
  /\ b # r => old # None /\ new.status # "planned"
  /\ new.status = "cancelled" => IsPlanned(old)
  /\ new.status = "dispatched" =>
       /\ kind[r] = "next" /\ inserted[r] /\ new.decision = r
       /\ target[r] = [batch |-> b, op |-> o] \/ ~InTable(target[r].batch)
LockInv ==
  \A r \in Request, b \in Batch, o \in Op : dirty[r][b][o] # None => LockOf(r, b, o)

\* The jobs a refresh retires stay locked until they are retired for good.
RetiredBy(r) ==
  /\ stage[r] \notin {"inserting"} \cup Closing \cup Ended => retired[r] = {}
  /\ \A b \in retired[r], o \in Op : IsPlanned(plan[b][o]) =>
       /\ stage[r] \in {"inserting"} \cup Closing =>
            dirty[r][b][o] # None /\ dirty[r][b][o].status = "cancelled"
       /\ stage[r] # "answered"
RetiredInv == \A r \in Request : RetiredBy(r)

\* A decision and the mark on its job go together, unless marking failed.
DecisionInv ==
  \A r \in Request :
    /\ decision[r] # None =>
         stage[r] = "answered" /\ kind[r] = "next" /\ decision[r] = target[r]
    /\ kind[r] = "next" /\ inserted[r] /\ r \notin unmarked /\ stage[r] \in Closing
       /\ InTable(target[r].batch) =>
         LET new == dirty[r][target[r].batch][target[r].op] IN
         new # None /\ new.status = "dispatched"
    /\ decision[r] # None /\ r \notin unmarked /\ InTable(decision[r].batch) =>
         ~IsPlanned(plan[decision[r].batch][decision[r].op])

\* What a suggestion has read about the jobs decided for before it.
KnownInv ==
  \A r \in Request : \A q \in known[r] :
    /\ kind[r] = "next" /\ decision[q] # None
    /\ q \notin unmarked /\ decision[q].batch = target[r].batch /\ InTable(target[r].batch) =>
         /\ stage[r] \in {"hydrating", "filtering", "scoring"} => ~IsPlanned(view[r][decision[q].op])
         /\ stage[r] \in {"marking", "answered"} \cup Closing => target[r] # decision[q]

\* What a suggestion has read about ignores.
IgnoreInv ==
  \A r \in Request :
    /\ barred[r] \subseteq ignores
    /\ stage[r] = "scoring" =>
         \A o \in Op : view[r][o] # None =>
           /\ IsPlanned(view[r][o])
           /\ o \in PlainOp \cap barred[r] /\ InTable(target[r].batch) => r \in blind

\* A job that is decided for was planned when it was listed.
ViewInv ==
  \A r \in Request : kind[r] = "next" /\ inserted[r] => IsPlanned(view[r][target[r].op])

IInv ==
  /\ TypeOK /\ StageInv /\ BatchInv /\ HoldingInv /\ LockInv /\ RetiredInv /\ DecisionInv
  /\ KnownInv /\ IgnoreInv /\ ViewInv
  /\ DispatchedRowsHaveDecisions /\ PlainRefusedJobStaysAway

-----------------------------------------------------------------------------
(***************************************************************************)
(* The tables as a board from which jobs are handed out.                   *)
(***************************************************************************)
\* The jobs of its list that a suggestion still has.
OnOffer(r) ==
  {j \in Target : kind[r] = "next" /\ j.batch = target[r].batch /\ IsPlanned(view[r][j.op])}

Board == INSTANCE JobBoard WITH
  row <- plan,
  found <- retired,
  offer <- [r \in Request |-> OnOffer(r)],
  done <- {r \in Request : stage[r] = "answered"}

\* Statement by statement and lock by lock, the endpoints keep the board: what a
\* request writes shows all at once, a plan retires what its refresh found and
\* nothing else, a mark comes with its decision and on the job it is for, and no
\* call gives out what was gone when it looked.
ImplementsJobBoard == Board!Spec

\* What an open session has written, exactly; the rows it is written over do not
\* change meanwhile.
WriteOf(r, b, o) ==
  LET old == plan[b][o]  new == dirty[r][b][o] IN
  CASE kind[r] = "refresh" /\ b = r -> \E m \in Machine : new = Planned(m)
    [] kind[r] = "refresh" /\ b # r -> b \in retired[r] /\ new = Cancelled(old)
    [] kind[r] = "next" -> /\ new = Dispatched(old, r)
                           /\ \A c \in Batch, p \in Op :
                                dirty[r][c][p] # None => c = b /\ p = o
    [] kind[r] = "refuse" -> /\ new = Skipped(old, given[r]) /\ target[r] \in Target
                             /\ target[r] = [batch |-> b, op |-> o] \/ FromMemory(r)
                             /\ \A c \in Batch, p \in Op :
                                  dirty[r][c][p] # None => c = b /\ p = o
    [] kind[r] = "status" -> FALSE

BoardInv ==
  \A r \in Request :
    /\ \A b \in Batch, o \in Op : dirty[r][b][o] # None => WriteOf(r, b, o)
    /\ given[r] # None => decision[given[r]] # None
    /\ kind[r] = "next" /\ stage[r] \in {"idle", "asking", "listing"} =>
         \A o \in Op : view[r][o] = None

-----------------------------------------------------------------------------
(***************************************************************************)
(* Rings: when and for how long the endpoints block each other.            *)
(***************************************************************************)
\* A statement runs with the event loop held, and nothing else does.
Query == {"checking", "asking", "listing", "filtering", "seeking", "relisting"}
Statement == Query \cup {"retiring", "inserting", "marking", "skipping", "upserting"}
LoopInv ==
  /\ \A r \in Request : stage[r] \in Statement <=> HoldsLoop(r)
  /\ \A w \in Worker : loop[w] # None => place[loop[w]] = w

\* The statement of q waits for s, or for a session of H that waits for s: one that has
\* inserted an ignore and waits for its job, or has set a machine and waits for others.
Delays(q, s, H) == WaitsFor(q, s) \/ \E t \in H : WaitsFor(q, t) /\ WaitsFor(t, s)

\* Requests that have returned, each kept from its commit by a statement on its
\* own worker that waits for one of them.
RingAmong(S, H) ==
  /\ S # {}
  /\ \A r \in S : /\ stage[r] = "returned" /\ loop[place[r]] \in H
                  /\ \E s \in S : Delays(loop[place[r]], s, H)
Ring(S) == RingAmong(S, Request)

\* One that no rollback of a deadlock, now or later, can break.
FirmRing(S) == RingAmong(S, {r \in Request : ~(stage[r] = "relisting" /\ inserted[r])})

\* Unless a statement fails or a worker dies, such a ring lasts for ever, and with it the
\* workers it runs through: none of their requests takes another step, nor does one
\* arrive, except that a thread finishes a commit it was given before.
RingsAreFinal ==
  [][\A S \in SUBSET Request :
       FirmRing(S) /\ Faults \cap {"read", "write", "crash"} = {} =>
         /\ FirmRing(S)'
         /\ \A r \in S, p \in Request :
              place[p] = place[r] /\ stage[p] \notin {"committing"} \cup Ended =>
                stage'[p] = stage[p]]_vars

\* r can take a step that is no failure: the loop is free where it needs it, what it
\* reads is there, and no lock is in the way of its statement.
CanStep(r) ==
  \/ /\ stage[r] \in {"planning", "picking", "hydrating", "scoring", "returned"}
     /\ LoopFree(r)
     /\ stage[r] = "scoring" => \E o \in Op : view[r][o] # None
  \/ stage[r] = "committing"
  \/ /\ stage[r] \in Statement /\ (~Waits(r) \/ Deadlocked(r))
     /\ stage[r] \in {"marking", "skipping"} /\ ~FromMemory(r) =>
          plan[target[r].batch][target[r].op] # None

\* Rings are the only way to block: while requests are under way and form none, one
\* of them can take a step.
OnlyRingsBlock ==
  \/ \E S \in SUBSET Request : Ring(S)
  \/ \A r \in Request : stage[r] \in Ended \cup {"idle"}
  \/ \E r \in Request : CanStep(r)

\* A request has few steps of its own, and no step of another, of a worker or of the
\* production system gives one back: it is answered unless it stops for good.
StepsAfter(s) ==
  CASE s = "idle" -> 9
    [] s = "asking" -> 8
    [] s \in {"planning", "listing"} -> 7
    [] s \in {"checking", "hydrating"} -> 6
    [] s \in {"picking", "filtering"} -> 5
    [] s \in {"retiring", "scoring", "seeking", "upserting"} -> 4
    [] s \in {"inserting", "marking", "skipping", "relisting"} -> 3
    [] s = "returned" -> 2
    [] s = "committing" -> 1
    [] OTHER -> 0
StepsRunOut ==
  [][\A r \in Request : /\ StepsAfter(stage'[r]) \in 0..StepsAfter(stage[r])
                        /\ ServerStep(r) => StepsAfter(stage'[r]) # StepsAfter(stage[r])]_vars

\* A suggestion that scores has a job left, and its jobs have rows, if its plan has.
JobsInv ==
  \A r \in Request : stage[r] \in {"hydrating", "filtering", "scoring", "marking"} =>
    /\ stage[r] = "scoring" => \E o \in Op : view[r][o] # None
    /\ ~FromMemory(r) => \A o \in Op : view[r][o] # None => plan[target[r].batch][o] # None

-----------------------------------------------------------------------------
(***************************************************************************)
(* What the documents say and the code does not do.                        *)
(***************************************************************************)
\* prd.md:69 "Target interactive latency for /autopilot/next: < 1 second": a
\* request is answered at all.
EveryRequestIsAnswered ==
  \A r \in Request : stage[r] # "idle" ~> stage[r] \in Ended
=============================================================================
