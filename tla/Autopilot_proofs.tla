-------------------------- MODULE Autopilot_proofs --------------------------
(***************************************************************************)
(* Proofs about Autopilot, for every number of requests, workers,          *)
(* operations and machines, every mix of requests and every set of faults. *)
(***************************************************************************)
EXTENDS Autopilot, TLAPS

\* A plan gives an operation to one of the machines, or to none.
LEMMA DraftType ==
  ASSUME NEW listed, NEW machines \in SUBSET Machine
  PROVE  Draft(listed, machines) \in [Op -> Machine \cup {None}]
<1>1. ASSUME NEW o \in Op, Takers(o, listed, machines) # {}
      PROVE  \E m \in Takers(o, listed, machines) :
               \A n \in Takers(o, listed, machines) : Order[m] <= Order[n]
  BY <1>1, OrderAssumption DEF Takers
<1>2. \A o \in Op : Takers(o, listed, machines) \subseteq Machine
  BY DEF Takers
<1> QED
  BY <1>1, <1>2 DEF Draft

\* The rows of a plan.
LEMMA EntriesType ==
  ASSUME NEW d \in [Op -> Machine \cup {None}]
  PROVE  Entries(d) \in [Op -> Row \cup {None}]
  BY DEF Entries, Planned, Row

\* What a request is about: nothing, a batch, or a job.
LEMMA AimType ==
  ASSUME NEW t \in Aim
  PROVE  /\ t.batch # None => t.batch \in Batch
         /\ t.op # None => t \in Target
  BY DEF Aim, Nothing, Target

\* Requests are of a kind and arrive at a worker.
LEMMA PlaceType == TypeOK => kind \in [Request -> Kind] /\ place \in [Request -> Worker]
  BY MixAssumption DEF TypeOK, WorldType

\* A row that is written is a row.
LEMMA WriteType ==
  ASSUME NEW r \in Request, NEW b \in Batch, NEW o \in Op, NEW row \in Row,
         TypeOK, Write(r, b, o, row)
  PROVE  dirty' \in [Request -> Rows]
  BY DEF TypeOK, ControlType, Write, Rows

\* Every step preserves the types.
LEMMA StepType == IInv /\ [Next]_vars => TypeOK'
<1> SUFFICES ASSUME IInv, [Next]_vars PROVE TypeOK'
  OBVIOUS
<1> USE DistinctAssumption DEF IInv, TypeOK, GoTo
<1>a. UNCHANGED world => WorldType'
  BY DEF world, WorldType
<1>b. UNCHANGED tables => TablesType'
  BY DEF tables, TablesType
<1>c. UNCHANGED <<memory, stage, loop, dirty, inserted>> => ControlType'
  BY DEF ControlType
<1>d. UNCHANGED locals => LocalsType'
  BY DEF locals, LocalsType
<1>e. UNCHANGED ghosts => GhostsType'
  BY DEF ghosts, GhostsType
<1>1. ASSUME NEW r \in Request, Refresh(r) PROVE TypeOK'
  <2>1. ControlType'
    <3>1. stage' \in [Request -> Stage]
      BY <1>1, SMTT(30) DEF Refresh, Stage, ControlType
    <3> QED
      BY <1>1, <3>1 DEF Refresh, ControlType
  <2> QED
    BY <1>1, <2>1, <1>a, <1>b, <1>d, <1>e DEF Refresh
<1>2. ASSUME NEW r \in Request, ListOperations(r) PROVE TypeOK'
  <2>1. ControlType'
    <3>1. stage' \in [Request -> Stage]
      BY <1>2, SMTT(30) DEF ListOperations, Stage, ControlType
    <3>2. loop' \in [Worker -> Request \cup {None}]
      BY <1>2, PlaceType, SMTT(30) DEF ListOperations, KeepLoop, ControlType
    <3> QED
      BY <1>2, <3>1, <3>2 DEF ListOperations, ControlType
  <2> QED
    BY <1>2, <2>1, <1>a, <1>b, <1>d, <1>e DEF ListOperations
<1>3. ASSUME NEW r \in Request, BeginBatch(r) PROVE TypeOK'
  <2>1. TablesType'
    <3>1. stamp' \in [Batch -> Nat]
      <4>1. now + 1 \in Nat
        BY DEF TablesType
      <4> QED
        BY <1>3, <4>1 DEF BeginBatch, TablesType
    <3>2. now' \in Nat
      BY <1>3, SMTT(30) DEF BeginBatch, TablesType
    <3> QED
      BY <1>3, <3>1, <3>2 DEF BeginBatch, TablesType
  <2>2. ControlType'
    <3>1. stage' \in [Request -> Stage]
      BY <1>3, SMTT(30) DEF BeginBatch, Stage, ControlType
    <3>2. loop' \in [Worker -> Request \cup {None}]
      BY <1>3, PlaceType, SMTT(30) DEF BeginBatch, KeepLoop, ControlType
    <3> QED
      BY <1>3, <3>1, <3>2 DEF BeginBatch, ControlType
  <2> QED
    BY <1>3, <2>1, <2>2, <1>a, <1>d, <1>e DEF BeginBatch
<1>4. ASSUME NEW r \in Request, Retire(r) PROVE TypeOK'
  <2>1. ControlType'
    <3>1. stage' \in [Request -> Stage]
      BY <1>4, SMTT(30) DEF Retire, Stage, ControlType
    <3>2. dirty' \in [Request -> Rows]
      <4>1. \A b \in Batch, o \in Op : plan[b][o] \in Row \cup {None}
        BY DEF TablesType, Rows
      <4>2. \A x \in Row : Cancelled(x) \in Row
        BY DEF Row, Cancelled
      <4>3. [b \in Batch |-> [o \in Op |->
               IF IsPlanned(plan[b][o]) THEN Cancelled(plan[b][o]) ELSE None]] \in Rows
        BY <4>1, <4>2 DEF Rows, IsPlanned
      <4>4. PICK rows \in Rows : dirty' = [dirty EXCEPT ![r] = rows] \/ dirty' = dirty
        BY <1>4, <4>3, Zenon DEF Retire, NoLocks, ControlType
      <4> QED
        BY <4>4 DEF ControlType
    <3> QED
      BY <1>4, <3>1, <3>2 DEF Retire, ControlType
  <2>2. GhostsType'
    <3>1. retired' \in [Request -> SUBSET Batch]
      BY <1>4, SMTT(30) DEF Retire, GhostsType
    <3> QED
      BY <1>4, <3>1 DEF Retire, GhostsType
  <2> QED
    BY <1>4, <2>1, <2>2, <1>a, <1>b, <1>d DEF Retire
<1>5. ASSUME NEW r \in Request, InsertBatch(r) PROVE TypeOK'
  <2>1. ControlType'
    <3>1. memory' \in [Worker -> Request \cup {None}]
      BY <1>5, PlaceType, SMTT(30) DEF InsertBatch, ControlType
    <3>2. stage' \in [Request -> Stage]
      BY <1>5, SMTT(30) DEF InsertBatch, Stage, ControlType
    <3>3. loop' \in [Worker -> Request \cup {None}]
      BY <1>5, PlaceType, SMTT(30) DEF InsertBatch, YieldLoop, ControlType
    <3>4. dirty' \in [Request -> Rows]
      <4>1. Entries(draft[r]) \in [Op -> Row \cup {None}]
        BY EntriesType DEF LocalsType
      <4>2. [b \in Batch |-> IF b = r THEN Entries(draft[r]) ELSE dirty[r][b]] \in Rows
        BY <4>1 DEF ControlType, Rows
      <4>3. NoRows \in Rows
        BY DEF Rows, NoRows
      <4> QED
        BY <1>5, <4>2, <4>3 DEF InsertBatch, ControlType
    <3> QED
      BY <1>5, <3>1, <3>2, <3>3, <3>4 DEF InsertBatch, ControlType
  <2>2. GhostsType'
    <3>1. retired' \in [Request -> SUBSET Batch]
      BY <1>5, SMTT(30) DEF InsertBatch, GhostsType
    <3> QED
      BY <1>5, <3>1 DEF InsertBatch, GhostsType
  <2> QED
    BY <1>5, <2>1, <2>2, <1>a, <1>b, <1>d DEF InsertBatch
<1>6. ASSUME NEW r \in Request, FetchLatestPlanBatch(r) PROVE TypeOK'
  <2>1. ControlType'
    <3>1. stage' \in [Request -> Stage]
      BY <1>6, SMTT(30) DEF FetchLatestPlanBatch, Stage, ControlType
    <3>2. loop' \in [Worker -> Request \cup {None}]
      BY <1>6, PlaceType, SMTT(30) DEF FetchLatestPlanBatch, YieldLoop, ControlType
    <3> QED
      BY <1>6, <3>1, <3>2 DEF FetchLatestPlanBatch, ControlType
  <2>2. LocalsType'
    <3>1. target' \in [Request -> Aim]
      <4>1. \A b \in Batch : [batch |-> b, op |-> None] \in Aim
        BY DEF Aim
      <4> QED
        BY <1>6, <4>1 DEF FetchLatestPlanBatch, AimAt, LocalsType
    <3> QED
      BY <1>6, <3>1 DEF FetchLatestPlanBatch, LocalsType
  <2> QED
    BY <1>6, <2>1, <2>2, <1>a, <1>b, <1>e DEF FetchLatestPlanBatch
<1>7. ASSUME NEW r \in Request, ListPlannedJobs(r) PROVE TypeOK'
  <2>1. ControlType'
    <3>1. stage' \in [Request -> Stage]
      BY <1>7, SMTT(30) DEF ListPlannedJobs, Stage, ControlType
    <3>2. loop' \in [Worker -> Request \cup {None}]
      BY <1>7, PlaceType, SMTT(30) DEF ListPlannedJobs, YieldLoop, ControlType
    <3> QED
      BY <1>7, <3>1, <3>2 DEF ListPlannedJobs, ControlType
  <2>2. LocalsType'
    <3>1. view' \in [Request -> [Op -> Row \cup {None}]]
      <4>1. target[r].batch \in Batch /\ (target[r].batch \in Request \/ target[r].batch = FirstPlan)
        BY <1>7, AimType DEF ListPlannedJobs, StageInv, StageOf, LocalsType, Batch
      <4>2. plan[target[r].batch] \in [Op -> Row \cup {None}]
        BY <4>1 DEF TablesType, Rows
      <4>3. FromMemory(r) => Entries(draft[target[r].batch]) \in [Op -> Row \cup {None}]
        BY <4>1, <1>7, EntriesType DEF LocalsType, FromMemory, ListPlannedJobs, BatchInv, Dead, StageInv, StageOf
      <4>4. [o \in Op |-> None] \in [Op -> Row \cup {None}]
        OBVIOUS
      <4>5. PICK v \in [Op -> Row \cup {None}] : view' = [view EXCEPT ![r] = v]
        BY <1>7, <4>2, <4>3, <4>4 DEF ListPlannedJobs
      <4> QED
        BY <4>5 DEF LocalsType
    <3> QED
      BY <1>7, <3>1 DEF ListPlannedJobs, LocalsType
  <2>3. GhostsType'
    <3>1. known' \in [Request -> SUBSET Request]
      BY <1>7, SMTT(30) DEF ListPlannedJobs, GhostsType
    <3> QED
      BY <1>7, <3>1 DEF ListPlannedJobs, GhostsType
  <2> QED
    BY <1>7, <2>1, <2>2, <2>3, <1>a, <1>b DEF ListPlannedJobs
<1>8. ASSUME NEW r \in Request, Hydrate(r) PROVE TypeOK'
  <2>1. ControlType'
    <3>1. stage' \in [Request -> Stage]
      BY <1>8, SMTT(30) DEF Hydrate, Stage, ControlType
    <3>2. loop' \in [Worker -> Request \cup {None}]
      BY <1>8, PlaceType, SMTT(30) DEF Hydrate, KeepLoop, ControlType
    <3> QED
      BY <1>8, <3>1, <3>2 DEF Hydrate, ControlType
  <2> QED
    BY <1>8, <2>1, <1>a, <1>b, <1>d, <1>e DEF Hydrate
<1>9. ASSUME NEW r \in Request, InsertDecision(r) PROVE TypeOK'
  <2>1. ControlType'
    <3>1. stage' \in [Request -> Stage]
      BY <1>9, SMTT(30) DEF InsertDecision, Stage, ControlType
    <3>2. loop' \in [Worker -> Request \cup {None}]
      BY <1>9, PlaceType, SMTT(30) DEF InsertDecision, KeepLoop, ControlType
    <3>3. inserted' \in [Request -> BOOLEAN]
      BY <1>9, Zenon DEF InsertDecision, ControlType
    <3> QED
      BY <1>9, <3>1, <3>2, <3>3 DEF InsertDecision, ControlType
  <2>2. LocalsType'
    <3>1. target' \in [Request -> Aim]
      <4>1. target[r].batch \in Batch
        BY <1>9, AimType DEF InsertDecision, StageInv, StageOf, LocalsType
      <4>2. \A o \in Op : [batch |-> target[r].batch, op |-> o] \in Aim
        BY <4>1 DEF Aim
      <4> QED
        BY <1>9, <4>2 DEF InsertDecision, AimAt, LocalsType
    <3> QED
      BY <1>9, <3>1 DEF InsertDecision, LocalsType
  <2> QED
    BY <1>9, <2>1, <2>2, <1>a, <1>b, <1>e DEF InsertDecision
<1>10. ASSUME NEW r \in Request, MarkDispatched(r) PROVE TypeOK'
  <2>1. ControlType'
    <3>1. stage' \in [Request -> Stage]
      BY <1>10, SMTT(30) DEF MarkDispatched, Stage, ControlType
    <3>2. loop' \in [Worker -> Request \cup {None}]
      BY <1>10, PlaceType, SMTT(30) DEF MarkDispatched, YieldLoop, ControlType
    <3>3. dirty' \in [Request -> Rows]
      <4>1. \A b \in Batch, o \in Op : JobRow(r, b, o) => Dispatched(plan[b][o], r) \in Row
        <5>1. \A row \in Row : Dispatched(row, r) \in Row
          BY DEF Dispatched, Row
        <5>2. \A b \in Batch, o \in Op : JobRow(r, b, o) => plan[b][o] \in Row
          BY DEF TablesType, Rows, JobRow
        <5> QED
          BY <5>1, <5>2
      <4>2. \A b \in Batch, o \in Op, row \in Row : Write(r, b, o, row) => dirty' \in [Request -> Rows]
        BY WriteType
      <4> QED
        BY <1>10, <4>1, <4>2 DEF MarkDispatched, ControlType
    <3> QED
      BY <1>10, <3>1, <3>2, <3>3 DEF MarkDispatched, ControlType
  <2>2. GhostsType'
    <3>1. unmarked' \subseteq Request
      BY <1>10, SMTT(30) DEF MarkDispatched, GhostsType
    <3> QED
      BY <1>10, <3>1 DEF MarkDispatched, GhostsType
  <2> QED
    BY <1>10, <2>1, <2>2, <1>a, <1>b, <1>d DEF MarkDispatched
<1>11. ASSUME NEW r \in Request, Refuse(r) PROVE TypeOK'
  <2>1. ControlType'
    <3>1. stage' \in [Request -> Stage]
      BY <1>11, SMTT(30) DEF Refuse, Stage, ControlType
    <3>2. loop' \in [Worker -> Request \cup {None}]
      BY <1>11, PlaceType, SMTT(30) DEF Refuse, KeepLoop, ControlType
    <3> QED
      BY <1>11, <3>1, <3>2 DEF Refuse, ControlType
  <2>2. LocalsType'
    <3>1. target' \in [Request -> Aim]
      <4>1. \A b \in Batch, o \in Op : [batch |-> b, op |-> o] \in Aim
        BY DEF Aim
      <4> QED
        BY <1>11, <4>1 DEF Refuse, AimAt, LocalsType
    <3>2. given' \in [Request -> Request \cup {None}]
      BY <1>11, SMTT(30) DEF Refuse, LocalsType
    <3> QED
      BY <1>11, <3>1, <3>2 DEF Refuse, LocalsType
  <2> QED
    BY <1>11, <2>1, <2>2, <1>a, <1>b, <1>e DEF Refuse
<1>12. ASSUME NEW r \in Request, MarkSkipped(r) PROVE TypeOK'
  <2>1. ControlType'
    <3>1. stage' \in [Request -> Stage]
      BY <1>12, SMTT(30) DEF MarkSkipped, Stage, ControlType
    <3>2. loop' \in [Worker -> Request \cup {None}]
      BY <1>12, PlaceType, SMTT(30) DEF MarkSkipped, YieldLoop, ControlType
    <3>3. dirty' \in [Request -> Rows]
      <4>1. \A b \in Batch, o \in Op : JobRow(r, b, o) => Skipped(plan[b][o], given[r]) \in Row
        <5>1. \A row \in Row : Skipped(row, given[r]) \in Row
          BY DEF Skipped, Row, LocalsType
        <5>2. \A b \in Batch, o \in Op : JobRow(r, b, o) => plan[b][o] \in Row
          BY DEF TablesType, Rows, JobRow
        <5> QED
          BY <5>1, <5>2
      <4>2. \A b \in Batch, o \in Op, row \in Row : Write(r, b, o, row) => dirty' \in [Request -> Rows]
        BY WriteType
      <4> QED
        BY <1>12, <4>1, <4>2 DEF MarkSkipped, ControlType
    <3> QED
      BY <1>12, <3>1, <3>2, <3>3 DEF MarkSkipped, ControlType
  <2> QED
    BY <1>12, <2>1, <1>a, <1>b, <1>d, <1>e DEF MarkSkipped
<1>13. ASSUME NEW r \in Request, SetMachineStatus(r) PROVE TypeOK'
  <2>1. ControlType'
    <3>1. stage' \in [Request -> Stage]
      BY <1>13, SMTT(30) DEF SetMachineStatus, Stage, ControlType
    <3>2. loop' \in [Worker -> Request \cup {None}]
      BY <1>13, PlaceType, SMTT(30) DEF SetMachineStatus, KeepLoop, ControlType
    <3> QED
      BY <1>13, <3>1, <3>2 DEF SetMachineStatus, ControlType
  <2>2. LocalsType'
    <3>1. setting' \in [Request -> Setting \cup {None}]
      BY <1>13, SMTT(30) DEF SetMachineStatus, LocalsType
    <3> QED
      BY <1>13, <3>1 DEF SetMachineStatus, LocalsType
  <2> QED
    BY <1>13, <2>1, <2>2, <1>a, <1>b, <1>e DEF SetMachineStatus
<1>14. ASSUME NEW r \in Request, UpsertMachineStatus(r) PROVE TypeOK'
  <2>1. ControlType'
    <3>1. stage' \in [Request -> Stage]
      BY <1>14, SMTT(30) DEF UpsertMachineStatus, Stage, ControlType
    <3>2. inserted' \in [Request -> BOOLEAN]
      BY <1>14, Zenon DEF UpsertMachineStatus, ControlType
    <3> QED
      BY <1>14, <3>1, <3>2 DEF UpsertMachineStatus, ControlType
  <2> QED
    BY <1>14, <2>1, <1>a, <1>b, <1>d, <1>e DEF UpsertMachineStatus
<1>15. ASSUME NEW r \in Request, HandOver(r) PROVE TypeOK'
  <2>1. ControlType'
    <3>1. stage' \in [Request -> Stage]
      BY <1>15, SMTT(30) DEF HandOver, Stage, ControlType
    <3> QED
      BY <1>15, <3>1 DEF HandOver, ControlType
  <2> QED
    BY <1>15, <2>1, <1>a, <1>b, <1>d, <1>e DEF HandOver
<1>16. ASSUME NEW r \in Request, Commit(r) PROVE TypeOK'
  <2>1. TablesType'
    <3>1. plan' \in Rows
      <4>1. \A b \in Batch, o \in Op : /\ plan[b][o] \in Row \cup {None}
                                       /\ dirty[r][b][o] \in Row \cup {None}
        BY DEF TablesType, ControlType, Rows
      <4> QED
        BY <1>16, <4>1 DEF Commit, Rows
    <3>2. decision' \in [Request -> Target \cup {None}]
      BY <1>16 DEF Commit, TablesType, StageInv, StageOf
    <3>3. ignores' \subseteq Op
      BY <1>16 DEF Commit, TablesType, StageInv, StageOf, Target
    <3>4. up' \in [Machine -> BOOLEAN]
      <4>1. kind[r] = "status" /\ inserted[r] => setting[r].machine \in Machine /\ setting[r].up \in BOOLEAN
        BY DEF StageInv, StageOf, LocalsType, Setting
      <4> QED
        BY <1>16, <4>1, Zenon DEF Commit, TablesType
    <3> QED
      BY <1>16, <3>1, <3>2, <3>3, <3>4 DEF Commit, TablesType
  <2>2. ControlType'
    <3>1. stage' \in [Request -> Stage]
      BY <1>16, SMTT(30) DEF Commit, Stage, ControlType
    <3>2. dirty' \in [Request -> Rows]
      BY <1>16, SMTT(30) DEF Commit, ReleaseLocks, NoRows, Rows, ControlType
    <3>3. inserted' \in [Request -> BOOLEAN]
      BY <1>16, SMTT(30) DEF Commit, ReleaseLocks, NoRows, Rows, ControlType
    <3> QED
      BY <1>16, <3>1, <3>2, <3>3 DEF Commit, ControlType
  <2> QED
    BY <1>16, <2>1, <2>2, <1>a, <1>d, <1>e DEF Commit
<1>17. ASSUME NEW r \in Request, CommitFails(r) PROVE TypeOK'
  <2>1. ControlType'
    <3>1. stage' \in [Request -> Stage]
      BY <1>17, SMTT(30) DEF CommitFails, Stage, ControlType
    <3>2. dirty' \in [Request -> Rows]
      BY <1>17, SMTT(30) DEF CommitFails, ReleaseLocks, NoRows, Rows, ControlType
    <3>3. inserted' \in [Request -> BOOLEAN]
      BY <1>17, SMTT(30) DEF CommitFails, ReleaseLocks, NoRows, Rows, ControlType
    <3> QED
      BY <1>17, <3>1, <3>2, <3>3 DEF CommitFails, ControlType
  <2> QED
    BY <1>17, <2>1, <1>a, <1>b, <1>d, <1>e DEF CommitFails
<1>18. ASSUME NEW w \in Worker, WorkerDies(w) PROVE TypeOK'
  <2>1. ControlType'
    <3>1. memory' \in [Worker -> Request \cup {None}]
      BY <1>18, PlaceType, SMTT(30) DEF WorkerDies, ControlType
    <3>2. stage' \in [Request -> Stage]
      BY <1>18, SMTT(30) DEF WorkerDies, Stage, ControlType
    <3>3. loop' \in [Worker -> Request \cup {None}]
      BY <1>18, PlaceType, SMTT(30) DEF WorkerDies, ControlType
    <3>4. dirty' \in [Request -> Rows]
      <4>1. NoRows \in Rows
        BY DEF NoRows, Rows
      <4> QED
        BY <1>18, <4>1 DEF WorkerDies, ControlType
    <3>5. inserted' \in [Request -> BOOLEAN]
      BY <1>18, SMTT(30) DEF WorkerDies, ControlType
    <3> QED
      BY <1>18, <3>1, <3>2, <3>3, <3>4, <3>5 DEF WorkerDies, ControlType
  <2> QED
    BY <1>18, <2>1, <1>a, <1>b, <1>d, <1>e DEF WorkerDies
<1>19. ASSUME NEW o \in Op, FinishOperation(o) PROVE TypeOK'
  <2>1. WorldType'
    <3>1. active' \subseteq Op
      BY <1>19, SMTT(30) DEF FinishOperation, WorldType
    <3> QED
      BY <1>19, <3>1 DEF FinishOperation, WorldType
  <2> QED
    BY <1>19, <2>1, <1>b, <1>c, <1>d, <1>e DEF FinishOperation
<1>20. ASSUME NEW o \in Op, IgnoreRunsOut(o) PROVE TypeOK'
  <2>1. TablesType'
    <3>1. ignores' \subseteq Op
      BY <1>20, SMTT(30) DEF IgnoreRunsOut, TablesType
    <3> QED
      BY <1>20, <3>1 DEF IgnoreRunsOut, TablesType
  <2>2. GhostsType'
    <3>1. barred' \in [Request -> SUBSET Op]
      BY <1>20, SMTT(30) DEF IgnoreRunsOut, GhostsType
    <3> QED
      BY <1>20, <3>1 DEF IgnoreRunsOut, GhostsType
  <2> QED
    BY <1>20, <2>1, <2>2, <1>a, <1>c, <1>d DEF IgnoreRunsOut
<1>21. CASE UNCHANGED vars
  BY <1>21, <1>a, <1>b, <1>c, <1>d, <1>e DEF vars, world, tables, locals, ghosts
<1>22. ASSUME NEW r \in Request, ListMachineStatus(r) PROVE TypeOK'
  <2>1. ControlType'
    <3>1. stage' \in [Request -> Stage]
      BY <1>22, SMTT(30) DEF ListMachineStatus, Stage, ControlType
    <3>2. loop' \in [Worker -> Request \cup {None}]
      BY <1>22, PlaceType, SMTT(30) DEF ListMachineStatus, YieldLoop, ControlType
    <3> QED
      BY <1>22, <3>1, <3>2 DEF ListMachineStatus, ControlType
  <2>2. LocalsType'
    <3>1. draft' \in [Request -> [Op -> Machine \cup {None}]]
      <4>1. PICK listed \in Listed \ {{}}, machines \in SUBSET Machine :
              draft' = [draft EXCEPT ![r] = Draft(listed, machines)]
        BY <1>22 DEF ListMachineStatus
      <4> QED
        BY <4>1, DraftType DEF LocalsType
    <3> QED
      BY <1>22, <3>1 DEF ListMachineStatus, LocalsType
  <2> QED
    BY <1>22, <2>1, <2>2, <1>a, <1>b, <1>e DEF ListMachineStatus
<1>23. ASSUME NEW r \in Request, Ask(r) PROVE TypeOK'
  <2>1. ControlType'
    <3>1. stage' \in [Request -> Stage]
      BY <1>23, SMTT(30) DEF Ask, Stage, ControlType
    <3>2. loop' \in [Worker -> Request \cup {None}]
      BY <1>23, PlaceType, SMTT(30) DEF Ask, KeepLoop, ControlType
    <3> QED
      BY <1>23, <3>1, <3>2 DEF Ask, ControlType
  <2>2. GhostsType'
    <3>1. barred' \in [Request -> SUBSET Op]
      BY <1>23, SMTT(30) DEF Ask, GhostsType, TablesType
    <3> QED
      BY <1>23, <3>1 DEF Ask, GhostsType
  <2> QED
    BY <1>23, <2>1, <2>2, <1>a, <1>b, <1>d DEF Ask
<1>24. ASSUME NEW r \in Request, ListActiveIgnores(r) PROVE TypeOK'
  <2>1. ControlType'
    <3>1. stage' \in [Request -> Stage]
      BY <1>24, SMTT(30) DEF ListActiveIgnores, Stage, ControlType
    <3>2. loop' \in [Worker -> Request \cup {None}]
      BY <1>24, PlaceType, SMTT(30) DEF ListActiveIgnores, YieldLoop, ControlType
    <3> QED
      BY <1>24, <3>1, <3>2 DEF ListActiveIgnores, ControlType
  <2>2. LocalsType'
    <3>1. view' \in [Request -> [Op -> Row \cup {None}]]
      BY <1>24, SMTT(30) DEF ListActiveIgnores, LocalsType
    <3> QED
      BY <1>24, <3>1 DEF ListActiveIgnores, LocalsType
  <2>3. GhostsType'
    <3>1. blind' \subseteq Request
      BY <1>24, SMTT(30) DEF ListActiveIgnores, GhostsType
    <3> QED
      BY <1>24, <3>1 DEF ListActiveIgnores, GhostsType
  <2> QED
    BY <1>24, <2>1, <2>2, <2>3, <1>a, <1>b DEF ListActiveIgnores
<1>25. ASSUME NEW r \in Request, GetPlannedJob(r) PROVE TypeOK'
  <2>1. ControlType'
    <3>1. stage' \in [Request -> Stage]
      BY <1>25, SMTT(30) DEF GetPlannedJob, Stage, ControlType
    <3>2. loop' \in [Worker -> Request \cup {None}]
      BY <1>25, PlaceType, SMTT(30) DEF GetPlannedJob, YieldLoop, ControlType
    <3>3. inserted' \in [Request -> BOOLEAN]
      BY <1>25, Zenon DEF GetPlannedJob, ControlType
    <3> QED
      BY <1>25, <3>1, <3>2, <3>3 DEF GetPlannedJob, ControlType
  <2>2. LocalsType'
    <3>1. target' \in [Request -> Aim]
      <4>1. \A b \in Batch, o \in Op : [batch |-> b, op |-> o] \in Aim
        BY DEF Aim
      <4>2. target' = target \/ \E b \in Batch, o \in Op : AimAt(r, b, o)
        BY <1>25 DEF GetPlannedJob
      <4> QED
        BY <4>1, <4>2 DEF AimAt, LocalsType
    <3> QED
      BY <1>25, <3>1 DEF GetPlannedJob, LocalsType
  <2> QED
    BY <1>25, <2>1, <2>2, <1>a, <1>b, <1>e DEF GetPlannedJob
<1>26. ASSUME NEW r \in Request, RelistMachines(r) PROVE TypeOK'
  <2>1. ControlType'
    <3>1. stage' \in [Request -> Stage]
      BY <1>26, SMTT(30) DEF RelistMachines, Stage, ControlType
    <3>2. loop' \in [Worker -> Request \cup {None}]
      BY <1>26, PlaceType, SMTT(30) DEF RelistMachines, YieldLoop, ControlType
    <3>3. inserted' \in [Request -> BOOLEAN]
      BY <1>26, Zenon DEF RelistMachines, ControlType
    <3> QED
      BY <1>26, <3>1, <3>2, <3>3 DEF RelistMachines, ControlType
  <2> QED
    BY <1>26, <2>1, <1>a, <1>b, <1>d, <1>e DEF RelistMachines
<1> QED
  BY <1>1, <1>2, <1>3, <1>4, <1>5, <1>6, <1>7, <1>8, <1>9, <1>10, <1>11, <1>12,
     <1>13, <1>14, <1>15, <1>16, <1>17, <1>18, <1>19, <1>20, <1>21, <1>22, <1>23, <1>24,
     <1>25, <1>26 DEF Next, ServerStep

\* Every step preserves what a request holds at each stage.
LEMMA StepStage == IInv /\ [Next]_vars => StageInv'
<1> SUFFICES ASSUME IInv, [Next]_vars PROVE StageInv'
  OBVIOUS
<1> USE DistinctAssumption
    DEF IInv, TypeOK, ControlType, LocalsType, StageInv, StageOf, Closing, Ended, GoTo,
        world, tables, locals, ghosts
<1>1. ASSUME NEW r \in Request, Refresh(r) PROVE StageInv'
  BY <1>1, PlaceType, SMTT(60) DEF Refresh
<1>2. ASSUME NEW r \in Request, ListOperations(r) PROVE StageInv'
  BY <1>2, PlaceType, SMTT(60) DEF ListOperations
<1>3. ASSUME NEW r \in Request, BeginBatch(r) PROVE StageInv'
  BY <1>3, PlaceType, SMTT(60) DEF BeginBatch, KeepLoop
<1>4. ASSUME NEW r \in Request, Retire(r) PROVE StageInv'
  BY <1>4, PlaceType, SMTT(60) DEF Retire
<1>5. ASSUME NEW r \in Request, InsertBatch(r) PROVE StageInv'
  BY <1>5, PlaceType, SMTT(60) DEF InsertBatch, YieldLoop
<1>6. ASSUME NEW r \in Request, FetchLatestPlanBatch(r) PROVE StageInv'
  <2> SUFFICES ASSUME NEW q \in Request PROVE StageOf(q)'
    BY DEF StageInv
  <2>1. StageOf(q)
    BY DEF StageInv
  <2>4. \A b \in Batch : b # None
    OBVIOUS
  <2>2. CASE q = r
    BY <1>6, <2>1, <2>2, <2>4 DEF FetchLatestPlanBatch, AimAt
  <2>3. CASE q # r
    BY <1>6, <2>1, <2>3 DEF FetchLatestPlanBatch, AimAt
  <2> QED
    BY <2>2, <2>3
<1>7. ASSUME NEW r \in Request, ListPlannedJobs(r) PROVE StageInv'
  BY <1>7, PlaceType, SMTT(60) DEF ListPlannedJobs, YieldLoop
<1>8. ASSUME NEW r \in Request, Hydrate(r) PROVE StageInv'
  BY <1>8, PlaceType, SMTT(60) DEF Hydrate
<1>9. ASSUME NEW r \in Request, InsertDecision(r) PROVE StageInv'
  <2> SUFFICES ASSUME NEW q \in Request PROVE StageOf(q)'
    BY DEF StageInv
  <2>1. StageOf(q)
    BY DEF StageInv
  <2>4. target[r].batch \in Batch /\ \A o \in Op : [batch |-> target[r].batch, op |-> o] \in Target
    BY <1>9, AimType DEF InsertDecision, StageInv, StageOf, Target
  <2>2. CASE q = r
    BY <1>9, <2>1, <2>2, <2>4 DEF InsertDecision, AimAt
  <2>3. CASE q # r
    BY <1>9, <2>1, <2>3 DEF InsertDecision, AimAt
  <2> QED
    BY <2>2, <2>3
<1>10. ASSUME NEW r \in Request, MarkDispatched(r) PROVE StageInv'
  <2> SUFFICES ASSUME NEW q \in Request PROVE StageOf(q)'
    BY DEF StageInv
  <2>1. StageOf(q)
    BY DEF StageInv
  <2>2. CASE q = r
    BY <1>10, <2>1, <2>2 DEF MarkDispatched
  <2>3. CASE q # r
    BY <1>10, <2>1, <2>3 DEF MarkDispatched
  <2> QED
    BY <2>2, <2>3
<1>11. ASSUME NEW r \in Request, Refuse(r) PROVE StageInv'
  <2> SUFFICES ASSUME NEW q \in Request PROVE StageOf(q)'
    BY DEF StageInv
  <2>1. StageOf(q)
    BY DEF StageInv
  <2>4. \A b \in Batch, o \in Op : [batch |-> b, op |-> o] \in Target
    BY DEF Target
  <2>2. CASE q = r
    BY <1>11, <2>1, <2>2, <2>4 DEF Refuse, AimAt
  <2>3. CASE q # r
    BY <1>11, <2>1, <2>3 DEF Refuse, AimAt
  <2> QED
    BY <2>2, <2>3
<1>12. ASSUME NEW r \in Request, MarkSkipped(r) PROVE StageInv'
  <2> SUFFICES ASSUME NEW q \in Request PROVE StageOf(q)'
    BY DEF StageInv
  <2>1. StageOf(q)
    BY DEF StageInv
  <2>2. CASE q = r
    BY <1>12, <2>1, <2>2 DEF MarkSkipped
  <2>3. CASE q # r
    BY <1>12, <2>1, <2>3 DEF MarkSkipped
  <2> QED
    BY <2>2, <2>3
<1>13. ASSUME NEW r \in Request, SetMachineStatus(r) PROVE StageInv'
  BY <1>13, PlaceType, SMTT(60) DEF SetMachineStatus, KeepLoop
<1>14. ASSUME NEW r \in Request, UpsertMachineStatus(r) PROVE StageInv'
  BY <1>14, PlaceType, SMTT(60) DEF UpsertMachineStatus
<1>15. ASSUME NEW r \in Request, HandOver(r) PROVE StageInv'
  BY <1>15, PlaceType, SMTT(60) DEF HandOver
<1>16. ASSUME NEW r \in Request, Commit(r) PROVE StageInv'
  <2> SUFFICES ASSUME NEW q \in Request PROVE StageOf(q)'
    BY DEF StageInv
  <2>1. StageOf(q)
    BY DEF StageInv
  <2>5. stage'[r] = "answered" /\ inserted'[r] = FALSE
    BY <1>16 DEF Commit, ReleaseLocks
  <2>4. \A b \in Batch, o \in Op : plan[b][o] # None => plan'[b][o] # None
    BY <1>16 DEF Commit
  <2>2. CASE q = r
    BY <1>16, <2>1, <2>2, <2>5 DEF Commit, ReleaseLocks
  <2>3. CASE q # r
    <3>1. /\ stage'[q] = stage[q] /\ inserted'[q] = inserted[q]
          /\ target' = target /\ setting' = setting /\ kind' = kind
      BY <1>16, <2>3 DEF Commit, ReleaseLocks
    <3> QED
      BY <2>1, <2>4, <3>1 DEF Target
  <2> QED
    BY <2>2, <2>3
<1>17. ASSUME NEW r \in Request, CommitFails(r) PROVE StageInv'
  BY <1>17, PlaceType, SMTT(60) DEF CommitFails, ReleaseLocks
<1>18. ASSUME NEW w \in Worker, WorkerDies(w) PROVE StageInv'
  <2> SUFFICES ASSUME NEW q \in Request PROVE StageOf(q)'
    BY DEF StageInv
  <2>1. StageOf(q)
    BY DEF StageInv
  <2> QED
    BY <1>18, <2>1 DEF WorkerDies
<1>19. ASSUME NEW p \in Op, FinishOperation(p) PROVE StageInv'
  BY <1>19, PlaceType, SMTT(60) DEF FinishOperation
<1>20. ASSUME NEW p \in Op, IgnoreRunsOut(p) PROVE StageInv'
  BY <1>20, PlaceType, SMTT(60) DEF IgnoreRunsOut
<1>21. CASE UNCHANGED vars
  BY PlaceType, <1>21 DEF vars
<1>22. ASSUME NEW r \in Request, ListMachineStatus(r) PROVE StageInv'
  BY <1>22, PlaceType, SMTT(60) DEF ListMachineStatus
<1>23. ASSUME NEW r \in Request, Ask(r) PROVE StageInv'
  BY <1>23, PlaceType, SMTT(60) DEF Ask
<1>24. ASSUME NEW r \in Request, ListActiveIgnores(r) PROVE StageInv'
  BY <1>24, PlaceType, SMTT(60) DEF ListActiveIgnores
<1>25. ASSUME NEW r \in Request, GetPlannedJob(r) PROVE StageInv'
  <2> SUFFICES ASSUME NEW q \in Request PROVE StageOf(q)'
    BY DEF StageInv
  <2>1. StageOf(q) /\ StageOf(r)
    BY DEF StageInv
  <2>4. \A b \in Batch, o \in Op : [batch |-> b, op |-> o] \in Target
    BY DEF Target
  <2>5. target' = target \/ \E b \in Batch, o \in Op : AimAt(r, b, o)
    BY <1>25 DEF GetPlannedJob
  <2>2. CASE q = r
    <3>1. stage[r] = "seeking" /\ stage'[r] \in {"skipping", "declined"} /\ kind' = kind
      BY <1>25 DEF GetPlannedJob
    <3>2. stage'[r] = "skipping" => target'[r] \in Target
      BY <1>25, <2>1, <2>4, <3>1 DEF GetPlannedJob, AimAt
    <3>3. stage'[r] = "declined" => inserted' = inserted
      BY <1>25, <3>1 DEF GetPlannedJob
    <3>4. target'[r] = target[r] \/ target'[r] \in Target
      BY <2>4, <2>5 DEF AimAt
    <3>5. kind[r] = "refuse" /\ ~inserted[r]
      BY <2>1, <3>1
    <3> QED
      BY <2>1, <2>2, <3>1, <3>2, <3>3, <3>4, <3>5 DEF Target
  <2>3. CASE q # r
    <3>1. /\ kind' = kind /\ setting' = setting /\ stage'[q] = stage[q]
          /\ inserted'[q] = inserted[q]
      BY <1>25, <2>3 DEF GetPlannedJob
    <3>2. target'[q] = target[q]
      BY <2>3, <2>5 DEF AimAt
    <3> QED
      BY <2>1, <3>1, <3>2
  <2> QED
    BY <2>2, <2>3
<1>26. ASSUME NEW r \in Request, RelistMachines(r) PROVE StageInv'
  BY <1>26, PlaceType, SMTT(60) DEF RelistMachines
<1> QED
  BY <1>1, <1>2, <1>3, <1>4, <1>5, <1>6, <1>7, <1>8, <1>9, <1>10, <1>11, <1>12,
     <1>13, <1>14, <1>15, <1>16, <1>17, <1>18, <1>19, <1>20, <1>21, <1>22, <1>23, <1>24,
     <1>25, <1>26 DEF Next, ServerStep

\* A batch is in the table only when its refresh has been answered.
LEMMA NotInTable ==
  ASSUME IInv, NEW r \in Request, stage[r] # "answered"
  PROVE  ~InTable(r) /\ \A o \in Op : plan[r][o] = None
  BY DEF IInv, BatchInv, InTable

\* What is known of a lock.
LEMMA Locked ==
  ASSUME IInv, NEW r \in Request, NEW b \in Batch, NEW o \in Op, dirty[r][b][o] # None
  PROVE  LockOf(r, b, o)
  BY DEF IInv, LockInv

\* A commit puts no batch in the table but its own request's.
LEMMA CommitTable ==
  ASSUME IInv, NEW r \in Request, Commit(r), NEW b \in Batch
  PROVE  /\ InTable(b) => InTable(b)'
         /\ InTable(b)' => InTable(b) \/ (b = r /\ \E o \in Op : dirty[r][r][o] # None)
<1>1. \A o \in Op : plan'[b][o] = IF dirty[r][b][o] # None THEN dirty[r][b][o] ELSE plan[b][o]
  BY DEF Commit
<1>2. ASSUME NEW o \in Op, dirty[r][b][o] # None PROVE b = r \/ plan[b][o] # None
  <2>1. LockOf(r, b, o)
    BY <1>2, Locked
  <2> QED
    BY <2>1 DEF LockOf
<1> QED
  BY <1>1, <1>2 DEF InTable

\* Only commits change the tables of jobs and decisions.
LEMMA PlanSteps ==
  ASSUME [Next]_vars, ~\E r \in Request : Commit(r)
  PROVE  plan' = plan /\ decision' = decision
<1> USE DEF world, tables
<1>1. ASSUME NEW r \in Request,
             Refresh(r) \/ Ask(r) \/ Refuse(r) \/ SetMachineStatus(r)
      PROVE  plan' = plan /\ decision' = decision
  BY <1>1 DEF Refresh, Ask, Refuse, SetMachineStatus
<1>2. ASSUME NEW r \in Request, ServerStep(r) PROVE plan' = plan /\ decision' = decision
  BY <1>2 DEF ServerStep, ListOperations, ListMachineStatus, BeginBatch, Retire, InsertBatch,
     FetchLatestPlanBatch, ListPlannedJobs, Hydrate, ListActiveIgnores, InsertDecision,
     MarkDispatched, GetPlannedJob, MarkSkipped, UpsertMachineStatus, RelistMachines, HandOver,
     CommitFails
<1>3. ASSUME NEW w \in Worker, WorkerDies(w) PROVE plan' = plan /\ decision' = decision
  BY <1>3 DEF WorkerDies
<1>4. ASSUME NEW o \in Op, FinishOperation(o) \/ IgnoreRunsOut(o) PROVE plan' = plan /\ decision' = decision
  BY <1>4 DEF FinishOperation, IgnoreRunsOut
<1> QED
  BY <1>1, <1>2, <1>3, <1>4 DEF Next, vars

\* Locks are held only between a write and the end of the session.
LEMMA StepHolding == IInv /\ [Next]_vars => HoldingInv'
<1> SUFFICES ASSUME IInv, [Next]_vars PROVE HoldingInv'
  OBVIOUS
<1> SUFFICES ASSUME NEW q \in Request
             PROVE  (NoLocks(q) \/ stage[q] \in {"inserting"} \cup Closing)'
  BY DEF HoldingInv
<1>0. NoLocks(q) \/ stage[q] \in {"inserting"} \cup Closing
  BY DEF IInv, HoldingInv
<1> DEFINE Goal == NoLocks(q) \/ stage[q] \in {"inserting"} \cup Closing
<1> USE <1>0, DistinctAssumption
    DEF IInv, TypeOK, ControlType, Closing, Ended, NoLocks, NoRows, GoTo,
        world, tables, locals, ghosts
<1>1. ASSUME NEW r \in Request, Refresh(r) PROVE Goal'
  BY <1>1, SMTT(60) DEF Refresh
<1>2. ASSUME NEW r \in Request, ListOperations(r) PROVE Goal'
  BY <1>2, SMTT(60) DEF ListOperations
<1>3. ASSUME NEW r \in Request, BeginBatch(r) PROVE Goal'
  BY <1>3, SMTT(60) DEF BeginBatch, KeepLoop
<1>4. ASSUME NEW r \in Request, Retire(r) PROVE Goal'
  BY <1>4, SMTT(60) DEF Retire
<1>5. ASSUME NEW r \in Request, InsertBatch(r) PROVE Goal'
  BY <1>5, SMTT(60) DEF InsertBatch, YieldLoop
<1>6. ASSUME NEW r \in Request, FetchLatestPlanBatch(r) PROVE Goal'
  BY <1>6, SMTT(60) DEF FetchLatestPlanBatch, AimAt
<1>7. ASSUME NEW r \in Request, ListPlannedJobs(r) PROVE Goal'
  BY <1>7, SMTT(60) DEF ListPlannedJobs, YieldLoop
<1>8. ASSUME NEW r \in Request, Hydrate(r) PROVE Goal'
  BY <1>8, SMTT(60) DEF Hydrate
<1>9. ASSUME NEW r \in Request, InsertDecision(r) PROVE Goal'
  BY <1>9, SMTT(60) DEF InsertDecision, KeepLoop, AimAt
<1>10. ASSUME NEW r \in Request, MarkDispatched(r) PROVE Goal'
  BY <1>10, SMTT(60) DEF MarkDispatched, YieldLoop, Write
<1>11. ASSUME NEW r \in Request, Refuse(r) PROVE Goal'
  BY <1>11, SMTT(60) DEF Refuse, KeepLoop, AimAt
<1>12. ASSUME NEW r \in Request, MarkSkipped(r) PROVE Goal'
  BY <1>12, SMTT(60) DEF MarkSkipped, YieldLoop, Write
<1>13. ASSUME NEW r \in Request, SetMachineStatus(r) PROVE Goal'
  BY <1>13, SMTT(60) DEF SetMachineStatus, KeepLoop
<1>14. ASSUME NEW r \in Request, UpsertMachineStatus(r) PROVE Goal'
  BY <1>14, SMTT(60) DEF UpsertMachineStatus
<1>15. ASSUME NEW r \in Request, HandOver(r) PROVE Goal'
  BY <1>15, SMTT(60) DEF HandOver
<1>16. ASSUME NEW r \in Request, Commit(r) PROVE Goal'
  BY <1>16, SMTT(60) DEF Commit, ReleaseLocks
<1>17. ASSUME NEW r \in Request, CommitFails(r) PROVE Goal'
  BY <1>17, SMTT(60) DEF CommitFails, ReleaseLocks
<1>18. ASSUME NEW w \in Worker, WorkerDies(w) PROVE Goal'
  BY <1>18, SMTT(60) DEF WorkerDies
<1>19. ASSUME NEW p \in Op, FinishOperation(p) PROVE Goal'
  BY <1>19, SMTT(60) DEF FinishOperation
<1>20. ASSUME NEW p \in Op, IgnoreRunsOut(p) PROVE Goal'
  BY <1>20, SMTT(60) DEF IgnoreRunsOut
<1>21. CASE UNCHANGED vars
  BY <1>21 DEF vars
<1>22. ASSUME NEW r \in Request, ListMachineStatus(r) PROVE Goal'
  BY <1>22, SMTT(60) DEF ListMachineStatus
<1>23. ASSUME NEW r \in Request, Ask(r) PROVE Goal'
  BY <1>23, SMTT(60) DEF Ask
<1>24. ASSUME NEW r \in Request, ListActiveIgnores(r) PROVE Goal'
  BY <1>24, SMTT(60) DEF ListActiveIgnores
<1>25. ASSUME NEW r \in Request, GetPlannedJob(r) PROVE Goal'
  BY <1>25, SMTT(60) DEF GetPlannedJob, AimAt
<1>26. ASSUME NEW r \in Request, RelistMachines(r) PROVE Goal'
  BY <1>26, SMTT(60) DEF RelistMachines
<1> QED
  BY <1>1, <1>2, <1>3, <1>4, <1>5, <1>6, <1>7, <1>8, <1>9, <1>10, <1>11, <1>12,
     <1>13, <1>14, <1>15, <1>16, <1>17, <1>18, <1>19, <1>20, <1>21, <1>22, <1>23, <1>24,
     <1>25, <1>26 DEF Next, ServerStep

\* A batch that was not stored never will be.
LEMMA StepDead ==
  ASSUME IInv, [Next]_vars, NEW b \in Request, Dead(b)
  PROVE  Dead(b)'
<1>0. TypeOK
  BY DEF IInv
<1>b. b \in Batch
  BY DEF Batch
<1>s. stage[b] \in Closing \cup Ended /\ \A o \in Op : dirty[b][b][o] = None
  BY DEF Dead
<1> DEFINE Goal == stage[b] \in Closing \cup Ended /\ \A o \in Op : dirty[b][b][o] = None
<1> USE DistinctAssumption
    DEF TypeOK, ControlType, Closing, Ended, NoRows, GoTo, world, tables, locals, ghosts
<1>1. ASSUME NEW r \in Request, Refresh(r) PROVE Goal'
  BY <1>1, <1>0, <1>b, <1>s, SMTT(60) DEF Refresh
<1>2. ASSUME NEW r \in Request, ListOperations(r) PROVE Goal'
  BY <1>2, <1>0, <1>b, <1>s, SMTT(60) DEF ListOperations
<1>3. ASSUME NEW r \in Request, BeginBatch(r) PROVE Goal'
  BY <1>3, <1>0, <1>b, <1>s, SMTT(60) DEF BeginBatch, KeepLoop
<1>4. ASSUME NEW r \in Request, Retire(r) PROVE Goal'
  BY <1>4, <1>0, <1>b, <1>s, SMTT(60) DEF Retire
<1>5. ASSUME NEW r \in Request, InsertBatch(r) PROVE Goal'
  BY <1>5, <1>0, <1>b, <1>s, SMTT(60) DEF InsertBatch, YieldLoop
<1>6. ASSUME NEW r \in Request, FetchLatestPlanBatch(r) PROVE Goal'
  BY <1>6, <1>0, <1>b, <1>s, SMTT(60) DEF FetchLatestPlanBatch, AimAt
<1>7. ASSUME NEW r \in Request, ListPlannedJobs(r) PROVE Goal'
  BY <1>7, <1>0, <1>b, <1>s, SMTT(60) DEF ListPlannedJobs, YieldLoop
<1>8. ASSUME NEW r \in Request, Hydrate(r) PROVE Goal'
  BY <1>8, <1>0, <1>b, <1>s, SMTT(60) DEF Hydrate
<1>9. ASSUME NEW r \in Request, InsertDecision(r) PROVE Goal'
  BY <1>9, <1>0, <1>b, <1>s, SMTT(60) DEF InsertDecision, KeepLoop, AimAt
<1>10. ASSUME NEW r \in Request, MarkDispatched(r) PROVE Goal'
  BY <1>10, <1>0, <1>b, <1>s, SMTT(60) DEF MarkDispatched, YieldLoop, Write
<1>11. ASSUME NEW r \in Request, Refuse(r) PROVE Goal'
  BY <1>11, <1>0, <1>b, <1>s, SMTT(60) DEF Refuse, KeepLoop, AimAt
<1>12. ASSUME NEW r \in Request, MarkSkipped(r) PROVE Goal'
  BY <1>12, <1>0, <1>b, <1>s, SMTT(60) DEF MarkSkipped, YieldLoop, Write
<1>13. ASSUME NEW r \in Request, SetMachineStatus(r) PROVE Goal'
  BY <1>13, <1>0, <1>b, <1>s, SMTT(60) DEF SetMachineStatus, KeepLoop
<1>14. ASSUME NEW r \in Request, UpsertMachineStatus(r) PROVE Goal'
  BY <1>14, <1>0, <1>b, <1>s, SMTT(60) DEF UpsertMachineStatus
<1>15. ASSUME NEW r \in Request, HandOver(r) PROVE Goal'
  BY <1>15, <1>0, <1>b, <1>s, SMTT(60) DEF HandOver
<1>16. ASSUME NEW r \in Request, Commit(r) PROVE Goal'
  BY <1>16, <1>0, <1>b, <1>s, SMTT(60) DEF Commit, ReleaseLocks
<1>17. ASSUME NEW r \in Request, CommitFails(r) PROVE Goal'
  BY <1>17, <1>0, <1>b, <1>s, SMTT(60) DEF CommitFails, ReleaseLocks
<1>18. ASSUME NEW w \in Worker, WorkerDies(w) PROVE Goal'
  BY <1>18, <1>0, <1>b, <1>s, SMTT(60) DEF WorkerDies
<1>19. ASSUME NEW p \in Op, FinishOperation(p) PROVE Goal'
  BY <1>19, <1>0, <1>b, <1>s, SMTT(60) DEF FinishOperation
<1>20. ASSUME NEW p \in Op, IgnoreRunsOut(p) PROVE Goal'
  BY <1>20, <1>0, <1>b, <1>s, SMTT(60) DEF IgnoreRunsOut
<1>21. ASSUME UNCHANGED vars PROVE Goal'
  BY <1>0, <1>b, <1>s, <1>21 DEF vars
<1>22. ASSUME NEW r \in Request, ListMachineStatus(r) PROVE Goal'
  BY <1>22, <1>0, <1>b, <1>s, SMTT(60) DEF ListMachineStatus
<1>23. ASSUME NEW r \in Request, Ask(r) PROVE Goal'
  BY <1>23, <1>0, <1>b, <1>s, SMTT(60) DEF Ask
<1>24. ASSUME NEW r \in Request, ListActiveIgnores(r) PROVE Goal'
  BY <1>24, <1>0, <1>b, <1>s, SMTT(60) DEF ListActiveIgnores
<1>25. ASSUME NEW r \in Request, GetPlannedJob(r) PROVE Goal'
  BY <1>25, <1>0, <1>b, <1>s, SMTT(60) DEF GetPlannedJob, AimAt
<1>26. ASSUME NEW r \in Request, RelistMachines(r) PROVE Goal'
  BY <1>26, <1>0, <1>b, <1>s, SMTT(60) DEF RelistMachines
<1>27. Goal'
  BY <1>1, <1>2, <1>3, <1>4, <1>5, <1>6, <1>7, <1>8, <1>9, <1>10, <1>11, <1>12,
     <1>13, <1>14, <1>15, <1>16, <1>17, <1>18, <1>19, <1>20, <1>21, <1>22, <1>23, <1>24,
     <1>25, <1>26 DEF Next, ServerStep
<1>28. ~InTable(b)'
  <2>1. CASE \E r \in Request : Commit(r)
    BY <2>1, <1>b, CommitTable DEF Dead
  <2>2. CASE ~\E r \in Request : Commit(r)
    <3>1. plan' = plan
      BY <2>2, PlanSteps
    <3> QED
      BY <3>1 DEF InTable, Dead
  <2> QED
    BY <2>1, <2>2
<1> QED
  BY <1>27, <1>28 DEF Dead

\* A lock stays what it is while its row, its request and the other locks do.
LEMMA LockFrame ==
  ASSUME IInv, [Next]_vars, NEW r \in Request, NEW b \in Batch, NEW o \in Op,
         dirty[r][b][o] # None, dirty'[r][b][o] = dirty[r][b][o],
         \A q \in Request \ {r} : dirty'[q][b][o] = None,
         kind' = kind, plan'[b][o] = plan[b][o],
         target'[r] = target[r], inserted'[r] = inserted[r]
  PROVE  LockOf(r, b, o)'
<1>1. LockOf(r, b, o)
  BY Locked
<1>2. ASSUME kind[r] = "next", inserted[r], ~InTable(target[r].batch)
      PROVE  ~InTable(target[r].batch)'
  <2>1. target[r].batch \in Batch /\ target[r].batch # None
    BY <1>2, DistinctAssumption DEF IInv, StageInv, StageOf, Target
  <2>2. PICK c \in Batch : c = target[r].batch
    BY <2>1
  <2>3. Dead(c)
    BY <1>2, <2>1, <2>2 DEF IInv, BatchInv
  <2>4. Dead(c)'
    BY <2>3, StepDead DEF Dead
  <2> QED
    BY <2>2, <2>4 DEF Dead
<1> QED
  BY <1>1, <1>2 DEF LockOf, IsPlanned

\* Every step preserves what is known of locks.
LEMMA StepLock ==
  ASSUME IInv, [Next]_vars
  PROVE  LockInv'
<1> SUFFICES ASSUME NEW q \in Request, NEW b \in Batch, NEW o \in Op
             PROVE  dirty'[q][b][o] # None => LockOf(q, b, o)'
  BY DEF LockInv
<1>0. TypeOK
  BY DEF IInv
<1>b. Request \subseteq Batch
  BY DEF Batch
<1>h. NoLocks(q) \/ stage[q] \in {"inserting"} \cup Closing
  BY DEF IInv, HoldingInv
<1>l. ASSUME dirty[q][b][o] # None PROVE \A p \in Request \ {q} : dirty[p][b][o] = None
  <2>1. LockOf(q, b, o)
    BY <1>l, Locked
  <2> QED
    BY <2>1 DEF LockOf
<1>f. ASSUME dirty[q][b][o] # None, dirty'[q][b][o] = dirty[q][b][o],
             \A p \in Request \ {q} : dirty'[p][b][o] = None,
             kind' = kind, plan'[b][o] = plan[b][o],
             target'[q] = target[q], inserted'[q] = inserted[q]
      PROVE  LockOf(q, b, o)'
  BY <1>f, LockFrame
<1> DEFINE Goal == dirty[q][b][o] # None => LockOf(q, b, o)
<1> USE DistinctAssumption
    DEF TypeOK, ControlType, LocalsType, Closing, Ended, NoLocks, NoRows, GoTo, world, tables, locals, ghosts
<1>1. ASSUME NEW r \in Request, Refresh(r) PROVE Goal'
  BY <1>1, <1>0, <1>h, <1>l, <1>f, SMTT(60) DEF Refresh
<1>2. ASSUME NEW r \in Request, ListOperations(r) PROVE Goal'
  BY <1>2, <1>0, <1>h, <1>l, <1>f, SMTT(60) DEF ListOperations
<1>3. ASSUME NEW r \in Request, BeginBatch(r) PROVE Goal'
  BY <1>3, <1>0, <1>h, <1>l, <1>f, SMTT(60) DEF BeginBatch, KeepLoop
<1>4. ASSUME NEW r \in Request, Retire(r) PROVE Goal'
  <2>1. stage[r] = "retiring" /\ \A p \in Request \ {r} : NoLocks(p) /\ dirty'[p] = dirty[p]
    BY <1>4, <1>0 DEF Retire
  <2>2. CASE q # r
    BY <2>1, <2>2
  <2>3. CASE q = r
    <3>1. NoLocks(r) /\ \A p \in Request \ {r} : dirty'[p][b][o] = None
      BY <1>h, <2>1, <2>3
    <3>2. plan[r][o] = None
      BY <2>1, NotInTable
    <3>3. ASSUME dirty'[r][b][o] # None
          PROVE  IsPlanned(plan[b][o]) /\ dirty'[r][b][o] = Cancelled(plan[b][o])
      <4>1. \/ dirty' = dirty
            \/ dirty'[r][b][o] = IF IsPlanned(plan[b][o])
                 THEN Cancelled(plan[b][o]) ELSE None
        BY <1>4, <1>0 DEF Retire
      <4> QED
        BY <3>1, <3>3, <4>1
    <3>4. ASSUME dirty'[r][b][o] # None PROVE dirty'[r][b][o].status = "cancelled"
      <4>1. plan[b][o] \in Row
        BY <1>0, <3>3, <3>4 DEF TablesType, Rows, IsPlanned
      <4> QED
        BY <3>3, <3>4, <4>1 DEF Row, Cancelled
    <3>5. plan' = plan
      BY <1>4 DEF Retire
    <3> QED
      BY <2>3, <3>1, <3>2, <3>3, <3>4, <3>5 DEF LockOf, IsPlanned
  <2> QED
    BY <2>2, <2>3
<1>5. ASSUME NEW r \in Request, InsertBatch(r) PROVE Goal'
  <2>1. /\ stage[r] = "inserting" /\ \A p \in Request \ {r} : dirty'[p] = dirty[p]
        /\ kind' = kind /\ plan' = plan /\ target' = target /\ inserted' = inserted
    BY <1>5, <1>0 DEF InsertBatch
  <2>2. plan[r][o] = None
    BY <2>1, NotInTable
  <2>3. ASSUME NEW p \in Request \ {r}, dirty[p][r][o] # None PROVE FALSE
    <3>1. LockOf(p, r, o)
      BY <1>b, <2>3, Locked
    <3> QED
      BY <2>2, <2>3, <3>1 DEF LockOf
  <2>4. \/ b # r /\ dirty'[r][b][o] = dirty[r][b][o]
        \/ b = r /\ dirty'[r][b][o] = Entries(draft[r])[o]
        \/ dirty'[r][b][o] = None
    BY <1>5, <1>0 DEF InsertBatch
  <2>5. CASE q # r
    BY <1>f, <1>l, <2>1, <2>3, <2>4, <2>5
  <2>6. CASE q = r /\ dirty'[r][b][o] = dirty[r][b][o]
    BY <1>f, <1>l, <2>1, <2>6
  <2>7. CASE q = r /\ b = r /\ dirty'[r][b][o] = Entries(draft[r])[o]
    <3>1. ASSUME dirty'[r][r][o] # None PROVE dirty'[r][r][o].status = "planned"
      BY <2>7, <3>1 DEF Entries, Planned
    <3>2. kind[r] = "refresh"
      BY <2>1 DEF IInv, StageInv, StageOf
    <3>3. \A p \in Request \ {r} : dirty'[p][r][o] = None
      BY <2>1, <2>3
    <3> QED
      BY <2>1, <2>2, <2>7, <3>1, <3>2, <3>3 DEF LockOf
  <2> QED
    BY <2>4, <2>5, <2>6, <2>7
<1>6. ASSUME NEW r \in Request, FetchLatestPlanBatch(r) PROVE Goal'
  BY <1>6, <1>0, <1>h, <1>l, <1>f, SMTT(60) DEF FetchLatestPlanBatch, AimAt
<1>7. ASSUME NEW r \in Request, ListPlannedJobs(r) PROVE Goal'
  BY <1>7, <1>0, <1>h, <1>l, <1>f, SMTT(60) DEF ListPlannedJobs, YieldLoop
<1>8. ASSUME NEW r \in Request, Hydrate(r) PROVE Goal'
  BY <1>8, <1>0, <1>h, <1>l, <1>f, SMTT(60) DEF Hydrate
<1>9. ASSUME NEW r \in Request, InsertDecision(r) PROVE Goal'
  BY <1>9, <1>0, <1>h, <1>l, <1>f, SMTT(60) DEF InsertDecision, KeepLoop, AimAt
<1>10. ASSUME NEW r \in Request, MarkDispatched(r) PROVE Goal'
  <2>1. /\ stage[r] = "marking" /\ \A p \in Request \ {r} : dirty'[p][b][o] = dirty[p][b][o]
        /\ kind' = kind /\ plan' = plan /\ target' = target /\ inserted' = inserted
    BY <1>10, <1>0 DEF MarkDispatched, Write
  <2>2. plan[r][o] = None
    BY <2>1, NotInTable
  <2>3. \/ dirty'[r][b][o] = dirty[r][b][o]
        \/ /\ JobRow(r, b, o) /\ ~RowLocked(r, b, o)
           /\ dirty'[r][b][o] = Dispatched(plan[b][o], r)
    BY <1>10, <1>0 DEF MarkDispatched, Write
  <2>4. CASE q # r
    BY <1>f, <1>l, <2>1, <2>3, <2>4 DEF RowLocked
  <2>5. CASE q = r /\ dirty'[r][b][o] = dirty[r][b][o]
    BY <1>f, <1>l, <2>1, <2>5
  <2>6. CASE /\ q = r /\ JobRow(r, b, o) /\ ~RowLocked(r, b, o)
             /\ dirty'[r][b][o] = Dispatched(plan[b][o], r)
    <3>1. plan[b][o] \in Row /\ plan[b][o] # None
      BY <1>0, <2>6, <2>1 DEF TablesType, Rows, JobRow
    <3>2. dirty'[r][b][o].status = "dispatched" /\ dirty'[r][b][o].decision = r
      BY <2>6, <3>1 DEF Dispatched, Row
    <3>3. \A p \in Request \ {r} : dirty'[p][b][o] = None
      BY <2>1, <2>6 DEF RowLocked
    <3>4. /\ kind[r] = "next" /\ inserted[r]
          /\ target'[r] = [batch |-> b, op |-> o] \/ ~InTable(target[r].batch)'
      BY <2>1, <2>6 DEF IInv, StageInv, StageOf, JobRow, FromMemory, InTable
    <3> QED
      BY <2>1, <2>2, <2>6, <3>1, <3>2, <3>3, <3>4 DEF LockOf
  <2> QED
    BY <2>3, <2>4, <2>5, <2>6
<1>11. ASSUME NEW r \in Request, Refuse(r) PROVE Goal'
  BY <1>11, <1>0, <1>h, <1>l, <1>f, SMTT(60) DEF Refuse, KeepLoop, AimAt
<1>12. ASSUME NEW r \in Request, MarkSkipped(r) PROVE Goal'
  <2>1. /\ stage[r] = "skipping" /\ \A p \in Request \ {r} : dirty'[p][b][o] = dirty[p][b][o]
        /\ kind' = kind /\ plan' = plan /\ target' = target /\ inserted' = inserted
    BY <1>12, <1>0 DEF MarkSkipped, Write
  <2>2. plan[r][o] = None
    BY <2>1, NotInTable
  <2>3. \/ dirty'[r][b][o] = dirty[r][b][o]
        \/ /\ JobRow(r, b, o) /\ ~RowLocked(r, b, o)
           /\ dirty'[r][b][o] = Skipped(plan[b][o], given[r])
    BY <1>12, <1>0 DEF MarkSkipped, Write
  <2>4. CASE q # r
    BY <1>f, <1>l, <2>1, <2>3, <2>4 DEF RowLocked
  <2>5. CASE q = r /\ dirty'[r][b][o] = dirty[r][b][o]
    BY <1>f, <1>l, <2>1, <2>5
  <2>6. CASE /\ q = r /\ JobRow(r, b, o) /\ ~RowLocked(r, b, o)
             /\ dirty'[r][b][o] = Skipped(plan[b][o], given[r])
    <3>1. plan[b][o] \in Row /\ plan[b][o] # None
      BY <1>0, <2>6, <2>1 DEF TablesType, Rows, JobRow
    <3>2. dirty'[r][b][o].status = "skipped"
      BY <2>6, <3>1 DEF Skipped, Row
    <3>3. \A p \in Request \ {r} : dirty'[p][b][o] = None
      BY <2>1, <2>6 DEF RowLocked
    <3> QED
      BY <2>1, <2>2, <2>6, <3>1, <3>2, <3>3 DEF LockOf
  <2> QED
    BY <2>3, <2>4, <2>5, <2>6
<1>13. ASSUME NEW r \in Request, SetMachineStatus(r) PROVE Goal'
  BY <1>13, <1>0, <1>h, <1>l, <1>f, SMTT(60) DEF SetMachineStatus, KeepLoop
<1>14. ASSUME NEW r \in Request, UpsertMachineStatus(r) PROVE Goal'
  BY <1>14, <1>0, <1>h, <1>l, <1>f, SMTT(60) DEF UpsertMachineStatus
<1>15. ASSUME NEW r \in Request, HandOver(r) PROVE Goal'
  BY <1>15, <1>0, <1>h, <1>l, <1>f, SMTT(60) DEF HandOver
<1>16. ASSUME NEW r \in Request, Commit(r) PROVE Goal'
  <2>1. /\ dirty'[r][b][o] = None /\ \A p \in Request \ {r} : dirty'[p] = dirty[p]
        /\ kind' = kind /\ target' = target /\ (q # r => inserted'[q] = inserted[q])
    BY <1>16, <1>0 DEF Commit, ReleaseLocks, NoRows
  <2>2. dirty[r][b][o] = None => plan'[b][o] = plan[b][o]
    BY <1>16 DEF Commit
  <2> QED
    BY <1>f, <1>l, <2>1, <2>2
<1>17. ASSUME NEW r \in Request, CommitFails(r) PROVE Goal'
  <2>1. /\ dirty'[r][b][o] = None /\ \A p \in Request \ {r} : dirty'[p] = dirty[p]
        /\ kind' = kind /\ target' = target /\ (q # r => inserted'[q] = inserted[q])
    BY <1>17, <1>0 DEF CommitFails, ReleaseLocks, NoRows
  <2>2. dirty[r][b][o] = None => plan'[b][o] = plan[b][o]
    BY <1>17 DEF CommitFails
  <2> QED
    BY <1>f, <1>l, <2>1, <2>2
<1>18. ASSUME NEW w \in Worker, WorkerDies(w) PROVE Goal'
  BY <1>18, <1>0, <1>h, <1>l, <1>f, SMTT(60) DEF WorkerDies
<1>19. ASSUME NEW p \in Op, FinishOperation(p) PROVE Goal'
  BY <1>19, <1>0, <1>h, <1>l, <1>f, SMTT(60) DEF FinishOperation
<1>20. ASSUME NEW p \in Op, IgnoreRunsOut(p) PROVE Goal'
  BY <1>20, <1>0, <1>h, <1>l, <1>f, SMTT(60) DEF IgnoreRunsOut
<1>21. CASE UNCHANGED vars
  BY <1>0, <1>h, <1>l, <1>f, <1>21 DEF vars
<1>22. ASSUME NEW r \in Request, ListMachineStatus(r) PROVE Goal'
  BY <1>22, <1>0, <1>h, <1>l, <1>f, SMTT(60) DEF ListMachineStatus
<1>23. ASSUME NEW r \in Request, Ask(r) PROVE Goal'
  BY <1>23, <1>0, <1>h, <1>l, <1>f, SMTT(60) DEF Ask
<1>24. ASSUME NEW r \in Request, ListActiveIgnores(r) PROVE Goal'
  BY <1>24, <1>0, <1>h, <1>l, <1>f, SMTT(60) DEF ListActiveIgnores
<1>25. ASSUME NEW r \in Request, GetPlannedJob(r) PROVE Goal'
  BY <1>25, <1>0, <1>h, <1>l, <1>f, SMTT(60) DEF GetPlannedJob, AimAt
<1>26. ASSUME NEW r \in Request, RelistMachines(r) PROVE Goal'
  BY <1>26, <1>0, <1>h, <1>l, <1>f, SMTT(60) DEF RelistMachines
<1> QED
  BY <1>1, <1>2, <1>3, <1>4, <1>5, <1>6, <1>7, <1>8, <1>9, <1>10, <1>11, <1>12,
     <1>13, <1>14, <1>15, <1>16, <1>17, <1>18, <1>19, <1>20, <1>21, <1>22, <1>23, <1>24,
     <1>25, <1>26 DEF Next, ServerStep

\* A request that has ended stays as it ended.
LEMMA StepEnded ==
  ASSUME IInv, [Next]_vars, NEW q \in Request, NEW e \in Ended, stage[q] = e
  PROVE  stage'[q] = e
<1>0. TypeOK
  BY DEF IInv
<1> DEFINE Goal == stage[q] = e
<1> USE DEF TypeOK, ControlType, Ended, GoTo, world, tables, locals, ghosts
<1>1. ASSUME NEW r \in Request, Refresh(r) PROVE Goal'
  BY <1>1, <1>0, SMTT(20) DEF Refresh
<1>2. ASSUME NEW r \in Request, ListOperations(r) PROVE Goal'
  BY <1>2, <1>0, SMTT(20) DEF ListOperations
<1>3. ASSUME NEW r \in Request, BeginBatch(r) PROVE Goal'
  BY <1>3, <1>0, SMTT(20) DEF BeginBatch, KeepLoop
<1>4. ASSUME NEW r \in Request, Retire(r) PROVE Goal'
  BY <1>4, <1>0, SMTT(20) DEF Retire
<1>5. ASSUME NEW r \in Request, InsertBatch(r) PROVE Goal'
  BY <1>5, <1>0, SMTT(20) DEF InsertBatch, YieldLoop
<1>6. ASSUME NEW r \in Request, FetchLatestPlanBatch(r) PROVE Goal'
  BY <1>6, <1>0, SMTT(20) DEF FetchLatestPlanBatch, AimAt
<1>7. ASSUME NEW r \in Request, ListPlannedJobs(r) PROVE Goal'
  BY <1>7, <1>0, SMTT(20) DEF ListPlannedJobs, YieldLoop
<1>8. ASSUME NEW r \in Request, Hydrate(r) PROVE Goal'
  BY <1>8, <1>0, SMTT(20) DEF Hydrate
<1>9. ASSUME NEW r \in Request, InsertDecision(r) PROVE Goal'
  BY <1>9, <1>0, SMTT(20) DEF InsertDecision, KeepLoop, AimAt
<1>10. ASSUME NEW r \in Request, MarkDispatched(r) PROVE Goal'
  BY <1>10, <1>0, SMTT(20) DEF MarkDispatched, YieldLoop
<1>11. ASSUME NEW r \in Request, Refuse(r) PROVE Goal'
  BY <1>11, <1>0, SMTT(20) DEF Refuse, KeepLoop, AimAt
<1>12. ASSUME NEW r \in Request, MarkSkipped(r) PROVE Goal'
  BY <1>12, <1>0, SMTT(20) DEF MarkSkipped, YieldLoop
<1>13. ASSUME NEW r \in Request, SetMachineStatus(r) PROVE Goal'
  BY <1>13, <1>0, SMTT(20) DEF SetMachineStatus, KeepLoop
<1>14. ASSUME NEW r \in Request, UpsertMachineStatus(r) PROVE Goal'
  BY <1>14, <1>0, SMTT(20) DEF UpsertMachineStatus
<1>15. ASSUME NEW r \in Request, HandOver(r) PROVE Goal'
  BY <1>15, <1>0, SMTT(20) DEF HandOver
<1>16. ASSUME NEW r \in Request, Commit(r) PROVE Goal'
  BY <1>16, <1>0, SMTT(20) DEF Commit, ReleaseLocks
<1>17. ASSUME NEW r \in Request, CommitFails(r) PROVE Goal'
  BY <1>17, <1>0, SMTT(20) DEF CommitFails, ReleaseLocks
<1>18. ASSUME NEW w \in Worker, WorkerDies(w) PROVE Goal'
  BY <1>18, <1>0, SMTT(20) DEF WorkerDies
<1>19. ASSUME NEW p \in Op, FinishOperation(p) PROVE Goal'
  BY <1>19, <1>0, SMTT(20) DEF FinishOperation
<1>20. ASSUME NEW p \in Op, IgnoreRunsOut(p) PROVE Goal'
  BY <1>20, <1>0, SMTT(20) DEF IgnoreRunsOut
<1>21. CASE UNCHANGED vars
  BY <1>0, <1>21 DEF vars
<1>22. ASSUME NEW r \in Request, ListMachineStatus(r) PROVE Goal'
  BY <1>22, <1>0, SMTT(20) DEF ListMachineStatus
<1>23. ASSUME NEW r \in Request, Ask(r) PROVE Goal'
  BY <1>23, <1>0, SMTT(20) DEF Ask
<1>24. ASSUME NEW r \in Request, ListActiveIgnores(r) PROVE Goal'
  BY <1>24, <1>0, SMTT(20) DEF ListActiveIgnores
<1>25. ASSUME NEW r \in Request, GetPlannedJob(r) PROVE Goal'
  BY <1>25, <1>0, SMTT(20) DEF GetPlannedJob, AimAt
<1>26. ASSUME NEW r \in Request, RelistMachines(r) PROVE Goal'
  BY <1>26, <1>0, SMTT(20) DEF RelistMachines
<1> QED
  BY <1>1, <1>2, <1>3, <1>4, <1>5, <1>6, <1>7, <1>8, <1>9, <1>10, <1>11, <1>12,
     <1>13, <1>14, <1>15, <1>16, <1>17, <1>18, <1>19, <1>20, <1>21, <1>22, <1>23, <1>24,
     <1>25, <1>26 DEF Next, ServerStep

\* A batch that is in the table stays there.
LEMMA StepInTable ==
  ASSUME IInv, [Next]_vars, NEW b \in Batch, InTable(b)
  PROVE  InTable(b)'
<1>1. CASE \E r \in Request : Commit(r)
  BY <1>1, CommitTable
<1>2. CASE ~\E r \in Request : Commit(r)
  BY <1>2, PlanSteps DEF InTable
<1> QED
  BY <1>1, <1>2

\* A decision is never changed.
LEMMA StepDecided ==
  ASSUME IInv, [Next]_vars, NEW q \in Request, decision[q] # None
  PROVE  decision'[q] = decision[q]
<1>1. ASSUME NEW r \in Request, Commit(r) PROVE decision'[q] = decision[q]
  <2>1. q # r
    BY <1>1 DEF IInv, DecisionInv, Commit
  <2> QED
    BY <1>1, <2>1 DEF Commit, IInv, TypeOK, TablesType
<1>2. CASE ~\E r \in Request : Commit(r)
  BY <1>2, PlanSteps
<1> QED
  BY <1>1, <1>2

\* In a batch that is in the table no job becomes planned again.
LEMMA NoNewPlanned ==
  ASSUME IInv, [Next]_vars, NEW b \in Batch, NEW o \in Op, InTable(b), ~IsPlanned(plan[b][o])
  PROVE  ~IsPlanned(plan'[b][o])
<1>1. ASSUME NEW r \in Request, Commit(r) PROVE ~IsPlanned(plan'[b][o])
  <2>1. b # r
    BY <1>1, NotInTable DEF Commit
  <2>2. CASE dirty[r][b][o] # None
    <3>1. LockOf(r, b, o)
      BY <2>2, Locked
    <3>2. dirty[r][b][o].status # "planned"
      BY <2>1, <3>1 DEF LockOf
    <3> QED
      BY <1>1, <2>2, <3>2 DEF Commit, IsPlanned
  <2>3. CASE dirty[r][b][o] = None
    BY <1>1, <2>3 DEF Commit
  <2> QED
    BY <2>2, <2>3
<1>2. CASE ~\E r \in Request : Commit(r)
  BY <1>2, PlanSteps
<1> QED
  BY <1>1, <1>2

\* A request turns to batches that are in the table or never get there.
LEMMA StepTarget ==
  ASSUME IInv, [Next]_vars, NEW q \in Request
  PROVE  \/ /\ target'[q].batch = target[q].batch
            /\ kind[q] = "refuse" => target'[q] = target[q]
         \/ \E b \in Batch :
              /\ target'[q].batch = b /\ (InTable(b) \/ Dead(b))
              /\ kind[q] = "refuse" => Dead(b) \/ plan[b][target'[q].op] # None
<1>0. TypeOK
  BY DEF IInv
<1> DEFINE Goal ==
       \/ /\ target'[q].batch = target[q].batch
          /\ kind[q] = "refuse" => target'[q] = target[q]
       \/ \E b \in Batch :
            /\ target'[q].batch = b /\ (InTable(b) \/ Dead(b))
            /\ kind[q] = "refuse" => Dead(b) \/ plan[b][target'[q].op] # None
<1> USE DEF TypeOK, LocalsType, world, tables, locals, ghosts
<1>1. ASSUME NEW r \in Request, Refresh(r) PROVE Goal
  BY <1>1, <1>0, SMTT(20) DEF Refresh
<1>2. ASSUME NEW r \in Request, ListOperations(r) PROVE Goal
  BY <1>2, <1>0, SMTT(20) DEF ListOperations
<1>3. ASSUME NEW r \in Request, BeginBatch(r) PROVE Goal
  BY <1>3, <1>0, SMTT(20) DEF BeginBatch, KeepLoop
<1>4. ASSUME NEW r \in Request, Retire(r) PROVE Goal
  BY <1>4, <1>0, SMTT(20) DEF Retire
<1>5. ASSUME NEW r \in Request, InsertBatch(r) PROVE Goal
  BY <1>5, <1>0, SMTT(20) DEF InsertBatch, YieldLoop
<1>6. ASSUME NEW r \in Request, FetchLatestPlanBatch(r) PROVE Goal
  <2>1. CASE q # r
    BY <1>6, <1>0, <2>1 DEF FetchLatestPlanBatch, AimAt
  <2>2. CASE target' = target
    BY <2>2
  <2>3. ASSUME NEW b \in LatestInTable \cup LatestInMemory(r), AimAt(r, b, None)
        PROVE  target'[r].batch = b /\ b \in Batch /\ (InTable(b) \/ Dead(b))
    <3>1. b \in Batch /\ (InTable(b) \/ Dead(b))
      BY <1>0, PlaceType DEF LatestInTable, LatestInMemory, ControlType, IInv, BatchInv, Dead, Batch
    <3> QED
      BY <1>0, <2>3, <3>1 DEF AimAt
  <2>4. \/ target' = target
        \/ \E b \in LatestInTable \cup LatestInMemory(r) : AimAt(r, b, None)
    BY <1>6 DEF FetchLatestPlanBatch
  <2>5. kind[r] # "refuse"
    BY <1>6 DEF FetchLatestPlanBatch, IInv, StageInv, StageOf
  <2> QED
    BY <2>1, <2>2, <2>3, <2>4, <2>5
<1>7. ASSUME NEW r \in Request, ListPlannedJobs(r) PROVE Goal
  BY <1>7, <1>0, SMTT(20) DEF ListPlannedJobs, YieldLoop
<1>8. ASSUME NEW r \in Request, Hydrate(r) PROVE Goal
  BY <1>8, <1>0, SMTT(20) DEF Hydrate
<1>9. ASSUME NEW r \in Request, InsertDecision(r) PROVE Goal
  <2>1. PICK o \in Op : AimAt(r, target[r].batch, o)
    BY <1>9 DEF InsertDecision
  <2>2. kind[r] # "refuse"
    BY <1>9 DEF InsertDecision, IInv, StageInv, StageOf
  <2> QED
    BY <1>0, <2>1, <2>2 DEF AimAt
<1>10. ASSUME NEW r \in Request, MarkDispatched(r) PROVE Goal
  BY <1>10, <1>0, SMTT(20) DEF MarkDispatched, YieldLoop
<1>11. ASSUME NEW r \in Request, Refuse(r) PROVE Goal
  <2>1. CASE target' = target
    BY <2>1
  <2>2. ASSUME NEW b \in Batch, NEW o \in Op, AimAt(r, b, o), plan[b][o] # None
        PROVE  \/ target'[q] = target[q]
               \/ target'[q].batch = b /\ InTable(b) /\ plan[b][target'[q].op] # None
    BY <1>0, <2>2 DEF AimAt, InTable
  <2>3. \/ target' = target
        \/ \E b \in Batch, o \in Op : AimAt(r, b, o) /\ plan[b][o] # None
    BY <1>11 DEF Refuse
  <2> QED
    BY <2>1, <2>2, <2>3
<1>12. ASSUME NEW r \in Request, MarkSkipped(r) PROVE Goal
  BY <1>12, <1>0, SMTT(20) DEF MarkSkipped, YieldLoop
<1>13. ASSUME NEW r \in Request, SetMachineStatus(r) PROVE Goal
  BY <1>13, <1>0, SMTT(20) DEF SetMachineStatus, KeepLoop
<1>14. ASSUME NEW r \in Request, UpsertMachineStatus(r) PROVE Goal
  BY <1>14, <1>0, SMTT(20) DEF UpsertMachineStatus
<1>15. ASSUME NEW r \in Request, HandOver(r) PROVE Goal
  BY <1>15, <1>0, SMTT(20) DEF HandOver
<1>16. ASSUME NEW r \in Request, Commit(r) PROVE Goal
  BY <1>16, <1>0, SMTT(20) DEF Commit, ReleaseLocks
<1>17. ASSUME NEW r \in Request, CommitFails(r) PROVE Goal
  BY <1>17, <1>0, SMTT(20) DEF CommitFails, ReleaseLocks
<1>18. ASSUME NEW w \in Worker, WorkerDies(w) PROVE Goal
  BY <1>18, <1>0, SMTT(20) DEF WorkerDies
<1>19. ASSUME NEW p \in Op, FinishOperation(p) PROVE Goal
  BY <1>19, <1>0, SMTT(20) DEF FinishOperation
<1>20. ASSUME NEW p \in Op, IgnoreRunsOut(p) PROVE Goal
  BY <1>20, <1>0, SMTT(20) DEF IgnoreRunsOut
<1>21. ASSUME UNCHANGED vars PROVE Goal
  BY <1>0, <1>21 DEF vars
<1>22. ASSUME NEW r \in Request, ListMachineStatus(r) PROVE Goal
  BY <1>22, <1>0, SMTT(20) DEF ListMachineStatus
<1>23. ASSUME NEW r \in Request, Ask(r) PROVE Goal
  BY <1>23, <1>0, SMTT(20) DEF Ask
<1>24. ASSUME NEW r \in Request, ListActiveIgnores(r) PROVE Goal
  BY <1>24, <1>0, SMTT(20) DEF ListActiveIgnores
<1>25. ASSUME NEW r \in Request, GetPlannedJob(r) PROVE Goal
  <2>1. CASE target' = target
    BY <2>1
  <2>2. ASSUME NEW b \in Batch, NEW o \in Op, AimAt(r, b, o), InMemory(r, b, o)
        PROVE  target'[q] = target[q] \/ (target'[q].batch = b /\ Dead(b))
    <3>1. Dead(b)
      BY <1>0, <2>2, PlaceType DEF InMemory, LatestInMemory, ControlType, IInv, BatchInv
    <3> QED
      BY <1>0, <2>2, <3>1 DEF AimAt
  <2>3. \/ target' = target
        \/ \E b \in Batch, o \in Op : AimAt(r, b, o) /\ InMemory(r, b, o)
    BY <1>25 DEF GetPlannedJob
  <2> QED
    BY <2>1, <2>2, <2>3
<1>26. ASSUME NEW r \in Request, RelistMachines(r) PROVE Goal
  BY <1>26, <1>0, SMTT(20) DEF RelistMachines
<1> QED
  BY <1>1, <1>2, <1>3, <1>4, <1>5, <1>6, <1>7, <1>8, <1>9, <1>10, <1>11, <1>12,
     <1>13, <1>14, <1>15, <1>16, <1>17, <1>18, <1>19, <1>20, <1>21, <1>22, <1>23, <1>24,
     <1>25, <1>26 DEF Next, ServerStep

\* The memory of a worker has batches that are not in the table.
LEMMA StepMemory ==
  ASSUME IInv, [Next]_vars, NEW w \in Worker
  PROVE  memory'[w] # None => \E b \in Request : memory'[w] = b /\ Dead(b)'
<1>0. TypeOK
  BY DEF IInv
<1>1. ASSUME memory'[w] = memory[w], memory[w] # None
      PROVE  \E b \in Request : memory'[w] = b /\ Dead(b)'
  BY <1>1, <1>0, StepDead DEF IInv, BatchInv, TypeOK, ControlType
<1>2. ASSUME NEW r \in Request, InsertBatch(r), memory'[w] # memory[w]
      PROVE  memory'[w] = r /\ Dead(r)'
  <2>1. /\ stage[r] = "inserting" /\ stage'[r] = "returned" /\ plan' = plan
        /\ memory'[w] = r /\ dirty'[r] = NoRows
    BY <1>0, <1>2, SMTT(20) DEF TypeOK, ControlType, InsertBatch, GoTo, tables
  <2> QED
    BY <2>1, NotInTable DEF Dead, NoRows, Closing, InTable, Batch
<1>3. memory'[w] = memory[w] \/ memory'[w] = None \/ \E r \in Request : InsertBatch(r)
  <2> USE <1>0 DEF TypeOK, ControlType
  <2>1. ASSUME NEW v \in Worker, WorkerDies(v) PROVE memory'[w] = memory[w] \/ memory'[w] = None
    BY <2>1 DEF WorkerDies
  <2>2. ASSUME NEW o \in Op, FinishOperation(o) \/ IgnoreRunsOut(o) PROVE memory' = memory
    BY <2>2 DEF FinishOperation, IgnoreRunsOut
  <2>3. ASSUME NEW r \in Request,
               Refresh(r) \/ Ask(r) \/ Refuse(r) \/ SetMachineStatus(r)
        PROVE  memory' = memory
    BY <2>3 DEF Refresh, Ask, Refuse, SetMachineStatus
  <2>4. ASSUME NEW r \in Request, ServerStep(r), ~InsertBatch(r) PROVE memory' = memory
    BY <2>4 DEF ServerStep, ListOperations, ListMachineStatus, BeginBatch, Retire,
       FetchLatestPlanBatch, ListPlannedJobs, Hydrate, ListActiveIgnores, InsertDecision,
       MarkDispatched, GetPlannedJob, MarkSkipped, UpsertMachineStatus, RelistMachines, HandOver,
       Commit, CommitFails
  <2> QED
    BY <2>1, <2>2, <2>3, <2>4 DEF Next, vars
<1> QED
  BY <1>1, <1>2, <1>3

\* A refresh retires what is in the table.
LEMMA StepRetires ==
  ASSUME IInv, [Next]_vars, NEW q \in Request
  PROVE  \/ retired'[q] \subseteq retired[q]
         \/ retired'[q] = {b \in Batch : InTable(b)} /\ plan' = plan
<1>0. TypeOK
  BY DEF IInv
<1> DEFINE Goal ==
       \/ retired'[q] \subseteq retired[q]
       \/ retired'[q] = {b \in Batch : InTable(b)} /\ plan' = plan
<1> USE DEF TypeOK, GhostsType, world, tables, locals, ghosts
<1>1. ASSUME NEW r \in Request, Refresh(r) PROVE Goal
  BY <1>1, <1>0, SMTT(20) DEF Refresh
<1>2. ASSUME NEW r \in Request, ListOperations(r) PROVE Goal
  BY <1>2, <1>0, SMTT(20) DEF ListOperations
<1>3. ASSUME NEW r \in Request, BeginBatch(r) PROVE Goal
  BY <1>3, <1>0, SMTT(20) DEF BeginBatch, KeepLoop
<1>4. ASSUME NEW r \in Request, Retire(r) PROVE Goal
  BY <1>4, <1>0, SMTT(20) DEF Retire
<1>5. ASSUME NEW r \in Request, InsertBatch(r) PROVE Goal
  BY <1>5, <1>0, SMTT(20) DEF InsertBatch, YieldLoop
<1>6. ASSUME NEW r \in Request, FetchLatestPlanBatch(r) PROVE Goal
  BY <1>6, <1>0, SMTT(20) DEF FetchLatestPlanBatch, AimAt
<1>7. ASSUME NEW r \in Request, ListPlannedJobs(r) PROVE Goal
  BY <1>7, <1>0, SMTT(20) DEF ListPlannedJobs, YieldLoop
<1>8. ASSUME NEW r \in Request, Hydrate(r) PROVE Goal
  BY <1>8, <1>0, SMTT(20) DEF Hydrate
<1>9. ASSUME NEW r \in Request, InsertDecision(r) PROVE Goal
  BY <1>9, <1>0, SMTT(20) DEF InsertDecision, KeepLoop, AimAt
<1>10. ASSUME NEW r \in Request, MarkDispatched(r) PROVE Goal
  BY <1>10, <1>0, SMTT(20) DEF MarkDispatched, YieldLoop
<1>11. ASSUME NEW r \in Request, Refuse(r) PROVE Goal
  BY <1>11, <1>0, SMTT(20) DEF Refuse, KeepLoop, AimAt
<1>12. ASSUME NEW r \in Request, MarkSkipped(r) PROVE Goal
  BY <1>12, <1>0, SMTT(20) DEF MarkSkipped, YieldLoop
<1>13. ASSUME NEW r \in Request, SetMachineStatus(r) PROVE Goal
  BY <1>13, <1>0, SMTT(20) DEF SetMachineStatus, KeepLoop
<1>14. ASSUME NEW r \in Request, UpsertMachineStatus(r) PROVE Goal
  BY <1>14, <1>0, SMTT(20) DEF UpsertMachineStatus
<1>15. ASSUME NEW r \in Request, HandOver(r) PROVE Goal
  BY <1>15, <1>0, SMTT(20) DEF HandOver
<1>16. ASSUME NEW r \in Request, Commit(r) PROVE Goal
  BY <1>16, <1>0, SMTT(20) DEF Commit, ReleaseLocks
<1>17. ASSUME NEW r \in Request, CommitFails(r) PROVE Goal
  BY <1>17, <1>0, SMTT(20) DEF CommitFails, ReleaseLocks
<1>18. ASSUME NEW w \in Worker, WorkerDies(w) PROVE Goal
  BY <1>18, <1>0, SMTT(20) DEF WorkerDies
<1>19. ASSUME NEW p \in Op, FinishOperation(p) PROVE Goal
  BY <1>19, <1>0, SMTT(20) DEF FinishOperation
<1>20. ASSUME NEW p \in Op, IgnoreRunsOut(p) PROVE Goal
  BY <1>20, <1>0, SMTT(20) DEF IgnoreRunsOut
<1>21. ASSUME UNCHANGED vars PROVE Goal
  BY <1>0, <1>21 DEF vars
<1>22. ASSUME NEW r \in Request, ListMachineStatus(r) PROVE Goal
  BY <1>22, <1>0, SMTT(20) DEF ListMachineStatus
<1>23. ASSUME NEW r \in Request, Ask(r) PROVE Goal
  BY <1>23, <1>0, SMTT(20) DEF Ask
<1>24. ASSUME NEW r \in Request, ListActiveIgnores(r) PROVE Goal
  BY <1>24, <1>0, SMTT(20) DEF ListActiveIgnores
<1>25. ASSUME NEW r \in Request, GetPlannedJob(r) PROVE Goal
  BY <1>25, <1>0, SMTT(20) DEF GetPlannedJob, AimAt
<1>26. ASSUME NEW r \in Request, RelistMachines(r) PROVE Goal
  BY <1>26, <1>0, SMTT(20) DEF RelistMachines
<1> QED
  BY <1>1, <1>2, <1>3, <1>4, <1>5, <1>6, <1>7, <1>8, <1>9, <1>10, <1>11, <1>12,
     <1>13, <1>14, <1>15, <1>16, <1>17, <1>18, <1>19, <1>20, <1>21, <1>22, <1>23, <1>24,
     <1>25, <1>26 DEF Next, ServerStep

\* What a refresh holds while it retires a batch, and what it leaves.
LEMMA RetiredOf ==
  ASSUME IInv, NEW q \in Request
  PROVE  /\ stage[q] \notin {"inserting"} \cup Closing \cup Ended => retired[q] = {}
         /\ \A b \in retired[q] : InTable(b) /\ b \in Batch
         /\ \A b \in retired[q], o \in Op : IsPlanned(plan[b][o]) =>
              /\ stage[q] \in {"inserting"} \cup Closing =>
                   dirty[q][b][o] # None /\ dirty[q][b][o].status = "cancelled"
              /\ stage[q] # "answered"
  BY DEF IInv, RetiredInv, RetiredBy, BatchInv, TypeOK, GhostsType

\* Every step preserves what is known of retired batches.
LEMMA StepRetired ==
  ASSUME IInv, [Next]_vars
  PROVE  RetiredInv'
<1> SUFFICES ASSUME NEW q \in Request PROVE RetiredBy(q)'
  BY DEF RetiredInv
<1>0. TypeOK
  BY DEF IInv
<1>r. /\ stage[q] \notin {"inserting"} \cup Closing \cup Ended => retired[q] = {}
      /\ \A b \in retired[q] : InTable(b) /\ b \in Batch
      /\ \A b \in retired[q], o \in Op : IsPlanned(plan[b][o]) =>
           /\ stage[q] \in {"inserting"} \cup Closing =>
                dirty[q][b][o] # None /\ dirty[q][b][o].status = "cancelled"
           /\ stage[q] # "answered"
  BY RetiredOf
<1> USE DistinctAssumption
    DEF TypeOK, ControlType, GhostsType, RetiredBy, Closing, Ended, IsPlanned, GoTo,
        world, tables, locals, ghosts
<1>1. ASSUME NEW r \in Request, Refresh(r) PROVE RetiredBy(q)'
  BY <1>1, <1>0, <1>r, SMTT(20) DEF Refresh
<1>2. ASSUME NEW r \in Request, ListOperations(r) PROVE RetiredBy(q)'
  BY <1>2, <1>0, <1>r, SMTT(20) DEF ListOperations
<1>3. ASSUME NEW r \in Request, BeginBatch(r) PROVE RetiredBy(q)'
  BY <1>3, <1>0, <1>r, SMTT(20) DEF BeginBatch, KeepLoop
<1>4. ASSUME NEW r \in Request, Retire(r) PROVE RetiredBy(q)'
  <2>1. /\ stage[r] = "retiring" /\ stage' = [stage EXCEPT ![r] = "inserting"] /\ plan' = plan
        /\ \/ /\ \A b \in Batch, o \in Op : dirty'[r][b][o] =
                    IF IsPlanned(plan[b][o]) THEN Cancelled(plan[b][o]) ELSE None
              /\ retired' = [retired EXCEPT ![r] = {b \in Batch : InTable(b)}]
           \/ retired' = retired
        /\ \A p \in Request \ {r} : dirty'[p] = dirty[p]
    BY <1>4, <1>0 DEF Retire
  <2>2. CASE q # r
    BY <1>0, <1>r, <2>1, <2>2
  <2>3. CASE q = r /\ retired'[r] = retired[r]
    BY <1>0, <1>r, <2>1, <2>3
  <2>4. CASE /\ q = r
             /\ \A b \in Batch, o \in Op : dirty'[r][b][o] =
                    IF IsPlanned(plan[b][o]) THEN Cancelled(plan[b][o]) ELSE None
             /\ retired'[r] \subseteq Batch
    <3>1. \A row \in Row : Cancelled(row) \in Row /\ Cancelled(row).status = "cancelled"
      BY DEF Cancelled, Row
    <3>2. \A b \in Batch, o \in Op : IsPlanned(plan[b][o]) => plan[b][o] \in Row
      BY <1>0 DEF TablesType, Rows, IsPlanned
    <3> QED
      BY <1>0, <2>1, <2>4, <3>1, <3>2, DistinctAssumption
  <2> QED
    BY <1>0, <2>1, <2>2, <2>3, <2>4
<1>5. ASSUME NEW r \in Request, InsertBatch(r) PROVE RetiredBy(q)'
  <2>1. /\ stage[r] = "inserting" /\ stage' = [stage EXCEPT ![r] = "returned"] /\ plan' = plan
        /\ retired'[r] = retired[r] \/ retired'[r] = {}
        /\ retired'[r] # {} => \A b \in Batch \ {r} : dirty'[r][b] = dirty[r][b]
        /\ \A p \in Request \ {r} : dirty'[p] = dirty[p] /\ retired'[p] = retired[p]
    BY <1>5, <1>0 DEF InsertBatch
  <2>2. CASE q # r
    BY <1>0, <1>r, <2>1, <2>2
  <2>3. CASE q = r
    <3>1. r \notin retired[r]
      BY <1>r, <2>1, <2>3, NotInTable
    <3> QED
      BY <1>0, <1>r, <2>1, <2>3, <3>1
  <2> QED
    BY <2>2, <2>3
<1>6. ASSUME NEW r \in Request, FetchLatestPlanBatch(r) PROVE RetiredBy(q)'
  BY <1>6, <1>0, <1>r, SMTT(20) DEF FetchLatestPlanBatch, AimAt
<1>7. ASSUME NEW r \in Request, ListPlannedJobs(r) PROVE RetiredBy(q)'
  BY <1>7, <1>0, <1>r, SMTT(20) DEF ListPlannedJobs, YieldLoop
<1>8. ASSUME NEW r \in Request, Hydrate(r) PROVE RetiredBy(q)'
  BY <1>8, <1>0, <1>r, SMTT(20) DEF Hydrate
<1>9. ASSUME NEW r \in Request, InsertDecision(r) PROVE RetiredBy(q)'
  BY <1>9, <1>0, <1>r, SMTT(20) DEF InsertDecision, KeepLoop, AimAt
<1>10. ASSUME NEW r \in Request, MarkDispatched(r) PROVE RetiredBy(q)'
  BY <1>10, <1>0, <1>r, SMTT(20) DEF MarkDispatched, YieldLoop, Write
<1>11. ASSUME NEW r \in Request, Refuse(r) PROVE RetiredBy(q)'
  BY <1>11, <1>0, <1>r, SMTT(20) DEF Refuse, KeepLoop, AimAt
<1>12. ASSUME NEW r \in Request, MarkSkipped(r) PROVE RetiredBy(q)'
  BY <1>12, <1>0, <1>r, SMTT(20) DEF MarkSkipped, YieldLoop, Write
<1>13. ASSUME NEW r \in Request, SetMachineStatus(r) PROVE RetiredBy(q)'
  BY <1>13, <1>0, <1>r, SMTT(20) DEF SetMachineStatus, KeepLoop
<1>14. ASSUME NEW r \in Request, UpsertMachineStatus(r) PROVE RetiredBy(q)'
  BY <1>14, <1>0, <1>r, SMTT(20) DEF UpsertMachineStatus
<1>15. ASSUME NEW r \in Request, HandOver(r) PROVE RetiredBy(q)'
  BY <1>15, <1>0, <1>r, SMTT(20) DEF HandOver
<1>16. ASSUME NEW r \in Request, Commit(r) PROVE RetiredBy(q)'
  <2>1. /\ stage[r] = "committing" /\ stage' = [stage EXCEPT ![r] = "answered"]
        /\ retired' = retired /\ \A p \in Request \ {r} : dirty'[p] = dirty[p]
    BY <1>16, <1>0 DEF Commit, ReleaseLocks
  <2>2. \A b \in retired[q], o \in Op : IsPlanned(plan'[b][o]) => IsPlanned(plan[b][o])
    BY <1>r, NoNewPlanned
  <2>3. ASSUME q = r, NEW b \in retired[q], NEW o \in Op, IsPlanned(plan[b][o])
        PROVE  ~IsPlanned(plan'[b][o])
    <3>1. dirty[r][b][o] # None /\ dirty[r][b][o].status = "cancelled"
      BY <1>r, <2>1, <2>3
    <3>2. b \in Batch
      BY <1>r
    <3> QED
      BY <1>16, <3>1, <3>2 DEF Commit, IsPlanned
  <2> QED
    BY <1>0, <1>r, <2>1, <2>2, <2>3
<1>17. ASSUME NEW r \in Request, CommitFails(r) PROVE RetiredBy(q)'
  BY <1>17, <1>0, <1>r, SMTT(20) DEF CommitFails, ReleaseLocks
<1>18. ASSUME NEW w \in Worker, WorkerDies(w) PROVE RetiredBy(q)'
  BY <1>18, <1>0, <1>r, SMTT(20) DEF WorkerDies
<1>19. ASSUME NEW p \in Op, FinishOperation(p) PROVE RetiredBy(q)'
  BY <1>19, <1>0, <1>r, SMTT(20) DEF FinishOperation
<1>20. ASSUME NEW p \in Op, IgnoreRunsOut(p) PROVE RetiredBy(q)'
  BY <1>20, <1>0, <1>r, SMTT(20) DEF IgnoreRunsOut
<1>21. CASE UNCHANGED vars
  BY <1>0, <1>r, <1>21 DEF vars
<1>22. ASSUME NEW r \in Request, ListMachineStatus(r) PROVE RetiredBy(q)'
  BY <1>22, <1>0, <1>r, SMTT(20) DEF ListMachineStatus
<1>23. ASSUME NEW r \in Request, Ask(r) PROVE RetiredBy(q)'
  BY <1>23, <1>0, <1>r, SMTT(20) DEF Ask
<1>24. ASSUME NEW r \in Request, ListActiveIgnores(r) PROVE RetiredBy(q)'
  BY <1>24, <1>0, <1>r, SMTT(20) DEF ListActiveIgnores
<1>25. ASSUME NEW r \in Request, GetPlannedJob(r) PROVE RetiredBy(q)'
  BY <1>25, <1>0, <1>r, SMTT(20) DEF GetPlannedJob, AimAt
<1>26. ASSUME NEW r \in Request, RelistMachines(r) PROVE RetiredBy(q)'
  BY <1>26, <1>0, <1>r, SMTT(20) DEF RelistMachines
<1> QED
  BY <1>1, <1>2, <1>3, <1>4, <1>5, <1>6, <1>7, <1>8, <1>9, <1>10, <1>11, <1>12,
     <1>13, <1>14, <1>15, <1>16, <1>17, <1>18, <1>19, <1>20, <1>21, <1>22, <1>23, <1>24,
     <1>25, <1>26 DEF Next, ServerStep

\* What never changes, and what does not once a request is closing.
LEMMA StepFrame ==
  ASSUME IInv, [Next]_vars, NEW q \in Request
  PROVE  /\ kind' = kind /\ unmarked \subseteq unmarked'
         /\ stage[q] \in Closing \cup Ended => target'[q] = target[q]
<1>0. TypeOK
  BY DEF IInv
<1> DEFINE Goal ==
       /\ kind' = kind /\ unmarked \subseteq unmarked'
       /\ stage[q] \in Closing \cup Ended => target'[q] = target[q]
<1> USE DEF TypeOK, LocalsType, Closing, Ended, world, tables, locals, ghosts
<1>1. ASSUME NEW r \in Request, Refresh(r) PROVE Goal
  BY <1>1, <1>0, SMTT(20) DEF Refresh
<1>2. ASSUME NEW r \in Request, ListOperations(r) PROVE Goal
  BY <1>2, <1>0, SMTT(20) DEF ListOperations
<1>3. ASSUME NEW r \in Request, BeginBatch(r) PROVE Goal
  BY <1>3, <1>0, SMTT(20) DEF BeginBatch, KeepLoop
<1>4. ASSUME NEW r \in Request, Retire(r) PROVE Goal
  BY <1>4, <1>0, SMTT(20) DEF Retire
<1>5. ASSUME NEW r \in Request, InsertBatch(r) PROVE Goal
  BY <1>5, <1>0, SMTT(20) DEF InsertBatch, YieldLoop
<1>6. ASSUME NEW r \in Request, FetchLatestPlanBatch(r) PROVE Goal
  BY <1>6, <1>0, SMTT(20) DEF FetchLatestPlanBatch, AimAt
<1>7. ASSUME NEW r \in Request, ListPlannedJobs(r) PROVE Goal
  BY <1>7, <1>0, SMTT(20) DEF ListPlannedJobs, YieldLoop
<1>8. ASSUME NEW r \in Request, Hydrate(r) PROVE Goal
  BY <1>8, <1>0, SMTT(20) DEF Hydrate
<1>9. ASSUME NEW r \in Request, InsertDecision(r) PROVE Goal
  BY <1>9, <1>0, SMTT(20) DEF InsertDecision, KeepLoop, AimAt
<1>10. ASSUME NEW r \in Request, MarkDispatched(r) PROVE Goal
  BY <1>10, <1>0, SMTT(20) DEF MarkDispatched, YieldLoop
<1>11. ASSUME NEW r \in Request, Refuse(r) PROVE Goal
  BY <1>11, <1>0, SMTT(20) DEF Refuse, KeepLoop, AimAt
<1>12. ASSUME NEW r \in Request, MarkSkipped(r) PROVE Goal
  BY <1>12, <1>0, SMTT(20) DEF MarkSkipped, YieldLoop
<1>13. ASSUME NEW r \in Request, SetMachineStatus(r) PROVE Goal
  BY <1>13, <1>0, SMTT(20) DEF SetMachineStatus, KeepLoop
<1>14. ASSUME NEW r \in Request, UpsertMachineStatus(r) PROVE Goal
  BY <1>14, <1>0, SMTT(20) DEF UpsertMachineStatus
<1>15. ASSUME NEW r \in Request, HandOver(r) PROVE Goal
  BY <1>15, <1>0, SMTT(20) DEF HandOver
<1>16. ASSUME NEW r \in Request, Commit(r) PROVE Goal
  BY <1>16, <1>0, SMTT(20) DEF Commit, ReleaseLocks
<1>17. ASSUME NEW r \in Request, CommitFails(r) PROVE Goal
  BY <1>17, <1>0, SMTT(20) DEF CommitFails, ReleaseLocks
<1>18. ASSUME NEW w \in Worker, WorkerDies(w) PROVE Goal
  BY <1>18, <1>0, SMTT(20) DEF WorkerDies
<1>19. ASSUME NEW p \in Op, FinishOperation(p) PROVE Goal
  BY <1>19, <1>0, SMTT(20) DEF FinishOperation
<1>20. ASSUME NEW p \in Op, IgnoreRunsOut(p) PROVE Goal
  BY <1>20, <1>0, SMTT(20) DEF IgnoreRunsOut
<1>21. ASSUME UNCHANGED vars PROVE Goal
  BY <1>0, <1>21 DEF vars
<1>22. ASSUME NEW r \in Request, ListMachineStatus(r) PROVE Goal
  BY <1>22, <1>0, SMTT(20) DEF ListMachineStatus
<1>23. ASSUME NEW r \in Request, Ask(r) PROVE Goal
  BY <1>23, <1>0, SMTT(20) DEF Ask
<1>24. ASSUME NEW r \in Request, ListActiveIgnores(r) PROVE Goal
  BY <1>24, <1>0, SMTT(20) DEF ListActiveIgnores
<1>25. ASSUME NEW r \in Request, GetPlannedJob(r) PROVE Goal
  BY <1>25, <1>0, SMTT(20) DEF GetPlannedJob, AimAt
<1>26. ASSUME NEW r \in Request, RelistMachines(r) PROVE Goal
  BY <1>26, <1>0, SMTT(20) DEF RelistMachines
<1> QED
  BY <1>1, <1>2, <1>3, <1>4, <1>5, <1>6, <1>7, <1>8, <1>9, <1>10, <1>11, <1>12,
     <1>13, <1>14, <1>15, <1>16, <1>17, <1>18, <1>19, <1>20, <1>21, <1>22, <1>23, <1>24,
     <1>25, <1>26 DEF Next, ServerStep

\* What a request works with and is not in the table will not be.
LEMMA NeverStored ==
  ASSUME IInv, [Next]_vars, NEW q \in Request, NEW b \in Batch, target[q].batch = b, InTable(b)'
  PROVE  InTable(b)
<1>1. InTable(b) \/ Dead(b)
  BY DistinctAssumption DEF IInv, BatchInv
<1>2. Dead(b) => ~InTable(b)'
  BY StepDead DEF Dead
<1> QED
  BY <1>1, <1>2

\* Every step preserves where batches are.
LEMMA StepBatch == IInv /\ [Next]_vars => BatchInv'
<1> SUFFICES ASSUME IInv, [Next]_vars PROVE BatchInv'
  OBVIOUS
<1>0. TypeOK
  BY DEF IInv
<1>1. ASSUME NEW r \in Request, InTable(r)' PROVE stage'[r] = "answered"
  <2>1. CASE InTable(r)
    BY <2>1, StepEnded DEF IInv, BatchInv, Ended
  <2>2. CASE ~InTable(r)
    <3>1. PICK p \in Request : Commit(p)
      BY <1>1, <2>2, PlanSteps DEF InTable
    <3>2. p = r
      BY <1>1, <2>2, <3>1, CommitTable DEF Batch
    <3> QED
      BY <1>0, <3>1, <3>2 DEF Commit, GoTo, TypeOK, ControlType
  <2> QED
    BY <2>1, <2>2
<1>2. ASSUME NEW w \in Worker, memory'[w] # None PROVE Dead(memory[w])'
  <2>1. PICK b \in Request : memory'[w] = b /\ Dead(b)'
    BY <1>2, StepMemory
  <2> QED
    BY <2>1 DEF Dead, InTable
<1>3. ASSUME NEW r \in Request, target'[r].batch # None
      PROVE  InTable(target[r].batch)' \/ Dead(target[r].batch)'
  <2>1. PICK b \in Batch : target'[r].batch = b /\ (InTable(b) \/ Dead(b))
    <3>1. CASE target'[r].batch = target[r].batch
      BY <1>0, <1>3, <3>1, AimType DEF IInv, BatchInv, TypeOK, LocalsType
    <3> QED
      BY <3>1, StepTarget
  <2>2. InTable(b)' \/ Dead(b)'
    BY <2>1, StepInTable, StepDead DEF Dead
  <2> QED
    BY <2>1, <2>2 DEF Dead, InTable
<1>4. ASSUME NEW r \in Request, NEW b \in retired'[r] PROVE InTable(b)'
  <2>1. CASE b \in retired[r]
    BY <1>0, <2>1, StepInTable DEF IInv, BatchInv, TypeOK, GhostsType
  <2>2. CASE b \in Batch /\ InTable(b) /\ plan' = plan
    BY <2>2 DEF InTable
  <2> QED
    BY <1>4, <2>1, <2>2, StepRetires
<1>5. ASSUME NEW r \in Request, kind'[r] = "refuse", target'[r] # Nothing, InTable(target[r].batch)'
      PROVE  plan'[target'[r].batch][target'[r].op] # None
  <2>1. PICK b \in Batch : target'[r].batch = b
    BY <1>0, <1>5, StepType, DistinctAssumption DEF TypeOK, LocalsType, Aim
  <2>2. ~Dead(b)
    BY <1>5, <2>1, StepDead DEF Dead, InTable
  <2>3. kind[r] = "refuse"
    BY <1>5, StepFrame
  <2>4. plan[b][target'[r].op] # None
    <3>1. CASE target'[r] = target[r]
      <4>1. InTable(b)
        BY <1>5, <2>1, <3>1, NeverStored DEF InTable
      <4> QED
        BY <1>5, <2>1, <2>3, <3>1, <4>1 DEF IInv, BatchInv, FromMemory
    <3>2. CASE target'[r] # target[r]
      BY <2>1, <2>2, <2>3, <3>2, StepTarget
    <3> QED
      BY <3>1, <3>2
  <2>5. target'[r].op \in Op
    BY <1>5, StepStage DEF StageInv, StageOf, Target
  <2>6. CASE \E p \in Request : Commit(p)
    BY <2>1, <2>4, <2>5, <2>6 DEF Commit
  <2>7. CASE ~\E p \in Request : Commit(p)
    BY <2>1, <2>4, <2>7, PlanSteps
  <2> QED
    BY <2>6, <2>7
<1> QED
  BY <1>1, <1>2, <1>3, <1>4, <1>5 DEF BatchInv, FromMemory

\* What is known of a decision.
LEMMA DecisionOf ==
  ASSUME IInv, NEW q \in Request, decision[q] # None
  PROVE  /\ stage[q] = "answered" /\ kind[q] = "next" /\ decision[q] = target[q]
         /\ \E b \in Batch, o \in Op :
              /\ decision[q] = [batch |-> b, op |-> o]
              /\ q \notin unmarked /\ InTable(b) => ~IsPlanned(plan[b][o])
<1>1. stage[q] = "answered" /\ kind[q] = "next" /\ decision[q] = target[q]
  BY DEF IInv, DecisionInv
<1>2. PICK b \in Batch, o \in Op : decision[q] = [batch |-> b, op |-> o]
  BY DEF IInv, TypeOK, TablesType, Target
<1> QED
  BY <1>1, <1>2 DEF IInv, DecisionInv

\* A decision's marked row names it.
LEMMA StepDispatched == IInv /\ [Next]_vars => DispatchedRowsHaveDecisions'
<1> SUFFICES ASSUME IInv, [Next]_vars, NEW b \in Batch, NEW o \in Op,
                    plan'[b][o] # None, plan'[b][o].status = "dispatched"
             PROVE  (\E d \in Request : /\ plan[b][o].decision = d /\ decision[d] # None
                                        /\ \/ decision[d] = [batch |-> b, op |-> o]
                                           \/ ~InTable(decision[d].batch))'
  BY DEF DispatchedRowsHaveDecisions
<1>1. CASE plan'[b][o] = plan[b][o]
  <2>1. PICK d \in Request : /\ plan[b][o].decision = d /\ decision[d] # None
                             /\ \/ decision[d] = [batch |-> b, op |-> o]
                                \/ ~InTable(decision[d].batch)
    BY <1>1 DEF IInv, DispatchedRowsHaveDecisions
  <2>2. decision'[d] = decision[d]
    BY <2>1, StepDecided
  <2>3. PICK c \in Batch, p \in Op : decision[d] = [batch |-> c, op |-> p]
    BY <2>1, DecisionOf
  <2>4. ~InTable(c) => ~InTable(c)'
    <3>1. target[d].batch = c
      BY <2>1, <2>3, DecisionOf
    <3> QED
      BY <3>1, NeverStored
  <2> QED
    BY <1>1, <2>1, <2>2, <2>3, <2>4 DEF InTable
<1>2. CASE plan'[b][o] # plan[b][o]
  <2>1. PICK r \in Request : Commit(r)
    BY <1>2, PlanSteps
  <2>2. dirty[r][b][o] # None /\ plan'[b][o] = dirty[r][b][o]
    BY <1>2, <2>1 DEF Commit
  <2>3. LockOf(r, b, o)
    BY <2>2, Locked
  <2>4. /\ kind[r] = "next" /\ inserted[r] /\ plan'[b][o].decision = r
        /\ target[r] = [batch |-> b, op |-> o] \/ ~InTable(target[r].batch)
    BY <2>2, <2>3 DEF LockOf
  <2>5. decision'[r] = target[r]
    BY <2>1, <2>4 DEF Commit, IInv, TypeOK, TablesType
  <2>6. PICK c \in Batch, p \in Op : target[r] = [batch |-> c, op |-> p]
    BY <2>4 DEF IInv, StageInv, StageOf, Target
  <2>7. target[r] # None
    BY <2>6, DistinctAssumption DEF Target
  <2>8. ~InTable(c) => ~InTable(c)'
    BY <2>6, NeverStored
  <2> QED
    BY <2>4, <2>5, <2>6, <2>7, <2>8 DEF InTable
<1> QED
  BY <1>1, <1>2

\* The job that is decided for is marked in the same transaction.
LEMMA StepMarked ==
  ASSUME IInv, [Next]_vars, NEW q \in Request, NEW b \in Batch, NEW o \in Op,
         target'[q] = [batch |-> b, op |-> o], InTable(b)'
  PROVE  kind[q] = "next" /\ inserted'[q] /\ q \notin unmarked' /\ stage'[q] \in Closing =>
           dirty'[q][b][o] # None /\ dirty'[q][b][o].status = "dispatched"
<1>0. TypeOK
  BY DEF IInv
<1>u. unmarked \subseteq unmarked'
  BY StepFrame
<1>o. kind[q] = "next" /\ inserted[q] /\ q \notin unmarked /\ stage[q] \in Closing
      /\ target[q] = [batch |-> b, op |-> o] /\ InTable(b) =>
        dirty[q][b][o] # None /\ dirty[q][b][o].status = "dispatched"
  BY DEF IInv, DecisionInv
<1>i. target'[q] = target[q] => InTable(b)
  BY NeverStored
<1>s. /\ stage[q] \in {"idle", "asking", "listing", "hydrating", "filtering", "scoring"} =>
           ~inserted[q]
      /\ stage[q] \in {"planning", "checking", "picking", "retiring", "inserting"} =>
           kind[q] # "next"
      /\ stage[q] \in {"seeking", "skipping", "upserting", "relisting"} => kind[q] # "next"
  BY DEF IInv, StageInv, StageOf, Closing
<1> DEFINE Goal ==
       kind[q] = "next" /\ inserted'[q] /\ q \notin unmarked' /\ stage'[q] \in Closing =>
         dirty'[q][b][o] # None /\ dirty'[q][b][o].status = "dispatched"
<1> USE DEF TypeOK, ControlType, LocalsType, Closing, Ended, GoTo, world, tables, locals, ghosts
<1>1. ASSUME NEW r \in Request, Refresh(r) PROVE Goal
  BY <1>1, <1>0, <1>u, <1>o, <1>i, <1>s, SMTT(20) DEF Refresh
<1>2. ASSUME NEW r \in Request, ListOperations(r) PROVE Goal
  BY <1>2, <1>0, <1>u, <1>o, <1>i, <1>s, SMTT(20) DEF ListOperations
<1>3. ASSUME NEW r \in Request, BeginBatch(r) PROVE Goal
  BY <1>3, <1>0, <1>u, <1>o, <1>i, <1>s, SMTT(20) DEF BeginBatch, KeepLoop
<1>4. ASSUME NEW r \in Request, Retire(r) PROVE Goal
  BY <1>4, <1>0, <1>u, <1>o, <1>i, <1>s, SMTT(20) DEF Retire
<1>5. ASSUME NEW r \in Request, InsertBatch(r) PROVE Goal
  BY <1>5, <1>0, <1>u, <1>o, <1>i, <1>s, SMTT(20) DEF InsertBatch, YieldLoop
<1>6. ASSUME NEW r \in Request, FetchLatestPlanBatch(r) PROVE Goal
  <2>1. /\ stage[r] = "asking" /\ stage'[r] \in {"listing", "declined"}
        /\ inserted' = inserted /\ dirty' = dirty /\ unmarked' = unmarked
        /\ q # r => stage'[q] = stage[q]
    BY <1>6, <1>0 DEF FetchLatestPlanBatch
  <2>2. q # r => target'[q] = target[q]
    BY <1>6, <1>0 DEF FetchLatestPlanBatch, AimAt
  <2> QED
    BY <1>o, <1>i, <2>1, <2>2
<1>7. ASSUME NEW r \in Request, ListPlannedJobs(r) PROVE Goal
  BY <1>7, <1>0, <1>u, <1>o, <1>i, <1>s, SMTT(20) DEF ListPlannedJobs, YieldLoop
<1>8. ASSUME NEW r \in Request, Hydrate(r) PROVE Goal
  BY <1>8, <1>0, <1>u, <1>o, <1>i, <1>s, SMTT(20) DEF Hydrate
<1>9. ASSUME NEW r \in Request, InsertDecision(r) PROVE Goal
  BY <1>9, <1>0, <1>u, <1>o, <1>i, <1>s, SMTT(20) DEF InsertDecision, KeepLoop, AimAt
<1>10. ASSUME NEW r \in Request, MarkDispatched(r) PROVE Goal
  <2>1. CASE q # r \/ r \in unmarked'
    BY <1>10, <1>0, <1>u, <1>o, <1>i, <2>1 DEF MarkDispatched, Write
  <2>2. CASE q = r /\ r \notin unmarked'
    <3>1. target[r] = [batch |-> b, op |-> o] /\ InTable(b)
      BY <1>10, <1>i, <2>2 DEF MarkDispatched
    <3>2. PICK c \in Batch, p \in Op : JobRow(r, c, p) /\ Write(r, c, p, Dispatched(plan[c][p], r))
      BY <1>10, <2>2 DEF MarkDispatched
    <3>3. c = b /\ p = o
      BY <3>1, <3>2 DEF JobRow, FromMemory
    <3>4. plan[b][o] \in Row
      BY <1>0, <3>2, <3>3 DEF JobRow, TablesType, Rows
    <3>5. dirty'[r][b][o] = Dispatched(plan[b][o], r)
      BY <3>2, <3>3 DEF Write
    <3>6. Dispatched(plan[b][o], r) \in Row /\ Dispatched(plan[b][o], r).status = "dispatched"
      BY <3>4 DEF Dispatched, Row
    <3> QED
      BY <2>2, <3>5, <3>6, DistinctAssumption
  <2> QED
    BY <2>1, <2>2
<1>11. ASSUME NEW r \in Request, Refuse(r) PROVE Goal
  BY <1>11, <1>0, <1>u, <1>o, <1>i, <1>s, SMTT(20) DEF Refuse, KeepLoop, AimAt
<1>12. ASSUME NEW r \in Request, MarkSkipped(r) PROVE Goal
  BY <1>12, <1>0, <1>u, <1>o, <1>i, <1>s, SMTT(20) DEF MarkSkipped, YieldLoop, Write
<1>13. ASSUME NEW r \in Request, SetMachineStatus(r) PROVE Goal
  BY <1>13, <1>0, <1>u, <1>o, <1>i, <1>s, SMTT(20) DEF SetMachineStatus, KeepLoop
<1>14. ASSUME NEW r \in Request, UpsertMachineStatus(r) PROVE Goal
  BY <1>14, <1>0, <1>u, <1>o, <1>i, <1>s, SMTT(20) DEF UpsertMachineStatus
<1>15. ASSUME NEW r \in Request, HandOver(r) PROVE Goal
  BY <1>15, <1>0, <1>u, <1>o, <1>i, <1>s, SMTT(20) DEF HandOver
<1>16. ASSUME NEW r \in Request, Commit(r) PROVE Goal
  BY <1>16, <1>0, <1>u, <1>o, <1>i, <1>s, SMTT(20) DEF Commit, ReleaseLocks
<1>17. ASSUME NEW r \in Request, CommitFails(r) PROVE Goal
  BY <1>17, <1>0, <1>u, <1>o, <1>i, <1>s, SMTT(20) DEF CommitFails, ReleaseLocks
<1>18. ASSUME NEW w \in Worker, WorkerDies(w) PROVE Goal
  BY <1>18, <1>0, <1>u, <1>o, <1>i, <1>s, SMTT(20) DEF WorkerDies
<1>19. ASSUME NEW p \in Op, FinishOperation(p) PROVE Goal
  BY <1>19, <1>0, <1>u, <1>o, <1>i, <1>s, SMTT(20) DEF FinishOperation
<1>20. ASSUME NEW p \in Op, IgnoreRunsOut(p) PROVE Goal
  BY <1>20, <1>0, <1>u, <1>o, <1>i, <1>s, SMTT(20) DEF IgnoreRunsOut
<1>21. ASSUME UNCHANGED vars PROVE Goal
  BY <1>0, <1>u, <1>o, <1>i, <1>s, <1>21 DEF vars
<1>22. ASSUME NEW r \in Request, ListMachineStatus(r) PROVE Goal
  BY <1>22, <1>0, <1>u, <1>o, <1>i, <1>s, SMTT(20) DEF ListMachineStatus
<1>23. ASSUME NEW r \in Request, Ask(r) PROVE Goal
  BY <1>23, <1>0, <1>u, <1>o, <1>i, <1>s, SMTT(20) DEF Ask
<1>24. ASSUME NEW r \in Request, ListActiveIgnores(r) PROVE Goal
  BY <1>24, <1>0, <1>u, <1>o, <1>i, <1>s, SMTT(20) DEF ListActiveIgnores
<1>25. ASSUME NEW r \in Request, GetPlannedJob(r) PROVE Goal
  BY <1>25, <1>0, <1>u, <1>o, <1>i, <1>s, SMTT(20) DEF GetPlannedJob, AimAt
<1>26. ASSUME NEW r \in Request, RelistMachines(r) PROVE Goal
  <2>1. /\ stage[r] = "relisting" /\ dirty' = dirty /\ unmarked' = unmarked /\ target' = target
        /\ q # r => stage'[q] = stage[q] /\ inserted'[q] = inserted[q]
    BY <1>26, <1>0 DEF RelistMachines
  <2> QED
    BY <1>o, <1>i, <1>s, <2>1
<1> QED
  BY <1>1, <1>2, <1>3, <1>4, <1>5, <1>6, <1>7, <1>8, <1>9, <1>10, <1>11, <1>12,
     <1>13, <1>14, <1>15, <1>16, <1>17, <1>18, <1>19, <1>20, <1>21, <1>22, <1>23, <1>24,
     <1>25, <1>26 DEF Next, ServerStep

\* Every step preserves what is known of decisions.
LEMMA StepDecision == IInv /\ [Next]_vars => DecisionInv'
<1> SUFFICES ASSUME IInv, [Next]_vars, NEW q \in Request
             PROVE  /\ decision'[q] # None =>
                         stage'[q] = "answered" /\ kind'[q] = "next" /\ decision'[q] = target'[q]
                    /\ kind'[q] = "next" /\ inserted'[q] /\ q \notin unmarked' /\ stage'[q] \in Closing
                       /\ InTable(target[q].batch)' =>
                         /\ dirty'[q][target'[q].batch][target'[q].op] # None
                         /\ dirty'[q][target'[q].batch][target'[q].op].status = "dispatched"
                    /\ decision'[q] # None /\ q \notin unmarked' /\ InTable(decision[q].batch)' =>
                         ~IsPlanned(plan[decision[q].batch][decision[q].op])'
  BY DEF DecisionInv, Closing
<1>0. TypeOK
  BY DEF IInv
<1>t. kind' = kind /\ unmarked \subseteq unmarked'
  BY StepFrame
<1>1. CASE decision'[q] # None /\ decision[q] # None
  <2>1. stage[q] = "answered" /\ kind[q] = "next" /\ decision[q] = target[q]
    BY <1>1, DecisionOf
  <2>2. PICK b \in Batch, o \in Op :
          /\ decision[q] = [batch |-> b, op |-> o]
          /\ q \notin unmarked /\ InTable(b) => ~IsPlanned(plan[b][o])
    BY <1>1, DecisionOf
  <2>3. decision'[q] = decision[q] /\ stage'[q] = "answered" /\ target'[q] = target[q]
    BY <1>1, <2>1, StepDecided, StepEnded, StepFrame DEF Ended
  <2>4. InTable(b)' => InTable(b)
    <3>1. target[q].batch = b
      BY <2>1, <2>2
    <3> QED
      BY <3>1, NeverStored
  <2>5. InTable(b) /\ ~IsPlanned(plan[b][o]) => ~IsPlanned(plan'[b][o])
    BY NoNewPlanned
  <2>6. q \notin unmarked' /\ InTable(b)' => ~IsPlanned(plan'[b][o])
    BY <1>t, <2>2, <2>4, <2>5
  <2>7. decision'[q].batch = b /\ decision'[q].op = o
    BY <2>2, <2>3
  <2>8. /\ InTable(decision[q].batch)' => InTable(b)'
        /\ ~IsPlanned(plan'[b][o]) => ~IsPlanned(plan[decision[q].batch][decision[q].op])'
    BY <2>7 DEF InTable, IsPlanned
  <2>9. stage'[q] \notin Closing
    BY <2>3 DEF Closing
  <2> QED
    BY <1>t, <2>1, <2>3, <2>6, <2>8, <2>9
<1>2. CASE decision'[q] # None /\ decision[q] = None
  <2>1. PICK r \in Request : Commit(r)
    BY <1>2, PlanSteps
  <2>2. /\ r = q /\ kind[q] = "next" /\ inserted[q] /\ decision'[q] = target[q]
        /\ stage[q] = "committing" /\ stage'[q] = "answered" /\ target' = target
    BY <1>0, <1>2, <2>1 DEF Commit, GoTo, TypeOK, TablesType, ControlType, locals
  <2>3. PICK b \in Batch, o \in Op : target[q] = [batch |-> b, op |-> o]
    BY <2>2 DEF IInv, StageInv, StageOf, Target
  <2>4. InTable(b)' => InTable(b)
    BY <2>3, NeverStored
  <2>5. InTable(b) /\ q \notin unmarked => dirty[q][b][o] # None /\ dirty[q][b][o].status = "dispatched"
    BY <2>2, <2>3 DEF IInv, DecisionInv, Closing
  <2>6. InTable(b) /\ q \notin unmarked => ~IsPlanned(plan'[b][o])
    BY <2>1, <2>2, <2>5 DEF Commit, IsPlanned
  <2> QED
    BY <1>t, <2>2, <2>3, <2>4, <2>6 DEF Closing, InTable, IsPlanned
<1>3. CASE decision'[q] = None
  <2>2. InTable(target[q].batch)' /\ kind[q] = "next" /\ inserted'[q] /\ stage'[q] \in Closing
           => \E b \in Batch, o \in Op : target'[q] = [batch |-> b, op |-> o]
    BY <1>t, StepStage DEF StageInv, StageOf, Closing, Target
  <2>3. ASSUME NEW b \in Batch, NEW o \in Op, target'[q] = [batch |-> b, op |-> o],
               InTable(b)', kind[q] = "next", inserted'[q], q \notin unmarked', stage'[q] \in Closing
        PROVE  dirty'[q][b][o] # None /\ dirty'[q][b][o].status = "dispatched"
    BY <2>3, StepMarked
  <2>4. ASSUME kind[q] = "next", inserted'[q], q \notin unmarked', stage'[q] \in Closing,
               InTable(target[q].batch)'
        PROVE  /\ dirty'[q][target'[q].batch][target'[q].op] # None
               /\ dirty'[q][target'[q].batch][target'[q].op].status = "dispatched"
    <3>1. PICK b \in Batch, o \in Op : target'[q] = [batch |-> b, op |-> o]
      BY <2>2, <2>4
    <3>2. InTable(b)'
      BY <2>4, <3>1 DEF InTable
    <3> QED
      BY <2>3, <2>4, <3>1, <3>2
  <2> QED
    BY <1>3, <1>t, <2>4
<1> QED
  BY <1>1, <1>2, <1>3

\* How a call of /next comes to its suggestion.
LEMMA StepNext ==
  ASSUME IInv, [Next]_vars, NEW q \in Request, kind[q] = "next"
  PROVE  /\ blind \subseteq blind'
         /\ \/ target'[q] = target[q] /\ barred'[q] \subseteq barred[q]
            \/ target'[q].op = None
            \/ /\ stage[q] = "scoring" /\ barred'[q] \subseteq barred[q]
               /\ \E o \in Op : /\ view[q][o] # None
                                /\ target'[q] = [batch |-> target[q].batch, op |-> o]
         /\ stage'[q] \in {"hydrating", "filtering", "scoring"} =>
              \/ ListPlannedJobs(q) \/ ListActiveIgnores(q)
              \/ /\ \/ stage'[q] = stage[q]
                    \/ stage[q] = "hydrating" /\ stage'[q] = "filtering"
                 /\ view'[q] = view[q]
                 /\ target'[q] = target[q] /\ barred'[q] \subseteq barred[q]
         /\ stage'[q] \in {"marking", "answered"} \cup Closing =>
              \/ stage[q] \in {"marking", "answered"} \cup Closing /\ target'[q] = target[q]
              \/ /\ stage[q] = "scoring"
                 /\ \E o \in Op : /\ view[q][o] # None
                                  /\ target'[q] = [batch |-> target[q].batch, op |-> o]
<1>0. TypeOK
  BY DEF IInv
<1>s. /\ stage[q] \in {"idle", "asking"} => target[q].op = None
      /\ stage[q] \notin {"planning", "checking", "picking", "retiring", "inserting",
                          "seeking", "skipping", "upserting", "relisting"}
  BY DEF IInv, StageInv, StageOf
<1> DEFINE Goal ==
       /\ blind \subseteq blind'
       /\ \/ target'[q] = target[q] /\ barred'[q] \subseteq barred[q]
          \/ target'[q].op = None
          \/ /\ stage[q] = "scoring" /\ barred'[q] \subseteq barred[q]
             /\ \E o \in Op : /\ view[q][o] # None
                              /\ target'[q] = [batch |-> target[q].batch, op |-> o]
       /\ stage'[q] \in {"hydrating", "filtering", "scoring"} =>
            \/ ListPlannedJobs(q) \/ ListActiveIgnores(q)
            \/ /\ \/ stage'[q] = stage[q]
                  \/ stage[q] = "hydrating" /\ stage'[q] = "filtering"
               /\ view'[q] = view[q]
               /\ target'[q] = target[q] /\ barred'[q] \subseteq barred[q]
       /\ stage'[q] \in {"marking", "answered"} \cup Closing =>
            \/ stage[q] \in {"marking", "answered"} \cup Closing /\ target'[q] = target[q]
            \/ /\ stage[q] = "scoring"
               /\ \E o \in Op : /\ view[q][o] # None
                                /\ target'[q] = [batch |-> target[q].batch, op |-> o]
<1> USE DEF TypeOK, ControlType, LocalsType, GhostsType, GoTo, Closing, Ended, world, tables, locals, ghosts
<1>1. ASSUME NEW r \in Request, Refresh(r) PROVE Goal
  BY <1>1, <1>0, <1>s, SMTT(20) DEF Refresh
<1>2. ASSUME NEW r \in Request, ListOperations(r) PROVE Goal
  BY <1>2, <1>0, <1>s, SMTT(20) DEF ListOperations
<1>3. ASSUME NEW r \in Request, BeginBatch(r) PROVE Goal
  BY <1>3, <1>0, <1>s, SMTT(20) DEF BeginBatch, KeepLoop
<1>4. ASSUME NEW r \in Request, Retire(r) PROVE Goal
  BY <1>4, <1>0, <1>s, SMTT(20) DEF Retire
<1>5. ASSUME NEW r \in Request, InsertBatch(r) PROVE Goal
  BY <1>5, <1>0, <1>s, SMTT(20) DEF InsertBatch, YieldLoop
<1>6. ASSUME NEW r \in Request, FetchLatestPlanBatch(r) PROVE Goal
  <2>1. CASE q # r
    BY <1>6, <1>0, <2>1 DEF FetchLatestPlanBatch, AimAt
  <2>2. CASE q = r
    <3>1. target' = target \/ \E b \in LatestInTable \cup LatestInMemory(r) : AimAt(r, b, None)
      BY <1>6 DEF FetchLatestPlanBatch
    <3>3. stage[q] = "asking" /\ target[q].op = None
      BY <1>6, <1>s, <2>2 DEF FetchLatestPlanBatch
    <3>2. target'[q].op = None
      BY <1>0, <2>2, <3>1, <3>3 DEF AimAt
    <3>4. stage'[q] \in {"listing", "declined"} /\ blind' = blind
      BY <1>6, <1>0, <2>2 DEF FetchLatestPlanBatch
    <3> QED
      BY <3>2, <3>4
  <2> QED
    BY <2>1, <2>2
<1>7. ASSUME NEW r \in Request, ListPlannedJobs(r) PROVE Goal
  <2>1. CASE q # r
    BY <1>7, <1>0, <2>1 DEF ListPlannedJobs
  <2>2. CASE q = r
    <3>1. stage'[q] = "hydrating" /\ blind' = blind /\ barred' = barred /\ target' = target
      BY <1>7, <1>0, <2>2 DEF ListPlannedJobs
    <3> QED
      BY <1>7, <2>2, <3>1
  <2> QED
    BY <2>1, <2>2
<1>8. ASSUME NEW r \in Request, Hydrate(r) PROVE Goal
  <2>1. /\ target' = target /\ barred' = barred /\ view' = view /\ blind' = blind
        /\ q # r => stage'[q] = stage[q]
        /\ stage[r] = "hydrating" /\ stage'[r] \in {"filtering", "declined"}
    BY <1>8, <1>0 DEF Hydrate
  <2> QED
    BY <2>1
<1>9. ASSUME NEW r \in Request, InsertDecision(r) PROVE Goal
  <2>1. CASE q # r
    BY <1>9, <1>0, <2>1 DEF InsertDecision, AimAt
  <2>2. CASE q = r
    <3>1. PICK o \in Op : view[r][o] # None /\ AimAt(r, target[r].batch, o)
      BY <1>9 DEF InsertDecision
    <3>2. target'[q] = [batch |-> target[q].batch, op |-> o]
      BY <1>0, <2>2, <3>1 DEF AimAt
    <3>3. /\ stage[q] = "scoring" /\ stage'[q] \in {"marking", "returned"}
          /\ barred' = barred /\ blind' = blind
      BY <1>9, <1>0, <2>2 DEF InsertDecision
    <3> QED
      BY <2>2, <3>1, <3>2, <3>3
  <2> QED
    BY <2>1, <2>2
<1>10. ASSUME NEW r \in Request, MarkDispatched(r) PROVE Goal
  BY <1>10, <1>0, <1>s, SMTT(20) DEF MarkDispatched, YieldLoop
<1>11. ASSUME NEW r \in Request, Refuse(r) PROVE Goal
  <2>1. q # r
    BY <1>11 DEF Refuse
  <2> QED
    BY <1>11, <1>0, <2>1 DEF Refuse, AimAt
<1>12. ASSUME NEW r \in Request, MarkSkipped(r) PROVE Goal
  BY <1>12, <1>0, <1>s, SMTT(20) DEF MarkSkipped, YieldLoop
<1>13. ASSUME NEW r \in Request, SetMachineStatus(r) PROVE Goal
  BY <1>13, <1>0, <1>s, SMTT(20) DEF SetMachineStatus, KeepLoop
<1>14. ASSUME NEW r \in Request, UpsertMachineStatus(r) PROVE Goal
  BY <1>14, <1>0, <1>s, SMTT(20) DEF UpsertMachineStatus
<1>15. ASSUME NEW r \in Request, HandOver(r) PROVE Goal
  BY <1>15, <1>0, <1>s, SMTT(20) DEF HandOver
<1>16. ASSUME NEW r \in Request, Commit(r) PROVE Goal
  BY <1>16, <1>0, <1>s, SMTT(20) DEF Commit, ReleaseLocks
<1>17. ASSUME NEW r \in Request, CommitFails(r) PROVE Goal
  BY <1>17, <1>0, <1>s, SMTT(20) DEF CommitFails, ReleaseLocks
<1>18. ASSUME NEW w \in Worker, WorkerDies(w) PROVE Goal
  BY <1>18, <1>0, <1>s, SMTT(20) DEF WorkerDies
<1>19. ASSUME NEW p \in Op, FinishOperation(p) PROVE Goal
  BY <1>19, <1>0, <1>s, SMTT(20) DEF FinishOperation
<1>20. ASSUME NEW p \in Op, IgnoreRunsOut(p) PROVE Goal
  BY <1>20, <1>0, <1>s, SMTT(20) DEF IgnoreRunsOut
<1>21. ASSUME UNCHANGED vars PROVE Goal
  BY <1>0, <1>s, <1>21 DEF vars
<1>22. ASSUME NEW r \in Request, ListMachineStatus(r) PROVE Goal
  BY <1>22, <1>0, <1>s, SMTT(20) DEF ListMachineStatus
<1>23. ASSUME NEW r \in Request, Ask(r) PROVE Goal
  <2>1. /\ target' = target /\ view' = view /\ blind' = blind
        /\ q # r => stage'[q] = stage[q] /\ barred'[q] = barred[q]
        /\ stage[r] = "idle" /\ stage'[r] = "asking"
    BY <1>23, <1>0 DEF Ask
  <2> QED
    BY <1>s, <2>1
<1>24. ASSUME NEW r \in Request, ListActiveIgnores(r) PROVE Goal
  <2>1. CASE q # r
    BY <1>24, <1>0, <2>1 DEF ListActiveIgnores
  <2>2. CASE q = r
    <3>1. /\ stage'[q] \in {"scoring", "declined"} /\ blind \subseteq blind' /\ barred' = barred
          /\ target' = target
      BY <1>24, <1>0, <2>2 DEF ListActiveIgnores
    <3> QED
      BY <1>24, <2>2, <3>1
  <2> QED
    BY <2>1, <2>2
<1>25. ASSUME NEW r \in Request, GetPlannedJob(r) PROVE Goal
  <2>1. q # r
    BY <1>25, <1>s DEF GetPlannedJob
  <2>2. target'[q] = target[q]
    <3>1. target' = target \/ \E b \in Batch, o \in Op : AimAt(r, b, o)
      BY <1>25 DEF GetPlannedJob
    <3> QED
      BY <1>0, <2>1, <3>1 DEF AimAt
  <2>3. stage'[q] = stage[q] /\ view' = view /\ barred' = barred /\ blind' = blind
    BY <1>25, <1>0, <2>1 DEF GetPlannedJob
  <2> QED
    BY <2>2, <2>3
<1>26. ASSUME NEW r \in Request, RelistMachines(r) PROVE Goal
  <2>1. q # r
    BY <1>26, <1>s DEF RelistMachines
  <2>2. /\ stage'[q] = stage[q] /\ target' = target /\ view' = view /\ barred' = barred
        /\ blind' = blind
    BY <1>26, <1>0, <2>1 DEF RelistMachines
  <2> QED
    BY <2>2
<1> QED
  BY <1>1, <1>2, <1>3, <1>4, <1>5, <1>6, <1>7, <1>8, <1>9, <1>10, <1>11, <1>12,
     <1>13, <1>14, <1>15, <1>16, <1>17, <1>18, <1>19, <1>20, <1>21, <1>22, <1>23, <1>24,
     <1>25, <1>26 DEF Next, ServerStep

\* What is known to a call of /next is read when it lists the jobs.
LEMMA StepKnows ==
  ASSUME IInv, [Next]_vars, NEW q \in Request
  PROVE  known'[q] = known[q] \/ ListPlannedJobs(q)
<1>0. TypeOK
  BY DEF IInv
<1> DEFINE Goal ==
       known'[q] = known[q] \/ ListPlannedJobs(q)
<1> USE DEF TypeOK, GhostsType, world, tables, locals, ghosts
<1>1. ASSUME NEW r \in Request, Refresh(r) PROVE Goal
  BY <1>1, <1>0, SMTT(20) DEF Refresh
<1>2. ASSUME NEW r \in Request, ListOperations(r) PROVE Goal
  BY <1>2, <1>0, SMTT(20) DEF ListOperations
<1>3. ASSUME NEW r \in Request, BeginBatch(r) PROVE Goal
  BY <1>3, <1>0, SMTT(20) DEF BeginBatch, KeepLoop
<1>4. ASSUME NEW r \in Request, Retire(r) PROVE Goal
  BY <1>4, <1>0, SMTT(20) DEF Retire
<1>5. ASSUME NEW r \in Request, InsertBatch(r) PROVE Goal
  BY <1>5, <1>0, SMTT(20) DEF InsertBatch, YieldLoop
<1>6. ASSUME NEW r \in Request, FetchLatestPlanBatch(r) PROVE Goal
  BY <1>6, <1>0, SMTT(20) DEF FetchLatestPlanBatch, AimAt
<1>7. ASSUME NEW r \in Request, ListPlannedJobs(r) PROVE Goal
  <2>1. CASE q # r
    BY <1>7, <1>0, <2>1 DEF ListPlannedJobs
  <2>2. CASE q = r
    BY <1>7, <2>2
  <2> QED
    BY <2>1, <2>2
<1>8. ASSUME NEW r \in Request, Hydrate(r) PROVE Goal
  BY <1>8, <1>0, SMTT(20) DEF Hydrate
<1>9. ASSUME NEW r \in Request, InsertDecision(r) PROVE Goal
  BY <1>9, <1>0, SMTT(20) DEF InsertDecision, KeepLoop, AimAt
<1>10. ASSUME NEW r \in Request, MarkDispatched(r) PROVE Goal
  BY <1>10, <1>0, SMTT(20) DEF MarkDispatched, YieldLoop
<1>11. ASSUME NEW r \in Request, Refuse(r) PROVE Goal
  BY <1>11, <1>0, SMTT(20) DEF Refuse, KeepLoop, AimAt
<1>12. ASSUME NEW r \in Request, MarkSkipped(r) PROVE Goal
  BY <1>12, <1>0, SMTT(20) DEF MarkSkipped, YieldLoop
<1>13. ASSUME NEW r \in Request, SetMachineStatus(r) PROVE Goal
  BY <1>13, <1>0, SMTT(20) DEF SetMachineStatus, KeepLoop
<1>14. ASSUME NEW r \in Request, UpsertMachineStatus(r) PROVE Goal
  BY <1>14, <1>0, SMTT(20) DEF UpsertMachineStatus
<1>15. ASSUME NEW r \in Request, HandOver(r) PROVE Goal
  BY <1>15, <1>0, SMTT(20) DEF HandOver
<1>16. ASSUME NEW r \in Request, Commit(r) PROVE Goal
  BY <1>16, <1>0, SMTT(20) DEF Commit, ReleaseLocks
<1>17. ASSUME NEW r \in Request, CommitFails(r) PROVE Goal
  BY <1>17, <1>0, SMTT(20) DEF CommitFails, ReleaseLocks
<1>18. ASSUME NEW w \in Worker, WorkerDies(w) PROVE Goal
  BY <1>18, <1>0, SMTT(20) DEF WorkerDies
<1>19. ASSUME NEW p \in Op, FinishOperation(p) PROVE Goal
  BY <1>19, <1>0, SMTT(20) DEF FinishOperation
<1>20. ASSUME NEW p \in Op, IgnoreRunsOut(p) PROVE Goal
  BY <1>20, <1>0, SMTT(20) DEF IgnoreRunsOut
<1>21. ASSUME UNCHANGED vars PROVE Goal
  BY <1>0, <1>21 DEF vars
<1>22. ASSUME NEW r \in Request, ListMachineStatus(r) PROVE Goal
  BY <1>22, <1>0, SMTT(20) DEF ListMachineStatus
<1>23. ASSUME NEW r \in Request, Ask(r) PROVE Goal
  BY <1>23, <1>0, SMTT(20) DEF Ask
<1>24. ASSUME NEW r \in Request, ListActiveIgnores(r) PROVE Goal
  BY <1>24, <1>0, SMTT(20) DEF ListActiveIgnores
<1>25. ASSUME NEW r \in Request, GetPlannedJob(r) PROVE Goal
  BY <1>25, <1>0, SMTT(20) DEF GetPlannedJob, AimAt
<1>26. ASSUME NEW r \in Request, RelistMachines(r) PROVE Goal
  BY <1>26, <1>0, SMTT(20) DEF RelistMachines
<1> QED
  BY <1>1, <1>2, <1>3, <1>4, <1>5, <1>6, <1>7, <1>8, <1>9, <1>10, <1>11, <1>12,
     <1>13, <1>14, <1>15, <1>16, <1>17, <1>18, <1>19, <1>20, <1>21, <1>22, <1>23, <1>24,
     <1>25, <1>26 DEF Next, ServerStep

\* Only ignores in force bar a job.
LEMMA StepBarred ==
  ASSUME IInv, [Next]_vars, NEW q \in Request
  PROVE  barred'[q] \subseteq ignores'
<1>0. TypeOK
  BY DEF IInv
<1>i. barred[q] \subseteq ignores
  BY DEF IInv, IgnoreInv
<1> DEFINE Goal ==
       barred'[q] \subseteq ignores'
<1> USE DEF TypeOK, GhostsType, world, tables, locals, ghosts
<1>1. ASSUME NEW r \in Request, Refresh(r) PROVE Goal
  BY <1>1, <1>0, <1>i, SMTT(20) DEF Refresh
<1>2. ASSUME NEW r \in Request, ListOperations(r) PROVE Goal
  BY <1>2, <1>0, <1>i, SMTT(20) DEF ListOperations
<1>3. ASSUME NEW r \in Request, BeginBatch(r) PROVE Goal
  BY <1>3, <1>0, <1>i, SMTT(20) DEF BeginBatch, KeepLoop
<1>4. ASSUME NEW r \in Request, Retire(r) PROVE Goal
  BY <1>4, <1>0, <1>i, SMTT(20) DEF Retire
<1>5. ASSUME NEW r \in Request, InsertBatch(r) PROVE Goal
  BY <1>5, <1>0, <1>i, SMTT(20) DEF InsertBatch, YieldLoop
<1>6. ASSUME NEW r \in Request, FetchLatestPlanBatch(r) PROVE Goal
  BY <1>6, <1>0, <1>i, SMTT(20) DEF FetchLatestPlanBatch, AimAt
<1>7. ASSUME NEW r \in Request, ListPlannedJobs(r) PROVE Goal
  BY <1>7, <1>0, <1>i, SMTT(20) DEF ListPlannedJobs, YieldLoop
<1>8. ASSUME NEW r \in Request, Hydrate(r) PROVE Goal
  BY <1>8, <1>0, <1>i, SMTT(20) DEF Hydrate
<1>9. ASSUME NEW r \in Request, InsertDecision(r) PROVE Goal
  BY <1>9, <1>0, <1>i, SMTT(20) DEF InsertDecision, KeepLoop, AimAt
<1>10. ASSUME NEW r \in Request, MarkDispatched(r) PROVE Goal
  BY <1>10, <1>0, <1>i, SMTT(20) DEF MarkDispatched, YieldLoop
<1>11. ASSUME NEW r \in Request, Refuse(r) PROVE Goal
  BY <1>11, <1>0, <1>i, SMTT(20) DEF Refuse, KeepLoop, AimAt
<1>12. ASSUME NEW r \in Request, MarkSkipped(r) PROVE Goal
  BY <1>12, <1>0, <1>i, SMTT(20) DEF MarkSkipped, YieldLoop
<1>13. ASSUME NEW r \in Request, SetMachineStatus(r) PROVE Goal
  BY <1>13, <1>0, <1>i, SMTT(20) DEF SetMachineStatus, KeepLoop
<1>14. ASSUME NEW r \in Request, UpsertMachineStatus(r) PROVE Goal
  BY <1>14, <1>0, <1>i, SMTT(20) DEF UpsertMachineStatus
<1>15. ASSUME NEW r \in Request, HandOver(r) PROVE Goal
  BY <1>15, <1>0, <1>i, SMTT(20) DEF HandOver
<1>16. ASSUME NEW r \in Request, Commit(r) PROVE Goal
  BY <1>16, <1>0, <1>i, SMTT(20) DEF Commit, ReleaseLocks
<1>17. ASSUME NEW r \in Request, CommitFails(r) PROVE Goal
  BY <1>17, <1>0, <1>i, SMTT(20) DEF CommitFails, ReleaseLocks
<1>18. ASSUME NEW w \in Worker, WorkerDies(w) PROVE Goal
  BY <1>18, <1>0, <1>i, SMTT(20) DEF WorkerDies
<1>19. ASSUME NEW p \in Op, FinishOperation(p) PROVE Goal
  BY <1>19, <1>0, <1>i, SMTT(20) DEF FinishOperation
<1>20. ASSUME NEW p \in Op, IgnoreRunsOut(p) PROVE Goal
  BY <1>20, <1>0, <1>i, SMTT(20) DEF IgnoreRunsOut
<1>21. ASSUME UNCHANGED vars PROVE Goal
  BY <1>0, <1>i, <1>21 DEF vars
<1>22. ASSUME NEW r \in Request, ListMachineStatus(r) PROVE Goal
  BY <1>22, <1>0, <1>i, SMTT(20) DEF ListMachineStatus
<1>23. ASSUME NEW r \in Request, Ask(r) PROVE Goal
  BY <1>23, <1>0, <1>i, SMTT(20) DEF Ask
<1>24. ASSUME NEW r \in Request, ListActiveIgnores(r) PROVE Goal
  BY <1>24, <1>0, <1>i, SMTT(20) DEF ListActiveIgnores
<1>25. ASSUME NEW r \in Request, GetPlannedJob(r) PROVE Goal
  BY <1>25, <1>0, <1>i, SMTT(20) DEF GetPlannedJob, AimAt
<1>26. ASSUME NEW r \in Request, RelistMachines(r) PROVE Goal
  BY <1>26, <1>0, <1>i, SMTT(20) DEF RelistMachines
<1> QED
  BY <1>1, <1>2, <1>3, <1>4, <1>5, <1>6, <1>7, <1>8, <1>9, <1>10, <1>11, <1>12,
     <1>13, <1>14, <1>15, <1>16, <1>17, <1>18, <1>19, <1>20, <1>21, <1>22, <1>23, <1>24,
     <1>25, <1>26 DEF Next, ServerStep

\* A call of /next lists no job as planned that was decided for and marked.
LEMMA ListsNoDecided ==
  ASSUME IInv, NEW q \in Request, ListPlannedJobs(q), NEW p \in Request, NEW b \in Batch,
         NEW o \in Op, decision[p] = [batch |-> b, op |-> o], p \notin unmarked,
         target[q].batch = b, InTable(b)
  PROVE  ~IsPlanned(view'[q][o])
<1>1. decision[p] # None
  BY DistinctAssumption DEF Target
<1>2. ~IsPlanned(plan[b][o])
  <2>1. PICK c \in Batch, x \in Op :
          /\ decision[p] = [batch |-> c, op |-> x]
          /\ p \notin unmarked /\ InTable(c) => ~IsPlanned(plan[c][x])
    BY <1>1, DecisionOf
  <2>2. c = b /\ x = o
    BY <2>1
  <2> QED
    BY <2>1, <2>2
<1>3. view'[q] = plan[b] \/ view'[q] = [p1 \in Op |-> None]
  BY DEF ListPlannedJobs, FromMemory, IInv, TypeOK, LocalsType
<1> QED
  BY <1>2, <1>3 DEF IsPlanned

\* Every step preserves what a suggestion has read of decisions.
LEMMA StepKnown == IInv /\ [Next]_vars => KnownInv'
<1> SUFFICES ASSUME IInv, [Next]_vars, NEW q \in Request, NEW p \in known'[q]
             PROVE  /\ kind'[q] = "next" /\ decision'[p] # None
                    /\ p \notin unmarked' /\ decision'[p].batch = target'[q].batch
                       /\ InTable(target[q].batch)' =>
                         /\ stage'[q] \in {"hydrating", "filtering", "scoring"} => ~IsPlanned(view[q][decision[p].op])'
                         /\ stage'[q] \in {"marking", "answered"} \cup Closing => target'[q] # decision'[p]
  BY DEF KnownInv, Closing
<1>0. TypeOK
  BY DEF IInv
<1>1. p \in Request /\ kind[q] = "next" /\ decision[p] # None
  <2>1. CASE known'[q] = known[q]
    BY <1>0, <2>1 DEF IInv, KnownInv, TypeOK, GhostsType
  <2>2. CASE ListPlannedJobs(q)
    BY <1>0, <2>2 DEF ListPlannedJobs, TypeOK, GhostsType, IInv, StageInv, StageOf
  <2> QED
    BY <2>1, <2>2, StepKnows
<1>2. kind'[q] = "next" /\ decision'[p] = decision[p] /\ (p \notin unmarked' => p \notin unmarked)
  BY <1>1, StepFrame, StepDecided
<1>3. PICK b \in Batch, o \in Op : decision[p] = [batch |-> b, op |-> o]
  BY <1>1, DecisionOf
<1>4. InTable(b)' => InTable(b)
  <2>1. target[p].batch = b
    BY <1>1, <1>3, DecisionOf
  <2> QED
    BY <1>1, <2>1, NeverStored
<1>5. ASSUME target[q].batch = b, InTable(b), p \notin unmarked, p \in known[q]
      PROVE  /\ stage[q] \in {"hydrating", "filtering", "scoring"} => ~IsPlanned(view[q][o])
             /\ stage[q] \in {"marking", "answered"} \cup Closing => target[q] # decision[p]
  BY <1>3, <1>5 DEF IInv, KnownInv
<1>6. ASSUME p \notin unmarked', InTable(b)', target'[q].batch = b, stage'[q] \in {"hydrating", "filtering", "scoring"}
      PROVE  ~IsPlanned(view'[q][o])
  <2>1. CASE ListPlannedJobs(q)
    <3>1. target[q].batch = b
      BY <1>6, <2>1 DEF ListPlannedJobs
    <3> QED
      BY <1>1, <1>2, <1>3, <1>4, <1>6, <2>1, <3>1, ListsNoDecided
  <2>2. CASE ~ListPlannedJobs(q) /\ ListActiveIgnores(q)
    <3>1. /\ target[q].batch = b /\ stage[q] = "filtering"
          /\ view'[q][o] = view[q][o] \/ view'[q][o] = None
      BY <1>0, <1>6, <2>2 DEF ListActiveIgnores, TypeOK, LocalsType
    <3>2. p \in known[q]
      BY <2>2, StepKnows
    <3> QED
      BY <1>2, <1>4, <1>5, <1>6, <3>1, <3>2 DEF IsPlanned
  <2>3. CASE ~ListPlannedJobs(q) /\ ~ListActiveIgnores(q)
    <3>1. /\ stage[q] \in {"hydrating", "filtering", "scoring"}
          /\ view'[q] = view[q] /\ target'[q] = target[q]
      BY <1>1, <1>6, <2>3, StepNext
    <3>2. p \in known[q]
      BY <2>3, StepKnows
    <3> QED
      BY <1>2, <1>4, <1>5, <1>6, <3>1, <3>2
  <2> QED
    BY <2>1, <2>2, <2>3
<1>7. ASSUME p \notin unmarked', InTable(b)', target'[q].batch = b,
             stage'[q] \in {"marking", "answered"} \cup Closing
      PROVE  target'[q] # decision[p]
  <2>1. p \in known[q]
    <3>1. ListPlannedJobs(q) => stage'[q] = "hydrating"
      BY <1>0 DEF ListPlannedJobs, GoTo, TypeOK, ControlType
    <3> QED
      BY <1>7, <3>1, StepKnows DEF Closing
  <2>2. CASE stage[q] \in {"marking", "answered"} \cup Closing /\ target'[q] = target[q]
    BY <1>2, <1>4, <1>5, <1>7, <2>1, <2>2
  <2>3. CASE stage[q] = "scoring" /\ \E x \in Op : /\ view[q][x] # None
                                                   /\ target'[q] = [batch |-> target[q].batch, op |-> x]
    <3>1. PICK x \in Op : view[q][x] # None /\ target'[q] = [batch |-> target[q].batch, op |-> x]
      BY <2>3
    <3>2. IsPlanned(view[q][x])
      BY <2>3, <3>1 DEF IInv, IgnoreInv
    <3>3. target[q].batch = b /\ target'[q].op = x
      BY <1>7, <3>1
    <3>4. x # o
      BY <1>2, <1>4, <1>5, <1>7, <2>1, <2>3, <3>2, <3>3
    <3> QED
      BY <1>3, <3>3, <3>4
  <2> QED
    BY <1>1, <1>7, <2>2, <2>3, StepNext
<1>8. /\ InTable(target[q].batch)' /\ target'[q].batch = b => InTable(b)'
      /\ decision'[p].batch = b /\ decision'[p].op = o
  BY <1>2, <1>3 DEF InTable
<1>9. ~IsPlanned(view'[q][o]) => ~IsPlanned(view[q][decision[p].op])'
  BY <1>8 DEF IsPlanned
<1> QED
  BY <1>1, <1>2, <1>6, <1>7, <1>8, <1>9

\* Every step preserves what a suggestion has read of ignores.
LEMMA StepIgnore == IInv /\ [Next]_vars => IgnoreInv'
<1> SUFFICES ASSUME IInv, [Next]_vars, NEW q \in Request
             PROVE  /\ barred'[q] \subseteq ignores'
                    /\ stage'[q] = "scoring" =>
                         \A o \in Op : view'[q][o] # None =>
                           /\ IsPlanned(view'[q][o])
                           /\ o \in PlainOp \cap barred'[q] /\ InTable(target[q].batch)' => q \in blind'
  BY DEF IgnoreInv, IsPlanned
<1>0. TypeOK
  BY DEF IInv
<1> SUFFICES ASSUME stage'[q] = "scoring", NEW o \in Op, view'[q][o] # None
             PROVE  /\ IsPlanned(view'[q][o])
                    /\ o \in PlainOp \cap barred'[q] /\ InTable(target[q].batch)' => q \in blind'
  BY StepBarred
<1>1. kind[q] = "next"
  <2>1. StageInv' /\ kind' = kind
    BY StepStage, StepFrame
  <2> QED
    BY <2>1 DEF StageInv, StageOf
<1>2. ~ListPlannedJobs(q)
  BY <1>0 DEF ListPlannedJobs, GoTo, TypeOK, ControlType
<1>3. CASE ListActiveIgnores(q)
  <2>1. PICK listed \in SUBSET Op, read \in BOOLEAN :
          /\ view' = [view EXCEPT ![q] = [x \in Op |->
               IF x \in Eligible(q, listed, IF read THEN ignores ELSE {}) THEN view[q][x] ELSE None]]
          /\ blind' = IF read THEN blind ELSE blind \cup {q}
    BY <1>3 DEF ListActiveIgnores, Listed
  <2>4. o \in Eligible(q, listed, IF read THEN ignores ELSE {}) /\ view'[q][o] = view[q][o]
    BY <1>0, <2>1 DEF TypeOK, LocalsType
  <2>2. barred[q] \subseteq ignores /\ barred' = barred /\ target' = target /\ plan' = plan
    BY <1>3 DEF ListActiveIgnores, IInv, IgnoreInv, ghosts, tables, locals
  <2>3. InTable(target[q].batch)' => ~FromMemory(q)
    BY <2>2 DEF InTable, FromMemory
  <2> QED
    BY <2>1, <2>2, <2>3, <2>4 DEF Eligible, IsIgnored
<1>4. CASE ~ListActiveIgnores(q)
  <2>1. /\ stage[q] = "scoring" /\ view'[q] = view[q] /\ target'[q] = target[q]
        /\ barred'[q] \subseteq barred[q] /\ blind \subseteq blind'
    BY <1>1, <1>2, <1>4, StepNext
  <2>2. PICK b \in Batch : target[q].batch = b
    BY <1>0, <2>1, AimType DEF IInv, StageInv, StageOf, TypeOK, LocalsType
  <2>3. InTable(target[q].batch)' => InTable(b)
    <3>1. InTable(b)' => InTable(b)
      BY <2>2, NeverStored
    <3> QED
      BY <2>1, <2>2, <3>1 DEF InTable
  <2>4. /\ IsPlanned(view[q][o])
        /\ o \in PlainOp \cap barred[q] /\ InTable(b) => q \in blind
    BY <2>1, <2>2 DEF IInv, IgnoreInv
  <2> QED
    BY <2>1, <2>3, <2>4
<1> QED
  BY <1>3, <1>4

\* Every step preserves that a refused job of a plain part stays away.
LEMMA StepPlain == IInv /\ [Next]_vars => PlainRefusedJobStaysAway'
<1> SUFFICES ASSUME IInv, [Next]_vars, NEW q \in Request, NEW o \in PlainOp,
                    Suggests(q, o)', o \in barred'[q]
             PROVE  q \in blind'
  BY DEF PlainRefusedJobStaysAway
<1>0. TypeOK
  BY DEF IInv
<1>1. kind[q] = "next" /\ target'[q].op = o /\ InTable(target[q].batch)' /\ o \in Op
  BY StepFrame, AllowedAssumption DEF Suggests
<1>2. blind \subseteq blind' /\ o # None
  BY <1>1, StepNext, DistinctAssumption
<1>3. CASE target'[q] = target[q] /\ barred'[q] \subseteq barred[q]
  <2>1. PICK b \in Batch : target[q].batch = b
    BY <1>0, <1>1, <1>2, <1>3, AimType DEF TypeOK, LocalsType, Target
  <2>2. InTable(b)' => InTable(b)
    BY <2>1, NeverStored
  <2>3. InTable(target[q].batch)
    BY <1>1, <1>3, <2>1, <2>2 DEF InTable
  <2> QED
    BY <1>1, <1>2, <1>3, <2>3 DEF IInv, PlainRefusedJobStaysAway, Suggests
<1>4. ASSUME stage[q] = "scoring", barred'[q] \subseteq barred[q], NEW x \in Op,
             view[q][x] # None, target'[q] = [batch |-> target[q].batch, op |-> x]
      PROVE  q \in blind'
  <2>1. PICK b \in Batch : target[q].batch = b
    BY <1>0, <1>4, AimType DEF IInv, StageInv, StageOf, TypeOK, LocalsType
  <2>2. InTable(b)' => InTable(b)
    BY <2>1, NeverStored
  <2>3. x = o /\ target'[q].batch = b
    BY <1>1, <1>4, <2>1
  <2>4. InTable(target[q].batch)
    BY <1>1, <2>1, <2>2, <2>3 DEF InTable
  <2> QED
    BY <1>2, <1>4, <2>3, <2>4 DEF IInv, IgnoreInv
<1> QED
  BY <1>1, <1>2, <1>3, <1>4, StepNext

\* A decision is written for a job of the list, which has only planned ones then.
LEMMA StepView == IInv /\ [Next]_vars => ViewInv'
<1> SUFFICES ASSUME IInv, [Next]_vars, NEW q \in Request
             PROVE  (kind[q] = "next" /\ inserted[q] => IsPlanned(view[q][target[q].op]))'
  BY DEF ViewInv
<1> DEFINE Of == kind[q] = "next" /\ inserted[q] => IsPlanned(view[q][target[q].op])
<1>0. TypeOK /\ StageOf(q) /\ Of
  BY DEF IInv, StageInv, ViewInv
<1> USE DEF TypeOK, ControlType, LocalsType, StageOf, Closing, IsPlanned, GoTo, world, tables,
            locals, ghosts
<1>1. ASSUME NEW r \in Request, Refresh(r) PROVE Of'
  BY <1>1, <1>0, SMTT(20) DEF Refresh
<1>2. ASSUME NEW r \in Request, ListOperations(r) PROVE Of'
  BY <1>2, <1>0, SMTT(20) DEF ListOperations
<1>3. ASSUME NEW r \in Request, BeginBatch(r) PROVE Of'
  BY <1>3, <1>0, SMTT(20) DEF BeginBatch, KeepLoop
<1>4. ASSUME NEW r \in Request, Retire(r) PROVE Of'
  BY <1>4, <1>0, SMTT(20) DEF Retire
<1>5. ASSUME NEW r \in Request, InsertBatch(r) PROVE Of'
  BY <1>5, <1>0, SMTT(20) DEF InsertBatch, YieldLoop
<1>6. ASSUME NEW r \in Request, FetchLatestPlanBatch(r) PROVE Of'
  <2>1. ~inserted[r] /\ inserted' = inserted /\ view' = view /\ kind' = kind
    BY <1>6 DEF FetchLatestPlanBatch, IInv, StageInv
  <2>2. target' = target \/ \E b \in Batch : AimAt(r, b, None)
    BY <1>6 DEF FetchLatestPlanBatch
  <2> QED
    BY <1>0, <2>1, <2>2 DEF AimAt
<1>7. ASSUME NEW r \in Request, ListPlannedJobs(r) PROVE Of'
  <2>1. ~inserted[r]
    BY <1>7 DEF ListPlannedJobs, IInv, StageInv
  <2>2. CASE q = r
    BY <1>7, <1>0, <2>1, <2>2, SMTT(20) DEF ListPlannedJobs, YieldLoop
  <2>3. CASE q # r
    BY <1>7, <1>0, <2>3, SMTT(20) DEF ListPlannedJobs, YieldLoop
  <2> QED
    BY <2>2, <2>3
<1>8. ASSUME NEW r \in Request, Hydrate(r) PROVE Of'
  BY <1>8, <1>0, SMTT(20) DEF Hydrate
<1>9. ASSUME NEW r \in Request, InsertDecision(r) PROVE Of'
  <2>1. PICK o \in Op : view[r][o] # None /\ AimAt(r, target[r].batch, o)
    BY <1>9 DEF InsertDecision
  <2>2. stage[r] = "scoring" /\ view' = view /\ kind' = kind
    BY <1>9 DEF InsertDecision
  <2>3. IsPlanned(view[r][o])
    BY <2>1, <2>2 DEF IInv, IgnoreInv
  <2>4. CASE q = r
    BY <1>0, <2>1, <2>2, <2>3, <2>4 DEF AimAt
  <2>5. CASE q # r
    BY <1>0, <1>9, <2>5, SMTT(20) DEF InsertDecision, AimAt, KeepLoop
  <2> QED
    BY <2>4, <2>5
<1>10. ASSUME NEW r \in Request, MarkDispatched(r) PROVE Of'
  BY <1>10, <1>0, SMTT(20) DEF MarkDispatched, YieldLoop
<1>11. ASSUME NEW r \in Request, Refuse(r) PROVE Of'
  <2>1. kind[r] # "next"
    BY <1>11 DEF Refuse, IInv, StageInv
  <2>2. CASE q = r
    BY <1>11, <1>0, <2>1, <2>2, SMTT(20) DEF Refuse, KeepLoop, AimAt
  <2>3. CASE q # r
    BY <1>11, <1>0, <2>3, SMTT(20) DEF Refuse, KeepLoop, AimAt
  <2> QED
    BY <2>2, <2>3
<1>12. ASSUME NEW r \in Request, MarkSkipped(r) PROVE Of'
  BY <1>12, <1>0, SMTT(20) DEF MarkSkipped, YieldLoop
<1>13. ASSUME NEW r \in Request, SetMachineStatus(r) PROVE Of'
  BY <1>13, <1>0, SMTT(20) DEF SetMachineStatus, KeepLoop
<1>14. ASSUME NEW r \in Request, UpsertMachineStatus(r) PROVE Of'
  BY <1>14, <1>0, SMTT(20) DEF UpsertMachineStatus
<1>15. ASSUME NEW r \in Request, HandOver(r) PROVE Of'
  BY <1>15, <1>0, SMTT(20) DEF HandOver
<1>16. ASSUME NEW r \in Request, Commit(r) PROVE Of'
  BY <1>16, <1>0, SMTT(20) DEF Commit, ReleaseLocks
<1>17. ASSUME NEW r \in Request, CommitFails(r) PROVE Of'
  BY <1>17, <1>0, SMTT(20) DEF CommitFails, ReleaseLocks
<1>18. ASSUME NEW w \in Worker, WorkerDies(w) PROVE Of'
  BY <1>18, <1>0, SMTT(20) DEF WorkerDies
<1>19. ASSUME NEW p \in Op, FinishOperation(p) PROVE Of'
  BY <1>19, <1>0, SMTT(20) DEF FinishOperation
<1>20. ASSUME NEW p \in Op, IgnoreRunsOut(p) PROVE Of'
  BY <1>20, <1>0, SMTT(20) DEF IgnoreRunsOut
<1>21. ASSUME UNCHANGED vars PROVE Of'
  BY <1>0, <1>21 DEF vars
<1>22. ASSUME NEW r \in Request, ListMachineStatus(r) PROVE Of'
  BY <1>22, <1>0, SMTT(20) DEF ListMachineStatus
<1>23. ASSUME NEW r \in Request, Ask(r) PROVE Of'
  BY <1>23, <1>0, SMTT(20) DEF Ask
<1>24. ASSUME NEW r \in Request, ListActiveIgnores(r) PROVE Of'
  <2>1. ~inserted[r]
    BY <1>24 DEF ListActiveIgnores, IInv, StageInv
  <2>2. /\ inserted' = inserted /\ target' = target /\ kind' = kind
        /\ q # r => view'[q] = view[q]
    BY <1>24, <1>0 DEF ListActiveIgnores
  <2> QED
    BY <1>0, <2>1, <2>2
<1>25. ASSUME NEW r \in Request, GetPlannedJob(r) PROVE Of'
  <2>1. kind[r] # "next" /\ kind' = kind /\ view' = view
    BY <1>25 DEF GetPlannedJob, IInv, StageInv
  <2>2. target' = target \/ \E b \in Batch, o \in Op : AimAt(r, b, o)
    BY <1>25 DEF GetPlannedJob
  <2>3. q # r => target'[q] = target[q] /\ inserted'[q] = inserted[q]
    BY <1>25, <1>0, <2>2 DEF GetPlannedJob, AimAt
  <2> QED
    BY <1>0, <2>1, <2>3
<1>26. ASSUME NEW r \in Request, RelistMachines(r) PROVE Of'
  BY <1>26, <1>0, SMTT(20) DEF RelistMachines
<1> QED
  BY <1>1, <1>2, <1>3, <1>4, <1>5, <1>6, <1>7, <1>8, <1>9, <1>10, <1>11, <1>12,
     <1>13, <1>14, <1>15, <1>16, <1>17, <1>18, <1>19, <1>20, <1>21, <1>22, <1>23, <1>24,
     <1>25, <1>26 DEF Next, ServerStep

\* The tables and the requests at the start.
LEMMA InitType == Init => TypeOK
<1> SUFFICES ASSUME Init PROVE TypeOK
  OBVIOUS
<1>1. WorldType
  <2>1. PICK mix \in Mix : kind = mix.kind /\ place = mix.place
    BY DEF Init
  <2>2. [kind |-> kind, place |-> place] = mix
    BY <2>1, MixAssumption
  <2> QED
    BY <2>1, <2>2 DEF Init, WorldType
<1>2. TablesType
  <2>1. Draft(Op, Machine) \in [Op -> Machine \cup {None}]
    BY DraftType
  <2>2. Entries(Draft(Op, Machine)) \in [Op -> Row \cup {None}]
    BY <2>1, EntriesType
  <2>3. NoRows \in Rows /\ FirstPlan \in Batch
    BY DEF NoRows, Rows, Batch
  <2>4. PICK made \in BOOLEAN :
          /\ plan = [NoRows EXCEPT ![FirstPlan] =
                       IF made THEN Entries(Draft(Op, Machine)) ELSE @]
          /\ stamp = [b \in Batch |-> IF made /\ b = FirstPlan THEN 1 ELSE 0]
    BY DEF Init
  <2>5. plan \in Rows
    BY <2>2, <2>3, <2>4 DEF Rows
  <2>6. stamp \in [Batch -> Nat]
    BY <2>4
  <2> QED
    BY <2>5, <2>6 DEF Init, TablesType
<1>3. ControlType
  <2>1. NoRows \in Rows
    BY DEF NoRows, Rows
  <2> QED
    BY <2>1 DEF Init, ControlType, Stage
<1>4. LocalsType
  BY DEF Init, LocalsType, Aim
<1>5. GhostsType
  BY DEF Init, GhostsType
<1> QED
  BY <1>1, <1>2, <1>3, <1>4, <1>5 DEF TypeOK

\* The invariant holds at the start.
LEMMA InitInv == Init => IInv
<1> SUFFICES ASSUME Init PROVE IInv
  OBVIOUS
<1>0. TypeOK
  BY InitType
<1>1. \A r \in Request : ~InTable(r)
  BY DistinctAssumption DEF Init, NoRows, Batch, InTable
<1>2. \A r \in Request, b \in Batch, o \in Op : dirty[r][b][o] = None
  BY DEF Init, NoRows
<1>3. \A b \in Batch, o \in Op : plan[b][o] # None => plan[b][o].status = "planned"
  <2>1. \A d, o : o \in Op => Entries(d)[o] = None \/ Entries(d)[o].status = "planned"
    BY DEF Entries, Planned
  <2>2. PICK made \in BOOLEAN :
          plan = [NoRows EXCEPT ![FirstPlan] = IF made THEN Entries(Draft(Op, Machine)) ELSE @]
    BY DEF Init
  <2>3. ASSUME NEW b \in Batch, NEW o \in Op
        PROVE  plan[b][o] = None \/ plan[b][o] = Entries(Draft(Op, Machine))[o]
    BY <2>2 DEF NoRows
  <2> QED
    BY <2>1, <2>3
<1>4. StageInv
  BY DEF Init, StageInv, StageOf, Nothing, Closing
<1>5. BatchInv
  BY <1>1 DEF Init, BatchInv, Nothing
<1>6. HoldingInv /\ LockInv
  BY <1>2 DEF HoldingInv, NoLocks, LockInv
<1>7. RetiredInv
  BY DEF Init, RetiredInv, RetiredBy
<1>8. DecisionInv
  BY DEF Init, DecisionInv
<1>9. KnownInv /\ IgnoreInv /\ ViewInv
  BY DEF Init, KnownInv, IgnoreInv, ViewInv
<1>10. DispatchedRowsHaveDecisions
  BY <1>3 DEF DispatchedRowsHaveDecisions
<1>11. PlainRefusedJobStaysAway
  BY DEF Init, PlainRefusedJobStaysAway
<1> QED
  BY <1>0, <1>4, <1>5, <1>6, <1>7, <1>8, <1>9, <1>10, <1>11 DEF IInv

\* Every step preserves the invariant.
LEMMA StepInv == IInv /\ [Next]_vars => IInv'
  BY StepType, StepStage, StepBatch, StepHolding, StepLock, StepRetired, StepDecision,
     StepKnown, StepIgnore, StepView, StepDispatched, StepPlain DEF IInv

\* The invariant holds always.
THEOREM Invariance == Spec => []IInv
  BY InitInv, StepInv, PTL DEF Spec

\* Every variable has its type.
THEOREM TypeCorrect == Spec => []TypeOK
<1>1. IInv => TypeOK
  BY DEF IInv
<1> QED
  BY <1>1, Invariance, PTL

\* Every dispatched row of AutopilotPlannedJob names a decision that was stored,
\* for this job or for one of a plan kept in memory.
THEOREM DispatchNamed == Spec => []DispatchedRowsHaveDecisions
<1>1. IInv => DispatchedRowsHaveDecisions
  BY DEF IInv
<1> QED
  BY <1>1, Invariance, PTL

\* A call of /next does not decide for a job that an earlier one decided for and
\* marked.
THEOREM LaterDiffer == Spec => []LaterSuggestionsDiffer
<1>1. IInv => LaterSuggestionsDiffer
  <2> SUFFICES ASSUME IInv, NEW r \in Request, NEW q \in Request, q \in known[r],
                      decision[r] # None, decision[q] = decision[r],
                      InTable(decision[r].batch), q \notin unmarked
               PROVE  FALSE
    BY DEF LaterSuggestionsDiffer
  <2>1. stage[r] = "answered" /\ decision[r] = target[r]
    BY DecisionOf
  <2> QED
    BY <2>1 DEF IInv, KnownInv
<1> QED
  BY <1>1, Invariance, PTL

\* A refused job of a part whose code is its number is not suggested while its
\* ignore runs, if the ignores could be read.
THEOREM RefusedStaysAway == Spec => []PlainRefusedJobStaysAway
<1>1. IInv => PlainRefusedJobStaysAway
  BY DEF IInv
<1> QED
  BY <1>1, Invariance, PTL

\* A refresh that is stored leaves no job planned in the batches it found.
THEOREM RetiredStayDead == Spec => []RetiredPlansStayDead
<1>1. IInv => RetiredPlansStayDead
  <2> SUFFICES ASSUME IInv, NEW r \in Request, InTable(r), NEW b \in retired[r], NEW o \in Op,
                      IsPlanned(plan[b][o])
               PROVE  FALSE
    BY DEF RetiredPlansStayDead
  <2>1. stage[r] = "answered"
    BY NotInTable
  <2> QED
    BY <2>1, RetiredOf
<1> QED
  BY <1>1, Invariance, PTL

\* A dispatched job changes only by a refusal.
LEMMA DispatchIsFinal ==
  ASSUME IInv, [Next]_vars, NEW b \in Batch, NEW o \in Op,
         plan[b][o] # None, plan[b][o].status = "dispatched", plan'[b][o] # plan[b][o]
  PROVE  plan'[b][o] # None /\ plan'[b][o].status \in {"dispatched", "skipped"}
<1>1. PICK r \in Request : Commit(r)
  BY PlanSteps
<1>2. dirty[r][b][o] # None /\ plan'[b][o] = dirty[r][b][o]
  BY <1>1 DEF Commit
<1>3. dirty[r][b][o] \in Row
  BY <1>2 DEF IInv, TypeOK, ControlType, Rows
<1>4. LockOf(r, b, o)
  BY <1>2, Locked
<1>5. dirty[r][b][o].status # "planned" /\ dirty[r][b][o].status # "cancelled"
  BY <1>4 DEF LockOf, IsPlanned
<1> QED
  BY <1>2, <1>3, <1>5 DEF Row

\* A refused or retired job is dispatched only by a call that had listed it as
\* planned, or by a number from memory.
ListedBy(q, b, o) ==
  target[q].batch = b /\ view[q][o] # None /\ view[q][o].status = "planned"

\* A job that was given up is dispatched by a request that had listed it.
LEMMA DispatchedAgain ==
  ASSUME IInv, [Next]_vars, NEW b \in Batch, NEW o \in Op,
         plan[b][o] # None, plan[b][o].status \in {"skipped", "cancelled"},
         plan'[b][o] # None, plan'[b][o].status = "dispatched"
  PROVE  \E q \in Request : /\ plan'[b][o].decision = q
                            /\ ListedBy(q, b, o) \/ ~InTable(target[q].batch)
<1>1. PICK r \in Request : Commit(r)
  BY PlanSteps
<1>2. dirty[r][b][o] # None /\ plan'[b][o] = dirty[r][b][o]
  BY <1>1 DEF Commit
<1>3. LockOf(r, b, o)
  BY <1>2, Locked
<1>4. /\ kind[r] = "next" /\ inserted[r] /\ plan'[b][o].decision = r
      /\ target[r] = [batch |-> b, op |-> o] \/ ~InTable(target[r].batch)
  BY <1>2, <1>3 DEF LockOf
<1>5. IsPlanned(view[r][target[r].op])
  BY <1>4 DEF IInv, ViewInv
<1> QED
  BY <1>4, <1>5 DEF IsPlanned, ListedBy

\* A dispatch is taken back only by a refusal, and no call dispatches again what
\* was refused or retired when it looked.
THEOREM RevivedByOverlap == Spec => OnlyOverlapRevives
<1> DEFINE Step(b, o) ==
      LET old == plan[b][o]  new == plan'[b][o] IN
      old # None =>
        /\ old.status = "dispatched" =>
             new # None /\ new.status \in {"dispatched", "skipped"}
        /\ old.status \in {"skipped", "cancelled"} /\ new # None /\ new.status = "dispatched" =>
             \E q \in Request :
               /\ new.decision = q
               /\ \/ target[q].batch = b /\ view[q][o] # None /\ view[q][o].status = "planned"
                  \/ ~InTable(target[q].batch)
<1>1. IInv /\ [Next]_vars => [\A b \in Batch, o \in Op : Step(b, o)]_plan
  <2> SUFFICES ASSUME IInv, [Next]_vars, NEW b \in Batch, NEW o \in Op, plan[b][o] # None
               PROVE  Step(b, o)
    OBVIOUS
  <2>1. CASE plan[b][o].status = "dispatched"
    BY <2>1, DispatchIsFinal
  <2>2. CASE plan[b][o].status \in {"skipped", "cancelled"}
    BY <2>2, DispatchedAgain DEF ListedBy
  <2> QED
    BY <2>1, <2>2
<1> QED
  BY <1>1, Invariance, PTL DEF Spec, OnlyOverlapRevives

=============================================================================
