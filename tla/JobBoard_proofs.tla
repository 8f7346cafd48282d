-------------------------- MODULE JobBoard_proofs --------------------------
(***************************************************************************)
(* The autopilot's statements, locks and commits implement the board of    *)
(* JobBoard, for every number of requests, workers, operations and         *)
(* machines, every mix of requests and every set of faults.  And when they *)
(* block each other: in rings only, and then for good.                     *)
(***************************************************************************)
EXTENDS Autopilot_proofs

Call(r) == Refresh(r) \/ Ask(r) \/ Refuse(r) \/ SetMachineStatus(r)

-----------------------------------------------------------------------------
(***************************************************************************)
(* What a step leaves alone.                                               *)
(***************************************************************************)
\* The job a refusal marks.
LEMMA MarkTarget ==
  ASSUME IInv, NEW r \in Request, stage[r] = "skipping"
  PROVE  /\ target[r] \in Target /\ target[r].batch \in Batch /\ target[r].op \in Op
         /\ ~FromMemory(r) => plan[target[r].batch][target[r].op] # None
<1>1. target[r] \in Target /\ kind[r] = "refuse"
  BY DEF IInv, StageInv, StageOf
<1>2. target[r] # Nothing
  BY <1>1, DistinctAssumption DEF Target, Nothing
<1> QED
  BY <1>1, <1>2 DEF IInv, BatchInv, Target

\* What a request holds is its own: no step of another request changes it.
LEMMA OthersKeep ==
  ASSUME IInv, NEW r \in Request, Call(r) \/ ServerStep(r), NEW q \in Request, q # r
  PROVE  /\ stage'[q] = stage[q] /\ dirty'[q] = dirty[q] /\ inserted'[q] = inserted[q]
         /\ target'[q] = target[q] /\ given'[q] = given[q] /\ view'[q] = view[q]
         /\ retired'[q] = retired[q]
<1> DEFINE Goal == /\ stage'[q] = stage[q] /\ dirty'[q] = dirty[q] /\ inserted'[q] = inserted[q]
                   /\ target'[q] = target[q] /\ given'[q] = given[q] /\ view'[q] = view[q]
                   /\ retired'[q] = retired[q]
<1>0. TypeOK
  BY DEF IInv
<1> USE <1>0 DEF TypeOK, ControlType, LocalsType, GhostsType, GoTo, AimAt, locals, ghosts
<1>1. CASE Refresh(r) \/ ListOperations(r) \/ ListMachineStatus(r) \/ BeginBatch(r) \/ HandOver(r)
  BY <1>1 DEF Refresh, ListOperations, ListMachineStatus, BeginBatch, HandOver
<1>2. CASE Retire(r) \/ InsertBatch(r)
  BY <1>2 DEF Retire, InsertBatch
<1>3. CASE Ask(r) \/ FetchLatestPlanBatch(r)
  BY <1>3 DEF Ask, FetchLatestPlanBatch
<1>4. CASE ListPlannedJobs(r) \/ Hydrate(r) \/ ListActiveIgnores(r)
  BY <1>4 DEF ListPlannedJobs, Hydrate, ListActiveIgnores
<1>5. CASE InsertDecision(r)
  BY <1>5 DEF InsertDecision
<1>6. CASE MarkDispatched(r) \/ MarkSkipped(r)
  <2>1. dirty'[q] = dirty[q]
    <3>1. dirty[q] \in Rows
      OBVIOUS
    <3>2. ASSUME NEW c \in Batch, NEW p \in Op, NEW x, Write(r, c, p, x) PROVE dirty'[q] = dirty[q]
      BY <3>1, <3>2 DEF Write, Rows
    <3> QED
      BY <1>6, <3>2 DEF MarkDispatched, MarkSkipped
  <2> QED
    BY <1>6, <2>1 DEF MarkDispatched, MarkSkipped
<1>7. CASE Refuse(r) \/ GetPlannedJob(r)
  BY <1>7 DEF Refuse, GetPlannedJob
<1>8. CASE SetMachineStatus(r) \/ UpsertMachineStatus(r) \/ RelistMachines(r)
  BY <1>8 DEF SetMachineStatus, UpsertMachineStatus, RelistMachines
<1>9. CASE Commit(r) \/ CommitFails(r)
  BY <1>9 DEF Commit, CommitFails, ReleaseLocks
<1> QED
  BY <1>1, <1>2, <1>3, <1>4, <1>5, <1>6, <1>7, <1>8, <1>9 DEF Call, ServerStep

\* A request that is closing its session, or inserting its batch, keeps what it
\* is about.
LEMMA ClosingKeeps ==
  ASSUME IInv, [Next]_vars, NEW q \in Request, stage[q] \in {"inserting"} \cup Closing,
         ~InsertBatch(q)
  PROVE  /\ kind' = kind /\ target'[q] = target[q] /\ given'[q] = given[q]
         /\ retired'[q] = retired[q]
<1>1. kind' = kind
  BY StepFrame
<1>2. CASE \E r \in Request \ {q} : Call(r) \/ ServerStep(r)
  BY <1>1, <1>2, OthersKeep
<1>3. CASE Call(q) \/ ServerStep(q)
  <2>1. HandOver(q) \/ Commit(q) \/ CommitFails(q)
    BY <1>3 DEF Call, ServerStep, Closing, Refresh, Ask, Refuse, SetMachineStatus,
       ListOperations, ListMachineStatus, BeginBatch, Retire, FetchLatestPlanBatch,
       ListPlannedJobs, Hydrate, ListActiveIgnores, InsertDecision, MarkDispatched,
       GetPlannedJob, MarkSkipped, UpsertMachineStatus, RelistMachines
  <2> QED
    BY <1>1, <2>1 DEF HandOver, Commit, CommitFails, locals, ghosts
<1>4. CASE \E w \in Worker : WorkerDies(w)
  BY <1>1, <1>4 DEF WorkerDies, locals, ghosts
<1>5. CASE \E o \in Op : FinishOperation(o) \/ IgnoreRunsOut(o)
  BY <1>1, <1>5 DEF FinishOperation, IgnoreRunsOut, locals, ghosts
<1>6. CASE UNCHANGED vars
  BY <1>6 DEF vars
<1> QED
  BY <1>2, <1>3, <1>4, <1>5, <1>6 DEF Next, Call

\* Rows are written by four of the statements only; a session that ends lets go of
\* all it has.
LEMMA WhoWrites ==
  ASSUME IInv, [Next]_vars, NEW q \in Request
  PROVE  \/ dirty'[q] = dirty[q] \/ dirty'[q] = NoRows
         \/ Retire(q) \/ InsertBatch(q) \/ MarkDispatched(q) \/ MarkSkipped(q)
<1>0. TypeOK
  BY DEF IInv
<1>1. CASE \E r \in Request \ {q} : Call(r) \/ ServerStep(r)
  BY <1>1, OthersKeep
<1>2. CASE Call(q)
  BY <1>2 DEF Call, Refresh, Ask, Refuse, SetMachineStatus
<1>3. CASE Commit(q) \/ CommitFails(q)
  BY <1>0, <1>3 DEF Commit, CommitFails, ReleaseLocks, TypeOK, ControlType
<1>4. CASE ServerStep(q)
  BY <1>3, <1>4 DEF ServerStep, ListOperations, ListMachineStatus, BeginBatch,
     FetchLatestPlanBatch, ListPlannedJobs, Hydrate, ListActiveIgnores, InsertDecision,
     GetPlannedJob, UpsertMachineStatus, RelistMachines, HandOver
<1>5. CASE \E w \in Worker : WorkerDies(w)
  BY <1>5 DEF WorkerDies
<1>6. CASE \E o \in Op : FinishOperation(o) \/ IgnoreRunsOut(o)
  BY <1>6 DEF FinishOperation, IgnoreRunsOut
<1>7. CASE UNCHANGED vars
  BY <1>7 DEF vars
<1> QED
  BY <1>1, <1>2, <1>4, <1>5, <1>6, <1>7 DEF Next, Call

\* The row under a lock does not change, except by the commit of who holds it.
LEMMA LockedRowStays ==
  ASSUME IInv, [Next]_vars, NEW q \in Request, ~Commit(q), NEW b \in Batch, NEW o \in Op,
         dirty[q][b][o] # None
  PROVE  plan'[b][o] = plan[b][o]
<1>1. ASSUME NEW r \in Request, Commit(r) PROVE plan'[b][o] = plan[b][o]
  <2>1. LockOf(q, b, o)
    BY Locked
  <2>2. dirty[r][b][o] = None
    BY <1>1, <2>1 DEF LockOf
  <2> QED
    BY <1>1, <2>2 DEF Commit
<1> QED
  BY <1>1, PlanSteps

\* Which statements turn a request to another batch or job, change its list or its
\* decision, and when it is through.
LEMMA WhoChanges ==
  ASSUME IInv, [Next]_vars, NEW q \in Request
  PROVE  /\ given'[q] = given[q] \/ Refuse(q)
         /\ \/ target'[q] = target[q] \/ FetchLatestPlanBatch(q) \/ InsertDecision(q)
            \/ Refuse(q) \/ GetPlannedJob(q)
         /\ view'[q] = view[q] \/ ListPlannedJobs(q) \/ ListActiveIgnores(q)
         /\ retired'[q] = retired[q] \/ Retire(q) \/ InsertBatch(q)
         /\ (stage'[q] = "answered") = (stage[q] = "answered") \/ Commit(q)
         /\ stage'[q] \in {"idle", "asking", "listing"} => stage[q] \in {"idle", "asking", "listing"}
<1>0. TypeOK
  BY DEF IInv
<1> USE <1>0 DEF TypeOK, ControlType, LocalsType, GhostsType, GoTo, AimAt, locals, ghosts
<1>1. CASE \E r \in Request \ {q} : Call(r) \/ ServerStep(r)
  BY <1>1, OthersKeep
<1>2. CASE \/ Refresh(q) \/ ListOperations(q) \/ ListMachineStatus(q) \/ BeginBatch(q)
           \/ Retire(q) \/ InsertBatch(q)
  BY <1>2 DEF Refresh, ListOperations, ListMachineStatus, BeginBatch, Retire, InsertBatch
<1>3. CASE \/ Ask(q) \/ FetchLatestPlanBatch(q) \/ ListPlannedJobs(q) \/ Hydrate(q)
           \/ ListActiveIgnores(q)
  BY <1>3 DEF Ask, FetchLatestPlanBatch, ListPlannedJobs, Hydrate, ListActiveIgnores
<1>4. CASE InsertDecision(q) \/ MarkDispatched(q)
  BY <1>4 DEF InsertDecision, MarkDispatched
<1>5. CASE Refuse(q) \/ GetPlannedJob(q) \/ MarkSkipped(q)
  BY <1>5 DEF Refuse, GetPlannedJob, MarkSkipped
<1>6. CASE SetMachineStatus(q) \/ UpsertMachineStatus(q) \/ RelistMachines(q)
  BY <1>6 DEF SetMachineStatus, UpsertMachineStatus, RelistMachines
<1>7. CASE HandOver(q) \/ Commit(q) \/ CommitFails(q)
  BY <1>7 DEF HandOver, Commit, CommitFails, ReleaseLocks
<1>8. CASE \E w \in Worker : WorkerDies(w)
  BY <1>8 DEF WorkerDies, Ended
<1>9. CASE \E o \in Op : FinishOperation(o) \/ IgnoreRunsOut(o)
  BY <1>9 DEF FinishOperation, IgnoreRunsOut
<1>10. CASE UNCHANGED vars
  BY <1>10 DEF vars
<1> QED
  BY <1>1, <1>2, <1>3, <1>4, <1>5, <1>6, <1>7, <1>8, <1>9, <1>10 DEF Next, Call, ServerStep

\* A row never leaves the table.
LEMMA StepRow ==
  ASSUME IInv, [Next]_vars, NEW b \in Batch, NEW o \in Op, plan[b][o] # None
  PROVE  plan'[b][o] # None
<1>1. ASSUME NEW r \in Request, Commit(r) PROVE plan'[b][o] # None
  BY <1>1 DEF Commit
<1> QED
  BY <1>1, PlanSteps

-----------------------------------------------------------------------------
(***************************************************************************)
(* BoardInv is inductive, given IInv.                                      *)
(***************************************************************************)
\* Every step preserves what is known of the rows that are written.
LEMMA StepWrites ==
  ASSUME IInv, BoardInv, [Next]_vars, NEW q \in Request, NEW b \in Batch, NEW o \in Op,
         dirty'[q][b][o] # None
  PROVE  WriteOf(q, b, o)'
<1>0. TypeOK
  BY DEF IInv
<1>k. kind' = kind
  BY StepFrame
<1>q. q \in Batch
  BY DEF Batch
<1>1. CASE Retire(q)
  <2>1. stage[q] = "retiring" /\ plan' = plan
    BY <1>1 DEF Retire, tables
  <2>2. kind[q] = "refresh" /\ NoLocks(q) /\ plan[q][o] = None
    BY <2>1, NotInTable DEF IInv, StageInv, StageOf, HoldingInv, Closing
  <2>3. /\ dirty'[q][b][o] = IF IsPlanned(plan[b][o]) THEN Cancelled(plan[b][o]) ELSE None
        /\ retired'[q] = {c \in Batch : InTable(c)}
    BY <1>0, <1>1, <2>2 DEF Retire, NoLocks, TypeOK, ControlType, GhostsType
  <2> QED
    BY <1>k, <2>1, <2>2, <2>3 DEF WriteOf, IsPlanned, InTable
<1>2. CASE InsertBatch(q)
  <2>1. stage[q] = "inserting" /\ plan' = plan
    BY <1>2 DEF InsertBatch, tables
  <2>2. kind[q] = "refresh"
    BY <2>1 DEF IInv, StageInv, StageOf
  <2>3. /\ dirty'[q][b] = IF b = q THEN Entries(draft[q]) ELSE dirty[q][b]
        /\ retired' = retired
    BY <1>0, <1>2 DEF InsertBatch, TypeOK, ControlType, NoRows
  <2>4. CASE b = q
    BY <1>0, <1>k, <2>2, <2>3, <2>4 DEF WriteOf, Entries, TypeOK, LocalsType
  <2>5. CASE b # q
    <3>1. WriteOf(q, b, o)
      BY <2>3, <2>5 DEF BoardInv
    <3> QED
      BY <1>k, <2>1, <2>2, <2>3, <2>5, <3>1 DEF WriteOf
  <2> QED
    BY <2>4, <2>5
<1>3. CASE MarkDispatched(q)
  <2>1. stage[q] = "marking" /\ plan' = plan
    BY <1>3 DEF MarkDispatched, tables
  <2>2. kind[q] = "next" /\ NoLocks(q)
    BY <2>1 DEF IInv, StageInv, StageOf, HoldingInv, Closing
  <2>3. PICK c \in Batch, p \in Op : Write(q, c, p, Dispatched(plan[c][p], q))
    BY <1>3, <2>2 DEF MarkDispatched, NoLocks
  <2>4. \A d \in Batch, x \in Op : dirty'[q][d][x] # None => d = c /\ x = p
    BY <2>2, <2>3 DEF Write, NoLocks
  <2>5. dirty'[q][c][p] = Dispatched(plan[c][p], q)
    BY <2>3 DEF Write
  <2> QED
    BY <1>k, <2>1, <2>2, <2>4, <2>5 DEF WriteOf
<1>4. CASE MarkSkipped(q)
  <2>1. stage[q] = "skipping" /\ plan' = plan /\ target' = target /\ given' = given
    BY <1>4 DEF MarkSkipped, tables, locals
  <2>2. kind[q] = "refuse" /\ NoLocks(q)
    BY <2>1 DEF IInv, StageInv, StageOf, HoldingInv, Closing
  <2>3. PICK c \in Batch, p \in Op :
          JobRow(q, c, p) /\ Write(q, c, p, Skipped(plan[c][p], given[q]))
    BY <1>4, <2>2 DEF MarkSkipped, NoLocks
  <2>4. \A d \in Batch, x \in Op : dirty'[q][d][x] # None => d = c /\ x = p
    BY <2>2, <2>3 DEF Write, NoLocks
  <2>5. dirty'[q][c][p] = Skipped(plan[c][p], given[q]) /\ b = c /\ o = p
    BY <2>3, <2>4 DEF Write
  <2>6. /\ target'[q] \in Target
        /\ target'[q] = [batch |-> b, op |-> o] \/ FromMemory(q)'
    BY <2>1, <2>3, <2>5, MarkTarget DEF JobRow, FromMemory, InTable
  <2> QED
    BY <1>k, <2>1, <2>2, <2>4, <2>5, <2>6 DEF WriteOf
<1>5. CASE dirty'[q] = dirty[q] /\ ~InsertBatch(q)
  <2>1. dirty[q][b][o] # None /\ WriteOf(q, b, o)
    BY <1>5 DEF BoardInv
  <2>2. stage[q] \in {"inserting"} \cup Closing
    BY <2>1 DEF IInv, HoldingInv, NoLocks
  <2>3. ~Commit(q)
    BY <1>0, <1>5, <2>1 DEF Commit, ReleaseLocks, NoRows, TypeOK, ControlType
  <2>4. /\ plan'[b][o] = plan[b][o] /\ target'[q] = target[q] /\ given'[q] = given[q]
        /\ retired'[q] = retired[q]
    BY <1>5, <2>1, <2>2, <2>3, LockedRowStays, ClosingKeeps
  <2>5. kind[q] = "refuse" /\ FromMemory(q) => FromMemory(q)'
    <3> SUFFICES ASSUME kind[q] = "refuse", FromMemory(q) PROVE FromMemory(q)'
      OBVIOUS
    <3>1. PICK c \in Batch : c = target[q].batch
      BY <2>1 DEF WriteOf, Target
    <3>2. ~InTable(c)'
      BY <3>1, NeverStored DEF FromMemory
    <3> QED
      BY <2>4, <3>1, <3>2 DEF FromMemory, InTable
  <2>6. CASE kind[q] = "refuse"
    <3>1. /\ dirty[q][b][o] = Skipped(plan[b][o], given[q]) /\ target[q] \in Target
          /\ target[q] = [batch |-> b, op |-> o] \/ FromMemory(q)
          /\ \A c \in Batch, p \in Op : dirty[q][c][p] # None => c = b /\ p = o
      BY <2>1, <2>6 DEF WriteOf
    <3>2. /\ dirty'[q][b][o] = Skipped(plan'[b][o], given'[q]) /\ target'[q] \in Target
          /\ target'[q] = [batch |-> b, op |-> o] \/ FromMemory(q)'
          /\ \A c \in Batch, p \in Op : dirty'[q][c][p] # None => c = b /\ p = o
      BY <1>5, <2>4, <2>5, <2>6, <3>1
    <3> QED
      BY <1>k, <2>6, <3>2 DEF WriteOf
  <2>7. CASE kind[q] = "refresh"
    BY <1>k, <1>5, <2>1, <2>4, <2>7 DEF WriteOf
  <2>8. CASE kind[q] = "next"
    BY <1>k, <1>5, <2>1, <2>4, <2>8 DEF WriteOf
  <2>9. kind[q] \in Kind /\ kind[q] # "status"
    BY <1>0, <2>1, PlaceType DEF WriteOf
  <2> QED
    BY <2>6, <2>7, <2>8, <2>9 DEF Kind
<1> QED
  BY <1>1, <1>2, <1>3, <1>4, <1>5, WhoWrites DEF NoRows

\* The decision that a refusal names was made.
LEMMA StepGiven ==
  ASSUME IInv, BoardInv, [Next]_vars, NEW q \in Request, given'[q] # None
  PROVE  decision'[given'[q]] # None
<1>0. TypeOK
  BY DEF IInv
<1>1. CASE given'[q] = given[q]
  <2>1. given[q] \in Request /\ decision[given[q]] # None
    BY <1>0, <1>1 DEF BoardInv, TypeOK, LocalsType
  <2> QED
    BY <1>1, <2>1, StepDecided
<1>2. CASE Refuse(q)
  <2>1. decision' = decision
    BY <1>2 DEF Refuse, tables
  <2>2. PICK d \in {None} \cup {p \in Request : decision[p] # None} :
          given' = [given EXCEPT ![q] = d]
    BY <1>2 DEF Refuse
  <2> QED
    BY <1>0, <2>1, <2>2 DEF TypeOK, LocalsType
<1> QED
  BY <1>1, <1>2, WhoChanges

\* A suggestion has no list before it has listed the jobs.
LEMMA StepUnlisted ==
  ASSUME IInv, BoardInv, [Next]_vars, NEW q \in Request, kind[q] = "next",
         stage'[q] \in {"idle", "asking", "listing"}, NEW o \in Op
  PROVE  view'[q][o] = None
<1>0. TypeOK
  BY DEF IInv
<1>1. stage[q] \in {"idle", "asking", "listing"}
  BY WhoChanges
<1>2. ~ListPlannedJobs(q) /\ ~ListActiveIgnores(q)
  BY <1>0, <1>1 DEF ListPlannedJobs, ListActiveIgnores, GoTo, TypeOK, ControlType
<1> QED
  BY <1>1, <1>2, WhoChanges DEF BoardInv

\* Every step preserves what is known of open sessions.
LEMMA StepBoard == IInv /\ BoardInv /\ [Next]_vars => BoardInv'
<1> SUFFICES ASSUME IInv, BoardInv, [Next]_vars, NEW q \in Request
             PROVE  /\ \A b \in Batch, o \in Op : dirty'[q][b][o] # None => WriteOf(q, b, o)'
                    /\ given'[q] # None => decision'[given'[q]] # None
                    /\ kind'[q] = "next" /\ stage'[q] \in {"idle", "asking", "listing"} =>
                         \A o \in Op : view'[q][o] = None
  BY DEF BoardInv
<1>1. kind' = kind
  BY StepFrame
<1> QED
  BY <1>1, StepWrites, StepGiven, StepUnlisted

\* What an open session has written is known exactly, in every reachable state.
THEOREM BoardInvariance == Spec => []BoardInv
<1>1. Init => BoardInv
  BY DEF Init, BoardInv, NoRows
<1> QED
  BY <1>1, StepBoard, Invariance, PTL DEF Spec

-----------------------------------------------------------------------------
(***************************************************************************)
(* The refinement, step by step.                                           *)
(***************************************************************************)
\* What is on offer to a request changes only when it lists and filters the jobs.
LEMMA OfferKept ==
  ASSUME IInv, BoardInv, [Next]_vars, NEW q \in Request, ~ListPlannedJobs(q), ~ListActiveIgnores(q)
  PROVE  OnOffer(q)' = OnOffer(q)
<1>0. TypeOK /\ StageOf(q)
  BY DEF IInv, StageInv
<1>1. kind' = kind /\ view'[q] = view[q]
  BY StepFrame, WhoChanges
<1>2. CASE kind[q] # "next"
  BY <1>1, <1>2 DEF OnOffer
<1>3. CASE kind[q] = "next" /\ target'[q].batch = target[q].batch
  BY <1>1, <1>3 DEF OnOffer
<1>4. CASE kind[q] = "next" /\ FetchLatestPlanBatch(q)
  <2>1. \A o \in Op : view[q][o] = None
    BY <1>4 DEF BoardInv, FetchLatestPlanBatch
  <2> QED
    BY <1>1, <2>1 DEF OnOffer, IsPlanned, Target
<1>5. CASE InsertDecision(q)
  BY <1>0, <1>3, <1>5 DEF InsertDecision, AimAt, TypeOK, LocalsType, StageOf
<1> QED
  BY <1>0, <1>2, <1>3, <1>4, <1>5, WhoChanges DEF Refuse, GetPlannedJob, StageOf

\* The tables change by commits and by ignores that run out.
LEMMA TableSteps ==
  ASSUME [Next]_vars, ~\E r \in Request : Commit(r)
  PROVE  /\ plan' = plan /\ decision' = decision /\ up' = up
         /\ ignores' = ignores \/ \E o \in Op : IgnoreRunsOut(o)
<1> USE DEF tables
<1>1. plan' = plan /\ decision' = decision
  BY PlanSteps
<1>2. CASE \E r \in Request : Call(r)
  BY <1>1, <1>2 DEF Call, Refresh, Ask, Refuse, SetMachineStatus
<1>3. CASE \E r \in Request : ServerStep(r)
  BY <1>1, <1>3 DEF ServerStep, ListOperations, ListMachineStatus, BeginBatch, Retire,
     InsertBatch, FetchLatestPlanBatch, ListPlannedJobs, Hydrate, ListActiveIgnores,
     InsertDecision, MarkDispatched, GetPlannedJob, MarkSkipped, UpsertMachineStatus,
     RelistMachines, HandOver, CommitFails
<1>4. CASE \E w \in Worker : WorkerDies(w)
  BY <1>1, <1>4 DEF WorkerDies
<1>5. CASE \E o \in Op : FinishOperation(o) \/ IgnoreRunsOut(o)
  BY <1>1, <1>5 DEF FinishOperation, IgnoreRunsOut
<1> QED
  BY <1>1, <1>2, <1>3, <1>4, <1>5 DEF Next, Call, vars

\* Most statements show nothing of what they do.
LEMMA Unseen ==
  ASSUME IInv, BoardInv, [Next]_vars,
         \A r \in Request : /\ ~Commit(r) /\ ~Retire(r) /\ ~InsertBatch(r)
                            /\ ~ListPlannedJobs(r) /\ ~ListActiveIgnores(r),
         ~\E o \in Op : IgnoreRunsOut(o)
  PROVE  UNCHANGED Board!vars
<1>1. plan' = plan /\ decision' = decision /\ up' = up /\ ignores' = ignores
  BY TableSteps
<1>2. \A q \in Request : OnOffer(q)' = OnOffer(q)
  BY OfferKept
<1>3. \A q \in Request : retired'[q] = retired[q]
                         /\ (stage'[q] = "answered") = (stage[q] = "answered")
  BY WhoChanges
<1>4. retired' = retired
  BY <1>3, StepType DEF IInv, TypeOK, GhostsType
<1> QED
  BY <1>1, <1>2, <1>3, <1>4 DEF Board!vars

\* What the statements leave alone that show on the board and do not commit.
LEMMA OneAtATime ==
  ASSUME IInv, [Next]_vars, NEW r \in Request,
         Retire(r) \/ InsertBatch(r) \/ ListPlannedJobs(r) \/ ListActiveIgnores(r)
  PROVE  /\ UNCHANGED <<plan, decision, ignores, up>>
         /\ stage[r] # "answered"
         /\ {q \in Request : stage'[q] = "answered"} = {q \in Request : stage[q] = "answered"}
         /\ \A q \in Request \ {r} : OnOffer(q)' = OnOffer(q) /\ retired'[q] = retired[q]
<1>0. TypeOK
  BY DEF IInv
<1>1. UNCHANGED <<plan, decision, ignores, up>> /\ stage[r] # "answered" /\ stage'[r] # "answered"
  BY <1>0 DEF Retire, InsertBatch, ListPlannedJobs, ListActiveIgnores, tables, GoTo, TypeOK,
     ControlType
<1>2. ASSUME NEW q \in Request, q # r
      PROVE  /\ stage'[q] = stage[q] /\ view'[q] = view[q] /\ target'[q] = target[q]
             /\ retired'[q] = retired[q] /\ kind'[q] = kind[q]
  BY <1>2, OthersKeep, StepFrame DEF ServerStep
<1> QED
  BY <1>1, <1>2 DEF OnOffer

\* A refresh looks at the plans when it retires them.
LEMMA RetireSurveys ==
  ASSUME IInv, [Next]_vars, NEW r \in Request, Retire(r)
  PROVE  Board!Survey(r) \/ UNCHANGED Board!vars
<1>0. TypeOK /\ TypeOK'
  BY StepType DEF IInv
<1>1. retired[r] = {}
  BY RetiredOf DEF Retire, Closing, Ended
<1>2. OnOffer(r)' = OnOffer(r)
  BY StepFrame DEF OnOffer, Retire, locals
<1>3. \/ retired' = retired
      \/ retired' = [retired EXCEPT ![r] = {b \in Batch : InTable(b)}]
  BY DEF Retire
<1> QED
  BY <1>1, <1>2, <1>3, OneAtATime DEF Board!Survey, Board!vars, Board!OnBoard, InTable

\* A refresh whose INSERT fails forgets them.
LEMMA InsertAbandons ==
  ASSUME IInv, [Next]_vars, NEW r \in Request, InsertBatch(r)
  PROVE  Board!Abandon(r) \/ UNCHANGED Board!vars
<1>1. OnOffer(r)' = OnOffer(r)
  BY StepFrame DEF OnOffer, InsertBatch, locals
<1>2. retired' = retired \/ retired' = [retired EXCEPT ![r] = {}]
  BY DEF InsertBatch
<1> QED
  BY <1>1, <1>2, OneAtATime DEF Board!Abandon, Board!vars

\* Jobs that are listed were planned, or their plan was never stored.
LEMMA ListLooks ==
  ASSUME IInv, BoardInv, [Next]_vars, NEW r \in Request, ListPlannedJobs(r)
  PROVE  Board!Look(r)
<1>0. TypeOK /\ StageOf(r)
  BY DEF IInv, StageInv
<1>1. /\ stage[r] = "listing" /\ target' = target /\ retired' = retired /\ kind' = kind
  BY DEF ListPlannedJobs, ghosts, world
<1>2. kind[r] = "next" /\ target[r].batch \in Batch /\ \A o \in Op : view[r][o] = None
  BY <1>0, <1>1, AimType DEF StageOf, BoardInv, TypeOK, LocalsType
<1>3. PICK b \in Batch : b = target[r].batch
  BY <1>2
<1> DEFINE S == {o \in Op : IsPlanned(view'[r][o])}
<1>4. OnOffer(r) = {} /\ OnOffer(r)' = {[batch |-> b, op |-> o] : o \in S}
  BY <1>1, <1>2, <1>3 DEF OnOffer, IsPlanned, Target
<1>5. S \in SUBSET {o \in Op : Board!IsPlanned(b, o) \/ ~Board!OnBoard(b)}
  <2>1. \/ view'[r] = plan[b]
        \/ InTable(b) /\ \A o \in Op : view'[r][o] = None
        \/ ~InTable(b)
    BY <1>0, <1>3 DEF ListPlannedJobs, FromMemory, TypeOK, LocalsType
  <2> QED
    BY <2>1 DEF IsPlanned, InTable, Board!IsPlanned, Board!OnBoard
<1> DEFINE Offers == [q \in Request |-> OnOffer(q)]
<1>6. Offers' = [Offers EXCEPT ![r] = {[batch |-> b, op |-> o] : o \in S}]
  BY <1>4, OneAtATime
<1> QED
  BY <1>1, <1>4, <1>5, <1>6, OneAtATime DEF Board!Look

\* The ignores take jobs out of the list and add none.
LEMMA IgnoresLeaveOut ==
  ASSUME IInv, [Next]_vars, NEW r \in Request, ListActiveIgnores(r)
  PROVE  Board!LeaveOut(r)
<1>0. TypeOK
  BY DEF IInv
<1>1. target' = target /\ retired' = retired /\ kind' = kind
  BY DEF ListActiveIgnores, world
<1>2. \A o \in Op : view'[r][o] = view[r][o] \/ view'[r][o] = None
  BY <1>0 DEF ListActiveIgnores, TypeOK, LocalsType
<1>3. OnOffer(r)' \in SUBSET OnOffer(r)
  BY <1>1, <1>2 DEF OnOffer, IsPlanned, Target
<1> QED
  BY <1>1, <1>3, OneAtATime DEF Board!LeaveOut

\* What a request of each kind has written.
LEMMA WriteIs ==
  ASSUME BoardInv, NEW r \in Request, NEW b \in Batch, NEW o \in Op, dirty[r][b][o] # None
  PROVE  /\ kind[r] = "refresh" /\ b = r => \E m \in Machine : dirty[r][b][o] = Planned(m)
         /\ kind[r] = "refresh" /\ b # r =>
              b \in retired[r] /\ dirty[r][b][o] = Cancelled(plan[b][o])
         /\ kind[r] = "next" => dirty[r][b][o] = Dispatched(plan[b][o], r)
         /\ kind[r] = "refuse" => dirty[r][b][o] = Skipped(plan[b][o], given[r])
         /\ kind[r] # "status"
<1>1. WriteOf(r, b, o)
  BY DEF BoardInv
<1> QED
  BY <1>1 DEF WriteOf

\* A commit ends its request and changes no more than its tables.
LEMMA CommitFinishes ==
  ASSUME IInv, BoardInv, [Next]_vars, NEW r \in Request, Commit(r)
  PROVE  /\ stage[r] = "committing"
         /\ {q \in Request : stage'[q] = "answered"} =
              {q \in Request : stage[q] = "answered"} \cup {r}
         /\ [q \in Request |-> OnOffer(q)]' = [q \in Request |-> OnOffer(q)]
         /\ retired' = retired
         /\ plan \in Rows /\ plan' \in Rows
         /\ \A b \in Batch, o \in Op :
              plan'[b][o] = IF dirty[r][b][o] # None THEN dirty[r][b][o] ELSE plan[b][o]
<1>0. TypeOK /\ TypeOK'
  BY StepType DEF IInv
<1>1. stage[r] = "committing" /\ stage' = [stage EXCEPT ![r] = "answered"] /\ retired' = retired
  BY DEF Commit, GoTo, ghosts
<1>2. \A q \in Request : OnOffer(q)' = OnOffer(q)
  BY StepFrame DEF Commit, locals, OnOffer
<1> QED
  BY <1>0, <1>1, <1>2 DEF Commit, TypeOK, ControlType, TablesType

\* A refresh publishes its plan in the place of those it has retired.
LEMMA CommitPublishes ==
  ASSUME IInv, BoardInv, [Next]_vars, NEW r \in Request, Commit(r), kind[r] = "refresh"
  PROVE  Board!Publish(r)
<1>0. TypeOK /\ r \in Batch
  BY DEF IInv, Batch
<1>1. decision' = decision /\ ignores' = ignores /\ up' = up
  BY DEF Commit
<1>2. ~InTable(r) /\ \A o \in Op : plan[r][o] = None
  BY CommitFinishes, NotInTable
<1> DEFINE new == [o \in Op |-> dirty[r][r][o]]
<1>3. new \in [Op -> Board!PlannedRow \cup {None}]
  <2>1. ASSUME NEW o \in Op, dirty[r][r][o] # None PROVE dirty[r][r][o] \in Board!PlannedRow
    <3>1. PICK m \in Machine : dirty[r][r][o] = Planned(m)
      BY <1>0, <2>1, WriteIs
    <3> QED
      BY <3>1 DEF Planned, Board!PlannedRow
  <2> QED
    BY <2>1
<1>4. ASSUME NEW b \in Batch, NEW o \in Op, b # r
      PROVE  plan'[b][o] = IF b \in retired[r] /\ IsPlanned(plan[b][o])
                           THEN Cancelled(plan[b][o]) ELSE plan[b][o]
  <2>1. CASE dirty[r][b][o] # None
    <3>1. b \in retired[r] /\ dirty[r][b][o] = Cancelled(plan[b][o])
      BY <1>4, <2>1, WriteIs
    <3>2. plan[b][o] # None /\ plan[b][o] \in Row
      <4>1. LockOf(r, b, o)
        BY <2>1, Locked
      <4> QED
        BY <1>0, <1>4, <4>1 DEF LockOf, TypeOK, TablesType, Rows
    <3>3. IsPlanned(plan[b][o])
      BY <2>1, <3>1, <3>2, Locked DEF LockOf, Cancelled, Row
    <3> QED
      BY <2>1, <3>1, <3>3, CommitFinishes
  <2>2. CASE dirty[r][b][o] = None
    <3>1. ~(b \in retired[r] /\ IsPlanned(plan[b][o]))
      BY <2>2, CommitFinishes, RetiredOf DEF Closing
    <3> QED
      BY <2>2, <3>1, CommitFinishes
  <2> QED
    BY <2>1, <2>2
<1>5. plan' = [b \in Batch |-> [o \in Op |->
                 IF b = r THEN new[o]
                 ELSE IF b \in retired[r] /\ Board!IsPlanned(b, o) THEN Board!Cancelled(plan[b][o])
                 ELSE plan[b][o]]]
  <2>1. \A b \in Batch, o \in Op :
          plan'[b][o] = IF b = r THEN new[o]
                        ELSE IF b \in retired[r] /\ Board!IsPlanned(b, o)
                             THEN Board!Cancelled(plan[b][o])
                        ELSE plan[b][o]
    BY <1>2, <1>4, CommitFinishes DEF IsPlanned, Cancelled, Board!IsPlanned, Board!Cancelled
  <2> QED
    BY <2>1, CommitFinishes DEF Rows
<1> QED
  BY <1>0, <1>1, <1>2, <1>3, <1>5, CommitFinishes
     DEF Board!Publish, Board!Finish, Board!OnBoard, InTable

\* The tables after one row has been written.
LEMMA OneRow ==
  ASSUME IInv, BoardInv, [Next]_vars, NEW r \in Request, Commit(r), NEW b \in Batch, NEW o \in Op,
         dirty[r][b][o] # None,
         \A c \in Batch, p \in Op : dirty[r][c][p] # None => c = b /\ p = o
  PROVE  Board!Put(b, o, dirty[r][b][o])
<1>1. \A c \in Batch, p \in Op :
        plan'[c][p] = IF c = b /\ p = o THEN dirty[r][b][o] ELSE plan[c][p]
  BY CommitFinishes
<1> QED
  BY <1>1, CommitFinishes DEF Rows, Board!Put

\* A request that has locked no row leaves the rows as they are.
LEMMA NoRow ==
  ASSUME IInv, BoardInv, [Next]_vars, NEW r \in Request, Commit(r), NoLocks(r)
  PROVE  plan' = plan
  BY CommitFinishes DEF NoLocks, Rows

\* A suggestion hands out a job that was on offer to it.
LEMMA CommitHandsOut ==
  ASSUME IInv, BoardInv, [Next]_vars, NEW r \in Request, Commit(r), kind[r] = "next"
  PROVE  Board!HandOut(r) \/ Board!ChangeNothing(r)
<1>0. TypeOK /\ StageOf(r)
  BY DEF IInv, StageInv
<1>1. ignores' = ignores /\ up' = up
  BY DEF Commit
<1>2. ASSUME NEW b \in Batch, NEW o \in Op, dirty[r][b][o] # None
      PROVE  /\ plan[b][o] # None /\ dirty[r][b][o] = Dispatched(plan[b][o], r) /\ inserted[r]
             /\ InTable(target[r].batch) => target[r] = [batch |-> b, op |-> o]
             /\ Board!Put(b, o, dirty[r][b][o])
  <2>1. LockOf(r, b, o) /\ WriteOf(r, b, o)
    BY <1>2, Locked DEF BoardInv
  <2>2. plan[b][o] # None /\ dirty[r][b][o] = Dispatched(plan[b][o], r)
    BY <2>1 DEF LockOf, WriteOf
  <2>3. plan[b][o] \in Row
    BY <1>0, <2>2 DEF TypeOK, TablesType, Rows
  <2>4. dirty[r][b][o].status = "dispatched"
    BY <2>2, <2>3 DEF Dispatched, Row
  <2>5. Board!Put(b, o, dirty[r][b][o])
    BY <1>2, <2>1, OneRow DEF WriteOf
  <2> QED
    BY <2>1, <2>2, <2>4, <2>5 DEF LockOf
<1>3. CASE ~inserted[r]
  <2>1. plan' = plan
    BY <1>2, <1>3, NoRow DEF NoLocks
  <2>2. decision' = decision
    BY <1>3 DEF Commit
  <2> QED
    BY <1>1, <2>1, <2>2, CommitFinishes DEF Board!ChangeNothing, Board!Finish
<1>4. CASE inserted[r]
  <2>1. decision' = [decision EXCEPT ![r] = target[r]]
    BY <1>4 DEF Commit
  <2>2. target[r] \in OnOffer(r)
    BY <1>0, <1>4 DEF StageOf, OnOffer, IInv, ViewInv
  <2>3. \/ plan' = plan
        \/ \E b \in Batch, o \in Op :
             /\ Board!OnBoard(target[r].batch) => target[r] = [batch |-> b, op |-> o]
             /\ Board!Mark(r, b, o)
    <3>1. CASE NoLocks(r)
      BY <3>1, NoRow
    <3>2. CASE ~NoLocks(r)
      <4>1. PICK b \in Batch, o \in Op : dirty[r][b][o] # None
        BY <3>2 DEF NoLocks
      <4>2. /\ plan[b][o] # None /\ Board!Put(b, o, dirty[r][b][o])
            /\ dirty[r][b][o] = Dispatched(plan[b][o], r)
        BY <1>2, <4>1
      <4>3. Board!Put(b, o, Dispatched(plan[b][o], r))
        BY <4>2
      <4>4. Board!Mark(r, b, o)
        BY <4>2, <4>3 DEF Board!Mark, Dispatched
      <4>5. Board!OnBoard(target[r].batch) => target[r] = [batch |-> b, op |-> o]
        BY <1>2, <4>1 DEF Board!OnBoard, InTable
      <4> QED
        BY <4>4, <4>5
    <3> QED
      BY <3>1, <3>2
  <2> QED
    BY <1>1, <2>1, <2>2, <2>3, CommitFinishes DEF Board!HandOut, Board!Finish
<1> QED
  BY <1>3, <1>4

\* A refusal gives up a job that is in the table, if not always the one it names.
LEMMA CommitGivesUp ==
  ASSUME IInv, BoardInv, [Next]_vars, NEW r \in Request, Commit(r), kind[r] = "refuse"
  PROVE  Board!GiveUp(r) \/ Board!ChangeNothing(r)
<1>0. TypeOK /\ StageOf(r)
  BY DEF IInv, StageInv
<1>1. /\ decision' = decision /\ up' = up
      /\ ignores' = IF inserted[r] /\ ~FromMemory(r)
                    THEN ignores \cup {target[r].op} ELSE ignores
  BY DEF Commit
<1>2. ASSUME NEW b \in Batch, NEW o \in Op, dirty[r][b][o] # None
      PROVE  /\ target[r] = [batch |-> b, op |-> o] \/ FromMemory(r)
             /\ plan[b][o] # None /\ Board!Skip(b, o, given[r])
  <2>1. LockOf(r, b, o) /\ WriteOf(r, b, o)
    BY <1>2, Locked DEF BoardInv
  <2>2. Board!Put(b, o, dirty[r][b][o])
    BY <1>2, <2>1, OneRow DEF WriteOf
  <2>3. Board!Skip(b, o, given[r])
    BY <1>2, <2>2, WriteIs DEF Skipped, Board!Skip
  <2> QED
    BY <2>1, <2>3 DEF LockOf, WriteOf
<1>3. given[r] \in {None} \cup {q \in Request : decision[q] # None}
  BY <1>0 DEF BoardInv, TypeOK, LocalsType
<1>4. CASE NoLocks(r) /\ ~(inserted[r] /\ ~FromMemory(r))
  BY <1>1, <1>4, NoRow, CommitFinishes DEF Board!ChangeNothing, Board!Finish
<1>5. CASE NoLocks(r) /\ inserted[r] /\ ~FromMemory(r)
  <2>1. PICK b \in Batch, o \in Op : target[r] = [batch |-> b, op |-> o]
    BY <1>0, <1>5 DEF StageOf, Target
  <2>2. plan[b][o] # None
    BY <1>5, <2>1, DistinctAssumption DEF IInv, BatchInv, Nothing
  <2>3. ignores' \in {ignores, ignores \cup {o}} /\ plan' = plan
    BY <1>1, <1>5, <2>1, NoRow
  <2> QED
    BY <1>1, <2>2, <2>3, CommitFinishes DEF Board!GiveUp, Board!Finish
<1>6. CASE ~NoLocks(r)
  <2>1. PICK b \in Batch, o \in Op : dirty[r][b][o] # None
    BY <1>6 DEF NoLocks
  <2>2. /\ target[r] = [batch |-> b, op |-> o] \/ FromMemory(r)
        /\ plan[b][o] # None /\ Board!Skip(b, o, given[r])
    BY <1>2, <2>1
  <2>3. ignores' \in {ignores, ignores \cup {o}}
    BY <1>1, <2>2
  <2> QED
    BY <1>1, <1>3, <2>2, <2>3, CommitFinishes DEF Board!GiveUp, Board!Finish
<1> QED
  BY <1>4, <1>5, <1>6

\* A change of a machine's status touches nothing else.
LEMMA CommitSetsMachine ==
  ASSUME IInv, BoardInv, [Next]_vars, NEW r \in Request, Commit(r), kind[r] = "status"
  PROVE  Board!SetMachine(r) \/ Board!ChangeNothing(r)
<1>0. TypeOK /\ StageOf(r)
  BY DEF IInv, StageInv
<1>1. NoLocks(r)
  BY WriteIs DEF NoLocks
<1>2. plan' = plan /\ decision' = decision /\ ignores' = ignores
  BY <1>1, NoRow DEF Commit
<1>3. CASE ~inserted[r]
  BY <1>2, <1>3, CommitFinishes DEF Commit, Board!ChangeNothing, Board!Finish
<1>4. CASE inserted[r]
  <2>1. setting[r].machine \in Machine /\ setting[r].up \in BOOLEAN
    BY <1>0, <1>4 DEF StageOf, TypeOK, LocalsType, Setting
  <2>2. up' = [up EXCEPT ![setting[r].machine] = setting[r].up]
    BY <1>4 DEF Commit
  <2> QED
    BY <1>2, <2>1, <2>2, CommitFinishes DEF Board!SetMachine, Board!Finish
<1> QED
  BY <1>3, <1>4

\* The tables at the start: at most one plan, all of it planned.
LEMMA InitBoard == Init => Board!Init
<1> SUFFICES ASSUME Init PROVE Board!Init
  OBVIOUS
<1>1. Draft(Op, Machine) \in [Op -> Machine \cup {None}]
  BY DraftType
<1>2. Entries(Draft(Op, Machine)) \in [Op -> Board!PlannedRow \cup {None}]
  BY <1>1 DEF Entries, Planned, Board!PlannedRow
<1>3. NoRows \in [Batch -> [Op -> Board!PlannedRow \cup {None}]]
  BY DEF NoRows
<1>4. /\ plan \in [Batch -> [Op -> Board!PlannedRow \cup {None}]]
      /\ \A r \in Request, o \in Op : plan[r][o] = None
  BY <1>2, <1>3, DistinctAssumption DEF Init, NoRows, Batch
<1>5. \A r \in Request : OnOffer(r) = {}
  BY DEF Init, OnOffer, IsPlanned, Target
<1>6. {r \in Request : stage[r] = "answered"} = {}
  BY DEF Init
<1> QED
  BY <1>4, <1>5, <1>6 DEF Init, Board!Init, Board!OnBoard

\* Every step of the endpoints is a step of the board, or shows nothing.
LEMMA StepKeepsBoard ==
  ASSUME IInv, BoardInv, [Next]_vars
  PROVE  [Board!Next]_(Board!vars)
<1>1. ASSUME NEW r \in Request, Commit(r) PROVE Board!Next
  <2>1. kind[r] \in Kind
    BY PlaceType DEF IInv
  <2> QED
    BY <1>1, <2>1, CommitPublishes, CommitHandsOut, CommitGivesUp, CommitSetsMachine
       DEF Kind, Board!Next
<1>2. ASSUME NEW r \in Request, Retire(r) PROVE [Board!Next]_(Board!vars)
  BY <1>2, RetireSurveys DEF Board!Next
<1>3. ASSUME NEW r \in Request, InsertBatch(r) PROVE [Board!Next]_(Board!vars)
  BY <1>3, InsertAbandons DEF Board!Next
<1>4. ASSUME NEW r \in Request, ListPlannedJobs(r) PROVE Board!Next
  BY <1>4, ListLooks DEF Board!Next
<1>5. ASSUME NEW r \in Request, ListActiveIgnores(r) PROVE Board!Next
  BY <1>5, IgnoresLeaveOut DEF Board!Next
<1>6. ASSUME NEW o \in Op, IgnoreRunsOut(o) PROVE Board!Next
  <2>1. \A q \in Request : OnOffer(q)' = OnOffer(q)
    BY <1>6 DEF IgnoreRunsOut, world, locals, OnOffer
  <2>2. Board!RunOut(o)
    BY <1>6, <2>1 DEF IgnoreRunsOut, Board!RunOut
  <2> QED
    BY <2>2 DEF Board!Next
<1> QED
  BY <1>1, <1>2, <1>3, <1>4, <1>5, <1>6, Unseen

\* The endpoints implement the board: whatever interleaves, fails or waits, the
\* tables change by whole transactions, a plan takes the place of what its refresh
\* found, and a job goes out with its decision to a request that was offered it.
THEOREM EndpointsKeepBoard == Spec => ImplementsJobBoard
  BY InitBoard, StepKeepsBoard, Invariance, BoardInvariance, PTL
     DEF Spec, ImplementsJobBoard, Board!Spec

-----------------------------------------------------------------------------
(***************************************************************************)
(* Rings: when and for how long the endpoints block each other.            *)
(***************************************************************************)
\* A request takes the loop for a statement, passes by, lets it go or keeps it.
LEMMA LoopShapes ==
  ASSUME TypeOK, LoopInv, NEW r \in Request, NEW s \in Stage, GoTo(r, s), place' = place,
         \/ LoopFree(r) /\ s \in Statement /\ KeepLoop(r)
         \/ stage[r] \notin Statement /\ s \notin Statement /\ loop' = loop
         \/ stage[r] \in Statement /\ s \notin Statement /\ YieldLoop(r)
         \/ stage[r] \in Statement /\ s \in Statement /\ loop' = loop
  PROVE  LoopInv'
<1> DEFINE w == place[r]
<1>1. /\ stage \in [Request -> Stage] /\ loop \in [Worker -> Request \cup {None}]
      /\ place \in [Request -> Worker] /\ None \notin Request /\ w \in Worker
  BY PlaceType, DistinctAssumption DEF TypeOK, ControlType, Batch
<1>2. stage'[r] = s /\ \A q \in Request : q # r => stage'[q] = stage[q]
  BY <1>1 DEF GoTo
<1>3. \A q \in Request : stage[q] \in Statement <=> loop[place[q]] = q
  BY DEF LoopInv, HoldsLoop
<1> HIDE DEF w
<1>4. ASSUME NEW holder, loop' = [loop EXCEPT ![w] = holder],
             \/ holder = r /\ s \in Statement /\ loop[w] = None
             \/ holder = None /\ s \notin Statement /\ loop[w] = r
      PROVE  LoopInv'
  <2>1. loop'[w] = holder /\ \A v \in Worker : v # w => loop'[v] = loop[v]
    BY <1>1, <1>4
  <2>2. ASSUME NEW q \in Request PROVE stage'[q] \in Statement <=> loop'[place[q]] = q
    <3>1. CASE q = r
      BY <1>1, <1>2, <1>4, <2>1, <3>1 DEF w
    <3>2. CASE q # r /\ place[q] = w
      BY <1>1, <1>2, <1>3, <1>4, <2>1, <3>2
    <3>3. CASE q # r /\ place[q] # w
      BY <1>1, <1>2, <1>3, <2>1, <3>3
    <3> QED
      BY <3>1, <3>2, <3>3
  <2>3. ASSUME NEW v \in Worker, loop'[v] # None PROVE place[loop'[v]] = v
    <3>1. CASE v = w
      BY <1>4, <2>1, <2>3, <3>1 DEF w
    <3>2. CASE v # w
      BY <2>1, <2>3, <3>2 DEF LoopInv
    <3> QED
      BY <3>1, <3>2
  <2> QED
    BY <2>2, <2>3 DEF LoopInv, HoldsLoop
<1>5. ASSUME loop' = loop, stage[r] \in Statement <=> s \in Statement
      PROVE  LoopInv'
  BY <1>1, <1>2, <1>5 DEF LoopInv, HoldsLoop
<1>6. CASE LoopFree(r) /\ s \in Statement /\ KeepLoop(r)
  BY <1>4, <1>6 DEF LoopFree, KeepLoop, w
<1>7. CASE stage[r] \in Statement /\ s \notin Statement /\ YieldLoop(r)
  BY <1>3, <1>4, <1>7 DEF YieldLoop, w
<1> QED
  BY <1>5, <1>6, <1>7

\* The loop of a worker is held by the request whose statement runs, and by no other.
LEMMA StepLoop == TypeOK /\ LoopInv /\ [Next]_vars => LoopInv'
<1> SUFFICES ASSUME TypeOK, LoopInv, [Next]_vars PROVE LoopInv'
  OBVIOUS
<1>1. ASSUME NEW r \in Request, Call(r) \/ ServerStep(r) PROVE LoopInv'
  <2>1. place' = place
    BY <1>1 DEF Call, Refresh, Ask, Refuse, SetMachineStatus, ServerStep, ListOperations,
       ListMachineStatus, BeginBatch, Retire, InsertBatch, FetchLatestPlanBatch,
       ListPlannedJobs, Hydrate, ListActiveIgnores, InsertDecision, MarkDispatched,
       GetPlannedJob, MarkSkipped, UpsertMachineStatus, RelistMachines, HandOver, Commit,
       CommitFails, world
  <2> DEFINE Moves == \E s \in Stage : GoTo(r, s) /\
               \/ LoopFree(r) /\ s \in Statement /\ KeepLoop(r)
               \/ stage[r] \notin Statement /\ s \notin Statement /\ loop' = loop
               \/ stage[r] \in Statement /\ s \notin Statement /\ YieldLoop(r)
               \/ stage[r] \in Statement /\ s \in Statement /\ loop' = loop
  <2>2. Moves
    <3> USE DEF Stage, Statement, Query
    <3>1. CASE \/ Refresh(r) \/ ListOperations(r) \/ ListMachineStatus(r) \/ BeginBatch(r)
               \/ Retire(r) \/ InsertBatch(r)
      BY <3>1 DEF Refresh, ListOperations, ListMachineStatus, BeginBatch, Retire, InsertBatch
    <3>2. CASE \/ Ask(r) \/ FetchLatestPlanBatch(r) \/ ListPlannedJobs(r) \/ Hydrate(r)
               \/ ListActiveIgnores(r)
      <4>1. CASE ListActiveIgnores(r)
        <5>1. GoTo(r, "declined") \/ GoTo(r, "scoring")
          BY <4>1 DEF ListActiveIgnores
        <5> QED
          BY <4>1, <5>1 DEF ListActiveIgnores
      <4> QED
        BY <3>2, <4>1 DEF Ask, FetchLatestPlanBatch, ListPlannedJobs, Hydrate
    <3>3. CASE \/ InsertDecision(r) \/ MarkDispatched(r) \/ Refuse(r) \/ GetPlannedJob(r)
               \/ MarkSkipped(r)
      BY <3>3 DEF InsertDecision, MarkDispatched, Refuse, GetPlannedJob, MarkSkipped
    <3>4. CASE SetMachineStatus(r) \/ UpsertMachineStatus(r) \/ RelistMachines(r) \/ HandOver(r)
      BY <3>4 DEF SetMachineStatus, UpsertMachineStatus, RelistMachines, HandOver
    <3>5. CASE Commit(r) \/ CommitFails(r)
      BY <3>5 DEF Commit, CommitFails
    <3> QED
      BY <1>1, <3>1, <3>2, <3>3, <3>4, <3>5 DEF Call, ServerStep
  <2> QED
    BY <2>1, <2>2, LoopShapes
<1>2. ASSUME NEW w \in Worker, WorkerDies(w) PROVE LoopInv'
  <2>1. /\ place' = place /\ loop' = [loop EXCEPT ![w] = None]
        /\ \A q \in Request : place[q] # w => stage'[q] = stage[q]
        /\ \A q \in Request : place[q] = w => stage'[q] \notin Statement
    BY <1>2 DEF WorkerDies, world, TypeOK, ControlType, Ended, Statement, Query
  <2>2. /\ loop \in [Worker -> Request \cup {None}] /\ place \in [Request -> Worker]
        /\ None \notin Request
    BY PlaceType, DistinctAssumption DEF TypeOK, ControlType, Batch
  <2>3. loop'[w] = None /\ \A v \in Worker : v # w => loop'[v] = loop[v]
    BY <2>1, <2>2
  <2>4. ASSUME NEW q \in Request PROVE stage'[q] \in Statement <=> loop'[place[q]] = q
    <3>1. CASE place[q] = w
      BY <2>1, <2>2, <2>3, <3>1
    <3>2. CASE place[q] # w
      BY <2>1, <2>2, <2>3, <3>2 DEF LoopInv, HoldsLoop
    <3> QED
      BY <3>1, <3>2
  <2>5. ASSUME NEW v \in Worker, loop'[v] # None PROVE place[loop'[v]] = v
    BY <2>3, <2>5 DEF LoopInv
  <2> QED
    BY <2>1, <2>4, <2>5 DEF LoopInv, HoldsLoop
<1>3. ASSUME NEW o \in Op, FinishOperation(o) \/ IgnoreRunsOut(o) PROVE LoopInv'
  BY <1>3 DEF FinishOperation, IgnoreRunsOut, world, LoopInv, HoldsLoop
<1>4. CASE UNCHANGED vars
  BY <1>4 DEF vars, LoopInv, HoldsLoop
<1> QED
  BY <1>1, <1>2, <1>3, <1>4 DEF Next, Call

\* On every reachable state, whatever runs and dies.
LEMMA LoopInvariance == Spec => []LoopInv
<1>1. Init => LoopInv
  <2> SUFFICES ASSUME Init PROVE LoopInv
    OBVIOUS
  <2>1. place \in [Request -> Worker] /\ None \notin Request
    BY PlaceType, InitType, DistinctAssumption DEF Batch
  <2>2. stage = [r \in Request |-> "idle"] /\ loop = [w \in Worker |-> None]
    BY DEF Init
  <2> QED
    BY <2>1, <2>2 DEF LoopInv, HoldsLoop, Statement, Query
<1>2. IInv => TypeOK
  BY DEF IInv
<1> QED
  BY <1>1, <1>2, StepLoop, Invariance, PTL DEF Spec

\* The holder of a loop runs a statement, on that worker.
LEMMA LoopHolder ==
  ASSUME IInv, LoopInv, NEW r \in Request, ~LoopFree(r)
  PROVE  /\ loop[place[r]] \in Request /\ place[loop[place[r]]] = place[r]
         /\ stage[loop[place[r]]] \in Statement
<1>1. loop[place[r]] \in Request /\ place[r] \in Worker
  BY PlaceType DEF IInv, TypeOK, ControlType, LoopFree
<1>2. place[loop[place[r]]] = place[r]
  BY <1>1, DistinctAssumption DEF LoopInv, Batch
<1> QED
  BY <1>1, <1>2 DEF LoopInv, HoldsLoop

\* A request in a statement takes no step but one of its statements.
LEMMA StatementSteps ==
  ASSUME NEW q \in Request, stage[q] \in Statement, Call(q) \/ ServerStep(q)
  PROVE  \/ ListMachineStatus(q) \/ Retire(q) \/ InsertBatch(q) \/ FetchLatestPlanBatch(q)
         \/ ListPlannedJobs(q) \/ ListActiveIgnores(q) \/ MarkDispatched(q) \/ GetPlannedJob(q)
         \/ MarkSkipped(q) \/ UpsertMachineStatus(q) \/ RelistMachines(q)
  BY DEF Statement, Query, Call, ServerStep, Refresh, Ask, Refuse, SetMachineStatus,
     ListOperations, BeginBatch, Hydrate, InsertDecision, HandOver, Commit, CommitFails

\* A statement that waits for a lock is not done, unless the database breaks a deadlock.
LEMMA WaitingWaits ==
  ASSUME NEW q \in Request, NEW s \in Request, WaitsFor(q, s),
         ~(stage[q] = "relisting" /\ inserted[q]), "read" \notin Faults, "write" \notin Faults
  PROVE  stage[q] \in Statement /\ ~Call(q) /\ ~ServerStep(q)
<1>0. stage[q] \in Statement
  BY DEF WaitsFor, QueryMeets, Statement, Query
<1>1. s \in Request \ {q} /\ Waits(q)
  BY DEF WaitsFor, Waits
<1>2. ~Retire(q) /\ ~InsertBatch(q) /\ ~ListPlannedJobs(q) /\ ~FetchLatestPlanBatch(q)
  BY <1>1 DEF WaitsFor, QueryMeets, Retire, InsertBatch, ListPlannedJobs, FetchLatestPlanBatch
<1>3. ~MarkDispatched(q) /\ ~MarkSkipped(q)
  <2> SUFFICES ASSUME MarkDispatched(q) \/ MarkSkipped(q) PROVE FALSE
    OBVIOUS
  <2>1. ~FromMemory(q) /\ dirty[s][target[q].batch][target[q].op] # None
    BY DEF WaitsFor, QueryMeets, MarkDispatched, MarkSkipped
  <2>2. PICK b \in Batch, o \in Op : JobRow(q, b, o) /\ ~RowLocked(q, b, o)
    BY <2>1 DEF MarkDispatched, MarkSkipped
  <2>3. target[q].batch = b /\ target[q].op = o
    BY <2>1, <2>2 DEF JobRow
  <2> QED
    BY <1>1, <2>1, <2>2, <2>3 DEF RowLocked
<1>4. ~UpsertMachineStatus(q)
  BY <1>1 DEF WaitsFor, QueryMeets, UpsertMachineStatus, MachineLocked
<1>5. ~ListMachineStatus(q) /\ ~ListActiveIgnores(q)
  BY <1>1 DEF ListMachineStatus, ListActiveIgnores, WaitsFor, QueryMeets
<1>6. ~GetPlannedJob(q)
  BY <1>1 DEF GetPlannedJob, WaitsFor, QueryMeets
<1>7. ~RelistMachines(q)
  BY <1>1 DEF RelistMachines, Deadlocked
<1> QED
  BY <1>0, <1>2, <1>3, <1>4, <1>5, <1>6, <1>7, StatementSteps

\* In a ring a loop's holder is a request of that worker, and waits for some request.
LEMMA RingHolder ==
  ASSUME IInv, LoopInv, NEW S \in SUBSET Request, FirmRing(S), NEW r \in S
  PROVE  /\ stage[r] = "returned" /\ ~LoopFree(r)
         /\ \E q \in Request :
              /\ q = loop[place[r]] /\ place[q] = place[r] /\ stage[q] \in Statement
              /\ ~(stage[q] = "relisting" /\ inserted[q])
              /\ \E t \in Request : WaitsFor(q, t)
<1>1. /\ r \in Request /\ stage[r] = "returned" /\ loop[place[r]] \in Request
      /\ ~(stage[loop[place[r]]] = "relisting" /\ inserted[loop[place[r]]])
      /\ \E t \in Request : WaitsFor(loop[place[r]], t)
  BY DEF FirmRing, RingAmong, Delays
<1>2. ~LoopFree(r)
  BY <1>1, DistinctAssumption DEF LoopFree, Batch
<1> QED
  BY <1>1, <1>2, LoopHolder

\* On a worker of a ring nothing runs: the loop's holder waits, everybody else needs
\* the loop, and only a commit that a thread has begun goes on.
LEMMA RingWorker ==
  ASSUME IInv, LoopInv, NEW S \in SUBSET Request, FirmRing(S), NEW r \in S,
         "read" \notin Faults, "write" \notin Faults, NEW p \in Request, place[p] = place[r],
         Call(p) \/ ServerStep(p)
  PROVE  stage[p] = "committing" /\ (Commit(p) \/ CommitFails(p))
<1>1. PICK q \in Request : /\ q = loop[place[r]] /\ stage[q] \in Statement
                           /\ ~(stage[q] = "relisting" /\ inserted[q])
                           /\ \E t \in Request : WaitsFor(q, t)
  BY RingHolder
<1>2. ~LoopFree(p) /\ (p # q => stage[p] \notin Statement)
  BY <1>1, RingHolder DEF LoopFree, LoopInv, HoldsLoop
<1>3. p # q
  BY <1>1, WaitingWaits
<1>4. stage[p] \notin Statement
  BY <1>2, <1>3
<1>5. ~(\/ Refresh(p) \/ ListOperations(p) \/ BeginBatch(p) \/ Ask(p) \/ Hydrate(p)
        \/ InsertDecision(p) \/ Refuse(p) \/ SetMachineStatus(p) \/ HandOver(p))
  BY <1>2 DEF Refresh, ListOperations, BeginBatch, Ask, Hydrate, InsertDecision, Refuse,
     SetMachineStatus, HandOver
<1>6. ~(\/ ListMachineStatus(p) \/ Retire(p) \/ InsertBatch(p) \/ FetchLatestPlanBatch(p)
        \/ ListPlannedJobs(p) \/ ListActiveIgnores(p) \/ MarkDispatched(p) \/ GetPlannedJob(p)
        \/ MarkSkipped(p) \/ UpsertMachineStatus(p) \/ RelistMachines(p))
  BY <1>4 DEF ListMachineStatus, Retire, InsertBatch, FetchLatestPlanBatch, ListPlannedJobs,
     ListActiveIgnores, MarkDispatched, GetPlannedJob, MarkSkipped, UpsertMachineStatus,
     RelistMachines, Statement, Query
<1>7. Commit(p) \/ CommitFails(p)
  BY <1>5, <1>6 DEF Call, ServerStep
<1> QED
  BY <1>7 DEF Commit, CommitFails

\* The loop of one worker is nothing to a request of another; the settings of a
\* request are its own too.
LEMMA LoopsApart ==
  ASSUME TypeOK, NEW r \in Request, Call(r) \/ ServerStep(r)
  PROVE  /\ place' = place
         /\ \A w \in Worker \ {place[r]} : loop'[w] = loop[w]
         /\ \A q \in Request \ {r} : setting'[q] = setting[q]
         /\ Commit(r) \/ CommitFails(r) => loop' = loop
<1> USE PlaceType DEF TypeOK, ControlType, LocalsType, world, locals, KeepLoop, YieldLoop
<1>1. CASE \/ Refresh(r) \/ ListOperations(r) \/ ListMachineStatus(r) \/ BeginBatch(r)
           \/ Retire(r) \/ InsertBatch(r)
  BY <1>1 DEF Refresh, ListOperations, ListMachineStatus, BeginBatch, Retire, InsertBatch,
     Commit, CommitFails
<1>2. CASE \/ Ask(r) \/ FetchLatestPlanBatch(r) \/ ListPlannedJobs(r) \/ Hydrate(r)
           \/ ListActiveIgnores(r)
  BY <1>2 DEF Ask, FetchLatestPlanBatch, ListPlannedJobs, Hydrate, ListActiveIgnores, Commit,
     CommitFails
<1>3. CASE \/ InsertDecision(r) \/ MarkDispatched(r) \/ Refuse(r) \/ GetPlannedJob(r)
           \/ MarkSkipped(r)
  BY <1>3 DEF InsertDecision, MarkDispatched, Refuse, GetPlannedJob, MarkSkipped, Commit,
     CommitFails
<1>4. CASE SetMachineStatus(r) \/ UpsertMachineStatus(r) \/ RelistMachines(r) \/ HandOver(r)
  BY <1>4 DEF SetMachineStatus, UpsertMachineStatus, RelistMachines, HandOver, Commit,
     CommitFails
<1>5. CASE Commit(r) \/ CommitFails(r)
  BY <1>5 DEF Commit, CommitFails
<1> QED
  BY <1>1, <1>2, <1>3, <1>4, <1>5 DEF Call, ServerStep

\* A statement waits on while nothing changes that the two requests hold and aim at.
LEMMA WaitFrame ==
  ASSUME IInv, [Next]_vars, NEW q \in Request, NEW s \in Request, WaitsFor(q, s),
         \A x \in {q, s} : /\ stage'[x] = stage[x] /\ dirty'[x] = dirty[x]
                          /\ inserted'[x] = inserted[x] /\ target'[x] = target[x]
                          /\ setting'[x] = setting[x]
  PROVE  WaitsFor(q, s)'
<1>1. kind' = kind
  BY StepFrame
<1>2. ASSUME ~FromMemory(q), stage[q] \in {"marking", "skipping"} PROVE ~FromMemory(q)'
  <2>1. target[q].batch \in Batch
    <3>1. StageOf(q) /\ TypeOK
      BY DEF IInv, StageInv
    <3> QED
      BY <1>2, <3>1 DEF StageOf, TypeOK, LocalsType, Aim, Target
  <2> QED
    BY <1>2, <2>1, StepInTable DEF FromMemory
<1>3. ReadersWait /\ QueryMeets(q, s) => (ReadersWait /\ QueryMeets(q, s))'
  BY <1>1 DEF QueryMeets, NoLocks
<1> QED
  BY <1>1, <1>2, <1>3 DEF WaitsFor, NoLocks

\* A request that waits stays as it is.
LEMMA WaiterStays ==
  ASSUME IInv, Next, NEW q \in Request, NEW s \in Request, WaitsFor(q, s),
         ~(stage[q] = "relisting" /\ inserted[q]), Faults \cap {"read", "write", "crash"} = {}
  PROVE  /\ stage'[q] = stage[q] /\ dirty'[q] = dirty[q] /\ inserted'[q] = inserted[q]
         /\ target'[q] = target[q] /\ setting'[q] = setting[q]
<1>0. TypeOK
  BY DEF IInv
<1>1. ASSUME NEW x \in Request, Call(x) \/ ServerStep(x)
      PROVE  /\ stage'[q] = stage[q] /\ dirty'[q] = dirty[q] /\ inserted'[q] = inserted[q]
             /\ target'[q] = target[q] /\ setting'[q] = setting[q]
  <2>1. x # q
    BY <1>1, WaitingWaits
  <2> QED
    BY <1>0, <1>1, <2>1, OthersKeep, LoopsApart
<1>2. ~\E w \in Worker : WorkerDies(w)
  BY DEF WorkerDies
<1>3. ASSUME NEW o \in Op, FinishOperation(o) \/ IgnoreRunsOut(o)
      PROVE  /\ stage' = stage /\ dirty' = dirty /\ inserted' = inserted /\ target' = target
             /\ setting' = setting
  BY <1>3 DEF FinishOperation, IgnoreRunsOut, locals
<1> QED
  BY <1>1, <1>2, <1>3 DEF Next, Call

\* What the requests on the workers of a ring have stays as it is.
LEMMA RingStays ==
  ASSUME IInv, LoopInv, Next, NEW S \in SUBSET Request, FirmRing(S),
         Faults \cap {"read", "write", "crash"} = {}
  PROVE  /\ place' = place
         /\ \A r \in S : loop'[place[r]] = loop[place[r]]
         /\ \A r \in S, p \in Request :
              place[p] = place[r] /\ stage[p] \notin {"committing"} \cup Ended =>
                /\ stage'[p] = stage[p] /\ dirty'[p] = dirty[p]
                /\ inserted'[p] = inserted[p] /\ target'[p] = target[p]
                /\ setting'[p] = setting[p]
<1>0. TypeOK
  BY DEF IInv
<1>1. ASSUME NEW x \in Request, Call(x) \/ ServerStep(x), NEW r \in S
      PROVE  /\ place' = place /\ loop'[place[r]] = loop[place[r]]
             /\ \A p \in Request :
                  place[p] = place[r] /\ stage[p] \notin {"committing"} \cup Ended =>
                    /\ stage'[p] = stage[p] /\ dirty'[p] = dirty[p]
                    /\ inserted'[p] = inserted[p] /\ target'[p] = target[p]
                    /\ setting'[p] = setting[p]
  <2>1. place[x] = place[r] => stage[x] = "committing" /\ (Commit(x) \/ CommitFails(x))
    BY <1>1, RingWorker
  <2>2. place[r] \in Worker
    BY <1>0, PlaceType
  <2>3. place' = place /\ loop'[place[r]] = loop[place[r]]
    BY <1>0, <1>1, <2>1, <2>2, LoopsApart
  <2>4. ASSUME NEW p \in Request, place[p] = place[r], stage[p] \notin {"committing"} \cup Ended
        PROVE  /\ stage'[p] = stage[p] /\ dirty'[p] = dirty[p]
               /\ inserted'[p] = inserted[p] /\ target'[p] = target[p]
               /\ setting'[p] = setting[p]
    <3>1. p # x
      BY <2>1, <2>4
    <3> QED
      BY <1>0, <1>1, <3>1, OthersKeep, LoopsApart
  <2> QED
    BY <2>3, <2>4
<1>2. ~\E w \in Worker : WorkerDies(w)
  BY DEF WorkerDies
<1>3. ASSUME NEW o \in Op, FinishOperation(o) \/ IgnoreRunsOut(o)
      PROVE  /\ place' = place /\ loop' = loop /\ stage' = stage /\ dirty' = dirty
             /\ inserted' = inserted /\ target' = target /\ setting' = setting
  BY <1>3 DEF FinishOperation, IgnoreRunsOut, world, locals
<1>4. \E r \in S : TRUE
  BY DEF FirmRing, RingAmong
<1> QED
  BY <1>1, <1>2, <1>3, <1>4 DEF Next, Call

\* The requests that no rollback of a deadlock sets free.
Firm == {q \in Request : ~(stage[q] = "relisting" /\ inserted[q])}

\* In a ring, who is delayed by a member is delayed by it still.
LEMMA DelayStays ==
  ASSUME IInv, LoopInv, Next, NEW S \in SUBSET Request, FirmRing(S),
         Faults \cap {"read", "write", "crash"} = {},
         NEW q \in Firm, NEW s \in S, Delays(q, s, Firm)
  PROVE  q \in Firm' /\ Delays(q, s, Firm)'
<1>0. [Next]_vars /\ q \in Request /\ s \in Request
  BY DEF Firm
<1> DEFINE Kept(x) == /\ stage'[x] = stage[x] /\ dirty'[x] = dirty[x]
                      /\ inserted'[x] = inserted[x] /\ target'[x] = target[x]
                      /\ setting'[x] = setting[x]
<1>1. ASSUME NEW x \in Firm, NEW y \in Request, WaitsFor(x, y) PROVE Kept(x) /\ x \in Firm'
  <2>1. Kept(x)
    BY <1>1, WaiterStays DEF Firm
  <2> QED
    BY <2>1 DEF Firm
<1>2. Kept(s)
  BY RingHolder, RingStays DEF Ended
<1>3. ASSUME NEW x \in Request, NEW y \in Request, WaitsFor(x, y), Kept(x), Kept(y)
      PROVE  WaitsFor(x, y)'
  BY <1>0, <1>3, WaitFrame
<1> HIDE DEF Kept
<1>4. CASE WaitsFor(q, s)
  BY <1>0, <1>1, <1>2, <1>3, <1>4 DEF Delays
<1>5. ASSUME NEW t \in Firm, WaitsFor(q, t), WaitsFor(t, s)
      PROVE  q \in Firm' /\ Delays(q, s, Firm)'
  <2>1. Kept(q) /\ q \in Firm' /\ Kept(t) /\ t \in Firm' /\ t \in Request
    BY <1>0, <1>1, <1>5 DEF Firm
  <2>2. WaitsFor(q, t)' /\ WaitsFor(t, s)'
    BY <1>0, <1>2, <1>3, <1>5, <2>1
  <2> QED
    BY <2>1, <2>2 DEF Delays
<1> QED
  BY <1>4, <1>5 DEF Delays

\* A ring lasts, and its workers with it: without a lock timeout nothing but a restart
\* lets the loops go (fastems1 autopilot sessions, committed off the event loop), unless
\* the database breaks a deadlock that a member of it waits for.
THEOREM RingsLast == Spec => RingsAreFinal
<1> DEFINE Step == \A S \in SUBSET Request :
             FirmRing(S) /\ Faults \cap {"read", "write", "crash"} = {} =>
               /\ FirmRing(S)'
               /\ \A r \in S, p \in Request :
                    place[p] = place[r] /\ stage[p] \notin {"committing"} \cup Ended =>
                      stage'[p] = stage[p]
<1>1. IInv /\ LoopInv /\ [Next]_vars => [Step]_vars
  <2> SUFFICES ASSUME IInv, LoopInv, Next, NEW S \in SUBSET Request, FirmRing(S),
                      Faults \cap {"read", "write", "crash"} = {}
               PROVE  /\ FirmRing(S)'
                      /\ \A r \in S, p \in Request :
                           place[p] = place[r] /\ stage[p] \notin {"committing"} \cup Ended =>
                             stage'[p] = stage[p]
    OBVIOUS
  <2>1. ASSUME NEW r \in S
        PROVE  /\ stage'[r] = "returned" /\ (loop[place[r]] \in Firm)'
               /\ (\E s \in S : Delays(loop[place[r]], s, Firm))'
    <3>1. r \in Request /\ stage[r] = "returned"
      BY RingHolder
    <3>2. stage'[r] = "returned" /\ place' = place /\ loop'[place[r]] = loop[place[r]]
      BY <3>1, RingStays DEF Ended
    <3>3. PICK q \in Firm : q = loop[place[r]] /\ \E s \in S : Delays(q, s, Firm)
      BY DEF FirmRing, RingAmong, Firm
    <3>4. PICK s \in S : Delays(q, s, Firm)
      BY <3>3
    <3>5. q \in Firm' /\ Delays(q, s, Firm)'
      BY <3>4, DelayStays
    <3>6. loop'[place'[r]] = q
      BY <3>2, <3>3
    <3> QED
      BY <3>2, <3>5, <3>6
  <2>2. FirmRing(S)'
    BY <2>1 DEF FirmRing, RingAmong, Firm
  <2> QED
    BY <2>2, RingStays
<1> QED
  BY <1>1, Invariance, LoopInvariance, PTL DEF Spec, RingsAreFinal

\* The steps of a suggestion from its list to its decision.
LEMMA WhoChooses ==
  ASSUME IInv, [Next]_vars, NEW q \in Request,
         stage'[q] \in {"hydrating", "filtering", "scoring", "marking"}
  PROVE  \/ /\ \/ stage'[q] = stage[q]
               \/ stage[q] = "hydrating" /\ stage'[q] = "filtering"
            /\ target'[q] = target[q] /\ view'[q] = view[q]
         \/ ListPlannedJobs(q) \/ ListActiveIgnores(q) \/ InsertDecision(q)
<1>0. TypeOK
  BY DEF IInv
<1> USE <1>0 DEF TypeOK, ControlType, LocalsType, GoTo, locals
<1>1. CASE \E r \in Request \ {q} : Call(r) \/ ServerStep(r)
  BY <1>1, OthersKeep
<1>2. ~Call(q)
  BY DEF Call, Refresh, Ask, Refuse, SetMachineStatus
<1>3. CASE \/ ListOperations(q) \/ ListMachineStatus(q) \/ BeginBatch(q) \/ Retire(q)
           \/ InsertBatch(q) \/ FetchLatestPlanBatch(q) \/ MarkDispatched(q)
           \/ GetPlannedJob(q) \/ MarkSkipped(q) \/ UpsertMachineStatus(q)
           \/ RelistMachines(q) \/ HandOver(q) \/ Commit(q) \/ CommitFails(q)
  BY <1>3 DEF ListOperations, ListMachineStatus, BeginBatch, Retire, InsertBatch,
     FetchLatestPlanBatch, MarkDispatched, GetPlannedJob, MarkSkipped, UpsertMachineStatus,
     RelistMachines, HandOver, Commit, CommitFails
<1>4. CASE Hydrate(q)
  BY <1>4 DEF Hydrate
<1>5. CASE \E w \in Worker : WorkerDies(w)
  BY <1>5 DEF WorkerDies
<1>6. CASE \E o \in Op : FinishOperation(o) \/ IgnoreRunsOut(o)
  BY <1>6 DEF FinishOperation, IgnoreRunsOut
<1>7. CASE UNCHANGED vars
  BY <1>7 DEF vars
<1> QED
  BY <1>1, <1>2, <1>3, <1>4, <1>5, <1>6, <1>7 DEF Next, Call, ServerStep

\* What a suggestion works with stays there.
LEMMA StepJobs == IInv /\ JobsInv /\ [Next]_vars => JobsInv'
<1> SUFFICES ASSUME IInv, JobsInv, [Next]_vars, NEW q \in Request,
                    stage'[q] \in {"hydrating", "filtering", "scoring", "marking"}
             PROVE  /\ stage'[q] = "scoring" => \E o \in Op : view'[q][o] # None
                    /\ ~FromMemory(q)' =>
                         \A o \in Op : view'[q][o] # None => plan'[target'[q].batch][o] # None
  BY DEF JobsInv
<1>0. TypeOK /\ TypeOK'
  BY StepType DEF IInv
<1>1. StageOf(q)
  BY DEF IInv, StageInv
<1>2. ASSUME stage[q] \in {"listing", "hydrating", "filtering", "scoring", "marking"}
      PROVE  target[q].batch \in Batch
  BY <1>0, <1>1, <1>2, AimType DEF StageOf, TypeOK, LocalsType
<1>3. ASSUME stage[q] \in {"hydrating", "filtering", "scoring", "marking"},
             target'[q].batch = target[q].batch,
             \A o \in Op : view'[q][o] # None => view[q][o] # None,
             ~FromMemory(q)', NEW o \in Op, view'[q][o] # None
      PROVE  plan'[target'[q].batch][o] # None
  <2>1. PICK b \in Batch : b = target[q].batch
    BY <1>2, <1>3
  <2>2. InTable(b)
    <3>1. InTable(b)'
      BY <1>3, <2>1 DEF FromMemory, InTable
    <3> QED
      BY <2>1, <3>1, NeverStored
  <2>3. plan[b][o] # None
    BY <1>3, <2>1, <2>2 DEF JobsInv, FromMemory
  <2> QED
    BY <1>3, <2>1, <2>3, StepRow
<1>4. CASE /\ \/ stage'[q] = stage[q]
              \/ stage[q] = "hydrating" /\ stage'[q] = "filtering"
           /\ target'[q] = target[q] /\ view'[q] = view[q]
  BY <1>3, <1>4 DEF JobsInv
<1>5. CASE ListPlannedJobs(q)
  <2>1. /\ stage[q] = "listing" /\ stage'[q] = "hydrating" /\ target' = target /\ plan' = plan
    BY <1>0, <1>5 DEF ListPlannedJobs, TypeOK, ControlType, GoTo, tables
  <2>2. \/ view'[q] = plan[target[q].batch] \/ FromMemory(q)
        \/ \A o \in Op : view'[q][o] = None
    BY <1>0, <1>5 DEF ListPlannedJobs, TypeOK, LocalsType
  <2>3. FromMemory(q)' = FromMemory(q)
    BY <2>1 DEF FromMemory, InTable
  <2> QED
    BY <2>1, <2>2, <2>3
<1>6. CASE ListActiveIgnores(q)
  <2>1. PICK eligible \in SUBSET Op :
          /\ \A o \in eligible : IsPlanned(view[q][o])
          /\ view' = [view EXCEPT ![q] = [o \in Op |-> IF o \in eligible THEN view[q][o] ELSE None]]
          /\ GoTo(q, IF eligible = {} THEN "declined" ELSE "scoring")
          /\ target' = target /\ stage[q] = "filtering"
    BY <1>6 DEF ListActiveIgnores, Eligible
  <2>2. /\ \A o \in Op : view'[q][o] = IF o \in eligible THEN view[q][o] ELSE None
        /\ stage'[q] = IF eligible = {} THEN "declined" ELSE "scoring"
    BY <1>0, <2>1 DEF TypeOK, LocalsType, ControlType, GoTo
  <2>3. \E o \in Op : view'[q][o] # None
    BY <2>1, <2>2 DEF IsPlanned
  <2> QED
    BY <1>3, <2>1, <2>2, <2>3
<1>7. CASE InsertDecision(q)
  <2>1. /\ stage[q] = "scoring" /\ stage'[q] # "scoring" /\ view' = view
        /\ target'[q].batch = target[q].batch
    BY <1>0, <1>7 DEF InsertDecision, TypeOK, LocalsType, ControlType, GoTo, AimAt
  <2> QED
    BY <1>3, <2>1
<1> QED
  BY <1>4, <1>5, <1>6, <1>7, WhoChooses

\* On every reachable state, whatever commits in between.
LEMMA JobsInvariance == Spec => []JobsInv
<1>1. Init => JobsInv
  BY DEF Init, JobsInv
<1> QED
  BY <1>1, StepJobs, Invariance, PTL DEF Spec

\* Rows are locked, and a machine's status, by requests that are not done with their
\* statements or wait for their commit.
LEMMA WhoIsWaitedFor ==
  ASSUME IInv, NEW q \in Request, NEW s \in Request, WaitsFor(q, s)
  PROVE  /\ stage[s] \in {"inserting", "skipping", "relisting", "returned", "committing"}
         /\ stage[s] = "relisting" => inserted[s]
<1>0. StageOf(q) /\ StageOf(s) /\ TypeOK
  BY DEF IInv, StageInv
<1>1. CASE ~NoLocks(s)
  BY <1>1 DEF IInv, HoldingInv, Closing
<1>2. CASE kind[s] \in {"status", "refuse"} /\ inserted[s]
  BY <1>0, <1>2 DEF StageOf, Closing
<1>3. ~NoLocks(s) \/ (kind[s] \in {"status", "refuse"} /\ inserted[s])
  <2>1. ASSUME target[q] \in Target, dirty[s][target[q].batch][target[q].op] # None
        PROVE  ~NoLocks(s)
    BY <2>1 DEF NoLocks, Target
  <2>2. stage[q] \in {"marking", "skipping"} => target[q] \in Target
    BY <1>0 DEF StageOf
  <2>3. stage[q] = "seeking" /\ target[q] # Nothing => target[q] \in Target
    BY <1>0 DEF StageOf
  <2> QED
    BY <2>1, <2>2, <2>3 DEF WaitsFor, QueryMeets
<1> QED
  BY <1>1, <1>2, <1>3

\* A statement that nobody lets go on waits for somebody.
LEMMA StatementWaits ==
  ASSUME IInv, JobsInv, NEW q \in Request, stage[q] \in Statement, ~CanStep(q)
  PROVE  ~Deadlocked(q) /\ \E s \in Request : WaitsFor(q, s)
<1>1. stage[q] \in {"marking", "skipping"} /\ ~FromMemory(q) =>
        plan[target[q].batch][target[q].op] # None
  <2>1. CASE stage[q] = "marking" /\ ~FromMemory(q)
    <3>1. inserted[q] /\ kind[q] = "next"
      BY <2>1 DEF IInv, StageInv, StageOf
    <3>2. target[q].op \in Op /\ view[q][target[q].op] # None
      BY <3>1 DEF IInv, StageInv, StageOf, ViewInv, IsPlanned, Target
    <3> QED
      BY <2>1, <3>2 DEF JobsInv
  <2>2. CASE stage[q] = "skipping"
    BY <2>2, MarkTarget
  <2> QED
    BY <2>1, <2>2
<1> QED
  BY <1>1 DEF CanStep, Waits

\* A statement that cannot be done waits for a request that has returned, or for one
\* that waits for such a request, unless somebody can take a step.
LEMMA StatementsWait ==
  ASSUME IInv, JobsInv, NEW q \in Request, stage[q] \in Statement, \A p \in Request : ~CanStep(p)
  PROVE  \E s \in Request : stage[s] = "returned" /\ Delays(q, s, Request)
<1>1. PICK t \in Request : WaitsFor(q, t)
  BY StatementWaits
<1>2. ASSUME NEW p \in Request PROVE stage[p] \notin {"inserting", "committing"}
  <2>1. stage[p] # "inserting"
    <3> SUFFICES ASSUME stage[p] = "inserting" PROVE FALSE
      OBVIOUS
    <3>1. stage[p] \in Statement /\ ~Waits(p)
      BY DEF Statement, Waits, WaitsFor, QueryMeets
    <3> QED
      BY <3>1 DEF CanStep
  <2> QED
    BY <2>1 DEF CanStep
<1>3. /\ stage[t] \in {"skipping", "relisting", "returned"}
      /\ stage[t] = "relisting" => inserted[t]
  BY <1>1, <1>2, WhoIsWaitedFor
<1>4. CASE stage[t] = "returned"
  BY <1>1, <1>4 DEF Delays
<1>5. CASE stage[t] \in {"skipping", "relisting"}
  <2>1. stage[t] \in Statement
    BY <1>5 DEF Statement, Query
  <2>2. ~Deadlocked(t) /\ \E s \in Request : WaitsFor(t, s)
    BY <2>1, StatementWaits
  <2>3. PICK s \in Request : WaitsFor(t, s)
    BY <2>2
  <2>4. s # t /\ stage[s] \in {"skipping", "relisting", "returned"}
    BY <1>2, <2>3, WhoIsWaitedFor DEF WaitsFor
  <2>5. CASE stage[t] = "skipping"
    <3>1. dirty[s][target[t].batch][target[t].op] # None
      BY <2>3, <2>5 DEF WaitsFor, QueryMeets
    <3>2. ~NoLocks(s)
      BY <2>5, <3>1, MarkTarget DEF NoLocks
    <3>3. stage[s] = "returned"
      BY <1>2, <3>2 DEF IInv, HoldingInv, Closing
    <3> QED
      BY <1>1, <2>3, <3>3 DEF Delays
  <2>6. CASE stage[t] = "relisting"
    <3>1. ReadersWait /\ kind[s] = "status" /\ inserted[s]
      BY <2>3, <2>6 DEF WaitsFor, QueryMeets
    <3>2. stage[s] # "skipping"
      BY <3>1 DEF IInv, StageInv, StageOf
    <3>3. stage[s] # "relisting"
      BY <1>3, <2>2, <2>4, <2>6, <3>1 DEF Deadlocked
    <3> QED
      BY <1>1, <2>3, <2>4, <3>2, <3>3 DEF Delays
  <2> QED
    BY <1>5, <2>5, <2>6
<1> QED
  BY <1>3, <1>4, <1>5

\* Rings are the only way for the endpoints to block: where no ring is and a request
\* is under way, one can go on (get_autopilot_session, fastems1 autopilot services).
THEOREM NothingElseBlocks == Spec => []OnlyRingsBlock
<1>1. IInv /\ LoopInv /\ JobsInv => OnlyRingsBlock
  <2> SUFFICES ASSUME IInv, LoopInv, JobsInv, \A p \in Request : ~CanStep(p),
                      NEW r \in Request, stage[r] \notin Ended \cup {"idle"}
               PROVE  \E S \in SUBSET Request : Ring(S)
    BY DEF OnlyRingsBlock
  <2> DEFINE S == {s \in Request : stage[s] = "returned"}
  <2>1. ASSUME NEW q \in Request, ~LoopFree(q)
        PROVE  /\ loop[place[q]] \in Request
               /\ \E s \in S : Delays(loop[place[q]], s, Request)
    <3>1. loop[place[q]] \in Request /\ stage[loop[place[q]]] \in Statement
      BY <2>1, LoopHolder
    <3> QED
      BY <3>1, StatementsWait
  <2>2. ASSUME NEW q \in S PROVE ~LoopFree(q)
    BY DEF CanStep
  <2>3. S # {}
    <3>1. CASE stage[r] \in Statement
      BY <3>1, StatementsWait
    <3>2. CASE stage[r] \notin Statement
      <4>1. stage[r] \in Stage
        BY DEF IInv, TypeOK, ControlType
      <4>2. ~LoopFree(r)
        BY <3>2, <4>1 DEF CanStep, Statement, Query, Stage, Ended, JobsInv
      <4> QED
        BY <2>1, <4>2
    <3> QED
      BY <3>1, <3>2
  <2>4. Ring(S)
    BY <2>1, <2>2, <2>3 DEF Ring, RingAmong
  <2> QED
    BY <2>4
<1> QED
  BY <1>1, Invariance, LoopInvariance, JobsInvariance, PTL

-----------------------------------------------------------------------------
(***************************************************************************)
(* The steps of a request run out.                                         *)
(***************************************************************************)
\* How many steps are left from each stage.
LEMMA StageOrder ==
  /\ StepsAfter("idle") = 9 /\ StepsAfter("asking") = 8
  /\ StepsAfter("planning") = 7 /\ StepsAfter("listing") = 7
  /\ StepsAfter("checking") = 6 /\ StepsAfter("hydrating") = 6
  /\ StepsAfter("picking") = 5 /\ StepsAfter("filtering") = 5
  /\ StepsAfter("retiring") = 4 /\ StepsAfter("scoring") = 4
  /\ StepsAfter("seeking") = 4 /\ StepsAfter("upserting") = 4
  /\ StepsAfter("inserting") = 3 /\ StepsAfter("marking") = 3
  /\ StepsAfter("skipping") = 3 /\ StepsAfter("relisting") = 3
  /\ StepsAfter("returned") = 2 /\ StepsAfter("committing") = 1
  /\ \A s \in Ended : StepsAfter(s) = 0
  /\ \A s \in Stage : StepsAfter(s) \in 0..9
BY DEF StepsAfter, Ended, Stage

\* Every statement, hand-over and commit takes its request to a later stage.
LEMMA StepUsesUp ==
  ASSUME TypeOK, NEW r \in Request, Call(r) \/ ServerStep(r)
  PROVE  /\ StepsAfter(stage'[r]) \in 0..StepsAfter(stage[r])
         /\ StepsAfter(stage'[r]) # StepsAfter(stage[r])
<1> USE DEF TypeOK, ControlType, GoTo
<1>1. \/ stage[r] = "idle" /\ stage'[r] \in {"planning", "asking", "seeking", "upserting"}
      \/ stage[r] = "planning" /\ stage'[r] \in {"checking", "declined"}
      \/ stage[r] = "checking" /\ stage'[r] = "picking"
      \/ stage[r] = "picking" /\ stage'[r] = "retiring"
      \/ stage[r] = "retiring" /\ stage'[r] = "inserting"
      \/ stage[r] = "asking" /\ stage'[r] \in {"listing", "declined"}
      \/ stage[r] = "listing" /\ stage'[r] = "hydrating"
      \/ stage[r] = "hydrating" /\ stage'[r] \in {"filtering", "declined"}
      \/ stage[r] = "filtering" /\ stage'[r] \in {"scoring", "declined"}
      \/ stage[r] = "scoring" /\ stage'[r] \in {"marking", "returned"}
      \/ stage[r] = "seeking" /\ stage'[r] \in {"skipping", "declined"}
      \/ stage[r] = "upserting" /\ stage'[r] = "relisting"
      \/ /\ stage[r] \in {"inserting", "marking", "skipping", "relisting"}
         /\ stage'[r] = "returned"
      \/ stage[r] = "returned" /\ stage'[r] = "committing"
      \/ stage[r] = "committing" /\ stage'[r] \in {"answered", "failed"}
  <2>1. CASE Call(r)
    BY <2>1 DEF Call, Refresh, Ask, Refuse, SetMachineStatus
  <2>2. CASE ListOperations(r) \/ ListMachineStatus(r) \/ BeginBatch(r) \/ Retire(r) \/ InsertBatch(r)
    BY <2>2 DEF ListOperations, ListMachineStatus, BeginBatch, Retire, InsertBatch
  <2>3. CASE FetchLatestPlanBatch(r) \/ ListPlannedJobs(r) \/ Hydrate(r)
    BY <2>3 DEF FetchLatestPlanBatch, ListPlannedJobs, Hydrate
  <2>4. CASE ListActiveIgnores(r)
    <3>1. GoTo(r, "declined") \/ GoTo(r, "scoring")
      BY <2>4 DEF ListActiveIgnores
    <3> QED
      BY <2>4, <3>1 DEF ListActiveIgnores
  <2>5. CASE InsertDecision(r) \/ MarkDispatched(r)
    BY <2>5 DEF InsertDecision, MarkDispatched
  <2>6. CASE GetPlannedJob(r) \/ MarkSkipped(r)
    BY <2>6 DEF GetPlannedJob, MarkSkipped
  <2>7. CASE UpsertMachineStatus(r) \/ RelistMachines(r)
    BY <2>7 DEF UpsertMachineStatus, RelistMachines
  <2>8. CASE HandOver(r) \/ Commit(r) \/ CommitFails(r)
    BY <2>8 DEF HandOver, Commit, CommitFails
  <2> QED
    BY <2>1, <2>2, <2>3, <2>4, <2>5, <2>6, <2>7, <2>8 DEF ServerStep
<1> QED
  BY <1>1, StageOrder DEF Ended

\* Short of a wait that lasts, a request of the cell is over after nine steps of its
\* own, whatever fails, dies or is refreshed (fastems1 autopilot endpoints).
THEOREM StepsOfCallsRunOut == Spec => StepsRunOut
<1> DEFINE Step == \A r \in Request :
             /\ StepsAfter(stage'[r]) \in 0..StepsAfter(stage[r])
             /\ ServerStep(r) => StepsAfter(stage'[r]) # StepsAfter(stage[r])
<1>1. IInv /\ [Next]_vars => [Step]_vars
  <2> SUFFICES ASSUME IInv, Next, NEW r \in Request
               PROVE  /\ StepsAfter(stage'[r]) \in 0..StepsAfter(stage[r])
                      /\ ServerStep(r) => StepsAfter(stage'[r]) # StepsAfter(stage[r])
    OBVIOUS
  <2>0. TypeOK /\ stage[r] \in Stage /\ StepsAfter(stage[r]) \in 0..9
    BY StageOrder DEF IInv, TypeOK, ControlType
  <2>1. CASE Call(r) \/ ServerStep(r)
    BY <2>0, <2>1, StepUsesUp
  <2>2. ASSUME NEW q \in Request, q # r, Call(q) \/ ServerStep(q) PROVE stage'[r] = stage[r]
    BY <2>2, OthersKeep
  <2>3. ASSUME NEW w \in Worker, WorkerDies(w) PROVE stage'[r] \in {stage[r], "lost"}
    BY <2>3 DEF WorkerDies
  <2>4. ASSUME NEW o \in Op, FinishOperation(o) \/ IgnoreRunsOut(o) PROVE stage' = stage
    BY <2>4 DEF FinishOperation, IgnoreRunsOut
  <2>5. StepsAfter(stage'[r]) \in 0..StepsAfter(stage[r])
    <3>1. StepsAfter("lost") = 0
      BY StageOrder DEF Ended
    <3> QED
      BY <2>0, <2>1, <2>2, <2>3, <2>4, <3>1, StepUsesUp DEF Next, Call
  <2> QED
    BY <2>1, <2>5, StepUsesUp, <2>0
<1> QED
  BY <1>1, Invariance, PTL DEF Spec, StepsRunOut
=============================================================================
