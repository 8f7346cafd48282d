------------------------ MODULE GeocodeCache_proofs ------------------------
(***************************************************************************)
(* Proofs about GeocodeCache, for every number of calls, keys, permits and *)
(* for every TTL.                                                          *)
(***************************************************************************)
EXTENDS GeocodeCache, FiniteSetTheorems, TLAPS

\* The cache starts empty with no call made.
LEMMA InitInv == Init => IInv
  BY CallAssumption, NumberAssumption, NoneAssumption
  DEF Init, IInv, TypeOK, InFlightIsAccurate, ClockInv, AnswerWasCurrent,
      TaskInv, AwaitInv, LockInv, Joined, Live, Entry, CallStage, TaskStage

\* Every step of the callers, of the refresh tasks and of the environment
\* preserves the invariant.
LEMMA StepInv == IInv /\ [Next]_vars => IInv'
<1> SUFFICES ASSUME IInv, [Next]_vars PROVE IInv'
  OBVIOUS
<1> USE CallAssumption, NumberAssumption, NoneAssumption, PersistAssumption
<1> USE DEF IInv, TypeOK, InFlightIsAccurate, ClockInv, AnswerWasCurrent,
            TaskInv, AwaitInv, LockInv, Joined, Live, Entry, CallStage, TaskStage,
            CallTo, TaskTo, clockVars, storeVars, callVars, taskVars
<1>1. ASSUME NEW c \in Call, WarmUp(c) PROVE IInv'
  BY <1>1 DEF WarmUp
<1>2. ASSUME NEW c \in Call, ListCustomers(c) PROVE IInv'
  BY <1>2, SMTT(60) DEF ListCustomers
<1>3. ASSUME NEW c \in Call, GetOrFetch(c) PROVE IInv'
  BY <1>3, SMTT(60) DEF GetOrFetch, CreateTask, Fresh
<1>4. ASSUME NEW c \in Call, ScheduleRefresh(c) PROVE IInv'
  BY <1>4, SMTT(60) DEF ScheduleRefresh, CreateTask, Fresh
<1>5. ASSUME NEW c \in Call, Resume(c) PROVE IInv'
  BY <1>5, SMTT(60) DEF Resume
<1>6. ASSUME NEW c \in Call, AskGoogle(c) PROVE IInv'
  BY <1>6, SMTT(60) DEF AskGoogle, PermitFree
<1>7. ASSUME NEW c \in Call, GoogleAnswers(c) PROVE IInv'
  BY <1>7, SMTT(60) DEF GoogleAnswers
<1>8. ASSUME NEW c \in Call, Store(c) PROVE IInv'
  BY <1>8, SMTT(60) DEF Store
<1>9. ASSUME NEW c \in Call, Persist(c) PROVE IInv'
  BY <1>9, SMTT(60) DEF Persist
<1>10. ASSUME NEW c \in Call, Pop(c) PROVE IInv'
  BY <1>10, SMTT(60) DEF Pop
<1>11. ASSUME NEW k \in Key, SiblingPersists(k) PROVE IInv'
  BY <1>11, SMTT(60) DEF SiblingPersists
<1>12. CASE Tick
  BY <1>12, SMTT(60) DEF Tick
<1>13. CASE Restart
  BY <1>13, SMTT(60) DEF Restart
<1>14. CASE UNCHANGED vars
  BY <1>14 DEF vars
<1> QED
  BY <1>1, <1>2, <1>3, <1>4, <1>5, <1>6, <1>7, <1>8, <1>9, <1>10, <1>11, <1>12,
     <1>13, <1>14 DEF Next, CallStep, TaskStep

\* The invariant holds in every behaviour.
THEOREM Invariance == Spec => []IInv
  BY InitInv, StepInv, PTL DEF Spec

\* Type correctness.
THEOREM TypeCorrect == Spec => []TypeOK
<1>1. IInv => TypeOK
  BY DEF IInv
<1> QED
  BY Invariance, <1>1, PTL

\* self._in_flight names exactly the refresh tasks that are alive: at most one
\* request to Google per address at a time, for any number of calls
\* (customer_geocode_cache.py:302-366).
THEOREM InFlightAccurate == Spec => []InFlightIsAccurate
<1>1. IInv => InFlightIsAccurate
  BY DEF IInv
<1> QED
  BY Invariance, <1>1, PTL

\* get_or_fetch never returns what was older than the TTL when it was asked.
THEOREM AnswersCurrent == Spec => []AnswerWasCurrent
<1>1. IInv => AnswerWasCurrent
  BY DEF IInv
<1> QED
  BY Invariance, <1>1, PTL

\* Until the process ends, the cache loses no entry and takes no older one.
THEOREM MemoryMonotone == Spec => MemoryNeverGoesBack
<1> DEFINE Step == restarts' = restarts =>
             \A k \in Key : cache[k] # None =>
                cache'[k] # None /\ cache'[k].at >= cache[k].at
<1>1. IInv /\ [Next]_vars => [Step]_vars
  <2> SUFFICES ASSUME IInv, Next, restarts' = restarts,
                      NEW k \in Key, cache[k] # None
               PROVE  cache'[k] # None /\ cache'[k].at >= cache[k].at
    OBVIOUS
  <2> USE CallAssumption, NumberAssumption, NoneAssumption
      DEF storeVars, clockVars, IInv, TypeOK, ClockInv, Entry
  <2>1. ASSUME NEW c \in Call, ListCustomers(c) PROVE cache'[k] = cache[k]
    BY <2>1 DEF ListCustomers
  <2>2. ASSUME NEW c \in Call, Store(c)
        PROVE  cache'[k] # None /\ cache'[k].at >= cache[k].at
    BY <2>2 DEF Store
  <2>3. ASSUME NEW c \in Call,
               WarmUp(c) \/ CallStep(c) \/ AskGoogle(c) \/ GoogleAnswers(c)
               \/ Persist(c) \/ Pop(c)
        PROVE  cache'[k] = cache[k]
    BY <2>3 DEF WarmUp, CallStep, GetOrFetch, ScheduleRefresh, Resume, AskGoogle,
                GoogleAnswers, Persist, Pop
  <2>4. ASSUME Tick \/ \E j \in Key : SiblingPersists(j) PROVE cache' = cache
    BY <2>4 DEF Tick, SiblingPersists
  <2>5. ~Restart
    BY DEF Restart
  <2> QED
    BY <2>1, <2>2, <2>3, <2>4, <2>5 DEF Next, TaskStep
<1> QED
  BY Invariance, <1>1, PTL DEF Spec, MemoryNeverGoesBack

\* A get_or_fetch that finds another's task in flight awaits it with the lock
\* held and, short of a restart, never comes back nor lets the lock go
\* (customer_geocode_cache.py:315-317 against 365-366).
THEOREM JoinersWedge == Spec => JoinersNeverReturn
<1> DEFINE Step == \A c \in Call : Joined(c) /\ restarts' = restarts =>
                     Joined(c)' /\ lock' = c
<1>1. IInv /\ [Next]_vars => [Step]_vars
  <2> SUFFICES ASSUME IInv, Next, restarts' = restarts, NEW c \in Call, Joined(c)
               PROVE  Joined(c)' /\ lock' = c
    OBVIOUS
  <2>1. lock = c /\ task[waitsFor[c]] \in Live /\ call[c] = "awaiting"
    BY DEF IInv, AwaitInv, Joined
  <2> USE <2>1, NoneAssumption
      DEF Joined, IInv, TypeOK, Live, CallTo, callVars, clockVars
  <2>2. ASSUME NEW d \in Call, WarmUp(d) \/ ListCustomers(d) \/ ScheduleRefresh(d)
                               \/ GetOrFetch(d)
        PROVE  Joined(c)' /\ lock' = c
    BY <2>2 DEF WarmUp, ListCustomers, ScheduleRefresh, GetOrFetch
  <2>3. ASSUME NEW d \in Call, Resume(d) PROVE Joined(c)' /\ lock' = c
    BY <2>3 DEF Resume, AwaitInv
  <2>4. ASSUME NEW d \in Call, TaskStep(d) PROVE Joined(c)' /\ lock' = c
    BY <2>4 DEF TaskStep, AskGoogle, GoogleAnswers, Store, Persist, Pop
  <2>5. ASSUME Tick \/ \E k \in Key : SiblingPersists(k)
        PROVE  Joined(c)' /\ lock' = c
    BY <2>5 DEF Tick, SiblingPersists
  <2>6. ~Restart
    BY NumberAssumption DEF Restart
  <2> QED
    BY <2>2, <2>3, <2>4, <2>5, <2>6 DEF Next, CallStep
<1> QED
  BY Invariance, <1>1, PTL DEF Spec, JoinersNeverReturn
-----------------------------------------------------------------------------
(***************************************************************************)
(* Why calls come back: the two facts that need no fairness.               *)
(***************************************************************************)
\* While no call has joined another's task, nobody holds the lock, a call awaits its
\* own task, and a permit is missing only because a task is asking Google.
THEOREM NothingElseBlocks == Spec => []OnlyJoinersBlock
<1>1. IInv => OnlyJoinersBlock
  <2> SUFFICES ASSUME IInv, \A d \in Call : ~Joined(d), NEW c \in Call
               PROVE  /\ call[c] = "asking" => CallMoves(c)
                      /\ call[c] = "awaiting" => CallMoves(c) \/ task[c] \in Live
                      /\ task[c] \in Live =>
                           TaskMoves(c)
                           \/ (task[c] = "queued" /\ \E d \in Call : task[d] = "geocoding")
    BY DEF OnlyJoinersBlock
  <2>1. lock = None
    BY DEF IInv, TypeOK, LockInv
  <2>2. call[c] = "awaiting" => /\ waitsFor[c] = c
                                /\ task[c] \in Live \cup {"finished", "broken"}
    BY DEF Joined, IInv, TypeOK, TaskStage, Live, AwaitInv
  <2>3. PermitFree \/ \E d \in Call : task[d] = "geocoding"
    <3> SUFFICES ASSUME \A d \in Call : task[d] # "geocoding" PROVE PermitFree
      OBVIOUS
    <3>1. {d \in Call : task[d] = "geocoding"} = {}
      OBVIOUS
    <3>. QED  BY <3>1, FS_EmptySet, NumberAssumption DEF PermitFree
  <2>. QED  BY <2>1, <2>2, <2>3 DEF CallMoves, TaskMoves, Live
<1>. QED  BY <1>1, Invariance, PTL

\* The stages of a call and of its task are left in their order.
LEMMA StageOrder ==
  /\ CallAfter("idle") = 8 /\ CallAfter("asking") = 7 /\ CallAfter("awaiting") = 1
  /\ \A s \in {"returned", "served", "raised", "lost"} : CallAfter(s) = 0
  /\ TaskAfter("queued") = 5 /\ TaskAfter("geocoding") = 4 /\ TaskAfter("storing") = 3
  /\ TaskAfter("persisting") = 2 /\ TaskAfter("popping") = 1
  /\ \A s \in {"none", "finished", "broken"} : TaskAfter(s) = 0
  /\ \A s \in CallStage : CallAfter(s) \in Nat
  /\ \A s \in TaskStage : TaskAfter(s) \in Nat
BY DEF CallAfter, TaskAfter, CallStage, TaskStage

\* A step of a call or of its task uses up one of its steps; the task that a call
\* creates is paid for by the question it asked.
LEMMA StepUsesUp ==
  ASSUME IInv, NEW c \in Call, CallStep(c) \/ TaskStep(c)
  PROVE  Left(c)' \in 0..Left(c) /\ Left(c)' # Left(c)
<1>1. call[c] \in CallStage /\ task[c] \in TaskStage
  BY DEF IInv, TypeOK
<1>2. CASE GetOrFetch(c) \/ ScheduleRefresh(c)
  <2>1. /\ call[c] = "asking" /\ task[c] = "none"
        /\ call'[c] \in {"returned", "awaiting"} /\ task'[c] \in {"none", "queued"}
    BY <1>2, CallAssumption DEF GetOrFetch, ScheduleRefresh, CreateTask, CallTo, TaskTo,
       IInv, TypeOK, TaskInv
  <2>. QED  BY <2>1, StageOrder DEF Left
<1>3. CASE Resume(c)
  <2>1. call[c] = "awaiting" /\ call'[c] \in {"returned", "raised"} /\ task' = task
    BY <1>3 DEF Resume, CallTo, taskVars, IInv, TypeOK
  <2>. QED  BY <1>1, <2>1, StageOrder DEF Left
<1>4. CASE TaskStep(c)
  <2>1. /\ call' = call
        /\ \/ task[c] = "queued" /\ task'[c] = "geocoding"
           \/ task[c] = "geocoding" /\ task'[c] \in {"storing", "popping"}
           \/ task[c] = "storing" /\ task'[c] \in {"persisting", "popping"}
           \/ task[c] = "persisting" /\ task'[c] = "popping"
           \/ task[c] = "popping" /\ task'[c] \in {"finished", "broken"}
    BY <1>4 DEF TaskStep, AskGoogle, GoogleAnswers, Store, Persist, Pop, TaskTo, callVars,
       IInv, TypeOK
  <2>. QED  BY <1>1, <2>1, StageOrder DEF Left
<1>. QED  BY <1>2, <1>3, <1>4 DEF CallStep

\* No step of another call or task, of another worker or of time gives a step back, nor
\* does a restart.
LEMMA OthersUseNothing ==
  ASSUME IInv, Next, NEW c \in Call
  PROVE  Left(c)' \in 0..Left(c)
<1>1. call[c] \in CallStage /\ task[c] \in TaskStage /\ Left(c) \in Nat
  BY StageOrder DEF IInv, TypeOK, Left
<1>2. ASSUME NEW d \in Call, WarmUp(d) \/ ListCustomers(d) PROVE Left(c)' \in 0..Left(c)
  <2>1. /\ task' = task
        /\ \/ call'[c] = call[c]
           \/ call[c] = "idle" /\ call'[c] \in {"asking", "served"}
    BY <1>2 DEF WarmUp, ListCustomers, CallTo, taskVars, IInv, TypeOK
  <2>. QED  BY <1>1, <2>1, StageOrder DEF Left
<1>3. ASSUME NEW d \in Call, CallStep(d) \/ TaskStep(d), d # c PROVE Left(c)' = Left(c)
  BY <1>3 DEF CallStep, GetOrFetch, ScheduleRefresh, Resume, TaskStep, AskGoogle,
     GoogleAnswers, Store, Persist, Pop, CreateTask, CallTo, TaskTo, callVars, taskVars,
     IInv, TypeOK, Left
<1>4. CASE Tick \/ \E k \in Key : SiblingPersists(k)
  BY <1>1, <1>4 DEF Tick, SiblingPersists, callVars, taskVars, Left
<1>5. CASE Restart
  <2>1. /\ call'[c] = call[c] \/ call'[c] = "lost"
        /\ task'[c] = task[c] \/ task'[c] = "none"
    BY <1>5 DEF Restart, IInv, TypeOK
  <2>. QED  BY <1>1, <2>1, StageOrder DEF Left
<1>. QED  BY <1>1, <1>2, <1>3, <1>4, <1>5, StepUsesUp DEF Next

\* A call and its refresh task have at most eight steps, whatever fails and however
\* the calls interleave.
THEOREM StepsOfCallsRunOut == Spec => StepsRunOut
<1>1. IInv /\ [Next]_vars =>
        [\A c \in Call : /\ Left(c)' \in 0..Left(c)
                         /\ CallStep(c) \/ TaskStep(c) => Left(c)' # Left(c)]_vars
  BY StepUsesUp, OthersUseNothing
<1>. QED  BY <1>1, Invariance, PTL DEF Spec, StepsRunOut
=============================================================================
