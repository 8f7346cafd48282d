---------------------------- MODULE GeocodeCache ----------------------------
(***************************************************************************)
(* CustomerGeocodeCache: the customer-address cache in front of Google's   *)
(* geocoding service, with its asyncio lock, its table of refresh tasks in *)
(* flight, its semaphore and its SQLite file, and the two callers it has:  *)
(* the start-up warm-up and the /bc/customers endpoint.                    *)
(*                                                                         *)
(* One event loop runs everything, so a step goes from one await to the    *)
(* next.  No critical section but one awaits while it holds the lock; the  *)
(* others are single steps that need the lock to be free.                  *)
(***************************************************************************)
EXTENDS Integers, FiniteSets

CONSTANTS
  Call,            \* calls of get_or_fetch and schedule_refresh
  Key,             \* cache keys: a customer and the hash of an address
  KeyOf,           \* the key each call is about
  Fetches,         \* the calls that are get_or_fetch; others schedule_refresh
  None,            \* Python's None
  Geocode,         \* what an entry says: a position, or only Google's status
  MaxConcurrency,  \* permits of the semaphore around Google
  TTL,             \* self._ttl
  PersistEnabled,  \* google_geocode_persist_enabled
  MaxTime,         \* bound on the clock
  MaxRestarts      \* bound on restarts of the container

Entry == [at : 0..MaxTime, geocode : Geocode]

ASSUME CallAssumption == KeyOf \in [Call -> Key] /\ Fetches \subseteq Call
ASSUME NumberAssumption == /\ MaxConcurrency \in Nat \ {0}
                           /\ TTL \in Nat /\ MaxTime \in Nat /\ MaxRestarts \in Nat
ASSUME NoneAssumption == None \notin Entry \cup Call
ASSUME PersistAssumption == PersistEnabled \in BOOLEAN
ASSUME GeocodeAssumption == Geocode # {}

VARIABLES
  now,        \* the clock that stamps entries
  restarts,   \* how often the container was restarted
  cache,      \* self._cache
  disk,       \* the geocode_cache table
  inFlight,   \* self._in_flight: the call whose refresh task is running
  lock,       \* the call that holds self._lock across an await
  call,       \* where each call is
  asked,      \* when each call was made
  waitsFor,   \* the refresh task a get_or_fetch awaits
  answer,     \* what a call returned
  task,       \* where the refresh task a call created is
  result      \* the entry a refresh task has made of Google's answer

storeVars == <<cache, disk>>
callVars == <<call, asked, waitsFor, answer>>
taskVars == <<task, result>>
clockVars == <<now, restarts>>
vars == <<now, restarts, cache, disk, inFlight, lock, call, asked, waitsFor,
          answer, task, result>>

CallStage == {"idle", "asking", "awaiting", "returned", "served", "raised", "lost"}
TaskStage == {"none", "queued", "geocoding", "storing", "persisting", "popping",
              "finished", "broken"}
Live == {"queued", "geocoding", "storing", "persisting", "popping"}

TypeOK ==
  /\ now \in 0..MaxTime
  /\ restarts \in 0..MaxRestarts
  /\ cache \in [Key -> Entry \cup {None}]
  /\ disk \in [Key -> Entry \cup {None}]
  /\ inFlight \in [Key -> Call \cup {None}]
  /\ lock \in Call \cup {None}
  /\ call \in [Call -> CallStage]
  /\ asked \in [Call -> 0..MaxTime]
  /\ waitsFor \in [Call -> Call \cup {None}]
  /\ answer \in [Call -> Entry \cup {None}]
  /\ task \in [Call -> TaskStage]
  /\ result \in [Call -> Entry \cup {None}]

Init ==
  /\ now = 0 /\ restarts = 0
  /\ cache = [k \in Key |-> None]
  /\ disk = [k \in Key |-> None]
  /\ inFlight = [k \in Key |-> None]
  /\ lock = None
  /\ call = [c \in Call |-> "idle"]
  /\ asked = [c \in Call |-> 0]
  /\ waitsFor = [c \in Call |-> None]
  /\ answer = [c \in Call |-> None]
  /\ task = [c \in Call |-> "none"]
  /\ result = [c \in Call |-> None]

\* Mutant of Fresh: the age is not looked at.
Present(k) == cache[k] # None

\* An entry that _is_stale does not reject.
Fresh(k) == cache[k] # None /\ now - cache[k].at <= TTL

CallTo(c, s) == call' = [call EXCEPT ![c] = s]
TaskTo(c, s) == task' = [task EXCEPT ![c] = s]

-----------------------------------------------------------------------------
(***************************************************************************)
(* The callers.                                                            *)
(***************************************************************************)
\* The warm-up creates one get_or_fetch per customer or ship-to address.
WarmUp(c) ==
  /\ call[c] = "idle" /\ c \in Fetches
  /\ CallTo(c, "asking")
  /\ asked' = [asked EXCEPT ![c] = now]
  /\ UNCHANGED <<clockVars, storeVars, inFlight, lock, waitsFor, answer, taskVars>>

\* Mutant of ListCustomers: get_cached looks into the file first.
FileFirst(c) ==
  LET k == KeyOf[c]
      known == IF PersistEnabled /\ disk[k] # None THEN disk[k] ELSE cache[k]
  IN
  /\ call[c] = "idle"
  /\ asked' = [asked EXCEPT ![c] = now]
  /\ cache' = [cache EXCEPT ![k] = known]
  /\ IF known # None
     THEN CallTo(c, "served") /\ answer' = [answer EXCEPT ![c] = known]
     ELSE CallTo(c, "asking") /\ UNCHANGED answer
  /\ UNCHANGED <<clockVars, disk, inFlight, lock, waitsFor, taskVars>>

\* /bc/customers asks get_cached, which takes neither the lock nor the age of
\* the entry into account and reads the file when memory has no entry; only on
\* a miss does it go on to get_or_fetch or schedule_refresh.
ListCustomers(c) ==
  LET k == KeyOf[c]
      known == IF cache[k] = None /\ PersistEnabled THEN disk[k] ELSE cache[k]
  IN
  /\ call[c] = "idle"
  /\ asked' = [asked EXCEPT ![c] = now]
  /\ cache' = [cache EXCEPT ![k] = known]
  /\ IF known # None
     THEN CallTo(c, "served") /\ answer' = [answer EXCEPT ![c] = known]
     ELSE CallTo(c, "asking") /\ UNCHANGED answer
  /\ UNCHANGED <<clockVars, disk, inFlight, lock, waitsFor, taskVars>>

CreateTask(c) ==
  /\ inFlight' = [inFlight EXCEPT ![KeyOf[c]] = c]
  /\ TaskTo(c, "queued")

GetOrFetch(c) ==
  LET k == KeyOf[c] IN
  /\ call[c] = "asking" /\ c \in Fetches /\ lock = None
  /\ \/ /\ Fresh(k)
        /\ CallTo(c, "returned")
        /\ answer' = [answer EXCEPT ![c] = cache[k]]
        /\ UNCHANGED <<inFlight, lock, waitsFor, task>>
     \/ /\ ~Fresh(k) /\ inFlight[k] # None
        /\ CallTo(c, "awaiting")
        /\ waitsFor' = [waitsFor EXCEPT ![c] = inFlight[k]]
        /\ lock' = c            \* the await is inside the with-block
        /\ UNCHANGED <<inFlight, answer, task>>
     \/ /\ ~Fresh(k) /\ inFlight[k] = None
        /\ CallTo(c, "awaiting")
        /\ waitsFor' = [waitsFor EXCEPT ![c] = c]
        /\ CreateTask(c)
        /\ UNCHANGED <<lock, answer>>
  /\ UNCHANGED <<clockVars, storeVars, asked, result>>

ScheduleRefresh(c) ==
  LET k == KeyOf[c] IN
  /\ call[c] = "asking" /\ c \notin Fetches /\ lock = None
  /\ CallTo(c, "returned")
  /\ IF Fresh(k) \/ inFlight[k] # None
     THEN UNCHANGED <<inFlight, task>>
     ELSE CreateTask(c)
  /\ UNCHANGED <<clockVars, storeVars, lock, asked, waitsFor, answer, result>>

\* The awaited task has ended: its entry's geocode is returned, its exception
\* raised, and a lock held across the await is released.
Resume(c) ==
  LET t == waitsFor[c] IN
  /\ call[c] = "awaiting"
  /\ task[t] \in {"finished", "broken"}
  /\ IF task[t] = "finished"
     THEN CallTo(c, "returned")
          /\ answer' = [answer EXCEPT ![c] = result[t]]
     ELSE CallTo(c, "raised") /\ UNCHANGED answer
  /\ lock' = IF lock = c THEN None ELSE lock
  /\ UNCHANGED <<clockVars, storeVars, inFlight, asked, waitsFor, taskVars>>

-----------------------------------------------------------------------------
(***************************************************************************)
(* The refresh task.                                                       *)
(***************************************************************************)
\* Mutant of PermitFree: a request that raises keeps its permit.
PermitLeaks == Cardinality({d \in Call : task[d] \in {"geocoding", "broken"}}) < MaxConcurrency

\* The semaphore around Google.
PermitFree == Cardinality({d \in Call : task[d] = "geocoding"}) < MaxConcurrency

AskGoogle(c) ==
  /\ task[c] = "queued"
  /\ PermitFree
  /\ TaskTo(c, "geocoding")
  /\ UNCHANGED <<clockVars, storeVars, inFlight, lock, callVars, result>>

\* Mutant of GoogleAnswers: without the finally-block.
NoFinally(c) ==
  /\ task[c] = "geocoding"
  /\ \E s \in {"storing", "broken"} : TaskTo(c, s)
  /\ UNCHANGED <<clockVars, storeVars, inFlight, lock, callVars, result>>

\* The request is over; an HTTP error is an answer too (REQUEST_FAILED), any
\* other exception leaves the try-block.
GoogleAnswers(c) ==
  /\ task[c] = "geocoding"
  /\ \E s \in {"storing", "popping"} : TaskTo(c, s)
  /\ UNCHANGED <<clockVars, storeVars, inFlight, lock, callVars, result>>

\* Mutant of Store: an entry is stamped with its end, not with its beginning.
StoreExpiry(c) ==
  /\ task[c] = "storing" /\ lock = None
  /\ \E g \in Geocode :
       LET entry == [at |-> now + TTL, geocode |-> g] IN
       /\ cache' = [cache EXCEPT ![KeyOf[c]] = entry]
       /\ result' = [result EXCEPT ![c] = entry]
  /\ TaskTo(c, IF PersistEnabled THEN "persisting" ELSE "popping")
  /\ UNCHANGED <<clockVars, disk, inFlight, lock, callVars>>

Store(c) ==
  /\ task[c] = "storing" /\ lock = None
  /\ \E g \in Geocode :
       LET entry == [at |-> now, geocode |-> g] IN
       /\ cache' = [cache EXCEPT ![KeyOf[c]] = entry]
       /\ result' = [result EXCEPT ![c] = entry]
  /\ TaskTo(c, IF PersistEnabled THEN "persisting" ELSE "popping")
  /\ UNCHANGED <<clockVars, disk, inFlight, lock, callVars>>

\* A worker thread; after three OperationalErrors it gives up and logs, and any other
\* error of sqlite3 is raised by the task in the place of its result.
Persist(c) ==
  /\ task[c] = "persisting"
  /\ \/ disk' \in {disk, [disk EXCEPT ![KeyOf[c]] = result[c]]} /\ UNCHANGED result
     \/ result' = [result EXCEPT ![c] = None] /\ UNCHANGED disk
  /\ TaskTo(c, "popping")
  /\ UNCHANGED <<clockVars, cache, inFlight, lock, callVars>>

\* The finally-block.
Pop(c) ==
  /\ task[c] = "popping" /\ lock = None
  /\ inFlight' = [inFlight EXCEPT ![KeyOf[c]] = None]
  /\ TaskTo(c, IF result[c] = None THEN "broken" ELSE "finished")
  /\ UNCHANGED <<clockVars, storeVars, lock, callVars, result>>

-----------------------------------------------------------------------------
(***************************************************************************)
(* The environment.                                                        *)
(***************************************************************************)
Tick ==
  /\ now < MaxTime
  /\ now' = now + 1
  /\ UNCHANGED <<restarts, storeVars, inFlight, lock, callVars, taskVars>>

\* Another uvicorn worker refreshes an address in the file they share.
SiblingPersists(k) ==
  /\ PersistEnabled
  /\ \E g \in Geocode : disk' = [disk EXCEPT ![k] = [at |-> now, geocode |-> g]]
  /\ UNCHANGED <<clockVars, cache, inFlight, lock, callVars, taskVars>>

\* The container restarts: the tasks and their memory are gone, a changed
\* source empties the file, and load_from_storage runs before any call.
Restart ==
  /\ restarts < MaxRestarts
  /\ restarts' = restarts + 1
  /\ disk' \in {disk, [k \in Key |-> None]}
  /\ cache' = IF PersistEnabled THEN disk' ELSE [k \in Key |-> None]
  /\ inFlight' = [k \in Key |-> None]
  /\ lock' = None
  /\ call' = [c \in Call |-> IF call[c] \in {"asking", "awaiting"}
                            THEN "lost" ELSE call[c]]
  /\ task' = [c \in Call |-> IF task[c] \in Live THEN "none" ELSE task[c]]
  /\ UNCHANGED <<now, asked, waitsFor, answer, result>>

CallStep(c) == GetOrFetch(c) \/ ScheduleRefresh(c) \/ Resume(c)
TaskStep(c) == AskGoogle(c) \/ GoogleAnswers(c) \/ Store(c) \/ Persist(c) \/ Pop(c)

Next ==
  \/ \E c \in Call : WarmUp(c) \/ ListCustomers(c) \/ CallStep(c) \/ TaskStep(c)
  \/ \E k \in Key : SiblingPersists(k)
  \/ Tick
  \/ Restart

Spec == Init /\ [][Next]_vars

\* The event loop runs every task that is ready, and a request to Google ends
\* by its timeout (httpx.AsyncClient(timeout=settings.request_timeout)).
Fairness == \A c \in Call : WF_vars(CallStep(c)) /\ WF_vars(TaskStep(c))
FairSpec == Spec /\ Fairness

-----------------------------------------------------------------------------
(***************************************************************************)
(* Properties.                                                             *)
(***************************************************************************)
\* self._in_flight tells the truth, whatever fails and whatever is awaited: the
\* task it names for a key is alive and is about that key, and no other task
\* for the key is alive.  So Google is never asked twice at once for one
\* address, and no address is blocked by a task that is gone.
InFlightIsAccurate ==
  \A k \in Key, c \in Call :
    inFlight[k] = c <=> KeyOf[c] = k /\ task[c] \in Live

\* While the process lives, no entry of the cache is lost or replaced by an
\* older one, although get_cached writes to it without the lock, from a file
\* that other workers write (customer_geocode_cache.py:106).
MemoryNeverGoesBack ==
  [][restarts' = restarts =>
       \A k \in Key : cache[k] # None =>
          cache'[k] # None /\ cache'[k].at >= cache[k].at]_vars

\* What get_or_fetch returns was no older than the TTL when it was asked for,
\* however long the call waited for the lock or for the task.
AnswerWasCurrent ==
  \A c \in Fetches : call[c] = "returned" =>
     answer[c] # None /\ asked[c] - answer[c].at <= TTL

\* A get_or_fetch that joined the task of another call holds the lock.  Nothing else
\* blocks: while there is none, every call and every refresh task under way can take
\* its next step, except a task without a permit, and then a task that has one can.
Joined(c) == call[c] = "awaiting" /\ waitsFor[c] # c
CallMoves(c) ==
  \/ call[c] = "asking" /\ lock = None
  \/ call[c] = "awaiting" /\ task[waitsFor[c]] \in {"finished", "broken"}
TaskMoves(c) ==
  \/ task[c] = "queued" /\ PermitFree
  \/ task[c] \in {"geocoding", "persisting"}
  \/ task[c] \in {"storing", "popping"} /\ lock = None
OnlyJoinersBlock ==
  (\A d \in Call : ~Joined(d)) =>
    \A c \in Call :
      /\ call[c] = "asking" => CallMoves(c)
      /\ call[c] = "awaiting" => CallMoves(c) \/ task[c] \in Live
      /\ task[c] \in Live =>
           TaskMoves(c) \/ (task[c] = "queued" /\ \E d \in Call : task[d] = "geocoding")

\* And nothing goes on for ever: every step of a call or of its refresh task uses up
\* one of finitely many, and nothing gives one back.
CallAfter(s) ==
  CASE s = "idle" -> 8 [] s = "asking" -> 7 [] s = "awaiting" -> 1 [] OTHER -> 0
TaskAfter(s) ==
  CASE s = "queued" -> 5      [] s = "geocoding" -> 4  [] s = "storing" -> 3
    [] s = "persisting" -> 2  [] s = "popping" -> 1    [] OTHER -> 0
Left(c) == CallAfter(call[c]) + TaskAfter(task[c])
StepsRunOut ==
  [][\A c \in Call : /\ Left(c)' \in 0..Left(c)
                     /\ CallStep(c) \/ TaskStep(c) => Left(c)' # Left(c)]_vars

\* So every call of the cache comes back, whatever fails, unless one has joined.
EveryCallReturns ==
  \A c \in Call : call[c] \in {"asking", "awaiting"} ~>
     call[c] \in {"returned", "raised", "lost"} \/ \E d \in Call : Joined(d)
-----------------------------------------------------------------------------
(***************************************************************************)
(* The inductive invariant.                                                *)
(***************************************************************************)
\* No entry is from the future, in memory, on disk or under way, nor any call.
ClockInv ==
  /\ \A k \in Key : /\ cache[k] # None => cache[k].at <= now
                    /\ disk[k] # None => disk[k].at <= now
  /\ \A c \in Call : asked[c] <= now /\ (result[c] # None => result[c].at <= now)

\* A call creates at most one task, and a task makes at most one entry.
TaskInv(c) ==
  /\ call[c] \in {"idle", "asking"} => task[c] = "none" /\ result[c] = None
  /\ task[c] \in {"queued", "geocoding", "storing"} => result[c] = None
  /\ task[c] \in {"persisting", "finished"} => result[c] # None
  /\ call[c] = "awaiting" => waitsFor[c] # None

\* A get_or_fetch awaits its own task, whose entry can only be younger than the
\* question, or it sits on the lock that the other's task needs to end.
AwaitInv(c) ==
  call[c] = "awaiting" =>
    \/ /\ waitsFor[c] = c /\ task[c] # "none"
       /\ result[c] # None => result[c].at >= asked[c]
    \/ lock = c /\ task[waitsFor[c]] \in Live

\* The lock is held across an await by a call that joined, and by no other.
LockInv == lock # None => Joined(lock)

IInv == /\ TypeOK /\ InFlightIsAccurate /\ ClockInv /\ AnswerWasCurrent /\ LockInv
        /\ \A c \in Call : TaskInv(c) /\ AwaitInv(c)

\* A call that joined another's task never returns nor lets the lock go, short
\* of a restart.
JoinersNeverReturn ==
  [][\A c \in Call : Joined(c) /\ restarts' = restarts =>
       Joined(c)' /\ lock' = c]_vars
-----------------------------------------------------------------------------
(***************************************************************************)
(* What the documents say and the code does not do.                        *)
(***************************************************************************)
\* customer_geocode_cache.py:303, get_or_fetch: "Return cached geocode,
\* refreshing if missing or stale."
EveryFetchReturns ==
  \A c \in Fetches : call[c] = "asking" ~>
     call[c] \in {"returned", "raised", "lost"}
=============================================================================
