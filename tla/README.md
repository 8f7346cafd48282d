# A TLA+ model of the LPG Core Platform API

This directory specifies the parts of the platform in which order, failure and concurrency
matter, checks them with TLC on small instances, and proves what matters most with TLAPS for
instances of every size. Paths below are relative to the repository's root, which the project's
tables call `src/`.

## 1. The system

A FastAPI service (`app/main.py`) in front of Microsoft Dynamics Business Central (the ERP) and
a few other systems. `entrypoint.sh` starts several uvicorn workers per container and
`README.md` deploys several containers, so requests that concern one purchase order, one item or
one cache file run concurrently without shared memory. Inside a worker one asyncio event loop
interleaves requests at every `await`. There are no distributed locks; what coordination exists
is a database table (idempotency), the ERP's own records, and in-process asyncio locks.

| component | state | operations | interacts with | module |
| --- | --- | --- | --- | --- |
| PO line updates (`domain/purchasing_service.py`, `adapters/erp_client.py`) | none of its own | update date, price, quantity | ERP lines (GET, PATCH with retries), idempotency and audit tables | `POLineUpdates` |
| Receipts (same files) | none | create_receipt: edit the order, start a posting job | ERP order fields and job queue, both tables | `ReceiptPosting` |
| Returns (same files) | none | create_return: header, lines, reason, read back | ERP return orders, both tables | `KeyedWrites` |
| Idempotency and audit (`audit.py`) | two tables | get, save, write, clean-up | every write operation of purchasing, replies to conversations | in the three above, without the clean-up jobs |
| Customer geocode cache (`domain/erp/customer_geocode_cache.py`) | entries, tasks in flight, lock, semaphore, SQLite file | get_cached, get_or_fetch, schedule_refresh, warm-up, load | Google, `/bc/customers`, start-up | `GeocodeCache` |
| Fastems1 autopilot (`domain/usinage/fastems1/autopilot`) | plan batches, jobs, decisions, ignores, machine status, setup sessions | refresh plan, next suggestion, refuse, ignore | Fastems and Business Central APIs, SQL | `Autopilot`, without setup sessions and pallets |
| Planner KPI snapshots (`domain/kpi`) | four tables of an SQLite file | daily report, history, prune, nightly job | Business Central OData, scheduler | `PlannerKpi` |
| Items (`domain/erp/item_service.py`) | none | update under ETag, create from template, reads | ERP items | `ItemUpdate`, the writes |
| Conversations (`domain/communications`) | none | reply, comment, archive, snooze, reads | Front, both tables | `KeyedWrites`, replies and comments |
| Sandvik client (`domain/sandvik/client.py`) | access token | fetch metrics | Sandvik API | none |
| Sessions and wiring (`db.py`, `main.py`, `deps.py`) | engines, scheduler | session per request, clean-up jobs | SQL Server | none |
| Read-only aggregations (availability, tariffs, vendors, item attributes, finance, service catalogue, MRP, missing parts, ClickUp, Zendesk) | per-request caches | queries, CRUD of single rows | ERP, SQL, web APIs | none |
| Documents, OCR, AI, EDI, file share | none | extraction, formatting, transmission | OpenAI, OCR engines, files | none |

What makes each hard, and what would make it correct:

* **PO line updates.** A request reads the line, validates it, and PATCHes it without If-Match;
  a PATCH whose answer times out may still be applied; the record of the answer and the audit
  row are separate transactions after the ERP has changed; two requests with one key race.
  Correct means: a PATCH is legal on the line it changes, refusals leave no trace, answers and
  audit rows are backed by ERP changes, and every request ends.
* **Receipts.** The order's quantity-to-receive fields are shared by all requests on the order,
  and a job of the ERP posts what they hold when it runs. Correct means: an undisturbed request
  is posted exactly, none twice, and a refused one writes nothing.
* **Returns and replies.** Several calls that nothing undoes, then a record and an audit row,
  and one table of keys for all endpoints. Correct means: an answer has its whole write behind
  it, half a return order still fits its receipt, and what was answered under a key is not done
  again.
* **Geocode cache.** A lock, a task table and a semaphore, with tasks that outlive the callers
  that created them, and a file shared with other workers. Correct means: one request per
  address at a time, no stale answer, no entry replaced by an older one, and every call returns.
* **Autopilot.** Suggestions are computed from a plan, ignores and machine status that change
  between the queries, in coroutines that call the database synchronously and whose sessions
  commit on a thread after they have returned. Correct means: a dispatch is backed by a decision
  and final, a job is given to one caller, a retired plan stays retired, a job that was refused
  stays away for the time agreed, and every request ends; where that is not so, it is known
  exactly what blocks.
* **Planner KPI.** Reports, snapshots and history points are written by filtered and unfiltered
  requests and by the nightly job, and pruned by all of them, one transaction each. Correct
  means: an answer is to its question, history shows what reports said, and the nightly job
  leaves no gap.
* **Items.** Read, compare, write under an ETag; or look, copy, read, write. Correct means: no
  lost update, one maker of an item, and a status that tells the truth.

`PROJECT.json` lists under "hazards" the places where these could go wrong.

## 2. The modules

| module | what it is |
| --- | --- |
| `UpdateContract` | what a request that writes under a key promises its client: the abstract specification that `POLineUpdates`, `ReceiptPosting` and `KeyedWrites` implement |
| `POLineUpdates` | the three line updates: handlers, ERP client with retries, idempotency, audit |
| `POLineUpdates_proofs` | theorems about it, its refinement of `UpdateContract` among them |
| `GeocodeCache` | the customer geocode cache with its two callers |
| `GeocodeCache_proofs` | theorems about it |
| `ReceiptPosting` | create_receipt, from the endpoint to the ERP's posting job |
| `ReceiptPosting_proofs` | theorems about it, its refinement of `UpdateContract` among them |
| `Autopilot` | plan refresh, suggestion, refusal and machine status of the Fastems1 cell, with sessions and event loops |
| `JobBoard` | the autopilot's tables as a board from which jobs are handed out: the abstract specification `Autopilot` implements |
| `Autopilot_proofs` | theorems about the tables |
| `JobBoard_proofs` | theorems about the refinement of `JobBoard` and about what blocks |
| `PlannerKpi` | the planner's report, history and nightly job on their SQLite file |
| `PlannerKpi_proofs` | theorems about it |
| `ItemUpdate` | update of an item under its ETag, creation of purchased and manufactured items |
| `ItemContract` | what the platform promises of the items it writes to: the abstract specification `ItemUpdate` implements |
| `ItemUpdate_proofs` | theorems about both |
| `KeyedWrites` | purchase returns and conversation replies beside each other, under keys of one table |
| `KeyedWrites_proofs` | theorems about it, its refinement of `UpdateContract` among them |
| `MC*` | small instances for TLC; they only define values for constants |

Definitions whose comment says "Mutant of" change one definition the way a plausible bug would.
Nothing refers to them; substituted for the original, each makes TLC find the property it
belongs to violated, which is how we know the property can fail.

### 2.1 POLineUpdates

A request is a process; `stage` is where it is in the handler, one stage per stretch of code
between two awaits or two transactions. `cmd` is its body: line, attribute, value and key. The
ERP's lines are `erp` (status and five attributes); `late` counts PATCHes that timed out and are
still travelling; `idem` and `audit` are the two tables. `replaced`, what PATCHes overwrote, and
`overtaken`, the requests whose line was edited or whose day passed after they had read it, are
observations: only properties read them.

| stage | code | actions |
| --- | --- | --- |
| idle | endpoint, body validation | `Arrive` |
| checking, purging | `get_idempotency_record` | `CheckIdempotency`, `PurgeExpired` |
| fetching | `get_poline`, `_validate_*` | `FetchAndValidate`, `FetchFails` |
| updating | `update_poline_*`, three attempts | `PatchLine`, `PatchRefused`, `PatchTimesOut`, and `DeliverLatePatch` of the network |
| reading | `get_poline` after the PATCH | `ReadBack`, `ReadBackFails` |
| saving, comparing, repurging | `save_idempotency_record` | `SaveRecord`, `SaveFails`, `CompareWithWinner`, `PurgeExpired` |
| auditing | `AuditContext.__exit__` | `WriteAudit`, `AuditFails` |

The environment may kill a worker, age a record, pass midnight, and edit the line. Three
constants tell the code as it stands from the code as designed.

* `PortRows`: the service reads `promise_date`, `unit_price` and `quantity` of the rows it gets,
  names that `ports.py` and the tests' stub give them. `ERPClient.get_poline` returns Business
  Central's own row (`erp_client.py:315`), which has none of them. FALSE is the shipped client:
  every read of a row is a KeyError.
* `ResponseEncodes`: FALSE is the code, because `json.dumps` rejects the Decimal and date values
  that `model_dump()` returns (`audit.py:120`).
* `AwareClock`: FALSE is the code, because a DATETIME2 column gives naive timestamps, which do
  not compare with an aware now (`audit.py:77`).

With any of them FALSE most of the code is unreachable. The passing runs set them to TRUE, so
what they show is of the service over an adapter with the port's names and over a table that
works; with FALSE for the first no request gets past its first read, and there is nothing for a
run to show. The theorems hold for all eight combinations. "What the code does otherwise" below
says what follows for the code as it stands.

`UpdateContract` is what the three kinds of keyed writes have in common: nobody is answered
before the ERP, or Front, holds the whole change and the audit row is written where one is owed;
a kept reply belongs to a request that is whole; a refused or replayed request never changes
anything, now or late. A write may take effect by halves and after its request has failed, and a
key may change things more than once: the contract promises neither, because the code does not.
`begun` and `whole` are, for an update, whether a PATCH of it was applied; for a receipt, whether
it has written to the order and whether its job exists; for a return or a message, whether
something, and whether all of it, is there.

### 2.2 GeocodeCache

A `Call` is one call of `get_or_fetch` (if in `Fetches`) or `schedule_refresh`, made by the
warm-up or by `/bc/customers`; a refresh task has the name of the call that created it. The event
loop makes everything between two awaits atomic, so a critical section without an await is one
step that needs `lock = None`; only `get_or_fetch` awaits inside one, and then `lock` names it.
`asked`, `answer` and `result` carry timestamps; what an entry says is left to the constant
`Geocode`. The order in which asyncio wakes waiters is left open. Of the errors of the file only
sqlite3.OperationalError is swallowed; with any other, `Persist` leaves `result` empty and the
task ends "broken": whoever awaits it gets the error. `SiblingPersists` stands for another
worker's write to the SQLite file. An API key is assumed to be configured: without it nothing is
geocoded.

### 2.3 ReceiptPosting

One order; orders do not share state. `toReceive` and `shipmentNo` are the order's fields, `job`
the ERP's queue. Each POST is a step that may lose its answer (`Answer`) or itself
(`CallIsLost`). The ERP's behaviour is not in the repository and is marked external: it posts
what the fields hold when the job runs, if that is something and not more than what is
outstanding, and proposes the rest again. `owner` and `touched` are observations. The answer
carries no retry (`_post_purchase_operation` has none). Keys work as in 2.1, with records that
expire (`aged`, and the stages purging, comparing and repurging) and records of other endpoints
(`Other`), which `ReceiptDTO(**cached)` cannot read. That no record is stored or read as the code
stands is the case in which each access to the table fails, which the faults include. With
`PortRows` FALSE nothing is outstanding on any line, since `.get("quantity", 0)` finds no such
name.

### 2.4 Autopilot

A request is of one of four kinds; `stage` is where it is in its endpoint, one stage per SQL
statement or stretch between two awaits.

| stage | code | actions |
| --- | --- | --- |
| planning, checking, picking | `refresh_plan` up to the pallets | `Refresh`, `ListOperations`, `ListMachineStatus`, `BeginBatch` |
| retiring, inserting | `create_plan_batch` | `Retire`, `InsertBatch` |
| asking, listing, hydrating, filtering, scoring, marking | `next_suggestion` | `Ask`, `FetchLatestPlanBatch`, `ListPlannedJobs`, `Hydrate`, `ListActiveIgnores`, `InsertDecision`, `MarkDispatched` |
| seeking, skipping | `refuse_job` | `Refuse`, `GetPlannedJob`, `MarkSkipped` |
| upserting, relisting | `set_machine_status` | `SetMachineStatus`, `UpsertMachineStatus`, `RelistMachines` |
| returned, committing | the rest of an endpoint, `get_autopilot_session` after its yield | `HandOver`, `Commit`, `CommitFails` |

`plan`, `decision`, `ignores` and `up` are the committed tables; `dirty` and `inserted` are what
an open session has written, and thereby locked. `loop` names the request that holds the event
loop of its worker from one statement to the next; another request of that worker moves only
when it is free, and so does the hand-over of a finished session to the thread that commits it
(FastAPI runs the exit of a generator dependency in a threadpool, after the endpoint has
returned). "returned" includes the await with which `/next` fetches details after it has marked
the job, with the row locked.

A statement that meets a lock waits with the loop in hand; SQL Server's locks are external. So
does a query: sessions are READ COMMITTED (`db.py:78`), and a query that meets rows an open
session has written waits for its commit (`QueryMeets`, `WaitsFor`). `ReadersWait` = FALSE is a
server with row versioning switched on, where queries see the rows before; the runs take TRUE,
the server's default, and the theorems hold for both. Two changes of machine status may wait for
each other's rows in the query that follows the upsert (`services.py:570`); the database ends
such a deadlock by rolling one of them back (`Deadlocked`), the failing query is swallowed, and
that request is answered though its change is gone.

An operation stands for the job key (work order, part, operation). `PlainOp` are those whose part
code in the production system is the decimal number kept in the tables; `IsIgnored` compares the
two as strings, as the code does. Which eligible job scores best is a choice of the model;
pallets, tools and the action plan are left out, as they change no table. Plans whose INSERT has
failed live on in `memory`, where jobs are numbered from 1. A suggestion from there marks the row
of the table that has the same number, if there is one, and so does a refusal whose query fails
or finds no row (`get_planned_job`, `repositories.py:361-380`); the ignore it inserts matches no
row (`JobRow`, `FromMemory`). `known`, `barred`, `retired`, `unmarked` and `blind` are
observations for the properties. `OnlyOverlapRevives` says how much a late dispatch may undo: the
status of a job that was refused or retired meanwhile, and nothing a call has not listed itself,
but for the row whose number a job from memory shares.

`JobBoard` hides statements, locks, sessions and workers: a request looks at the board, and
changes it once and all at once. A new plan takes the place of the plans it has found and of no
other, a job is handed out with a decision by a request it was on offer to, and nothing that was
given up or cancelled becomes planned again. For a job that is not on the board the mark may be
on another row, and a refusal of one may give up another. In the mapping `row` is the committed
table, `found` what a refresh has retired so far, and `offer` what is left of a suggestion's
list.

The last part of `Autopilot` is about blocking. `Ring(S)` is a set of requests that have
returned, each kept from its commit by a statement or a query on its own worker that waits for
one of them, directly or through one session that waits itself (`Delays`): a refusal that has
inserted its ignore and waits for its job, or a change of machine status that waits for others.
The smallest ring is one session whose rows the next call on the same worker needs
(`autopilot_stuck`), larger ones run through several workers. `FirmRing` leaves out the waits
that the rollback of a deadlock can end. `CanStep` spells out when a request can go on.

### 2.5 PlannerKpi

A request asks for a report or a history; a run of the nightly job asks both, one after the
other, for what it finds in the registry. `history`, `snaps`, `reports` and `registry` are the
four tables. Each operation on the file is a transaction that swallows its errors, so each
action has a branch in which it fails and the request goes on (`CacheFails`).

| stage | code | actions |
| --- | --- | --- |
| idle | endpoints and `parse_report_date`; `refresh_planner_kpi_cache` | `Arrive`, `JobStarts` |
| choosing | the job's loop over work centers, then the report | `NextQuestion` |
| registering, pruning | `register_workcenter`, `prune_older_than` | `Register`, `Prune` |
| looking, fetching, snapping, storing | `generate_report` | `LookUp`, `FetchReport`, `FetchFails`, `SaveSnapshots`, `StoreReport` |
| reading, comparing, fetching, keeping | `generate_workcenter_history` | `ReadPoints`, `ReadSnapshots`, `FetchHistory`, `FetchFails`, `KeepPoints` |

Days are numbers with a weekday. A figure is where it came from: a report or a history, under
which filter, fetched on which day; a report also names the work centers it had rows for. The
rows themselves and how they are added up are left out. `Normal` is the form of a filter in
cache keys. The work centers the job's semaphore lets overlap read and write different rows, so
they come one after the other in any order. `asked`, `gaps`, `unsaved`, `seen` and `pruned` are
observations: the last is the days some prune was about, since a request prunes by its own date,
and thus today's rows when it asks for a day far ahead.

### 2.6 ItemUpdate and ItemContract

An item card has fields and a version, which is its ETag. An update goes through reading,
patching and reloading; a creation through reading, copying and, for a purchased item, checking,
patching and reloading. Updates end in "answered", "conflict" (409) or "failed". A PATCH or a
copy the ERP refuses for a reason of its own, a template that is missing or a value it does not
take, is `WriteRefused`. A write that times out fails its request and may take effect later
(`latePatch`, `lateCopy`), the PATCH only if the version is still the one read. People edit the
card in between. Reads of items and prices are not modelled: they change nothing.

`ItemContract` knows only the fields, what each request has looked at, and who has made or
changed an item. It promises that changes go in together, once, onto what was looked at and
accepted; it does not promise that a purchased item that was made gets its data, which no retry
can mend, since the retry is told 409.

### 2.7 KeyedWrites

Returns, replies and comments share the table of keys and nothing else, and a key is bound
neither to an endpoint nor to a body. The stages of a return are checking, validating, making
(header), sending (one call for each line), remarking, reading, saving and auditing; those of a
message checking, posting, saving and auditing. `docs` and `at` are the return order a request
has made and how much of its body is in it, `sent` the messages that went out, `overdue` calls
without an answer that may still take effect. `Other` is a record of another endpoint. Records
expire (`aged`) and are deleted by whoever finds them so (purging), also after losing the race
to store one (comparing, repurging). With `ResponseEncodes` FALSE, which is the code, a keyed
reply fails when its record is to be stored; with TRUE it fails one step later, since
`write_audit_log` is called without its `action`. A comment ignores its key once it has looked
at it: it is answered, and no record kept.

## 3. What is checked

| run | instance | shows |
| --- | --- | --- |
| `po_interleaving` | 2 requests, date, quantity and price, 2 keys, 2 days, 1 edit in the ERP, PATCHes that time out | `TypeOK`, `PatchIsLegal` |
| `po_faults` | 2 requests, all faults, received line | `AuditTrailIsSound`, `ReplyWasEarned`, `EveryRequestEnds`, and `ImplementsContract`: the handlers refine `UpdateContract` |
| `geo_calls` | 3 calls for one address, 1 permit, TTL 1 of clock 0..2, 1 restart | `TypeOK`, `InFlightIsAccurate`, `AnswerWasCurrent`, `OnlyJoinersBlock`, `MemoryNeverGoesBack`, `EveryCallReturns` |
| `geo_deadlock` | 2 get_or_fetch calls for one address | both wait for ever |
| `receipt_requests` | 2 requests on 2 lines, 5 bodies, all faults | `TypeOK`, `UndisturbedReceiptIsExact`, `EveryReceiptHasItsTrail`, `EveryReceiptRequestEnds`, and `ImplementsContract`: the handler refines `UpdateContract` |
| `autopilot_cell` | 3 requests on 2 workers in six mixes, 1 operation, 2 machines, all faults | `TypeOK`, `LaterSuggestionsDiffer`, `PlainRefusedJobStaysAway`, `RetiredPlansStayDead`, `OnlyOverlapRevives`, `OnlyRingsBlock`, `EndsUnlessStuck`, and `ImplementsJobBoard`: the endpoints refine `JobBoard` |
| `autopilot_stuck` | 3 suggestions on one worker, 2 operations, no faults | two of them hang for ever |
| `kpi_reports` | 6 pairs of reports, histories and jobs, 1 work center, 2 filters, a weekend and a midnight, all faults | `TypeOK`, `AnswerIsToTheQuestion`, `ReportedDaysHaveSnapshots`, `HistoryShowsReportedFigures`, `JobLeavesNoGap` |
| `kpi_filter` | a filtered report and a history, no faults | a history with figures of a filter it did not ask for |
| `item_writes` | 3 requests on one item with 2 fields, edits up to version 3, all faults | `TypeOK`, `OutcomeIsHonest`, and `ImplementsItemContract`: the handlers refine `ItemContract` |
| `keyed_writes` | 3 requests, 2 lines, 1 key, 20 mixes, all faults | `TypeOK`, `AnswerIsGenuine`, `ReturnFitsReceipt`, and `ImplementsContract`: the handlers refine `UpdateContract` |
| `keyed_repeat` | one reply or one comment sent twice under one key, records that cannot be encoded, no faults | the comment is posted twice (and so is the reply, if the comment is left out) |

Deadlock is not checked: every system here stops when its clients do.

**Bounds.** Requests on different lines, orders or addresses share nothing but keys, so one
line, one order and one address with two or three requests contain every interaction; two
overlapping requests show each race of the hazard list, a third lets one observe what two others
left. Two attributes besides the one a request writes are enough for the rules. Three attempts
are the code's own number. TTL 1 in a clock of three values has entries that are fresh, at the
limit and stale. In `Autopilot` the operations of a plan meet only in the choice of the best, so
the runs with faults have one; the mixes of `autopilot_cell` put together the kinds of request
that write the same rows, on one worker and on two, with and without a plan made before, so that
rings through one worker and through both and a deadlock come about. In `PlannerKpi` tables are
keyed by work center, so one suffices; the days span a weekend, retentions of 1 and 4 days let a
report prune what a history needs, and the pairs are those that write or prune the same rows. In
`ItemUpdate` and `KeyedWrites` the third request comes after two that overlap; version 3 leaves
room for an edit before and after each request's PATCH; two lines are the fewest for a half-made
return order; a record of another endpoint may be there from the start. One edit and one restart
suffice to place one anywhere. The proofs remove the bounds.

**Fairness.** Weak fairness of the server's own steps: once started, a request or task goes on,
because every HTTP call has a timeout (`settings.request_timeout`), database calls return or
raise, and the event loop runs what is ready. Nothing is assumed of clients, of the ERP's job
queue, of the clock, or of faults. `EveryCallReturns` excepts states in which a call has joined
another's task; that exception is the finding of `geo_deadlock`. In `Autopilot` the fairness of a
request is that of its steps while it does not wait for a lock, since no lock timeout is
configured, or while it is in a deadlock, which the database ends: `WF_vars((~Waits(r) \/
Deadlocked(r)) /\ ServerStep(r))`. `EndsUnlessStuck` excepts a worker whose loop stays with a
waiting request while one of its own sessions cannot commit, which is the finding of
`autopilot_stuck`. No run asks for the end of requests in `PlannerKpi`, `ItemUpdate` and
`KeyedWrites`: nothing there waits for anything but time, and what is left of that question, that
no loop goes on for ever, is `StepsRunOut` for the first and the last and plain to see in the
second, whose requests only move forward.

## 4. What is proved

Every property of every passing run, but for liveness, is also proved. The constants that tell
the code from its design (`PortRows`, `ResponseEncodes`, `AwareClock`, `ReadersWait`) have no
value in the theorems. Of liveness the half that is safety is proved too (4.2).

### 4.1 Invariants, action properties and refinements

`POLineUpdates_proofs` proves for any number of requests, lines, keys and commands, any fault
set and any bound: `TypeCorrect`, `AuditTrailSound`, `RefusalTraceless`, `RepliesEarned`,
`PatchesLegal`, `StoredReplyStable`, and `HandlersImplementContract`. (`RefusalLeavesNoTrace` and
`StoredReplyIsStable` are proved and in no run: they follow closely from the guards of single
actions.) None of the properties is inductive: they speak of requests that have ended, or of a
PATCH that arrives long after it was validated. `IInv` adds what a request on its way has done
and knows: that it has patched nothing before "updating" and something after it, that audit rows
appear only with the answer, and that a record's author has left the ERP behind it. `PatchesLegal`
needs that the line as it is now still accepts what was validated on an earlier one, as long as
its request is not `overtaken`, although other requests have PATCHed the same line since: no rule
of one attribute reads what the update of another writes, and no update changes a status or what
was received.

The three refinements of `UpdateContract` (`HandlersImplementContract`,
`ReceiptsImplementContract`, `KeyedWritesImplementContract`) map a stage to a phase and a record
to its author, and show action by action that each is a step of the contract or a stutter. What
makes them more than bookkeeping is what comes late or by halves: a PATCH or a line of a return
may arrive after its request has failed, and a receipt may stop between its calls; none of it may
belong to a request that was refused or replayed. The invariants say whose it can be. In
`KeyedWrites` the record found under a key may be another endpoint's; it is not mapped to the
ledger, and a request that finds it fails, since it cannot be read as its reply.
`RefusalsTouchNothing` states the same of receipts by itself.

`GeocodeCache_proofs` proves `TypeCorrect`, `InFlightAccurate`, `AnswersCurrent` and
`MemoryMonotone` for any calls, keys, permits and TTL. `IInv` adds that no entry is from the
future, that a call creates at most one task and a task one entry, and that a get_or_fetch
awaits either its own task or, with the lock in hand, one that is alive. The last part also
gives `JoinersWedge`: a call that joined another's task never comes back, short of a restart;
the answer of `AnswersCurrent` therefore never comes from another's task.

`ReceiptPosting_proofs` proves `TypeCorrect`, `RefusalsTouchNothing`, `TrailComplete`
and `UndisturbedExact` for any number of requests and lines, any bodies and
faults. `IInv` adds what each request has written and enqueued at each stage (`RequestInv`) and
what the order holds while one request has been its only writer (`OwnerInv`): after the n-th
call of updateToReceiveLine, what the first n lines of the body ask for. `AskedNext` is the step
of that induction, with repeated lines. It needs a body's references to be a finite set, which
every JSON body's are.

`Autopilot_proofs` proves `TypeCorrect`, `DispatchNamed`, `LaterDiffer`, `RefusedStaysAway`,
`RetiredStayDead` and `RevivedByOverlap` for any number of requests, workers, operations and
machines, any mix of requests and any faults. The properties speak of committed tables, so
`IInv` says what open sessions hold: `LockInv` what each lock may turn its row into, and that no
two sessions hold the same row; `RetiredInv` that the jobs a refresh found planned are locked by
it until they are cancelled for good; `DecisionInv` that a decision and the mark on its job are
in one transaction; `KnownInv` and `IgnoreInv` that what a suggestion read of them is still true
when it decides. Beneath these lies `BatchInv`: a batch number is in the table or, once its
INSERT has failed, dead for ever (`StepDead`), so a job from a worker's memory is never taken
for one of the table. `ViewInv` says that a job decided for was planned when it was listed,
which is what `RevivedByOverlap` comes down to at the commit. Each lemma has one step per
action; `StepNext` and the lemmas beside it say once what a step does to a request, for all that
follow.

`JobBoard_proofs` proves `EndpointsKeepBoard`: the endpoints implement `JobBoard`. A commit
publishes what a session has written bit by bit, so `BoardInv` says what that is, row by row and
kind by kind (`WriteOf`): a refresh has cancelled rows of plans it has found, a suggestion has
marked at most one row, a refusal at most one too, its own target or, for a job from memory, the
row that shares its number; and the rows beneath do not change meanwhile, since they are locked.
`BoardInvariance` is proved from `IInv`; `Commit`, split by kind of request, is then one step of
the board, and every other action a look at it or a stutter. The board's promise is independent
of how statements, locks and threads interleave, which is what the proof is about.

`PlannerKpi_proofs` proves `TypeCorrect`, `ReportsAnswerTheirQuestion`,
`StoredReportsHaveSnapshots`, `HistoriesShowReports` and `JobIsComplete` for any requests, work
centers, filters, retentions and faults. Its invariant says what a request still has to write
when others prune: a snapshot precedes its report, a day with a report's snapshot keeps one
until a prune is about that day, and what a history has read of such a day is still in its hands
when it answers.

`ItemUpdate_proofs` proves `TypeCorrect`, `OutcomesHonest`, `SingleMaker` and
`HandlersImplementItemContract` for any number of requests, items and edits. The key is
`SeenInv`: versions only grow and each stands for one set of fields, so a PATCH that the ERP
accepts meets what its request has read (`PatchInv`), however late it arrives.

`KeyedWrites_proofs` proves `TypeCorrect`, `AnswersGenuine` and `ReturnsFit` for any number of
requests, bodies of any length and any faults. `DocumentInv` says that an order holds the first
`at` lines of a validated body, `RecordInv` that what a record says is whole, and `ReplayInv`
that a replay had such a record of its own kind.

### 4.2 What blocks, and that steps run out

Fairness and ENABLED are beyond the prover, so a liveness property cannot be proved here. Two
facts it rests on can, and together they say why requests end:

* **Nothing blocks, except what is named.** `GeocodeCache`: while no get_or_fetch has joined
  another's task, every call and task under way has a step that can be taken (`OnlyJoinersBlock`,
  theorem `NothingElseBlocks`); `JoinersWedge` says that such a joiner never returns.
  `Autopilot`: whenever requests are under way and no ring is closed, one of them can take a step
  (`OnlyRingsBlock`, theorem `NothingElseBlocks`), queries that wait included; and a firm ring
  lasts for ever and its workers with it, as long as no statement or query fails and nothing is
  restarted (`RingsLast`). Rings are the only way in which the cell's endpoints can hang, and
  only those in which a deadlock can be rolled back may dissolve. The argument is that of a
  wait-for graph: locks are held only by sessions that insert, wait with a first write of their
  own, have returned or commit; a loop is held only by a statement or query of its own worker
  (`LoopInv`); sessions that wait for each other with a first write are in a deadlock, and one of
  them can step; so if nobody can step, the sessions that have returned wait for each other, at
  most through one that waits. `JobsInv` says that what a statement is about is there. `CanStep`,
  `CallMoves` and `TaskMoves` are written out as conditions on the state; that each is equivalent
  to the step being enabled was checked with TLC on the instances of section 3.
* **Steps run out** (`StepsRunOut` in `POLineUpdates`, `GeocodeCache`, `ReceiptPosting`,
  `Autopilot`, `PlannerKpi`, `KeyedWrites`). Each step of the service uses up one of finitely
  many of its request's, and no step of anybody, no fault and no late call gives one back:
  retries are counted, a body's lines come one after the other, the job's list of questions gets
  shorter. An update has at most `MaxAttempts` + 10 steps, a receipt of n lines 2n + 10, a keyed
  write n + 9, a request of the cell 9; in `PlannerKpi` the order is lexicographic. `StepsRunOut`
  is in no run, for the liveness properties ask for more on the same instances; it was checked
  there by hand before it was proved.

What stays with TLC: `EveryRequestEnds`, `EveryCallReturns`, `EveryReceiptRequestEnds` and
`EndsUnlessStuck`, for the fairness in them.

### 4.3 Assumptions

The proofs assume only the named ASSUMEs of the modules, which say what kind of values the
constants are; TLC evaluates them in every run.

### What the code does otherwise

Four runs show a disagreement between the code and what a document or comment says; their
findings in `PROJECT.json` quote both: `geo_deadlock`, `autopilot_stuck`, `kpi_filter`,
`keyed_repeat`. Two more bear on all that is said of line updates, receipts and keys:

* **Rows.** With the shipped `ERPClient` every line update raises KeyError before its PATCH, and
  every receipt is refused before its first call, because the rows it returns do not have the
  names the service reads (`erp_client.py:315`; `purchasing_service.py:119`, `282`, `470`,
  `747`). What the other runs and the theorems say of PATCHes, posted receipts and answers is
  said of the service over an adapter that gives rows the port's names, as the tests' stub does;
  over the shipped one those things do not occur. This needs no run: one read of one row decides
  it. Returns read other rows, and are not concerned.
* **Keys.** No idempotency record is ever stored or read as the code stands (`audit.py:120`,
  `audit.py:77`), so a key executes as often as it is sent, although `README.md:8` and
  `README.md:439` announce idempotency. But for comments, a request with a key makes its change
  and answers an error, and so does its retry (`keyed_repeat` shows it for messages). No
  property here says that a key is executed once, and none would be true; with a table that
  works it would still fail for comments (`keyed_repeat`), for requests that overlap and for
  records that have expired.

Others came up while modelling that need no run, being one line each:

* A request that fails after it has changed the ERP leaves no audit row, since `AuditContext`
  writes one only if nothing was raised (`audit.py:383-398`; compare `audit.py:183`). The trail
  that is checked is that of requests that were answered.
* A keyed reply with a table that works would be stored and then fail all the same, since
  `write_audit_log` lacks an argument; the client is told 500 "Failed to send reply"
  (`conversations.py:361-372`, `conversation_service.py:139-166`).
* A refusal that finds its job only in a worker's memory updates a row of the table that has
  nothing to do with it (`repositories.py:361-380`), and a suggestion from memory does the same.
* Of two changes of machine status that meet in a deadlock one is answered 200 and lost, since
  the query that fails is swallowed (`services.py:570`).
* An ignore compares the part id of the tables with the part code of the production system
  (`services.py:550`); a part whose code is not that number is suggested again although refused
  (`app/api/v1/usinage/fastems1/autopilot/prd.md:227`). Hence `PlainOp`.
* `next_suggestion` reads no machine status (`services.py:261-299`); `prd.md:53` says that
  unavailable machines get no job in suggestions.
* A report prunes history by the reports' retention (`planner_daily_report_service.py:133`).
* The clean-up jobs get `get_db_session` itself instead of a session (`main.py:100-119`).

## 5. Plan

In the order of importance. Items 1 to 9 are done.

1. `POLineUpdates`, `UpdateContract`, proofs.
2. `GeocodeCache`, proofs.
3. `ReceiptPosting`, proofs.
4. `Autopilot`, proofs.
5. `PlannerKpi`, proofs.
6. `ItemUpdate`, `ItemContract`, proofs.
7. `KeyedWrites`, proofs.
8. `JobBoard`, its refinement, and one `UpdateContract` for all keyed writes, with proofs.
9. What blocks and how many steps there are, with proofs (4.2).
10. Left: an abstract specification of the geocode cache as one register per address, and of the
    planner's file as a table of days, with their refinements; that a returned request of the
    cell outside every ring can always be brought to its commit, not only some request.
11. Left, of less weight: setup sessions and the choice of pallets in the autopilot's planner;
    the life of Sandvik's token.

## 6. Not modelled

* **Clean-up of the idempotency and audit tables.** As wired in `main.py`, the jobs fail on
  their first statement.
* **Setup sessions, scoring, pallets and the action plan of the autopilot.** Scoring is a choice
  of the model; pallets and action plans change no table; setup sessions have tables of their
  own, and are left for later.
* **Reads of items, conversations, orders and returns**, archiving and snoozing: single calls.
* **Sandvik client.** A token and its expiry in one object; the rest are queries.
* **Webhooks** of the ERP only log what they receive.
* **Availability, tariffs, vendors, attributes, finance, service catalogue, MRP, missing parts,
  ClickUp, Zendesk.** They aggregate what they fetch, keep no state that outlives a request, and
  have no order of steps to get wrong beyond a fetch and a transformation.
* **Documents, OCR, AI helpers, EDI and the file share.** Their risk is in the data, which tests
  reach; a model would have to restate the data.
* **`src/migration`.** Material of the system this one replaces: `api/internal_utility.py` is a
  JSON document of more than ten thousand lines that describes an API, `api/*.py` are old
  endpoint modules. Only its EDI module, which formats a document and sends the file, and
  `tariff_calculator_lib.py`, a calculation, are imported.
* **`routers/purchasing.py`** is not mounted by the application.

The last four items are by far the largest part of the repository's lines, and have no states to
model: the models cover the code that writes to shared records, not a share of the lines.
