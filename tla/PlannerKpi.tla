----------------------------- MODULE PlannerKpi -----------------------------
(***************************************************************************)
(* The planner's daily report and work center history: PlannerDailyReport- *)
(* Service on the SQLite file of PlannerKpiCache, and the nightly job      *)
(* refresh_planner_kpi_cache.  Every operation on the file is a            *)
(* transaction of its own and swallows its errors; requests of all the     *)
(* workers interleave between them.                                        *)
(*                                                                         *)
(* Days are numbered, day 0 being a Monday.  What a day's figures say is   *)
(* left out but for where they come from: a report or a history, under     *)
(* which filter of the task list, fetched on which day.                    *)
(***************************************************************************)
EXTENDS Integers, FiniteSets

CONSTANTS
  Request,          \* HTTP requests and runs of the nightly job
  Center,           \* work centers
  Filter,           \* OData filters on the task list, NoFilter among them
  Normal,           \* their form in cache keys: stripped, in lower case
  NoFilter, None, Yesterday,
  Day,              \* the days requests are about
  Clock,            \* the days they are made on
  Mix,              \* what clients and the scheduler may ask together
  ReportRetention,  \* planner_daily_report_cache_retention_days
  HistoryRetention, \* planner_kpi_cache_retention_days
  Faults            \* the kinds of failure that may happen

FaultKind == {"erp", "cache", "crash"}
Weekday(d) == d % 7

\* _last_business_day
LastBusinessDay(today) ==
  CASE Weekday(today) = 0 -> today - 3
    [] Weekday(today) = 6 -> today - 2
    [] OTHER -> today - 1

Question == [kind : {"report", "history"}, date : Day, center : Center \cup {None},
             filter : Filter, days : Nat \ {0}]
Body == [kind : {"report", "history", "job"}, date : Day \cup {Yesterday},
         center : Center \cup {None}, filter : Filter, days : Nat \ {0}]
Key == [date : Day, center : Center \cup {None}, filter : {Normal[f] : f \in Filter}]
Figure == [from : {"report", "history"}, filter : Filter, on : Clock]
Report == [to : Question, of : SUBSET Center, on : Clock, by : Request]

ASSUME DayAssumption == /\ Day \subseteq Int /\ Clock \subseteq Int
                        /\ \A t \in Clock : LastBusinessDay(t) \in Day
ASSUME MixAssumption ==
  \A mix \in Mix : /\ mix \in [Request -> Body]
                   /\ \A r \in Request : mix[r].kind = "history" => mix[r].center # None
ASSUME SettingAssumption == /\ ReportRetention \in Nat /\ HistoryRetention \in Nat
                            /\ NoFilter \in Filter /\ Faults \subseteq FaultKind
ASSUME DistinctAssumption == /\ None \notin Center \cup Figure \cup Report \cup Question
                             /\ Yesterday \notin Day

VARIABLES
  history,  \* table planner_kpi_history
  snaps,    \* table planner_daily_workcenter_snapshot
  reports,  \* table planner_daily_report_cache
  registry, \* table planner_kpi_registry
  today,
  body,     \* what each request asks
  stage,    \* where it is
  date,     \* posting_date of a job
  todo,     \* its questions that are not yet answered
  task,     \* the question a request or job works on
  points,   \* the history rows it has read
  shots,    \* the snapshot rows it has read
  fetched,  \* the report or figures it has fetched
  given,    \* the answer to a report request
  shown,    \* the answer to a history request
  asked,    \* observation: the work centers a job has found registered
  gaps,     \* observation: those whose refresh failed
  unsaved,  \* observation: requests with a failed operation on the file
  seen,     \* observation: the days with a snapshot when a history request began
  pruned    \* observation: the days some prune was about

tables == <<history, snaps, reports, registry>>
locals == <<body, date, todo, task, points, shots, fetched, given, shown>>
ghosts == <<asked, gaps, unsaved, seen, pruned>>
vars == <<tables, today, stage, locals, ghosts>>

Stage == {"idle", "choosing", "registering", "pruning", "looking", "reading", "comparing",
          "fetching", "snapping", "storing", "keeping", "answered", "failed", "lost"}
Ended == {"answered", "failed", "lost"}
Row == [Day -> Figure \cup {None}]
NoRow == [d \in Day |-> None]

TypeOK ==
  /\ history \in [Center -> Row] /\ snaps \in [Center -> Row]
  /\ reports \in [Key -> Report \cup {None}]
  /\ registry \subseteq Center
  /\ today \in Clock
  /\ body \in Mix
  /\ stage \in [Request -> Stage]
  /\ date \in [Request -> Day \cup {None}]
  /\ todo \in [Request -> SUBSET Question]
  /\ task \in [Request -> Question \cup {None}]
  /\ points \in [Request -> Row] /\ shots \in [Request -> Row]
  /\ fetched \in [Request -> Report \cup Figure \cup {None}]
  /\ given \in [Request -> Report \cup {None}]
  /\ shown \in [Request -> Row]
  /\ asked \in [Request -> SUBSET Center] /\ gaps \in [Request -> SUBSET Center]
  /\ unsaved \subseteq Request
  /\ seen \in [Request -> SUBSET Day]
  /\ pruned \subseteq Day

Init ==
  /\ history = [c \in Center |-> NoRow] /\ snaps = [c \in Center |-> NoRow]
  /\ reports = [k \in Key |-> None]
  /\ registry \in SUBSET Center
  /\ today \in Clock
  /\ body \in Mix
  /\ stage = [r \in Request |-> "idle"]
  /\ date = [r \in Request |-> None]
  /\ todo = [r \in Request |-> {}]
  /\ task = [r \in Request |-> None]
  /\ points = [r \in Request |-> NoRow] /\ shots = [r \in Request |-> NoRow]
  /\ fetched = [r \in Request |-> None]
  /\ given = [r \in Request |-> None]
  /\ shown = [r \in Request |-> NoRow]
  /\ asked = [r \in Request |-> {}] /\ gaps = [r \in Request |-> {}]
  /\ unsaved = {}
  /\ seen = [r \in Request |-> {}]
  /\ pruned = {}

GoTo(r, s) == stage' = [stage EXCEPT ![r] = s]
IsJob(r) == body[r].kind = "job"
Finish(r) == GoTo(r, IF IsJob(r) THEN "choosing" ELSE "answered")

\* An operation on the file fails and only logs a warning.
CacheFails(r) == "cache" \in Faults /\ unsaved' = unsaved \cup {r}
CacheWorks == UNCHANGED unsaved

-----------------------------------------------------------------------------
(***************************************************************************)
(* Requests and runs of the job arrive.                                    *)
(***************************************************************************)
\* Mutant of PostingDate: the word is passed on.
AsGiven(d) == d

\* parse_report_date
PostingDate(d) == IF d = Yesterday THEN LastBusinessDay(today) ELSE d
Asks(kind, d, center, filter, days) ==
  [kind |-> kind, date |-> d, center |-> center, filter |-> filter, days |-> days]

Begin(r, q) ==
  /\ task' = [task EXCEPT ![r] = q]
  /\ seen' = [seen EXCEPT ![r] = IF q.kind = "report" THEN {}
                                 ELSE {d \in Day : snaps[q.center][d] # None}]
  /\ GoTo(r, IF q.kind = "report" THEN "pruning" ELSE "registering")

Arrive(r) ==
  /\ stage[r] = "idle" /\ ~IsJob(r)
  /\ Begin(r, [body[r] EXCEPT !.date = PostingDate(body[r].date)])
  /\ UNCHANGED <<tables, today, body, date, todo, points, shots, fetched, given, shown,
                 asked, gaps, unsaved, pruned>>

\* Mutant of JobQuestions: only the report is refreshed.
OnlyTheReport(centers, d) ==
  IF centers = {} THEN {} ELSE {Asks("report", d, None, NoFilter, 1)}

\* One day of history for each registered work center, and the whole report.
JobQuestions(centers, d) ==
  IF centers = {} THEN {}
  ELSE {Asks("history", d, c, NoFilter, 1) : c \in centers}
       \cup {Asks("report", d, None, NoFilter, 1)}

JobStarts(r) ==
  LET yesterday == LastBusinessDay(today) IN
  /\ stage[r] = "idle" /\ IsJob(r)
  /\ date' = [date EXCEPT ![r] = yesterday]
  /\ \E centers \in {registry} \cup (IF "cache" \in Faults THEN {{}} ELSE {}) :
       /\ todo' = [todo EXCEPT ![r] = JobQuestions(centers, yesterday)]
       /\ asked' = [asked EXCEPT ![r] = centers]
  /\ GoTo(r, "choosing")
  /\ UNCHANGED <<tables, today, body, task, points, shots, fetched, given, shown,
                 gaps, unsaved, seen, pruned>>

\* The work centers come first, in any order, then the report.  Those the
\* semaphore lets overlap read and write different rows.
NextQuestion(r) ==
  /\ stage[r] = "choosing"
  /\ \/ /\ todo[r] = {} /\ GoTo(r, "answered")
        /\ UNCHANGED <<todo, task, seen>>
     \/ \E q \in todo[r] :
          /\ q.kind = "report" => todo[r] = {q}
          /\ todo' = [todo EXCEPT ![r] = @ \ {q}]
          /\ Begin(r, q)
  /\ UNCHANGED <<tables, today, body, date, points, shots, fetched, given, shown,
                 asked, gaps, unsaved, pruned>>

-----------------------------------------------------------------------------
(***************************************************************************)
(* Both questions prune first, all three tables alike.                     *)
(***************************************************************************)
Register(r) ==
  /\ stage[r] = "registering"
  /\ \/ registry' = registry \cup {task[r].center} /\ CacheWorks
     \/ UNCHANGED registry /\ CacheFails(r)
  /\ GoTo(r, "pruning")
  /\ UNCHANGED <<history, snaps, reports, today, locals, asked, gaps, seen, pruned>>

Retention(r) == IF task[r].kind = "report" THEN ReportRetention ELSE HistoryRetention
Old(r) == {d \in Day : d < task[r].date - Retention(r)}
Without(table, old) ==
  [c \in Center |-> [d \in Day |-> IF d \in old THEN None ELSE table[c][d]]]

\* Mutant of Prune: the snapshots of the cutoff day go as well.
PruneOneMore(r) ==
  LET last == task[r].date - Retention(r) IN
  /\ stage[r] = "pruning"
  /\ history' = Without(history, Old(r))
  /\ snaps' = Without(snaps, Old(r) \cup ({last} \cap Day))
  /\ reports' = [k \in Key |-> IF k.date \in Old(r) THEN None ELSE reports[k]]
  /\ pruned' = pruned \cup Old(r)
  /\ GoTo(r, IF task[r].kind = "report" THEN "looking" ELSE "reading")
  /\ UNCHANGED <<registry, today, locals, asked, gaps, unsaved, seen>>

Prune(r) ==
  /\ stage[r] = "pruning"
  /\ \/ /\ history' = Without(history, Old(r))
        /\ snaps' = Without(snaps, Old(r))
        /\ reports' = [k \in Key |-> IF k.date \in Old(r) THEN None ELSE reports[k]]
        /\ pruned' = pruned \cup Old(r)
        /\ CacheWorks
     \/ UNCHANGED <<history, snaps, reports, pruned>> /\ CacheFails(r)
  /\ GoTo(r, IF task[r].kind = "report" THEN "looking" ELSE "reading")
  /\ UNCHANGED <<registry, today, locals, asked, gaps, seen>>

-----------------------------------------------------------------------------
(***************************************************************************)
(* generate_report.                                                        *)
(***************************************************************************)
\* Mutant of KeyOf: the filter is left out.
KeyWithoutFilter(q) == [date |-> q.date, center |-> q.center, filter |-> Normal[NoFilter]]

\* _build_daily_report_cache_key
KeyOf(q) == [date |-> q.date, center |-> q.center, filter |-> Normal[q.filter]]

LookUp(r) ==
  LET hit == reports[KeyOf(task[r])] IN
  /\ stage[r] = "looking"
  /\ \/ /\ hit # None /\ given' = [given EXCEPT ![r] = hit] /\ Finish(r) /\ CacheWorks
     \/ hit = None /\ GoTo(r, "fetching") /\ UNCHANGED given /\ CacheWorks
     \/ GoTo(r, "fetching") /\ UNCHANGED given /\ CacheFails(r)
  /\ UNCHANGED <<tables, today, body, date, todo, task, points, shots, fetched, shown,
                 asked, gaps, seen, pruned>>

Within(q) == IF q.center = None THEN Center ELSE {q.center}

\* The ledger of the day and the task list; the work centers are those with rows.
FetchReport(r) ==
  /\ stage[r] = "fetching" /\ task[r].kind = "report"
  /\ \E of \in SUBSET Within(task[r]) :
       fetched' = [fetched EXCEPT
                     ![r] = [to |-> task[r], of |-> of, on |-> today, by |-> r]]
  /\ GoTo(r, "snapping")
  /\ UNCHANGED <<tables, today, body, date, todo, task, points, shots, given, shown,
                 ghosts>>

\* The service raises ERPError or ERPUnavailable and, when the ledger of a
\* report's day is empty, ValidationException.
FetchFails(r) ==
  /\ stage[r] = "fetching"
  /\ "erp" \in Faults \/ task[r].kind = "report"
  /\ IF IsJob(r)
     THEN /\ gaps' = [gaps EXCEPT ![r] = @ \cup ({task[r].center} \ {None})]
          /\ GoTo(r, "choosing")
     ELSE GoTo(r, "failed") /\ UNCHANGED gaps
  /\ UNCHANGED <<tables, today, locals, asked, unsaved, seen, pruned>>

FigureOf(report) == [from |-> "report", filter |-> report.to.filter, on |-> report.on]

SaveSnapshots(r) ==
  /\ stage[r] = "snapping"
  /\ \/ /\ snaps' = [c \in Center |-> [d \in Day |->
              IF c \in fetched[r].of /\ d = task[r].date THEN FigureOf(fetched[r])
              ELSE snaps[c][d]]]
        /\ CacheWorks
     \/ UNCHANGED snaps /\ CacheFails(r)
  /\ GoTo(r, "storing")
  /\ UNCHANGED <<history, reports, registry, today, locals, asked, gaps, seen, pruned>>

StoreReport(r) ==
  /\ stage[r] = "storing"
  /\ \/ reports' = [reports EXCEPT ![KeyOf(task[r])] = fetched[r]] /\ CacheWorks
     \/ UNCHANGED reports /\ CacheFails(r)
  /\ given' = [given EXCEPT ![r] = fetched[r]]
  /\ Finish(r)
  /\ UNCHANGED <<history, snaps, registry, today, body, date, todo, task, points, shots,
                 fetched, shown, asked, gaps, seen, pruned>>

-----------------------------------------------------------------------------
(***************************************************************************)
(* generate_workcenter_history.                                            *)
(***************************************************************************)
\* _business_days_between
Window(q) == {d \in Day : q.date - q.days < d /\ d <= q.date /\ Weekday(d) < 5}

RowsIn(row, q) ==
  [d \in Day |-> IF q.date - q.days < d /\ d <= q.date THEN row[d] ELSE None]

ReadPoints(r) ==
  /\ stage[r] = "reading"
  /\ \/ /\ points' = [points EXCEPT ![r] = RowsIn(history[task[r].center], task[r])]
        /\ CacheWorks
     \/ points' = [points EXCEPT ![r] = NoRow] /\ CacheFails(r)
  /\ GoTo(r, "comparing")
  /\ UNCHANGED <<tables, today, body, date, todo, task, shots, fetched, given, shown,
                 asked, gaps, seen, pruned>>

\* Mutant of Merge: a history point goes before a snapshot.
PointFirst(q, snap, point, new) ==
  [d \in Day |-> IF d \notin Window(q) THEN None
                 ELSE IF point[d] # None THEN point[d]
                 ELSE IF snap[d] # None THEN snap[d] ELSE new]

\* For each business day the snapshot, else the point, else what was computed.
Merge(q, snap, point, new) ==
  [d \in Day |-> IF d \notin Window(q) THEN None
                 ELSE IF snap[d] # None THEN snap[d]
                 ELSE IF point[d] # None THEN point[d] ELSE new]

\* Missing are the days without a point, whether or not they have a snapshot.
ReadSnapshots(r) ==
  LET q == task[r] IN
  /\ stage[r] = "comparing"
  /\ \/ shots' = [shots EXCEPT ![r] = RowsIn(snaps[q.center], q)] /\ CacheWorks
     \/ shots' = [shots EXCEPT ![r] = NoRow] /\ CacheFails(r)
  /\ \/ /\ \E d \in Window(q) : points[r][d] = None
        /\ GoTo(r, "fetching") /\ UNCHANGED shown
     \/ /\ \A d \in Window(q) : points[r][d] # None
        /\ shown' = [shown EXCEPT ![r] = Merge(q, shots'[r], points[r], None)]
        /\ Finish(r)
  /\ UNCHANGED <<tables, today, body, date, todo, task, points, fetched, given,
                 asked, gaps, seen, pruned>>

ToCache(r) == {d \in Window(task[r]) : shots[r][d] = None /\ points[r][d] = None}

FetchHistory(r) ==
  LET q == task[r]
      figure == [from |-> "history", filter |-> q.filter, on |-> today] IN
  /\ stage[r] = "fetching" /\ q.kind = "history"
  /\ fetched' = [fetched EXCEPT ![r] = figure]
  /\ shown' = [shown EXCEPT ![r] = Merge(q, shots[r], points[r], figure)]
  /\ IF ToCache(r) = {} THEN Finish(r) ELSE GoTo(r, "keeping")
  /\ UNCHANGED <<tables, today, body, date, todo, task, points, shots, given, ghosts>>

KeepPoints(r) ==
  /\ stage[r] = "keeping"
  /\ \/ /\ history' = [c \in Center |-> [d \in Day |->
              IF c = task[r].center /\ d \in ToCache(r) THEN fetched[r] ELSE history[c][d]]]
        /\ CacheWorks
     \/ UNCHANGED history /\ CacheFails(r)
  /\ Finish(r)
  /\ UNCHANGED <<snaps, reports, registry, today, locals, asked, gaps, seen, pruned>>

-----------------------------------------------------------------------------
(***************************************************************************)
(* The environment.                                                        *)
(***************************************************************************)
WorkerDies(r) ==
  /\ "crash" \in Faults /\ stage[r] \notin Ended \cup {"idle"}
  /\ GoTo(r, "lost")
  /\ UNCHANGED <<tables, today, locals, ghosts>>

Midnight ==
  /\ today + 1 \in Clock /\ today' = today + 1
  /\ UNCHANGED <<tables, stage, locals, ghosts>>

ServerStep(r) ==
  \/ NextQuestion(r) \/ Register(r) \/ Prune(r)
  \/ LookUp(r) \/ FetchReport(r) \/ FetchFails(r) \/ SaveSnapshots(r) \/ StoreReport(r)
  \/ ReadPoints(r) \/ ReadSnapshots(r) \/ FetchHistory(r) \/ KeepPoints(r)

Next ==
  \/ \E r \in Request : Arrive(r) \/ JobStarts(r) \/ ServerStep(r) \/ WorkerDies(r)
  \/ Midnight

Spec == Init /\ [][Next]_vars

-----------------------------------------------------------------------------
(***************************************************************************)
(* Properties.                                                             *)
(***************************************************************************)
\* A report is that of the day, the work center and the filter it was asked for,
\* although it may have been computed for somebody else.
AnswerIsToTheQuestion ==
  \A r \in Request : body[r].kind = "report" /\ stage[r] = "answered" =>
    /\ given[r] # None
    /\ given[r].to.date = task[r].date /\ given[r].to.center = task[r].center
    /\ Normal[given[r].to.filter] = Normal[task[r].filter]
    /\ given[r].of \subseteq Within(task[r])

\* Where a report is stored, its work centers have a snapshot of that day, in
\* whatever order requests write and prune, unless writing it had failed or a
\* prune was about that day.
ReportedDaysHaveSnapshots ==
  \A k \in Key :
    reports[k] # None /\ reports[k].by \notin unsaved /\ k.date \notin pruned =>
      \A c \in reports[k].of : snaps[c][k.date] # None

\* A history shows for each day what a report said, if one had when it was asked:
\* no other history, and no point cached before, comes in between.
HistoryShowsReportedFigures ==
  \A r \in Request \ unsaved : body[r].kind = "history" /\ stage[r] = "answered" =>
    \A d \in (Window(task[r]) \cap seen[r]) \ pruned : shown[r][d].from = "report"

\* The nightly job, when it ends, leaves figures of the last business day for each
\* work center it has found registered, except where its own fetch failed.
JobLeavesNoGap ==
  \A r \in Request \ unsaved : IsJob(r) /\ stage[r] = "answered" =>
    \A c \in asked[r] \ gaps[r] :
      date[r] \in pruned \/ history[c][date[r]] # None \/ snaps[c][date[r]] # None

\* A request or a run of the job that has begun does not go round in circles: every
\* step either takes a question from those the run has left and adds none, or goes
\* on to a later stage of the one it works on, and no other request sets it back.
StepsAfter(s) ==
  CASE s = "registering" -> 9            [] s = "pruning" -> 8
    [] s \in {"looking", "reading"} -> 7  [] s = "comparing" -> 6
    [] s = "fetching" -> 5               [] s = "snapping" -> 4
    [] s \in {"storing", "keeping"} -> 3  [] s = "choosing" -> 1
    [] OTHER -> 0
UsesUp(r) ==
  \/ todo'[r] \subseteq todo[r] /\ todo'[r] # todo[r]
  \/ todo'[r] = todo[r] /\ StepsAfter(stage'[r]) < StepsAfter(stage[r])
StepsRunOut ==
  [][\A r \in Request :
       /\ ServerStep(r) => UsesUp(r)
       /\ stage[r] # "idle" =>
            UsesUp(r) \/ (todo'[r] = todo[r] /\ stage'[r] = stage[r])]_vars

-----------------------------------------------------------------------------
(***************************************************************************)
(* What the documents say and the code does not do.                        *)
(***************************************************************************)
\* router.py:101 "Optional extra OData filter to apply on WorkCenterTaskList.": the
\* figures of a history are computed under the filter of the request.
HistoryHonoursFilter ==
  \A r \in Request : body[r].kind = "history" /\ stage[r] = "answered" =>
    \A d \in Window(task[r]) : shown[r][d].filter = body[r].filter
=============================================================================
