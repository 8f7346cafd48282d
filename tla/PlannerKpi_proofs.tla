-------------------------- MODULE PlannerKpi_proofs --------------------------
(***************************************************************************)
(* Proofs about PlannerKpi, for every number of requests, days and work    *)
(* centers, whatever they ask and whatever fails.                          *)
(***************************************************************************)
EXTENDS PlannerKpi, TLAPS

Working == {"registering", "pruning", "looking", "reading", "comparing", "fetching",
            "snapping", "storing", "keeping"}
OfHistory == {"registering", "reading", "comparing", "keeping"}
OfReport == {"looking", "snapping", "storing"}
Asking(r, kind) == stage[r] \in Working /\ task[r].kind = kind

\* A request works on a question of its kind, a job on those it has made.
TaskInv ==
  \A r \in Request :
    /\ stage[r] \in Working => task[r] # None
    /\ stage[r] \in OfHistory => task[r].kind = "history"
    /\ stage[r] \in OfReport => task[r].kind = "report"
    /\ stage[r] = "choosing" => IsJob(r)
    /\ ~IsJob(r) /\ stage[r] # "idle" => task[r] # None /\ task[r].kind = body[r].kind
    /\ task[r] # None /\ task[r].kind = "history" => task[r].center # None
    /\ \A q \in todo[r] : q.kind = "history" => q.center # None
    /\ stage[r] \in {"snapping", "storing"} =>
         /\ fetched[r] \in Report /\ fetched[r].to = task[r] /\ fetched[r].by = r
         /\ fetched[r].of \subseteq Within(task[r])
    /\ stage[r] = "keeping" => fetched[r] \in Figure

\* A stored report is under the key of its own question.
StoredInv ==
  \A k \in Key : reports[k] # None =>
    KeyOf(reports[k].to) = k /\ reports[k].of \subseteq Within(reports[k].to)

\* A request about to store its report has written the snapshots.
SnapInv ==
  \A r \in Request \ unsaved : stage[r] = "storing" /\ task[r].date \notin pruned =>
    \A c \in fetched[r].of : snaps[c][task[r].date] # None

\* Snapshots are the figures of reports.
SourceInv ==
  \A c \in Center, d \in Day : snaps[c][d] # None => snaps[c][d].from = "report"

\* The days that had a snapshot when a history was asked for have one until it is
\* read, and the history then holds it.
SeenInv ==
  \A r \in Request : \A d \in Day \ pruned : d \in seen[r] =>
    /\ Asking(r, "history") /\ stage[r] \notin {"fetching", "keeping"} =>
         snaps[task[r].center][d] # None
    /\ r \notin unsaved /\ d \in Window(task[r]) =>
         /\ Asking(r, "history") /\ stage[r] \in {"fetching", "keeping"} =>
              shots[r][d] # None /\ shots[r][d].from = "report"
         /\ body[r].kind = "history" /\ stage[r] \in {"keeping", "answered"} =>
              shown[r][d].from = "report"

\* What a history has read from the file is still there, unless pruned.
ReadInv ==
  \A r \in Request : \A d \in Day \ pruned : Asking(r, "history") =>
    /\ stage[r] \in {"comparing", "fetching", "keeping"} /\ points[r][d] # None =>
         history[task[r].center][d] # None
    /\ stage[r] \in {"fetching", "keeping"} /\ shots[r][d] # None =>
         snaps[task[r].center][d] # None

\* A job asks about one business day.
DayInv ==
  \A r \in Request : IsJob(r) /\ stage[r] # "idle" =>
    /\ date[r] \in Day /\ Weekday(date[r]) < 5
    /\ \A q \in todo[r] : q.date = date[r] /\ q.days = 1
    /\ stage[r] \in Working => task[r].date = date[r] /\ task[r].days = 1
    /\ stage[r] = "answered" => todo[r] = {}

\* A work center a job has found registered is still to come, at hand or done.
Covered(r, c) ==
  date[r] \in pruned \/ history[c][date[r]] # None \/ snaps[c][date[r]] # None

JobInv ==
  \A r \in Request \ unsaved : IsJob(r) /\ stage[r] \notin {"idle", "lost", "failed"} =>
    \A c \in asked[r] \ gaps[r] :
      \/ \E q \in todo[r] : q.kind = "history" /\ q.center = c
      \/ Asking(r, "history") /\ task[r].center = c
      \/ Covered(r, c)

IInv == /\ TypeOK /\ TaskInv /\ StoredInv /\ SnapInv /\ SourceInv /\ SeenInv /\ ReadInv
        /\ DayInv /\ JobInv
        /\ AnswerIsToTheQuestion /\ ReportedDaysHaveSnapshots

\* The last business day is one of Monday to Friday.
LEMMA LastBusinessDayType ==
  ASSUME NEW t \in Clock
  PROVE  LastBusinessDay(t) \in Day /\ Weekday(LastBusinessDay(t)) < 5
<1>1. t \in Int /\ LastBusinessDay(t) \in Day
  BY DayAssumption
<1>2. t % 7 \in 0..6
  BY <1>1
<1>3. t % 7 = 0 => (t - 3) % 7 = 4
  BY <1>1
<1>4. t % 7 = 6 => (t - 2) % 7 = 4
  BY <1>1
<1>5. t % 7 \in 1..5 => (t - 1) % 7 = (t % 7) - 1
  BY <1>1
<1> QED
  BY <1>1, <1>2, <1>3, <1>4, <1>5 DEF LastBusinessDay, Weekday

\* What a request asks.
LEMMA BodyType ==
  ASSUME TypeOK, NEW r \in Request
  PROVE  /\ body[r] \in Body
         /\ body[r].kind = "history" => body[r].center # None
         /\ PostingDate(body[r].date) \in Day
<1>1. body \in Mix /\ today \in Clock
  BY DEF TypeOK
<1>2. body \in [Request -> Body] /\ (body[r].kind = "history" => body[r].center # None)
  BY <1>1, MixAssumption
<1>3. body[r] \in Body
  BY <1>2
<1> QED
  BY <1>1, <1>2, <1>3, LastBusinessDayType DEF PostingDate, Body

\* A history is of a work center.
LEMMA TaskType ==
  ASSUME TypeOK, TaskInv, NEW r \in Request, stage[r] \in Working
  PROVE  /\ task[r] \in Question /\ task[r].date \in Day /\ task[r].filter \in Filter
         /\ task[r].kind \in {"report", "history"} /\ task[r].days \in Nat \ {0}
         /\ task[r].kind = "history" => task[r].center \in Center
         /\ Within(task[r]) \subseteq Center
         /\ KeyOf(task[r]) \in Key
<1>1. task[r] \in Question
  BY DEF TypeOK, TaskInv
<1>2. /\ task[r].date \in Day /\ task[r].filter \in Filter
      /\ task[r].center \in Center \cup {None}
      /\ task[r].kind \in {"report", "history"} /\ task[r].days \in Nat \ {0}
  BY <1>1 DEF Question
<1>3. task[r].kind = "history" => task[r].center # None
  BY <1>1, DistinctAssumption DEF TaskInv
<1>4. KeyOf(task[r]) \in Key
  BY <1>2 DEF KeyOf, Key
<1>5. Within(task[r]) \subseteq Center
  BY <1>2 DEF Within
<1> QED
  BY <1>1, <1>2, <1>3, <1>4, <1>5

\* No request has come and the tables are empty.
LEMMA InitInv == Init => IInv
<1> SUFFICES ASSUME Init PROVE IInv
  OBVIOUS
<1> USE DistinctAssumption DEF Init
<1>1. TypeOK
  BY DEF TypeOK, Stage, Row, NoRow
<1>2. TaskInv
  BY BodyType, <1>1 DEF TaskInv, Working, OfHistory, OfReport, IsJob
<1>3. StoredInv /\ SnapInv /\ SourceInv /\ DayInv /\ JobInv
  BY DEF StoredInv, SnapInv, SourceInv, DayInv, JobInv, NoRow, Working, OfReport, IsJob
<1>4. SeenInv /\ ReadInv
  BY DEF SeenInv, ReadInv, Asking, Working
<1> QED
  BY <1>1, <1>2, <1>3, <1>4
  DEF IInv, AnswerIsToTheQuestion, ReportedDaysHaveSnapshots

\* The rows the tables are made of.
LEMMA RowType ==
  ASSUME NEW q \in Question, NEW row \in Row, NEW other \in Row,
         NEW new \in Figure \cup {None}
  PROVE  NoRow \in Row /\ RowsIn(row, q) \in Row /\ Merge(q, row, other, new) \in Row
<1>1. NoRow \in Row /\ RowsIn(row, q) \in Row
  BY DEF NoRow, RowsIn, Row
<1>2. Merge(q, row, other, new) \in Row
  BY DEF Merge, Row
<1> QED
  BY <1>1, <1>2

\* Rows that are taken out leave a table.
LEMMA WithoutType ==
  ASSUME NEW table \in [Center -> Row], NEW old
  PROVE  Without(table, old) \in [Center -> Row]
<1> QED
  BY DEF Without, Row

\* Every question is one of the job's or the request's.
LEMMA QuestionType ==
  ASSUME NEW kind \in {"report", "history"}, NEW d \in Day, NEW c \in Center \cup {None},
         NEW f \in Filter, NEW n \in Nat \ {0}
  PROVE  Asks(kind, d, c, f, n) \in Question
<1> QED
  BY DEF Asks, Question

\* The job asks about work centers of the registry, and for the report.
LEMMA JobQuestionsType ==
  ASSUME NEW centers \in SUBSET Center, NEW d \in Day
  PROVE  /\ JobQuestions(centers, d) \subseteq Question
         /\ \A q \in JobQuestions(centers, d) :
              /\ q.kind = "history" => q.center # None
              /\ q.date = d /\ q.days = 1
<1>1. NoFilter \in Filter /\ 1 \in Nat \ {0}
  BY SettingAssumption
<1>2. JobQuestions(centers, d) \subseteq Question
  BY <1>1, QuestionType DEF JobQuestions
<1> QED
  BY <1>2, DistinctAssumption DEF JobQuestions, Asks

\* What a question asks is one of the questions.
LEMMA AskedType ==
  ASSUME TypeOK, NEW r \in Request, ~IsJob(r)
  PROVE  /\ [body[r] EXCEPT !.date = PostingDate(body[r].date)] \in Question
         /\ [body[r] EXCEPT !.date = PostingDate(body[r].date)].kind = body[r].kind
         /\ [body[r] EXCEPT !.date = PostingDate(body[r].date)].center = body[r].center
<1>1. body[r] \in Body /\ PostingDate(body[r].date) \in Day
  BY BodyType
<1>2. body[r].kind \in {"report", "history"}
  BY <1>1 DEF IsJob, Body
<1> QED
  BY <1>1, <1>2 DEF Body, Question

\* A job asks about work centers it has found registered.
LEMMA JobStartsType ==
  ASSUME TypeOK, NEW r \in Request, JobStarts(r)
  PROVE  \E centers \in SUBSET Center :
           /\ todo' = [todo EXCEPT ![r] = JobQuestions(centers, LastBusinessDay(today))]
           /\ asked' = [asked EXCEPT ![r] = centers]
<1> QED
  BY DEF JobStarts, TypeOK

\* Where a request that begins goes.
LEMMA BeginType ==
  ASSUME TypeOK, NEW r \in Request, NEW q \in Question, Begin(r, q)
  PROVE  /\ stage' \in [Request -> Stage]
         /\ task' \in [Request -> Question \cup {None}]
         /\ seen' \in [Request -> SUBSET Day]
<1> USE DEF Begin, TypeOK
<1>1. stage' \in [Request -> Stage]
  BY DEF GoTo, Stage
<1>2. task' \in [Request -> Question \cup {None}] /\ seen' \in [Request -> SUBSET Day]
  OBVIOUS
<1> QED
  BY <1>1, <1>2

\* Every step preserves the types.
LEMMA StepType == IInv /\ [Next]_vars => TypeOK'
<1> SUFFICES ASSUME IInv, [Next]_vars PROVE TypeOK'
  OBVIOUS
<1> USE DistinctAssumption
    DEF IInv, TypeOK, TaskInv, tables, locals, ghosts, CacheWorks, CacheFails
<1>1. ASSUME NEW r \in Request, Arrive(r) PROVE TypeOK'
  <2>1. Begin(r, [body[r] EXCEPT !.date = PostingDate(body[r].date)])
    BY <1>1 DEF Arrive
  <2> QED
    BY <1>1, <2>1, AskedType, BeginType DEF Arrive
<1>2. ASSUME NEW r \in Request, JobStarts(r) PROVE TypeOK'
  <2>1. stage' \in [Request -> Stage]
    BY <1>2 DEF JobStarts, GoTo, Finish, Stage
  <2>2. date' \in [Request -> Day \cup {None}]
    BY <1>2, LastBusinessDayType DEF JobStarts
  <2>3. todo' \in [Request -> SUBSET Question] /\ asked' \in [Request -> SUBSET Center]
    <3>1. PICK centers \in SUBSET Center :
            /\ todo' = [todo EXCEPT ![r] = JobQuestions(centers, LastBusinessDay(today))]
            /\ asked' = [asked EXCEPT ![r] = centers]
      BY <1>2, JobStartsType
    <3>2. JobQuestions(centers, LastBusinessDay(today)) \subseteq Question
      BY JobQuestionsType, LastBusinessDayType
    <3> QED
      BY <3>1, <3>2
  <2> QED
    BY <1>2, <2>1, <2>2, <2>3 DEF JobStarts
<1>3. ASSUME NEW r \in Request, NextQuestion(r) PROVE TypeOK'
  <2>1. CASE \E q \in todo[r] : todo' = [todo EXCEPT ![r] = todo[r] \ {q}] /\ Begin(r, q)
    <3>1. PICK q \in todo[r] : todo' = [todo EXCEPT ![r] = todo[r] \ {q}] /\ Begin(r, q)
      BY <2>1
    <3>2. todo[r] \in SUBSET Question
      OBVIOUS
    <3>3. q \in Question /\ todo[r] \ {q} \in SUBSET Question
      BY <3>1, <3>2
    <3>4. todo' \in [Request -> SUBSET Question]
      BY <3>1, <3>3
    <3> QED
      BY <1>3, <3>1, <3>3, <3>4, BeginType DEF NextQuestion
  <2>2. CASE GoTo(r, "answered") /\ UNCHANGED <<todo, task, seen>>
    <3>1. stage' \in [Request -> Stage]
      BY <2>2 DEF Stage, GoTo
    <3> QED
      BY <1>3, <2>2, <3>1 DEF NextQuestion
  <2> QED
    BY <1>3, <2>1, <2>2 DEF NextQuestion, Begin, GoTo
<1>4. ASSUME NEW r \in Request, Register(r) PROVE TypeOK'
  <2>1. stage' \in [Request -> Stage]
    BY <1>4 DEF Register, GoTo, Finish, Stage
  <2>2. registry' \subseteq Center /\ unsaved' \subseteq Request
    BY <1>4, TaskType DEF Register, Working, OfHistory
  <2> QED
    BY <1>4, <2>1, <2>2 DEF Register
<1>5. ASSUME NEW r \in Request, Prune(r) PROVE TypeOK'
  <2>1. stage' \in [Request -> Stage]
    BY <1>5 DEF Prune, GoTo, Finish, Stage
  <2>2. history' \in [Center -> Row] /\ snaps' \in [Center -> Row]
    BY <1>5, WithoutType DEF Prune
  <2>3. reports' \in [Key -> Report \cup {None}]
    BY <1>5 DEF Prune
  <2>4. pruned' \subseteq Day /\ unsaved' \subseteq Request
    BY <1>5 DEF Prune, Old
  <2> QED
    BY <1>5, <2>1, <2>2, <2>3, <2>4 DEF Prune
<1>6. ASSUME NEW r \in Request, LookUp(r) PROVE TypeOK'
  <2>1. stage' \in [Request -> Stage]
    BY <1>6 DEF LookUp, GoTo, Finish, Stage
  <2>2. given' \in [Request -> Report \cup {None}] /\ unsaved' \subseteq Request
    BY <1>6, TaskType DEF LookUp, Working
  <2> QED
    BY <1>6, <2>1, <2>2 DEF LookUp
<1>7. ASSUME NEW r \in Request, FetchReport(r) PROVE TypeOK'
  <2>1. stage' \in [Request -> Stage]
    BY <1>7 DEF FetchReport, GoTo, Finish, Stage
  <2>2. fetched' \in [Request -> Report \cup Figure \cup {None}]
    <3>1. PICK of \in SUBSET Within(task[r]) :
            fetched' = [fetched EXCEPT
                          ![r] = [to |-> task[r], of |-> of, on |-> today, by |-> r]]
      BY <1>7 DEF FetchReport
    <3>2. [to |-> task[r], of |-> of, on |-> today, by |-> r] \in Report
      BY <1>7, TaskType DEF FetchReport, Working, Report
    <3> QED
      BY <3>1, <3>2
  <2> QED
    BY <1>7, <2>1, <2>2 DEF FetchReport
<1>8. ASSUME NEW r \in Request, FetchFails(r) PROVE TypeOK'
  <2>1. stage' \in [Request -> Stage]
    BY <1>8 DEF FetchFails, GoTo, Finish, Stage
  <2>2. gaps' \in [Request -> SUBSET Center]
    <3>1. {task[r].center} \ {None} \subseteq Center
      BY <1>8, TaskType DEF FetchFails, Working, Question
    <3> QED
      BY <1>8, <3>1 DEF FetchFails
  <2> QED
    BY <1>8, <2>1, <2>2 DEF FetchFails
<1>9. ASSUME NEW r \in Request, SaveSnapshots(r) PROVE TypeOK'
  <2>1. stage' \in [Request -> Stage]
    BY <1>9 DEF SaveSnapshots, GoTo, Finish, Stage
  <2>2. fetched[r] \in Report
    BY <1>9 DEF SaveSnapshots
  <2>3. FigureOf(fetched[r]) \in Figure
    BY <2>2 DEF FigureOf, Report, Figure, Question
  <2>4. snaps' \in [Center -> Row] /\ unsaved' \subseteq Request
    BY <1>9, <2>3 DEF SaveSnapshots, Row
  <2> QED
    BY <1>9, <2>1, <2>4 DEF SaveSnapshots
<1>10. ASSUME NEW r \in Request, StoreReport(r) PROVE TypeOK'
  <2>1. stage' \in [Request -> Stage]
    BY <1>10 DEF StoreReport, GoTo, Finish, Stage
  <2>2. reports' \in [Key -> Report \cup {None}] /\ given' \in [Request -> Report \cup {None}]
    BY <1>10 DEF StoreReport
  <2> QED
    BY <1>10, <2>1, <2>2 DEF StoreReport
<1>11. ASSUME NEW r \in Request, ReadPoints(r) PROVE TypeOK'
  <2>1. stage' \in [Request -> Stage]
    BY <1>11 DEF ReadPoints, GoTo, Finish, Stage
  <2>2. task[r] \in Question /\ task[r].center \in Center /\ None \in Figure \cup {None}
    BY <1>11, TaskType DEF ReadPoints, Working, OfHistory
  <2>3. history[task[r].center] \in Row
    BY <2>2
  <2>4. RowsIn(history[task[r].center], task[r]) \in Row /\ NoRow \in Row
    BY <2>2, <2>3, RowType
  <2>5. points' \in [Request -> Row] /\ unsaved' \subseteq Request
    BY <1>11, <2>4 DEF ReadPoints
  <2> QED
    BY <1>11, <2>1, <2>5 DEF ReadPoints
<1>12. ASSUME NEW r \in Request, ReadSnapshots(r) PROVE TypeOK'
  <2>1. stage' \in [Request -> Stage]
    BY <1>12 DEF ReadSnapshots, GoTo, Finish, Stage
  <2>2. task[r] \in Question /\ task[r].center \in Center /\ None \in Figure \cup {None}
    BY <1>12, TaskType DEF ReadSnapshots, Working, OfHistory
  <2>3. snaps[task[r].center] \in Row
    BY <2>2
  <2>4. shots' \in [Request -> Row] /\ unsaved' \subseteq Request
    BY <1>12, <2>2, <2>3, RowType DEF ReadSnapshots
  <2>5. Merge(task[r], shots'[r], points[r], None) \in Row
    BY <2>2, <2>4, RowType
  <2>6. shown' \in [Request -> Row]
    BY <1>12, <2>5 DEF ReadSnapshots
  <2> QED
    BY <1>12, <2>1, <2>4, <2>6 DEF ReadSnapshots
<1>13. ASSUME NEW r \in Request, FetchHistory(r) PROVE TypeOK'
  <2>1. stage' \in [Request -> Stage]
    BY <1>13 DEF FetchHistory, GoTo, Finish, Stage
  <2> DEFINE figure == [from |-> "history", filter |-> task[r].filter, on |-> today]
  <2>2. task[r] \in Question /\ figure \in Figure
    BY <1>13, TaskType DEF FetchHistory, Working, Figure
  <2>3. Merge(task[r], shots[r], points[r], figure) \in Row
    BY <2>2, RowType
  <2>4. /\ fetched' = [fetched EXCEPT ![r] = figure]
        /\ shown' = [shown EXCEPT ![r] = Merge(task[r], shots[r], points[r], figure)]
    BY <1>13 DEF FetchHistory
  <2> HIDE DEF figure
  <2>5. /\ fetched' \in [Request -> Report \cup Figure \cup {None}]
        /\ shown' \in [Request -> Row]
    BY <2>2, <2>3, <2>4
  <2> QED
    BY <1>13, <2>1, <2>5 DEF FetchHistory
<1>14. ASSUME NEW r \in Request, KeepPoints(r) PROVE TypeOK'
  <2>1. stage' \in [Request -> Stage]
    BY <1>14 DEF KeepPoints, GoTo, Finish, Stage
  <2>2. fetched[r] \in Figure
    BY <1>14 DEF KeepPoints, OfHistory
  <2> DEFINE kept == [c \in Center |-> [d \in Day |->
                        IF c = task[r].center /\ d \in ToCache(r) THEN fetched[r]
                        ELSE history[c][d]]]
  <2>3. kept \in [Center -> Row]
    BY <2>2 DEF Row
  <2>4. history' = kept \/ UNCHANGED history
    BY <1>14 DEF KeepPoints
  <2> HIDE DEF kept
  <2> QED
    BY <1>14, <2>1, <2>3, <2>4 DEF KeepPoints
<1>15. ASSUME NEW r \in Request, WorkerDies(r) PROVE TypeOK'
  <2>1. stage' \in [Request -> Stage]
    BY <1>15 DEF WorkerDies, GoTo, Finish, Stage
  <2> QED
    BY <1>15, <2>1 DEF WorkerDies
<1>16. CASE Midnight
  BY <1>16 DEF Midnight
<1>17. CASE UNCHANGED vars
  BY <1>17 DEF vars
<1> QED
  BY <1>1, <1>2, <1>3, <1>4, <1>5, <1>6, <1>7, <1>8, <1>9, <1>10, <1>11, <1>12, <1>13,
     <1>14, <1>15, <1>16, <1>17 DEF Next, ServerStep

\* Every step preserves what requests work on.
LEMMA StepTask == IInv /\ [Next]_vars => TaskInv'
<1> SUFFICES ASSUME IInv, [Next]_vars PROVE TaskInv'
  OBVIOUS
<1> USE DistinctAssumption
    DEF IInv, TypeOK, TaskInv, tables, locals, ghosts, GoTo, Finish, IsJob,
        Working, OfHistory, OfReport
<1>1. ASSUME NEW r \in Request, Arrive(r) PROVE TaskInv'
  <2> DEFINE q == [body[r] EXCEPT !.date = PostingDate(body[r].date)]
  <2>1. ~IsJob(r) /\ Begin(r, q) /\ UNCHANGED <<body, todo, fetched>>
    BY <1>1 DEF Arrive, IsJob
  <2>2. q \in Question /\ q.kind = body[r].kind /\ q.center = body[r].center
    BY <2>1, AskedType
  <2>3. body[r].kind = "history" => body[r].center # None
    BY BodyType
  <2>4. q.kind \in {"report", "history"}
    BY <2>2 DEF Question
  <2> HIDE DEF q
  <2> QED
    BY <2>1, <2>2, <2>3, <2>4 DEF Begin
<1>2. ASSUME NEW r \in Request, JobStarts(r) PROVE TaskInv'
  <2>1. PICK centers \in SUBSET Center :
          /\ todo' = [todo EXCEPT ![r] = JobQuestions(centers, LastBusinessDay(today))]
          /\ asked' = [asked EXCEPT ![r] = centers]
    BY <1>2, JobStartsType
  <2>2. \A q \in JobQuestions(centers, LastBusinessDay(today)) :
          q.kind = "history" => q.center # None
    BY JobQuestionsType, LastBusinessDayType
  <2> QED
    BY <1>2, <2>1, <2>2 DEF JobStarts
<1>3. ASSUME NEW r \in Request, NextQuestion(r) PROVE TaskInv'
  <2>1. CASE \E q \in todo[r] : todo' = [todo EXCEPT ![r] = todo[r] \ {q}] /\ Begin(r, q)
    <3>1. PICK q \in todo[r] : todo' = [todo EXCEPT ![r] = todo[r] \ {q}] /\ Begin(r, q)
      BY <2>1
    <3>2. q \in Question /\ (q.kind = "history" => q.center # None) /\ q # None
      BY <3>1
    <3>3. q.kind \in {"report", "history"}
      BY <3>2 DEF Question
    <3>4. /\ stage' = [stage EXCEPT ![r] = IF q.kind = "report" THEN "pruning"
                                          ELSE "registering"]
          /\ task' = [task EXCEPT ![r] = q]
          /\ todo' = [todo EXCEPT ![r] = todo[r] \ {q}]
          /\ IsJob(r) /\ UNCHANGED <<body, fetched>>
      BY <1>3, <3>1 DEF NextQuestion, Begin
    <3> QED
      BY <3>2, <3>3, <3>4
  <2>2. CASE GoTo(r, "answered") /\ UNCHANGED <<todo, task, seen>>
    BY <1>3, <2>2 DEF NextQuestion
  <2> QED
    BY <1>3, <2>1, <2>2 DEF NextQuestion, Begin, GoTo
<1>4. ASSUME NEW r \in Request, Register(r) PROVE TaskInv'
  BY <1>4, BodyType, TaskType DEF Register
<1>5. ASSUME NEW r \in Request, Prune(r) PROVE TaskInv'
  BY <1>5, BodyType, TaskType DEF Prune
<1>6. ASSUME NEW r \in Request, LookUp(r) PROVE TaskInv'
  BY <1>6, BodyType, TaskType DEF LookUp
<1>7. ASSUME NEW r \in Request, FetchReport(r) PROVE TaskInv'
  <2>1. PICK of \in SUBSET Within(task[r]) :
          fetched' = [fetched EXCEPT
                        ![r] = [to |-> task[r], of |-> of, on |-> today, by |-> r]]
    BY <1>7 DEF FetchReport
  <2>2. [to |-> task[r], of |-> of, on |-> today, by |-> r] \in Report
    BY <1>7, TaskType DEF FetchReport, Report
  <2>3. UNCHANGED task
    BY <1>7 DEF FetchReport
  <2> DEFINE new == [to |-> task[r], of |-> of, on |-> today, by |-> r]
  <2>4. new.to = task[r] /\ new.of = of /\ new.by = r
    OBVIOUS
  <2> HIDE DEF new
  <2> QED
    BY <1>7, <2>1, <2>2, <2>3, <2>4 DEF FetchReport, new
<1>8. ASSUME NEW r \in Request, FetchFails(r) PROVE TaskInv'
  BY <1>8, BodyType, TaskType DEF FetchFails
<1>9. ASSUME NEW r \in Request, SaveSnapshots(r) PROVE TaskInv'
  BY <1>9, BodyType, TaskType DEF SaveSnapshots
<1>10. ASSUME NEW r \in Request, StoreReport(r) PROVE TaskInv'
  BY <1>10, BodyType, TaskType DEF StoreReport
<1>11. ASSUME NEW r \in Request, ReadPoints(r) PROVE TaskInv'
  BY <1>11, BodyType, TaskType DEF ReadPoints
<1>12. ASSUME NEW r \in Request, ReadSnapshots(r) PROVE TaskInv'
  BY <1>12, BodyType, TaskType DEF ReadSnapshots
<1>13. ASSUME NEW r \in Request, FetchHistory(r) PROVE TaskInv'
  <2> DEFINE figure == [from |-> "history", filter |-> task[r].filter, on |-> today]
  <2>1. figure \in Figure
    BY <1>13, TaskType DEF FetchHistory, Figure
  <2>2. fetched' = [fetched EXCEPT ![r] = figure]
    BY <1>13 DEF FetchHistory
  <2> HIDE DEF figure
  <2> QED
    BY <1>13, <2>1, <2>2 DEF FetchHistory
<1>14. ASSUME NEW r \in Request, KeepPoints(r) PROVE TaskInv'
  BY <1>14, BodyType, TaskType DEF KeepPoints
<1>15. ASSUME NEW r \in Request, WorkerDies(r) PROVE TaskInv'
  BY <1>15, BodyType, TaskType DEF WorkerDies
<1>16. CASE Midnight
  BY <1>16 DEF Midnight
<1>17. CASE UNCHANGED vars
  BY <1>17 DEF vars
<1> QED
  BY <1>1, <1>2, <1>3, <1>4, <1>5, <1>6, <1>7, <1>8, <1>9, <1>10, <1>11, <1>12, <1>13,
     <1>14, <1>15, <1>16, <1>17 DEF Next, ServerStep

\* Every step preserves where reports are stored.
LEMMA StepStored == IInv /\ [Next]_vars => StoredInv'
<1> SUFFICES ASSUME IInv, [Next]_vars PROVE StoredInv'
  OBVIOUS
<1> USE DistinctAssumption
    DEF IInv, TypeOK, TaskInv, StoredInv, tables, locals, ghosts, Working, OfReport
<1>1. ASSUME NEW r \in Request, Arrive(r) PROVE StoredInv'
  BY <1>1, TaskType DEF Arrive
<1>2. ASSUME NEW r \in Request, JobStarts(r) PROVE StoredInv'
  BY <1>2, TaskType DEF JobStarts
<1>3. ASSUME NEW r \in Request, NextQuestion(r) PROVE StoredInv'
  BY <1>3, TaskType DEF NextQuestion
<1>4. ASSUME NEW r \in Request, Register(r) PROVE StoredInv'
  BY <1>4, TaskType DEF Register
<1>5. ASSUME NEW r \in Request, Prune(r) PROVE StoredInv'
  BY <1>5, TaskType DEF Prune
<1>6. ASSUME NEW r \in Request, LookUp(r) PROVE StoredInv'
  BY <1>6, TaskType DEF LookUp
<1>7. ASSUME NEW r \in Request, FetchReport(r) PROVE StoredInv'
  BY <1>7, TaskType DEF FetchReport
<1>8. ASSUME NEW r \in Request, FetchFails(r) PROVE StoredInv'
  BY <1>8, TaskType DEF FetchFails
<1>9. ASSUME NEW r \in Request, SaveSnapshots(r) PROVE StoredInv'
  BY <1>9, TaskType DEF SaveSnapshots
<1>10. ASSUME NEW r \in Request, StoreReport(r) PROVE StoredInv'
  BY <1>10, TaskType DEF StoreReport
<1>11. ASSUME NEW r \in Request, ReadPoints(r) PROVE StoredInv'
  BY <1>11, TaskType DEF ReadPoints
<1>12. ASSUME NEW r \in Request, ReadSnapshots(r) PROVE StoredInv'
  BY <1>12, TaskType DEF ReadSnapshots
<1>13. ASSUME NEW r \in Request, FetchHistory(r) PROVE StoredInv'
  BY <1>13, TaskType DEF FetchHistory
<1>14. ASSUME NEW r \in Request, KeepPoints(r) PROVE StoredInv'
  BY <1>14, TaskType DEF KeepPoints
<1>15. ASSUME NEW r \in Request, WorkerDies(r) PROVE StoredInv'
  BY <1>15, TaskType DEF WorkerDies
<1>16. CASE Midnight
  BY <1>16 DEF Midnight
<1>17. CASE UNCHANGED vars
  BY <1>17 DEF vars
<1> QED
  BY <1>1, <1>2, <1>3, <1>4, <1>5, <1>6, <1>7, <1>8, <1>9, <1>10, <1>11, <1>12, <1>13,
     <1>14, <1>15, <1>16, <1>17 DEF Next, ServerStep

\* A window of one day holds that day.
LEMMA OneDay ==
  ASSUME NEW q \in Question, q.days = 1, Weekday(q.date) < 5
  PROVE  q.date \in Window(q)
<1>1. q.date \in Day /\ q.date \in Int
  BY DayAssumption DEF Question
<1> QED
  BY <1>1 DEF Window

\* A stored report is of a day and of work centers.
LEMMA StoredType ==
  ASSUME TypeOK, NEW k \in Key, reports[k] # None
  PROVE  k.date \in Day /\ reports[k].of \subseteq Center
<1> QED
  BY DEF TypeOK, Key, Report

\* What a table holds of a day stays until a prune is about that day.
LEMMA RowsStay ==
  ASSUME IInv, [Next]_vars
  PROVE  /\ pruned \subseteq pruned' /\ unsaved \subseteq unsaved'
         /\ \A c \in Center : \A d \in Day \ pruned' :
              /\ snaps[c][d] # None => snaps'[c][d] # None
              /\ history[c][d] # None => history'[c][d] # None
<1> DEFINE Stay == /\ pruned \subseteq pruned' /\ unsaved \subseteq unsaved'
                   /\ \A c \in Center : \A d \in Day \ pruned' :
                        /\ snaps[c][d] # None => snaps'[c][d] # None
                        /\ history[c][d] # None => history'[c][d] # None
<1>1. ASSUME NEW r \in Request, Prune(r) PROVE Stay
  BY <1>1 DEF Prune, Without, CacheWorks, CacheFails
<1>2. ASSUME NEW r \in Request, SaveSnapshots(r) PROVE Stay
  <2>1. FigureOf(fetched[r]) # None
    BY <1>2, DistinctAssumption DEF SaveSnapshots, IInv, TypeOK, TaskInv, FigureOf, Report,
       Figure, Question
  <2> QED
    BY <1>2, <2>1 DEF SaveSnapshots, CacheWorks, CacheFails
<1>3. ASSUME NEW r \in Request, KeepPoints(r) PROVE Stay
  <2>1. fetched[r] # None
    BY <1>3, DistinctAssumption DEF KeepPoints, IInv, TaskInv, OfHistory
  <2> QED
    BY <1>3, <2>1 DEF KeepPoints, CacheWorks, CacheFails
<1>4. CASE UNCHANGED <<snaps, history, pruned>> /\ unsaved \subseteq unsaved'
  BY <1>4
<1>5. ASSUME NEW r \in Request,
             \/ Arrive(r) \/ JobStarts(r) \/ NextQuestion(r) \/ Register(r) \/ LookUp(r)
             \/ FetchReport(r) \/ FetchFails(r) \/ StoreReport(r) \/ ReadPoints(r)
             \/ ReadSnapshots(r) \/ FetchHistory(r) \/ WorkerDies(r)
      PROVE  Stay
  BY <1>4, <1>5
  DEF Arrive, JobStarts, NextQuestion, Register, LookUp, FetchReport, FetchFails, StoreReport,
      ReadPoints, ReadSnapshots, FetchHistory, WorkerDies, tables, locals, ghosts,
      CacheWorks, CacheFails
<1>6. CASE Midnight \/ UNCHANGED vars
  BY <1>4, <1>6 DEF Midnight, vars, tables, locals, ghosts
<1> QED
  BY <1>1, <1>2, <1>3, <1>5, <1>6 DEF Next, ServerStep

\* Every step preserves what is written before a report is stored.
LEMMA StepSnap == IInv /\ [Next]_vars => SnapInv'
<1> SUFFICES ASSUME IInv, [Next]_vars PROVE SnapInv'
  OBVIOUS
<1> USE DistinctAssumption
    DEF IInv, TypeOK, TaskInv, SnapInv, tables, locals, ghosts, GoTo, Finish, IsJob,
    CacheWorks, CacheFails,
        Working, OfHistory, OfReport
<1>1. ASSUME NEW r \in Request, Arrive(r) PROVE SnapInv'
  BY <1>1, TaskType, RowsStay DEF Arrive, Begin
<1>2. ASSUME NEW r \in Request, JobStarts(r) PROVE SnapInv'
  BY <1>2, TaskType, RowsStay DEF JobStarts
<1>3. ASSUME NEW r \in Request, NextQuestion(r) PROVE SnapInv'
  BY <1>3, TaskType, RowsStay DEF NextQuestion, Begin
<1>4. ASSUME NEW r \in Request, Register(r) PROVE SnapInv'
  BY <1>4, TaskType, RowsStay DEF Register
<1>5. ASSUME NEW r \in Request, Prune(r) PROVE SnapInv'
  BY <1>5, TaskType, RowsStay DEF Prune
<1>6. ASSUME NEW r \in Request, LookUp(r) PROVE SnapInv'
  BY <1>6, TaskType, RowsStay DEF LookUp
<1>7. ASSUME NEW r \in Request, FetchReport(r) PROVE SnapInv'
  BY <1>7, TaskType, RowsStay DEF FetchReport
<1>8. ASSUME NEW r \in Request, FetchFails(r) PROVE SnapInv'
  BY <1>8, TaskType, RowsStay DEF FetchFails
<1>9. ASSUME NEW r \in Request, SaveSnapshots(r) PROVE SnapInv'
  <2>1. FigureOf(fetched[r]) # None
    BY <1>9 DEF SaveSnapshots, FigureOf, Report, Figure, Question
  <2>2. fetched[r].of \subseteq Center /\ task[r].date \in Day
    BY <1>9, TaskType DEF SaveSnapshots
  <2>3. CASE snaps' = [c \in Center |-> [d \in Day |->
                IF c \in fetched[r].of /\ d = task[r].date THEN FigureOf(fetched[r])
                ELSE snaps[c][d]]]
    <3>1. \A c \in fetched[r].of : snaps'[c][task[r].date] # None
      BY <2>1, <2>2, <2>3
    <3>2. ASSUME NEW s \in Request \ unsaved, s # r, stage[s] = "storing",
                 task[s].date \notin pruned, NEW c \in fetched[s].of
          PROVE  snaps'[c][task[s].date] # None
      <4>1. c \in Center /\ task[s].date \in Day
        BY <3>2, TaskType
      <4> QED
        BY <1>9, <3>2, <4>1, RowsStay DEF SaveSnapshots
    <3> QED
      BY <1>9, <3>1, <3>2, RowsStay DEF SaveSnapshots
  <2>4. CASE r \in unsaved'
    BY <1>9, <2>4, RowsStay, TaskType DEF SaveSnapshots
  <2> QED
    BY <1>9, <2>3, <2>4 DEF SaveSnapshots
<1>10. ASSUME NEW r \in Request, StoreReport(r) PROVE SnapInv'
  BY <1>10, TaskType, RowsStay DEF StoreReport
<1>11. ASSUME NEW r \in Request, ReadPoints(r) PROVE SnapInv'
  BY <1>11, TaskType, RowsStay DEF ReadPoints
<1>12. ASSUME NEW r \in Request, ReadSnapshots(r) PROVE SnapInv'
  BY <1>12, TaskType, RowsStay DEF ReadSnapshots
<1>13. ASSUME NEW r \in Request, FetchHistory(r) PROVE SnapInv'
  BY <1>13, TaskType, RowsStay DEF FetchHistory
<1>14. ASSUME NEW r \in Request, KeepPoints(r) PROVE SnapInv'
  BY <1>14, TaskType, RowsStay DEF KeepPoints
<1>15. ASSUME NEW r \in Request, WorkerDies(r) PROVE SnapInv'
  BY <1>15, TaskType, RowsStay DEF WorkerDies
<1>16. CASE Midnight
  BY <1>16 DEF Midnight
<1>17. CASE UNCHANGED vars
  BY <1>17 DEF vars
<1> QED
  BY <1>1, <1>2, <1>3, <1>4, <1>5, <1>6, <1>7, <1>8, <1>9, <1>10, <1>11, <1>12, <1>13,
     <1>14, <1>15, <1>16, <1>17 DEF Next, ServerStep

\* Every step preserves that snapshots are the figures of reports.
LEMMA StepSource == IInv /\ [Next]_vars => SourceInv'
<1> SUFFICES ASSUME IInv, [Next]_vars PROVE SourceInv'
  OBVIOUS
<1> USE DistinctAssumption DEF IInv, TypeOK, SourceInv, tables, locals, ghosts
<1>1. ASSUME NEW r \in Request, Arrive(r) PROVE SourceInv'
  BY <1>1, TaskType DEF Arrive
<1>2. ASSUME NEW r \in Request, JobStarts(r) PROVE SourceInv'
  BY <1>2, TaskType DEF JobStarts
<1>3. ASSUME NEW r \in Request, NextQuestion(r) PROVE SourceInv'
  BY <1>3, TaskType DEF NextQuestion
<1>4. ASSUME NEW r \in Request, Register(r) PROVE SourceInv'
  BY <1>4, TaskType DEF Register
<1>5. ASSUME NEW r \in Request, Prune(r) PROVE SourceInv'
  BY <1>5, TaskType DEF Prune, Without
<1>6. ASSUME NEW r \in Request, LookUp(r) PROVE SourceInv'
  BY <1>6, TaskType DEF LookUp
<1>7. ASSUME NEW r \in Request, FetchReport(r) PROVE SourceInv'
  BY <1>7, TaskType DEF FetchReport
<1>8. ASSUME NEW r \in Request, FetchFails(r) PROVE SourceInv'
  BY <1>8, TaskType DEF FetchFails
<1>9. ASSUME NEW r \in Request, SaveSnapshots(r) PROVE SourceInv'
  BY <1>9, TaskType DEF SaveSnapshots, FigureOf
<1>10. ASSUME NEW r \in Request, StoreReport(r) PROVE SourceInv'
  BY <1>10, TaskType DEF StoreReport
<1>11. ASSUME NEW r \in Request, ReadPoints(r) PROVE SourceInv'
  BY <1>11, TaskType DEF ReadPoints
<1>12. ASSUME NEW r \in Request, ReadSnapshots(r) PROVE SourceInv'
  BY <1>12, TaskType DEF ReadSnapshots
<1>13. ASSUME NEW r \in Request, FetchHistory(r) PROVE SourceInv'
  BY <1>13, TaskType DEF FetchHistory
<1>14. ASSUME NEW r \in Request, KeepPoints(r) PROVE SourceInv'
  BY <1>14, TaskType DEF KeepPoints
<1>15. ASSUME NEW r \in Request, WorkerDies(r) PROVE SourceInv'
  BY <1>15, TaskType DEF WorkerDies
<1>16. CASE Midnight
  BY <1>16 DEF Midnight
<1>17. CASE UNCHANGED vars
  BY <1>17 DEF vars
<1> QED
  BY <1>1, <1>2, <1>3, <1>4, <1>5, <1>6, <1>7, <1>8, <1>9, <1>10, <1>11, <1>12, <1>13,
     <1>14, <1>15, <1>16, <1>17 DEF Next, ServerStep

\* Every step preserves what jobs ask about.
LEMMA StepDay == IInv /\ [Next]_vars => DayInv'
<1> SUFFICES ASSUME IInv, [Next]_vars PROVE DayInv'
  OBVIOUS
<1> USE DistinctAssumption
    DEF IInv, TypeOK, TaskInv, DayInv, tables, locals, ghosts, GoTo, Finish, IsJob,
        Working, OfHistory, OfReport
<1>1. ASSUME NEW r \in Request, Arrive(r) PROVE DayInv'
  BY <1>1, TaskType DEF Arrive, Begin
<1>2. ASSUME NEW r \in Request, JobStarts(r) PROVE DayInv'
  <2>1. PICK centers \in SUBSET Center :
          /\ todo' = [todo EXCEPT ![r] = JobQuestions(centers, LastBusinessDay(today))]
          /\ asked' = [asked EXCEPT ![r] = centers]
    BY <1>2, JobStartsType
  <2>2. \A q \in JobQuestions(centers, LastBusinessDay(today)) :
          q.date = LastBusinessDay(today) /\ q.days = 1
    BY JobQuestionsType, LastBusinessDayType
  <2>3. LastBusinessDay(today) \in Day /\ Weekday(LastBusinessDay(today)) < 5
    BY LastBusinessDayType
  <2>4. /\ date' = [date EXCEPT ![r] = LastBusinessDay(today)]
        /\ stage' = [stage EXCEPT ![r] = "choosing"]
        /\ UNCHANGED <<task, body>>
    BY <1>2 DEF JobStarts
  <2> QED
    BY <2>1, <2>2, <2>3, <2>4
<1>3. ASSUME NEW r \in Request, NextQuestion(r) PROVE DayInv'
  <2>1. CASE \E q \in todo[r] : todo' = [todo EXCEPT ![r] = todo[r] \ {q}] /\ Begin(r, q)
    <3>1. PICK q \in todo[r] : todo' = [todo EXCEPT ![r] = todo[r] \ {q}] /\ Begin(r, q)
      BY <2>1
    <3>2. q \in Question /\ q.date = date[r] /\ q.days = 1
      BY <1>3, <3>1 DEF NextQuestion
    <3>3. q.kind \in {"report", "history"}
      BY <3>2 DEF Question
    <3>4. /\ stage' = [stage EXCEPT ![r] = IF q.kind = "report" THEN "pruning"
                                          ELSE "registering"]
          /\ task' = [task EXCEPT ![r] = q]
          /\ todo' = [todo EXCEPT ![r] = todo[r] \ {q}]
          /\ stage[r] = "choosing" /\ IsJob(r) /\ UNCHANGED <<body, date>>
      BY <1>3, <3>1 DEF NextQuestion, Begin
    <3> QED
      BY <3>2, <3>3, <3>4
  <2>2. CASE GoTo(r, "answered") /\ UNCHANGED <<todo, task, seen>>
    BY <1>3, <2>2 DEF NextQuestion
  <2> QED
    BY <1>3, <2>1, <2>2 DEF NextQuestion, Begin, GoTo
<1>4. ASSUME NEW r \in Request, Register(r) PROVE DayInv'
  BY <1>4, TaskType DEF Register
<1>5. ASSUME NEW r \in Request, Prune(r) PROVE DayInv'
  BY <1>5, TaskType DEF Prune
<1>6. ASSUME NEW r \in Request, LookUp(r) PROVE DayInv'
  BY <1>6, TaskType DEF LookUp
<1>7. ASSUME NEW r \in Request, FetchReport(r) PROVE DayInv'
  BY <1>7, TaskType DEF FetchReport
<1>8. ASSUME NEW r \in Request, FetchFails(r) PROVE DayInv'
  BY <1>8, TaskType DEF FetchFails
<1>9. ASSUME NEW r \in Request, SaveSnapshots(r) PROVE DayInv'
  BY <1>9, TaskType DEF SaveSnapshots
<1>10. ASSUME NEW r \in Request, StoreReport(r) PROVE DayInv'
  BY <1>10, TaskType DEF StoreReport
<1>11. ASSUME NEW r \in Request, ReadPoints(r) PROVE DayInv'
  BY <1>11, TaskType DEF ReadPoints
<1>12. ASSUME NEW r \in Request, ReadSnapshots(r) PROVE DayInv'
  BY <1>12, TaskType DEF ReadSnapshots
<1>13. ASSUME NEW r \in Request, FetchHistory(r) PROVE DayInv'
  BY <1>13, TaskType DEF FetchHistory
<1>14. ASSUME NEW r \in Request, KeepPoints(r) PROVE DayInv'
  BY <1>14, TaskType DEF KeepPoints
<1>15. ASSUME NEW r \in Request, WorkerDies(r) PROVE DayInv'
  BY <1>15, TaskType DEF WorkerDies
<1>16. CASE Midnight
  BY <1>16 DEF Midnight
<1>17. CASE UNCHANGED vars
  BY <1>17 DEF vars
<1> QED
  BY <1>1, <1>2, <1>3, <1>4, <1>5, <1>6, <1>7, <1>8, <1>9, <1>10, <1>11, <1>12, <1>13,
     <1>14, <1>15, <1>16, <1>17 DEF Next, ServerStep

\* Every step preserves that reports are answers to their questions.
LEMMA StepAnswer == IInv /\ [Next]_vars => AnswerIsToTheQuestion'
<1> SUFFICES ASSUME IInv, [Next]_vars PROVE AnswerIsToTheQuestion'
  OBVIOUS
<1> USE DistinctAssumption
    DEF IInv, TypeOK, TaskInv, StoredInv, AnswerIsToTheQuestion, tables, locals, ghosts,
    GoTo, Finish, IsJob,
        Working, OfHistory, OfReport
<1>1. ASSUME NEW r \in Request, Arrive(r) PROVE AnswerIsToTheQuestion'
  BY <1>1, TaskType DEF Arrive, Begin
<1>2. ASSUME NEW r \in Request, JobStarts(r) PROVE AnswerIsToTheQuestion'
  BY <1>2, TaskType DEF JobStarts
<1>3. ASSUME NEW r \in Request, NextQuestion(r) PROVE AnswerIsToTheQuestion'
  BY <1>3, TaskType DEF NextQuestion, Begin
<1>4. ASSUME NEW r \in Request, Register(r) PROVE AnswerIsToTheQuestion'
  BY <1>4, TaskType DEF Register
<1>5. ASSUME NEW r \in Request, Prune(r) PROVE AnswerIsToTheQuestion'
  BY <1>5, TaskType DEF Prune
<1>6. ASSUME NEW r \in Request, LookUp(r) PROVE AnswerIsToTheQuestion'
  <2>1. KeyOf(task[r]) \in Key /\ UNCHANGED <<task, body>>
    BY <1>6, TaskType DEF LookUp
  <2>2. CASE reports[KeyOf(task[r])] # None
             /\ given' = [given EXCEPT ![r] = reports[KeyOf(task[r])]]
    <3> DEFINE hit == reports[KeyOf(task[r])]
    <3>1. KeyOf(hit.to) = KeyOf(task[r]) /\ hit.of \subseteq Within(hit.to) /\ hit # None
      BY <2>1, <2>2
    <3>2. /\ hit.to.date = task[r].date /\ hit.to.center = task[r].center
          /\ Normal[hit.to.filter] = Normal[task[r].filter]
      BY <3>1 DEF KeyOf
    <3>3. hit.of \subseteq Within(task[r])
      BY <3>1, <3>2 DEF Within
    <3> HIDE DEF hit
    <3>4. given' = [given EXCEPT ![r] = hit]
      BY <2>2 DEF hit
    <3> QED
      BY <1>6, <2>1, <3>1, <3>2, <3>3, <3>4 DEF LookUp
  <2>3. CASE GoTo(r, "fetching") /\ UNCHANGED given
    BY <1>6, <2>1, <2>3
  <2> QED
    BY <1>6, <2>2, <2>3 DEF LookUp
<1>7. ASSUME NEW r \in Request, FetchReport(r) PROVE AnswerIsToTheQuestion'
  BY <1>7, TaskType DEF FetchReport
<1>8. ASSUME NEW r \in Request, FetchFails(r) PROVE AnswerIsToTheQuestion'
  BY <1>8, TaskType DEF FetchFails
<1>9. ASSUME NEW r \in Request, SaveSnapshots(r) PROVE AnswerIsToTheQuestion'
  BY <1>9, TaskType DEF SaveSnapshots
<1>10. ASSUME NEW r \in Request, StoreReport(r) PROVE AnswerIsToTheQuestion'
  BY <1>10, TaskType DEF StoreReport
<1>11. ASSUME NEW r \in Request, ReadPoints(r) PROVE AnswerIsToTheQuestion'
  BY <1>11, TaskType DEF ReadPoints
<1>12. ASSUME NEW r \in Request, ReadSnapshots(r) PROVE AnswerIsToTheQuestion'
  BY <1>12, TaskType DEF ReadSnapshots
<1>13. ASSUME NEW r \in Request, FetchHistory(r) PROVE AnswerIsToTheQuestion'
  BY <1>13, TaskType DEF FetchHistory
<1>14. ASSUME NEW r \in Request, KeepPoints(r) PROVE AnswerIsToTheQuestion'
  BY <1>14, TaskType DEF KeepPoints
<1>15. ASSUME NEW r \in Request, WorkerDies(r) PROVE AnswerIsToTheQuestion'
  BY <1>15, TaskType DEF WorkerDies
<1>16. CASE Midnight
  BY <1>16 DEF Midnight
<1>17. CASE UNCHANGED vars
  BY <1>17 DEF vars
<1> QED
  BY <1>1, <1>2, <1>3, <1>4, <1>5, <1>6, <1>7, <1>8, <1>9, <1>10, <1>11, <1>12, <1>13,
     <1>14, <1>15, <1>16, <1>17 DEF Next, ServerStep

\* Every step preserves that reported days have snapshots.
LEMMA StepReported == IInv /\ [Next]_vars => ReportedDaysHaveSnapshots'
<1> SUFFICES ASSUME IInv, [Next]_vars PROVE ReportedDaysHaveSnapshots'
  OBVIOUS
<1> USE DistinctAssumption
    DEF IInv, TypeOK, TaskInv, SnapInv, ReportedDaysHaveSnapshots, tables, locals, ghosts,
        CacheWorks, CacheFails, Working, OfReport
<1>1. ASSUME NEW r \in Request, Arrive(r) PROVE ReportedDaysHaveSnapshots'
  BY <1>1, TaskType, RowsStay, StoredType DEF Arrive
<1>2. ASSUME NEW r \in Request, JobStarts(r) PROVE ReportedDaysHaveSnapshots'
  BY <1>2, TaskType, RowsStay, StoredType DEF JobStarts
<1>3. ASSUME NEW r \in Request, NextQuestion(r) PROVE ReportedDaysHaveSnapshots'
  BY <1>3, TaskType, RowsStay, StoredType DEF NextQuestion
<1>4. ASSUME NEW r \in Request, Register(r) PROVE ReportedDaysHaveSnapshots'
  BY <1>4, TaskType, RowsStay, StoredType DEF Register
<1>5. ASSUME NEW r \in Request, Prune(r) PROVE ReportedDaysHaveSnapshots'
  BY <1>5, TaskType, RowsStay, StoredType DEF Prune
<1>6. ASSUME NEW r \in Request, LookUp(r) PROVE ReportedDaysHaveSnapshots'
  BY <1>6, TaskType, RowsStay, StoredType DEF LookUp
<1>7. ASSUME NEW r \in Request, FetchReport(r) PROVE ReportedDaysHaveSnapshots'
  BY <1>7, TaskType, RowsStay, StoredType DEF FetchReport
<1>8. ASSUME NEW r \in Request, FetchFails(r) PROVE ReportedDaysHaveSnapshots'
  BY <1>8, TaskType, RowsStay, StoredType DEF FetchFails
<1>9. ASSUME NEW r \in Request, SaveSnapshots(r) PROVE ReportedDaysHaveSnapshots'
  BY <1>9, TaskType, RowsStay, StoredType DEF SaveSnapshots
<1>10. ASSUME NEW r \in Request, StoreReport(r) PROVE ReportedDaysHaveSnapshots'
  BY <1>10, TaskType, RowsStay, StoredType DEF StoreReport, KeyOf
<1>11. ASSUME NEW r \in Request, ReadPoints(r) PROVE ReportedDaysHaveSnapshots'
  BY <1>11, TaskType, RowsStay, StoredType DEF ReadPoints
<1>12. ASSUME NEW r \in Request, ReadSnapshots(r) PROVE ReportedDaysHaveSnapshots'
  BY <1>12, TaskType, RowsStay, StoredType DEF ReadSnapshots
<1>13. ASSUME NEW r \in Request, FetchHistory(r) PROVE ReportedDaysHaveSnapshots'
  BY <1>13, TaskType, RowsStay, StoredType DEF FetchHistory
<1>14. ASSUME NEW r \in Request, KeepPoints(r) PROVE ReportedDaysHaveSnapshots'
  BY <1>14, TaskType, RowsStay, StoredType DEF KeepPoints
<1>15. ASSUME NEW r \in Request, WorkerDies(r) PROVE ReportedDaysHaveSnapshots'
  BY <1>15, TaskType, RowsStay, StoredType DEF WorkerDies
<1>16. CASE Midnight
  BY <1>16 DEF Midnight
<1>17. CASE UNCHANGED vars
  BY <1>17 DEF vars
<1> QED
  BY <1>1, <1>2, <1>3, <1>4, <1>5, <1>6, <1>7, <1>8, <1>9, <1>10, <1>11, <1>12, <1>13,
     <1>14, <1>15, <1>16, <1>17 DEF Next, ServerStep

\* Every step preserves what a history has seen.
LEMMA StepSeen == IInv /\ [Next]_vars => SeenInv'
<1> SUFFICES ASSUME IInv, [Next]_vars PROVE SeenInv'
  OBVIOUS
<1> USE DistinctAssumption
    DEF IInv, TypeOK, TaskInv, SeenInv, SourceInv, tables, locals, ghosts, GoTo, Finish,
    IsJob, Asking,
        Working, OfHistory, OfReport
<1>1. ASSUME NEW r \in Request, Arrive(r) PROVE SeenInv'
  BY <1>1, TaskType, RowsStay DEF Arrive, Begin
<1>2. ASSUME NEW r \in Request, JobStarts(r) PROVE SeenInv'
  BY <1>2, TaskType, RowsStay DEF JobStarts
<1>3. ASSUME NEW r \in Request, NextQuestion(r) PROVE SeenInv'
  BY <1>3, TaskType, RowsStay DEF NextQuestion, Begin
<1>4. ASSUME NEW r \in Request, Register(r) PROVE SeenInv'
  BY <1>4, TaskType, RowsStay DEF Register
<1>5. ASSUME NEW r \in Request, Prune(r) PROVE SeenInv'
  BY <1>5, TaskType, RowsStay DEF Prune
<1>6. ASSUME NEW r \in Request, LookUp(r) PROVE SeenInv'
  BY <1>6, TaskType, RowsStay DEF LookUp
<1>7. ASSUME NEW r \in Request, FetchReport(r) PROVE SeenInv'
  BY <1>7, TaskType, RowsStay DEF FetchReport
<1>8. ASSUME NEW r \in Request, FetchFails(r) PROVE SeenInv'
  BY <1>8, TaskType, RowsStay DEF FetchFails
<1>9. ASSUME NEW r \in Request, SaveSnapshots(r) PROVE SeenInv'
  BY <1>9, TaskType, RowsStay DEF SaveSnapshots
<1>10. ASSUME NEW r \in Request, StoreReport(r) PROVE SeenInv'
  BY <1>10, TaskType, RowsStay DEF StoreReport
<1>11. ASSUME NEW r \in Request, ReadPoints(r) PROVE SeenInv'
  BY <1>11, TaskType, RowsStay DEF ReadPoints
<1>12. ASSUME NEW r \in Request, ReadSnapshots(r) PROVE SeenInv'
  BY <1>12, TaskType, RowsStay DEF ReadSnapshots, RowsIn, Merge, Window, NoRow, CacheWorks,
     CacheFails
<1>13. ASSUME NEW r \in Request, FetchHistory(r) PROVE SeenInv'
  BY <1>13, TaskType, RowsStay DEF FetchHistory, Merge
<1>14. ASSUME NEW r \in Request, KeepPoints(r) PROVE SeenInv'
  BY <1>14, TaskType, RowsStay DEF KeepPoints
<1>15. ASSUME NEW r \in Request, WorkerDies(r) PROVE SeenInv'
  BY <1>15, TaskType, RowsStay DEF WorkerDies
<1>16. CASE Midnight
  BY <1>16 DEF Midnight
<1>17. CASE UNCHANGED vars
  BY <1>17 DEF vars
<1> QED
  BY <1>1, <1>2, <1>3, <1>4, <1>5, <1>6, <1>7, <1>8, <1>9, <1>10, <1>11, <1>12, <1>13,
     <1>14, <1>15, <1>16, <1>17 DEF Next, ServerStep

\* Every step preserves what a history has read.
LEMMA StepRead == IInv /\ [Next]_vars => ReadInv'
<1> SUFFICES ASSUME IInv, [Next]_vars PROVE ReadInv'
  OBVIOUS
<1> USE DistinctAssumption
    DEF IInv, TypeOK, TaskInv, ReadInv, tables, locals, ghosts, GoTo, Finish, IsJob, Asking,
        Working, OfHistory, OfReport
<1>1. ASSUME NEW r \in Request, Arrive(r) PROVE ReadInv'
  BY <1>1, TaskType, RowsStay DEF Arrive, Begin
<1>2. ASSUME NEW r \in Request, JobStarts(r) PROVE ReadInv'
  BY <1>2, TaskType, RowsStay DEF JobStarts
<1>3. ASSUME NEW r \in Request, NextQuestion(r) PROVE ReadInv'
  BY <1>3, TaskType, RowsStay DEF NextQuestion, Begin
<1>4. ASSUME NEW r \in Request, Register(r) PROVE ReadInv'
  BY <1>4, TaskType, RowsStay DEF Register
<1>5. ASSUME NEW r \in Request, Prune(r) PROVE ReadInv'
  BY <1>5, TaskType, RowsStay DEF Prune
<1>6. ASSUME NEW r \in Request, LookUp(r) PROVE ReadInv'
  BY <1>6, TaskType, RowsStay DEF LookUp
<1>7. ASSUME NEW r \in Request, FetchReport(r) PROVE ReadInv'
  BY <1>7, TaskType, RowsStay DEF FetchReport
<1>8. ASSUME NEW r \in Request, FetchFails(r) PROVE ReadInv'
  BY <1>8, TaskType, RowsStay DEF FetchFails
<1>9. ASSUME NEW r \in Request, SaveSnapshots(r) PROVE ReadInv'
  <2>1. UNCHANGED <<task, points, shots>> /\ stage' = [stage EXCEPT ![r] = "storing"]
    BY <1>9 DEF SaveSnapshots
  <2>2. Asking(r, "history") = FALSE /\ Asking(r, "history")' = FALSE
    BY <1>9, <2>1 DEF SaveSnapshots
  <2>3. ASSUME NEW s \in Request, s # r
        PROVE  (Asking(s, "history")' = Asking(s, "history")) /\ stage'[s] = stage[s]
    BY <2>1, <2>3
  <2> QED
    BY <2>1, <2>2, <2>3, TaskType, RowsStay
<1>10. ASSUME NEW r \in Request, StoreReport(r) PROVE ReadInv'
  BY <1>10, TaskType, RowsStay DEF StoreReport
<1>11. ASSUME NEW r \in Request, ReadPoints(r) PROVE ReadInv'
  BY <1>11, TaskType, RowsStay DEF ReadPoints, RowsIn, NoRow
<1>12. ASSUME NEW r \in Request, ReadSnapshots(r) PROVE ReadInv'
  BY <1>12, TaskType, RowsStay DEF ReadSnapshots, RowsIn, NoRow
<1>13. ASSUME NEW r \in Request, FetchHistory(r) PROVE ReadInv'
  BY <1>13, TaskType, RowsStay DEF FetchHistory
<1>14. ASSUME NEW r \in Request, KeepPoints(r) PROVE ReadInv'
  <2>1. /\ UNCHANGED <<task, points, shots>>
        /\ stage' = [stage EXCEPT ![r] = IF IsJob(r) THEN "choosing" ELSE "answered"]
    BY <1>14 DEF KeepPoints
  <2> HIDE DEF IsJob
  <2> QED
    BY <2>1, TaskType, RowsStay
<1>15. ASSUME NEW r \in Request, WorkerDies(r) PROVE ReadInv'
  BY <1>15, TaskType, RowsStay DEF WorkerDies
<1>16. CASE Midnight
  BY <1>16 DEF Midnight
<1>17. CASE UNCHANGED vars
  BY <1>17 DEF vars
<1> QED
  BY <1>1, <1>2, <1>3, <1>4, <1>5, <1>6, <1>7, <1>8, <1>9, <1>10, <1>11, <1>12, <1>13,
     <1>14, <1>15, <1>16, <1>17 DEF Next, ServerStep

\* Every step preserves that a job has left out no work center.
LEMMA StepJob == IInv /\ [Next]_vars => JobInv'
<1> SUFFICES ASSUME IInv, [Next]_vars PROVE JobInv'
  OBVIOUS
<1> USE DistinctAssumption
    DEF IInv, TypeOK, TaskInv, DayInv, ReadInv, JobInv, tables, locals, ghosts, GoTo,
    Finish, IsJob, Asking, Covered,
        Working, OfHistory, OfReport
<1>1. ASSUME NEW r \in Request, Arrive(r) PROVE JobInv'
  BY <1>1, TaskType, RowsStay DEF Arrive, Begin
<1>2. ASSUME NEW r \in Request, JobStarts(r) PROVE JobInv'
  <2>1. PICK centers \in SUBSET Center :
          /\ todo' = [todo EXCEPT ![r] = JobQuestions(centers, LastBusinessDay(today))]
          /\ asked' = [asked EXCEPT ![r] = centers]
    BY <1>2, JobStartsType
  <2>2. \A c \in centers : \E q \in JobQuestions(centers, LastBusinessDay(today)) :
          q.kind = "history" /\ q.center = c
    <3>1. ASSUME NEW c \in centers
          PROVE  /\ Asks("history", LastBusinessDay(today), c, NoFilter, 1)
                       \in JobQuestions(centers, LastBusinessDay(today))
                 /\ Asks("history", LastBusinessDay(today), c, NoFilter, 1).kind = "history"
                 /\ Asks("history", LastBusinessDay(today), c, NoFilter, 1).center = c
      BY DEF JobQuestions, Asks
    <3> QED
      BY <3>1
  <2>3. /\ date' = [date EXCEPT ![r] = LastBusinessDay(today)]
        /\ stage' = [stage EXCEPT ![r] = "choosing"]
        /\ UNCHANGED <<task, body, gaps, unsaved, pruned, history, snaps>>
    BY <1>2 DEF JobStarts
  <2> QED
    BY <2>1, <2>2, <2>3
<1>3. ASSUME NEW r \in Request, NextQuestion(r) PROVE JobInv'
  BY <1>3, TaskType, RowsStay DEF NextQuestion, Begin
<1>4. ASSUME NEW r \in Request, Register(r) PROVE JobInv'
  BY <1>4, TaskType, RowsStay DEF Register
<1>5. ASSUME NEW r \in Request, Prune(r) PROVE JobInv'
  BY <1>5, TaskType, RowsStay DEF Prune
<1>6. ASSUME NEW r \in Request, LookUp(r) PROVE JobInv'
  BY <1>6, TaskType, RowsStay DEF LookUp
<1>7. ASSUME NEW r \in Request, FetchReport(r) PROVE JobInv'
  BY <1>7, TaskType, RowsStay DEF FetchReport
<1>8. ASSUME NEW r \in Request, FetchFails(r) PROVE JobInv'
  BY <1>8, TaskType, RowsStay DEF FetchFails
<1>9. ASSUME NEW r \in Request, SaveSnapshots(r) PROVE JobInv'
  BY <1>9, TaskType, RowsStay DEF SaveSnapshots
<1>10. ASSUME NEW r \in Request, StoreReport(r) PROVE JobInv'
  BY <1>10, TaskType, RowsStay DEF StoreReport
<1>11. ASSUME NEW r \in Request, ReadPoints(r) PROVE JobInv'
  BY <1>11, TaskType, RowsStay DEF ReadPoints
<1>12. ASSUME NEW r \in Request, ReadSnapshots(r) PROVE JobInv'
  <2>1. UNCHANGED <<task, date, todo, body, asked, gaps>>
    BY <1>12 DEF ReadSnapshots
  <2>2. stage' = [stage EXCEPT ![r] = stage'[r]] /\ stage[r] = "comparing"
    BY <1>12 DEF ReadSnapshots
  <2>3. ASSUME NEW s \in Request \ unsaved', s # r, IsJob(s),
               stage[s] \notin {"idle", "lost", "failed"},
               NEW c \in asked[s] \ gaps[s],
               ~ \E q \in todo[s] : q.kind = "history" /\ q.center = c,
               ~ (Asking(s, "history") /\ task[s].center = c)
        PROVE  Covered(s, c)'
    <3>1. Covered(s, c) /\ date[s] \in Day /\ c \in Center
      BY <2>3, RowsStay
    <3> QED
      BY <2>1, <3>1, RowsStay
  <2>4. ASSUME IsJob(r), r \notin unsaved', stage'[r] = "choosing"
        PROVE  Covered(r, task[r].center)'
    <3>1. /\ task[r].date = date[r] /\ date[r] \in Day /\ task[r].center \in Center
          /\ task[r].kind = "history" /\ date[r] \in Window(task[r])
      <4>1. /\ task[r].date = date[r] /\ task[r].days = 1 /\ date[r] \in Day
               /\ Weekday(date[r]) < 5
            /\ task[r].center \in Center /\ task[r].kind = "history"
            /\ task[r] \in Question
        BY <1>12, <2>4, TaskType DEF ReadSnapshots
      <4> QED
        BY <4>1, OneDay
    <3>2. points[r][date[r]] # None
      BY <1>12, <2>4, <3>1 DEF ReadSnapshots
    <3>3. date[r] \in pruned \/ history[task[r].center][date[r]] # None
      BY <1>12, <3>1, <3>2 DEF ReadSnapshots
    <3> QED
      BY <2>1, <3>1, <3>3, RowsStay
  <2>5. ASSUME IsJob(r), r \notin unsaved',
               NEW c \in asked[r] \ gaps[r],
               ~ \E q \in todo[r] : q.kind = "history" /\ q.center = c,
               ~ (Asking(r, "history") /\ task[r].center = c)
        PROVE  Covered(r, c)'
    <3>1. Covered(r, c) /\ date[r] \in Day /\ c \in Center
      BY <2>2, <2>5, RowsStay
    <3> QED
      BY <2>1, <3>1, RowsStay
  <2>6. stage'[r] \in {"choosing", "answered", "fetching", "keeping"}
    BY <1>12 DEF ReadSnapshots
  <2>7. IsJob(r) => stage'[r] # "answered"
    BY <1>12 DEF ReadSnapshots
  <2> QED
    BY <2>1, <2>2, <2>3, <2>4, <2>5, <2>6, <2>7, RowsStay
<1>13. ASSUME NEW r \in Request, FetchHistory(r) PROVE JobInv'
  <2>1. UNCHANGED <<task, date, todo, body, asked, gaps>>
    BY <1>13 DEF FetchHistory
  <2>2. stage' = [stage EXCEPT ![r] = stage'[r]] /\ stage[r] = "fetching"
    BY <1>13 DEF FetchHistory
  <2>3. ASSUME NEW s \in Request \ unsaved', s # r, IsJob(s),
               stage[s] \notin {"idle", "lost", "failed"},
               NEW c \in asked[s] \ gaps[s],
               ~ \E q \in todo[s] : q.kind = "history" /\ q.center = c,
               ~ (Asking(s, "history") /\ task[s].center = c)
        PROVE  Covered(s, c)'
    <3>1. Covered(s, c) /\ date[s] \in Day /\ c \in Center
      BY <2>3, RowsStay
    <3> QED
      BY <2>1, <3>1, RowsStay
  <2>4. ASSUME IsJob(r), r \notin unsaved', stage'[r] = "choosing"
        PROVE  Covered(r, task[r].center)'
    <3>1. /\ task[r].date = date[r] /\ date[r] \in Day /\ task[r].center \in Center
          /\ task[r].kind = "history" /\ date[r] \in Window(task[r])
      <4>1. /\ task[r].date = date[r] /\ task[r].days = 1 /\ date[r] \in Day
               /\ Weekday(date[r]) < 5
            /\ task[r].center \in Center /\ task[r].kind = "history"
            /\ task[r] \in Question
        BY <1>13, <2>4, TaskType DEF FetchHistory
      <4> QED
        BY <4>1, OneDay
    <3>2. points[r][date[r]] # None \/ shots[r][date[r]] # None
      BY <1>13, <2>4, <3>1 DEF FetchHistory, ToCache
    <3>3. Covered(r, task[r].center)
      BY <1>13, <3>1, <3>2 DEF FetchHistory
    <3> QED
      BY <2>1, <3>1, <3>3, RowsStay
  <2>5. ASSUME IsJob(r), r \notin unsaved',
               NEW c \in asked[r] \ gaps[r],
               ~ \E q \in todo[r] : q.kind = "history" /\ q.center = c,
               ~ (Asking(r, "history") /\ task[r].center = c)
        PROVE  Covered(r, c)'
    <3>1. Covered(r, c) /\ date[r] \in Day /\ c \in Center
      BY <2>2, <2>5, RowsStay
    <3> QED
      BY <2>1, <3>1, RowsStay
  <2>6. stage'[r] \in {"choosing", "answered", "fetching", "keeping"}
    BY <1>13 DEF FetchHistory
  <2>7. IsJob(r) => stage'[r] # "answered"
    BY <1>13 DEF FetchHistory
  <2> QED
    BY <2>1, <2>2, <2>3, <2>4, <2>5, <2>6, <2>7, RowsStay
<1>14. ASSUME NEW r \in Request, KeepPoints(r) PROVE JobInv'
  <2>1. UNCHANGED <<task, date, todo, body, asked, gaps>>
    BY <1>14 DEF KeepPoints
  <2>2. stage' = [stage EXCEPT ![r] = stage'[r]] /\ stage[r] = "keeping"
    BY <1>14 DEF KeepPoints
  <2>3. ASSUME NEW s \in Request \ unsaved', s # r, IsJob(s),
               stage[s] \notin {"idle", "lost", "failed"},
               NEW c \in asked[s] \ gaps[s],
               ~ \E q \in todo[s] : q.kind = "history" /\ q.center = c,
               ~ (Asking(s, "history") /\ task[s].center = c)
        PROVE  Covered(s, c)'
    <3>1. Covered(s, c) /\ date[s] \in Day /\ c \in Center
      BY <2>3, RowsStay
    <3> QED
      BY <2>1, <3>1, RowsStay
  <2>4. ASSUME IsJob(r), r \notin unsaved', stage'[r] = "choosing"
        PROVE  Covered(r, task[r].center)'
    <3>1. /\ task[r].date = date[r] /\ date[r] \in Day /\ task[r].center \in Center
          /\ task[r].kind = "history" /\ date[r] \in Window(task[r])
      <4>1. /\ task[r].date = date[r] /\ task[r].days = 1 /\ date[r] \in Day
               /\ Weekday(date[r]) < 5
            /\ task[r].center \in Center /\ task[r].kind = "history"
            /\ task[r] \in Question
        BY <1>14, <2>4, TaskType DEF KeepPoints
      <4> QED
        BY <4>1, OneDay
    <3>2. CASE date[r] \notin ToCache(r)
      <4>1. Covered(r, task[r].center)
        BY <1>14, <3>1, <3>2 DEF KeepPoints, ToCache
      <4> QED
        BY <2>1, <3>1, <4>1, RowsStay
    <3>3. CASE date[r] \in ToCache(r)
      <4>1. history'[task[r].center][date[r]] = fetched[r] /\ fetched[r] # None
        BY <1>14, <2>4, <3>1, <3>3 DEF KeepPoints, CacheFails
      <4> QED
        BY <2>1, <4>1
    <3> QED
      BY <3>2, <3>3
  <2>5. ASSUME IsJob(r), r \notin unsaved',
               NEW c \in asked[r] \ gaps[r],
               ~ \E q \in todo[r] : q.kind = "history" /\ q.center = c,
               ~ (Asking(r, "history") /\ task[r].center = c)
        PROVE  Covered(r, c)'
    <3>1. Covered(r, c) /\ date[r] \in Day /\ c \in Center
      BY <2>2, <2>5, RowsStay
    <3> QED
      BY <2>1, <3>1, RowsStay
  <2>6. stage'[r] \in {"choosing", "answered", "fetching", "keeping"}
    BY <1>14 DEF KeepPoints
  <2>7. IsJob(r) => stage'[r] # "answered"
    BY <1>14 DEF KeepPoints
  <2> QED
    BY <2>1, <2>2, <2>3, <2>4, <2>5, <2>6, <2>7, RowsStay
<1>15. ASSUME NEW r \in Request, WorkerDies(r) PROVE JobInv'
  BY <1>15, TaskType, RowsStay DEF WorkerDies
<1>16. CASE Midnight
  BY <1>16 DEF Midnight
<1>17. CASE UNCHANGED vars
  BY <1>17 DEF vars
<1> QED
  BY <1>1, <1>2, <1>3, <1>4, <1>5, <1>6, <1>7, <1>8, <1>9, <1>10, <1>11, <1>12, <1>13,
     <1>14, <1>15, <1>16, <1>17 DEF Next, ServerStep

\* Every step preserves the inductive invariant.
LEMMA StepInv == IInv /\ [Next]_vars => IInv'
<1> QED
  BY StepType, StepTask, StepStored, StepSnap, StepSource, StepSeen, StepRead, StepDay,
     StepJob, StepAnswer, StepReported DEF IInv

\* In every state of every behaviour the inductive invariant holds.
THEOREM Invariance == Spec => []IInv
<1>1. Init => IInv
  BY InitInv
<1>2. IInv /\ [Next]_vars => IInv'
  BY StepInv
<1> QED
  BY <1>1, <1>2, PTL DEF Spec

\* The variables of PlannerKpi always have their types.
THEOREM TypeCorrect == Spec => []TypeOK
<1>1. IInv => TypeOK
  BY DEF IInv
<1> QED
  BY <1>1, Invariance, PTL

\* A report request is answered with the report of its own day, work center and
\* filter (planner_daily_report_service.py:128-137, 671-679), whoever computed it.
THEOREM ReportsAnswerTheirQuestion == Spec => []AnswerIsToTheQuestion
<1>1. IInv => AnswerIsToTheQuestion
  BY DEF IInv
<1> QED
  BY <1>1, Invariance, PTL

\* Whatever the order of requests and prunes, the work centers of a stored report
\* have a snapshot of its day (planner_daily_report_service.py:187-196).
THEOREM StoredReportsHaveSnapshots == Spec => []ReportedDaysHaveSnapshots
<1>1. IInv => ReportedDaysHaveSnapshots
  BY DEF IInv
<1> QED
  BY <1>1, Invariance, PTL

\* A history shows the figures reports gave (planner_daily_report_service.py:257-269).
THEOREM HistoriesShowReports == Spec => []HistoryShowsReportedFigures
<1>1. IInv => HistoryShowsReportedFigures
  BY DEF IInv, SeenInv, HistoryShowsReportedFigures, Window
<1> QED
  BY <1>1, Invariance, PTL

\* A run of the nightly job leaves out no work center it has found registered
\* (planner_daily_report_jobs.py:16-52).
THEOREM JobIsComplete == Spec => []JobLeavesNoGap
<1>1. ASSUME IInv PROVE JobLeavesNoGap
  <2> SUFFICES ASSUME NEW r \in Request \ unsaved, IsJob(r), stage[r] = "answered",
                      NEW c \in asked[r] \ gaps[r]
               PROVE  Covered(r, c)
    BY DEF JobLeavesNoGap, Covered
  <2>1. ~Asking(r, "history")
    BY DEF Asking, Working
  <2>2. todo[r] = {}
    BY <1>1 DEF IInv, DayInv
  <2> QED
    BY <1>1, <2>1, <2>2 DEF IInv, JobInv
<1> QED
  BY <1>1, Invariance, PTL

-----------------------------------------------------------------------------
(***************************************************************************)
(* The steps of a request, and of a run of the job, run out.               *)
(***************************************************************************)
\* The stages of a question are left in their order, for the next question or the end.
LEMMA StageOrder ==
  /\ StepsAfter("registering") = 9 /\ StepsAfter("pruning") = 8
  /\ StepsAfter("looking") = 7 /\ StepsAfter("reading") = 7
  /\ StepsAfter("comparing") = 6 /\ StepsAfter("fetching") = 5
  /\ StepsAfter("snapping") = 4 /\ StepsAfter("storing") = 3
  /\ StepsAfter("keeping") = 3 /\ StepsAfter("choosing") = 1
  /\ \A s \in Ended : StepsAfter(s) = 0
  /\ \A s \in Stage \ (Ended \cup {"idle"}) : StepsAfter(s) > 0
BY DEF StepsAfter, Ended, Stage

\* A step of a request leaves what the others have to do and where they are.
LEMMA OthersKeepTheirPlace ==
  ASSUME TypeOK, NEW r \in Request, NEW q \in Request, q # r,
         Arrive(r) \/ JobStarts(r) \/ ServerStep(r) \/ WorkerDies(r)
  PROVE  todo'[q] = todo[q] /\ stage'[q] = stage[q]
<1> USE DEF TypeOK, GoTo, Finish, Begin, locals
<1>1. CASE Arrive(r) \/ JobStarts(r) \/ NextQuestion(r) \/ WorkerDies(r)
  BY <1>1 DEF Arrive, JobStarts, NextQuestion, WorkerDies
<1>2. CASE Register(r) \/ Prune(r) \/ LookUp(r) \/ FetchReport(r) \/ FetchFails(r)
           \/ SaveSnapshots(r)
  BY <1>2 DEF Register, Prune, LookUp, FetchReport, FetchFails, SaveSnapshots
<1>3. CASE StoreReport(r) \/ ReadPoints(r) \/ ReadSnapshots(r) \/ FetchHistory(r) \/ KeepPoints(r)
  BY <1>3 DEF StoreReport, ReadPoints, ReadSnapshots, FetchHistory, KeepPoints
<1> QED
  BY <1>1, <1>2, <1>3 DEF ServerStep

\* A step of the service takes a question or goes on to a later stage.
LEMMA StepUsesUp ==
  ASSUME TypeOK, NEW r \in Request, ServerStep(r)
  PROVE  UsesUp(r)
<1>1. ASSUME NEW s, GoTo(r, s) PROVE stage'[r] = s
  BY <1>1 DEF GoTo, TypeOK
<1>2. Finish(r) => stage'[r] \in {"choosing", "answered"}
  BY <1>1 DEF Finish
<1>3. CASE NextQuestion(r)
  <2>1. CASE todo[r] = {} /\ GoTo(r, "answered") /\ UNCHANGED todo
    BY <1>1, <1>3, <2>1, StageOrder DEF NextQuestion, UsesUp, Ended
  <2>2. ASSUME NEW q \in todo[r], todo' = [todo EXCEPT ![r] = @ \ {q}]
        PROVE  UsesUp(r)
    <3>1. todo'[r] = todo[r] \ {q}
      BY <2>2 DEF TypeOK
    <3>2. todo'[r] \subseteq todo[r] /\ todo'[r] # todo[r]
      BY <2>2, <3>1
    <3> QED
      BY <3>2 DEF UsesUp
  <2> QED
    BY <1>3, <2>1, <2>2 DEF NextQuestion
<1>4. CASE \/ Register(r) \/ Prune(r) \/ FetchReport(r) \/ SaveSnapshots(r) \/ ReadPoints(r)
  <2>1. /\ todo' = todo
        /\ \/ stage[r] = "registering" /\ stage'[r] = "pruning"
           \/ stage[r] = "pruning" /\ stage'[r] \in {"looking", "reading"}
           \/ stage[r] = "fetching" /\ stage'[r] = "snapping"
           \/ stage[r] = "snapping" /\ stage'[r] = "storing"
           \/ stage[r] = "reading" /\ stage'[r] = "comparing"
    BY <1>1, <1>4 DEF Register, Prune, FetchReport, SaveSnapshots, ReadPoints, locals
  <2> QED
    BY <2>1, StageOrder DEF UsesUp
<1>5. CASE LookUp(r) \/ ReadSnapshots(r) \/ FetchHistory(r) \/ FetchFails(r)
  <2>1. /\ todo' = todo
        /\ \/ stage[r] \in {"looking", "comparing"} /\ stage'[r] = "fetching"
           \/ stage[r] = "fetching" /\ stage'[r] = "keeping"
           \/ /\ stage[r] \in {"looking", "comparing", "fetching"}
              /\ stage'[r] \in {"choosing", "answered", "failed"}
    BY <1>1, <1>2, <1>5 DEF LookUp, ReadSnapshots, FetchHistory, FetchFails, locals
  <2> QED
    BY <2>1, StageOrder DEF UsesUp, Ended
<1>6. CASE StoreReport(r) \/ KeepPoints(r)
  <2>1. /\ todo' = todo /\ stage[r] \in {"storing", "keeping"}
        /\ stage'[r] \in {"choosing", "answered"}
    BY <1>2, <1>6 DEF StoreReport, KeepPoints, locals
  <2> QED
    BY <2>1, StageOrder DEF UsesUp, Ended
<1> QED
  BY <1>3, <1>4, <1>5, <1>6 DEF ServerStep

\* A question has at most nine steps, and a run of the job answers each work center and
\* the report once: nothing makes a request or a run begin one again.
THEOREM StepsOfQuestionsRunOut == Spec => StepsRunOut
<1> DEFINE Step == \A r \in Request :
              /\ ServerStep(r) => UsesUp(r)
              /\ stage[r] # "idle" =>
                   UsesUp(r) \/ (todo'[r] = todo[r] /\ stage'[r] = stage[r])
<1>1. IInv /\ [Next]_vars => [Step]_vars
  <2> SUFFICES ASSUME IInv, Next, NEW q \in Request
               PROVE  /\ ServerStep(q) => UsesUp(q)
                      /\ stage[q] # "idle" =>
                           UsesUp(q) \/ (todo'[q] = todo[q] /\ stage'[q] = stage[q])
    OBVIOUS
  <2>1. TypeOK
    BY DEF IInv
  <2>2. ServerStep(q) => UsesUp(q)
    BY <2>1, StepUsesUp
  <2>3. ASSUME NEW r \in Request, r # q,
               Arrive(r) \/ JobStarts(r) \/ ServerStep(r) \/ WorkerDies(r)
        PROVE  todo'[q] = todo[q] /\ stage'[q] = stage[q]
    BY <2>1, <2>3, OthersKeepTheirPlace
  <2>4. CASE Arrive(q) \/ JobStarts(q)
    BY <2>2, <2>4 DEF Arrive, JobStarts
  <2>5. CASE WorkerDies(q)
    <3>1. /\ todo' = todo /\ stage[q] \in Stage \ (Ended \cup {"idle"})
          /\ stage'[q] = "lost"
      BY <2>1, <2>5 DEF WorkerDies, GoTo, TypeOK, locals
    <3>2. StepsAfter(stage'[q]) = 0 /\ StepsAfter(stage[q]) > 0
      BY <3>1, StageOrder DEF Ended
    <3>3. UsesUp(q)
      BY <3>1, <3>2 DEF UsesUp
    <3> QED
      BY <3>3
  <2>6. CASE Midnight
    BY <2>2, <2>6 DEF Midnight, locals
  <2> QED
    BY <2>2, <2>3, <2>4, <2>5, <2>6 DEF Next
<1> QED
  BY <1>1, Invariance, PTL DEF Spec, StepsRunOut
=============================================================================
