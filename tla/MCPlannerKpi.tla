---------------------------- MODULE MCPlannerKpi ----------------------------
(***************************************************************************)
(* Small instances of PlannerKpi for TLC.  Days 4 to 8 are Friday to       *)
(* Tuesday; the requests are made on Monday and Tuesday.                   *)
(***************************************************************************)
EXTENDS PlannerKpi

CONSTANTS r1, r2, c1, f1

Weekend == {4, 6, 7, 8}
MondayTuesday == {7, 8}
AsWritten == [f \in Filter |-> f]

ReportOn(d, center, filter) == Asks("report", d, center, filter, 1)

\* The report of the last business day, without a filter and with one, that
\* of a day to come for one work center, a history over a weekend, and the job,
\* in the pairs that write the same rows or prune each other's.
Plain == ReportOn(Yesterday, None, NoFilter)
Filtered == ReportOn(Yesterday, None, f1)
Ahead == ReportOn(8, c1, NoFilter)
History == Asks("history", 7, c1, NoFilter, 4)
Job == Asks("job", Yesterday, None, NoFilter, 1)
Pairs == {<<Plain, Filtered>>, <<Plain, Ahead>>, <<Filtered, History>>,
          <<Ahead, Job>>, <<History, Job>>, <<Job, Job>>}
TellingPairs == {[r \in Request |-> IF r = r1 THEN pair[1] ELSE pair[2]] : pair \in Pairs}
FilteredThenNot == {[r \in Request |-> IF r = r1 THEN Filtered ELSE History]}

AllFaults == FaultKind
NoFaults == {}
=============================================================================
