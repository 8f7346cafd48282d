---------------------------- MODULE MCAutopilot ----------------------------
(***************************************************************************)
(* Small instances of Autopilot for TLC.                                   *)
(***************************************************************************)
EXTENDS Autopilot, TLC

CONSTANTS ra, rb, rc, o1, o2, m1, m2, w1, w2

\* o1 comes before o2 and may only run on m2; o2 may run anywhere.
InOrder == [x \in Op \cup Machine |-> IF x \in {o1, m1} THEN 1 ELSE 2]
OneIsBound == [o \in Op |-> IF o = o1 THEN {m2} ELSE Machine]

Of(x, y, z) == ra :> x @@ rb :> y @@ rc :> z
At(k, p) == [kind |-> k, place |-> p]
Together == Of(w1, w1, w1)
Apart == Of(w1, w2, w2)

\* Two suggestions and a refresh, two refreshes and a suggestion, a job refused,
\* planned again and suggested, two changes of a machine's status; and two more of
\* requests that meet in a table, so that there are rings through either worker and
\* one through both.
CellMixes == {At(Of("next", "next", "refresh"), Apart),
              At(Of("refresh", "refresh", "next"), Apart),
              At(Of("refuse", "refresh", "next"), Together),
              At(Of("status", "status", "refresh"), Apart),
              At(Of("refuse", "next", "next"), Apart),
              At(Of("refresh", "refuse", "next"), Apart)}
SuggestionMixes == {At(Of("next", "next", "next"), Together)}

AllFaults == FaultKind
NoFaults == {}
=============================================================================
