---------------------------- MODULE MCItemUpdate ----------------------------
(***************************************************************************)
(* A small instance of ItemUpdate for TLC.                                 *)
(***************************************************************************)
EXTENDS ItemUpdate, TLC

CONSTANTS r1, r2, r3, i1, desc, price, v0, v1

Blank == [f \in Field |-> v0]
Set(field, expected, new) == [field |-> field, expected |-> expected, new |-> new]
Ask(kind, changes) == [kind |-> kind, item |-> i1, changes |-> changes]

\* An update that expects both fields, one that expects nothing of the field it
\* sets and names it twice, and the two creations of the same item.
Body == <<Ask("update", <<Set(desc, v0, v1), Set(price, v0, v0)>>),
          Ask("update", <<Set(price, None, v0), Set(price, None, v1)>>),
          Ask("purchased", <<Set(desc, None, v1)>>),
          Ask("manufactured", <<>>)>>
Bodies == {Body[n] : n \in 1..4}

\* Any three of them, in no order.
AnyThree == {r1 :> Body[x] @@ r2 :> Body[y] @@ r3 :> Body[z] :
               <<x, y, z>> \in {t \in (1..4) \X (1..4) \X (1..4) : t[1] <= t[2] /\ t[2] <= t[3]}}

AllFaults == FaultKind
=============================================================================
