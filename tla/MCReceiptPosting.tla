-------------------------- MODULE MCReceiptPosting --------------------------
(***************************************************************************)
(* Small instances of ReceiptPosting for TLC.                              *)
(***************************************************************************)
EXTENDS ReceiptPosting

CONSTANTS n1, n2, s1, s2, k1

TwoEach == [l \in Line |-> 2]
Of(l, q) == [line |-> l, quantity |-> q]
Body(lines, refs, delay, key) ==
  [lines |-> lines, refs |-> refs, delay |-> delay, key |-> key]

\* A full receipt, a partial one with a key, one that names a line twice, one
\* with a key that asks for too much, and one with two shipment references.
Bodies == {Body(<<Of(n1, 2), Of(n2, 2)>>, {s1}, TRUE, NoKey),
           Body(<<Of(n2, 1)>>, {s2}, FALSE, k1),
           Body(<<Of(n1, 2), Of(n1, 1)>>, {s1}, FALSE, NoKey),
           Body(<<Of(n1, 1), Of(n2, 3)>>, {s1}, TRUE, k1),
           Body(<<Of(n1, 1)>>, {s1, s2}, FALSE, NoKey)}

AllFaults == FaultKind
=============================================================================
