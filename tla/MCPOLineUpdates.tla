-------------------------- MODULE MCPOLineUpdates --------------------------
(***************************************************************************)
(* Small instances of POLineUpdates for TLC.                               *)
(***************************************************************************)
EXTENDS POLineUpdates, TLC

CONSTANTS l1, k1, k2

Days == 0..1
OneDay == {0}
OpenRow == [status |-> "open",
            data |-> [a \in Attribute |->
                        CASE a = "promise_date" -> 0
                          [] a = "unit_price" -> 5
                          [] a = "quantity" -> 2
                          [] OTHER -> 0]]
Rows == [l \in Line |-> OpenRow]
ReceivedRows == [l \in Line |-> [OpenRow EXCEPT !.data["quantity_received"] = 1]]

Update(f, v, k) == [line |-> l1, field |-> f, value |-> v, key |-> k]

\* A date and a quantity update under one key, and a keyless price update.
SharedKeyCommands == {Update("promise_date", 1, k1), Update("quantity", 1, k1),
                      Update("unit_price", 6, NoKey)}
\* On a row that has been received: an update that is allowed, with a key and
\* without, and one that is not.
MixedCommands == {Update("quantity", 1, k1), Update("promise_date", 1, NoKey),
                  Update("unit_price", 6, NoKey)}

AllFaults == FaultKind
PatchFaults == {"patch"}

Symmetry == Permutations(Request)
=============================================================================
