---------------------------- MODULE MCKeyedWrites ----------------------------
(***************************************************************************)
(* A small instance of KeyedWrites for TLC.                                *)
(***************************************************************************)
EXTENDS KeyedWrites, TLC

CONSTANTS r1, r2, r3, n1, n2, k1

TwoAndOne == (n1 :> 2 @@ n2 :> 1)
Of(l, q) == [line |-> l, quantity |-> q]
Return(key, lines) == [kind |-> "return", key |-> key, lines |-> lines]
Reply(key) == [kind |-> "reply", key |-> key, lines |-> <<>>]
Comment(key) == [kind |-> "comment", key |-> key, lines |-> <<>>]

Whole2 == Return(k1, <<Of(n1, 2), Of(n2, 1)>>)
Part == Return(k1, <<Of(n1, 1)>>)
Twice == Return(NoKey, <<Of(n1, 1), Of(n1, 1)>>)
TooMuch == Return(k1, <<Of(n1, 1), Of(n2, 2)>>)

Bodies == {Whole2, Part, Twice, TooMuch, Reply(k1), Reply(NoKey), Comment(k1)}

\* Two keyed writes, of one kind or two, and a third request with their key, one
\* that is refused, a comment, or a return whose second line the ERP refuses.
Mixes == {(r1 :> a @@ r2 :> b @@ r3 :> c) :
            a \in {Whole2, Reply(k1)}, b \in {Part, Reply(k1)},
            c \in {Part, TooMuch, Twice, Comment(k1), Reply(NoKey)}}

\* A client that sends its reply again, or its comment, under the same key.
SentTwice == {(r1 :> c @@ r2 :> c) : c \in {Reply(k1), Comment(k1)}}

NoFaults == {}
AllFaults == FaultKind
=============================================================================
