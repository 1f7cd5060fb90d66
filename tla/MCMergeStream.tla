--------------------------- MODULE MCMergeStream ----------------------------
(* MergeStream on small instances. *)
EXTENDS MergeStream

\* Two keys that differ in the second column only, two in the first only.
MCKeys == {<<1, 1>>, <<1, 2>>, <<2, 1>>}
\* An empty value and another.
MCValues == {<<>>, <<"a">>}
\* No projection, and all columns with the values in the other order.
MCRequests == {<<>>, <<<<1, 2, 4, 3, 5, 6>>>>}
\* All columns of the user.
MCUserColumns == {<<<<1, 2, 3, 4>>>>}
=============================================================================
