--------------------------- MODULE MCOrderReconcile ---------------------------
(* Instances of OrderReconcile for TLC. *)
EXTENDS OrderReconcile, TLC

CONSTANTS o1, o2, o3, o4, o5, o6, o7, c1, c2

\* Nothing tells the one contract from the other.
Symmetry == Permutations({c1, c2})

\* The default of no stop at the venue that holds pairs, and a pair at the one that does not.
BothVenues == {[venue |-> "schwab", stopOn |-> FALSE], [venue |-> "alpaca", stopOn |-> TRUE]}

\* An exit is re-priced at the venue where it is a single order; entries are re-sized at both.
AsksThere == [v \in Venues |-> IF v = "schwab" THEN {110, 120} ELSE {110}]

=============================================================================
