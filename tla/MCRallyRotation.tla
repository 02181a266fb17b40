--------------------------- MODULE MCRallyRotation ---------------------------
(* Values for Rally Rotation: what a run can find of a name, from too little   *)
(* history to a leader that crashed today.                                     *)
EXTENDS RallyRotation

Found(enough, eligible, score, crash) ==
  [history |-> enough, eligible |-> eligible, score |-> score, crash |-> crash]

MCRiskOn == <<"x", "y", "z">>

Thin    == Found(FALSE, FALSE, 0, FALSE)
Failed  == Found(TRUE, FALSE, 1, FALSE)
Weak    == Found(TRUE, TRUE, -1, FALSE)
Good    == Found(TRUE, TRUE, 1, FALSE)
Leading == Found(TRUE, TRUE, 3, FALSE)
Crashed == Found(TRUE, TRUE, 3, TRUE)

MCMarkets ==
  {[s \in {"x", "y", "z"} |-> Thin]} \cup
  {m \in [{"x", "y", "z"} -> {Failed, Weak, Good, Leading, Crashed}] :
     /\ m["x"] \in {Weak, Good, Crashed}
     /\ m["y"] \in {Failed, Good, Leading}
     /\ m["z"] \in {Failed, Leading}}

MCBooks == {<<>>, [s \in {"x", "odd"} |-> IF s = "x" THEN 8 ELSE 4]}
=============================================================================
