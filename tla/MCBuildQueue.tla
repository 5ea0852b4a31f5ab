---------------------------- MODULE MCBuildQueue ----------------------------
(* Instances of BuildQueue for TLC: see the README for the bounds. *)
EXTENDS BuildQueue

CONSTANTS b1, b2, b3

ThreeBuilds == {b1, b2, b3}

=============================================================================
