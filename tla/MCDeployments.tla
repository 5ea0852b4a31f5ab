--------------------------- MODULE MCDeployments ---------------------------
(* Instances of Deployments: two rows, the second for a recipe that names its
   namespace.  Operators are interchangeable. *)
EXTENDS Deployments, TLC

CONSTANTS d1, d2, op1, op2

TwoIds       == {d1, d2}
SecondOnly   == {d2}
OneOperatorProcess   == {op1}
TwoOperatorProcesses == {op1, op2}

Symmetry == Permutations(TwoOperatorProcesses)

=============================================================================
