--------------------------- MODULE MCClusterCache ---------------------------
(* Instances of ClusterCache: in their second version there are no pods. *)
EXTENDS ClusterCache

PodsChange     == [k \in Kinds |-> IF k = "pods" THEN 2 ELSE 1]
PodsAreDeleted == {<<"pods", 2>>}

=============================================================================
