--------------------------- MODULE MCK8sDeployer ---------------------------
(* Instances of K8sDeployer: a web slice that is always there, and a second
   slice, with a claim, that one version of the recipe has and the other has
   not; and, for longer histories, two versions of one slice. *)
EXTENDS K8sDeployer

TwoCallers == {"cli", "operator"}

WebAndCache == [v1 |-> {"web"}, v2 |-> {"web", "cache"}]
WebOnly     == [v1 |-> {"web"}, v2 |-> {"web"}]

FourObjects  == [web   |-> {"Deployment", "Service"},
                 cache |-> {"PersistentVolumeClaim", "Deployment"}]
ThreeObjects == [web |-> {"Deployment", "Service"}, cache |-> {"Deployment"}]
OneKind      == [web |-> {"Deployment"}, cache |-> {"Deployment"}]

=============================================================================
