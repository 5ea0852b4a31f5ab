--------------------------- MODULE MCOrderWizard ---------------------------
(* Instances of OrderWizard. *)
EXTENDS OrderWizard

=============================================================================
