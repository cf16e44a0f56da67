-------------------------- MODULE MCGatewayBilling --------------------------
(* Instances of GatewayBilling for TLC.  A checkout names its subscription *)
(* and its customer, so checkouts are interchangeable, and so are requests.*)
EXTENDS GatewayBilling, TLC

Symmetry == Permutations(Checkouts) \cup Permutations(Handlers)

(* Two webhook requests of the account overlap: the guarantee that an old  *)
(* gateway subscription's end spares the one the row follows now.          *)
ResubscriptionSurvives == CanceledMeansEnded
=============================================================================
