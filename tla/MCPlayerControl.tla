--------------------------- MODULE MCPlayerControl ---------------------------
(* PlayerControl with two open modules, or one; what the user does is       *)
(* chosen per configuration.                                                *)
EXTENDS PlayerControl
=============================================================================
