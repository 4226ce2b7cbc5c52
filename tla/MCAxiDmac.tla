----------------------------- MODULE MCAxiDmac -----------------------------
(* AxiDmac on a small instance: transfers of one tick and of three.        *)
EXTENDS AxiDmac

MCDurations == {1, 3}
=============================================================================
