---------------------------- MODULE MCBtClient ----------------------------
(* The instance TLC checks: Belt.cfg gives its bounds. *)
EXTENDS BtClient
=============================================================================
