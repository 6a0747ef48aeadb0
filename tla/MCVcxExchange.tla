---------------------------- MODULE MCVcxExchange ----------------------------
(* Small instances of VcxExchange. *)
EXTENDS VcxExchange
=============================================================================
