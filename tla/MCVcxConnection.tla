--------------------------- MODULE MCVcxConnection ---------------------------
(* Small instances of VcxConnection. *)
EXTENDS VcxConnection
=============================================================================
