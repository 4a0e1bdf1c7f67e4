--------------------------- MODULE MCTenantErasure ---------------------------
(* Values for the constants of TenantErasure.                              *)
EXTENDS TenantErasure

CONSTANTS url, form, worker, drain, tool, first
=============================================================================
