--------------------------- MODULE MCTenantPurge ---------------------------
(* Instances of TenantPurge for TLC. *)
EXTENDS TenantPurge

CONSTANTS owner, guest, p1, p2, r1, r2
=============================================================================
