--------------------------- MODULE MC_ReclaimSpace ---------------------------
(* Three requests on two volumes and the empty volume ID. *)
EXTENDS ReclaimSpace

CONSTANTS r1, r2, r3, vA, vB, vNone

MC_Reqs == {r1, r2, r3}
MC_Vols == {vA, vB}

=============================================================================
