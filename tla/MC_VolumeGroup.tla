--------------------------- MODULE MC_VolumeGroup ---------------------------
(* Model-checking instance of VolumeGroup: two volumes, one or two snapshot names. *)
EXTENDS VolumeGroup

CONSTANTS v1, v2, s1, s2
MC_Vols == {v1, v2}
MC_Names == {s1}
MC_TwoNames == {s1, s2}
=============================================================================
