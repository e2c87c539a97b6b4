--------------------------- MODULE MC_CephFSClone ---------------------------
(* Model-checking instance of CephFSClone: both flows, a parent smaller    *)
(* than the requested size; crash bounds are set in the cfgs.            *)
EXTENDS CephFSClone

MC_Ops == {FromSubvolume, FromSnapshot}
MC_KnownStates == KnownStates
MC_AllStates == AllStates
MC_OnlySubvolume == {FromSubvolume}
MC_OnlySnapshot == {FromSnapshot}
=============================================================================
