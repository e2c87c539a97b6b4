CONSTANTS
    v1 = v1
    v2 = v2
    s1 = s1
    s2 = s2
    Vols <- MC_Vols
    Names <- MC_Names
    MaxCrashes = 1
    MaxCalls = 5
SPECIFICATION Spec
PROPERTY
    MembershipAgrees
