CONSTANTS
    r1 = r1
    r2 = r2
    r3 = r3
    vA = vA
    vB = vB
    vNone = vNone
    Reqs <- MC_Reqs
    Vols <- MC_Vols
    NoVol = vNone
SPECIFICATION Spec
INVARIANT
    NoSparsifyWhileMapped
