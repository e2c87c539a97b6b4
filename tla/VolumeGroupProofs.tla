-------------------------- MODULE VolumeGroupProofs --------------------------
(***************************************************************************)
(* Proofs about VolumeGroup: type correctness and handle ownership        *)
(* (Ownership) for every set of volumes, names and bound.                  *)
(***************************************************************************)
EXTENDS VolumeGroup, TLAPS

\* The release bookkeeping of a request, by the state of its volumeGroup:
\* while it is open nothing resolved in it has been released and every
\* resolved handle is owned either by volumesToFree or by the caller; once
\* it is closed exactly the resolved handles were released once; a crashed
\* process has released nothing.
GroupOwned == toFree \subseteq Vols \X {"group"}

OpenBooks ==
    sess = "open" =>
        /\ resolved = toFree \cup (held \X {"caller"})
        /\ \A h \in Handles : rel[h] = 0

ClosedBooks ==
    sess = "closed" => \A h \in Handles : rel[h] = IF h \in resolved THEN 1 ELSE 0

NoneBooks ==
    sess = "none" => \A h \in Handles : rel[h] = 0

OwnInv == TypeOK /\ GroupOwned /\ OpenBooks /\ ClosedBooks /\ NoneBooks

\* The volumes of a set of handles are volumes.
LEMMA VolsOfType ==
    ASSUME NEW H \in SUBSET Handles
    PROVE  VolsOf(H) \subseteq Vols
BY DEF VolsOf, Handles

\* The per-image snapshots NewSnapshotByID records for a listing of a group
\* snapshot of volumes are <<index, name, volume>> triples.
LEMMA MaterializeType ==
    ASSUME NEW n \in Names, NEW S \in SUBSET Vols, NEW ord \in Listings(S),
           NEW D \in SUBSET S
    PROVE  Materialize(n, ord, D) \subseteq Nat \X Names \X Vols
BY DEF Listings, Materialize

\* The outcome record of a membership call has the type of lastCall.
LEMMA CallRecordType ==
    ASSUME NEW v \in Vols, NEW b \in BOOLEAN
    PROVE  [vol |-> v, ok |-> b] \in [vol : Vols \cup {"none"}, ok : BOOLEAN]
OBVIOUS

\* The initial state (no request yet) satisfies the bookkeeping.
LEMMA OwnInit == Init => OwnInv
<1> SUFFICES ASSUME Init PROVE OwnInv
    OBVIOUS
<1>1. crashes \in 0..MaxCrashes /\ calls \in 0..MaxCalls
    BY CrashAssumption, CallsAssumption DEF Init
<1> QED
    BY <1>1 DEF Init, OwnInv, TypeOK, GroupOwned, OpenBooks, ClosedBooks,
              NoneBooks, SnapOutcomes

\* Every step of a request, a crash or a backend call keeps the bookkeeping.
LEMMA OwnStep == OwnInv /\ [Next]_vars => OwnInv'
<1> SUFFICES ASSUME OwnInv, [Next]_vars PROVE OwnInv'
    OBVIOUS
<1> USE CrashAssumption, CallsAssumption DEF OwnInv, backend, journal, session,
                                          snapcall
<1>1. CASE GetVolumeGroup
    <2>0. lastCall' \in [vol : Vols \cup {"none"}, ok : BOOLEAN]
        BY <1>1, CallRecordType DEF GetVolumeGroup, TypeOK
    <2>1. TypeOK'
        BY <1>1, <2>0 DEF GetVolumeGroup, TypeOK, Handles, Owners, SnapOutcomes
    <2>2. GroupOwned' /\ OpenBooks' /\ ClosedBooks' /\ NoneBooks'
        BY <1>1, <2>1 DEF GetVolumeGroup, TypeOK, GroupOwned, OpenBooks, ClosedBooks,
                    NoneBooks, Handles
    <2> QED
        BY <2>1, <2>2
<1>2. CASE Destroy
    <2>0. lastCall' \in [vol : Vols \cup {"none"}, ok : BOOLEAN]
        BY <1>2, CallRecordType DEF Destroy, TypeOK
    <2>1. TypeOK'
        BY <1>2, <2>0 DEF Destroy, TypeOK, Handles, Owners, SnapOutcomes
    <2>2. GroupOwned' /\ OpenBooks' /\ ClosedBooks' /\ NoneBooks'
        BY <1>2, <2>1 DEF Destroy, TypeOK, GroupOwned, OpenBooks, ClosedBooks,
                    NoneBooks, Handles
    <2> QED
        BY <2>1, <2>2
<1>3. CASE Create
    <2>0. lastCall' \in [vol : Vols \cup {"none"}, ok : BOOLEAN]
        BY <1>3, CallRecordType DEF Create, Call, TypeOK
    <2>b. grp' \in BOOLEAN /\ jrec' \in BOOLEAN /\ gsFault' \in BOOLEAN
        BY <1>3 DEF Create, TypeOK, snapcall, journal
    <2>1. TypeOK'
        BY <1>3, <2>0, <2>b DEF Create, Call, TypeOK, Handles, Owners, SnapOutcomes
    <2>2. GroupOwned' /\ OpenBooks' /\ ClosedBooks' /\ NoneBooks'
        BY <1>3, <2>1 DEF Create, Call, TypeOK, GroupOwned, OpenBooks, ClosedBooks,
                    NoneBooks, Handles
    <2> QED
        BY <2>1, <2>2
<1>4. CASE Delete
    <2>0. lastCall' \in [vol : Vols \cup {"none"}, ok : BOOLEAN]
        BY <1>4, CallRecordType DEF Delete, Call, TypeOK
    <2>b. grp' \in BOOLEAN /\ jrec' \in BOOLEAN /\ gsFault' \in BOOLEAN
        BY <1>4 DEF Delete, TypeOK, snapcall, journal
    <2>1. TypeOK'
        BY <1>4, <2>0, <2>b DEF Delete, Call, TypeOK, Handles, Owners, SnapOutcomes
    <2>2. GroupOwned' /\ OpenBooks' /\ ClosedBooks' /\ NoneBooks'
        BY <1>4, <2>1 DEF Delete, Call, TypeOK, GroupOwned, OpenBooks, ClosedBooks,
                    NoneBooks, Handles
    <2> QED
        BY <2>1, <2>2
<1>5. CASE Crash
    <2>0. lastCall' \in [vol : Vols \cup {"none"}, ok : BOOLEAN]
        BY <1>5, CallRecordType DEF Crash, Forget, TypeOK
    <2>1. TypeOK'
        BY <1>5, <2>0 DEF Crash, Forget, TypeOK, Handles, Owners, SnapOutcomes
    <2>2. GroupOwned' /\ OpenBooks' /\ ClosedBooks' /\ NoneBooks'
        BY <1>5, <2>1 DEF Crash, Forget, TypeOK, GroupOwned, OpenBooks, ClosedBooks,
                    NoneBooks, Handles
    <2> QED
        BY <2>1, <2>2
<1>6. ASSUME NEW v \in Vols, AddVolume(v) PROVE OwnInv'
    <2>0. lastCall' \in [vol : Vols \cup {"none"}, ok : BOOLEAN]
        BY <1>6, CallRecordType DEF AddVolume, CallerResolves, Call, TypeOK
    <2>1. TypeOK'
        BY <1>6, <2>0 DEF AddVolume, CallerResolves, Call, TypeOK, Handles, Owners, SnapOutcomes
    <2>2. GroupOwned' /\ OpenBooks' /\ ClosedBooks' /\ NoneBooks'
        BY <1>6, <2>1 DEF AddVolume, CallerResolves, Call, TypeOK, GroupOwned, OpenBooks, ClosedBooks,
                    NoneBooks, Handles
    <2> QED
        BY <2>1, <2>2
<1>7. ASSUME NEW v \in Vols, RemoveVolume(v) PROVE OwnInv'
    <2>0. lastCall' \in [vol : Vols \cup {"none"}, ok : BOOLEAN]
        BY <1>7, CallRecordType DEF RemoveVolume, CallerResolves, Call, TypeOK
    <2>1. TypeOK'
        BY <1>7, <2>0 DEF RemoveVolume, CallerResolves, Call, TypeOK, Handles, Owners, SnapOutcomes
    <2>2. GroupOwned' /\ OpenBooks' /\ ClosedBooks' /\ NoneBooks'
        BY <1>7, <2>1 DEF RemoveVolume, CallerResolves, Call, TypeOK, GroupOwned, OpenBooks, ClosedBooks,
                    NoneBooks, Handles
    <2> QED
        BY <2>1, <2>2
<1>8. ASSUME NEW n \in Names, CreateSnapshots(n) PROVE OwnInv'
    <2>0. lastCall' \in [vol : Vols \cup {"none"}, ok : BOOLEAN]
        BY <1>8 DEF CreateSnapshots, TypeOK
    <2>b. grp' \in BOOLEAN /\ jrec' \in BOOLEAN /\ gsFault' \in BOOLEAN
        BY <1>8 DEF CreateSnapshots, RemoveGroupSnap, GroupSnapInfoFails,
                   TypeOK
    <2>c. images' \subseteq Nat \X Names \X Vols
        <3>1. gcons' \in [Names -> SUBSET Vols]
            BY <1>8 DEF CreateSnapshots, TypeOK
        <3>2. \/ images' = images
              \/ \E D \in SUBSET gcons'[n], ord \in Listings(gcons'[n]) :
                    images' = images \cup Materialize(n, ord, D)
            BY <1>8 DEF CreateSnapshots, GroupSnapInfoFails
        <3> QED
            BY <1>8, <3>1, <3>2, MaterializeType DEF TypeOK
    <2>1. TypeOK'
        BY <1>8, <2>0, <2>b, <2>c, VolsOfType DEF CreateSnapshots, Call, Forget,
                   RemoveGroupSnap, GroupSnapInfoFails, TypeOK, Handles,
                   Owners, SnapOutcomes
    <2>2. GroupOwned' /\ OpenBooks' /\ ClosedBooks' /\ NoneBooks'
        BY <1>8, <2>1 DEF CreateSnapshots, Call, Forget, RemoveGroupSnap,
                   GroupSnapInfoFails, TypeOK, GroupOwned, OpenBooks, ClosedBooks,
                    NoneBooks, Handles
    <2> QED
        BY <2>1, <2>2
<1>9. CASE UNCHANGED vars
    BY <1>9 DEF vars, TypeOK, GroupOwned, OpenBooks, ClosedBooks, NoneBooks
<1> QED
    BY <1>1, <1>2, <1>3, <1>4, <1>5, <1>6, <1>7, <1>8, <1>9 DEF Next

\* Handle ownership (GetVolumeGroup's deferred release, Destroy freeing
\* volumesToFree only, the caller freeing what it resolved) holds in every
\* reachable state, for any volumes, names and bounds.
THEOREM OwnershipThm == Spec => []Ownership
<1>1. OwnInv => Ownership
    BY DEF OwnInv, Ownership, ClosedBooks, OpenBooks, NoneBooks, TypeOK
<1> QED
    BY <1>1, OwnInit, OwnStep, PTL DEF Spec

\* The variables of VolumeGroup keep their types in every reachable state.
THEOREM VGTypeCorrect == Spec => []TypeOK
BY OwnInit, OwnStep, PTL DEF Spec, OwnInv


-----------------------------------------------------------------------------
(* Cleanup of the group snapshot *)

\* GroupSnapshotCleaned is inductive by itself: only CreateSnapshots adds a
\* group snapshot, and every return of it that is not a crash runs the
\* deferred GroupSnapRemove on the name it records; Delete removes group
\* snapshots only, and the other operations leave them and the record of
\* the last CreateSnapshots alone.
LEMMA CleanStep == GroupSnapshotCleaned /\ [Next]_vars => GroupSnapshotCleaned'
<1> SUFFICES ASSUME GroupSnapshotCleaned, [Next]_vars PROVE GroupSnapshotCleaned'
    OBVIOUS
<1> USE DEF GroupSnapshotCleaned
<1>1. ASSUME NEW n \in Names, CreateSnapshots(n) PROVE GroupSnapshotCleaned'
    BY <1>1 DEF CreateSnapshots, RemoveGroupSnap, GroupSnapInfoFails
<1>2. CASE Delete
    BY <1>2 DEF Delete, snapcall
<1>3. CASE GetVolumeGroup \/ Destroy \/ Create \/ Crash
    BY <1>3 DEF GetVolumeGroup, Destroy, Create, Crash, backend, snapcall
<1>4. ASSUME NEW v \in Vols, AddVolume(v) \/ RemoveVolume(v)
      PROVE  GroupSnapshotCleaned'
    BY <1>4 DEF AddVolume, RemoveVolume, backend, snapcall
<1>5. CASE UNCHANGED vars
    BY <1>5 DEF vars, backend, snapcall
<1> QED
    BY <1>1, <1>2, <1>3, <1>4, <1>5 DEF Next

\* A CreateSnapshots that returned leaves no group snapshot of its name
\* behind unless the deferred GroupSnapRemove failed, for any sets of
\* volumes and names and any bounds.
THEOREM GroupSnapshotCleanedThm == Spec => []GroupSnapshotCleaned
<1>1. Init => GroupSnapshotCleaned
    BY DEF Init, GroupSnapshotCleaned
<1> QED
    BY <1>1, CleanStep, PTL DEF Spec

=============================================================================
