------------------------- MODULE CephFSCloneProofs --------------------------
(***************************************************************************)
(* Proofs about CephFSClone, for every value of the constants: the type    *)
(* invariant, and that a clone reported as created is complete, of the     *)
(* requested size and without its intermediate snapshot, provided the      *)
(* backend reports only the clone states cephFSCloneState.ToError names.   *)
(***************************************************************************)
EXTENDS CephFSClone, TLAPS

\* TypeOK is not inductive by itself: the compensator hands the function's
\* err to the caller, so err must be a terminal error while it runs.
CompensatingErr == pc \in {"purge", "compdelsnap"} => err = "terminal"
TypeInv == TypeOK /\ CompensatingErr

\* The step of each action preserves the strengthened type invariant.
LEMMA TypeStep == TypeInv /\ [Next]_vars => TypeInv'
<1> SUFFICES ASSUME TypeInv, [Next]_vars PROVE TypeInv'
    OBVIOUS
<1> USE DEF TypeInv, CompensatingErr
<1> USE OpsAssumption, StatesAssumption, SizeAssumption, CrashAssumption
<1> USE DEF TypeOK, PCs, Results, KnownStates, AllStates
<1>1. CASE Invoke
    BY <1>1 DEF Invoke
<1>2. CASE CreateSnapshot
    BY <1>2 DEF CreateSnapshot, Return
<1>3. CASE CloneSnapshot
    BY <1>3 DEF CloneSnapshot, Return
<1>4. CASE QueryCloneState
    <2>1. GetCloneState \subseteq {"nil", "retry", "terminal"}
        BY DEF GetCloneState, ToError
    <2>2. QED
        BY <1>4, <2>1 DEF QueryCloneState, Return
<1>5. CASE ExpandVolume
    BY <1>5 DEF ExpandVolume, Return
<1>6. CASE DeleteSnapshot
    BY <1>6 DEF DeleteSnapshot, Return
<1>7. CASE PurgeVolume
    BY <1>7 DEF PurgeVolume
<1>8. CASE CompDeleteSnapshot
    BY <1>8 DEF CompDeleteSnapshot
<1>9. CASE CleanupSnapshotFromSubvolume
    BY <1>9 DEF CleanupSnapshotFromSubvolume
<1>10. CASE Crash
    BY <1>10 DEF Crash
<1>11. CASE BackendProgress
    BY <1>11 DEF BackendProgress
<1>12. CASE UNCHANGED vars
    BY <1>12 DEF vars
<1>13. QED
    BY <1>1, <1>2, <1>3, <1>4, <1>5, <1>6, <1>7, <1>8, <1>9, <1>10,
       <1>11, <1>12 DEF Next, Step

\* The initial state satisfies the strengthened type invariant.
LEMMA TypeInit == Init => TypeInv
<1> SUFFICES ASSUME Init PROVE TypeInv
    OBVIOUS
<1>1. crashes \in 0..MaxCrashes
    BY CrashAssumption DEF Init
<1>2. cloneState \in BackendStates \cup {"absent"}
    BY DEF Init
<1>3. QED
    BY <1>1, <1>2 DEF Init, TypeInv, CompensatingErr, TypeOK, PCs, Results

\* Type correctness of the clone orchestration.
THEOREM TypeCorrect == Spec => []TypeOK
<1>1. TypeInv => TypeOK
    BY DEF TypeInv
<1>2. QED
    BY <1>1, TypeInit, TypeStep, PTL DEF Spec

-----------------------------------------------------------------------------
(* The inductive invariant behind CloneSucceeded: "ok" is only returned by *)
(* a finished invocation, and the invocation reaches ExpandVolume only     *)
(* after observing a complete clone and DeleteSnapshot only after the      *)
(* resize; a complete clone never changes state again.                     *)
RunningResult == pc # "idle" => result \in {"none", "retry"}
ExpandAfterComplete == pc = "expand" => cloneState = "complete"
DeleteAfterResize ==
    pc = "delsnap" => cloneState = "complete" /\ volSize = RequestedSize
SuccessInv ==
    /\ TypeInv
    /\ RunningResult
    /\ ExpandAfterComplete
    /\ DeleteAfterResize
    /\ CloneSucceeded

\* Of the states the code names, only "complete" is classified as no error.
LEMMA OnlyCompleteIsNil ==
    ASSUME NEW s \in KnownStates, ToError(s) = "nil"
    PROVE  s = "complete"
BY DEF KnownStates, ToError

\* Each step preserves SuccessInv when the backend reports known states.
LEMMA SuccessStep ==
    ASSUME BackendStates = KnownStates
    PROVE  SuccessInv /\ [Next]_vars => SuccessInv'
<1> SUFFICES ASSUME SuccessInv, [Next]_vars PROVE SuccessInv'
    OBVIOUS
<1>0. TypeInv'
    BY TypeStep DEF SuccessInv
<1> USE DEF SuccessInv, TypeInv, TypeOK, RunningResult, ExpandAfterComplete,
            DeleteAfterResize, CloneSucceeded
<1>1. CASE Invoke
    BY <1>0, <1>1 DEF Invoke
<1>2. CASE CreateSnapshot
    BY <1>0, <1>2 DEF CreateSnapshot, Return
<1>3. CASE CloneSnapshot
    BY <1>0, <1>3 DEF CloneSnapshot, Return
<1>4. CASE QueryCloneState
    <2>1. "nil" \in GetCloneState => cloneState = "complete"
        BY OnlyCompleteIsNil DEF GetCloneState
    <2>2. "ok" \notin GetCloneState
        BY DEF GetCloneState, ToError
    <2>3. QED
        BY <1>0, <1>4, <2>1, <2>2 DEF QueryCloneState, Return
<1>5. CASE ExpandVolume
    BY <1>0, <1>5 DEF ExpandVolume, Return
<1>6. CASE DeleteSnapshot
    BY <1>0, <1>6 DEF DeleteSnapshot, Return
<1>7. CASE PurgeVolume
    BY <1>0, <1>7 DEF PurgeVolume, CompensatingErr
<1>8. CASE CompDeleteSnapshot
    BY <1>0, <1>8 DEF CompDeleteSnapshot, CompensatingErr
<1>9. CASE CleanupSnapshotFromSubvolume
    BY <1>0, <1>9 DEF CleanupSnapshotFromSubvolume
<1>10. CASE Crash
    BY <1>0, <1>10 DEF Crash
<1>11. CASE BackendProgress
    <2>1. cloneState # "complete"
        BY <1>11 DEF BackendProgress
    <2>2. QED
        BY <1>0, <1>11, <2>1 DEF BackendProgress
<1>12. CASE UNCHANGED vars
    BY <1>0, <1>12 DEF vars
<1>13. QED
    BY <1>1, <1>2, <1>3, <1>4, <1>5, <1>6, <1>7, <1>8, <1>9, <1>10,
       <1>11, <1>12 DEF Next, Step

\* A clone reported as created is a complete clone of the requested size
\* whose intermediate snapshot is gone, for every value of the constants,
\* as long as the backend reports only the states ToError names
\* (a "canceled" clone falls through ToError's switch as success).
THEOREM CloneSucceededThm ==
    ASSUME BackendStates = KnownStates
    PROVE  Spec => []CloneSucceeded
<1>1. Init => SuccessInv
    <2> SUFFICES ASSUME Init PROVE SuccessInv
        OBVIOUS
    <2>1. TypeInv
        BY TypeInit
    <2>2. QED
        BY <2>1 DEF Init, SuccessInv, RunningResult, ExpandAfterComplete,
                    DeleteAfterResize, CloneSucceeded
<1>2. SuccessInv => CloneSucceeded
    BY DEF SuccessInv
<1>3. QED
    BY <1>1, <1>2, SuccessStep, PTL DEF Spec


-----------------------------------------------------------------------------
(* The inductive invariant behind NoLeakAfterCompensation and             *)
(* RetryKeepsProgress, for any clone states the backend reports: the      *)
(* compensator only runs registered, its DeleteSnapshot only after its    *)
(* PurgeVolume emptied the target unless that failed, and the snapshot of *)
(* CreateCloneFromSubvolume exists from its creation until the function   *)
(* returns.                                                                *)
CompensatorRegistered == pc \in {"purge", "compdelsnap"} => registered
PurgedBeforeDelete ==
    pc = "compdelsnap" =>
        /\ op = FromSubvolume
        /\ ~compFault => cloneState = "absent"
SnapshotHeld ==
    (op = FromSubvolume /\ pc \in {"clone", "query", "expand", "delsnap"}) => snapshot
LeakInv ==
    /\ TypeInv
    /\ RunningResult
    /\ CompensatorRegistered
    /\ PurgedBeforeDelete
    /\ SnapshotHeld
    /\ NoLeakAfterCompensation


\* The initial state satisfies LeakInv.
LEMMA LeakInit == Init => LeakInv
<1> SUFFICES ASSUME Init PROVE LeakInv
    OBVIOUS
<1>1. TypeInv
    BY TypeInit
<1> QED
    BY <1>1 DEF Init, LeakInv, RunningResult, CompensatorRegistered,
                PurgedBeforeDelete, SnapshotHeld, NoLeakAfterCompensation

\* Each step preserves LeakInv, whatever clone states the backend reports.
LEMMA LeakStep == LeakInv /\ [Next]_vars => LeakInv'
<1> SUFFICES ASSUME LeakInv, [Next]_vars PROVE LeakInv'
    OBVIOUS
<1>0. TypeInv'
    BY TypeStep DEF LeakInv
<1> USE DEF LeakInv, TypeInv, TypeOK, CompensatingErr, RunningResult,
            CompensatorRegistered, PurgedBeforeDelete, SnapshotHeld,
            NoLeakAfterCompensation
<1>1. CASE Invoke
    BY <1>0, <1>1 DEF Invoke
<1>2. CASE CreateSnapshot
    BY <1>0, <1>2 DEF CreateSnapshot, Return
<1>3. CASE CloneSnapshot
    BY <1>0, <1>3 DEF CloneSnapshot, Return
<1>4. CASE QueryCloneState
    BY <1>0, <1>4 DEF QueryCloneState, Return
<1>5. CASE ExpandVolume
    BY <1>0, <1>5 DEF ExpandVolume, Return
<1>6. CASE DeleteSnapshot
    BY <1>0, <1>6 DEF DeleteSnapshot, Return
<1>7. CASE PurgeVolume
    BY <1>0, <1>7 DEF PurgeVolume
<1>8. CASE CompDeleteSnapshot
    BY <1>0, <1>8 DEF CompDeleteSnapshot, CloneBusy
<1>9. CASE CleanupSnapshotFromSubvolume
    BY <1>0, <1>9 DEF CleanupSnapshotFromSubvolume
<1>10. CASE Crash
    BY <1>0, <1>10 DEF Crash
<1>11. CASE BackendProgress
    <2>1. cloneState # "absent"
        BY <1>11 DEF BackendProgress
    <2> QED
        BY <1>0, <1>11, <2>1 DEF BackendProgress
<1>12. CASE UNCHANGED vars
    BY <1>0, <1>12 DEF vars
<1>13. QED
    BY <1>1, <1>2, <1>3, <1>4, <1>5, <1>6, <1>7, <1>8, <1>9, <1>10,
       <1>11, <1>12 DEF Next, Step

\* The compensator of CreateCloneFromSubvolume / CreateCloneFromSnapshot
\* leaves neither the target nor the intermediate snapshot behind when none
\* of its calls failed, for every value of the constants and whatever clone
\* states the backend reports.
THEOREM NoLeakThm == Spec => []NoLeakAfterCompensation
<1>1. LeakInv => NoLeakAfterCompensation
    BY DEF LeakInv
<1> QED
    BY <1>1, LeakInit, LeakStep, PTL DEF Spec


\* The step RetryKeepsProgress constrains: one that returns a clone-retry
\* error keeps the clone in flight and its snapshot.
RetryStep ==
    (pc # "idle" /\ pc' = "idle" /\ result' = "retry") =>
        /\ cloneState' # "absent"
        /\ op = FromSubvolume => snapshot'

\* Only QueryCloneState returns a retry error, and only for a clone the
\* backend reports, from the snapshot SnapshotHeld keeps.
LEMMA RetryStepHolds == LeakInv /\ [Next]_vars => RetryStep
<1> SUFFICES ASSUME LeakInv, [Next]_vars PROVE RetryStep
    OBVIOUS
<1> USE DEF LeakInv, TypeInv, TypeOK, CompensatingErr, SnapshotHeld, RetryStep
<1>1. CASE QueryCloneState
    <2>1. cloneState = "absent" => "retry" \notin GetCloneState
        BY DEF GetCloneState
    <2> QED
        BY <1>1, <2>1 DEF QueryCloneState, Return
<1>2. CASE Step /\ ~QueryCloneState
    BY <1>2 DEF Step, CreateSnapshot, CloneSnapshot, ExpandVolume,
                DeleteSnapshot, PurgeVolume, CompDeleteSnapshot, Return
<1>3. CASE Invoke \/ CleanupSnapshotFromSubvolume \/ Crash \/ BackendProgress
    BY <1>3 DEF Invoke, CleanupSnapshotFromSubvolume, Crash, BackendProgress
<1>4. CASE UNCHANGED vars
    BY <1>4 DEF vars
<1> QED
    BY <1>1, <1>2, <1>3, <1>4 DEF Next

\* An invocation that returns ClonePending or CloneInProgress runs no
\* compensation, for every value of the constants and whatever clone states
\* the backend reports.
THEOREM RetryKeepsProgressThm == Spec => RetryKeepsProgress
<1>1. LeakInv /\ [Next]_vars => [RetryStep]_vars
    BY RetryStepHolds
<1>2. Spec => []LeakInv /\ [][Next]_vars
    BY LeakInit, LeakStep, PTL DEF Spec
<1>3. RetryKeepsProgress <=> [][RetryStep]_vars
    BY DEF RetryKeepsProgress, RetryStep
<1> QED
    BY <1>1, <1>2, <1>3, PTL


-----------------------------------------------------------------------------
(* Refinement of the clone request *)

\* Only a backend call of a running invocation, or a crash of it, changes
\* what the caller was answered.
LEMMA AnswerChangesWhileRunning ==
    ASSUME [Next]_vars, result' # result
    PROVE  pc # "idle"
BY DEF Next, Step, vars, Invoke, CreateSnapshot, CloneSnapshot, QueryCloneState,
       ExpandVolume, DeleteSnapshot, PurgeVolume, CompDeleteSnapshot,
       CleanupSnapshotFromSubvolume, Crash, BackendProgress

\* After success nothing changes: no invocation or call runs, the snapshot
\* is gone and a complete clone does not change state.
LEMMA OkIsFinal ==
    ASSUME SuccessInv, [Next]_vars, result = "ok"
    PROVE  UNCHANGED vars
<1>1. pc = "idle" /\ cloneState = "complete"
      /\ (op = FromSubvolume => ~snapshot)
    BY DEF SuccessInv, RunningResult, CloneSucceeded
<1> QED
    BY <1>1 DEF Next, Step, Invoke, CreateSnapshot, CloneSnapshot, QueryCloneState,
       ExpandVolume, DeleteSnapshot, PurgeVolume, CompDeleteSnapshot,
       CleanupSnapshotFromSubvolume, Crash, BackendProgress

\* Every step of the orchestration is a step of the clone request or leaves
\* the caller's view unchanged, when the backend reports known states.
LEMMA RequestStep ==
    ASSUME BackendStates = KnownStates
    PROVE  SuccessInv /\ [Next]_vars => [Request!Next]_Request!vars
<1> SUFFICES ASSUME SuccessInv, [Next]_vars PROVE [Request!Next]_Request!vars
    OBVIOUS
<1>0. SuccessInv'
    BY SuccessStep
<1>1. CASE result = "ok"
    BY <1>1, OkIsFinal DEF vars, Request!vars
<1>2. CASE result # "ok" /\ result' = result
    <2>1. result \in {"none", "retry", "terminal"}
        BY <1>2 DEF SuccessInv, TypeInv, TypeOK, Results
    <2> QED
        BY <1>2, <2>1 DEF Request!Next, Request!Work
<1>3. CASE result # "ok" /\ result' # result
    <2>1. result \in {"none", "retry"}
        BY <1>3, AnswerChangesWhileRunning DEF SuccessInv, RunningResult
    <2>2. result' \in Results
        BY <1>0 DEF SuccessInv, TypeInv, TypeOK
    <2>3. CASE result' \in {"none", "retry"}
        BY <2>1, <2>3 DEF Request!Next, Request!Work
    <2>4. CASE result' = "ok"
        <3>1. CloneSucceeded'
            BY <1>0 DEF SuccessInv
        <3> QED
            BY <2>1, <2>4, <3>1 DEF Request!Next, Request!Succeed, CloneSucceeded
    <2>5. CASE result' = "terminal"
        BY <2>1, <2>5 DEF Request!Next, Request!Fail
    <2> QED
        BY <2>2, <2>3, <2>4, <2>5 DEF Results
<1> QED
    BY <1>1, <1>2, <1>3

\* The orchestration and the caller's retry loop implement the safety part
\* of a clone request: success only for a ready target that stays ready,
\* and no answer taken back; for every value of the constants, as long as
\* the backend reports only the states ToError names.
THEOREM RequestRefinementThm ==
    ASSUME BackendStates = KnownStates
    PROVE  Spec => Request!SafetySpec
<1>1. Init => Request!Init
    BY DEF Init, Request!Init
<1>2. Init => SuccessInv
    <2> SUFFICES ASSUME Init PROVE SuccessInv
        OBVIOUS
    <2>1. TypeInv
        BY TypeInit
    <2> QED
        BY <2>1 DEF Init, SuccessInv, RunningResult, ExpandAfterComplete,
                    DeleteAfterResize, CloneSucceeded
<1>3. SuccessInv /\ [Next]_vars => SuccessInv'
    BY SuccessStep
<1>4. SuccessInv /\ [Next]_vars => [Request!Next]_Request!vars
    BY RequestStep
<1> QED
    BY <1>1, <1>2, <1>3, <1>4, PTL DEF Spec, Request!SafetySpec

=============================================================================
