----------------------------- MODULE CephFSClone -----------------------------
(***************************************************************************)
(* The CephFS clone orchestration of ceph-csi (internal/cephfs/core,       *)
(* clone.go): CreateCloneFromSubvolume, CreateCloneFromSnapshot,           *)
(* CleanupSnapshotFromSubvolume, GetCloneState and cephFSCloneState.ToError.*)
(*                                                                         *)
(* One invocation runs at a time (the caller holds the per-volume lock),   *)
(* but the backend clone progresses asynchronously between the backend     *)
(* calls of an invocation, the process may crash between any two calls     *)
(* (deferred compensation then never runs), and the caller's retry loop    *)
(* re-invokes the identical operation until it sees a terminal outcome.    *)
(* Every backend call is one step, so that those interleavings happen.     *)
(***************************************************************************)
EXTENDS Naturals

CONSTANTS
    Ops,            \* the operations the caller may drive: a subset of OpNames
    BackendStates,  \* the clone states the backend may report
    ParentSize,     \* size of the parent subvolume / snapshot
    RequestedSize,  \* size requested for the new volume
    MaxCrashes      \* bound on process crashes in one behaviour

\* The two flows of clone.go.
FromSubvolume == "FromSubvolume"
FromSnapshot  == "FromSnapshot"
OpNames == {FromSubvolume, FromSnapshot}

\* admin.CloneState values the code names, and the state the backend reports
\* for a cancelled clone, which the code does not name.
KnownStates == {"pending", "in-progress", "complete", "failed"}
AllStates   == KnownStates \cup {"canceled"}

ASSUME OpsAssumption   == Ops \subseteq OpNames /\ Ops # {}
ASSUME StatesAssumption == KnownStates \subseteq BackendStates /\ BackendStates \subseteq AllStates
ASSUME SizeAssumption  == ParentSize \in Nat /\ RequestedSize \in Nat
ASSUME CrashAssumption == MaxCrashes \in Nat

VARIABLES
    op,          \* the operation the caller drives (fixed per request)
    pc,          \* next backend call of the running invocation, or "idle"
    err,         \* classification of the function's local err
    registered,  \* the deferred compensator has been registered
    result,      \* what the last invocation returned to the caller
    snapshot,    \* the intermediate snapshot (named after the target) exists
    cloneState,  \* backend state of the target subvolume, "absent" if none
    volSize,     \* size of the target subvolume
    compFault,   \* a compensation call failed transiently (logged only)
    crashes      \* crashes so far

vars == <<op, pc, err, registered, result, snapshot, cloneState, volSize,
          compFault, crashes>>

Results == {"none", "retry", "ok", "terminal"}
PCs == {"idle", "snap", "clone", "query", "expand", "delsnap",
        "purge", "compdelsnap"}

TypeOK ==
    /\ op \in Ops
    /\ pc \in PCs
    /\ err \in {"nil", "retry", "terminal"}
    /\ registered \in BOOLEAN
    /\ result \in Results
    /\ snapshot \in BOOLEAN
    /\ cloneState \in BackendStates \cup {"absent"}
    /\ volSize \in {0, ParentSize, RequestedSize}
    /\ compFault \in BOOLEAN
    /\ crashes \in 0..MaxCrashes

-----------------------------------------------------------------------------
(* CloneStateTracker *)

\* Mutants of ToError: "pending" missing from the switch, and "failed"
\* grouped with the retryable states.
ToErrorPendingNil(s) ==
    CASE s = "complete" -> "nil"  [] s = "in-progress" -> "retry"
      [] s = "failed" -> "terminal" [] OTHER -> "nil"
ToErrorFailedRetry(s) ==
    CASE s = "complete" -> "nil"  [] s = "failed" -> "retry"
      [] s = "in-progress" -> "retry" [] s = "pending" -> "retry"
      [] OTHER -> "nil"

\* cephFSCloneState.ToError: the error class of a clone state. The empty
\* state is the one of the CephFSCloneError sentinel; any state the switch
\* does not list falls through to "return nil".
ToError(s) ==
    CASE s = "complete"    -> "nil"
      [] s = ""            -> "terminal"
      [] s = "in-progress" -> "retry"
      [] s = "pending"     -> "retry"
      [] s = "failed"      -> "terminal"
      [] OTHER             -> "nil"

\* Backend: deleting a snapshot is refused while a clone from it is pending.
CloneBusy == cloneState \in {"pending", "in-progress"}

\* Mutant of Return: the compensator ignores IsCloneRetryError.
ReturnCompensateRetry(e) ==
    /\ err' = e
    /\ IF registered /\ e # "nil"
          THEN pc' = "purge" /\ UNCHANGED result
          ELSE pc' = "idle" /\ result' = IF e = "nil" THEN "ok" ELSE e

\* The function returns err: the deferred compensator runs first when it is
\* registered and err is not a clone-retry error.
Return(e) ==
    /\ err' = e
    /\ IF registered /\ e = "terminal"
          THEN pc' = "purge" /\ UNCHANGED result
          ELSE pc' = "idle" /\ result' = IF e = "nil" THEN "ok" ELSE e

-----------------------------------------------------------------------------
(* SubvolumeCloneOrchestrator *)

\* Mutant of Invoke: the caller retries every error, a terminal one too.
InvokeAfterTerminal ==
    /\ pc = "idle"
    /\ result \in {"none", "retry", "terminal"}
    /\ pc' = IF op = FromSubvolume THEN "snap" ELSE "clone"
    /\ err' = "nil"
    /\ registered' = FALSE
    /\ compFault' = FALSE
    /\ result' = "none"
    /\ UNCHANGED <<op, snapshot, cloneState, volSize, crashes>>

\* The caller's retry loop (re)invokes the operation while it has no
\* terminal answer.
Invoke ==
    /\ pc = "idle"
    /\ result \in {"none", "retry"}
    /\ pc' = IF op = FromSubvolume THEN "snap" ELSE "clone"
    /\ err' = "nil"
    /\ registered' = FALSE
    /\ compFault' = FALSE
    /\ UNCHANGED <<op, result, snapshot, cloneState, volSize, crashes>>

\* snapClient.CreateSnapshot, then the compensator is registered.
CreateSnapshot ==
    /\ pc = "snap"
    /\ \/ /\ snapshot' = TRUE
          /\ pc' = "clone"
          /\ registered' = TRUE
          /\ UNCHANGED <<err, result>>
       \/ /\ Return("terminal")
          /\ UNCHANGED <<snapshot, registered>>
    /\ UNCHANGED <<op, cloneState, volSize, compFault, crashes>>

\* snapClient.CloneSnapshot: idempotent when the target exists; otherwise it
\* starts a clone of the parent's size, or fails, possibly having created
\* a partial target. CreateCloneFromSnapshot registers its compensator only
\* once this call succeeded.
CloneSnapshot ==
    /\ pc = "clone"
    /\ \/ /\ cloneState' = IF cloneState = "absent" THEN "pending" ELSE cloneState
          /\ volSize' = IF cloneState = "absent" THEN ParentSize ELSE volSize
          /\ pc' = "query"
          /\ registered' = (registered \/ op = FromSnapshot)
          /\ UNCHANGED <<err, result>>
       \/ /\ cloneState = "absent"
          /\ \/ UNCHANGED <<cloneState, volSize>>
             \/ cloneState' = "failed" /\ volSize' = ParentSize
          /\ Return("terminal")
          /\ UNCHANGED registered
    /\ UNCHANGED <<op, snapshot, compFault, crashes>>

\* s.GetCloneState: the error classes the status call can lead to. Getting
\* the FSAdmin handle or the status fails on a connection error, and the
\* status call fails for a missing subvolume; a status is classified by
\* ToError.
GetCloneState ==
    IF cloneState = "absent" THEN {"terminal"}
                             ELSE {"terminal", ToError(cloneState)}

\* GetCloneState followed by cloneState.ToError().
QueryCloneState ==
    /\ pc = "query"
    /\ \E e \in GetCloneState :
          IF e = "nil" THEN pc' = "expand" /\ UNCHANGED <<err, result>>
                       ELSE Return(e)
    /\ UNCHANGED <<op, registered, snapshot, cloneState, volSize, compFault,
                   crashes>>

\* Mutant of ExpandVolume: grows the volume by the requested size.
ExpandVolumeByDelta ==
    /\ pc = "expand"
    /\ volSize' = volSize + RequestedSize
    /\ IF op = FromSubvolume
          THEN pc' = "delsnap" /\ UNCHANGED <<err, result>>
          ELSE Return("nil")
    /\ UNCHANGED <<op, registered, snapshot, cloneState, compFault, crashes>>

\* s.ExpandVolume(s.Size); CreateCloneFromSnapshot returns nil after it.
ExpandVolume ==
    /\ pc = "expand"
    /\ \/ /\ volSize' = RequestedSize
          /\ IF op = FromSubvolume
                THEN pc' = "delsnap" /\ UNCHANGED <<err, result>>
                ELSE Return("nil")
       \/ /\ Return("terminal")
          /\ UNCHANGED volSize
    /\ UNCHANGED <<op, registered, snapshot, cloneState, compFault, crashes>>

\* "As we completed clone, remove the intermediate snap".
DeleteSnapshot ==
    /\ pc = "delsnap"
    /\ \/ /\ ~CloneBusy
          /\ snapshot' = FALSE
          /\ Return("nil")
       \/ /\ Return("terminal")
          /\ UNCHANGED snapshot
    /\ UNCHANGED <<op, registered, cloneState, volSize, compFault, crashes>>

\* Mutant of PurgeVolume: CreateCloneFromSubvolume's compensator only
\* purges, as CreateCloneFromSnapshot's does.
PurgeVolumeOnly ==
    /\ pc = "purge"
    /\ \/ cloneState' = "absent" /\ volSize' = 0 /\ UNCHANGED compFault
       \/ compFault' = TRUE /\ UNCHANGED <<cloneState, volSize>>
    /\ pc' = "idle"
    /\ result' = err
    /\ UNCHANGED <<op, err, registered, snapshot, crashes>>

\* Deferred compensator, first call: s.PurgeVolume(ctx, true). Its error is
\* only logged. CreateCloneFromSnapshot's compensator ends here.
PurgeVolume ==
    /\ pc = "purge"
    /\ \/ cloneState' = "absent" /\ volSize' = 0 /\ UNCHANGED compFault
       \/ compFault' = TRUE /\ UNCHANGED <<cloneState, volSize>>
    /\ IF op = FromSubvolume
          THEN pc' = "compdelsnap" /\ UNCHANGED result
          ELSE pc' = "idle" /\ result' = err
    /\ UNCHANGED <<op, err, registered, snapshot, crashes>>

\* Deferred compensator, second call: snapClient.DeleteSnapshot, run even
\* when the purge failed. Refused by the backend while a clone is pending.
CompDeleteSnapshot ==
    /\ pc = "compdelsnap"
    /\ \/ ~CloneBusy /\ snapshot' = FALSE /\ UNCHANGED compFault
       \/ CloneBusy /\ UNCHANGED <<snapshot, compFault>>
       \/ compFault' = TRUE /\ UNCHANGED snapshot
    /\ pc' = "idle"
    /\ result' = err
    /\ UNCHANGED <<op, err, registered, cloneState, volSize, crashes>>

\* CleanupSnapshotFromSubvolume, called by an external controller between
\* invocations; its failure is returned and changes nothing.
CleanupSnapshotFromSubvolume ==
    /\ pc = "idle"
    /\ op = FromSubvolume
    /\ ~CloneBusy
    /\ snapshot
    /\ snapshot' = FALSE
    /\ UNCHANGED <<op, pc, err, registered, result, cloneState, volSize,
                   compFault, crashes>>

\* The process dies between two backend calls: no deferred function runs and
\* the caller, having no answer, invokes again.
Crash ==
    /\ pc # "idle"
    /\ crashes < MaxCrashes
    /\ pc' = "idle"
    /\ result' = "none"
    /\ crashes' = crashes + 1
    /\ UNCHANGED <<op, err, registered, snapshot, cloneState, volSize,
                   compFault>>

\* The backend clone progresses on its own (and may be cancelled by an
\* administrator when "canceled" is among BackendStates).
BackendProgress ==
    /\ \E s \in BackendStates :
          /\ <<cloneState, s>> \in {<<"pending", "in-progress">>,
                                    <<"in-progress", "complete">>,
                                    <<"pending", "failed">>,
                                    <<"in-progress", "failed">>,
                                    <<"pending", "canceled">>,
                                    <<"in-progress", "canceled">>}
          /\ cloneState' = s
    /\ UNCHANGED <<op, pc, err, registered, result, snapshot, volSize,
                   compFault, crashes>>

Init ==
    /\ op \in Ops
    /\ pc = "idle"
    /\ err = "nil"
    /\ registered = FALSE
    /\ result = "none"
    /\ snapshot = FALSE
    /\ cloneState = "absent"
    /\ volSize = 0
    /\ compFault = FALSE
    /\ crashes = 0

Step ==
    \/ CreateSnapshot \/ CloneSnapshot \/ QueryCloneState \/ ExpandVolume
    \/ DeleteSnapshot \/ PurgeVolume \/ CompDeleteSnapshot

Next ==
    \/ Invoke \/ Step \/ CleanupSnapshotFromSubvolume \/ Crash
    \/ BackendProgress

\* The caller keeps retrying, an invocation runs to its end, and the backend
\* clone does not stall; crashes and cleanup calls are not forced.
Fairness == WF_vars(Invoke) /\ WF_vars(Step) /\ WF_vars(BackendProgress)

Spec == Init /\ [][Next]_vars /\ Fairness

-----------------------------------------------------------------------------
(* Properties *)

\* A clone reported as created (the function returned nil) is a complete
\* backend clone of the requested size, whatever the parent's size, and the
\* intermediate snapshot of CreateCloneFromSubvolume is gone.
CloneSucceeded ==
    result = "ok" =>
        /\ cloneState = "complete"
        /\ volSize = RequestedSize
        /\ op = FromSubvolume => ~snapshot

\* Once the compensator has run for a non-retryable error and none of its
\* backend calls failed transiently, neither the target subvolume nor the
\* intermediate snapshot is left behind (the deferred PurgeVolume and
\* DeleteSnapshot of CreateCloneFromSubvolume / CreateCloneFromSnapshot).
NoLeakAfterCompensation ==
    (result = "terminal" /\ registered /\ ~compFault) =>
        /\ cloneState = "absent"
        /\ op = FromSubvolume => ~snapshot

\* The spec's promise: every non-retryable failure leaves neither the target
\* nor the intermediate snapshot behind, unless a compensation call failed.
NoLeakOnTerminal ==
    (result = "terminal" /\ ~compFault) =>
        /\ cloneState = "absent"
        /\ op = FromSubvolume => ~snapshot

\* An invocation that returns a clone-retry error (ClonePending or
\* CloneInProgress) runs no compensation: the clone in flight and the
\* snapshot it is cloned from are still there for the next invocation.
RetryKeepsProgress ==
    [][ (pc # "idle" /\ pc' = "idle" /\ result' = "retry") =>
          /\ cloneState' # "absent"
          /\ op = FromSubvolume => snapshot'
      ]_vars

\* The caller's view of a request: its final answer, and whether the target
\* is ready (complete, of the requested size, without the intermediate
\* snapshot of CreateCloneFromSubvolume).
Request == INSTANCE CloneRequest WITH
    answer <- IF result \in {"ok", "terminal"} THEN result ELSE "none",
    ready  <- /\ cloneState = "complete"
              /\ volSize = RequestedSize
              /\ op = FromSubvolume => ~snapshot

\* The retry loop of the caller implements a clone request: re-invoking the
\* identical operation after retryable outcomes and crashes ends with
\* success or a terminal error; success is answered only for a ready target,
\* which stays ready, and no answer is ever taken back.
RequestSpec == Request!Spec

=============================================================================
