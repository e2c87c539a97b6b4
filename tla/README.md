# TLA+ verification of the ceph-csi volume-lifecycle core

This directory holds TLA+ models of the clone orchestration and volume-group
code of this repository, TLC configurations that model-check them, and TLAPS
proofs. Sources (under `src/`):

| file | content |
|---|---|
| `src/unnamed/part_000` lines 1-229 | CephFS clone orchestration (`internal/cephfs/core/clone.go`) |
| `src/unnamed/part_000` lines 230-332 | controller manager bootstrap (`internal/controller`) |
| `src/internal/rbd/group/volume_group.go` lines 1-417 | RBD volume groups |
| `src/internal/rbd/group/volume_group.go` lines 418-473 | `rbdImage.Sparsify` (`internal/rbd`) |
| `src/internal/csi-addons/rbd/reclaimspace.go` | CSI-Addons reclaim-space servers |

## 1. Inventory

### Components, their state and operations

**CloneStateTracker** (`part_000` 29-64, 193-229). No state of its own: the
clone state is read from the backend on every call. `GetCloneState` fails when
the FSAdmin handle or the status cannot be obtained, and otherwise returns
the backend state; `ToError` classifies it: complete -> nil, in-progress and
pending -> retryable, failed and the sentinel's empty state -> terminal, and
every other state -> nil (the switch falls through).

**SubvolumeCloneOrchestrator** (`part_000` 66-191). State lives on the
backend: the intermediate snapshot on the parent (named after the target's
volume ID), the target subvolume and its asynchronous clone state and size.
Operations: `CreateCloneFromSubvolume` (CreateSnapshot, CloneSnapshot,
GetCloneState+ToError, ExpandVolume, DeleteSnapshot, with a deferred
compensator registered after CreateSnapshot: PurgeVolume, then DeleteSnapshot,
for non-retryable errors), `CreateCloneFromSnapshot` (CloneSnapshot, then the
deferred PurgeVolume, GetCloneState+ToError, ExpandVolume),
`CleanupSnapshotFromSubvolume` (DeleteSnapshot).

**VolumeGroup** (`volume_group.go` 40-417). State: the backend rbd group and
its image membership, its group snapshots, the per-image snapshot images
materialized from them; the journal's membership record; in memory, the
`volumes` list and the `volumesToFree` list of handles resolved by
`GetVolumeGroup`. Operations: `GetVolumeGroup`, `Destroy`, `Create`, `Delete`,
`AddVolume`, `RemoveVolume`, `ListVolumes`, `ToCSI`, `CreateSnapshots`.

**Sparsify** (`volume_group.go` 446-473): checks that the image is not in use,
opens it, stats it and sparsifies with the object size.

**ReclaimSpace servers** (`reclaimspace.go`): `ControllerReclaimSpace` takes the
per-volume lock with `TryAcquire` (Aborted if held), resolves the volume,
sparsifies it and treats `ErrImageInUse` as success; `NodeReclaimSpace` takes
the lock, derives the path, refuses multi-node and block volumes and runs
fstrim. Both release the lock on every path by `defer`.

**Controller manager** (`part_000` 264-332): registry of controllers and
`Start` with leader election. Not modelled (bootstrap).

### Interactions

The transport layer takes the per-volume lock and calls one orchestration
operation; that operation issues backend calls one after another and returns
one classified result. The backend clone runs asynchronously: the caller
re-invokes the identical operation until the result is not retryable. A
volume group is loaded from the journal by `GetVolumeGroup`, mutated, and
destroyed by the caller, who also owns the volume handles it passes to
`AddVolume`/`RemoveVolume`.

### What is hard

* the backend clone progresses between the calls of one invocation;
* the process may crash between any two backend calls: deferred
  compensation and the deferred group-snapshot removal then never run;
* every backend call can fail, and several handlers change the backend and
  the journal in two separate calls without rollback;
* re-invocation after a retryable outcome, or after a crash, must adopt what
  the previous invocation left;
* ownership of volume handles differs between loaded and caller-added volumes;
* cleanup paths (defer) run in a fixed order and only on non-crash exits.

### Properties that make each component correct

* Clone: a reported success is a complete clone of the requested size with no
  intermediate snapshot left; a non-retryable failure leaves nothing behind;
  a retryable outcome destroys nothing; the retry loop ends.
* VolumeGroup: journal membership and backend membership agree after every
  successful call; every handle is released exactly once; a successful
  `CreateSnapshots` yields one snapshot per member, taken from a group
  snapshot made by this call, and leaves no group snapshot behind; a failed
  one leaves no per-image snapshot behind.
* ReclaimSpace: at most one operation per volume at a time, the lock is always
  released, and sparsify never runs on an image that is in use.

## 2. Plan

1. `CephFSClone` (done): the clone orchestrator and state tracker.
   `CephFSCloneProofs`: type correctness and `CloneSucceeded`.
2. `VolumeGroup` (done): backend group, journal, handles and a caller
   session (load, mutate, snapshot, destroy), with crashes and failing calls.
   Properties: handle ownership, journal/backend agreement after successful
   membership changes, group-snapshot consistency and cleanup.
3. `ReclaimSpace` (done): controller and node requests from several clients on
   shared volumes with `TryAcquire`/`Release`, `Sparsify` with its in-use
   check racing a node that maps the image. `VolumeLockService` (done): the
   abstract lock service the servers implement (`LockServiceSpec`, checked
   by TLC with its fairness; safety part proved, `RefinementThm`).
4. `CloneRequest` (done): an abstract specification of a clone request
   (no answer -> success | terminal, retry outcomes invisible) and the
   refinement mapping from `CephFSClone`, checked by TLC (`RequestSpec`) and
   its safety part proved (`RequestRefinementThm`).
5. Proofs (done): `NoLeakAfterCompensation` and `RetryKeepsProgress` for
   the clone module (`CephFSCloneProofs`); handle ownership for
   `VolumeGroup` (`VolumeGroupProofs`); the lock-service refinement for
   `ReclaimSpace` (`ReclaimSpaceProofs`).

## 3. Modules and runs

### CephFSClone

Variables: `op` (the flow driven), `pc` (the next backend call of the running
invocation, `idle` between invocations), `err` (the class of the function's
local `err`), `registered` (the deferred compensator is registered), `result`
(what the last invocation returned), `snapshot`, `cloneState`, `volSize`
(backend objects), `compFault` (a compensation call failed transiently: only
logged by the code), `crashes`.

Actions: `Invoke` (the caller's retry loop), one action per backend call
(`CreateSnapshot`, `CloneSnapshot`, `QueryCloneState` using `GetCloneState`
and `ToError`, `ExpandVolume`, `DeleteSnapshot`, `PurgeVolume`,
`CompDeleteSnapshot`), `CleanupSnapshotFromSubvolume`, `Crash`, and
`BackendProgress`. `Return(e)` models `return err` with the deferred
compensator: it runs first when registered and `e` is terminal, and the
caller receives `e` whatever the compensator does.

Backend semantics taken from the spec: snapshot and clone creation are
idempotent when the object exists; deleting a snapshot is refused while a
clone from it is pending or in progress; a failing CloneSnapshot may leave a
partial target; ExpandVolume sets the requested size.

Runs (`MC_CephFSClone.tla`, ParentSize 1 < RequestedSize 2, both flows):

* `clone_core` (`MC_CephFSClone.cfg`, up to three crashes, known states): `TypeOK`,
  `CloneSucceeded`, `NoLeakAfterCompensation`, the action property
  `RetryKeepsProgress` and `RequestSpec`: the caller's view implements the
  abstract `CloneRequest.tla` (answer `none` until `ok` or `terminal`;
  `ready` = complete, of the requested size and, for
  CreateCloneFromSubvolume, without the snapshot), fairness included: the
  retry loop ends, success is answered only for a ready target that stays
  ready, and no answer is taken back. Passes.
* `clone_subvolume_leak`: `NoLeakOnTerminal` for CreateCloneFromSubvolume
  without crashes. Violated: ClonePending, then a re-invocation whose
  CreateSnapshot fails returns a terminal error without compensation.
* `clone_snapshot_leak`: `NoLeakOnTerminal` for CreateCloneFromSnapshot.
  Violated: a CloneSnapshot failing after creating the target is not purged.
* `clone_canceled`: `CloneSucceeded` with a backend that reports `canceled`.
  Violated: ToError's switch lets the cancelled clone through as success.

Deadlock checking is off: after a success or terminal error the caller stops
driving the request, which is a legitimate final state.

Fairness: weak fairness of `Invoke` (the caller's retry loop re-invokes while
it has no terminal answer), of the steps of a running invocation (a
synchronous function runs to its end unless the process crashes), and of
`BackendProgress` (the backend clone does not stall forever). Crashes are
bounded by `MaxCrashes` and not forced; `CleanupSnapshotFromSubvolume` is not
forced.

### VolumeGroup

Variables: the backend (`grp`, `members`: images in the rbd group, `gsnaps`:
existing group snapshots, `gcons[n]`: the images group snapshot `n` was taken
of, `images`: per-image snapshot images as `<<index, request name, volume>>`,
where the index is the image's position `i` in GroupSnapGetInfo's listing
(`Listings`) and names the snapshot `<group>-snap-<i>` (`Materialize`)), the
journal (`jrec`, `jmembers`), one request's in-memory `volumeGroup` (`sess`:
none, open or closed; `volumes`: `vg.volumes`; `toFree`: `vg.volumesToFree`;
`held`: volumes the caller resolved for AddVolume/RemoveVolume; `resolved` and
`rel[h]`: the handles resolved in the request and how often each was
released), the outcome of the last AddVolume/RemoveVolume (`lastCall`) and of
the last CreateSnapshots (`snapOut`, `snapName`, `snapWanted`, `snapTaken`,
`gsFault`), `crashes` and `calls`.

A handle is a pair `<<volume, owner>>`: the copy resolved by `GetVolumeGroup`
(owner `group`) and the copy the caller resolved (owner `caller`) are
different objects, as in the code. Each handler is one action whose disjuncts
are its exits: an error at a call keeps the effects of the calls before it
(`AddVolume` leaves the image in the group when the journal update fails;
`RemoveVolume` leaves it out of the group when GetID or the journal update
fails; `Delete` removes the group when the record removal fails).
`CreateSnapshots` covers the early errors (GetName, GetIOContext),
GroupSnapCreate with ErrExist adopting an existing snapshot, the deferred
GroupSnapRemove (which may fail and is only logged), GroupSnapGetInfo failing,
success, a failing materialization after a subset of the images was made (the
deferred cleanup then calls Destroy on a nil slot: outcome `panic`), and a
crash after a subset, which skips both deferred functions and drops the
request's in-memory state with the process (the other exits keep it). `Crash` drops the
in-memory request between two calls. Requests are serialized by the caller's
per-identifier lock, so one session exists at a time.

Bounds (`MC_VolumeGroup.tla`): two volumes (enough for a member and a
non-member, and for a group snapshot that misses one of them), two snapshot
names (reuse of a name, and a second request name on the same group), one
crash and `MaxCalls = 5`
group-changing calls (Create, Delete, AddVolume, RemoveVolume,
CreateSnapshots) per behaviour; loading and destroying the group object are
not bounded. The longest counterexample below needs four calls.

Runs:

* `vg_core` (`MC_VolumeGroup.cfg`): `TypeOK`, `Ownership` (no handle is
  released twice; when a request has ended every handle resolved in it has
  been released once: by the failure path of GetVolumeGroup, by Destroy for
  `volumesToFree`, by the caller for its own) and `GroupSnapshotCleaned` (a
  CreateSnapshots that returned leaves no group snapshot of its name unless
  GroupSnapRemove failed). Passes, about 2.9 million states (45 s).
  Six calls with two names take close to four minutes, so the bound
  stays at five. Deadlock checking is
  on: a request can always be loaded or destroyed.
* `vg_stale_snapshot`: `SnapshotsCurrent`. Violated: a CreateSnapshots whose
  GroupSnapRemove fails leaves the group snapshot; after AddVolume, the next
  CreateSnapshots adopts it via ErrExist and succeeds without a snapshot of
  the new member. A crash after GroupSnapCreate leaves the group snapshot
  the same way (with GroupSnapRemove made infallible, TLC finds that trace
  instead: crash, reload, AddVolume, CreateSnapshots).
* `vg_panic`: `NoPanic`. Violated: with one member, a failing
  NewSnapshotByID makes the cleanup call Destroy on the nil slot.
* `vg_all_or_nothing`: `AllOrNothing`. Violated: the images materialized
  before the failure stay (the cleanup only releases Go objects, and panics
  before even that).
* `vg_membership`: the action property `MembershipAgrees`. Violated: after a
  Delete whose journal record removal failed (or a RemoveVolume whose journal
  update failed), RemoveVolume hits ErrNotExist and returns nil with the
  journal still listing the volume.
* `vg_stranded_member`: `MembersRecorded` (every rbd group member is in the
  journal's record or in the running request's `vg.volumes`). Violated:
  AddVolume's AddToGroup succeeds, a later call of it (GetID, GetPool,
  DecomposeCSIID, getJournal or AddVolumesMapping) fails, and Destroy drops
  the only object that knew of the member: no rollback removes it from the
  group, and no GetVolumeGroup can load it again.

### ReclaimSpace

Variables: per request `r` (a gRPC call served by its own goroutine)
`kind[r]` (controller or node server), `vol[r]`, `pc[r]` (the call of the
handler it is at) and `result[r]` (the status code returned); the two
servers' `VolumeLocks` (`ctrlLocks`, `nodeLocks`: the controller and node
plugins are separate processes, each constructed with its own lock set);
`mapped`, the images a node has staged (the watchers `isInUse` sees).

Actions: `Receive` (an empty volume ID is InvalidArgument before the lock),
`TryAcquire` (Aborted when held; otherwise taken), for the controller
`Resolve` (GetVolumeByID, Aborted on failure), `CheckInUse` (Sparsify's
isInUse: error, in use -> ErrImageInUse answered with success, or on),
`OpenImage` (open and Stat), `SparsifyDone`; for the node `CheckRequest`
(missing path, multi-node or block capability) and `Fstrim`; and the node's
`Stage`/`Unstage` of an image (environment). `Finish(r, s)` is a return with
the deferred `Release`.

Bounds (`MC_ReclaimSpace.tla`): three requests, two volumes and the empty ID:
three requests let two contend for one lock while a third runs on the other
volume or the other server.

Fairness: weak fairness of each request's steps (a goroutine serving a
request keeps running; every call returns). Staging is not forced.

Runs:

* `rs_core`: `TypeOK`, `MutualExclusion`, `LocksHeldByHolders` (each lock
  set is exactly the volumes of the requests inside that server's handler,
  so Aborted means another request is running) and `LockServiceSpec`: the
  two servers implement the abstract lock service `VolumeLockService.tla`
  under the mapping `inside[r] = <<kind[r], vol[r]>>` while `r` holds its
  lock (`<<>>` otherwise), with its fairness: every request inside a
  handler leaves it. Passes, about 140 000 states; deadlock checking
  is on (staging can always change).
* `rs_sparsify_in_use`: `NoSparsifyWhileMapped`. Violated: a node stages the
  image after `isInUse` returned false, and `image.Sparsify` runs on an image
  in use; nothing in the code keeps the node from mapping it meanwhile.

## 4. Proofs

`CephFSCloneProofs.tla`:

* `TypeCorrect`: `Spec => []TypeOK`. `TypeOK` is not inductive alone: the
  compensator hands `err` to the caller, so the proof uses
  `TypeInv == TypeOK /\ CompensatingErr` (while compensating, `err` is
  terminal).
* `CloneSucceededThm`: under the hypothesis `BackendStates = KnownStates`,
  `Spec => []CloneSucceeded`, from the inductive invariant `SuccessInv`: a
  running invocation has no final result yet (`RunningResult`), ExpandVolume
  runs only after a complete clone was observed (`ExpandAfterComplete`, from
  lemma `OnlyCompleteIsNil` on `ToError`), DeleteSnapshot only after the
  resize (`DeleteAfterResize`), and a complete clone never changes state. The
  hypothesis is exactly what the `clone_canceled` run shows to be necessary.

* `NoLeakThm`: `Spec => []NoLeakAfterCompensation`, for any `BackendStates`
  (the cancelled state included). The inductive invariant `LeakInv` adds to
  `TypeInv` that a running invocation has no final answer
  (`RunningResult`: otherwise a later call could recreate the target after
  the answer), that the compensator runs only when registered
  (`CompensatorRegistered`), that its DeleteSnapshot follows a PurgeVolume
  that emptied the target unless it failed (`PurgedBeforeDelete`: this is
  why the backend's refusal to delete a snapshot under a pending clone
  cannot bite there), and that CreateCloneFromSubvolume's snapshot exists
  from its creation until the function returns (`SnapshotHeld`).
* `RequestRefinementThm`: under the same hypothesis as `CloneSucceededThm`,
  `Spec => Request!SafetySpec`. From `SuccessInv`: a changed answer comes
  from a running invocation (`AnswerChangesWhileRunning`), which had no final
  answer (`RunningResult`), so it is `Work`, `Fail`, or `Succeed` with the
  target ready (`CloneSucceeded'`); after success nothing changes at all
  (`OkIsFinal`).
* `RetryKeepsProgressThm`: `Spec => RetryKeepsProgress`, from `LeakInv`:
  only QueryCloneState returns a retry error, only for a clone the backend
  reports (`GetCloneState` of a missing target is terminal), and
  `SnapshotHeld` gives the snapshot.

`VolumeGroupProofs.tla`:

* `VGTypeCorrect`: `Spec => []TypeOK`. The type of `images` rests on
  lemma `MaterializeType`: every listing maps a group snapshot's images to
  indices in `Nat`.
* `OwnershipThm`: `Spec => []Ownership`, for any sets of volumes and names
  and any bounds. `Ownership` is not inductive: a step must know which
  handles are still owned by whom. The inductive invariant `OwnInv` adds the
  bookkeeping of the request by the state of its `volumeGroup`: `toFree`
  holds only handles of the group (`GroupOwned`); while open, the resolved
  handles are exactly `volumesToFree` plus the caller's, and none has been
  released (`OpenBooks`); once closed, exactly the resolved handles were
  released once (`ClosedBooks`: this covers both Destroy and the deferred
  release in GetVolumeGroup's failure path); after a crash nothing was
  released (`NoneBooks`). Destroy preserves `ClosedBooks` because the group's
  and the caller's handles are disjoint (the owner component of a handle).

* `GroupSnapshotCleanedThm`: `Spec => []GroupSnapshotCleaned`. The
  property is inductive by itself (`CleanStep`): only CreateSnapshots adds a
  group snapshot, every non-crash return of it runs the deferred
  GroupSnapRemove on the name it records, Delete only removes group
  snapshots, and no other operation touches them or the record of the last
  CreateSnapshots.

`ReclaimSpaceProofs.tla`:

* `MutualExclusionThm` and `LocksHeldThm`: `Spec => []MutualExclusion` and
  `Spec => []LocksHeldByHolders` for any sets of requests and volumes, from
  the inductive invariant `LockInv == TypeOK /\ RealVolume /\
  LocksHeldByHolders /\ MutualExclusion`. The two properties need each
  other: a return removes its volume from the lock set, which matches the
  remaining holders only because no other holder of that server has the same
  volume; a TryAcquire that succeeds adds a holder that excludes the others
  only because the lock set reflects every holder. `RealVolume` (a request
  at the lock or inside a handler has a non-empty ID) keeps the lock sets
  within `Vols`. The proof has one lemma per action; `MoveInside` (a call
  that stays inside the handler) and `FinishInside` (a return through the
  deferred Release) are shared by all the handler calls.

* `RefinementThm`: `Spec => LockService!SafetySpec`. The initial state maps
  to the abstract one (nobody inside); under `LockInv` a successful
  TryAcquire is an `Enter` (the volume is free because the lock set holds
  the volume of every holder), a return through the deferred Release is a
  `Leave`, and every other step is a stutter (`MapUnchanged`,
  `MapHandler`, `MapEnter`, `MapStep`).
* `RSTypeCorrect`: `Spec => []TypeOK`, from the same `LockInv`.
* `MutualExclusionByRefinement`: `Spec => []MutualExclusion` again, this
  time without looking at the handlers: `VolumeLockService.ExclusiveThm`
  proves the abstract lock service exclusive (`TypeOK /\ Exclusive` is
  inductive there), `RefinementThm` makes every behaviour of the servers a
  behaviour of the service, and `ExclusiveIsMutual` reads `Exclusive`
  through the mapping `Inside`.

That `Listings(S)` is never empty (every finite group snapshot has a
listing, so CreateSnapshots' choice of `ord` never blocks it) is checked by
TLC only: its proof needs the bijection facts of `FiniteSetTheorems`, which
reaches the RECURSIVE `Folds` through `Functions`.

Liveness (the fairness parts of `RequestSpec` and `LockServiceSpec`) is checked by TLC only: TLAPS does not reason about
`ENABLED` and fairness here.

## 5. Not modelled

* Controller manager bootstrap: leader election and controller-runtime
  start-up, no state the core keeps.
* `ListVolumes` and `ToCSI` (no state change) and the pool of an image in
  the name match of CreateSnapshots. Per-image snapshot names are modelled
  by the listing index they are built from: two CreateSnapshots calls on one
  group reach the same `<group>-snap-<i>`, but what NewSnapshotByID does with
  an existing name is outside these sources, so no run asserts an outcome.
* Logging, error wording, progress reports (`GetProgressReport`), `ToCSI`
  conversion, identifier decomposition (modelled only as a call that may
  fail).
