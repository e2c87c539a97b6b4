---------------------------- MODULE ReclaimSpace ----------------------------
(***************************************************************************)
(* The CSI-Addons reclaim-space servers of the rbd driver                  *)
(* (internal/csi-addons/rbd/reclaimspace.go) and rbdImage.Sparsify:        *)
(* concurrent gRPC requests, each served by its own goroutine, on shared   *)
(* volumes. The controller server and the node server run in different    *)
(* plugins and each has its own VolumeLocks. Between the calls of a        *)
(* request, other requests and the node's staging of images interleave.   *)
(***************************************************************************)
EXTENDS Naturals, FiniteSets

CONSTANTS
    Reqs,     \* the gRPC requests of a behaviour
    Vols,     \* volume IDs
    NoVol     \* the empty volume ID of a malformed request

ASSUME ReqsAssumption == IsFiniteSet(Reqs) /\ Reqs # {}
ASSUME VolsAssumption == IsFiniteSet(Vols) /\ NoVol \notin Vols

Kinds   == {"controller", "node"}
Results == {"none", "ok", "invalid", "aborted", "unimplemented", "internal"}

\* Where a request is: not arrived, at the lock, at a call of its handler
\* (controller: resolve the volume, check use, open+stat, sparsify running;
\* node: check the path and capability, run fstrim), or returned.
PCs == {"idle", "lock", "resolve", "inuse", "open", "sparsifying", "check",
        "fstrim", "done"}

VARIABLES
    kind,       \* kind[r]: which server r is sent to
    vol,        \* vol[r]: the volume ID of request r
    pc,         \* pc[r]
    result,     \* result[r]: the status code r returned
    ctrlLocks,  \* volume IDs held in the controller server's VolumeLocks
    nodeLocks,  \* volume IDs held in the node server's VolumeLocks
    mapped      \* images mapped (watched) by a node

vars == <<kind, vol, pc, result, ctrlLocks, nodeLocks, mapped>>

TypeOK ==
    /\ kind \in [Reqs -> Kinds]
    /\ vol \in [Reqs -> Vols \cup {NoVol}]
    /\ pc \in [Reqs -> PCs]
    /\ result \in [Reqs -> Results]
    /\ ctrlLocks \subseteq Vols
    /\ nodeLocks \subseteq Vols
    /\ mapped \subseteq Vols

\* The steps at which request r holds its server's lock on vol[r].
Locked == {"resolve", "inuse", "open", "sparsifying", "check", "fstrim"}
Holds(r) == pc[r] \in Locked

-----------------------------------------------------------------------------
(* VolumeLocks *)

LocksOf(r) == IF kind[r] = "controller" THEN ctrlLocks ELSE nodeLocks

\* Assigns the lock set of r's server.
SetLocks(r, L) ==
    IF kind[r] = "controller"
    THEN ctrlLocks' = L /\ UNCHANGED nodeLocks
    ELSE nodeLocks' = L /\ UNCHANGED ctrlLocks

\* Mutant of Finish: a return path that leaves the lock held.
FinishKeepsLock(r, s) ==
    /\ pc' = [pc EXCEPT ![r] = "done"]
    /\ result' = [result EXCEPT ![r] = s]
    /\ IF s = "aborted" THEN UNCHANGED <<ctrlLocks, nodeLocks>>
                        ELSE SetLocks(r, LocksOf(r) \ {vol[r]})

\* The deferred volumeLocks.Release(volumeID) and the return of status s:
\* every return after a successful TryAcquire goes through it.
Finish(r, s) ==
    /\ pc' = [pc EXCEPT ![r] = "done"]
    /\ result' = [result EXCEPT ![r] = s]
    /\ SetLocks(r, LocksOf(r) \ {vol[r]})

\* Mutant of TryAcquire: the lock is taken without checking that it is free.
TryAcquireBlind(r) ==
    /\ pc[r] = "lock"
    /\ pc' = [pc EXCEPT ![r] = IF kind[r] = "controller" THEN "resolve" ELSE "check"]
    /\ SetLocks(r, LocksOf(r) \cup {vol[r]})
    /\ UNCHANGED <<result, kind, vol, mapped>>

\* volumeLocks.TryAcquire(volumeID): a held volume ID makes the request
\* return Aborted at once (no Release is deferred yet); otherwise the ID is
\* taken and the handler goes on.
TryAcquire(r) ==
    /\ pc[r] = "lock"
    /\ \/ /\ vol[r] \in LocksOf(r)
          /\ pc' = [pc EXCEPT ![r] = "done"]
          /\ result' = [result EXCEPT ![r] = "aborted"]
          /\ UNCHANGED <<ctrlLocks, nodeLocks>>
       \/ /\ vol[r] \notin LocksOf(r)
          /\ pc' = [pc EXCEPT ![r] = IF kind[r] = "controller" THEN "resolve" ELSE "check"]
          /\ SetLocks(r, LocksOf(r) \cup {vol[r]})
          /\ UNCHANGED result
    /\ UNCHANGED <<kind, vol, mapped>>

-----------------------------------------------------------------------------
(* Requests *)

\* Mutant of Receive: the empty volume ID is not refused.
ReceiveNoCheck(r) ==
    /\ pc[r] = "idle"
    /\ \E k \in Kinds, v \in Vols \cup {NoVol} :
          /\ kind' = [kind EXCEPT ![r] = k]
          /\ vol' = [vol EXCEPT ![r] = v]
          /\ pc' = [pc EXCEPT ![r] = "lock"]
    /\ UNCHANGED <<result, ctrlLocks, nodeLocks, mapped>>

\* A request arrives at a server; an empty volume ID is InvalidArgument
\* before the lock is tried.
Receive(r) ==
    /\ pc[r] = "idle"
    /\ \E k \in Kinds, v \in Vols \cup {NoVol} :
          /\ kind' = [kind EXCEPT ![r] = k]
          /\ vol' = [vol EXCEPT ![r] = v]
          /\ IF v = NoVol
             THEN /\ pc' = [pc EXCEPT ![r] = "done"]
                  /\ result' = [result EXCEPT ![r] = "invalid"]
             ELSE /\ pc' = [pc EXCEPT ![r] = "lock"]
                  /\ UNCHANGED result
    /\ UNCHANGED <<ctrlLocks, nodeLocks, mapped>>

\* ControllerReclaimSpace: GetVolumeByID (a failure is Aborted).
Resolve(r) ==
    /\ pc[r] = "resolve"
    /\ \/ pc' = [pc EXCEPT ![r] = "inuse"] /\ UNCHANGED <<result, ctrlLocks, nodeLocks>>
       \/ Finish(r, "aborted")
    /\ UNCHANGED <<kind, vol, mapped>>

\* Mutant of CheckInUse: the handler retries isInUse until the image is
\* unused instead of returning ErrImageInUse (or the error).
CheckInUseWaits(r) ==
    /\ pc[r] = "inuse"
    /\ vol[r] \notin mapped
    /\ pc' = [pc EXCEPT ![r] = "open"]
    /\ UNCHANGED <<result, ctrlLocks, nodeLocks>>
    /\ UNCHANGED <<kind, vol, mapped>>

\* Sparsify: isInUse (it may fail: Internal); an image in use returns
\* ErrImageInUse, which ControllerReclaimSpace answers with success.
CheckInUse(r) ==
    /\ pc[r] = "inuse"
    /\ \/ Finish(r, "internal")
       \/ vol[r] \in mapped /\ Finish(r, "ok")
       \/ /\ vol[r] \notin mapped
          /\ pc' = [pc EXCEPT ![r] = "open"]
          /\ UNCHANGED <<result, ctrlLocks, nodeLocks>>
    /\ UNCHANGED <<kind, vol, mapped>>

\* Sparsify: open and Stat the image (each may fail: Internal), then
\* image.Sparsify starts.
OpenImage(r) ==
    /\ pc[r] = "open"
    /\ \/ pc' = [pc EXCEPT ![r] = "sparsifying"] /\ UNCHANGED <<result, ctrlLocks, nodeLocks>>
       \/ Finish(r, "internal")
    /\ UNCHANGED <<kind, vol, mapped>>

\* image.Sparsify ends, with success or Internal.
SparsifyDone(r) ==
    /\ pc[r] = "sparsifying"
    /\ \/ Finish(r, "ok")
       \/ Finish(r, "internal")
    /\ UNCHANGED <<kind, vol, mapped>>

\* NodeReclaimSpace: neither a staging path nor a volume path is
\* InvalidArgument; a multi-node or a block capability is Unimplemented.
CheckRequest(r) ==
    /\ pc[r] = "check"
    /\ \/ Finish(r, "invalid")
       \/ Finish(r, "unimplemented")
       \/ pc' = [pc EXCEPT ![r] = "fstrim"] /\ UNCHANGED <<result, ctrlLocks, nodeLocks>>
    /\ UNCHANGED <<kind, vol, mapped>>

\* fstrim on the path: it fails (Internal) unless the volume is staged.
Fstrim(r) ==
    /\ pc[r] = "fstrim"
    /\ \/ vol[r] \in mapped /\ Finish(r, "ok")
       \/ Finish(r, "internal")
    /\ UNCHANGED <<kind, vol, mapped>>

\* The node stages or unstages a volume (its image gains or loses a watcher).
Stage(v) ==
    /\ mapped' = mapped \cup {v}
    /\ UNCHANGED <<kind, vol, pc, result, ctrlLocks, nodeLocks>>

Unstage(v) ==
    /\ mapped' = mapped \ {v}
    /\ UNCHANGED <<kind, vol, pc, result, ctrlLocks, nodeLocks>>

\* No request has arrived (kind and vol are set on arrival).
Init ==
    /\ kind = [r \in Reqs |-> "controller"]
    /\ vol = [r \in Reqs |-> NoVol]
    /\ pc = [r \in Reqs |-> "idle"]
    /\ result = [r \in Reqs |-> "none"]
    /\ ctrlLocks = {} /\ nodeLocks = {}
    /\ mapped = {}

\* The steps of request r, each a call of its handler.
Serve(r) ==
    \/ TryAcquire(r)
    \/ Resolve(r) \/ CheckInUse(r) \/ OpenImage(r) \/ SparsifyDone(r)
    \/ CheckRequest(r) \/ Fstrim(r)

Next ==
    \/ \E r \in Reqs : Receive(r) \/ Serve(r)
    \/ \E v \in Vols : Stage(v) \/ Unstage(v)

\* Every goroutine serving an arrived request keeps running.
Fairness == \A r \in Reqs : WF_vars(Serve(r))

Spec == Init /\ [][Next]_vars /\ Fairness

-----------------------------------------------------------------------------
(* Properties *)

\* TryAcquire/Release: two requests to the same server never run their
\* handlers on the same volume at the same time.
MutualExclusion ==
    \A r1, r2 \in Reqs :
        (r1 # r2 /\ Holds(r1) /\ Holds(r2) /\ kind[r1] = kind[r2]) => vol[r1] # vol[r2]

\* The deferred Release on every return path: a server's VolumeLocks holds
\* exactly the volumes of the requests that are inside its handler, so a
\* later request is Aborted only while another one is really running.
LocksHeldByHolders ==
    \A k \in Kinds :
        (IF k = "controller" THEN ctrlLocks ELSE nodeLocks)
            = {vol[r] : r \in {q \in Reqs : Holds(q) /\ kind[q] = k}}

\* The abstract lock service: a request is inside a handler on <<server,
\* volume>> while it holds that server's lock on the volume, and outside
\* (the empty tuple) otherwise.
LockService == INSTANCE VolumeLockService WITH
    Servers <- Kinds,
    Out <- <<>>,
    inside <- [r \in Reqs |-> IF Holds(r) THEN <<kind[r], vol[r]>> ELSE <<>>]

\* The two servers implement the lock service: every handler runs on its
\* volume exclusively from TryAcquire to the deferred Release, and every
\* request that entered a handler leaves it.
LockServiceSpec == LockService!Spec

\* Sparsify's doc comment: an image in use is not sparsified (ErrImageInUse
\* is returned instead); no sparsify runs while a node has the image mapped.
NoSparsifyWhileMapped ==
    \A r \in Reqs : pc[r] = "sparsifying" => vol[r] \notin mapped

=============================================================================
