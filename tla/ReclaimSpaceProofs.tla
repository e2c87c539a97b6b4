------------------------- MODULE ReclaimSpaceProofs -------------------------
(***************************************************************************)
(* Proofs about ReclaimSpace: the per-volume lock of each server gives     *)
(* mutual exclusion and always reflects the running handlers, for any     *)
(* sets of requests and volumes.                                           *)
(***************************************************************************)
EXTENDS ReclaimSpace, TLAPS

\* A request at the lock or inside a handler carries a real volume ID (the
\* empty one was refused on arrival).
RealVolume == \A r \in Reqs : pc[r] \in Locked \cup {"lock"} => vol[r] \in Vols

LockInv == TypeOK /\ RealVolume /\ LocksHeldByHolders /\ MutualExclusion

\* The requests inside the handler of server k, and that server's lock set.
HoldersOf(k) == {q \in Reqs : Holds(q) /\ kind[q] = k}
LockSet(k) == IF k = "controller" THEN ctrlLocks ELSE nodeLocks

\* LocksHeldByHolders, server by server.
LEMMA LocksByServer ==
    LocksHeldByHolders <=> \A k \in Kinds : LockSet(k) = {vol[q] : q \in HoldersOf(k)}
BY DEF LocksHeldByHolders, LockSet, HoldersOf

\* Nothing is locked and nobody is inside a handler before the first request.
LEMMA LockInit == Init => LockInv
<1> SUFFICES ASSUME Init PROVE LockInv
    OBVIOUS
<1>1. TypeOK
    BY DEF Init, TypeOK, Kinds, Results, PCs
<1>2. \A q \in Reqs : ~Holds(q)
    BY DEF Init, Holds, Locked
<1>3. RealVolume
    BY DEF Init, RealVolume, Locked
<1>4. LocksHeldByHolders
    <2>1. \A k \in Kinds : HoldersOf(k) = {}
        BY <1>2 DEF HoldersOf
    <2> QED
        BY <2>1, LocksByServer DEF Init, LockSet
<1>5. MutualExclusion
    BY <1>2 DEF MutualExclusion
<1> QED
    BY <1>1, <1>3, <1>4, <1>5 DEF LockInv

\* A handler call that neither returns nor touches the locks (the request
\* stays inside its handler) keeps the lock invariant.
LEMMA MoveInside ==
    ASSUME LockInv, NEW r \in Reqs, Holds(r), NEW p \in Locked,
           pc' = [pc EXCEPT ![r] = p],
           UNCHANGED <<kind, vol, result, ctrlLocks, nodeLocks, mapped>>
    PROVE  LockInv'
<1> USE DEF LockInv
<1>1. \A q \in Reqs : Holds(q)' <=> Holds(q)
    BY DEF Holds, TypeOK
<1>2. TypeOK'
    BY DEF TypeOK, Locked, PCs
<1>3. RealVolume'
    BY <1>1 DEF RealVolume, Holds, TypeOK
<1>4. MutualExclusion'
    BY <1>1 DEF MutualExclusion
<1>5. LocksHeldByHolders'
    <2>1. \A k \in Kinds : HoldersOf(k)' = HoldersOf(k)
        BY <1>1 DEF HoldersOf
    <2>2. \A k \in Kinds : LockSet(k)' = LockSet(k)
        BY DEF LockSet
    <2> QED
        BY <2>1, <2>2, LocksByServer DEF LocksHeldByHolders, LockSet, HoldersOf
<1> QED
    BY <1>2, <1>3, <1>4, <1>5

\* A return through the deferred Release keeps the lock invariant: the
\* request leaves its handler and its volume leaves its server's lock set,
\* which no other request of that server holds.
LEMMA FinishInside ==
    ASSUME LockInv, NEW r \in Reqs, Holds(r), NEW s \in Results, Finish(r, s),
           UNCHANGED <<kind, vol, mapped>>
    PROVE  LockInv'
<1> USE DEF LockInv
<1>0. /\ pc' = [pc EXCEPT ![r] = "done"]
      /\ LockSet(kind[r])' = LockSet(kind[r]) \ {vol[r]}
      /\ \A k \in Kinds \ {kind[r]} : LockSet(k)' = LockSet(k)
    BY DEF Finish, SetLocks, LocksOf, LockSet, TypeOK, Kinds
<1>1. \A q \in Reqs : Holds(q)' <=> (Holds(q) /\ q # r)
    BY <1>0 DEF Holds, Locked, TypeOK
<1>2. TypeOK'
    <2>1. ctrlLocks' \subseteq Vols /\ nodeLocks' \subseteq Vols
        BY <1>0 DEF TypeOK, LockSet, Kinds
    <2> QED
        BY <1>0, <2>1 DEF TypeOK, Finish, PCs
<1>3. RealVolume'
    BY <1>0 DEF RealVolume, TypeOK, Locked
<1>4. MutualExclusion'
    BY <1>1 DEF MutualExclusion
<1>5. LocksHeldByHolders'
    <2> SUFFICES ASSUME NEW k \in Kinds
                 PROVE  LockSet(k)' = {vol'[q] : q \in HoldersOf(k)'}
        BY DEF LocksHeldByHolders, LockSet, HoldersOf
    <2>1. HoldersOf(k)' = HoldersOf(k) \ {r}
        BY <1>1 DEF HoldersOf
    <2>2. LockSet(k) = {vol[q] : q \in HoldersOf(k)}
        BY LocksByServer
    <2>3. CASE k = kind[r]
        <3>1. \A q \in HoldersOf(k) \ {r} : vol[q] # vol[r]
            BY <2>3 DEF MutualExclusion, HoldersOf
        <3>2. r \in HoldersOf(k)
            BY <2>3 DEF HoldersOf
        <3> QED
            BY <1>0, <2>1, <2>2, <2>3, <3>1, <3>2
    <2>4. CASE k # kind[r]
        <3>1. r \notin HoldersOf(k)
            BY <2>4 DEF HoldersOf
        <3> QED
            BY <1>0, <2>1, <2>2, <2>4, <3>1
    <2> QED
        BY <2>3, <2>4
<1> QED
    BY <1>2, <1>3, <1>4, <1>5

\* TryAcquire keeps the lock invariant: an abort changes nothing but the
\* request's result; a taken lock adds the request to the holders of its
\* server and its volume, free until then, to the lock set.
LEMMA AcquireStep ==
    ASSUME LockInv, NEW r \in Reqs, TryAcquire(r)
    PROVE  LockInv'
<1> USE DEF LockInv
<1>1. CASE vol[r] \in LocksOf(r)
    <2>1. /\ pc' = [pc EXCEPT ![r] = "done"]
          /\ UNCHANGED <<kind, vol, ctrlLocks, nodeLocks>>
        BY <1>1 DEF TryAcquire
    <2>2. \A q \in Reqs : Holds(q)' <=> Holds(q)
        BY <2>1 DEF TryAcquire, Holds, Locked, TypeOK
    <2>3. TypeOK'
        BY <2>1 DEF TryAcquire, TypeOK, PCs, Results
    <2>4. RealVolume'
        BY <2>1 DEF RealVolume, TypeOK, Locked
    <2>5. MutualExclusion'
        BY <2>1, <2>2 DEF MutualExclusion
    <2>6. LocksHeldByHolders'
        BY <2>1, <2>2 DEF LocksHeldByHolders
    <2> QED
        BY <2>3, <2>4, <2>5, <2>6
<1>2. CASE vol[r] \notin LocksOf(r)
    <2> DEFINE next == IF kind[r] = "controller" THEN "resolve" ELSE "check"
    <2>1. /\ pc' = [pc EXCEPT ![r] = next]
          /\ LockSet(kind[r])' = LockSet(kind[r]) \cup {vol[r]}
          /\ \A k \in Kinds \ {kind[r]} : LockSet(k)' = LockSet(k)
          /\ UNCHANGED <<kind, vol, result>>
        BY <1>2 DEF TryAcquire, SetLocks, LocksOf, LockSet, TypeOK, Kinds
    <2>2. \A q \in Reqs : Holds(q)' <=> (Holds(q) \/ q = r)
        BY <2>1 DEF TryAcquire, Holds, Locked, TypeOK
    <2>3. vol[r] \in Vols
        BY DEF TryAcquire, RealVolume
    <2>4. TypeOK'
        <3>1. ctrlLocks' \subseteq Vols /\ nodeLocks' \subseteq Vols
            BY <2>1, <2>3 DEF TypeOK, LockSet, Kinds
        <3> QED
            BY <2>1, <3>1 DEF TryAcquire, TypeOK, PCs
    <2>5. RealVolume'
        BY <2>1, <2>3 DEF RealVolume, TypeOK, Locked
    <2>6. \A q \in HoldersOf(kind[r]) : vol[q] # vol[r]
        BY <1>2, LocksByServer DEF LocksOf, LockSet, TypeOK, Kinds
    <2>7. MutualExclusion'
        BY <2>1, <2>2, <2>6 DEF MutualExclusion, HoldersOf
    <2>8. LocksHeldByHolders'
        <3> SUFFICES ASSUME NEW k \in Kinds
                     PROVE  LockSet(k)' = {vol'[q] : q \in HoldersOf(k)'}
            BY DEF LocksHeldByHolders, LockSet, HoldersOf
        <3>1. LockSet(k) = {vol[q] : q \in HoldersOf(k)}
            BY LocksByServer
        <3>2. CASE k = kind[r]
            <4>1. HoldersOf(k)' = HoldersOf(k) \cup {r}
                BY <2>1, <2>2, <3>2 DEF HoldersOf
            <4> QED
                BY <2>1, <3>1, <3>2, <4>1
        <3>3. CASE k # kind[r]
            <4>1. HoldersOf(k)' = HoldersOf(k)
                BY <2>1, <2>2, <3>3 DEF HoldersOf
            <4> QED
                BY <2>1, <3>1, <3>3, <4>1
        <3> QED
            BY <3>2, <3>3
    <2> QED
        BY <2>4, <2>5, <2>7, <2>8
<1> QED
    BY <1>1, <1>2

\* A request arriving changes only its own kind and volume, and it is not
\* inside a handler before or after.
LEMMA ReceiveStep ==
    ASSUME LockInv, NEW r \in Reqs, Receive(r)
    PROVE  LockInv'
<1> USE DEF LockInv
<1>1. /\ pc[r] = "idle"
      /\ pc'[r] \in {"lock", "done"}
      /\ \A q \in Reqs \ {r} : pc'[q] = pc[q] /\ kind'[q] = kind[q] /\ vol'[q] = vol[q]
      /\ pc' \in [Reqs -> PCs]
      /\ UNCHANGED <<ctrlLocks, nodeLocks>>
    BY DEF Receive, TypeOK, PCs
<1>2. \A q \in Reqs : Holds(q)' <=> Holds(q)
    BY <1>1 DEF Holds, Locked
<1>3. ~Holds(r)
    BY <1>1 DEF Holds, Locked
<1>4. TypeOK'
    <2>1. PICK k \in Kinds, v \in Vols \cup {NoVol} :
              /\ kind' = [kind EXCEPT ![r] = k]
              /\ vol' = [vol EXCEPT ![r] = v]
              /\ result' \in {result, [result EXCEPT ![r] = "invalid"]}
              /\ mapped' = mapped
        BY DEF Receive
    <2>2. kind' \in [Reqs -> Kinds] /\ vol' \in [Reqs -> Vols \cup {NoVol}]
        BY <2>1 DEF TypeOK
    <2>3. result' \in [Reqs -> Results]
        BY <2>1 DEF TypeOK, Results
    <2>4. pc' \in [Reqs -> PCs]
        BY <1>1
    <2>5. ctrlLocks' \subseteq Vols /\ nodeLocks' \subseteq Vols
        BY <1>1 DEF TypeOK
    <2>6. mapped' \subseteq Vols
        BY <2>1 DEF TypeOK
    <2> QED
        BY <2>2, <2>3, <2>4, <2>5, <2>6 DEF TypeOK
<1>5. RealVolume'
    BY <1>1 DEF Receive, RealVolume, TypeOK, Locked
<1>6. MutualExclusion'
    BY <1>1, <1>2, <1>3 DEF MutualExclusion
<1>7. LocksHeldByHolders'
    <2>1. \A k \in Kinds : HoldersOf(k)' = HoldersOf(k)
        BY <1>1, <1>2, <1>3 DEF HoldersOf
    <2>2. \A k \in Kinds : {vol'[q] : q \in HoldersOf(k)'} = {vol[q] : q \in HoldersOf(k)}
        BY <1>1, <1>3, <2>1 DEF HoldersOf
    <2>3. \A k \in Kinds : LockSet(k)' = LockSet(k)
        BY <1>1 DEF LockSet
    <2> QED
        BY <2>2, <2>3, LocksByServer DEF LocksHeldByHolders, LockSet, HoldersOf
<1> QED
    BY <1>4, <1>5, <1>6, <1>7

\* Resolve keeps the lock invariant: each of its exits stays inside the
\* handler or returns through the deferred Release.
LEMMA ResolveStep ==
    ASSUME LockInv, NEW r \in Reqs, Resolve(r)
    PROVE  LockInv'
<1>1. Holds(r) /\ UNCHANGED <<kind, vol, mapped>>
    BY DEF Resolve, Holds, Locked
<1>2. CASE pc' = [pc EXCEPT ![r] = "inuse"] /\ UNCHANGED <<result, ctrlLocks, nodeLocks>>
    BY <1>1, <1>2, MoveInside DEF Locked
<1>3. CASE Finish(r, "aborted")
    BY <1>1, <1>3, FinishInside DEF Results
<1> QED
    BY <1>2, <1>3 DEF Resolve

\* CheckInUse keeps the lock invariant: each of its exits stays inside the
\* handler or returns through the deferred Release.
LEMMA CheckInUseStep ==
    ASSUME LockInv, NEW r \in Reqs, CheckInUse(r)
    PROVE  LockInv'
<1>1. Holds(r) /\ UNCHANGED <<kind, vol, mapped>>
    BY DEF CheckInUse, Holds, Locked
<1>2. CASE pc' = [pc EXCEPT ![r] = "open"] /\ UNCHANGED <<result, ctrlLocks, nodeLocks>>
    BY <1>1, <1>2, MoveInside DEF Locked
<1>3. CASE Finish(r, "internal")
    BY <1>1, <1>3, FinishInside DEF Results
<1>4. CASE Finish(r, "ok")
    BY <1>1, <1>4, FinishInside DEF Results
<1> QED
    BY <1>2, <1>3, <1>4 DEF CheckInUse

\* OpenImage keeps the lock invariant: each of its exits stays inside the
\* handler or returns through the deferred Release.
LEMMA OpenImageStep ==
    ASSUME LockInv, NEW r \in Reqs, OpenImage(r)
    PROVE  LockInv'
<1>1. Holds(r) /\ UNCHANGED <<kind, vol, mapped>>
    BY DEF OpenImage, Holds, Locked
<1>2. CASE pc' = [pc EXCEPT ![r] = "sparsifying"] /\ UNCHANGED <<result, ctrlLocks, nodeLocks>>
    BY <1>1, <1>2, MoveInside DEF Locked
<1>3. CASE Finish(r, "internal")
    BY <1>1, <1>3, FinishInside DEF Results
<1> QED
    BY <1>2, <1>3 DEF OpenImage

\* SparsifyDone keeps the lock invariant: each of its exits stays inside the
\* handler or returns through the deferred Release.
LEMMA SparsifyDoneStep ==
    ASSUME LockInv, NEW r \in Reqs, SparsifyDone(r)
    PROVE  LockInv'
<1>1. Holds(r) /\ UNCHANGED <<kind, vol, mapped>>
    BY DEF SparsifyDone, Holds, Locked
<1>2. CASE Finish(r, "ok")
    BY <1>1, <1>2, FinishInside DEF Results
<1>3. CASE Finish(r, "internal")
    BY <1>1, <1>3, FinishInside DEF Results
<1> QED
    BY <1>2, <1>3 DEF SparsifyDone

\* CheckRequest keeps the lock invariant: each of its exits stays inside the
\* handler or returns through the deferred Release.
LEMMA CheckRequestStep ==
    ASSUME LockInv, NEW r \in Reqs, CheckRequest(r)
    PROVE  LockInv'
<1>1. Holds(r) /\ UNCHANGED <<kind, vol, mapped>>
    BY DEF CheckRequest, Holds, Locked
<1>2. CASE pc' = [pc EXCEPT ![r] = "fstrim"] /\ UNCHANGED <<result, ctrlLocks, nodeLocks>>
    BY <1>1, <1>2, MoveInside DEF Locked
<1>3. CASE Finish(r, "invalid")
    BY <1>1, <1>3, FinishInside DEF Results
<1>4. CASE Finish(r, "unimplemented")
    BY <1>1, <1>4, FinishInside DEF Results
<1> QED
    BY <1>2, <1>3, <1>4 DEF CheckRequest

\* Fstrim keeps the lock invariant: each of its exits stays inside the
\* handler or returns through the deferred Release.
LEMMA FstrimStep ==
    ASSUME LockInv, NEW r \in Reqs, Fstrim(r)
    PROVE  LockInv'
<1>1. Holds(r) /\ UNCHANGED <<kind, vol, mapped>>
    BY DEF Fstrim, Holds, Locked
<1>2. CASE Finish(r, "ok")
    BY <1>1, <1>2, FinishInside DEF Results
<1>3. CASE Finish(r, "internal")
    BY <1>1, <1>3, FinishInside DEF Results
<1> QED
    BY <1>2, <1>3 DEF Fstrim

\* The node's staging changes only the watchers of an image.
LEMMA StagingStep ==
    ASSUME LockInv, NEW v \in Vols, Stage(v) \/ Unstage(v)
    PROVE  LockInv'
<1>1. mapped' \subseteq Vols /\ UNCHANGED <<kind, vol, pc, result, ctrlLocks, nodeLocks>>
    BY DEF Stage, Unstage, LockInv, TypeOK
<1> QED
    BY <1>1 DEF LockInv, TypeOK, RealVolume, LocksHeldByHolders, MutualExclusion,
              Holds

\* Every step of the system keeps the lock invariant.
LEMMA LockStep == LockInv /\ [Next]_vars => LockInv'
<1> SUFFICES ASSUME LockInv, [Next]_vars PROVE LockInv'
    OBVIOUS
<1>1. ASSUME NEW r \in Reqs, Receive(r) \/ Serve(r) PROVE LockInv'
    BY <1>1, ReceiveStep, AcquireStep, ResolveStep, CheckInUseStep, OpenImageStep,
       SparsifyDoneStep, CheckRequestStep, FstrimStep DEF Serve
<1>2. ASSUME NEW v \in Vols, Stage(v) \/ Unstage(v) PROVE LockInv'
    BY <1>2, StagingStep
<1>3. CASE UNCHANGED vars
    BY <1>3 DEF vars, LockInv, TypeOK, RealVolume, LocksHeldByHolders,
              MutualExclusion, Holds
<1> QED
    BY <1>1, <1>2, <1>3 DEF Next

\* TryAcquire and the deferred Release give mutual exclusion per server and
\* volume, for any sets of requests and volumes.
THEOREM MutualExclusionThm == Spec => []MutualExclusion
<1>1. LockInv => MutualExclusion
    BY DEF LockInv
<1> QED
    BY <1>1, LockInit, LockStep, PTL DEF Spec

\* Each server's lock set is exactly the volumes of the requests inside its
\* handler (every return path releases), for any sets of requests and volumes.
THEOREM LocksHeldThm == Spec => []LocksHeldByHolders
<1>1. LockInv => LocksHeldByHolders
    BY DEF LockInv
<1> QED
    BY <1>1, LockInit, LockStep, PTL DEF Spec

\* The request, lock and image variables of both reclaim-space servers keep
\* their types in every reachable state, for any requests and volumes.
THEOREM RSTypeCorrect == Spec => []TypeOK
<1>1. LockInv => TypeOK
    BY DEF LockInv
<1> QED
    BY <1>1, LockInit, LockStep, PTL DEF Spec


-----------------------------------------------------------------------------
(* Refinement of the lock service *)

\* A step that moves nobody into or out of a handler, and changes the
\* request of nobody inside one, is a stutter of the lock service.
LEMMA MapUnchanged ==
    ASSUME \A q \in Reqs : /\ Holds(q)' <=> Holds(q)
                           /\ Holds(q) => kind'[q] = kind[q] /\ vol'[q] = vol[q]
    PROVE  LockService!vars' = LockService!vars
BY DEF LockService!vars

\* A successful TryAcquire is an Enter of the lock service: the lock set
\* of r's server holds the volume of every request inside its handler.
LEMMA MapEnter ==
    ASSUME LockInv, NEW r \in Reqs, pc[r] = "lock", vol[r] \notin LocksOf(r),
           Holds(r)', kind' = kind, vol' = vol,
           \A q \in Reqs \ {r} : Holds(q)' <=> Holds(q)
    PROVE  LockService!Next
<1>1. vol[r] \in Vols /\ kind[r] \in Kinds
    BY DEF LockInv, RealVolume, Locked, TypeOK
<1>2. ~Holds(r)
    BY DEF Holds, Locked
<1>3. \A q \in Reqs : Holds(q) /\ kind[q] = kind[r] => vol[q] # vol[r]
    BY DEF LockInv, LocksHeldByHolders, LocksOf, TypeOK, Kinds
<1>4. LockService!Enter(r, kind[r], vol[r])
    BY <1>2, <1>3 DEF LockService!Enter
<1>5. \E k \in Kinds, v \in Vols : LockService!Enter(r, k, v)
    BY <1>1, <1>4 DEF LockService!Enter
<1> QED
    BY <1>5 DEF LockService!Next

\* A handler call of a request inside its handler either stays inside (a
\* stutter) or returns through the deferred Release (a Leave).
LEMMA MapHandler ==
    ASSUME TypeOK, NEW r \in Reqs, Holds(r), NEW p \in PCs,
           pc' = [pc EXCEPT ![r] = p], kind' = kind, vol' = vol
    PROVE  [LockService!Next]_LockService!vars
<1>1. \A q \in Reqs \ {r} : Holds(q)' <=> Holds(q)
    BY DEF Holds, TypeOK
<1>2. CASE p \in Locked
    <2>1. Holds(r)'
        BY <1>2 DEF Holds, TypeOK
    <2> QED
        BY <1>1, <2>1, MapUnchanged
<1>3. CASE p \notin Locked
    <2>1. ~Holds(r)'
        BY <1>3 DEF Holds, TypeOK
    <2>2. LockService!Leave(r)
        BY <1>1, <2>1 DEF LockService!Leave
    <2> QED
        BY <2>2 DEF LockService!Next
<1> QED
    BY <1>2, <1>3

\* Every step of the two servers is a step of the lock service or leaves
\* the requests inside handlers as they are.
LEMMA MapStep == LockInv /\ [Next]_vars => [LockService!Next]_LockService!vars
<1> SUFFICES ASSUME LockInv, [Next]_vars PROVE [LockService!Next]_LockService!vars
    OBVIOUS
<1>0. TypeOK
    BY DEF LockInv
<1>1. ASSUME NEW r \in Reqs, Receive(r) PROVE [LockService!Next]_LockService!vars
    <2>1. pc[r] = "idle" /\ pc'[r] \in {"lock", "done"}
        BY <1>0, <1>1 DEF Receive, TypeOK
    <2>2. \A q \in Reqs \ {r} : pc'[q] = pc[q] /\ kind'[q] = kind[q] /\ vol'[q] = vol[q]
        BY <1>0, <1>1 DEF Receive, TypeOK
    <2> QED
        BY <2>1, <2>2, MapUnchanged DEF Holds, Locked
<1>2. ASSUME NEW r \in Reqs, TryAcquire(r) PROVE [LockService!Next]_LockService!vars
    <2>1. CASE vol[r] \in LocksOf(r) /\ pc' = [pc EXCEPT ![r] = "done"]
              /\ kind' = kind /\ vol' = vol
        <3>1. \A q \in Reqs : /\ Holds(q)' <=> Holds(q)
                              /\ Holds(q) => kind'[q] = kind[q] /\ vol'[q] = vol[q]
            BY <1>0, <1>2, <2>1 DEF TryAcquire, Holds, Locked, TypeOK
        <3>2. LockService!vars' = LockService!vars
            BY <3>1, MapUnchanged
        <3> QED
            BY <3>2 DEF LockService!vars
    <2>2. CASE vol[r] \notin LocksOf(r)
              /\ pc' = [pc EXCEPT ![r] = IF kind[r] = "controller" THEN "resolve" ELSE "check"]
              /\ kind' = kind /\ vol' = vol
        <3>1. Holds(r)' /\ \A q \in Reqs \ {r} : Holds(q)' <=> Holds(q)
            BY <1>0, <2>2 DEF Holds, Locked, TypeOK
        <3> QED
            BY <1>2, <2>2, <3>1, MapEnter DEF TryAcquire
    <2> QED
        BY <1>2, <2>1, <2>2 DEF TryAcquire
<1>3. ASSUME NEW r \in Reqs,
             Resolve(r) \/ CheckInUse(r) \/ OpenImage(r) \/ SparsifyDone(r)
             \/ CheckRequest(r) \/ Fstrim(r)
      PROVE  [LockService!Next]_LockService!vars
    <2>1. Holds(r)
        BY <1>3 DEF Resolve, CheckInUse, OpenImage, SparsifyDone, CheckRequest,
                    Fstrim, Holds, Locked
    <2>2. \E p \in PCs : pc' = [pc EXCEPT ![r] = p]
        BY <1>3 DEF Resolve, CheckInUse, OpenImage, SparsifyDone, CheckRequest,
                    Fstrim, Finish, PCs
    <2>3. kind' = kind /\ vol' = vol
        BY <1>3 DEF Resolve, CheckInUse, OpenImage, SparsifyDone, CheckRequest,
                    Fstrim
    <2> QED
        BY <1>0, <2>1, <2>2, <2>3, MapHandler
<1>4. ASSUME NEW v \in Vols, Stage(v) \/ Unstage(v)
      PROVE  [LockService!Next]_LockService!vars
    BY <1>4, MapUnchanged DEF Stage, Unstage, Holds
<1>5. CASE UNCHANGED vars
    BY <1>5, MapUnchanged DEF vars, Holds
<1> QED
    BY <1>1, <1>2, <1>3, <1>4, <1>5 DEF Next, Serve

\* The reclaim-space servers implement the safety part of the lock
\* service (TryAcquire to Release is an exclusive section per server and
\* volume), for any sets of requests and volumes.
THEOREM RefinementThm == Spec => LockService!SafetySpec
<1>1. Init => LockService!Init
    BY DEF Init, LockService!Init, Holds, Locked
<1>2. []LockInv /\ [][Next]_vars => [][LockService!Next]_LockService!vars
    BY MapStep, PTL
<1> QED
    BY <1>1, <1>2, LockInit, LockStep, PTL DEF Spec, LockService!SafetySpec


-----------------------------------------------------------------------------
(* Mutual exclusion from the lock service *)

\* The refinement mapping of the lock service's variable.
Inside == [r \in Reqs |-> IF Holds(r) THEN <<kind[r], vol[r]>> ELSE <<>>]

\* The lock service's exclusivity, read through the mapping, is the
\* servers' mutual exclusion.
LEMMA ExclusiveIsMutual == LockService!Exclusive => MutualExclusion
<1> SUFFICES ASSUME LockService!Exclusive,
                    NEW r1 \in Reqs, NEW r2 \in Reqs, r1 # r2,
                    Holds(r1), Holds(r2), kind[r1] = kind[r2]
             PROVE  vol[r1] # vol[r2]
    BY DEF MutualExclusion
<1>1. Inside[r1] # <<>> /\ Inside[r1] # Inside[r2]
    BY DEF LockService!Exclusive, Inside
<1> QED
    BY <1>1 DEF Inside

\* Mutual exclusion of the two servers follows from the refinement alone:
\* whatever the handlers do between TryAcquire and the deferred Release,
\* a behaviour of the lock service is exclusive (ExclusiveThm), and the
\* servers' behaviours are behaviours of the lock service (RefinementThm).
THEOREM MutualExclusionByRefinement == Spec => []MutualExclusion
<1>1. Spec => []LockService!Exclusive
    BY RefinementThm, LockService!ExclusiveThm
<1> QED
    BY <1>1, ExclusiveIsMutual, PTL

=============================================================================
