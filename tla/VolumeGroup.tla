----------------------------- MODULE VolumeGroup -----------------------------
(***************************************************************************)
(* The RBD volume group of ceph-csi (internal/rbd/group/volume_group.go):  *)
(* GetVolumeGroup, Destroy, Create, Delete, AddVolume, RemoveVolume and    *)
(* CreateSnapshots, over                                                   *)
(*   - the backend: the rbd group, its images, its group snapshots and the *)
(*     per-image snapshot images materialized from them;                   *)
(*   - the journal's membership record of the group;                       *)
(*   - the in-memory volumeGroup of one request (a "session": load,        *)
(*     calls, Destroy), with the volume handles it and its caller hold.    *)
(* Requests on the group are serialized by the caller's lock; the process *)
(* may crash between calls, and every backend or journal call may fail.   *)
(* Each handler is one action whose disjuncts are its exits: an error at  *)
(* a given call leaves the effects of the calls before it.                 *)
(***************************************************************************)
EXTENDS Naturals, FiniteSets

CONSTANTS
    Vols,        \* volume IDs (and image names) that may join the group
    Names,       \* names a CreateSnapshots request may use
    MaxCrashes,  \* bound on process crashes in one behaviour
    MaxCalls     \* bound on the group-changing calls in one behaviour

ASSUME VolsAssumption  == IsFiniteSet(Vols) /\ Vols # {}
ASSUME NamesAssumption == IsFiniteSet(Names) /\ Names # {}
ASSUME CrashAssumption == MaxCrashes \in Nat
ASSUME CallsAssumption == MaxCalls \in Nat

\* A volume handle: the volume, and who resolved it (GetVolumeGroup for the
\* group, or the caller that passed it to AddVolume / RemoveVolume).
Owners  == {"group", "caller"}
Handles == Vols \X Owners
VolsOf(H) == {h[1] : h \in H}

VARIABLES
    grp,         \* the rbd group exists
    members,     \* images that are members of the rbd group
    gsnaps,      \* names of the existing group snapshots
    gcons,       \* gcons[n]: the images group snapshot n was taken of
    images,      \* per-image snapshot images: <<index, request name, volume>>
    jrec,        \* the journal holds the group's record
    jmembers,    \* volume IDs in the journal's membership record
    sess,        \* the request's volumeGroup: "none", "open" or "closed"
    volumes,     \* vg.volumes
    toFree,      \* vg.volumesToFree
    held,        \* volumes the caller resolved for AddVolume/RemoveVolume
    resolved,    \* handles resolved during the request
    rel,         \* rel[h]: how often handle h was released
    lastCall,    \* the last AddVolume/RemoveVolume: [vol, ok]
    snapOut,     \* how the last CreateSnapshots ended
    snapName,    \* its name
    snapWanted,  \* members of vg.volumes that are images of the group then
    snapTaken,   \* volumes it materialized a snapshot image for
    gsFault,     \* its deferred GroupSnapRemove failed (logged only)
    crashes,
    calls        \* group-changing calls made so far (bounded by MaxCalls)

backend  == <<grp, members, gsnaps, gcons, images>>
journal  == <<jrec, jmembers>>
session  == <<sess, volumes, toFree, held, resolved, rel>>
snapcall == <<snapOut, snapName, snapWanted, snapTaken, gsFault>>
vars == <<backend, journal, session, lastCall, snapcall, crashes, calls>>

SnapOutcomes == {"none", "early", "ok", "error", "panic", "crash"}

TypeOK ==
    /\ grp \in BOOLEAN
    /\ members \subseteq Vols
    /\ gsnaps \subseteq Names
    /\ gcons \in [Names -> SUBSET Vols]
    /\ images \subseteq Nat \X Names \X Vols
    /\ jrec \in BOOLEAN
    /\ jmembers \subseteq Vols
    /\ sess \in {"none", "open", "closed"}
    /\ volumes \subseteq Handles
    /\ toFree \subseteq Handles
    /\ held \subseteq Vols
    /\ resolved \subseteq Handles
    /\ rel \in [Handles -> Nat]
    /\ lastCall \in [vol : Vols \cup {"none"}, ok : BOOLEAN]
    /\ snapOut \in SnapOutcomes
    /\ snapName \in Names
    /\ snapWanted \subseteq Vols
    /\ snapTaken \subseteq Vols
    /\ gsFault \in BOOLEAN
    /\ crashes \in 0..MaxCrashes
    /\ calls \in 0..MaxCalls

-----------------------------------------------------------------------------
(* Loading and releasing the group *)

\* A process that dies loses its in-memory group object and its handles; the
\* backend and the journal survive.
Forget ==
    /\ volumes' = {} /\ toFree' = {} /\ held' = {} /\ resolved' = {}
    /\ rel' = [h \in Handles |-> 0]

\* One more call that changes the group (Create, Delete, AddVolume,
\* RemoveVolume, CreateSnapshots), within the bound of the model.
Call == calls < MaxCalls /\ calls' = calls + 1

\* Mutant of GetVolumeGroup: vg.volumes keeps the journal's IDs instead of
\* the resolved volumes.
GetVolumeGroupIDs ==
    /\ sess \in {"none", "closed"}
    /\ sess' = "open"
    /\ volumes' = jmembers
    /\ toFree' = jmembers \X {"group"}
    /\ resolved' = jmembers \X {"group"}
    /\ rel' = [h \in Handles |-> 0]
    /\ held' = {}
    /\ UNCHANGED <<backend, journal, lastCall, snapcall, crashes>>
    /\ UNCHANGED calls

\* GetVolumeGroup: initialization or reading the journal's attributes may
\* fail; a group without a journal record is returned empty together with
\* ErrRBDGroupNotFound; otherwise each volume ID is resolved, and when one
\* resolution fails the deferred function releases the volumes resolved
\* before it (volumesToFree is still empty) and nil is returned.
GetVolumeGroup ==
    /\ sess \in {"none", "closed"}
    /\ held' = {}
    /\ \/ /\ sess' = "closed"
          /\ volumes' = {} /\ toFree' = {} /\ resolved' = {}
          /\ rel' = [h \in Handles |-> 0]
       \/ /\ ~jrec
          /\ sess' = "open"
          /\ volumes' = {} /\ toFree' = {} /\ resolved' = {}
          /\ rel' = [h \in Handles |-> 0]
       \/ /\ jrec
          /\ \E bad \in jmembers, done \in SUBSET jmembers :
                /\ bad \notin done
                /\ sess' = "closed"
                /\ volumes' = {} /\ toFree' = {}
                /\ resolved' = done \X {"group"}
                /\ rel' = [h \in Handles |-> IF h \in done \X {"group"} THEN 1 ELSE 0]
       \/ /\ jrec
          /\ sess' = "open"
          /\ volumes' = jmembers \X {"group"}
          /\ toFree' = jmembers \X {"group"}
          /\ resolved' = jmembers \X {"group"}
          /\ rel' = [h \in Handles |-> 0]
    /\ UNCHANGED <<backend, journal, lastCall, snapcall, crashes>>
    /\ UNCHANGED calls

\* Mutant of Destroy: frees vg.volumes instead of vg.volumesToFree.
DestroyVolumes ==
    /\ sess = "open"
    /\ rel' = [h \in Handles |-> rel[h] + (IF h \in volumes THEN 1 ELSE 0)
                                        + (IF h \in held \X {"caller"} THEN 1 ELSE 0)]
    /\ toFree' = {} /\ volumes' = {} /\ held' = {}
    /\ sess' = "closed"
    /\ UNCHANGED <<backend, journal, resolved, lastCall,
                   snapcall, crashes>>
    /\ UNCHANGED calls

\* The request ends: vg.Destroy frees the volumes resolved by GetVolumeGroup
\* (volumesToFree), and the caller frees the volumes it resolved itself.
Destroy ==
    /\ sess = "open"
    /\ rel' = [h \in Handles |-> rel[h] + (IF h \in toFree THEN 1 ELSE 0)
                                        + (IF h \in held \X {"caller"} THEN 1 ELSE 0)]
    /\ toFree' = {} /\ volumes' = {} /\ held' = {}
    /\ sess' = "closed"
    /\ UNCHANGED <<backend, journal, resolved, lastCall,
                   snapcall, crashes>>
    /\ UNCHANGED calls

-----------------------------------------------------------------------------
(* The group on the backend and in the journal *)

\* Create: GroupCreate; ErrExist is not an error.
Create ==
    /\ sess = "open"
    /\ Call
    /\ \/ UNCHANGED grp
       \/ grp' = TRUE
    /\ UNCHANGED <<members, gsnaps, gcons, images, journal, session, lastCall,
                   snapcall, crashes>>

\* Delete: GroupRemove (its images leave the group, its group snapshots go
\* with it; ErrNotFound is not an error), then the journal record is
\* deleted (commonVolumeGroup.Delete), which may fail on its own.
Delete ==
    /\ sess = "open"
    /\ Call
    /\ \/ UNCHANGED <<grp, members, gsnaps, journal>>
       \/ /\ grp' = FALSE /\ members' = {} /\ gsnaps' = {}
          /\ \/ UNCHANGED journal
             \/ jrec' = FALSE /\ jmembers' = {}
    /\ UNCHANGED <<gcons, images, session, lastCall, snapcall, crashes>>

-----------------------------------------------------------------------------
(* Membership *)

\* The caller resolves v and passes its handle.
CallerResolves(v) ==
    /\ held' = held \cup {v}
    /\ resolved' = resolved \cup {<<v, "caller">>}

\* AddVolume: vol.AddToGroup (refused for an image already in the group),
\* the handle is appended to vg.volumes, then the journal mapping is added
\* after GetID, GetPool, GetID, DecomposeCSIID and getJournal, any of which
\* may fail and return the error with the image already in the group.
AddVolume(v) ==
    /\ sess = "open"
    /\ Call
    /\ CallerResolves(v)
    /\ \/ /\ UNCHANGED <<members, volumes, jmembers>>
          /\ lastCall' = [vol |-> v, ok |-> FALSE]
       \/ /\ grp
          /\ v \notin members
          /\ members' = members \cup {v}
          /\ volumes' = volumes \cup {<<v, "caller">>}
          /\ \/ UNCHANGED jmembers /\ lastCall' = [vol |-> v, ok |-> FALSE]
             \/ jmembers' = jmembers \cup {v} /\ lastCall' = [vol |-> v, ok |-> TRUE]
    /\ UNCHANGED <<grp, gsnaps, gcons, images, jrec, sess, toFree, rel,
                   snapcall, crashes>>

\* RemoveVolume: nil when vg.volumes is empty; vol.RemoveFromGroup, where
\* ErrNotExist returns nil at once; GetID; vg.volumes is rebuilt without
\* the handles of v (GetID of each may fail first); then the journal
\* mapping is removed after GetPool, GetID, DecomposeCSIID and getJournal.
RemoveVolume(v) ==
    /\ sess = "open"
    /\ Call
    /\ CallerResolves(v)
    /\ \/ /\ volumes = {} \/ v \notin members
          /\ UNCHANGED <<members, volumes, jmembers>>
          /\ lastCall' = [vol |-> v, ok |-> TRUE]
       \/ /\ volumes # {}
          /\ UNCHANGED <<members, volumes, jmembers>>
          /\ lastCall' = [vol |-> v, ok |-> FALSE]
       \/ /\ volumes # {} /\ v \in members
          /\ members' = members \ {v}
          /\ \/ UNCHANGED <<volumes, jmembers>>
                /\ lastCall' = [vol |-> v, ok |-> FALSE]
             \/ /\ volumes' = {h \in volumes : h[1] # v}
                /\ \/ UNCHANGED jmembers /\ lastCall' = [vol |-> v, ok |-> FALSE]
                   \/ jmembers' = jmembers \ {v} /\ lastCall' = [vol |-> v, ok |-> TRUE]
    /\ UNCHANGED <<grp, gsnaps, gcons, images, jrec, sess, toFree, rel,
                   snapcall, crashes>>

-----------------------------------------------------------------------------
(* Consistent snapshots *)

\* The deferred GroupSnapRemove: the group snapshot n is gone, or the removal
\* failed and was only logged.
RemoveGroupSnap(n, present) ==
    \/ gsnaps' = present \ {n} /\ gsFault' = FALSE
    \/ gsnaps' = present \cup {n} /\ gsFault' = TRUE

\* Mutant of GroupSnapInfoFails: the deferred GroupSnapRemove is registered
\* only after GroupSnapGetInfo succeeded.
GroupSnapInfoFailsLeak(n) ==
    /\ snapOut' = "error" /\ snapTaken' = {}
    /\ UNCHANGED <<images, sess, crashes>>
    /\ gsnaps' = gsnaps \cup {n} /\ gsFault' = FALSE

\* GroupSnapGetInfo fails: the error is returned and the deferred
\* GroupSnapRemove runs.
GroupSnapInfoFails(n) ==
    /\ snapOut' = "error" /\ snapTaken' = {}
    /\ UNCHANGED <<images, sess, crashes>>
    /\ RemoveGroupSnap(n, gsnaps)

\* The orders in which GroupSnapGetInfo may list the images of a group
\* snapshot taken of S: info.Snapshots indexes them 0, 1, ...
Listings(S) ==
    {f \in [S -> 0..(Cardinality(S) - 1)] : \A a, b \in S : f[a] = f[b] => a = b}

\* NewSnapshotByID for the images of done, listed by ord: the image snapshot
\* of entry i is named <group>-snap-<i>; the group is fixed, so the index is
\* the whole name, and the request name n is not part of it.
Materialize(n, ord, done) == {<<ord[v], n, v>> : v \in done}

\* CreateSnapshots(n): GetName and GetIOContext may fail; GroupSnapCreate
\* (ErrExist is not an error: an existing group snapshot n is used as it
\* is); then GroupSnapRemove is deferred. GroupSnapGetInfo may fail. For
\* each image snapshot of the group snapshot, the volume of vg.volumes with
\* that name gets NewSnapshotByID, and entries without one are skipped. When
\* GetName or NewSnapshotByID fails, the deferred cleanup calls Destroy on
\* every slot of the snapshots slice, nil slots included: the slot of the
\* failing entry is always nil, so this panics. A crash after
\* GroupSnapCreate skips both deferred functions.
CreateSnapshots(n) ==
    /\ sess = "open"
    /\ Call
    /\ snapName' = n
    /\ snapWanted' = VolsOf(volumes) \cap members
    /\ \/ /\ snapOut' = "early" /\ snapTaken' = {} /\ gsFault' = FALSE
          /\ UNCHANGED <<gsnaps, gcons, images, session, crashes>>
       \/ /\ grp
          /\ gcons' = IF n \in gsnaps THEN gcons ELSE [gcons EXCEPT ![n] = members]
          /\ \E ord \in Listings(gcons'[n]) :
             LET targets == {v \in VolsOf(volumes) : v \in gcons'[n]}
             IN \/ /\ crashes < MaxCrashes
                   /\ \E done \in SUBSET targets :
                         /\ images' = images \cup Materialize(n, ord, done)
                         /\ snapTaken' = done
                   /\ snapOut' = "crash" /\ gsFault' = FALSE
                   /\ gsnaps' = gsnaps \cup {n}
                   /\ sess' = "none" /\ crashes' = crashes + 1
                   /\ Forget
                \/ GroupSnapInfoFails(n) /\ UNCHANGED session
                \/ /\ snapOut' = "ok" /\ snapTaken' = targets
                   /\ images' = images \cup Materialize(n, ord, targets)
                   /\ UNCHANGED <<session, crashes>>
                   /\ RemoveGroupSnap(n, gsnaps)
                \/ /\ volumes # {}
                   /\ \E c \in gcons'[n], done \in SUBSET targets :
                         /\ c \notin done
                         /\ images' = images \cup Materialize(n, ord, done)
                         /\ snapTaken' = done
                   /\ snapOut' = "panic"
                   /\ UNCHANGED <<session, crashes>>
                   /\ RemoveGroupSnap(n, gsnaps)
    /\ UNCHANGED <<grp, members, journal, lastCall>>

-----------------------------------------------------------------------------

\* The process dies between two calls of a request; its in-memory state and
\* handles die with it.
Crash ==
    /\ sess = "open"
    /\ crashes < MaxCrashes
    /\ sess' = "none"
    /\ crashes' = crashes + 1
    /\ Forget
    /\ UNCHANGED <<backend, journal, lastCall, snapcall>>
    /\ UNCHANGED calls

\* A group already created, empty, with its journal record reserved.
Init ==
    /\ grp = TRUE
    /\ members = {}
    /\ gsnaps = {}
    /\ gcons = [n \in Names |-> {}]
    /\ images = {}
    /\ jrec = TRUE
    /\ jmembers = {}
    /\ sess = "none"
    /\ volumes = {} /\ toFree = {} /\ held = {} /\ resolved = {}
    /\ rel = [h \in Handles |-> 0]
    /\ lastCall = [vol |-> "none", ok |-> FALSE]
    /\ snapOut = "none"
    /\ snapName \in Names
    /\ snapWanted = {} /\ snapTaken = {}
    /\ gsFault = FALSE
    /\ crashes = 0
    /\ calls = 0

Next ==
    \/ GetVolumeGroup \/ Destroy \/ Create \/ Delete \/ Crash
    \/ \E v \in Vols : AddVolume(v) \/ RemoveVolume(v)
    \/ \E n \in Names : CreateSnapshots(n)

Spec == Init /\ [][Next]_vars

-----------------------------------------------------------------------------
(* Properties *)

\* Handle ownership (volumesToFree against volumes): no volume handle is
\* released twice, and when a request has ended every handle resolved in
\* it, by GetVolumeGroup (including its failure path) or by the caller for
\* AddVolume/RemoveVolume, has been released once.
Ownership ==
    /\ \A h \in Handles : rel[h] <= 1
    /\ sess = "closed" => \A h \in resolved : rel[h] = 1

\* A CreateSnapshots that created (or reused) its group snapshot and
\* returned, successfully or not, leaves no group snapshot of that name,
\* unless the deferred GroupSnapRemove itself failed.
GroupSnapshotCleaned ==
    (snapOut \in {"ok", "error", "panic"} /\ ~gsFault) => snapName \notin gsnaps

\* A successful CreateSnapshots materialized a snapshot for every volume of
\* the group object that is an image of the rbd group at the time of the
\* call (the group snapshot spans every current member).
SnapshotsCurrent ==
    snapOut = "ok" => snapTaken = snapWanted

\* A failing CreateSnapshots returns its error (the cleanup of the snapshot
\* objects does not panic).
NoPanic == snapOut # "panic"

\* A failing CreateSnapshots leaves none of the snapshots it materialized
\* (outward all-or-nothing).
AllOrNothing ==
    snapOut \in {"error", "panic"} =>
        ({snapName} \X snapTaken) \cap {<<t[2], t[3]>> : t \in images} = {}

\* The group is backed by its persisted membership record: an image of the
\* rbd group is in the journal's record, or in the volumeGroup object of a
\* running request; otherwise no later GetVolumeGroup, which loads the
\* members from the record, can find it again.
MembersRecorded ==
    \A v \in members : v \in jmembers \/ v \in VolsOf(volumes)

\* A successful AddVolume(v) or RemoveVolume(v) leaves the journal and the
\* rbd group agreeing on whether v is a member.
MembershipAgrees ==
    [][\A v \in Vols :
         ((AddVolume(v) \/ RemoveVolume(v)) /\ lastCall'.ok)
            => ((v \in jmembers') <=> (v \in members'))]_vars

=============================================================================
