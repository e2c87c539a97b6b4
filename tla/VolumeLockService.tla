-------------------------- MODULE VolumeLockService --------------------------
(***************************************************************************)
(* What the reclaim-space servers promise about their VolumeLocks          *)
(* (internal/csi-addons/rbd/reclaimspace.go, internal/util VolumeLocks):   *)
(* a request runs its handler on a volume only while no other request to   *)
(* the same server runs on that volume, and every request inside a handler *)
(* eventually leaves it. Nothing is said about the answers.                *)
(***************************************************************************)
EXTENDS TLAPS

CONSTANTS
    Reqs,      \* the requests
    Servers,   \* the servers, each with its own lock table
    Vols,      \* the volume IDs a handler may run on
    Out        \* "not inside a handler"

VARIABLE inside   \* inside[r]: <<server, volume>> of r's handler, or Out

vars == inside

Slots == Servers \X Vols

TypeOK == inside \in [Reqs -> Slots \cup {Out}]

Init == inside = [r \in Reqs |-> Out]

\* r enters the handler of server k on volume v, which nobody else runs.
Enter(r, k, v) ==
    /\ inside[r] = Out
    /\ \A q \in Reqs : inside[q] # <<k, v>>
    /\ inside' = [inside EXCEPT ![r] = <<k, v>>]

\* r leaves the handler it is in.
Leave(r) ==
    /\ inside[r] # Out
    /\ inside' = [inside EXCEPT ![r] = Out]

Next == \E r \in Reqs : (\E k \in Servers, v \in Vols : Enter(r, k, v)) \/ Leave(r)

SafetySpec == Init /\ [][Next]_vars

\* A request inside a handler is not stuck there.
Spec == SafetySpec /\ \A r \in Reqs : WF_vars(Leave(r))

\* At most one request of a server runs on a volume.
Exclusive ==
    \A r1, r2 \in Reqs : (r1 # r2 /\ inside[r1] # Out) => inside[r1] # inside[r2]


\* The lock service is exclusive for any requests, servers and volumes:
\* Enter waits until nobody runs on the slot, and Leave frees only the
\* leaving request's slot.
THEOREM ExclusiveThm == SafetySpec => []Exclusive
<1>1. Init => TypeOK /\ Exclusive
    BY DEF Init, TypeOK, Exclusive
<1>2. TypeOK /\ Exclusive /\ [Next]_vars => (TypeOK /\ Exclusive)'
    <2> SUFFICES ASSUME TypeOK, Exclusive, [Next]_vars PROVE (TypeOK /\ Exclusive)'
        OBVIOUS
    <2>1. ASSUME NEW r \in Reqs, NEW k \in Servers, NEW v \in Vols, Enter(r, k, v)
          PROVE  (TypeOK /\ Exclusive)'
        BY <2>1 DEF Enter, TypeOK, Exclusive, Slots
    <2>2. ASSUME NEW r \in Reqs, Leave(r) PROVE (TypeOK /\ Exclusive)'
        BY <2>2 DEF Leave, TypeOK, Exclusive
    <2>3. CASE UNCHANGED vars
        BY <2>3 DEF vars, TypeOK, Exclusive
    <2> QED
        BY <2>1, <2>2, <2>3 DEF Next
<1> QED
    BY <1>1, <1>2, PTL DEF SafetySpec

=============================================================================
