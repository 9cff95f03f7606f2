---------------------------- MODULE CallOwnership ----------------------------
(***************************************************************************)
(* What ADR-0008 point 10 promises of the fleet, without saying how: each  *)
(* call is given to at most one runtime, for good; only that runtime may   *)
(* activate the call (answer it, open its media), and it does so once, in  *)
(* answer to one delivery of the offer.  Acquisition and activation are    *)
(* two steps because the runtime that acquires a call may have been chosen *)
(* by another process.                                                     *)
(***************************************************************************)
CONSTANTS Calls, Runtimes, NoOwner, Deliveries

VARIABLES
  holder,      \* [Calls -> Runtimes \cup {NoOwner}]
  activations  \* [Calls -> SUBSET (Runtimes \X Deliveries)]

vars == <<holder, activations>>

Init ==
  /\ holder = [c \in Calls |-> NoOwner]
  /\ activations = [c \in Calls |-> {}]

Acquire(c, r) ==
  /\ holder[c] = NoOwner
  /\ holder' = [holder EXCEPT ![c] = r]
  /\ UNCHANGED activations

Activate(c, n) ==
  /\ holder[c] \in Runtimes
  /\ activations[c] = {}
  /\ activations' = [activations EXCEPT ![c] = {<<holder[c], n>>}]
  /\ UNCHANGED holder

Next ==
  \E c \in Calls :
    \/ \E r \in Runtimes : Acquire(c, r)
    \/ \E n \in Deliveries : Activate(c, n)

Spec == Init /\ [][Next]_vars
=============================================================================
