------------------------- MODULE MCEnrollmentStore -------------------------
(***************************************************************************)
(* The store with a device and its user channel.  The challenge calls are  *)
(* left out of this instance: only user authentication reads what they     *)
(* write, and the instances of the device service make them.               *)
(***************************************************************************)
EXTENDS EnrollmentStore

CONSTANTS d1, u1

\* u1 is the user channel of d1.
MCParent == [u \in Users |-> d1]

StoreNext == IdentityStep \/ QueueStep \/ ImportStep
StoreSpec == Init /\ [][StoreNext]_store
=============================================================================
