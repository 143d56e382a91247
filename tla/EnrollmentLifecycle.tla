------------------------- MODULE EnrollmentLifecycle -------------------------
(***************************************************************************)
(* What the server promises about device enrollments, without handlers,    *)
(* user channels, queues or concurrency: a device authenticates, becomes   *)
(* enabled, is removed, and may return only as somebody new.               *)
(***************************************************************************)
CONSTANTS Devices, Certs, None

VARIABLES phase, identity

lifecycle == <<phase, identity>>

LifecycleInit ==
    /\ phase = [d \in Devices |-> "absent"]
    /\ identity = [d \in Devices |-> None]

\* A new identity, which no other device has now.  Repeating the present one
\* is no transition, and a removed device needs a certificate it did not have.
Authenticate(d, c) ==
    /\ c = None => phase[d] # "disabled"
    /\ c # None => \A o \in Devices : identity[o] # c
    /\ phase' = [phase EXCEPT ![d] = "pending"]
    /\ identity' = [identity EXCEPT ![d] = c]

Activate(d) ==
    /\ phase[d] = "pending"
    /\ phase' = [phase EXCEPT ![d] = "enabled"]
    /\ UNCHANGED identity

Remove(d) ==
    /\ phase[d] \in {"pending", "enabled"}
    /\ phase' = [phase EXCEPT ![d] = "disabled"]
    /\ UNCHANGED identity

LifecycleNext ==
    \E d \in Devices : \/ \E c \in Certs \cup {None} : Authenticate(d, c)
                       \/ Activate(d) \/ Remove(d)

LifecycleSpec == LifecycleInit /\ [][LifecycleNext]_lifecycle
=============================================================================
