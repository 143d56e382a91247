------------------------- MODULE IdentityReplacement -------------------------
(***************************************************************************)
(* What a controlled identity replacement promises on top of the life      *)
(* cycle of an enrollment: at most one attempt at a time, begun while the  *)
(* device is enabled; one candidate per attempt; the enabled device passes *)
(* from the identity the attempt was begun for to the candidate in one     *)
(* step, or keeps the identity it has; and the candidate enrolls in no     *)
(* other way unless it took over.                                          *)
(***************************************************************************)
EXTENDS EnrollmentLifecycle

VARIABLES outcome, origin, candidate

attempt == <<outcome, origin, candidate>>

AttemptInit ==
    /\ LifecycleInit
    /\ outcome = [d \in Devices |-> "none"]
    /\ origin = [d \in Devices |-> None]
    /\ candidate = [d \in Devices |-> None]

Begin(d) ==
    /\ phase[d] = "enabled" /\ outcome[d] # "pending"
    /\ outcome' = [outcome EXCEPT ![d] = "pending"]
    /\ origin' = [origin EXCEPT ![d] = identity[d]]
    /\ candidate' = [candidate EXCEPT ![d] = None]
    /\ UNCHANGED lifecycle

Bind(d, c) ==
    /\ outcome[d] = "pending" /\ candidate[d] = None
    /\ \A o \in Devices : identity[o] # c
    /\ candidate' = [candidate EXCEPT ![d] = c]
    /\ UNCHANGED <<lifecycle, outcome, origin>>

GiveUp(d, how) ==
    /\ outcome[d] = "pending"
    /\ outcome' = [outcome EXCEPT ![d] = how]
    /\ UNCHANGED <<lifecycle, origin, candidate>>

TakeOver(d) ==
    /\ phase[d] = "enabled" /\ outcome[d] = "pending"
    /\ identity[d] = origin[d] /\ candidate[d] # None
    /\ identity' = [identity EXCEPT ![d] = candidate[d]]
    /\ outcome' = [outcome EXCEPT ![d] = "committed"]
    /\ UNCHANGED <<phase, origin, candidate>>

Ordinary(d) ==
    /\ \/ \E c \in Certs \cup {None} :
            Authenticate(d, c) /\ (c # None /\ c = candidate[d] => outcome[d] = "committed")
       \/ Activate(d) \/ Remove(d)
    /\ UNCHANGED attempt

AttemptNext ==
    \E d \in Devices :
       \/ Begin(d) \/ TakeOver(d) \/ Ordinary(d)
       \/ \E c \in Certs : Bind(d, c)
       \/ \E how \in {"failed", "cancelled", "expired"} : GiveUp(d, how)

AttemptSpec == AttemptInit /\ [][AttemptNext]_<<lifecycle, attempt>>
=============================================================================
