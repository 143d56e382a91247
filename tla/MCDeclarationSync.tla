-------------------------- MODULE MCDeclarationSync --------------------------
(***************************************************************************)
(* A device and its user channel, started where one set was published,     *)
(* assigned to both and synchronised: every bounded operation then meets   *)
(* a declaration in use.                                                   *)
(***************************************************************************)
EXTENDS DeclarationSync, TLC

CONSTANTS d1, u1, i1, c1, c2, s1

UserOfDevice == [e \in Enrollments |-> d1]

Published == {<<i1, c1>>}
Settled ==
    /\ decl = [i \in Identifiers |-> c1]
    /\ versions = Published
    /\ members = [s \in Sets |-> Identifiers]
    /\ sets = [e \in Enrollments |-> Sets]
    /\ direct = [e \in Enrollments |-> {}]
    /\ snapshot = [e \in Enrollments |-> Published]
    /\ changes = {} /\ seq = 0 /\ ops = 0
    /\ on = [e \in Enrollments |-> TRUE]
    /\ open = [e \in Enrollments |-> {}]
    /\ drain = Idle
    /\ dev = [e \in Enrollments |-> [Offline EXCEPT !.token = Published, !.held = Published]]
    /\ told = [e \in Enrollments |-> Published]
    /\ shared = {}
    /\ granted = [e \in Enrollments |-> Identifiers]

SettledSpec == Settled /\ [][Next]_vars /\ Fairness
=============================================================================
