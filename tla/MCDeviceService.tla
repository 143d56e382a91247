--------------------------- MODULE MCDeviceService ---------------------------
(***************************************************************************)
(* Small instances of DeviceService for TLC.                               *)
(***************************************************************************)
EXTENDS DeviceService, TLC

CONSTANTS d1, d2, u1

MCParent == [u \in Users |-> d1]

\* Certificates, handlers and commands are interchangeable; so are devices
\* without users.
Interchangeable ==
    Permutations(Certs) \cup Permutations(Requests) \cup Permutations(UUIDs)
      \cup IF Users = {} THEN Permutations(Devices) ELSE {}
=============================================================================
