-------------------------- MODULE MCConnectRuntime --------------------------
(* Small instances of ConnectRuntime for TLC. *)
EXTENDS ConnectRuntime, TLC

\* Every identity belongs to one network: a network key and explicit access
\* points of the same SSID.
MCSsidOf == [i \in Identity |-> "net"]

MCSymmetry == Permutations(Request) \union Permutations(Owner)
=============================================================================
