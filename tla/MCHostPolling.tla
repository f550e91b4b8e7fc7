---------------------------- MODULE MCHostPolling ----------------------------
(* HostPolling with the owner and two other members.                       *)
EXTENDS HostPolling

CONSTANTS o, a, b

MCMemberId == {o, a, b}

=============================================================================
