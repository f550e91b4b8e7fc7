------------------------ MODULE MCHostRuntimeSession ------------------------
(* HostRuntimeSession on a room of three ids, one of them the owner. The   *)
(* other two are interchangeable.                                          *)
EXTENDS HostRuntimeSession, TLC

CONSTANTS o, a, b

MCMemberId == {o, a, b}

Symmetry == Permutations({a, b})

=============================================================================
