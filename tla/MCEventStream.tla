---------------------------- MODULE MCEventStream ----------------------------
(* EventStream with the owner and two other members; the window of one of   *)
(* those is modelled.                                                       *)
EXTENDS EventStream

CONSTANTS o, a, b

MCMemberId == {o, a, b}

OneClient == {a}

=============================================================================
