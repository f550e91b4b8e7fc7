--------------------------- MODULE MCInviteExchange ---------------------------
(* Private and mapped endpoints: the first has zeros and ones to be misread, and a   *)
(* wrong character in place of a hyphen of the second one's code makes another      *)
(* valid code.                                                                      *)
EXTENDS InviteExchange

MCEndpoint ==
  {[endpointScope |-> "private-lan-ipv4", joinMode |-> "direct-host",
    ipv4 |-> <<10, 0, 0, 33>>, port |-> 7788],
   [endpointScope |-> "private-lan-ipv4", joinMode |-> "direct-host",
    ipv4 |-> <<192, 168, 0, 249>>, port |-> 7788],
   [endpointScope |-> "public-mapped-ipv4", joinMode |-> "direct-host",
    ipv4 |-> <<203, 0, 113, 255>>, port |-> 65535]}

\* Twelve slots after 1015 the slots have wrapped around.
MCStartSlot == {0, 1015}

\* A clock that is behind by almost half a cycle, the hour of the code and the half
\* cycle after it, each with its last slot and the next: 524, a day and almost twenty
\* hours after the code was made, is the first in which it is taken again.
MCMoment == {-499, 0, 12, 13, 523, 524}
=============================================================================
