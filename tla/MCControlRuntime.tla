-------------------------- MODULE MCControlRuntime --------------------------
(* ControlRuntime with the owner, two other members and two connections.   *)
EXTENDS ControlRuntime, TLC

CONSTANTS o, a, b, c1, c2, otherRoom

MCMemberId == {o, a, b}

Join(m)           == [kind |-> "JoinRoom", caller |-> m, decoded |-> RoomInvite]
JoinWith(m, d)    == [kind |-> "JoinRoom", caller |-> m, decoded |-> d]
Signal(from, to)  == [kind |-> "RelaySignal", caller |-> from, target |-> to]
Mute(by, m)       == [kind |-> "ServerMute", caller |-> by, member |-> m, serverMuted |-> TRUE]
Kick(by, m)       == [kind |-> "Kick", caller |-> by, member |-> m]
Ban(by, m)        == [kind |-> "Ban", caller |-> by, member |-> m]
Transfer(by, m)   == [kind |-> "TransferHost", caller |-> by, newHost |-> m]

\* What a and b may ask over the network: joins with the right and with another
\* room's code, a signal, and every kind of management request.
MCClientRequests ==
  {Join(a), JoinWith(a, otherRoom), Join(b), Signal(a, b), Mute(a, o),
   Kick(a, o), Kick(a, b), Ban(a, b), Transfer(a, b), Transfer(b, o)}

\* What the owner's window may do.
MCOwnerCommands ==
  {Signal(o, a), Mute(o, a), Kick(o, a), Ban(o, b), Transfer(o, a), Transfer(o, o)}

Symmetry == Permutations({c1, c2})

=============================================================================
