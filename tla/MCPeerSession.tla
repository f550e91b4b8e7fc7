----------------------------- MODULE MCPeerSession -----------------------------
(***************************************************************************)
(* The instance of PeerSession for TLC: enough offers for both ends to     *)
(* restart after the first connection and after an interruption.           *)
(***************************************************************************)
EXTENDS PeerSession

=============================================================================
