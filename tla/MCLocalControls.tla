--------------------------- MODULE MCLocalControls ---------------------------
(* LocalControls with two keys that work, one that another program holds   *)
(* and one that is no shortcut.  The settings exchange the keys, and fail  *)
(* before the first and at the second.                                     *)
EXTENDS LocalControls

MCKey == {"p", "q", "taken", "shift"}

Bound(p, m) == [ptt |-> p, mute |-> m]

MCSettings == {Bound("p", "q"), Bound("q", "p"), Bound("q", "taken"), Bound("p", "shift")}

=============================================================================
