-------------------------------- MODULE Hotkeys --------------------------------
(***************************************************************************)
(* The global shortcuts of the application: hotkeys.rs, and the handler    *)
(* lib.rs gives to the global-shortcut plugin.                             *)
(*                                                                         *)
(* `registered` is what the plugin holds with the operating system,        *)
(* `config` the HotkeyState the handler classifies a key with.  The two    *)
(* are set at different places of register_global_hotkeys, which returns   *)
(* early between them when a key is refused.                               *)
(***************************************************************************)
CONSTANTS
  Key,
  Unparsable,   \* keys that are not a shortcut: a modifier alone, for one
  Taken,        \* keys another program has registered
  NoConfig

ASSUME HotkeysAssumption ==
  /\ Unparsable \subseteq Key
  /\ Taken \subseteq Key \ Unparsable

VARIABLES registered, config

hotkeyVars == <<registered, config>>

HotkeyConfig == [ptt : Key, mute : Key]

KeysOf(c) == {c.ptt, c.mute}

\* The keys that can be registered.
Usable == Key \ (Unparsable \cup Taken)

ValidateShortcut(k) == k \notin Unparsable

\* A key bound to both is push-to-talk.
ClassifyShortcut(c, k) ==
  CASE c.ptt = k -> "ptt"
    [] c.ptt # k /\ c.mute = k -> "mute"
    [] OTHER -> "none"

\* What the handler emits for a fired shortcut: one event or none.
BuildHotkeyEvent(k, keyState) ==
  IF config = NoConfig \/ ClassifyShortcut(config, k) = "none"
    THEN {}
    ELSE {[kind |-> ClassifyShortcut(config, k), state |-> keyState]}

\* A slip ControlsTypeOK would show: the configuration is set before the keys are
\* registered.
RegisterGlobalHotkeys_SetFirst(c, ok) ==
  /\ ok <=> KeysOf(c) \subseteq Usable
  /\ registered' = KeysOf(c) \cap Usable
  /\ config' = c

\* register_global_hotkeys.  Nothing happens unless both keys are shortcuts.  Then
\* everything is unregistered, push-to-talk registered, mute registered if it is
\* another key, and the configuration set; a refusal ends it where it stands.
RegisterGlobalHotkeys(c, ok) ==
  \/ /\ \E k \in KeysOf(c) : ~ValidateShortcut(k)
     /\ ~ok
     /\ UNCHANGED hotkeyVars
  \/ /\ \A k \in KeysOf(c) : ValidateShortcut(k)
     /\ KeysOf(c) \cap Taken # {}
     /\ ~ok
     /\ registered' = {c.ptt} \ Taken
     /\ UNCHANGED config
  \/ /\ KeysOf(c) \subseteq Usable
     /\ ok
     /\ registered' = KeysOf(c)
     /\ config' = c

\* unregister_global_hotkeys.
UnregisterGlobalHotkeys ==
  /\ registered' = {}
  /\ config' = NoConfig

HotkeysInit ==
  /\ registered = {}
  /\ config = NoConfig

=============================================================================
