----------------------------- MODULE LocalControls -----------------------------
(***************************************************************************)
(* A member's own microphone and keys: useLocalAudio.ts, useHotkeys.ts and *)
(* what App.tsx makes of the two.                                          *)
(*                                                                         *)
(* Both hooks start something asynchronous when the window enters the      *)
(* channel and undo it when it leaves, which it may do, and enter again,   *)
(* before the answer is there: the permission of the microphone, the bind  *)
(* command on the main thread, the subscription to the key events.         *)
(*                                                                         *)
(* Commands reach the main thread in the order the window calls them.      *)
(* State updates are rendered before the next callback of the window runs; *)
(* one event given to two listeners is one callback.                       *)
(***************************************************************************)
EXTENDS Hotkeys, Naturals, Sequences

CONSTANTS
  Settings,      \* the configurations the settings panel can leave behind
  NoTrack,
  MaxEffects,    \* bound on the runs of the useHotkeys effect
  MaxInbox       \* bound on the key events waiting for the window

ASSUME ControlsAssumption ==
  /\ Settings \subseteq HotkeyConfig
  /\ NoTrack \notin [entry : Nat, enabled : BOOLEAN]   \* null, which is no track
  /\ MaxEffects \in Nat /\ MaxInbox \in Nat

VARIABLES
  appState,    \* "join" or "channel"
  hotkeys,     \* the shortcuts in the settings
  effects,     \* the runs of the useHotkeys effect, the last one the current
  calls,       \* commands on their way to the main thread
  listeners,   \* the runs whose handler is subscribed
  inbox,       \* key events emitted and not yet handled
  entry,       \* how often the window has entered the channel
  acquiring,   \* calls of getUserMedia under way
  track,       \* trackRef
  live,        \* the entries whose microphone is open
  stream,      \* the stream of useLocalAudio: its entry, 0 for null
  isMuted,
  missed,      \* history: the last mute found the microphone being acquired
  heldStream   \* the stream in onMessage's closure, which ensurePeerSession gives to
               \* the peer sessions it creates; 0 without a control session

micVars == <<entry, acquiring, track, live, stream, isMuted, missed>>
keyVars == <<hotkeyVars, hotkeys, effects, calls, listeners, inbox>>
controlVars == <<registered, config, appState, hotkeys, effects, calls, listeners,
                 inbox, entry, acquiring, track, live, stream, isMuted, missed,
                 heldStream>>

Current == Len(effects)

-----------------------------------------------------------------------------
(* useLocalAudio.                                                          *)

\* A slip MuteIsHonoured would show: only the state is set.
SetMuted_StateOnly(muted) ==
  /\ isMuted' = muted
  /\ missed' = (track = NoTrack /\ acquiring # {})
  /\ UNCHANGED <<entry, acquiring, track, live, stream>>

\* setMuted.
SetMuted(muted) ==
  /\ isMuted' = muted
  /\ track' = IF track = NoTrack THEN track ELSE [track EXCEPT !.enabled = ~muted]
  /\ missed' = (track = NoTrack /\ \E a \in acquiring : appState = "channel" /\ a.entry = entry)
  /\ UNCHANGED <<entry, acquiring, live, stream>>

\* A slip MicrophoneIsReleased would show: nobody asks whether it was cancelled.
Acquired_NotAskingWhether(a) ==
  /\ a \in acquiring
  /\ acquiring' = acquiring \ {a}
  /\ track' = [entry |-> a.entry, enabled |-> ~a.muted]
  /\ live' = live \cup {a.entry}
  /\ stream' = a.entry
  /\ UNCHANGED <<entry, isMuted, missed>>

\* getUserMedia answers.  A run of the effect that was cleaned up stops the tracks;
\* the others are enabled by the mute of the render the effect ran in.
Acquired(a) ==
  /\ a \in acquiring
  /\ acquiring' = acquiring \ {a}
  /\ \/ /\ appState = "channel" /\ a.entry = entry
        /\ track' = [entry |-> a.entry, enabled |-> ~a.muted]
        /\ live' = live \cup {a.entry}
        /\ stream' = a.entry
     \/ /\ ~(appState = "channel" /\ a.entry = entry)
        /\ UNCHANGED <<track, live, stream>>
  /\ UNCHANGED <<entry, isMuted, missed>>

\* There is no microphone, or it is not allowed.
NotAcquired(a) ==
  /\ a \in acquiring
  /\ acquiring' = acquiring \ {a}
  /\ UNCHANGED <<entry, track, live, stream, isMuted, missed>>

-----------------------------------------------------------------------------
(* useHotkeys.                                                             *)

NewRun == [stage |-> "binding", cancelled |-> FALSE]

\* The cleanup of a run: unlisten, if the subscription has come back, and unbind.
CleanedUp(run) ==
  [run EXCEPT !.cancelled = TRUE,
              !.stage = IF run.stage = "listening" THEN "over" ELSE run.stage]

StillListening ==
  IF effects[Current].stage = "listening" THEN listeners \ {Current} ELSE listeners

Bind(e, c) == [command |-> "bind", effect |-> e, keys |-> c]

Unbind == [command |-> "unbind"]

\* A slip LeavingGivesTheKeysBack would show: the cleanup unlistens only.
RunCleanup_NoUnbind ==
  /\ effects' = [effects EXCEPT ![Current] = CleanedUp(@)]
  /\ listeners' = StillListening
  /\ UNCHANGED calls

RunCleanup ==
  /\ effects' = [effects EXCEPT ![Current] = CleanedUp(@)]
  /\ listeners' = StillListening
  /\ calls' = Append(calls, Unbind)

\* A slip BindingHolds would show: the old keys are unbound after the new are bound.
ChangeHotkeys_UnbindLast(c) ==
  /\ c # hotkeys
  /\ appState = "channel"
  /\ Current < MaxEffects
  /\ hotkeys' = c
  /\ effects' = Append([effects EXCEPT ![Current] = CleanedUp(@)], NewRun)
  /\ listeners' = StillListening
  /\ calls' = calls \o <<Bind(Current + 1, c), Unbind>>
  /\ UNCHANGED <<hotkeyVars, appState, inbox, micVars, heldStream>>

\* The settings panel changes a key: outside the channel that is all, inside the
\* effect is cleaned up and runs again.
ChangeHotkeys(c) ==
  /\ c # hotkeys
  /\ hotkeys' = c
  /\ \/ /\ appState = "join"
        /\ UNCHANGED <<effects, calls, listeners>>
     \/ /\ appState = "channel"
        /\ Current < MaxEffects
        /\ effects' = Append([effects EXCEPT ![Current] = CleanedUp(@)], NewRun)
        /\ listeners' = StillListening
        /\ calls' = calls \o <<Unbind, Bind(Current + 1, c)>>
  /\ UNCHANGED <<hotkeyVars, appState, inbox, micVars, heldStream>>

\* The main thread carries out the next command.
RunCommand ==
  /\ calls # <<>>
  /\ calls' = Tail(calls)
  /\ LET c == Head(calls) IN
     \/ /\ c.command = "bind"
        /\ \E ok \in BOOLEAN :
             /\ RegisterGlobalHotkeys(c.keys, ok)
             /\ effects' = [effects EXCEPT ![c.effect].stage = IF ok THEN "bound" ELSE "over"]
     \/ /\ c.command = "unbind"
        /\ UnregisterGlobalHotkeys
        /\ UNCHANGED effects
  /\ UNCHANGED <<appState, hotkeys, listeners, inbox, micVars, heldStream>>

\* bind is answered and subscribe called, also by a run that is cancelled.
Subscribe(e) ==
  /\ effects[e].stage = "bound"
  /\ effects' = [effects EXCEPT ![e].stage = "subscribed"]
  /\ listeners' = listeners \cup {e}
  /\ UNCHANGED <<hotkeyVars, appState, hotkeys, calls, inbox, micVars, heldStream>>

\* subscribe is answered: only now can the run unlisten.
Subscribed(e) ==
  /\ effects[e].stage = "subscribed"
  /\ effects' = [effects EXCEPT ![e].stage = IF effects[e].cancelled THEN "over" ELSE "listening"]
  /\ listeners' = IF effects[e].cancelled THEN listeners \ {e} ELSE listeners
  /\ UNCHANGED <<hotkeyVars, appState, hotkeys, calls, inbox, micVars, heldStream>>

\* A slip OnlyLateListenersMishear would show: an event goes to those subscribed when it is
\* handled.
FireShortcut_ToLateListeners(k, keyState) ==
  /\ k \in registered
  /\ Len(inbox) < MaxInbox
  /\ BuildHotkeyEvent(k, keyState) # {}
  /\ inbox' = Append(inbox, [event |-> CHOOSE e \in BuildHotkeyEvent(k, keyState) : TRUE,
                             key |-> k, to |-> 1..MaxEffects])
  /\ UNCHANGED <<hotkeyVars, appState, hotkeys, effects, calls, listeners, micVars, heldStream>>

\* The system reports a registered key, whose press it may repeat, and the plugin's
\* handler emits an event to those subscribed at this moment.
FireShortcut(k, keyState) ==
  /\ k \in registered
  /\ Len(inbox) < MaxInbox
  /\ inbox' = IF listeners = {} \/ BuildHotkeyEvent(k, keyState) = {}
                THEN inbox
                ELSE Append(inbox, [event |-> CHOOSE e \in BuildHotkeyEvent(k, keyState) : TRUE,
                                    key |-> k, to |-> listeners])
  /\ UNCHANGED <<hotkeyVars, appState, hotkeys, effects, calls, listeners, micVars, heldStream>>

\* The handlers of App.tsx; nothing is done for the release of mute, or by a
\* listener removed in the meantime.
HandleKey ==
  /\ inbox # <<>>
  /\ inbox' = Tail(inbox)
  /\ LET e == Head(inbox).event IN
     \/ Head(inbox).to \cap listeners = {} /\ UNCHANGED micVars
     \/ /\ Head(inbox).to \cap listeners # {}
        /\ \/ e.kind = "mute" /\ e.state = "pressed" /\ SetMuted(~isMuted)
           \/ e.kind = "ptt" /\ SetMuted(e.state = "released")
           \/ e.kind = "mute" /\ e.state = "released" /\ UNCHANGED micVars
  /\ UNCHANGED <<hotkeyVars, appState, hotkeys, effects, calls, listeners, heldStream>>

-----------------------------------------------------------------------------
(* App.                                                                    *)

\* The channel is entered: the effects of both hooks and of the control session
\* run, the last with the stream of this very render.
EnterChannel ==
  /\ appState = "join"
  /\ Current < MaxEffects
  /\ appState' = "channel"
  /\ entry' = entry + 1
  /\ acquiring' = acquiring \cup {[entry |-> entry + 1, muted |-> isMuted]}
  /\ effects' = Append(effects, NewRun)
  /\ calls' = Append(calls, Bind(Current + 1, hotkeys))
  /\ heldStream' = stream
  /\ UNCHANGED <<hotkeyVars, hotkeys, listeners, inbox, track, live, stream, isMuted, missed>>

\* handleLeave and the cleanups it sets off.
HandleLeave ==
  /\ appState = "channel"
  /\ appState' = "join"
  /\ RunCleanup
  /\ track' = NoTrack
  /\ live' = IF track = NoTrack THEN live ELSE live \ {track.entry}
  /\ stream' = 0
  /\ isMuted' = FALSE
  /\ missed' = FALSE
  /\ heldStream' = 0
  /\ UNCHANGED <<hotkeyVars, hotkeys, inbox, entry, acquiring>>

\* A creation that was still under way moves the window on to another room: the
\* control session is started anew, useLocalAudio is not.
MoveToRoom ==
  /\ appState = "channel"
  /\ heldStream' = stream
  /\ UNCHANGED <<keyVars, appState, micVars>>

\* The microphone button; MemberServerMuted for this member, which an answer on its
\* way may still bring after the window has left; getUserMedia.
ChangeMicrophone ==
  /\ \/ appState = "channel" /\ SetMuted(~isMuted)
     \/ entry > 0 /\ SetMuted(TRUE)
     \/ \E a \in acquiring : Acquired(a)
     \/ \E a \in acquiring : NotAcquired(a)
  /\ UNCHANGED <<keyVars, appState, heldStream>>

ControlsInit ==
  /\ HotkeysInit
  /\ appState = "join"
  /\ hotkeys \in Settings
  /\ effects = <<>> /\ calls = <<>> /\ inbox = <<>>
  /\ listeners = {} /\ acquiring = {} /\ live = {}
  /\ entry = 0 /\ stream = 0 /\ heldStream = 0
  /\ track = NoTrack
  /\ isMuted = FALSE /\ missed = FALSE

ControlsNext ==
  \/ EnterChannel
  \/ HandleLeave
  \/ MoveToRoom
  \/ \E c \in Settings : ChangeHotkeys(c)
  \/ RunCommand
  \/ \E e \in 1..Current : Subscribe(e)
  \/ \E e \in 1..Current : Subscribed(e)
  \/ \E k \in Key, keyState \in {"pressed", "released"} : FireShortcut(k, keyState)
  \/ HandleKey
  \/ ChangeMicrophone

\* The main thread keeps carrying out commands, and the promises of a command and
\* of a subscription are resolved.  Nobody has to answer the question for the
\* microphone, and nobody has to do anything.
ControlsFairness ==
  /\ WF_controlVars(RunCommand)
  /\ \A e \in 1..MaxEffects :
       /\ WF_controlVars(e \in 1..Current /\ Subscribe(e))
       /\ WF_controlVars(e \in 1..Current /\ Subscribed(e))

ControlsSpec == ControlsInit /\ [][ControlsNext]_controlVars /\ ControlsFairness

-----------------------------------------------------------------------------
(* Properties.                                                             *)

\* Every variable has its type; what is registered, and what the handler classifies
\* by, was accepted by the system.
ControlsTypeOK ==
  /\ registered \subseteq Usable
  /\ config \in [ptt : Usable, mute : Usable] \cup {NoConfig}
  /\ appState \in {"join", "channel"}
  /\ hotkeys \in Settings
  /\ effects \in Seq([cancelled : BOOLEAN,
                      stage : {"binding", "bound", "subscribed", "listening", "over"}])
  /\ calls \in Seq({Unbind} \cup [command : {"bind"}, effect : 1..Current, keys : Settings])
  /\ listeners \subseteq 1..Current
  /\ inbox \in Seq([event : [kind : {"ptt", "mute"}, state : {"pressed", "released"}],
                    key : Key, to : SUBSET Nat])
  /\ entry \in Nat /\ stream \in 0..entry /\ heldStream \in 0..entry
  /\ acquiring \subseteq [entry : 1..entry, muted : BOOLEAN]
  /\ track \in [entry : 1..entry, enabled : BOOLEAN] \cup {NoTrack}
  /\ live \subseteq 1..entry
  /\ isMuted \in BOOLEAN /\ missed \in BOOLEAN

\* However often the window leaves and enters while it waits for the microphone,
\* no microphone is open but the one of this stay, and none outside the channel.
MicrophoneIsReleased ==
  /\ live = IF track = NoTrack THEN {} ELSE {track.entry}
  /\ track # NoTrack => appState = "channel" /\ track.entry = entry

\* "A muted mic stops sending", useLocalAudio.ts: the track is enabled exactly when
\* the window says so, whoever muted it last, unless that was while the microphone
\* was being acquired, which then starts by an older answer.
MuteIsHonoured == track # NoTrack /\ ~missed => track.enabled = ~isMuted

\* A run of the effect that listens has its keys registered and is classified by
\* its own configuration: no older bind, unbind or refusal got in between.
BindingHolds ==
  \A e \in listeners :
    ~effects[e].cancelled =>
      /\ e = Current
      /\ config = hotkeys /\ registered = KeysOf(hotkeys)

\* A key event on its way is, for each run that will act on it, what the settings say of
\* the key, also when the keys have just been exchanged; or that run was cleaned up while
\* its subscription had not come back.  Such a run cannot unlisten yet, its handler does
\* not ask whether it was cancelled, and it does act on the event, by what the key meant
\* when it was pressed.
OnlyLateListenersMishear ==
  \A i \in 1..Len(inbox) : \A e \in inbox[i].to \cap listeners :
    \/ inbox[i].event.kind = ClassifyShortcut(hotkeys, inbox[i].key)
    \/ effects[e].cancelled /\ effects[e].stage = "subscribed"

\* A window that has left the channel gives the keys back to the system and stops
\* listening, even if it left before they were bound.
LeavingGivesTheKeysBack ==
  appState = "join" ~>
    (appState = "channel" \/ (registered = {} /\ config = NoConfig /\ listeners = {}))

\* "adds local audio tracks to the peer connection", webrtcSession.test.ts:101: a
\* window that has its microphone comes to give it to the peer sessions it creates.
SessionsCarryTheMicrophone ==
  stream # 0 ~> (appState = "join" \/ heldStream = stream)

=============================================================================
