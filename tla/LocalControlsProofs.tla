-------------------------- MODULE LocalControlsProofs --------------------------
(***************************************************************************)
(* Proofs about LocalControls, for any keys, any settings and any number   *)
(* of entries into the channel.                                            *)
(*                                                                         *)
(* The two hooks share nothing but appState, and so do the two halves of   *)
(* the inductive invariant: MicrophoneInv is about useLocalAudio, KeysInv  *)
(* about useHotkeys.                                                       *)
(***************************************************************************)
EXTENDS LocalControls, TLAPS

-----------------------------------------------------------------------------
(* useLocalAudio.                                                          *)

MicrophoneTypes ==
  /\ appState \in {"join", "channel"}
  /\ entry \in Nat /\ stream \in 0..entry /\ heldStream \in 0..entry
  /\ acquiring \subseteq [entry : 1..entry, muted : BOOLEAN]
  /\ track \in [entry : 1..entry, enabled : BOOLEAN] \cup {NoTrack}
  /\ live \subseteq 1..entry
  /\ isMuted \in BOOLEAN /\ missed \in BOOLEAN

\* The call of getUserMedia whose answer the window is waiting for.
Awaited(a) == a \in acquiring /\ appState = "channel" /\ a.entry = entry

\* Each entry asks for the microphone once, so that an entry with a track awaits no
\* answer.
OneAnswer ==
  /\ \A a, b \in acquiring : a.entry = b.entry => a = b
  /\ track # NoTrack => \A a \in acquiring : ~Awaited(a)

\* A mute that found no microphone being acquired is the one the answer will set.
AnswerKnowsTheMute == \A a \in acquiring : Awaited(a) /\ ~missed => a.muted = isMuted

MicrophoneInv ==
  /\ MicrophoneTypes
  /\ MicrophoneIsReleased
  /\ MuteIsHonoured
  /\ OneAnswer
  /\ AnswerKnowsTheMute

\* A mute reaches the track, or is remembered to have missed it.
LEMMA SetMutedStep ==
  ASSUME MicrophoneInv, NEW muted \in BOOLEAN, SetMuted(muted),
         UNCHANGED <<appState, heldStream>>
  PROVE  MicrophoneInv'
<1> USE DEF MicrophoneInv, SetMuted
<1>1. MicrophoneTypes'
  <2>1. track' \in [entry : 1..entry, enabled : BOOLEAN] \cup {NoTrack}
    BY DEF MicrophoneTypes
  <2>2. missed' \in BOOLEAN
    OBVIOUS
  <2>3. QED
    BY <2>1, <2>2 DEF MicrophoneTypes
<1>2. /\ track' = NoTrack <=> track = NoTrack
      /\ track # NoTrack => track'.entry = track.entry /\ track'.enabled = ~muted
  <2>1. CASE track # NoTrack
    <3>1. entry \in Nat /\ track \in [entry : 1..entry, enabled : BOOLEAN]
      BY <2>1 DEF MicrophoneTypes
    <3>2. track' = [track EXCEPT !.enabled = ~muted]
      BY <2>1
    <3>3. track' \in [entry : Nat, enabled : BOOLEAN]
      <4>1. (~muted) \in BOOLEAN
        OBVIOUS
      <4>2. \A c \in BOOLEAN : [track EXCEPT !.enabled = c] \in [entry : Nat, enabled : BOOLEAN]
        BY <3>1
      <4>3. QED
        BY <3>2, <4>1, <4>2, Zenon
    <3>4. track' # NoTrack
      BY <3>3, ControlsAssumption
    <3>5. QED
      BY <2>1, <3>1, <3>2, <3>4
  <2>2. QED
    BY <2>1
<1>3. MicrophoneIsReleased'
  BY <1>2 DEF MicrophoneIsReleased
<1>4. MuteIsHonoured'
  BY <1>2 DEF MuteIsHonoured
<1>5. OneAnswer'
  BY <1>2 DEF OneAnswer, Awaited
<1>6. AnswerKnowsTheMute'
  BY DEF AnswerKnowsTheMute, OneAnswer, Awaited
<1>7. QED
  BY <1>1, <1>3, <1>4, <1>5, <1>6

\* The answer of getUserMedia goes to the entry that asked, or nowhere.
LEMMA AcquiredStep ==
  ASSUME MicrophoneInv, NEW a, Acquired(a), UNCHANGED <<appState, heldStream>>
  PROVE  MicrophoneInv'
<1> USE DEF MicrophoneInv
<1>0. /\ a \in acquiring /\ acquiring' = acquiring \ {a}
      /\ UNCHANGED <<entry, isMuted, missed, appState, heldStream>>
  BY DEF Acquired
<1>1. CASE Awaited(a)
  <2> DEFINE T == [entry |-> a.entry, enabled |-> ~a.muted]
  <2>1. track' = T /\ live' = live \cup {a.entry} /\ stream' = a.entry
    BY <1>1 DEF Acquired, Awaited
  <2>2. /\ a.entry \in 1..entry /\ a.entry = entry /\ a.muted \in BOOLEAN
        /\ appState = "channel" /\ track = NoTrack /\ live = {}
    BY <1>0, <1>1 DEF MicrophoneTypes, Awaited, OneAnswer, MicrophoneIsReleased
  <2>3. /\ T \in [entry : 1..entry, enabled : BOOLEAN]
        /\ T.entry = entry /\ T.enabled = ~a.muted
    BY <2>2
  <2>4. T # NoTrack
    BY <2>3, ControlsAssumption DEF MicrophoneTypes
  <2> HIDE DEF T
  <2>5. MicrophoneTypes'
    BY <1>0, <2>1, <2>2, <2>3 DEF MicrophoneTypes
  <2>6. MicrophoneIsReleased'
    BY <1>0, <2>1, <2>2, <2>3, <2>4 DEF MicrophoneIsReleased
  <2>7. MuteIsHonoured'
    BY <1>0, <1>1, <2>1, <2>3, <2>4 DEF MuteIsHonoured, AnswerKnowsTheMute
  <2>8. OneAnswer'
    BY <1>0, <2>2 DEF OneAnswer, Awaited
  <2>9. AnswerKnowsTheMute'
    BY <1>0 DEF AnswerKnowsTheMute, Awaited
  <2>10. QED
    BY <2>5, <2>6, <2>7, <2>8, <2>9
<1>2. CASE ~Awaited(a)
  <2>1. UNCHANGED <<track, live, stream>>
    BY <1>0, <1>2 DEF Acquired, Awaited
  <2>2. QED
    BY <1>0, <2>1 DEF MicrophoneTypes, MicrophoneIsReleased, MuteIsHonoured, OneAnswer,
                      AnswerKnowsTheMute, Awaited
<1>3. QED
  BY <1>1, <1>2

\* Entering asks with the mute of this render; every earlier question is of an
\* earlier entry.
LEMMA EnterMicrophone ==
  ASSUME MicrophoneInv, EnterChannel
  PROVE  MicrophoneInv'
<1> DEFINE new == [entry |-> entry + 1, muted |-> isMuted]
<1>1. /\ appState = "join" /\ appState' = "channel"
      /\ entry' = entry + 1 /\ acquiring' = acquiring \cup {new}
      /\ heldStream' = stream
      /\ UNCHANGED <<track, live, stream, isMuted, missed>>
  BY DEF EnterChannel
<1>2. track = NoTrack /\ live = {}
  BY <1>1 DEF MicrophoneInv, MicrophoneIsReleased
<1>3. /\ entry \in Nat /\ stream \in 0..entry /\ isMuted \in BOOLEAN /\ missed \in BOOLEAN
      /\ \A a \in acquiring : a \in [entry : 1..entry, muted : BOOLEAN]
  BY DEF MicrophoneInv, MicrophoneTypes
<1>4. /\ \A a \in acquiring : a.entry < entry + 1
      /\ [entry : 1..entry, muted : BOOLEAN] \subseteq [entry : 1..(entry + 1), muted : BOOLEAN]
  BY <1>3
<1>5. new.entry = entry + 1 /\ new.muted = isMuted /\ new \in [entry : 1..(entry + 1), muted : BOOLEAN]
  BY <1>3
<1> HIDE DEF new
<1>6. MicrophoneTypes'
  BY <1>1, <1>2, <1>3, <1>4, <1>5 DEF MicrophoneTypes
<1>7. OneAnswer'
  BY <1>1, <1>2, <1>3, <1>4, <1>5 DEF OneAnswer, MicrophoneInv
<1>8. AnswerKnowsTheMute'
  BY <1>1, <1>3, <1>4, <1>5 DEF AnswerKnowsTheMute, Awaited
<1>9. MicrophoneIsReleased' /\ MuteIsHonoured'
  BY <1>1, <1>2 DEF MicrophoneIsReleased, MuteIsHonoured
<1>10. QED
  BY <1>6, <1>7, <1>8, <1>9 DEF MicrophoneInv

\* Leaving stops the track there is and forgets the rest.
LEMMA LeaveMicrophone ==
  ASSUME MicrophoneInv, HandleLeave
  PROVE  MicrophoneInv'
<1>1. /\ appState' = "join" /\ track' = NoTrack
      /\ live' = IF track = NoTrack THEN live ELSE live \ {track.entry}
      /\ stream' = 0 /\ isMuted' = FALSE /\ missed' = FALSE /\ heldStream' = 0
      /\ UNCHANGED <<entry, acquiring>>
  BY DEF HandleLeave
<1>2. live' = {}
  BY <1>1 DEF MicrophoneInv, MicrophoneIsReleased
<1>7. isMuted' \in BOOLEAN /\ missed' \in BOOLEAN
  BY <1>1, Zenon
<1>8. entry \in Nat /\ acquiring \subseteq [entry : 1..entry, muted : BOOLEAN]
  BY DEF MicrophoneInv, MicrophoneTypes
<1>3. MicrophoneTypes'
  BY <1>1, <1>2, <1>7, <1>8 DEF MicrophoneTypes
<1>4. MicrophoneIsReleased' /\ MuteIsHonoured'
  BY <1>1, <1>2 DEF MicrophoneIsReleased, MuteIsHonoured
<1>5. OneAnswer' /\ AnswerKnowsTheMute'
  BY <1>1 DEF MicrophoneInv, OneAnswer, AnswerKnowsTheMute, Awaited
<1>6. QED
  BY <1>3, <1>4, <1>5 DEF MicrophoneInv

\* No answer, and the steps that leave useLocalAudio alone.
LEMMA FewerAnswers ==
  ASSUME MicrophoneInv, acquiring' \subseteq acquiring, heldStream' \in {stream, heldStream},
         UNCHANGED <<appState, entry, track, live, stream, isMuted, missed>>
  PROVE  MicrophoneInv'
BY DEF MicrophoneInv, MicrophoneTypes, MicrophoneIsReleased, MuteIsHonoured, OneAnswer,
       AnswerKnowsTheMute, Awaited

LEMMA MicrophoneStep ==
  ASSUME MicrophoneInv, [ControlsNext]_controlVars
  PROVE  MicrophoneInv'
<1>1. CASE EnterChannel
  BY <1>1, EnterMicrophone
<1>2. CASE HandleLeave
  BY <1>2, LeaveMicrophone
<1>3. CASE MoveToRoom
  BY <1>3, FewerAnswers DEF MoveToRoom, micVars
<1>4. ASSUME NEW c \in Settings, ChangeHotkeys(c)
      PROVE  MicrophoneInv'
  BY <1>4, FewerAnswers DEF ChangeHotkeys, micVars
<1>5. CASE RunCommand
  BY <1>5, FewerAnswers DEF RunCommand, micVars
<1>6. ASSUME NEW e \in 1..Current, Subscribe(e) \/ Subscribed(e)
      PROVE  MicrophoneInv'
  BY <1>6, FewerAnswers DEF Subscribe, Subscribed, micVars
<1>7. ASSUME NEW k \in Key, NEW keyState, FireShortcut(k, keyState)
      PROVE  MicrophoneInv'
  BY <1>7, FewerAnswers DEF FireShortcut, micVars
<1>8. CASE HandleKey
  <2>1. UNCHANGED micVars \/ \E muted \in BOOLEAN : SetMuted(muted)
    <3> DEFINE e == Head(inbox).event
    <3>1. (~isMuted) \in BOOLEAN
      OBVIOUS
    <3>4. (e.state = "released") \in BOOLEAN
      BY Zenon
    <3>2. \/ UNCHANGED micVars
          \/ SetMuted(~isMuted)
          \/ SetMuted(e.state = "released")
      BY <1>8 DEF HandleKey
    <3> HIDE DEF e
    <3>3. QED
      BY <3>1, <3>4, <3>2
  <2>2. UNCHANGED <<appState, heldStream>>
    BY <1>8 DEF HandleKey
  <2>3. QED
    BY <2>1, <2>2, SetMutedStep, FewerAnswers DEF micVars
<1>9. CASE ChangeMicrophone
  <2>0. UNCHANGED <<appState, heldStream>>
    BY <1>9 DEF ChangeMicrophone
  <2>1. CASE SetMuted(~isMuted) \/ SetMuted(TRUE)
    BY <2>0, <2>1, SetMutedStep
  <2>2. ASSUME NEW a \in acquiring, Acquired(a)
        PROVE  MicrophoneInv'
    BY <2>0, <2>2, AcquiredStep
  <2>3. ASSUME NEW a \in acquiring, NotAcquired(a)
        PROVE  MicrophoneInv'
    BY <2>0, <2>3, FewerAnswers DEF NotAcquired
  <2>4. QED
    BY <1>9, <2>1, <2>2, <2>3 DEF ChangeMicrophone
<1>10. CASE UNCHANGED controlVars
  BY <1>10, FewerAnswers DEF controlVars
<1>11. QED
  BY <1>1, <1>2, <1>3, <1>4, <1>5, <1>6, <1>7, <1>8, <1>9, <1>10 DEF ControlsNext

LEMMA MicrophoneInit == ControlsInit => MicrophoneInv
<1>1. ControlsInit => MicrophoneTypes
  <2>1. ControlsInit => isMuted \in BOOLEAN /\ missed \in BOOLEAN
    BY Zenon DEF ControlsInit
  <2>2. ControlsInit => acquiring \subseteq [entry : 1..entry, muted : BOOLEAN] /\ live \subseteq 1..entry
    BY DEF ControlsInit
  <2>3. QED
    BY <2>1, <2>2 DEF ControlsInit, MicrophoneTypes
<1>2. ControlsInit => MicrophoneIsReleased /\ MuteIsHonoured
  BY DEF ControlsInit, MicrophoneIsReleased, MuteIsHonoured
<1>3. ControlsInit => OneAnswer /\ AnswerKnowsTheMute
  BY DEF ControlsInit, OneAnswer, AnswerKnowsTheMute, Awaited
<1>4. QED
  BY <1>1, <1>2, <1>3 DEF MicrophoneInv

LEMMA MicrophoneInvariant == ControlsSpec => []MicrophoneInv
<1>1. MicrophoneInv /\ [ControlsNext]_controlVars => MicrophoneInv'
  BY MicrophoneStep
<1>2. QED
  BY <1>1, MicrophoneInit, PTL DEF ControlsSpec

-----------------------------------------------------------------------------
(* useHotkeys.                                                             *)

EffectRun == [cancelled : BOOLEAN,
              stage : {"binding", "bound", "subscribed", "listening", "over"}]

Command(n) == {Unbind} \cup [command : {"bind"}, effect : 1..n, keys : Settings]

KeyEvent == [event : [kind : {"ptt", "mute"}, state : {"pressed", "released"}],
             key : Key, to : SUBSET Nat]

KeysTypes ==
  /\ registered \subseteq Usable
  /\ config \in [ptt : Usable, mute : Usable] \cup {NoConfig}
  /\ appState \in {"join", "channel"}
  /\ hotkeys \in Settings
  /\ effects \in Seq(EffectRun)
  /\ calls \in Seq(Command(Current))
  /\ listeners \subseteq 1..Current
  /\ inbox \in Seq(KeyEvent)

\* The run of the effect that is not cleaned up is the last one, in the channel.
LastRunIsCurrent ==
  /\ appState = "channel" => Current > 0
  /\ \A e \in 1..Current : ~effects[e].cancelled <=> e = Current /\ appState = "channel"

ListenersAreSubscribed == \A e \in listeners : effects[e].stage \in {"subscribed", "listening"}

\* A bind on its way is the only one of its run, which waits for it.
BindsWaitOnce ==
  \A i \in 1..Len(calls) : calls[i].command = "bind" =>
    /\ effects[calls[i].effect].stage = "binding"
    /\ \A j \in 1..Len(calls) :
         calls[j].command = "bind" /\ calls[j].effect = calls[i].effect => i = j

\* The main thread has this run's keys in the end: its bind is the last command and
\* waits behind everything older, or it has been carried out and nothing waits.
BindIsTheLastCommand ==
  appState = "channel" =>
    \/ /\ effects[Current].stage = "binding"
       /\ calls # <<>> /\ calls[Len(calls)] = Bind(Current, hotkeys)
    \/ /\ effects[Current].stage # "binding"
       /\ calls = <<>>
       /\ effects[Current].stage # "over" => config = hotkeys /\ registered = KeysOf(hotkeys)

\* OnlyLateListenersMishear, for every run an event was given to: it may have subscribed
\* before this one, never after.
EventsAreRight ==
  \A i \in 1..Len(inbox) : \A e \in inbox[i].to :
    /\ e \in 1..Current
    /\ ~effects[e].cancelled => inbox[i].event.kind = ClassifyShortcut(hotkeys, inbox[i].key)

KeysInv ==
  /\ KeysTypes
  /\ LastRunIsCurrent
  /\ ListenersAreSubscribed
  /\ BindsWaitOnce
  /\ BindIsTheLastCommand
  /\ EventsAreRight

\* Writing one element of a sequence, and one more.
LEMMA SeqUpdate ==
  ASSUME NEW S, NEW s \in Seq(S), NEW i \in 1..Len(s), NEW x \in S
  PROVE  /\ [s EXCEPT ![i] = x] \in Seq(S)
         /\ Len([s EXCEPT ![i] = x]) = Len(s)
         /\ \A j \in 1..Len(s) : [s EXCEPT ![i] = x][j] = IF j = i THEN x ELSE s[j]
OBVIOUS

LEMMA SeqAppend ==
  ASSUME NEW S, NEW s \in Seq(S), NEW x \in S
  PROVE  /\ Append(s, x) \in Seq(S)
         /\ Len(Append(s, x)) = Len(s) + 1
         /\ Len(s) \in Nat
         /\ \A j \in 1..Len(s) : Append(s, x)[j] = s[j]
         /\ Append(s, x)[Len(s) + 1] = x
OBVIOUS

LEMMA SeqTail ==
  ASSUME NEW S, NEW s \in Seq(S), s # <<>>
  PROVE  /\ Head(s) = s[1] /\ s[1] \in S
         /\ Len(s) \in Nat \ {0}
         /\ Tail(s) \in Seq(S)
         /\ Len(Tail(s)) = Len(s) - 1
         /\ \A j \in 1..(Len(s) - 1) : Tail(s)[j] = s[j + 1] /\ j + 1 \in 1..Len(s)
OBVIOUS

LEMMA MoreCommands ==
  ASSUME NEW n \in Nat
  PROVE  Seq(Command(n)) \subseteq Seq(Command(n + 1))
<1>1. Command(n) \subseteq Command(n + 1)
  BY DEF Command
<1>2. QED
  BY <1>1

\* Key events handled or not, as long as the rest stays.
LEMMA KeysStay ==
  ASSUME KeysInv,
         UNCHANGED <<registered, config, appState, hotkeys, effects, calls, listeners>>,
         inbox' = inbox \/ (inbox # <<>> /\ inbox' = Tail(inbox))
  PROVE  KeysInv'
<1>1. UNCHANGED <<registered, config, appState, hotkeys, effects, calls, listeners, Current>>
  BY DEF Current
<1>2. inbox \in Seq(KeyEvent)
  BY DEF KeysInv, KeysTypes
<1>3. inbox' \in Seq(KeyEvent)
  BY <1>2, SeqTail
<1>4. \A i \in 1..Len(inbox') : \E j \in 1..Len(inbox) : inbox'[i] = inbox[j]
  <2>1. CASE inbox' = inbox
    BY <2>1
  <2>2. CASE inbox # <<>> /\ inbox' = Tail(inbox)
    BY <1>2, <2>2, SeqTail
  <2>3. QED
    BY <2>1, <2>2
<1>5. EventsAreRight'
  BY <1>1, <1>4 DEF KeysInv, EventsAreRight
<1>6. KeysTypes'
  BY <1>1, <1>3 DEF KeysInv, KeysTypes
<1>7. LastRunIsCurrent' /\ ListenersAreSubscribed' /\ BindsWaitOnce' /\ BindIsTheLastCommand'
  BY <1>1 DEF KeysInv, LastRunIsCurrent, ListenersAreSubscribed, BindsWaitOnce, BindIsTheLastCommand
<1>8. QED
  BY <1>5, <1>6, <1>7 DEF KeysInv

\* The effect runs: all older runs are cleaned up, no older command is its own.
LEMMA EnterKeys ==
  ASSUME KeysInv, EnterChannel
  PROVE  KeysInv'
<1>0. /\ appState = "join" /\ appState' = "channel"
      /\ effects' = Append(effects, NewRun)
      /\ calls' = Append(calls, Bind(Current + 1, hotkeys))
      /\ UNCHANGED <<registered, config, hotkeys, listeners, inbox>>
  BY DEF EnterChannel, hotkeyVars
<1>1. /\ effects \in Seq(EffectRun) /\ calls \in Seq(Command(Current))
      /\ hotkeys \in Settings /\ listeners \subseteq 1..Current
  BY DEF KeysInv, KeysTypes
<1>2. NewRun \in EffectRun /\ NewRun.stage = "binding" /\ ~NewRun.cancelled
  BY DEF NewRun, EffectRun
<1>3. /\ effects' \in Seq(EffectRun) /\ Current' = Current + 1 /\ Current \in Nat
      /\ \A e \in 1..Current : effects'[e] = effects[e]
      /\ effects'[Current + 1] = NewRun
  BY <1>0, <1>1, <1>2, SeqAppend DEF Current
<1>4. /\ Bind(Current + 1, hotkeys) \in Command(Current + 1)
      /\ calls \in Seq(Command(Current + 1))
  BY <1>1, <1>3, MoreCommands DEF Bind, Command
<1>5. /\ calls' \in Seq(Command(Current + 1)) /\ Len(calls') = Len(calls) + 1 /\ Len(calls) \in Nat
      /\ \A i \in 1..Len(calls) : calls'[i] = calls[i]
      /\ calls'[Len(calls) + 1] = Bind(Current + 1, hotkeys)
  BY <1>0, <1>4, SeqAppend
<1>6. \A i \in 1..Len(calls) : calls[i].command = "bind" => calls[i].effect \in 1..Current
  <2>1. \A i \in 1..Len(calls) : calls[i] \in Command(Current)
    BY <1>1
  <2>2. QED
    BY <2>1 DEF Command, Unbind
<1>7. KeysTypes'
  BY <1>0, <1>1, <1>3, <1>5 DEF KeysInv, KeysTypes
<1>8. LastRunIsCurrent'
  BY <1>0, <1>2, <1>3 DEF KeysInv, LastRunIsCurrent
<1>9. ListenersAreSubscribed'
  BY <1>0, <1>1, <1>3 DEF KeysInv, ListenersAreSubscribed
<1>10. BindIsTheLastCommand'
  <2>1. calls' # <<>> /\ calls'[Len(calls')] = Bind(Current', hotkeys')
    BY <1>0, <1>3, <1>5
  <2>2. effects'[Current'].stage = "binding"
    BY <1>2, <1>3
  <2>3. QED
    BY <2>1, <2>2 DEF BindIsTheLastCommand
<1>11. EventsAreRight'
  <2>1. ASSUME NEW i \in 1..Len(inbox), NEW e \in inbox[i].to
        PROVE  e \in 1..Current /\ effects'[e].cancelled
    <3>1. e \in 1..Current
      BY DEF KeysInv, EventsAreRight
    <3>2. effects[e].cancelled
      BY <1>0, <3>1 DEF KeysInv, LastRunIsCurrent
    <3>3. QED
      BY <1>3, <3>1, <3>2
  <2>2. ASSUME NEW i \in 1..Len(inbox'), NEW e \in inbox'[i].to
        PROVE  e \in 1..Current' /\ effects'[e].cancelled
    <3>1. i \in 1..Len(inbox) /\ e \in inbox[i].to
      BY <1>0
    <3>2. e \in 1..Current /\ effects'[e].cancelled
      BY <2>1, <3>1
    <3>3. QED
      BY <1>3, <3>2
  <2>3. QED
    BY <2>2 DEF EventsAreRight
<1>12. BindsWaitOnce'
  <2>1. Bind(Current + 1, hotkeys).effect = Current + 1
    BY DEF Bind
  <2>2. ASSUME NEW i \in 1..Len(calls'), calls'[i].command = "bind"
        PROVE  /\ effects'[calls'[i].effect].stage = "binding"
               /\ i # Len(calls) + 1 => i \in 1..Len(calls) /\ calls'[i].effect # Current + 1
    BY <1>2, <1>3, <1>5, <1>6, <2>1, <2>2 DEF KeysInv, BindsWaitOnce
  <2>3. ASSUME NEW i \in 1..Len(calls'), NEW j \in 1..Len(calls'),
               calls'[i].command = "bind", calls'[j].command = "bind",
               calls'[i].effect = calls'[j].effect
        PROVE  i = j
    BY <1>5, <2>1, <2>2, <2>3 DEF KeysInv, BindsWaitOnce
  <2>4. QED
    BY <2>2, <2>3 DEF BindsWaitOnce
<1>13. QED
  BY <1>7, <1>8, <1>9, <1>10, <1>11, <1>12 DEF KeysInv

\* The cleanup of the current run leaves no run that acts on anything.
LEMMA CleanedUpRuns ==
  ASSUME KeysInv, appState = "channel",
         NEW runs, runs = [effects EXCEPT ![Current] = CleanedUp(@)]
  PROVE  /\ Current \in Nat \ {0}
         /\ runs \in Seq(EffectRun) /\ Len(runs) = Current
         /\ \A e \in 1..Current : runs[e].cancelled
         /\ \A e \in 1..Current : effects[e].stage = "binding" => runs[e].stage = "binding"
         /\ StillListening \subseteq listeners
         /\ \A e \in StillListening : runs[e].stage \in {"subscribed", "listening"}
<1>1. effects \in Seq(EffectRun) /\ listeners \subseteq 1..Current
  BY DEF KeysInv, KeysTypes
<1>2. Current \in Nat \ {0}
  BY <1>1 DEF KeysInv, LastRunIsCurrent, Current
<1>3. effects[Current] \in EffectRun
  BY <1>1, <1>2 DEF Current
<1>4. /\ CleanedUp(effects[Current]) \in EffectRun
      /\ CleanedUp(effects[Current]).cancelled
      /\ effects[Current].stage # "listening" => CleanedUp(effects[Current]).stage = effects[Current].stage
  BY <1>3 DEF CleanedUp, EffectRun
<1>5. runs = [effects EXCEPT ![Current] = CleanedUp(effects[Current])]
  OBVIOUS
<1>6. /\ runs \in Seq(EffectRun) /\ Len(runs) = Current
      /\ \A e \in 1..Current : runs[e] = IF e = Current THEN CleanedUp(effects[Current]) ELSE effects[e]
  BY <1>1, <1>2, <1>4, <1>5, SeqUpdate DEF Current
<1>7. \A e \in 1..Current : runs[e].cancelled
  BY <1>4, <1>6 DEF KeysInv, LastRunIsCurrent
<1>8. \A e \in StillListening : runs[e].stage \in {"subscribed", "listening"}
  BY <1>1, <1>4, <1>6 DEF KeysInv, ListenersAreSubscribed, StillListening
<1>9. \A e \in 1..Current : effects[e].stage = "binding" => runs[e].stage = "binding"
  BY <1>4, <1>6
<1>10. QED
  BY <1>2, <1>6, <1>7, <1>8, <1>9 DEF StillListening

LEMMA LeaveKeys ==
  ASSUME KeysInv, HandleLeave
  PROVE  KeysInv'
<1>0. /\ appState = "channel" /\ appState' = "join"
      /\ effects' = [effects EXCEPT ![Current] = CleanedUp(@)]
      /\ listeners' = StillListening
      /\ calls' = Append(calls, Unbind)
      /\ UNCHANGED <<registered, config, hotkeys, inbox>>
  BY DEF HandleLeave, RunCleanup, hotkeyVars
<1>1. /\ effects' \in Seq(EffectRun) /\ Current' = Current /\ Current \in Nat
      /\ \A e \in 1..Current : effects'[e].cancelled
      /\ \A e \in 1..Current : effects[e].stage = "binding" => effects'[e].stage = "binding"
      /\ listeners' \subseteq listeners
      /\ \A e \in listeners' : effects'[e].stage \in {"subscribed", "listening"}
  BY <1>0, CleanedUpRuns DEF Current
<1>2. calls' \in Seq(Command(Current))
  <2>1. Unbind \in Command(Current) /\ calls \in Seq(Command(Current))
    BY DEF Command, KeysInv, KeysTypes
  <2>2. QED
    BY <1>0, <2>1, SeqAppend
<1>3. KeysTypes'
  BY <1>0, <1>1, <1>2 DEF KeysInv, KeysTypes
<1>4. LastRunIsCurrent' /\ ListenersAreSubscribed' /\ BindIsTheLastCommand'
  BY <1>0, <1>1 DEF LastRunIsCurrent, ListenersAreSubscribed, BindIsTheLastCommand
<1>5. EventsAreRight'
  BY <1>0, <1>1 DEF KeysInv, EventsAreRight
<1>6. BindsWaitOnce'
  <2>1. calls \in Seq(Command(Current)) /\ Unbind \in Command(Current) /\ Unbind.command = "unbind"
    BY DEF Command, Unbind, KeysInv, KeysTypes
  <2>2. /\ Len(calls') = Len(calls) + 1 /\ Len(calls) \in Nat
        /\ \A i \in 1..Len(calls) : calls'[i] = calls[i] /\ calls[i] \in Command(Current)
        /\ calls'[Len(calls) + 1] = Unbind
    BY <1>0, <2>1, SeqAppend
  <2>3. \A i \in 1..Len(calls') : calls'[i].command = "bind" =>
          i \in 1..Len(calls) /\ calls'[i] = calls[i] /\ calls[i].effect \in 1..Current
    BY <2>1, <2>2 DEF Command
  <2>4. QED
    BY <1>1, <2>3 DEF KeysInv, BindsWaitOnce
<1>7. QED
  BY <1>3, <1>4, <1>5, <1>6 DEF KeysInv

\* In the channel, other shortcuts end the current run and start the next.
LEMMA ChangeKeys ==
  ASSUME KeysInv, NEW c \in Settings, ChangeHotkeys(c)
  PROVE  KeysInv'
<1>0. hotkeys' = c /\ UNCHANGED <<registered, config, appState, inbox>>
  BY DEF ChangeHotkeys, hotkeyVars
<1>t. /\ effects \in Seq(EffectRun) /\ calls \in Seq(Command(Current))
      /\ listeners \subseteq 1..Current
  BY DEF KeysInv, KeysTypes
<1>1. CASE appState = "join"
  <2>1. UNCHANGED <<effects, calls, listeners, Current>>
    BY <1>1 DEF ChangeHotkeys, Current
  <2>2. KeysTypes'
    BY <1>0, <2>1 DEF KeysInv, KeysTypes
  <2>3. LastRunIsCurrent' /\ ListenersAreSubscribed' /\ BindsWaitOnce' /\ BindIsTheLastCommand'
    BY <1>0, <1>1, <2>1 DEF KeysInv, LastRunIsCurrent, ListenersAreSubscribed, BindsWaitOnce,
                            BindIsTheLastCommand
  <2>4. EventsAreRight'
    BY <1>0, <1>1, <2>1 DEF KeysInv, EventsAreRight, LastRunIsCurrent
  <2>5. QED
    BY <2>2, <2>3, <2>4 DEF KeysInv
<1>2. CASE appState = "channel"
  <2> DEFINE runs == [effects EXCEPT ![Current] = CleanedUp(@)]
  <2>1. /\ effects' = Append(runs, NewRun)
        /\ listeners' = StillListening
        /\ calls' = calls \o <<Unbind, Bind(Current + 1, c)>>
    BY <1>2 DEF ChangeHotkeys
  <2>2. /\ Current \in Nat \ {0}
        /\ runs \in Seq(EffectRun) /\ Len(runs) = Current
        /\ \A e \in 1..Current : runs[e].cancelled
        /\ \A e \in 1..Current : effects[e].stage = "binding" => runs[e].stage = "binding"
        /\ StillListening \subseteq listeners
        /\ \A e \in StillListening : runs[e].stage \in {"subscribed", "listening"}
    BY <1>2, CleanedUpRuns
  <2> HIDE DEF runs
  <2>3. NewRun \in EffectRun /\ NewRun.stage = "binding" /\ ~NewRun.cancelled
    BY DEF NewRun, EffectRun
  <2>4. /\ effects' \in Seq(EffectRun) /\ Current' = Current + 1
        /\ \A e \in 1..Current : effects'[e] = runs[e]
        /\ effects'[Current + 1] = NewRun
    BY <2>1, <2>2, <2>3, SeqAppend DEF Current
  <2>5. /\ Unbind \in Command(Current + 1) /\ Bind(Current + 1, c) \in Command(Current + 1)
        /\ Unbind.command = "unbind"
        /\ calls \in Seq(Command(Current + 1)) /\ Len(calls) \in Nat
    BY <1>t, <2>2, MoreCommands DEF Bind, Unbind, Command
  <2>6. /\ calls' \in Seq(Command(Current + 1)) /\ Len(calls') = Len(calls) + 2
        /\ \A i \in 1..Len(calls) : calls'[i] = calls[i]
        /\ calls'[Len(calls) + 1] = Unbind
        /\ calls'[Len(calls) + 2] = Bind(Current + 1, c)
    BY <2>1, <2>5
  <2>7. \A i \in 1..Len(calls) : calls[i].command = "bind" => calls[i].effect \in 1..Current
    <3>1. \A i \in 1..Len(calls) : calls[i] \in Command(Current)
      BY <1>t
    <3>2. QED
      BY <3>1 DEF Command, Unbind
  <2>8. KeysTypes'
    BY <1>0, <1>t, <2>1, <2>2, <2>4, <2>6 DEF KeysInv, KeysTypes
  <2>9. LastRunIsCurrent'
    BY <1>0, <1>2, <2>2, <2>3, <2>4 DEF LastRunIsCurrent
  <2>10. ListenersAreSubscribed'
    BY <1>t, <2>1, <2>2, <2>4 DEF ListenersAreSubscribed
  <2>11. BindIsTheLastCommand'
    <3>1. calls' # <<>> /\ calls'[Len(calls')] = Bind(Current', hotkeys')
      BY <1>0, <2>4, <2>5, <2>6
    <3>2. effects'[Current'].stage = "binding"
      BY <2>3, <2>4
    <3>3. QED
      BY <3>1, <3>2 DEF BindIsTheLastCommand
  <2>12. EventsAreRight'
    BY <1>0, <2>2, <2>4 DEF KeysInv, EventsAreRight
  <2>13. BindsWaitOnce'
    <3>1. Bind(Current + 1, c).effect = Current + 1
      BY DEF Bind
    <3>2. ASSUME NEW i \in 1..Len(calls'), calls'[i].command = "bind"
          PROVE  \/ i = Len(calls) + 2 /\ calls'[i].effect = Current + 1
                 \/ i \in 1..Len(calls) /\ calls'[i] = calls[i] /\ calls[i].effect \in 1..Current
      BY <2>5, <2>6, <2>7, <3>1, <3>2
    <3>3. ASSUME NEW i \in 1..Len(calls'), calls'[i].command = "bind"
          PROVE  effects'[calls'[i].effect].stage = "binding"
      BY <2>2, <2>3, <2>4, <3>2, <3>3 DEF KeysInv, BindsWaitOnce
    <3>4. ASSUME NEW i \in 1..Len(calls'), NEW j \in 1..Len(calls'),
                 calls'[i].command = "bind", calls'[j].command = "bind",
                 calls'[i].effect = calls'[j].effect
          PROVE  i = j
      BY <2>2, <3>2, <3>4 DEF KeysInv, BindsWaitOnce
    <3>5. QED
      BY <3>3, <3>4 DEF BindsWaitOnce
  <2>14. QED
    BY <2>8, <2>9, <2>10, <2>11, <2>12, <2>13 DEF KeysInv
<1>3. QED
  BY <1>1, <1>2 DEF KeysInv, KeysTypes

\* One run gets on.
Advanced(e, stage) == [effects EXCEPT ![e].stage = stage]

LEMMA AdvancedRuns ==
  ASSUME KeysInv, NEW e \in 1..Current,
         NEW stage \in {"binding", "bound", "subscribed", "listening", "over"}
  PROVE  /\ Advanced(e, stage) \in Seq(EffectRun) /\ Len(Advanced(e, stage)) = Current
         /\ \A d \in 1..Current :
              /\ Advanced(e, stage)[d].cancelled = effects[d].cancelled
              /\ Advanced(e, stage)[d].stage = IF d = e THEN stage ELSE effects[d].stage
<1>1. effects \in Seq(EffectRun) /\ effects[e] \in EffectRun
  BY DEF KeysInv, KeysTypes, Current
<1> DEFINE run == [effects[e] EXCEPT !.stage = stage]
<1>2. run \in EffectRun /\ run.cancelled = effects[e].cancelled /\ run.stage = stage
  BY <1>1 DEF EffectRun
<1>3. Advanced(e, stage) = [effects EXCEPT ![e] = run]
  BY DEF Advanced
<1> HIDE DEF run
<1>4. /\ Advanced(e, stage) \in Seq(EffectRun) /\ Len(Advanced(e, stage)) = Current
      /\ \A d \in 1..Current : Advanced(e, stage)[d] = IF d = e THEN run ELSE effects[d]
  BY <1>1, <1>2, <1>3, SeqUpdate DEF Current
<1>5. QED
  BY <1>2, <1>4

\* register_global_hotkeys registers what can be registered, and all of it or fails.
LEMMA RegisterStep ==
  ASSUME NEW c \in Settings, NEW ok \in BOOLEAN, RegisterGlobalHotkeys(c, ok),
         registered \subseteq Usable,
         config \in [ptt : Usable, mute : Usable] \cup {NoConfig}
  PROVE  /\ registered' \subseteq Usable
         /\ config' \in [ptt : Usable, mute : Usable] \cup {NoConfig}
         /\ ok => config' = c /\ registered' = KeysOf(c)
<1>1. c \in HotkeyConfig /\ c.ptt \in Key /\ c.mute \in Key
  BY ControlsAssumption DEF HotkeyConfig
<1>2. CASE ok
  <2>1. KeysOf(c) \subseteq Usable /\ registered' = KeysOf(c) /\ config' = c
    BY <1>2 DEF RegisterGlobalHotkeys
  <2>2. c \in [ptt : Usable, mute : Usable]
    BY <1>1, <2>1 DEF KeysOf, HotkeyConfig
  <2>3. QED
    BY <2>1, <2>2
<1>3. CASE ~ok
  BY <1>1, <1>3 DEF RegisterGlobalHotkeys, KeysOf, hotkeyVars, Usable, ValidateShortcut
<1>4. QED
  BY <1>2, <1>3

\* The main thread carries out the oldest command.  If it is the current run's bind it
\* was the last one; if it is any other, the current run has not got further.
LEMMA CommandKeys ==
  ASSUME KeysInv, RunCommand
  PROVE  KeysInv'
<1> DEFINE c == Head(calls)
<1>0. /\ calls # <<>> /\ calls' = Tail(calls)
      /\ UNCHANGED <<appState, hotkeys, listeners, inbox>>
  BY DEF RunCommand
<1>1. /\ registered \subseteq Usable
      /\ config \in [ptt : Usable, mute : Usable] \cup {NoConfig}
      /\ effects \in Seq(EffectRun) /\ calls \in Seq(Command(Current))
      /\ hotkeys \in Settings /\ listeners \subseteq 1..Current
  BY DEF KeysInv, KeysTypes
<1>2. /\ c = calls[1] /\ c \in Command(Current)
      /\ Len(calls) \in Nat \ {0}
      /\ calls' \in Seq(Command(Current)) /\ Len(calls') = Len(calls) - 1
      /\ \A j \in 1..Len(calls') : calls'[j] = calls[j + 1] /\ j + 1 \in 1..Len(calls)
  BY <1>0, <1>1, SeqTail
<1> HIDE DEF c
<1>3. /\ c.command = "bind" \/ c = Unbind
      /\ c.command = "bind" => c.effect \in 1..Current /\ c.keys \in Settings
      /\ Unbind.command = "unbind"
  BY <1>2 DEF Command, Unbind
<1>4. PICK ok \in BOOLEAN :
         \/ /\ c.command = "bind"
            /\ RegisterGlobalHotkeys(c.keys, ok)
            /\ effects' = [effects EXCEPT ![c.effect].stage = IF ok THEN "bound" ELSE "over"]
         \/ /\ c.command = "unbind"
            /\ UnregisterGlobalHotkeys
            /\ UNCHANGED effects
  BY DEF RunCommand, c
<1>5. /\ registered' \subseteq Usable
      /\ config' \in [ptt : Usable, mute : Usable] \cup {NoConfig}
      /\ c.command = "bind" /\ ok => config' = c.keys /\ registered' = KeysOf(c.keys)
  <2>1. CASE c.command = "bind"
    BY <1>1, <1>3, <1>4, <2>1, RegisterStep
  <2>2. CASE c.command # "bind"
    BY <1>4, <2>2 DEF UnregisterGlobalHotkeys
  <2>3. QED
    BY <2>1, <2>2
<1>6. /\ effects' \in Seq(EffectRun) /\ Current' = Current
      /\ \A d \in 1..Current : effects'[d].cancelled = effects[d].cancelled
      /\ \A d \in 1..Current : effects'[d].stage =
           IF c.command = "bind" /\ d = c.effect THEN (IF ok THEN "bound" ELSE "over")
                                                 ELSE effects[d].stage
  <2>1. CASE c.command = "bind"
    <3> DEFINE stage == IF ok THEN "bound" ELSE "over"
    <3>1. stage \in {"binding", "bound", "subscribed", "listening", "over"}
      OBVIOUS
    <3>2. effects' = Advanced(c.effect, stage)
      BY <1>4, <2>1 DEF Advanced
    <3> HIDE DEF stage
    <3>3. /\ effects' \in Seq(EffectRun) /\ Len(effects') = Current
          /\ \A d \in 1..Current :
               /\ effects'[d].cancelled = effects[d].cancelled
               /\ effects'[d].stage = IF d = c.effect THEN stage ELSE effects[d].stage
      BY <1>3, <2>1, <3>1, <3>2, AdvancedRuns
    <3>4. QED
      BY <2>1, <3>3 DEF Current, stage
  <2>2. CASE c.command # "bind"
    BY <1>1, <1>4, <2>2 DEF Current
  <2>3. QED
    BY <2>1, <2>2
<1>7. c.command = "bind" => effects[c.effect].stage = "binding"
  BY <1>2 DEF KeysInv, BindsWaitOnce
<1>8. KeysTypes'
  BY <1>0, <1>1, <1>2, <1>5, <1>6 DEF KeysInv, KeysTypes
<1>9. LastRunIsCurrent'
  BY <1>0, <1>6 DEF KeysInv, LastRunIsCurrent
<1>10. ListenersAreSubscribed'
  BY <1>0, <1>1, <1>6, <1>7 DEF KeysInv, ListenersAreSubscribed
<1>11. BindsWaitOnce'
  <2>1. ASSUME NEW i \in 1..Len(calls'), calls'[i].command = "bind"
        PROVE  effects'[calls'[i].effect].stage = "binding"
    <3>1. /\ i + 1 \in 1..Len(calls) /\ calls[i + 1] = calls'[i] /\ i + 1 # 1
          /\ 1 \in 1..Len(calls)
      BY <1>2
    <3>2. effects[calls'[i].effect].stage = "binding"
      BY <2>1, <3>1 DEF KeysInv, BindsWaitOnce
    <3>3. c.command = "bind" => calls'[i].effect # c.effect
      BY <1>2, <2>1, <3>1 DEF KeysInv, BindsWaitOnce
    <3>4. calls'[i].effect \in 1..Current
      <4>1. calls'[i] \in Command(Current)
        BY <1>2
      <4>2. QED
        BY <2>1, <4>1 DEF Command, Unbind
    <3>5. QED
      BY <1>6, <3>2, <3>3, <3>4
  <2>2. ASSUME NEW i \in 1..Len(calls'), NEW j \in 1..Len(calls'),
               calls'[i].command = "bind", calls'[j].command = "bind",
               calls'[i].effect = calls'[j].effect
        PROVE  i = j
    <3>1. i + 1 = j + 1
      BY <1>2, <2>2 DEF KeysInv, BindsWaitOnce
    <3>2. QED
      BY <1>2, <3>1
  <2>3. QED
    BY <2>1, <2>2 DEF BindsWaitOnce
<1>12. BindIsTheLastCommand'
  <2>1. SUFFICES ASSUME appState = "channel"
                 PROVE  BindIsTheLastCommand'
    BY <1>0 DEF BindIsTheLastCommand
  <2>2. Current \in Nat /\ Current > 0 /\ Current \in 1..Current
    BY <1>1, <2>1 DEF KeysInv, LastRunIsCurrent, Current
  <2>3. effects[Current].stage = "binding" /\ calls[Len(calls)] = Bind(Current, hotkeys)
    BY <1>0, <2>1 DEF KeysInv, BindIsTheLastCommand
  <2>4. CASE Len(calls) = 1
    <3>1. /\ c.command = "bind" /\ c.effect = Current /\ c.keys = hotkeys
          /\ calls' = <<>>
      BY <1>2, <2>3, <2>4 DEF Bind
    <3>2. effects'[Current].stage = IF ok THEN "bound" ELSE "over"
      BY <1>6, <2>2, <3>1
    <3>3. QED
      BY <1>0, <1>5, <1>6, <3>1, <3>2 DEF BindIsTheLastCommand
  <2>5. CASE Len(calls) # 1
    <3>1. calls' # <<>> /\ calls'[Len(calls')] = Bind(Current, hotkeys)
      BY <1>2, <2>3, <2>5
    <3>2. c.command = "bind" => c.effect # Current
      <4>1. /\ Bind(Current, hotkeys).effect = Current
            /\ Bind(Current, hotkeys).command = "bind"
        BY DEF Bind
      <4>2. QED
        BY <1>2, <2>3, <2>5, <4>1 DEF KeysInv, BindsWaitOnce
    <3>3. effects'[Current].stage = "binding"
      BY <1>6, <2>2, <2>3, <3>2
    <3>4. QED
      BY <1>0, <1>6, <3>1, <3>3 DEF BindIsTheLastCommand
  <2>6. QED
    BY <2>4, <2>5
<1>13. EventsAreRight'
  BY <1>0, <1>6 DEF KeysInv, EventsAreRight
<1>14. QED
  BY <1>8, <1>9, <1>10, <1>11, <1>12, <1>13 DEF KeysInv

\* A run subscribes, or learns that it has: no bind is about it, and whether it is
\* cancelled does not change.
LEMMA SubscriptionKeys ==
  ASSUME KeysInv, NEW e \in 1..Current, NEW stage \in {"subscribed", "listening", "over"},
         effects' = Advanced(e, stage),
         effects[e].stage \in {"bound", "subscribed"},
         stage = "over" => effects[e].cancelled,
         listeners' \subseteq listeners \cup {e},
         stage = "over" => e \notin listeners',
         UNCHANGED <<registered, config, appState, hotkeys, calls, inbox>>
  PROVE  KeysInv'
<1>0. UNCHANGED <<registered, config, appState, hotkeys, calls, inbox>>
  OBVIOUS
<1>1. /\ effects' \in Seq(EffectRun) /\ Current' = Current
      /\ \A d \in 1..Current : effects'[d].cancelled = effects[d].cancelled
      /\ \A d \in 1..Current : effects'[d].stage = IF d = e THEN stage ELSE effects[d].stage
  <2>1. /\ Advanced(e, stage) \in Seq(EffectRun) /\ Len(Advanced(e, stage)) = Current
        /\ \A d \in 1..Current :
             /\ Advanced(e, stage)[d].cancelled = effects[d].cancelled
             /\ Advanced(e, stage)[d].stage = IF d = e THEN stage ELSE effects[d].stage
    BY AdvancedRuns
  <2>2. QED
    BY <2>1 DEF Current
<1>2. /\ effects \in Seq(EffectRun) /\ calls \in Seq(Command(Current))
      /\ listeners \subseteq 1..Current
  BY DEF KeysInv, KeysTypes
<1>3. KeysTypes'
  BY <1>0, <1>1, <1>2 DEF KeysInv, KeysTypes
<1>4. LastRunIsCurrent'
  BY <1>0, <1>1 DEF KeysInv, LastRunIsCurrent
<1>5. ListenersAreSubscribed'
  BY <1>1, <1>2 DEF KeysInv, ListenersAreSubscribed
<1>6. BindsWaitOnce'
  <2>1. ASSUME NEW i \in 1..Len(calls), calls[i].command = "bind"
        PROVE  effects'[calls[i].effect].stage = "binding"
    <3>1. effects[calls[i].effect].stage = "binding"
      BY <2>1 DEF KeysInv, BindsWaitOnce
    <3>2. calls[i] \in Command(Current)
      BY <1>2
    <3>3. calls[i].effect \in 1..Current
      BY <2>1, <3>2 DEF Command, Unbind
    <3>4. QED
      BY <1>1, <3>1, <3>3
  <2>2. QED
    BY <1>0, <2>1 DEF KeysInv, BindsWaitOnce
<1>7. BindIsTheLastCommand'
  <2>1. SUFFICES ASSUME appState = "channel"
                 PROVE  BindIsTheLastCommand'
    BY <1>0 DEF BindIsTheLastCommand
  <2>2. Current \in 1..Current
    BY <1>2, <2>1 DEF KeysInv, LastRunIsCurrent, Current
  <2>3. effects'[Current].stage = IF Current = e THEN stage ELSE effects[Current].stage
    BY <1>1, <2>2
  <2>4. ~effects[Current].cancelled
    BY <2>1, <2>2 DEF KeysInv, LastRunIsCurrent
  <2>5. QED
    BY <1>0, <1>1, <2>1, <2>3, <2>4 DEF KeysInv, BindIsTheLastCommand
<1>8. EventsAreRight'
  BY <1>0, <1>1 DEF KeysInv, EventsAreRight
<1>9. QED
  BY <1>3, <1>4, <1>5, <1>6, <1>7, <1>8 DEF KeysInv

\* A run that listens has its keys with the main thread, and classifies them.
LEMMA ListenersAreBound ==
  ASSUME KeysInv, NEW e \in listeners, ~effects[e].cancelled
  PROVE  e = Current /\ config = hotkeys /\ registered = KeysOf(hotkeys)
<1>1. e \in 1..Current
  BY DEF KeysInv, KeysTypes
<1>2. e = Current /\ appState = "channel"
  BY <1>1 DEF KeysInv, LastRunIsCurrent
<1>3. effects[e].stage \in {"subscribed", "listening"}
  BY DEF KeysInv, ListenersAreSubscribed
<1>4. QED
  BY <1>2, <1>3 DEF KeysInv, BindIsTheLastCommand

\* The event for a key that fires is classified by the configuration of the run that
\* will act on it.
LEMMA FireKeys ==
  ASSUME KeysInv, NEW k \in Key, NEW keyState \in {"pressed", "released"},
         FireShortcut(k, keyState)
  PROVE  KeysInv'
<1>0. UNCHANGED <<registered, config, appState, hotkeys, effects, calls, listeners>>
  BY DEF FireShortcut, hotkeyVars
<1>1. CASE listeners = {} \/ BuildHotkeyEvent(k, keyState) = {}
  <2>1. inbox' = inbox
    BY <1>1 DEF FireShortcut
  <2>2. QED
    BY <1>0, <2>1, KeysStay
<1>2. CASE ~(listeners = {} \/ BuildHotkeyEvent(k, keyState) = {})
  <2> DEFINE ev == [kind |-> ClassifyShortcut(config, k), state |-> keyState]
             new == [event |-> ev, key |-> k, to |-> listeners]
  <2>1. BuildHotkeyEvent(k, keyState) = {ev} /\ ClassifyShortcut(config, k) # "none"
    BY <1>2 DEF BuildHotkeyEvent
  <2>2. inbox' = Append(inbox, new)
    BY <1>2, <2>1 DEF FireShortcut
  <2>3. ClassifyShortcut(config, k) \in {"ptt", "mute"}
    BY <2>1 DEF ClassifyShortcut
  <2>4. /\ inbox \in Seq(KeyEvent) /\ listeners \subseteq 1..Current
        /\ effects \in Seq(EffectRun) /\ Current \in Nat
    BY DEF KeysInv, KeysTypes, Current
  <2>5. ev \in [kind : {"ptt", "mute"}, state : {"pressed", "released"}]
    BY <2>3
  <2>6. listeners \in SUBSET Nat
    BY <2>4
  <2>7. /\ new \in KeyEvent
        /\ new.to = listeners /\ new.key = k /\ new.event.kind = ClassifyShortcut(config, k)
    BY <2>5, <2>6 DEF KeyEvent
  <2> HIDE DEF new, ev
  <2>8. /\ inbox' \in Seq(KeyEvent)
        /\ \A i \in 1..Len(inbox') :
             \/ i \in 1..Len(inbox) /\ inbox'[i] = inbox[i]
             \/ inbox'[i] = new
    BY <2>2, <2>4, <2>7, SeqAppend
  <2>9. UNCHANGED <<registered, config, appState, hotkeys, effects, calls, listeners, Current>>
    BY <1>0 DEF Current
  <2>10. EventsAreRight'
    <3>1. ASSUME NEW i \in 1..Len(inbox'), NEW e \in inbox'[i].to
          PROVE  /\ e \in 1..Current
                 /\ ~effects[e].cancelled =>
                      inbox'[i].event.kind = ClassifyShortcut(hotkeys, inbox'[i].key)
      <4>1. CASE i \in 1..Len(inbox) /\ inbox'[i] = inbox[i]
        BY <3>1, <4>1 DEF KeysInv, EventsAreRight
      <4>2. CASE inbox'[i] = new
        BY <2>4, <2>7, <3>1, <4>2, ListenersAreBound
      <4>3. QED
        BY <2>8, <4>1, <4>2
    <3>2. QED
      BY <2>9, <3>1 DEF EventsAreRight
  <2>11. KeysTypes'
    BY <2>8, <2>9 DEF KeysInv, KeysTypes
  <2>12. LastRunIsCurrent' /\ ListenersAreSubscribed' /\ BindsWaitOnce' /\ BindIsTheLastCommand'
    BY <2>9 DEF KeysInv, LastRunIsCurrent, ListenersAreSubscribed, BindsWaitOnce,
                BindIsTheLastCommand
  <2>13. QED
    BY <2>10, <2>11, <2>12 DEF KeysInv
<1>3. QED
  BY <1>1, <1>2

LEMMA KeysStep ==
  ASSUME KeysInv, [ControlsNext]_controlVars
  PROVE  KeysInv'
<1>1. CASE EnterChannel
  BY <1>1, EnterKeys
<1>2. CASE HandleLeave
  BY <1>2, LeaveKeys
<1>3. CASE MoveToRoom \/ ChangeMicrophone
  <2>1. UNCHANGED <<registered, config, appState, hotkeys, effects, calls, listeners, inbox>>
    BY <1>3 DEF MoveToRoom, ChangeMicrophone, keyVars, hotkeyVars
  <2>2. QED
    BY <2>1, KeysStay
<1>4. ASSUME NEW c \in Settings, ChangeHotkeys(c)
      PROVE  KeysInv'
  BY <1>4, ChangeKeys
<1>5. CASE RunCommand
  BY <1>5, CommandKeys
<1>6. ASSUME NEW e \in 1..Current, Subscribe(e)
      PROVE  KeysInv'
  <2>1. /\ effects' = Advanced(e, "subscribed") /\ effects[e].stage = "bound"
        /\ listeners' = listeners \cup {e}
        /\ UNCHANGED <<registered, config, appState, hotkeys, calls, inbox>>
    BY <1>6 DEF Subscribe, Advanced, hotkeyVars
  <2>2. QED
    BY <2>1, SubscriptionKeys
<1>7. ASSUME NEW e \in 1..Current, Subscribed(e)
      PROVE  KeysInv'
  <2>1. /\ effects[e].stage = "subscribed"
        /\ UNCHANGED <<registered, config, appState, hotkeys, calls, inbox>>
    BY <1>7 DEF Subscribed, hotkeyVars
  <2>2. CASE effects[e].cancelled
    <3>1. effects' = Advanced(e, "over") /\ listeners' = listeners \ {e}
      BY <1>7, <2>2 DEF Subscribed, Advanced
    <3>2. QED
      BY <2>1, <2>2, <3>1, SubscriptionKeys
  <2>3. CASE ~effects[e].cancelled
    <3>1. effects' = Advanced(e, "listening") /\ listeners' = listeners
      BY <1>7, <2>3 DEF Subscribed, Advanced
    <3>2. QED
      BY <2>1, <2>3, <3>1, SubscriptionKeys
  <2>4. QED
    BY <2>2, <2>3
<1>8. ASSUME NEW k \in Key, NEW keyState \in {"pressed", "released"}, FireShortcut(k, keyState)
      PROVE  KeysInv'
  BY <1>8, FireKeys
<1>9. CASE HandleKey
  <2>1. /\ UNCHANGED <<registered, config, appState, hotkeys, effects, calls, listeners>>
        /\ inbox # <<>> /\ inbox' = Tail(inbox)
    BY <1>9 DEF HandleKey, hotkeyVars
  <2>2. QED
    BY <2>1, KeysStay
<1>10. CASE UNCHANGED controlVars
  BY <1>10, KeysStay DEF controlVars
<1>11. QED
  BY <1>1, <1>2, <1>3, <1>4, <1>5, <1>6, <1>7, <1>8, <1>9, <1>10 DEF ControlsNext

LEMMA KeysInit == ControlsInit => KeysInv
<1> SUFFICES ASSUME ControlsInit PROVE KeysInv
  OBVIOUS
<1>1. /\ registered = {} /\ config = NoConfig /\ appState = "join" /\ hotkeys \in Settings
      /\ effects = <<>> /\ calls = <<>> /\ inbox = <<>> /\ listeners = {} /\ Current = 0
  BY DEF ControlsInit, HotkeysInit, Current
<1>2. KeysTypes
  BY <1>1 DEF KeysTypes
<1>3. QED
  BY <1>1, <1>2 DEF KeysInv, LastRunIsCurrent, ListenersAreSubscribed, BindsWaitOnce,
                    BindIsTheLastCommand, EventsAreRight

LEMMA KeysInvariant == ControlsSpec => []KeysInv
<1>1. KeysInv /\ [ControlsNext]_controlVars => KeysInv'
  BY KeysStep
<1>2. QED
  BY <1>1, KeysInit, PTL DEF ControlsSpec

-----------------------------------------------------------------------------
(* What follows for the member.                                            *)

\* Every variable has its type, and what is registered and classified by was accepted
\* by the system: register_global_hotkeys sets the configuration last.
THEOREM ControlsTypes == ControlsSpec => []ControlsTypeOK
<1>1. MicrophoneInv /\ KeysInv => ControlsTypeOK
  BY DEF MicrophoneInv, MicrophoneTypes, KeysInv, KeysTypes, ControlsTypeOK, EffectRun, Command,
         KeyEvent
<1>2. QED
  BY <1>1, MicrophoneInvariant, KeysInvariant, PTL

\* No microphone is open but the one of this stay, and none outside the channel,
\* however often the window leaves and enters while getUserMedia has not answered.
THEOREM NoMicrophoneStaysOpen == ControlsSpec => []MicrophoneIsReleased
<1>1. MicrophoneInv => MicrophoneIsReleased
  BY DEF MicrophoneInv
<1>2. QED
  BY <1>1, MicrophoneInvariant, PTL

\* The track is enabled exactly when the window says so, unless the last mute came
\* while the microphone was being acquired.
THEOREM MuteReachesTheTrack == ControlsSpec => []MuteIsHonoured
<1>1. MicrophoneInv => MuteIsHonoured
  BY DEF MicrophoneInv
<1>2. QED
  BY <1>1, MicrophoneInvariant, PTL

\* A run of useHotkeys that listens has its own keys registered and is classified by
\* its own configuration.
THEOREM ListeningIsBound == ControlsSpec => []BindingHolds
<1>1. KeysInv => BindingHolds
  BY ListenersAreBound DEF BindingHolds
<1>2. QED
  BY <1>1, KeysInvariant, PTL

-----------------------------------------------------------------------------
(* Leaving, in steps: what LeavingGivesTheKeysBack rests on, beside the     *)
(* fairness.                                                                *)

\* Outside the channel the last command on its way is the unbind of the cleanup, or
\* it has been carried out and nothing was carried out after it.
KeysComeBack ==
  appState = "join" =>
    IF calls = <<>> THEN registered = {} /\ config = NoConfig ELSE calls[Len(calls)] = Unbind

\* A cleaned up run that still listens waits for its subscription to come back.
LateListenersWait == \A e \in listeners : effects[e].cancelled => effects[e].stage = "subscribed"

NobodyKeepsTheKeys == KeysComeBack /\ LateListenersWait

\* How far a run has come.
Reached(s) ==
  CASE s = "binding" -> 0
    [] s = "bound" -> 1
    [] s = "subscribed" -> 2
    [] s = "listening" -> 3
    [] s = "over" -> 4

\* No run goes back or is revived; outside the channel nothing is sent to the main
\* thread any more, which takes the commands one by one, and only a run whose bind has
\* just been answered still subscribes.
ControlsGoOn ==
  /\ \A e \in 1..Current :
       /\ e \in 1..Current'
       /\ Reached(effects[e].stage) <= Reached(effects'[e].stage)
       /\ effects[e].cancelled => effects'[e].cancelled
       /\ Subscribe(e) \/ Subscribed(e) => Reached(effects[e].stage) < Reached(effects'[e].stage)
  /\ appState = "join" /\ appState' = "join" =>
       /\ calls' = calls \/ RunCommand
       /\ \A e \in listeners' \ listeners : effects[e].stage = "bound"

RunStages == {"binding", "bound", "subscribed", "listening", "over"}

LEMMA ReachedIsNat == \A s \in RunStages : Reached(s) \in 0..4
BY DEF Reached, RunStages

\* The runs there were, after a step: the answers to bind and subscribe take theirs
\* further by definition.
LEMMA RunsMove ==
  ASSUME KeysInv, Current' \in Nat, Current <= Current',
         \A e \in 1..Current :
           /\ Reached(effects[e].stage) <= Reached(effects'[e].stage)
           /\ effects[e].cancelled => effects'[e].cancelled,
         appState = "join" /\ appState' = "join" =>
           /\ calls' = calls \/ RunCommand
           /\ \A e \in listeners' \ listeners : effects[e].stage = "bound"
  PROVE  ControlsGoOn
<1>1. effects \in Seq(EffectRun) /\ Current \in Nat
  BY DEF KeysInv, KeysTypes, Current
<1>2. ASSUME NEW e \in 1..Current, Subscribe(e) \/ Subscribed(e)
      PROVE  Reached(effects[e].stage) < Reached(effects'[e].stage)
  <2>1. \E s \in RunStages : effects' = Advanced(e, s) /\ Reached(effects[e].stage) < Reached(s)
    <3>1. CASE Subscribe(e)
      BY <3>1 DEF Subscribe, Advanced, Reached, RunStages
    <3>2. CASE Subscribed(e) /\ effects[e].cancelled
      BY <3>2 DEF Subscribed, Advanced, Reached, RunStages
    <3>3. CASE Subscribed(e) /\ ~effects[e].cancelled
      <4>1. effects' = Advanced(e, "listening") /\ effects[e].stage = "subscribed"
        BY <3>3 DEF Subscribed, Advanced
      <4>2. QED
        BY <4>1 DEF Reached, RunStages
    <3>4. QED
      BY <1>2, <3>1, <3>2, <3>3
  <2>2. PICK s \in RunStages : effects' = Advanced(e, s) /\ Reached(effects[e].stage) < Reached(s)
    BY <2>1
  <2>3. effects'[e].stage = s
    BY <2>2, AdvancedRuns DEF RunStages
  <2>4. QED
    BY <2>2, <2>3
<1>3. \A e \in 1..Current : e \in 1..Current'
  BY <1>1
<1>4. QED
  BY <1>2, <1>3 DEF ControlsGoOn

\* The steps that leave the runs, the commands and the keys alone.
LEMMA LeavingStays ==
  ASSUME KeysInv, NobodyKeepsTheKeys,
         UNCHANGED <<registered, config, appState, effects, calls, listeners>>
  PROVE  ControlsGoOn /\ NobodyKeepsTheKeys'
<1>1. effects \in Seq(EffectRun) /\ Current' = Current /\ Current \in Nat
  BY DEF KeysInv, KeysTypes, Current
<1>2. ASSUME NEW e \in 1..Current
      PROVE  Reached(effects[e].stage) <= Reached(effects'[e].stage)
  <2>1. effects[e] \in EffectRun
    BY <1>1 DEF Current
  <2>2. Reached(effects[e].stage) \in 0..4
    BY <2>1, ReachedIsNat DEF EffectRun, RunStages
  <2>3. QED
    BY <2>2
<1>3. ControlsGoOn
  BY <1>1, <1>2, RunsMove
<1>4. NobodyKeepsTheKeys'
  BY DEF NobodyKeepsTheKeys, KeysComeBack, LateListenersWait
<1>5. QED
  BY <1>3, <1>4

\* A run is started after the others.
LEMMA OneMoreRun ==
  ASSUME KeysInv, effects' = Append(effects, NewRun)
  PROVE  /\ Current' = Current + 1 /\ Current \in Nat
         /\ \A e \in 1..Current :
              /\ effects'[e] = effects[e]
              /\ Reached(effects[e].stage) <= Reached(effects'[e].stage)
<1>1. effects \in Seq(EffectRun) /\ NewRun \in EffectRun
  BY DEF KeysInv, KeysTypes, NewRun, EffectRun
<1>2. /\ Current' = Current + 1 /\ Current \in Nat
      /\ \A e \in 1..Current : effects'[e] = effects[e]
  BY <1>1, SeqAppend DEF Current
<1>3. ASSUME NEW e \in 1..Current
      PROVE  Reached(effects[e].stage) <= Reached(effects'[e].stage)
  <2>1. effects[e] \in EffectRun
    BY <1>1 DEF Current
  <2>2. Reached(effects[e].stage) \in 0..4
    BY <2>1, ReachedIsNat DEF EffectRun, RunStages
  <2>3. effects'[e] = effects[e]
    BY <1>2
  <2>4. QED
    BY <2>2, <2>3
<1>4. QED
  BY <1>2, <1>3

\* What the cleanup of the current run does to it and to the listeners.
LEMMA CleanupGoesOn ==
  ASSUME KeysInv, LateListenersWait, appState = "channel",
         NEW runs, runs = [effects EXCEPT ![Current] = CleanedUp(@)]
  PROVE  /\ \A e \in 1..Current :
              /\ Reached(effects[e].stage) <= Reached(runs[e].stage)
              /\ effects[e].cancelled => runs[e].cancelled
         /\ \A e \in StillListening : runs[e].stage = "subscribed"
<1>1. effects \in Seq(EffectRun) /\ listeners \subseteq 1..Current
  BY DEF KeysInv, KeysTypes
<1>2. Current \in 1..Current
  BY <1>1 DEF KeysInv, LastRunIsCurrent, Current
<1>3. effects[Current] \in EffectRun
  BY <1>1, <1>2 DEF Current
<1>4. /\ CleanedUp(effects[Current]) \in EffectRun
      /\ CleanedUp(effects[Current]).cancelled
      /\ CleanedUp(effects[Current]).stage =
           IF effects[Current].stage = "listening" THEN "over" ELSE effects[Current].stage
  BY <1>3 DEF CleanedUp, EffectRun
<1>5. runs = [effects EXCEPT ![Current] = CleanedUp(effects[Current])]
  OBVIOUS
<1>6. \A e \in 1..Current : runs[e] = IF e = Current THEN CleanedUp(effects[Current]) ELSE effects[e]
  BY <1>1, <1>2, <1>4, <1>5, SeqUpdate DEF Current
<1>7. ASSUME NEW e \in 1..Current
      PROVE  Reached(effects[e].stage) <= Reached(runs[e].stage)
  <2>1. effects[e] \in EffectRun
    BY <1>1 DEF Current
  <2>2. Reached(effects[e].stage) \in 0..4
    BY <2>1, ReachedIsNat DEF EffectRun, RunStages
  <2>3. CASE runs[e].stage = effects[e].stage
    BY <2>2, <2>3
  <2>4. CASE effects[e].stage = "listening" /\ runs[e].stage = "over"
    BY <2>4 DEF Reached
  <2>5. QED
    BY <1>4, <1>6, <2>3, <2>4
<1>8. ASSUME NEW e \in StillListening
      PROVE  runs[e].stage = "subscribed"
  <2>1. e \in listeners /\ (e = Current => effects[e].stage # "listening")
    BY <1>8 DEF StillListening
  <2>2. e \in 1..Current /\ effects[e].stage \in {"subscribed", "listening"}
    BY <1>1, <2>1 DEF KeysInv, ListenersAreSubscribed
  <2>3. CASE e = Current
    BY <1>4, <1>6, <2>1, <2>2, <2>3
  <2>4. CASE e # Current
    <3>1. effects[e].cancelled
      BY <2>2, <2>4 DEF KeysInv, LastRunIsCurrent
    <3>2. QED
      BY <1>6, <2>1, <2>2, <2>4, <3>1 DEF LateListenersWait
  <2>5. QED
    BY <2>3, <2>4
<1>9. QED
  BY <1>4, <1>6, <1>7, <1>8

LEMMA EnterGoesOn ==
  ASSUME KeysInv, NobodyKeepsTheKeys, EnterChannel
  PROVE  ControlsGoOn /\ NobodyKeepsTheKeys'
<1>1. /\ appState' = "channel" /\ effects' = Append(effects, NewRun) /\ listeners' = listeners
      /\ listeners \subseteq 1..Current
  BY DEF EnterChannel, KeysInv, KeysTypes
<1>2. ControlsGoOn
  <2>1. /\ Current' = Current + 1 /\ Current \in Nat
        /\ \A e \in 1..Current :
             /\ effects'[e] = effects[e]
             /\ Reached(effects[e].stage) <= Reached(effects'[e].stage)
    BY <1>1, OneMoreRun
  <2>2. \A e \in 1..Current :
          /\ Reached(effects[e].stage) <= Reached(effects'[e].stage)
          /\ effects[e].cancelled => effects'[e].cancelled
    BY <2>1
  <2>3. Current' \in Nat /\ Current <= Current'
    BY <2>1
  <2>4. QED
    BY <1>1, <2>2, <2>3, RunsMove
<1>3. NobodyKeepsTheKeys'
  BY <1>1, OneMoreRun DEF NobodyKeepsTheKeys, KeysComeBack, LateListenersWait
<1>4. QED
  BY <1>2, <1>3

LEMMA LeaveGoesOn ==
  ASSUME KeysInv, NobodyKeepsTheKeys, HandleLeave
  PROVE  ControlsGoOn /\ NobodyKeepsTheKeys'
<1>1. /\ appState = "channel" /\ effects' = [effects EXCEPT ![Current] = CleanedUp(@)]
      /\ listeners' = StillListening /\ calls' = Append(calls, Unbind)
  BY DEF HandleLeave, RunCleanup
<1>2. calls \in Seq(Command(Current)) /\ Unbind \in Command(Current)
  BY DEF KeysInv, KeysTypes, Command
<1>3. calls' # <<>> /\ calls'[Len(calls')] = Unbind
  <2>1. /\ Len(calls') = Len(calls) + 1 /\ Len(calls) \in Nat
        /\ calls'[Len(calls) + 1] = Unbind
    BY <1>1, <1>2, SeqAppend
  <2>2. QED
    BY <2>1
<1>4. /\ \A e \in 1..Current :
           /\ Reached(effects[e].stage) <= Reached(effects'[e].stage)
           /\ effects[e].cancelled => effects'[e].cancelled
      /\ \A e \in listeners' : effects'[e].stage = "subscribed"
  BY <1>1, CleanupGoesOn DEF NobodyKeepsTheKeys
<1>5. Current' = Current /\ Current \in Nat
  BY <1>1, CleanedUpRuns DEF Current
<1>6. ControlsGoOn
  BY <1>1, <1>4, <1>5, RunsMove
<1>7. NobodyKeepsTheKeys'
  BY <1>3, <1>4 DEF NobodyKeepsTheKeys, KeysComeBack, LateListenersWait
<1>8. QED
  BY <1>6, <1>7

LEMMA ChangeGoesOn ==
  ASSUME KeysInv, NobodyKeepsTheKeys, NEW c \in Settings, ChangeHotkeys(c)
  PROVE  ControlsGoOn /\ NobodyKeepsTheKeys'
<1>1. CASE appState = "join"
  BY <1>1, LeavingStays DEF ChangeHotkeys, hotkeyVars
<1>2. CASE appState = "channel"
  <2> DEFINE runs == [effects EXCEPT ![Current] = CleanedUp(@)]
  <2>1. /\ effects' = Append(runs, NewRun) /\ listeners' = StillListening
        /\ appState' = "channel"
    BY <1>2 DEF ChangeHotkeys
  <2>2. /\ Current \in Nat /\ runs \in Seq(EffectRun) /\ Len(runs) = Current
        /\ StillListening \subseteq listeners
    BY <1>2, CleanedUpRuns
  <2>3. /\ \A e \in 1..Current :
             /\ Reached(effects[e].stage) <= Reached(runs[e].stage)
             /\ effects[e].cancelled => runs[e].cancelled
        /\ \A e \in StillListening : runs[e].stage = "subscribed"
    BY <1>2, CleanupGoesOn DEF NobodyKeepsTheKeys
  <2> HIDE DEF runs
  <2>4. NewRun \in EffectRun
    BY DEF NewRun, EffectRun
  <2>5. Current' = Current + 1 /\ \A e \in 1..Current : effects'[e] = runs[e]
    BY <2>1, <2>2, <2>4, SeqAppend DEF Current
  <2>6. listeners \subseteq 1..Current
    BY DEF KeysInv, KeysTypes
  <2>7. ControlsGoOn
    BY <1>2, <2>2, <2>3, <2>5, RunsMove
  <2>8. NobodyKeepsTheKeys'
    BY <2>1, <2>2, <2>3, <2>5, <2>6 DEF NobodyKeepsTheKeys, KeysComeBack, LateListenersWait
  <2>9. QED
    BY <2>7, <2>8
<1>3. QED
  BY <1>1, <1>2 DEF KeysInv, KeysTypes

\* Outside the channel the unbind is the last to be carried out.
LEMMA CommandGoesOn ==
  ASSUME KeysInv, NobodyKeepsTheKeys, RunCommand
  PROVE  ControlsGoOn /\ NobodyKeepsTheKeys'
<1>1. /\ calls # <<>> /\ calls' = Tail(calls) /\ UNCHANGED <<appState, listeners>>
      /\ calls \in Seq(Command(Current)) /\ effects \in Seq(EffectRun)
      /\ listeners \subseteq 1..Current /\ Current \in Nat
  BY DEF RunCommand, KeysInv, KeysTypes, Current
<1>2. /\ Head(calls) = calls[1] /\ calls[1] \in Command(Current)
      /\ Len(calls) \in Nat \ {0} /\ Len(calls') = Len(calls) - 1
      /\ \A j \in 1..(Len(calls) - 1) : calls'[j] = calls[j + 1]
      /\ calls' \in Seq(Command(Current))
  BY <1>1, SeqTail
<1>3. CASE Head(calls).command = "bind"
  <2>1. PICK ok \in BOOLEAN :
          effects' = [effects EXCEPT ![Head(calls).effect].stage = IF ok THEN "bound" ELSE "over"]
    BY <1>3 DEF RunCommand
  <2>2. \E s \in {"bound", "over"} : effects' = Advanced(Head(calls).effect, s)
    BY <2>1 DEF Advanced
  <2>3. PICK s \in {"bound", "over"} : effects' = Advanced(Head(calls).effect, s)
    BY <2>2
  <2>4. /\ Head(calls).effect \in 1..Current /\ effects[Head(calls).effect].stage = "binding"
        /\ Head(calls) # Unbind
    <3>1. Head(calls).effect \in 1..Current /\ Head(calls) # Unbind
      BY <1>2, <1>3 DEF Command, Unbind
    <3>2. 1 \in 1..Len(calls)
      BY <1>2
    <3>3. QED
      BY <1>2, <1>3, <3>1, <3>2 DEF KeysInv, BindsWaitOnce
  <2>5. PICK f \in 1..Current : f = Head(calls).effect
    BY <2>4
  <2>6. /\ Current' = Current
        /\ \A e \in 1..Current :
             /\ effects'[e].cancelled = effects[e].cancelled
             /\ effects'[e].stage = IF e = f THEN s ELSE effects[e].stage
    <3>1. s \in {"binding", "bound", "subscribed", "listening", "over"}
      OBVIOUS
    <3>2. /\ Len(Advanced(f, s)) = Current
          /\ \A d \in 1..Current :
               /\ Advanced(f, s)[d].cancelled = effects[d].cancelled
               /\ Advanced(f, s)[d].stage = IF d = f THEN s ELSE effects[d].stage
      BY <3>1, AdvancedRuns
    <3>3. QED
      BY <2>3, <2>5, <3>2 DEF Current
  <2>7. ASSUME NEW e \in 1..Current
        PROVE  Reached(effects[e].stage) <= Reached(effects'[e].stage)
    <3>1. effects[e] \in EffectRun
      BY <1>1 DEF Current
    <3>2. Reached(effects[e].stage) \in 0..4
      BY <3>1, ReachedIsNat DEF EffectRun, RunStages
    <3>3. Reached("binding") <= Reached(s)
      BY DEF Reached
    <3>4. QED
      BY <2>4, <2>5, <2>6, <3>2, <3>3
  <2>8. ControlsGoOn
    BY <1>1, <2>6, <2>7, RunsMove
  <2>9. \A e \in listeners : effects[e].stage # "binding"
    BY DEF KeysInv, ListenersAreSubscribed
  <2>10. LateListenersWait'
    BY <1>1, <2>4, <2>5, <2>6, <2>9 DEF NobodyKeepsTheKeys, LateListenersWait
  <2>11. KeysComeBack'
    <3>1. SUFFICES ASSUME appState = "join"
                   PROVE  calls' # <<>> /\ calls'[Len(calls')] = Unbind
      BY <1>1 DEF KeysComeBack
    <3>2. calls[Len(calls)] = Unbind
      BY <1>1, <3>1 DEF NobodyKeepsTheKeys, KeysComeBack
    <3>3. Len(calls) # 1
      BY <1>2, <2>4, <3>2
    <3>4. QED
      BY <1>2, <3>2, <3>3
  <2>12. QED
    BY <2>8, <2>10, <2>11 DEF NobodyKeepsTheKeys
<1>4. CASE Head(calls).command # "bind"
  <2>1. registered' = {} /\ config' = NoConfig /\ effects' = effects /\ Current' = Current
    BY <1>4 DEF RunCommand, UnregisterGlobalHotkeys, Current
  <2>2. ASSUME NEW e \in 1..Current
        PROVE  Reached(effects[e].stage) <= Reached(effects'[e].stage)
    <3>1. effects[e] \in EffectRun
      BY <1>1 DEF Current
    <3>2. Reached(effects[e].stage) \in 0..4
      BY <3>1, ReachedIsNat DEF EffectRun, RunStages
    <3>3. QED
      BY <2>1, <3>2
  <2>3. ControlsGoOn
    BY <1>1, <2>1, <2>2, RunsMove
  <2>4. LateListenersWait'
    BY <1>1, <2>1 DEF NobodyKeepsTheKeys, LateListenersWait
  <2>5. KeysComeBack'
    <3>1. SUFFICES ASSUME appState = "join", calls' # <<>>
                   PROVE  calls'[Len(calls')] = Unbind
      BY <1>1, <2>1 DEF KeysComeBack
    <3>2. calls[Len(calls)] = Unbind
      BY <1>1, <3>1 DEF NobodyKeepsTheKeys, KeysComeBack
    <3>3. Len(calls') # 0
      BY <1>2, <3>1
    <3>4. QED
      BY <1>2, <3>2, <3>3
  <2>6. QED
    BY <2>3, <2>4, <2>5 DEF NobodyKeepsTheKeys
<1>5. QED
  BY <1>3, <1>4

LEMMA SubscriptionGoesOn ==
  ASSUME KeysInv, NobodyKeepsTheKeys, NEW e \in 1..Current, Subscribe(e) \/ Subscribed(e)
  PROVE  ControlsGoOn /\ NobodyKeepsTheKeys'
<1>1. /\ UNCHANGED <<registered, config, appState, calls>>
      /\ effects[e].stage \in {"bound", "subscribed"}
      /\ listeners \subseteq 1..Current
  BY DEF Subscribe, Subscribed, hotkeyVars, KeysInv, KeysTypes
<1>2. \E s \in {"subscribed", "listening", "over"} :
        /\ effects' = Advanced(e, s) /\ Reached(effects[e].stage) < Reached(s)
        /\ listeners' \subseteq listeners \cup {e}
        /\ effects[e].stage # "bound" => listeners' \subseteq listeners
        /\ s # "subscribed" /\ effects[e].cancelled => e \notin listeners'
  <2>1. CASE Subscribe(e)
    BY <2>1 DEF Subscribe, Advanced, Reached
  <2>2. CASE Subscribed(e) /\ effects[e].cancelled
    <3>1. /\ effects' = Advanced(e, "over") /\ effects[e].stage = "subscribed"
          /\ listeners' = listeners \ {e}
      BY <2>2 DEF Subscribed, Advanced
    <3>2. QED
      BY <3>1 DEF Reached
  <2>3. CASE Subscribed(e) /\ ~effects[e].cancelled
    <3>1. /\ effects' = Advanced(e, "listening") /\ effects[e].stage = "subscribed"
          /\ listeners' = listeners
      BY <2>3 DEF Subscribed, Advanced
    <3>2. QED
      BY <2>3, <3>1 DEF Reached
  <2>4. QED
    BY <2>1, <2>2, <2>3
<1>3. PICK s \in {"subscribed", "listening", "over"} :
        /\ effects' = Advanced(e, s) /\ Reached(effects[e].stage) < Reached(s)
        /\ listeners' \subseteq listeners \cup {e}
        /\ effects[e].stage # "bound" => listeners' \subseteq listeners
        /\ s # "subscribed" /\ effects[e].cancelled => e \notin listeners'
  BY <1>2
<1>4. effects \in Seq(EffectRun) /\ Current \in Nat
  BY DEF KeysInv, KeysTypes, Current
<1>5. /\ Current' = Current
      /\ \A d \in 1..Current :
           /\ effects'[d].cancelled = effects[d].cancelled
           /\ effects'[d].stage = IF d = e THEN s ELSE effects[d].stage
  <2>1. s \in {"binding", "bound", "subscribed", "listening", "over"}
    OBVIOUS
  <2>2. /\ Len(Advanced(e, s)) = Current
        /\ \A d \in 1..Current :
             /\ Advanced(e, s)[d].cancelled = effects[d].cancelled
             /\ Advanced(e, s)[d].stage = IF d = e THEN s ELSE effects[d].stage
    BY <2>1, AdvancedRuns
  <2>3. QED
    BY <1>3, <2>2 DEF Current
<1>6. ASSUME NEW d \in 1..Current
      PROVE  Reached(effects[d].stage) <= Reached(effects'[d].stage)
  <2>1. effects[d] \in EffectRun
    BY <1>4 DEF Current
  <2>2. Reached(effects[d].stage) \in 0..4 /\ Reached(s) \in 0..4
    BY <2>1, ReachedIsNat DEF EffectRun, RunStages
  <2>3. QED
    BY <1>3, <1>5, <2>2
<1>7. ControlsGoOn
  BY <1>1, <1>3, <1>4, <1>5, <1>6, RunsMove
<1>8. NobodyKeepsTheKeys'
  BY <1>1, <1>3, <1>5 DEF NobodyKeepsTheKeys, KeysComeBack, LateListenersWait
<1>9. QED
  BY <1>7, <1>8

LEMMA LeavingStep ==
  ASSUME KeysInv, NobodyKeepsTheKeys, [ControlsNext]_controlVars
  PROVE  ControlsGoOn /\ NobodyKeepsTheKeys'
<1>1. CASE EnterChannel
  BY <1>1, EnterGoesOn
<1>2. CASE HandleLeave
  BY <1>2, LeaveGoesOn
<1>3. CASE MoveToRoom \/ ChangeMicrophone
  BY <1>3, LeavingStays DEF MoveToRoom, ChangeMicrophone, keyVars, hotkeyVars
<1>4. ASSUME NEW c \in Settings, ChangeHotkeys(c)
      PROVE  ControlsGoOn /\ NobodyKeepsTheKeys'
  BY <1>4, ChangeGoesOn
<1>5. CASE RunCommand
  BY <1>5, CommandGoesOn
<1>6. ASSUME NEW e \in 1..Current, Subscribe(e) \/ Subscribed(e)
      PROVE  ControlsGoOn /\ NobodyKeepsTheKeys'
  BY <1>6, SubscriptionGoesOn
<1>7. ASSUME NEW k \in Key, NEW keyState \in {"pressed", "released"}, FireShortcut(k, keyState)
      PROVE  ControlsGoOn /\ NobodyKeepsTheKeys'
  BY <1>7, LeavingStays DEF FireShortcut, hotkeyVars
<1>8. CASE HandleKey \/ UNCHANGED controlVars
  BY <1>8, LeavingStays DEF HandleKey, hotkeyVars, controlVars
<1>9. QED
  BY <1>1, <1>2, <1>3, <1>4, <1>5, <1>6, <1>7, <1>8 DEF ControlsNext

LEMMA LeavingInit == ControlsInit => NobodyKeepsTheKeys
BY DEF ControlsInit, HotkeysInit, NobodyKeepsTheKeys, KeysComeBack, LateListenersWait

\* A window outside the channel has no keys registered, or an unbind of its own is the
\* last command on its way; a run of useHotkeys that was cleaned up and still listens
\* waits for the answer to its subscription, with which it unlistens.
THEOREM KeysAreOnTheirWayBack == ControlsSpec => []NobodyKeepsTheKeys
<1>1. KeysInv /\ NobodyKeepsTheKeys /\ [ControlsNext]_controlVars => NobodyKeepsTheKeys'
  BY LeavingStep
<1>2. QED
  BY <1>1, LeavingInit, KeysInvariant, PTL DEF ControlsSpec

\* However often the keys are exchanged and the channel is left and entered, a key event
\* is handled by what the settings say of the key at that moment, unless it was given to
\* a run of useHotkeys that was cleaned up and whose subscription has not come back.
THEOREM EventsMeanWhatIsSet == ControlsSpec => []OnlyLateListenersMishear
<1>1. KeysInv /\ NobodyKeepsTheKeys => OnlyLateListenersMishear
  <2> SUFFICES ASSUME KeysInv, NobodyKeepsTheKeys,
                      NEW i \in 1..Len(inbox), NEW e \in inbox[i].to \cap listeners
               PROVE  \/ inbox[i].event.kind = ClassifyShortcut(hotkeys, inbox[i].key)
                      \/ effects[e].cancelled /\ effects[e].stage = "subscribed"
    BY DEF OnlyLateListenersMishear
  <2>1. CASE effects[e].cancelled
    BY <2>1 DEF NobodyKeepsTheKeys, LateListenersWait
  <2>2. CASE ~effects[e].cancelled
    BY <2>2 DEF KeysInv, EventsAreRight
  <2>3. QED
    BY <2>1, <2>2
<1>2. QED
  BY <1>1, KeysInvariant, KeysAreOnTheirWayBack, PTL

\* Each answer to bind and subscribe takes its run further, no step takes one back or
\* revives it, and outside the channel the commands on their way only get fewer.
THEOREM RunsOnlyGoOn == ControlsSpec => [][ControlsGoOn]_controlVars
<1>1. KeysInv /\ NobodyKeepsTheKeys /\ [ControlsNext]_controlVars => [ControlsGoOn]_controlVars
  BY LeavingStep
<1>2. QED
  BY <1>1, KeysInvariant, KeysAreOnTheirWayBack, PTL DEF ControlsSpec

=============================================================================
