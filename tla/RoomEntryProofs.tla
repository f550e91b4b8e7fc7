--------------------------- MODULE RoomEntryProofs ---------------------------
(***************************************************************************)
(* Invariants and steps of RoomEntry for any number of attempts, ports and   *)
(* codes.                                                                    *)
(***************************************************************************)
EXTENDS RoomEntry, Integers, TLAPS

(* The last port and the active server.                                    *)

Stages == {"idle", "asked", "binding", "bound", "recorded", "listening", "prepared", "started",
           "failed", "over"}

PortTypes ==
  /\ stage \in [Attempt -> Stages]
  /\ lastRead \in [Attempt -> Port \cup {NoPort}]
  /\ bound \in [Attempt -> Port \cup {NoPort}]
  /\ reused \in [Attempt -> BOOLEAN]
  /\ lastSuccessfulPort \in Port \cup {NoPort}

\* While one attempt at a time chooses its port, the last port is that of the active
\* server, or of the attempt that is about to replace it, so that what the attempt has
\* read is still bound when it tries it.
OneChooses ==
  /\ \A a, b \in Attempt : Choosing(a) /\ Choosing(b) => a = b
  /\ \A a \in Attempt : stage[a] = "recorded" => lastSuccessfulPort = bound[a]
  /\ \A a \in Attempt : stage[a] = "binding" => lastRead[a] = lastSuccessfulPort
  /\ (\A a \in Attempt : stage[a] # "recorded") => lastSuccessfulPort = activeServer
  /\ \A a \in Attempt : ~reused[a]

PortInv == PortTypes /\ (~crossed => OneChooses)

\* The steps that have nothing to do with the choice of a port.
LEMMA NobodyChooses ==
  ASSUME PortInv, UNCHANGED choiceVars,
         \/ UNCHANGED stage
         \/ \E a \in Attempt, t \in Stages \ {"binding", "bound", "recorded"} :
              ~Choosing(a) /\ stage' = [stage EXCEPT ![a] = t]
  PROVE  PortInv'
<1>1. UNCHANGED <<lastSuccessfulPort, activeServer, lastRead, tried, bound, reused, crossed>>
  BY DEF choiceVars
<1>2. stage' \in [Attempt -> Stages]
  BY DEF PortInv, PortTypes
<1>3. \A b \in Attempt : \/ stage'[b] = stage[b]
                         \/ /\ stage[b] \notin {"binding", "bound", "recorded"}
                            /\ stage'[b] \notin {"binding", "bound", "recorded"}
  BY DEF PortInv, PortTypes, Choosing
<1>4. PortTypes'
  BY <1>1, <1>2 DEF PortInv, PortTypes
<1>5. ASSUME ~crossed
      PROVE  OneChooses'
  BY <1>1, <1>3, <1>5 DEF PortInv, OneChooses, Choosing
<1>6. QED
  BY <1>1, <1>4, <1>5 DEF PortInv

LEMMA ReadKeepsPorts ==
  ASSUME PortInv, NEW a \in Attempt, ReadLastPort(a)
  PROVE  PortInv'
<1>1. /\ stage' = [stage EXCEPT ![a] = "binding"]
      /\ lastRead' = [lastRead EXCEPT ![a] = lastSuccessfulPort]
      /\ crossed' = (crossed \/ \E b \in Attempt : Choosing(b))
      /\ UNCHANGED <<lastSuccessfulPort, activeServer, bound, reused>>
  BY DEF ReadLastPort
<1>2. PortTypes
  BY DEF PortInv
<1>3. PortTypes'
  BY <1>1, <1>2 DEF PortTypes, Stages
<1>4. ASSUME ~crossed'
      PROVE  OneChooses'
  <2>1. OneChooses /\ \A b \in Attempt : ~Choosing(b)
    BY <1>1, <1>4 DEF PortInv
  <2>2. /\ stage'[a] = "binding" /\ lastRead'[a] = lastSuccessfulPort
        /\ \A b \in Attempt : b # a => stage'[b] = stage[b] /\ lastRead'[b] = lastRead[b]
    BY <1>1, <1>2 DEF PortTypes
  <2>3. QED
    BY <1>1, <2>1, <2>2 DEF OneChooses, Choosing
<1>5. QED
  BY <1>3, <1>4 DEF PortInv

\* The port that is bound is not the one that was read: the active server holds that.
LEMMA BindKeepsPorts ==
  ASSUME PortInv, NEW a \in Attempt, BindServer(a)
  PROVE  PortInv'
<1>1. /\ stage[a] = "binding"
      /\ UNCHANGED <<lastSuccessfulPort, activeServer, lastRead, crossed>>
  BY DEF BindServer
<1>2. PortTypes
  BY DEF PortInv
<1>3. CASE UNCHANGED <<stage, bound, reused>>
  <2>1. PortTypes'
    BY <1>1, <1>2, <1>3 DEF PortTypes
  <2>2. ~crossed => OneChooses'
    BY <1>1, <1>3 DEF PortInv, OneChooses, Choosing
  <2>3. QED
    BY <1>1, <2>1, <2>2 DEF PortInv
<1>4. CASE ~UNCHANGED <<stage, bound, reused>>
  <2>1. PICK p \in Port, again \in BOOLEAN :
          /\ Free(p) /\ (again => p = lastRead[a])
          /\ bound' = [bound EXCEPT ![a] = p]
          /\ reused' = [reused EXCEPT ![a] = again]
          /\ stage' = [stage EXCEPT ![a] = "bound"]
    <3>1. PICK p \in Port :
            /\ Free(p)
            /\ bound' = [bound EXCEPT ![a] = p]
            /\ reused' = [reused EXCEPT ![a] = tried[a] + 1 \in DOMAIN Candidates(lastRead[a])
                                                 /\ p = lastRead[a]]
            /\ stage' = [stage EXCEPT ![a] = "bound"]
      BY <1>4 DEF BindServer
    <3>2. QED
      BY <3>1
  <2>2. /\ stage'[a] = "bound" /\ reused'[a] = again
        /\ \A b \in Attempt : b # a =>
             stage'[b] = stage[b] /\ bound'[b] = bound[b] /\ reused'[b] = reused[b]
    BY <1>2, <2>1 DEF PortTypes
  <2>3. PortTypes'
    BY <1>1, <1>2, <2>1 DEF PortTypes, Stages
  <2>4. ASSUME ~crossed
        PROVE  OneChooses'
    <3>1. OneChooses
      BY <2>4 DEF PortInv
    <3>2. \A b \in Attempt : stage[b] # "recorded"
      BY <1>1, <3>1 DEF OneChooses, Choosing
    <3>3. lastRead[a] = activeServer
      BY <1>1, <3>1, <3>2 DEF OneChooses
    <3>4. ~again
      BY <2>1, <3>3 DEF Free
    <3>5. QED
      BY <1>1, <2>2, <3>1, <3>4 DEF OneChooses, Choosing
  <2>5. QED
    BY <1>1, <2>3, <2>4 DEF PortInv
<1>5. QED
  BY <1>3, <1>4

LEMMA RecordKeepsPorts ==
  ASSUME PortInv, NEW a \in Attempt, RecordPort(a)
  PROVE  PortInv'
<1>1. /\ stage[a] = "bound" /\ stage' = [stage EXCEPT ![a] = "recorded"]
      /\ lastSuccessfulPort' = bound[a]
      /\ UNCHANGED <<activeServer, lastRead, bound, reused, crossed>>
  BY DEF RecordPort
<1>2. PortTypes
  BY DEF PortInv
<1>3. PortTypes'
  BY <1>1, <1>2 DEF PortTypes, Stages
<1>4. ASSUME ~crossed
      PROVE  OneChooses'
  <2>1. OneChooses
    BY <1>4 DEF PortInv
  <2>2. stage'[a] = "recorded" /\ \A b \in Attempt : b # a => stage'[b] = stage[b]
    BY <1>1, <1>2 DEF PortTypes
  <2>3. QED
    BY <1>1, <2>1, <2>2 DEF OneChooses, Choosing
<1>5. QED
  BY <1>1, <1>3, <1>4 DEF PortInv

LEMMA ActivateKeepsPorts ==
  ASSUME PortInv, NEW a \in Attempt, Activate(a)
  PROVE  PortInv'
<1>1. /\ stage[a] = "recorded" /\ stage' = [stage EXCEPT ![a] = "listening"]
      /\ activeServer' = bound[a]
      /\ UNCHANGED <<lastSuccessfulPort, lastRead, bound, reused, crossed>>
  BY DEF Activate
<1>2. PortTypes
  BY DEF PortInv
<1>3. PortTypes'
  BY <1>1, <1>2 DEF PortTypes, Stages
<1>4. ASSUME ~crossed
      PROVE  OneChooses'
  <2>1. OneChooses
    BY <1>4 DEF PortInv
  <2>2. stage'[a] = "listening" /\ \A b \in Attempt : b # a => stage'[b] = stage[b]
    BY <1>1, <1>2 DEF PortTypes
  <2>3. QED
    BY <1>1, <2>1, <2>2 DEF OneChooses, Choosing
<1>5. QED
  BY <1>1, <1>3, <1>4 DEF PortInv

LEMMA StepKeepsPorts ==
  ASSUME PortInv, [EntryNext]_entryVars
  PROVE  PortInv'
<1>1. ASSUME NEW a \in Attempt, Prepare(a)
      PROVE  PortInv'
  <2>1. CASE ReadLastPort(a) \/ BindServer(a) \/ RecordPort(a) \/ Activate(a)
    BY <2>1, ReadKeepsPorts, BindKeepsPorts, RecordKeepsPorts, ActivateKeepsPorts
  <2>2. CASE NoAddress(a) \/ PrepareInvite(a) \/ StartRuntime(a) \/ DuplicateRoom(a)
    <3>1. /\ UNCHANGED choiceVars /\ ~Choosing(a)
          /\ \E t \in {"failed", "prepared", "started"} : stage' = [stage EXCEPT ![a] = t]
      BY <2>2 DEF NoAddress, PrepareInvite, StartRuntime, DuplicateRoom, Choosing
    <3>2. QED
      BY <3>1, NobodyChooses DEF Stages
  <2>3. QED
    BY <1>1, <2>1, <2>2 DEF Prepare, Proceed
<1>2. ASSUME NEW a \in Attempt, HandleCreateRoom(a) \/ CreateFails(a) \/ EnterOwnRoom(a)
      PROVE  PortInv'
  <2>1. /\ UNCHANGED choiceVars /\ ~Choosing(a)
        /\ \E t \in {"asked", "over"} : stage' = [stage EXCEPT ![a] = t]
    BY <1>2 DEF HandleCreateRoom, Ask, CreateFails, EnterOwnRoom, Finish, Choosing
  <2>2. QED
    BY <2>1, NobodyChooses DEF Stages
<1>3. ASSUME NEW e \in Entry, HandleCodeComplete(e) \/ ResolveSucceeds(e) \/ ResolveFails(e)
      PROVE  UNCHANGED choiceVars /\ UNCHANGED stage
  BY <1>3 DEF HandleCodeComplete, ResolveSucceeds, ResolveFails, preparationVars, choiceVars
<1>4. ASSUME HandleConfirmJoin \/ JoinAccepted \/ JoinRejected \/ CancelJoin \/ HandleLeave
      PROVE  UNCHANGED choiceVars /\ UNCHANGED stage
  BY <1>4 DEF HandleConfirmJoin, JoinAccepted, JoinRejected, CancelJoin, HandleLeave,
              preparationVars, choiceVars
<1>5. ASSUME AcceptFails
      PROVE  UNCHANGED choiceVars /\ UNCHANGED stage
  BY <1>5 DEF AcceptFails
<1>6. ASSUME UNCHANGED entryVars
      PROVE  UNCHANGED choiceVars /\ UNCHANGED stage
  BY <1>6 DEF entryVars, preparationVars, choiceVars
<1> QED
  BY <1>1, <1>2, <1>3, <1>4, <1>5, <1>6, NobodyChooses DEF EntryNext

LEMMA PortsBegin == EntryInit => PortInv
BY DEF EntryInit, PreparationInit, PortInv, PortTypes, OneChooses, Choosing, Stages

\* For any number of creations, also overlapping ones, and any behaviour of router and
\* listeners: last_successful_port and active_server part only if two calls of
\* prepare_room_invite were between their lock sections at one time.
THEOREM LastPortFollowsTheServer == EntrySpec => []LastPortIsTheServers
<1>1. PortInv => LastPortIsTheServers
  BY DEF PortInv, OneChooses, LastPortIsTheServers, Choosing
<1> QED
  BY <1>1, PortsBegin, StepKeepsPorts, PTL DEF EntrySpec

\* reused_last_successful_port is true only after such a crossing: an owner that makes
\* one room after the other never gets the port of the room before, whatever the pool,
\* which is what LastPortIsPreferred asks for.
THEOREM ReuseTakesACrossing == EntrySpec => [](\A a \in Attempt : reused[a] => crossed)
<1>1. PortInv => \A a \in Attempt : reused[a] => crossed
  BY DEF PortInv, OneChooses
<1> QED
  BY <1>1, PortsBegin, StepKeepsPorts, PTL DEF EntrySpec

-----------------------------------------------------------------------------
LEMMA StepKeepsConfirmation ==
  ASSUME ConfirmSendsTheRightCode, [EntryNext]_entryVars
  PROVE  ConfirmSendsTheRightCode'
<1> USE DEF ConfirmSendsTheRightCode
<1>1. CASE UNCHANGED <<appState, inviteCode, pendingJoin>>
  BY <1>1
<1>2. ASSUME NEW a \in Attempt, HandleCreateRoom(a) \/ CreateFails(a) \/ EnterOwnRoom(a)
      PROVE  appState' # "confirm"
  BY <1>2 DEF HandleCreateRoom, CreateFails, EnterOwnRoom
<1>3. ASSUME NEW a \in Attempt, Prepare(a)
      PROVE  UNCHANGED <<appState, inviteCode, pendingJoin>>
  BY <1>3 DEF Prepare, windowVars
<1>4. ASSUME NEW e \in Entry, HandleCodeComplete(e)
      PROVE  UNCHANGED <<appState, inviteCode, pendingJoin>>
  BY <1>4 DEF HandleCodeComplete
<1>5. ASSUME NEW e \in Entry, ResolveSucceeds(e) \/ ResolveFails(e)
      PROVE  pendingJoin' \in {NoRoom, inviteCode'}
  BY <1>5 DEF ResolveSucceeds, ResolveFails
<1>6. ASSUME HandleConfirmJoin \/ JoinRejected
      PROVE  UNCHANGED <<appState, inviteCode, pendingJoin>>
  BY <1>6 DEF HandleConfirmJoin, JoinRejected
<1>7. ASSUME JoinAccepted \/ CancelJoin \/ HandleLeave
      PROVE  appState' # "confirm"
  BY <1>7 DEF JoinAccepted, CancelJoin, HandleLeave
<1>8. ASSUME UNCHANGED windowVars
      PROVE  UNCHANGED <<appState, inviteCode, pendingJoin>>
  BY <1>8 DEF windowVars
<1>9. ASSUME UNCHANGED entryVars
      PROVE  UNCHANGED <<appState, inviteCode, pendingJoin>>
  BY <1>9 DEF entryVars
<1> QED
  BY <1>1, <1>2, <1>3, <1>4, <1>5, <1>6, <1>7, <1>8, <1>9 DEF EntryNext

\* For any number of codes that are resolved at one time, whatever else the window
\* does meanwhile: what the dialog asks about is what handleConfirmJoin will send.
THEOREM ConfirmationIsSound == EntrySpec => []ConfirmSendsTheRightCode
<1>1. EntryInit => ConfirmSendsTheRightCode
  BY DEF EntryInit, ConfirmSendsTheRightCode
<1> QED
  BY <1>1, StepKeepsConfirmation, PTL DEF EntrySpec

-----------------------------------------------------------------------------
(* A window that does one thing at a time.                                 *)

\* An invite that is complete, or only has its slot.
OwnInvite == Invite \cup {[NoInvite EXCEPT !.slot = n] : n \in 0..MaxSlot}

EntryTypes ==
  /\ stage \in [Attempt -> Stages]
  /\ invite \in [Attempt -> OwnInvite]
  /\ bound \in [Attempt -> Port \cup {NoPort}]
  /\ listeners \in [Port -> Nat]
  /\ slot \in 0..MaxSlot
  /\ rooms \subseteq Invite
  /\ entry \in [Entry -> RemoteRoom \cup {NoRoom}]
  /\ joining \in RemoteRoom \cup {NoRoom}
  /\ pendingJoin \in RemoteRoom \cup {NoRoom}

\* An invite is on record from the moment its room was to be started, so that no later
\* attempt starts a room under the same one.
InvitesAreOnRecord ==
  \A a \in Attempt :
    /\ stage[a] = "idle" => invite[a] \notin Invite
    /\ stage[a] \in {"bound", "recorded", "listening", "prepared", "started"} => bound[a] \in Port
    /\ stage[a] \in {"prepared", "started"} => invite[a] \in Invite
    /\ stage[a] \in {"asked", "binding", "bound", "recorded", "listening"} => invite[a] \notin Invite
    /\ stage[a] \in {"started", "failed", "over"} => invite[a] \in rooms \cup (OwnInvite \ Invite)

Busy(a) == stage[a] \notin {"idle", "over"}

\* What a window is at while one handler, and only one, is under way.
OneHandlerAtATime ==
  /\ \A a, b \in Attempt : Busy(a) /\ Busy(b) => a = b
  /\ \A a \in Attempt : Busy(a) =>
       appState = "preparing" /\ joining = NoRoom /\ \A e \in Entry : entry[e] = NoRoom
  /\ \A e, f \in Entry : entry[e] # NoRoom /\ entry[f] # NoRoom => e = f
  /\ \A e \in Entry : entry[e] # NoRoom => appState = "join" /\ joining = NoRoom
  /\ joining # NoRoom => appState \in {"confirm", "join"} /\ inviteCode = joining
  /\ activeRoom # NoRoom <=> appState = "channel"

\* Then the server that is active is the one of the attempt under way, and the room that
\* was started has its listener and an invite of its own.
OwnServerIsActive ==
  \A a \in Attempt : stage[a] \in {"listening", "prepared"} => activeServer = bound[a]

StartedIsServed ==
  \A a \in Attempt : stage[a] = "started" =>
    /\ listeners[bound[a]] > 0
    /\ \A b \in Attempt : b # a => invite[b] # invite[a]

EntryInv ==
  /\ EntryTypes
  /\ InvitesAreOnRecord
  /\ ConfirmSendsTheRightCode
  /\ ~overlapped => OneHandlerAtATime /\ OwnServerIsActive
  /\ ~overlapped /\ ~acceptFailed => StartedIsServed
  /\ OwnRoomIsServed
  /\ ChannelShowsItsInvite

LEMMA OwnInvites ==
  /\ \A n \in 0..MaxSlot : [NoInvite EXCEPT !.slot = n] \notin Invite
  /\ NoInvite \in OwnInvite /\ NoInvite \notin Invite
  /\ RemoteRoom \cap OwnInvite = {} /\ NoRoom \notin RemoteRoom /\ NoRoom \notin Invite
<1>1. \A n \in 0..MaxSlot : /\ [NoInvite EXCEPT !.slot = n].endpointScope = "none"
                            /\ [NoInvite EXCEPT !.slot = n] \notin RemoteRoom
  BY EntryAssumption DEF NoInvite
<1>2. \A i \in Invite : i.endpointScope # "none"
  BY DEF Invite
<1>3. NoInvite = [NoInvite EXCEPT !.slot = 0] /\ 0 \in 0..MaxSlot
  BY PreparationAssumption DEF NoInvite
<1>4. NoInvite \in OwnInvite
  BY <1>3 DEF OwnInvite
<1>5. RemoteRoom \cap OwnInvite = {}
  BY <1>1, EntryAssumption DEF OwnInvite
<1>6. QED
  BY <1>1, <1>2, <1>3, <1>4, <1>5, EntryAssumption

\* A handler of the window that has nothing to do with a creation.
LEMMA WindowStep ==
  ASSUME EntryInv, [EntryNext]_entryVars, UNCHANGED preparationVars,
         entry' \in [Entry -> RemoteRoom \cup {NoRoom}],
         joining' \in RemoteRoom \cup {NoRoom}, pendingJoin' \in RemoteRoom \cup {NoRoom},
         overlapped => overlapped',
         ~overlapped' => OneHandlerAtATime',
         ~overlapped' /\ appState' = "channel" =>
           \/ appState = "channel" /\ UNCHANGED <<activeRoom, inviteCode>>
           \/ activeRoom' \in RemoteRoom /\ inviteCode' = activeRoom'
  PROVE  EntryInv'
<1>1. UNCHANGED <<activeServer, listeners, slot, rooms, stage, bound, invite, acceptFailed>>
  BY DEF preparationVars
<1>2. EntryTypes' /\ InvitesAreOnRecord'
  BY <1>1 DEF EntryInv, EntryTypes, InvitesAreOnRecord
<1>3. ConfirmSendsTheRightCode'
  BY StepKeepsConfirmation DEF EntryInv
<1>4. ~overlapped' => OwnServerIsActive'
  BY <1>1 DEF EntryInv, OwnServerIsActive
<1>5. ~overlapped' /\ ~acceptFailed' => StartedIsServed'
  BY <1>1 DEF EntryInv, StartedIsServed
<1>6. OwnRoomIsServed'
  <2>1. SUFFICES ASSUME ~overlapped', ~acceptFailed', NEW a \in Attempt, stage[a] = "over",
                        appState' = "channel", activeRoom' = invite[a]
                 PROVE  listeners[bound[a]] > 0
    BY <1>1 DEF OwnRoomIsServed
  <2>2. activeRoom' \notin RemoteRoom
    BY <2>1, OwnInvites DEF EntryInv, EntryTypes
  <2>3. appState = "channel" /\ activeRoom = invite[a]
    BY <2>1, <2>2
  <2>4. QED
    BY <1>1, <2>1, <2>3 DEF EntryInv, OwnRoomIsServed
<1>7. ChannelShowsItsInvite'
  BY DEF EntryInv, ChannelShowsItsInvite
<1>8. QED
  BY <1>2, <1>3, <1>4, <1>5, <1>6, <1>7 DEF EntryInv

LEMMA BusyIsUnderWay == (\E a \in Attempt : Busy(a)) => UnderWay
BY DEF Busy, UnderWay

LEMMA CodeStep ==
  ASSUME EntryInv, NEW e \in Entry, HandleCodeComplete(e)
  PROVE  EntryInv'
<1>1. /\ appState = "join" /\ entry[e] = NoRoom
      /\ overlapped' = (overlapped \/ UnderWay)
      /\ UNCHANGED <<preparationVars, appState, activeRoom, inviteCode, pendingJoin, joining>>
  BY DEF HandleCodeComplete
<1>2. PICK room \in RemoteRoom : entry' = [entry EXCEPT ![e] = room]
  BY DEF HandleCodeComplete
<1>3. EntryTypes
  BY DEF EntryInv
<1>4. entry' \in [Entry -> RemoteRoom \cup {NoRoom}]
  BY <1>2, <1>3 DEF EntryTypes
<1>5. ASSUME ~overlapped'
      PROVE  OneHandlerAtATime'
  <2>1. OneHandlerAtATime /\ ~UnderWay
    BY <1>1, <1>5 DEF EntryInv
  <2>2. /\ \A a \in Attempt : ~Busy(a)
        /\ \A f \in Entry : entry[f] = NoRoom
        /\ joining = NoRoom
    BY <2>1 DEF UnderWay, Busy
  <2>3. \A f \in Entry : entry'[f] # NoRoom => f = e
    BY <1>2, <1>3, <2>2 DEF EntryTypes
  <2>4. \A a \in Attempt : ~Busy(a)'
    BY <1>1, <2>2 DEF Busy, preparationVars
  <2>5. QED
    BY <1>1, <2>1, <2>2, <2>3, <2>4 DEF OneHandlerAtATime
<1>6. EntryNext
  BY DEF EntryNext
<1>7. QED
  BY <1>1, <1>3, <1>4, <1>5, <1>6, WindowStep DEF EntryTypes

LEMMA ResolveStep ==
  ASSUME EntryInv, NEW e \in Entry, ResolveSucceeds(e) \/ ResolveFails(e)
  PROVE  EntryInv'
<1>1. /\ entry[e] # NoRoom
      /\ entry' = [entry EXCEPT ![e] = NoRoom]
      /\ UNCHANGED <<preparationVars, activeRoom, joining, overlapped>>
      /\ pendingJoin' \in {NoRoom, entry[e]}
      /\ \/ appState' = "confirm"
         \/ UNCHANGED <<appState, inviteCode>>
  BY DEF ResolveSucceeds, ResolveFails
<1>2. EntryTypes
  BY DEF EntryInv
<1>3. entry' \in [Entry -> RemoteRoom \cup {NoRoom}] /\ pendingJoin' \in RemoteRoom \cup {NoRoom}
  BY <1>1, <1>2 DEF EntryTypes
<1>4. ASSUME ~overlapped'
      PROVE  OneHandlerAtATime'
  <2>1. OneHandlerAtATime
    BY <1>1, <1>4 DEF EntryInv
  <2>2. /\ appState = "join" /\ joining = NoRoom
        /\ \A f \in Entry : f # e => entry[f] = NoRoom
        /\ \A a \in Attempt : ~Busy(a)
    BY <1>1, <2>1 DEF OneHandlerAtATime
  <2>3. \A f \in Entry : entry'[f] = NoRoom
    BY <1>1, <1>2, <2>2 DEF EntryTypes
  <2>4. \A a \in Attempt : ~Busy(a)'
    BY <1>1, <2>2 DEF Busy, preparationVars
  <2>5. activeRoom = NoRoom /\ appState' # "channel"
    BY <1>1, <2>1, <2>2 DEF OneHandlerAtATime
  <2>6. QED
    BY <1>1, <2>2, <2>3, <2>4, <2>5 DEF OneHandlerAtATime
<1>5. [EntryNext]_entryVars
  BY DEF EntryNext
<1>6. QED
  BY <1>1, <1>2, <1>3, <1>4, <1>5, WindowStep DEF EntryTypes

LEMMA ConfirmStep ==
  ASSUME EntryInv, HandleConfirmJoin
  PROVE  EntryInv'
<1>1. /\ appState = "confirm" /\ pendingJoin # NoRoom /\ joining' = pendingJoin
      /\ overlapped' = (overlapped \/ UnderWay)
      /\ UNCHANGED <<preparationVars, appState, activeRoom, inviteCode, pendingJoin, entry>>
  BY DEF HandleConfirmJoin
<1>2. EntryTypes /\ ConfirmSendsTheRightCode
  BY DEF EntryInv
<1>3. ASSUME ~overlapped'
      PROVE  OneHandlerAtATime'
  <2>1. OneHandlerAtATime /\ ~UnderWay
    BY <1>1, <1>3 DEF EntryInv
  <2>2. /\ \A a \in Attempt : ~Busy(a)
        /\ \A f \in Entry : entry[f] = NoRoom
    BY <2>1 DEF UnderWay, Busy
  <2>3. \A a \in Attempt : ~Busy(a)'
    BY <1>1, <2>2 DEF Busy, preparationVars
  <2>4. inviteCode = pendingJoin
    BY <1>1, <1>2 DEF ConfirmSendsTheRightCode
  <2>5. QED
    BY <1>1, <2>1, <2>2, <2>3, <2>4 DEF OneHandlerAtATime
<1>4. [EntryNext]_entryVars
  BY DEF EntryNext
<1>5. QED
  BY <1>1, <1>2, <1>3, <1>4, WindowStep DEF EntryTypes

LEMMA JoinedStep ==
  ASSUME EntryInv, JoinAccepted \/ JoinRejected
  PROVE  EntryInv'
<1>1. /\ joining # NoRoom /\ joining' = NoRoom
      /\ UNCHANGED <<preparationVars, inviteCode, pendingJoin, entry, overlapped>>
      /\ \/ activeRoom' = joining /\ appState' = "channel"
         \/ UNCHANGED <<activeRoom, appState>>
  BY DEF JoinAccepted, JoinRejected
<1>2. EntryTypes
  BY DEF EntryInv
<1>3. ASSUME ~overlapped'
      PROVE  /\ OneHandlerAtATime'
             /\ appState' = "channel" => activeRoom' \in RemoteRoom /\ inviteCode' = activeRoom'
  <2>1. OneHandlerAtATime
    BY <1>1, <1>3 DEF EntryInv
  <2>2. /\ \A a \in Attempt : ~Busy(a)
        /\ \A f \in Entry : entry[f] = NoRoom
        /\ inviteCode = joining /\ appState \in {"confirm", "join"}
        /\ joining \in RemoteRoom
    BY <1>1, <1>2, <2>1 DEF OneHandlerAtATime, EntryTypes
  <2>3. \A a \in Attempt : ~Busy(a)'
    BY <1>1, <2>2 DEF Busy, preparationVars
  <2>4. OneHandlerAtATime'
    BY <1>1, <2>1, <2>2, <2>3 DEF OneHandlerAtATime
  <2>5. QED
    BY <1>1, <2>2, <2>4
<1>4. [EntryNext]_entryVars
  BY DEF EntryNext
<1>5. QED
  BY <1>1, <1>2, <1>3, <1>4, WindowStep DEF EntryTypes

LEMMA BackStep ==
  ASSUME EntryInv, CancelJoin \/ HandleLeave
  PROVE  EntryInv'
<1>1. /\ appState' = "join"
      /\ UNCHANGED <<preparationVars, pendingJoin, entry, joining, overlapped>>
      /\ \/ appState = "confirm" /\ UNCHANGED <<activeRoom, inviteCode>>
         \/ appState = "channel" /\ activeRoom' = NoRoom
  BY DEF CancelJoin, HandleLeave
<1>2. EntryTypes
  BY DEF EntryInv
<1>3. ASSUME ~overlapped'
      PROVE  OneHandlerAtATime'
  <2>1. OneHandlerAtATime
    BY <1>1, <1>3 DEF EntryInv
  <2>2. /\ \A a \in Attempt : ~Busy(a)
        /\ \A f \in Entry : entry[f] = NoRoom
        /\ activeRoom' = NoRoom
        /\ joining # NoRoom => UNCHANGED inviteCode
    BY <1>1, <2>1 DEF OneHandlerAtATime
  <2>3. \A a \in Attempt : ~Busy(a)'
    BY <1>1, <2>2 DEF Busy, preparationVars
  <2>4. QED
    BY <1>1, <2>1, <2>2, <2>3 DEF OneHandlerAtATime
<1>4. [EntryNext]_entryVars
  BY DEF EntryNext
<1>5. QED
  BY <1>1, <1>2, <1>3, <1>4, WindowStep DEF EntryTypes

-----------------------------------------------------------------------------
(* A creation, step by step.                                               *)

\* One step of the attempt that is under way, alone.
LEMMA AloneStays ==
  ASSUME EntryInv, NEW a \in Attempt, Busy(a), ~overlapped,
         \A b \in Attempt : b # a => stage'[b] = stage[b],
         UNCHANGED windowVars
  PROVE  /\ OneHandlerAtATime' /\ appState' = "preparing"
         /\ \A b \in Attempt : b # a => ~Busy(b) /\ stage'[b] \in {"idle", "over"}
<1>1. OneHandlerAtATime
  BY DEF EntryInv
<1>2. appState = "preparing" /\ \A b \in Attempt : b # a => ~Busy(b)
  BY <1>1 DEF OneHandlerAtATime
<1>3. \A b \in Attempt : b # a => stage'[b] \in {"idle", "over"} /\ ~Busy(b)'
  BY <1>2 DEF Busy
<1>4. UNCHANGED <<appState, activeRoom, inviteCode, pendingJoin, entry, joining>>
  BY DEF windowVars
<1>5. OneHandlerAtATime'
  BY <1>1, <1>3, <1>4 DEF OneHandlerAtATime
<1>6. QED
  BY <1>2, <1>3, <1>4, <1>5

\* What all steps of an attempt have in common.
LEMMA AttemptStep ==
  ASSUME EntryInv, [EntryNext]_entryVars, NEW a \in Attempt, Busy(a),
         \A b \in Attempt : b # a => stage'[b] = stage[b],
         UNCHANGED windowVars, UNCHANGED overlapped,
         EntryTypes', InvitesAreOnRecord',
         ~overlapped /\ stage'[a] \in {"listening", "prepared"} => activeServer' = bound'[a],
         ~overlapped /\ stage'[a] = "started" =>
           /\ listeners'[bound'[a]] > 0
           /\ \A b \in Attempt : b # a => invite'[b] # invite'[a]
  PROVE  EntryInv'
<1>1. ASSUME ~overlapped'
      PROVE  /\ OneHandlerAtATime' /\ OwnServerIsActive' /\ StartedIsServed'
             /\ appState' = "preparing"
  <2>1. /\ OneHandlerAtATime' /\ appState' = "preparing"
        /\ \A b \in Attempt : b # a => stage'[b] \in {"idle", "over"}
    BY <1>1, AloneStays
  <2>2. OwnServerIsActive'
    BY <1>1, <2>1 DEF OwnServerIsActive
  <2>3. StartedIsServed'
    BY <1>1, <2>1 DEF StartedIsServed
  <2>4. QED
    BY <2>1, <2>2, <2>3
<1>2. ConfirmSendsTheRightCode'
  BY StepKeepsConfirmation DEF EntryInv
<1>3. OwnRoomIsServed' /\ ChannelShowsItsInvite'
  BY <1>1 DEF OwnRoomIsServed, ChannelShowsItsInvite
<1>4. QED
  BY <1>1, <1>2, <1>3 DEF EntryInv

LEMMA AnInviteIsMade ==
  ASSUME NEW port \in Port, NEW n \in 0..MaxSlot, NEW lease \in PrepareTcpMapping
  PROVE  BuildInvitePayload(port, n, lease) \in Invite
<1>1. lease \in ExternalPort \cup {NoPort}
  BY DEF PrepareTcpMapping, MapTcpPort
<1>2. QED
  BY <1>1 DEF BuildInvitePayload, Invite

LEMMA PrepareStep ==
  ASSUME EntryInv, NEW a \in Attempt, Prepare(a)
  PROVE  EntryInv'
<1>1. [EntryNext]_entryVars /\ Proceed(a) /\ UNCHANGED windowVars /\ UNCHANGED overlapped
  BY DEF EntryNext, Prepare
<1>2. UNCHANGED <<entry, joining, pendingJoin>>
  BY <1>1 DEF windowVars
<1>3. EntryTypes /\ InvitesAreOnRecord
  BY DEF EntryInv
<1>4. CASE NoAddress(a) \/ DuplicateRoom(a)
  <2>1. /\ stage' = [stage EXCEPT ![a] = "failed"]
        /\ UNCHANGED <<activeServer, listeners, slot, rooms, bound, invite>>
        /\ stage[a] = "asked" \/ (stage[a] = "prepared" /\ invite[a] \in rooms)
    BY <1>4 DEF NoAddress, DuplicateRoom, choiceVars, besidesPortVars
  <2>2. /\ stage'[a] = "failed" /\ \A b \in Attempt : b # a => stage'[b] = stage[b]
        /\ Busy(a)
    BY <1>3, <2>1 DEF EntryTypes, Busy
  <2>3. EntryTypes'
    BY <1>2, <1>3, <2>1 DEF EntryTypes, Stages
  <2>4. InvitesAreOnRecord'
    BY <1>3, <2>1, <2>2 DEF InvitesAreOnRecord, EntryTypes
  <2>5. QED
    BY <1>1, <2>2, <2>3, <2>4, AttemptStep
<1>5. CASE ReadLastPort(a) \/ BindServer(a) \/ RecordPort(a) \/ Activate(a)
  <2>1. UNCHANGED <<listeners, slot, rooms, invite>>
    BY <1>5 DEF ReadLastPort, BindServer, RecordPort, Activate, besidesPortVars
  <2>2. Choosing(a) \/ stage[a] = "asked"
    BY <1>5 DEF ReadLastPort, BindServer, RecordPort, Activate, Choosing
  <2>3. PICK t \in {"binding", "bound", "recorded", "listening"}, p \in Port \cup {NoPort} :
          /\ stage' = [stage EXCEPT ![a] = t] /\ bound' = [bound EXCEPT ![a] = p]
          /\ t # "binding" => p \in Port
          /\ t = "listening" => activeServer' = p
    <3>1. bound = [bound EXCEPT ![a] = bound[a]] /\ stage = [stage EXCEPT ![a] = stage[a]]
      BY <1>3 DEF EntryTypes
    <3>2. bound[a] \in Port \cup {NoPort} /\ (stage[a] \in {"bound", "recorded"} => bound[a] \in Port)
      BY <1>3 DEF EntryTypes, InvitesAreOnRecord
    <3>3. CASE ReadLastPort(a)
      BY <3>1, <3>2, <3>3 DEF ReadLastPort
    <3>4. CASE BindServer(a)
      BY <3>1, <3>2, <3>4 DEF BindServer
    <3>5. CASE RecordPort(a)
      BY <3>1, <3>2, <3>5 DEF RecordPort
    <3>6. CASE Activate(a)
      BY <3>1, <3>2, <3>6 DEF Activate
    <3>7. QED
      BY <1>5, <3>3, <3>4, <3>5, <3>6
  <2>4. /\ stage'[a] = t /\ \A b \in Attempt : b # a => stage'[b] = stage[b]
        /\ bound'[a] = p /\ \A b \in Attempt : b # a => bound'[b] = bound[b]
        /\ Busy(a)
    BY <1>3, <2>2, <2>3 DEF EntryTypes, Busy, Choosing
  <2>5. EntryTypes'
    BY <1>2, <1>3, <2>1, <2>3 DEF EntryTypes, Stages
  <2>6. InvitesAreOnRecord'
    BY <1>3, <2>1, <2>2, <2>3, <2>4 DEF InvitesAreOnRecord, Choosing
  <2>7. QED
    BY <1>1, <2>3, <2>4, <2>5, <2>6, AttemptStep
<1>6. CASE PrepareInvite(a)
  <2>1. /\ stage[a] = "listening" /\ stage' = [stage EXCEPT ![a] = "prepared"]
        /\ UNCHANGED <<activeServer, listeners, slot, rooms, bound>>
    BY <1>6 DEF PrepareInvite, choiceVars
  <2>2. PICK lease \in PrepareTcpMapping :
          invite' = [invite EXCEPT ![a] = BuildInvitePayload(bound[a], @.slot, lease)]
    BY <1>6 DEF PrepareInvite
  <2>3. bound[a] \in Port /\ invite[a].slot \in 0..MaxSlot
    BY <1>3, <2>1 DEF InvitesAreOnRecord, EntryTypes, OwnInvite, Invite, NoInvite
  <2>4. PICK made \in Invite : made = BuildInvitePayload(bound[a], invite[a].slot, lease)
    BY <2>3, AnInviteIsMade
  <2>5. invite' = [invite EXCEPT ![a] = made]
    BY <2>2, <2>4
  <2>6. /\ stage'[a] = "prepared" /\ \A b \in Attempt : b # a => stage'[b] = stage[b]
        /\ invite'[a] = made /\ \A b \in Attempt : b # a => invite'[b] = invite[b]
        /\ Busy(a)
    BY <1>3, <2>1, <2>5 DEF EntryTypes, Busy
  <2>7. EntryTypes'
    <3>1. invite' \in [Attempt -> OwnInvite]
      BY <1>3, <2>5 DEF EntryTypes, OwnInvite
    <3>2. QED
      BY <1>2, <1>3, <2>1, <3>1 DEF EntryTypes, Stages
  <2>8. InvitesAreOnRecord'
    BY <1>3, <2>1, <2>3, <2>6 DEF InvitesAreOnRecord
  <2>9. ~overlapped => activeServer' = bound'[a]
    BY <2>1 DEF EntryInv, OwnServerIsActive
  <2>10. QED
    BY <1>1, <2>6, <2>7, <2>8, <2>9, AttemptStep
<1>7. CASE StartRuntime(a)
  <2>1. /\ stage[a] = "prepared" /\ invite[a] \notin rooms /\ rooms' = rooms \cup {invite[a]}
        /\ UNCHANGED <<activeServer, slot, bound, invite>>
        /\ \/ /\ listeners' = [listeners EXCEPT ![activeServer] = @ + 1]
              /\ stage' = [stage EXCEPT ![a] = "started"]
           \/ stage' = [stage EXCEPT ![a] = "failed"] /\ UNCHANGED listeners
    BY <1>7 DEF StartRuntime, choiceVars
  <2>2. bound[a] \in Port /\ invite[a] \in Invite
    BY <1>3, <2>1 DEF InvitesAreOnRecord
  <2>3. /\ stage'[a] \in {"started", "failed"}
        /\ \A b \in Attempt : b # a => stage'[b] = stage[b]
        /\ Busy(a)
    BY <1>3, <2>1 DEF EntryTypes, Busy
  <2>4. EntryTypes'
    <3>1. stage' \in [Attempt -> Stages]
      BY <1>3, <2>1 DEF EntryTypes, Stages
    <3>2. listeners' \in [Port -> Nat]
      BY <1>3, <2>1 DEF EntryTypes
    <3>3. rooms' \subseteq Invite
      BY <1>3, <2>1, <2>2 DEF EntryTypes
    <3>4. QED
      BY <1>2, <1>3, <2>1, <3>1, <3>2, <3>3 DEF EntryTypes
  <2>5. InvitesAreOnRecord'
    <3>1. ASSUME NEW b \in Attempt
          PROVE  /\ stage'[b] = "idle" => invite[b] \notin Invite
                 /\ stage'[b] \in {"bound", "recorded", "listening", "prepared", "started"} =>
                      bound[b] \in Port
                 /\ stage'[b] \in {"prepared", "started"} => invite[b] \in Invite
                 /\ stage'[b] \in {"asked", "binding", "bound", "recorded", "listening"} =>
                      invite[b] \notin Invite
                 /\ stage'[b] \in {"started", "failed", "over"} =>
                      invite[b] \in rooms' \cup (OwnInvite \ Invite)
      <4>1. CASE b = a
        BY <2>1, <2>2, <2>3, <4>1
      <4>2. CASE b # a
        BY <1>3, <2>1, <2>3, <4>2 DEF InvitesAreOnRecord
      <4>3. QED
        BY <4>1, <4>2
    <3>2. QED
      BY <2>1, <3>1 DEF InvitesAreOnRecord
  <2>6. ASSUME ~overlapped, stage'[a] = "started"
        PROVE  /\ listeners'[bound'[a]] > 0
               /\ \A b \in Attempt : b # a => invite'[b] # invite'[a]
    <3>1. activeServer = bound[a]
      BY <2>1, <2>6 DEF EntryInv, OwnServerIsActive
    <3>2. listeners' = [listeners EXCEPT ![bound[a]] = @ + 1]
      <4>1. stage' # [stage EXCEPT ![a] = "failed"]
        BY <1>3, <2>6 DEF EntryTypes
      <4>2. QED
        BY <2>1, <3>1, <4>1
    <3>3. listeners'[bound[a]] > 0
      BY <1>3, <2>2, <3>2 DEF EntryTypes
    <3>4. \A b \in Attempt : b # a => stage[b] \in {"idle", "over"}
      BY <1>1, <2>3, <2>6, AloneStays DEF Busy
    <3>5. \A b \in Attempt : b # a => invite[b] # invite[a]
      BY <1>3, <2>1, <2>2, <3>4 DEF InvitesAreOnRecord
    <3>6. QED
      BY <2>1, <3>3, <3>5
  <2>7. QED
    BY <1>1, <2>3, <2>4, <2>5, <2>6, AttemptStep
<1>8. QED
  BY <1>1, <1>4, <1>5, <1>6, <1>7 DEF Proceed

LEMMA CreateStep ==
  ASSUME EntryInv, NEW a \in Attempt, HandleCreateRoom(a)
  PROVE  EntryInv'
<1>1. /\ appState = "join" /\ stage[a] = "idle" /\ appState' = "preparing"
      /\ stage' = [stage EXCEPT ![a] = "asked"]
      /\ overlapped' = (overlapped \/ UnderWay)
      /\ UNCHANGED <<activeServer, listeners, rooms, bound, acceptFailed>>
      /\ UNCHANGED <<activeRoom, inviteCode, pendingJoin, entry, joining>>
  BY DEF HandleCreateRoom, Ask, choiceVars
<1>2. EntryTypes /\ InvitesAreOnRecord
  BY DEF EntryInv
<1>3. PICK now \in 0..MaxSlot :
        /\ slot' = now
        /\ invite' = [invite EXCEPT ![a] = [NoInvite EXCEPT !.slot = now]]
  <2>1. PICK now \in slot..MaxSlot :
          /\ slot' = now
          /\ invite' = [invite EXCEPT ![a] = [NoInvite EXCEPT !.slot = now]]
    BY DEF HandleCreateRoom, Ask
  <2>2. now \in 0..MaxSlot
    BY <1>2, PreparationAssumption DEF EntryTypes
  <2>3. QED
    BY <2>1, <2>2
<1>4. PICK begun \in OwnInvite \ Invite : invite' = [invite EXCEPT ![a] = begun]
  BY <1>3, OwnInvites DEF OwnInvite
<1>5. /\ stage'[a] = "asked" /\ \A b \in Attempt : b # a => stage'[b] = stage[b]
      /\ invite'[a] = begun /\ \A b \in Attempt : b # a => invite'[b] = invite[b]
  BY <1>1, <1>2, <1>4 DEF EntryTypes
<1>6. EntryTypes'
  BY <1>1, <1>2, <1>3, <1>4 DEF EntryTypes, Stages
<1>7. InvitesAreOnRecord'
  BY <1>1, <1>2, <1>3, <1>5 DEF InvitesAreOnRecord
<1>8. ASSUME ~overlapped'
      PROVE  OneHandlerAtATime' /\ OwnServerIsActive' /\ StartedIsServed'
  <2>1. OneHandlerAtATime /\ ~UnderWay
    BY <1>1, <1>8 DEF EntryInv
  <2>2. /\ \A b \in Attempt : stage[b] \in {"idle", "over"}
        /\ \A e \in Entry : entry[e] = NoRoom
        /\ joining = NoRoom
    BY <2>1 DEF UnderWay
  <2>3. \A b \in Attempt : b # a => stage'[b] \in {"idle", "over"} /\ ~Busy(b)'
    BY <1>5, <2>2 DEF Busy
  <2>4. OneHandlerAtATime'
    BY <1>1, <2>1, <2>2, <2>3 DEF OneHandlerAtATime
  <2>5. OwnServerIsActive' /\ StartedIsServed'
    BY <1>5, <2>3 DEF OwnServerIsActive, StartedIsServed
  <2>6. QED
    BY <2>4, <2>5
<1>9. ConfirmSendsTheRightCode' /\ OwnRoomIsServed' /\ ChannelShowsItsInvite'
  BY <1>1 DEF ConfirmSendsTheRightCode, OwnRoomIsServed, ChannelShowsItsInvite
<1>10. QED
  BY <1>6, <1>7, <1>8, <1>9 DEF EntryInv

\* What the ends of a creation have in common: the window is free again.
LEMMA EndStep ==
  ASSUME EntryInv, NEW a \in Attempt, stage[a] \in {"started", "failed"}, Finish(a),
         UNCHANGED <<pendingJoin, entry, joining, overlapped>>,
         appState' \in {"join", "channel"},
         activeRoom = NoRoom => (activeRoom' # NoRoom <=> appState' = "channel")
  PROVE  /\ EntryTypes' /\ InvitesAreOnRecord'
         /\ ~overlapped' => OneHandlerAtATime' /\ OwnServerIsActive' /\ StartedIsServed'
         /\ stage'[a] = "over" /\ \A b \in Attempt : b # a => stage'[b] = stage[b]
<1>1. /\ stage' = [stage EXCEPT ![a] = "over"]
      /\ UNCHANGED <<activeServer, listeners, slot, rooms, bound, invite, acceptFailed>>
  BY DEF Finish, choiceVars, besidesPortVars
<1>2. EntryTypes /\ InvitesAreOnRecord
  BY DEF EntryInv
<1>3. stage'[a] = "over" /\ \A b \in Attempt : b # a => stage'[b] = stage[b]
  BY <1>1, <1>2 DEF EntryTypes
<1>4. EntryTypes'
  BY <1>1, <1>2 DEF EntryTypes, Stages
<1>5. InvitesAreOnRecord'
  BY <1>1, <1>2, <1>3 DEF InvitesAreOnRecord
<1>6. ASSUME ~overlapped'
      PROVE  OneHandlerAtATime' /\ OwnServerIsActive' /\ StartedIsServed'
  <2>1. OneHandlerAtATime /\ Busy(a)
    BY <1>6 DEF EntryInv, Busy
  <2>2. /\ joining = NoRoom /\ appState = "preparing"
        /\ \A e \in Entry : entry[e] = NoRoom
        /\ \A b \in Attempt : b # a => ~Busy(b)
        /\ activeRoom = NoRoom
    BY <2>1 DEF OneHandlerAtATime
  <2>3. \A b \in Attempt : stage'[b] \in {"idle", "over"} /\ ~Busy(b)'
    BY <1>3, <2>2 DEF Busy
  <2>4. OneHandlerAtATime'
    BY <2>2, <2>3 DEF OneHandlerAtATime
  <2>5. OwnServerIsActive' /\ StartedIsServed'
    BY <2>3 DEF OwnServerIsActive, StartedIsServed
  <2>6. QED
    BY <2>4, <2>5
<1>7. QED
  BY <1>3, <1>4, <1>5, <1>6

LEMMA CreateFailsStep ==
  ASSUME EntryInv, NEW a \in Attempt, CreateFails(a)
  PROVE  EntryInv'
<1>1. /\ stage[a] = "failed" /\ Finish(a) /\ appState' = "join"
      /\ UNCHANGED <<activeRoom, inviteCode, pendingJoin, entry, joining, overlapped>>
  BY DEF CreateFails
<1>2. /\ EntryTypes' /\ InvitesAreOnRecord'
      /\ ~overlapped' => OneHandlerAtATime' /\ OwnServerIsActive' /\ StartedIsServed'
  BY <1>1, EndStep
<1>3. ConfirmSendsTheRightCode' /\ OwnRoomIsServed' /\ ChannelShowsItsInvite'
  BY <1>1 DEF ConfirmSendsTheRightCode, OwnRoomIsServed, ChannelShowsItsInvite
<1>4. QED
  BY <1>2, <1>3 DEF EntryInv

LEMMA EnterStep ==
  ASSUME EntryInv, NEW a \in Attempt, EnterOwnRoom(a)
  PROVE  EntryInv'
<1>1. /\ stage[a] = "started" /\ Finish(a) /\ appState' = "channel"
      /\ activeRoom' = invite[a] /\ inviteCode' = invite[a]
      /\ UNCHANGED <<pendingJoin, entry, joining, overlapped>>
  BY DEF EnterOwnRoom
<1>2. invite[a] \in Invite /\ invite[a] # NoRoom
  BY <1>1, OwnInvites DEF EntryInv, InvitesAreOnRecord
<1>3. /\ EntryTypes' /\ InvitesAreOnRecord'
      /\ ~overlapped' => OneHandlerAtATime' /\ OwnServerIsActive' /\ StartedIsServed'
  BY <1>1, <1>2, EndStep
<1>4. OwnRoomIsServed'
  <2>1. UNCHANGED <<listeners, bound, invite, acceptFailed>>
    BY <1>1 DEF Finish, choiceVars, besidesPortVars
  <2>2. SUFFICES ASSUME ~overlapped, ~acceptFailed, NEW b \in Attempt, invite[a] = invite[b]
                 PROVE  listeners[bound[b]] > 0
    BY <1>1, <2>1 DEF OwnRoomIsServed
  <2>3. StartedIsServed
    BY <2>2 DEF EntryInv
  <2>4. QED
    BY <1>1, <2>2, <2>3 DEF StartedIsServed
<1>5. ConfirmSendsTheRightCode' /\ ChannelShowsItsInvite'
  BY <1>1 DEF ConfirmSendsTheRightCode, ChannelShowsItsInvite
<1>6. QED
  BY <1>3, <1>4, <1>5 DEF EntryInv

\* The step of the machine the window takes no part in.
LEMMA MachineStep ==
  ASSUME EntryInv, AcceptFails, UNCHANGED windowVars, UNCHANGED overlapped
  PROVE  EntryInv'
<1>1. /\ UNCHANGED <<appState, activeRoom, inviteCode, pendingJoin, entry, joining>>
      /\ UNCHANGED <<activeServer, slot, rooms, stage, bound, invite>>
  BY DEF windowVars, AcceptFails, choiceVars
<1>2. acceptFailed'
  BY DEF AcceptFails
<1>3. listeners' \in [Port -> Nat]
  BY DEF EntryInv, EntryTypes, AcceptFails
<1>4. EntryTypes'
  BY <1>1, <1>3 DEF EntryInv, EntryTypes
<1>5. InvitesAreOnRecord'
  BY <1>1 DEF EntryInv, InvitesAreOnRecord
<1>6. ~overlapped' => OneHandlerAtATime' /\ OwnServerIsActive'
  BY <1>1 DEF EntryInv, OneHandlerAtATime, OwnServerIsActive, Busy
<1>7. OwnRoomIsServed'
  BY <1>2 DEF OwnRoomIsServed
<1>8. ConfirmSendsTheRightCode' /\ ChannelShowsItsInvite'
  BY <1>1 DEF EntryInv, ConfirmSendsTheRightCode, ChannelShowsItsInvite
<1>9. QED
  BY <1>2, <1>4, <1>5, <1>6, <1>7, <1>8 DEF EntryInv

LEMMA EntryStep ==
  ASSUME EntryInv, [EntryNext]_entryVars
  PROVE  EntryInv'
<1>1. CASE EntryNext
  BY <1>1, CreateStep, PrepareStep, CreateFailsStep, EnterStep, CodeStep, ResolveStep,
     ConfirmStep, JoinedStep, BackStep, MachineStep DEF EntryNext
<1>2. CASE UNCHANGED entryVars
  <2>1. /\ UNCHANGED <<activeServer, listeners, slot, rooms, stage, bound, invite, acceptFailed>>
        /\ UNCHANGED <<appState, activeRoom, inviteCode, pendingJoin, entry, joining, overlapped>>
    BY <1>2 DEF entryVars, preparationVars
  <2>2. EntryTypes' /\ InvitesAreOnRecord' /\ ConfirmSendsTheRightCode'
    BY <2>1 DEF EntryInv, EntryTypes, InvitesAreOnRecord, ConfirmSendsTheRightCode
  <2>3. /\ ~overlapped' => OneHandlerAtATime' /\ OwnServerIsActive'
        /\ ~overlapped' /\ ~acceptFailed' => StartedIsServed'
    BY <2>1 DEF EntryInv, OneHandlerAtATime, OwnServerIsActive, Busy, StartedIsServed
  <2>4. OwnRoomIsServed' /\ ChannelShowsItsInvite'
    BY <2>1 DEF EntryInv, OwnRoomIsServed, ChannelShowsItsInvite
  <2>5. QED
    BY <2>2, <2>3, <2>4 DEF EntryInv
<1>3. QED
  BY <1>1, <1>2

LEMMA EntryBegins ==
  ASSUME EntryInit
  PROVE  EntryInv
<1>1. /\ listeners = [p \in Port |-> 0] /\ slot = 0 /\ rooms = {}
      /\ stage = [a \in Attempt |-> "idle"]
      /\ bound = [a \in Attempt |-> NoPort]
      /\ invite = [a \in Attempt |-> NoInvite]
      /\ appState = "join" /\ activeRoom = NoRoom /\ inviteCode = NoRoom
      /\ pendingJoin = NoRoom /\ joining = NoRoom
      /\ entry = [e \in Entry |-> NoRoom]
  BY DEF EntryInit, PreparationInit
<1>2. 0 \in 0..MaxSlot
  BY PreparationAssumption
<1>3. EntryTypes
  BY <1>1, <1>2, OwnInvites DEF EntryTypes, Stages
<1>4. InvitesAreOnRecord
  BY <1>1, OwnInvites DEF InvitesAreOnRecord
<1>5. OneHandlerAtATime
  BY <1>1 DEF OneHandlerAtATime, Busy
<1>6. OwnServerIsActive /\ StartedIsServed
  BY <1>1 DEF OwnServerIsActive, StartedIsServed
<1>7. ConfirmSendsTheRightCode /\ OwnRoomIsServed /\ ChannelShowsItsInvite
  BY <1>1 DEF ConfirmSendsTheRightCode, OwnRoomIsServed, ChannelShowsItsInvite
<1>8. QED
  BY <1>3, <1>4, <1>5, <1>6, <1>7 DEF EntryInv

\* For any pool of ports, any routers and any number of rooms made one after the other,
\* the room the owner's window is in has a listener on the port its invite was made for,
\* unless accept has failed once: prepare_room_invite and start_host_runtime_session,
\* two commands with the mapping awaited in between, agree on the server.
THEOREM OwnRoomStaysServed == EntrySpec => []OwnRoomIsServed
<1>1. EntryInv => OwnRoomIsServed
  BY DEF EntryInv
<1> QED
  BY <1>1, EntryBegins, EntryStep, PTL DEF EntrySpec

\* However a window that does one thing at a time got into its room, the code it offers
\* to others is that room's: created, or joined after any number of codes that were
\* entered, confirmed, cancelled or rejected before.
THEOREM ChannelCodeIsItsRooms == EntrySpec => []ChannelShowsItsInvite
<1>1. EntryInv => ChannelShowsItsInvite
  BY DEF EntryInv
<1> QED
  BY <1>1, EntryBegins, EntryStep, PTL DEF EntrySpec

-----------------------------------------------------------------------------
(* The screen of the preparation, in steps: what PreparationEnds rests on,  *)
(* beside the fairness.                                                     *)

\* A window that shows the preparation waits for an attempt that is under way.
SomebodyPrepares == appState = "preparing" => \E a \in Attempt : Busy(a)

\* How far an attempt has come.
Place(s) ==
  CASE s = "idle" -> 0
    [] s = "asked" -> 1
    [] s = "binding" -> 2
    [] s = "bound" -> 3
    [] s = "recorded" -> 4
    [] s = "listening" -> 5
    [] s = "prepared" -> 6
    [] s \in {"started", "failed"} -> 7
    [] s = "over" -> 8

\* The steps of an attempt.
ReturnsTo(a) == Prepare(a) \/ CreateFails(a) \/ EnterOwnRoom(a)

\* bind_server found a port taken and has another to try.
TriesTheNextPort(a) ==
  /\ stage[a] = "binding" /\ UNCHANGED <<stage, lastRead>>
  /\ tried[a] + 1 \in DOMAIN Candidates(lastRead[a])
  /\ tried' = [tried EXCEPT ![a] = tried[a] + 1]

\* No attempt goes back or starts again, each of its steps takes it further or to the
\* next of the ports it tries, and an attempt that ends takes the screen away.
AttemptsGoOn ==
  \A a \in Attempt :
    /\ Place(stage[a]) <= Place(stage'[a])
    /\ ReturnsTo(a) => Place(stage[a]) < Place(stage'[a]) \/ TriesTheNextPort(a)
    /\ Busy(a) /\ ~Busy(a)' => appState' # "preparing"

LEMMA PlaceIsNat == \A s \in Stages : Place(s) \in 0..8
BY DEF Place, Stages

\* One attempt moves from stage s to stage t, or begins.
LEMMA OneAttemptMoves ==
  ASSUME EntryInv, NEW a \in Attempt, NEW t \in Stages \ {"idle"},
         stage' = [stage EXCEPT ![a] = t],
         Place(stage[a]) < Place(t),
         t = "over" => appState' # "preparing",
         SomebodyPrepares, Busy(a) \/ appState' = "preparing",
         appState' = "preparing" /\ Busy(a) => appState = "preparing"
  PROVE  AttemptsGoOn /\ SomebodyPrepares'
<1>1. stage \in [Attempt -> Stages]
  BY DEF EntryInv, EntryTypes, Stages
<1>2. /\ stage'[a] = t
      /\ \A b \in Attempt : b # a => stage'[b] = stage[b]
  BY <1>1
<1>3. ASSUME NEW b \in Attempt, b # a
      PROVE  /\ Place(stage[b]) <= Place(stage'[b])
             /\ Busy(b)' = Busy(b)
             /\ ~ReturnsTo(b)
  <2>1. Place(stage[b]) \in 0..8
    BY <1>1, PlaceIsNat
  <2>2. Place(stage[b]) <= Place(stage'[b])
    BY <1>2, <1>3, <2>1
  <2>3. stage' # stage
    BY <1>2, PlaceIsNat, <1>1
  <2>4. ReturnsTo(b) => stage'[b] # stage[b]
    BY <1>1, <2>3 DEF ReturnsTo, Prepare, Proceed, NoAddress, ReadLastPort, BindServer,
          RecordPort, Activate, PrepareInvite, StartRuntime, DuplicateRoom, CreateFails,
          EnterOwnRoom, Finish, Stages
  <2>5. QED
    BY <1>2, <1>3, <2>2, <2>4 DEF Busy
<1>4. Place(stage[a]) \in 0..8 /\ Place(t) \in 0..8
  BY <1>1, PlaceIsNat
<1>5. AttemptsGoOn
  BY <1>2, <1>3, <1>4 DEF AttemptsGoOn, Busy
<1>6. SomebodyPrepares'
  BY <1>2 DEF SomebodyPrepares, Busy
<1>7. QED
  BY <1>5, <1>6

\* The attempts stand still; the screen of the preparation does not come up.
LEMMA NoAttemptMoves ==
  ASSUME EntryInv, SomebodyPrepares, UNCHANGED stage,
         appState' = "preparing" => appState = "preparing"
  PROVE  AttemptsGoOn /\ SomebodyPrepares'
<1>1. stage \in [Attempt -> Stages]
  BY DEF EntryInv, EntryTypes, Stages
<1>2. ASSUME NEW a \in Attempt
      PROVE  ReturnsTo(a) => TriesTheNextPort(a)
  <2>1. stage[a] \in Stages
    BY <1>1
  <2>2. ReturnsTo(a) => BindServer(a)
    BY <1>1 DEF ReturnsTo, Prepare, Proceed, NoAddress, ReadLastPort, RecordPort, Activate,
          PrepareInvite, StartRuntime, DuplicateRoom, CreateFails, EnterOwnRoom, Finish
  <2>3. BindServer(a) => TriesTheNextPort(a)
    BY <1>1 DEF BindServer, TriesTheNextPort
  <2>4. QED
    BY <2>2, <2>3
<1>3. ASSUME NEW a \in Attempt
      PROVE  Place(stage[a]) <= Place(stage'[a]) /\ Busy(a)' = Busy(a)
  <2>1. Place(stage[a]) \in 0..8
    BY <1>1, PlaceIsNat
  <2>2. QED
    BY <2>1 DEF Busy
<1>4. QED
  BY <1>2, <1>3 DEF AttemptsGoOn, SomebodyPrepares

LEMMA PreparationStep ==
  ASSUME EntryInv, SomebodyPrepares, [EntryNext]_entryVars
  PROVE  AttemptsGoOn /\ SomebodyPrepares'
<1>1. ASSUME NEW a \in Attempt, HandleCreateRoom(a)
      PROVE  AttemptsGoOn /\ SomebodyPrepares'
  <2>1. /\ stage[a] = "idle" /\ stage' = [stage EXCEPT ![a] = "asked"]
        /\ appState' = "preparing"
    BY <1>1 DEF HandleCreateRoom, Ask
  <2>2. "asked" \in Stages \ {"idle"} /\ Place("idle") < Place("asked") /\ ~Busy(a)
    BY <2>1 DEF Stages, Place, Busy
  <2>3. QED
    BY <2>1, <2>2, OneAttemptMoves
<1>2. ASSUME NEW a \in Attempt, Prepare(a)
      PROVE  AttemptsGoOn /\ SomebodyPrepares'
  <2>1. appState' = appState
    BY <1>2 DEF Prepare, windowVars
  <2> DEFINE Later == {"binding", "bound", "recorded", "listening", "prepared", "started",
                        "failed"}
             MovesTo(t) == /\ stage' = [stage EXCEPT ![a] = t]
                           /\ Busy(a) /\ Place(stage[a]) < Place(t)
  <2>2. UNCHANGED stage \/ \E t \in Later : MovesTo(t)
    <3>1. CASE NoAddress(a)
      BY <3>1 DEF NoAddress, Place, Busy
    <3>2. CASE ReadLastPort(a)
      BY <3>2 DEF ReadLastPort, Place, Busy
    <3>3. CASE BindServer(a)
      BY <3>3 DEF BindServer, Place, Busy
    <3>4. CASE RecordPort(a)
      BY <3>4 DEF RecordPort, Place, Busy
    <3>5. CASE Activate(a)
      BY <3>5 DEF Activate, Place, Busy
    <3>6. CASE PrepareInvite(a)
      BY <3>6 DEF PrepareInvite, Place, Busy
    <3>7. CASE StartRuntime(a)
      BY <3>7 DEF StartRuntime, Place, Busy
    <3>8. CASE DuplicateRoom(a)
      BY <3>8 DEF DuplicateRoom, Place, Busy
    <3>9. QED
      BY <1>2, <3>1, <3>2, <3>3, <3>4, <3>5, <3>6, <3>7, <3>8 DEF Prepare, Proceed
  <2>3. ASSUME NEW t \in Later, MovesTo(t)
        PROVE  AttemptsGoOn /\ SomebodyPrepares'
    <3>1. t \in Stages \ {"idle"} /\ t # "over"
      BY <2>3 DEF Stages
    <3>2. QED
      BY <2>1, <2>3, <3>1, OneAttemptMoves
  <2>4. QED
    BY <2>1, <2>2, <2>3, NoAttemptMoves
<1>3. ASSUME NEW a \in Attempt, CreateFails(a) \/ EnterOwnRoom(a)
      PROVE  AttemptsGoOn /\ SomebodyPrepares'
  <2>1. /\ stage' = [stage EXCEPT ![a] = "over"]
        /\ stage[a] \in {"started", "failed"}
        /\ appState' # "preparing"
    BY <1>3 DEF CreateFails, EnterOwnRoom, Finish
  <2>2. "over" \in Stages \ {"idle"} /\ Place(stage[a]) < Place("over") /\ Busy(a)
    BY <2>1 DEF Stages, Place, Busy
  <2>3. QED
    BY <2>1, <2>2, OneAttemptMoves
<1>4. ASSUME NEW e \in Entry, HandleCodeComplete(e) \/ ResolveSucceeds(e) \/ ResolveFails(e)
      PROVE  UNCHANGED stage /\ (appState' = "preparing" => appState = "preparing")
  BY <1>4 DEF HandleCodeComplete, ResolveSucceeds, ResolveFails, preparationVars
<1>5. ASSUME HandleConfirmJoin \/ JoinAccepted \/ JoinRejected \/ CancelJoin \/ HandleLeave
      PROVE  UNCHANGED stage /\ (appState' = "preparing" => appState = "preparing")
  BY <1>5 DEF HandleConfirmJoin, JoinAccepted, JoinRejected, CancelJoin, HandleLeave,
              preparationVars
<1>6. ASSUME AcceptFails /\ UNCHANGED windowVars
      PROVE  UNCHANGED stage /\ (appState' = "preparing" => appState = "preparing")
  BY <1>6 DEF AcceptFails, windowVars
<1>7. ASSUME UNCHANGED entryVars
      PROVE  UNCHANGED stage /\ (appState' = "preparing" => appState = "preparing")
  BY <1>7 DEF entryVars, preparationVars
<1>8. QED
  BY <1>1, <1>2, <1>3, <1>4, <1>5, <1>6, <1>7, NoAttemptMoves DEF EntryNext

\* The window never shows the preparation of a room with nothing under way, also when
\* creations, codes and joins overlap: handleCreateRoom is left by every way out of it.
THEOREM PreparationIsUnderWay == EntrySpec => []SomebodyPrepares
<1>1. EntryInit => SomebodyPrepares
  BY DEF EntryInit, SomebodyPrepares
<1>2. SomebodyPrepares /\ EntryInv /\ [EntryNext]_entryVars => SomebodyPrepares'
  BY PreparationStep
<1>3. EntryInit => EntryInv
  BY EntryBegins
<1>4. EntryInv /\ [EntryNext]_entryVars => EntryInv'
  BY EntryStep
<1> QED
  BY <1>1, <1>2, <1>3, <1>4, PTL DEF EntrySpec

\* handleCreateRoom and the commands it awaits never go back: every step takes the attempt
\* nearer to its end, but for a port that is found taken, which takes it to the next of
\* the ports it tries; and its end takes the screen of the preparation away.
THEOREM PreparationsOnlyGoOn == EntrySpec => [][AttemptsGoOn]_entryVars
<1>1. SomebodyPrepares /\ EntryInv /\ [EntryNext]_entryVars => [AttemptsGoOn]_entryVars
  BY PreparationStep
<1>2. EntryInit => EntryInv
  BY EntryBegins
<1>3. EntryInv /\ [EntryNext]_entryVars => EntryInv'
  BY EntryStep
<1> QED
  BY <1>1, <1>2, <1>3, PreparationIsUnderWay, PTL DEF EntrySpec

-----------------------------------------------------------------------------
(* How long the code of a room lets others in: what CodesHoldTheirHour of    *)
(* InviteExchange rests on, beside the conversions of the code, and why      *)
(* ExpiredCodesStayRefused fails.                                            *)

Code == INSTANCE InviteCode

\* A code is refused from the thirteenth slot after the one it was made in until half a
\* cycle after its expiry, and taken in all others, in whatever slot it was made and
\* however far the joiner's clock is ahead, or behind: buildInviteEndpoint and
\* is_expired, which both count modulo 1024.
THEOREM CodesLastAnHour ==
  \A made \in 0..(Code!SlotCycle - 1), later \in Int :
    Code!IsExpired(Code!ExpirySlot(made), (made + later) % Code!SlotCycle)
      <=> later % Code!SlotCycle \in 13..523
BY DEF Code!IsExpired, Code!ExpirySlot, Code!SlotCycle

=============================================================================
