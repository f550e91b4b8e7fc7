------------------------------- MODULE RoomEntry -------------------------------
(***************************************************************************)
(* How a window gets into a room: handleCreateRoom, handleCodeComplete,      *)
(* handleConfirmJoin and handleLeave of App.tsx, with the preparation of a   *)
(* room on its own machine.  These handlers await several commands and set   *)
(* the state of the window when they are done, whatever the window has       *)
(* turned to in the meantime.                                                *)
(***************************************************************************)
EXTENDS RoomPreparation

CONSTANTS
  Entry,       \* bound on the codes that are resolved at one time
  RemoteRoom,  \* invites of rooms on other machines
  NoRoom       \* no invite

\* A code names an endpoint, so that of a room on another machine is not one of this
\* machine's, be it only begun.
ASSUME EntryAssumption ==
  /\ NoRoom \notin RemoteRoom \cup Invite
  /\ RemoteRoom \cap Invite = {}
  /\ \A n \in 0..MaxSlot : [NoInvite EXCEPT !.slot = n] \notin RemoteRoom

VARIABLES
  appState,     \* appState
  activeRoom,   \* activeRoomId
  inviteCode,   \* inviteCode
  pendingJoin,  \* pendingJoin, by its room
  entry,        \* handleCodeComplete: the rooms of the codes that are being resolved
  joining,      \* handleConfirmJoin: the rooms asked to let the window in
  overlapped    \* history: a handler was started while another one was under way

windowVars == <<appState, activeRoom, inviteCode, pendingJoin, entry, joining>>
entryVars == <<preparationVars, appState, activeRoom, inviteCode, pendingJoin, entry, joining,
               overlapped>>

UnderWay ==
  \/ \E a \in Attempt : stage[a] \notin {"idle", "over"}
  \/ \E e \in Entry : entry[e] # NoRoom
  \/ joining # NoRoom

-----------------------------------------------------------------------------
HandleCreateRoom(a) ==
  /\ appState = "join"
  /\ Ask(a)
  /\ appState' = "preparing"
  /\ overlapped' = (overlapped \/ UnderWay)
  /\ UNCHANGED <<activeRoom, inviteCode, pendingJoin, entry, joining>>

Prepare(a) == Proceed(a) /\ UNCHANGED windowVars /\ UNCHANGED overlapped

Finish(a) ==
  /\ stage' = [stage EXCEPT ![a] = "over"]
  /\ UNCHANGED <<choiceVars, besidesPortVars>>

\* Slip: the screen of the preparation stays.
CreateFails_Silently(a) ==
  /\ stage[a] = "failed"
  /\ Finish(a)
  /\ UNCHANGED windowVars /\ UNCHANGED overlapped

CreateFails(a) ==
  /\ stage[a] = "failed"
  /\ Finish(a)
  /\ appState' = "join"
  /\ UNCHANGED <<activeRoom, inviteCode, pendingJoin, entry, joining, overlapped>>

\* Slip: the code shown is left as it is.
EnterOwnRoom_KeepsCode(a) ==
  /\ stage[a] = "started"
  /\ Finish(a)
  /\ activeRoom' = invite[a]
  /\ appState' = "channel"
  /\ UNCHANGED <<inviteCode, pendingJoin, entry, joining, overlapped>>

EnterOwnRoom(a) ==
  /\ stage[a] = "started"
  /\ Finish(a)
  /\ inviteCode' = invite[a]
  /\ activeRoom' = invite[a]
  /\ appState' = "channel"
  /\ UNCHANGED <<pendingJoin, entry, joining, overlapped>>

-----------------------------------------------------------------------------
HandleCodeComplete(e) ==
  /\ appState = "join"
  /\ entry[e] = NoRoom
  /\ \E room \in RemoteRoom : entry' = [entry EXCEPT ![e] = room]
  /\ overlapped' = (overlapped \/ UnderWay)
  /\ UNCHANGED <<preparationVars, appState, activeRoom, inviteCode, pendingJoin, joining>>

\* Slip: what is already there to be confirmed is kept.
ResolveSucceeds_KeepsPending(e) ==
  /\ entry[e] # NoRoom
  /\ entry' = [entry EXCEPT ![e] = NoRoom]
  /\ inviteCode' = entry[e]
  /\ pendingJoin' = IF pendingJoin = NoRoom THEN entry[e] ELSE pendingJoin
  /\ appState' = "confirm"
  /\ UNCHANGED <<preparationVars, activeRoom, joining, overlapped>>

\* The code is valid, and the room has answered.
ResolveSucceeds(e) ==
  /\ entry[e] # NoRoom
  /\ entry' = [entry EXCEPT ![e] = NoRoom]
  /\ inviteCode' = entry[e]
  /\ pendingJoin' = entry[e]
  /\ appState' = "confirm"
  /\ UNCHANGED <<preparationVars, activeRoom, joining, overlapped>>

\* The code is not valid, or nobody answers.
ResolveFails(e) ==
  /\ entry[e] # NoRoom
  /\ entry' = [entry EXCEPT ![e] = NoRoom]
  /\ pendingJoin' = NoRoom
  /\ UNCHANGED <<preparationVars, appState, activeRoom, inviteCode, joining, overlapped>>

\* The dialog is shown even when there is nothing to confirm; then its button does
\* nothing.
HandleConfirmJoin ==
  /\ appState = "confirm"
  /\ pendingJoin # NoRoom
  /\ joining = NoRoom
  /\ joining' = pendingJoin
  /\ overlapped' = (overlapped \/ UnderWay)
  /\ UNCHANGED <<preparationVars, appState, activeRoom, inviteCode, pendingJoin, entry>>

JoinAccepted ==
  /\ joining # NoRoom
  /\ joining' = NoRoom
  /\ activeRoom' = joining
  /\ appState' = "channel"
  /\ UNCHANGED <<preparationVars, inviteCode, pendingJoin, entry, overlapped>>

\* Nobody catches the error.
JoinRejected ==
  /\ joining # NoRoom
  /\ joining' = NoRoom
  /\ UNCHANGED <<preparationVars, appState, activeRoom, inviteCode, pendingJoin, entry,
                 overlapped>>

CancelJoin ==
  /\ appState = "confirm"
  /\ appState' = "join"
  /\ UNCHANGED <<preparationVars, activeRoom, inviteCode, pendingJoin, entry, joining,
                 overlapped>>

HandleLeave ==
  /\ appState = "channel"
  /\ activeRoom' = NoRoom
  /\ inviteCode' = NoRoom
  /\ appState' = "join"
  /\ UNCHANGED <<preparationVars, pendingJoin, entry, joining, overlapped>>

-----------------------------------------------------------------------------
EntryInit ==
  /\ PreparationInit
  /\ appState = "join"
  /\ activeRoom = NoRoom
  /\ inviteCode = NoRoom
  /\ pendingJoin = NoRoom
  /\ entry = [e \in Entry |-> NoRoom]
  /\ joining = NoRoom
  /\ overlapped = FALSE

EntryNext ==
  \/ \E a \in Attempt : HandleCreateRoom(a) \/ Prepare(a) \/ CreateFails(a) \/ EnterOwnRoom(a)
  \/ \E e \in Entry : HandleCodeComplete(e) \/ ResolveSucceeds(e) \/ ResolveFails(e)
  \/ HandleConfirmJoin
  \/ JoinAccepted
  \/ JoinRejected
  \/ CancelJoin
  \/ HandleLeave
  \/ AcceptFails /\ UNCHANGED windowVars /\ UNCHANGED overlapped

\* Every command a handler awaits returns: the probes and the mapping have timeouts.
EntryFairness ==
  \A a \in Attempt : WF_entryVars(Prepare(a) \/ CreateFails(a) \/ EnterOwnRoom(a))

EntrySpec == EntryInit /\ [][EntryNext]_entryVars /\ EntryFairness

-----------------------------------------------------------------------------

\* The invite an owner's window shows leads to a port somebody accepts on: the port
\* that was written into the code is still that of the active server when the
\* listener thread is started, and other rooms do not take it away later
\* (prepare_room_invite, start_host_runtime_session).  It is not so when attempts
\* overlap, and no longer so after a failed accept.
OwnRoomIsServed ==
  ~overlapped /\ ~acceptFailed
    => \A a \in Attempt : stage[a] = "over" /\ appState = "channel" /\ activeRoom = invite[a]
                            => listeners[bound[a]] > 0

\* Once no attempt is choosing its port, the last port is that of the active server, also
\* after creations that overlapped while they waited for the mapping.  The two are set
\* under a lock each; they part only if two calls of prepare_room_invite were between
\* their locks at one time.
LastPortIsTheServers ==
  crossed \/ (\E a \in Attempt : Choosing(a)) \/ lastSuccessfulPort = activeServer

\* "If the port is not in conflict, go on with it", test-invite-shortcode.md:107: a room
\* that is made while nothing else is under way gets the port of the room before, unless
\* another program has it (bind_server).
LastPortIsPreferred ==
  ~overlapped =>
    \A a \in Attempt :
      bound[a] # NoPort /\ lastRead[a] \notin otherPrograms \cup {NoPort} => bound[a] = lastRead[a]

\* The room a joiner is asked to confirm is the one whose code is sent with the
\* request to join, whatever handlers have finished in whatever order
\* (handleCodeComplete, handleConfirmJoin).
ConfirmSendsTheRightCode ==
  appState = "confirm" /\ pendingJoin # NoRoom => inviteCode = pendingJoin

\* In the channel the window offers the code of the room it is in.  A code that is
\* resolved late replaces it.
ChannelShowsItsInvite == ~overlapped /\ appState = "channel" => inviteCode = activeRoom

\* The screen of the preparation is left, whichever step of it fails
\* (handleCreateRoom).
PreparationEnds == appState = "preparing" ~> appState # "preparing"
=============================================================================
