----------------------------- MODULE EventStream -----------------------------
(***************************************************************************)
(* How the event log of a session reaches the windows of the members that  *)
(* joined over the network, and what they show.                            *)
(*                                                                         *)
(*   server thread   handle_websocket_event_stream, control_runtime.rs     *)
(*   socket client   createWebSocketControlSession, controlSession.ts      *)
(*   window          handleConfirmJoin, applyRuntimeEvent and handleLeave, *)
(*                   App.tsx                                               *)
(*                                                                         *)
(* A client joins with one request, starts from the room and the sequence  *)
(* number in the answer, and opens a socket on which the server pushes     *)
(* what is newer than the client's lastSequence.  A socket that closes is  *)
(* replaced after a delay and the subscription resumes at lastSequence.    *)
(*                                                                         *)
(* Subscribe is sent when the socket opens and read before anything else   *)
(* on it; since lastSequence cannot move in between, opening a socket and  *)
(* reading Subscribe are one step here.  Frames the old thread writes to a *)
(* dead socket have no reader and are not modelled.                        *)
(***************************************************************************)
EXTENDS HostRuntimeSession, RoomWindow

CONSTANTS
  Client,     \* the members whose windows are modelled
  NoOffer,
  Absent,
  MaxDrops    \* bound on the sockets that fail

ASSUME StreamAssumption ==
  /\ Client \subseteq MemberId \ {Owner}
  /\ MaxDrops \in Nat
  /\ Absent \notin Nat

VARIABLES
  phase,         \* appState: "out", "joining" (confirm sent) or "channel"
  offer,         \* the JoinAccepted answer on its way to the client
  lastSequence,  \* lastSequence of the control session
  socket,        \* its WebSocket, or the reconnect timer
  cursor,        \* last_sequence of the server thread on that socket
  batch,         \* places of the events it has fetched and not yet sent
  wire,          \* frames sent and not yet dispatched
  view,          \* the member list the window shows
  peers,         \* the members the window holds a peer session for
  dispatched,    \* history: the sequence of the event onMessage was last given
  drops          \* sockets lost so far

windowVars == <<phase, offer, lastSequence, socket, cursor, batch, wire, view, peers, dispatched>>
streamVars == <<hostId, members, nextSequence, events, bannedMembers,
                phase, offer, lastSequence, socket, cursor, batch, wire, view, peers, dispatched, drops>>

Offer == [latestSequence : Nat, roomState : MemberTable]

-----------------------------------------------------------------------------
(* The window.                                                             *)

\* handleConfirmJoin, the runtime's side: the request is accepted and the
\* answer carries the room and the sequence number of the same moment.
Join(c) ==
  /\ phase[c] = "out"
  /\ JoinHostSession(c, RoomInvite)
  /\ phase' = [phase EXCEPT ![c] = "joining"]
  /\ offer' = [offer EXCEPT ![c] = [latestSequence |-> nextSequence' - 1,
                                    roomState |-> members']]
  /\ UNCHANGED <<lastSequence, socket, cursor, batch, wire, view, peers, dispatched, drops>>

\* The rest of handleConfirmJoin, and the effect it triggers, which starts a
\* control session.
EnterChannel(c) ==
  /\ phase[c] = "joining"
  /\ phase' = [phase EXCEPT ![c] = "channel"]
  /\ lastSequence' = [lastSequence EXCEPT ![c] = offer[c].latestSequence]
  /\ dispatched' = [dispatched EXCEPT ![c] = offer[c].latestSequence]
  /\ view' = [view EXCEPT ![c] = offer[c].roomState]
  /\ socket' = [socket EXCEPT ![c] = "connecting"]
  /\ offer' = [offer EXCEPT ![c] = NoOffer]
  /\ UNCHANGED <<sessionVars, cursor, batch, wire, peers, drops>>

\* The answer does not arrive within the timeout: the promise rejects and the
\* window stays on the confirmation screen.
JoinFails(c) ==
  /\ phase[c] = "joining"
  /\ phase' = [phase EXCEPT ![c] = "out"]
  /\ offer' = [offer EXCEPT ![c] = NoOffer]
  /\ UNCHANGED <<sessionVars, lastSequence, socket, cursor, batch, wire, view, peers, dispatched, drops>>

\* handleLeave.  The control session is stopped and the window emptied; nothing
\* is sent to the runtime.
ResetWindow(c) ==
  /\ phase' = [phase EXCEPT ![c] = "out"]
  /\ socket' = [socket EXCEPT ![c] = "none"]
  /\ wire' = [wire EXCEPT ![c] = <<>>]
  /\ cursor' = [cursor EXCEPT ![c] = 0]
  /\ batch' = [batch EXCEPT ![c] = {}]
  /\ lastSequence' = [lastSequence EXCEPT ![c] = 0]
  /\ dispatched' = [dispatched EXCEPT ![c] = 0]
  /\ view' = [view EXCEPT ![c] = NoOne]
  /\ peers' = [peers EXCEPT ![c] = {}]

Leave(c) ==
  /\ phase[c] = "channel"
  /\ ResetWindow(c)
  /\ UNCHANGED <<sessionVars, offer, drops>>

-----------------------------------------------------------------------------
(* The socket.                                                             *)

\* A slip WireIsTheGap and EveryEventArrives would show: a subscription starts at
\* the end of the log.
SocketOpens_FromNow(c) ==
  /\ socket[c] = "connecting"
  /\ socket' = [socket EXCEPT ![c] = "open"]
  /\ cursor' = [cursor EXCEPT ![c] = LatestSequence]
  /\ UNCHANGED <<sessionVars, phase, offer, lastSequence, batch, wire, view, peers, dispatched, drops>>

\* The handshake is done and the server thread has read Subscribe.
SocketOpens(c) ==
  /\ socket[c] = "connecting"
  /\ socket' = [socket EXCEPT ![c] = "open"]
  /\ cursor' = [cursor EXCEPT ![c] = lastSequence[c]]
  /\ UNCHANGED <<sessionVars, phase, offer, lastSequence, batch, wire, view, peers, dispatched, drops>>

\* A round of the server thread finds something to send.
Fetch(c) ==
  /\ socket[c] = "open"
  /\ batch[c] = {}
  /\ EventsSince(c, cursor[c]) # {}
  /\ batch' = [batch EXCEPT ![c] = EventsSince(c, cursor[c])]
  /\ UNCHANGED <<sessionVars, phase, offer, lastSequence, socket, cursor, wire, view, peers,
                 dispatched, drops>>

\* The session's mutex being free again, the events of the round are sent one by
\* one, each moving the thread's own last_sequence.
SendFrame(c) ==
  /\ socket[c] = "open"
  /\ \E i \in batch[c] :
       /\ \A j \in batch[c] : i <= j
       /\ wire' = [wire EXCEPT ![c] = Append(@, events[i])]
       /\ cursor' = [cursor EXCEPT ![c] =
                       IF events[i].sequence > @ THEN events[i].sequence ELSE @]
       /\ batch' = [batch EXCEPT ![c] = @ \ {i}]
  /\ UNCHANGED <<sessionVars, phase, offer, lastSequence, socket, view, peers, dispatched, drops>>

\* onmessage.  The notice of c's own removal ends in handleLeave.
Dispatch(c) ==
  /\ socket[c] = "open"
  /\ wire[c] # <<>>
  /\ LET e == Head(wire[c]) IN
     \/ /\ TellsToLeave(c, e.message)
        /\ ResetWindow(c)
     \/ /\ ~TellsToLeave(c, e.message)
        /\ lastSequence' = [lastSequence EXCEPT ![c] =
                              IF e.sequence > @ THEN e.sequence ELSE @]
        /\ dispatched' = [dispatched EXCEPT ![c] = e.sequence]
        /\ view' = [view EXCEPT ![c] = ApplyToView(@, e.message)]
        /\ peers' = [peers EXCEPT ![c] = ApplyToPeers(c, FALSE, @, e.message)]
        /\ wire' = [wire EXCEPT ![c] = Tail(@)]
        /\ UNCHANGED <<phase, socket, cursor, batch>>
  /\ UNCHANGED <<sessionVars, offer, drops>>

\* Slips FeedIsImplemented and RemovedMembersGetOut would show: frames of the old
\* socket are handled after the new one has opened, or no timer is set.
SocketCloses_KeepsFrames(c) ==
  /\ socket[c] \in {"connecting", "open"}
  /\ drops < MaxDrops
  /\ drops' = drops + 1
  /\ socket' = [socket EXCEPT ![c] = "backoff"]
  /\ cursor' = [cursor EXCEPT ![c] = 0]
  /\ batch' = [batch EXCEPT ![c] = {}]
  /\ UNCHANGED <<sessionVars, phase, offer, lastSequence, wire, view, peers, dispatched>>
SocketCloses_NoTimer(c) ==
  /\ socket[c] \in {"connecting", "open"}
  /\ drops < MaxDrops
  /\ drops' = drops + 1
  /\ socket' = [socket EXCEPT ![c] = "none"]
  /\ wire' = [wire EXCEPT ![c] = <<>>]
  /\ cursor' = [cursor EXCEPT ![c] = 0]
  /\ batch' = [batch EXCEPT ![c] = {}]
  /\ UNCHANGED <<sessionVars, phase, offer, lastSequence, view, peers, dispatched>>

\* A connection attempt fails or an open socket is lost, with the frames that
\* were on it.  onclose sets the reconnect timer.
SocketCloses(c) ==
  /\ socket[c] \in {"connecting", "open"}
  /\ drops < MaxDrops
  /\ drops' = drops + 1
  /\ socket' = [socket EXCEPT ![c] = "backoff"]
  /\ wire' = [wire EXCEPT ![c] = <<>>]
  /\ cursor' = [cursor EXCEPT ![c] = 0]
  /\ batch' = [batch EXCEPT ![c] = {}]
  /\ UNCHANGED <<sessionVars, phase, offer, lastSequence, view, peers, dispatched>>

\* The reconnect timer.
Reconnect(c) ==
  /\ socket[c] = "backoff"
  /\ socket' = [socket EXCEPT ![c] = "connecting"]
  /\ UNCHANGED <<sessionVars, phase, offer, lastSequence, cursor, batch, wire, view, peers, dispatched, drops>>

-----------------------------------------------------------------------------
\* Everything else that happens to the room meanwhile.
RoomOperation ==
  /\ \/ \E m \in MemberId \ Client : JoinHostSession(m, RoomInvite)
     \/ \E from, target \in MemberId : RelayWebRtcSignal(from, target)
     \/ \E m \in MemberId, serverMuted \in BOOLEAN : ServerMuteMember(m, serverMuted)
     \/ \E m \in MemberId : KickMember(m)
     \/ \E m \in MemberId : BanMember(m)
     \/ \E newHost \in MemberId : TransferHostTo(newHost)
  /\ UNCHANGED <<windowVars, drops>>

StreamInit ==
  /\ SessionInit
  /\ phase = [c \in Client |-> "out"]
  /\ offer = [c \in Client |-> NoOffer]
  /\ lastSequence = [c \in Client |-> 0]
  /\ socket = [c \in Client |-> "none"]
  /\ cursor = [c \in Client |-> 0]
  /\ batch = [c \in Client |-> {}]
  /\ wire = [c \in Client |-> <<>>]
  /\ view = [c \in Client |-> NoOne]
  /\ peers = [c \in Client |-> {}]
  /\ dispatched = [c \in Client |-> 0]
  /\ drops = 0

StreamNext ==
  \/ RoomOperation
  \/ \E c \in Client : Join(c)
  \/ \E c \in Client : EnterChannel(c)
  \/ \E c \in Client : JoinFails(c)
  \/ \E c \in Client : Leave(c)
  \/ \E c \in Client : SocketOpens(c)
  \/ \E c \in Client : Fetch(c)
  \/ \E c \in Client : SendFrame(c)
  \/ \E c \in Client : Dispatch(c)
  \/ \E c \in Client : SocketCloses(c)
  \/ \E c \in Client : Reconnect(c)

StreamSpec == StreamInit /\ [][StreamNext]_streamVars

\* A connection attempt ends, the server thread keeps its rounds, a frame on an
\* open socket is dispatched and a timer that is set fires.  Nothing makes an
\* operation happen, a member join or leave, or a socket fail.
StreamFairness ==
  \A c \in Client :
    /\ WF_streamVars(SocketOpens(c))
    /\ WF_streamVars(Fetch(c))
    /\ WF_streamVars(SendFrame(c))
    /\ WF_streamVars(Dispatch(c))
    /\ WF_streamVars(Reconnect(c))

FairStreamSpec == StreamSpec /\ StreamFairness

-----------------------------------------------------------------------------
(* Properties.                                                             *)

\* At every moment, through joins, losses and resubscriptions, a window shows
\* exactly the room the log describes up to the event it has dispatched last:
\* the member list, who is host and who is muted.  It may lag, it is never wrong.
ViewIsRoomAsOf ==
  \A c \in Client, m \in MemberId :
    phase[c] = "channel" =>
      /\ m \in DOMAIN view[c] <=> MemberAsOf(events, lastSequence[c], m)
      /\ m \in DOMAIN view[c] =>
           /\ view[c][m].role = "Host" <=> HostAsOf(events, lastSequence[c], m)
           /\ view[c][m].serverMuted <=> MutedAsOf(events, lastSequence[c], m)

\* What is on the wire is what the client has still to see, up to the server
\* thread's cursor, in order, each event once, and none left out: the two cursors,
\* advanced independently and re-agreed at each reconnection, never lose or repeat
\* an event between them.
InFlight(c, n) == lastSequence[c] < n /\ n <= cursor[c] /\ VisibleTo(events[n], c)

WireIsTheGap ==
  \A c \in Client :
    socket[c] = "open" =>
      /\ \A i \in 1..Len(wire[c]) :
           LET n == wire[c][i].sequence IN
           n \in 1..Len(events) /\ InFlight(c, n) /\ wire[c][i] = events[n]
      /\ \A i \in 1..Len(wire[c]), j \in 1..Len(wire[c]) :
           i < j => wire[c][i].sequence < wire[c][j].sequence
      /\ \A n \in 1..Len(events) :
           InFlight(c, n) => \E i \in 1..Len(wire[c]) : wire[c][i].sequence = n

\* A signal is never dispatched for a peer the window does not show, so
\* ensurePeerSession never opens a session with a stranger.
SignalsComeFromShownMembers ==
  \A c \in Client :
    wire[c] # <<>> /\ Head(wire[c]).message.type = "WebRtcSignal" =>
      Head(wire[c]).message.from \in DOMAIN view[c]

\* The event channel implements the feed: whatever the sockets do, a window
\* handles each event meant for it once and in order.
Feed == INSTANCE RoomFeed WITH
  Reader   <- Client,
  Everyone <- NoTarget,
  log      <- events,
  position <- [c \in Client |-> IF phase[c] = "channel" THEN dispatched[c] ELSE Absent]

FeedIsImplemented == Feed!FeedSpec

\* A member that stays in the channel reads all there is for it, time and again, also
\* the events recorded while it was disconnected.  (The log is bounded, so that this is
\* what every behaviour comes to when the room falls quiet.)
EveryEventArrives ==
  \A c \in Client :
    []<>(phase[c] = "channel" => EventsSince(c, lastSequence[c]) = {})

\* A member that was kicked or banned eventually leaves the channel, even when
\* its socket was down at that moment or its join was not yet confirmed.
RemovedMembersGetOut ==
  \A c \in Client :
    (phase[c] = "channel" /\ ~HasMember(members, c)) ~> phase[c] # "channel"

=============================================================================
