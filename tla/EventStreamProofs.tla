-------------------------- MODULE EventStreamProofs --------------------------
(***************************************************************************)
(* Proofs about EventStream: for any set of members and of windows, any    *)
(* bound on the log and any number of lost sockets, a window shows the     *)
(* room as of the last event it has dispatched, and the event channel      *)
(* implements RoomFeed.                                                    *)
(***************************************************************************)
EXTENDS EventStream, HostRuntimeSessionProofs

-----------------------------------------------------------------------------
(* The inductive invariant, window by window.                              *)

\* The types of what the other parts read.
StreamTypeOK ==
  /\ phase \in [Client -> {"out", "joining", "channel"}]
  /\ offer \in [Client -> Offer \cup {NoOffer}]
  /\ lastSequence \in [Client -> Nat]
  /\ socket \in [Client -> {"none", "connecting", "open", "backoff"}]
  /\ cursor \in [Client -> Nat]
  /\ batch \in [Client -> SUBSET Nat]
  /\ wire \in [Client -> Seq(Event)]
  /\ view \in [Client -> MemberTable]
  /\ dispatched \in [Client -> Nat]

\* A control session runs exactly while the window is in the channel, and nothing
\* is left of a socket that is not open.
SocketFollowsPhase(c) ==
  /\ phase[c] = "channel" <=> socket[c] # "none"
  /\ socket[c] # "open" => wire[c] = <<>> /\ batch[c] = {}

\* An answer that is on its way is a snapshot of the room at its place in the log,
\* however much has been logged since.
OfferIsSnapshot(c) ==
  phase[c] = "joining" =>
    /\ offer[c].latestSequence \in 1..Len(events)
    /\ events[offer[c].latestSequence].message = RoomStateMsg(offer[c].roomState)

\* lastSequence is the place of the event dispatched last, and the window shows the
\* room of that place.
WindowIsInLog(c) ==
  phase[c] = "channel" =>
    /\ dispatched[c] = lastSequence[c]
    /\ lastSequence[c] <= Len(events)
    /\ ShowsRoomAsOf(view[c], lastSequence[c])

\* The frames of one socket, as in WireIsTheGap.
WireFillsTheGap(c) ==
  /\ \A i \in 1..Len(wire[c]) :
       LET n == wire[c][i].sequence IN
       n \in 1..Len(events) /\ InFlight(c, n) /\ wire[c][i] = events[n]
  /\ \A i \in 1..Len(wire[c]), j \in 1..Len(wire[c]) :
       i < j => wire[c][i].sequence < wire[c][j].sequence
  /\ \A n \in 1..Len(events) :
       InFlight(c, n) => \E i \in 1..Len(wire[c]) : wire[c][i].sequence = n

\* What the server thread has fetched is what comes next after its cursor.
BatchIsNext(c) ==
  \A i \in batch[c] :
    /\ i \in 1..Len(events) /\ i > cursor[c] /\ VisibleTo(events[i], c)
    /\ \A n \in 1..Len(events) :
         cursor[c] < n /\ n < i /\ VisibleTo(events[n], c) => n \in batch[c]

ServerIsAhead(c) ==
  socket[c] = "open" =>
    /\ lastSequence[c] <= cursor[c] /\ cursor[c] <= Len(events)
    /\ WireFillsTheGap(c)
    /\ BatchIsNext(c)

ClientInv(c) ==
  /\ SocketFollowsPhase(c)
  /\ OfferIsSnapshot(c)
  /\ WindowIsInLog(c)
  /\ ServerIsAhead(c)

StreamInv ==
  /\ LogInv
  /\ StreamTypeOK
  /\ \A c \in Client : ClientInv(c)

-----------------------------------------------------------------------------
(* Reading a stretch of the log.                                           *)

\* A snapshot shows the room of its own place.
LEMMA SnapshotShowsRoom ==
  ASSUME NEW n \in Nat, NEW table, events[n + 1].message = RoomStateMsg(table)
  PROVE  ShowsRoomAsOf(table, n + 1)
<1> DEFINE msg == events[n + 1].message
<1>1. msg.type = "RoomState" /\ msg.members = table
  BY DEF RoomStateMsg
<1> HIDE DEF msg
<1> SUFFICES ASSUME NEW m \in MemberId
             PROVE  /\ m \in DOMAIN table <=> MemberAsOf(events, n + 1, m)
                    /\ m \in DOMAIN table =>
                         /\ table[m].role = "Host" <=> HostAsOf(events, n + 1, m)
                         /\ table[m].serverMuted <=> MutedAsOf(events, n + 1, m)
  BY DEF ShowsRoomAsOf
<1>2. /\ Admits(msg, m) <=> m \in DOMAIN table
      /\ Departs(msg, m) <=> m \notin DOMAIN table
  BY <1>1 DEF Admits, Departs
<1>3. /\ m \in DOMAIN table => (Crowns(msg, m) <=> table[m].role = "Host")
      /\ ~Crowns(msg, m) => Deposes(msg, m)
  BY <1>1 DEF Crowns, Deposes
<1>4. /\ m \in DOMAIN table => (Mutes(msg, m) <=> table[m].serverMuted)
      /\ ~Mutes(msg, m) => Unmutes(msg, m)
  BY <1>1 DEF Mutes, Unmutes
<1>5. /\ MemberAsOf(events, n + 1, m) <=>
           Admits(msg, m) \/ (MemberAsOf(events, n, m) /\ ~Departs(msg, m))
      /\ HostAsOf(events, n + 1, m) <=>
           Crowns(msg, m) \/ (HostAsOf(events, n, m) /\ ~Deposes(msg, m))
      /\ MutedAsOf(events, n + 1, m) <=>
           Mutes(msg, m) \/ (MutedAsOf(events, n, m) /\ ~Unmutes(msg, m))
  BY MemberAsOfStep, HostAsOfStep, MutedAsOfStep DEF msg
<1>6. QED
  BY <1>2, <1>3, <1>4, <1>5

\* A list that shows the room of some place shows, after applyRuntimeEvent has handled
\* the next event, the room of the next place.
LEMMA ApplyShowsRoom ==
  ASSUME LogInv, NEW n \in Nat, n + 1 <= Len(events),
         NEW table \in MemberTable, ShowsRoomAsOf(table, n)
  PROVE  LET after == ApplyToView(table, events[n + 1].message) IN
         after \in MemberTable /\ ShowsRoomAsOf(after, n + 1)
<1> DEFINE msg == events[n + 1].message
           after == ApplyToView(table, msg)
<1>1. n + 1 \in 1..Len(events) /\ n \in 0..Len(events) /\ events[n + 1] \in Event
  BY DEF LogInv, SessionInv, TypeOK
<1>2. /\ msg \in Message
      /\ msg.type = "MemberJoined" => msg.state = [role |-> "Member", serverMuted |-> FALSE]
  BY <1>1 DEF Event, LogInv, ArrivalsAreFresh
<1> HIDE DEF msg
<1>3. after \in MemberTable /\ ListFollows(table, after, msg)
  BY <1>2, ApplyFollows
<1> HIDE DEF after
<1>4. ASSUME NEW m \in MemberId
      PROVE  /\ m \in DOMAIN after <=> MemberAsOf(events, n + 1, m)
             /\ m \in DOMAIN after =>
                  /\ after[m].role = "Host" <=> HostAsOf(events, n + 1, m)
                  /\ after[m].serverMuted <=> MutedAsOf(events, n + 1, m)
  <2>1. /\ m \in DOMAIN table <=> MemberAsOf(events, n, m)
        /\ m \in DOMAIN table =>
             /\ table[m].role = "Host" <=> HostAsOf(events, n, m)
             /\ table[m].serverMuted <=> MutedAsOf(events, n, m)
        /\ m \notin DOMAIN table => ~HostAsOf(events, n, m) /\ ~MutedAsOf(events, n, m)
    BY <1>1 DEF ShowsRoomAsOf, LogInv, ReadingsAreOfMembers
  <2>2. /\ MemberAsOf(events, n + 1, m) <=>
             Admits(msg, m) \/ (MemberAsOf(events, n, m) /\ ~Departs(msg, m))
        /\ HostAsOf(events, n + 1, m) <=>
             Crowns(msg, m) \/ (HostAsOf(events, n, m) /\ ~Deposes(msg, m))
        /\ MutedAsOf(events, n + 1, m) <=>
             Mutes(msg, m) \/ (MutedAsOf(events, n, m) /\ ~Unmutes(msg, m))
    BY MemberAsOfStep, HostAsOfStep, MutedAsOfStep DEF msg
  <2>3. QED
    BY <1>3, <2>1, <2>2 DEF ListFollows
<1>5. ShowsRoomAsOf(after, n + 1)
  BY <1>4 DEF ShowsRoomAsOf
<1>6. QED
  BY <1>3, <1>5 DEF after, msg

-----------------------------------------------------------------------------
(* A window that does not take part in a step.                             *)

\* The log only grows in this step.
LogGrows ==
  /\ Len(events) <= Len(events')
  /\ \A i \in 1..Len(events) : events'[i] = events[i]

\* The step leaves the window and the socket of c alone.
ClientRests(c) ==
  /\ phase'[c] = phase[c]
  /\ offer'[c] = offer[c]
  /\ lastSequence'[c] = lastSequence[c]
  /\ socket'[c] = socket[c]
  /\ cursor'[c] = cursor[c]
  /\ batch'[c] = batch[c]
  /\ wire'[c] = wire[c]
  /\ view'[c] = view[c]
  /\ dispatched'[c] = dispatched[c]

\* What a window shows of a place in the log stays true as the log grows.
LEMMA ShownStaysShown ==
  ASSUME LogGrows, NEW n \in Nat, n <= Len(events), Len(events) \in Nat,
         NEW table, ShowsRoomAsOf(table, n)
  PROVE  \A m \in MemberId :
           /\ m \in DOMAIN table <=> MemberAsOf(events', n, m)
           /\ m \in DOMAIN table =>
                /\ table[m].role = "Host" <=> HostAsOf(events', n, m)
                /\ table[m].serverMuted <=> MutedAsOf(events', n, m)
<1>1. \A i \in 1..n : events'[i] = events[i]
  BY DEF LogGrows
<1>2. \A m : /\ MemberAsOf(events', n, m) <=> MemberAsOf(events, n, m)
             /\ HostAsOf(events', n, m) <=> HostAsOf(events, n, m)
             /\ MutedAsOf(events', n, m) <=> MutedAsOf(events, n, m)
  BY <1>1, AsOfCongruent, MutedAsOfCongruent
<1>3. QED
  BY <1>2 DEF ShowsRoomAsOf

\* The invariant of a window survives whatever happens to the log and to others.
LEMMA RestingClient ==
  ASSUME StreamInv, LogGrows, events' \in Seq(Event), NEW c \in Client, ClientRests(c)
  PROVE  ClientInv(c)'
<1> DEFINE n == Len(events)
<1>1. /\ n \in Nat /\ Len(events') \in Nat /\ n <= Len(events')
      /\ \A i \in 1..n : events'[i] = events[i] /\ i \in 1..Len(events')
  BY DEF StreamInv, LogInv, SessionInv, TypeOK, LogGrows
<1>2. /\ lastSequence[c] \in Nat /\ cursor[c] \in Nat /\ wire[c] \in Seq(Event)
      /\ ClientInv(c)
  BY DEF StreamInv, StreamTypeOK
<1>3. SocketFollowsPhase(c)'
  BY <1>2 DEF ClientRests, ClientInv, SocketFollowsPhase
<1>4. OfferIsSnapshot(c)'
  BY <1>1, <1>2 DEF ClientRests, ClientInv, OfferIsSnapshot
<1>5. WindowIsInLog(c)'
  <2> SUFFICES ASSUME phase[c] = "channel"
               PROVE  WindowIsInLog(c)'
    BY DEF WindowIsInLog, ClientRests
  <2>1. /\ dispatched[c] = lastSequence[c] /\ lastSequence[c] <= n
        /\ ShowsRoomAsOf(view[c], lastSequence[c])
    BY <1>2 DEF ClientInv, WindowIsInLog
  <2>2. ShowsRoomAsOf(view[c], lastSequence[c])'
    <3>1. \A m \in MemberId :
            /\ m \in DOMAIN view[c] <=> MemberAsOf(events', lastSequence[c], m)
            /\ m \in DOMAIN view[c] =>
                 /\ view[c][m].role = "Host" <=> HostAsOf(events', lastSequence[c], m)
                 /\ view[c][m].serverMuted <=> MutedAsOf(events', lastSequence[c], m)
      BY <1>1, <1>2, <2>1, ShownStaysShown
    <3>2. view'[c] = view[c] /\ lastSequence'[c] = lastSequence[c]
      BY DEF ClientRests
    <3>3. QED
      BY <3>1, <3>2 DEF ShowsRoomAsOf
  <2>3. QED
    BY <1>1, <1>2, <2>1, <2>2 DEF WindowIsInLog, ClientRests
<1>6. ServerIsAhead(c)'
  <2> SUFFICES ASSUME socket[c] = "open"
               PROVE  ServerIsAhead(c)'
    BY DEF ServerIsAhead, ClientRests
  <2>1. /\ lastSequence[c] <= cursor[c] /\ cursor[c] <= n
        /\ WireFillsTheGap(c) /\ BatchIsNext(c)
    BY <1>2 DEF ClientInv, ServerIsAhead
  <2>2. \A i \in 1..Len(events') : InFlight(c, i)' <=> i \in 1..n /\ InFlight(c, i)
    <3> SUFFICES ASSUME NEW i \in 1..Len(events')
                 PROVE  InFlight(c, i)' <=> i \in 1..n /\ InFlight(c, i)
      OBVIOUS
    <3>1. lastSequence'[c] = lastSequence[c] /\ cursor'[c] = cursor[c]
      BY DEF ClientRests
    <3>2. CASE i \in 1..n
      BY <1>1, <3>1, <3>2 DEF InFlight, VisibleTo
    <3>3. CASE i > n
      BY <1>1, <1>2, <2>1, <3>1, <3>3 DEF InFlight
    <3>4. QED
      BY <1>1, <3>2, <3>3
  <2>3. WireFillsTheGap(c)'
    <3>1. wire'[c] = wire[c]
      BY DEF ClientRests
    <3>2. ASSUME NEW i \in 1..Len(wire[c])
          PROVE  /\ wire[c][i].sequence \in 1..Len(events')
                 /\ InFlight(c, wire[c][i].sequence)'
                 /\ wire[c][i] = events'[wire[c][i].sequence]
      <4>1. /\ wire[c][i].sequence \in 1..n /\ InFlight(c, wire[c][i].sequence)
            /\ wire[c][i] = events[wire[c][i].sequence]
        BY <2>1 DEF WireFillsTheGap
      <4>2. wire[c][i].sequence \in 1..Len(events')
        BY <1>1, <4>1
      <4>3. QED
        BY <1>1, <2>2, <3>1, <4>1, <4>2
    <3>3. \A i \in 1..Len(wire[c]), j \in 1..Len(wire[c]) :
            i < j => wire[c][i].sequence < wire[c][j].sequence
      BY <2>1 DEF WireFillsTheGap
    <3>4. \A i \in 1..Len(events') :
            InFlight(c, i)' => \E j \in 1..Len(wire[c]) : wire[c][j].sequence = i
      BY <2>1, <2>2 DEF WireFillsTheGap
    <3>5. QED
      BY <3>1, <3>2, <3>3, <3>4 DEF WireFillsTheGap
  <2>4. BatchIsNext(c)'
    BY <1>1, <2>1 DEF BatchIsNext, ClientRests, VisibleTo
  <2>5. QED
    BY <1>1, <1>2, <2>1, <2>3, <2>4 DEF ServerIsAhead, ClientRests
<1>7. QED
  BY <1>3, <1>4, <1>5, <1>6 DEF ClientInv

\* A step of the window or the socket of one client, with the session as it was.
LEMMA OneClientStep ==
  ASSUME StreamInv, UNCHANGED sessionVars, StreamTypeOK',
         NEW c \in Client, ClientInv(c)',
         \A d \in Client \ {c} : ClientRests(d)
  PROVE  StreamInv'
<1>1. LogInv' /\ LogGrows /\ events' \in Seq(Event)
  <2>1. LogInv'
    BY LogNextInv DEF StreamInv
  <2>2. QED
    BY <2>1 DEF LogGrows, LogInv, SessionInv, TypeOK, sessionVars
<1>2. \A d \in Client \ {c} : ClientInv(d)'
  BY <1>1, RestingClient
<1>3. QED
  BY <1>1, <1>2 DEF StreamInv

-----------------------------------------------------------------------------
(* The steps, one by one.                                                  *)

\* What an operation of the session does to the log.
LEMMA SessionStepGrows ==
  ASSUME LogInv, [SessionNext]_sessionVars
  PROVE  LogInv' /\ LogGrows /\ events' \in Seq(Event)
<1>1. LogInv' /\ StepIsLogged
  BY LogNextInv, SessionStepIsLogged DEF LogInv
<1>2. QED
  BY <1>1 DEF LogInv, SessionInv, TypeOK, StepIsLogged, LogGrows

\* What happens to the room without a window taking part.
LEMMA RoomStep ==
  ASSUME StreamInv, [SessionNext]_sessionVars, UNCHANGED windowVars
  PROVE  StreamInv'
<1>1. LogInv' /\ LogGrows /\ events' \in Seq(Event)
  BY SessionStepGrows DEF StreamInv
<1>2. StreamTypeOK'
  BY DEF StreamInv, StreamTypeOK, windowVars
<1>3. \A c \in Client : ClientRests(c)
  BY DEF windowVars, ClientRests
<1>4. QED
  BY <1>1, <1>2, <1>3, RestingClient DEF StreamInv

\* The room a step joins, for SessionNext.
LEMMA JoinIsSessionStep ==
  ASSUME NEW m \in MemberId, JoinHostSession(m, RoomInvite)
  PROVE  SessionNext
BY SessionAssumption DEF SessionNext

LEMMA RoomOperationIsSessionStep ==
  ASSUME RoomOperation
  PROVE  SessionNext /\ UNCHANGED windowVars
<1>1. ASSUME NEW m \in MemberId \ Client, JoinHostSession(m, RoomInvite)
      PROVE  SessionNext
  BY <1>1, JoinIsSessionStep
<1>2. QED
  BY <1>1 DEF RoomOperation, SessionNext

\* The answer to a join is the snapshot that closes the log at that moment.
LEMMA WindowJoinStep ==
  ASSUME StreamInv, NEW c \in Client, Join(c)
  PROVE  StreamInv'
<1> DEFINE answer == [latestSequence |-> nextSequence' - 1, roomState |-> members']
<1>1. /\ c \in MemberId
      /\ phase[c] = "out"
      /\ JoinHostSession(c, RoomInvite)
      /\ phase' = [phase EXCEPT ![c] = "joining"]
      /\ offer' = [offer EXCEPT ![c] = answer]
      /\ UNCHANGED <<lastSequence, socket, cursor, batch, wire, view, peers, dispatched>>
  BY StreamAssumption DEF Join
<1> HIDE DEF answer
<1>2. LogInv' /\ LogGrows /\ events' \in Seq(Event)
  BY <1>1, JoinIsSessionStep, SessionStepGrows DEF StreamInv
<1>3. /\ answer \in Offer
      /\ answer.latestSequence \in 1..Len(events')
      /\ events'[answer.latestSequence].message = RoomStateMsg(answer.roomState)
  <2>1. /\ SessionInv /\ members \in MemberTable
        /\ members' = AddMember(members, c)
        /\ PushTwo(NoTarget, MemberJoinedMsg(c, members'[c]), NoTarget, RoomStateMsg(members'))
    BY <1>1 DEF StreamInv, LogInv, SessionInv, TypeOK, JoinHostSession
  <2>2. /\ members' \in MemberTable
        /\ members'[c] = [role |-> "Member", serverMuted |-> FALSE]
    BY <1>1, <2>1, AddMemberTable
  <2>3. MemberJoinedMsg(c, members'[c]) \in Message /\ RoomStateMsg(members') \in Message
    BY <1>1, <2>2 DEF MemberJoinedMsg, RoomStateMsg, Message, MemberState, MemberRole
  <2>4. /\ Len(events) \in Nat
        /\ Len(events') = Len(events) + 2
        /\ events'[Len(events) + 2].message = RoomStateMsg(members')
    BY <2>1, <2>3, TwoMore
  <2>5. nextSequence' = Len(events') + 1
    BY <1>2 DEF LogInv, SessionInv, SequenceIsPosition
  <2>6. answer.latestSequence = Len(events) + 2 /\ answer.roomState = members'
    BY <2>4, <2>5 DEF answer
  <2>7. answer \in Offer
    BY <2>2, <2>4, <2>5 DEF answer, Offer
  <2>8. QED
    BY <2>4, <2>6, <2>7
<1>4. StreamTypeOK'
  BY <1>1, <1>3 DEF StreamInv, StreamTypeOK
<1>5. \A d \in Client \ {c} : ClientRests(d)
  BY <1>1 DEF StreamInv, StreamTypeOK, ClientRests
<1>6. ClientInv(c)'
  <2>1. /\ phase'[c] = "joining" /\ offer'[c] = answer
        /\ socket'[c] = "none" /\ wire'[c] = <<>> /\ batch'[c] = {}
    BY <1>1 DEF StreamInv, StreamTypeOK, ClientInv, SocketFollowsPhase
  <2>2. QED
    BY <1>3, <2>1 DEF ClientInv, SocketFollowsPhase, OfferIsSnapshot, WindowIsInLog, ServerIsAhead
<1>7. \A d \in Client \ {c} : ClientInv(d)'
  BY <1>2, <1>5, RestingClient
<1>8. QED
  BY <1>2, <1>4, <1>6, <1>7 DEF StreamInv

\* The window starts with the room of the answer's place in the log.
LEMMA WindowEnterStep ==
  ASSUME StreamInv, NEW c \in Client, EnterChannel(c)
  PROVE  StreamInv'
<1> DEFINE n == offer[c].latestSequence
           table == offer[c].roomState
<1>1. /\ phase[c] = "joining"
      /\ phase' = [phase EXCEPT ![c] = "channel"]
      /\ lastSequence' = [lastSequence EXCEPT ![c] = n]
      /\ dispatched' = [dispatched EXCEPT ![c] = n]
      /\ view' = [view EXCEPT ![c] = table]
      /\ socket' = [socket EXCEPT ![c] = "connecting"]
      /\ offer' = [offer EXCEPT ![c] = NoOffer]
      /\ UNCHANGED <<sessionVars, cursor, batch, wire>>
  BY DEF EnterChannel
<1>2. /\ n \in 1..Len(events) /\ events[n].message = RoomStateMsg(table)
      /\ socket[c] = "none" /\ wire[c] = <<>> /\ batch[c] = {}
      /\ events \in Seq(Event)
  <2>1. SocketFollowsPhase(c) /\ OfferIsSnapshot(c)
    BY DEF StreamInv, ClientInv
  <2>2. socket[c] \in {"none", "connecting", "open", "backoff"} /\ events \in Seq(Event)
    BY DEF StreamInv, StreamTypeOK, LogInv, SessionInv, TypeOK
  <2>3. phase[c] = "joining"
    BY <1>1
  <2>4. n \in 1..Len(events) /\ events[n].message = RoomStateMsg(table)
    BY <2>1, <2>3 DEF OfferIsSnapshot
  <2>5. socket[c] = "none" /\ wire[c] = <<>> /\ batch[c] = {}
    BY <2>1, <2>3 DEF SocketFollowsPhase
  <2>6. QED
    BY <2>2, <2>4, <2>5
<1>3. table \in MemberTable
  <2> HIDE DEF n, table
  <2>1. events[n] \in Event
    BY <1>2
  <2>2. events[n].message \in Message
    BY <2>1 DEF Event
  <2>3. QED
    BY <1>2, <2>2 DEF Message, RoomStateMsg
<1>4. ShowsRoomAsOf(table, n)
  <2>1. n - 1 \in Nat /\ n = (n - 1) + 1
    BY <1>2
  <2> HIDE DEF n, table
  <2>2. QED
    BY <1>2, <2>1, SnapshotShowsRoom
<1> HIDE DEF n, table
<1>5. StreamTypeOK'
  BY <1>1, <1>2, <1>3 DEF StreamInv, StreamTypeOK
<1>6. \A d \in Client \ {c} : ClientRests(d)
  BY <1>1 DEF StreamInv, StreamTypeOK, ClientRests
<1>7. /\ phase'[c] = "channel" /\ socket'[c] = "connecting"
      /\ wire'[c] = <<>> /\ batch'[c] = {}
      /\ lastSequence'[c] = n /\ dispatched'[c] = n /\ view'[c] = table
      /\ events' = events
  BY <1>1, <1>2 DEF StreamInv, StreamTypeOK, sessionVars
<1>8. ClientInv(c)'
  <2>1. ShowsRoomAsOf(view[c], lastSequence[c])'
    BY <1>4, <1>7 DEF ShowsRoomAsOf
  <2>2. QED
    BY <1>2, <1>7, <2>1
       DEF ClientInv, SocketFollowsPhase, OfferIsSnapshot, WindowIsInLog, ServerIsAhead
<1>9. QED
  BY <1>1, <1>5, <1>6, <1>8, OneClientStep

\* The answer is lost.
LEMMA WindowJoinFailsStep ==
  ASSUME StreamInv, NEW c \in Client, JoinFails(c)
  PROVE  StreamInv'
<1>1. /\ phase[c] = "joining"
      /\ phase' = [phase EXCEPT ![c] = "out"]
      /\ offer' = [offer EXCEPT ![c] = NoOffer]
      /\ UNCHANGED <<sessionVars, lastSequence, socket, cursor, batch, wire, view, dispatched>>
  BY DEF JoinFails
<1>2. StreamTypeOK'
  BY <1>1 DEF StreamInv, StreamTypeOK
<1>3. \A d \in Client \ {c} : ClientRests(d)
  BY <1>1 DEF StreamInv, StreamTypeOK, ClientRests
<1>4. /\ phase'[c] = "out" /\ socket'[c] = "none"
      /\ wire'[c] = <<>> /\ batch'[c] = {}
  BY <1>1 DEF StreamInv, StreamTypeOK, ClientInv, SocketFollowsPhase
<1>5. ClientInv(c)'
  BY <1>4 DEF ClientInv, SocketFollowsPhase, OfferIsSnapshot, WindowIsInLog, ServerIsAhead
<1>6. QED
  BY <1>1, <1>2, <1>3, <1>5, OneClientStep

\* handleLeave, by the user or on the notice of a removal.
LEMMA ResetStep ==
  ASSUME StreamInv, NEW c \in Client, ResetWindow(c), UNCHANGED <<sessionVars, offer>>
  PROVE  StreamInv'
<1>1. NoOne \in MemberTable
  BY TableDef DEF NoOne
<1>2. StreamTypeOK'
  BY <1>1 DEF StreamInv, StreamTypeOK, ResetWindow
<1>3. \A d \in Client \ {c} : ClientRests(d)
  BY DEF StreamInv, StreamTypeOK, ClientRests, ResetWindow
<1>4. /\ phase'[c] = "out" /\ socket'[c] = "none"
      /\ wire'[c] = <<>> /\ batch'[c] = {}
  BY DEF StreamInv, StreamTypeOK, ResetWindow
<1>5. ClientInv(c)'
  BY <1>4 DEF ClientInv, SocketFollowsPhase, OfferIsSnapshot, WindowIsInLog, ServerIsAhead
<1>6. QED
  BY <1>2, <1>3, <1>5, OneClientStep

\* A subscription starts with nothing on the wire and nothing missing from it.
LEMMA SocketOpensStep ==
  ASSUME StreamInv, NEW c \in Client, SocketOpens(c)
  PROVE  StreamInv'
<1>1. /\ socket[c] = "connecting"
      /\ socket' = [socket EXCEPT ![c] = "open"]
      /\ cursor' = [cursor EXCEPT ![c] = lastSequence[c]]
      /\ UNCHANGED <<sessionVars, phase, offer, lastSequence, batch, wire, view, dispatched>>
  BY DEF SocketOpens
<1>2. /\ ClientInv(c)
      /\ phase[c] = "channel" /\ wire[c] = <<>> /\ batch[c] = {}
      /\ lastSequence[c] \in Nat /\ Len(events) \in Nat
  BY <1>1 DEF StreamInv, StreamTypeOK, ClientInv, SocketFollowsPhase, LogInv, SessionInv, TypeOK
<1>3. StreamTypeOK'
  BY <1>1, <1>2 DEF StreamInv, StreamTypeOK
<1>4. \A d \in Client \ {c} : ClientRests(d)
  BY <1>1 DEF StreamInv, StreamTypeOK, ClientRests
<1>5. /\ phase'[c] = "channel" /\ socket'[c] = "open"
      /\ wire'[c] = <<>> /\ batch'[c] = {}
      /\ cursor'[c] = lastSequence[c] /\ lastSequence'[c] = lastSequence[c]
      /\ dispatched'[c] = dispatched[c] /\ view'[c] = view[c]
      /\ events' = events
  BY <1>1, <1>2 DEF StreamInv, StreamTypeOK, sessionVars
<1>6. WindowIsInLog(c)'
  BY <1>2, <1>5 DEF ClientInv, WindowIsInLog, ShowsRoomAsOf
<1>7. ServerIsAhead(c)'
  <2>1. lastSequence[c] <= Len(events)
    BY <1>2 DEF ClientInv, WindowIsInLog
  <2>2. WireFillsTheGap(c)'
    <3>1. \A n \in 1..Len(events) : ~InFlight(c, n)'
      BY <1>2, <1>5 DEF InFlight
    <3>2. Len(wire[c])' = 0
      BY <1>5
    <3>3. QED
      BY <1>5, <3>1, <3>2 DEF WireFillsTheGap
  <2>3. BatchIsNext(c)'
    BY <1>5 DEF BatchIsNext
  <2>4. QED
    BY <1>2, <1>5, <2>1, <2>2, <2>3 DEF ServerIsAhead
<1>8. ClientInv(c)'
  BY <1>5, <1>6, <1>7 DEF ClientInv, SocketFollowsPhase, OfferIsSnapshot
<1>9. QED
  BY <1>1, <1>3, <1>4, <1>8, OneClientStep

\* A round of the server thread fetches everything that follows its cursor.
LEMMA FetchStep ==
  ASSUME StreamInv, NEW c \in Client, Fetch(c)
  PROVE  StreamInv'
<1>1. /\ socket[c] = "open"
      /\ batch' = [batch EXCEPT ![c] = EventsSince(c, cursor[c])]
      /\ UNCHANGED <<sessionVars, phase, offer, lastSequence, socket, cursor, wire, view, dispatched>>
  BY DEF Fetch
<1>2. /\ ClientInv(c) /\ SequenceIsPosition
      /\ cursor[c] \in Nat /\ Len(events) \in Nat
  BY DEF StreamInv, StreamTypeOK, LogInv, SessionInv, TypeOK
<1>3. EventsSince(c, cursor[c]) =
        {i \in 1..Len(events) : i > cursor[c] /\ VisibleTo(events[i], c)}
  BY <1>2 DEF EventsSince, SequenceIsPosition
<1>4. StreamTypeOK'
  BY <1>1, <1>2, <1>3 DEF StreamInv, StreamTypeOK
<1>5. \A d \in Client \ {c} : ClientRests(d)
  BY <1>1 DEF StreamInv, StreamTypeOK, ClientRests
<1>6. batch'[c] = {i \in 1..Len(events) : i > cursor[c] /\ VisibleTo(events[i], c)}
  BY <1>1, <1>3 DEF StreamInv, StreamTypeOK
<1>7. BatchIsNext(c)'
  BY <1>1, <1>2, <1>6 DEF BatchIsNext, sessionVars
<1>8. /\ SocketFollowsPhase(c)' /\ OfferIsSnapshot(c)' /\ WindowIsInLog(c)'
      /\ WireFillsTheGap(c) => WireFillsTheGap(c)'
  BY <1>1, <1>2 DEF ClientInv, SocketFollowsPhase, OfferIsSnapshot, WindowIsInLog, ShowsRoomAsOf,
                    WireFillsTheGap, InFlight, sessionVars
<1>9. ServerIsAhead(c)'
  BY <1>1, <1>2, <1>7, <1>8 DEF ClientInv, ServerIsAhead, sessionVars
<1>10. QED
  BY <1>1, <1>4, <1>5, <1>8, <1>9, OneClientStep DEF ClientInv

\* The oldest event of the batch becomes the newest frame, and the thread's cursor
\* moves to it: between the two there was nothing for c.
LEMMA SendFrameStep ==
  ASSUME StreamInv, NEW c \in Client, SendFrame(c)
  PROVE  StreamInv'
<1>1. PICK i \in batch[c] :
        /\ \A j \in batch[c] : i <= j
        /\ wire' = [wire EXCEPT ![c] = Append(@, events[i])]
        /\ cursor' = [cursor EXCEPT ![c] = IF events[i].sequence > @ THEN events[i].sequence ELSE @]
        /\ batch' = [batch EXCEPT ![c] = @ \ {i}]
  BY DEF SendFrame
<1>2. /\ socket[c] = "open"
      /\ UNCHANGED <<sessionVars, phase, offer, lastSequence, socket, view, dispatched>>
  BY DEF SendFrame
<1>3. /\ ClientInv(c) /\ SequenceIsPosition /\ events \in Seq(Event)
      /\ cursor[c] \in Nat /\ lastSequence[c] \in Nat /\ Len(events) \in Nat
      /\ wire[c] \in Seq(Event) /\ Len(wire[c]) \in Nat
  BY DEF StreamInv, StreamTypeOK, LogInv, SessionInv, TypeOK
<1>4. /\ lastSequence[c] <= cursor[c] /\ cursor[c] <= Len(events)
      /\ WireFillsTheGap(c) /\ BatchIsNext(c)
  BY <1>2, <1>3 DEF ClientInv, ServerIsAhead
<1>5. /\ i \in 1..Len(events) /\ i > cursor[c] /\ VisibleTo(events[i], c)
      /\ \A n \in 1..Len(events) : cursor[c] < n /\ n < i => ~VisibleTo(events[n], c)
  <2>1. /\ i \in 1..Len(events) /\ i > cursor[c] /\ VisibleTo(events[i], c)
        /\ \A n \in 1..Len(events) :
             cursor[c] < n /\ n < i /\ VisibleTo(events[n], c) => n \in batch[c]
    BY <1>1, <1>4 DEF BatchIsNext
  <2>2. QED
    BY <1>1, <2>1
<1>6. events[i].sequence = i /\ events[i] \in Event
  BY <1>3, <1>5 DEF SequenceIsPosition
<1>7. /\ wire'[c] = Append(wire[c], events[i])
      /\ cursor'[c] = i
      /\ batch'[c] = batch[c] \ {i}
      /\ lastSequence'[c] = lastSequence[c]
      /\ events' = events
  BY <1>1, <1>2, <1>5, <1>6 DEF StreamInv, StreamTypeOK, sessionVars
<1>8. StreamTypeOK'
  BY <1>1, <1>2, <1>3, <1>5, <1>6 DEF StreamInv, StreamTypeOK
<1>9. \A d \in Client \ {c} : ClientRests(d)
  BY <1>1, <1>2 DEF StreamInv, StreamTypeOK, ClientRests
<1> DEFINE w == wire[c]
           w2 == wire'[c]
<1>10. /\ Len(w2) = Len(w) + 1
       /\ \A k \in 1..Len(w) : w2[k] = w[k]
       /\ w2[Len(w) + 1] = events[i]
  BY <1>3, <1>6, <1>7
<1>11. ASSUME NEW n \in 1..Len(events)
       PROVE  lastSequence[c] < n /\ n <= i /\ VisibleTo(events[n], c) <=> InFlight(c, n) \/ n = i
  BY <1>3, <1>4, <1>5 DEF InFlight
<1>12. WireFillsTheGap(c)'
  <2>1. /\ \A k \in 1..Len(w) : /\ w[k].sequence \in 1..Len(events)
                                /\ InFlight(c, w[k].sequence)
                                /\ w[k] = events[w[k].sequence]
        /\ \A j \in 1..Len(w), k \in 1..Len(w) : j < k => w[j].sequence < w[k].sequence
        /\ \A n \in 1..Len(events) : InFlight(c, n) => \E k \in 1..Len(w) : w[k].sequence = n
    BY <1>4 DEF WireFillsTheGap
  <2>2. \A k \in 1..Len(w) : w[k].sequence < i
    BY <1>3, <1>5, <2>1 DEF InFlight
  <2> HIDE DEF w, w2
  <2>3. \A k \in 1..Len(w2) : k \in 1..Len(w) \/ k = Len(w) + 1
    BY <1>3, <1>10 DEF w
  <2>4. \A k \in 1..Len(w2) :
          /\ w2[k].sequence \in 1..Len(events)
          /\ lastSequence[c] < w2[k].sequence
          /\ w2[k].sequence <= i
          /\ VisibleTo(events[w2[k].sequence], c)
          /\ w2[k] = events[w2[k].sequence]
    BY <1>5, <1>6, <1>10, <1>11, <2>1, <2>3
  <2>5. \A j \in 1..Len(w2), k \in 1..Len(w2) : j < k => w2[j].sequence < w2[k].sequence
    BY <1>3, <1>6, <1>10, <2>1, <2>2, <2>3 DEF w
  <2>6. \A n \in 1..Len(events) :
          lastSequence[c] < n /\ n <= i /\ VisibleTo(events[n], c) =>
            \E k \in 1..Len(w2) : w2[k].sequence = n
    <3>1. Len(w) + 1 \in 1..Len(w2) /\ \A k \in 1..Len(w) : k \in 1..Len(w2)
      BY <1>3, <1>10 DEF w
    <3>2. QED
      BY <1>6, <1>10, <1>11, <2>1, <3>1
  <2>7. QED
    BY <1>7, <2>4, <2>5, <2>6 DEF WireFillsTheGap, InFlight, VisibleTo, w2
<1>13. BatchIsNext(c)'
  BY <1>1, <1>3, <1>4, <1>5, <1>7 DEF BatchIsNext
<1>14. ServerIsAhead(c)'
  BY <1>3, <1>4, <1>5, <1>7, <1>12, <1>13 DEF ServerIsAhead
<1>15. SocketFollowsPhase(c)' /\ OfferIsSnapshot(c)' /\ WindowIsInLog(c)'
  BY <1>2, <1>3 DEF ClientInv, SocketFollowsPhase, OfferIsSnapshot, WindowIsInLog, ShowsRoomAsOf,
                    sessionVars
<1>16. QED
  BY <1>2, <1>8, <1>9, <1>14, <1>15, OneClientStep DEF ClientInv

\* A lost socket takes its frames and its batch with it.
LEMMA SocketClosesStep ==
  ASSUME StreamInv, NEW c \in Client, SocketCloses(c)
  PROVE  StreamInv'
<1>1. /\ socket[c] \in {"connecting", "open"}
      /\ socket' = [socket EXCEPT ![c] = "backoff"]
      /\ wire' = [wire EXCEPT ![c] = <<>>]
      /\ cursor' = [cursor EXCEPT ![c] = 0]
      /\ batch' = [batch EXCEPT ![c] = {}]
      /\ UNCHANGED <<sessionVars, phase, offer, lastSequence, view, dispatched>>
  BY DEF SocketCloses
<1>2. StreamTypeOK'
  BY <1>1 DEF StreamInv, StreamTypeOK
<1>3. \A d \in Client \ {c} : ClientRests(d)
  BY <1>1 DEF StreamInv, StreamTypeOK, ClientRests
<1>4. /\ socket'[c] = "backoff" /\ wire'[c] = <<>> /\ batch'[c] = {}
      /\ socket[c] # "none"
  BY <1>1 DEF StreamInv, StreamTypeOK
<1>5. ClientInv(c)'
  BY <1>1, <1>4 DEF StreamInv, ClientInv, SocketFollowsPhase, OfferIsSnapshot, WindowIsInLog,
                    ShowsRoomAsOf, ServerIsAhead, sessionVars
<1>6. QED
  BY <1>1, <1>2, <1>3, <1>5, OneClientStep

\* The timer fires.
LEMMA ReconnectStep ==
  ASSUME StreamInv, NEW c \in Client, Reconnect(c)
  PROVE  StreamInv'
<1>1. /\ socket[c] = "backoff"
      /\ socket' = [socket EXCEPT ![c] = "connecting"]
      /\ UNCHANGED <<sessionVars, phase, offer, lastSequence, cursor, batch, wire, view, dispatched>>
  BY DEF Reconnect
<1>2. StreamTypeOK'
  BY <1>1 DEF StreamInv, StreamTypeOK
<1>3. \A d \in Client \ {c} : ClientRests(d)
  BY <1>1 DEF StreamInv, StreamTypeOK, ClientRests
<1>4. socket'[c] = "connecting"
  BY <1>1 DEF StreamInv, StreamTypeOK
<1>5. ClientInv(c)'
  BY <1>1, <1>4 DEF StreamInv, ClientInv, SocketFollowsPhase, OfferIsSnapshot, WindowIsInLog,
                    ShowsRoomAsOf, ServerIsAhead, sessionVars
<1>6. QED
  BY <1>1, <1>2, <1>3, <1>5, OneClientStep

-----------------------------------------------------------------------------
(* Dispatching a frame.                                                    *)

\* The frame at the head of the wire is the first event after the one dispatched
\* last that the client may see.
LEMMA HeadIsNext ==
  ASSUME StreamInv, NEW c \in Client, socket[c] = "open", wire[c] # <<>>
  PROVE  LET n == Head(wire[c]).sequence IN
         /\ n \in 1..Len(events)
         /\ lastSequence[c] < n /\ n <= cursor[c]
         /\ Head(wire[c]) = events[n]
         /\ VisibleTo(events[n], c)
         /\ \A j \in (lastSequence[c] + 1)..Len(events) : j < n => ~VisibleTo(events[j], c)
<1> DEFINE w == wire[c]
           n == Head(w).sequence
<1>1. /\ w \in Seq(Event) /\ Len(w) \in Nat /\ Len(w) >= 1 /\ Head(w) = w[1]
      /\ lastSequence[c] \in Nat /\ cursor[c] \in Nat
      /\ lastSequence[c] <= cursor[c] /\ cursor[c] <= Len(events)
      /\ WireFillsTheGap(c)
      /\ Len(events) \in Nat
  BY DEF StreamInv, StreamTypeOK, ClientInv, ServerIsAhead, LogInv, SessionInv, TypeOK
<1>2. /\ \A k \in 1..Len(w) : /\ w[k].sequence \in 1..Len(events)
                              /\ InFlight(c, w[k].sequence)
                              /\ w[k] = events[w[k].sequence]
      /\ \A j \in 1..Len(w), k \in 1..Len(w) : j < k => w[j].sequence < w[k].sequence
      /\ \A j \in 1..Len(events) : InFlight(c, j) => \E k \in 1..Len(w) : w[k].sequence = j
  BY <1>1 DEF WireFillsTheGap
<1> HIDE DEF w
<1>3. 1 \in 1..Len(w) /\ n = w[1].sequence
  BY <1>1
<1>4. n \in 1..Len(events) /\ InFlight(c, n) /\ Head(w) = events[n]
  BY <1>1, <1>2, <1>3
<1>5. ASSUME NEW j \in (lastSequence[c] + 1)..Len(events), j < n, VisibleTo(events[j], c)
      PROVE  FALSE
  <2>1. j \in 1..Len(events) /\ InFlight(c, j)
    BY <1>1, <1>4, <1>5 DEF InFlight
  <2>2. PICK k \in 1..Len(w) : w[k].sequence = j
    BY <1>2, <2>1
  <2>3. k = 1 \/ 1 < k
    BY <1>1
  <2>4. n <= j
    BY <1>1, <1>2, <1>3, <2>1, <2>2, <2>3
  <2>5. QED
    BY <1>4, <1>5, <2>1, <2>4
<1>6. QED
  BY <1>4, <1>5 DEF InFlight, w

\* Just before that frame the window shows the room in which it was recorded: what the
\* client was not sent says nothing about the room.
LEMMA ShownUpToHead ==
  ASSUME StreamInv, NEW c \in Client, socket[c] = "open", wire[c] # <<>>
  PROVE  /\ Head(wire[c]).sequence - 1 \in Nat
         /\ ShowsRoomAsOf(view[c], Head(wire[c]).sequence - 1)
<1> DEFINE n == Head(wire[c]).sequence
           k == lastSequence[c]
<1>1. /\ n \in 1..Len(events) /\ k < n
      /\ \A j \in (k + 1)..Len(events) : j < n => ~VisibleTo(events[j], c)
  BY HeadIsNext
<1>2. /\ k \in Nat /\ Len(events) \in Nat /\ PrivateEventsAreSilent
      /\ ShowsRoomAsOf(view[c], k)
  BY DEF StreamInv, StreamTypeOK, ClientInv, SocketFollowsPhase, WindowIsInLog,
         LogInv, SessionInv, TypeOK
<1> HIDE DEF n, k
<1>3. /\ n - 1 \in Nat /\ k <= n - 1 /\ n - 1 <= Len(events)
      /\ \A j \in (k + 1)..(n - 1) : j \in (k + 1)..Len(events) /\ j < n
  BY <1>1, <1>2
<1>4. \A j \in (k + 1)..(n - 1) : events[j].target # NoTarget
  BY <1>1, <1>3 DEF VisibleTo
<1>5. \A m : /\ MemberAsOf(events, n - 1, m) <=> MemberAsOf(events, k, m)
             /\ HostAsOf(events, n - 1, m) <=> HostAsOf(events, k, m)
             /\ MutedAsOf(events, n - 1, m) <=> MutedAsOf(events, k, m)
  BY <1>2, <1>3, <1>4, SilentStretch
<1>6. QED
  BY <1>2, <1>3, <1>5 DEF ShowsRoomAsOf, n

\* onmessage moves the window on to the event's own place, and leaves on the wire what
\* comes after it.
LEMMA DispatchStep ==
  ASSUME StreamInv, NEW c \in Client, Dispatch(c)
  PROVE  StreamInv'
<1> DEFINE w == wire[c]
           e == Head(w)
           n == e.sequence
           after == ApplyToView(view[c], e.message)
<1>1. /\ socket[c] = "open" /\ w # <<>>
      /\ UNCHANGED <<sessionVars, offer>>
  BY DEF Dispatch
<1>2. CASE TellsToLeave(c, e.message)
  BY <1>1, <1>2, ResetStep DEF Dispatch
<1>3. CASE ~TellsToLeave(c, e.message)
  <2>1. /\ lastSequence' = [lastSequence EXCEPT ![c] = IF n > @ THEN n ELSE @]
        /\ dispatched' = [dispatched EXCEPT ![c] = n]
        /\ view' = [view EXCEPT ![c] = after]
        /\ wire' = [wire EXCEPT ![c] = Tail(w)]
        /\ UNCHANGED <<phase, socket, cursor, batch>>
    BY <1>3 DEF Dispatch, StreamInv, StreamTypeOK
  <2>2. /\ n \in 1..Len(events) /\ lastSequence[c] < n /\ n <= cursor[c]
        /\ e = events[n]
    BY <1>1, HeadIsNext
  <2>3. /\ phase[c] = "channel"
        /\ lastSequence[c] \in Nat /\ cursor[c] \in Nat /\ Len(events) \in Nat
        /\ view[c] \in MemberTable
        /\ w \in Seq(Event) /\ Len(w) \in Nat /\ Len(w) >= 1 /\ e = w[1]
        /\ cursor[c] <= Len(events)
        /\ WireFillsTheGap(c) /\ BatchIsNext(c)
        /\ LogInv
    BY <1>1 DEF StreamInv, StreamTypeOK, ClientInv, SocketFollowsPhase, ServerIsAhead,
                LogInv, SessionInv, TypeOK
  <2>4. after \in MemberTable /\ ShowsRoomAsOf(after, n)
    <3>1. n - 1 \in Nat /\ ShowsRoomAsOf(view[c], n - 1)
      BY <1>1, ShownUpToHead
    <3>2. (n - 1) + 1 = n /\ n <= Len(events) /\ events[n].message = e.message
      BY <2>2
    <3> HIDE DEF n, e
    <3>3. QED
      BY <2>3, <3>1, <3>2, ApplyShowsRoom
  <2> HIDE DEF after
  <2>5. StreamTypeOK'
    BY <2>1, <2>2, <2>3, <2>4, <1>1 DEF StreamInv, StreamTypeOK
  <2>6. \A d \in Client \ {c} : ClientRests(d)
    BY <1>1, <2>1 DEF StreamInv, StreamTypeOK, ClientRests
  <2>7. /\ lastSequence'[c] = n /\ dispatched'[c] = n /\ view'[c] = after
        /\ wire'[c] = Tail(w)
        /\ phase'[c] = "channel" /\ socket'[c] = "open"
        /\ cursor'[c] = cursor[c] /\ batch'[c] = batch[c]
        /\ events' = events
    BY <1>1, <2>1, <2>2, <2>3 DEF StreamInv, StreamTypeOK, sessionVars
  <2>8. WindowIsInLog(c)'
    <3>1. ShowsRoomAsOf(view[c], lastSequence[c])'
      BY <2>4, <2>7 DEF ShowsRoomAsOf
    <3>2. QED
      BY <2>2, <2>3, <2>7, <3>1 DEF WindowIsInLog
  <2>9. WireFillsTheGap(c)'
    <3> DEFINE w2 == Tail(w)
    <3>1. /\ \A k \in 1..Len(w) : /\ w[k].sequence \in 1..Len(events)
                                  /\ InFlight(c, w[k].sequence)
                                  /\ w[k] = events[w[k].sequence]
          /\ \A j \in 1..Len(w), k \in 1..Len(w) : j < k => w[j].sequence < w[k].sequence
          /\ \A j \in 1..Len(events) : InFlight(c, j) => \E k \in 1..Len(w) : w[k].sequence = j
      BY <2>3 DEF WireFillsTheGap
    <3>2. /\ Len(w2) = Len(w) - 1
          /\ \A k \in 1..Len(w2) : w2[k] = w[k + 1]
          /\ n = w[1].sequence
      BY <1>1, <2>3
    <3> HIDE DEF w, w2, e, n
    <3>3. \A k \in 1..Len(w2) : k + 1 \in 1..Len(w) /\ 1 < k + 1 /\ 1 \in 1..Len(w)
      BY <2>3, <3>2
    <3>4. \A k \in 1..Len(w2) :
            /\ w2[k].sequence \in 1..Len(events)
            /\ n < w2[k].sequence
            /\ w2[k].sequence <= cursor[c]
            /\ VisibleTo(events[w2[k].sequence], c)
            /\ w2[k] = events[w2[k].sequence]
      BY <3>1, <3>2, <3>3 DEF InFlight
    <3>5. \A j \in 1..Len(w2), k \in 1..Len(w2) : j < k => w2[j].sequence < w2[k].sequence
      <4> SUFFICES ASSUME NEW j \in 1..Len(w2), NEW k \in 1..Len(w2), j < k
                   PROVE  w2[j].sequence < w2[k].sequence
        OBVIOUS
      <4>1. j + 1 \in 1..Len(w) /\ k + 1 \in 1..Len(w) /\ j + 1 < k + 1
        BY <3>3
      <4>2. w[j + 1].sequence < w[k + 1].sequence
        BY <3>1, <4>1
      <4>3. QED
        BY <3>2, <4>2
    <3>6. ASSUME NEW j \in 1..Len(events),
                 n < j, j <= cursor[c], VisibleTo(events[j], c)
          PROVE  \E k \in 1..Len(w2) : w2[k].sequence = j
      <4>1. InFlight(c, j)
        BY <2>2, <2>3, <3>6 DEF InFlight
      <4>2. PICK k \in 1..Len(w) : w[k].sequence = j
        BY <3>1, <4>1
      <4>3. k # 1
        BY <2>2, <3>2, <3>6, <4>2
      <4>4. k - 1 \in 1..Len(w2) /\ (k - 1) + 1 = k
        BY <2>3, <3>2, <4>3
      <4>5. QED
        BY <3>2, <4>2, <4>4
    <3>7. QED
      BY <2>7, <3>4, <3>5, <3>6 DEF WireFillsTheGap, InFlight, VisibleTo, w2
  <2>10. ServerIsAhead(c)'
    <3>1. BatchIsNext(c)'
      BY <2>3, <2>7 DEF BatchIsNext, VisibleTo
    <3>2. QED
      BY <2>2, <2>3, <2>7, <2>9, <3>1 DEF ServerIsAhead
  <2>11. ClientInv(c)'
    BY <2>7, <2>8, <2>10 DEF ClientInv, SocketFollowsPhase, OfferIsSnapshot
  <2>12. QED
    BY <1>1, <2>5, <2>6, <2>11, OneClientStep
<1>4. QED
  BY <1>2, <1>3

-----------------------------------------------------------------------------
(* Theorems.                                                               *)

LEMMA StreamInitInv == StreamInit => StreamInv
<1> SUFFICES ASSUME StreamInit PROVE StreamInv
  OBVIOUS
<1>1. LogInv
  BY LogInitInv DEF StreamInit
<1>2. NoOne \in MemberTable
  BY TableDef DEF NoOne
<1>3. StreamTypeOK
  BY <1>2 DEF StreamInit, StreamTypeOK
<1>4. \A c \in Client : ClientInv(c)
  BY DEF StreamInit, ClientInv, SocketFollowsPhase, OfferIsSnapshot, WindowIsInLog, ServerIsAhead
<1>5. QED
  BY <1>1, <1>3, <1>4 DEF StreamInv

LEMMA StreamNextInv == StreamInv /\ [StreamNext]_streamVars => StreamInv'
<1> SUFFICES ASSUME StreamInv, [StreamNext]_streamVars
             PROVE  StreamInv'
  OBVIOUS
<1>1. CASE RoomOperation
  BY <1>1, RoomOperationIsSessionStep, RoomStep
<1>2. ASSUME NEW c \in Client, Join(c) PROVE StreamInv'
  BY <1>2, WindowJoinStep
<1>3. ASSUME NEW c \in Client, EnterChannel(c) PROVE StreamInv'
  BY <1>3, WindowEnterStep
<1>4. ASSUME NEW c \in Client, JoinFails(c) PROVE StreamInv'
  BY <1>4, WindowJoinFailsStep
<1>5. ASSUME NEW c \in Client, Leave(c) PROVE StreamInv'
  BY <1>5, ResetStep DEF Leave
<1>6. ASSUME NEW c \in Client, SocketOpens(c) PROVE StreamInv'
  BY <1>6, SocketOpensStep
<1>7. ASSUME NEW c \in Client, Fetch(c) PROVE StreamInv'
  BY <1>7, FetchStep
<1>8. ASSUME NEW c \in Client, SendFrame(c) PROVE StreamInv'
  BY <1>8, SendFrameStep
<1>9. ASSUME NEW c \in Client, Dispatch(c) PROVE StreamInv'
  BY <1>9, DispatchStep
<1>10. ASSUME NEW c \in Client, SocketCloses(c) PROVE StreamInv'
  BY <1>10, SocketClosesStep
<1>11. ASSUME NEW c \in Client, Reconnect(c) PROVE StreamInv'
  BY <1>11, ReconnectStep
<1>12. CASE UNCHANGED streamVars
  <2>1. UNCHANGED sessionVars /\ UNCHANGED windowVars
    BY <1>12 DEF streamVars, sessionVars, windowVars
  <2>2. QED
    BY <2>1, RoomStep
<1>13. QED
  BY <1>1, <1>2, <1>3, <1>4, <1>5, <1>6, <1>7, <1>8, <1>9, <1>10, <1>11, <1>12 DEF StreamNext

\* The inductive invariant holds in every reachable state of the event channel.
THEOREM StreamInvariant == StreamSpec => []StreamInv
<1>1. QED
  BY StreamInitInv, StreamNextInv, PTL DEF StreamSpec

\* Through joins, losses, resubscriptions and removals, the frames of a socket are
\* exactly the events between the two cursors that the client may see, in order
\* (handle_websocket_event_stream and createWebSocketControlSession).
THEOREM NothingIsLostOrRepeated == StreamSpec => []WireIsTheGap
<1>1. StreamInv => WireIsTheGap
  BY DEF StreamInv, ClientInv, ServerIsAhead, WireFillsTheGap, WireIsTheGap
<1>2. QED
  BY <1>1, StreamInvariant, PTL

\* A window in the channel shows the members, the host and the mutes of the room as of
\* the event it has dispatched last (applyRuntimeEvent).
THEOREM WindowsShowTheRoom == StreamSpec => []ViewIsRoomAsOf
<1>1. StreamInv => ViewIsRoomAsOf
  BY DEF StreamInv, ClientInv, WindowIsInLog, ShowsRoomAsOf, ViewIsRoomAsOf
<1>2. QED
  BY <1>1, StreamInvariant, PTL

\* No window is handed a signal of a peer it does not show.
THEOREM SignalsAreFromShownPeers == StreamSpec => []SignalsComeFromShownMembers
<1>1. StreamInv => SignalsComeFromShownMembers
  <2> SUFFICES ASSUME StreamInv, NEW c \in Client, wire[c] # <<>>,
                      Head(wire[c]).message.type = "WebRtcSignal"
               PROVE  Head(wire[c]).message.from \in DOMAIN view[c]
    BY DEF SignalsComeFromShownMembers
  <2> DEFINE n == Head(wire[c]).sequence
             msg == events[n].message
  <2>1. socket[c] = "open"
    BY DEF StreamInv, ClientInv, SocketFollowsPhase
  <2>2. n \in 1..Len(events) /\ Head(wire[c]) = events[n]
    BY <2>1, HeadIsNext
  <2>3. ShowsRoomAsOf(view[c], n - 1)
    BY <2>1, ShownUpToHead
  <2>4. events[n] \in Event
    BY <2>2 DEF StreamInv, LogInv, SessionInv, TypeOK
  <2>5. msg \in Message /\ msg.type = "WebRtcSignal"
    BY <2>2, <2>4 DEF Event
  <2>6. msg.from \in MemberId
    BY <2>5 DEF Message
  <2>7. MemberAsOf(events, n - 1, msg.from)
    BY <2>2, <2>5 DEF StreamInv, LogInv, SessionInv, SignalsOnlyBetweenMembers
  <2>8. QED
    BY <2>2, <2>3, <2>6, <2>7 DEF ShowsRoomAsOf
<1>2. QED
  BY <1>1, StreamInvariant, PTL

-----------------------------------------------------------------------------
(* The event channel implements RoomFeed.                                  *)

\* The place of a window in the feed.
FeedPlace(c) == IF phase[c] = "channel" THEN dispatched[c] ELSE Absent

FeedPlaces == [c \in Client |-> FeedPlace(c)]

\* A step that leaves phase and dispatched alone leaves the feed's positions alone.
LEMMA SameFeedPlaces ==
  ASSUME \A c \in Client : FeedPlace(c)' = FeedPlace(c)
  PROVE  FeedPlaces' = FeedPlaces
BY DEF FeedPlaces

\* Every operation of the room is at most a publication.
LEMMA RoomStepIsPublish ==
  ASSUME LogInv, [SessionNext]_sessionVars, FeedPlaces' = FeedPlaces
  PROVE  Feed!Publish
<1>1. LogGrows
  BY SessionStepGrows
<1>2. QED
  BY <1>1 DEF Feed!Publish, FeedPlaces, FeedPlace, LogGrows

\* A step that changes the place of one window only.
LEMMA OneFeedPlace ==
  ASSUME NEW c \in Client, NEW place,
         FeedPlace(c)' = place,
         \A d \in Client \ {c} : FeedPlace(d)' = FeedPlace(d)
  PROVE  FeedPlaces' = [FeedPlaces EXCEPT ![c] = place]
BY DEF FeedPlaces

\* The control session starts reading the feed at the place of the answer.
LEMMA EnteringEnters ==
  ASSUME StreamInv, NEW c \in Client, EnterChannel(c)
  PROVE  Feed!Enter(c)
<1> DEFINE n == offer[c].latestSequence
<1>1. /\ phase[c] = "joining" /\ phase' = [phase EXCEPT ![c] = "channel"]
      /\ dispatched' = [dispatched EXCEPT ![c] = n]
      /\ UNCHANGED sessionVars
      /\ phase \in [Client -> {"out", "joining", "channel"}] /\ dispatched \in [Client -> Nat]
  BY DEF EnterChannel, StreamInv, StreamTypeOK
<1>2. n \in 0..Len(events)
  BY <1>1 DEF StreamInv, ClientInv, OfferIsSnapshot
<1>3. FeedPlaces[c] = Absent
  BY <1>1 DEF FeedPlaces, FeedPlace
<1> HIDE DEF n
<1>4. FeedPlace(c)' = n /\ \A d \in Client \ {c} : FeedPlace(d)' = FeedPlace(d)
  BY <1>1 DEF FeedPlace
<1>5. FeedPlaces' = [FeedPlaces EXCEPT ![c] = n]
  BY <1>4, OneFeedPlace
<1>6. QED
  BY <1>1, <1>2, <1>3, <1>5 DEF Feed!Enter, FeedPlaces, FeedPlace, sessionVars

\* Leaving stops reading it.
LEMMA ResettingQuits ==
  ASSUME StreamInv, NEW c \in Client, phase[c] = "channel", ResetWindow(c),
         UNCHANGED sessionVars
  PROVE  Feed!Quit(c)
<1>1. /\ phase' = [phase EXCEPT ![c] = "out"]
      /\ dispatched' = [dispatched EXCEPT ![c] = 0]
      /\ phase \in [Client -> {"out", "joining", "channel"}] /\ dispatched \in [Client -> Nat]
  BY DEF ResetWindow, StreamInv, StreamTypeOK
<1>2. FeedPlaces[c] # Absent
  BY <1>1, StreamAssumption DEF FeedPlaces, FeedPlace
<1>3. FeedPlace(c)' = Absent /\ \A d \in Client \ {c} : FeedPlace(d)' = FeedPlace(d)
  BY <1>1 DEF FeedPlace
<1>4. FeedPlaces' = [FeedPlaces EXCEPT ![c] = Absent]
  BY <1>3, OneFeedPlace
<1>5. QED
  BY <1>2, <1>4 DEF Feed!Quit, FeedPlaces, FeedPlace, sessionVars

\* A dispatched frame is the entry the feed has next for the window.
LEMMA DispatchingReads ==
  ASSUME StreamInv, NEW c \in Client, Dispatch(c)
  PROVE  Feed!Read(c) \/ Feed!Quit(c)
<1> DEFINE e == Head(wire[c])
           n == e.sequence
<1>1. /\ socket[c] = "open" /\ wire[c] # <<>> /\ UNCHANGED sessionVars
      /\ phase[c] = "channel"
      /\ phase \in [Client -> {"out", "joining", "channel"}] /\ dispatched \in [Client -> Nat]
  BY DEF Dispatch, StreamInv, StreamTypeOK, ClientInv, SocketFollowsPhase
<1>2. CASE TellsToLeave(c, e.message)
  BY <1>1, <1>2, ResettingQuits DEF Dispatch
<1>3. CASE ~TellsToLeave(c, e.message)
  <2>1. dispatched' = [dispatched EXCEPT ![c] = n] /\ UNCHANGED phase
    BY <1>3 DEF Dispatch, ResetWindow
  <2>2. /\ n \in 1..Len(events) /\ lastSequence[c] < n
        /\ VisibleTo(events[n], c)
        /\ \A j \in (lastSequence[c] + 1)..Len(events) : j < n => ~VisibleTo(events[j], c)
    BY <1>1, HeadIsNext
  <2>3. /\ dispatched[c] = lastSequence[c] /\ lastSequence[c] \in Nat
        /\ FeedPlaces[c] = lastSequence[c]
    BY <1>1 DEF StreamInv, StreamTypeOK, ClientInv, WindowIsInLog, FeedPlaces, FeedPlace
  <2> HIDE DEF n
  <2>4. Feed!NextFor(c, FeedPlaces[c], n)
    BY <2>2, <2>3 DEF Feed!NextFor, Feed!Addressed, VisibleTo
  <2>5. FeedPlace(c)' = n /\ \A d \in Client \ {c} : FeedPlace(d)' = FeedPlace(d)
    BY <1>1, <2>1 DEF FeedPlace
  <2>6. FeedPlaces' = [FeedPlaces EXCEPT ![c] = n]
    BY <2>5, OneFeedPlace
  <2>7. FeedPlaces[c] # Absent
    BY <2>3, StreamAssumption
  <2>8. Feed!Read(c)
    BY <1>1, <2>2, <2>4, <2>6, <2>7 DEF Feed!Read, FeedPlaces, FeedPlace, sessionVars
  <2>9. QED
    BY <2>8
<1>4. QED
  BY <1>2, <1>3

\* Everything a socket does besides dispatching is invisible to the feed.
LEMMA SocketStepIsStutter ==
  ASSUME UNCHANGED <<sessionVars, phase, dispatched>>
  PROVE  UNCHANGED Feed!feedVars
BY DEF Feed!feedVars, sessionVars

\* Every step of the event channel is a step of the feed or invisible to it.
LEMMA StreamStepIsFeedStep ==
  ASSUME StreamInv, [StreamNext]_streamVars
  PROVE  [Feed!FeedNext]_Feed!feedVars
<1>1. CASE RoomOperation
  <2>1. SessionNext /\ UNCHANGED windowVars
    BY <1>1, RoomOperationIsSessionStep
  <2>2. FeedPlaces' = FeedPlaces
    BY <2>1, SameFeedPlaces DEF windowVars, FeedPlace
  <2>3. Feed!Publish
    BY <2>1, <2>2, RoomStepIsPublish DEF StreamInv
  <2>4. QED
    BY <2>3 DEF Feed!FeedNext
<1>2. ASSUME NEW c \in Client, Join(c) PROVE Feed!FeedNext
  <2>1. c \in MemberId /\ JoinHostSession(c, RoomInvite)
    BY <1>2, StreamAssumption DEF Join
  <2>2. FeedPlaces' = FeedPlaces
    <3>1. \A d \in Client : FeedPlace(d)' = FeedPlace(d)
      BY <1>2 DEF Join, FeedPlace, StreamInv, StreamTypeOK
    <3>2. QED
      BY <3>1, SameFeedPlaces
  <2>3. Feed!Publish
    BY <2>1, <2>2, JoinIsSessionStep, RoomStepIsPublish DEF StreamInv
  <2>4. QED
    BY <2>3 DEF Feed!FeedNext
<1>3. ASSUME NEW c \in Client, EnterChannel(c) PROVE Feed!FeedNext
  BY <1>3, EnteringEnters DEF Feed!FeedNext
<1>4. ASSUME NEW c \in Client, JoinFails(c) PROVE UNCHANGED Feed!feedVars
  <2>1. FeedPlaces' = FeedPlaces
    <3>1. \A d \in Client : FeedPlace(d)' = FeedPlace(d)
      BY <1>4 DEF JoinFails, FeedPlace, StreamInv, StreamTypeOK
    <3>2. QED
      BY <3>1, SameFeedPlaces
  <2>2. QED
    BY <1>4, <2>1 DEF Feed!feedVars, FeedPlaces, FeedPlace, JoinFails, sessionVars
<1>5. ASSUME NEW c \in Client, Leave(c) PROVE Feed!FeedNext
  BY <1>5, ResettingQuits DEF Feed!FeedNext, Leave
<1>6. ASSUME NEW c \in Client, SocketOpens(c) PROVE UNCHANGED Feed!feedVars
  BY <1>6, SocketStepIsStutter DEF SocketOpens
<1>7. ASSUME NEW c \in Client, Fetch(c) PROVE UNCHANGED Feed!feedVars
  BY <1>7, SocketStepIsStutter DEF Fetch
<1>8. ASSUME NEW c \in Client, SendFrame(c) PROVE UNCHANGED Feed!feedVars
  BY <1>8, SocketStepIsStutter DEF SendFrame
<1>9. ASSUME NEW c \in Client, Dispatch(c) PROVE Feed!FeedNext
  BY <1>9, DispatchingReads DEF Feed!FeedNext
<1>10. ASSUME NEW c \in Client, SocketCloses(c) PROVE UNCHANGED Feed!feedVars
  BY <1>10, SocketStepIsStutter DEF SocketCloses
<1>11. ASSUME NEW c \in Client, Reconnect(c) PROVE UNCHANGED Feed!feedVars
  BY <1>11, SocketStepIsStutter DEF Reconnect
<1>12. CASE UNCHANGED streamVars
  BY <1>12, SocketStepIsStutter DEF streamVars, sessionVars
<1>13. QED
  BY <1>1, <1>2, <1>3, <1>4, <1>5, <1>6, <1>7, <1>8, <1>9, <1>10, <1>11, <1>12 DEF StreamNext

LEMMA StreamInitIsFeedInit == StreamInit => Feed!FeedInit
<1> SUFFICES ASSUME StreamInit PROVE Feed!FeedInit
  OBVIOUS
<1>1. Len(events) \in Nat
  BY DEF StreamInit, SessionInit
<1>2. \A c \in Client : FeedPlace(c) = Absent
  BY DEF StreamInit, FeedPlace
<1>3. QED
  BY <1>1, <1>2 DEF Feed!FeedInit, FeedPlace

\* Whatever the sockets do, a window handles each event meant for it once and in order:
\* the event channel implements RoomFeed.
THEOREM StreamImplementsFeed == StreamSpec => FeedIsImplemented
<1>1. StreamInit => Feed!FeedInit
  BY StreamInitIsFeedInit
<1>2. StreamInv /\ [StreamNext]_streamVars => [Feed!FeedNext]_Feed!feedVars
  BY StreamStepIsFeedStep
<1>3. QED
  BY <1>1, <1>2, StreamInvariant, PTL DEF StreamSpec, FeedIsImplemented, Feed!FeedSpec

-----------------------------------------------------------------------------
(* A removed member's window.                                              *)

\* What one step may do to the window of c: it is left alone, joins, enters, goes out,
\* or moves on to the next event it may see, which is not the notice of its removal.
WindowMoves(c) ==
  \/ /\ phase'[c] = phase[c] /\ offer'[c] = offer[c] /\ lastSequence'[c] = lastSequence[c]
  \/ /\ phase'[c] = "joining" /\ JoinHostSession(c, RoomInvite)
     /\ offer'[c].latestSequence = nextSequence' - 1 /\ offer'[c].roomState = members'
  \/ /\ phase[c] = "joining" /\ phase'[c] = "channel" /\ UNCHANGED sessionVars
     /\ lastSequence'[c] = offer[c].latestSequence
  \/ phase'[c] = "out"
  \/ /\ phase[c] = "channel" /\ phase'[c] = "channel" /\ UNCHANGED sessionVars
     /\ lastSequence'[c] \in 1..Len(events)
     /\ lastSequence[c] < lastSequence'[c]
     /\ ~TellsToLeave(c, events[lastSequence'[c]].message)
     /\ \A j \in (lastSequence[c] + 1)..Len(events) :
          j < lastSequence'[c] => ~VisibleTo(events[j], c)

\* A dispatch moves the window on to the frame's place or out of the channel.
LEMMA DispatchMoves ==
  ASSUME StreamInv, NEW c \in Client, Dispatch(c)
  PROVE  WindowMoves(c) /\ \A d \in Client \ {c} : WindowMoves(d)
<1> DEFINE e == Head(wire[c])
           n == e.sequence
<1>1. /\ socket[c] = "open" /\ wire[c] # <<>> /\ UNCHANGED sessionVars /\ UNCHANGED offer
      /\ phase[c] = "channel"
      /\ phase \in [Client -> {"out", "joining", "channel"}] /\ lastSequence \in [Client -> Nat]
  BY DEF Dispatch, StreamInv, StreamTypeOK, ClientInv, SocketFollowsPhase
<1>2. CASE TellsToLeave(c, e.message)
  <2>1. ResetWindow(c)
    BY <1>2 DEF Dispatch
  <2>2. QED
    BY <1>1, <2>1 DEF ResetWindow, WindowMoves
<1>3. CASE ~TellsToLeave(c, e.message)
  <2>1. /\ lastSequence' = [lastSequence EXCEPT ![c] = IF n > @ THEN n ELSE @]
        /\ UNCHANGED phase
    BY <1>3 DEF Dispatch
  <2>2. /\ n \in 1..Len(events) /\ lastSequence[c] < n /\ e = events[n]
        /\ \A j \in (lastSequence[c] + 1)..Len(events) : j < n => ~VisibleTo(events[j], c)
    BY <1>1, HeadIsNext
  <2>3. ~TellsToLeave(c, events[n].message)
    BY <1>3, <2>2
  <2> HIDE DEF n, e
  <2>4. lastSequence'[c] = n /\ phase'[c] = "channel"
    BY <1>1, <2>1, <2>2
  <2>5. WindowMoves(c)
    BY <1>1, <2>2, <2>3, <2>4 DEF WindowMoves
  <2>6. \A d \in Client \ {c} : WindowMoves(d)
    BY <1>1, <2>1 DEF WindowMoves
  <2>7. QED
    BY <2>5, <2>6
<1>4. QED
  BY <1>2, <1>3

\* Every step is one of the room or leaves the room as it is, and moves each window in
\* one of these ways.
LEMMA StreamStepMoves ==
  ASSUME StreamInv, [StreamNext]_streamVars
  PROVE  [SessionNext]_sessionVars /\ \A c \in Client : WindowMoves(c)
<1> USE DEF StreamInv, StreamTypeOK
<1>1. CASE RoomOperation
  <2>1. SessionNext /\ UNCHANGED windowVars
    BY <1>1, RoomOperationIsSessionStep
  <2>2. \A c \in Client : WindowMoves(c)
    BY <2>1 DEF windowVars, WindowMoves
  <2>3. QED
    BY <2>1, <2>2
<1>2. ASSUME NEW c \in Client, Join(c)
      PROVE  SessionNext /\ \A d \in Client : WindowMoves(d)
  <2>1. c \in MemberId /\ JoinHostSession(c, RoomInvite)
    BY <1>2, StreamAssumption DEF Join
  <2>2. /\ phase' = [phase EXCEPT ![c] = "joining"]
        /\ offer' = [offer EXCEPT ![c] = [latestSequence |-> nextSequence' - 1,
                                          roomState |-> members']]
        /\ UNCHANGED lastSequence
    BY <1>2 DEF Join
  <2>3. /\ phase'[c] = "joining"
        /\ offer'[c].latestSequence = nextSequence' - 1 /\ offer'[c].roomState = members'
    BY <2>2
  <2>4. WindowMoves(c)
    BY <2>1, <2>3 DEF WindowMoves
  <2>5. \A d \in Client \ {c} : WindowMoves(d)
    BY <2>2 DEF WindowMoves
  <2>6. QED
    BY <2>1, <2>4, <2>5, JoinIsSessionStep
<1>3. ASSUME NEW c \in Client, EnterChannel(c)
      PROVE  UNCHANGED sessionVars /\ \A d \in Client : WindowMoves(d)
  BY <1>3 DEF EnterChannel, WindowMoves
<1>4. ASSUME NEW c \in Client, JoinFails(c)
      PROVE  UNCHANGED sessionVars /\ \A d \in Client : WindowMoves(d)
  BY <1>4 DEF JoinFails, WindowMoves
<1>5. ASSUME NEW c \in Client, Leave(c)
      PROVE  UNCHANGED sessionVars /\ \A d \in Client : WindowMoves(d)
  BY <1>5 DEF Leave, ResetWindow, WindowMoves
<1>6. ASSUME NEW c \in Client,
             SocketOpens(c) \/ Fetch(c) \/ SendFrame(c) \/ SocketCloses(c) \/ Reconnect(c)
      PROVE  UNCHANGED sessionVars /\ \A d \in Client : WindowMoves(d)
  <2>1. UNCHANGED <<sessionVars, phase, offer, lastSequence>>
    BY <1>6 DEF SocketOpens, Fetch, SendFrame, SocketCloses, Reconnect
  <2>2. QED
    BY <2>1 DEF WindowMoves
<1>7. ASSUME NEW c \in Client, Dispatch(c)
      PROVE  UNCHANGED sessionVars /\ \A d \in Client : WindowMoves(d)
  <2>1. WindowMoves(c) /\ \A d \in Client \ {c} : WindowMoves(d)
    BY <1>7, DispatchMoves
  <2>2. UNCHANGED sessionVars
    BY <1>7 DEF Dispatch
  <2>3. QED
    BY <2>1, <2>2
<1>8. CASE UNCHANGED streamVars
  BY <1>8 DEF streamVars, sessionVars, WindowMoves
<1>9. QED
  BY <1>1, <1>2, <1>3, <1>4, <1>5, <1>6, <1>7, <1>8 DEF StreamNext

\* The notice that it was removed awaits c beyond place n of the log.
NoticeBeyond(c, n) ==
  \E i \in (n + 1)..Len(events) :
    VisibleTo(events[i], c) /\ TellsToLeave(c, events[i].message)

Told(c) ==
  ~HasMember(members, c) =>
    /\ phase[c] = "joining" => NoticeBeyond(c, offer[c].latestSequence)
    /\ phase[c] = "channel" => NoticeBeyond(c, lastSequence[c])

\* A window in the channel, or about to enter it, whose member is not in the room any
\* more has the notice still before it: it was neither recorded before the place the
\* window starts from nor passed over by a subscription.
RemovedWindowsAreTold == \A c \in Client : Told(c)

\* The step that removes c records the notice beyond every place c may have read to.
LEMMA RemovalIsBeyond ==
  ASSUME LogInv, [SessionNext]_sessionVars, NEW c \in MemberId, ~HasMember(members, c)',
         NEW n \in 0..Len(events),
         ~HasMember(members, c) => NoticeBeyond(c, n)
  PROVE  NoticeBeyond(c, n)'
<1>1. StepIsLogged /\ Len(events) \in Nat /\ Len(events') \in Nat
  BY SessionStepIsLogged, LogNextInv DEF LogInv, SessionInv, TypeOK
<1>2. CASE HasMember(members, c)
  <2>1. c \in DOMAIN members \ DOMAIN members'
    BY <1>2 DEF HasMember
  <2>2. PICK i \in (Len(events) + 1)..Len(events') :
          /\ events'[i].target = c
          /\ events'[i].message.type = "MemberRemoved"
          /\ events'[i].message.member = c
    BY <1>1, <2>1 DEF StepIsLogged
  <2>3. i \in (n + 1)..Len(events')
    BY <1>1
  <2>4. QED
    BY <2>2, <2>3 DEF NoticeBeyond, VisibleTo, TellsToLeave
<1>3. CASE ~HasMember(members, c)
  <2>1. PICK i \in (n + 1)..Len(events) :
          VisibleTo(events[i], c) /\ TellsToLeave(c, events[i].message)
    BY <1>3 DEF NoticeBeyond
  <2>2. i \in (n + 1)..Len(events') /\ i \in 1..Len(events) /\ events'[i] = events[i]
    BY <1>1, <2>1 DEF StepIsLogged
  <2>3. QED
    BY <2>1, <2>2 DEF NoticeBeyond, VisibleTo, TellsToLeave
<1>4. QED
  BY <1>2, <1>3

LEMMA ToldStep ==
  ASSUME StreamInv, RemovedWindowsAreTold, [StreamNext]_streamVars
  PROVE  RemovedWindowsAreTold'
<1> SUFFICES ASSUME NEW c \in Client, ~HasMember(members, c)'
             PROVE  /\ phase'[c] = "joining" => NoticeBeyond(c, offer[c].latestSequence)'
                    /\ phase'[c] = "channel" => NoticeBeyond(c, lastSequence[c])'
  BY DEF RemovedWindowsAreTold, Told
<1>1. /\ [SessionNext]_sessionVars /\ WindowMoves(c) /\ Told(c)
      /\ LogInv /\ c \in MemberId /\ Len(events) \in Nat
      /\ phase[c] = "joining" => offer[c].latestSequence \in 0..Len(events)
      /\ phase[c] = "channel" => lastSequence[c] \in 0..Len(events)
  BY StreamStepMoves, StreamAssumption
     DEF RemovedWindowsAreTold, StreamInv, StreamTypeOK, ClientInv, OfferIsSnapshot, WindowIsInLog,
         LogInv, SessionInv, TypeOK
<1>2. CASE /\ phase'[c] = phase[c] /\ offer'[c] = offer[c]
           /\ lastSequence'[c] = lastSequence[c]
  <2>1. ASSUME phase[c] = "joining" PROVE NoticeBeyond(c, offer[c].latestSequence)'
    <3>1. PICK n \in 0..Len(events) : n = offer[c].latestSequence
      BY <1>1, <2>1
    <3>2. ~HasMember(members, c) => NoticeBeyond(c, n)
      BY <1>1, <2>1, <3>1 DEF Told
    <3>3. NoticeBeyond(c, n)'
      BY <1>1, <3>2, RemovalIsBeyond
    <3>4. QED
      BY <1>2, <3>1, <3>3 DEF NoticeBeyond
  <2>2. ASSUME phase[c] = "channel" PROVE NoticeBeyond(c, lastSequence[c])'
    <3>1. PICK n \in 0..Len(events) : n = lastSequence[c]
      BY <1>1, <2>2
    <3>2. ~HasMember(members, c) => NoticeBeyond(c, n)
      BY <1>1, <2>2, <3>1 DEF Told
    <3>3. NoticeBeyond(c, n)'
      BY <1>1, <3>2, RemovalIsBeyond
    <3>4. QED
      BY <1>2, <3>1, <3>3 DEF NoticeBeyond
  <2>3. QED
    BY <1>2, <2>1, <2>2
<1>3. CASE phase'[c] = "joining" /\ JoinHostSession(c, RoomInvite)
  <2>1. members \in MemberTable /\ members' = AddMember(members, c)
    BY <1>1, <1>3 DEF JoinHostSession, LogInv, SessionInv, TypeOK
  <2>2. c \in DOMAIN members'
    BY <1>1, <2>1, AddMemberTable
  <2>3. QED
    BY <2>2 DEF HasMember
<1>4. CASE /\ phase[c] = "joining" /\ phase'[c] = "channel" /\ UNCHANGED sessionVars
           /\ lastSequence'[c] = offer[c].latestSequence
  <2>1. NoticeBeyond(c, offer[c].latestSequence)
    BY <1>1, <1>4 DEF Told, sessionVars
  <2>2. QED
    BY <1>4, <2>1 DEF NoticeBeyond, sessionVars, VisibleTo
<1>5. CASE /\ phase[c] = "channel" /\ phase'[c] = "channel" /\ UNCHANGED sessionVars
           /\ lastSequence'[c] \in 1..Len(events)
           /\ lastSequence[c] < lastSequence'[c]
           /\ ~TellsToLeave(c, events[lastSequence'[c]].message)
           /\ \A j \in (lastSequence[c] + 1)..Len(events) :
                j < lastSequence'[c] => ~VisibleTo(events[j], c)
  <2>1. PICK i \in (lastSequence[c] + 1)..Len(events) :
          VisibleTo(events[i], c) /\ TellsToLeave(c, events[i].message)
    BY <1>1, <1>5 DEF Told, NoticeBeyond, sessionVars
  <2>2. i # lastSequence'[c] /\ ~(i < lastSequence'[c])
    BY <1>5, <2>1
  <2>3. i \in (lastSequence'[c] + 1)..Len(events)
    BY <1>1, <1>5, <2>1, <2>2
  <2>4. QED
    BY <1>5, <2>1, <2>3 DEF NoticeBeyond, sessionVars, VisibleTo
<1>6. CASE phase'[c] = "out"
  BY <1>6
<1>7. QED
  BY <1>1, <1>2, <1>3, <1>4, <1>5, <1>6 DEF WindowMoves

\* Also when it was removed before its answer arrived, while its socket was down, or
\* between two subscriptions, a removed member's window has the notice still to read
\* (kick_member, ban_member, get_events_since_for_member): what RemovedMembersGetOut
\* says of fair runs rests on this.
THEOREM NoticesAreNotMissed == StreamSpec => []RemovedWindowsAreTold
<1>1. StreamInit => RemovedWindowsAreTold
  BY DEF StreamInit, RemovedWindowsAreTold, Told
<1>2. QED
  BY <1>1, ToldStep, StreamInvariant, PTL DEF StreamSpec

\* The event at n leaves c in the room and is not the notice of its removal.
InRoomAt(c, n) ==
  /\ n \in 1..Len(events)
  /\ MemberAsOf(events, n, c)
  /\ ~TellsToLeave(c, events[n].message)

StandsInRoom(c) ==
  /\ phase[c] = "joining" => InRoomAt(c, offer[c].latestSequence)
  /\ phase[c] = "channel" => InRoomAt(c, lastSequence[c])

StandInRoom == \A c \in Client : StandsInRoom(c)

\* The room as of some place does not change as the log grows.
LEMMA InRoomStays ==
  ASSUME LogInv, LogInv', StepIsLogged, NEW c, NEW n, InRoomAt(c, n)
  PROVE  InRoomAt(c, n)'
<1>1. /\ n \in 1..Len(events) /\ n \in 1..Len(events') /\ n \in Nat
      /\ \A k \in 1..n : events'[k] = events[k]
      /\ events'[n] = events[n]
  BY DEF LogInv, SessionInv, TypeOK, StepIsLogged, InRoomAt
<1>2. MemberAsOf(events', n, c)
  BY <1>1, AsOfCongruent DEF InRoomAt
<1>3. QED
  BY <1>1, <1>2 DEF InRoomAt, TellsToLeave

\* The next event c may see, if it is not the notice, leaves c in the room: the notice
\* would be the event before it, and would be for c.
LEMMA NextLeavesInRoom ==
  ASSUME LogInv, DeparturesAreTold, NEW c \in MemberId, NEW k, InRoomAt(c, k),
         NEW n \in 1..Len(events), k < n,
         ~TellsToLeave(c, events[n].message),
         \A j \in (k + 1)..Len(events) : j < n => ~VisibleTo(events[j], c)
  PROVE  InRoomAt(c, n)
<1>1. /\ Len(events) \in Nat /\ k \in 1..Len(events) /\ k \in Nat /\ n - 1 \in Nat
      /\ n = (n - 1) + 1
      /\ k <= n - 1 /\ n - 1 <= Len(events) /\ PrivateEventsAreSilent
  BY DEF LogInv, SessionInv, TypeOK, InRoomAt
<1>2. \A j \in (k + 1)..(n - 1) : events[j].target # NoTarget
  BY <1>1 DEF VisibleTo
<1>3. MemberAsOf(events, n - 1, c)
  BY <1>1, <1>2, SilentStretch DEF InRoomAt
<1>4. ~Departs(events[n].message, c)
  <2> SUFFICES ASSUME Departs(events[n].message, c) PROVE FALSE
    OBVIOUS
  <2>1. /\ n - 1 \in 1..Len(events)
        /\ events[n - 1].target = c
        /\ events[n - 1].message.type = "MemberRemoved"
        /\ events[n - 1].message.member = c
    BY <1>3 DEF DeparturesAreTold
  <2>2. VisibleTo(events[n - 1], c) /\ TellsToLeave(c, events[n - 1].message)
    BY <2>1 DEF VisibleTo, TellsToLeave
  <2>3. CASE n - 1 = k
    BY <2>2, <2>3 DEF InRoomAt
  <2>4. CASE n - 1 > k
    <3>1. n - 1 \in (k + 1)..Len(events) /\ n - 1 < n
      BY <1>1, <2>4
    <3>2. QED
      BY <2>2, <3>1
  <2>5. QED
    BY <1>1, <2>3, <2>4
<1>5. MemberAsOf(events, n, c)
  <2> DEFINE m == n - 1
  <2>1. m \in Nat /\ n = m + 1 /\ MemberAsOf(events, m, c) /\ ~Departs(events[m + 1].message, c)
    BY <1>1, <1>3, <1>4
  <2> HIDE DEF m
  <2>2. QED
    BY <2>1, MemberAsOfStep
<1>6. QED
  BY <1>5 DEF InRoomAt

LEMMA StandInRoomStep ==
  ASSUME StreamInv, DeparturesAreTold, StandInRoom, [StreamNext]_streamVars
  PROVE  DeparturesAreTold' /\ StandInRoom'
<1>1. [SessionNext]_sessionVars /\ \A c \in Client : WindowMoves(c)
  BY StreamStepMoves
<1>2. LogInv /\ LogInv' /\ StepIsLogged /\ DeparturesAreTold'
  BY <1>1, LogNextInv, DeparturesStep, SessionStepIsLogged DEF StreamInv, LogInv
<1>3. ASSUME NEW c \in Client
      PROVE  /\ phase'[c] = "joining" => InRoomAt(c, offer[c].latestSequence)'
             /\ phase'[c] = "channel" => InRoomAt(c, lastSequence[c])'
  <2>1. /\ c \in MemberId /\ WindowMoves(c)
        /\ phase[c] = "joining" => InRoomAt(c, offer[c].latestSequence)
        /\ phase[c] = "channel" => InRoomAt(c, lastSequence[c])
    BY <1>1, <1>3, StreamAssumption DEF StandInRoom, StandsInRoom
  <2>2. CASE /\ phase'[c] = phase[c] /\ offer'[c] = offer[c]
             /\ lastSequence'[c] = lastSequence[c]
    <3>1. ASSUME phase[c] = "joining" PROVE InRoomAt(c, offer[c].latestSequence)'
      <4>1. PICK n : n = offer[c].latestSequence
        OBVIOUS
      <4>2. InRoomAt(c, n)'
        BY <1>2, <2>1, <3>1, <4>1, InRoomStays
      <4>3. QED
        BY <2>2, <4>1, <4>2 DEF InRoomAt
    <3>2. ASSUME phase[c] = "channel" PROVE InRoomAt(c, lastSequence[c])'
      <4>1. PICK n : n = lastSequence[c]
        OBVIOUS
      <4>2. InRoomAt(c, n)'
        BY <1>2, <2>1, <3>2, <4>1, InRoomStays
      <4>3. QED
        BY <2>2, <4>1, <4>2 DEF InRoomAt
    <3>3. QED
      BY <2>2, <3>1, <3>2
  <2>3. CASE /\ phase'[c] = "joining" /\ JoinHostSession(c, RoomInvite)
             /\ offer'[c].latestSequence = nextSequence' - 1
    <3> DEFINE snapshot == RoomStateMsg(members')
               arrival == MemberJoinedMsg(c, members'[c])
               n == Len(events) + 2
    <3>1. /\ SessionInv /\ members \in MemberTable /\ members' = AddMember(members, c)
          /\ PushTwo(NoTarget, arrival, NoTarget, snapshot)
      BY <1>2, <2>3 DEF LogInv, SessionInv, TypeOK, JoinHostSession
    <3>2. /\ c \in DOMAIN members' /\ members' \in MemberTable
          /\ members'[c] = [role |-> "Member", serverMuted |-> FALSE]
      BY <2>1, <3>1, AddMemberTable
    <3>3. /\ arrival \in Message /\ snapshot \in Message
          /\ snapshot.type = "RoomState"
      BY <2>1, <3>2 DEF MemberJoinedMsg, RoomStateMsg, Message, MemberState, MemberRole
    <3> HIDE DEF snapshot, arrival
    <3>4. Len(events) \in Nat /\ Len(events') = n /\ events'[n].message = snapshot
      BY <3>1, <3>3, TwoMore
    <3>5. nextSequence' = n + 1
      BY <1>2, <3>4 DEF LogInv, SessionInv, SequenceIsPosition
    <3>6. n \in 1..Len(events') /\ offer'[c].latestSequence = n
      BY <2>3, <3>4, <3>5
    <3>7. MemberAsOf(events', n, c)
      BY <1>2, <2>1, <3>2, <3>4 DEF LogInv, SessionInv, LogTellsMembership, HasMember
    <3>8. ~TellsToLeave(c, events'[n].message)
      BY <3>3, <3>4 DEF TellsToLeave
    <3> HIDE DEF n
    <3>9. QED
      BY <2>3, <3>6, <3>7, <3>8 DEF InRoomAt, TellsToLeave
  <2>4. CASE /\ phase[c] = "joining" /\ phase'[c] = "channel" /\ UNCHANGED sessionVars
             /\ lastSequence'[c] = offer[c].latestSequence
    BY <2>1, <2>4 DEF InRoomAt, sessionVars
  <2>5. CASE /\ phase[c] = "channel" /\ phase'[c] = "channel" /\ UNCHANGED sessionVars
             /\ lastSequence'[c] \in 1..Len(events)
             /\ lastSequence[c] < lastSequence'[c]
             /\ ~TellsToLeave(c, events[lastSequence'[c]].message)
             /\ \A j \in (lastSequence[c] + 1)..Len(events) :
                  j < lastSequence'[c] => ~VisibleTo(events[j], c)
    <3>1. PICK n \in 1..Len(events) : n = lastSequence'[c]
      BY <2>5
    <3>2. PICK k : k = lastSequence[c]
      OBVIOUS
    <3>3. InRoomAt(c, n)
      BY <1>2, <2>1, <2>5, <3>1, <3>2, NextLeavesInRoom
    <3>4. QED
      BY <2>5, <3>1, <3>3 DEF InRoomAt, sessionVars
  <2>6. CASE phase'[c] = "out"
    BY <2>6
  <2>7. QED
    BY <2>1, <2>2, <2>3, <2>4, <2>5, <2>6 DEF WindowMoves
<1>4. QED
  BY <1>2, <1>3 DEF StandInRoom, StandsInRoom

\* Who is in the channel is on the list it sees.
WindowsShowThemselves == \A c \in Client : phase[c] = "channel" => c \in DOMAIN view[c]

\* A window never shows a room without its own member: the notice always comes before
\* the departure, so the window has left by then (applyRuntimeEvent, remove_member).
THEOREM OwnMemberIsShown == StreamSpec => []WindowsShowThemselves
<1>1. StreamInit => DeparturesAreTold /\ StandInRoom
  <2> SUFFICES ASSUME StreamInit PROVE DeparturesAreTold /\ StandInRoom
    OBVIOUS
  <2>1. ASSUME NEW i \in 1..Len(events), NEW m PROVE ~MemberAsOf(events, i - 1, m)
    <3>1. i - 1 = 0
      BY <2>1 DEF StreamInit, SessionInit
    <3>2. QED
      BY <3>1 DEF MemberAsOf
  <2>2. QED
    BY <2>1 DEF DeparturesAreTold, StreamInit, StandInRoom, StandsInRoom
<1>2. StreamInv /\ DeparturesAreTold /\ StandInRoom /\ [StreamNext]_streamVars
        => DeparturesAreTold' /\ StandInRoom'
  BY StandInRoomStep
<1>3. StreamInv /\ StandInRoom => WindowsShowThemselves
  BY StreamAssumption DEF StreamInv, ClientInv, WindowIsInLog, ShowsRoomAsOf, StandInRoom,
                          StandsInRoom, InRoomAt, WindowsShowThemselves
<1>4. QED
  BY <1>1, <1>2, <1>3, StreamInvariant, PTL DEF StreamSpec

-----------------------------------------------------------------------------
(* What the liveness of the channel rests on: whoever has something to read  *)
(* has a step to take, and every such step is one of finitely many.          *)

\* One of the steps that StreamFairness is about has its guard true.
HasStep(c) ==
  \/ socket[c] \in {"backoff", "connecting"}
  \/ /\ socket[c] = "open"
     /\ wire[c] # <<>> \/ batch[c] # {} \/ EventsSince(c, cursor[c]) # {}

\* An event that is for the member of a window in the channel and was not dispatched is
\* never left where nothing would bring it on.
NothingIsStranded ==
  \A c \in Client :
    /\ phase[c] = "channel"
    /\ \E n \in (lastSequence[c] + 1)..Len(events) : VisibleTo(events[n], c)
    => HasStep(c)

\* An event is on the wire, in the batch, or found by the next round of the server
\* thread, and while there is no open socket one is being made: the guards of the fair
\* steps of a window that has something to read are never all false
\* (handle_websocket_event_stream, scheduleReconnect).
THEOREM ReadersHaveAStep == StreamSpec => []NothingIsStranded
<1>1. StreamInv => NothingIsStranded
  <2> SUFFICES ASSUME StreamInv, NEW c \in Client, phase[c] = "channel",
                      NEW n \in (lastSequence[c] + 1)..Len(events), VisibleTo(events[n], c)
               PROVE  HasStep(c)
    BY DEF NothingIsStranded
  <2>1. /\ socket[c] \in {"none", "connecting", "open", "backoff"} /\ socket[c] # "none"
        /\ socket[c] = "open" => WireFillsTheGap(c)
        /\ lastSequence[c] \in Nat /\ cursor[c] \in Nat /\ Len(events) \in Nat
        /\ \A i \in 1..Len(events) : events[i].sequence = i
    BY DEF StreamInv, StreamTypeOK, ClientInv, SocketFollowsPhase, ServerIsAhead, LogInv,
           SessionInv, TypeOK, SequenceIsPosition
  <2>2. CASE socket[c] = "open" /\ n <= cursor[c]
    <3>1. n \in 1..Len(events) /\ InFlight(c, n)
      BY <2>1, <2>2 DEF InFlight
    <3>2. PICK i \in 1..Len(wire[c]) : wire[c][i].sequence = n
      BY <2>1, <2>2, <3>1 DEF WireFillsTheGap
    <3>3. wire[c] # <<>>
      BY <3>2
    <3>4. QED
      BY <2>2, <3>3 DEF HasStep
  <2>3. CASE socket[c] = "open" /\ n > cursor[c]
    <3>1. n \in EventsSince(c, cursor[c])
      BY <2>1, <2>3 DEF EventsSince
    <3>2. QED
      BY <2>3, <3>1 DEF HasStep
  <2>4. QED
    BY <2>1, <2>2, <2>3 DEF HasStep
<1>2. QED
  BY <1>1, StreamInvariant, PTL

\* How far the socket of c has come.
Stage(c) == IF socket[c] = "open" THEN 2 ELSE IF socket[c] = "connecting" THEN 1 ELSE 0

\* The window of c goes out of the channel, or on: to a later event, a further stage of
\* its socket, a later place of the server thread, or from an empty batch to a full one.
\* There are three stages, and the places end with the log.
Advances(c) ==
  \/ phase'[c] # "channel"
  \/ lastSequence[c] < lastSequence'[c]
  \/ /\ lastSequence'[c] = lastSequence[c]
     /\ \/ Stage(c) < Stage(c)'
        \/ /\ socket'[c] = socket[c]
           /\ \/ cursor[c] < cursor'[c]
              \/ cursor'[c] = cursor[c] /\ batch[c] = {} /\ batch'[c] # {}

FairStep(c) == SocketOpens(c) \/ Fetch(c) \/ SendFrame(c) \/ Dispatch(c) \/ Reconnect(c)

\* Every fair step of a window advances it, and nothing but the loss of its own socket
\* takes it back: not the room's events, not the other windows, not their sockets.
WindowsGoOn ==
  \A c \in Client :
    /\ FairStep(c) => Advances(c)
    /\ phase[c] = "channel" => Advances(c) \/ ClientRests(c) \/ SocketCloses(c)

LEMMA FairStepAdvances ==
  ASSUME StreamInv, NEW c \in Client, FairStep(c)
  PROVE  Advances(c) /\ \A d \in Client \ {c} : ClientRests(d)
<1> USE DEF StreamInv, StreamTypeOK
<1>1. CASE SocketOpens(c)
  BY <1>1 DEF SocketOpens, Advances, Stage, ClientRests
<1>2. CASE Reconnect(c)
  BY <1>2 DEF Reconnect, Advances, Stage, ClientRests
<1>3. CASE Fetch(c)
  <2>1. /\ batch[c] = {} /\ EventsSince(c, cursor[c]) # {}
        /\ batch' = [batch EXCEPT ![c] = EventsSince(c, cursor[c])]
        /\ UNCHANGED <<phase, offer, lastSequence, socket, cursor, wire, view, dispatched>>
    BY <1>3 DEF Fetch
  <2>2. QED
    BY <2>1 DEF Advances, ClientRests
<1>4. CASE SendFrame(c)
  <2>1. PICK i \in batch[c] :
          /\ wire' = [wire EXCEPT ![c] = Append(@, events[i])]
          /\ cursor' = [cursor EXCEPT ![c] = IF events[i].sequence > @ THEN events[i].sequence ELSE @]
          /\ batch' = [batch EXCEPT ![c] = @ \ {i}]
    BY <1>4 DEF SendFrame
  <2>2. /\ socket[c] = "open"
        /\ UNCHANGED <<phase, offer, lastSequence, socket, view, dispatched>>
    BY <1>4 DEF SendFrame
  <2>3. i \in 1..Len(events) /\ i > cursor[c] /\ events[i].sequence = i
    BY <2>1, <2>2 DEF ClientInv, ServerIsAhead, BatchIsNext, LogInv, SessionInv, SequenceIsPosition
  <2>4. cursor'[c] = i
    BY <2>1, <2>3
  <2>5. QED
    BY <2>1, <2>2, <2>3, <2>4 DEF Advances, ClientRests
<1>5. CASE Dispatch(c)
  <2>1. CASE TellsToLeave(c, Head(wire[c]).message)
    <3>1. ResetWindow(c) /\ UNCHANGED offer
      BY <1>5, <2>1 DEF Dispatch
    <3>2. QED
      BY <3>1 DEF ResetWindow, Advances, ClientRests
  <2>2. CASE ~TellsToLeave(c, Head(wire[c]).message)
    <3> DEFINE e == Head(wire[c])
    <3>1. /\ socket[c] = "open" /\ wire[c] # <<>>
          /\ lastSequence' = [lastSequence EXCEPT ![c] = IF e.sequence > @ THEN e.sequence ELSE @]
          /\ dispatched' = [dispatched EXCEPT ![c] = e.sequence]
          /\ view' = [view EXCEPT ![c] = ApplyToView(@, e.message)]
          /\ wire' = [wire EXCEPT ![c] = Tail(@)]
          /\ UNCHANGED <<phase, socket, cursor, batch, offer>>
      BY <1>5, <2>2 DEF Dispatch
    <3>2. e.sequence \in 1..Len(events) /\ lastSequence[c] < e.sequence
      BY <3>1, HeadIsNext
    <3> HIDE DEF e
    <3>3. QED
      BY <3>1, <3>2 DEF Advances, ClientRests
  <2>3. QED
    BY <2>1, <2>2
<1>6. QED
  BY <1>1, <1>2, <1>3, <1>4, <1>5 DEF FairStep

LEMMA StepsGoOn ==
  ASSUME StreamInv, [StreamNext]_streamVars
  PROVE  WindowsGoOn
<1> SUFFICES ASSUME NEW c \in Client, ~FairStep(c), phase[c] = "channel"
             PROVE  Advances(c) \/ ClientRests(c) \/ SocketCloses(c)
  BY FairStepAdvances DEF WindowsGoOn
<1> USE DEF StreamInv, StreamTypeOK
<1>1. CASE RoomOperation
  BY <1>1 DEF RoomOperation, windowVars, ClientRests
<1>2. ASSUME NEW d \in Client, Join(d) PROVE ClientRests(c)
  BY <1>2 DEF Join, ClientRests
<1>3. ASSUME NEW d \in Client, EnterChannel(d) PROVE ClientRests(c)
  BY <1>3 DEF EnterChannel, ClientRests
<1>4. ASSUME NEW d \in Client, JoinFails(d) PROVE ClientRests(c)
  BY <1>4 DEF JoinFails, ClientRests
<1>5. ASSUME NEW d \in Client, Leave(d) PROVE Advances(c) \/ ClientRests(c)
  BY <1>5 DEF Leave, ResetWindow, ClientRests, Advances
<1>6. ASSUME NEW d \in Client, FairStep(d) PROVE ClientRests(c)
  BY <1>6, FairStepAdvances
<1>7. ASSUME NEW d \in Client, SocketCloses(d) PROVE ClientRests(c) \/ SocketCloses(c)
  <2>1. CASE d = c
    BY <1>7, <2>1
  <2>2. CASE d # c
    BY <1>7, <2>2 DEF SocketCloses, ClientRests
  <2>3. QED
    BY <2>1, <2>2
<1>8. CASE UNCHANGED streamVars
  BY <1>8 DEF streamVars, ClientRests
<1>9. QED
  BY <1>1, <1>2, <1>3, <1>4, <1>5, <1>6, <1>7, <1>8 DEF StreamNext, FairStep

\* While no socket of it is lost, a window moves through its events, the stages of its
\* socket and the rounds of the server thread in one direction only.  With
\* ReadersHaveAStep and the end of the log this is what EveryEventArrives needs besides
\* fairness.
THEOREM WindowsOnlyGoOn == StreamSpec => [][WindowsGoOn]_streamVars
<1>1. StreamInv /\ [StreamNext]_streamVars => [WindowsGoOn]_streamVars
  BY StepsGoOn
<1>2. QED
  BY <1>1, StreamInvariant, PTL DEF StreamSpec

=============================================================================
