-------------------------- MODULE HostRuntimeSession --------------------------
(***************************************************************************)
(* One session of the host runtime, src-tauri/src/host_runtime_session.rs: *)
(* the room, the set of banned ids and the log of events the members read. *)
(*                                                                         *)
(* `HostRuntimeSessionManager` keeps its sessions behind one mutex and     *)
(* every method takes it once, so a method is one step here.  A method     *)
(* that returns an error leaves the session as it was: the test that makes *)
(* it fail is a guard.  The sessions of different rooms share nothing but  *)
(* the mutex, so one of them is modelled, from the moment                  *)
(* `start_host_session` has inserted it; nothing ever removes it.          *)
(***************************************************************************)
EXTENDS Naturals, Sequences, RoomState

CONSTANTS
  Owner,           \* the member whose process runs this runtime
  Invite,          \* the payloads an invite code may decode to
  RoomInvite,      \* the payload of the code the room was started with
  BadInvite,       \* what decode_invite_code yields for a code it refuses
  NoTarget,        \* target_member_id of an event for everyone
  MaxEvents        \* bound on the length of the event log

ASSUME SessionAssumption ==
  /\ Owner \in MemberId
  /\ RoomInvite \in Invite
  /\ BadInvite \notin Invite
  /\ NoTarget \notin MemberId
  /\ MaxEvents \in Nat

VARIABLES
  hostId,          \* RoomState.host_id
  members,         \* RoomState.members
  nextSequence,    \* next_sequence
  events,          \* events
  bannedMembers    \* banned_members

sessionVars == <<hostId, members, nextSequence, events, bannedMembers>>

-----------------------------------------------------------------------------
(* The messages of room_broadcast.rs and the relayed signal of             *)
(* webrtc_router.rs.  SDP and candidate text is opaque to the runtime.     *)

RoomStateMsg(table)         == [type |-> "RoomState", members |-> table]
MemberJoinedMsg(m, state)   == [type |-> "MemberJoined", member |-> m, state |-> state]
MemberLeftMsg(m)            == [type |-> "MemberLeft", member |-> m]
MemberServerMutedMsg(m, on) == [type |-> "MemberServerMuted", member |-> m, serverMuted |-> on]
MemberRemovedMsg(m, reason) == [type |-> "MemberRemoved", member |-> m, reason |-> reason]
\* Slips TypeOK and LogTellsRoom would show: the previous host is not carried, or
\* the two ids are swapped.
HostChangedMsg_NoPrevious(old, new) ==
  [type |-> "HostChanged", previousHost |-> NoTarget, newHost |-> new]
HostChangedMsg_Swapped(old, new) ==
  [type |-> "HostChanged", previousHost |-> new, newHost |-> old]

HostChangedMsg(old, new)    == [type |-> "HostChanged", previousHost |-> old, newHost |-> new]
SignalMsg(from, target)     == [type |-> "WebRtcSignal", from |-> from, target |-> target]

Message ==
       [type : {"RoomState"}, members : MemberTable]
  \cup [type : {"MemberJoined"}, member : MemberId, state : MemberState]
  \cup [type : {"MemberLeft"}, member : MemberId]
  \cup [type : {"MemberServerMuted"}, member : MemberId, serverMuted : BOOLEAN]
  \cup [type : {"MemberRemoved"}, member : MemberId, reason : {"kicked", "banned"}]
  \cup [type : {"HostChanged"}, previousHost : MemberId, newHost : MemberId]
  \cup [type : {"WebRtcSignal"}, from : MemberId, target : MemberId]

RuntimeEvent(sequence, target, message) ==
  [sequence |-> sequence, target |-> target, message |-> message]

Event == [sequence : Nat, target : MemberId \cup {NoTarget}, message : Message]

\* get_events_since_for_member hands an event to member m iff it is newer than
\* m's cursor and is for everyone or for m.  The events are given by their places
\* in the log, whose order is the order they are handed over in.
VisibleTo(e, m) == e.target \in {NoTarget, m}

EventsSince(m, lastSequence) ==
  {i \in 1..Len(events) : events[i].sequence > lastSequence /\ VisibleTo(events[i], m)}

\* latest_sequence, as get_runtime_ready and join_host_session report it.
LatestSequence == nextSequence - 1

-----------------------------------------------------------------------------
(* The log.                                                                *)

\* The bound: n more events fit.
LogHasRoom(n) == Len(events) + n <= MaxEvents

\* One event appended under the sequence number the session is at.
PushOne(target, message) ==
  /\ LogHasRoom(1)
  /\ events' = Append(events, RuntimeEvent(nextSequence, target, message))
  /\ nextSequence' = nextSequence + 1

\* A slip SequenceIsPosition would show: two events, one bump of the counter.
PushTwo_OneBump(target1, message1, target2, message2) ==
  /\ LogHasRoom(2)
  /\ events' = Append(Append(events, RuntimeEvent(nextSequence, target1, message1)),
                      RuntimeEvent(nextSequence, target2, message2))
  /\ nextSequence' = nextSequence + 1

\* Two events appended by one call, under two sequence numbers.
PushTwo(target1, message1, target2, message2) ==
  /\ LogHasRoom(2)
  /\ events' = Append(Append(events, RuntimeEvent(nextSequence, target1, message1)),
                      RuntimeEvent(nextSequence + 1, target2, message2))
  /\ nextSequence' = nextSequence + 2

-----------------------------------------------------------------------------
(* The operations.                                                         *)

\* start_host_session has succeeded.
SessionInit ==
  /\ hostId = Owner
  /\ members = NewRoom(Owner)
  /\ bannedMembers = {}
  /\ nextSequence = 2
  /\ events = <<RuntimeEvent(1, NoTarget, RoomStateMsg(NewRoom(Owner)))>>

\* HostAuthGate::authorize_join.  Its own blacklist stays empty: the session
\* keeps `banned_members` and never calls block_user.
AuthorizeJoin(decoded) == decoded # BadInvite /\ decoded = RoomInvite

\* The tests of join_host_session, in the order of the code: banned, invite
\* code, duplicate member.
MayJoin(m, decoded) ==
  /\ m \notin bannedMembers
  /\ AuthorizeJoin(decoded)
  /\ ~HasMember(members, m)

JoinHostSession(m, decoded) ==
  /\ MayJoin(m, decoded)
  /\ members' = AddMember(members, m)
  /\ PushTwo(NoTarget, MemberJoinedMsg(m, members'[m]),
             NoTarget, RoomStateMsg(members'))
  /\ UNCHANGED <<hostId, bannedMembers>>

\* A slip the signal properties would show: only the target is looked up.
MayRelay_AnySource(from, target) == HasMember(members, target) /\ from # target

\* WebRtcRelayRouter::relay.
MayRelay(from, target) ==
  /\ HasMember(members, from)
  /\ HasMember(members, target)
  /\ from # target

RelayWebRtcSignal(from, target) ==
  /\ MayRelay(from, target)
  /\ PushOne(target, SignalMsg(from, target))
  /\ UNCHANGED <<hostId, members, bannedMembers>>

\* The broadcast carries the requested flag whatever set_server_muted did.
ServerMuteMember(m, serverMuted) ==
  /\ HasMember(members, m)
  /\ members' = SetServerMuted(members, m, serverMuted)
  /\ PushOne(NoTarget, MemberServerMutedMsg(m, serverMuted))
  /\ UNCHANGED <<hostId, bannedMembers>>

\* remove_member, shared by kick_member and ban_member.
MayRemove(m) == HasMember(members, m) /\ MayLeave(hostId, m)

\* Slips LogTellsRoom and RemovalIsExplainedFirst would show: only the removed
\* member is told, or it is told after the others.
RemoveAndNotify_NoBroadcast(m, reason) ==
  /\ MayRemove(m)
  /\ members' = RemoveMember(members, m)
  /\ PushOne(m, MemberRemovedMsg(m, reason))
  /\ UNCHANGED hostId
RemoveAndNotify_BroadcastFirst(m, reason) ==
  /\ MayRemove(m)
  /\ members' = RemoveMember(members, m)
  /\ PushTwo(NoTarget, MemberLeftMsg(m), m, MemberRemovedMsg(m, reason))
  /\ UNCHANGED hostId

RemoveAndNotify(m, reason) ==
  /\ MayRemove(m)
  /\ members' = RemoveMember(members, m)
  /\ PushTwo(m, MemberRemovedMsg(m, reason), NoTarget, MemberLeftMsg(m))
  /\ UNCHANGED hostId

KickMember(m) == RemoveAndNotify(m, "kicked") /\ UNCHANGED bannedMembers

\* A slip BanIsForGood would show: the id is not remembered.
BanMember_NotRemembered(m) == RemoveAndNotify(m, "banned") /\ UNCHANGED bannedMembers

BanMember(m) ==
  /\ RemoveAndNotify(m, "banned")
  /\ bannedMembers' = bannedMembers \cup {m}

\* A transfer to the sitting host changes no role and is broadcast all the same.
MayTransferTo(newHost) == newHost = hostId \/ HasMember(members, newHost)

TransferHostTo(newHost) ==
  /\ MayTransferTo(newHost)
  /\ members' = TransferHost(members, hostId, newHost)
  /\ hostId' = newHost
  /\ PushOne(NoTarget, HostChangedMsg(hostId, newHost))
  /\ UNCHANGED bannedMembers

SessionNext ==
  \/ \E m \in MemberId, decoded \in Invite \cup {BadInvite} : JoinHostSession(m, decoded)
  \/ \E from, target \in MemberId : RelayWebRtcSignal(from, target)
  \/ \E m \in MemberId, serverMuted \in BOOLEAN : ServerMuteMember(m, serverMuted)
  \/ \E m \in MemberId : KickMember(m)
  \/ \E m \in MemberId : BanMember(m)
  \/ \E newHost \in MemberId : TransferHostTo(newHost)

SessionSpec == SessionInit /\ [][SessionNext]_sessionVars

-----------------------------------------------------------------------------
(* What the log says.  A member's client rebuilds the room from the events *)
(* it reads, so a claim about the room is read off the log the same way:   *)
(* the latest event that speaks about it decides.                          *)

Admits(msg, m) ==
  \/ msg.type = "MemberJoined" /\ msg.member = m
  \/ msg.type = "RoomState" /\ m \in DOMAIN msg.members

Departs(msg, m) ==
  \/ msg.type = "MemberLeft" /\ msg.member = m
  \/ msg.type = "RoomState" /\ m \notin DOMAIN msg.members

\* The first n events of the log leave m in the room.
MemberAsOf(log, n, m) ==
  \E i \in 1..n :
    /\ Admits(log[i].message, m)
    /\ \A j \in (i + 1)..n : ~Departs(log[j].message, m)

Crowns(msg, m) ==
  \/ msg.type = "HostChanged" /\ msg.newHost = m
  \/ msg.type = "RoomState" /\ m \in DOMAIN msg.members /\ msg.members[m].role = "Host"

Deposes(msg, m) ==
  \/ msg.type = "HostChanged" /\ msg.previousHost = m /\ msg.newHost # m
  \/ msg.type = "RoomState" /\ ~Crowns(msg, m)

HostAsOf(log, n, m) ==
  \E i \in 1..n :
    /\ Crowns(log[i].message, m)
    /\ \A j \in (i + 1)..n : ~Deposes(log[j].message, m)

Mutes(msg, m) ==
  \/ msg.type = "MemberServerMuted" /\ msg.member = m /\ msg.serverMuted
  \/ msg.type = "RoomState" /\ m \in DOMAIN msg.members /\ msg.members[m].serverMuted

Unmutes(msg, m) ==
  \/ msg.type = "MemberServerMuted" /\ msg.member = m /\ ~msg.serverMuted
  \/ Departs(msg, m)
  \/ msg.type = "RoomState" /\ ~Mutes(msg, m)

MutedAsOf(log, n, m) ==
  \E i \in 1..n :
    /\ Mutes(log[i].message, m)
    /\ \A j \in (i + 1)..n : ~Unmutes(log[j].message, m)

-----------------------------------------------------------------------------
(* Properties.                                                             *)

\* Every variable has its type.
TypeOK ==
  /\ hostId \in MemberId
  /\ members \in MemberTable
  /\ nextSequence \in Nat
  /\ events \in Seq(Event)
  /\ bannedMembers \in SUBSET MemberId

\* `host_id`, on which is_host and remove_member decide, and the per-member
\* roles, which the clients are sent, are kept apart in the code: they name the
\* same single member, and that member is in the room.
OneHost ==
  /\ HasMember(members, hostId)
  /\ \A m \in DOMAIN members : members[m].role = "Host" <=> m = hostId

\* No banned id is in the room.
BannedAreOut == bannedMembers \cap DOMAIN members = {}

\* Sequence numbers are the positions in the log, without a gap or a repetition,
\* although some calls append one event and some two: a cursor of
\* get_events_since_for_member skips nothing and repeats nothing.
SequenceIsPosition ==
  /\ nextSequence = Len(events) + 1
  /\ \A i \in 1..Len(events) : events[i].sequence = i

\* Replaying the log gives the membership of the room: no operation changes one
\* without the other.
LogTellsMembership ==
  \A m \in MemberId : HasMember(members, m) <=> MemberAsOf(events, Len(events), m)

\* Replaying the log gives the host, also through chains of transfers: every
\* HostChanged names as previous host the one the log had made host.
LogTellsHost ==
  \A m \in MemberId : m = hostId <=> HostAsOf(events, Len(events), m)

\* Whoever has read the whole log agrees with the runtime on who is in the room and
\* who is its host.
LogTellsRoom == LogTellsMembership /\ LogTellsHost

\* A relayed signal stands in the log at a place where both ends are members: a
\* client that reads in order never hears from a peer it has not seen join, or
\* that it has seen leave.
SignalsOnlyBetweenMembers ==
  \A i \in 1..Len(events) :
    events[i].message.type = "WebRtcSignal" =>
      /\ MemberAsOf(events, i - 1, events[i].message.from)
      /\ MemberAsOf(events, i - 1, events[i].message.target)

\* Once a member has been told that it is banned, nothing in the log ever shows
\* it in the room again, through kicks, rejoins and transfers of others.
BanIsForGood ==
  \A i, j \in 1..Len(events), m \in MemberId :
    i < j /\ events[i].message = MemberRemovedMsg(m, "banned") =>
      ~Admits(events[j].message, m)

\* A member is told why it goes before anyone is told that it went, and nothing
\* readmits it in between.
RemovalIsExplainedFirst ==
  \A i \in 1..Len(events) :
    events[i].message.type = "MemberLeft" =>
      LET m == events[i].message.member IN
      \E j \in 1..(i - 1) :
        /\ events[j].target = m
        /\ events[j].message.type = "MemberRemoved"
        /\ \A k \in j..i : ~Admits(events[k].message, m)

\* The log tells of every member that never was the host whether it is server-muted: the
\* flag the last event about it gives is the flag of the table, through rejoins and
\* repeated requests.  A host's flag is not told: server_mute_member broadcasts what was
\* asked for, and set_server_muted leaves a host as it is.
LogTellsServerMuted ==
  \A m \in DOMAIN members :
    (\A i \in 1..Len(events) : ~Crowns(events[i].message, m)) =>
      (members[m].serverMuted <=> MutedAsOf(events, Len(events), m))

=============================================================================
