---------------------------- MODULE ControlRuntime ----------------------------
(***************************************************************************)
(* The request side of the control plane,                                  *)
(* src-tauri/src/control_runtime.rs: members' clients send one JSON line   *)
(* per TCP connection, a thread per connection reads it, calls the session *)
(* manager and writes one line back.                                       *)
(*                                                                         *)
(* The host-management requests take the manager's mutex twice, once for   *)
(* is_host and once for the operation, so other threads and the local      *)
(* commands of the owner's own window run in between.  The client waits    *)
(* for the answer no longer than its read timeout; the thread does not     *)
(* notice and carries on.                                                  *)
(*                                                                         *)
(* GetRoomState and GetEvents only read and are left out here.             *)
(***************************************************************************)
EXTENDS HostRuntimeSession

CONSTANTS
  Conn,             \* connections open at one time
  ClientRequests,   \* requests the clients of joined members may send
  OwnerCommands     \* local commands the owner's window may issue

Request ==
       [kind : {"JoinRoom"}, caller : MemberId, decoded : Invite \cup {BadInvite}]
  \cup [kind : {"RelaySignal"}, caller : MemberId, target : MemberId]
  \cup [kind : {"ServerMute"}, caller : MemberId, member : MemberId, serverMuted : BOOLEAN]
  \cup [kind : {"Kick", "Ban"}, caller : MemberId, member : MemberId]
  \cup [kind : {"TransferHost"}, caller : MemberId, newHost : MemberId]

ASSUME ControlAssumption ==
  /\ ClientRequests \subseteq Request
  /\ OwnerCommands \subseteq Request

NoRequest == [kind |-> "none"]

Reply == {"none", "ok", "not-host", "member-not-found", "signal-rejected", "join-rejected"}

VARIABLES
  pc,           \* where the thread of a connection is
  request,      \* the request it has read
  checkedAt,    \* latest sequence when its is_host test was passed
  reply,        \* the code of the answer it has written
  acceptedUpTo, \* latest_sequence in a JoinAccepted answer
  waiting,      \* the client is still reading from the connection
  joined,       \* the members whose client was told that it joined
  joinedAt      \* latest_sequence the client was given with the acceptance

connVars == <<pc, request, checkedAt, reply, acceptedUpTo, waiting>>
clientVars == <<joined, joinedAt>>
controlVars == <<hostId, members, nextSequence, events, bannedMembers,
                 pc, request, checkedAt, reply, acceptedUpTo, waiting, joined, joinedAt>>

-----------------------------------------------------------------------------
(* One call of the session manager.                                        *)

IsHost(m) == hostId = m

Management == {"ServerMute", "Kick", "Ban", "TransferHost"}

\* A slip SessionSpec would show: the ban is recorded and the member stays.
Perform_BanWithoutRemoval(r) ==
  /\ r.kind = "Ban"
  /\ bannedMembers' = bannedMembers \cup {r.member}
  /\ UNCHANGED <<hostId, members, nextSequence, events>>

\* The operation a request asks for.
Perform(r) ==
  \/ r.kind = "JoinRoom" /\ JoinHostSession(r.caller, r.decoded)
  \/ r.kind = "RelaySignal" /\ RelayWebRtcSignal(r.caller, r.target)
  \/ r.kind = "ServerMute" /\ ServerMuteMember(r.member, r.serverMuted)
  \/ r.kind = "Kick" /\ KickMember(r.member)
  \/ r.kind = "Ban" /\ BanMember(r.member)
  \/ r.kind = "TransferHost" /\ TransferHostTo(r.newHost)

\* The operation returns an error and changes nothing.
Refused(r) ==
  \/ r.kind = "JoinRoom" /\ ~MayJoin(r.caller, r.decoded)
  \/ r.kind = "RelaySignal" /\ ~MayRelay(r.caller, r.target)
  \/ r.kind = "ServerMute" /\ ~HasMember(members, r.member)
  \/ r.kind \in {"Kick", "Ban"} /\ ~MayRemove(r.member)
  \/ r.kind = "TransferHost" /\ ~MayTransferTo(r.newHost)

\* A slip ControlTypeOK would show: an answer the clients do not know.
RefusalCode_Unknown(kind) == "room-not-found"

RefusalCode(kind) ==
  CASE kind = "JoinRoom"    -> "join-rejected"
    [] kind = "RelaySignal" -> "signal-rejected"
    [] OTHER                -> "member-not-found"

-----------------------------------------------------------------------------
(* The thread of connection c.                                             *)

Answer(c, code) ==
  /\ pc' = [pc EXCEPT ![c] = "replied"]
  /\ reply' = [reply EXCEPT ![c] = code]

\* The single call of a request, and its answer.  latest_sequence of an
\* accepted join is read before the mutex is released.
CallAndAnswer(c) ==
  \/ /\ Perform(request[c])
     /\ Answer(c, "ok")
     /\ acceptedUpTo' = [acceptedUpTo EXCEPT ![c] = nextSequence' - 1]
  \/ /\ Refused(request[c])
     /\ Answer(c, RefusalCode(request[c].kind))
     /\ UNCHANGED acceptedUpTo
     /\ UNCHANGED sessionVars

\* JoinRoom and RelaySignal: the request is one call.
HandleDirect(c) ==
  /\ pc[c] = "received"
  /\ request[c].kind \notin Management
  /\ CallAndAnswer(c)
  /\ UNCHANGED <<request, checkedAt, waiting, clientVars>>

\* A slip AuthorityWasHeld would show: anyone in the room may manage it.
MayManage_AnyMember(r) == HasMember(members, r.caller)

MayManage(r) == IsHost(r.caller)

\* The other four: is_host first ...
CheckAuthority(c) ==
  /\ pc[c] = "received"
  /\ request[c].kind \in Management
  /\ \/ /\ MayManage(request[c])
        /\ pc' = [pc EXCEPT ![c] = "authorised"]
        /\ checkedAt' = [checkedAt EXCEPT ![c] = LatestSequence]
        /\ UNCHANGED reply
     \/ /\ ~MayManage(request[c])
        /\ Answer(c, "not-host")
        /\ UNCHANGED checkedAt
  /\ UNCHANGED <<sessionVars, request, acceptedUpTo, waiting, clientVars>>

\* ... and then, the mutex having been free in between, the operation.
HandleAuthorised(c) ==
  /\ pc[c] = "authorised"
  /\ CallAndAnswer(c)
  /\ UNCHANGED <<request, checkedAt, waiting, clientVars>>

-----------------------------------------------------------------------------
(* The client at the other end, send_control_runtime_request.              *)

Send(c, r) ==
  /\ pc[c] = "idle"
  /\ r.caller # Owner
  /\ pc' = [pc EXCEPT ![c] = "received"]
  /\ request' = [request EXCEPT ![c] = r]
  /\ waiting' = [waiting EXCEPT ![c] = TRUE]
  /\ UNCHANGED <<sessionVars, checkedAt, reply, acceptedUpTo, clientVars>>

\* Both ends have let go of the connection.
Close(c) ==
  /\ pc' = [pc EXCEPT ![c] = "idle"]
  /\ request' = [request EXCEPT ![c] = NoRequest]
  /\ reply' = [reply EXCEPT ![c] = "none"]
  /\ checkedAt' = [checkedAt EXCEPT ![c] = 0]
  /\ acceptedUpTo' = [acceptedUpTo EXCEPT ![c] = 0]
  /\ waiting' = [waiting EXCEPT ![c] = FALSE]

\* A slip AcceptedMembersLearnOfRemoval would show: the client starts from what is
\* latest when it reads the answer.
StartingPoint_Late(c) == LatestSequence

\* The client's event channel starts from the sequence number in the answer.
StartingPoint(c) == acceptedUpTo[c]

\* The answer arrives in time.  An accepted join opens the channel; any other
\* answer leaves the client where it was.
ReadReply(c) ==
  /\ pc[c] = "replied"
  /\ waiting[c]
  /\ LET m == request[c].caller IN
     IF request[c].kind = "JoinRoom" /\ reply[c] = "ok"
     THEN /\ joined' = joined \cup {m}
          /\ joinedAt' = [joinedAt EXCEPT ![m] = StartingPoint(c)]
     ELSE UNCHANGED clientVars
  /\ Close(c)
  /\ UNCHANGED sessionVars

\* The read timeout: the client reports a failure, whether or not the request
\* has been or will be carried out.
TimeOut(c) ==
  /\ waiting[c]
  /\ waiting' = [waiting EXCEPT ![c] = FALSE]
  /\ UNCHANGED <<sessionVars, pc, request, checkedAt, reply, acceptedUpTo, clientVars>>

\* The answer is written to a socket nobody reads.
ReplyLost(c) ==
  /\ pc[c] = "replied"
  /\ ~waiting[c]
  /\ Close(c)
  /\ UNCHANGED <<sessionVars, clientVars>>

-----------------------------------------------------------------------------
(* The owner's window calls the manager directly, lib.rs; these commands   *)
(* make no is_host test.                                                   *)

OwnerCommand(r) == Perform(r) /\ UNCHANGED <<connVars, clientVars>>

ControlInit ==
  /\ SessionInit
  /\ pc = [c \in Conn |-> "idle"]
  /\ request = [c \in Conn |-> NoRequest]
  /\ checkedAt = [c \in Conn |-> 0]
  /\ reply = [c \in Conn |-> "none"]
  /\ acceptedUpTo = [c \in Conn |-> 0]
  /\ waiting = [c \in Conn |-> FALSE]
  /\ joined = {}
  /\ joinedAt = [m \in MemberId |-> 0]

ControlNext ==
  \/ \E c \in Conn, r \in ClientRequests : Send(c, r)
  \/ \E c \in Conn : HandleDirect(c)
  \/ \E c \in Conn : CheckAuthority(c)
  \/ \E c \in Conn : HandleAuthorised(c)
  \/ \E c \in Conn : ReadReply(c)
  \/ \E c \in Conn : TimeOut(c)
  \/ \E c \in Conn : ReplyLost(c)
  \/ \E r \in OwnerCommands : OwnerCommand(r)

ControlSpec == ControlInit /\ [][ControlNext]_controlVars

-----------------------------------------------------------------------------
(* Properties.                                                             *)

\* Every variable has its type.
ControlTypeOK ==
  /\ TypeOK
  /\ pc \in [Conn -> {"idle", "received", "authorised", "replied"}]
  /\ request \in [Conn -> Request \cup {NoRequest}]
  /\ checkedAt \in [Conn -> Nat]
  /\ reply \in [Conn -> Reply]
  /\ acceptedUpTo \in [Conn -> Nat]
  /\ waiting \in [Conn -> BOOLEAN]
  /\ joined \in SUBSET MemberId
  /\ joinedAt \in [MemberId -> Nat]

\* The window between the two locks is bounded by the log: a thread that is past
\* its is_host test acts for the host, or for a member that a HostChanged event
\* newer than the test has deposed.
AuthorityWasHeld ==
  \A c \in Conn :
    pc[c] = "authorised" =>
      \/ IsHost(request[c].caller)
      \/ \E i \in (checkedAt[c] + 1)..Len(events) :
           /\ events[i].message.type = "HostChanged"
           /\ events[i].message.previousHost = request[c].caller

\* Whoever's client was told it has joined is in the room, or the stream that
\* starts at the sequence it was given carries the notice of its removal: a kick
\* that overtakes the JoinAccepted answer is not lost.
AcceptedMembersLearnOfRemoval ==
  \A m \in joined :
    \/ HasMember(members, m)
    \/ \E i \in (joinedAt[m] + 1)..Len(events) :
         events[i].target = m /\ events[i].message.type = "MemberRemoved"

=============================================================================
