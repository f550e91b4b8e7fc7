------------------------- MODULE ControlRuntimeProofs -------------------------
(***************************************************************************)
(* Proofs about ControlRuntime, for any members, connections, requests and *)
(* commands: the concurrent control plane implements the atomic session,   *)
(* and what its race window and its late answers can do is bounded by the  *)
(* event log.                                                              *)
(***************************************************************************)
EXTENDS ControlRuntime, HostRuntimeSessionProofs

\* What a client that is given sequence number n as its starting point can rely
\* on: member m is in the room, or the log beyond n tells it that it was removed.
InRoomOrTold(m, n) ==
  \/ HasMember(members, m)
  \/ \E i \in (n + 1)..Len(events) :
       events[i].target = m /\ events[i].message.type = "MemberRemoved"

\* The same for an accepted join whose answer is still on its way.
AcceptancesAreSound ==
  \A c \in Conn :
    pc[c] = "replied" /\ reply[c] = "ok" /\ request[c].kind = "JoinRoom" =>
      InRoomOrTold(request[c].caller, acceptedUpTo[c])

\* No sequence number in use lies beyond the log.
PointersAreInLog ==
  /\ \A c \in Conn : checkedAt[c] <= Len(events) /\ acceptedUpTo[c] <= Len(events)
  /\ \A m \in MemberId : joinedAt[m] <= Len(events)

\* A connection that has been given work carries a request.
RequestsAreThere ==
  \A c \in Conn : pc[c] # "idle" => request[c] \in Request

\* The inductive invariant.
ControlInv ==
  /\ SessionInv
  /\ ControlTypeOK
  /\ RequestsAreThere
  /\ PointersAreInLog
  /\ AuthorityWasHeld
  /\ AcceptancesAreSound
  /\ AcceptedMembersLearnOfRemoval

-----------------------------------------------------------------------------
(* The session below the control plane.                                    *)

\* What a request asks for is an operation of the session.
LEMMA PerformIsSessionNext ==
  ASSUME NEW r \in Request, Perform(r)
  PROVE  SessionNext
<1>1. CASE r.kind = "JoinRoom"
  <2>1. r.caller \in MemberId /\ r.decoded \in Invite \cup {BadInvite}
    BY <1>1 DEF Request
  <2>2. JoinHostSession(r.caller, r.decoded)
    BY <1>1 DEF Perform
  <2>3. QED
    BY <2>1, <2>2 DEF SessionNext
<1>2. CASE r.kind = "RelaySignal"
  <2>1. r.caller \in MemberId /\ r.target \in MemberId
    BY <1>2 DEF Request
  <2>2. RelayWebRtcSignal(r.caller, r.target)
    BY <1>2 DEF Perform
  <2>3. QED
    BY <2>1, <2>2 DEF SessionNext
<1>3. CASE r.kind = "ServerMute"
  <2>1. r.member \in MemberId /\ r.serverMuted \in BOOLEAN
    BY <1>3 DEF Request
  <2>2. ServerMuteMember(r.member, r.serverMuted)
    BY <1>3 DEF Perform
  <2>3. QED
    BY <2>1, <2>2 DEF SessionNext
<1>4. CASE r.kind = "Kick"
  <2>1. r.member \in MemberId /\ KickMember(r.member)
    BY <1>4 DEF Request, Perform
  <2>2. QED
    BY <2>1 DEF SessionNext
<1>5. CASE r.kind = "Ban"
  <2>1. r.member \in MemberId /\ BanMember(r.member)
    BY <1>5 DEF Request, Perform
  <2>2. QED
    BY <2>1 DEF SessionNext
<1>6. CASE r.kind = "TransferHost"
  <2>1. r.newHost \in MemberId /\ TransferHostTo(r.newHost)
    BY <1>6 DEF Request, Perform
  <2>2. QED
    BY <2>1 DEF SessionNext
<1>7. QED
  BY <1>1, <1>2, <1>3, <1>4, <1>5, <1>6 DEF Perform

\* Every step of the control plane is one step of the session or leaves it alone.
LEMMA ControlStepIsSessionStep ==
  ASSUME RequestsAreThere, [ControlNext]_controlVars
  PROVE  [SessionNext]_sessionVars
<1>1. ASSUME NEW c \in Conn, pc[c] # "idle", CallAndAnswer(c)
      PROVE  [SessionNext]_sessionVars
  <2>1. request[c] \in Request
    BY <1>1 DEF RequestsAreThere
  <2>2. QED
    BY <1>1, <2>1, PerformIsSessionNext DEF CallAndAnswer
<1>2. ASSUME NEW c \in Conn, HandleDirect(c) PROVE [SessionNext]_sessionVars
  BY <1>1, <1>2 DEF HandleDirect
<1>3. ASSUME NEW c \in Conn, HandleAuthorised(c) PROVE [SessionNext]_sessionVars
  BY <1>1, <1>3 DEF HandleAuthorised
<1>4. ASSUME NEW r \in OwnerCommands, OwnerCommand(r) PROVE [SessionNext]_sessionVars
  BY <1>4, PerformIsSessionNext, ControlAssumption DEF OwnerCommand
<1>5. ASSUME NEW c \in Conn,
             \/ \E r \in ClientRequests : Send(c, r)
             \/ CheckAuthority(c) \/ ReadReply(c) \/ TimeOut(c) \/ ReplyLost(c)
      PROVE  UNCHANGED sessionVars
  BY <1>5 DEF Send, CheckAuthority, ReadReply, TimeOut, ReplyLost
<1>6. CASE UNCHANGED controlVars
  BY <1>6 DEF controlVars, sessionVars
<1>7. QED
  BY <1>2, <1>3, <1>4, <1>5, <1>6 DEF ControlNext

-----------------------------------------------------------------------------
(* The parts of the invariant.                                             *)

\* A step of the session keeps what a starting point promises.
LEMMA PromiseIsStable ==
  ASSUME SessionInv, StepIsLogged, NEW m, NEW n \in Nat, n <= Len(events),
         InRoomOrTold(m, n)
  PROVE  InRoomOrTold(m, n)'
<1>1. Len(events) \in Nat /\ Len(events) <= Len(events') /\ Len(events') \in Nat
  BY DEF SessionInv, TypeOK, StepIsLogged
<1>2. CASE HasMember(members, m) /\ ~HasMember(members', m)
  <2>1. PICK i \in (Len(events) + 1)..Len(events') :
          events'[i].target = m /\ events'[i].message.type = "MemberRemoved"
    BY <1>2 DEF StepIsLogged, HasMember
  <2>2. i \in (n + 1)..Len(events')
    BY <1>1
  <2>3. QED
    BY <2>1, <2>2 DEF InRoomOrTold
<1>3. CASE HasMember(members', m)
  BY <1>3 DEF InRoomOrTold
<1>4. CASE ~HasMember(members, m)
  <2>1. PICK i \in (n + 1)..Len(events) :
          events[i].target = m /\ events[i].message.type = "MemberRemoved"
    BY <1>4 DEF InRoomOrTold
  <2>2. i \in (n + 1)..Len(events') /\ events'[i] = events[i]
    BY <1>1 DEF StepIsLogged
  <2>3. QED
    BY <2>1, <2>2 DEF InRoomOrTold
<1>5. QED
  BY <1>2, <1>3, <1>4

\* The code of every answer is one the clients know.
LEMMA RefusalCodes == \A kind : RefusalCode(kind) \in Reply
BY DEF RefusalCode, Reply

\* What the answer step of a thread leaves behind.
LEMMA AnswerStep ==
  ASSUME ControlInv, SessionInv', NEW c \in Conn, pc[c] # "idle", CallAndAnswer(c),
         UNCHANGED <<request, checkedAt, waiting, clientVars>>
  PROVE  /\ ControlTypeOK'
         /\ RequestsAreThere'
         /\ pc' = [pc EXCEPT ![c] = "replied"]
         /\ \/ /\ Perform(request[c])
               /\ reply' = [reply EXCEPT ![c] = "ok"]
               /\ acceptedUpTo' = [acceptedUpTo EXCEPT ![c] = Len(events')]
            \/ /\ UNCHANGED sessionVars
               /\ reply'[c] # "ok"
               /\ \A d \in Conn : d # c => reply'[d] = reply[d]
               /\ UNCHANGED acceptedUpTo
<1>1. ControlTypeOK
  BY DEF ControlInv
<1>2. TypeOK' /\ nextSequence' - 1 = Len(events') /\ Len(events') \in Nat
  BY DEF SessionInv, TypeOK, SequenceIsPosition
<1>3. pc' = [pc EXCEPT ![c] = "replied"]
  BY DEF CallAndAnswer, Answer
<1>4. \E code \in Reply : reply' = [reply EXCEPT ![c] = code]
  BY RefusalCodes DEF CallAndAnswer, Answer, Reply
<1>5. acceptedUpTo' \in [Conn -> Nat]
  BY <1>1, <1>2 DEF CallAndAnswer, ControlTypeOK
<1>6. ControlTypeOK'
  <2>1. pc' \in [Conn -> {"idle", "received", "authorised", "replied"}]
    BY <1>1, <1>3 DEF ControlTypeOK
  <2>2. reply' \in [Conn -> Reply]
    BY <1>1, <1>4 DEF ControlTypeOK
  <2>3. QED
    BY <1>1, <1>2, <1>5, <2>1, <2>2 DEF ControlTypeOK, clientVars
<1>7. RequestsAreThere'
  BY <1>1, <1>3 DEF ControlInv, RequestsAreThere, ControlTypeOK
<1>8. CASE Perform(request[c]) /\ Answer(c, "ok")
           /\ acceptedUpTo' = [acceptedUpTo EXCEPT ![c] = nextSequence' - 1]
  BY <1>2, <1>3, <1>6, <1>7, <1>8 DEF Answer
<1>9. CASE /\ Answer(c, RefusalCode(request[c].kind))
           /\ UNCHANGED acceptedUpTo /\ UNCHANGED sessionVars
  <2>1. RefusalCode(request[c].kind) # "ok"
    BY DEF RefusalCode
  <2>2. reply' = [reply EXCEPT ![c] = RefusalCode(request[c].kind)]
    BY <1>9 DEF Answer
  <2>3. reply'[c] # "ok" /\ \A d \in Conn : d # c => reply'[d] = reply[d]
    BY <1>1, <2>1, <2>2 DEF ControlTypeOK
  <2>4. QED
    BY <1>3, <1>6, <1>7, <1>9, <2>3
<1>10. QED
  BY <1>8, <1>9 DEF CallAndAnswer

\* A session step in which the connections and clients stand still, or one of
\* them answers, keeps the bounds and the race window's invariant.
LEMMA WindowIsStable ==
  ASSUME ControlInv, StepIsLogged,
         UNCHANGED <<request, checkedAt, joinedAt>>,
         \A c \in Conn : pc'[c] = "authorised" => pc[c] = "authorised"
  PROVE  AuthorityWasHeld'
<1> SUFFICES ASSUME NEW c \in Conn, pc[c] = "authorised"
             PROVE  \/ hostId' = request[c].caller
                    \/ \E i \in (checkedAt[c] + 1)..Len(events') :
                         /\ events'[i].message.type = "HostChanged"
                         /\ events'[i].message.previousHost = request[c].caller
  BY DEF AuthorityWasHeld, IsHost
<1>1. /\ Len(events) \in Nat /\ Len(events) <= Len(events')
      /\ checkedAt[c] \in Nat /\ checkedAt[c] <= Len(events)
  BY DEF ControlInv, SessionInv, TypeOK, StepIsLogged, ControlTypeOK, PointersAreInLog
<1>2. CASE hostId = request[c].caller /\ hostId' # hostId
  <2>1. PICK i \in (Len(events) + 1)..Len(events') :
          /\ events'[i].message.type = "HostChanged"
          /\ events'[i].message.previousHost = hostId
    BY <1>2 DEF StepIsLogged
  <2>2. i \in (checkedAt[c] + 1)..Len(events')
    BY <1>1
  <2>3. QED
    BY <1>2, <2>1, <2>2
<1>3. CASE hostId = request[c].caller /\ hostId' = hostId
  BY <1>3
<1>4. CASE hostId # request[c].caller
  <2>1. PICK i \in (checkedAt[c] + 1)..Len(events) :
          /\ events[i].message.type = "HostChanged"
          /\ events[i].message.previousHost = request[c].caller
    BY <1>4 DEF ControlInv, AuthorityWasHeld, IsHost
  <2>2. i \in (checkedAt[c] + 1)..Len(events') /\ events'[i] = events[i]
    BY <1>1 DEF StepIsLogged
  <2>3. QED
    BY <2>1, <2>2
<1>5. QED
  BY <1>2, <1>3, <1>4

\* Clients that are already in keep the promise through any session step.
LEMMA AcceptedStayInformed ==
  ASSUME ControlInv, StepIsLogged, UNCHANGED clientVars
  PROVE  AcceptedMembersLearnOfRemoval'
<1> SUFFICES ASSUME NEW m \in joined
             PROVE  InRoomOrTold(m, joinedAt[m])'
  BY DEF AcceptedMembersLearnOfRemoval, InRoomOrTold, clientVars
<1>1. m \in MemberId /\ joinedAt[m] \in Nat /\ joinedAt[m] <= Len(events)
  BY DEF ControlInv, ControlTypeOK, PointersAreInLog
<1>2. InRoomOrTold(m, joinedAt[m])
  BY DEF ControlInv, AcceptedMembersLearnOfRemoval, InRoomOrTold
<1> DEFINE n == joinedAt[m]
<1>3. n' = n
  BY DEF clientVars
<1>4. InRoomOrTold(m, n) /\ n \in Nat /\ n <= Len(events) /\ SessionInv
  BY <1>1, <1>2 DEF ControlInv
<1>5. \/ HasMember(members', m)
      \/ \E i \in (n + 1)..Len(events') :
           events'[i].target = m /\ events'[i].message.type = "MemberRemoved"
  <2> HIDE DEF n
  <2>1. InRoomOrTold(m, n)'
    BY <1>3, <1>4, PromiseIsStable
  <2>2. QED
    BY <1>3, <2>1 DEF InRoomOrTold
<1>6. QED
  BY <1>3, <1>5 DEF InRoomOrTold

\* An answer keeps the whole invariant.
LEMMA AnswerKeepsInv ==
  ASSUME ControlInv, NEW c \in Conn, pc[c] # "idle", CallAndAnswer(c),
         UNCHANGED <<request, checkedAt, waiting, clientVars>>
  PROVE  ControlInv'
<1>1. [SessionNext]_sessionVars
  BY PerformIsSessionNext DEF ControlInv, RequestsAreThere, CallAndAnswer
<1>2. SessionInv' /\ StepIsLogged
  BY <1>1, SessionNextInv, SessionStepIsLogged DEF ControlInv
<1>3. /\ ControlTypeOK' /\ RequestsAreThere'
      /\ pc' = [pc EXCEPT ![c] = "replied"]
      /\ \/ /\ Perform(request[c])
            /\ reply' = [reply EXCEPT ![c] = "ok"]
            /\ acceptedUpTo' = [acceptedUpTo EXCEPT ![c] = Len(events')]
         \/ /\ UNCHANGED sessionVars
            /\ reply'[c] # "ok"
            /\ \A d \in Conn : d # c => reply'[d] = reply[d]
            /\ UNCHANGED acceptedUpTo
  BY <1>2, AnswerStep
<1>4. Len(events) \in Nat /\ Len(events') \in Nat /\ Len(events) <= Len(events')
  BY <1>2 DEF ControlInv, SessionInv, TypeOK, StepIsLogged
<1>5. PointersAreInLog'
  <2>1. /\ acceptedUpTo \in [Conn -> Nat] /\ checkedAt \in [Conn -> Nat]
        /\ joinedAt \in [MemberId -> Nat]
        /\ PointersAreInLog
    BY DEF ControlInv, ControlTypeOK
  <2>2. \A d \in Conn : checkedAt'[d] <= Len(events')
    BY <1>4, <2>1 DEF PointersAreInLog
  <2>3. \A m \in MemberId : joinedAt'[m] <= Len(events')
    BY <1>4, <2>1 DEF PointersAreInLog, clientVars
  <2>4. ASSUME NEW d \in Conn
        PROVE  acceptedUpTo'[d] <= Len(events')
    <3>1. acceptedUpTo'[d] \in {acceptedUpTo[d], Len(events')}
      BY <1>3, <2>1
    <3>2. QED
      BY <1>4, <2>1, <3>1 DEF PointersAreInLog
  <2>5. QED
    BY <2>2, <2>3, <2>4 DEF PointersAreInLog
<1>6. AuthorityWasHeld'
  <2>1. \A d \in Conn : pc'[d] = "authorised" => pc[d] = "authorised"
    BY <1>3 DEF ControlInv, ControlTypeOK
  <2>2. QED
    BY <1>2, <2>1, WindowIsStable DEF clientVars
<1>7. AcceptedMembersLearnOfRemoval'
  BY <1>2, AcceptedStayInformed
<1>8. ASSUME NEW d \in Conn, pc'[d] = "replied", reply'[d] = "ok", request[d].kind = "JoinRoom"
      PROVE  InRoomOrTold(request[d].caller, acceptedUpTo[d])'
  <2>1. CASE d = c
    <3>1. Perform(request[c]) /\ request[c].kind = "JoinRoom" /\ request[c] \in Request
      BY <1>3, <1>8, <2>1 DEF ControlInv, RequestsAreThere
    <3>2. request[c].caller \in MemberId /\ JoinHostSession(request[c].caller, request[c].decoded)
      BY <3>1 DEF Perform, Request
    <3>3. HasMember(members', request[c].caller)
      BY <3>2 DEF JoinHostSession, AddMember, HasMember
    <3>4. QED
      BY <2>1, <3>3 DEF InRoomOrTold
  <2>2. CASE d # c
    <3> DEFINE m == request[d].caller
               n == acceptedUpTo[d]
    <3>1. pc[d] = "replied" /\ reply[d] = "ok"
      BY <1>3, <1>8, <2>2 DEF ControlInv, ControlTypeOK
    <3>2. m' = m /\ n' = n
      BY <1>3, <2>2 DEF ControlInv, ControlTypeOK
    <3>3. InRoomOrTold(m, n) /\ n \in Nat /\ n <= Len(events)
      BY <1>8, <3>1 DEF ControlInv, AcceptancesAreSound, ControlTypeOK, PointersAreInLog
    <3> HIDE DEF m, n
    <3>4. \/ HasMember(members', m)
          \/ \E i \in (n + 1)..Len(events') :
               events'[i].target = m /\ events'[i].message.type = "MemberRemoved"
      <4>1. InRoomOrTold(m, n)'
        BY <1>2, <3>2, <3>3, PromiseIsStable DEF ControlInv
      <4>2. QED
        BY <3>2, <4>1 DEF InRoomOrTold
    <3>5. InRoomOrTold(m, n)'
      BY <3>2, <3>4 DEF InRoomOrTold
    <3>6. QED
      BY <3>5 DEF m, n
  <2>3. QED
    BY <2>1, <2>2
<1>9. AcceptancesAreSound'
  BY <1>8 DEF AcceptancesAreSound
<1>10. QED
  BY <1>2, <1>3, <1>5, <1>6, <1>7, <1>9 DEF ControlInv

\* A step that leaves the session alone keeps the parts that speak of it.
LEMMA SessionAtRest ==
  ASSUME ControlInv, UNCHANGED sessionVars
  PROVE  SessionInv' /\ TypeOK'
<1>1. SessionInv'
  BY SessionNextInv DEF ControlInv
<1>2. QED
  BY <1>1 DEF SessionInv

\* Letting go of a connection keeps the invariant, whether or not the client
\* learns from the answer that it has joined.
LEMMA CloseKeepsInv ==
  ASSUME ControlInv, NEW c \in Conn, pc[c] = "replied", Close(c), UNCHANGED sessionVars,
         \/ UNCHANGED clientVars
         \/ /\ request[c].kind = "JoinRoom" /\ reply[c] = "ok"
            /\ joined' = joined \cup {request[c].caller}
            /\ joinedAt' = [joinedAt EXCEPT ![request[c].caller] = acceptedUpTo[c]]
  PROVE  ControlInv'
<1>1. /\ SessionInv' /\ TypeOK' /\ ControlTypeOK /\ PointersAreInLog
      /\ request[c] \in Request
      /\ hostId' = hostId /\ members' = members /\ events' = events
      /\ Len(events) \in Nat
  BY SessionAtRest DEF ControlInv, SessionInv, TypeOK, RequestsAreThere, sessionVars
<1>2. request[c].kind = "JoinRoom" => request[c].caller \in MemberId
  BY <1>1 DEF Request
<1>3. /\ pc' = [pc EXCEPT ![c] = "idle"]
      /\ request' = [request EXCEPT ![c] = NoRequest]
      /\ reply' = [reply EXCEPT ![c] = "none"]
      /\ checkedAt' = [checkedAt EXCEPT ![c] = 0]
      /\ acceptedUpTo' = [acceptedUpTo EXCEPT ![c] = 0]
      /\ waiting' = [waiting EXCEPT ![c] = FALSE]
  BY DEF Close
<1>4. joined' \in SUBSET MemberId /\ joinedAt' \in [MemberId -> Nat]
  BY <1>1, <1>2 DEF ControlTypeOK, clientVars
<1>5. ControlTypeOK'
  BY <1>1, <1>3, <1>4 DEF ControlTypeOK, Reply
<1>6. RequestsAreThere'
  BY <1>1, <1>3 DEF ControlInv, RequestsAreThere, ControlTypeOK
<1>7. \A d \in Conn : checkedAt'[d] <= Len(events) /\ acceptedUpTo'[d] <= Len(events)
  BY <1>1, <1>3 DEF PointersAreInLog, ControlTypeOK
<1>8. \A m \in MemberId : joinedAt'[m] <= Len(events)
  BY <1>1 DEF PointersAreInLog, ControlTypeOK, clientVars
<1>9. AuthorityWasHeld'
  BY <1>1, <1>3 DEF ControlInv, AuthorityWasHeld, ControlTypeOK, IsHost
<1>10. AcceptancesAreSound'
  BY <1>1, <1>3 DEF ControlInv, AcceptancesAreSound, ControlTypeOK, InRoomOrTold, HasMember
<1>11. AcceptedMembersLearnOfRemoval'
  <2>1. CASE UNCHANGED clientVars
    BY <1>1, <2>1 DEF ControlInv, AcceptedMembersLearnOfRemoval, clientVars, HasMember
  <2>2. CASE /\ request[c].kind = "JoinRoom" /\ reply[c] = "ok"
             /\ joined' = joined \cup {request[c].caller}
             /\ joinedAt' = [joinedAt EXCEPT ![request[c].caller] = acceptedUpTo[c]]
    <3>1. InRoomOrTold(request[c].caller, acceptedUpTo[c])
      BY <2>2 DEF ControlInv, AcceptancesAreSound
    <3> DEFINE newcomer == request[c].caller
    <3>2. /\ joinedAt \in [MemberId -> Nat] /\ joined \subseteq MemberId
          /\ joined' = joined \cup {newcomer}
          /\ joinedAt' = [joinedAt EXCEPT ![newcomer] = acceptedUpTo[c]]
      BY <1>1, <2>2 DEF ControlTypeOK
    <3>3. \A m \in joined : InRoomOrTold(m, joinedAt[m])
      BY DEF ControlInv, AcceptedMembersLearnOfRemoval, InRoomOrTold
    <3>4. InRoomOrTold(newcomer, acceptedUpTo[c])
      BY <3>1
    <3>5. ASSUME NEW m \in joined'
          PROVE  InRoomOrTold(m, joinedAt'[m])
      <4>1. CASE m = newcomer
        <5>1. newcomer \in MemberId
          BY <1>2, <2>2
        <5>2. joinedAt'[newcomer] = acceptedUpTo[c]
          BY <3>2, <5>1
        <5>3. QED
          BY <3>4, <4>1, <5>2
      <4>2. CASE m # newcomer
        <5>1. m \in joined /\ m \in MemberId
          BY <3>2, <4>2
        <5>2. joinedAt'[m] = joinedAt[m]
          BY <3>2, <4>2, <5>1
        <5>3. QED
          BY <3>3, <5>1, <5>2
      <4>3. QED
        BY <4>1, <4>2
    <3>6. QED
      BY <1>1, <3>5 DEF AcceptedMembersLearnOfRemoval, InRoomOrTold, HasMember
  <2>3. QED
    BY <2>1, <2>2
<1>12. PointersAreInLog'
  BY <1>1, <1>7, <1>8 DEF PointersAreInLog
<1>13. QED
  BY <1>1, <1>5, <1>6, <1>9, <1>10, <1>11, <1>12 DEF ControlInv

-----------------------------------------------------------------------------
(* The inductive invariant.                                                *)

\* A control plane with no request under way satisfies the invariant.
LEMMA ControlInitInv == ControlInit => ControlInv
<1> SUFFICES ASSUME ControlInit
             PROVE  ControlInv
  OBVIOUS
<1>1. SessionInv /\ TypeOK /\ Len(events) \in Nat
  BY SessionInitInv DEF ControlInit, SessionInv, TypeOK
<1>2. ControlTypeOK
  BY <1>1 DEF ControlInit, ControlTypeOK, Reply
<1>3. RequestsAreThere /\ AuthorityWasHeld /\ AcceptancesAreSound /\ AcceptedMembersLearnOfRemoval
  BY DEF ControlInit, RequestsAreThere, AuthorityWasHeld, AcceptancesAreSound,
         AcceptedMembersLearnOfRemoval
<1>4. PointersAreInLog
  BY <1>1 DEF ControlInit, PointersAreInLog
<1>5. QED
  BY <1>1, <1>2, <1>3, <1>4 DEF ControlInv

\* Every step of a thread, a client or the owner keeps the invariant.
LEMMA ControlNextInv == ControlInv /\ [ControlNext]_controlVars => ControlInv'
<1> SUFFICES ASSUME ControlInv, [ControlNext]_controlVars
             PROVE  ControlInv'
  OBVIOUS
<1>1. /\ SessionInv /\ ControlTypeOK /\ PointersAreInLog /\ SequenceIsPosition
      /\ nextSequence - 1 = Len(events) /\ Len(events) \in Nat
  BY DEF ControlInv, SessionInv, TypeOK, SequenceIsPosition
<1>2. ASSUME NEW c \in Conn, HandleDirect(c)
      PROVE  ControlInv'
  BY <1>2, AnswerKeepsInv DEF HandleDirect
<1>3. ASSUME NEW c \in Conn, HandleAuthorised(c)
      PROVE  ControlInv'
  BY <1>3, AnswerKeepsInv DEF HandleAuthorised
<1>4. ASSUME NEW c \in Conn, ReadReply(c)
      PROVE  ControlInv'
  BY <1>4, CloseKeepsInv DEF ReadReply, StartingPoint
<1>5. ASSUME NEW c \in Conn, ReplyLost(c)
      PROVE  ControlInv'
  BY <1>5, CloseKeepsInv DEF ReplyLost
<1>6. ASSUME NEW c \in Conn, NEW r \in ClientRequests, Send(c, r)
      PROVE  ControlInv'
  <2>1. /\ SessionInv' /\ TypeOK'
        /\ hostId' = hostId /\ members' = members /\ events' = events
        /\ UNCHANGED <<checkedAt, reply, acceptedUpTo, joined, joinedAt>>
    BY <1>6, SessionAtRest DEF Send, sessionVars, clientVars
  <2>2. /\ r \in Request
        /\ pc' = [pc EXCEPT ![c] = "received"]
        /\ request' = [request EXCEPT ![c] = r]
        /\ waiting' = [waiting EXCEPT ![c] = TRUE]
    BY <1>6, ControlAssumption DEF Send
  <2>3. ControlTypeOK'
    BY <1>1, <2>1, <2>2 DEF ControlTypeOK
  <2>4. RequestsAreThere'
    BY <1>1, <2>2 DEF ControlInv, RequestsAreThere, ControlTypeOK
  <2>5. PointersAreInLog' /\ AcceptedMembersLearnOfRemoval'
    BY <2>1 DEF ControlInv, PointersAreInLog, AcceptedMembersLearnOfRemoval, HasMember
  <2>6. AuthorityWasHeld'
    BY <1>1, <2>1, <2>2 DEF ControlInv, AuthorityWasHeld, ControlTypeOK, IsHost
  <2>7. AcceptancesAreSound'
    BY <1>1, <2>1, <2>2 DEF ControlInv, AcceptancesAreSound, ControlTypeOK, InRoomOrTold, HasMember
  <2>8. QED
    BY <2>1, <2>3, <2>4, <2>5, <2>6, <2>7 DEF ControlInv
<1>7. ASSUME NEW c \in Conn, CheckAuthority(c)
      PROVE  ControlInv'
  <2>1. /\ SessionInv' /\ TypeOK'
        /\ hostId' = hostId /\ members' = members /\ events' = events
        /\ UNCHANGED <<request, acceptedUpTo, waiting, joined, joinedAt>>
    BY <1>7, SessionAtRest DEF CheckAuthority, sessionVars, clientVars
  <2>2. CASE /\ hostId = request[c].caller
             /\ pc' = [pc EXCEPT ![c] = "authorised"]
             /\ checkedAt' = [checkedAt EXCEPT ![c] = Len(events)]
             /\ UNCHANGED reply
    <3>1. pc[c] = "received" /\ ControlTypeOK'
      BY <1>1, <1>7, <2>1, <2>2 DEF CheckAuthority, ControlTypeOK
    <3>2. RequestsAreThere'
      BY <1>1, <2>1, <2>2, <3>1 DEF ControlInv, RequestsAreThere, ControlTypeOK
    <3>3. PointersAreInLog'
      BY <1>1, <2>1, <2>2 DEF PointersAreInLog, ControlTypeOK
    <3>4. AuthorityWasHeld'
      BY <1>1, <2>1, <2>2 DEF ControlInv, AuthorityWasHeld, ControlTypeOK, IsHost
    <3>5. AcceptancesAreSound' /\ AcceptedMembersLearnOfRemoval'
      BY <1>1, <2>1, <2>2 DEF ControlInv, AcceptancesAreSound, AcceptedMembersLearnOfRemoval,
                              ControlTypeOK, InRoomOrTold, HasMember
    <3>6. QED
      BY <2>1, <3>1, <3>2, <3>3, <3>4, <3>5 DEF ControlInv
  <2>3. CASE /\ pc' = [pc EXCEPT ![c] = "replied"]
             /\ reply' = [reply EXCEPT ![c] = "not-host"]
             /\ UNCHANGED checkedAt
    <3>1. pc[c] = "received" /\ ControlTypeOK'
      BY <1>1, <1>7, <2>1, <2>3 DEF CheckAuthority, ControlTypeOK, Reply
    <3>2. RequestsAreThere'
      BY <1>1, <2>1, <2>3, <3>1 DEF ControlInv, RequestsAreThere, ControlTypeOK
    <3>3. PointersAreInLog'
      BY <1>1, <2>1, <2>3 DEF PointersAreInLog
    <3>4. AuthorityWasHeld'
      BY <1>1, <2>1, <2>3 DEF ControlInv, AuthorityWasHeld, ControlTypeOK, IsHost
    <3>5. AcceptancesAreSound' /\ AcceptedMembersLearnOfRemoval'
      BY <1>1, <2>1, <2>3 DEF ControlInv, AcceptancesAreSound, AcceptedMembersLearnOfRemoval,
                              ControlTypeOK, InRoomOrTold, HasMember
    <3>6. QED
      BY <2>1, <3>1, <3>2, <3>3, <3>4, <3>5 DEF ControlInv
  <2>4. QED
    BY <1>1, <1>7, <2>2, <2>3 DEF CheckAuthority, MayManage, IsHost, Answer, LatestSequence
<1>8. ASSUME NEW c \in Conn, TimeOut(c)
      PROVE  ControlInv'
  <2>1. /\ SessionInv' /\ TypeOK'
        /\ hostId' = hostId /\ members' = members /\ events' = events
        /\ UNCHANGED <<pc, request, checkedAt, reply, acceptedUpTo, joined, joinedAt>>
        /\ waiting' = [waiting EXCEPT ![c] = FALSE]
    BY <1>8, SessionAtRest DEF TimeOut, sessionVars, clientVars
  <2>2. ControlTypeOK'
    BY <1>1, <2>1 DEF ControlTypeOK
  <2>3. QED
    BY <2>1, <2>2 DEF ControlInv, RequestsAreThere, PointersAreInLog, AuthorityWasHeld,
                      AcceptancesAreSound, AcceptedMembersLearnOfRemoval, InRoomOrTold,
                      HasMember, IsHost
<1>9. ASSUME NEW r \in OwnerCommands, OwnerCommand(r)
      PROVE  ControlInv'
  <2>1. [SessionNext]_sessionVars
    BY <1>9, ControlAssumption, PerformIsSessionNext DEF OwnerCommand
  <2>2. SessionInv' /\ StepIsLogged /\ TypeOK'
    BY <1>1, <2>1, SessionNextInv, SessionStepIsLogged DEF SessionInv
  <2>3. Len(events) <= Len(events') /\ Len(events') \in Nat
    BY <2>2 DEF StepIsLogged, TypeOK
  <2>4. UNCHANGED <<pc, request, checkedAt, reply, acceptedUpTo, waiting, joined, joinedAt>>
    BY <1>9 DEF OwnerCommand, connVars, clientVars
  <2>5. ControlTypeOK' /\ RequestsAreThere'
    BY <2>2, <2>4 DEF ControlInv, ControlTypeOK, RequestsAreThere
  <2>6. PointersAreInLog'
    <3>1. \A c \in Conn : checkedAt[c] \in Nat /\ acceptedUpTo[c] \in Nat
      BY <1>1 DEF ControlTypeOK
    <3>2. \A m \in MemberId : joinedAt[m] \in Nat
      BY <1>1 DEF ControlTypeOK
    <3>3. QED
      BY <1>1, <2>3, <2>4, <3>1, <3>2 DEF PointersAreInLog
  <2>7. AuthorityWasHeld'
    BY <2>2, <2>4, WindowIsStable
  <2>8. AcceptedMembersLearnOfRemoval'
    BY <2>2, <2>4, AcceptedStayInformed DEF clientVars
  <2>9. AcceptancesAreSound'
    <3>1. SUFFICES ASSUME NEW d \in Conn, pc[d] = "replied", reply[d] = "ok",
                          request[d].kind = "JoinRoom"
                   PROVE  InRoomOrTold(request[d].caller, acceptedUpTo[d])'
      BY <2>4 DEF AcceptancesAreSound
    <3> DEFINE m == request[d].caller
               n == acceptedUpTo[d]
    <3>2. m' = m /\ n' = n
      BY <2>4
    <3>3. InRoomOrTold(m, n) /\ n \in Nat /\ n <= Len(events)
      BY <3>1 DEF ControlInv, AcceptancesAreSound, ControlTypeOK, PointersAreInLog
    <3> HIDE DEF m, n
    <3>4. InRoomOrTold(m, n)'
      BY <1>1, <2>2, <3>2, <3>3, PromiseIsStable
    <3>5. QED
      BY <3>4 DEF m, n
  <2>10. QED
    BY <2>2, <2>5, <2>6, <2>7, <2>8, <2>9 DEF ControlInv
<1>10. CASE UNCHANGED controlVars
  <2>1. SessionInv'
    BY <1>10, SessionAtRest DEF controlVars, sessionVars
  <2>2. QED
    BY <1>10, <2>1 DEF controlVars, ControlInv, ControlTypeOK, TypeOK, RequestsAreThere,
                       PointersAreInLog, AuthorityWasHeld, AcceptancesAreSound,
                       AcceptedMembersLearnOfRemoval, InRoomOrTold, HasMember, IsHost
<1>11. QED
  BY <1>2, <1>3, <1>4, <1>5, <1>6, <1>7, <1>8, <1>9, <1>10 DEF ControlNext

-----------------------------------------------------------------------------
(* Theorems.                                                               *)

\* The inductive invariant holds in every reachable state of the control plane.
THEOREM ControlInvariant == ControlSpec => []ControlInv
<1>1. QED
  BY ControlInitInv, ControlNextInv, PTL DEF ControlSpec

\* Type correctness of the connections, the clients and the session below.
THEOREM ControlTypeCorrect == ControlSpec => []ControlTypeOK
<1>1. ControlInv => ControlTypeOK
  BY DEF ControlInv
<1>2. QED
  BY <1>1, ControlInvariant, PTL

\* The control plane implements the session: with a thread per connection, two
\* locks per management request, timeouts and lost answers, what happens to the
\* room is a sequence of whole operations of the session manager.
THEOREM ControlImplementsSession == ControlSpec => SessionSpec
<1>1. ControlInit => SessionInit
  BY DEF ControlInit
<1>2. ControlInv /\ [ControlNext]_controlVars => [SessionNext]_sessionVars
  BY ControlStepIsSessionStep DEF ControlInv
<1>3. QED
  BY <1>1, <1>2, ControlInvariant, PTL DEF ControlSpec, SessionSpec

\* A thread past its is_host test acts for the host or for a member deposed by an
\* event newer than the test (control_runtime.rs).
THEOREM AuthorityIsBounded == ControlSpec => []AuthorityWasHeld
<1>1. ControlInv => AuthorityWasHeld
  BY DEF ControlInv
<1>2. QED
  BY <1>1, ControlInvariant, PTL

\* No removal is lost on a member whose join was confirmed: the event channel it
\* opens at the confirmed sequence number carries the notice.
THEOREM AcceptedMembersAreInformed == ControlSpec => []AcceptedMembersLearnOfRemoval
<1>1. ControlInv => AcceptedMembersLearnOfRemoval
  BY DEF ControlInv
<1>2. QED
  BY <1>1, ControlInvariant, PTL

-----------------------------------------------------------------------------
(* Who manages the room.                                                   *)

\* The caller of the request was the host at some length the log has had since the
\* thread's is_host test.
WasHostSinceTheTest(c) ==
  \E n \in checkedAt[c]..Len(events) : HostAsOf(events, n, request[c].caller)

\* What is reserved for the host has happened to the room.
RoomIsManaged ==
  \/ hostId' # hostId
  \/ bannedMembers' # bannedMembers
  \/ \E m \in DOMAIN members : ~HasMember(members', m) \/ members'[m] # members[m]

\* The thread of c carries its request out and answers it, once.
ManagesAsHost(c) ==
  /\ request[c].kind \in Management
  /\ Perform(request[c])
  /\ pc[c] = "authorised" /\ pc'[c] = "replied" /\ reply'[c] = "ok"
  /\ WasHostSinceTheTest(c)

OnlyHostsManage ==
  RoomIsManaged =>
    \/ \E r \in OwnerCommands : OwnerCommand(r)
    \/ \E c \in Conn : ManagesAsHost(c)

\* Joins and signals manage nothing.
LEMMA OthersDoNotManage ==
  ASSUME NEW r, Perform(r), RoomIsManaged
  PROVE  r.kind \in Management
<1>1. CASE r.kind = "JoinRoom" /\ JoinHostSession(r.caller, r.decoded)
  <2>1. /\ hostId' = hostId /\ bannedMembers' = bannedMembers
        /\ members' = AddMember(members, r.caller)
        /\ r.caller \notin DOMAIN members
    BY <1>1 DEF JoinHostSession, MayJoin, HasMember
  <2>2. \A m \in DOMAIN members : m \in DOMAIN members' /\ members'[m] = members[m]
    BY <2>1 DEF AddMember
  <2>3. QED
    BY <2>1, <2>2 DEF RoomIsManaged, HasMember
<1>2. CASE r.kind = "RelaySignal" /\ RelayWebRtcSignal(r.caller, r.target)
  BY <1>2 DEF RelayWebRtcSignal, RoomIsManaged, HasMember
<1>3. QED
  BY <1>1, <1>2 DEF Perform, Management

\* Who is past the test is the host, or was it until an event newer than the test.
LEMMA TestsAreOfHosts ==
  ASSUME ControlInv, HandoversAreOfTheHost, NEW c \in Conn, pc[c] = "authorised"
  PROVE  WasHostSinceTheTest(c)
<1>1. /\ checkedAt[c] \in Nat /\ checkedAt[c] <= Len(events) /\ Len(events) \in Nat
      /\ hostId \in MemberId
  BY DEF ControlInv, ControlTypeOK, PointersAreInLog, TypeOK
<1>2. CASE IsHost(request[c].caller)
  <2>1. HostAsOf(events, Len(events), request[c].caller)
    BY <1>1, <1>2 DEF ControlInv, SessionInv, LogTellsHost, IsHost
  <2>2. Len(events) \in checkedAt[c]..Len(events)
    BY <1>1
  <2>3. QED
    BY <2>1, <2>2 DEF WasHostSinceTheTest
<1>3. CASE ~IsHost(request[c].caller)
  <2>1. PICK i \in (checkedAt[c] + 1)..Len(events) :
          /\ events[i].message.type = "HostChanged"
          /\ events[i].message.previousHost = request[c].caller
    BY <1>3 DEF ControlInv, AuthorityWasHeld
  <2>2. i - 1 \in checkedAt[c]..Len(events) /\ i \in 1..Len(events)
    BY <1>1, <2>1
  <2>3. HostAsOf(events, i - 1, request[c].caller)
    BY <2>1, <2>2 DEF HandoversAreOfTheHost
  <2>4. QED
    BY <2>2, <2>3 DEF WasHostSinceTheTest
<1>4. QED
  BY <1>2, <1>3

\* Whatever a step does to the room that only its host may do is a command of the owner's
\* window, or the one call of a management request whose caller held the role when it
\* was tested or later: no join, signal, timeout or lost answer manages the room, and a
\* thread that was deposed in between acts on a role its caller really had
\* (handle_control_runtime_request, is_host).
THEOREM HostsManageTheRoom == ControlSpec => [][OnlyHostsManage]_controlVars
<1>1. ASSUME ControlInv, HandoversAreOfTheHost, ControlNext
      PROVE  OnlyHostsManage
  <2> SUFFICES ASSUME RoomIsManaged
               PROVE  \/ \E r \in OwnerCommands : OwnerCommand(r)
                      \/ \E c \in Conn : ManagesAsHost(c)
    BY DEF OnlyHostsManage
  <2>1. TypeOK /\ ControlTypeOK
    BY <1>1 DEF ControlInv, SessionInv
  <2>2. ~UNCHANGED sessionVars
    BY DEF RoomIsManaged, sessionVars, HasMember
  <2>3. ASSUME NEW c \in Conn, HandleDirect(c)
        PROVE  FALSE
    BY <2>1, <2>2, <2>3, OthersDoNotManage DEF HandleDirect, CallAndAnswer
  <2>4. ASSUME NEW c \in Conn, HandleAuthorised(c)
        PROVE  ManagesAsHost(c)
    <3>1. pc[c] = "authorised" /\ Perform(request[c]) /\ Answer(c, "ok")
      BY <2>2, <2>4 DEF HandleAuthorised, CallAndAnswer
    <3>2. pc'[c] = "replied" /\ reply'[c] = "ok"
      BY <2>1, <3>1 DEF Answer, ControlTypeOK
    <3>3. request[c].kind \in Management
      BY <2>1, <3>1, OthersDoNotManage
    <3>4. QED
      BY <1>1, <3>1, <3>2, <3>3, TestsAreOfHosts DEF ManagesAsHost
  <2>5. ASSUME NEW c \in Conn,
               \/ \E r \in ClientRequests : Send(c, r)
               \/ CheckAuthority(c) \/ ReadReply(c) \/ TimeOut(c) \/ ReplyLost(c)
        PROVE  FALSE
    BY <2>2, <2>5 DEF Send, CheckAuthority, ReadReply, TimeOut, ReplyLost
  <2>6. QED
    BY <1>1, <2>3, <2>4, <2>5 DEF ControlNext
<1>2. ControlInv /\ HandoversAreOfTheHost /\ [ControlNext]_controlVars
        => [OnlyHostsManage]_controlVars
  BY <1>1
<1>3. ControlSpec => []HandoversAreOfTheHost
  BY ControlImplementsSession, HandoversAreInOrder
<1>4. QED
  BY <1>2, <1>3, ControlInvariant, PTL DEF ControlSpec

=============================================================================
