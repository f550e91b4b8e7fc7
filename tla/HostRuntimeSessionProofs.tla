----------------------- MODULE HostRuntimeSessionProofs -----------------------
(***************************************************************************)
(* Proofs about HostRuntimeSession, for any set of members and any bound   *)
(* on the log.                                                             *)
(***************************************************************************)
EXTENDS HostRuntimeSession, RoomWindow, TLAPS

\* Banned ids are remembered: whoever the log calls banned is in the set that
\* join_host_session looks at.
BannedAreRemembered ==
  \A i \in 1..Len(events), m \in MemberId :
    events[i].message = MemberRemovedMsg(m, "banned") => m \in bannedMembers

\* The inductive invariant.
SessionInv ==
  /\ TypeOK
  /\ OneHost
  /\ BannedAreOut
  /\ SequenceIsPosition
  /\ LogTellsMembership
  /\ LogTellsHost
  /\ SignalsOnlyBetweenMembers
  /\ BannedAreRemembered
  /\ BanIsForGood
  /\ RemovalIsExplainedFirst

-----------------------------------------------------------------------------
(* Reading the log one event further.                                      *)

\* The newest event decides, and if it is silent the older ones do.
LEMMA MemberAsOfStep ==
  ASSUME NEW log, NEW n \in Nat, NEW m
  PROVE  MemberAsOf(log, n + 1, m) <=>
           \/ Admits(log[n + 1].message, m)
           \/ MemberAsOf(log, n, m) /\ ~Departs(log[n + 1].message, m)
<1>1. ASSUME MemberAsOf(log, n + 1, m), ~Admits(log[n + 1].message, m)
      PROVE  MemberAsOf(log, n, m) /\ ~Departs(log[n + 1].message, m)
  BY <1>1 DEF MemberAsOf
<1>2. ASSUME Admits(log[n + 1].message, m)
      PROVE  MemberAsOf(log, n + 1, m)
  BY <1>2 DEF MemberAsOf
<1>3. ASSUME MemberAsOf(log, n, m), ~Departs(log[n + 1].message, m)
      PROVE  MemberAsOf(log, n + 1, m)
  <2>1. PICK i \in 1..n : /\ Admits(log[i].message, m)
                          /\ \A j \in (i + 1)..n : ~Departs(log[j].message, m)
    BY <1>3 DEF MemberAsOf
  <2>2. \A j \in (i + 1)..(n + 1) : ~Departs(log[j].message, m)
    BY <1>3, <2>1
  <2>3. QED
    BY <2>1, <2>2 DEF MemberAsOf
<1>4. QED
  BY <1>1, <1>2, <1>3

\* The same for the host: the newest event decides, else the older ones.
LEMMA HostAsOfStep ==
  ASSUME NEW log, NEW n \in Nat, NEW m
  PROVE  HostAsOf(log, n + 1, m) <=>
           \/ Crowns(log[n + 1].message, m)
           \/ HostAsOf(log, n, m) /\ ~Deposes(log[n + 1].message, m)
<1>1. ASSUME HostAsOf(log, n + 1, m), ~Crowns(log[n + 1].message, m)
      PROVE  HostAsOf(log, n, m) /\ ~Deposes(log[n + 1].message, m)
  BY <1>1 DEF HostAsOf
<1>2. ASSUME Crowns(log[n + 1].message, m)
      PROVE  HostAsOf(log, n + 1, m)
  BY <1>2 DEF HostAsOf
<1>3. ASSUME HostAsOf(log, n, m), ~Deposes(log[n + 1].message, m)
      PROVE  HostAsOf(log, n + 1, m)
  <2>1. PICK i \in 1..n : /\ Crowns(log[i].message, m)
                          /\ \A j \in (i + 1)..n : ~Deposes(log[j].message, m)
    BY <1>3 DEF HostAsOf
  <2>2. \A j \in (i + 1)..(n + 1) : ~Deposes(log[j].message, m)
    BY <1>3, <2>1
  <2>3. QED
    BY <2>1, <2>2 DEF HostAsOf
<1>4. QED
  BY <1>1, <1>2, <1>3

\* Only the first n events matter.
LEMMA AsOfCongruent ==
  ASSUME NEW log, NEW log2, NEW n \in Nat, NEW m,
         \A i \in 1..n : log2[i] = log[i]
  PROVE  /\ MemberAsOf(log2, n, m) <=> MemberAsOf(log, n, m)
         /\ HostAsOf(log2, n, m) <=> HostAsOf(log, n, m)
<1>1. \A i \in 1..n : \A j \in (i + 1)..n : log2[j] = log[j]
  OBVIOUS
<1>2. QED
  BY <1>1 DEF MemberAsOf, HostAsOf

-----------------------------------------------------------------------------
(* What a push does to the log.                                            *)

\* After one push the log has one event more, under its own position, and the
\* rest of it is untouched.
LEMMA PushOneLog ==
  ASSUME TypeOK, SequenceIsPosition,
         NEW target \in MemberId \cup {NoTarget}, NEW message \in Message,
         PushOne(target, message)
  PROVE  /\ nextSequence' \in Nat
         /\ events' \in Seq(Event)
         /\ Len(events') = Len(events) + 1
         /\ \A i \in 1..Len(events) : events'[i] = events[i]
         /\ events'[Len(events) + 1] = RuntimeEvent(Len(events) + 1, target, message)
         /\ SequenceIsPosition'
<1>1. RuntimeEvent(nextSequence, target, message) \in Event
  BY DEF RuntimeEvent, Event, TypeOK
<1>2. events \in Seq(Event) /\ nextSequence \in Nat /\ nextSequence = Len(events) + 1
  BY DEF TypeOK, SequenceIsPosition
<1>3. /\ nextSequence' \in Nat
      /\ events' \in Seq(Event)
      /\ Len(events') = Len(events) + 1
      /\ \A i \in 1..Len(events) : events'[i] = events[i]
      /\ events'[Len(events) + 1] = RuntimeEvent(Len(events) + 1, target, message)
  BY <1>1, <1>2 DEF PushOne
<1>4. SequenceIsPosition'
  BY <1>2, <1>3 DEF PushOne, SequenceIsPosition, RuntimeEvent
<1>5. QED
  BY <1>3, <1>4

\* After a double push the log has two events more, under their positions, and
\* the rest of it is untouched.
LEMMA PushTwoLog ==
  ASSUME TypeOK, SequenceIsPosition,
         NEW target1 \in MemberId \cup {NoTarget}, NEW message1 \in Message,
         NEW target2 \in MemberId \cup {NoTarget}, NEW message2 \in Message,
         PushTwo(target1, message1, target2, message2)
  PROVE  /\ nextSequence' \in Nat
         /\ events' \in Seq(Event)
         /\ Len(events') = Len(events) + 2
         /\ \A i \in 1..Len(events) : events'[i] = events[i]
         /\ events'[Len(events) + 1] = RuntimeEvent(Len(events) + 1, target1, message1)
         /\ events'[Len(events) + 2] = RuntimeEvent(Len(events) + 2, target2, message2)
         /\ SequenceIsPosition'
<1> DEFINE e1 == RuntimeEvent(nextSequence, target1, message1)
           e2 == RuntimeEvent(nextSequence + 1, target2, message2)
           mid == Append(events, e1)
<1>1. events \in Seq(Event) /\ nextSequence \in Nat /\ nextSequence = Len(events) + 1
  BY DEF TypeOK, SequenceIsPosition
<1>2. e1 \in Event /\ e2 \in Event
  BY <1>1 DEF RuntimeEvent, Event
<1>3. events' = Append(mid, e2) /\ nextSequence' = nextSequence + 2
  BY DEF PushTwo
<1> HIDE DEF e1, e2
<1>4. /\ mid \in Seq(Event)
      /\ Len(mid) = Len(events) + 1
      /\ \A i \in 1..Len(events) : mid[i] = events[i]
      /\ mid[Len(events) + 1] = e1
  BY <1>1, <1>2
<1> HIDE DEF mid
<1>5. /\ nextSequence' \in Nat
      /\ events' \in Seq(Event)
      /\ Len(events') = Len(events) + 2
      /\ \A i \in 1..Len(events) : events'[i] = events[i]
      /\ events'[Len(events) + 1] = e1
      /\ events'[Len(events) + 2] = e2
  BY <1>1, <1>2, <1>3, <1>4
<1> USE DEF e1, e2
<1>6. SequenceIsPosition'
  <2>1. nextSequence' = Len(events') + 1
    BY <1>1, <1>3, <1>5
  <2>2. \A i \in 1..Len(events) : events'[i].sequence = i
    BY <1>5 DEF SequenceIsPosition
  <2>3. /\ events'[Len(events) + 1].sequence = Len(events) + 1
        /\ events'[Len(events) + 2].sequence = Len(events) + 2
    BY <1>1, <1>5 DEF RuntimeEvent
  <2>4. \A i \in 1..Len(events') :
          i \in 1..Len(events) \/ i = Len(events) + 1 \/ i = Len(events) + 2
    BY <1>1, <1>5
  <2>5. QED
    BY <2>1, <2>2, <2>3, <2>4 DEF SequenceIsPosition
<1>7. QED
  BY <1>1, <1>5, <1>6

-----------------------------------------------------------------------------
(* The member table.                                                       *)

\* A member table is a function from some set of members to member states.
LEMMA TableDef ==
  ASSUME NEW table
  PROVE  table \in MemberTable <=>
           /\ DOMAIN table \in SUBSET MemberId
           /\ table \in [DOMAIN table -> MemberState]
<1>1. ASSUME table \in MemberTable
      PROVE  /\ DOMAIN table \in SUBSET MemberId
             /\ table \in [DOMAIN table -> MemberState]
  <2>1. PICK S \in SUBSET MemberId : table \in [S -> MemberState]
    BY <1>1 DEF MemberTable
  <2>2. QED
    BY <2>1
<1>2. ASSUME DOMAIN table \in SUBSET MemberId, table \in [DOMAIN table -> MemberState]
      PROVE  table \in MemberTable
  BY <1>2 DEF MemberTable
<1>3. QED
  BY <1>1, <1>2

\* add_member yields a table with the new member in it and the others as they were.
LEMMA AddMemberTable ==
  ASSUME NEW table \in MemberTable, NEW m \in MemberId
  PROVE  /\ AddMember(table, m) \in MemberTable
         /\ DOMAIN AddMember(table, m) = DOMAIN table \cup {m}
         /\ \A x \in DOMAIN table : x # m => AddMember(table, m)[x] = table[x]
         /\ AddMember(table, m)[m] = [role |-> "Member", serverMuted |-> FALSE]
<1>1. DOMAIN table \in SUBSET MemberId /\ table \in [DOMAIN table -> MemberState]
  BY TableDef
<1>2. [role |-> "Member", serverMuted |-> FALSE] \in MemberState
  BY DEF MemberState, MemberRole
<1>3. /\ DOMAIN AddMember(table, m) = DOMAIN table \cup {m}
      /\ AddMember(table, m) \in [DOMAIN table \cup {m} -> MemberState]
      /\ \A x \in DOMAIN table : x # m => AddMember(table, m)[x] = table[x]
      /\ AddMember(table, m)[m] = [role |-> "Member", serverMuted |-> FALSE]
  BY <1>1, <1>2 DEF AddMember
<1>4. QED
  BY <1>1, <1>3, TableDef

\* remove_member yields a table without the member and the others as they were.
LEMMA RemoveMemberTable ==
  ASSUME NEW table \in MemberTable, NEW m \in MemberId
  PROVE  /\ RemoveMember(table, m) \in MemberTable
         /\ DOMAIN RemoveMember(table, m) = DOMAIN table \ {m}
         /\ \A x \in DOMAIN table \ {m} : RemoveMember(table, m)[x] = table[x]
<1>1. DOMAIN table \in SUBSET MemberId /\ table \in [DOMAIN table -> MemberState]
  BY TableDef
<1>2. /\ DOMAIN RemoveMember(table, m) = DOMAIN table \ {m}
      /\ RemoveMember(table, m) \in [DOMAIN table \ {m} -> MemberState]
      /\ \A x \in DOMAIN table \ {m} : RemoveMember(table, m)[x] = table[x]
  BY <1>1 DEF RemoveMember
<1>3. QED
  BY <1>1, <1>2, TableDef

\* set_server_muted yields a table with the same members and the same roles.
LEMMA ServerMutedTable ==
  ASSUME NEW table \in MemberTable, NEW m \in DOMAIN table, NEW flag \in BOOLEAN
  PROVE  /\ SetServerMuted(table, m, flag) \in MemberTable
         /\ DOMAIN SetServerMuted(table, m, flag) = DOMAIN table
         /\ \A x \in DOMAIN table : SetServerMuted(table, m, flag)[x].role = table[x].role
<1>1. DOMAIN table \in SUBSET MemberId /\ table \in [DOMAIN table -> MemberState]
  BY TableDef
<1>2. \A x \in DOMAIN table : [table[x] EXCEPT !.serverMuted = flag] \in MemberState
  BY <1>1 DEF MemberState
<1>3. CASE table[m].role = "Host"
  BY <1>3 DEF SetServerMuted
<1>4. CASE table[m].role # "Host"
  <2>1. SetServerMuted(table, m, flag) =
          [table EXCEPT ![m] = [table[m] EXCEPT !.serverMuted = flag]]
    BY <1>4 DEF SetServerMuted
  <2>2. [table EXCEPT ![m] = [table[m] EXCEPT !.serverMuted = flag]]
          \in [DOMAIN table -> MemberState]
    BY <1>1, <1>2
  <2>3. \A x \in DOMAIN table : SetServerMuted(table, m, flag)[x].role = table[x].role
    BY <1>1, <2>1 DEF MemberState
  <2>4. QED
    BY <1>1, <2>1, <2>2, <2>3, TableDef
<1>5. QED
  BY <1>3, <1>4

\* transfer_host yields a table with the same members, and moves the Host role.
LEMMA TransferHostTable ==
  ASSUME NEW table \in MemberTable, NEW old \in DOMAIN table, NEW new \in DOMAIN table,
         \A x \in DOMAIN table : table[x].role = "Host" <=> x = old
  PROVE  /\ TransferHost(table, old, new) \in MemberTable
         /\ DOMAIN TransferHost(table, old, new) = DOMAIN table
         /\ \A x \in DOMAIN table : TransferHost(table, old, new)[x].role = "Host" <=> x = new
<1>1. DOMAIN table \in SUBSET MemberId /\ table \in [DOMAIN table -> MemberState]
  BY TableDef
<1>2. CASE new = old
  BY <1>2 DEF TransferHost
<1>3. CASE new # old
  <2> DEFINE demoted == [table[old] EXCEPT !.role = "Member"]
             promoted == [table[new] EXCEPT !.role = "Host"]
  <2>1. /\ demoted \in MemberState /\ demoted.role = "Member"
        /\ promoted \in MemberState /\ promoted.role = "Host"
    BY <1>1 DEF MemberState, MemberRole
  <2>2. TransferHost(table, old, new) =
          [[table EXCEPT ![old] = demoted] EXCEPT ![new] = promoted]
    BY <1>1, <1>3 DEF TransferHost
  <2> HIDE DEF demoted, promoted
  <2>3. /\ TransferHost(table, old, new) \in [DOMAIN table -> MemberState]
        /\ TransferHost(table, old, new)[old] = demoted
        /\ TransferHost(table, old, new)[new] = promoted
        /\ \A x \in DOMAIN table \ {old, new} : TransferHost(table, old, new)[x] = table[x]
    BY <1>1, <1>3, <2>1, <2>2
  <2>4. QED
    BY <1>1, <1>3, <2>1, <2>3, TableDef
<1>4. QED
  BY <1>2, <1>3

-----------------------------------------------------------------------------
(* One event appended: a signal, a mute or a transfer.  None of them adds, *)
(* removes or bans a member.                                               *)

\* A step that appends one event, neither admitting nor removing anyone, keeps the
\* invariant if the event tells the change of host there is.
LEMMA OnePush ==
  ASSUME SessionInv,
         NEW target \in MemberId \cup {NoTarget}, NEW message \in Message,
         PushOne(target, message),
         message.type \in {"WebRtcSignal", "MemberServerMuted", "HostChanged"},
         hostId' \in MemberId,
         members' \in MemberTable,
         DOMAIN members' = DOMAIN members,
         OneHost',
         bannedMembers' = bannedMembers,
         message.type = "WebRtcSignal" =>
           HasMember(members, message.from) /\ HasMember(members, message.target),
         \A m \in MemberId :
           m = hostId' <=> Crowns(message, m) \/ (m = hostId /\ ~Deposes(message, m))
  PROVE  SessionInv'
<1> DEFINE n == Len(events)
<1>1. /\ n \in Nat
      /\ nextSequence' \in Nat
      /\ events' \in Seq(Event)
      /\ Len(events') = n + 1
      /\ \A i \in 1..n : events'[i] = events[i]
      /\ events'[n + 1] = RuntimeEvent(n + 1, target, message)
      /\ SequenceIsPosition'
  <2>1. TypeOK /\ SequenceIsPosition
    BY DEF SessionInv
  <2>2. Len(events) \in Nat
    BY <2>1 DEF TypeOK
  <2>3. QED
    BY <2>1, <2>2, PushOneLog
<1>2. events'[n + 1].message = message
  BY <1>1 DEF RuntimeEvent
<1>3. \A m : ~Admits(message, m) /\ ~Departs(message, m)
  BY DEF Admits, Departs
<1>4. \A i \in 1..(n + 1) : i \in 1..n \/ i = n + 1
  BY <1>1
<1> HIDE DEF n
<1>5. \A k \in 0..n : \A m : /\ MemberAsOf(events', k, m) <=> MemberAsOf(events, k, m)
                             /\ HostAsOf(events', k, m) <=> HostAsOf(events, k, m)
  BY <1>1, AsOfCongruent
<1>6. TypeOK'
  BY <1>1 DEF SessionInv, TypeOK
<1>7. BannedAreOut'
  BY DEF SessionInv, BannedAreOut
<1>8. LogTellsMembership'
  <2>1. \A m : MemberAsOf(events', n + 1, m) <=> MemberAsOf(events, n, m)
    BY <1>1, <1>2, <1>3, <1>5, MemberAsOfStep
  <2>2. QED
    BY <1>1, <2>1 DEF SessionInv, LogTellsMembership, HasMember, n
<1>9. LogTellsHost'
  <2>1. ASSUME NEW m
        PROVE  HostAsOf(events', n + 1, m) <=>
                 Crowns(message, m) \/ (HostAsOf(events, n, m) /\ ~Deposes(message, m))
    <3>1. n \in 0..n
      BY <1>1
    <3>2. HostAsOf(events', n, m) <=> HostAsOf(events, n, m)
      BY <1>5, <3>1, Zenon
    <3>3. QED
      BY <1>1, <1>2, <3>2, HostAsOfStep
  <2>2. QED
    BY <1>1, <2>1 DEF SessionInv, LogTellsHost, n
<1>10. SignalsOnlyBetweenMembers'
  <2> SUFFICES ASSUME NEW i \in 1..(n + 1), events'[i].message.type = "WebRtcSignal"
               PROVE  /\ MemberAsOf(events', i - 1, events'[i].message.from)
                      /\ MemberAsOf(events', i - 1, events'[i].message.target)
    BY <1>1 DEF SignalsOnlyBetweenMembers
  <2>1. CASE i \in 1..n
    <3>1. /\ MemberAsOf(events, i - 1, events[i].message.from)
          /\ MemberAsOf(events, i - 1, events[i].message.target)
          /\ i - 1 \in 0..n
      BY <1>1, <2>1 DEF SessionInv, SignalsOnlyBetweenMembers, n
    <3>2. QED
      BY <1>1, <1>5, <2>1, <3>1
  <2>2. CASE i = n + 1
    <3>1. message.from \in MemberId /\ message.target \in MemberId
      BY <1>2, <2>2 DEF Message
    <3>2. MemberAsOf(events, n, message.from) /\ MemberAsOf(events, n, message.target)
      BY <1>2, <2>2, <3>1 DEF SessionInv, LogTellsMembership, n
    <3>3. QED
      BY <1>1, <1>2, <1>5, <2>2, <3>2
  <2>3. QED
    BY <1>4, <2>1, <2>2
<1>11. BannedAreRemembered'
  BY <1>1, <1>2, <1>4 DEF SessionInv, BannedAreRemembered, MemberRemovedMsg, n
<1>12. BanIsForGood'
  <2> SUFFICES ASSUME NEW i \in 1..(n + 1), NEW j \in 1..(n + 1), NEW m \in MemberId,
                      i < j, events'[i].message = MemberRemovedMsg(m, "banned")
               PROVE  ~Admits(events'[j].message, m)
    BY <1>1 DEF BanIsForGood
  <2>1. i \in 1..n
    BY <1>1
  <2>2. CASE j \in 1..n
    BY <1>1, <2>1, <2>2 DEF SessionInv, BanIsForGood, n
  <2>3. CASE j = n + 1
    BY <1>2, <1>3, <2>3
  <2>4. QED
    BY <1>4, <2>2, <2>3
<1>13. RemovalIsExplainedFirst'
  <2> SUFFICES ASSUME NEW i \in 1..(n + 1), events'[i].message.type = "MemberLeft"
               PROVE  \E j \in 1..(i - 1) :
                        /\ events'[j].target = events'[i].message.member
                        /\ events'[j].message.type = "MemberRemoved"
                        /\ \A k \in j..i : ~Admits(events'[k].message, events'[i].message.member)
    BY <1>1 DEF RemovalIsExplainedFirst
  <2>1. i \in 1..n
    BY <1>2, <1>4
  <2>2. PICK j \in 1..(i - 1) :
          /\ events[j].target = events[i].message.member
          /\ events[j].message.type = "MemberRemoved"
          /\ \A k \in j..i : ~Admits(events[k].message, events[i].message.member)
    BY <1>1, <2>1 DEF SessionInv, RemovalIsExplainedFirst, n
  <2>3. j \in 1..n /\ \A k \in j..i : k \in 1..n
    BY <1>1, <2>1
  <2>4. QED
    BY <1>1, <2>1, <2>2, <2>3
<1>14. QED
  BY <1>1, <1>6, <1>7, <1>8, <1>9, <1>10, <1>11, <1>12, <1>13 DEF SessionInv

\* relay_webrtc_signal keeps the invariant.
LEMMA RelayStep ==
  ASSUME SessionInv, NEW from \in MemberId, NEW target \in MemberId,
         RelayWebRtcSignal(from, target)
  PROVE  SessionInv'
<1> DEFINE message == SignalMsg(from, target)
<1>1. message \in Message /\ message.type = "WebRtcSignal"
      /\ message.from = from /\ message.target = target
  BY DEF SignalMsg, Message
<1>2. /\ PushOne(target, message)
      /\ UNCHANGED <<hostId, members, bannedMembers>>
      /\ HasMember(members, from) /\ HasMember(members, target)
  BY DEF RelayWebRtcSignal, MayRelay
<1>3. \A m : ~Crowns(message, m) /\ ~Deposes(message, m)
  BY <1>1 DEF Crowns, Deposes
<1>4. OneHost'
  BY <1>2 DEF SessionInv, OneHost, HasMember
<1> HIDE DEF message
<1>5. QED
  BY <1>1, <1>2, <1>3, <1>4, OnePush DEF SessionInv, TypeOK

\* server_mute_member keeps the invariant.
LEMMA MuteStep ==
  ASSUME SessionInv, NEW m \in MemberId, NEW serverMuted \in BOOLEAN,
         ServerMuteMember(m, serverMuted)
  PROVE  SessionInv'
<1> DEFINE message == MemberServerMutedMsg(m, serverMuted)
<1>1. message \in Message /\ message.type = "MemberServerMuted"
  BY DEF MemberServerMutedMsg, Message
<1>2. /\ PushOne(NoTarget, message)
      /\ UNCHANGED <<hostId, bannedMembers>>
      /\ m \in DOMAIN members
      /\ members' = SetServerMuted(members, m, serverMuted)
  BY DEF ServerMuteMember, HasMember
<1>3. /\ members' \in MemberTable
      /\ DOMAIN members' = DOMAIN members
      /\ \A x \in DOMAIN members : members'[x].role = members[x].role
  BY <1>2, ServerMutedTable DEF SessionInv, TypeOK
<1>4. \A x : ~Crowns(message, x) /\ ~Deposes(message, x)
  BY <1>1 DEF Crowns, Deposes
<1>5. OneHost'
  BY <1>2, <1>3 DEF SessionInv, OneHost, HasMember
<1> HIDE DEF message
<1>6. QED
  BY <1>1, <1>2, <1>3, <1>4, <1>5, OnePush DEF SessionInv, TypeOK

\* transfer_host keeps the invariant.
LEMMA TransferStep ==
  ASSUME SessionInv, NEW newHost \in MemberId, TransferHostTo(newHost)
  PROVE  SessionInv'
<1> DEFINE message == HostChangedMsg(hostId, newHost)
<1>1. /\ hostId \in MemberId /\ hostId \in DOMAIN members
      /\ members \in MemberTable
      /\ \A x \in DOMAIN members : members[x].role = "Host" <=> x = hostId
  BY DEF SessionInv, TypeOK, OneHost, HasMember
<1>2. message \in Message /\ message.type = "HostChanged"
      /\ message.previousHost = hostId /\ message.newHost = newHost
  BY <1>1 DEF HostChangedMsg, Message
<1>3. /\ PushOne(NoTarget, message)
      /\ UNCHANGED bannedMembers
      /\ newHost \in DOMAIN members
      /\ members' = TransferHost(members, hostId, newHost)
      /\ hostId' = newHost
  BY <1>1 DEF TransferHostTo, MayTransferTo, HasMember
<1>4. /\ members' \in MemberTable
      /\ DOMAIN members' = DOMAIN members
      /\ \A x \in DOMAIN members : members'[x].role = "Host" <=> x = newHost
  BY <1>1, <1>3, TransferHostTable
<1>5. OneHost'
  BY <1>3, <1>4 DEF OneHost, HasMember
<1>6. \A x : Crowns(message, x) <=> x = newHost
  BY <1>2 DEF Crowns
<1>7. \A x : Deposes(message, x) <=> x = hostId /\ newHost # x
  BY <1>2 DEF Deposes
<1> HIDE DEF message
<1>8. QED
  BY <1>1, <1>2, <1>3, <1>4, <1>5, <1>6, <1>7, OnePush

(* Two events appended: a join.                                            *)

\* join_host_session keeps the invariant.
LEMMA JoinStep ==
  ASSUME SessionInv, NEW m \in MemberId, NEW decoded, JoinHostSession(m, decoded)
  PROVE  SessionInv'
<1> DEFINE n == Len(events)
           joined == MemberJoinedMsg(m, members'[m])
           snapshot == RoomStateMsg(members')
<1>1. /\ TypeOK /\ SequenceIsPosition /\ n \in Nat
      /\ members \in MemberTable /\ hostId \in MemberId /\ hostId \in DOMAIN members
      /\ \A x \in DOMAIN members : members[x].role = "Host" <=> x = hostId
  BY DEF SessionInv, TypeOK, OneHost, HasMember
<1>2. /\ m \notin bannedMembers
      /\ m \notin DOMAIN members
      /\ members' = AddMember(members, m)
      /\ PushTwo(NoTarget, joined, NoTarget, snapshot)
      /\ UNCHANGED <<hostId, bannedMembers>>
  BY DEF JoinHostSession, MayJoin, HasMember
<1>3. /\ members' \in MemberTable
      /\ DOMAIN members' = DOMAIN members \cup {m}
      /\ \A x \in DOMAIN members : members'[x] = members[x]
      /\ members'[m] = [role |-> "Member", serverMuted |-> FALSE]
  BY <1>1, <1>2, AddMemberTable
<1>4. /\ joined \in Message /\ joined.type = "MemberJoined" /\ joined.member = m
      /\ snapshot \in Message /\ snapshot.type = "RoomState" /\ snapshot.members = members'
  BY <1>3 DEF MemberJoinedMsg, RoomStateMsg, Message, MemberState, MemberRole
<1> HIDE DEF joined, snapshot
<1>5. /\ nextSequence' \in Nat
      /\ events' \in Seq(Event)
      /\ Len(events') = n + 2
      /\ \A i \in 1..n : events'[i] = events[i]
      /\ events'[n + 1] = RuntimeEvent(n + 1, NoTarget, joined)
      /\ events'[n + 2] = RuntimeEvent(n + 2, NoTarget, snapshot)
      /\ SequenceIsPosition'
  BY <1>1, <1>2, <1>4, PushTwoLog
<1>6. events'[n + 1].message = joined /\ events'[n + 2].message = snapshot
  BY <1>5 DEF RuntimeEvent
<1> HIDE DEF n
<1>7. \A i \in 1..(n + 2) : i \in 1..n \/ i = n + 1 \/ i = n + 2
  BY <1>1
<1>8. ASSUME NEW k \in 0..n, NEW x
      PROVE  MemberAsOf(events', k, x) <=> MemberAsOf(events, k, x)
  <2>1. k \in Nat /\ \A i \in 1..k : events'[i] = events[i]
    BY <1>1, <1>5
  <2>2. QED
    BY <2>1, AsOfCongruent
<1>9. OneHost'
  BY <1>1, <1>2, <1>3 DEF OneHost, HasMember
<1>10. TypeOK'
  BY <1>2, <1>3, <1>5 DEF SessionInv, TypeOK
<1>11. BannedAreOut'
  BY <1>2, <1>3 DEF SessionInv, BannedAreOut
<1>12. LogTellsMembership'
  <2>1. \A x : /\ Admits(snapshot, x) <=> x \in DOMAIN members'
               /\ Departs(snapshot, x) <=> x \notin DOMAIN members'
    BY <1>4 DEF Admits, Departs
  <2>2. \A x : MemberAsOf(events', n + 2, x) <=> x \in DOMAIN members'
    BY <1>1, <1>6, <2>1, MemberAsOfStep, n + 1 \in Nat, n + 2 = (n + 1) + 1
  <2>3. QED
    BY <1>5, <2>2 DEF LogTellsMembership, HasMember
<1>13. LogTellsHost'
  <2>1. \A x : Crowns(snapshot, x) <=> x = hostId
    BY <1>1, <1>2, <1>3, <1>4 DEF Crowns
  <2>2. \A x : Deposes(snapshot, x) <=> x # hostId
    BY <1>4, <2>1 DEF Deposes, Crowns
  <2>3. \A x : HostAsOf(events', n + 2, x) <=> x = hostId
    BY <1>1, <1>6, <2>1, <2>2, HostAsOfStep, n + 1 \in Nat, n + 2 = (n + 1) + 1
  <2>4. QED
    BY <1>2, <1>5, <2>3 DEF LogTellsHost
<1>14. SignalsOnlyBetweenMembers'
  <2> SUFFICES ASSUME NEW i \in 1..(n + 2), events'[i].message.type = "WebRtcSignal"
               PROVE  /\ MemberAsOf(events', i - 1, events'[i].message.from)
                      /\ MemberAsOf(events', i - 1, events'[i].message.target)
    BY <1>5 DEF SignalsOnlyBetweenMembers
  <2>1. i \in 1..n /\ i - 1 \in 0..n
    BY <1>1, <1>4, <1>6, <1>7
  <2>2. /\ MemberAsOf(events, i - 1, events[i].message.from)
        /\ MemberAsOf(events, i - 1, events[i].message.target)
    BY <1>5, <2>1 DEF SessionInv, SignalsOnlyBetweenMembers, n
  <2>3. QED
    BY <1>5, <1>8, <2>1, <2>2
<1>15. BannedAreRemembered'
  BY <1>2, <1>4, <1>5, <1>6, <1>7 DEF SessionInv, BannedAreRemembered, MemberRemovedMsg, n
<1>16. BanIsForGood'
  <2> SUFFICES ASSUME NEW i \in 1..(n + 2), NEW j \in 1..(n + 2), NEW x \in MemberId,
                      i < j, events'[i].message = MemberRemovedMsg(x, "banned")
               PROVE  ~Admits(events'[j].message, x)
    BY <1>5 DEF BanIsForGood
  <2>1. i \in 1..n
    BY <1>4, <1>6, <1>7 DEF MemberRemovedMsg
  <2>2. x \in bannedMembers
    BY <1>5, <2>1 DEF SessionInv, BannedAreRemembered, n
  <2>3. x # m /\ x \notin DOMAIN members'
    BY <1>2, <1>3, <2>2 DEF SessionInv, BannedAreOut
  <2>4. ~Admits(joined, x) /\ ~Admits(snapshot, x)
    BY <1>4, <2>3 DEF Admits
  <2>5. CASE j \in 1..n
    BY <1>5, <2>1, <2>5 DEF SessionInv, BanIsForGood, n
  <2>6. QED
    BY <1>6, <1>7, <2>4, <2>5
<1>17. RemovalIsExplainedFirst'
  <2> SUFFICES ASSUME NEW i \in 1..(n + 2), events'[i].message.type = "MemberLeft"
               PROVE  \E j \in 1..(i - 1) :
                        /\ events'[j].target = events'[i].message.member
                        /\ events'[j].message.type = "MemberRemoved"
                        /\ \A k \in j..i : ~Admits(events'[k].message, events'[i].message.member)
    BY <1>5 DEF RemovalIsExplainedFirst
  <2>1. i \in 1..n
    BY <1>4, <1>6, <1>7
  <2>2. PICK j \in 1..(i - 1) :
          /\ events[j].target = events[i].message.member
          /\ events[j].message.type = "MemberRemoved"
          /\ \A k \in j..i : ~Admits(events[k].message, events[i].message.member)
    BY <1>5, <2>1 DEF SessionInv, RemovalIsExplainedFirst, n
  <2>3. j \in 1..n /\ \A k \in j..i : k \in 1..n
    BY <1>1, <2>1
  <2>4. QED
    BY <1>5, <2>1, <2>2, <2>3
<1>18. QED
  BY <1>5, <1>9, <1>10, <1>11, <1>12, <1>13, <1>14, <1>15, <1>16, <1>17 DEF SessionInv

(* Two events appended: a kick or a ban.                                   *)

\* remove_member, on behalf of a kick or a ban, keeps the invariant.
LEMMA RemoveStep ==
  ASSUME SessionInv, NEW m \in MemberId, NEW reason \in {"kicked", "banned"},
         RemoveAndNotify(m, reason),
         bannedMembers' = IF reason = "banned" THEN bannedMembers \cup {m} ELSE bannedMembers
  PROVE  SessionInv'
<1> DEFINE n == Len(events)
           notice == MemberRemovedMsg(m, reason)
           left == MemberLeftMsg(m)
<1>1. /\ TypeOK /\ SequenceIsPosition /\ n \in Nat
      /\ members \in MemberTable /\ hostId \in MemberId /\ hostId \in DOMAIN members
      /\ \A x \in DOMAIN members : members[x].role = "Host" <=> x = hostId
  BY DEF SessionInv, TypeOK, OneHost, HasMember
<1>2. /\ m \in DOMAIN members
      /\ m # hostId
      /\ members' = RemoveMember(members, m)
      /\ PushTwo(m, notice, NoTarget, left)
      /\ UNCHANGED hostId
  BY DEF RemoveAndNotify, MayRemove, HasMember, MayLeave
<1>3. /\ members' \in MemberTable
      /\ DOMAIN members' = DOMAIN members \ {m}
      /\ \A x \in DOMAIN members \ {m} : members'[x] = members[x]
  BY <1>1, <1>2, RemoveMemberTable
<1>4. /\ notice \in Message /\ notice.type = "MemberRemoved"
      /\ left \in Message /\ left.type = "MemberLeft" /\ left.member = m
  BY DEF MemberRemovedMsg, MemberLeftMsg, Message
<1>5. \A x \in MemberId : notice = MemberRemovedMsg(x, "banned") => x = m /\ reason = "banned"
  BY DEF MemberRemovedMsg
<1> HIDE DEF notice, left
<1>6. /\ nextSequence' \in Nat
      /\ events' \in Seq(Event)
      /\ Len(events') = n + 2
      /\ \A i \in 1..n : events'[i] = events[i]
      /\ events'[n + 1] = RuntimeEvent(n + 1, m, notice)
      /\ events'[n + 2] = RuntimeEvent(n + 2, NoTarget, left)
      /\ SequenceIsPosition'
  BY <1>1, <1>2, <1>4, PushTwoLog
<1>7. /\ events'[n + 1].target = m
      /\ events'[n + 1].message = notice
      /\ events'[n + 2].message = left
  BY <1>6 DEF RuntimeEvent
<1> HIDE DEF n
<1>8. \A i \in 1..(n + 2) : i \in 1..n \/ i = n + 1 \/ i = n + 2
  BY <1>1
<1>9. ASSUME NEW k \in 0..n, NEW x
      PROVE  /\ MemberAsOf(events', k, x) <=> MemberAsOf(events, k, x)
             /\ HostAsOf(events', k, x) <=> HostAsOf(events, k, x)
  <2>1. k \in Nat /\ \A i \in 1..k : events'[i] = events[i]
    BY <1>1, <1>6
  <2>2. QED
    BY <2>1, AsOfCongruent
<1>10. \A x : /\ ~Admits(notice, x) /\ ~Admits(left, x)
              /\ ~Departs(notice, x) /\ (Departs(left, x) <=> x = m)
              /\ ~Crowns(notice, x) /\ ~Crowns(left, x)
              /\ ~Deposes(notice, x) /\ ~Deposes(left, x)
  BY <1>4 DEF Admits, Departs, Crowns, Deposes
<1>11. /\ n \in 0..n /\ n + 1 \in Nat /\ n + 2 = (n + 1) + 1
  BY <1>1
<1>12. OneHost'
  BY <1>1, <1>2, <1>3 DEF OneHost, HasMember
<1>13. TypeOK'
  BY <1>1, <1>3, <1>6, <1>2 DEF SessionInv, TypeOK
<1>14. BannedAreOut'
  BY <1>3 DEF SessionInv, BannedAreOut
<1>15. LogTellsMembership'
  <2>1. ASSUME NEW x \in MemberId
        PROVE  MemberAsOf(events', n + 2, x) <=> x \in DOMAIN members'
    <3>1. MemberAsOf(events', n, x) <=> x \in DOMAIN members
      BY <1>9, <1>11 DEF SessionInv, LogTellsMembership, HasMember, n
    <3>2. MemberAsOf(events', n + 1, x) <=> x \in DOMAIN members
      BY <1>1, <1>7, <1>10, <3>1, MemberAsOfStep
    <3>3. MemberAsOf(events', n + 2, x) <=> x \in DOMAIN members /\ x # m
      BY <1>7, <1>10, <1>11, <3>2, MemberAsOfStep
    <3>4. QED
      BY <1>3, <3>3
  <2>2. QED
    BY <1>6, <2>1 DEF LogTellsMembership, HasMember
<1>16. LogTellsHost'
  <2>1. ASSUME NEW x \in MemberId
        PROVE  HostAsOf(events', n + 2, x) <=> x = hostId
    <3>1. HostAsOf(events', n, x) <=> x = hostId
      BY <1>9, <1>11 DEF SessionInv, LogTellsHost, n
    <3>2. HostAsOf(events', n + 1, x) <=> x = hostId
      BY <1>1, <1>7, <1>10, <3>1, HostAsOfStep
    <3>3. QED
      BY <1>7, <1>10, <1>11, <3>2, HostAsOfStep
  <2>2. QED
    BY <1>2, <1>6, <2>1 DEF LogTellsHost
<1>17. SignalsOnlyBetweenMembers'
  <2> SUFFICES ASSUME NEW i \in 1..(n + 2), events'[i].message.type = "WebRtcSignal"
               PROVE  /\ MemberAsOf(events', i - 1, events'[i].message.from)
                      /\ MemberAsOf(events', i - 1, events'[i].message.target)
    BY <1>6 DEF SignalsOnlyBetweenMembers
  <2>1. i \in 1..n /\ i - 1 \in 0..n
    BY <1>1, <1>4, <1>7, <1>8
  <2>2. /\ MemberAsOf(events, i - 1, events[i].message.from)
        /\ MemberAsOf(events, i - 1, events[i].message.target)
    BY <1>6, <2>1 DEF SessionInv, SignalsOnlyBetweenMembers, n
  <2>3. QED
    BY <1>6, <1>9, <2>1, <2>2
<1>18. BannedAreRemembered'
  <2> SUFFICES ASSUME NEW i \in 1..(n + 2), NEW x \in MemberId,
                      events'[i].message = MemberRemovedMsg(x, "banned")
               PROVE  x \in bannedMembers'
    BY <1>6 DEF BannedAreRemembered
  <2>1. CASE i \in 1..n
    BY <1>6, <2>1 DEF SessionInv, BannedAreRemembered, n
  <2>2. CASE i = n + 1
    BY <1>5, <1>7, <2>2
  <2>3. i # n + 2
    BY <1>4, <1>7 DEF MemberRemovedMsg
  <2>4. QED
    BY <1>8, <2>1, <2>2, <2>3
<1>19. BanIsForGood'
  <2> SUFFICES ASSUME NEW i \in 1..(n + 2), NEW j \in 1..(n + 2), NEW x \in MemberId,
                      i < j, events'[i].message = MemberRemovedMsg(x, "banned")
               PROVE  ~Admits(events'[j].message, x)
    BY <1>6 DEF BanIsForGood
  <2>1. CASE j \in 1..n
    <3>1. i \in 1..n
      BY <1>1, <2>1
    <3>2. QED
      BY <1>6, <2>1, <3>1 DEF SessionInv, BanIsForGood, n
  <2>2. QED
    BY <1>7, <1>8, <1>10, <2>1
<1>20. RemovalIsExplainedFirst'
  <2> SUFFICES ASSUME NEW i \in 1..(n + 2), events'[i].message.type = "MemberLeft"
               PROVE  \E j \in 1..(i - 1) :
                        /\ events'[j].target = events'[i].message.member
                        /\ events'[j].message.type = "MemberRemoved"
                        /\ \A k \in j..i : ~Admits(events'[k].message, events'[i].message.member)
    BY <1>6 DEF RemovalIsExplainedFirst
  <2>1. CASE i \in 1..n
    <3>1. PICK j \in 1..(i - 1) :
            /\ events[j].target = events[i].message.member
            /\ events[j].message.type = "MemberRemoved"
            /\ \A k \in j..i : ~Admits(events[k].message, events[i].message.member)
      BY <1>6, <2>1 DEF SessionInv, RemovalIsExplainedFirst, n
    <3>2. j \in 1..n /\ \A k \in j..i : k \in 1..n
      BY <1>1, <2>1
    <3>3. QED
      BY <1>6, <2>1, <3>1, <3>2
  <2>2. CASE i = n + 2
    <3>1. n + 1 \in 1..(i - 1)
      BY <1>1, <2>2
    <3>2. \A k \in (n + 1)..i : k = n + 1 \/ k = n + 2
      BY <1>1, <2>2
    <3>3. \A k \in (n + 1)..i : ~Admits(events'[k].message, m)
      BY <1>7, <1>10, <3>2
    <3>4. QED
      BY <1>4, <1>7, <2>2, <3>1, <3>3
  <2>3. i # n + 1
    BY <1>4, <1>7
  <2>4. QED
    BY <1>8, <2>1, <2>2, <2>3
<1>21. QED
  BY <1>6, <1>12, <1>13, <1>14, <1>15, <1>16, <1>17, <1>18, <1>19, <1>20 DEF SessionInv

-----------------------------------------------------------------------------
(* The theorems.                                                           *)

\* A session that has just been started satisfies the invariant.
LEMMA SessionInitInv == SessionInit => SessionInv
<1> SUFFICES ASSUME SessionInit PROVE SessionInv
  OBVIOUS
<1> DEFINE table == NewRoom(Owner)
           first == RuntimeEvent(1, NoTarget, RoomStateMsg(table))
<1>1. /\ DOMAIN table = {Owner}
      /\ table[Owner] = [role |-> "Host", serverMuted |-> FALSE]
      /\ table \in [{Owner} -> MemberState]
  BY DEF NewRoom, MemberState, MemberRole
<1>2. table \in MemberTable
  BY <1>1, TableDef, SessionAssumption
<1> HIDE DEF table
<1>3. first \in Event
  BY <1>2 DEF RuntimeEvent, RoomStateMsg, Event, Message
<1>4. /\ first.sequence = 1
      /\ first.message.type = "RoomState"
      /\ first.message.members = table
  BY DEF RuntimeEvent, RoomStateMsg
<1> HIDE DEF first
<1>5. /\ hostId = Owner /\ members = table /\ bannedMembers = {}
      /\ nextSequence = 2 /\ events = <<first>>
  BY DEF SessionInit, table, first
<1>6. events \in Seq(Event) /\ Len(events) = 1 /\ events[1] = first
  BY <1>3, <1>5
<1>7. TypeOK
  BY <1>2, <1>5, <1>6, SessionAssumption DEF TypeOK
<1>8. OneHost /\ BannedAreOut
  BY <1>1, <1>5 DEF OneHost, BannedAreOut, HasMember
<1>9. SequenceIsPosition
  BY <1>4, <1>5, <1>6 DEF SequenceIsPosition
<1>10. LogTellsMembership
  BY <1>4, <1>5, <1>6 DEF LogTellsMembership, MemberAsOf, Admits, HasMember
<1>11. LogTellsHost
  BY <1>1, <1>4, <1>5, <1>6 DEF LogTellsHost, HostAsOf, Crowns
<1>12. SignalsOnlyBetweenMembers /\ BannedAreRemembered /\ BanIsForGood /\ RemovalIsExplainedFirst
  BY <1>4, <1>6 DEF SignalsOnlyBetweenMembers, BannedAreRemembered, BanIsForGood,
                    RemovalIsExplainedFirst, MemberRemovedMsg
<1>13. QED
  BY <1>7, <1>8, <1>9, <1>10, <1>11, <1>12 DEF SessionInv

\* Every operation of the session keeps the invariant.
LEMMA SessionNextInv == SessionInv /\ [SessionNext]_sessionVars => SessionInv'
<1> SUFFICES ASSUME SessionInv, [SessionNext]_sessionVars
             PROVE  SessionInv'
  OBVIOUS
<1>1. ASSUME NEW m \in MemberId, NEW decoded \in Invite \cup {BadInvite},
             JoinHostSession(m, decoded)
      PROVE  SessionInv'
  BY <1>1, JoinStep
<1>2. ASSUME NEW from \in MemberId, NEW target \in MemberId,
             RelayWebRtcSignal(from, target)
      PROVE  SessionInv'
  BY <1>2, RelayStep
<1>3. ASSUME NEW m \in MemberId, NEW serverMuted \in BOOLEAN,
             ServerMuteMember(m, serverMuted)
      PROVE  SessionInv'
  BY <1>3, MuteStep
<1>4. ASSUME NEW m \in MemberId, KickMember(m)
      PROVE  SessionInv'
  BY <1>4, RemoveStep DEF KickMember
<1>5. ASSUME NEW m \in MemberId, BanMember(m)
      PROVE  SessionInv'
  BY <1>5, RemoveStep DEF BanMember
<1>6. ASSUME NEW newHost \in MemberId, TransferHostTo(newHost)
      PROVE  SessionInv'
  BY <1>6, TransferStep
<1>7. CASE UNCHANGED sessionVars
  BY <1>7 DEF sessionVars, SessionInv, TypeOK, OneHost, BannedAreOut, SequenceIsPosition,
              LogTellsMembership, LogTellsHost, SignalsOnlyBetweenMembers, BannedAreRemembered,
              BanIsForGood, RemovalIsExplainedFirst
<1>8. QED
  BY <1>1, <1>2, <1>3, <1>4, <1>5, <1>6, <1>7 DEF SessionNext

-----------------------------------------------------------------------------
(* What one operation may do to the log.                                   *)

\* The log only grows, and a change of host or a departure is recorded by the
\* very step that makes it.
StepIsLogged ==
  /\ Len(events) <= Len(events')
  /\ \A i \in 1..Len(events) : events'[i] = events[i]
  /\ hostId' # hostId =>
       \E i \in (Len(events) + 1)..Len(events') :
         /\ events'[i].message.type = "HostChanged"
         /\ events'[i].message.previousHost = hostId
  /\ \A m \in DOMAIN members \ DOMAIN members' :
       \E i \in (Len(events) + 1)..Len(events') :
         /\ events'[i].target = m
         /\ events'[i].message.type = "MemberRemoved"
         /\ events'[i].message.member = m

\* A single event of any kind, with the members as they were.
LEMMA OnePushIsLogged ==
  ASSUME SessionInv,
         NEW target \in MemberId \cup {NoTarget}, NEW message \in Message,
         PushOne(target, message),
         DOMAIN members' = DOMAIN members,
         hostId' # hostId => message.type = "HostChanged" /\ message.previousHost = hostId
  PROVE  StepIsLogged
<1>1. TypeOK /\ SequenceIsPosition /\ Len(events) \in Nat
  BY DEF SessionInv, TypeOK
<1>2. /\ Len(events') = Len(events) + 1
      /\ \A i \in 1..Len(events) : events'[i] = events[i]
      /\ events'[Len(events) + 1] = RuntimeEvent(Len(events) + 1, target, message)
  BY <1>1, PushOneLog
<1>3. events'[Len(events) + 1].message = message
  BY <1>2 DEF RuntimeEvent
<1>4. Len(events) + 1 \in (Len(events) + 1)..Len(events')
  BY <1>1, <1>2
<1>5. QED
  BY <1>1, <1>2, <1>3, <1>4 DEF StepIsLogged

\* A join is logged as such.
LEMMA JoinIsLogged ==
  ASSUME SessionInv, NEW m \in MemberId, NEW decoded, JoinHostSession(m, decoded)
  PROVE  StepIsLogged
<1> DEFINE arrival == MemberJoinedMsg(m, members'[m])
           snapshot == RoomStateMsg(members')
<1>1. /\ TypeOK /\ SequenceIsPosition /\ Len(events) \in Nat /\ members \in MemberTable
      /\ members' = AddMember(members, m)
      /\ PushTwo(NoTarget, arrival, NoTarget, snapshot)
      /\ UNCHANGED hostId
  BY DEF SessionInv, TypeOK, JoinHostSession
<1>2. /\ members' \in MemberTable
      /\ DOMAIN members' = DOMAIN members \cup {m}
      /\ members'[m] = [role |-> "Member", serverMuted |-> FALSE]
  BY <1>1, AddMemberTable
<1>3. arrival \in Message /\ snapshot \in Message
  BY <1>2 DEF MemberJoinedMsg, RoomStateMsg, Message, MemberState, MemberRole
<1> HIDE DEF arrival, snapshot
<1>4. /\ Len(events') = Len(events) + 2
      /\ \A i \in 1..Len(events) : events'[i] = events[i]
  BY <1>1, <1>3, PushTwoLog
<1>5. QED
  BY <1>1, <1>2, <1>4 DEF StepIsLogged

\* A kick or ban is logged, first to the removed member.
LEMMA RemovalIsLogged ==
  ASSUME SessionInv, NEW m \in MemberId, NEW reason \in {"kicked", "banned"},
         RemoveAndNotify(m, reason)
  PROVE  StepIsLogged
<1> DEFINE notice == MemberRemovedMsg(m, reason)
           left == MemberLeftMsg(m)
<1>1. /\ TypeOK /\ SequenceIsPosition /\ Len(events) \in Nat /\ members \in MemberTable
      /\ members' = RemoveMember(members, m)
      /\ PushTwo(m, notice, NoTarget, left)
      /\ UNCHANGED hostId
  BY DEF SessionInv, TypeOK, RemoveAndNotify
<1>2. DOMAIN members' = DOMAIN members \ {m}
  BY <1>1, RemoveMemberTable
<1>3. /\ notice \in Message /\ notice.type = "MemberRemoved" /\ notice.member = m
      /\ left \in Message
  BY DEF MemberRemovedMsg, MemberLeftMsg, Message
<1> HIDE DEF notice, left
<1>4. /\ Len(events') = Len(events) + 2
      /\ \A i \in 1..Len(events) : events'[i] = events[i]
      /\ events'[Len(events) + 1] = RuntimeEvent(Len(events) + 1, m, notice)
  BY <1>1, <1>3, PushTwoLog
<1>5. events'[Len(events) + 1].target = m /\ events'[Len(events) + 1].message = notice
  BY <1>4 DEF RuntimeEvent
<1>6. Len(events) + 1 \in (Len(events) + 1)..Len(events')
  BY <1>1, <1>4
<1>7. \A x \in DOMAIN members \ DOMAIN members' : x = m
  BY <1>2
<1>8. Len(events) <= Len(events')
  BY <1>1, <1>4
<1>9. QED
  BY <1>1, <1>3, <1>4, <1>5, <1>6, <1>7, <1>8 DEF StepIsLogged

\* Every step of a session is logged.
LEMMA SessionStepIsLogged ==
  ASSUME SessionInv, [SessionNext]_sessionVars
  PROVE  StepIsLogged
<1>1. ASSUME NEW m \in MemberId, NEW decoded \in Invite \cup {BadInvite},
             JoinHostSession(m, decoded)
      PROVE  StepIsLogged
  BY <1>1, JoinIsLogged
<1>2. ASSUME NEW from \in MemberId, NEW target \in MemberId,
             RelayWebRtcSignal(from, target)
      PROVE  StepIsLogged
  <2>1. SignalMsg(from, target) \in Message
    BY DEF SignalMsg, Message
  <2>2. PushOne(target, SignalMsg(from, target)) /\ UNCHANGED <<hostId, members>>
    BY <1>2 DEF RelayWebRtcSignal
  <2>3. QED
    BY <2>1, <2>2, OnePushIsLogged
<1>3. ASSUME NEW m \in MemberId, NEW serverMuted \in BOOLEAN,
             ServerMuteMember(m, serverMuted)
      PROVE  StepIsLogged
  <2>1. MemberServerMutedMsg(m, serverMuted) \in Message
    BY DEF MemberServerMutedMsg, Message
  <2>2. /\ PushOne(NoTarget, MemberServerMutedMsg(m, serverMuted))
        /\ UNCHANGED hostId
        /\ m \in DOMAIN members
        /\ members' = SetServerMuted(members, m, serverMuted)
    BY <1>3 DEF ServerMuteMember, HasMember
  <2>3. DOMAIN members' = DOMAIN members
    BY <2>2, ServerMutedTable DEF SessionInv, TypeOK
  <2>4. QED
    BY <2>1, <2>2, <2>3, OnePushIsLogged
<1>4. ASSUME NEW m \in MemberId, KickMember(m)
      PROVE  StepIsLogged
  BY <1>4, RemovalIsLogged DEF KickMember
<1>5. ASSUME NEW m \in MemberId, BanMember(m)
      PROVE  StepIsLogged
  BY <1>5, RemovalIsLogged DEF BanMember
<1>6. ASSUME NEW newHost \in MemberId, TransferHostTo(newHost)
      PROVE  StepIsLogged
  <2>1. /\ hostId \in MemberId /\ hostId \in DOMAIN members /\ members \in MemberTable
        /\ \A x \in DOMAIN members : members[x].role = "Host" <=> x = hostId
    BY DEF SessionInv, TypeOK, OneHost, HasMember
  <2>2. /\ HostChangedMsg(hostId, newHost) \in Message
        /\ HostChangedMsg(hostId, newHost).type = "HostChanged"
        /\ HostChangedMsg(hostId, newHost).previousHost = hostId
    BY <2>1 DEF HostChangedMsg, Message
  <2>3. /\ PushOne(NoTarget, HostChangedMsg(hostId, newHost))
        /\ newHost \in DOMAIN members
        /\ members' = TransferHost(members, hostId, newHost)
    BY <1>6, <2>1 DEF TransferHostTo, MayTransferTo, HasMember
  <2>4. DOMAIN members' = DOMAIN members
    BY <2>1, <2>3, TransferHostTable
  <2>5. QED
    BY <2>2, <2>3, <2>4, OnePushIsLogged
<1>7. CASE UNCHANGED sessionVars
  <2>1. events' = events /\ hostId' = hostId /\ members' = members /\ Len(events) \in Nat
    BY <1>7 DEF sessionVars, SessionInv, TypeOK
  <2>2. QED
    BY <2>1 DEF StepIsLogged
<1>8. QED
  BY <1>1, <1>2, <1>3, <1>4, <1>5, <1>6, <1>7 DEF SessionNext

-----------------------------------------------------------------------------
(* Theorems.                                                               *)

\* The inductive invariant holds in every reachable state of a session.
THEOREM SessionInvariant == SessionSpec => []SessionInv
<1>1. QED
  BY SessionInitInv, SessionNextInv, PTL DEF SessionSpec

\* Type correctness of the session state.
THEOREM SessionTypeCorrect == SessionSpec => []TypeOK
<1>1. SessionInv => TypeOK
  BY DEF SessionInv
<1>2. QED
  BY <1>1, SessionInvariant, PTL

\* host_id and the member roles name the same single member of the room, however
\* joins, removals and transfers interleave (room_state.rs).
THEOREM SessionHasOneHost == SessionSpec => []OneHost
<1>1. SessionInv => OneHost
  BY DEF SessionInv
<1>2. QED
  BY <1>1, SessionInvariant, PTL

\* Sequence numbers are log positions, so a cursor neither skips nor repeats an
\* event (host_runtime_session.rs).
THEOREM SequenceNumbersArePositions == SessionSpec => []SequenceIsPosition
<1>1. SessionInv => SequenceIsPosition
  BY DEF SessionInv
<1>2. QED
  BY <1>1, SessionInvariant, PTL

\* The event log determines who is in the room and who is host: a client that
\* has read all of it agrees with the runtime on both.
THEOREM LogDeterminesRoom == SessionSpec => []LogTellsRoom
<1>1. SessionInv => LogTellsRoom
  BY DEF SessionInv, LogTellsRoom
<1>2. QED
  BY <1>1, SessionInvariant, PTL

\* Signals are relayed between members only, as a reader of the log sees it.
THEOREM SignalsStayInRoom == SessionSpec => []SignalsOnlyBetweenMembers
<1>1. SessionInv => SignalsOnlyBetweenMembers
  BY DEF SessionInv
<1>2. QED
  BY <1>1, SessionInvariant, PTL

\* A ban is final: the log never readmits a member it has called banned.
THEOREM BansAreFinal == SessionSpec => []BanIsForGood
<1>1. SessionInv => BanIsForGood
  BY DEF SessionInv
<1>2. QED
  BY <1>1, SessionInvariant, PTL

\* Every departure is preceded by the targeted notice to the member that goes.
THEOREM RemovalsAreExplained == SessionSpec => []RemovalIsExplainedFirst
<1>1. SessionInv => RemovalIsExplainedFirst
  BY DEF SessionInv
<1>2. QED
  BY <1>1, SessionInvariant, PTL

-----------------------------------------------------------------------------
(* What a reader can rely on at every place of the log, not only at its end. *)

\* An event for one member says nothing about the room: whoever does not see it
\* misses nothing.
PrivateEventsAreSilent ==
  \A i \in 1..Len(events) :
    events[i].target # NoTarget => events[i].message.type \in {"WebRtcSignal", "MemberRemoved"}

\* A member is announced as a plain member that is not muted.
ArrivalsAreFresh ==
  \A i \in 1..Len(events) :
    events[i].message.type = "MemberJoined" =>
      events[i].message.state = [role |-> "Member", serverMuted |-> FALSE]

\* At no place does the log tell of a host or a muted member that is not in the room.
ReadingsAreOfMembers ==
  \A n \in 0..Len(events), m \in MemberId :
    HostAsOf(events, n, m) \/ MutedAsOf(events, n, m) => MemberAsOf(events, n, m)

\* The invariant of the session, strengthened by what holds at every place of its log.
LogInv ==
  /\ SessionInv
  /\ PrivateEventsAreSilent
  /\ ArrivalsAreFresh
  /\ ReadingsAreOfMembers
  /\ LogTellsServerMuted

-----------------------------------------------------------------------------
(* Reading the mute flag one event further, and what a reader of any prefix  *)
(* of the log may conclude from it.                                        *)

\* The same for the mute flag: the newest event decides, else the older ones.
LEMMA MutedAsOfStep ==
  ASSUME NEW log, NEW n \in Nat, NEW m
  PROVE  MutedAsOf(log, n + 1, m) <=>
           \/ Mutes(log[n + 1].message, m)
           \/ MutedAsOf(log, n, m) /\ ~Unmutes(log[n + 1].message, m)
<1>1. ASSUME MutedAsOf(log, n + 1, m), ~Mutes(log[n + 1].message, m)
      PROVE  MutedAsOf(log, n, m) /\ ~Unmutes(log[n + 1].message, m)
  BY <1>1 DEF MutedAsOf
<1>2. ASSUME Mutes(log[n + 1].message, m)
      PROVE  MutedAsOf(log, n + 1, m)
  BY <1>2 DEF MutedAsOf
<1>3. ASSUME MutedAsOf(log, n, m), ~Unmutes(log[n + 1].message, m)
      PROVE  MutedAsOf(log, n + 1, m)
  <2>1. PICK i \in 1..n : /\ Mutes(log[i].message, m)
                          /\ \A j \in (i + 1)..n : ~Unmutes(log[j].message, m)
    BY <1>3 DEF MutedAsOf
  <2>2. \A j \in (i + 1)..(n + 1) : ~Unmutes(log[j].message, m)
    BY <1>3, <2>1
  <2>3. QED
    BY <2>1, <2>2 DEF MutedAsOf
<1>4. QED
  BY <1>1, <1>2, <1>3

\* Only the first n events matter to the mute flag either.
LEMMA MutedAsOfCongruent ==
  ASSUME NEW log, NEW log2, NEW n \in Nat, NEW m,
         \A i \in 1..n : log2[i] = log[i]
  PROVE  MutedAsOf(log2, n, m) <=> MutedAsOf(log, n, m)
<1>1. \A i \in 1..n : \A j \in (i + 1)..n : log2[j] = log[j]
  OBVIOUS
<1>2. QED
  BY <1>1 DEF MutedAsOf

\* One event further, a host is still a member unless the event crowns or removes it.
LEMMA HostStaysMember ==
  ASSUME NEW log, NEW n \in Nat, NEW m,
         HostAsOf(log, n, m) => MemberAsOf(log, n, m),
         ~Crowns(log[n + 1].message, m),
         ~Departs(log[n + 1].message, m)
  PROVE  HostAsOf(log, n + 1, m) => MemberAsOf(log, n + 1, m)
BY HostAsOfStep, MemberAsOfStep

\* One event further, a muted member is still a member if only members are muted.
LEMMA MutedStaysMember ==
  ASSUME NEW log, NEW n \in Nat, NEW m,
         MutedAsOf(log, n, m) => MemberAsOf(log, n, m),
         log[n + 1].message.type = "MemberServerMuted" /\ log[n + 1].message.member = m =>
           MemberAsOf(log, n, m)
  PROVE  MutedAsOf(log, n + 1, m) => MemberAsOf(log, n + 1, m)
<1> DEFINE msg == log[n + 1].message
<1>1. Mutes(msg, m) => Admits(msg, m) \/ (MemberAsOf(log, n, m) /\ ~Departs(msg, m))
  BY DEF Mutes, Admits, Departs
<1>2. Departs(msg, m) => Unmutes(msg, m)
  BY DEF Unmutes
<1> HIDE DEF msg
<1>3. MutedAsOf(log, n + 1, m) <=> Mutes(msg, m) \/ (MutedAsOf(log, n, m) /\ ~Unmutes(msg, m))
  BY MutedAsOfStep DEF msg
<1>4. MemberAsOf(log, n + 1, m) <=> Admits(msg, m) \/ (MemberAsOf(log, n, m) /\ ~Departs(msg, m))
  BY MemberAsOfStep DEF msg
<1>5. QED
  BY <1>1, <1>2, <1>3, <1>4

\* set_server_muted of a member without the Host role sets its flag and no other.
LEMMA ServerMutedFlags ==
  ASSUME NEW table \in MemberTable, NEW m \in DOMAIN table, NEW flag \in BOOLEAN
  PROVE  /\ table[m].role # "Host" => SetServerMuted(table, m, flag)[m].serverMuted = flag
         /\ \A x \in DOMAIN table \ {m} : SetServerMuted(table, m, flag)[x] = table[x]
BY TableDef DEF SetServerMuted, MemberState

\* transfer_host carries every flag over.
LEMMA TransferHostFlags ==
  ASSUME NEW table \in MemberTable, NEW old \in DOMAIN table, NEW new \in DOMAIN table
  PROVE  \A x \in DOMAIN table :
           TransferHost(table, old, new)[x].serverMuted = table[x].serverMuted
<1>1. table \in [DOMAIN table -> MemberState]
  BY TableDef
<1>2. CASE new = old
  BY <1>2 DEF TransferHost
<1>3. CASE new # old
  <2> DEFINE demoted == [table[old] EXCEPT !.role = "Member"]
             promoted == [table[new] EXCEPT !.role = "Host"]
  <2>1. /\ demoted.serverMuted = table[old].serverMuted
        /\ promoted.serverMuted = table[new].serverMuted
    BY <1>1 DEF MemberState
  <2>2. TransferHost(table, old, new) =
          [[table EXCEPT ![old] = demoted] EXCEPT ![new] = promoted]
    BY <1>1, <1>3 DEF TransferHost
  <2> HIDE DEF demoted, promoted
  <2>3. /\ TransferHost(table, old, new)[old] = demoted
        /\ TransferHost(table, old, new)[new] = promoted
        /\ \A x \in DOMAIN table \ {old, new} : TransferHost(table, old, new)[x] = table[x]
    BY <1>1, <1>3, <2>2
  <2>4. QED
    BY <2>1, <2>3
<1>4. QED
  BY <1>2, <1>3

-----------------------------------------------------------------------------
(* The strengthened invariant.                                             *)

\* What a step adds to the log keeps what is known of every place of it, if it does
\* so for the places it adds.
LEMMA LogGrowth ==
  ASSUME LogInv, SessionInv', StepIsLogged,
         \A i \in (Len(events) + 1)..Len(events') :
           /\ events'[i].target # NoTarget =>
                events'[i].message.type \in {"WebRtcSignal", "MemberRemoved"}
           /\ events'[i].message.type = "MemberJoined" =>
                events'[i].message.state = [role |-> "Member", serverMuted |-> FALSE]
           /\ \A m \in MemberId :
                HostAsOf(events', i, m) \/ MutedAsOf(events', i, m) => MemberAsOf(events', i, m)
  PROVE  (PrivateEventsAreSilent /\ ArrivalsAreFresh /\ ReadingsAreOfMembers)'
<1> DEFINE n == Len(events)
           n2 == Len(events')
<1>1. /\ n \in Nat /\ n2 \in Nat /\ n <= n2
      /\ \A i \in 1..n : events'[i] = events[i]
  BY DEF LogInv, SessionInv, TypeOK, StepIsLogged
<1>2. \A i \in 1..n2 : i \in 1..n \/ i \in (n + 1)..n2
  BY <1>1
<1>3. PrivateEventsAreSilent'
  BY <1>1, <1>2 DEF LogInv, PrivateEventsAreSilent
<1>4. ArrivalsAreFresh'
  BY <1>1, <1>2 DEF LogInv, ArrivalsAreFresh
<1>5. ReadingsAreOfMembers'
  <2> SUFFICES ASSUME NEW k \in 0..n2, NEW m \in MemberId,
                      HostAsOf(events', k, m) \/ MutedAsOf(events', k, m)
               PROVE  MemberAsOf(events', k, m)
    BY DEF ReadingsAreOfMembers
  <2>1. CASE k \in 0..n
    <3>1. k \in Nat /\ \A i \in 1..k : events'[i] = events[i]
      BY <1>1, <2>1
    <3>2. /\ MemberAsOf(events', k, m) <=> MemberAsOf(events, k, m)
          /\ HostAsOf(events', k, m) <=> HostAsOf(events, k, m)
          /\ MutedAsOf(events', k, m) <=> MutedAsOf(events, k, m)
      BY <3>1, AsOfCongruent, MutedAsOfCongruent
    <3>3. QED
      BY <2>1, <3>2 DEF LogInv, ReadingsAreOfMembers
  <2>2. CASE k \in (n + 1)..n2
    BY <2>2
  <2>3. QED
    BY <1>1, <2>1, <2>2
<1>6. QED
  BY <1>3, <1>4, <1>5

\* The readings of the old log, in the new one.
LEMMA ReadingsStay ==
  ASSUME LogInv, StepIsLogged, NEW m \in MemberId
  PROVE  LET n == Len(events) IN
         /\ MemberAsOf(events', n, m) <=> HasMember(members, m)
         /\ HostAsOf(events', n, m) <=> m = hostId
         /\ MutedAsOf(events', n, m) <=> MutedAsOf(events, n, m)
         /\ MutedAsOf(events', n, m) => HasMember(members, m)
<1> DEFINE n == Len(events)
<1>1. n \in Nat /\ \A i \in 1..n : events'[i] = events[i]
  BY DEF LogInv, SessionInv, TypeOK, StepIsLogged
<1>2. /\ MemberAsOf(events', n, m) <=> MemberAsOf(events, n, m)
      /\ HostAsOf(events', n, m) <=> HostAsOf(events, n, m)
      /\ MutedAsOf(events', n, m) <=> MutedAsOf(events, n, m)
  BY <1>1, AsOfCongruent, MutedAsOfCongruent
<1>3. /\ MemberAsOf(events, n, m) <=> HasMember(members, m)
      /\ HostAsOf(events, n, m) <=> m = hostId
  BY DEF LogInv, SessionInv, LogTellsMembership, LogTellsHost
<1>4. MutedAsOf(events, n, m) => MemberAsOf(events, n, m)
  <2>1. n \in 0..Len(events)
    BY <1>1
  <2>2. QED
    BY <2>1 DEF LogInv, ReadingsAreOfMembers
<1>5. QED
  BY <1>2, <1>3, <1>4

\* At its end the new log tells of a host that is in the room.
LEMMA HostIsMemberAtTheEnd ==
  ASSUME SessionInv', NEW m \in MemberId
  PROVE  HostAsOf(events', Len(events'), m) => MemberAsOf(events', Len(events'), m)
BY DEF SessionInv, LogTellsMembership, LogTellsHost, OneHost

\* A member that no event crowns is not the host, and was not crowned before either.
LEMMA NeverCrowned ==
  ASSUME LogInv, StepIsLogged, NEW m \in MemberId,
         \A i \in 1..Len(events') : ~Crowns(events'[i].message, m)
  PROVE  /\ \A i \in 1..Len(events) : ~Crowns(events[i].message, m)
         /\ m # hostId
<1>1. \A i \in 1..Len(events) : ~Crowns(events[i].message, m)
  BY DEF LogInv, SessionInv, TypeOK, StepIsLogged
<1>2. ~HostAsOf(events, Len(events), m)
  BY <1>1 DEF HostAsOf
<1>3. QED
  BY <1>1, <1>2 DEF LogInv, SessionInv, LogTellsHost

\* What is appended, as a reader sees it: one event ...
LEMMA OneMore ==
  ASSUME SessionInv,
         NEW target \in MemberId \cup {NoTarget}, NEW message \in Message,
         PushOne(target, message)
  PROVE  /\ Len(events) \in Nat
         /\ Len(events') = Len(events) + 1
         /\ events'[Len(events) + 1].target = target
         /\ events'[Len(events) + 1].message = message
<1>1. TypeOK /\ SequenceIsPosition /\ Len(events) \in Nat
  BY DEF SessionInv, TypeOK
<1>2. /\ Len(events') = Len(events) + 1
      /\ events'[Len(events) + 1] = RuntimeEvent(Len(events) + 1, target, message)
  BY <1>1, PushOneLog
<1>3. QED
  BY <1>1, <1>2 DEF RuntimeEvent

\* ... or two.
LEMMA TwoMore ==
  ASSUME SessionInv,
         NEW target1 \in MemberId \cup {NoTarget}, NEW message1 \in Message,
         NEW target2 \in MemberId \cup {NoTarget}, NEW message2 \in Message,
         PushTwo(target1, message1, target2, message2)
  PROVE  /\ Len(events) \in Nat
         /\ Len(events') = Len(events) + 2
         /\ events'[Len(events) + 1].target = target1
         /\ events'[Len(events) + 1].message = message1
         /\ events'[Len(events) + 2].target = target2
         /\ events'[Len(events) + 2].message = message2
<1>1. TypeOK /\ SequenceIsPosition /\ Len(events) \in Nat
  BY DEF SessionInv, TypeOK
<1>2. /\ Len(events') = Len(events) + 2
      /\ events'[Len(events) + 1] = RuntimeEvent(Len(events) + 1, target1, message1)
      /\ events'[Len(events) + 2] = RuntimeEvent(Len(events) + 2, target2, message2)
  BY <1>1, PushTwoLog
<1>3. QED
  BY <1>1, <1>2 DEF RuntimeEvent

\* relay_webrtc_signal keeps the strengthened invariant.
LEMMA RelayLogStep ==
  ASSUME LogInv, SessionInv', StepIsLogged,
         NEW from \in MemberId, NEW target \in MemberId, RelayWebRtcSignal(from, target)
  PROVE  LogInv'
<1> DEFINE n == Len(events)
           message == SignalMsg(from, target)
<1>1. message \in Message /\ message.type = "WebRtcSignal"
  BY DEF SignalMsg, Message
<1>2. PushOne(target, message) /\ members' = members
  BY DEF RelayWebRtcSignal
<1> HIDE DEF message
<1>3. n \in Nat /\ n + 1 \in Nat /\ Len(events') = n + 1
  BY <1>1, <1>2, OneMore DEF LogInv
<1>4. events'[n + 1].message = message
  BY <1>1, <1>2, OneMore DEF LogInv
<1>5. \A m : ~Mutes(message, m) /\ ~Unmutes(message, m)
  BY <1>1 DEF Mutes, Unmutes, Departs
<1>6. ASSUME NEW m \in MemberId
      PROVE  /\ HostAsOf(events', n + 1, m) => MemberAsOf(events', n + 1, m)
             /\ MutedAsOf(events', n + 1, m) => MemberAsOf(events', n + 1, m)
             /\ MutedAsOf(events', n + 1, m) <=> MutedAsOf(events, n, m)
  <2>1. HostAsOf(events', n + 1, m) => MemberAsOf(events', n + 1, m)
    BY <1>3, HostIsMemberAtTheEnd
  <2>2. MutedAsOf(events', n, m) => MemberAsOf(events', n, m)
    BY ReadingsStay
  <2>3. MutedAsOf(events', n + 1, m) => MemberAsOf(events', n + 1, m)
    BY <1>1, <1>3, <1>4, <2>2, MutedStaysMember
  <2>4. MutedAsOf(events', n + 1, m) <=> MutedAsOf(events', n, m)
    BY <1>3, <1>4, <1>5, MutedAsOfStep
  <2>5. QED
    BY <2>1, <2>3, <2>4, ReadingsStay
<1>7. (PrivateEventsAreSilent /\ ArrivalsAreFresh /\ ReadingsAreOfMembers)'
  <2>1. \A i \in (n + 1)..Len(events') : i = n + 1
    BY <1>3
  <2>2. QED
    BY <1>1, <1>4, <1>6, <2>1, LogGrowth
<1>8. LogTellsServerMuted'
  <2> SUFFICES ASSUME NEW m \in DOMAIN members',
                      \A i \in 1..Len(events') : ~Crowns(events'[i].message, m)
               PROVE  members'[m].serverMuted <=> MutedAsOf(events', Len(events'), m)
    BY DEF LogTellsServerMuted
  <2>1. m \in DOMAIN members /\ m \in MemberId
    BY <1>2, TableDef DEF LogInv, SessionInv, TypeOK
  <2>2. \A i \in 1..n : ~Crowns(events[i].message, m)
    BY <2>1, NeverCrowned
  <2>3. members[m].serverMuted <=> MutedAsOf(events, n, m)
    BY <2>1, <2>2 DEF LogInv, LogTellsServerMuted
  <2>4. QED
    BY <1>2, <1>3, <1>6, <2>1, <2>3
<1>9. QED
  BY <1>7, <1>8 DEF LogInv

\* server_mute_member keeps the strengthened invariant.
LEMMA MuteLogStep ==
  ASSUME LogInv, SessionInv', StepIsLogged,
         NEW x \in MemberId, NEW serverMuted \in BOOLEAN, ServerMuteMember(x, serverMuted)
  PROVE  LogInv'
<1> DEFINE n == Len(events)
           message == MemberServerMutedMsg(x, serverMuted)
<1>1. /\ message \in Message /\ message.type = "MemberServerMuted"
      /\ message.member = x /\ message.serverMuted = serverMuted
  BY DEF MemberServerMutedMsg, Message
<1>2. /\ PushOne(NoTarget, message)
      /\ x \in DOMAIN members
      /\ members \in MemberTable
      /\ members' = SetServerMuted(members, x, serverMuted)
  BY DEF ServerMuteMember, HasMember, LogInv, SessionInv, TypeOK
<1> HIDE DEF message
<1>3. n \in Nat /\ n + 1 \in Nat /\ Len(events') = n + 1
  BY <1>1, <1>2, OneMore DEF LogInv
<1>4. events'[n + 1].message = message /\ events'[n + 1].target = NoTarget
  BY <1>1, <1>2, OneMore DEF LogInv
<1>5. ASSUME NEW m \in MemberId
      PROVE  /\ HostAsOf(events', n + 1, m) => MemberAsOf(events', n + 1, m)
             /\ MutedAsOf(events', n + 1, m) => MemberAsOf(events', n + 1, m)
  <2>1. HostAsOf(events', n + 1, m) => MemberAsOf(events', n + 1, m)
    BY <1>3, HostIsMemberAtTheEnd
  <2>2. /\ MutedAsOf(events', n, m) => MemberAsOf(events', n, m)
        /\ m = x => MemberAsOf(events', n, m)
    BY <1>2, ReadingsStay DEF HasMember
  <2>3. MutedAsOf(events', n + 1, m) => MemberAsOf(events', n + 1, m)
    BY <1>1, <1>3, <1>4, <2>2, MutedStaysMember
  <2>4. QED
    BY <2>1, <2>3
<1>6. (PrivateEventsAreSilent /\ ArrivalsAreFresh /\ ReadingsAreOfMembers)'
  <2>1. \A i \in (n + 1)..Len(events') : i = n + 1
    BY <1>3
  <2>2. QED
    BY <1>1, <1>4, <1>5, <2>1, LogGrowth
<1>7. LogTellsServerMuted'
  <2> SUFFICES ASSUME NEW m \in DOMAIN members',
                      \A i \in 1..Len(events') : ~Crowns(events'[i].message, m)
               PROVE  members'[m].serverMuted <=> MutedAsOf(events', Len(events'), m)
    BY DEF LogTellsServerMuted
  <2>1. m \in DOMAIN members /\ m \in MemberId
    BY <1>2, ServerMutedTable, TableDef
  <2>2. m # hostId /\ \A i \in 1..n : ~Crowns(events[i].message, m)
    BY <2>1, NeverCrowned
  <2>3. members[m].serverMuted <=> MutedAsOf(events, n, m)
    BY <2>1, <2>2 DEF LogInv, LogTellsServerMuted
  <2>4. members[m].role # "Host"
    BY <2>1, <2>2 DEF LogInv, SessionInv, OneHost
  <2>5. MutedAsOf(events', n + 1, m) <=>
          Mutes(message, m) \/ (MutedAsOf(events, n, m) /\ ~Unmutes(message, m))
    BY <1>3, <1>4, <2>1, MutedAsOfStep, ReadingsStay
  <2>6. CASE m = x
    <3>1. members'[m].serverMuted = serverMuted
      BY <1>2, <2>4, <2>6, ServerMutedFlags
    <3>2. Mutes(message, m) <=> serverMuted
      BY <1>1, <2>6 DEF Mutes
    <3>3. ~serverMuted => Unmutes(message, m)
      BY <1>1, <2>6 DEF Unmutes
    <3>4. QED
      BY <1>3, <2>5, <3>1, <3>2, <3>3
  <2>7. CASE m # x
    <3>1. members'[m] = members[m]
      BY <1>2, <2>1, <2>7, ServerMutedFlags
    <3>2. ~Mutes(message, m) /\ ~Unmutes(message, m)
      BY <1>1, <2>7 DEF Mutes, Unmutes, Departs
    <3>3. QED
      BY <1>3, <2>3, <2>5, <3>1, <3>2
  <2>8. QED
    BY <2>6, <2>7
<1>8. QED
  BY <1>6, <1>7 DEF LogInv

\* transfer_host keeps the strengthened invariant.
LEMMA TransferLogStep ==
  ASSUME LogInv, SessionInv', StepIsLogged, NEW newHost \in MemberId, TransferHostTo(newHost)
  PROVE  LogInv'
<1> DEFINE n == Len(events)
           message == HostChangedMsg(hostId, newHost)
<1>1. /\ hostId \in MemberId /\ hostId \in DOMAIN members /\ members \in MemberTable
      /\ \A x \in DOMAIN members : members[x].role = "Host" <=> x = hostId
  BY DEF LogInv, SessionInv, TypeOK, OneHost, HasMember
<1>2. message \in Message /\ message.type = "HostChanged"
  BY <1>1 DEF HostChangedMsg, Message
<1>3. /\ PushOne(NoTarget, message)
      /\ newHost \in DOMAIN members
      /\ members' = TransferHost(members, hostId, newHost)
  BY <1>1 DEF TransferHostTo, MayTransferTo, HasMember
<1> HIDE DEF message
<1>4. n \in Nat /\ n + 1 \in Nat /\ Len(events') = n + 1
  BY <1>2, <1>3, OneMore DEF LogInv
<1>5. events'[n + 1].message = message /\ events'[n + 1].target = NoTarget
  BY <1>2, <1>3, OneMore DEF LogInv
<1>6. \A m : ~Mutes(message, m) /\ ~Unmutes(message, m)
  BY <1>2 DEF Mutes, Unmutes, Departs
<1>7. ASSUME NEW m \in MemberId
      PROVE  /\ HostAsOf(events', n + 1, m) => MemberAsOf(events', n + 1, m)
             /\ MutedAsOf(events', n + 1, m) => MemberAsOf(events', n + 1, m)
             /\ MutedAsOf(events', n + 1, m) <=> MutedAsOf(events, n, m)
  <2>1. HostAsOf(events', n + 1, m) => MemberAsOf(events', n + 1, m)
    BY <1>4, HostIsMemberAtTheEnd
  <2>2. MutedAsOf(events', n, m) => MemberAsOf(events', n, m)
    BY ReadingsStay
  <2>3. MutedAsOf(events', n + 1, m) => MemberAsOf(events', n + 1, m)
    BY <1>2, <1>4, <1>5, <2>2, MutedStaysMember
  <2>4. MutedAsOf(events', n + 1, m) <=> MutedAsOf(events', n, m)
    BY <1>4, <1>5, <1>6, MutedAsOfStep
  <2>5. QED
    BY <2>1, <2>3, <2>4, ReadingsStay
<1>8. (PrivateEventsAreSilent /\ ArrivalsAreFresh /\ ReadingsAreOfMembers)'
  <2>1. \A i \in (n + 1)..Len(events') : i = n + 1
    BY <1>4
  <2>2. QED
    BY <1>2, <1>5, <1>7, <2>1, LogGrowth
<1>9. LogTellsServerMuted'
  <2> SUFFICES ASSUME NEW m \in DOMAIN members',
                      \A i \in 1..Len(events') : ~Crowns(events'[i].message, m)
               PROVE  members'[m].serverMuted <=> MutedAsOf(events', Len(events'), m)
    BY DEF LogTellsServerMuted
  <2>1. m \in DOMAIN members /\ m \in MemberId
    BY <1>1, <1>3, TransferHostTable, TableDef
  <2>2. \A i \in 1..n : ~Crowns(events[i].message, m)
    BY <2>1, NeverCrowned
  <2>3. members[m].serverMuted <=> MutedAsOf(events, n, m)
    BY <2>1, <2>2 DEF LogInv, LogTellsServerMuted
  <2>4. members'[m].serverMuted = members[m].serverMuted
    BY <1>1, <1>3, <2>1, TransferHostFlags
  <2>5. QED
    BY <1>4, <1>7, <2>1, <2>3, <2>4
<1>10. QED
  BY <1>8, <1>9 DEF LogInv

\* join_host_session keeps the strengthened invariant.
LEMMA JoinLogStep ==
  ASSUME LogInv, SessionInv', StepIsLogged,
         NEW x \in MemberId, NEW decoded, JoinHostSession(x, decoded)
  PROVE  LogInv'
<1> DEFINE n == Len(events)
           joined == MemberJoinedMsg(x, members'[x])
           snapshot == RoomStateMsg(members')
<1>1. /\ members' \in MemberTable
      /\ members'[x] = [role |-> "Member", serverMuted |-> FALSE]
      /\ PushTwo(NoTarget, joined, NoTarget, snapshot)
  BY AddMemberTable DEF JoinHostSession, LogInv, SessionInv, TypeOK
<1>2. /\ joined \in Message /\ joined.type = "MemberJoined"
      /\ joined.state = [role |-> "Member", serverMuted |-> FALSE]
      /\ snapshot \in Message /\ snapshot.type = "RoomState" /\ snapshot.members = members'
  BY <1>1 DEF MemberJoinedMsg, RoomStateMsg, Message, MemberState, MemberRole
<1> HIDE DEF joined, snapshot
<1>3. /\ n \in Nat /\ n + 1 \in Nat /\ n + 2 = (n + 1) + 1 /\ Len(events') = n + 2
      /\ events'[n + 1].message = joined /\ events'[n + 1].target = NoTarget
      /\ events'[n + 2].message = snapshot /\ events'[n + 2].target = NoTarget
  <2>1. SessionInv /\ n \in Nat
    BY DEF LogInv, SessionInv, TypeOK
  <2>2. joined \in Message /\ snapshot \in Message /\ NoTarget \in MemberId \cup {NoTarget}
    BY <1>2
  <2>3. /\ Len(events') = n + 2
        /\ events'[n + 1].message = joined /\ events'[n + 1].target = NoTarget
        /\ events'[n + 2].message = snapshot /\ events'[n + 2].target = NoTarget
    BY <1>1, <2>1, <2>2, TwoMore
  <2>4. QED
    BY <2>1, <2>3
<1>4. ASSUME NEW m \in MemberId
      PROVE  /\ HostAsOf(events', n + 1, m) => MemberAsOf(events', n + 1, m)
             /\ MutedAsOf(events', n + 1, m) => MemberAsOf(events', n + 1, m)
             /\ HostAsOf(events', n + 2, m) => MemberAsOf(events', n + 2, m)
             /\ MutedAsOf(events', n + 2, m) => MemberAsOf(events', n + 2, m)
  <2>1. /\ MutedAsOf(events', n, m) => MemberAsOf(events', n, m)
        /\ HostAsOf(events', n, m) => MemberAsOf(events', n, m)
    BY ReadingsStay DEF LogInv, SessionInv, OneHost
  <2>2. ~Crowns(joined, m) /\ ~Departs(joined, m)
    BY <1>2 DEF Crowns, Departs
  <2>3. HostAsOf(events', n + 1, m) => MemberAsOf(events', n + 1, m)
    BY <1>3, <2>1, <2>2, HostStaysMember
  <2>4. MutedAsOf(events', n + 1, m) => MemberAsOf(events', n + 1, m)
    BY <1>2, <1>3, <2>1, MutedStaysMember
  <2>5. HostAsOf(events', n + 2, m) => MemberAsOf(events', n + 2, m)
    BY <1>3, HostIsMemberAtTheEnd
  <2>6. MutedAsOf(events', n + 2, m) => MemberAsOf(events', n + 2, m)
    BY <1>2, <1>3, <2>4, MutedStaysMember
  <2>7. QED
    BY <2>3, <2>4, <2>5, <2>6
<1>5. (PrivateEventsAreSilent /\ ArrivalsAreFresh /\ ReadingsAreOfMembers)'
  <2>1. \A i \in (n + 1)..Len(events') : i = n + 1 \/ i = n + 2
    BY <1>3
  <2>2. QED
    BY <1>2, <1>3, <1>4, <2>1, LogGrowth
<1>6. LogTellsServerMuted'
  <2> SUFFICES ASSUME NEW m \in DOMAIN members'
               PROVE  members'[m].serverMuted <=> MutedAsOf(events', n + 2, m)
    BY <1>3 DEF LogTellsServerMuted
  <2>1. /\ Mutes(snapshot, m) <=> members'[m].serverMuted
        /\ ~Mutes(snapshot, m) => Unmutes(snapshot, m)
    BY <1>2 DEF Mutes, Unmutes
  <2>2. QED
    BY <1>3, <2>1, MutedAsOfStep
<1>7. QED
  BY <1>5, <1>6 DEF LogInv

\* remove_member, on behalf of a kick or a ban, keeps the strengthened invariant.
LEMMA RemoveLogStep ==
  ASSUME LogInv, SessionInv', StepIsLogged,
         NEW x \in MemberId, NEW reason \in {"kicked", "banned"}, RemoveAndNotify(x, reason)
  PROVE  LogInv'
<1> DEFINE n == Len(events)
           notice == MemberRemovedMsg(x, reason)
           left == MemberLeftMsg(x)
<1>1. /\ DOMAIN members' = DOMAIN members \ {x}
      /\ \A m \in DOMAIN members \ {x} : members'[m] = members[m]
      /\ PushTwo(x, notice, NoTarget, left)
      /\ DOMAIN members \subseteq MemberId
  BY RemoveMemberTable, TableDef DEF RemoveAndNotify, LogInv, SessionInv, TypeOK
<1>2. /\ notice \in Message /\ notice.type = "MemberRemoved"
      /\ left \in Message /\ left.type = "MemberLeft" /\ left.member = x
  BY DEF MemberRemovedMsg, MemberLeftMsg, Message
<1> HIDE DEF notice, left
<1>3. /\ n \in Nat /\ n + 1 \in Nat /\ n + 2 = (n + 1) + 1 /\ Len(events') = n + 2
      /\ events'[n + 1].message = notice /\ events'[n + 1].target = x
      /\ events'[n + 2].message = left /\ events'[n + 2].target = NoTarget
  BY <1>1, <1>2, TwoMore DEF LogInv
<1>4. ASSUME NEW m \in MemberId
      PROVE  /\ HostAsOf(events', n + 1, m) => MemberAsOf(events', n + 1, m)
             /\ MutedAsOf(events', n + 1, m) => MemberAsOf(events', n + 1, m)
             /\ HostAsOf(events', n + 2, m) => MemberAsOf(events', n + 2, m)
             /\ MutedAsOf(events', n + 2, m) => MemberAsOf(events', n + 2, m)
  <2>1. /\ MutedAsOf(events', n, m) => MemberAsOf(events', n, m)
        /\ HostAsOf(events', n, m) => MemberAsOf(events', n, m)
    BY ReadingsStay DEF LogInv, SessionInv, OneHost
  <2>2. ~Crowns(notice, m) /\ ~Departs(notice, m)
    BY <1>2 DEF Crowns, Departs
  <2>3. HostAsOf(events', n + 1, m) => MemberAsOf(events', n + 1, m)
    BY <1>3, <2>1, <2>2, HostStaysMember
  <2>4. MutedAsOf(events', n + 1, m) => MemberAsOf(events', n + 1, m)
    BY <1>2, <1>3, <2>1, MutedStaysMember
  <2>5. HostAsOf(events', n + 2, m) => MemberAsOf(events', n + 2, m)
    BY <1>3, HostIsMemberAtTheEnd
  <2>6. MutedAsOf(events', n + 2, m) => MemberAsOf(events', n + 2, m)
    BY <1>2, <1>3, <2>4, MutedStaysMember
  <2>7. QED
    BY <2>3, <2>4, <2>5, <2>6
<1>5. (PrivateEventsAreSilent /\ ArrivalsAreFresh /\ ReadingsAreOfMembers)'
  <2>1. \A i \in (n + 1)..Len(events') : i = n + 1 \/ i = n + 2
    BY <1>3
  <2>2. QED
    BY <1>2, <1>3, <1>4, <2>1, LogGrowth
<1>6. LogTellsServerMuted'
  <2> SUFFICES ASSUME NEW m \in DOMAIN members',
                      \A i \in 1..Len(events') : ~Crowns(events'[i].message, m)
               PROVE  members'[m].serverMuted <=> MutedAsOf(events', n + 2, m)
    BY <1>3 DEF LogTellsServerMuted
  <2>1. m \in DOMAIN members /\ m # x /\ m \in MemberId /\ members'[m] = members[m]
    BY <1>1
  <2>2. \A i \in 1..n : ~Crowns(events[i].message, m)
    BY <2>1, NeverCrowned
  <2>3. members[m].serverMuted <=> MutedAsOf(events, n, m)
    BY <2>1, <2>2 DEF LogInv, LogTellsServerMuted
  <2>4. /\ ~Mutes(notice, m) /\ ~Unmutes(notice, m)
        /\ ~Mutes(left, m) /\ ~Unmutes(left, m)
    BY <1>2, <2>1 DEF Mutes, Unmutes, Departs
  <2>5. MutedAsOf(events', n, m) <=> MutedAsOf(events, n, m)
    BY <2>1, ReadingsStay
  <2>6. MutedAsOf(events', n + 1, m) <=> MutedAsOf(events', n, m)
    BY <1>3, <2>4, MutedAsOfStep
  <2>7. MutedAsOf(events', n + 2, m) <=> MutedAsOf(events', n + 1, m)
    BY <1>3, <2>4, MutedAsOfStep
  <2>8. QED
    BY <2>1, <2>3, <2>5, <2>6, <2>7
<1>7. QED
  BY <1>5, <1>6 DEF LogInv

\* A session that has just been started satisfies the strengthened invariant.
LEMMA LogInitInv == SessionInit => LogInv
<1> SUFFICES ASSUME SessionInit PROVE LogInv
  OBVIOUS
<1> DEFINE snapshot == RoomStateMsg(NewRoom(Owner))
<1>1. /\ Len(events) = 1
      /\ events[1].target = NoTarget
      /\ events[1].message = snapshot
      /\ members = NewRoom(Owner)
  BY DEF SessionInit, RuntimeEvent
<1>2. /\ snapshot.type = "RoomState"
      /\ DOMAIN snapshot.members = {Owner}
      /\ snapshot.members[Owner].serverMuted = FALSE
      /\ DOMAIN members = {Owner}
      /\ snapshot.members[Owner].role = "Host"
  BY <1>1 DEF RoomStateMsg, NewRoom
<1> HIDE DEF snapshot
<1>3. PrivateEventsAreSilent /\ ArrivalsAreFresh
  BY <1>1, <1>2 DEF PrivateEventsAreSilent, ArrivalsAreFresh
<1>4. ReadingsAreOfMembers
  <2> SUFFICES ASSUME NEW n \in 0..1, NEW m \in MemberId,
                      HostAsOf(events, n, m) \/ MutedAsOf(events, n, m)
               PROVE  MemberAsOf(events, n, m)
    BY <1>1 DEF ReadingsAreOfMembers
  <2>1. n = 1 /\ (Crowns(snapshot, m) \/ Mutes(snapshot, m))
    BY <1>1 DEF HostAsOf, MutedAsOf
  <2>2. Admits(snapshot, m)
    BY <1>2, <2>1 DEF Crowns, Mutes, Admits
  <2>3. QED
    BY <1>1, <2>1, <2>2 DEF MemberAsOf
<1>5. LogTellsServerMuted
  BY <1>1, <1>2 DEF LogTellsServerMuted, Crowns
<1>6. QED
  BY <1>3, <1>4, <1>5, SessionInitInv DEF LogInv

\* Every operation of the session keeps the strengthened invariant.
LEMMA LogNextInv == LogInv /\ [SessionNext]_sessionVars => LogInv'
<1> SUFFICES ASSUME LogInv, [SessionNext]_sessionVars
             PROVE  LogInv'
  OBVIOUS
<1>1. SessionInv' /\ StepIsLogged
  BY SessionNextInv, SessionStepIsLogged DEF LogInv
<1>2. ASSUME NEW m \in MemberId, NEW decoded \in Invite \cup {BadInvite},
             JoinHostSession(m, decoded)
      PROVE  LogInv'
  BY <1>1, <1>2, JoinLogStep
<1>3. ASSUME NEW from \in MemberId, NEW target \in MemberId,
             RelayWebRtcSignal(from, target)
      PROVE  LogInv'
  BY <1>1, <1>3, RelayLogStep
<1>4. ASSUME NEW m \in MemberId, NEW serverMuted \in BOOLEAN,
             ServerMuteMember(m, serverMuted)
      PROVE  LogInv'
  BY <1>1, <1>4, MuteLogStep
<1>5. ASSUME NEW m \in MemberId, KickMember(m)
      PROVE  LogInv'
  BY <1>1, <1>5, RemoveLogStep DEF KickMember
<1>6. ASSUME NEW m \in MemberId, BanMember(m)
      PROVE  LogInv'
  BY <1>1, <1>6, RemoveLogStep DEF BanMember
<1>7. ASSUME NEW newHost \in MemberId, TransferHostTo(newHost)
      PROVE  LogInv'
  BY <1>1, <1>7, TransferLogStep
<1>8. CASE UNCHANGED sessionVars
  BY <1>1, <1>8 DEF sessionVars, LogInv, PrivateEventsAreSilent, ArrivalsAreFresh,
                    ReadingsAreOfMembers, LogTellsServerMuted
<1>9. QED
  BY <1>2, <1>3, <1>4, <1>5, <1>6, <1>7, <1>8 DEF SessionNext

\* Replaying the log gives the server-mute flag of every member that was never host,
\* through rejoins, repeated requests and transfers of others.
THEOREM LogDeterminesServerMute == SessionSpec => []LogTellsServerMuted
<1>1. LogInv => LogTellsServerMuted
  BY DEF LogInv
<1>2. QED
  BY <1>1, LogInitInv, LogNextInv, PTL DEF SessionSpec

-----------------------------------------------------------------------------
(* What a window that reads the log may conclude from it.                  *)

\* A member list that is the room the first n events describe.
ShowsRoomAsOf(table, n) ==
  \A m \in MemberId :
    /\ m \in DOMAIN table <=> MemberAsOf(events, n, m)
    /\ m \in DOMAIN table =>
         /\ table[m].role = "Host" <=> HostAsOf(events, n, m)
         /\ table[m].serverMuted <=> MutedAsOf(events, n, m)

\* Events that do not speak about a member change no reading of it.
LEMMA QuietStretch ==
  ASSUME NEW log, NEW k \in Nat, NEW n \in Nat, k <= n, NEW m
  PROVE  /\ (\A j \in (k + 1)..n : ~Admits(log[j].message, m) /\ ~Departs(log[j].message, m)) =>
              (MemberAsOf(log, n, m) <=> MemberAsOf(log, k, m))
         /\ (\A j \in (k + 1)..n : ~Crowns(log[j].message, m) /\ ~Deposes(log[j].message, m)) =>
              (HostAsOf(log, n, m) <=> HostAsOf(log, k, m))
         /\ (\A j \in (k + 1)..n : ~Mutes(log[j].message, m) /\ ~Unmutes(log[j].message, m)) =>
              (MutedAsOf(log, n, m) <=> MutedAsOf(log, k, m))
<1>1. /\ \A i \in 1..n : i \in 1..k \/ i \in (k + 1)..n
      /\ \A i \in 1..k : i \in 1..n
      /\ \A i \in 1..k : \A j \in (i + 1)..n : j \in (i + 1)..k \/ j \in (k + 1)..n
      /\ \A i \in 1..k : \A j \in (i + 1)..k : j \in (i + 1)..n
  OBVIOUS
<1>2. ASSUME \A j \in (k + 1)..n : ~Admits(log[j].message, m) /\ ~Departs(log[j].message, m)
      PROVE  MemberAsOf(log, n, m) <=> MemberAsOf(log, k, m)
  <2>1. ASSUME MemberAsOf(log, n, m) PROVE MemberAsOf(log, k, m)
    BY <1>1, <1>2, <2>1 DEF MemberAsOf
  <2>2. ASSUME MemberAsOf(log, k, m) PROVE MemberAsOf(log, n, m)
    BY <1>1, <1>2, <2>2 DEF MemberAsOf
  <2>3. QED
    BY <2>1, <2>2
<1>3. ASSUME \A j \in (k + 1)..n : ~Crowns(log[j].message, m) /\ ~Deposes(log[j].message, m)
      PROVE  HostAsOf(log, n, m) <=> HostAsOf(log, k, m)
  <2>1. ASSUME HostAsOf(log, n, m) PROVE HostAsOf(log, k, m)
    BY <1>1, <1>3, <2>1 DEF HostAsOf
  <2>2. ASSUME HostAsOf(log, k, m) PROVE HostAsOf(log, n, m)
    BY <1>1, <1>3, <2>2 DEF HostAsOf
  <2>3. QED
    BY <2>1, <2>2
<1>4. ASSUME \A j \in (k + 1)..n : ~Mutes(log[j].message, m) /\ ~Unmutes(log[j].message, m)
      PROVE  MutedAsOf(log, n, m) <=> MutedAsOf(log, k, m)
  <2>1. ASSUME MutedAsOf(log, n, m) PROVE MutedAsOf(log, k, m)
    BY <1>1, <1>4, <2>1 DEF MutedAsOf
  <2>2. ASSUME MutedAsOf(log, k, m) PROVE MutedAsOf(log, n, m)
    BY <1>1, <1>4, <2>2 DEF MutedAsOf
  <2>3. QED
    BY <2>1, <2>2
<1>5. QED
  BY <1>2, <1>3, <1>4

\* A signal or a notice of removal speaks about nobody's place in the room.
LEMMA SilentMessage ==
  ASSUME NEW msg, msg.type \in {"WebRtcSignal", "MemberRemoved"}, NEW m
  PROVE  /\ ~Admits(msg, m) /\ ~Departs(msg, m)
         /\ ~Crowns(msg, m) /\ ~Deposes(msg, m)
         /\ ~Mutes(msg, m) /\ ~Unmutes(msg, m)
BY DEF Admits, Departs, Crowns, Deposes, Mutes, Unmutes

\* Events that are all for single members change no reading.
LEMMA SilentStretch ==
  ASSUME PrivateEventsAreSilent, Len(events) \in Nat,
         NEW k \in Nat, NEW n \in Nat, k <= n, n <= Len(events),
         \A j \in (k + 1)..n : events[j].target # NoTarget,
         NEW m
  PROVE  /\ MemberAsOf(events, n, m) <=> MemberAsOf(events, k, m)
         /\ HostAsOf(events, n, m) <=> HostAsOf(events, k, m)
         /\ MutedAsOf(events, n, m) <=> MutedAsOf(events, k, m)
<1>1. \A j \in (k + 1)..n : events[j].message.type \in {"WebRtcSignal", "MemberRemoved"}
  BY DEF PrivateEventsAreSilent
<1>2. \A j \in (k + 1)..n :
        /\ ~Admits(events[j].message, m) /\ ~Departs(events[j].message, m)
        /\ ~Crowns(events[j].message, m) /\ ~Deposes(events[j].message, m)
        /\ ~Mutes(events[j].message, m) /\ ~Unmutes(events[j].message, m)
  BY <1>1, SilentMessage
<1>3. QED
  BY <1>2, QuietStretch

\* Nobody is announced who is in the room already: a window that is told again of a
\* member it shows is replaying.
JoinersWereOut ==
  \A i \in 1..Len(events) :
    events[i].message.type = "MemberJoined" =>
      ~MemberAsOf(events, i - 1, events[i].message.member)

\* What a step adds to the log keeps this of every place of it, if it does so for the
\* places it adds.
LEMMA NewcomersOnly ==
  ASSUME LogInv, JoinersWereOut, StepIsLogged, Len(events') \in Nat,
         \A i \in (Len(events) + 1)..Len(events') :
           events'[i].message.type = "MemberJoined" =>
             i = Len(events) + 1 /\ ~MemberAsOf(events, Len(events), events'[i].message.member)
  PROVE  JoinersWereOut'
<1> SUFFICES ASSUME NEW i \in 1..Len(events'), events'[i].message.type = "MemberJoined"
             PROVE  ~MemberAsOf(events', i - 1, events'[i].message.member)
  BY DEF JoinersWereOut
<1>1. /\ Len(events) \in Nat /\ Len(events) <= Len(events')
      /\ \A k \in 1..Len(events) : events'[k] = events[k]
  BY DEF LogInv, SessionInv, TypeOK, StepIsLogged
<1>2. i - 1 \in Nat /\ (i - 1 <= Len(events) => \A k \in 1..(i - 1) : events'[k] = events[k])
  BY <1>1
<1>3. i - 1 <= Len(events) =>
        (MemberAsOf(events', i - 1, events'[i].message.member)
           <=> MemberAsOf(events, i - 1, events'[i].message.member))
  BY <1>2, AsOfCongruent
<1>4. CASE i \in 1..Len(events)
  BY <1>1, <1>3, <1>4 DEF JoinersWereOut
<1>5. CASE i \in (Len(events) + 1)..Len(events')
  BY <1>1, <1>3, <1>5
<1>6. QED
  BY <1>1, <1>4, <1>5

\* Every operation of the session keeps it: only join_host_session announces anyone,
\* and it refuses a member.
LEMMA JoinersStep ==
  ASSUME LogInv, JoinersWereOut, [SessionNext]_sessionVars
  PROVE  JoinersWereOut'
<1>1. SessionInv /\ SessionInv' /\ StepIsLogged /\ Len(events) \in Nat /\ Len(events') \in Nat
  BY SessionNextInv, SessionStepIsLogged DEF LogInv, SessionInv, TypeOK
<1>2. ASSUME NEW target \in MemberId \cup {NoTarget}, NEW message \in Message,
             PushOne(target, message), message.type # "MemberJoined"
      PROVE  JoinersWereOut'
  <2>1. Len(events') = Len(events) + 1 /\ events'[Len(events) + 1].message = message
    BY <1>1, <1>2, OneMore
  <2>2. \A i \in (Len(events) + 1)..Len(events') : i = Len(events) + 1
    BY <1>1, <2>1
  <2>3. QED
    BY <1>1, <1>2, <2>1, <2>2, NewcomersOnly
<1>3. ASSUME NEW target1 \in MemberId \cup {NoTarget}, NEW message1 \in Message,
             NEW target2 \in MemberId \cup {NoTarget}, NEW message2 \in Message,
             PushTwo(target1, message1, target2, message2),
             message1.type = "MemberJoined" => ~HasMember(members, message1.member),
             message2.type # "MemberJoined"
      PROVE  JoinersWereOut'
  <2>1. /\ Len(events') = Len(events) + 2
        /\ events'[Len(events) + 1].message = message1
        /\ events'[Len(events) + 2].message = message2
    BY <1>1, <1>3, TwoMore
  <2>2. \A i \in (Len(events) + 1)..Len(events') : i = Len(events) + 1 \/ i = Len(events) + 2
    BY <1>1, <2>1
  <2>3. message1.type = "MemberJoined" => ~MemberAsOf(events, Len(events), message1.member)
    <3>1. message1.type = "MemberJoined" => message1.member \in MemberId
      BY DEF Message
    <3>2. QED
      BY <1>1, <1>3, <3>1 DEF SessionInv, LogTellsMembership
  <2>4. QED
    BY <1>1, <1>3, <2>1, <2>2, <2>3, NewcomersOnly
<1>4. ASSUME NEW m \in MemberId, NEW decoded, JoinHostSession(m, decoded)
      PROVE  JoinersWereOut'
  <2>1. /\ members' \in MemberTable /\ members'[m] \in MemberState
        /\ PushTwo(NoTarget, MemberJoinedMsg(m, members'[m]), NoTarget, RoomStateMsg(members'))
        /\ ~HasMember(members, m)
    <3>1. members \in MemberTable /\ members' = AddMember(members, m)
      BY <1>1, <1>4 DEF JoinHostSession, SessionInv, TypeOK
    <3>2. /\ members' \in MemberTable
          /\ members'[m] = [role |-> "Member", serverMuted |-> FALSE]
      BY <3>1, AddMemberTable
    <3>3. QED
      BY <1>4, <3>2 DEF JoinHostSession, MayJoin, MemberState, MemberRole
  <2>2. /\ MemberJoinedMsg(m, members'[m]) \in Message /\ RoomStateMsg(members') \in Message
        /\ MemberJoinedMsg(m, members'[m]).member = m
        /\ RoomStateMsg(members').type # "MemberJoined"
    BY <2>1 DEF MemberJoinedMsg, RoomStateMsg, Message
  <2>3. QED
    BY <1>3, <2>1, <2>2
<1>5. ASSUME NEW from \in MemberId, NEW target \in MemberId, RelayWebRtcSignal(from, target)
      PROVE  JoinersWereOut'
  <2>1. PushOne(target, SignalMsg(from, target)) /\ SignalMsg(from, target) \in Message
        /\ SignalMsg(from, target).type # "MemberJoined"
    BY <1>5 DEF RelayWebRtcSignal, SignalMsg, Message
  <2>2. QED
    BY <1>2, <2>1
<1>6. ASSUME NEW m \in MemberId, NEW on \in BOOLEAN, ServerMuteMember(m, on)
      PROVE  JoinersWereOut'
  <2>1. PushOne(NoTarget, MemberServerMutedMsg(m, on)) /\ MemberServerMutedMsg(m, on) \in Message
        /\ MemberServerMutedMsg(m, on).type # "MemberJoined"
    BY <1>6 DEF ServerMuteMember, MemberServerMutedMsg, Message
  <2>2. QED
    BY <1>2, <2>1
<1>7. ASSUME NEW m \in MemberId, NEW reason \in {"kicked", "banned"}, RemoveAndNotify(m, reason)
      PROVE  JoinersWereOut'
  <2>1. /\ PushTwo(m, MemberRemovedMsg(m, reason), NoTarget, MemberLeftMsg(m))
        /\ MemberRemovedMsg(m, reason) \in Message /\ MemberLeftMsg(m) \in Message
        /\ MemberRemovedMsg(m, reason).type # "MemberJoined"
        /\ MemberLeftMsg(m).type # "MemberJoined"
    BY <1>7 DEF RemoveAndNotify, MemberRemovedMsg, MemberLeftMsg, Message
  <2>2. QED
    BY <1>3, <2>1
<1>8. ASSUME NEW newHost \in MemberId, TransferHostTo(newHost)
      PROVE  JoinersWereOut'
  <2>1. PushOne(NoTarget, HostChangedMsg(hostId, newHost))
        /\ HostChangedMsg(hostId, newHost) \in Message
        /\ HostChangedMsg(hostId, newHost).type # "MemberJoined"
    BY <1>1, <1>8 DEF TransferHostTo, HostChangedMsg, Message, SessionInv, TypeOK
  <2>2. QED
    BY <1>2, <2>1
<1>9. CASE UNCHANGED sessionVars
  BY <1>9 DEF sessionVars, JoinersWereOut
<1>10. QED
  BY <1>4, <1>5, <1>6, <1>7, <1>8, <1>9 DEF SessionNext, KickMember, BanMember

-----------------------------------------------------------------------------
(* How the log tells of a departure.                                       *)

\* Whatever takes a member off the list of a reader, a departure or a snapshot, stands
\* right behind the notice for that member.
DeparturesAreTold ==
  \A i \in 1..Len(events), m \in MemberId :
    MemberAsOf(events, i - 1, m) /\ Departs(events[i].message, m) =>
      /\ i - 1 \in 1..Len(events)
      /\ events[i - 1].target = m
      /\ events[i - 1].message.type = "MemberRemoved"
      /\ events[i - 1].message.member = m

\* What a step adds to the log keeps this of every place of it, if it does so for the
\* places it adds.
LEMMA ToldGrowth ==
  ASSUME LogInv, DeparturesAreTold, StepIsLogged, Len(events') \in Nat,
         \A i \in (Len(events) + 1)..Len(events'), m \in MemberId :
           MemberAsOf(events', i - 1, m) /\ Departs(events'[i].message, m) =>
             /\ i - 1 \in 1..Len(events')
             /\ events'[i - 1].target = m
             /\ events'[i - 1].message.type = "MemberRemoved"
             /\ events'[i - 1].message.member = m
  PROVE  DeparturesAreTold'
<1>1. /\ Len(events) \in Nat /\ Len(events) <= Len(events')
      /\ \A k \in 1..Len(events) : events'[k] = events[k]
  BY DEF LogInv, SessionInv, TypeOK, StepIsLogged
<1>2. ASSUME NEW i \in 1..Len(events), NEW m \in MemberId,
             MemberAsOf(events', i - 1, m), Departs(events'[i].message, m)
      PROVE  /\ i - 1 \in 1..Len(events')
             /\ events'[i - 1].target = m
             /\ events'[i - 1].message.type = "MemberRemoved"
             /\ events'[i - 1].message.member = m
  <2>1. i - 1 \in Nat /\ \A k \in 1..(i - 1) : events'[k] = events[k]
    BY <1>1
  <2>2. MemberAsOf(events, i - 1, m)
    BY <1>2, <2>1, AsOfCongruent
  <2>3. Departs(events[i].message, m)
    BY <1>1, <1>2
  <2>4. /\ i - 1 \in 1..Len(events)
        /\ events[i - 1].target = m
        /\ events[i - 1].message.type = "MemberRemoved"
        /\ events[i - 1].message.member = m
    BY <2>2, <2>3 DEF DeparturesAreTold
  <2>5. QED
    BY <1>1, <2>4
<1>3. \A i \in 1..Len(events') : i \in 1..Len(events) \/ i \in (Len(events) + 1)..Len(events')
  BY <1>1
<1>4. QED
  BY <1>2, <1>3 DEF DeparturesAreTold

\* The snapshot of a join leaves nobody out whom the log had in the room.
LEMMA JoinTells ==
  ASSUME LogInv, LogInv', DeparturesAreTold, StepIsLogged,
         NEW j \in MemberId, NEW decoded, JoinHostSession(j, decoded)
  PROVE  DeparturesAreTold'
<1> DEFINE n == Len(events)
           arrival == MemberJoinedMsg(j, members'[j])
           snapshot == RoomStateMsg(members')
<1>1. /\ n \in Nat /\ Len(events') \in Nat /\ SessionInv /\ members \in MemberTable
      /\ members' = AddMember(members, j)
      /\ PushTwo(NoTarget, arrival, NoTarget, snapshot)
  BY DEF LogInv, SessionInv, TypeOK, JoinHostSession
<1>2. /\ DOMAIN members' = DOMAIN members \cup {j} /\ members' \in MemberTable
      /\ members'[j] = [role |-> "Member", serverMuted |-> FALSE]
  BY <1>1, AddMemberTable
<1>3. /\ arrival \in Message /\ arrival.type = "MemberJoined" /\ arrival.member = j
      /\ snapshot \in Message /\ snapshot.type = "RoomState" /\ snapshot.members = members'
  BY <1>2 DEF MemberJoinedMsg, RoomStateMsg, Message, MemberState, MemberRole
<1> HIDE DEF arrival, snapshot
<1>4. /\ Len(events') = n + 2
      /\ events'[n + 1].message = arrival
      /\ events'[n + 2].message = snapshot
  BY <1>1, <1>3, TwoMore
<1>5. \A m : ~Departs(events'[n + 1].message, m)
  BY <1>3, <1>4 DEF Departs
<1>6. \A m \in MemberId : MemberAsOf(events', n + 1, m) => ~Departs(events'[n + 2].message, m)
  <2> SUFFICES ASSUME NEW m \in MemberId, MemberAsOf(events', n + 1, m)
               PROVE  ~Departs(events'[n + 2].message, m)
    OBVIOUS
  <2>1. m = j \/ MemberAsOf(events', n, m)
    BY <1>1, <1>3, <1>4, MemberAsOfStep DEF Admits
  <2>2. MemberAsOf(events', n, m) <=> MemberAsOf(events, n, m)
    BY <1>1, AsOfCongruent DEF StepIsLogged
  <2>3. MemberAsOf(events, n, m) <=> m \in DOMAIN members
    BY <1>1 DEF SessionInv, LogTellsMembership, HasMember
  <2>4. m \in DOMAIN members'
    BY <1>2, <2>1, <2>2, <2>3
  <2>5. QED
    BY <1>3, <1>4, <2>4 DEF Departs
<1>7. \A i \in (n + 1)..Len(events') : i = n + 1 \/ (i = n + 2 /\ i - 1 = n + 1)
  BY <1>1, <1>4
<1>8. QED
  BY <1>1, <1>5, <1>6, <1>7, ToldGrowth

\* A kick or ban puts the notice right before the departure.
LEMMA RemovalTells ==
  ASSUME LogInv, LogInv', DeparturesAreTold, StepIsLogged,
         NEW x \in MemberId, NEW reason \in {"kicked", "banned"}, RemoveAndNotify(x, reason)
  PROVE  DeparturesAreTold'
<1> DEFINE n == Len(events)
           notice == MemberRemovedMsg(x, reason)
           left == MemberLeftMsg(x)
<1>1. /\ n \in Nat /\ Len(events') \in Nat /\ SessionInv
      /\ PushTwo(x, notice, NoTarget, left)
  BY DEF LogInv, SessionInv, TypeOK, RemoveAndNotify
<1>2. /\ notice \in Message /\ notice.type = "MemberRemoved" /\ notice.member = x
      /\ left \in Message /\ left.type = "MemberLeft" /\ left.member = x
  BY DEF MemberRemovedMsg, MemberLeftMsg, Message
<1> HIDE DEF notice, left
<1>3. /\ Len(events') = n + 2
      /\ events'[n + 1].message = notice /\ events'[n + 1].target = x
      /\ events'[n + 2].message = left
  BY <1>1, <1>2, TwoMore
<1>4. \A m : /\ ~Departs(events'[n + 1].message, m)
             /\ Departs(events'[n + 2].message, m) => m = x
  BY <1>2, <1>3 DEF Departs
<1>5. \A i \in (n + 1)..Len(events') :
        i = n + 1 \/ (i = n + 2 /\ i - 1 = n + 1 /\ i - 1 \in 1..Len(events'))
  BY <1>1, <1>3
<1>6. QED
  BY <1>1, <1>2, <1>3, <1>4, <1>5, ToldGrowth

\* Every operation of the session keeps it.
LEMMA DeparturesStep ==
  ASSUME LogInv, DeparturesAreTold, [SessionNext]_sessionVars
  PROVE  DeparturesAreTold'
<1>1. LogInv' /\ StepIsLogged /\ SessionInv /\ Len(events) \in Nat /\ Len(events') \in Nat
  BY LogNextInv, SessionStepIsLogged DEF LogInv, SessionInv, TypeOK
<1>2. ASSUME NEW target \in MemberId \cup {NoTarget}, NEW message \in Message,
             PushOne(target, message), message.type \notin {"MemberLeft", "RoomState"}
      PROVE  DeparturesAreTold'
  <2>1. Len(events') = Len(events) + 1 /\ events'[Len(events) + 1].message = message
    BY <1>1, <1>2, OneMore
  <2>2. \A i \in (Len(events) + 1)..Len(events') : i = Len(events) + 1
    BY <1>1, <2>1
  <2>3. \A m : ~Departs(message, m)
    BY <1>2 DEF Departs
  <2>4. QED
    BY <1>1, <2>1, <2>2, <2>3, ToldGrowth
<1>3. ASSUME NEW from \in MemberId, NEW target \in MemberId, RelayWebRtcSignal(from, target)
      PROVE  DeparturesAreTold'
  <2>1. /\ PushOne(target, SignalMsg(from, target)) /\ SignalMsg(from, target) \in Message
        /\ SignalMsg(from, target).type \notin {"MemberLeft", "RoomState"}
    BY <1>3 DEF RelayWebRtcSignal, SignalMsg, Message
  <2>2. QED
    BY <1>2, <2>1
<1>4. ASSUME NEW m \in MemberId, NEW on \in BOOLEAN, ServerMuteMember(m, on)
      PROVE  DeparturesAreTold'
  <2>1. /\ PushOne(NoTarget, MemberServerMutedMsg(m, on))
        /\ MemberServerMutedMsg(m, on) \in Message
        /\ MemberServerMutedMsg(m, on).type \notin {"MemberLeft", "RoomState"}
    BY <1>4 DEF ServerMuteMember, MemberServerMutedMsg, Message
  <2>2. QED
    BY <1>2, <2>1
<1>5. ASSUME NEW newHost \in MemberId, TransferHostTo(newHost)
      PROVE  DeparturesAreTold'
  <2>1. /\ PushOne(NoTarget, HostChangedMsg(hostId, newHost))
        /\ HostChangedMsg(hostId, newHost) \in Message
        /\ HostChangedMsg(hostId, newHost).type \notin {"MemberLeft", "RoomState"}
    BY <1>1, <1>5 DEF TransferHostTo, HostChangedMsg, Message, SessionInv, TypeOK
  <2>2. QED
    BY <1>2, <2>1
<1>6. CASE UNCHANGED sessionVars
  BY <1>6 DEF sessionVars, DeparturesAreTold
<1>7. QED
  BY <1>1, <1>3, <1>4, <1>5, <1>6, JoinTells, RemovalTells DEF SessionNext, KickMember, BanMember

\* Nobody disappears from the list of a reader without having been sent the reason as
\* the event before: no snapshot, transfer or mute takes a member away (remove_member,
\* join_host_session).
THEOREM NobodyDisappears == SessionSpec => []DeparturesAreTold
<1>1. SessionInit => DeparturesAreTold
  <2> SUFFICES ASSUME SessionInit, NEW i \in 1..Len(events), NEW m
               PROVE  ~MemberAsOf(events, i - 1, m)
    BY DEF DeparturesAreTold
  <2>1. i - 1 = 0
    BY DEF SessionInit
  <2>2. QED
    BY <2>1 DEF MemberAsOf
<1>2. LogInv /\ DeparturesAreTold /\ [SessionNext]_sessionVars => DeparturesAreTold'
  BY DeparturesStep
<1>3. SessionSpec => []LogInv
  BY LogInitInv, LogNextInv, PTL DEF SessionSpec
<1>4. QED
  BY <1>1, <1>2, <1>3, PTL DEF SessionSpec

-----------------------------------------------------------------------------
(* Who is said to have handed the role on.                                 *)

\* The member that a HostChanged event names as the previous host is the host of the
\* room as of the event before it.
HandoversAreOfTheHost ==
  \A i \in 1..Len(events) :
    events[i].message.type = "HostChanged" =>
      HostAsOf(events, i - 1, events[i].message.previousHost)

LEMMA HandoverStep ==
  ASSUME SessionInv, HandoversAreOfTheHost, [SessionNext]_sessionVars
  PROVE  HandoversAreOfTheHost'
<1>1. /\ TypeOK /\ StepIsLogged
      /\ Len(events) \in Nat /\ Len(events') \in Nat
  BY SessionStepIsLogged DEF SessionInv, TypeOK
<1>2. ASSUME \A i \in (Len(events) + 1)..Len(events') :
               events'[i].message.type = "HostChanged" =>
                 i = Len(events) + 1 /\ events'[i].message.previousHost = hostId
      PROVE  HandoversAreOfTheHost'
  <2> SUFFICES ASSUME NEW i \in 1..Len(events'), events'[i].message.type = "HostChanged"
               PROVE  HostAsOf(events', i - 1, events'[i].message.previousHost)
    BY DEF HandoversAreOfTheHost
  <2>1. CASE i \in 1..Len(events)
    <3>1. \A k \in 1..(i - 1) : events'[k] = events[k]
      BY <1>1, <2>1 DEF StepIsLogged
    <3>2. events'[i] = events[i] /\ i - 1 \in Nat
      BY <1>1, <2>1 DEF StepIsLogged
    <3>3. HostAsOf(events, i - 1, events[i].message.previousHost)
      BY <2>1, <3>2 DEF HandoversAreOfTheHost
    <3>4. QED
      BY <3>1, <3>2, <3>3, AsOfCongruent
  <2>2. CASE i \in (Len(events) + 1)..Len(events')
    <3>1. i - 1 = Len(events) /\ events'[i].message.previousHost = hostId
      BY <1>1, <1>2, <2>2
    <3>2. HostAsOf(events, Len(events), hostId)
      BY DEF SessionInv, LogTellsHost, TypeOK
    <3>3. HostAsOf(events', Len(events), hostId)
      BY <1>1, <3>2, AsOfCongruent DEF StepIsLogged
    <3>4. QED
      BY <3>1, <3>3
  <2>3. QED
    BY <1>1, <2>1, <2>2
<1>3. ASSUME NEW target \in MemberId \cup {NoTarget}, NEW message \in Message,
             PushOne(target, message),
             message.type = "HostChanged" => message.previousHost = hostId
      PROVE  HandoversAreOfTheHost'
  <2>1. Len(events') = Len(events) + 1 /\ events'[Len(events) + 1].message = message
    BY <1>3, OneMore
  <2>2. \A i \in (Len(events) + 1)..Len(events') : i = Len(events) + 1
    BY <1>1, <2>1
  <2>3. QED
    BY <1>2, <1>3, <2>1, <2>2
<1>4. ASSUME NEW target1 \in MemberId \cup {NoTarget}, NEW message1 \in Message,
             NEW target2 \in MemberId \cup {NoTarget}, NEW message2 \in Message,
             PushTwo(target1, message1, target2, message2),
             message1.type # "HostChanged", message2.type # "HostChanged"
      PROVE  HandoversAreOfTheHost'
  <2>1. /\ Len(events') = Len(events) + 2
        /\ events'[Len(events) + 1].message = message1
        /\ events'[Len(events) + 2].message = message2
    BY <1>4, TwoMore
  <2>2. \A i \in (Len(events) + 1)..Len(events') : i = Len(events) + 1 \/ i = Len(events) + 2
    BY <1>1, <2>1
  <2>3. QED
    BY <1>2, <1>4, <2>1, <2>2
<1>5. ASSUME NEW m \in MemberId, NEW decoded, JoinHostSession(m, decoded)
      PROVE  HandoversAreOfTheHost'
  <2>1. /\ members' = AddMember(members, m) /\ members \in MemberTable
        /\ PushTwo(NoTarget, MemberJoinedMsg(m, members'[m]), NoTarget, RoomStateMsg(members'))
    BY <1>1, <1>5 DEF JoinHostSession, TypeOK
  <2>2. members' \in MemberTable /\ members'[m] = [role |-> "Member", serverMuted |-> FALSE]
    BY <2>1, AddMemberTable
  <2>3. /\ MemberJoinedMsg(m, members'[m]) \in Message /\ RoomStateMsg(members') \in Message
        /\ MemberJoinedMsg(m, members'[m]).type # "HostChanged"
        /\ RoomStateMsg(members').type # "HostChanged"
    BY <2>2 DEF MemberJoinedMsg, RoomStateMsg, Message, MemberState, MemberRole
  <2>4. QED
    BY <1>4, <2>1, <2>3
<1>6. ASSUME NEW from \in MemberId, NEW target \in MemberId, RelayWebRtcSignal(from, target)
      PROVE  HandoversAreOfTheHost'
  BY <1>3, <1>6 DEF RelayWebRtcSignal, SignalMsg, Message
<1>7. ASSUME NEW m \in MemberId, NEW on \in BOOLEAN, ServerMuteMember(m, on)
      PROVE  HandoversAreOfTheHost'
  BY <1>3, <1>7 DEF ServerMuteMember, MemberServerMutedMsg, Message
<1>8. ASSUME NEW m \in MemberId, NEW reason \in {"kicked", "banned"}, RemoveAndNotify(m, reason)
      PROVE  HandoversAreOfTheHost'
  BY <1>4, <1>8 DEF RemoveAndNotify, MemberRemovedMsg, MemberLeftMsg, Message
<1>9. ASSUME NEW newHost \in MemberId, TransferHostTo(newHost)
      PROVE  HandoversAreOfTheHost'
  BY <1>1, <1>3, <1>9 DEF TransferHostTo, HostChangedMsg, Message, TypeOK
<1>10. CASE UNCHANGED sessionVars
  BY <1>10 DEF sessionVars, HandoversAreOfTheHost
<1>11. QED
  BY <1>5, <1>6, <1>7, <1>8, <1>9, <1>10 DEF SessionNext, KickMember, BanMember

\* The log never has the role handed on by somebody who did not hold it at that place: a
\* reader can follow it from the owner through every transfer (transfer_host).
THEOREM HandoversAreInOrder == SessionSpec => []HandoversAreOfTheHost
<1>1. SessionInit => HandoversAreOfTheHost
  BY DEF SessionInit, HandoversAreOfTheHost, RuntimeEvent, RoomStateMsg
<1>2. SessionSpec => []SessionInv
  BY SessionInitInv, SessionNextInv, PTL DEF SessionSpec
<1>3. SessionInv /\ HandoversAreOfTheHost /\ [SessionNext]_sessionVars => HandoversAreOfTheHost'
  BY HandoverStep
<1>4. QED
  BY <1>1, <1>2, <1>3, PTL DEF SessionSpec

-----------------------------------------------------------------------------
(* Who changes a server-mute flag.                                         *)

\* The host stays; the flag of a member that stays changes only by a request about it,
\* which is logged as it is carried out, and never while that member is the host.
FlagsFollowRequests ==
  /\ HasMember(members', hostId)
  /\ \A m \in DOMAIN members \cap DOMAIN members' :
       members'[m].serverMuted # members[m].serverMuted =>
         /\ m # hostId
         /\ events' = Append(events, RuntimeEvent(nextSequence, NoTarget,
                                       MemberServerMutedMsg(m, members'[m].serverMuted)))

LEMMA FlagsStep ==
  ASSUME SessionInv, [SessionNext]_sessionVars
  PROVE  FlagsFollowRequests
<1>1. /\ members \in MemberTable /\ hostId \in DOMAIN members
      /\ \A m \in DOMAIN members : members[m].role = "Host" <=> m = hostId
  BY DEF SessionInv, TypeOK, OneHost, HasMember
<1>2. CASE UNCHANGED members
  BY <1>1, <1>2 DEF FlagsFollowRequests, HasMember
<1>3. ASSUME NEW m \in MemberId, NEW decoded, JoinHostSession(m, decoded)
      PROVE  FlagsFollowRequests
  <2>1. members' = AddMember(members, m) /\ m \notin DOMAIN members
    BY <1>3 DEF JoinHostSession, MayJoin, HasMember
  <2>2. /\ DOMAIN members' = DOMAIN members \cup {m}
        /\ \A x \in DOMAIN members : members'[x] = members[x]
    BY <1>1, <2>1, AddMemberTable
  <2>3. QED
    BY <1>1, <2>2 DEF FlagsFollowRequests, HasMember
<1>4. ASSUME NEW m \in MemberId, NEW flag \in BOOLEAN, ServerMuteMember(m, flag)
      PROVE  FlagsFollowRequests
  <2>1. /\ m \in DOMAIN members /\ members' = SetServerMuted(members, m, flag)
        /\ events' = Append(events, RuntimeEvent(nextSequence, NoTarget,
                                      MemberServerMutedMsg(m, flag)))
    BY <1>4 DEF ServerMuteMember, PushOne, HasMember
  <2>2. DOMAIN members' = DOMAIN members
    BY <1>1, <2>1, ServerMutedTable
  <2>3. \A x \in DOMAIN members \ {m} : members'[x] = members[x]
    BY <1>1, <2>1, ServerMutedFlags
  <2>4. m # hostId => members'[m].serverMuted = flag
    BY <1>1, <2>1, ServerMutedFlags
  <2>5. m = hostId => members' = members
    BY <1>1, <2>1 DEF SetServerMuted
  <2>6. QED
    BY <1>1, <2>1, <2>2, <2>3, <2>4, <2>5 DEF FlagsFollowRequests, HasMember
<1>5. ASSUME NEW m \in MemberId, KickMember(m) \/ BanMember(m)
      PROVE  FlagsFollowRequests
  <2>1. members' = RemoveMember(members, m) /\ m # hostId
    BY <1>5 DEF KickMember, BanMember, RemoveAndNotify, MayRemove, MayLeave
  <2>2. /\ DOMAIN members' = DOMAIN members \ {m}
        /\ \A x \in DOMAIN members \ {m} : members'[x] = members[x]
    BY <1>1, <2>1, RemoveMemberTable
  <2>3. QED
    BY <1>1, <2>1, <2>2 DEF FlagsFollowRequests, HasMember
<1>6. ASSUME NEW newHost \in MemberId, TransferHostTo(newHost)
      PROVE  FlagsFollowRequests
  <2>1. newHost \in DOMAIN members /\ members' = TransferHost(members, hostId, newHost)
    BY <1>1, <1>6 DEF TransferHostTo, MayTransferTo, HasMember
  <2>2. DOMAIN members' = DOMAIN members
    BY <1>1, <2>1, TransferHostTable
  <2>3. \A x \in DOMAIN members : members'[x].serverMuted = members[x].serverMuted
    BY <1>1, <2>1, TransferHostFlags
  <2>4. QED
    BY <1>1, <2>2, <2>3 DEF FlagsFollowRequests, HasMember
<1>7. QED
  BY <1>2, <1>3, <1>4, <1>5, <1>6 DEF SessionNext, RelayWebRtcSignal, sessionVars

\* No join, signal, removal or transfer changes a server-mute flag, and none changes
\* while its member is the host: a member that is promoted with the flag set keeps it,
\* and no request takes it away before the role is handed on (set_server_muted,
\* transfer_host).
THEOREM HostsFlagIsFrozen == SessionSpec => [][FlagsFollowRequests]_sessionVars
<1>1. SessionInv /\ [SessionNext]_sessionVars => [FlagsFollowRequests]_sessionVars
  BY FlagsStep
<1>2. QED
  BY <1>1, SessionInvariant, PTL DEF SessionSpec

-----------------------------------------------------------------------------
(* Applying an event to a member list.                                     *)

\* What becomes of a list when a message is followed: for each member the message
\* decides, and where it is silent the list stays as it was.  Only a snapshot or an
\* announcement brings anyone onto the list.
ListFollows(table, after, msg) ==
  \A m \in MemberId :
    /\ m \in DOMAIN after <=> Admits(msg, m) \/ (m \in DOMAIN table /\ ~Departs(msg, m))
    /\ m \in DOMAIN after /\ m \in DOMAIN table =>
         /\ after[m].role = "Host" <=>
              Crowns(msg, m) \/ (table[m].role = "Host" /\ ~Deposes(msg, m))
         /\ after[m].serverMuted <=>
              Mutes(msg, m) \/ (table[m].serverMuted /\ ~Unmutes(msg, m))
    /\ m \in DOMAIN after /\ m \notin DOMAIN table =>
         /\ after[m].role = "Host" <=> Crowns(msg, m)
         /\ after[m].serverMuted <=> Mutes(msg, m)
         /\ msg.type = "RoomState" \/ (msg.type = "MemberJoined" /\ msg.member = m)

\* applyRuntimeEvent follows every message the runtime logs.
LEMMA ApplyFollows ==
  ASSUME NEW msg \in Message, NEW table \in MemberTable,
         msg.type = "MemberJoined" => msg.state = [role |-> "Member", serverMuted |-> FALSE]
  PROVE  LET after == ApplyToView(table, msg) IN
         after \in MemberTable /\ ListFollows(table, after, msg)
<1> DEFINE after == ApplyToView(table, msg)
<1>1. DOMAIN table \in SUBSET MemberId /\ table \in [DOMAIN table -> MemberState]
  BY TableDef
<1>2. CASE msg.type = "RoomState"
  <2>1. after = msg.members /\ msg.members \in MemberTable
    BY <1>2 DEF ApplyToView, Message
  <2>2. \A m : /\ Admits(msg, m) <=> m \in DOMAIN msg.members
               /\ Departs(msg, m) <=> m \notin DOMAIN msg.members
               /\ m \in DOMAIN msg.members => (Crowns(msg, m) <=> msg.members[m].role = "Host")
               /\ ~Crowns(msg, m) => Deposes(msg, m)
               /\ m \in DOMAIN msg.members => (Mutes(msg, m) <=> msg.members[m].serverMuted)
               /\ ~Mutes(msg, m) => Unmutes(msg, m)
    BY <1>2 DEF Admits, Departs, Crowns, Deposes, Mutes, Unmutes
  <2> HIDE DEF after
  <2>3. ListFollows(table, after, msg)
    BY <1>2, <2>1, <2>2 DEF ListFollows
  <2>4. QED
    BY <2>1, <2>3 DEF after
<1>3. CASE msg.type = "MemberJoined"
  <2>1. msg.member \in MemberId /\ msg.state \in MemberState
    BY <1>3 DEF Message
  <2>2. after = [m \in DOMAIN table \cup {msg.member} |->
                   IF m \in DOMAIN table THEN table[m] ELSE msg.state]
    BY <1>3 DEF ApplyToView
  <2>3. after \in MemberTable
    <3>1. /\ DOMAIN after = DOMAIN table \cup {msg.member}
          /\ after \in [DOMAIN table \cup {msg.member} -> MemberState]
      BY <1>1, <2>1, <2>2
    <3>2. QED
      BY <1>1, <2>1, <3>1, TableDef
  <2>4. \A m : /\ Admits(msg, m) <=> m = msg.member
               /\ ~Departs(msg, m)
               /\ ~Crowns(msg, m) /\ ~Deposes(msg, m)
               /\ ~Mutes(msg, m) /\ ~Unmutes(msg, m)
    BY <1>3 DEF Admits, Departs, Crowns, Deposes, Mutes, Unmutes
  <2>5. /\ DOMAIN after = DOMAIN table \cup {msg.member}
        /\ \A m \in DOMAIN table : after[m] = table[m]
        /\ \A m \in DOMAIN after \ DOMAIN table :
             after[m].role # "Host" /\ after[m].serverMuted = FALSE
    BY <1>3, <2>2
  <2> HIDE DEF after
  <2>6. ListFollows(table, after, msg)
    BY <1>3, <2>4, <2>5 DEF ListFollows
  <2>7. QED
    BY <2>3, <2>6 DEF after
<1>4. CASE msg.type = "MemberLeft"
  <2>1. msg.member \in MemberId
    BY <1>4 DEF Message
  <2>2. after = RemoveMember(table, msg.member)
    BY <1>4 DEF ApplyToView
  <2> HIDE DEF after
  <2>3. /\ after \in MemberTable
        /\ DOMAIN after = DOMAIN table \ {msg.member}
        /\ \A m \in DOMAIN after : after[m] = table[m]
    <3>1. /\ RemoveMember(table, msg.member) \in MemberTable
          /\ DOMAIN RemoveMember(table, msg.member) = DOMAIN table \ {msg.member}
          /\ \A m \in DOMAIN table \ {msg.member} : RemoveMember(table, msg.member)[m] = table[m]
      BY <2>1, RemoveMemberTable
    <3>2. QED
      BY <2>2, <3>1, Zenon
  <2>4. \A m : /\ ~Admits(msg, m)
               /\ Departs(msg, m) <=> m = msg.member
               /\ ~Crowns(msg, m) /\ ~Deposes(msg, m)
               /\ ~Mutes(msg, m)
               /\ Unmutes(msg, m) <=> m = msg.member
    BY <1>4 DEF Admits, Departs, Crowns, Deposes, Mutes, Unmutes
  <2>5. ListFollows(table, after, msg)
    BY <2>3, <2>4 DEF ListFollows
  <2>6. QED
    BY <2>3, <2>5 DEF after
<1>5. CASE msg.type = "MemberServerMuted"
  <2>1. msg.member \in MemberId /\ msg.serverMuted \in BOOLEAN
    BY <1>5 DEF Message
  <2>2. after = [m \in DOMAIN table |->
                   IF m = msg.member THEN [table[m] EXCEPT !.serverMuted = msg.serverMuted]
                                     ELSE table[m]]
    BY <1>5 DEF ApplyToView
  <2>3. /\ DOMAIN after = DOMAIN table
        /\ \A m \in DOMAIN table :
             /\ after[m] \in MemberState
             /\ after[m].role = table[m].role
             /\ after[m].serverMuted =
                  IF m = msg.member THEN msg.serverMuted ELSE table[m].serverMuted
    BY <1>1, <2>1, <2>2 DEF MemberState
  <2>4. after \in MemberTable
    <3>1. after \in [DOMAIN table -> MemberState]
      BY <2>2, <2>3
    <3>2. QED
      BY <1>1, <2>3, <3>1, TableDef
  <2>5. \A m : /\ ~Admits(msg, m) /\ ~Departs(msg, m)
               /\ ~Crowns(msg, m) /\ ~Deposes(msg, m)
               /\ Mutes(msg, m) <=> m = msg.member /\ msg.serverMuted
               /\ Unmutes(msg, m) <=> m = msg.member /\ ~msg.serverMuted
    BY <1>5 DEF Admits, Departs, Crowns, Deposes, Mutes, Unmutes
  <2> HIDE DEF after
  <2>6. ListFollows(table, after, msg)
    BY <1>1, <2>1, <2>3, <2>5 DEF ListFollows
  <2>7. QED
    BY <2>4, <2>6 DEF after
<1>6. CASE msg.type = "HostChanged"
  <2>1. msg.newHost \in MemberId /\ msg.previousHost \in MemberId
    BY <1>6 DEF Message
  <2>2. after = [m \in DOMAIN table |->
                   IF m = msg.newHost THEN [table[m] EXCEPT !.role = "Host"]
                   ELSE IF m = msg.previousHost THEN [table[m] EXCEPT !.role = "Member"]
                                                ELSE table[m]]
    BY <1>6 DEF ApplyToView
  <2>3. /\ DOMAIN after = DOMAIN table
        /\ \A m \in DOMAIN table :
             /\ after[m] \in MemberState
             /\ after[m].serverMuted = table[m].serverMuted
             /\ after[m].role = IF m = msg.newHost THEN "Host"
                                ELSE IF m = msg.previousHost THEN "Member"
                                                             ELSE table[m].role
    BY <1>1, <2>2 DEF MemberState, MemberRole
  <2>4. after \in MemberTable
    <3>1. after \in [DOMAIN table -> MemberState]
      BY <2>2, <2>3
    <3>2. QED
      BY <1>1, <2>3, <3>1, TableDef
  <2>5. \A m : /\ ~Admits(msg, m) /\ ~Departs(msg, m)
               /\ Crowns(msg, m) <=> m = msg.newHost
               /\ Deposes(msg, m) <=> m = msg.previousHost /\ m # msg.newHost
               /\ ~Mutes(msg, m) /\ ~Unmutes(msg, m)
    BY <1>6 DEF Admits, Departs, Crowns, Deposes, Mutes, Unmutes
  <2> HIDE DEF after
  <2>6. ListFollows(table, after, msg)
    BY <2>3, <2>5 DEF ListFollows
  <2>7. QED
    BY <2>4, <2>6 DEF after
<1>7. CASE msg.type \in {"MemberRemoved", "WebRtcSignal"}
  <2>1. after = table
    BY <1>7 DEF ApplyToView
  <2> HIDE DEF after
  <2>2. ListFollows(table, after, msg)
    BY <1>7, <2>1, SilentMessage DEF ListFollows
  <2>3. QED
    BY <2>1, <2>2 DEF after
<1>8. QED
  BY <1>2, <1>3, <1>4, <1>5, <1>6, <1>7 DEF Message

=============================================================================
