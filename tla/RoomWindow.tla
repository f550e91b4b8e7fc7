------------------------------ MODULE RoomWindow ------------------------------
(***************************************************************************)
(* What an event does to a window, applyRuntimeEvent in App.tsx: to the    *)
(* list of members it shows and to the peer sessions it holds.  Both kinds *)
(* of control session, polled and pushed, hand their events to it.         *)
(***************************************************************************)
EXTENDS RoomState

\* The member list of a window in no room.
NoOne == [m \in {} |-> [role |-> "Member", serverMuted |-> FALSE]]

\* A slip ViewIsRoomAsOf would show: snapshots and departures are all that is followed.
ApplyToView_MembersOnly(shown, msg) ==
  CASE msg.type = "RoomState" -> msg.members
    [] msg.type = "MemberLeft" -> RemoveMember(shown, msg.member)
    [] OTHER -> shown

\* setMembers of every kind of broadcast.
ApplyToView(shown, msg) ==
  CASE msg.type = "RoomState" -> msg.members
    [] msg.type = "MemberJoined" ->
         [m \in DOMAIN shown \cup {msg.member} |->
            IF m \in DOMAIN shown THEN shown[m] ELSE msg.state]
    [] msg.type = "MemberLeft" -> RemoveMember(shown, msg.member)
    [] msg.type = "MemberServerMuted" ->
         [m \in DOMAIN shown |->
            IF m = msg.member THEN [shown[m] EXCEPT !.serverMuted = msg.serverMuted]
                              ELSE shown[m]]
    [] msg.type = "HostChanged" ->
         [m \in DOMAIN shown |->
            IF m = msg.newHost THEN [shown[m] EXCEPT !.role = "Host"]
            ELSE IF m = msg.previousHost THEN [shown[m] EXCEPT !.role = "Member"]
                                         ELSE shown[m]]
    [] OTHER -> shown

\* The peer sessions of member c's window.  A signal creates the session it is for,
\* a window that reads from its own runtime offers one to whoever joins, and only a
\* RoomState closes any.
ApplyToPeers(c, ownsRuntime, held, msg) ==
  CASE msg.type = "WebRtcSignal" -> held \cup {msg.from}
    [] msg.type = "MemberJoined" -> IF ownsRuntime THEN held \cup ({msg.member} \ {c}) ELSE held
    [] msg.type = "RoomState"    -> held \cap (DOMAIN msg.members \ {c})
    [] OTHER                     -> held

\* The notice of c's own removal ends in handleLeave.
TellsToLeave(c, msg) == msg.type = "MemberRemoved" /\ msg.member = c

=============================================================================
