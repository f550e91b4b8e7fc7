------------------------------ MODULE RoomState ------------------------------
(***************************************************************************)
(* The member table of one room, src-tauri/src/room_state.rs.              *)
(*                                                                         *)
(* `RoomState.members` is a HashMap from member id to member; here it is a *)
(* function whose domain is the set of ids in the room.  Every method of   *)
(* `RoomState` is an operator from the table before the call to the table  *)
(* after it; the condition under which the method returns an error is an   *)
(* operator of its own and becomes a guard of the caller.  Display names   *)
(* and timestamps are carried along by the code and never looked at, and   *)
(* `conn_state` is written only by tests: none of them is modelled.        *)
(***************************************************************************)

CONSTANT MemberId

MemberRole == {"Host", "Member"}

MemberState == [role : MemberRole, serverMuted : BOOLEAN]

\* The possible contents of the member table.
MemberTable == UNION {[S -> MemberState] : S \in SUBSET MemberId}

HasMember(members, m) == m \in DOMAIN members

\* RoomState::new: the creator is alone in the room and holds the Host role.
NewRoom(host) == [m \in {host} |-> [role |-> "Host", serverMuted |-> FALSE]]

\* add_member, once the DuplicateMember test has passed.
AddMember(members, m) ==
  [x \in DOMAIN members \cup {m} |->
     IF x = m THEN [role |-> "Member", serverMuted |-> FALSE] ELSE members[x]]

\* remove_member: the HostCannotLeave test ...
MayLeave(hostId, m) == m # hostId

\* ... and the removal itself.
RemoveMember(members, m) == [x \in DOMAIN members \ {m} |-> members[x]]

\* A slip LogTellsServerMuted would show: whoever is muted stays muted.
SetServerMuted_OnlyOn(members, m, serverMuted) ==
  [members EXCEPT ![m].serverMuted = @ \/ serverMuted]

\* set_server_muted of a member of the room.  The call succeeds for the Host
\* too, and then changes nothing.
SetServerMuted(members, m, serverMuted) ==
  IF members[m].role = "Host"
  THEN members
  ELSE [members EXCEPT ![m].serverMuted = serverMuted]

\* A slip OneHost would show: the promoted member is not the only host.
TransferHost_KeepsOldHost(members, previousHost, newHost) ==
  [members EXCEPT ![newHost].role = "Host"]

\* transfer_host to a member of the room.  The two roles are swapped and no
\* other field of either member is touched.
TransferHost(members, previousHost, newHost) ==
  IF newHost = previousHost
  THEN members
  ELSE [members EXCEPT ![previousHost].role = "Member",
                       ![newHost].role = "Host"]

=============================================================================
