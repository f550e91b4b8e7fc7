--------------------------- MODULE RoomPreparation ---------------------------
(***************************************************************************)
(* How the owner's machine gets a room onto the network: RoomPreparationState *)
(* of room_preparation.rs, the port mapping of nat_mapping.rs, the listener  *)
(* thread of control_runtime.rs, and the commands prepare_room_invite and    *)
(* start_host_runtime_session of lib.rs.                                     *)
(*                                                                           *)
(* An attempt is one call of handleCreateRoom.  Attempts interleave where a   *)
(* command is awaited; prepare_room_invite is an async command and runs on    *)
(* the threads of the async runtime, so that two calls of it interleave       *)
(* between its three lock sections and the binds as well.                     *)
(* A TCP socket is bound as long as the server or a clone of its listener    *)
(* exists: the clone of a listener thread is gone when accept fails once.    *)
(***************************************************************************)
EXTENDS Naturals, Sequences, FiniteSets

CONSTANTS
  Attempt,        \* the calls of handleCreateRoom, numbered in their order: a bound
  PortPool,       \* the ports tried in turn, DEFAULT_PORT_POOL
  EphemeralPort,  \* ports the system hands out otherwise
  Occupied,       \* what other programs may hold of the pool
  ExternalPort,   \* ports of the router
  NoPort,
  MaxSlot         \* bound on the five-minute slots that begin

PoolPort == {PortPool[i] : i \in DOMAIN PortPool}
Port == PoolPort \cup EphemeralPort

ASSUME PreparationAssumption ==
  /\ PortPool \in Seq(PoolPort)
  /\ PoolPort \cap EphemeralPort = {}
  /\ NoPort \notin Port \cup ExternalPort
  /\ IsFiniteSet(Attempt) /\ Attempt \subseteq Nat
  /\ Occupied \subseteq SUBSET PoolPort
  /\ \A taken \in Occupied : Cardinality(Attempt) <= Cardinality(Port \ taken)
  /\ MaxSlot \in Nat

VARIABLES
  lastSuccessfulPort,  \* last_successful_port
  activeServer,        \* the port active_server is bound to
  listeners,           \* the number of listener threads that accept on a port
  otherPrograms,       \* the ports of the pool other programs are bound to
  slot,                \* the slot the owner's clock has shown last
  rooms,               \* the invites of the rooms the session manager holds
  stage,               \* where each attempt stands: "idle", "asked", "binding", "bound",
                       \* "recorded", "listening", "prepared", "started" or "failed",
                       \* and "over"
  lastRead,            \* the last_successful_port an attempt has read
  tried,               \* how many of the ports to be tried were taken
  bound,               \* the port an attempt has bound
  reused,              \* reused_last_successful_port of an attempt
  invite,              \* the invite of an attempt, as far as it is known
  acceptFailed,        \* history: a listener thread has ended
  crossed              \* history: two attempts were choosing their ports at one time

preparationVars == <<lastSuccessfulPort, activeServer, listeners, otherPrograms,
                     slot, rooms, stage, lastRead, tried, bound, reused, invite,
                     acceptFailed, crossed>>

\* What an attempt does not touch while it chooses its port.
besidesPortVars == <<listeners, otherPrograms, slot, rooms, invite, acceptFailed>>
choiceVars == <<lastSuccessfulPort, activeServer, lastRead, tried, bound, reused, crossed>>

Protocol == {"pcp", "nat-pmp", "upnp"}

\* A room id is the invite code of the room, and a code says where to connect and
\* when it expires.
Invite == [endpointScope : {"private-lan-ipv4", "public-mapped-ipv4"},
           port : Port \cup ExternalPort, slot : 0..MaxSlot]
NoInvite == [endpointScope |-> "none", port |-> NoPort, slot |-> 0]

-----------------------------------------------------------------------------
\* The attempts between their first look at the last port and the change of the active
\* server, in which prepare_room_invite does not await anything.
Choosing(a) == stage[a] \in {"binding", "bound", "recorded"}

\* A port nobody is bound to: not the active server, a listener thread, another program
\* or an attempt whose server is not the active one yet.
Free(p) ==
  /\ p # activeServer /\ listeners[p] = 0 /\ p \notin otherPrograms
  /\ \A a \in Attempt : stage[a] \in {"bound", "recorded"} => bound[a] # p

\* The ports bind_server tries before it asks the system for any.
Candidates(last) ==
  (IF last = NoPort THEN <<>> ELSE <<last>>) \o SelectSeq(PortPool, LAMBDA p : p # last)

\* buildInviteEndpoint: the slot of this moment is read, then the address is asked for.
Ask(a) ==
  /\ stage[a] = "idle"
  /\ \A b \in Attempt : b < a => stage[b] # "idle"
  /\ stage' = [stage EXCEPT ![a] = "asked"]
  /\ \E now \in slot..MaxSlot :
       /\ slot' = now
       /\ invite' = [invite EXCEPT ![a] = [NoInvite EXCEPT !.slot = now]]
  /\ UNCHANGED <<choiceVars, listeners, otherPrograms, rooms, acceptFailed>>

NoAddress(a) ==
  /\ stage[a] = "asked"
  /\ stage' = [stage EXCEPT ![a] = "failed"]
  /\ UNCHANGED <<choiceVars, besidesPortVars>>

\* prepare_room_invite begins: the last port is read under its lock, which is given back.
ReadLastPort(a) ==
  /\ stage[a] = "asked"
  /\ stage' = [stage EXCEPT ![a] = "binding"]
  /\ lastRead' = [lastRead EXCEPT ![a] = lastSuccessfulPort]
  /\ crossed' = (crossed \/ \E b \in Attempt : Choosing(b))
  /\ UNCHANGED <<lastSuccessfulPort, activeServer, tried, bound, reused, besidesPortVars>>

\* One bind of bind_server: of the next candidate, or of any port the system has left.
BindServer(a) ==
  LET ports == Candidates(lastRead[a])
      next  == tried[a] + 1
  IN  /\ stage[a] = "binding"
      /\ \/ /\ next \in DOMAIN ports /\ ~Free(ports[next])
            /\ tried' = [tried EXCEPT ![a] = next]
            /\ UNCHANGED <<stage, bound, reused>>
         \/ \E p \in Port :
              /\ Free(p)
              /\ IF next \in DOMAIN ports THEN p = ports[next] ELSE p \in EphemeralPort
              /\ bound' = [bound EXCEPT ![a] = p]
              /\ reused' = [reused EXCEPT ![a] = next \in DOMAIN ports /\ p = lastRead[a]]
              /\ stage' = [stage EXCEPT ![a] = "bound"]
              /\ UNCHANGED tried
      /\ UNCHANGED <<lastSuccessfulPort, activeServer, lastRead, crossed, besidesPortVars>>

\* Slip: a last port that is known is kept.
RecordPort_FirstOnly(a) ==
  /\ stage[a] = "bound"
  /\ stage' = [stage EXCEPT ![a] = "recorded"]
  /\ lastSuccessfulPort' = IF lastSuccessfulPort = NoPort THEN bound[a] ELSE lastSuccessfulPort
  /\ UNCHANGED <<activeServer, lastRead, tried, bound, reused, crossed, besidesPortVars>>

\* The second lock section: the port that was bound is the last one.
RecordPort(a) ==
  /\ stage[a] = "bound"
  /\ stage' = [stage EXCEPT ![a] = "recorded"]
  /\ lastSuccessfulPort' = bound[a]
  /\ UNCHANGED <<activeServer, lastRead, tried, bound, reused, crossed, besidesPortVars>>

\* Slip: the server that was active is kept although there is a new one.
Activate_KeepsActive(a) ==
  /\ stage[a] = "recorded"
  /\ stage' = [stage EXCEPT ![a] = "listening"]
  /\ activeServer' = IF activeServer = NoPort THEN bound[a] ELSE activeServer
  /\ UNCHANGED <<lastSuccessfulPort, lastRead, tried, bound, reused, crossed, besidesPortVars>>

\* The third lock section, with the server that was active dropped.  After it the
\* mapping is awaited.
Activate(a) ==
  /\ stage[a] = "recorded"
  /\ stage' = [stage EXCEPT ![a] = "listening"]
  /\ activeServer' = bound[a]
  /\ UNCHANGED <<lastSuccessfulPort, lastRead, tried, bound, reused, crossed, besidesPortVars>>

\* The protocols in order of preference; none on a machine without a prober.
SelectProtocol(probe) ==
  CASE "pcp" \in probe     -> {"pcp"}
    [] "nat-pmp" \in probe -> {"nat-pmp"}
    [] OTHER               -> probe

\* The leases the router may grant: none, if it does not answer in time.
MapTcpPort(protocols) == {NoPort} \cup {e \in ExternalPort : protocols # {}}

\* A failed probe counts as one that has found nothing.  What the router does with a
\* lease later is not followed.
PrepareTcpMapping == UNION {MapTcpPort(SelectProtocol(probe)) : probe \in SUBSET Protocol}

BuildInvitePayload(port, expirySlot, lease) ==
  IF lease # NoPort
  THEN [endpointScope |-> "public-mapped-ipv4", port |-> lease, slot |-> expirySlot]
  ELSE [endpointScope |-> "private-lan-ipv4", port |-> port, slot |-> expirySlot]

PrepareInvite(a) ==
  /\ stage[a] = "listening"
  /\ \E lease \in PrepareTcpMapping :
       invite' = [invite EXCEPT ![a] = BuildInvitePayload(bound[a], @.slot, lease)]
  /\ stage' = [stage EXCEPT ![a] = "prepared"]
  /\ UNCHANGED <<choiceVars, listeners, otherPrograms, slot, rooms, acceptFailed>>

\* start_host_session takes the room in, and a thread is started on the server that is
\* active by now; the room stays when that fails.
StartRuntime(a) ==
  /\ stage[a] = "prepared"
  /\ invite[a] \notin rooms
  /\ rooms' = rooms \cup {invite[a]}
  /\ \/ /\ listeners' = [listeners EXCEPT ![activeServer] = @ + 1]
        /\ stage' = [stage EXCEPT ![a] = "started"]
     \/ /\ stage' = [stage EXCEPT ![a] = "failed"]
        /\ UNCHANGED listeners
  /\ UNCHANGED <<choiceVars, otherPrograms, slot, invite, acceptFailed>>

DuplicateRoom(a) ==
  /\ stage[a] = "prepared"
  /\ invite[a] \in rooms
  /\ stage' = [stage EXCEPT ![a] = "failed"]
  /\ UNCHANGED <<choiceVars, besidesPortVars>>

Proceed(a) ==
  \/ NoAddress(a)
  \/ ReadLastPort(a)
  \/ BindServer(a)
  \/ RecordPort(a)
  \/ Activate(a)
  \/ PrepareInvite(a)
  \/ StartRuntime(a)
  \/ DuplicateRoom(a)

\* The loop of the listener thread ends with the first error of accept.
AcceptFails ==
  /\ \E p \in Port : listeners[p] > 0 /\ listeners' = [listeners EXCEPT ![p] = @ - 1]
  /\ acceptFailed' = TRUE
  /\ UNCHANGED <<choiceVars, otherPrograms, slot, rooms, stage, invite>>

\* Other programs keep the ports they have.
PreparationInit ==
  /\ lastSuccessfulPort = NoPort
  /\ activeServer = NoPort
  /\ listeners = [p \in Port |-> 0]
  /\ otherPrograms \in Occupied
  /\ slot = 0
  /\ rooms = {}
  /\ stage = [a \in Attempt |-> "idle"]
  /\ lastRead = [a \in Attempt |-> NoPort]
  /\ tried = [a \in Attempt |-> 0]
  /\ bound = [a \in Attempt |-> NoPort]
  /\ reused = [a \in Attempt |-> FALSE]
  /\ invite = [a \in Attempt |-> NoInvite]
  /\ acceptFailed = FALSE
  /\ crossed = FALSE
=============================================================================
