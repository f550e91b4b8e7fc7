# Pivi: specifications of the host runtime and its clients

Pivi is a desktop voice application without a server. The member who opens a
room runs the *host runtime* inside their own process (Rust, Tauri); the other
members' windows (React/TypeScript) reach it over the network. Media flows
between the windows over WebRTC; everything that decides *who is in the room, who
may manage it, and who hears of it* goes through the host runtime. These modules
specify that control plane, how a window gets into a room, and what goes on between
the windows once they are in it. Paths below are relative to the repository.

## 1. Inventory

| part | code | state | operations | hard behaviour |
|---|---|---|---|---|
| room state | `src-tauri/src/room_state.rs` | `host_id`, `members` (role, server-muted flag) | add, remove, mute, transfer | the host is stored twice, as `host_id` and as a role |
| host runtime session | `src-tauri/src/host_runtime_session.rs`, with `auth.rs`, `room_broadcast.rs`, `webrtc_router.rs` | room, event log, `next_sequence`, `banned_members` | start, join, relay, mute, kick, ban, transfer, read events | log and table have to agree; one or two events per call |
| control plane, requests | `src-tauri/src/control_runtime.rs` | a thread per connection | one request, one answer; management requests test `is_host` first | two lock acquisitions per request; client timeouts; lost answers |
| control plane, event stream | `control_runtime.rs` `handle_websocket_event_stream`, `src/lib/controlSession.ts` | the thread's `last_sequence`, the client's `lastSequence`, socket, timer | subscribe, push, dispatch, reconnect | two cursors, lost frames, resubscription |
| owner's window | `createControlSession`, Tauri commands in `lib.rs` | `lastSequence`, poll in flight | poll every second, local commands | overlapping polls; commands with no `is_host` test |
| joiner's window | `src/App.tsx` | appState, member list, peer sessions | join, apply events, leave | increments between snapshots; removal while disconnected |
| room preparation, NAT mapping | `room_preparation.rs`, `nat_mapping.rs`, `ws_server.rs` | last port, active listener | bind, map, build invite | ports held by earlier rooms, timeouts, two locks taken one after the other |
| invite code, join resolution | `invite_code.rs`, `lib/joinRoom.ts`, `endpoint_probe.rs` | none | encode, decode, expire, probe | arithmetic modulo 1024 |
| WebRTC session | `media/webrtcSession.ts` | negotiation, checking timer | offer, answer, candidate, restart | unordered asynchronous handlers, crossing offers |
| relay fallback | `media/relayFallback.ts`, `App.tsx` | relay peers, retried peers | ICE state changes | timer against a late connection |
| file transfer | `media/fileTransfer.ts`, `App.tsx` | assembler per sender, timers, queue | frames, timeout | frames of two senders relayed over one channel |
| local audio, hotkeys | `media/useLocalAudio.ts`, `media/useHotkeys.ts`, `hotkeys.rs` | track, mute flag, bindings | acquire, mute, bind, unbind | state captured before an await |
| host migration | `host_migration.rs` | a state machine | initiate, ready, broadcast, complete, fail | a timeout looked at late; not wired up |
| discovery, old signaling | `discovery.rs`, `signaling.rs` | a map | | reached by their own tests only |

How they interact. The session manager's mutex is the only state shared between
threads of the host runtime: connection threads, event stream threads and the
owner's window (Tauri commands) all call it. Nothing else flows from the room to
a window except the event log. A joiner's window reads it through a WebSocket,
the owner's by polling. WebRTC signals are events with a target.

What makes each part correct:

- *session*: one host, stored consistently; a log whose numbers have no gaps and
  from which the room can be rebuilt; bans that last; signals between members
  only; a removed member is told first.
- *request side*: every interleaving of threads is a sequence of whole session
  operations; authority is not used long after it was lost; nobody who was told
  it joined misses its own removal.
- *event stream*: every event for a window is handled once and in order across
  reconnections; the window always shows a state the room was really in; a
  removed member's window leaves.
- *owner's window*: overlapping polls pass nothing over and do no lasting harm.
- *room preparation, entering a room*: the code shown leads to a port somebody
  accepts on; what is confirmed is what is sent; no screen is left standing.
- *invite code*: a code leads to its own room or nowhere, for as long as it says.
- *peer session, relay fallback*: ends that have settled agree on one negotiation;
  an outage is repaired or shown; relay mode is left when the link is back.
- *data*: a picture is shown whole; what one member sends keeps its order.
- *local audio, hotkeys*: a mute holds, a microphone is released, the keys do what
  the settings say and are given back.

## 2. Modules

| module | models | interacts with |
|---|---|---|
| `RoomState` | operators for the methods of `RoomState`, from member table to member table | used by `HostRuntimeSession` |
| `HostRuntimeSession` | one session: `hostId`, `members`, `nextSequence`, `events`, `bannedMembers`; one action per manager method | extends `RoomState` |
| `ControlRuntime` | connection threads, their clients and the owner's local commands, over the session | extends `HostRuntimeSession`, implements its `SessionSpec` |
| `RoomFeed` | abstract: one growing log; readers that enter somewhere and are handed the entries addressed to them in order, once each | none |
| `RoomWindow` | operators for what an event does to a window's member list and peer sessions | extends `RoomState` |
| `EventStream` | windows of joiners, their control sessions, sockets and server threads, over the session | extends `HostRuntimeSession` and `RoomWindow`, implements `RoomFeed!FeedSpec` |
| `HostPolling` | the owner's window and its overlapping polls, over the session | extends `HostRuntimeSession` and `RoomWindow` |
| `InviteCode` | the code: layout, checksum, base 32, normalisation, expiry | pure operators |
| `InviteExchange` | a code made in one window, copied by a person, resolved in another at another time | extends `InviteCode` |
| `RoomPreparation` | ports, the active server, listener threads, the router, several creations | composed into `RoomEntry` |
| `RoomEntry` | a window creating rooms, resolving codes, confirming, leaving | extends `RoomPreparation` |
| `Hotkeys` | the global shortcuts held by the application | composed into `LocalControls` |
| `LocalControls` | microphone and keys of one window: two effects with asynchronous calls, and key events | extends `Hotkeys` |
| `DataRelay` | chat and pictures over the owner's window, with the assemblers | none |
| `PeerSession` | negotiation, connectivity and relay fallback between the owner's window and a joiner's | none |
| `HostRuntimeSessionProofs`, `ControlRuntimeProofs`, `EventStreamProofs`, `HostPollingProofs`, `RoomEntryProofs`, `LocalControlsProofs`, `DataRelayProofs`, `PeerSessionProofs` | theorems | each extends the module it is named after; see section 5 |
| `MC...` | small sets of members, connections, keys, endpoints, files; symmetry | |

### How state and actions correspond to the code

**Session.** `RoomState.members` is a function from the ids in the room to
`[role, serverMuted]`. A manager method holds the mutex from its first to its last
line, so it is one action; a method that fails before it changes anything is not
a step (`ControlRuntime` models the error answer). Room ids, names and times are
left out: sessions of different rooms share nothing but the mutex. Invite codes
are reduced to what `authorize_join` compares: the decoded payload, or
`BadInvite` when decoding fails for any reason (length, characters, checksum,
expiry). `start_host_session` is the initial state; nothing ever removes a
session. `PushOne` and `PushTwo` are the blocks that append one or two events and
bump `next_sequence` as the code does. `MemberRemoved` is the targeted notice,
`MemberLeft` the broadcast.

**Requests.** A connection is `idle`, `received` (the thread has read a line),
`authorised` (a management request has passed `is_host`; the mutex is free) or
`replied`. `Perform` is the operation a request asks for and `Refused` the
disjunction of its error cases; `RefusalCode` is the code of the answer.
The client waits no longer than its read timeout (`TimeOut`), after which the
thread's answer goes to nobody (`ReplyLost`) although the operation was or will
be carried out. The timeout may strike at any moment: the code bounds no step of
the thread. `OwnerCommand` is a Tauri command of the owner's window, which calls
the manager with no `is_host` test.

**Event stream.** `Join` and `EnterChannel` are the two ends of
`handleConfirmJoin`, with anything in between. `SocketOpens` includes the server's
reading of Subscribe, since `lastSequence` cannot move before it. `Fetch` and
`SendFrame` are the loop of `handle_websocket_event_stream`: the batch is read
under the mutex and sent after it is released. `Dispatch` is `onmessage` with all
of `applyRuntimeEvent`, including `handleLeave` on the window's own removal.
`SocketCloses` covers a failed connection attempt and a lost connection, and sets
the timer as `onclose` does. `ResetWindow` is `handleLeave`. A window that is
killed looks the same from the runtime's side as one that leaves. `dispatched` is
a history variable: the sequence number `onMessage` was given last.
Left out: frames the old thread of a dead socket writes (nobody reads them), and
the closing of peer sessions on ICE state `closed`, which a connection
reports only after the window itself has closed it.

**Polling.** `PollStarts` is `syncNow` up to its `await`, reading the cursor;
`PollAnswered` is `get_host_runtime_room_events` on the main thread;
`PollReturns` is the rest of `syncNow` with the whole loop over the answer,
`applyRuntimeEvent` and a possible `handleLeave` in the middle of it included.
`syncNow` does not look at `active`, so an answer is worked off in a window that
has left. Answers may reach the window in another order than they were given.
`handled` and `disordered` are history variables. The module follows one
room: what a window that has left does next is outside it.

**Invite code.** Bits are sequences of 0 and 1, texts are sequences of characters, so
the conversions are what the code computes: the 4+2+2+32+16+10 bit header, the
FNV-1a checksum over the sixteen bytes of the `u128`, the 16 characters, the
look-alikes read as digits, the grouping, and the order in which errors are
reported. The hash is kept modulo 2^14, which loses nothing because only the low 14
bits are used and a multiplication carries upwards only. `IsExpired` is the
comparison of slots modulo 1024. `InviteExchange` adds the window's own
normalisation (`CodeInput.tsx`), the twelve slots of `buildInviteEndpoint`, and a
person who leaves out, replaces or swaps characters or spells the code otherwise.

**Room preparation and entry.** An attempt is one `handleCreateRoom`, its stages the
places where others may come in between. The slot is read (`Ask`) and the address asked
for. `prepare_room_invite` is an async command: it runs on the threads of the async
runtime, and two calls of it interleave between its three lock sections and the binds as
well. So it is cut there: the last port is read (`ReadLastPort`), one port after the other
is tried (`BindServer`, a bind per step), the port that was bound becomes the last one
(`RecordPort`) and its server the active one (`Activate`); then the mapping is awaited
(`PrepareInvite`). `start_host_runtime_session` takes the room in and clones the listener
of whatever server is active at that moment (`StartRuntime`). A port is taken while the
active server, a server that is about to become it, a listener thread's clone or another
program is bound to it. `crossed` records that two attempts were choosing their ports at
one time. A code that
is resolved is `entry[e]`, from `handleCodeComplete` to its answer. A handler that
finishes sets the window's state whatever the window has turned to meanwhile;
`overlapped` records that handlers did overlap. `handleConfirmJoin` sends
`inviteCode` and connects to `pendingJoin`: the two are separate pieces of state.

**Hotkeys and local audio.** `RegisterGlobalHotkeys` has the early returns of
`register_global_hotkeys`: nothing for a key that is no shortcut, one key registered
and the old configuration kept when the second is refused. A run of the
`useHotkeys` effect is an element of `effects`, from `binding` over `bound` and
`subscribed` to `listening`; its cleanup may come at any of these stages. Commands
reach the main thread in the order of the calls. `Acquired` is the answer of
`getUserMedia`, given to the entry it was asked for. Two things about keys are left out. The
effect does nothing for an empty key (`useHotkeys.ts:46`); the settings panel writes
`e.key.toUpperCase()`, which is never empty. And the model compares keys by name where the
code compares the shortcuts the names are parsed to; the panel has one name for a key.
`heldStream` is what
`ensurePeerSession` finds in the closure of the render that started the control
session.

**Data.** `wire` has the frames between the owner and each joiner. `HandleIncomingData`
is one frame at one window: relayed first, then filed under the peer whose channel it
came on. `entry` is the `fileEntriesRef` entry of that peer: the current file and what
the assembler has. A file is a number of chunks; chat ids are timestamps that may
coincide. `mixed` is a history variable: a joiner was sent a chunk that does not
belong to the announcement before it.

**Peer session.** Each handler of `webrtcSession.ts` is cut at the `await` of
`createOffer` or `createAnswer`: `StartOffer`, `RestartIce` and `HandleOffer` leave a
task behind, `OfferIsMade` and `AnswerIsMade` finish it on the connection as it is by
then. Towards the joiner signals keep the order of the log; towards the owner each
is a request of its own, in a set, and may be lost. `HandleIceState` is the handler
of `App.tsx` with the policy of `relayFallback.ts` (`Decide`). What the browser's
connection does with a description that does not fit its state is modelled from how
the code uses it, and so is when checks start and whether they can succeed.

## 3. Runs

| run | question | result |
|---|---|---|
| `session_core` | do table, host id, ban set and log agree under every sequence of manager calls? | pass |
| `control_core` | does the control plane refine the session, is the race between `is_host` and the operation bounded, is a kick that overtakes JoinAccepted noticed? | pass |
| `stream_core` | with failing sockets, is a window right up to the event it handled last, is the wire exactly the gap; does the channel implement the abstract feed; does every event arrive; does a removed member get out? | pass |
| `polling_core` | with two polls under way, is a window that has caught up right, can the cursor pass an event over, and is every event for the owner handled and acted on, in whatever order the answers come? | pass: replaying a stretch of the log does no lasting harm as long as they come in order |
| `invite_core` | does every wrong character and every swap fail, is every spelling accepted, for how long, and what follows? | pass: except where a hyphen is taken for a character; read for its hour, then refused for half a cycle of slots |
| `invite_ExpiredCodesStayRefused` | "past the expiry the decoder refuses the connection" (`invite-shortcode.md:67`, TC-ISC-04) | violated: read again half a cycle of slots after the expiry |
| `entry_core` | which port serves which room, what does the window confirm and show, when two creations and a code are under way? | pass: right as long as handlers do not overlap; a confirmation is right always; last port and active server part only where two calls cross between their locks |
| `entry_LastPortIsPreferred` | "if the port is not in conflict, go on with it" (TC-ISC-11, `test-invite-shortcode.md:107`) | violated: the application's own former server holds it |
| `controls_core` | do mute, keys and microphone hold when the answers come after the window has gone, or come back? | pass: only a run of `useHotkeys` that was cleaned up with its subscription pending acts by the old keys |
| `controls_SessionsCarryTheMicrophone` | "adds local audio tracks to the peer connection" (`webrtcSession.test.ts:101`) | violated: the session is made with the stream of a render that had none |
| `files_core` | are pictures whole and messages in order over the owner's relay, with channels that close and timers that fire? | pass: except where two pictures were mixed on one channel |
| `peers_core` | do the ends come to agree, does an outage end, is relay mode left in time? | pass: except after a lost request or an offer that was given up |

`CaughtUpIsRight` speaks of behaviours in which no answer has overtaken an earlier
one; that it needs this, TLC shows when the condition is dropped: with three polls
and answers out of order a window handles 3, then 2 again, then 4, and shows the
room without 3 although nothing newer is left to read. Which order the webview
keeps is outside this code. The other conditions (`overlapped`, `acceptFailed`,
`crossed`, `missed`, `mixed`, `lost`, `replaced`) each name a behaviour in which the code
falls short of the property (section 4); outside it the property holds in full. A property
with such a condition does not catch the hazard the condition names, only what lies
beside it; the hazards in PROJECT.json say so one by one.

### Bounds, and why they are enough

- *Members*: the owner `o` and two others. Two is the least number for a transfer
  away from the owner and a removal by somebody else, and for signals between
  members neither of whom is host. The two are interchangeable where symmetry is
  used.
- *`MaxEvents`*, the length of the log, is the only bound on the session (a call
  whose events do not fit is disabled, which is why the configurations switch
  off the deadlock check). Nine events in `session_core` hold a join, a transfer,
  a kick or ban and a rejoin in any order; six in `control_core`
  hold a join, a transfer and a removal beside the initial event; seven in
  `stream_core` hold a join, a removal and a rejoin of the member whose window is
  modelled. One window suffices there: windows have nothing in common but the log, and
  the other member acts on it without one.
- *Connections*: two, the least number between which requests can race.
- *`MaxDrops`*: two lost sockets, so that a reconnection can itself be lost.
- *`MaxInFlight`*: two polls, the least number that overlap and overtake one another. A
  log of six events holds a join, a transfer and the removal of the owner.
- *`ClientRequests`, `OwnerCommands`*: one request of every kind and the pairs
  that race, rather than all combinations.
- *`Endpoint`, `StartSlot`, `Moment`*: three endpoints: a private one whose code has
  zeros and ones to be misread, one whose code passes when a hyphen of it is taken for
  a character, and a mapped one; a start before which and one after which the slots
  wrap, and each side of every limit of the expiry.
- *`Attempt`, `Entry`*: two creations and one code (besides a confirmation) suffice
  for one handler to finish after another has begun, and for two calls of
  `prepare_room_invite` to cross; a third creation would show the reuse of a port that
  such a crossing leaves behind, which `ReuseTakesACrossing` covers for any number. Two
  pool ports, the first of which another program holds, and one ephemeral port for the
  pool to run out; two slots for two rooms to have different ids.
- *`MaxEffects`*: three runs of the effect, so that a run can be cleaned up while
  both the one before and the one after are not finished. *`MaxInbox`*: one key event
  on its way; a second one is handled like it, later.
- *`File`, `TotalChunks`*: two pictures of different senders, one in two chunks, so
  that they can be mixed, and an empty one. One channel closes.
- *`MaxOffers`*: five offers: the first, and a restart by either end before and after
  an interruption. One lost request, one interrupted link. When a restart is due
  and the offers are used up, a link is not reported as failed.

Log entries are compared with the *first n events* reading `MemberAsOf`,
`HostAsOf` and `MutedAsOf`: the latest event that speaks about a member decides.
That is how a window uses the log, and it is independent of how the runtime
updates its table.

### Fairness

The safety properties need none. `FairStreamSpec` assumes weak fairness, per window, of:
the end of a connection attempt, the server thread's rounds (a loop with
a 100 ms sleep), the sending of a fetched event, the dispatch of a frame (the
browser's event loop), and the reconnect timer. No fairness is given to
operations, joins, leaving, or failures; failures are bounded by `MaxDrops`,
without which a socket that fails for ever would justify silence. Runs under
fairness use no symmetry. `FairPollingSpec` assumes weak fairness of
the interval while the session is active, of the main thread executing the commands
it was sent, and of promises being resolved; none of the owner leaving or of
anything that happens to the room.

`EntryFairness` assumes that every command a creation awaits returns: the probes and
the mapping have timeouts, and the others do not wait. Resolving a code and joining
get none. `ControlsFairness` assumes that the main thread goes on carrying out
commands and that the promises of a bind and of a subscription are resolved; nobody
has to answer the question for the microphone, press a key or leave.
`SessionFairness` of `PeerSession` assumes that descriptions are made, that signals
which are not lost arrive, and that connectivity checks end one way or the other. The
checking timer gets none: a report of failure does not depend on it.

## 4. Findings

Three runs are expected to be violated.

`controls_SessionsCarryTheMicrophone`. The effect that starts the control session runs in the commit that enters the channel. The
handler it hands to the session is the one of that render, in which `useLocalAudio`
has no stream yet, and `localAudio` is not among the effect's dependencies. Every peer
session is therefore created without a local track, and none is added later. Only
a second room taken without leaving the first starts the control session anew.

`entry_LastPortIsPreferred`. A room made after another never gets the port of that one,
which `invite-shortcode.md:93`, `networking-nat-strategy.md:69` and TC-ISC-11 ask for, to
spare the router a new mapping. `bind_server` tries it while `active_server` still holds
the former server, so the bind fails and the next port of the pool is taken, also if the
former room was never started. The test `should_prefer_last_successful_port_when_available`
sets the last port without a server on it, which is a state the program is not in
(`ReuseTakesACrossing`): the port is reused only where two calls of `prepare_room_invite`
crossed between their locks, left the last port and the active server apart and dropped the
server of the last port.

`invite_ExpiredCodesStayRefused`. `is_expired` compares slots modulo 1024 and calls the
half cycle behind the expiry expired. From the 512th slot after its expiry, almost 43 hours
later, an expired code is read as valid again for another half cycle, although
`invite-shortcode.md:67` and TC-ISC-04 have it refused.

Disagreements met while modelling which no run singles out. The models contain
them, and the properties say where they begin:

1. `transfer_host` promotes a server-muted member and keeps the flag, although "The
   host cannot be server-muted" (`room_state.rs:108`); as Host it can no longer be
   unmuted.
2. Muting the Host returns success and is broadcast, while the table is unchanged:
   the exception of `LogTellsServerMuted`.
3. Between `is_host` and the operation another thread may transfer the role;
   `AuthorityWasHeld` shows how far the race can go: the deposing event is in the
   log and newer than the test.
4. `MemberLeft` leaves the peer session open until the next RoomState, and for good if
   the member rejoins before it (`ApplyToPeers`; `signaling-webrtc.md:89` says it
   triggers the cleanup).
5. Nobody tells the runtime that a member has left (`host-runtime-design.md:67`).
6. `stop` of the owner's control session neither cancels a poll in flight nor ends the
   loop over an answer: members and peer sessions can appear in a window that has left.
7. `last_successful_port` and `active_server` are set under a lock each, by commands that
   run on several threads: calls that overlap can leave them of different servers
   (`crossed` in `LastPortIsTheServers`).
8. One failed `accept` ends the listener thread for good (`acceptFailed`).
9. When the listener can not be started after `start_host_session` the room stays, and
   its id stays taken (`StartRuntime`).
10. A run of `useHotkeys` that was cleaned up while its subscription had not come back
    cannot unlisten yet, and its handler does not ask whether it was cancelled
    (`useHotkeys.ts:55`-`64`): a key pressed before the keys are unbound is acted on by
    its old meaning, although the settings say something else by then
    (`OnlyLateListenersMishear`).
11. A resolution or creation that finishes late takes a window out of the channel it is
    in by then, or replaces the code it shows (`overlapped` in `ChannelShowsItsInvite`).
12. When both ends restart at once the joiner's offer is given up at both ends; the ends
    may answer different offers, and a window may go on saying p2p over a dead link
    (`replaced`). So it may after one lost request (`lost` in `OutageEnds`).
13. The chunks of two pictures on the hub's one channel to a joiner are mixed (`mixed`). A
    picture without a byte is never complete, or is completed by a chunk of another;
    of two messages with the same millisecond as id the second is not shown.
14. A mute while the microphone is being acquired does not reach the track (`missed`).
15. The field of the joiner keeps 16 characters and drops hyphens, so a hyphen that is taken
    for a character moves what follows it and cuts the last character off; about one code
    in 160 has such a reading that the 14 bits of the checksum let pass, and the window
    resolves another address (`HyphensMisread` in `MiscopiesAreNoticed`).

## 5. Proofs

Checked by TLAPS for every value of the constants: any set of members, connections,
requests, windows, ports, codes, attempts, keys, files and chunks, any bound on the log,
on sockets lost, polls, entries, offers and interruptions. Each safety property a run
checks is stated by a theorem, except for the two of `InviteExchange`; and of each property
that a run checks under fairness, except for the liveness of `RoomFeed`, the part that is
not about fairness is proved (*What liveness rests on*, below).

Assumptions, all named in the modules and evaluated by TLC in the runs:
`SessionAssumption` (the owner is a member id, the room's invite is one of the invites,
the model values are distinct from ids), `ControlAssumption` (requests have the shape the
code parses), `StreamAssumption` (a client is a member other than the owner; `Absent` is
no sequence number), `PollingAssumption`, `ControlsAssumption` (settings consist of keys;
"no track" is no track), `RelayAssumption` (joiners are not the owner, a file has a sender
and a number of chunks, timestamps are not file ids), `EntryAssumption` (rooms of
others are told apart from the window's own by their payload), and the bounds of
`PeerSession` being numbers.

**Session** (`HostRuntimeSessionProofs`). The inductive invariant `SessionInv` conjoins the
type invariant, `OneHost`, `SequenceIsPosition`, `LogTellsMembership` and `LogTellsHost`
(together `LogTellsRoom`), `SignalsOnlyBetweenMembers`, `BanIsForGood` and
`RemovalIsExplainedFirst` with two strengthenings: `BannedAreOut` (no banned id is a
member, or else a RoomState snapshot would show one) and `BannedAreRemembered` (whoever
the log calls banned is in the set that join looks at). A property of the log
is a property of each prefix: `MemberAsOfStep`, `HostAsOfStep` and `MutedAsOfStep` say what
the newest event adds to a reading, `AsOfCongruent` that a reading of a prefix does not
depend on the rest, and `OnePush`, `JoinStep`, `RemoveStep` treat the three shapes a
call's events can have. `LogInv` adds what `LogDeterminesServerMute` and the readers of
the log need: events with a target say nothing about the room
(`PrivateEventsAreSilent`), a member arrives with a clear flag (`ArrivalsAreFresh`), and
whoever a prefix of the log calls host or muted it calls a member
(`ReadingsAreOfMembers`). Two lemmas carry over to both kinds of window: `SilentStretch`
(skipping what is private to others changes no reading) and `ApplyFollows` (what
`applyRuntimeEvent` does to a list is what the event says). Three theorems are about the
shape of the log and of its steps. `NobodyDisappears`: whatever takes a member off the list
of a reader stands right behind the notice for that member (`JoinTells` for the snapshot
of a join, `RemovalTells` for the two events of a kick or ban). `HandoversAreInOrder`: who
is named as the previous host was the host as of that place. `HostsFlagIsFrozen`, an
action property: a server-mute flag changes only by a logged request about somebody who
is not the host, so a member that is promoted with the flag set (finding 1) keeps it as
long as it is the host.

**Requests** (`ControlRuntimeProofs`). `ControlImplementsSession` shows that every step of a
thread, client or owner is one session operation or a stutter. `ControlInv` adds that
numbers handed out never run ahead of the log, that a thread past its test acts for the
host or somebody deposed since, and that an accepted member is in the room or its stream
carries its notice; the last two rest on `SessionStepIsLogged`: a step that ends a
membership or a host role has logged it in the same step. `HostsManageTheRoom` speaks of
effects: when the host, the bans or a member that was there change, the step is a command of
the owner's window or the one call of a management request whose caller was the host at some
length of the log since the test. Joins and signals have no such effect
(`OthersDoNotManage`); `AuthorityWasHeld` names the event that deposed the caller, and
`HandoversAreInOrder` says that the caller did hold the role before it (`TestsAreOfHosts`).

**Event stream** (`EventStreamProofs`). `StreamInv` says of each window how its cursor, the wire
and the thread's cursor lie on the log: the wire is what is visible between the two
cursors and nothing else (`WireFillsTheGap`), a fetched batch continues it
(`BatchIsNext`), a server thread is never behind its client (`ServerIsAhead`), the offer
of a join is the snapshot logged with it (`OfferIsSnapshot`), and the window shows the
room as of its cursor (`WindowIsInLog`). `WindowsShowTheRoom` then needs only that
the events between two dispatched ones are private to others. `StreamImplementsFeed`
is the safety part of the refinement: each step of room, socket or window is a step of
`RoomFeed` or a stutter. Its liveness part is checked by `stream_core`.

**Owner's window** (`HostPollingProofs`). `PollsInv` says that everything up to where a poll was
made has been handled, and that its answer is the log from there on without a gap;
`CursorSkipsNothing` follows whatever the order of the answers. `CaughtUpWindowIsRight` is the theorem about replays. While answers come in order,
`ReplayInv` says that a later answer contains whatever an earlier one does beyond its own
start (`AnswersAfter`), so that an answer reaches at least as far as the window has got
(`PollKeepsUp`). Working it off, the window passes through lists the room never had;
`ReplayedUpTo` describes them: of a member the answer has spoken of, the list shows what holds
as of the place reached, of any other what it showed before. At the end of the answer
the second kind was not spoken of since either, so the whole list is as of that place.
This needs `JoinersWereOut`, which extends `LogInv`: a `MemberJoined` is never about a
member who is in the room already, for `setMembers` ignores one it shows.

**Entering a room** (`RoomEntryProofs`). `LastPortFollowsTheServer` and `ReuseTakesACrossing` from
`PortInv`: as long as no two attempts were choosing their ports at one time, one attempt
chooses at most, and where it stands says how the two fields are related (`OneChooses`):
before `RecordPort` the last port is that of the active server and what the attempt has
read, so that the bind of `bind_server` cannot succeed on it; between `RecordPort` and
`Activate` it is the port just bound.
`ConfirmationIsSound` is inductive as it stands: a step that ends on the confirmation
screen leaves code and pending join alone, sets both to one room, or clears the pending
join. `OwnRoomStaysServed` and `ChannelCodeIsItsRooms` rest on `EntryInv`: as long as
nothing has overlapped, one handler is at work at a time and the screen tells which
(`OneHandlerAtATime`), so the server that is active when a creation starts its runtime is
the one it bound (`OwnServerIsActive`); unless `accept` has failed, a room that was
started keeps a listener on its port and its invite to itself (`StartedIsServed`).

**Local audio and hotkeys** (`LocalControlsProofs`). `MicrophoneInv`: an entry asks for the
microphone once, and not any more when it has a track (`OneAnswer`); the mute its call
has captured is the present one unless a change is recorded as missed
(`AnswerKnowsTheMute`). `KeysInv`: the last run of the effect is the one not cleaned up,
a bind waits once, and as long as the run is binding the last command on its way is its
bind, after which none is (`BindIsTheLastCommand`). So a run that listens has its
keys registered, and what events are classified by is what is set. `EventsMeanWhatIsSet`
is about every run an event will wake: one that was not cleaned up hears what the settings
say (`EventsAreRight`), and one that was has a subscription that has not come back
(`LateListenersWait`).

**Data** (`DataRelayProofs`). `RelayInv`: every frame on a wire was sent by whom it names
(`NothingIsMadeUp`), a picture that has been announced further on is announced nowhere behind
(`AnnouncedOnce`), wire and pane keep the sender's order and the pane is behind the wire (`WireInOrder`, `PaneInOrder`), and
unless a joiner was sent mixed pictures the chunks in an entry and on the wire continue
each other (`ChunksFollow`). Every action comes down to three things done to a channel:
a window speaks on it, takes from it, or loses it; each is proved once (`Speaks`, `Takes`,
`Loses`).

**Peer session** (`PeerSessionProofs`). `RelayInv`, for `RelayComesLast`: the owner begins, and
a checking timer is set only while a window checks (`TimerWatchesChecking`).
`NegotiationInv`, for `RestFindsThemAgreed`: an offer that is still being made is nowhere
else, an offer and its answer are under way once (`BookInv`, `OfferedOnce`), nothing is
pending in a stable end (`NothingPendsAtRest`), and, unless a request was lost or an offer
given up, what one end has pending is on its way to the other, or being answered
there, or its answer is on the way back, or it is the joiner's offer that an
offer of the owner is about to meet (`OnTheWayToAgree`).

**What liveness rests on.** Under fairness TLC checks that events arrive, that removed
members get out, that preparations and outages end and that keys are given back. TLAPS
cannot reason about fairness, but about the two facts such an argument starts from: that
what is waited for is never stranded, and that steps only go on towards it.

- *Event stream*: `ReadersHaveAStep` (with an event left to read, the socket is being made,
  or it is open and there is a frame, a batch, or something for the server's next round)
  and `WindowsOnlyGoOn` (each fair step advances its window, and nothing but the loss
  of its own socket takes it back); both follow from `StreamInv`. `NoticesAreNotMissed`
  says that the notice of a removed member lies beyond the place its window starts or
  reads from, because it is logged with the removal (`RemovalIsBeyond`), and stays there
  until it is dispatched. `OwnMemberIsShown` combines it with `NobodyDisappears`: by the
  time the departure is dispatched the window has dispatched the notice and left.
- *Owner's window*: `OwnersNoticeIsNotMissed` from `NoticeInv`: who is not in the room was
  sent the notice, and a window that has handled it is out of the channel. That holds
  however the polls overlap, although a late answer sets the cursor back.
- *Preparation*: `PreparationIsUnderWay` and `PreparationsOnlyGoOn`: the screen of the
  preparation always has an attempt behind it; each step takes an attempt nearer to its
  end, or to the next of the finitely many ports it tries, and its end takes the screen
  away.
- *Keys*: `KeysAreOnTheirWayBack` and `RunsOnlyGoOn`: outside the channel the unbind is the
  last command on its way, or was carried out with nothing after it, and the commands only
  get fewer.
- *Outages*: `FailuresAreAnswered` and `OutagesHaveNoDeadEnd`: whoever sees the link fail has
  a restart under way or says relay, and when nothing is under way, lost or given up,
  only the relay is left, because by `OnTheWayToAgree` both ends are at rest.

**Expiry.** `CodesLastAnHour` (in `RoomEntryProofs`, over `Code == INSTANCE InviteCode`) is the
arithmetic of an invite's life for every slot and every delay, also a negative one:
`is_expired` refuses a code made twelve slots ahead exactly when the delay is 13 to 523
slots modulo 1024.

Only model-checked:

- `MiscopiesAreNoticed` and `CodesHoldTheirHour` of `InviteExchange`, for the endpoints and
  slots of `invite_core`. The slots of the second are `CodesLastAnHour`, which is proved;
  otherwise both rest on what conversions, hash and base 32 compute, which are
  recursive functions over bits and characters: what they give for every input needs
  induction over data, or the hash unfolded into sixteen multiplications modulo
  2^14, neither of which the provers here can do.
- All liveness, here and in the refinement of `RoomFeed`: properties under fairness or
  about ENABLED are out of TLAPS's reach.

## 6. Not modelled, and the plan

See `components` in PROJECT.json for every part. Not modelled, with the reason:

- *Host migration* (`host_migration.rs`), *discovery* and the *old signaling*: nothing
  outside their own tests constructs them. The application hands a room on with
  `transfer_host`, which is modelled.
- *Screen sharing, speaking marks, volume*: wrappers of browser interfaces with a flag
  each. *User interface*: layout.
- *ICE candidates*, `addTrack` for a shared screen and the closing of a session, in
  `PeerSession`: a candidate that is refused takes away a way for the checks to
  succeed, and `LinkFails` is possible anyway.
- `TransferTaskQueue`, `sendImageFile` and `sendTextMessage` of `fileTransfer.ts`: only
  tests call them.
- *Endpoint probes* of `resolveJoinRoom`: they decide about a notice and the path that is
  shown first, not about the join.

What is left: the counting arguments that would turn the steps under *What liveness rests on*
into a bound on their number, which are inductions over the log and over what is under
way; the round trip of the invite code's conversions; and `host_migration.rs`, once the
application uses it.
