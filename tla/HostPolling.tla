----------------------------- MODULE HostPolling -----------------------------
(***************************************************************************)
(* How the owner's own window follows the room: createControlSession in    *)
(* controlSession.ts, with applyRuntimeEvent and handleLeave of App.tsx.   *)
(*                                                                         *)
(* Every second the window asks the session manager in its process for     *)
(* what is newer than lastSequence, whether or not the previous answer has *)
(* come back.  The commands run one after the other on the application's   *)
(* main thread; whether their promises are resolved in that order is the   *)
(* business of the webview.  An answer is worked off in one go: no other   *)
(* callback of the window runs between its events.                         *)
(*                                                                         *)
(* A room is followed until the window leaves it.  The runtime and the     *)
(* room outlive that.                                                      *)
(***************************************************************************)
EXTENDS HostRuntimeSession, RoomWindow, SequencesExt

CONSTANTS
  Unanswered,    \* the answer of a poll still with the main thread
  MaxInFlight    \* bound on the polls that are under way at one time

ASSUME PollingAssumption == MaxInFlight \in Nat \ {0}

VARIABLES
  inChannel,     \* appState is "channel": the control session is active
  lastSequence,  \* lastSequence of the control session
  polls,         \* calls of getEvents under way, in the order they were made
  view,          \* the member list the window shows
  peers,         \* the members the window holds a peer session for
  handled,       \* history: log positions given to onMessage
  disordered     \* history: an answer has overtaken an earlier one

pollVars == <<inChannel, lastSequence, polls, view, peers, handled, disordered>>
pollingVars == <<hostId, members, nextSequence, events, bannedMembers,
                 inChannel, lastSequence, polls, view, peers, handled, disordered>>

-----------------------------------------------------------------------------
\* Slip: the owner's own notice is not acted on.
Handle_NoNotice(window, msg) ==
  [window EXCEPT !.view  = ApplyToView(@, msg),
                 !.peers = ApplyToPeers(Owner, TRUE, @, msg)]

\* One pass through onMessage, on the parts of the window it changes.
Handle(window, msg) ==
  IF TellsToLeave(Owner, msg)
  THEN [inChannel |-> FALSE, view |-> NoOne, peers |-> {}]
  ELSE [window EXCEPT !.view  = ApplyToView(@, msg),
                      !.peers = ApplyToPeers(Owner, TRUE, @, msg)]

\* Slip: the newest event is handled first.
HandleAll_NewestFirst(window, answer) ==
  LET after[n \in 0..Len(events)] ==
        IF n = 0 THEN window
        ELSE IF Len(events) + 1 - n \in answer
        THEN Handle(after[n - 1], events[Len(events) + 1 - n].message)
        ELSE after[n - 1]
  IN  after[Len(events)]

\* The loop over an answer, which is given here as the set of log positions it is made
\* of.  The loop is not left when one of the events stops the session.
HandleAll(window, answer) ==
  LET after[n \in 0..Len(events)] ==
        IF n = 0 THEN window
        ELSE IF n \in answer THEN Handle(after[n - 1], events[n].message)
        ELSE after[n - 1]
  IN  after[Len(events)]

\* Slip: the cursor is set to the room's newest event, not to the answer's.
LastOf_Newest(answer) == LatestSequence

\* The sequence number of the last event of an answer.
LastOf(answer) == events[CHOOSE i \in answer : \A j \in answer : j <= i].sequence

-----------------------------------------------------------------------------
\* syncNow, called by start and then by the interval.
PollStarts ==
  /\ inChannel
  /\ Len(polls) < MaxInFlight
  /\ polls' = Append(polls, [from |-> lastSequence, answer |-> Unanswered])
  /\ UNCHANGED <<sessionVars, inChannel, lastSequence, view, peers, handled, disordered>>

\* The main thread executes the next command.
PollAnswered ==
  /\ \E i \in 1..Len(polls) :
       /\ polls[i].answer = Unanswered
       /\ \A j \in 1..(i - 1) : polls[j].answer # Unanswered
       /\ polls' = [polls EXCEPT ![i].answer = EventsSince(Owner, polls[i].from)]
  /\ UNCHANGED <<sessionVars, inChannel, lastSequence, view, peers, handled, disordered>>

\* The promise of a poll is resolved; nobody asks whether the session has been
\* stopped in the meantime.
PollReturns ==
  /\ \E i \in 1..Len(polls) :
       /\ polls[i].answer # Unanswered
       /\ disordered' = (disordered \/ i > 1)
       /\ polls' = RemoveAt(polls, i)
       /\ LET answer == polls[i].answer
              after  == HandleAll([inChannel |-> inChannel, view |-> view, peers |-> peers], answer)
          IN  /\ inChannel' = after.inChannel
              /\ view' = after.view
              /\ peers' = after.peers
              /\ lastSequence' = IF answer = {} THEN lastSequence ELSE LastOf(answer)
              /\ handled' = handled \cup answer
  /\ UNCHANGED sessionVars

\* handleLeave: stop, and an empty window.
OwnerLeaves ==
  /\ inChannel
  /\ inChannel' = FALSE
  /\ view' = NoOne
  /\ peers' = {}
  /\ UNCHANGED <<sessionVars, lastSequence, polls, handled, disordered>>

\* What happens to the room meanwhile, by requests of the members and by the
\* owner's own commands.
RoomOperation ==
  /\ \/ \E m \in MemberId \ {Owner} : JoinHostSession(m, RoomInvite)
     \/ \E from, target \in MemberId : RelayWebRtcSignal(from, target)
     \/ \E m \in MemberId, serverMuted \in BOOLEAN : ServerMuteMember(m, serverMuted)
     \/ \E m \in MemberId : KickMember(m)
     \/ \E m \in MemberId : BanMember(m)
     \/ \E newHost \in MemberId : TransferHostTo(newHost)
  /\ UNCHANGED pollVars

\* handleCreateRoom has started the runtime and entered the channel.
PollingInit ==
  /\ SessionInit
  /\ inChannel = TRUE
  /\ lastSequence = LatestSequence
  /\ polls = <<>>
  /\ view = members
  /\ peers = {}
  /\ handled = {}
  /\ disordered = FALSE

PollingNext ==
  \/ RoomOperation
  \/ PollStarts
  \/ PollAnswered
  \/ PollReturns
  \/ OwnerLeaves

PollingSpec == PollingInit /\ [][PollingNext]_pollingVars

\* The interval fires while the session is active, commands are executed and
\* promises are resolved.
PollingFairness ==
  /\ WF_pollingVars(PollStarts)
  /\ WF_pollingVars(PollAnswered)
  /\ WF_pollingVars(PollReturns)

FairPollingSpec == PollingSpec /\ PollingFairness

-----------------------------------------------------------------------------
(* Properties.                                                             *)

\* Overlapping polls hand the same events on twice.  As long as the answers come in
\* order, replaying a stretch of the log that has been handled before does no lasting
\* harm: a window with nothing newer to read shows the members and the host of the
\* room, and the mutes that were announced.
CaughtUpIsRight ==
  inChannel /\ ~disordered /\ EventsSince(Owner, lastSequence) = {} =>
    /\ DOMAIN view = DOMAIN members
    /\ \A m \in DOMAIN members :
         /\ view[m].role = members[m].role
         /\ view[m].serverMuted <=> MutedAsOf(events, Len(events), m)

\* No event is passed over by the cursor, also when an old answer that comes late
\* sets it back.
NothingIsSkipped ==
  \A i \in 2..Len(events) :
    i <= lastSequence /\ VisibleTo(events[i], Owner) => i \in handled

\* However the answers cross, a window that stays reads all there is for it, time and
\* again, and does not stay when it is told to leave: after the notice of its removal an
\* owner that handed the room on is out of it.  (The log is bounded, so that this is what
\* every behaviour comes to when the room falls quiet.)
EveryEventIsHandled ==
  []<>(inChannel => \A n \in 1..Len(events) :
         VisibleTo(events[n], Owner) =>
           n <= lastSequence /\ events[n].message.type # "MemberRemoved")

=============================================================================
