--------------------------- MODULE HostPollingProofs ---------------------------
(***************************************************************************)
(* Proofs about HostPolling: for any set of members, any bound on the log  *)
(* and any number of polls under way, the cursor of the owner's window     *)
(* passes over nothing, in whatever order the answers come; as long as     *)
(* they come in order, a window that has caught up shows the room, however *)
(* much it was told twice.                                                 *)
(***************************************************************************)
EXTENDS HostPolling, HostRuntimeSessionProofs, WellFoundedInduction

\* A poll was made at a place up to which everything had been handled, and its answer is
\* the log from there on, without a gap.
HandledUpTo(n) ==
  \A i \in 2..Len(events) : i <= n /\ VisibleTo(events[i], Owner) => i \in handled

NoGapAfter(from, answer) ==
  \A i \in answer :
    /\ i \in 1..Len(events) /\ i > from
    /\ \A k \in 1..Len(events) :
         from < k /\ k < i /\ VisibleTo(events[k], Owner) => k \in answer

PollIsSound(poll) ==
  /\ poll.from \in 1..Len(events)
  /\ HandledUpTo(poll.from)
  /\ poll.answer # Unanswered => NoGapAfter(poll.from, poll.answer)

Poll == [from : Nat, answer : (SUBSET Nat) \cup {Unanswered}]

PollsInv ==
  /\ SessionInv
  /\ lastSequence \in 1..Len(events)
  /\ polls \in Seq(Poll)
  /\ NothingIsSkipped
  /\ \A i \in 1..Len(polls) : PollIsSound(polls[i])

-----------------------------------------------------------------------------
(* Sets of log positions, sequences of polls.                              *)

LEMMA Least ==
  ASSUME NEW T \in SUBSET Nat, T # {}
  PROVE  \E x \in T : \A y \in T : x <= y
<1>1. PICK R : R = OpToRel(<, Nat)
  OBVIOUS
<1>2. \A x, y \in Nat : y < x => <<y, x>> \in R
  BY <1>1 DEF OpToRel
<1>3. IsWellFoundedOn(R, Nat)
  BY <1>1, NatLessThanWellFounded
<1>4. PICK x \in T : \A y \in T : <<y, x>> \notin R
  BY <1>3, WFMin
<1>5. \A y \in T : ~(y < x)
  BY <1>2, <1>4
<1>6. QED
  BY <1>5

LEMMA Greatest ==
  ASSUME NEW n \in Nat, NEW T \in SUBSET (1..n), T # {}
  PROVE  \E x \in T : \A y \in T : y <= x
<1> DEFINE U == {k \in Nat : n - k \in T}
<1>1. \A x \in T : n - x \in U
  OBVIOUS
<1>2. U # {} /\ U \in SUBSET Nat
  BY <1>1
<1>3. PICK k \in U : \A j \in U : k <= j
  BY <1>2, Least
<1>4. \A y \in T : k <= n - y
  BY <1>1, <1>3
<1>5. n - k \in T /\ \A y \in T : y <= n - k
  BY <1>4
<1>6. QED
  BY <1>5

LEMMA Removed ==
  ASSUME NEW S, NEW s \in Seq(S), NEW i \in 1..Len(s)
  PROVE  /\ RemoveAt(s, i) \in Seq(S)
         /\ Len(RemoveAt(s, i)) = Len(s) - 1
         /\ \A k \in 1..Len(RemoveAt(s, i)) : \E j \in 1..Len(s) : RemoveAt(s, i)[k] = s[j]
         /\ \A k \in i..(Len(s) - 1) : RemoveAt(s, i)[k] = s[k + 1]
<1> DEFINE t == SubSeq(s, 1, i - 1)
           u == SubSeq(s, i + 1, Len(s))
<1>1. /\ t \in Seq(S) /\ Len(t) = i - 1
      /\ \A k \in 1..(i - 1) : t[k] = s[k]
  OBVIOUS
<1>2. /\ u \in Seq(S) /\ Len(u) = Len(s) - i
      /\ \A k \in 1..(Len(s) - i) : u[k] = s[i + k]
  OBVIOUS
<1> HIDE DEF t, u
<1>3. RemoveAt(s, i) = t \o u
  BY DEF RemoveAt, t, u
<1>4. t \o u \in Seq(S) /\ Len(t \o u) = Len(s) - 1
  BY <1>1, <1>2
<1>5. \A k \in 1..Len(t \o u) : \E j \in 1..Len(s) : (t \o u)[k] = s[j]
  <2>1. TAKE k \in 1..Len(t \o u)
  <2>2. CASE k <= i - 1
    <3>1. (t \o u)[k] = s[k] /\ k \in 1..Len(s)
      BY <1>1, <1>2, <1>4, <2>2
    <3>2. QED
      BY <3>1
  <2>3. CASE k > i - 1
    <3>1. (t \o u)[k] = u[k - (i - 1)] /\ k - (i - 1) \in 1..(Len(s) - i)
      BY <1>1, <1>2, <1>4, <2>3
    <3>2. (t \o u)[k] = s[i + (k - (i - 1))] /\ i + (k - (i - 1)) \in 1..Len(s)
      BY <1>2, <3>1
    <3>3. QED
      BY <3>2
  <2>4. QED
    BY <2>2, <2>3
<1>6. ASSUME NEW k \in i..(Len(s) - 1)
      PROVE  (t \o u)[k] = s[k + 1]
  <2>1. (t \o u)[k] = u[k - (i - 1)] /\ k - (i - 1) \in 1..(Len(s) - i)
    BY <1>1, <1>2, <1>4
  <2>2. (t \o u)[k] = s[i + (k - (i - 1))] /\ i + (k - (i - 1)) = k + 1
    BY <1>2, <2>1
  <2>3. QED
    BY <2>2
<1>7. QED
  BY <1>3, <1>4, <1>5, <1>6

\* The cursor goes to the newest event of an answer.
LEMMA LastOfAnswer ==
  ASSUME TypeOK, SequenceIsPosition, NEW answer \in SUBSET (1..Len(events)), answer # {}
  PROVE  /\ LastOf(answer) \in answer
         /\ \A i \in answer : i <= LastOf(answer)
<1>1. Len(events) \in Nat
  BY DEF TypeOK
<1>2. \E i \in answer : \A j \in answer : j <= i
  BY <1>1, Greatest
<1>3. PICK n \in answer : n = (CHOOSE i \in answer : \A j \in answer : j <= i)
                          /\ \A j \in answer : j <= n
  BY <1>2
<1>4. LastOf(answer) = n
  BY <1>3 DEF LastOf, SequenceIsPosition
<1>5. QED
  BY <1>3, <1>4

-----------------------------------------------------------------------------
(* The steps.                                                              *)

\* A step that leaves the log and the events handled keeps what is known of a poll.
LEMMA PollStaysSound ==
  ASSUME events' = events, handled \subseteq handled', NEW poll, PollIsSound(poll)
  PROVE  PollIsSound(poll)'
BY DEF PollIsSound, HandledUpTo, NoGapAfter

LEMMA StartStep ==
  ASSUME PollsInv, PollStarts
  PROVE  PollsInv'
<1> DEFINE new == [from |-> lastSequence, answer |-> Unanswered]
<1>1. /\ UNCHANGED <<sessionVars, lastSequence, handled>>
      /\ polls' = Append(polls, new) /\ Len(polls) < MaxInFlight
  BY DEF PollStarts
<1>2. UNCHANGED <<hostId, members, nextSequence, events, bannedMembers>>
  BY <1>1 DEF sessionVars
<1>3. SessionInv'
  BY <1>1, SessionNextInv DEF PollsInv
<1>4. lastSequence \in Nat /\ lastSequence' \in 1..Len(events')
  BY <1>1, <1>2 DEF PollsInv
<1>5. new \in Poll
  BY <1>4 DEF Poll
<1>6. /\ polls' \in Seq(Poll) /\ Len(polls') = Len(polls) + 1 /\ Len(polls) \in Nat
      /\ \A i \in 1..Len(polls) : polls'[i] = polls[i]
      /\ polls'[Len(polls) + 1] = new
  BY <1>1, <1>5 DEF PollsInv
<1>7. NothingIsSkipped'
  BY <1>1, <1>2 DEF PollsInv, NothingIsSkipped
<1>8. PollIsSound(new)
  <2>1. HandledUpTo(lastSequence)
    BY DEF PollsInv, NothingIsSkipped, HandledUpTo
  <2>2. QED
    BY <1>4, <2>1 DEF PollIsSound, PollsInv
<1>9. ASSUME NEW i \in 1..Len(polls')
      PROVE  PollIsSound(polls[i])'
  <2>1. i \in 1..Len(polls) \/ i = Len(polls) + 1
    BY <1>6
  <2>2. PollIsSound(polls'[i])
    BY <1>6, <1>8, <2>1 DEF PollsInv
  <2>3. PICK poll : poll = polls'[i]
    OBVIOUS
  <2>4. QED
    BY <1>1, <1>2, <2>2, <2>3, PollStaysSound DEF PollIsSound, HandledUpTo, NoGapAfter
<1>10. QED
  BY <1>3, <1>4, <1>6, <1>7, <1>9 DEF PollsInv

LEMMA AnswerStep ==
  ASSUME PollsInv, PollAnswered
  PROVE  PollsInv'
<1>1. UNCHANGED <<sessionVars, lastSequence, handled>>
  BY DEF PollAnswered
<1>2. PICK i \in 1..Len(polls) :
        polls' = [polls EXCEPT ![i].answer = EventsSince(Owner, polls[i].from)]
  BY DEF PollAnswered
<1>3. UNCHANGED <<hostId, members, nextSequence, events, bannedMembers>>
  BY <1>1 DEF sessionVars
<1>4. SessionInv'
  BY <1>1, SessionNextInv DEF PollsInv
<1>5. TypeOK /\ SequenceIsPosition /\ polls \in Seq(Poll) /\ Len(events) \in Nat
  BY DEF PollsInv, SessionInv, TypeOK
<1> DEFINE answer == EventsSince(Owner, polls[i].from)
<1>6. answer \in SUBSET (1..Len(events))
  BY DEF EventsSince
<1>7. polls[i] \in Poll /\ polls[i].from \in Nat
  <2>1. polls[i] \in Poll
    BY <1>5
  <2>2. QED
    BY <2>1 DEF Poll
<1>8. NoGapAfter(polls[i].from, answer)
  BY <1>5, <1>7 DEF NoGapAfter, EventsSince, SequenceIsPosition
<1> HIDE DEF answer
<1>9. /\ Len(polls') = Len(polls)
      /\ \A k \in 1..Len(polls) : polls'[k].from = polls[k].from
      /\ \A k \in 1..Len(polls) : polls'[k].answer = IF k = i THEN answer ELSE polls[k].answer
      /\ polls' \in Seq(Poll)
  <2>1. [polls[i] EXCEPT !.answer = answer] \in Poll
        /\ [polls[i] EXCEPT !.answer = answer].from = polls[i].from
        /\ [polls[i] EXCEPT !.answer = answer].answer = answer
    BY <1>6, <1>7 DEF Poll
  <2>2. polls' = [polls EXCEPT ![i] = [polls[i] EXCEPT !.answer = answer]]
    BY <1>2 DEF answer
  <2>3. QED
    BY <1>5, <2>1, <2>2
<1>10. ASSUME NEW k \in 1..Len(polls')
       PROVE  PollIsSound(polls[k])'
  <2>1. PICK poll : poll = polls'[k]
    OBVIOUS
  <2>2. PollIsSound(polls[k]) /\ k \in 1..Len(polls)
    BY <1>9 DEF PollsInv
  <2>3. PollIsSound(poll)
    BY <1>8, <1>9, <2>1, <2>2 DEF PollIsSound
  <2>4. QED
    BY <1>1, <1>3, <2>1, <2>3 DEF PollIsSound, HandledUpTo, NoGapAfter
<1>11. lastSequence' \in 1..Len(events') /\ NothingIsSkipped'
  BY <1>1, <1>3 DEF PollsInv, NothingIsSkipped
<1>12. QED
  BY <1>4, <1>9, <1>10, <1>11 DEF PollsInv

\* The answer takes the window from the place the poll was made at to its last event,
\* whether that is ahead or behind.
LEMMA ReturnStep ==
  ASSUME PollsInv, PollReturns
  PROVE  PollsInv'
<1>1. UNCHANGED sessionVars
  BY DEF PollReturns
<1>2. PICK i \in 1..Len(polls) :
        /\ polls[i].answer # Unanswered
        /\ polls' = RemoveAt(polls, i)
        /\ lastSequence' = IF polls[i].answer = {} THEN lastSequence ELSE LastOf(polls[i].answer)
        /\ handled' = handled \cup polls[i].answer
  BY DEF PollReturns
<1> DEFINE answer == polls[i].answer
           from == polls[i].from
<1>3. UNCHANGED <<hostId, members, nextSequence, events, bannedMembers>>
  BY <1>1 DEF sessionVars
<1>4. SessionInv'
  BY <1>1, SessionNextInv DEF PollsInv
<1>5. TypeOK /\ SequenceIsPosition /\ polls \in Seq(Poll) /\ Len(events) \in Nat
      /\ lastSequence \in 1..Len(events)
  BY DEF PollsInv, SessionInv, TypeOK
<1>6. from \in 1..Len(events) /\ HandledUpTo(from) /\ NoGapAfter(from, answer)
  BY <1>2 DEF PollsInv, PollIsSound
<1>7. answer \in SUBSET (1..Len(events))
  <2>1. polls[i] \in Poll
    BY <1>5
  <2>2. answer \in SUBSET Nat
    BY <1>2, <2>1 DEF Poll
  <2>3. QED
    BY <1>6, <2>2 DEF NoGapAfter
<1>8. /\ polls' \in Seq(Poll) /\ Len(polls') = Len(polls) - 1 /\ Len(polls) \in Nat
      /\ \A k \in 1..Len(polls') : \E j \in 1..Len(polls) : polls'[k] = polls[j]
  <2>1. polls \in Seq(Poll) /\ Len(polls) \in Nat
    BY <1>5
  <2>2. /\ RemoveAt(polls, i) \in Seq(Poll) /\ Len(RemoveAt(polls, i)) = Len(polls) - 1
        /\ \A k \in 1..Len(RemoveAt(polls, i)) :
             \E j \in 1..Len(polls) : RemoveAt(polls, i)[k] = polls[j]
    BY <2>1, Removed
  <2>3. QED
    BY <1>2, <2>1, <2>2
<1>9. answer # {} => /\ lastSequence' \in answer
                     /\ \A k \in answer : k <= lastSequence'
  BY <1>2, <1>5, <1>7, LastOfAnswer
<1>10. /\ lastSequence' = IF answer = {} THEN lastSequence ELSE lastSequence'
       /\ handled' = handled \cup answer
  BY <1>2
<1> HIDE DEF answer, from
<1>11. lastSequence' \in 1..Len(events')
  BY <1>3, <1>5, <1>7, <1>9, <1>10
<1>12. NothingIsSkipped'
  <2>1. ASSUME NEW k \in 2..Len(events), k <= lastSequence', VisibleTo(events[k], Owner)
        PROVE  k \in handled'
    <3>1. CASE answer = {}
      BY <1>10, <2>1, <3>1 DEF PollsInv, NothingIsSkipped
    <3>2. CASE answer # {} /\ k <= from
      BY <1>6, <1>10, <2>1, <3>2 DEF HandledUpTo
    <3>3. CASE answer # {} /\ ~(k <= from)
      <4>1. k \in 1..Len(events) /\ from < k /\ (k < lastSequence' \/ k = lastSequence')
        BY <1>3, <1>5, <1>6, <1>11, <2>1, <3>3
      <4>2. k \in answer
        BY <1>6, <1>9, <2>1, <3>3, <4>1 DEF NoGapAfter
      <4>3. QED
        BY <1>10, <4>2
    <3>4. QED
      BY <3>1, <3>2, <3>3
  <2>2. QED
    BY <1>3, <2>1 DEF NothingIsSkipped
<1>13. ASSUME NEW k \in 1..Len(polls')
       PROVE  PollIsSound(polls[k])'
  <2>1. PICK poll : poll = polls'[k]
    OBVIOUS
  <2>2. PollIsSound(poll)
    BY <1>8, <2>1 DEF PollsInv
  <2>3. PollIsSound(poll)'
    BY <1>3, <1>10, <2>2, PollStaysSound
  <2>4. QED
    BY <2>1, <2>3 DEF PollIsSound, HandledUpTo, NoGapAfter
<1>14. QED
  BY <1>4, <1>8, <1>11, <1>12, <1>13 DEF PollsInv

\* The log grows behind the window.
LEMMA RoomStep ==
  ASSUME PollsInv, RoomOperation
  PROVE  PollsInv'
<1>1. UNCHANGED <<lastSequence, polls, handled>>
  BY DEF RoomOperation, pollVars
<1>2. SessionNext
  BY SessionAssumption DEF RoomOperation, SessionNext
<1>3. SessionInv /\ SessionInv' /\ StepIsLogged
  BY <1>2, SessionNextInv, SessionStepIsLogged DEF PollsInv
<1>4. /\ Len(events) \in Nat /\ Len(events') \in Nat /\ Len(events) <= Len(events')
      /\ \A i \in 1..Len(events) : events'[i] = events[i]
  BY <1>3 DEF SessionInv, TypeOK, StepIsLogged
<1>5. lastSequence \in 1..Len(events) /\ lastSequence' \in 1..Len(events')
  BY <1>1, <1>4 DEF PollsInv
<1>6. ASSUME NEW n \in 1..Len(events), HandledUpTo(n)
      PROVE  HandledUpTo(n)'
  <2>1. ASSUME NEW i \in 2..Len(events'), i <= n, VisibleTo(events'[i], Owner)
        PROVE  i \in handled
    <3>1. i \in 2..Len(events) /\ i \in 1..Len(events)
      BY <1>4, <2>1
    <3>2. VisibleTo(events[i], Owner)
      BY <1>4, <2>1, <3>1
    <3>3. QED
      BY <1>6, <2>1, <3>1, <3>2 DEF HandledUpTo
  <2>2. QED
    BY <1>1, <2>1 DEF HandledUpTo
<1>7. NothingIsSkipped'
  <2>1. HandledUpTo(lastSequence)
    BY DEF PollsInv, NothingIsSkipped, HandledUpTo
  <2>2. PICK n \in 1..Len(events) : n = lastSequence
    BY <1>5
  <2>3. HandledUpTo(n)'
    BY <1>6, <2>1, <2>2
  <2>4. QED
    BY <1>1, <2>2, <2>3 DEF HandledUpTo, NothingIsSkipped
<1>8. ASSUME NEW from \in 1..Len(events), NEW answer, NoGapAfter(from, answer)
      PROVE  NoGapAfter(from, answer)'
  <2>1. ASSUME NEW i \in answer
        PROVE  /\ i \in 1..Len(events') /\ i > from
               /\ \A k \in 1..Len(events') :
                    from < k /\ k < i /\ VisibleTo(events'[k], Owner) => k \in answer
    <3>1. /\ i \in 1..Len(events) /\ i > from
          /\ \A k \in 1..Len(events) :
               from < k /\ k < i /\ VisibleTo(events[k], Owner) => k \in answer
      BY <1>8, <2>1 DEF NoGapAfter
    <3>2. \A k \in 1..Len(events') : k < i => k \in 1..Len(events) /\ events'[k] = events[k]
      BY <1>4, <3>1
    <3>3. QED
      BY <1>4, <3>1, <3>2
  <2>2. QED
    BY <2>1 DEF NoGapAfter
<1>9. ASSUME NEW i \in 1..Len(polls')
      PROVE  PollIsSound(polls[i])'
  <2>1. PICK poll : poll = polls[i]
    OBVIOUS
  <2>2. PollIsSound(poll) /\ poll = polls'[i]
    BY <1>1, <2>1 DEF PollsInv
  <2>3. poll.from \in 1..Len(events) /\ poll.from \in 1..Len(events')
    BY <1>4, <2>2 DEF PollIsSound
  <2>4. PICK from \in 1..Len(events) : from = poll.from
    BY <2>3
  <2>5. PICK answer : answer = poll.answer
    OBVIOUS
  <2>6. HandledUpTo(from)' /\ (answer # Unanswered => NoGapAfter(from, answer)')
    BY <1>6, <1>8, <2>2, <2>4, <2>5 DEF PollIsSound
  <2>7. PollIsSound(poll)'
    BY <2>3, <2>4, <2>5, <2>6 DEF PollIsSound, HandledUpTo, NoGapAfter
  <2>8. QED
    BY <2>2, <2>7 DEF PollIsSound, HandledUpTo, NoGapAfter
<1>10. QED
  BY <1>1, <1>3, <1>5, <1>7, <1>9 DEF PollsInv

\* Leaving the room changes nothing of this, nor does a step of others.
LEMMA OtherStep ==
  ASSUME PollsInv, UNCHANGED <<sessionVars, lastSequence, polls, handled>>
  PROVE  PollsInv'
<1>1. UNCHANGED <<hostId, members, nextSequence, events, bannedMembers>>
  BY DEF sessionVars
<1>2. SessionInv'
  BY SessionNextInv DEF PollsInv
<1>3. lastSequence' \in 1..Len(events') /\ polls' \in Seq(Poll) /\ NothingIsSkipped'
  BY <1>1 DEF PollsInv, NothingIsSkipped
<1>4. \A i \in 1..Len(polls') : PollIsSound(polls[i])'
  BY <1>1 DEF PollsInv, PollIsSound, HandledUpTo, NoGapAfter
<1>5. QED
  BY <1>2, <1>3, <1>4 DEF PollsInv

LEMMA PollingStep ==
  ASSUME PollsInv, [PollingNext]_pollingVars
  PROVE  PollsInv'
<1>1. CASE RoomOperation
  BY <1>1, RoomStep
<1>2. CASE PollStarts
  BY <1>2, StartStep
<1>3. CASE PollAnswered
  BY <1>3, AnswerStep
<1>4. CASE PollReturns
  BY <1>4, ReturnStep
<1>5. CASE OwnerLeaves
  BY <1>5, OtherStep DEF OwnerLeaves
<1>6. CASE UNCHANGED pollingVars
  BY <1>6, OtherStep DEF pollingVars, sessionVars
<1>7. QED
  BY <1>1, <1>2, <1>3, <1>4, <1>5, <1>6 DEF PollingNext

LEMMA PollingBegins == PollingInit => PollsInv
<1> SUFFICES ASSUME PollingInit PROVE PollsInv
  OBVIOUS
<1>1. SessionInv
  BY SessionInitInv DEF PollingInit
<1>2. /\ nextSequence = 2 /\ lastSequence = 1 /\ Len(events) = 1
      /\ polls = <<>> /\ handled = {}
  BY DEF PollingInit, SessionInit, LatestSequence
<1>3. polls \in Seq(Poll) /\ Len(polls) = 0
  BY <1>2
<1>4. QED
  BY <1>1, <1>2, <1>3 DEF PollsInv, NothingIsSkipped

-----------------------------------------------------------------------------
\* The cursor passes over no event for the owner, however many polls overlap and in
\* whatever order their promises are resolved, also when a late answer sets it back.
THEOREM CursorSkipsNothing == PollingSpec => []NothingIsSkipped
<1>1. PollsInv /\ [PollingNext]_pollingVars => PollsInv'
  BY PollingStep
<1>2. PollsInv => NothingIsSkipped
  BY DEF PollsInv
<1>3. QED
  BY <1>1, <1>2, PollingBegins, PTL DEF PollingSpec

-----------------------------------------------------------------------------
(* The loop over an answer.                                                *)

\* What holds at place 0 and is handed on from place to place holds at every place.
LEMMA Counting ==
  ASSUME NEW first \in Nat, NEW last \in Nat, NEW T \in SUBSET Nat,
         first <= last => first \in T,
         \A n \in T : first <= n /\ n < last => n + 1 \in T
  PROVE  \A n \in first..last : n \in T
<1> DEFINE U == {n \in first..last : n \notin T}
<1>1. SUFFICES ASSUME U # {} PROVE FALSE
  OBVIOUS
<1>2. PICK n \in U : \A k \in U : n <= k
  <2>1. U \in SUBSET Nat
    OBVIOUS
  <2>2. QED
    BY <1>1, <2>1, Least
<1>3. n # first
  BY <1>2
<1>4. n - 1 \in first..last /\ n - 1 < n
  BY <1>2, <1>3
<1>5. n - 1 \in T
  BY <1>2, <1>4
<1>6. (n - 1) + 1 \in T
  BY <1>2, <1>4, <1>5
<1>7. QED
  BY <1>2, <1>6

\* The windows between the events of an answer.
LoopRuns(after, window, answer) ==
  /\ after[0] = window
  /\ \A n \in 1..Len(events) :
       after[n] = IF n \in answer THEN Handle(after[n - 1], events[n].message) ELSE after[n - 1]

\* The loop is carried out, and its last window is its result.
LEMMA LoopEnds ==
  ASSUME Len(events) \in Nat, NEW window, NEW answer
  PROVE  \E after : /\ LoopRuns(after, window, answer)
                    /\ HandleAll(window, answer) = after[Len(events)]
<1> DEFINE Pass(f, n) == IF n = 0 THEN window
                         ELSE IF n \in answer THEN Handle(f[n - 1], events[n].message)
                         ELSE f[n - 1]
           Loop(f, k) == f = [n \in 0..k |-> Pass(f, n)]
           T == {k \in Nat : \E f : Loop(f, k)}
<1>1. 0 \in T
  <2> DEFINE f == [n \in 0..0 |-> window]
  <2>1. \A n \in 0..0 : Pass(f, n) = window
    OBVIOUS
  <2>2. Loop(f, 0)
    BY <2>1
  <2>3. QED
    BY <2>2
<1>2. ASSUME NEW k \in T
      PROVE  k + 1 \in T
  <2>1. PICK f : Loop(f, k)
    OBVIOUS
  <2> DEFINE g == [n \in 0..(k + 1) |-> IF n = k + 1 THEN Pass(f, k + 1) ELSE f[n]]
  <2>2. \A n \in 0..k : g[n] = f[n]
    OBVIOUS
  <2>3. \A n \in 0..(k + 1) : Pass(g, n) = Pass(f, n)
    <3>1. ASSUME NEW n \in 0..(k + 1), n # 0
          PROVE  g[n - 1] = f[n - 1]
      <4>1. n - 1 \in 0..k
        BY <3>1
      <4>2. QED
        BY <2>2, <4>1
    <3>2. QED
      BY <3>1
  <2>4. \A n \in 0..k : f[n] = Pass(f, n)
    BY <2>1
  <2>5. \A n \in 0..(k + 1) : g[n] = Pass(f, n)
    BY <2>4
  <2>6. \A n \in 0..(k + 1) : g[n] = Pass(g, n)
    BY <2>3, <2>5
  <2>7. g = [n \in 0..(k + 1) |-> g[n]]
    OBVIOUS
  <2> HIDE DEF Pass, g
  <2>8. g = [n \in 0..(k + 1) |-> Pass(g, n)]
    BY <2>6, <2>7
  <2>9. QED
    BY <2>8
<1>3. Len(events) \in T
  <2> HIDE DEF T
  <2>1. \A n \in 0..Len(events) : n \in T
    <3>1. T \in SUBSET Nat
      BY DEF T
    <3>2. QED
      BY <1>1, <1>2, <3>1, Counting
  <2>2. QED
    BY <2>1
<1>4. PICK after : after = CHOOSE f : f = [n \in 0..Len(events) |-> Pass(f, n)]
  OBVIOUS
<1>5. after = [n \in 0..Len(events) |-> Pass(after, n)]
  <2> HIDE DEF Pass
  <2>1. \E f : f = [n \in 0..Len(events) |-> Pass(f, n)]
    BY <1>3
  <2>2. QED
    BY <1>4, <2>1
<1>6. HandleAll(window, answer) = after[Len(events)]
  BY <1>4 DEF HandleAll
<1>7. LoopRuns(after, window, answer)
  <2> HIDE DEF Pass
  <2>1. \A n \in 0..Len(events) : after[n] = Pass(after, n)
    BY <1>5
  <2>2. after[0] = Pass(after, 0) /\ \A n \in 1..Len(events) : after[n] = Pass(after, n)
    BY <2>1
  <2>3. QED
    BY <2>2 DEF LoopRuns, Pass
<1>8. QED
  BY <1>6, <1>7

-----------------------------------------------------------------------------
(* Replaying a stretch of the log.                                         *)

\* The events of an answer, up to a place of the log, that speak of a member's being in
\* the room, of its role and of its mute.  Who leaves has neither role nor mute.
SpokenOf(answer, n, m) ==
  \E i \in answer :
    i <= n /\ (Admits(events[i].message, m) \/ Departs(events[i].message, m))

RoleSpokenOf(answer, n, m) ==
  \E i \in answer :
    /\ i <= n
    /\ \/ Crowns(events[i].message, m) \/ Deposes(events[i].message, m)
       \/ Departs(events[i].message, m)

MuteSpokenOf(answer, n, m) ==
  \E i \in answer :
    i <= n /\ (Mutes(events[i].message, m) \/ Unmutes(events[i].message, m))

\* A list that showed the room as of place `shown` and has been led through the events of an
\* answer up to place n, part of which it had seen: what they spoke of is as of n, the
\* rest still as of `shown`.
ReplayedUpTo(table, answer, n, shown) ==
  \A m \in MemberId :
    /\ m \in DOMAIN table <=>
         IF SpokenOf(answer, n, m) THEN MemberAsOf(events, n, m)
                                   ELSE MemberAsOf(events, shown, m)
    /\ m \in DOMAIN table =>
         /\ table[m].role = "Host" <=>
              IF RoleSpokenOf(answer, n, m) THEN HostAsOf(events, n, m)
                                            ELSE HostAsOf(events, shown, m)
         /\ table[m].serverMuted <=>
              IF MuteSpokenOf(answer, n, m) THEN MutedAsOf(events, n, m)
                                            ELSE MutedAsOf(events, shown, m)

\* The answer to a poll is the log after its cursor, but for what is private to others.
WholeStretch(from, answer, last) ==
  /\ answer \subseteq 1..last
  /\ \A i \in answer : i > from
  /\ \A k \in 1..last : k > from /\ k \notin answer => events[k].target # NoTarget

\* One place further.
LEMMA SpokenFurther ==
  ASSUME NEW answer \in SUBSET Nat, NEW n \in Nat, NEW m
  PROVE  LET msg == events[n + 1].message IN
         /\ n + 1 \in answer =>
              /\ SpokenOf(answer, n + 1, m) <=>
                   SpokenOf(answer, n, m) \/ Admits(msg, m) \/ Departs(msg, m)
              /\ RoleSpokenOf(answer, n + 1, m) <=>
                   RoleSpokenOf(answer, n, m)
                     \/ Crowns(msg, m) \/ Deposes(msg, m) \/ Departs(msg, m)
              /\ MuteSpokenOf(answer, n + 1, m) <=>
                   MuteSpokenOf(answer, n, m) \/ Mutes(msg, m) \/ Unmutes(msg, m)
         /\ n + 1 \notin answer =>
              /\ SpokenOf(answer, n + 1, m) <=> SpokenOf(answer, n, m)
              /\ RoleSpokenOf(answer, n + 1, m) <=> RoleSpokenOf(answer, n, m)
              /\ MuteSpokenOf(answer, n + 1, m) <=> MuteSpokenOf(answer, n, m)
<1>1. \A i \in answer : i <= n + 1 <=> i <= n \/ i = n + 1
  OBVIOUS
<1>2. n + 1 \in answer =>
        /\ SpokenOf(answer, n + 1, m) <=>
             \/ SpokenOf(answer, n, m)
             \/ Admits(events[n + 1].message, m) \/ Departs(events[n + 1].message, m)
        /\ RoleSpokenOf(answer, n + 1, m) <=>
             \/ RoleSpokenOf(answer, n, m)
             \/ Crowns(events[n + 1].message, m) \/ Deposes(events[n + 1].message, m)
             \/ Departs(events[n + 1].message, m)
        /\ MuteSpokenOf(answer, n + 1, m) <=>
             \/ MuteSpokenOf(answer, n, m)
             \/ Mutes(events[n + 1].message, m) \/ Unmutes(events[n + 1].message, m)
  BY <1>1 DEF SpokenOf, RoleSpokenOf, MuteSpokenOf
<1>3. n + 1 \notin answer =>
        /\ SpokenOf(answer, n + 1, m) <=> SpokenOf(answer, n, m)
        /\ RoleSpokenOf(answer, n + 1, m) <=> RoleSpokenOf(answer, n, m)
        /\ MuteSpokenOf(answer, n + 1, m) <=> MuteSpokenOf(answer, n, m)
  BY <1>1 DEF SpokenOf, RoleSpokenOf, MuteSpokenOf
<1>4. QED
  BY <1>2, <1>3

\* A member that an answer announces, and does not see leave, is in the room.
LEMMA AnnouncedStays ==
  ASSUME PrivateEventsAreSilent, Len(events) \in Nat,
         NEW from \in Nat, NEW answer, NEW last \in 0..Len(events),
         WholeStretch(from, answer, last),
         NEW n \in 0..last, NEW m, SpokenOf(answer, n, m),
         \A i \in answer : i <= n => ~Departs(events[i].message, m)
  PROVE  MemberAsOf(events, n, m)
<1>1. PICK i \in answer : i <= n /\ Admits(events[i].message, m)
  BY DEF SpokenOf
<1>2. i \in 1..n /\ i > from
  BY <1>1 DEF WholeStretch
<1>3. ASSUME NEW j \in (i + 1)..n
      PROVE  ~Departs(events[j].message, m)
  <2>1. j \in 1..last /\ j > from /\ j <= n /\ j \in 1..Len(events)
    BY <1>2
  <2>2. CASE j \in answer
    BY <2>1, <2>2
  <2>3. CASE j \notin answer
    <3>1. events[j].message.type \in {"WebRtcSignal", "MemberRemoved"}
      BY <2>1, <2>3 DEF WholeStretch, PrivateEventsAreSilent
    <3>2. QED
      BY <3>1, SilentMessage
  <2>4. QED
    BY <2>2, <2>3
<1>4. QED
  BY <1>1, <1>2, <1>3 DEF MemberAsOf

\* An event of the answer is followed on a list that has been led up to it.
LEMMA ReplayFollows ==
  ASSUME LogInv, JoinersWereOut,
         NEW from \in Nat, NEW answer, NEW last \in 0..Len(events),
         WholeStretch(from, answer, last), NEW shown \in 0..Len(events),
         NEW n \in Nat, n + 1 <= last, n + 1 \in answer,
         NEW table, ReplayedUpTo(table, answer, n, shown),
         NEW after, ListFollows(table, after, events[n + 1].message)
  PROVE  ReplayedUpTo(after, answer, n + 1, shown)
<1> DEFINE msg == events[n + 1].message
<1>1. /\ Len(events) \in Nat /\ n \in 0..Len(events) /\ n \in 0..last
      /\ n + 1 \in 1..Len(events) /\ answer \in SUBSET Nat
  BY DEF LogInv, SessionInv, TypeOK, WholeStretch
<1> SUFFICES ASSUME NEW m \in MemberId
             PROVE  /\ m \in DOMAIN after <=>
                         IF SpokenOf(answer, n + 1, m) THEN MemberAsOf(events, n + 1, m)
                                                       ELSE MemberAsOf(events, shown, m)
                    /\ m \in DOMAIN after =>
                         /\ after[m].role = "Host" <=>
                              IF RoleSpokenOf(answer, n + 1, m) THEN HostAsOf(events, n + 1, m)
                                                                ELSE HostAsOf(events, shown, m)
                         /\ after[m].serverMuted <=>
                              IF MuteSpokenOf(answer, n + 1, m) THEN MutedAsOf(events, n + 1, m)
                                                                ELSE MutedAsOf(events, shown, m)
  BY DEF ReplayedUpTo
<1>2. /\ SpokenOf(answer, n + 1, m) <=>
           SpokenOf(answer, n, m) \/ Admits(msg, m) \/ Departs(msg, m)
      /\ RoleSpokenOf(answer, n + 1, m) <=>
           RoleSpokenOf(answer, n, m) \/ Crowns(msg, m) \/ Deposes(msg, m) \/ Departs(msg, m)
      /\ MuteSpokenOf(answer, n + 1, m) <=>
           MuteSpokenOf(answer, n, m) \/ Mutes(msg, m) \/ Unmutes(msg, m)
  BY <1>1, SpokenFurther
<1>3. /\ MemberAsOf(events, n + 1, m) <=>
           Admits(msg, m) \/ (MemberAsOf(events, n, m) /\ ~Departs(msg, m))
      /\ HostAsOf(events, n + 1, m) <=>
           Crowns(msg, m) \/ (HostAsOf(events, n, m) /\ ~Deposes(msg, m))
      /\ MutedAsOf(events, n + 1, m) <=>
           Mutes(msg, m) \/ (MutedAsOf(events, n, m) /\ ~Unmutes(msg, m))
  BY MemberAsOfStep, HostAsOfStep, MutedAsOfStep
<1>4. /\ m \in DOMAIN table <=>
           IF SpokenOf(answer, n, m) THEN MemberAsOf(events, n, m)
                                     ELSE MemberAsOf(events, shown, m)
      /\ m \in DOMAIN table =>
           /\ table[m].role = "Host" <=>
                IF RoleSpokenOf(answer, n, m) THEN HostAsOf(events, n, m)
                                              ELSE HostAsOf(events, shown, m)
           /\ table[m].serverMuted <=>
                IF MuteSpokenOf(answer, n, m) THEN MutedAsOf(events, n, m)
                                              ELSE MutedAsOf(events, shown, m)
  BY DEF ReplayedUpTo
<1>5. /\ m \in DOMAIN after <=> Admits(msg, m) \/ (m \in DOMAIN table /\ ~Departs(msg, m))
      /\ m \in DOMAIN after /\ m \in DOMAIN table =>
           /\ after[m].role = "Host" <=>
                Crowns(msg, m) \/ (table[m].role = "Host" /\ ~Deposes(msg, m))
           /\ after[m].serverMuted <=>
                Mutes(msg, m) \/ (table[m].serverMuted /\ ~Unmutes(msg, m))
      /\ m \in DOMAIN after /\ m \notin DOMAIN table =>
           /\ after[m].role = "Host" <=> Crowns(msg, m)
           /\ after[m].serverMuted <=> Mutes(msg, m)
           /\ msg.type = "RoomState" \/ (msg.type = "MemberJoined" /\ msg.member = m)
  BY DEF ListFollows
<1>6. /\ Admits(msg, m) => ~Departs(msg, m)
      /\ Departs(msg, m) => Unmutes(msg, m)
      /\ msg.type = "RoomState" => (Crowns(msg, m) \/ Deposes(msg, m))
                                     /\ (Mutes(msg, m) \/ Unmutes(msg, m))
  BY DEF Admits, Departs, Crowns, Deposes, Mutes, Unmutes
<1>7. msg.type = "MemberJoined" /\ msg.member = m =>
        ~MemberAsOf(events, n, m) /\ ~HostAsOf(events, n, m) /\ ~MutedAsOf(events, n, m)
  <2>1. (n + 1) - 1 = n
    OBVIOUS
  <2>2. msg.type = "MemberJoined" /\ msg.member = m => ~MemberAsOf(events, n, m)
    BY <1>1, <2>1 DEF JoinersWereOut
  <2>3. QED
    BY <1>1, <2>2 DEF LogInv, ReadingsAreOfMembers
<1>8. ~MemberAsOf(events, shown, m) =>
        ~HostAsOf(events, shown, m) /\ ~MutedAsOf(events, shown, m)
  BY DEF LogInv, ReadingsAreOfMembers
\* Whoever is not on the list was not announced either, or has gone since.
<1>9. m \notin DOMAIN table /\ ~RoleSpokenOf(answer, n, m) =>
        ~HostAsOf(events, shown, m)
  <2>1. SUFFICES ASSUME m \notin DOMAIN table, ~RoleSpokenOf(answer, n, m)
                 PROVE  ~MemberAsOf(events, shown, m)
    BY <1>8
  <2>2. \A i \in answer : i <= n => ~Departs(events[i].message, m)
    BY <2>1 DEF RoleSpokenOf
  <2>3. SpokenOf(answer, n, m) => MemberAsOf(events, n, m)
    BY <1>1, <2>2, AnnouncedStays DEF LogInv
  <2>4. QED
    BY <1>4, <2>1, <2>3
<1>10. m \notin DOMAIN table /\ ~MuteSpokenOf(answer, n, m) =>
         ~MutedAsOf(events, shown, m)
  <2>1. SUFFICES ASSUME m \notin DOMAIN table, ~MuteSpokenOf(answer, n, m)
                 PROVE  ~MemberAsOf(events, shown, m)
    BY <1>8
  <2>2. \A i \in answer : i <= n => ~Departs(events[i].message, m)
    BY <2>1 DEF MuteSpokenOf, Unmutes
  <2>3. SpokenOf(answer, n, m) => MemberAsOf(events, n, m)
    BY <1>1, <2>2, AnnouncedStays DEF LogInv
  <2>4. QED
    BY <1>4, <2>1, <2>3
<1> HIDE DEF msg
<1>11. m \in DOMAIN after <=>
         IF SpokenOf(answer, n + 1, m) THEN MemberAsOf(events, n + 1, m)
                                       ELSE MemberAsOf(events, shown, m)
  BY <1>2, <1>3, <1>4, <1>5, <1>6
<1>12. m \in DOMAIN after =>
         (after[m].role = "Host" <=>
            IF RoleSpokenOf(answer, n + 1, m) THEN HostAsOf(events, n + 1, m)
                                              ELSE HostAsOf(events, shown, m))
  BY <1>2, <1>3, <1>4, <1>5, <1>6, <1>7, <1>9
<1>13. m \in DOMAIN after =>
         (after[m].serverMuted <=>
            IF MuteSpokenOf(answer, n + 1, m) THEN MutedAsOf(events, n + 1, m)
                                              ELSE MutedAsOf(events, shown, m))
  BY <1>2, <1>3, <1>4, <1>5, <1>6, <1>7, <1>10
<1>14. QED
  BY <1>11, <1>12, <1>13

\* A place that is not in the answer changes nothing, neither before it nor in between.
LEMMA ReplayPasses ==
  ASSUME LogInv,
         NEW from \in Nat, NEW answer, NEW last \in 0..Len(events),
         WholeStretch(from, answer, last), NEW shown,
         NEW n \in Nat, n + 1 <= last, n + 1 \notin answer,
         NEW table, ReplayedUpTo(table, answer, n, shown)
  PROVE  ReplayedUpTo(table, answer, n + 1, shown)
<1>1. Len(events) \in Nat /\ n + 1 \in 1..Len(events) /\ n + 1 \in 1..last /\ answer \in SUBSET Nat
  BY DEF LogInv, SessionInv, TypeOK, WholeStretch
<1> SUFFICES ASSUME NEW m \in MemberId
             PROVE  /\ m \in DOMAIN table <=>
                         IF SpokenOf(answer, n + 1, m) THEN MemberAsOf(events, n + 1, m)
                                                       ELSE MemberAsOf(events, shown, m)
                    /\ m \in DOMAIN table =>
                         /\ table[m].role = "Host" <=>
                              IF RoleSpokenOf(answer, n + 1, m) THEN HostAsOf(events, n + 1, m)
                                                                ELSE HostAsOf(events, shown, m)
                         /\ table[m].serverMuted <=>
                              IF MuteSpokenOf(answer, n + 1, m) THEN MutedAsOf(events, n + 1, m)
                                                                ELSE MutedAsOf(events, shown, m)
  BY DEF ReplayedUpTo
<1>2. /\ SpokenOf(answer, n + 1, m) <=> SpokenOf(answer, n, m)
      /\ RoleSpokenOf(answer, n + 1, m) <=> RoleSpokenOf(answer, n, m)
      /\ MuteSpokenOf(answer, n + 1, m) <=> MuteSpokenOf(answer, n, m)
  BY <1>1, SpokenFurther
<1>3. SpokenOf(answer, n, m) \/ RoleSpokenOf(answer, n, m) \/ MuteSpokenOf(answer, n, m) =>
        /\ MemberAsOf(events, n + 1, m) <=> MemberAsOf(events, n, m)
        /\ HostAsOf(events, n + 1, m) <=> HostAsOf(events, n, m)
        /\ MutedAsOf(events, n + 1, m) <=> MutedAsOf(events, n, m)
  <2>1. SUFFICES ASSUME NEW i \in answer, i <= n
                 PROVE  /\ MemberAsOf(events, n + 1, m) <=> MemberAsOf(events, n, m)
                        /\ HostAsOf(events, n + 1, m) <=> HostAsOf(events, n, m)
                        /\ MutedAsOf(events, n + 1, m) <=> MutedAsOf(events, n, m)
    BY DEF SpokenOf, RoleSpokenOf, MuteSpokenOf
  <2>2. n + 1 > from
    BY <1>1, <2>1 DEF WholeStretch
  <2>3. events[n + 1].target # NoTarget
    BY <1>1, <2>2 DEF WholeStretch
  <2>4. \A j \in (n + 1)..(n + 1) : events[j].target # NoTarget
    BY <2>3
  <2>5. n + 1 \in Nat /\ n <= n + 1 /\ n + 1 <= Len(events)
    BY <1>1
  <2>6. QED
    BY <1>1, <2>4, <2>5, SilentStretch DEF LogInv
<1>4. QED
  BY <1>2, <1>3 DEF ReplayedUpTo

\* A list that has been led through an answer to its end shows the room as of there, if
\* what it showed before was no older than the cursor of the poll.
LEMMA ReplayArrives ==
  ASSUME LogInv, NEW from \in Nat, NEW answer, NEW last \in 0..Len(events),
         WholeStretch(from, answer, last),
         NEW shown \in 0..last, from <= shown,
         NEW table, ReplayedUpTo(table, answer, last, shown)
  PROVE  ShowsRoomAsOf(table, last)
<1>1. Len(events) \in Nat /\ last \in Nat /\ shown \in Nat /\ shown <= last
      /\ last <= Len(events) /\ answer \subseteq 1..last
  BY DEF LogInv, SessionInv, TypeOK, WholeStretch
<1>2. ASSUME NEW j \in (shown + 1)..last, j \notin answer
      PROVE  events[j].message.type \in {"WebRtcSignal", "MemberRemoved"}
  BY <1>1, <1>2 DEF WholeStretch, LogInv, PrivateEventsAreSilent
<1> SUFFICES ASSUME NEW m \in MemberId
             PROVE  /\ m \in DOMAIN table <=> MemberAsOf(events, last, m)
                    /\ m \in DOMAIN table =>
                         /\ table[m].role = "Host" <=> HostAsOf(events, last, m)
                         /\ table[m].serverMuted <=> MutedAsOf(events, last, m)
  BY DEF ShowsRoomAsOf
<1>3. \A i \in answer : i <= last
  BY <1>1
<1>4. \A j \in (shown + 1)..last : j \notin answer =>
        /\ ~Admits(events[j].message, m) /\ ~Departs(events[j].message, m)
        /\ ~Crowns(events[j].message, m) /\ ~Deposes(events[j].message, m)
        /\ ~Mutes(events[j].message, m) /\ ~Unmutes(events[j].message, m)
  BY <1>2, SilentMessage
<1>5. ~SpokenOf(answer, last, m) =>
        (MemberAsOf(events, last, m) <=> MemberAsOf(events, shown, m))
  <2>1. SUFFICES ASSUME ~SpokenOf(answer, last, m)
                 PROVE  MemberAsOf(events, last, m) <=> MemberAsOf(events, shown, m)
    OBVIOUS
  <2>2. \A j \in (shown + 1)..last :
          ~Admits(events[j].message, m) /\ ~Departs(events[j].message, m)
    BY <1>3, <1>4, <2>1 DEF SpokenOf
  <2>3. QED
    BY <1>1, <2>2, QuietStretch
<1>6. ~RoleSpokenOf(answer, last, m) =>
        (HostAsOf(events, last, m) <=> HostAsOf(events, shown, m))
  <2>1. SUFFICES ASSUME ~RoleSpokenOf(answer, last, m)
                 PROVE  HostAsOf(events, last, m) <=> HostAsOf(events, shown, m)
    OBVIOUS
  <2>2. \A j \in (shown + 1)..last :
          ~Crowns(events[j].message, m) /\ ~Deposes(events[j].message, m)
    BY <1>3, <1>4, <2>1 DEF RoleSpokenOf
  <2>3. QED
    BY <1>1, <2>2, QuietStretch
<1>7. ~MuteSpokenOf(answer, last, m) =>
        (MutedAsOf(events, last, m) <=> MutedAsOf(events, shown, m))
  <2>1. SUFFICES ASSUME ~MuteSpokenOf(answer, last, m)
                 PROVE  MutedAsOf(events, last, m) <=> MutedAsOf(events, shown, m)
    OBVIOUS
  <2>2. \A j \in (shown + 1)..last :
          ~Mutes(events[j].message, m) /\ ~Unmutes(events[j].message, m)
    BY <1>3, <1>4, <2>1 DEF MuteSpokenOf
  <2>3. QED
    BY <1>1, <2>2, QuietStretch
<1>8. /\ m \in DOMAIN table <=>
           IF SpokenOf(answer, last, m) THEN MemberAsOf(events, last, m)
                                        ELSE MemberAsOf(events, shown, m)
      /\ m \in DOMAIN table =>
           /\ table[m].role = "Host" <=>
                IF RoleSpokenOf(answer, last, m) THEN HostAsOf(events, last, m)
                                                 ELSE HostAsOf(events, shown, m)
           /\ table[m].serverMuted <=>
                IF MuteSpokenOf(answer, last, m) THEN MutedAsOf(events, last, m)
                                                 ELSE MutedAsOf(events, shown, m)
  BY DEF ReplayedUpTo
<1>9. QED
  BY <1>5, <1>6, <1>7, <1>8

\* The part of a window an event is handled on.
IsWindow(window) ==
  DOMAIN window = {"inChannel", "view", "peers"} /\ window.inChannel \in BOOLEAN

\* onMessage on a window, part by part.
LEMMA HandledWindow ==
  ASSUME NEW window, IsWindow(window), NEW msg
  PROVE  LET after == Handle(window, msg) IN
         /\ IsWindow(after)
         /\ TellsToLeave(Owner, msg) => ~after.inChannel
         /\ ~TellsToLeave(Owner, msg) =>
              after.inChannel = window.inChannel /\ after.view = ApplyToView(window.view, msg)
<1>1. PICK after : after = Handle(window, msg)
  OBVIOUS
<1>2. CASE TellsToLeave(Owner, msg)
  BY <1>1, <1>2 DEF Handle, IsWindow
<1>3. CASE ~TellsToLeave(Owner, msg)
  <2>1. PICK t, h : t = ApplyToView(window.view, msg)
                    /\ h = ApplyToPeers(Owner, TRUE, window.peers, msg)
    OBVIOUS
  <2>2. after = [window EXCEPT !.view = t, !.peers = h]
    BY <1>1, <1>3, <2>1 DEF Handle
  <2>3. DOMAIN after = DOMAIN window /\ after.inChannel = window.inChannel /\ after.view = t
    BY <2>2 DEF IsWindow
  <2>4. QED
    BY <1>1, <1>3, <2>1, <2>3 DEF IsWindow
<1>4. QED
  BY <1>2, <1>3

\* A window that worked an answer off and is in the channel still shows the room as of the
\* end of the answer, however much of it had been handled before.
LEMMA AnswerIsReplayed ==
  ASSUME LogInv, JoinersWereOut,
         NEW from \in Nat, NEW answer, NEW last \in 0..Len(events),
         WholeStretch(from, answer, last),
         NEW shown \in 0..last, from <= shown,
         NEW channel \in BOOLEAN, NEW table, NEW held,
         channel => table \in MemberTable /\ ShowsRoomAsOf(table, shown)
  PROVE  LET after == HandleAll([inChannel |-> channel, view |-> table, peers |-> held], answer) IN
         /\ after.inChannel \in BOOLEAN
         /\ after.inChannel =>
              after.view \in MemberTable /\ ShowsRoomAsOf(after.view, last)
<1> DEFINE window == [inChannel |-> channel, view |-> table, peers |-> held]
           Good(w, n) == /\ IsWindow(w)
                         /\ w.inChannel => /\ w.view \in MemberTable
                                           /\ ReplayedUpTo(w.view, answer, n, shown)
<1>1. /\ Len(events) \in Nat /\ last \in Nat /\ last <= Len(events) /\ shown \in 0..Len(events)
      /\ answer \in SUBSET Nat /\ answer \subseteq 1..last
  BY DEF LogInv, SessionInv, TypeOK, WholeStretch
<1>2. PICK after : /\ LoopRuns(after, window, answer)
                   /\ HandleAll(window, answer) = after[Len(events)]
  BY <1>1, LoopEnds
<1>3. Good(after[0], 0)
  <2>1. channel => ReplayedUpTo(table, answer, 0, shown)
    <3>1. \A m : /\ ~SpokenOf(answer, 0, m) /\ ~RoleSpokenOf(answer, 0, m)
                 /\ ~MuteSpokenOf(answer, 0, m)
      BY <1>1 DEF SpokenOf, RoleSpokenOf, MuteSpokenOf
    <3>2. QED
      BY <3>1 DEF ReplayedUpTo, ShowsRoomAsOf
  <2>2. /\ IsWindow(window) /\ window.inChannel = channel /\ window.view = table
        /\ after[0] = window
    BY <1>2 DEF IsWindow, LoopRuns
  <2> HIDE DEF window
  <2>3. QED
    BY <2>1, <2>2
<1>4. ASSUME NEW n \in 0..last, n < last, Good(after[n], n)
      PROVE  Good(after[n + 1], n + 1)
  <2>1. PICK w : w = after[n]
    OBVIOUS
  <2>2. IsWindow(w)
        /\ (w.inChannel => w.view \in MemberTable /\ ReplayedUpTo(w.view, answer, n, shown))
    BY <1>4, <2>1
  <2> HIDE DEF Good, window
  <2>3. n \in Nat /\ n + 1 <= last /\ n + 1 \in 1..Len(events) /\ (n + 1) - 1 = n
    BY <1>1, <1>4
  <2>4. after[n + 1] = IF n + 1 \in answer THEN Handle(w, events[n + 1].message) ELSE w
    BY <1>2, <2>1, <2>3 DEF LoopRuns
  <2>5. CASE n + 1 \notin answer
    <3>1. w.inChannel => w.view \in MemberTable /\ ReplayedUpTo(w.view, answer, n + 1, shown)
      BY <2>2, <2>3, <2>5, ReplayPasses
    <3>2. QED
      BY <2>2, <2>4, <2>5, <3>1 DEF Good
  <2>6. CASE n + 1 \in answer
    <3> DEFINE msg == events[n + 1].message
               next == ApplyToView(w.view, msg)
    <3>1. /\ msg \in Message
          /\ msg.type = "MemberJoined" => msg.state = [role |-> "Member", serverMuted |-> FALSE]
      <4>1. events[n + 1] \in Event
        BY <2>3 DEF LogInv, SessionInv, TypeOK
      <4>2. QED
        BY <2>3, <4>1 DEF Event, LogInv, ArrivalsAreFresh
    <3>2. w.inChannel => next \in MemberTable /\ ListFollows(w.view, next, msg)
      <4> HIDE DEF msg
      <4>1. QED
        BY <2>2, <3>1, ApplyFollows
    <3> HIDE DEF next
    <3>3. w.inChannel => ReplayedUpTo(next, answer, n + 1, shown)
      BY <1>1, <2>2, <2>3, <2>6, <3>2, ReplayFollows
    <3>4. PICK v : v = Handle(w, msg)
      OBVIOUS
    <3>5. /\ IsWindow(v) /\ v = after[n + 1]
          /\ v.inChannel => w.inChannel /\ v.view = next
      BY <2>2, <2>4, <2>6, <3>4, HandledWindow DEF next
    <3>6. QED
      BY <3>2, <3>3, <3>5 DEF Good
  <2>7. QED
    BY <2>5, <2>6
<1> HIDE DEF Good
<1>5. Good(after[last], last)
  <2> DEFINE T == {n \in Nat : Good(after[n], n)}
  <2>1. T \in SUBSET Nat /\ 0 \in T
    BY <1>3
  <2>2. \A n \in T : 0 <= n /\ n < last => n + 1 \in T
    BY <1>1, <1>4
  <2> HIDE DEF T
  <2>3. \A n \in 0..last : n \in T
    BY <1>1, <2>1, <2>2, Counting
  <2>4. last \in T
    BY <1>1, <2>3
  <2>5. QED
    BY <2>4 DEF T
<1>6. after[Len(events)] = after[last]
  <2> DEFINE T == {n \in Nat : after[n] = after[last]}
  <2>1. T \in SUBSET Nat /\ last \in T
    BY <1>1
  <2>2. ASSUME NEW n \in T, last <= n, n < Len(events)
        PROVE  n + 1 \in T
    <3>1. n + 1 \in 1..Len(events) /\ n + 1 \notin answer /\ (n + 1) - 1 = n
      BY <1>1, <2>2
    <3>2. after[n + 1] = after[n]
      BY <1>2, <3>1 DEF LoopRuns
    <3>3. QED
      BY <2>2, <3>2
  <2> HIDE DEF T
  <2>3. \A n \in last..Len(events) : n \in T
    BY <1>1, <2>1, <2>2, Counting
  <2>4. Len(events) \in T
    BY <1>1, <2>3
  <2>5. QED
    BY <2>4 DEF T
<1>7. PICK w : w = after[last]
  OBVIOUS
<1>8. /\ IsWindow(w)
      /\ w.inChannel => w.view \in MemberTable /\ ReplayedUpTo(w.view, answer, last, shown)
  BY <1>5, <1>7 DEF Good
<1>9. w.inChannel => ShowsRoomAsOf(w.view, last)
  BY <1>8, ReplayArrives
<1>10. HandleAll(window, answer) = w
  BY <1>2, <1>6, <1>7
<1>11. QED
  BY <1>8, <1>9, <1>10 DEF IsWindow

-----------------------------------------------------------------------------
(* The invariant of a window whose answers come in order.                  *)

\* A poll asks from no further than the window has got, and its answer goes at least as
\* far as that.
PollKeepsUp(poll) ==
  /\ poll.from <= lastSequence
  /\ poll.answer # Unanswered =>
       /\ \A x \in poll.answer : VisibleTo(events[x], Owner)
       /\ poll.from < lastSequence => lastSequence \in poll.answer

\* Polls are answered in the order they are made, so a later answer knows what an earlier
\* one does, unless it did not ask for it.
AnswersAfter(earlier, later) ==
  later.answer # Unanswered =>
    /\ earlier.answer # Unanswered
    /\ \A x \in earlier.answer : x > later.from => x \in later.answer

InOrder ==
  /\ inChannel \in BOOLEAN
  /\ VisibleTo(events[lastSequence], Owner)
  /\ inChannel => view \in MemberTable /\ ShowsRoomAsOf(view, lastSequence)
  /\ \A i \in 1..Len(polls) : PollKeepsUp(polls[i])
  /\ \A i \in 1..Len(polls), k \in 1..Len(polls) : i < k => AnswersAfter(polls[i], polls[k])

ReplayInv ==
  /\ LogInv
  /\ JoinersWereOut
  /\ PollsInv
  /\ disordered \in BOOLEAN
  /\ ~disordered => InOrder

\* A poll that is made now asks from where the window is.
LEMMA StartInOrder ==
  ASSUME PollsInv, InOrder, PollStarts
  PROVE  InOrder'
<1> DEFINE new == [from |-> lastSequence, answer |-> Unanswered]
<1>1. /\ UNCHANGED <<sessionVars, inChannel, lastSequence, view>>
      /\ polls' = Append(polls, new)
  BY DEF PollStarts
<1>2. events' = events
  BY <1>1 DEF sessionVars
<1>3. lastSequence \in Nat /\ polls \in Seq(Poll) /\ new \in Poll
  BY DEF PollsInv, Poll
<1>4. /\ Len(polls') = Len(polls) + 1 /\ Len(polls) \in Nat
      /\ \A i \in 1..Len(polls) : polls'[i] = polls[i]
      /\ polls'[Len(polls) + 1] = new
  BY <1>1, <1>3
<1>5. PollKeepsUp(new) /\ \A poll : AnswersAfter(poll, new)
  BY <1>3 DEF PollKeepsUp, AnswersAfter
<1>6. ASSUME NEW i \in 1..Len(polls')
      PROVE  PollKeepsUp(polls[i])'
  <2>1. i \in 1..Len(polls) \/ i = Len(polls) + 1
    BY <1>4
  <2>2. PollKeepsUp(polls'[i])
    BY <1>4, <1>5, <2>1 DEF InOrder
  <2>3. QED
    BY <1>1, <1>2, <2>2 DEF PollKeepsUp
<1>7. ASSUME NEW i \in 1..Len(polls'), NEW k \in 1..Len(polls'), i < k
      PROVE  AnswersAfter(polls'[i], polls'[k])
  <2>1. i \in 1..Len(polls) /\ (k \in 1..Len(polls) \/ k = Len(polls) + 1)
    BY <1>4, <1>7
  <2>2. QED
    BY <1>4, <1>5, <1>7, <2>1 DEF InOrder
<1>8. QED
  BY <1>1, <1>2, <1>6, <1>7 DEF InOrder, ShowsRoomAsOf, AnswersAfter

\* The first poll that has no answer gets one that knows all that is in the log.
LEMMA AnswerInOrder ==
  ASSUME PollsInv, InOrder, PollAnswered
  PROVE  InOrder'
<1>1. UNCHANGED <<sessionVars, inChannel, lastSequence, view>>
  BY DEF PollAnswered
<1>2. PICK i \in 1..Len(polls) :
        /\ \A j \in 1..(i - 1) : polls[j].answer # Unanswered
        /\ polls[i].answer = Unanswered
        /\ polls' = [polls EXCEPT ![i].answer = EventsSince(Owner, polls[i].from)]
  BY DEF PollAnswered
<1>3. events' = events
  BY <1>1 DEF sessionVars
<1>4. /\ TypeOK /\ SequenceIsPosition /\ polls \in Seq(Poll) /\ Len(events) \in Nat
      /\ lastSequence \in 1..Len(events)
  BY DEF PollsInv, SessionInv, TypeOK
<1> DEFINE answer == EventsSince(Owner, polls[i].from)
<1>5. polls[i] \in Poll /\ polls[i].from \in Nat
  <2>1. polls[i] \in Poll
    BY <1>4
  <2>2. QED
    BY <2>1 DEF Poll
<1>6. \A x : x \in answer <=> x \in 1..Len(events) /\ x > polls[i].from
                                /\ VisibleTo(events[x], Owner)
  BY <1>4, <1>5 DEF EventsSince, SequenceIsPosition
<1> HIDE DEF answer
<1>7. /\ Len(polls') = Len(polls)
      /\ \A k \in 1..Len(polls) : polls'[k].from = polls[k].from
      /\ \A k \in 1..Len(polls) : polls'[k].answer = IF k = i THEN answer ELSE polls[k].answer
  <2>1. polls' = [polls EXCEPT ![i] = [polls[i] EXCEPT !.answer = answer]]
    BY <1>2 DEF answer
  <2>2. /\ [polls[i] EXCEPT !.answer = answer].from = polls[i].from
        /\ [polls[i] EXCEPT !.answer = answer].answer = answer
    BY <1>5 DEF Poll
  <2>3. QED
    BY <1>4, <2>1, <2>2
<1>8. ASSUME NEW k \in 1..Len(polls')
      PROVE  PollKeepsUp(polls[k])'
  <2>1. PollKeepsUp(polls[k]) /\ k \in 1..Len(polls)
    BY <1>7 DEF InOrder
  <2>2. CASE k = i
    BY <1>1, <1>3, <1>4, <1>6, <1>7, <2>1, <2>2 DEF PollKeepsUp, InOrder
  <2>3. CASE k # i
    BY <1>1, <1>3, <1>7, <2>1, <2>3 DEF PollKeepsUp
  <2>4. QED
    BY <2>2, <2>3
<1>9. ASSUME NEW j \in 1..Len(polls'), NEW k \in 1..Len(polls'), j < k
      PROVE  AnswersAfter(polls'[j], polls'[k])
  <2>1. AnswersAfter(polls[j], polls[k]) /\ j \in 1..Len(polls) /\ k \in 1..Len(polls)
    BY <1>7, <1>9 DEF InOrder
  <2>2. CASE k = i
    <3>1. j \in 1..(i - 1) /\ j # i
      BY <1>9, <2>2
    <3>2. polls[j].answer # Unanswered /\ polls'[j].answer = polls[j].answer
      BY <1>2, <1>7, <2>1, <3>1
    <3>3. \A x \in polls[j].answer : x \in 1..Len(events) /\ VisibleTo(events[x], Owner)
      BY <2>1, <3>2 DEF InOrder, PollKeepsUp, PollsInv, PollIsSound, NoGapAfter
    <3>4. QED
      BY <1>6, <1>7, <2>1, <2>2, <3>2, <3>3 DEF AnswersAfter
  <2>3. CASE j = i
    <3>1. polls[k].answer = Unanswered /\ k # i
      BY <1>2, <1>9, <2>1, <2>3 DEF AnswersAfter
    <3>2. QED
      BY <1>7, <2>1, <3>1 DEF AnswersAfter
  <2>4. CASE j # i /\ k # i
    BY <1>7, <2>1, <2>4 DEF AnswersAfter
  <2>5. QED
    BY <2>2, <2>3, <2>4
<1>10. QED
  BY <1>1, <1>3, <1>8, <1>9 DEF InOrder, ShowsRoomAsOf, AnswersAfter

\* The answer of the oldest poll is worked off: whatever part of it the window has seen
\* before, it shows the room as of the end of the answer, and that is no step back.
LEMMA ReturnInOrder ==
  ASSUME LogInv, JoinersWereOut, PollsInv, PollReturns, disordered \in BOOLEAN,
         ~disordered => InOrder
  PROVE  disordered' \in BOOLEAN /\ (~disordered' => InOrder')
<1>1. UNCHANGED sessionVars
  BY DEF PollReturns
<1>2. PICK i \in 1..Len(polls) :
        /\ polls[i].answer # Unanswered
        /\ disordered' = (disordered \/ i > 1)
        /\ polls' = RemoveAt(polls, i)
        /\ LET after == HandleAll([inChannel |-> inChannel, view |-> view, peers |-> peers],
                                  polls[i].answer)
           IN  inChannel' = after.inChannel /\ view' = after.view
        /\ lastSequence' = IF polls[i].answer = {} THEN lastSequence ELSE LastOf(polls[i].answer)
  BY DEF PollReturns
<1>3. events' = events
  BY <1>1 DEF sessionVars
<1>4. disordered' \in BOOLEAN /\ (~disordered' => ~disordered /\ i = 1)
  <2>1. disordered' = (disordered \/ i > 1)
    BY <1>2
  <2>2. (i > 1) \in BOOLEAN /\ (~(i > 1) => i = 1)
    OBVIOUS
  <2>3. QED
    BY <2>1, <2>2
<1> SUFFICES ASSUME ~disordered' PROVE InOrder'
  BY <1>4
<1>5. InOrder /\ i = 1
  BY <1>4
<1> DEFINE answer == polls[1].answer
           from == polls[1].from
           after == HandleAll([inChannel |-> inChannel, view |-> view, peers |-> peers], answer)
<1>6. /\ TypeOK /\ SequenceIsPosition /\ polls \in Seq(Poll) /\ Len(events) \in Nat
      /\ lastSequence \in 1..Len(events) /\ Len(polls) \in Nat /\ Len(polls) > 0
  BY DEF PollsInv, SessionInv, TypeOK
<1>7. /\ from \in 1..Len(events) /\ NoGapAfter(from, answer)
      /\ from <= lastSequence
      /\ \A x \in answer : VisibleTo(events[x], Owner)
      /\ from < lastSequence => lastSequence \in answer
  BY <1>2, <1>5 DEF PollsInv, PollIsSound, InOrder, PollKeepsUp
<1>8. answer \in SUBSET (1..Len(events))
  <2>1. polls[1] \in Poll
    BY <1>5, <1>6
  <2>2. answer \in SUBSET Nat
    BY <1>2, <1>5, <2>1 DEF Poll
  <2>3. QED
    BY <1>7, <2>2 DEF NoGapAfter
<1>9. /\ polls' = RemoveAt(polls, 1)
      /\ inChannel' = after.inChannel /\ view' = after.view
      /\ answer = {} => lastSequence' = lastSequence
      /\ answer # {} => lastSequence' \in answer /\ \A k \in answer : k <= lastSequence'
  BY <1>2, <1>5, <1>6, <1>8, LastOfAnswer
<1>10. /\ Len(polls') = Len(polls) - 1
       /\ \A k \in 1..(Len(polls) - 1) : polls'[k] = polls[k + 1]
  <2>1. 1 \in 1..Len(polls)
    BY <1>6
  <2>2. /\ Len(RemoveAt(polls, 1)) = Len(polls) - 1
        /\ \A k \in 1..(Len(polls) - 1) : RemoveAt(polls, 1)[k] = polls[k + 1]
    BY <1>6, <2>1, Removed
  <2>3. QED
    BY <1>9, <2>2
<1>11. \A k \in 2..Len(polls) : AnswersAfter(polls[1], polls[k])
  <2>1. \A k \in 2..Len(polls) : 1 \in 1..Len(polls) /\ k \in 1..Len(polls) /\ 1 < k
    BY <1>6
  <2>2. QED
    BY <1>5, <2>1 DEF InOrder
<1>12. polls[1].answer = answer /\ answer # Unanswered
  BY <1>2, <1>5
<1> HIDE DEF answer, from, after
<1>13. lastSequence' \in 1..Len(events) /\ lastSequence <= lastSequence' /\ lastSequence' \in Nat
  <2>1. CASE answer = {}
    BY <1>6, <1>9, <2>1
  <2>2. CASE answer # {}
    <3>1. lastSequence' \in answer /\ lastSequence' \in 1..Len(events)
      BY <1>8, <1>9, <2>2
    <3>2. from < lastSequence'
      BY <1>7, <3>1 DEF NoGapAfter
    <3>3. lastSequence <= lastSequence'
      <4>1. CASE from < lastSequence
        BY <1>7, <1>9, <2>2, <4>1
      <4>2. CASE ~(from < lastSequence)
        BY <1>6, <1>7, <3>1, <3>2, <4>2
      <4>3. QED
        BY <4>1, <4>2
    <3>4. QED
      BY <1>6, <3>1, <3>3
  <2>3. QED
    BY <2>1, <2>2
<1>14. WholeStretch(from, answer, lastSequence')
  <2>1. answer \subseteq 1..lastSequence'
    BY <1>6, <1>8, <1>9, <1>13
  <2>2. \A x \in answer : x > from
    BY <1>7 DEF NoGapAfter
  <2>3. ASSUME NEW k \in 1..lastSequence', k > from, k \notin answer
        PROVE  events[k].target # NoTarget
    <3>1. answer # {}
      BY <1>6, <1>7, <1>9, <2>3
    <3>2. lastSequence' \in answer /\ k < lastSequence' /\ k \in 1..Len(events)
      BY <1>9, <1>13, <2>3, <3>1
    <3>3. ~VisibleTo(events[k], Owner)
      BY <1>7, <2>3, <3>2 DEF NoGapAfter
    <3>4. QED
      BY <3>3 DEF VisibleTo
  <2>4. QED
    BY <2>1, <2>2, <2>3 DEF WholeStretch
<1>15. /\ inChannel' \in BOOLEAN
       /\ inChannel' => view' \in MemberTable /\ ShowsRoomAsOf(view', lastSequence')
  <2>1. /\ from \in Nat /\ lastSequence' \in 0..Len(events)
        /\ lastSequence \in 0..lastSequence' /\ from <= lastSequence
    BY <1>6, <1>7, <1>13
  <2>2. inChannel \in BOOLEAN
        /\ (inChannel => view \in MemberTable /\ ShowsRoomAsOf(view, lastSequence))
    BY <1>5 DEF InOrder
  <2>3. /\ after.inChannel \in BOOLEAN
        /\ after.inChannel => after.view \in MemberTable
                                /\ ShowsRoomAsOf(after.view, lastSequence')
    BY <1>14, <2>1, <2>2, AnswerIsReplayed DEF after
  <2>4. QED
    BY <1>9, <2>3
<1>16. VisibleTo(events[lastSequence'], Owner)
  BY <1>5, <1>7, <1>9 DEF InOrder
<1>17. ASSUME NEW k \in 1..Len(polls')
       PROVE  PollKeepsUp(polls[k])'
  <2>1. k + 1 \in 2..Len(polls) /\ k + 1 \in 1..Len(polls) /\ polls'[k] = polls[k + 1]
    BY <1>6, <1>10
  <2>2. PICK poll : poll = polls[k + 1]
    OBVIOUS
  <2>3. PollKeepsUp(poll) /\ AnswersAfter(polls[1], poll) /\ poll.from \in Nat
    BY <1>5, <1>11, <2>1, <2>2 DEF InOrder, PollsInv, PollIsSound
  <2>4. poll.from <= lastSequence'
    BY <1>6, <1>13, <2>3 DEF PollKeepsUp
  <2>5. poll.answer # Unanswered /\ poll.from < lastSequence' => lastSequence' \in poll.answer
    <3>1. CASE answer = {}
      BY <1>9, <2>3, <3>1 DEF PollKeepsUp
    <3>2. CASE answer # {}
      BY <1>9, <1>12, <1>13, <2>3, <3>2 DEF AnswersAfter
    <3>3. QED
      BY <3>1, <3>2
  <2>6. QED
    BY <1>3, <2>1, <2>2, <2>3, <2>4, <2>5 DEF PollKeepsUp
<1>18. ASSUME NEW j \in 1..Len(polls'), NEW k \in 1..Len(polls'), j < k
       PROVE  AnswersAfter(polls'[j], polls'[k])
  <2>1. /\ j + 1 \in 1..Len(polls) /\ k + 1 \in 1..Len(polls) /\ j + 1 < k + 1
        /\ polls'[j] = polls[j + 1] /\ polls'[k] = polls[k + 1]
    BY <1>6, <1>10, <1>18
  <2>2. QED
    BY <1>5, <2>1 DEF InOrder
<1>19. QED
  BY <1>3, <1>15, <1>16, <1>17, <1>18 DEF InOrder, ShowsRoomAsOf, AnswersAfter

\* What the room does meanwhile adds to the log, and speaks of no place in it that a
\* window or an answer knows.
LEMMA RoomInOrder ==
  ASSUME PollsInv, InOrder, RoomOperation
  PROVE  InOrder'
<1>1. UNCHANGED <<inChannel, lastSequence, polls, view>>
  BY DEF RoomOperation, pollVars
<1>2. SessionNext
  BY SessionAssumption DEF RoomOperation, SessionNext
<1>3. SessionInv /\ StepIsLogged
  BY <1>2, SessionStepIsLogged DEF PollsInv
<1>4. Len(events) \in Nat /\ \A i \in 1..Len(events) : events'[i] = events[i]
  BY <1>3 DEF SessionInv, TypeOK, StepIsLogged
<1>5. PICK n \in 1..Len(events) : n = lastSequence
  BY DEF PollsInv
<1>6. VisibleTo(events'[lastSequence'], Owner)
  BY <1>1, <1>4, <1>5 DEF InOrder
<1>7. ASSUME NEW m
      PROVE  /\ MemberAsOf(events', n, m) <=> MemberAsOf(events, n, m)
             /\ HostAsOf(events', n, m) <=> HostAsOf(events, n, m)
             /\ MutedAsOf(events', n, m) <=> MutedAsOf(events, n, m)
  <2>1. PICK log, log2 : log = events /\ log2 = events'
    OBVIOUS
  <2>2. n \in Nat /\ \A i \in 1..n : log2[i] = log[i]
    BY <1>4, <1>5, <2>1
  <2>3. /\ MemberAsOf(log2, n, m) <=> MemberAsOf(log, n, m)
        /\ HostAsOf(log2, n, m) <=> HostAsOf(log, n, m)
        /\ MutedAsOf(log2, n, m) <=> MutedAsOf(log, n, m)
    BY <2>2, AsOfCongruent, MutedAsOfCongruent
  <2>4. QED
    BY <2>1, <2>3
<1>8. inChannel => view \in MemberTable /\ ShowsRoomAsOf(view, lastSequence)'
  BY <1>1, <1>5, <1>7 DEF InOrder, ShowsRoomAsOf
<1>9. ASSUME NEW k \in 1..Len(polls)
      PROVE  PollKeepsUp(polls[k])'
  <2>1. PICK poll : poll = polls[k]
    OBVIOUS
  <2>2. PollKeepsUp(poll) /\ PollIsSound(poll)
    BY <2>1 DEF InOrder, PollsInv
  <2>3. poll.answer # Unanswered => \A x \in poll.answer : VisibleTo(events'[x], Owner)
    BY <1>4, <2>2 DEF PollKeepsUp, PollIsSound, NoGapAfter
  <2>4. QED
    BY <1>1, <2>1, <2>2, <2>3 DEF PollKeepsUp
<1>10. QED
  BY <1>1, <1>6, <1>8, <1>9 DEF InOrder, AnswersAfter, ShowsRoomAsOf

\* A window that has been left shows nothing that could be wrong.
LEMMA LeaveInOrder ==
  ASSUME InOrder, UNCHANGED <<sessionVars, lastSequence, polls>>,
         \/ inChannel' = FALSE
         \/ UNCHANGED <<inChannel, view>>
  PROVE  InOrder'
<1>1. events' = events
  BY DEF sessionVars
<1>2. \A i \in 1..Len(polls) : PollKeepsUp(polls[i])'
  BY <1>1 DEF InOrder, PollKeepsUp
<1>3. inChannel' \in BOOLEAN
      /\ (inChannel' => view' \in MemberTable /\ ShowsRoomAsOf(view', lastSequence))
  <2>1. CASE inChannel' = FALSE
    BY <2>1
  <2>2. CASE UNCHANGED <<inChannel, view>>
    <3>1. inChannel' = inChannel /\ view' = view
      BY <2>2
    <3>2. QED
      BY <3>1 DEF InOrder
  <2>3. QED
    BY <2>1, <2>2
<1>4. QED
  BY <1>1, <1>2, <1>3 DEF InOrder, AnswersAfter, ShowsRoomAsOf

LEMMA ReplayStep == ReplayInv /\ [PollingNext]_pollingVars => ReplayInv'
<1> SUFFICES ASSUME ReplayInv, [PollingNext]_pollingVars PROVE ReplayInv'
  OBVIOUS
<1>1. LogInv /\ JoinersWereOut /\ PollsInv /\ disordered \in BOOLEAN /\ (~disordered => InOrder)
  BY DEF ReplayInv
<1>2. [SessionNext]_sessionVars
  <2>1. CASE RoomOperation
    BY <2>1, SessionAssumption DEF RoomOperation, SessionNext
  <2>2. CASE ~RoomOperation
    BY <2>2 DEF PollingNext, PollStarts, PollAnswered, PollReturns, OwnerLeaves,
                pollingVars, sessionVars
  <2>3. QED
    BY <2>1, <2>2
<1>3. LogInv' /\ JoinersWereOut' /\ PollsInv'
  BY <1>1, <1>2, LogNextInv, JoinersStep, PollingStep
<1>4. disordered' \in BOOLEAN /\ (~disordered' => InOrder')
  <2>1. CASE RoomOperation
    <3>1. disordered' = disordered
      BY <2>1 DEF RoomOperation, pollVars
    <3>2. QED
      BY <1>1, <2>1, <3>1, RoomInOrder
  <2>2. CASE PollStarts
    <3>1. disordered' = disordered
      BY <2>2 DEF PollStarts
    <3>2. QED
      BY <1>1, <2>2, <3>1, StartInOrder
  <2>3. CASE PollAnswered
    <3>1. disordered' = disordered
      BY <2>3 DEF PollAnswered
    <3>2. QED
      BY <1>1, <2>3, <3>1, AnswerInOrder
  <2>4. CASE PollReturns
    BY <1>1, <2>4, ReturnInOrder
  <2>5. CASE OwnerLeaves
    <3>1. /\ UNCHANGED <<sessionVars, lastSequence, polls>>
          /\ inChannel' = FALSE /\ disordered' = disordered
      BY <2>5 DEF OwnerLeaves
    <3>2. QED
      BY <1>1, <3>1, LeaveInOrder
  <2>6. CASE UNCHANGED pollingVars
    <3>1. UNCHANGED <<sessionVars, lastSequence, polls, inChannel, view, disordered>>
      BY <2>6 DEF pollingVars, sessionVars
    <3>2. QED
      BY <1>1, <3>1, LeaveInOrder
  <2>7. QED
    BY <2>1, <2>2, <2>3, <2>4, <2>5, <2>6 DEF PollingNext
<1>5. QED
  BY <1>3, <1>4 DEF ReplayInv

\* The room begins with its owner, in the log and in the window.
LEMMA ReplayBegins == PollingInit => ReplayInv
<1> SUFFICES ASSUME PollingInit PROVE ReplayInv
  OBVIOUS
<1> DEFINE snapshot == RoomStateMsg(NewRoom(Owner))
<1>1. LogInv /\ PollsInv
  BY LogInitInv, PollingBegins DEF PollingInit
<1>2. /\ Len(events) = 1 /\ lastSequence = 1 /\ polls = <<>> /\ Len(polls) = 0
      /\ inChannel = TRUE /\ disordered = FALSE
      /\ view = members /\ members = NewRoom(Owner)
      /\ events[1].message = snapshot /\ events[1].target = NoTarget
  BY DEF PollingInit, SessionInit, LatestSequence, RuntimeEvent
<1>3. snapshot.type = "RoomState" /\ snapshot.members = NewRoom(Owner)
  BY DEF RoomStateMsg
<1> HIDE DEF snapshot
<1>4. JoinersWereOut
  BY <1>2, <1>3 DEF JoinersWereOut
<1>5. VisibleTo(events[lastSequence], Owner)
  BY <1>2 DEF VisibleTo
<1>6. ShowsRoomAsOf(view, lastSequence)
  <2>1. TypeOK /\ OneHost /\ LogTellsMembership /\ LogTellsHost
    BY <1>1 DEF LogInv, SessionInv
  <2>2. ASSUME NEW m \in MemberId
        PROVE  /\ m \in DOMAIN members <=> MemberAsOf(events, 1, m)
               /\ m \in DOMAIN members =>
                    /\ members[m].role = "Host" <=> HostAsOf(events, 1, m)
                    /\ members[m].serverMuted <=> MutedAsOf(events, 1, m)
    <3>1. /\ m \in DOMAIN members <=> MemberAsOf(events, 1, m)
          /\ m \in DOMAIN members => (members[m].role = "Host" <=> HostAsOf(events, 1, m))
      BY <1>2, <2>1 DEF OneHost, LogTellsMembership, LogTellsHost, HasMember
    <3>2. m \in DOMAIN members => ~members[m].serverMuted
      BY <1>2 DEF NewRoom
    <3>3. ~Mutes(snapshot, m)
      BY <1>2, <1>3, <3>2 DEF Mutes
    <3>4. ~MutedAsOf(events, 1, m)
      <4>1. \A i \in 1..1 : i = 1
        OBVIOUS
      <4>2. QED
        BY <1>2, <3>3, <4>1 DEF MutedAsOf
    <3>5. QED
      BY <3>1, <3>2, <3>4
  <2>3. QED
    BY <1>2, <2>2 DEF ShowsRoomAsOf
<1>7. view \in MemberTable
  BY <1>1, <1>2 DEF LogInv, SessionInv, TypeOK
<1>8. InOrder
  <2>1. \A i \in 1..Len(polls) : FALSE
    BY <1>2
  <2>2. inChannel \in BOOLEAN
    BY <1>2
  <2>3. QED
    BY <1>5, <1>6, <1>7, <2>1, <2>2 DEF InOrder
<1>9. disordered \in BOOLEAN
  BY <1>2
<1>10. QED
  BY <1>1, <1>4, <1>8, <1>9 DEF ReplayInv

\* Where nothing for the owner is left to read, what the window has read up to is the end
\* of the log but for what is private to others, and the end of the log is the room.
LEMMA ReplayIsRight == ReplayInv => CaughtUpIsRight
<1> SUFFICES ASSUME ReplayInv, inChannel, ~disordered, EventsSince(Owner, lastSequence) = {}
             PROVE  /\ DOMAIN view = DOMAIN members
                    /\ \A m \in DOMAIN members :
                         /\ view[m].role = members[m].role
                         /\ view[m].serverMuted <=> MutedAsOf(events, Len(events), m)
  BY DEF CaughtUpIsRight
<1>1. /\ TypeOK /\ OneHost /\ SequenceIsPosition /\ LogTellsMembership /\ LogTellsHost
      /\ PrivateEventsAreSilent /\ Len(events) \in Nat /\ lastSequence \in 1..Len(events)
  BY DEF ReplayInv, LogInv, SessionInv, TypeOK, PollsInv
<1>2. view \in MemberTable /\ ShowsRoomAsOf(view, lastSequence)
  BY DEF ReplayInv, InOrder
<1>3. \A j \in (lastSequence + 1)..Len(events) : events[j].target # NoTarget
  BY <1>1 DEF EventsSince, SequenceIsPosition, VisibleTo
<1>4. ShowsRoomAsOf(view, Len(events))
  <2>1. lastSequence \in Nat /\ lastSequence <= Len(events)
    BY <1>1
  <2>2. \A m : /\ MemberAsOf(events, Len(events), m) <=> MemberAsOf(events, lastSequence, m)
               /\ HostAsOf(events, Len(events), m) <=> HostAsOf(events, lastSequence, m)
               /\ MutedAsOf(events, Len(events), m) <=> MutedAsOf(events, lastSequence, m)
    BY <1>1, <1>3, <2>1, SilentStretch
  <2>3. QED
    BY <1>2, <2>2 DEF ShowsRoomAsOf
<1>5. /\ DOMAIN view \subseteq MemberId /\ DOMAIN members \subseteq MemberId
      /\ \A m \in DOMAIN view : view[m] \in MemberState
      /\ \A m \in DOMAIN members : members[m] \in MemberState
  BY <1>1, <1>2, TableDef DEF TypeOK
<1>6. \A m \in MemberId : m \in DOMAIN view <=> m \in DOMAIN members
  BY <1>1, <1>4 DEF ShowsRoomAsOf, LogTellsMembership, HasMember
<1>7. DOMAIN view = DOMAIN members
  BY <1>5, <1>6
<1>8. ASSUME NEW m \in DOMAIN members
      PROVE  /\ view[m].role = members[m].role
             /\ view[m].serverMuted <=> MutedAsOf(events, Len(events), m)
  <2>1. m \in MemberId /\ m \in DOMAIN view
    BY <1>5, <1>7
  <2>2. view[m].role \in {"Host", "Member"} /\ members[m].role \in {"Host", "Member"}
    BY <1>5, <2>1 DEF MemberState, MemberRole
  <2>3. view[m].role = "Host" <=> members[m].role = "Host"
    BY <1>1, <1>4, <2>1 DEF ShowsRoomAsOf, LogTellsHost, OneHost
  <2>4. view[m].serverMuted <=> MutedAsOf(events, Len(events), m)
    BY <1>4, <2>1 DEF ShowsRoomAsOf
  <2>5. QED
    BY <2>2, <2>3, <2>4
<1>9. QED
  BY <1>7, <1>8

-----------------------------------------------------------------------------
\* However many polls overlap, and however much of the log is handed on twice for it: as
\* long as the answers come in order, a window with nothing newer to read shows the
\* members and the host of the room, and the mutes that were announced.
THEOREM CaughtUpWindowIsRight == PollingSpec => []CaughtUpIsRight
<1>1. QED
  BY ReplayBegins, ReplayStep, ReplayIsRight, PTL DEF PollingSpec

-----------------------------------------------------------------------------
(* An owner that handed the room on and was removed.                       *)

\* An event that makes the owner's window leave.
IsNotice(i) ==
  /\ i \in 1..Len(events)
  /\ VisibleTo(events[i], Owner)
  /\ TellsToLeave(Owner, events[i].message)

\* A window that worked an answer off and is in the channel still was in it before, and
\* none of the events told it to leave: the loop goes on behind such an event, but no
\* event brings the window back.
LEMMA AnswerEndsIt ==
  ASSUME Len(events) \in Nat, NEW answer \in SUBSET (1..Len(events)),
         NEW channel \in BOOLEAN, NEW table, NEW held
  PROVE  LET after == HandleAll([inChannel |-> channel, view |-> table, peers |-> held], answer) IN
         /\ after.inChannel \in BOOLEAN
         /\ after.inChannel =>
              channel /\ \A i \in answer : ~TellsToLeave(Owner, events[i].message)
<1> DEFINE window == [inChannel |-> channel, view |-> table, peers |-> held]
           Good(w, n) == /\ IsWindow(w)
                         /\ w.inChannel =>
                              /\ channel
                              /\ \A i \in answer :
                                   i <= n => ~TellsToLeave(Owner, events[i].message)
           last == Len(events)
<1>1. PICK after : /\ LoopRuns(after, window, answer)
                   /\ HandleAll(window, answer) = after[last]
  BY LoopEnds
<1>2. Good(after[0], 0)
  <2>1. /\ IsWindow(window) /\ window.inChannel = channel /\ after[0] = window
    BY <1>1 DEF IsWindow, LoopRuns
  <2>2. \A i \in answer : ~(i <= 0)
    OBVIOUS
  <2> HIDE DEF window
  <2>3. QED
    BY <2>1, <2>2
<1>3. ASSUME NEW n \in 0..last, n < last, Good(after[n], n)
      PROVE  Good(after[n + 1], n + 1)
  <2>1. PICK w : w = after[n]
    OBVIOUS
  <2>2. /\ IsWindow(w)
        /\ w.inChannel => /\ channel
                          /\ \A i \in answer : i <= n => ~TellsToLeave(Owner, events[i].message)
    BY <1>3, <2>1
  <2> HIDE DEF Good, window
  <2>3. n + 1 \in 1..Len(events) /\ (n + 1) - 1 = n
    BY <1>3
  <2>4. after[n + 1] = IF n + 1 \in answer THEN Handle(w, events[n + 1].message) ELSE w
    BY <1>1, <2>1, <2>3 DEF LoopRuns
  <2>5. \A i \in answer : i <= n + 1 => i <= n \/ i = n + 1
    BY <1>3
  <2>6. CASE n + 1 \notin answer
    BY <2>2, <2>4, <2>5, <2>6 DEF Good
  <2>7. CASE n + 1 \in answer
    <3>1. PICK msg : msg = events[n + 1].message
      OBVIOUS
    <3>2. PICK v : v = Handle(w, msg)
      OBVIOUS
    <3>3. /\ IsWindow(v) /\ v = after[n + 1]
          /\ v.inChannel => w.inChannel /\ ~TellsToLeave(Owner, msg)
      BY <2>2, <2>4, <2>7, <3>1, <3>2, HandledWindow
    <3>4. QED
      BY <2>2, <2>5, <3>1, <3>3 DEF Good
  <2>8. QED
    BY <2>6, <2>7
<1> HIDE DEF Good
<1>4. Good(after[last], last)
  <2> DEFINE T == {n \in Nat : Good(after[n], n)}
  <2>1. T \in SUBSET Nat /\ 0 \in T
    BY <1>2
  <2>2. \A n \in T : 0 <= n /\ n < last => n + 1 \in T
    BY <1>3
  <2> HIDE DEF T
  <2>3. \A n \in 0..last : n \in T
    BY <2>1, <2>2, Counting
  <2>4. QED
    BY <2>3 DEF T
<1>5. \A i \in answer : i <= last
  OBVIOUS
<1>6. PICK w : w = after[last]
  OBVIOUS
<1>7. /\ IsWindow(w)
      /\ w.inChannel => channel /\ \A i \in answer : ~TellsToLeave(Owner, events[i].message)
  BY <1>4, <1>5, <1>6 DEF Good
<1>8. QED
  BY <1>1, <1>6, <1>7 DEF IsWindow

\* Who is not in the room any more was sent the notice, and a window that has handled
\* the notice is not in the channel.
NoticeInv ==
  /\ PollsInv
  /\ inChannel \in BOOLEAN
  /\ handled \subseteq 1..Len(events)
  /\ ~HasMember(members, Owner) => \E i \in 2..Len(events) : IsNotice(i)
  /\ inChannel => \A i \in handled : ~TellsToLeave(Owner, events[i].message)

\* The owner of a room that is out of it has the notice still before its cursor.
OwnerIsTold ==
  inChannel /\ ~HasMember(members, Owner) =>
    \E i \in (lastSequence + 1)..Len(events) : IsNotice(i)

LEMMA NoticeRoomStep ==
  ASSUME NoticeInv, RoomOperation
  PROVE  NoticeInv'
<1>1. UNCHANGED <<handled, inChannel>>
  BY DEF RoomOperation, pollVars
<1>2. SessionNext
  BY SessionAssumption DEF RoomOperation, SessionNext
<1>3. StepIsLogged /\ PollsInv' /\ lastSequence \in 1..Len(events)
  BY <1>2, SessionStepIsLogged, RoomStep DEF NoticeInv, PollsInv
<1>4. /\ Len(events) \in Nat /\ Len(events') \in Nat /\ Len(events) <= Len(events')
      /\ \A i \in 1..Len(events) : events'[i] = events[i]
  BY <1>3 DEF PollsInv, SessionInv, TypeOK, StepIsLogged
<1>5. handled \subseteq 1..Len(events')
  BY <1>4 DEF NoticeInv
<1>6. ASSUME ~HasMember(members, Owner)'
      PROVE  \E i \in 2..Len(events') : IsNotice(i)'
  <2>1. CASE HasMember(members, Owner)
    <3>1. Owner \in DOMAIN members \ DOMAIN members'
      BY <1>6, <2>1 DEF HasMember
    <3>2. PICK i \in (Len(events) + 1)..Len(events') :
            /\ events'[i].target = Owner
            /\ events'[i].message.type = "MemberRemoved"
            /\ events'[i].message.member = Owner
      BY <1>3, <3>1 DEF StepIsLogged
    <3>3. i \in 2..Len(events') /\ i \in 1..Len(events')
      BY <1>3, <1>4
    <3>4. QED
      BY <3>2, <3>3 DEF IsNotice, VisibleTo, TellsToLeave
  <2>2. CASE ~HasMember(members, Owner)
    <3>1. PICK i \in 2..Len(events) : IsNotice(i)
      BY <2>2 DEF NoticeInv
    <3>2. i \in 2..Len(events') /\ i \in 1..Len(events') /\ events'[i] = events[i]
      BY <1>4, <3>1 DEF IsNotice
    <3>3. QED
      BY <3>1, <3>2 DEF IsNotice, VisibleTo, TellsToLeave
  <2>3. QED
    BY <2>1, <2>2
<1>7. inChannel => \A i \in handled : ~TellsToLeave(Owner, events'[i].message)
  BY <1>4 DEF NoticeInv
<1>8. QED
  BY <1>1, <1>3, <1>5, <1>6, <1>7 DEF NoticeInv, TellsToLeave

LEMMA NoticeReturnStep ==
  ASSUME NoticeInv, PollReturns
  PROVE  NoticeInv'
<1>1. UNCHANGED sessionVars /\ PollsInv'
  BY ReturnStep DEF PollReturns, NoticeInv
<1>2. PICK i \in 1..Len(polls) :
        /\ polls[i].answer # Unanswered
        /\ inChannel' = HandleAll([inChannel |-> inChannel, view |-> view, peers |-> peers],
                                  polls[i].answer).inChannel
        /\ handled' = handled \cup polls[i].answer
  BY DEF PollReturns
<1>3. PICK answer : answer = polls[i].answer
  OBVIOUS
<1>4. Len(events) \in Nat
  BY DEF NoticeInv, PollsInv, SessionInv, TypeOK
<1>5. answer \in SUBSET (1..Len(events))
  <2>1. NoGapAfter(polls[i].from, polls[i].answer)
    BY <1>2 DEF NoticeInv, PollsInv, PollIsSound
  <2>2. QED
    BY <1>3, <2>1 DEF NoGapAfter
<1>6. /\ inChannel' \in BOOLEAN
      /\ inChannel' =>
           inChannel /\ \A k \in answer : ~TellsToLeave(Owner, events[k].message)
  BY <1>2, <1>3, <1>4, <1>5, AnswerEndsIt DEF NoticeInv
<1>7. /\ handled' \subseteq 1..Len(events)
      /\ inChannel' => \A k \in handled' : ~TellsToLeave(Owner, events[k].message)
  BY <1>2, <1>3, <1>5, <1>6 DEF NoticeInv
<1>8. UNCHANGED <<members, events>>
  BY <1>1 DEF sessionVars
<1>9. ~HasMember(members, Owner) => \E k \in 2..Len(events) : IsNotice(k)
  BY DEF NoticeInv
<1>10. QED
  BY <1>1, <1>6, <1>7, <1>8, <1>9 DEF NoticeInv, IsNotice, TellsToLeave, VisibleTo

LEMMA NoticeStep == NoticeInv /\ [PollingNext]_pollingVars => NoticeInv'
<1> SUFFICES ASSUME NoticeInv, [PollingNext]_pollingVars PROVE NoticeInv'
  OBVIOUS
<1>1. PollsInv'
  BY PollingStep DEF NoticeInv
<1>2. CASE RoomOperation
  BY <1>2, NoticeRoomStep
<1>3. CASE PollReturns
  BY <1>3, NoticeReturnStep
<1>4. CASE PollStarts \/ PollAnswered \/ OwnerLeaves \/ UNCHANGED pollingVars
  <2>1. /\ UNCHANGED <<members, events, handled>>
        /\ inChannel' = inChannel \/ inChannel' = FALSE
    BY <1>4 DEF PollStarts, PollAnswered, OwnerLeaves, pollingVars, sessionVars
  <2>2. inChannel \in BOOLEAN /\ inChannel' \in BOOLEAN /\ (inChannel' => inChannel)
    <3>1. inChannel \in BOOLEAN
      BY DEF NoticeInv
    <3>2. CASE inChannel' = inChannel
      BY <3>1, <3>2
    <3>3. CASE inChannel' = FALSE
      BY <3>1, <3>3
    <3>4. QED
      BY <2>1, <3>2, <3>3
  <2>3. /\ handled' \subseteq 1..Len(events')
        /\ ~HasMember(members, Owner)' => \E i \in 2..Len(events') : IsNotice(i)'
    BY <2>1 DEF NoticeInv, IsNotice, TellsToLeave, VisibleTo
  <2>4. inChannel' => \A i \in handled' : ~TellsToLeave(Owner, events'[i].message)
    BY <2>1, <2>2 DEF NoticeInv
  <2>5. QED
    BY <1>1, <2>2, <2>3, <2>4 DEF NoticeInv, TellsToLeave
<1>5. QED
  BY <1>2, <1>3, <1>4 DEF PollingNext

\* However many polls overlap and in whatever order they return, also when a late answer
\* sets the cursor back or is worked off by a window that left and stays out, a removed
\* owner that is still in the channel has the notice to read (remove_member, syncNow,
\* handleLeave): it is never behind the cursor unhandled, nor handled without effect.
THEOREM OwnersNoticeIsNotMissed == PollingSpec => []OwnerIsTold
<1>1. PollingInit => NoticeInv
  <2> SUFFICES ASSUME PollingInit PROVE NoticeInv
    OBVIOUS
  <2>1. PollsInv
    BY PollingBegins
  <2>2. HasMember(members, Owner) /\ handled = {} /\ inChannel = TRUE
    BY DEF PollingInit, SessionInit, NewRoom, HasMember
  <2>3. QED
    BY <2>1, <2>2 DEF NoticeInv
<1>2. NoticeInv => OwnerIsTold
  <2> SUFFICES ASSUME NoticeInv, inChannel, ~HasMember(members, Owner)
               PROVE  \E i \in (lastSequence + 1)..Len(events) : IsNotice(i)
    BY DEF OwnerIsTold
  <2>1. PICK i \in 2..Len(events) : IsNotice(i)
    BY DEF NoticeInv
  <2>2. i \notin handled
    BY <2>1 DEF NoticeInv, IsNotice
  <2>3. ~(i <= lastSequence)
    BY <2>1, <2>2 DEF NoticeInv, PollsInv, NothingIsSkipped, IsNotice
  <2>4. i \in (lastSequence + 1)..Len(events)
    BY <2>1, <2>3 DEF NoticeInv, PollsInv, SessionInv, TypeOK
  <2>5. QED
    BY <2>1, <2>4
<1>3. QED
  BY <1>1, <1>2, NoticeStep, PTL DEF PollingSpec

=============================================================================
