--------------------------- MODULE PeerSessionProofs ---------------------------
(***************************************************************************)
(* Proofs about PeerSession, for any number of offers, lost signals and    *)
(* interruptions of the link.                                              *)
(***************************************************************************)
EXTENDS PeerSession, TLAPS

-----------------------------------------------------------------------------
(* The relay state of a window.                                            *)

LinkTypes ==
  /\ signaling \in [End -> {"none", "stable", "have-local-offer", "have-remote-offer"}]
  /\ ice \in [End -> {"new", "checking", "connected", "disconnected", "failed"}]
  /\ checkingTimer \in [End -> BOOLEAN]
  /\ retried \in [End -> BOOLEAN]
  /\ relayActive \in [End -> BOOLEAN]
  /\ networkPath \in [End -> {"p2p", "relay"}]
  /\ offers \in Nat

Descriptions(n) == [type : {"Offer", "Answer"}, offer : 1..n]

NegotiationTypes ==
  /\ pending \in [End -> 0..offers]
  /\ agreed \in [End -> 0..offers]
  /\ tasks \in [End -> SUBSET Descriptions(offers)]
  /\ toJoiner \in Seq(Descriptions(offers))
  /\ toOwner \subseteq Descriptions(offers)
  /\ lost \in Nat
  /\ replaced \in BOOLEAN

\* Nothing goes on before the owner's first offer, so that a restart is never the first.
OwnerBegins ==
  /\ signaling["owner"] = "none" => offers = 0
  /\ offers = 0 => \A e \in End : ice[e] = "new" /\ ~checkingTimer[e]

\* The timer runs while the connection reports "checking", and no longer.
TimerWatchesChecking == \A e \in End : checkingTimer[e] => ice[e] = "checking"

RelayInv ==
  /\ LinkTypes
  /\ NegotiationTypes
  /\ OwnerBegins
  /\ TimerWatchesChecking
  /\ RelayIsTheLastResort

LEMMA Ends == End = {"owner", "joiner"} /\ Other("owner") = "joiner" /\ Other("joiner") = "owner"
<1>1. \A e \in End : Other(e) \in End /\ Other(e) # e
  <2>1. TAKE e \in End
  <2>2. \E x \in End : x # e
    BY DEF End
  <2>3. QED
    BY <2>2 DEF Other
<1>2. QED
  BY <1>1 DEF End

LEMMA MoreOffers ==
  ASSUME NEW m \in Nat, NEW n \in Nat, m <= n
  PROVE  /\ Descriptions(m) \subseteq Descriptions(n)
         /\ Seq(Descriptions(m)) \subseteq Seq(Descriptions(n))
         /\ \A o \in 1..n : Task("Offer", o) \in Descriptions(n)
                             /\ Task("Answer", o) \in Descriptions(n)
<1>1. Descriptions(m) \subseteq Descriptions(n)
  BY DEF Descriptions
<1>2. Seq(Descriptions(m)) \subseteq Seq(Descriptions(n))
  BY <1>1
<1>3. QED
  BY <1>1, <1>2 DEF Descriptions, Task

\* What handleIceState does to the relay state, whatever the new state of the link.
LEMMA IceStep ==
  ASSUME RelayInv, NEW e \in End, NEW state \in {"connected", "failed", "disconnected", "checking"},
         NEW late \in BOOLEAN, HandleIceState(e, state, late),
         UNCHANGED <<signaling, pending, agreed, toJoiner, toOwner, lost, replaced>>,
         ice' = [ice EXCEPT ![e] = state],
         checkingTimer' \in [End -> BOOLEAN], TimerWatchesChecking',
         offers # 0
  PROVE  RelayInv'
<1> USE DEF RelayInv
<1>1. /\ LinkTypes /\ NegotiationTypes /\ OwnerBegins /\ RelayIsTheLastResort
  OBVIOUS
<1>2. \/ /\ state = "connected"
         /\ retried' = [retried EXCEPT ![e] = FALSE]
         /\ relayActive' = [relayActive EXCEPT ![e] = FALSE]
         /\ networkPath' = [networkPath EXCEPT ![e] = IF relayActive[e] THEN "p2p" ELSE @]
         /\ UNCHANGED <<tasks, offers>>
      \/ state # "connected" /\ UNCHANGED <<retried, relayActive, networkPath, tasks, offers>>
      \/ state # "connected" /\ RestartIce(e)
      \/ /\ state # "connected"
         /\ retried[e]
         /\ relayActive' = [relayActive EXCEPT ![e] = TRUE]
         /\ networkPath' = [networkPath EXCEPT ![e] = "relay"]
         /\ UNCHANGED <<retried, tasks, offers>>
  BY DEF HandleIceState, Established, SwitchToRelay, Decide
<1>3. /\ offers' \in Nat /\ offers' >= offers /\ offers' # 0
      /\ tasks' \in [End -> SUBSET Descriptions(offers')]
  <2>1. CASE RestartIce(e)
    <3>1. offers' = offers + 1 /\ tasks' = [tasks EXCEPT ![e] = @ \cup {Task("Offer", offers + 1)}]
      BY <2>1 DEF RestartIce
    <3>2. offers \in Nat /\ tasks \in [End -> SUBSET Descriptions(offers)]
      BY DEF LinkTypes, NegotiationTypes
    <3>3. /\ Task("Offer", offers + 1) \in Descriptions(offers + 1)
          /\ Descriptions(offers) \subseteq Descriptions(offers + 1)
      BY <3>2, MoreOffers
    <3>4. QED
      BY <3>1, <3>2, <3>3
  <2>2. CASE UNCHANGED <<tasks, offers>>
    BY <2>2 DEF LinkTypes, NegotiationTypes
  <2>3. QED
    BY <1>2, <2>1, <2>2
<1>4. /\ retried' \in [End -> BOOLEAN] /\ relayActive' \in [End -> BOOLEAN]
      /\ networkPath' \in [End -> {"p2p", "relay"}]
  BY <1>2 DEF LinkTypes, RestartIce
<1>5. LinkTypes'
  BY <1>3, <1>4 DEF LinkTypes
<1>6. NegotiationTypes'
  <2>1. /\ Seq(Descriptions(offers)) \subseteq Seq(Descriptions(offers'))
        /\ Descriptions(offers) \subseteq Descriptions(offers')
        /\ 0..offers \subseteq 0..offers'
    BY <1>3, MoreOffers DEF LinkTypes
  <2>2. QED
    BY <1>3, <2>1 DEF NegotiationTypes
<1>7. OwnerBegins'
  BY <1>3 DEF OwnerBegins, LinkTypes
<1>8. RelayIsTheLastResort'
  <2>1. ASSUME NEW d \in End, d # e
        PROVE  /\ retried'[d] = retried[d] /\ relayActive'[d] = relayActive[d]
               /\ networkPath'[d] = networkPath[d] /\ ice'[d] = ice[d]
    BY <1>2, <2>1 DEF LinkTypes, RestartIce
  <2>2. /\ relayActive'[e] <=> networkPath'[e] = "relay"
        /\ relayActive'[e] => retried'[e] /\ ice'[e] # "connected"
        /\ retried'[e] => offers' > 1
    BY <1>2 DEF LinkTypes, RestartIce, RelayIsTheLastResort
  <2>3. QED
    BY <1>3, <2>1, <2>2 DEF RelayIsTheLastResort, LinkTypes
<1>9. QED
  BY <1>5, <1>6, <1>7, <1>8

\* A new agreement, or none, on the way to one: the relay state stays.
LEMMA AgreeStep ==
  ASSUME RelayInv,
         UNCHANGED <<retried, relayActive, networkPath>>,
         offers' \in Nat, offers' >= offers, offers' # 0,
         signaling' \in [End -> {"none", "stable", "have-local-offer", "have-remote-offer"}],
         signaling'["owner"] # "none",
         \/ UNCHANGED <<ice, checkingTimer>>
         \/ \E e \in End : NewIceState(e, "checking"),
         pending' \in [End -> 0..offers'],
         agreed' \in [End -> 0..offers'],
         tasks' \in [End -> SUBSET Descriptions(offers')],
         toJoiner' \in Seq(Descriptions(offers')),
         toOwner' \subseteq Descriptions(offers'),
         lost' \in Nat, replaced' \in BOOLEAN
  PROVE  RelayInv'
<1>1. LinkTypes'
  <2>1. CASE UNCHANGED <<ice, checkingTimer>>
    BY <2>1 DEF RelayInv, LinkTypes
  <2>2. ASSUME NEW e \in End, NewIceState(e, "checking")
        PROVE  LinkTypes'
    <3>1. ice' \in [End -> {"new", "checking", "connected", "disconnected", "failed"}]
      BY <2>2 DEF NewIceState, RelayInv, LinkTypes
    <3>2. checkingTimer' \in [End -> BOOLEAN]
      BY <2>2 DEF NewIceState, RelayInv, LinkTypes
    <3>3. QED
      BY <3>1, <3>2 DEF RelayInv, LinkTypes
  <2>3. QED
    BY <2>1, <2>2
<1>2. NegotiationTypes'
  BY DEF NegotiationTypes
<1>3. OwnerBegins'
  BY DEF OwnerBegins
<1>4. RelayIsTheLastResort'
  <2>1. \A e \in End : ice'[e] = ice[e] \/ ice'[e] = "checking"
    BY DEF NewIceState, RelayInv, LinkTypes
  <2>2. QED
    BY <2>1 DEF RelayInv, RelayIsTheLastResort, LinkTypes
<1>5. TimerWatchesChecking'
  <2>1. CASE UNCHANGED <<ice, checkingTimer>>
    BY <2>1 DEF RelayInv, TimerWatchesChecking
  <2>2. ASSUME NEW e \in End, NewIceState(e, "checking")
        PROVE  TimerWatchesChecking'
    BY <2>2 DEF NewIceState, RelayInv, LinkTypes, TimerWatchesChecking
  <2>3. QED
    BY <2>1, <2>2
<1>6. QED
  BY <1>1, <1>2, <1>3, <1>4, <1>5 DEF RelayInv

\* Before the owner's first offer nothing is under way.
LEMMA NothingYet ==
  ASSUME RelayInv, offers = 0
  PROVE  /\ \A e \in End : tasks[e] = {} /\ ice[e] = "new" /\ ~checkingTimer[e] /\ ~retried[e]
         /\ toJoiner = <<>> /\ toOwner = {}
<1>1. Descriptions(0) = {}
  BY DEF Descriptions
<1>2. /\ tasks \in [End -> SUBSET {}] /\ toJoiner \in Seq({}) /\ toOwner \subseteq {}
  BY <1>1 DEF RelayInv, NegotiationTypes
<1>3. toJoiner = <<>>
  BY <1>2
<1>4. QED
  BY <1>2, <1>3 DEF RelayInv, OwnerBegins, RelayIsTheLastResort

LEMMA RelayTypes ==
  ASSUME RelayInv
  PROVE  /\ offers \in Nat
         /\ signaling \in [End -> {"none", "stable", "have-local-offer", "have-remote-offer"}]
         /\ pending \in [End -> 0..offers]
         /\ agreed \in [End -> 0..offers]
         /\ tasks \in [End -> SUBSET Descriptions(offers)]
         /\ toJoiner \in Seq(Descriptions(offers))
         /\ toOwner \subseteq Descriptions(offers)
         /\ lost \in Nat /\ replaced \in BOOLEAN
BY DEF RelayInv, LinkTypes, NegotiationTypes

LEMMA StartRelay ==
  ASSUME RelayInv, StartOffer
  PROVE  RelayInv'
<1>1. offers = 0
  BY DEF StartOffer, RelayInv, OwnerBegins
<1>2. /\ offers' = 1
      /\ signaling' = [signaling EXCEPT !["owner"] = "stable"]
      /\ tasks' = [tasks EXCEPT !["owner"] = @ \cup {Task("Offer", 1)}]
      /\ UNCHANGED <<pending, agreed, toJoiner, toOwner, ice, checkingTimer, retried,
                     relayActive, networkPath, lost, replaced>>
  BY DEF StartOffer, linkVars
<1>3. /\ signaling'["owner"] = "stable"
      /\ signaling' \in [End -> {"none", "stable", "have-local-offer", "have-remote-offer"}]
  BY <1>2, RelayTypes, Ends
<1>4. /\ Descriptions(0) \subseteq Descriptions(1)
      /\ Seq(Descriptions(0)) \subseteq Seq(Descriptions(1))
      /\ Task("Offer", 1) \in Descriptions(1)
  BY MoreOffers
<1>5. /\ tasks' \in [End -> SUBSET Descriptions(1)]
      /\ toJoiner' \in Seq(Descriptions(1))
      /\ toOwner' \subseteq Descriptions(1)
      /\ pending' \in [End -> 0..1]
      /\ agreed' \in [End -> 0..1]
  <2>1. /\ tasks \in [End -> SUBSET Descriptions(0)] /\ toJoiner \in Seq(Descriptions(0))
        /\ toOwner \subseteq Descriptions(0)
        /\ pending \in [End -> 0..0] /\ agreed \in [End -> 0..0]
    BY <1>1, RelayTypes
  <2>2. tasks' \in [End -> SUBSET Descriptions(1)]
    BY <1>2, <1>4, <2>1
  <2>3. toJoiner' \in Seq(Descriptions(1)) /\ toOwner' \subseteq Descriptions(1)
    BY <1>2, <1>4, <2>1
  <2>4. pending' \in [End -> 0..1] /\ agreed' \in [End -> 0..1]
    BY <1>2, <2>1
  <2>5. QED
    BY <2>2, <2>3, <2>4
<1>6. QED
  BY <1>1, <1>2, <1>3, <1>5, AgreeStep, RelayTypes

\* What a handler that is resumed, or a signal, is about.
LEMMA DescriptionsAreOfOffers ==
  ASSUME RelayInv
  PROVE  /\ \A e \in End : \A t \in tasks[e] :
              t.type \in {"Offer", "Answer"} /\ t.offer \in 1..offers /\ t = Task(t.type, t.offer)
         /\ \A s \in toOwner :
              s.type \in {"Offer", "Answer"} /\ s.offer \in 1..offers /\ s = Signal(s.type, s.offer)
         /\ \A i \in 1..Len(toJoiner) :
              /\ toJoiner[i].type \in {"Offer", "Answer"} /\ toJoiner[i].offer \in 1..offers
              /\ toJoiner[i] = Signal(toJoiner[i].type, toJoiner[i].offer)
<1>1. \A x \in Descriptions(offers) :
        x.type \in {"Offer", "Answer"} /\ x.offer \in 1..offers
        /\ x = Task(x.type, x.offer) /\ x = Signal(x.type, x.offer)
  BY DEF Descriptions, Task, Signal
<1>2. \A i \in 1..Len(toJoiner) : toJoiner[i] \in Descriptions(offers)
  BY RelayTypes
<1>3. QED
  BY <1>1, <1>2, RelayTypes

\* Sending a description keeps the types and puts it where it belongs.
LEMMA SendTypes ==
  ASSUME RelayInv, NEW e \in End, NEW s \in Descriptions(offers), SendSignal(e, s)
  PROVE  /\ toJoiner' \in Seq(Descriptions(offers))
         /\ toOwner' \subseteq Descriptions(offers)
<1>1. toJoiner \in Seq(Descriptions(offers)) /\ toOwner \subseteq Descriptions(offers)
  BY RelayTypes
<1>2. CASE e = "owner" /\ toJoiner' = Append(toJoiner, s) /\ UNCHANGED toOwner
  BY <1>1, <1>2
<1>3. CASE e = "joiner" /\ toOwner' = toOwner \cup {s} /\ UNCHANGED toJoiner
  BY <1>1, <1>3
<1>4. QED
  BY <1>2, <1>3 DEF SendSignal

LEMMA OwnerHasBegun ==
  ASSUME RelayInv, offers # 0
  PROVE  signaling["owner"] # "none"
BY DEF RelayInv, OwnerBegins

\* OfferIsMade, AnswerIsMade and HandleSignal by what comes of them.
LEMMA OfferRelay ==
  ASSUME RelayInv, NEW e \in End, OfferIsMade(e)
  PROVE  RelayInv'
<1>1. PICK t \in tasks[e] :
        /\ t.type = "Offer"
        /\ tasks' = [tasks EXCEPT ![e] = @ \ {t}]
        /\ \/ /\ signaling' = [signaling EXCEPT ![e] = "have-local-offer"]
              /\ pending' = [pending EXCEPT ![e] = t.offer]
              /\ SendSignal(e, Signal("Offer", t.offer))
              /\ GivesUpItsOffer(e)
           \/ UNCHANGED <<signaling, pending, toJoiner, toOwner, replaced>>
  BY DEF OfferIsMade
<1>2. UNCHANGED <<agreed, ice, checkingTimer, retried, relayActive, networkPath, offers, lost>>
  BY DEF OfferIsMade, linkVars
<1>3. t.offer \in 1..offers /\ offers \in Nat /\ offers # 0
  BY <1>1, DescriptionsAreOfOffers, RelayTypes
<1>4. /\ Signal("Offer", t.offer) \in Descriptions(offers)
  BY <1>3 DEF Signal, Descriptions
<1>5. /\ signaling' \in [End -> {"none", "stable", "have-local-offer", "have-remote-offer"}]
      /\ signaling'["owner"] # "none"
      /\ pending' \in [End -> 0..offers]
      /\ tasks' \in [End -> SUBSET Descriptions(offers)]
      /\ toJoiner' \in Seq(Descriptions(offers)) /\ toOwner' \subseteq Descriptions(offers)
      /\ replaced' \in BOOLEAN
  <2>1. tasks' \in [End -> SUBSET Descriptions(offers)]
    BY <1>1, RelayTypes
  <2>2. CASE UNCHANGED <<signaling, pending, toJoiner, toOwner, replaced>>
    BY <1>3, <2>1, <2>2, RelayTypes, OwnerHasBegun
  <2>3. CASE /\ signaling' = [signaling EXCEPT ![e] = "have-local-offer"]
             /\ pending' = [pending EXCEPT ![e] = t.offer]
             /\ SendSignal(e, Signal("Offer", t.offer))
             /\ GivesUpItsOffer(e)
    <3>1. /\ signaling' \in [End -> {"none", "stable", "have-local-offer", "have-remote-offer"}]
          /\ signaling'["owner"] # "none"
      BY <1>3, <2>3, RelayTypes, OwnerHasBegun, Ends
    <3>2. pending' \in [End -> 0..offers]
      BY <1>3, <2>3, RelayTypes
    <3>3. toJoiner' \in Seq(Descriptions(offers)) /\ toOwner' \subseteq Descriptions(offers)
      BY <1>4, <2>3, SendTypes
    <3>4. replaced' \in BOOLEAN
      BY <2>3 DEF GivesUpItsOffer
    <3>5. QED
      BY <2>1, <3>1, <3>2, <3>3, <3>4
  <2>4. QED
    BY <1>1, <2>2, <2>3
<1>6. QED
  BY <1>2, <1>3, <1>5, AgreeStep, RelayTypes

LEMMA ConcludeTypes ==
  ASSUME RelayInv, NEW e \in End, NEW o \in 1..offers, Conclude(e, o)
  PROVE  /\ signaling' \in [End -> {"none", "stable", "have-local-offer", "have-remote-offer"}]
         /\ signaling'["owner"] # "none"
         /\ pending' \in [End -> 0..offers] /\ agreed' \in [End -> 0..offers]
         /\ UNCHANGED <<retried, relayActive, networkPath>>
         /\ UNCHANGED <<ice, checkingTimer>> \/ \E d \in End : NewIceState(d, "checking")
<1>1. offers # 0 /\ offers \in Nat
  BY RelayTypes
<1>2. /\ signaling' = [signaling EXCEPT ![e] = "stable"]
      /\ pending' = [pending EXCEPT ![e] = 0]
      /\ agreed' = [agreed EXCEPT ![e] = o]
      /\ UNCHANGED <<ice, checkingTimer>> \/ NewIceState(e, "checking")
      /\ UNCHANGED <<retried, relayActive, networkPath>>
  BY DEF Conclude
<1>3. /\ signaling' \in [End -> {"none", "stable", "have-local-offer", "have-remote-offer"}]
      /\ signaling'["owner"] # "none"
  BY <1>1, <1>2, RelayTypes, OwnerHasBegun, Ends
<1>4. pending' \in [End -> 0..offers] /\ agreed' \in [End -> 0..offers]
  BY <1>1, <1>2, RelayTypes
<1>5. QED
  BY <1>2, <1>3, <1>4

LEMMA AnswerRelay ==
  ASSUME RelayInv, NEW e \in End, AnswerIsMade(e)
  PROVE  RelayInv'
<1>1. PICK t \in tasks[e] :
        /\ t.type = "Answer"
        /\ tasks' = [tasks EXCEPT ![e] = @ \ {t}]
        /\ \/ Conclude(e, t.offer) /\ SendSignal(e, Signal("Answer", t.offer))
           \/ UNCHANGED <<negotiationVars, linkVars>>
  BY DEF AnswerIsMade
<1>2. UNCHANGED <<offers, lost, replaced>>
  BY DEF AnswerIsMade
<1>3. t.offer \in 1..offers /\ offers \in Nat /\ offers # 0
  BY <1>1, DescriptionsAreOfOffers, RelayTypes
<1>4. Signal("Answer", t.offer) \in Descriptions(offers)
  BY <1>3 DEF Signal, Descriptions
<1>5. tasks' \in [End -> SUBSET Descriptions(offers)]
  BY <1>1, RelayTypes
<1>6. CASE Conclude(e, t.offer) /\ SendSignal(e, Signal("Answer", t.offer))
  <2>1. toJoiner' \in Seq(Descriptions(offers)) /\ toOwner' \subseteq Descriptions(offers)
    BY <1>4, <1>6, SendTypes
  <2>2. /\ signaling' \in [End -> {"none", "stable", "have-local-offer", "have-remote-offer"}]
        /\ signaling'["owner"] # "none"
        /\ pending' \in [End -> 0..offers] /\ agreed' \in [End -> 0..offers]
        /\ UNCHANGED <<retried, relayActive, networkPath>>
        /\ UNCHANGED <<ice, checkingTimer>> \/ \E d \in End : NewIceState(d, "checking")
    BY <1>3, <1>6, ConcludeTypes
  <2>3. QED
    BY <1>2, <1>3, <1>5, <2>1, <2>2, AgreeStep, RelayTypes
<1>7. CASE UNCHANGED <<negotiationVars, linkVars>>
  <2>1. UNCHANGED <<signaling, pending, agreed, toJoiner, toOwner, ice, checkingTimer, retried,
                    relayActive, networkPath>>
    BY <1>7 DEF negotiationVars, linkVars
  <2>2. QED
    BY <1>2, <1>3, <1>5, <2>1, AgreeStep, RelayTypes, OwnerHasBegun
<1>8. QED
  BY <1>1, <1>6, <1>7

\* What handling a signal can come to, apart from taking it off its queue.
LEMMA OneSignalRelay ==
  ASSUME RelayInv, NEW e \in End, NEW s \in Descriptions(offers),
         HandleOffer(e, s) \/ HandleAnswer(e, s),
         toJoiner' \in Seq(Descriptions(offers)), toOwner' \subseteq Descriptions(offers),
         UNCHANGED <<offers, lost>>
  PROVE  RelayInv'
<1>1. /\ s.offer \in 1..offers /\ offers \in Nat /\ offers # 0
      /\ Task("Answer", s.offer) \in Descriptions(offers)
  <2>1. s.offer \in 1..offers /\ offers \in Nat
    BY RelayTypes DEF Descriptions
  <2>2. QED
    BY <2>1, MoreOffers
<1>2. CASE HandleOffer(e, s)
  <2>1. /\ signaling' = [signaling EXCEPT ![e] = "have-remote-offer"]
        /\ pending' = [pending EXCEPT ![e] = s.offer]
        /\ tasks' = [tasks EXCEPT ![e] = @ \cup {Task("Answer", s.offer)}]
        /\ UNCHANGED <<agreed, ice, checkingTimer, retried, relayActive, networkPath>>
    BY <1>2 DEF HandleOffer, linkVars
  <2>2. /\ signaling' \in [End -> {"none", "stable", "have-local-offer", "have-remote-offer"}]
        /\ signaling'["owner"] # "none"
    BY <1>1, <2>1, RelayTypes, OwnerHasBegun, Ends
  <2>3. pending' \in [End -> 0..offers]
    BY <1>1, <2>1, RelayTypes
  <2>4. tasks' \in [End -> SUBSET Descriptions(offers)]
    BY <1>1, <2>1, RelayTypes
  <2>5. replaced' \in BOOLEAN
    BY <1>2 DEF HandleOffer, GivesUpItsOffer
  <2>6. QED
    BY <1>1, <2>1, <2>2, <2>3, <2>4, <2>5, AgreeStep, RelayTypes
<1>3. CASE HandleAnswer(e, s)
  <2>1. UNCHANGED <<tasks, replaced>>
    BY <1>3 DEF HandleAnswer
  <2>2. CASE Conclude(e, s.offer)
    <3>1. /\ signaling' \in [End -> {"none", "stable", "have-local-offer", "have-remote-offer"}]
          /\ signaling'["owner"] # "none"
          /\ pending' \in [End -> 0..offers] /\ agreed' \in [End -> 0..offers]
          /\ UNCHANGED <<retried, relayActive, networkPath>>
          /\ UNCHANGED <<ice, checkingTimer>> \/ \E d \in End : NewIceState(d, "checking")
      BY <1>1, <2>2, ConcludeTypes
    <3>2. QED
      BY <1>1, <2>1, <3>1, AgreeStep, RelayTypes
  <2>3. CASE UNCHANGED <<signaling, pending, agreed, linkVars>>
    <3>1. UNCHANGED <<signaling, pending, agreed, ice, checkingTimer, retried, relayActive,
                      networkPath>>
      BY <2>3 DEF linkVars
    <3>2. QED
      BY <1>1, <2>1, <3>1, AgreeStep, RelayTypes, OwnerHasBegun
  <2>4. QED
    BY <1>3, <2>2, <2>3 DEF HandleAnswer
<1>4. QED
  BY <1>2, <1>3

LEMMA SignalRelay ==
  ASSUME RelayInv, NEW e \in End, HandleSignal(e)
  PROVE  RelayInv'
<1>1. UNCHANGED <<offers, lost>>
  BY DEF HandleSignal
<1>2. CASE /\ e = "joiner" /\ toJoiner # <<>>
           /\ HandleOffer(e, Head(toJoiner)) \/ HandleAnswer(e, Head(toJoiner))
           /\ toJoiner' = Tail(toJoiner) /\ UNCHANGED toOwner
  <2>1. toJoiner \in Seq(Descriptions(offers))
    BY RelayTypes
  <2>2. Head(toJoiner) \in Descriptions(offers) /\ Tail(toJoiner) \in Seq(Descriptions(offers))
    BY <1>2, <2>1
  <2>3. QED
    BY <1>1, <1>2, <2>2, OneSignalRelay, RelayTypes
<1>3. ASSUME NEW s \in toOwner, HandleOffer(e, s) \/ HandleAnswer(e, s),
             toOwner' = toOwner \ {s}, UNCHANGED toJoiner
      PROVE  RelayInv'
  <2>1. s \in Descriptions(offers) /\ toOwner \subseteq Descriptions(offers)
    BY RelayTypes
  <2>2. QED
    BY <1>1, <1>3, <2>1, OneSignalRelay, RelayTypes
<1>4. QED
  BY <1>2, <1>3 DEF HandleSignal

LEMMA LostRelay ==
  ASSUME RelayInv, SignalIsLost
  PROVE  RelayInv'
<1>1. /\ UNCHANGED <<signaling, pending, agreed, tasks, toJoiner, ice, checkingTimer, retried,
                     relayActive, networkPath, offers, replaced>>
      /\ lost' = lost + 1 /\ toOwner # {} /\ toOwner' \subseteq toOwner
  BY DEF SignalIsLost, linkVars
<1>2. offers # 0
  BY <1>1, NothingYet
<1>3. QED
  BY <1>1, <1>2, AgreeStep, RelayTypes, OwnerHasBegun

\* The steps of the link: what they leave alone, and handleIceState.
LinkMoves(e) ==
  \/ LinkIsUp(e) \/ LinkFails(e) \/ LinkIsInterrupted(e)
  \/ \E late \in BOOLEAN : CheckingTimesOut(e, late)

LEMMA LinkRelay ==
  ASSUME RelayInv, NEW e \in End, LinkMoves(e)
  PROVE  /\ RelayInv'
         /\ offers # 0
         /\ UNCHANGED <<signaling, pending, agreed, toJoiner, toOwner, lost, replaced>>
         /\ UNCHANGED <<tasks, offers>> \/ RestartIce(e)
<1>1. UNCHANGED <<signaling, pending, agreed, toJoiner, toOwner, lost, replaced>>
  BY DEF LinkMoves, LinkIsUp, LinkFails, LinkIsInterrupted, CheckingTimesOut, negotiationVars
<1>2. PICK state \in {"connected", "failed", "disconnected", "checking"}, late \in BOOLEAN :
        /\ HandleIceState(e, state, late)
        /\ \/ NewIceState(e, state)
           \/ /\ state = "checking" /\ checkingTimer[e] /\ UNCHANGED ice
              /\ checkingTimer' = [checkingTimer EXCEPT ![e] = FALSE]
  BY DEF LinkMoves, LinkIsUp, LinkFails, LinkIsInterrupted, CheckingTimesOut
<1>3. offers # 0
  <2>1. ice[e] # "new" \/ checkingTimer[e]
    BY DEF LinkMoves, LinkIsUp, LinkFails, LinkIsInterrupted, CheckingTimesOut
  <2>2. QED
    BY <2>1, NothingYet
<1>4. UNCHANGED <<tasks, offers>> \/ RestartIce(e)
  BY <1>2 DEF HandleIceState, Established, SwitchToRelay
<1>5. RelayInv'
  <2>1. CASE NewIceState(e, state)
    <3>1. /\ ice' = [ice EXCEPT ![e] = state]
          /\ checkingTimer' \in [End -> BOOLEAN]
      BY <2>1 DEF NewIceState, RelayInv, LinkTypes
    <3>2. TimerWatchesChecking'
      BY <2>1 DEF NewIceState, RelayInv, LinkTypes, TimerWatchesChecking
    <3>3. QED
      BY <1>1, <1>2, <1>3, <3>1, <3>2, IceStep
  <2>2. CASE /\ state = "checking" /\ checkingTimer[e] /\ UNCHANGED ice
             /\ checkingTimer' = [checkingTimer EXCEPT ![e] = FALSE]
    <3>1. checkingTimer' \in [End -> BOOLEAN] /\ TimerWatchesChecking'
      BY <2>2 DEF RelayInv, LinkTypes, TimerWatchesChecking
    <3>2. ice' = [ice EXCEPT ![e] = state]
      BY <2>2 DEF RelayInv, LinkTypes, TimerWatchesChecking
    <3>3. QED
      BY <1>1, <1>2, <1>3, <3>1, <3>2, IceStep
  <2>3. QED
    BY <1>2, <2>1, <2>2
<1>6. QED
  BY <1>1, <1>3, <1>4, <1>5

LEMMA RelayStep ==
  ASSUME RelayInv, [SessionNext]_sessionVars
  PROVE  RelayInv'
<1>1. CASE StartOffer
  BY <1>1, StartRelay
<1>2. CASE SignalIsLost
  BY <1>2, LostRelay
<1>3. ASSUME NEW e \in End, OfferIsMade(e)
      PROVE  RelayInv'
  BY <1>3, OfferRelay
<1>4. ASSUME NEW e \in End, AnswerIsMade(e)
      PROVE  RelayInv'
  BY <1>4, AnswerRelay
<1>5. ASSUME NEW e \in End, HandleSignal(e)
      PROVE  RelayInv'
  BY <1>5, SignalRelay
<1>6. ASSUME NEW e \in End, LinkMoves(e)
      PROVE  RelayInv'
  BY <1>6, LinkRelay
<1>7. CASE UNCHANGED sessionVars
  BY <1>7 DEF sessionVars, RelayInv, LinkTypes, NegotiationTypes, OwnerBegins,
              TimerWatchesChecking, RelayIsTheLastResort
<1>8. QED
  BY <1>1, <1>2, <1>3, <1>4, <1>5, <1>6, <1>7 DEF SessionNext, LinkMoves

LEMMA RelayInit == SessionInit => RelayInv
<1> SUFFICES ASSUME SessionInit PROVE RelayInv
  OBVIOUS
<1>1. LinkTypes
  BY DEF SessionInit, LinkTypes
<1>2. NegotiationTypes
  <2>1. /\ pending = [e \in End |-> 0] /\ agreed = [e \in End |-> 0] /\ tasks = [e \in End |-> {}]
        /\ toJoiner = <<>> /\ toOwner = {} /\ offers = 0 /\ lost = 0 /\ replaced = FALSE
    BY DEF SessionInit
  <2>2. pending \in [End -> 0..offers] /\ agreed \in [End -> 0..offers]
    BY <2>1
  <2>3. tasks \in [End -> SUBSET Descriptions(offers)]
    BY <2>1
  <2>4. toJoiner \in Seq(Descriptions(offers)) /\ toOwner \subseteq Descriptions(offers)
    BY <2>1
  <2>5. QED
    BY <2>1, <2>2, <2>3, <2>4 DEF NegotiationTypes
<1>3. OwnerBegins /\ RelayIsTheLastResort /\ TimerWatchesChecking
  BY DEF SessionInit, OwnerBegins, RelayIsTheLastResort, TimerWatchesChecking
<1>4. QED
  BY <1>1, <1>2, <1>3 DEF RelayInv

\* The types, with what a window must have done before it says relay.
THEOREM RelayInvariant == PeerSpec => []RelayInv
<1>1. RelayInv /\ [SessionNext]_sessionVars => RelayInv'
  BY RelayStep
<1>2. QED
  BY <1>1, RelayInit, PTL DEF PeerSpec

\* A window says relay only after a restart of the checks did not help and only as long
\* as no link has come up since.
THEOREM RelayComesLast == PeerSpec => []RelayIsTheLastResort
<1>1. RelayInv => RelayIsTheLastResort
  BY DEF RelayInv
<1>2. QED
  BY <1>1, RelayInvariant, PTL

-----------------------------------------------------------------------------
(* The way of an offer: made, sent, taken, answered, the answer sent.  It  *)
(* is in one of these places at a time.                                    *)

\* The signals on their way to an end.
Coming(e) == IF e = "owner" THEN toOwner ELSE {toJoiner[i] : i \in 1..Len(toJoiner)}

\* An offer being made is not known to anyone yet.
OffersAreFresh ==
  \A e, d \in End, o \in 1..offers : Task("Offer", o) \in tasks[e] =>
    /\ Signal("Offer", o) \notin Coming(d) /\ Signal("Answer", o) \notin Coming(d)
    /\ Task("Answer", o) \notin tasks[d]
    /\ Task("Offer", o) \in tasks[d] => d = e

\* One on its way is not being answered, nor has it been.
AnsweredOnce ==
  \A e \in End, o \in 1..offers :
    /\ Signal("Offer", o) \in Coming(e) => /\ Task("Answer", o) \notin tasks[e]
                                           /\ Signal("Answer", o) \notin Coming(Other(e))
    /\ Task("Answer", o) \in tasks[e] => Signal("Answer", o) \notin Coming(Other(e))

\* The log has an offer once.
OfferedOnce ==
  \A i, j \in 1..Len(toJoiner) :
    toJoiner[i] = toJoiner[j] /\ toJoiner[i].type = "Offer" => i = j

-----------------------------------------------------------------------------
(* The way to agree.                                                       *)

NoOffer(s) == \A i \in 1..Len(s) : s[i].type # "Offer"

LastOffer(s, o) ==
  \E i \in 1..Len(s) : /\ s[i] = Signal("Offer", o)
                       /\ \A j \in (i + 1)..Len(s) : s[j].type # "Offer"

\* The answer comes before any offer.
AnswerFirst(s, o) ==
  \E i \in 1..Len(s) : /\ s[i] = Signal("Answer", o)
                       /\ \A j \in 1..(i - 1) : s[j].type # "Offer"

\* An offer comes before the answer does.
OfferFirst(s, o) ==
  \E i \in 1..Len(s) : /\ s[i].type = "Offer"
                       /\ \A j \in 1..(i - 1) : s[j] # Signal("Answer", o)

\* The owner has no offer out, or one the joiner has not seen.
OwnerRests == signaling["owner"] = "stable" /\ NoOffer(toJoiner)

OwnerWaits == signaling["owner"] = "have-local-offer" /\ LastOffer(toJoiner, pending["owner"])

\* Where the owner can be, by the state of the joiner.
JoinerHasNone ==
  /\ agreed["joiner"] = 0
  /\ \/ signaling["owner"] = "none" /\ agreed["owner"] = 0
     \/ OwnerRests /\ \E t \in tasks["owner"] : t.type = "Offer"
     \/ OwnerWaits

JoinerIsStable ==
  \/ OwnerRests /\ agreed["owner"] = agreed["joiner"]
  \/ OwnerWaits
  \/ /\ signaling["owner"] = "have-local-offer" /\ pending["owner"] = agreed["joiner"]
     /\ Signal("Answer", agreed["joiner"]) \in toOwner /\ NoOffer(toJoiner)

JoinerAnswers ==
  /\ Task("Answer", pending["joiner"]) \in tasks["joiner"]
  /\ \/ OwnerWaits
     \/ /\ signaling["owner"] = "have-local-offer" /\ pending["owner"] = pending["joiner"]
        /\ NoOffer(toJoiner)

JoinerOffers(p) ==
  \/ /\ Signal("Offer", p) \in toOwner /\ NoOffer(toJoiner)
     /\ signaling["owner"] \in {"stable", "have-local-offer"}
  \/ /\ signaling["owner"] = "have-remote-offer" /\ pending["owner"] = p
     /\ Task("Answer", p) \in tasks["owner"] /\ NoOffer(toJoiner)
  \/ /\ AnswerFirst(toJoiner, p) /\ agreed["owner"] = p
     /\ OwnerRests \/ OwnerWaits

OnTheWay ==
  /\ signaling["joiner"] = "none" => JoinerHasNone
  /\ signaling["joiner"] = "stable" => JoinerIsStable
  /\ signaling["joiner"] = "have-remote-offer" => JoinerAnswers
  /\ signaling["joiner"] = "have-local-offer" => JoinerOffers(pending["joiner"])

\* An offer of the owner's reaches the joiner before the answer to its own does: the
\* joiner will give its offer up.
Doomed == signaling["joiner"] = "have-local-offer" /\ OfferFirst(toJoiner, pending["joiner"])

\* The joiner stands by the offers it has out.
OffersAreStoodBy ==
  \A o \in 1..offers : Signal("Offer", o) \in toOwner =>
    signaling["joiner"] = "have-local-offer" /\ pending["joiner"] = o

OnTheWayToAgree == lost = 0 /\ ~replaced => OffersAreStoodBy /\ (Doomed \/ OnTheWay)

NothingPendsAtRest == \A e \in End : signaling[e] \in {"none", "stable"} => pending[e] = 0

BookInv == OffersAreFresh /\ AnsweredOnce

NegotiationInv ==
  /\ RelayInv
  /\ BookInv
  /\ OfferedOnce
  /\ NothingPendsAtRest
  /\ OnTheWayToAgree

-----------------------------------------------------------------------------
(* Keeping the book of the offers.                                         *)

\* Tasks and signals are the same records.
LEMMA Kinds ==
  /\ \A type, o : Task(type, o) = Signal(type, o)
  /\ \A o, p : Signal("Offer", o) # Signal("Answer", p)
  /\ \A type, o, p : Signal(type, o) = Signal(type, p) => o = p
  /\ \A type, o : Signal(type, o).type = type /\ Signal(type, o).offer = o
BY DEF Task, Signal

LEMMA ComingTypes ==
  ASSUME RelayInv, NEW e \in End
  PROVE  /\ Coming(e) \subseteq Descriptions(offers)
         /\ tasks[e] \subseteq Descriptions(offers)
         /\ \A type, o : Signal(type, o) \in Coming(e) => o \in 1..offers
         /\ \A type, o : Task(type, o) \in tasks[e] => o \in 1..offers
<1>1. tasks[e] \subseteq Descriptions(offers)
  BY RelayTypes
<1>2. Coming(e) \subseteq Descriptions(offers)
  <2>1. \A i \in 1..Len(toJoiner) : toJoiner[i] \in Descriptions(offers)
    BY RelayTypes
  <2>2. toOwner \subseteq Descriptions(offers)
    BY RelayTypes
  <2>3. QED
    BY <2>1, <2>2 DEF Coming
<1>3. \A type, o : Signal(type, o) \in Descriptions(offers) => o \in 1..offers
  BY DEF Descriptions, Signal
<1>4. QED
  BY <1>1, <1>2, <1>3, Kinds

\* Less on its way, less to do.
LEMMA FewerBook ==
  ASSUME BookInv, offers' = offers,
         \A e \in End : tasks'[e] \subseteq tasks[e] /\ Coming(e)' \subseteq Coming(e)
  PROVE  BookInv'
<1>1. \A e \in End : Other(e) \in End
  BY Ends
<1>2. OffersAreFresh'
  BY DEF BookInv, OffersAreFresh
<1>3. AnsweredOnce'
  BY <1>1 DEF BookInv, AnsweredOnce
<1>4. QED
  BY <1>2, <1>3 DEF BookInv

\* A new number.
LEMMA NewOfferBook ==
  ASSUME BookInv, RelayInv, NEW e \in End, offers' = offers + 1,
         tasks'[e] = tasks[e] \cup {Task("Offer", offers + 1)},
         \A d \in End : (d # e => tasks'[d] = tasks[d]) /\ Coming(d)' = Coming(d)
  PROVE  BookInv'
<1>1. offers \in Nat
  BY RelayTypes
<1>2. \A d \in End : \A type, o :
        /\ Signal(type, o) \in Coming(d) => o \in 1..offers
        /\ Task(type, o) \in tasks[d] => o \in 1..offers
  BY ComingTypes
<1>3. \A d \in End : Other(d) \in End /\ Other(d) # d
  BY Ends DEF End
<1>4. /\ \A d \in End : \A o : Task("Answer", o) \in tasks'[d] => Task("Answer", o) \in tasks[d]
      /\ \A d \in End : \A o : Task("Offer", o) \in tasks'[d] =>
           Task("Offer", o) \in tasks[d] \/ (d = e /\ o = offers + 1)
  BY Kinds
<1>5. OffersAreFresh'
  <2>1. ASSUME NEW c \in End, NEW d \in End, NEW o \in 1..offers', Task("Offer", o) \in tasks'[c]
        PROVE  /\ Signal("Offer", o) \notin Coming(d) /\ Signal("Answer", o) \notin Coming(d)
               /\ Task("Answer", o) \notin tasks'[d]
               /\ Task("Offer", o) \in tasks'[d] => d = c
    <3>1. CASE o \in 1..offers /\ Task("Offer", o) \in tasks[c]
      <4>1. o # offers + 1
        BY <1>1, <3>1
      <4>2. QED
        BY <1>4, <3>1, <4>1 DEF BookInv, OffersAreFresh
    <3>2. CASE c = e /\ o = offers + 1
      <4>1. o \notin 1..offers
        BY <1>1, <3>2
      <4>2. QED
        BY <1>2, <1>4, <3>2, <4>1
    <3>3. QED
      BY <1>2, <1>4, <2>1, <3>1, <3>2
  <2>2. QED
    BY <2>1 DEF OffersAreFresh
<1>6. AnsweredOnce'
  BY <1>2, <1>3, <1>4 DEF BookInv, AnsweredOnce
<1>7. QED
  BY <1>5, <1>6 DEF BookInv

\* The offer is sent.
LEMMA SendOfferBook ==
  ASSUME BookInv, NEW e \in End, NEW o \in 1..offers, offers' = offers,
         Task("Offer", o) \in tasks[e],
         tasks'[e] = tasks[e] \ {Task("Offer", o)},
         tasks'[Other(e)] = tasks[Other(e)],
         Coming(e)' = Coming(e),
         Coming(Other(e))' = Coming(Other(e)) \cup {Signal("Offer", o)}
  PROVE  BookInv'
<1>1. /\ Other(e) \in End /\ Other(e) # e /\ Other(Other(e)) = e
      /\ \A d \in End : d = e \/ d = Other(e)
  BY Ends DEF End
<1>2. \A d \in End : \A p : Signal("Answer", p) \in Coming(d)' => Signal("Answer", p) \in Coming(d)
  BY <1>1, Kinds
<1>3. \A d \in End : \A p : Signal("Offer", p) \in Coming(d)' =>
        Signal("Offer", p) \in Coming(d) \/ (d = Other(e) /\ p = o)
  BY <1>1, Kinds
<1>4. \A d \in End : \A t : t \in tasks'[d] => t \in tasks[d] /\ ~(d = e /\ t = Task("Offer", o))
  BY <1>1
<1>5. \A d \in End : /\ Signal("Offer", o) \notin Coming(d) /\ Signal("Answer", o) \notin Coming(d)
                     /\ Task("Answer", o) \notin tasks[d]
                     /\ Task("Offer", o) \in tasks[d] => d = e
  BY DEF BookInv, OffersAreFresh
<1>6. OffersAreFresh'
  <2>1. ASSUME NEW c \in End, NEW d \in End, NEW p \in 1..offers, Task("Offer", p) \in tasks'[c]
        PROVE  /\ Signal("Offer", p) \notin Coming(d)' /\ Signal("Answer", p) \notin Coming(d)'
               /\ Task("Answer", p) \notin tasks'[d]
               /\ Task("Offer", p) \in tasks'[d] => d = c
    <3>1. Task("Offer", p) \in tasks[c] /\ p # o
      BY <1>4, <1>5, <2>1
    <3>2. QED
      BY <1>2, <1>3, <1>4, <3>1 DEF BookInv, OffersAreFresh
  <2>2. QED
    BY <2>1 DEF OffersAreFresh
<1>7. AnsweredOnce'
  <2>1. ASSUME NEW d \in End, NEW p \in 1..offers
        PROVE  /\ Signal("Offer", p) \in Coming(d)' => /\ Task("Answer", p) \notin tasks'[d]
                                                      /\ Signal("Answer", p) \notin Coming(Other(d))'
               /\ Task("Answer", p) \in tasks'[d] => Signal("Answer", p) \notin Coming(Other(d))'
    <3>1. Other(d) \in End
      BY Ends DEF End
    <3>2. QED
      BY <1>2, <1>3, <1>4, <1>5, <3>1 DEF BookInv, AnsweredOnce
  <2>2. QED
    BY <2>1 DEF AnsweredOnce
<1>8. QED
  BY <1>6, <1>7 DEF BookInv

\* The offer is taken.
LEMMA TakeOfferBook ==
  ASSUME BookInv, NEW e \in End, NEW o \in 1..offers, offers' = offers,
         Signal("Offer", o) \in Coming(e),
         Coming(e)' \subseteq Coming(e) \ {Signal("Offer", o)},
         Coming(Other(e))' = Coming(Other(e)),
         tasks'[e] = tasks[e] \cup {Task("Answer", o)},
         tasks'[Other(e)] = tasks[Other(e)]
  PROVE  BookInv'
<1>1. /\ Other(e) \in End /\ Other(e) # e /\ Other(Other(e)) = e
      /\ \A d \in End : d = e \/ d = Other(e)
  BY Ends DEF End
<1>2. \A d \in End : Coming(d)' \subseteq Coming(d)
  BY <1>1
<1>3. \A d \in End : \A p : /\ Task("Offer", p) \in tasks'[d] => Task("Offer", p) \in tasks[d]
                            /\ Task("Answer", p) \in tasks'[d] =>
                                 Task("Answer", p) \in tasks[d] \/ (d = e /\ p = o)
  BY <1>1, Kinds
<1>4. OffersAreFresh'
  <2>1. ASSUME NEW c \in End, NEW d \in End, NEW p \in 1..offers, Task("Offer", p) \in tasks'[c]
        PROVE  /\ Signal("Offer", p) \notin Coming(d)' /\ Signal("Answer", p) \notin Coming(d)'
               /\ Task("Answer", p) \notin tasks'[d]
               /\ Task("Offer", p) \in tasks'[d] => d = c
    <3>1. Task("Offer", p) \in tasks[c] /\ p # o
      BY <1>3, <2>1 DEF BookInv, OffersAreFresh
    <3>2. QED
      BY <1>2, <1>3, <3>1 DEF BookInv, OffersAreFresh
  <2>2. QED
    BY <2>1 DEF OffersAreFresh
<1>5. AnsweredOnce'
  <2>1. ASSUME NEW d \in End, NEW p \in 1..offers
        PROVE  /\ Signal("Offer", p) \in Coming(d)' => /\ Task("Answer", p) \notin tasks'[d]
                                                      /\ Signal("Answer", p) \notin Coming(Other(d))'
               /\ Task("Answer", p) \in tasks'[d] => Signal("Answer", p) \notin Coming(Other(d))'
    <3>1. Other(d) \in End
      BY Ends DEF End
    <3>2. Signal("Offer", o) \notin Coming(e)' /\ Signal("Answer", o) \notin Coming(Other(e))
      BY DEF BookInv, AnsweredOnce
    <3>3. QED
      BY <1>2, <1>3, <3>1, <3>2 DEF BookInv, AnsweredOnce
  <2>2. QED
    BY <2>1 DEF AnsweredOnce
<1>6. QED
  BY <1>4, <1>5 DEF BookInv

\* The answer is sent.
LEMMA SendAnswerBook ==
  ASSUME BookInv, NEW e \in End, NEW o \in 1..offers, offers' = offers,
         Task("Answer", o) \in tasks[e],
         tasks'[e] = tasks[e] \ {Task("Answer", o)},
         tasks'[Other(e)] = tasks[Other(e)],
         Coming(e)' = Coming(e),
         Coming(Other(e))' = Coming(Other(e)) \cup {Signal("Answer", o)}
  PROVE  BookInv'
<1>1. /\ Other(e) \in End /\ Other(e) # e /\ Other(Other(e)) = e
      /\ \A d \in End : d = e \/ d = Other(e)
  BY Ends DEF End
<1>2. \A d \in End : \A p : Signal("Offer", p) \in Coming(d)' => Signal("Offer", p) \in Coming(d)
  BY <1>1, Kinds
<1>3. \A d \in End : \A p : Signal("Answer", p) \in Coming(d)' =>
        Signal("Answer", p) \in Coming(d) \/ (d = Other(e) /\ p = o)
  BY <1>1, Kinds
<1>4. \A d \in End : \A t : t \in tasks'[d] => t \in tasks[d] /\ ~(d = e /\ t = Task("Answer", o))
  BY <1>1
<1>5. OffersAreFresh'
  <2>1. ASSUME NEW c \in End, NEW d \in End, NEW p \in 1..offers, Task("Offer", p) \in tasks'[c]
        PROVE  /\ Signal("Offer", p) \notin Coming(d)' /\ Signal("Answer", p) \notin Coming(d)'
               /\ Task("Answer", p) \notin tasks'[d]
               /\ Task("Offer", p) \in tasks'[d] => d = c
    <3>1. Task("Offer", p) \in tasks[c] /\ p # o
      BY <1>4, <2>1 DEF BookInv, OffersAreFresh
    <3>2. QED
      BY <1>2, <1>3, <1>4, <3>1 DEF BookInv, OffersAreFresh
  <2>2. QED
    BY <2>1 DEF OffersAreFresh
<1>6. AnsweredOnce'
  <2>1. ASSUME NEW d \in End, NEW p \in 1..offers
        PROVE  /\ Signal("Offer", p) \in Coming(d)' => /\ Task("Answer", p) \notin tasks'[d]
                                                      /\ Signal("Answer", p) \notin Coming(Other(d))'
               /\ Task("Answer", p) \in tasks'[d] => Signal("Answer", p) \notin Coming(Other(d))'
    <3>1. Other(d) \in End /\ (Other(d) = Other(e) => d = e)
      BY Ends DEF End
    <3>2. Signal("Offer", o) \notin Coming(e)
      BY DEF BookInv, AnsweredOnce
    <3>3. QED
      BY <1>2, <1>3, <1>4, <3>1, <3>2 DEF BookInv, AnsweredOnce
  <2>2. QED
    BY <2>1 DEF AnsweredOnce
<1>7. QED
  BY <1>5, <1>6 DEF BookInv

-----------------------------------------------------------------------------
(* The log, one signal longer and one shorter.                             *)

LEMMA LogGrows ==
  ASSUME NEW S, NEW s \in Seq(S), NEW x \in S, NEW o
  PROVE  /\ NoOffer(s) /\ x.type # "Offer" => NoOffer(Append(s, x))
         /\ LastOffer(s, o) /\ x.type # "Offer" => LastOffer(Append(s, x), o)
         /\ x = Signal("Offer", o) => LastOffer(Append(s, x), o)
         /\ AnswerFirst(s, o) => AnswerFirst(Append(s, x), o)
         /\ NoOffer(s) /\ x = Signal("Answer", o) => AnswerFirst(Append(s, x), o)
         /\ OfferFirst(s, o) => OfferFirst(Append(s, x), o)
         /\ x.type = "Offer" /\ (\A i \in 1..Len(s) : s[i] # Signal("Answer", o)) =>
              OfferFirst(Append(s, x), o)
<1> DEFINE t == Append(s, x)
<1>1. /\ Len(s) \in Nat /\ Len(t) = Len(s) + 1
      /\ \A i \in 1..Len(s) : t[i] = s[i]
      /\ t[Len(s) + 1] = x
      /\ \A i \in 1..Len(t) : i \in 1..Len(s) \/ i = Len(s) + 1
  OBVIOUS
<1> HIDE DEF t
<1>2. NoOffer(s) /\ x.type # "Offer" => NoOffer(t)
  BY <1>1 DEF NoOffer
<1>3. LastOffer(s, o) /\ x.type # "Offer" => LastOffer(t, o)
  <2>1. SUFFICES ASSUME LastOffer(s, o), x.type # "Offer"
                 PROVE  LastOffer(t, o)
    OBVIOUS
  <2>2. PICK i \in 1..Len(s) : s[i] = Signal("Offer", o) /\ \A j \in (i + 1)..Len(s) : s[j].type # "Offer"
    BY <2>1 DEF LastOffer
  <2>3. i \in 1..Len(t) /\ t[i] = Signal("Offer", o)
    BY <1>1, <2>2
  <2>4. \A j \in (i + 1)..Len(t) : j \in (i + 1)..Len(s) \/ j = Len(s) + 1
    BY <1>1
  <2>5. \A j \in (i + 1)..Len(t) : t[j].type # "Offer"
    BY <1>1, <2>1, <2>2, <2>4
  <2>6. QED
    BY <2>3, <2>5 DEF LastOffer
<1>4. x = Signal("Offer", o) => LastOffer(t, o)
  <2>1. Len(s) + 1 \in 1..Len(t) /\ (Len(s) + 1 + 1)..Len(t) = {}
    BY <1>1
  <2>2. QED
    BY <1>1, <2>1 DEF LastOffer
<1>5. AnswerFirst(s, o) => AnswerFirst(t, o)
  <2>1. SUFFICES ASSUME AnswerFirst(s, o)
                 PROVE  AnswerFirst(t, o)
    OBVIOUS
  <2>2. PICK i \in 1..Len(s) : s[i] = Signal("Answer", o) /\ \A j \in 1..(i - 1) : s[j].type # "Offer"
    BY <2>1 DEF AnswerFirst
  <2>3. i \in 1..Len(t) /\ t[i] = Signal("Answer", o) /\ \A j \in 1..(i - 1) : t[j].type # "Offer"
    BY <1>1, <2>2
  <2>4. QED
    BY <2>3 DEF AnswerFirst
<1>6. NoOffer(s) /\ x = Signal("Answer", o) => AnswerFirst(t, o)
  <2>1. Len(s) + 1 \in 1..Len(t) /\ 1..(Len(s) + 1 - 1) = 1..Len(s)
    BY <1>1
  <2>2. QED
    BY <1>1, <2>1 DEF AnswerFirst, NoOffer
<1>7. OfferFirst(s, o) => OfferFirst(t, o)
  <2>1. SUFFICES ASSUME OfferFirst(s, o)
                 PROVE  OfferFirst(t, o)
    OBVIOUS
  <2>2. PICK i \in 1..Len(s) : s[i].type = "Offer" /\ \A j \in 1..(i - 1) : s[j] # Signal("Answer", o)
    BY <2>1 DEF OfferFirst
  <2>3. i \in 1..Len(t) /\ t[i].type = "Offer" /\ \A j \in 1..(i - 1) : t[j] # Signal("Answer", o)
    BY <1>1, <2>2
  <2>4. QED
    BY <2>3 DEF OfferFirst
<1>8. x.type = "Offer" /\ (\A i \in 1..Len(s) : s[i] # Signal("Answer", o)) => OfferFirst(t, o)
  <2>1. Len(s) + 1 \in 1..Len(t) /\ 1..(Len(s) + 1 - 1) = 1..Len(s)
    BY <1>1
  <2>2. QED
    BY <1>1, <2>1 DEF OfferFirst
<1>9. QED
  BY <1>2, <1>3, <1>4, <1>5, <1>6, <1>7, <1>8 DEF t

LEMMA LogShrinks ==
  ASSUME NEW S, NEW s \in Seq(S), s # <<>>, NEW o
  PROVE  /\ NoOffer(s) => NoOffer(Tail(s)) /\ Head(s).type # "Offer"
         /\ LastOffer(s, o) => \/ Head(s) = Signal("Offer", o) /\ NoOffer(Tail(s))
                               \/ LastOffer(Tail(s), o)
         /\ AnswerFirst(s, o) => Head(s) = Signal("Answer", o) \/ AnswerFirst(Tail(s), o)
         /\ OfferFirst(s, o) => \/ Head(s).type = "Offer"
                                \/ Head(s) # Signal("Answer", o) /\ OfferFirst(Tail(s), o)
<1> DEFINE t == Tail(s)
<1>1. /\ Len(s) \in Nat \ {0} /\ Len(t) = Len(s) - 1
      /\ Head(s) = s[1]
      /\ \A i \in 1..Len(t) : t[i] = s[i + 1] /\ i + 1 \in 1..Len(s)
  OBVIOUS
<1> HIDE DEF t
<1>2. NoOffer(s) => NoOffer(t) /\ Head(s).type # "Offer"
  BY <1>1 DEF NoOffer
<1>3. ASSUME LastOffer(s, o)
      PROVE  (Head(s) = Signal("Offer", o) /\ NoOffer(t)) \/ LastOffer(t, o)
  <2>1. PICK i \in 1..Len(s) : s[i] = Signal("Offer", o) /\ \A j \in (i + 1)..Len(s) : s[j].type # "Offer"
    BY <1>3 DEF LastOffer
  <2>2. CASE i = 1
    <3>1. \A j \in 1..Len(t) : t[j].type # "Offer"
      BY <1>1, <2>1, <2>2
    <3>2. QED
      BY <1>1, <2>1, <2>2, <3>1 DEF NoOffer
  <2>3. CASE i # 1
    <3>1. i - 1 \in 1..Len(t) /\ t[i - 1] = Signal("Offer", o)
      BY <1>1, <2>1, <2>3
    <3>2. \A j \in ((i - 1) + 1)..Len(t) : t[j].type # "Offer"
      BY <1>1, <2>1, <2>3
    <3>3. QED
      BY <3>1, <3>2 DEF LastOffer
  <2>4. QED
    BY <2>2, <2>3
<1>4. ASSUME AnswerFirst(s, o)
      PROVE  Head(s) = Signal("Answer", o) \/ AnswerFirst(t, o)
  <2>1. PICK i \in 1..Len(s) : s[i] = Signal("Answer", o) /\ \A j \in 1..(i - 1) : s[j].type # "Offer"
    BY <1>4 DEF AnswerFirst
  <2>2. CASE i # 1
    <3>1. i - 1 \in 1..Len(t) /\ t[i - 1] = Signal("Answer", o)
      BY <1>1, <2>1, <2>2
    <3>2. \A j \in 1..((i - 1) - 1) : t[j].type # "Offer"
      BY <1>1, <2>1, <2>2
    <3>3. QED
      BY <3>1, <3>2 DEF AnswerFirst
  <2>3. QED
    BY <1>1, <2>1, <2>2
<1>5. ASSUME OfferFirst(s, o), Head(s).type # "Offer"
      PROVE  Head(s) # Signal("Answer", o) /\ OfferFirst(t, o)
  <2>1. PICK i \in 1..Len(s) : s[i].type = "Offer" /\ \A j \in 1..(i - 1) : s[j] # Signal("Answer", o)
    BY <1>5 DEF OfferFirst
  <2>2. i # 1 /\ 1 \in 1..(i - 1)
    BY <1>1, <1>5, <2>1
  <2>3. i - 1 \in 1..Len(t) /\ t[i - 1].type = "Offer"
    BY <1>1, <2>1, <2>2
  <2>4. \A j \in 1..((i - 1) - 1) : t[j] # Signal("Answer", o)
    BY <1>1, <2>1, <2>2
  <2>5. OfferFirst(t, o)
    BY <2>3, <2>4 DEF OfferFirst
  <2>6. QED
    BY <1>1, <2>1, <2>2, <2>5
<1>6. QED
  BY <1>2, <1>3, <1>4, <1>5 DEF t

\* The same for the signals on their way.
LEMMA ComingToOwner == Coming("owner") = toOwner /\ Coming("owner")' = toOwner'
BY DEF Coming

LEMMA ComingGrows ==
  ASSUME RelayInv, NEW x \in Descriptions(offers), toJoiner' = Append(toJoiner, x)
  PROVE  Coming("joiner")' = Coming("joiner") \cup {x}
<1>1. /\ Len(toJoiner) \in Nat /\ Len(toJoiner') = Len(toJoiner) + 1
      /\ \A i \in 1..Len(toJoiner) : toJoiner'[i] = toJoiner[i]
      /\ toJoiner'[Len(toJoiner) + 1] = x
  BY RelayTypes
<1>2. 1..Len(toJoiner') = 1..Len(toJoiner) \cup {Len(toJoiner) + 1}
  BY <1>1
<1>3. QED
  BY <1>1, <1>2 DEF Coming

LEMMA ComingShrinks ==
  ASSUME RelayInv, toJoiner # <<>>, toJoiner' = Tail(toJoiner)
  PROVE  /\ Coming("joiner")' \subseteq Coming("joiner")
         /\ Head(toJoiner) \in Coming("joiner")
         /\ OfferedOnce /\ Head(toJoiner).type = "Offer" =>
              Coming("joiner")' \subseteq Coming("joiner") \ {Head(toJoiner)}
<1>1. /\ Len(toJoiner) \in Nat \ {0} /\ Len(toJoiner') = Len(toJoiner) - 1
      /\ Head(toJoiner) = toJoiner[1]
      /\ \A i \in 1..Len(toJoiner') : toJoiner'[i] = toJoiner[i + 1] /\ i + 1 \in 1..Len(toJoiner)
                                      /\ i + 1 # 1
      /\ 1 \in 1..Len(toJoiner)
  BY RelayTypes
<1>2. QED
  BY <1>1 DEF Coming, OfferedOnce

LEMMA OfferedOnceStays ==
  ASSUME RelayInv, OfferedOnce
  PROVE  /\ toJoiner' = toJoiner => OfferedOnce'
         /\ toJoiner # <<>> /\ toJoiner' = Tail(toJoiner) => OfferedOnce'
         /\ \A x \in Descriptions(offers) :
              toJoiner' = Append(toJoiner, x) /\ (x.type = "Offer" => x \notin Coming("joiner")) =>
                OfferedOnce'
<1>1. toJoiner' = toJoiner => OfferedOnce'
  BY DEF OfferedOnce
<1>2. ASSUME toJoiner # <<>>, toJoiner' = Tail(toJoiner)
      PROVE  OfferedOnce'
  <2>1. /\ Len(toJoiner) \in Nat \ {0} /\ Len(toJoiner') = Len(toJoiner) - 1
        /\ \A i \in 1..Len(toJoiner') : toJoiner'[i] = toJoiner[i + 1] /\ i + 1 \in 1..Len(toJoiner)
    BY <1>2, RelayTypes
  <2>2. ASSUME NEW i \in 1..Len(toJoiner'), NEW j \in 1..Len(toJoiner'),
               toJoiner'[i] = toJoiner'[j], toJoiner'[i].type = "Offer"
        PROVE  i = j
    <3>1. i + 1 = j + 1
      BY <2>1, <2>2 DEF OfferedOnce
    <3>2. QED
      BY <2>1, <3>1
  <2>3. QED
    BY <2>2 DEF OfferedOnce
<1>3. ASSUME NEW x \in Descriptions(offers), toJoiner' = Append(toJoiner, x),
             x.type = "Offer" => x \notin Coming("joiner")
      PROVE  OfferedOnce'
  <2>1. /\ Len(toJoiner) \in Nat /\ Len(toJoiner') = Len(toJoiner) + 1
        /\ \A i \in 1..Len(toJoiner) : toJoiner'[i] = toJoiner[i]
        /\ toJoiner'[Len(toJoiner) + 1] = x
    BY <1>3, RelayTypes
  <2>2. \A i \in 1..Len(toJoiner) : toJoiner[i] \in Coming("joiner")
    BY DEF Coming
  <2>3. ASSUME NEW i \in 1..Len(toJoiner'), NEW j \in 1..Len(toJoiner'),
               toJoiner'[i] = toJoiner'[j], toJoiner'[i].type = "Offer"
        PROVE  i = j
    <3>1. (i \in 1..Len(toJoiner) \/ i = Len(toJoiner) + 1)
          /\ (j \in 1..Len(toJoiner) \/ j = Len(toJoiner) + 1)
      BY <2>1
    <3>2. CASE i \in 1..Len(toJoiner) /\ j \in 1..Len(toJoiner)
      BY <2>1, <2>3, <3>2 DEF OfferedOnce
    <3>3. CASE ~(i \in 1..Len(toJoiner) /\ j \in 1..Len(toJoiner))
      BY <1>3, <2>1, <2>2, <2>3, <3>1, <3>3
    <3>4. QED
      BY <3>2, <3>3
  <2>4. QED
    BY <2>3 DEF OfferedOnce
<1>4. QED
  BY <1>1, <1>2, <1>3

-----------------------------------------------------------------------------
(* The steps.                                                              *)

\* More to do: nothing is negotiated by it yet.
LEMMA SameAgrees ==
  ASSUME OnTheWayToAgree, RelayInv,
         UNCHANGED <<signaling, pending, agreed, toJoiner, toOwner, replaced>>,
         \A e \in End : tasks[e] \subseteq tasks'[e],
         offers' \in Nat, lost' = 0 => lost = 0
  PROVE  OnTheWayToAgree'
<1>1. SUFFICES ASSUME lost' = 0, ~replaced'
               PROVE  OffersAreStoodBy' /\ (Doomed' \/ OnTheWay')
  BY DEF OnTheWayToAgree
<1>2. OffersAreStoodBy /\ (Doomed \/ OnTheWay)
  BY <1>1 DEF OnTheWayToAgree
<1>3. "owner" \in End /\ "joiner" \in End
  BY DEF End
<1>4. OffersAreStoodBy'
  <2>1. toOwner \subseteq Descriptions(offers)
    BY RelayTypes
  <2>2. \A o : Signal("Offer", o) \in Descriptions(offers) => o \in 1..offers
    BY DEF Signal, Descriptions
  <2>3. QED
    BY <1>2, <2>1, <2>2 DEF OffersAreStoodBy
<1>5. Doomed => Doomed'
  BY DEF Doomed
<1>6. (OwnerRests <=> OwnerRests') /\ (OwnerWaits <=> OwnerWaits')
  BY DEF OwnerRests, OwnerWaits
<1>7. ASSUME OnTheWay
      PROVE  OnTheWay'
  <2>1. signaling["joiner"] = "none" => JoinerHasNone'
    BY <1>3, <1>6, <1>7 DEF OnTheWay, JoinerHasNone
  <2>2. signaling["joiner"] = "stable" => JoinerIsStable'
    BY <1>6, <1>7 DEF OnTheWay, JoinerIsStable
  <2>3. signaling["joiner"] = "have-remote-offer" => JoinerAnswers'
    BY <1>3, <1>6, <1>7 DEF OnTheWay, JoinerAnswers
  <2>4. signaling["joiner"] = "have-local-offer" => JoinerOffers(pending["joiner"])'
    BY <1>3, <1>6, <1>7 DEF OnTheWay, JoinerOffers
  <2>5. QED
    BY <2>1, <2>2, <2>3, <2>4 DEF OnTheWay
<1>8. QED
  BY <1>2, <1>4, <1>5, <1>7

LEMMA StartAgrees ==
  ASSUME NegotiationInv, StartOffer
  PROVE  NegotiationInv'
<1>0. RelayInv /\ BookInv /\ OfferedOnce /\ NothingPendsAtRest /\ OnTheWayToAgree
  BY DEF NegotiationInv
<1>1. RelayInv'
  BY <1>0, StartRelay
<1>2. /\ signaling["owner"] = "none" /\ offers = 0
      /\ offers' = 1
      /\ signaling' = [signaling EXCEPT !["owner"] = "stable"]
      /\ tasks' = [tasks EXCEPT !["owner"] = @ \cup {Task("Offer", 1)}]
      /\ UNCHANGED <<pending, agreed, toJoiner, toOwner, lost, replaced>>
  BY <1>0 DEF StartOffer, RelayInv, OwnerBegins
<1>3. /\ signaling'["owner"] = "stable" /\ signaling'["joiner"] = signaling["joiner"]
      /\ tasks'["owner"] = tasks["owner"] \cup {Task("Offer", 1)}
      /\ tasks'["joiner"] = tasks["joiner"]
      /\ toJoiner = <<>> /\ toOwner = {}
  BY <1>0, <1>2, RelayTypes, Ends, NothingYet
<1>4. \A d \in End : Coming(d)' = Coming(d)
  BY <1>2 DEF Coming
<1>5. BookInv'
  <2>1. /\ "owner" \in End /\ offers' = offers + 1
        /\ tasks'["owner"] = tasks["owner"] \cup {Task("Offer", offers + 1)}
        /\ \A d \in End : (d # "owner" => tasks'[d] = tasks[d]) /\ Coming(d)' = Coming(d)
    BY <1>2, <1>3, <1>4, Ends
  <2>2. QED
    BY <1>0, <2>1, NewOfferBook
<1>6. OfferedOnce'
  BY <1>0, <1>2, OfferedOnceStays
<1>7. NothingPendsAtRest'
  BY <1>0, <1>2, <1>3 DEF NothingPendsAtRest, End
<1>8. OnTheWayToAgree'
  <2>1. SUFFICES ASSUME lost' = 0, ~replaced'
                 PROVE  OffersAreStoodBy' /\ (Doomed' \/ OnTheWay')
    BY DEF OnTheWayToAgree
  <2>2. Doomed \/ OnTheWay
    BY <1>0, <1>2, <2>1 DEF OnTheWayToAgree
  <2>3. OffersAreStoodBy'
    BY <1>2, <1>3 DEF OffersAreStoodBy
  <2>4. Doomed => Doomed'
    BY <1>2, <1>3 DEF Doomed
  <2>5. ASSUME OnTheWay
        PROVE  OnTheWay'
    <3>1. signaling["joiner"] = "none"
      <4>1. signaling["joiner"] \in {"none", "stable", "have-local-offer", "have-remote-offer"}
        BY <1>0, RelayTypes DEF End
      <4>2. ~OwnerRests /\ ~OwnerWaits
        BY <1>2 DEF OwnerRests, OwnerWaits
      <4>3. QED
        BY <1>2, <2>5, <4>1, <4>2 DEF OnTheWay, JoinerIsStable, JoinerAnswers, JoinerOffers
    <3>2. OwnerRests'
      BY <1>2, <1>3 DEF OwnerRests, NoOffer
    <3>3. \E t \in tasks'["owner"] : t.type = "Offer"
      BY <1>3, Kinds
    <3>4. agreed["joiner"] = 0
      BY <2>5, <3>1 DEF OnTheWay, JoinerHasNone
    <3>5. JoinerHasNone'
      BY <1>2, <3>2, <3>3, <3>4 DEF JoinerHasNone
    <3>6. QED
      BY <1>3, <3>1, <3>5 DEF OnTheWay
  <2>6. QED
    BY <2>2, <2>3, <2>4, <2>5
<1>9. QED
  BY <1>1, <1>5, <1>6, <1>7, <1>8 DEF NegotiationInv

LEMMA LinkAgrees ==
  ASSUME NegotiationInv, NEW e \in End, LinkMoves(e)
  PROVE  NegotiationInv'
<1>0. RelayInv /\ BookInv /\ OfferedOnce /\ NothingPendsAtRest /\ OnTheWayToAgree
  BY DEF NegotiationInv
<1>1. /\ RelayInv'
      /\ UNCHANGED <<signaling, pending, agreed, toJoiner, toOwner, lost, replaced>>
      /\ UNCHANGED <<tasks, offers>> \/ RestartIce(e)
  BY <1>0, LinkRelay
<1>2. \A d \in End : Coming(d)' = Coming(d)
  BY <1>1 DEF Coming
<1>3. BookInv' /\ (\A d \in End : tasks[d] \subseteq tasks'[d])
  <2>1. CASE UNCHANGED <<tasks, offers>>
    BY <1>0, <1>2, <2>1, FewerBook
  <2>2. CASE RestartIce(e)
    <3>1. /\ offers' = offers + 1
          /\ tasks' = [tasks EXCEPT ![e] = @ \cup {Task("Offer", offers + 1)}]
      BY <2>2 DEF RestartIce
    <3>2. /\ tasks'[e] = tasks[e] \cup {Task("Offer", offers + 1)}
          /\ \A d \in End : d # e => tasks'[d] = tasks[d]
      BY <1>0, <3>1, RelayTypes
    <3>3. BookInv'
      BY <1>0, <1>2, <3>1, <3>2, NewOfferBook
    <3>4. QED
      BY <3>2, <3>3
  <2>3. QED
    BY <1>1, <2>1, <2>2
<1>4. OfferedOnce'
  BY <1>0, <1>1, OfferedOnceStays
<1>5. NothingPendsAtRest'
  BY <1>0, <1>1 DEF NothingPendsAtRest
<1>6. OnTheWayToAgree'
  <2>1. offers' \in Nat
    BY <1>1 DEF RelayInv, LinkTypes
  <2>2. QED
    BY <1>0, <1>1, <1>3, <2>1, SameAgrees
<1>7. QED
  BY <1>1, <1>3, <1>4, <1>5, <1>6 DEF NegotiationInv

LEMMA LostAgrees ==
  ASSUME NegotiationInv, SignalIsLost
  PROVE  NegotiationInv'
<1>0. RelayInv /\ BookInv /\ OfferedOnce /\ NothingPendsAtRest
  BY DEF NegotiationInv
<1>1. RelayInv'
  BY <1>0, LostRelay
<1>2. /\ UNCHANGED <<signaling, pending, tasks, toJoiner, offers>>
      /\ lost' = lost + 1 /\ toOwner' \subseteq toOwner
  BY DEF SignalIsLost
<1>3. BookInv'
  <2>1. \A d \in End : tasks'[d] \subseteq tasks[d] /\ Coming(d)' \subseteq Coming(d)
    BY <1>2 DEF Coming
  <2>2. QED
    BY <1>0, <1>2, <2>1, FewerBook
<1>4. OfferedOnce'
  BY <1>0, <1>2, OfferedOnceStays
<1>5. NothingPendsAtRest'
  BY <1>0, <1>2 DEF NothingPendsAtRest
<1>6. OnTheWayToAgree'
  <2>1. lost' # 0
    BY <1>0, <1>2, RelayTypes
  <2>2. QED
    BY <2>1 DEF OnTheWayToAgree
<1>7. QED
  BY <1>1, <1>3, <1>4, <1>5, <1>6 DEF NegotiationInv

\* An offer of the owner's is sent: the joiner will see it last, or give its own up.
LEMMA OwnerOfferAgrees ==
  ASSUME NegotiationInv, NEW o \in 1..offers,
         signaling["owner"] \in {"stable", "have-local-offer"},
         signaling'["owner"] = "have-local-offer", signaling'["joiner"] = signaling["joiner"],
         pending'["owner"] = o, pending'["joiner"] = pending["joiner"],
         toJoiner' = Append(toJoiner, Signal("Offer", o)),
         UNCHANGED <<agreed, toOwner, offers, lost, replaced>>,
         tasks'["joiner"] = tasks["joiner"]
  PROVE  OnTheWayToAgree'
<1>0. RelayInv /\ BookInv /\ OnTheWayToAgree
  BY DEF NegotiationInv
<1>1. SUFFICES ASSUME lost' = 0, ~replaced'
               PROVE  OffersAreStoodBy' /\ (Doomed' \/ OnTheWay')
  BY DEF OnTheWayToAgree
<1>2. OffersAreStoodBy /\ (Doomed \/ OnTheWay)
  BY <1>0, <1>1 DEF OnTheWayToAgree
<1>3. OffersAreStoodBy'
  BY <1>2 DEF OffersAreStoodBy
<1>4. /\ toJoiner \in Seq(Descriptions(offers))
      /\ Signal("Offer", o) \in Descriptions(offers)
      /\ Signal("Offer", o).type = "Offer"
  BY <1>0, RelayTypes, Kinds DEF Descriptions, Signal
<1>5. OwnerWaits'
  <2>1. LastOffer(Append(toJoiner, Signal("Offer", o)), o)
    BY <1>4, LogGrows
  <2>2. QED
    BY <2>1 DEF OwnerWaits
<1>6. CASE Doomed
  <2>1. OfferFirst(Append(toJoiner, Signal("Offer", o)), pending["joiner"])
    BY <1>4, <1>6, LogGrows DEF Doomed
  <2>2. Doomed'
    BY <1>6, <2>1 DEF Doomed
  <2>3. QED
    BY <1>3, <2>2
<1>7. CASE OnTheWay
  <2>1. CASE signaling["joiner"] # "have-local-offer"
    <3>1. JoinerHasNone => JoinerHasNone'
      BY <1>5 DEF JoinerHasNone
    <3>2. JoinerIsStable'
      BY <1>5 DEF JoinerIsStable
    <3>3. JoinerAnswers => JoinerAnswers'
      BY <1>5 DEF JoinerAnswers
    <3>4. OnTheWay'
      BY <1>7, <2>1, <3>1, <3>2, <3>3 DEF OnTheWay
    <3>5. QED
      BY <1>3, <3>4
  <2>2. CASE signaling["joiner"] = "have-local-offer"
    <3> DEFINE p == pending["joiner"]
    <3>1. JoinerOffers(p)
      BY <1>7, <2>2 DEF OnTheWay
    <3>2. CASE Signal("Offer", p) \in toOwner
      <4>1. \A i \in 1..Len(toJoiner) : toJoiner[i] # Signal("Answer", p)
        <5>1. Signal("Offer", p) \in Coming("owner") /\ "owner" \in End /\ Other("owner") = "joiner"
          BY <3>2, ComingToOwner, Ends
        <5>2. p \in 1..offers
          BY <1>0, <5>1, ComingTypes
        <5>3. Signal("Answer", p) \notin Coming("joiner")
          BY <1>0, <5>1, <5>2 DEF BookInv, AnsweredOnce
        <5>4. QED
          BY <5>3 DEF Coming
      <4>2. OfferFirst(Append(toJoiner, Signal("Offer", o)), p)
        BY <1>4, <4>1, LogGrows
      <4>3. Doomed'
        BY <2>2, <4>2 DEF Doomed
      <4>4. QED
        BY <1>3, <4>3
    <3>3. CASE AnswerFirst(toJoiner, p) /\ agreed["owner"] = p
      <4>1. AnswerFirst(Append(toJoiner, Signal("Offer", o)), p)
        BY <1>4, <3>3, LogGrows
      <4> HIDE DEF p
      <4>2. p = pending'["joiner"]
        BY DEF p
      <4>3. OnTheWay'
        BY <1>5, <2>2, <3>3, <4>1, <4>2 DEF OnTheWay, JoinerOffers
      <4>4. QED
        BY <1>3, <4>3
    <3>4. QED
      BY <3>1, <3>2, <3>3 DEF JoinerOffers
  <2>3. QED
    BY <2>1, <2>2
<1>8. QED
  BY <1>2, <1>6, <1>7

\* An offer of the joiner's is sent, to an owner that will answer it, unless the joiner
\* is about to give it up.
LEMMA JoinerOfferAgrees ==
  ASSUME NegotiationInv, NEW o \in 1..offers,
         Task("Offer", o) \in tasks["joiner"],
         signaling["joiner"] = "stable" \/ replaced',
         signaling'["joiner"] = "have-local-offer", signaling'["owner"] = signaling["owner"],
         pending'["joiner"] = o, pending'["owner"] = pending["owner"],
         toOwner' = toOwner \cup {Signal("Offer", o)},
         UNCHANGED <<agreed, toJoiner, offers, lost>>,
         replaced => replaced'
  PROVE  OnTheWayToAgree'
<1>0. RelayInv /\ BookInv /\ OnTheWayToAgree
  BY DEF NegotiationInv
<1>1. SUFFICES ASSUME lost' = 0, ~replaced'
               PROVE  OffersAreStoodBy' /\ (Doomed' \/ OnTheWay')
  BY DEF OnTheWayToAgree
<1>2. OffersAreStoodBy /\ (Doomed \/ OnTheWay) /\ signaling["joiner"] = "stable"
  BY <1>0, <1>1 DEF OnTheWayToAgree
<1>3. OffersAreStoodBy'
  BY <1>2, Kinds DEF OffersAreStoodBy
<1>4. JoinerIsStable
  BY <1>2 DEF OnTheWay, Doomed
<1>5. CASE OwnerWaits
  <2>1. PICK i \in 1..Len(toJoiner) : toJoiner[i] = Signal("Offer", pending["owner"])
    BY <1>5 DEF OwnerWaits, LastOffer
  <2>2. "joiner" \in End /\ Signal("Answer", o) \notin Coming("joiner")
    BY <1>0, Ends DEF BookInv, OffersAreFresh
  <2>3. \A j \in 1..Len(toJoiner) : toJoiner[j] # Signal("Answer", o)
    BY <2>2 DEF Coming
  <2>4. OfferFirst(toJoiner, o)
    <3>1. 1..(i - 1) \subseteq 1..Len(toJoiner)
      <4>1. Len(toJoiner) \in Nat
        BY <1>0, RelayTypes
      <4>2. QED
        BY <4>1
    <3>2. QED
      BY <2>1, <2>3, <3>1, Kinds DEF OfferFirst
  <2>5. Doomed'
    BY <2>4 DEF Doomed
  <2>6. QED
    BY <1>3, <2>5
<1>6. CASE ~OwnerWaits
  <2>1. NoOffer(toJoiner) /\ signaling["owner"] \in {"stable", "have-local-offer"}
    BY <1>4, <1>6 DEF JoinerIsStable, OwnerRests
  <2>2. OnTheWay'
    BY <2>1 DEF OnTheWay, JoinerOffers
  <2>3. QED
    BY <1>3, <2>2
<1>7. QED
  BY <1>5, <1>6

\* A handler that ends without effect, because its description no longer fits.
LEMMA DroppedAgrees ==
  ASSUME NegotiationInv, NEW e \in End, NEW t \in tasks[e],
         tasks' = [tasks EXCEPT ![e] = @ \ {t}],
         t.type = "Offer" => signaling[e] = "have-remote-offer",
         t.type = "Answer" => ~(signaling[e] = "have-remote-offer" /\ pending[e] = t.offer),
         UNCHANGED <<signaling, pending, agreed, toJoiner, toOwner, offers, lost, replaced>>
  PROVE  BookInv' /\ OfferedOnce' /\ NothingPendsAtRest' /\ OnTheWayToAgree'
<1>0. RelayInv /\ BookInv /\ OfferedOnce /\ NothingPendsAtRest /\ OnTheWayToAgree
  BY DEF NegotiationInv
<1>1. /\ tasks'[e] = tasks[e] \ {t}
      /\ \A d \in End : d # e => tasks'[d] = tasks[d]
      /\ t.type \in {"Offer", "Answer"} /\ t = Task(t.type, t.offer)
  BY <1>0, RelayTypes, DescriptionsAreOfOffers
<1>2. BookInv'
  <2>1. \A d \in End : tasks'[d] \subseteq tasks[d] /\ Coming(d)' \subseteq Coming(d)
    BY <1>1 DEF Coming
  <2>2. QED
    BY <1>0, <2>1, FewerBook
<1>3. OfferedOnce' /\ NothingPendsAtRest'
  BY <1>0, OfferedOnceStays DEF NothingPendsAtRest
<1>4. OnTheWayToAgree'
  <2>1. (Doomed <=> Doomed') /\ (OwnerRests <=> OwnerRests') /\ (OwnerWaits <=> OwnerWaits')
        /\ (OffersAreStoodBy <=> OffersAreStoodBy')
    BY DEF Doomed, OwnerRests, OwnerWaits, OffersAreStoodBy
  <2>2. \A d \in End : \A p : /\ signaling[d] = "have-remote-offer" /\ pending[d] = p
                              /\ Task("Answer", p) \in tasks[d]
                              => Task("Answer", p) \in tasks'[d]
    BY <1>1, Kinds
  <2>3. "owner" \in End /\ "joiner" \in End
    BY Ends
  <2>4. ASSUME OnTheWay
        PROVE  OnTheWay'
    <3>1. ASSUME JoinerHasNone
          PROVE  JoinerHasNone'
      <4>1. signaling["owner"] = "stable" /\ (\E s \in tasks["owner"] : s.type = "Offer") =>
              \E s \in tasks'["owner"] : s.type = "Offer"
        BY <1>1, <2>3
      <4>2. OwnerRests => signaling["owner"] = "stable"
        BY DEF OwnerRests
      <4>3. QED
        BY <2>1, <3>1, <4>1, <4>2 DEF JoinerHasNone
    <3>2. JoinerIsStable => JoinerIsStable'
      BY <2>1 DEF JoinerIsStable
    <3>3. signaling["joiner"] = "have-remote-offer" /\ JoinerAnswers => JoinerAnswers'
      BY <2>1, <2>2, <2>3 DEF JoinerAnswers
    <3>4. JoinerOffers(pending["joiner"]) => JoinerOffers(pending["joiner"])'
      BY <2>1, <2>2, <2>3 DEF JoinerOffers
    <3>5. QED
      BY <2>4, <3>1, <3>2, <3>3, <3>4 DEF OnTheWay
  <2>5. QED
    BY <1>0, <2>1, <2>4 DEF OnTheWayToAgree
<1>5. QED
  BY <1>2, <1>3, <1>4

LEMMA OfferAgrees ==
  ASSUME NegotiationInv, NEW e \in End, OfferIsMade(e)
  PROVE  NegotiationInv'
<1>0. RelayInv /\ BookInv /\ OfferedOnce /\ NothingPendsAtRest /\ OnTheWayToAgree
  BY DEF NegotiationInv
<1>1. RelayInv'
  BY <1>0, OfferRelay
<1>2. PICK t \in tasks[e] :
        /\ t.type = "Offer"
        /\ tasks' = [tasks EXCEPT ![e] = @ \ {t}]
        /\ \/ /\ signaling[e] \in {"stable", "have-local-offer"}
              /\ signaling' = [signaling EXCEPT ![e] = "have-local-offer"]
              /\ pending' = [pending EXCEPT ![e] = t.offer]
              /\ SendSignal(e, Signal("Offer", t.offer))
              /\ GivesUpItsOffer(e)
           \/ /\ signaling[e] = "have-remote-offer"
              /\ UNCHANGED <<signaling, pending, toJoiner, toOwner, replaced>>
  BY DEF OfferIsMade
<1>3. UNCHANGED <<agreed, offers, lost>>
  BY DEF OfferIsMade
<1>4. CASE /\ signaling[e] = "have-remote-offer"
           /\ UNCHANGED <<signaling, pending, toJoiner, toOwner, replaced>>
  BY <1>1, <1>2, <1>3, <1>4, DroppedAgrees DEF NegotiationInv
<1>5. CASE /\ signaling[e] \in {"stable", "have-local-offer"}
           /\ signaling' = [signaling EXCEPT ![e] = "have-local-offer"]
           /\ pending' = [pending EXCEPT ![e] = t.offer]
           /\ SendSignal(e, Signal("Offer", t.offer))
           /\ GivesUpItsOffer(e)
  <2> DEFINE o == t.offer
  <2>1. /\ o \in 1..offers /\ t = Task("Offer", o)
        /\ Signal("Offer", o) \in Descriptions(offers) /\ Signal("Offer", o).type = "Offer"
    <3>1. o \in 1..offers /\ t = Task("Offer", o)
      BY <1>0, <1>2, DescriptionsAreOfOffers
    <3>2. QED
      BY <3>1, Kinds DEF Descriptions, Signal
  <2>2. /\ tasks'[e] = tasks[e] \ {Task("Offer", o)} /\ tasks'[Other(e)] = tasks[Other(e)]
        /\ signaling'[e] = "have-local-offer" /\ signaling'[Other(e)] = signaling[Other(e)]
        /\ pending'[e] = o /\ pending'[Other(e)] = pending[Other(e)]
        /\ Other(e) \in End /\ Other(e) # e
        /\ Task("Offer", o) \in tasks[e]
    BY <1>0, <1>2, <1>5, <2>1, RelayTypes, Ends
  <2>3. \A d \in End : Signal("Offer", o) \notin Coming(d)
    BY <1>0, <2>1, <2>2 DEF BookInv, OffersAreFresh
  <2>4. replaced => replaced'
    BY <1>5 DEF GivesUpItsOffer
  <2> HIDE DEF o
  <2>5. CASE e = "owner"
    <3>1. /\ toJoiner' = Append(toJoiner, Signal("Offer", o)) /\ UNCHANGED toOwner
          /\ (replaced' <=> replaced) /\ Other(e) = "joiner" /\ "joiner" \in End
      BY <1>5, <2>5, Ends DEF SendSignal, GivesUpItsOffer, o
    <3>2. Coming(e)' = Coming(e) /\ Coming(Other(e))' = Coming(Other(e)) \cup {Signal("Offer", o)}
      BY <1>0, <2>1, <2>5, <3>1, ComingGrows, ComingToOwner
    <3>3. BookInv'
      BY <1>0, <1>3, <2>1, <2>2, <3>2, SendOfferBook
    <3>4. OfferedOnce'
      BY <1>0, <2>1, <2>3, <3>1, OfferedOnceStays
    <3>5. OnTheWayToAgree'
      <4>1. replaced' = replaced
        BY <1>0, <1>1, <3>1, RelayTypes DEF RelayInv, NegotiationTypes
      <4>2. QED
        BY <1>3, <1>5, <2>1, <2>2, <2>5, <3>1, <4>1, OwnerOfferAgrees
    <3>6. NothingPendsAtRest'
      BY <1>0, <2>2, <2>5, <3>1 DEF NothingPendsAtRest, End
    <3>7. QED
      BY <1>1, <3>3, <3>4, <3>5, <3>6 DEF NegotiationInv
  <2>6. CASE e = "joiner"
    <3>1. /\ toOwner' = toOwner \cup {Signal("Offer", o)} /\ UNCHANGED toJoiner
          /\ signaling["joiner"] = "stable" \/ replaced'
          /\ Other(e) = "owner" /\ "owner" \in End
      BY <1>5, <2>6, Ends DEF SendSignal, GivesUpItsOffer, o
    <3>2. Coming(e)' = Coming(e) /\ Coming(Other(e))' = Coming(Other(e)) \cup {Signal("Offer", o)}
      BY <2>6, <3>1, ComingToOwner DEF Coming
    <3>3. BookInv'
      BY <1>0, <1>3, <2>1, <2>2, <3>2, SendOfferBook
    <3>4. OfferedOnce'
      BY <1>0, <3>1, OfferedOnceStays
    <3>5. OnTheWayToAgree'
      BY <1>3, <2>1, <2>2, <2>4, <2>6, <3>1, JoinerOfferAgrees
    <3>6. NothingPendsAtRest'
      BY <1>0, <2>2, <2>6, <3>1 DEF NothingPendsAtRest, End
    <3>7. QED
      BY <1>1, <3>3, <3>4, <3>5, <3>6 DEF NegotiationInv
  <2>7. QED
    BY <2>5, <2>6 DEF End
<1>6. QED
  BY <1>2, <1>4, <1>5

\* The owner answers: its answer is the next thing the joiner sees that is not old.
LEMMA OwnerAnswerAgrees ==
  ASSUME NegotiationInv, NEW o \in 1..offers,
         signaling["owner"] = "have-remote-offer", pending["owner"] = o,
         signaling'["owner"] = "stable", signaling'["joiner"] = signaling["joiner"],
         pending'["joiner"] = pending["joiner"],
         agreed'["owner"] = o, agreed'["joiner"] = agreed["joiner"],
         toJoiner' = Append(toJoiner, Signal("Answer", o)),
         UNCHANGED <<toOwner, offers, lost, replaced>>
  PROVE  OnTheWayToAgree'
<1>0. RelayInv /\ OnTheWayToAgree
  BY DEF NegotiationInv
<1>1. SUFFICES ASSUME lost' = 0, ~replaced'
               PROVE  OffersAreStoodBy' /\ (Doomed' \/ OnTheWay')
  BY DEF OnTheWayToAgree
<1>2. OffersAreStoodBy /\ (Doomed \/ OnTheWay)
  BY <1>0, <1>1 DEF OnTheWayToAgree
<1>3. OffersAreStoodBy'
  BY <1>2 DEF OffersAreStoodBy
<1>4. /\ toJoiner \in Seq(Descriptions(offers))
      /\ Signal("Answer", o) \in Descriptions(offers)
      /\ Signal("Answer", o).type = "Answer"
  BY <1>0, RelayTypes, Kinds DEF Descriptions, Signal
<1>5. CASE Doomed
  <2>1. OfferFirst(Append(toJoiner, Signal("Answer", o)), pending["joiner"])
    BY <1>4, <1>5, LogGrows DEF Doomed
  <2>2. Doomed'
    BY <1>5, <2>1 DEF Doomed
  <2>3. QED
    BY <1>3, <2>2
<1>6. CASE OnTheWay
  <2>1. ~OwnerRests /\ ~OwnerWaits
    BY DEF OwnerRests, OwnerWaits
  <2>2. signaling["joiner"] = "have-local-offer"
    <3>1. signaling["joiner"] \in {"none", "stable", "have-local-offer", "have-remote-offer"}
      BY <1>0, RelayTypes DEF End
    <3>2. QED
      BY <1>6, <2>1, <3>1 DEF OnTheWay, JoinerHasNone, JoinerIsStable, JoinerAnswers
  <2>3. pending["joiner"] = o /\ NoOffer(toJoiner)
    BY <1>6, <2>1, <2>2 DEF OnTheWay, JoinerOffers
  <2>4. /\ AnswerFirst(Append(toJoiner, Signal("Answer", o)), o)
        /\ NoOffer(Append(toJoiner, Signal("Answer", o)))
    BY <1>4, <2>3, LogGrows
  <2>5. OwnerRests' /\ AnswerFirst(toJoiner', o)
    BY <2>4 DEF OwnerRests
  <2>6. JoinerOffers(o)'
    BY <2>5 DEF JoinerOffers
  <2>7. OnTheWay'
    <3>1. signaling'["joiner"] = "have-local-offer" /\ pending'["joiner"] = o
      BY <2>2, <2>3
    <3>2. QED
      BY <2>6, <3>1 DEF OnTheWay
  <2>8. QED
    BY <1>3, <2>7
<1>7. QED
  BY <1>2, <1>5, <1>6

\* The joiner answers: the owner waits for just this answer, or has offered again.
LEMMA JoinerAnswerAgrees ==
  ASSUME NegotiationInv, NEW o \in 1..offers,
         signaling["joiner"] = "have-remote-offer", pending["joiner"] = o,
         signaling'["joiner"] = "stable", signaling'["owner"] = signaling["owner"],
         pending'["owner"] = pending["owner"],
         agreed'["joiner"] = o,
         toOwner' = toOwner \cup {Signal("Answer", o)},
         UNCHANGED <<toJoiner, offers, lost, replaced>>
  PROVE  OnTheWayToAgree'
<1>0. OnTheWayToAgree
  BY DEF NegotiationInv
<1>1. SUFFICES ASSUME lost' = 0, ~replaced'
               PROVE  OffersAreStoodBy' /\ (Doomed' \/ OnTheWay')
  BY DEF OnTheWayToAgree
<1>2. OffersAreStoodBy /\ JoinerAnswers
  BY <1>0, <1>1 DEF OnTheWayToAgree, OnTheWay, Doomed
<1>3. OffersAreStoodBy'
  BY <1>2, Kinds DEF OffersAreStoodBy
<1>4. JoinerIsStable'
  <2>1. OwnerWaits => OwnerWaits'
    BY DEF OwnerWaits
  <2>2. QED
    BY <1>2, <2>1 DEF JoinerAnswers, JoinerIsStable
<1>5. OnTheWay'
  BY <1>4 DEF OnTheWay
<1>6. QED
  BY <1>3, <1>5

LEMMA AnswerAgrees ==
  ASSUME NegotiationInv, NEW e \in End, AnswerIsMade(e)
  PROVE  NegotiationInv'
<1>0. RelayInv /\ BookInv /\ OfferedOnce /\ NothingPendsAtRest /\ OnTheWayToAgree
  BY DEF NegotiationInv
<1>1. RelayInv'
  BY <1>0, AnswerRelay
<1>2. PICK t \in tasks[e] :
        /\ t.type = "Answer"
        /\ tasks' = [tasks EXCEPT ![e] = @ \ {t}]
        /\ \/ /\ signaling[e] = "have-remote-offer" /\ pending[e] = t.offer
              /\ Conclude(e, t.offer)
              /\ SendSignal(e, Signal("Answer", t.offer))
           \/ /\ ~(signaling[e] = "have-remote-offer" /\ pending[e] = t.offer)
              /\ UNCHANGED <<negotiationVars, linkVars>>
  BY DEF AnswerIsMade
<1>3. UNCHANGED <<offers, lost, replaced>>
  BY DEF AnswerIsMade
<1>4. CASE /\ ~(signaling[e] = "have-remote-offer" /\ pending[e] = t.offer)
           /\ UNCHANGED <<negotiationVars, linkVars>>
  <2>1. UNCHANGED <<signaling, pending, agreed, toJoiner, toOwner>>
    BY <1>4 DEF negotiationVars
  <2>2. QED
    BY <1>1, <1>2, <1>3, <1>4, <2>1, DroppedAgrees DEF NegotiationInv
<1>5. CASE /\ signaling[e] = "have-remote-offer" /\ pending[e] = t.offer
           /\ Conclude(e, t.offer)
           /\ SendSignal(e, Signal("Answer", t.offer))
  <2> DEFINE o == t.offer
  <2>1. /\ o \in 1..offers /\ t = Task("Answer", o)
        /\ Signal("Answer", o) \in Descriptions(offers) /\ Signal("Answer", o).type = "Answer"
    <3>1. o \in 1..offers /\ t = Task("Answer", o)
      BY <1>0, <1>2, DescriptionsAreOfOffers
    <3>2. QED
      BY <3>1, Kinds DEF Descriptions, Signal
  <2>2. /\ signaling' = [signaling EXCEPT ![e] = "stable"]
        /\ pending' = [pending EXCEPT ![e] = 0]
        /\ agreed' = [agreed EXCEPT ![e] = o]
    BY <1>5 DEF Conclude
  <2>3. /\ tasks'[e] = tasks[e] \ {Task("Answer", o)} /\ tasks'[Other(e)] = tasks[Other(e)]
        /\ signaling'[e] = "stable" /\ signaling'[Other(e)] = signaling[Other(e)]
        /\ pending'[e] = 0 /\ pending'[Other(e)] = pending[Other(e)]
        /\ agreed'[e] = o /\ agreed'[Other(e)] = agreed[Other(e)]
        /\ Other(e) \in End /\ Other(e) # e
        /\ Task("Answer", o) \in tasks[e]
    BY <1>0, <1>2, <2>1, <2>2, RelayTypes, Ends
  <2> HIDE DEF o
  <2>4. NothingPendsAtRest'
    <3>1. \A d \in End : d = e \/ d = Other(e)
      BY Ends DEF End
    <3>2. QED
      BY <1>0, <2>3, <3>1 DEF NothingPendsAtRest
  <2>5. CASE e = "owner"
    <3>1. /\ toJoiner' = Append(toJoiner, Signal("Answer", o)) /\ UNCHANGED toOwner
          /\ Other(e) = "joiner" /\ "joiner" \in End
      BY <1>5, <2>5, Ends DEF SendSignal, o
    <3>2. Coming(e)' = Coming(e) /\ Coming(Other(e))' = Coming(Other(e)) \cup {Signal("Answer", o)}
      BY <1>0, <2>1, <2>5, <3>1, ComingGrows, ComingToOwner
    <3>3. BookInv'
      BY <1>0, <1>3, <2>1, <2>3, <3>2, SendAnswerBook
    <3>4. OfferedOnce'
      BY <1>0, <2>1, <3>1, OfferedOnceStays
    <3>5. OnTheWayToAgree'
      <4>1. signaling["owner"] = "have-remote-offer" /\ pending["owner"] = o
        BY <1>5, <2>5 DEF o
      <4>2. QED
        BY <1>3, <2>1, <2>3, <2>5, <3>1, <4>1, OwnerAnswerAgrees
    <3>6. QED
      BY <1>1, <2>4, <3>3, <3>4, <3>5 DEF NegotiationInv
  <2>6. CASE e = "joiner"
    <3>1. /\ toOwner' = toOwner \cup {Signal("Answer", o)} /\ UNCHANGED toJoiner
          /\ Other(e) = "owner" /\ "owner" \in End
      BY <1>5, <2>6, Ends DEF SendSignal, o
    <3>2. Coming(e)' = Coming(e) /\ Coming(Other(e))' = Coming(Other(e)) \cup {Signal("Answer", o)}
      BY <2>6, <3>1, ComingToOwner DEF Coming
    <3>3. BookInv'
      BY <1>0, <1>3, <2>1, <2>3, <3>2, SendAnswerBook
    <3>4. OfferedOnce'
      BY <1>0, <3>1, OfferedOnceStays
    <3>5. OnTheWayToAgree'
      <4>1. signaling["joiner"] = "have-remote-offer" /\ pending["joiner"] = o
        BY <1>5, <2>6 DEF o
      <4>2. QED
        BY <1>3, <2>1, <2>3, <2>6, <3>1, <4>1, JoinerAnswerAgrees
    <3>6. QED
      BY <1>1, <2>4, <3>3, <3>4, <3>5 DEF NegotiationInv
  <2>7. QED
    BY <2>5, <2>6 DEF End
<1>6. QED
  BY <1>2, <1>4, <1>5

\* The joiner takes an offer of the owner's: it is the last one, or another follows.
LEMMA JoinerTakesOffer ==
  ASSUME NegotiationInv, NEW o \in 1..offers,
         toJoiner # <<>>, Head(toJoiner) = Signal("Offer", o), toJoiner' = Tail(toJoiner),
         signaling["joiner"] # "have-local-offer" \/ replaced', replaced => replaced',
         signaling'["joiner"] = "have-remote-offer", signaling'["owner"] = signaling["owner"],
         pending'["joiner"] = o, pending'["owner"] = pending["owner"],
         Task("Answer", o) \in tasks'["joiner"],
         UNCHANGED <<agreed, toOwner, offers, lost>>
  PROVE  OnTheWayToAgree'
<1>0. RelayInv /\ OnTheWayToAgree
  BY DEF NegotiationInv
<1>1. SUFFICES ASSUME lost' = 0, ~replaced'
               PROVE  OffersAreStoodBy' /\ (Doomed' \/ OnTheWay')
  BY DEF OnTheWayToAgree
<1>2. OffersAreStoodBy /\ OnTheWay /\ signaling["joiner"] # "have-local-offer"
  BY <1>0, <1>1 DEF OnTheWayToAgree, Doomed
<1>3. OffersAreStoodBy'
  BY <1>2 DEF OffersAreStoodBy
<1>4. toJoiner \in Seq(Descriptions(offers)) /\ Signal("Offer", o).type = "Offer"
  BY <1>0, RelayTypes, Kinds
<1>5. ~OwnerRests
  BY <1>4, LogShrinks DEF OwnerRests
<1>6. signaling["owner"] # "none"
  BY <1>0 DEF RelayInv, OwnerBegins
<1>7. OwnerWaits
  <2>1. signaling["joiner"] \in {"none", "stable", "have-remote-offer"}
    BY <1>0, <1>2, RelayTypes DEF End
  <2>2. ~NoOffer(toJoiner)
    BY <1>4, LogShrinks
  <2>3. QED
    BY <1>2, <1>5, <1>6, <2>1, <2>2 DEF OnTheWay, JoinerHasNone, JoinerIsStable, JoinerAnswers
<1>8. \/ Signal("Offer", o) = Signal("Offer", pending["owner"]) /\ NoOffer(Tail(toJoiner))
      \/ LastOffer(Tail(toJoiner), pending["owner"])
  BY <1>4, <1>7, LogShrinks DEF OwnerWaits
<1>9. JoinerAnswers'
  <2>1. CASE pending["owner"] = o /\ NoOffer(Tail(toJoiner))
    BY <1>7, <2>1 DEF JoinerAnswers, OwnerWaits
  <2>2. CASE LastOffer(Tail(toJoiner), pending["owner"])
    <3>1. OwnerWaits'
      BY <1>7, <2>2 DEF OwnerWaits
    <3>2. QED
      BY <3>1 DEF JoinerAnswers
  <2>3. QED
    BY <1>8, <2>1, <2>2, Kinds
<1>10. OnTheWay'
  BY <1>9 DEF OnTheWay
<1>11. QED
  BY <1>3, <1>10

\* The joiner takes the answer to its offer: the owner has concluded on it.
LEMMA JoinerTakesAnswer ==
  ASSUME NegotiationInv, NEW o \in 1..offers,
         toJoiner # <<>>, Head(toJoiner) = Signal("Answer", o), toJoiner' = Tail(toJoiner),
         signaling["joiner"] = "have-local-offer", pending["joiner"] = o,
         signaling'["joiner"] = "stable", signaling'["owner"] = signaling["owner"],
         pending'["owner"] = pending["owner"],
         agreed'["joiner"] = o, agreed'["owner"] = agreed["owner"],
         UNCHANGED <<toOwner, offers, lost, replaced>>
  PROVE  OnTheWayToAgree'
<1>0. RelayInv /\ BookInv /\ OnTheWayToAgree
  BY DEF NegotiationInv
<1>1. SUFFICES ASSUME lost' = 0, ~replaced'
               PROVE  OffersAreStoodBy' /\ (Doomed' \/ OnTheWay')
  BY DEF OnTheWayToAgree
<1>2. OffersAreStoodBy /\ (Doomed \/ OnTheWay)
  BY <1>0, <1>1 DEF OnTheWayToAgree
<1>3. toJoiner \in Seq(Descriptions(offers)) /\ Signal("Answer", o).type = "Answer"
  BY <1>0, RelayTypes, Kinds
<1>4. /\ Signal("Offer", o) \notin toOwner
      /\ Task("Answer", o) \notin tasks["owner"]
  <2>1. Signal("Answer", o) \in Coming("joiner")
    BY <1>0, ComingShrinks
  <2>2. "owner" \in End /\ Other("owner") = "joiner"
    BY Ends
  <2>3. QED
    BY <1>0, <2>1, <2>2, ComingToOwner DEF BookInv, AnsweredOnce
<1>5. OffersAreStoodBy'
  BY <1>2, <1>4 DEF OffersAreStoodBy
<1>6. ~Doomed
  BY <1>3, LogShrinks DEF Doomed
<1>7. agreed["owner"] = o /\ (OwnerRests \/ OwnerWaits)
  BY <1>2, <1>4, <1>6 DEF OnTheWay, JoinerOffers
<1>8. OwnerRests => OwnerRests'
  BY <1>3, LogShrinks DEF OwnerRests
<1>9. OwnerWaits => OwnerWaits'
  <2>1. LastOffer(toJoiner, pending["owner"]) => LastOffer(Tail(toJoiner), pending["owner"])
    BY <1>3, LogShrinks, Kinds
  <2>2. QED
    BY <2>1 DEF OwnerWaits
<1>10. JoinerIsStable'
  BY <1>7, <1>8, <1>9 DEF JoinerIsStable
<1>11. OnTheWay'
  BY <1>10 DEF OnTheWay
<1>12. QED
  BY <1>5, <1>11

\* The joiner refuses an answer: it waits for another one, or for none.
LEMMA JoinerRefusesAnswer ==
  ASSUME NegotiationInv, NEW o \in 1..offers,
         toJoiner # <<>>, Head(toJoiner) = Signal("Answer", o), toJoiner' = Tail(toJoiner),
         ~(signaling["joiner"] = "have-local-offer" /\ pending["joiner"] = o),
         UNCHANGED <<signaling, pending, agreed, tasks, toOwner, offers, lost, replaced>>
  PROVE  OnTheWayToAgree'
<1>0. RelayInv /\ OnTheWayToAgree
  BY DEF NegotiationInv
<1>1. SUFFICES ASSUME lost' = 0, ~replaced'
               PROVE  OffersAreStoodBy' /\ (Doomed' \/ OnTheWay')
  BY DEF OnTheWayToAgree
<1>2. OffersAreStoodBy /\ (Doomed \/ OnTheWay)
  BY <1>0, <1>1 DEF OnTheWayToAgree
<1>3. OffersAreStoodBy'
  BY <1>2 DEF OffersAreStoodBy
<1>4. toJoiner \in Seq(Descriptions(offers)) /\ Signal("Answer", o).type = "Answer"
  BY <1>0, RelayTypes, Kinds
<1>5. NoOffer(toJoiner) => NoOffer(Tail(toJoiner))
  BY <1>4, LogShrinks
<1>6. \A p : LastOffer(toJoiner, p) => LastOffer(Tail(toJoiner), p)
  BY <1>4, LogShrinks, Kinds
<1>7. (OwnerRests => OwnerRests') /\ (OwnerWaits => OwnerWaits')
  BY <1>5, <1>6 DEF OwnerRests, OwnerWaits
<1>8. Doomed => Doomed'
  <2>1. OfferFirst(toJoiner, pending["joiner"]) => OfferFirst(Tail(toJoiner), pending["joiner"])
    BY <1>4, LogShrinks
  <2>2. QED
    BY <2>1 DEF Doomed
<1>9. ASSUME OnTheWay
      PROVE  OnTheWay'
  <2>1. JoinerHasNone => JoinerHasNone'
    BY <1>7 DEF JoinerHasNone
  <2>2. JoinerIsStable => JoinerIsStable'
    BY <1>5, <1>7 DEF JoinerIsStable
  <2>3. JoinerAnswers => JoinerAnswers'
    BY <1>5, <1>7 DEF JoinerAnswers
  <2>4. ASSUME signaling["joiner"] = "have-local-offer", JoinerOffers(pending["joiner"])
        PROVE  JoinerOffers(pending["joiner"])'
    <3>1. AnswerFirst(toJoiner, pending["joiner"]) => AnswerFirst(Tail(toJoiner), pending["joiner"])
      <4>1. Head(toJoiner) # Signal("Answer", pending["joiner"])
        BY <2>4, Kinds
      <4>2. QED
        BY <1>4, <4>1, LogShrinks
    <3>2. QED
      BY <1>5, <1>7, <2>4, <3>1 DEF JoinerOffers
  <2>5. QED
    BY <1>9, <2>1, <2>2, <2>3, <2>4 DEF OnTheWay
<1>10. QED
  BY <1>2, <1>3, <1>8, <1>9

\* The owner takes the offer the joiner waits for an answer to.
LEMMA OwnerTakesOffer ==
  ASSUME NegotiationInv, NEW o \in 1..offers,
         Signal("Offer", o) \in toOwner, toOwner' = toOwner \ {Signal("Offer", o)},
         signaling'["owner"] = "have-remote-offer", signaling'["joiner"] = signaling["joiner"],
         pending'["owner"] = o, pending'["joiner"] = pending["joiner"],
         Task("Answer", o) \in tasks'["owner"],
         replaced => replaced',
         UNCHANGED <<agreed, toJoiner, offers, lost>>
  PROVE  OnTheWayToAgree'
<1>0. RelayInv /\ BookInv /\ OnTheWayToAgree
  BY DEF NegotiationInv
<1>1. SUFFICES ASSUME lost' = 0, ~replaced'
               PROVE  OffersAreStoodBy' /\ (Doomed' \/ OnTheWay')
  BY DEF OnTheWayToAgree
<1>2. OffersAreStoodBy /\ (Doomed \/ OnTheWay)
  BY <1>0, <1>1 DEF OnTheWayToAgree
<1>3. signaling["joiner"] = "have-local-offer" /\ pending["joiner"] = o
  BY <1>2 DEF OffersAreStoodBy
<1>4. OffersAreStoodBy'
  BY <1>2 DEF OffersAreStoodBy
<1>5. Doomed => Doomed'
  BY DEF Doomed
<1>6. ASSUME OnTheWay
      PROVE  OnTheWay'
  <2>1. Signal("Offer", o) \in Coming("owner") /\ "owner" \in End /\ Other("owner") = "joiner"
    BY ComingToOwner, Ends
  <2>2. Task("Answer", o) \notin tasks["owner"] /\ Signal("Answer", o) \notin Coming("joiner")
    BY <1>0, <2>1 DEF BookInv, AnsweredOnce
  <2>3. ~AnswerFirst(toJoiner, o)
    BY <2>2 DEF AnswerFirst, Coming
  <2>4. JoinerOffers(o)
    BY <1>3, <1>6 DEF OnTheWay
  <2>5. NoOffer(toJoiner)
    BY <2>2, <2>3, <2>4 DEF JoinerOffers
  <2>6. JoinerOffers(o)'
    BY <2>5 DEF JoinerOffers
  <2>7. signaling'["joiner"] = "have-local-offer" /\ pending'["joiner"] = o
    BY <1>3
  <2>8. QED
    BY <2>6, <2>7 DEF OnTheWay
<1>7. QED
  BY <1>2, <1>4, <1>5, <1>6

\* The owner takes the answer to its offer: the joiner has concluded on it, or offers anew.
LEMMA OwnerTakesAnswer ==
  ASSUME NegotiationInv, NEW o \in 1..offers,
         Signal("Answer", o) \in toOwner, toOwner' = toOwner \ {Signal("Answer", o)},
         signaling["owner"] = "have-local-offer", pending["owner"] = o,
         signaling'["owner"] = "stable", signaling'["joiner"] = signaling["joiner"],
         pending'["joiner"] = pending["joiner"],
         agreed'["owner"] = o, agreed'["joiner"] = agreed["joiner"],
         UNCHANGED <<toJoiner, offers, lost, replaced>>
  PROVE  OnTheWayToAgree'
<1>0. RelayInv /\ BookInv /\ OnTheWayToAgree
  BY DEF NegotiationInv
<1>1. SUFFICES ASSUME lost' = 0, ~replaced'
               PROVE  OffersAreStoodBy' /\ (Doomed' \/ OnTheWay')
  BY DEF OnTheWayToAgree
<1>2. OffersAreStoodBy /\ (Doomed \/ OnTheWay)
  BY <1>0, <1>1 DEF OnTheWayToAgree
<1>3. OffersAreStoodBy'
  BY <1>2 DEF OffersAreStoodBy
<1>4. Doomed => Doomed'
  BY DEF Doomed
<1>5. /\ Signal("Offer", o) \notin Coming("joiner")
      /\ Task("Answer", o) \notin tasks["joiner"]
  <2>1. Signal("Answer", o) \in Coming("owner") /\ "joiner" \in End /\ Other("joiner") = "owner"
    BY ComingToOwner, Ends
  <2>2. QED
    BY <1>0, <2>1 DEF BookInv, AnsweredOnce
<1>6. ~OwnerRests /\ ~OwnerWaits
  <2>1. ~LastOffer(toJoiner, o)
    BY <1>5 DEF LastOffer, Coming
  <2>2. QED
    BY <2>1 DEF OwnerRests, OwnerWaits
<1>7. ASSUME OnTheWay
      PROVE  OnTheWay'
  <2>1. signaling["joiner"] # "none"
    BY <1>6, <1>7 DEF OnTheWay, JoinerHasNone
  <2>2. signaling["joiner"] # "have-remote-offer"
    BY <1>5, <1>6, <1>7 DEF OnTheWay, JoinerAnswers
  <2>3. ASSUME signaling["joiner"] = "stable"
        PROVE  JoinerIsStable'
    <3>1. agreed["joiner"] = o /\ NoOffer(toJoiner)
      BY <1>6, <1>7, <2>3 DEF OnTheWay, JoinerIsStable
    <3>2. OwnerRests'
      BY <3>1 DEF OwnerRests
    <3>3. QED
      BY <3>1, <3>2 DEF JoinerIsStable
  <2>4. ASSUME signaling["joiner"] = "have-local-offer"
        PROVE  JoinerOffers(pending["joiner"])'
    <3>1. JoinerOffers(pending["joiner"])
      BY <1>7, <2>4 DEF OnTheWay
    <3>2. Signal("Offer", pending["joiner"]) \in toOwner /\ NoOffer(toJoiner)
      BY <1>6, <3>1 DEF JoinerOffers
    <3>3. Signal("Offer", pending["joiner"]) \in toOwner'
      BY <3>2, Kinds
    <3>4. QED
      BY <3>2, <3>3 DEF JoinerOffers
  <2>5. QED
    BY <2>1, <2>2, <2>3, <2>4 DEF OnTheWay
<1>8. QED
  BY <1>2, <1>3, <1>4, <1>7

\* The owner refuses an answer: not one it waits for.
LEMMA OwnerRefusesAnswer ==
  ASSUME NegotiationInv, NEW o \in 1..offers,
         toOwner' = toOwner \ {Signal("Answer", o)},
         ~(signaling["owner"] = "have-local-offer" /\ pending["owner"] = o),
         UNCHANGED <<signaling, pending, agreed, tasks, toJoiner, offers, lost, replaced>>
  PROVE  OnTheWayToAgree'
<1>1. SUFFICES ASSUME lost' = 0, ~replaced'
               PROVE  OffersAreStoodBy' /\ (Doomed' \/ OnTheWay')
  BY DEF OnTheWayToAgree
<1>2. OffersAreStoodBy /\ (Doomed \/ OnTheWay)
  BY <1>1 DEF NegotiationInv, OnTheWayToAgree
<1>3. OffersAreStoodBy'
  BY <1>2 DEF OffersAreStoodBy
<1>4. /\ Doomed => Doomed'
      /\ OwnerRests <=> OwnerRests'
      /\ OwnerWaits <=> OwnerWaits'
  BY DEF Doomed, OwnerRests, OwnerWaits
<1>5. ASSUME OnTheWay
      PROVE  OnTheWay'
  <2>1. JoinerHasNone => JoinerHasNone'
    BY <1>4 DEF JoinerHasNone
  <2>2. JoinerIsStable => JoinerIsStable'
    BY <1>4, Kinds DEF JoinerIsStable
  <2>3. JoinerAnswers => JoinerAnswers'
    BY <1>4 DEF JoinerAnswers
  <2>4. JoinerOffers(pending["joiner"]) => JoinerOffers(pending["joiner"])'
    BY <1>4, Kinds DEF JoinerOffers
  <2>5. QED
    BY <1>5, <2>1, <2>2, <2>3, <2>4 DEF OnTheWay
<1>6. QED
  BY <1>2, <1>3, <1>4, <1>5

\* What a taken offer and a taken or refused answer do to an end.
LEMMA TakesOffer ==
  ASSUME RelayInv, NEW e \in End, NEW s, HandleOffer(e, s)
  PROVE  /\ s.type = "Offer"
         /\ signaling'[e] = "have-remote-offer" /\ signaling'[Other(e)] = signaling[Other(e)]
         /\ pending'[e] = s.offer /\ pending'[Other(e)] = pending[Other(e)]
         /\ tasks'[e] = tasks[e] \cup {Task("Answer", s.offer)}
         /\ tasks'[Other(e)] = tasks[Other(e)]
         /\ agreed' = agreed
         /\ replaced => replaced'
         /\ e = "owner" => (replaced' <=> replaced)
         /\ e = "joiner" => signaling[e] # "have-local-offer" \/ replaced'
         /\ NothingPendsAtRest => NothingPendsAtRest'
<1>1. /\ signaling \in [End -> {"none", "stable", "have-local-offer", "have-remote-offer"}]
      /\ pending \in [End -> 0..offers] /\ tasks \in [End -> SUBSET Descriptions(offers)]
  BY RelayTypes
<1>2. Other(e) \in End /\ Other(e) # e /\ \A d \in End : d = e \/ d = Other(e)
  BY Ends DEF End
<1>3. /\ s.type = "Offer"
      /\ signaling' = [signaling EXCEPT ![e] = "have-remote-offer"]
      /\ pending' = [pending EXCEPT ![e] = s.offer]
      /\ tasks' = [tasks EXCEPT ![e] = @ \cup {Task("Answer", s.offer)}]
      /\ replaced' = (replaced \/ (e = "joiner" /\ signaling[e] = "have-local-offer"))
      /\ agreed' = agreed
  BY DEF HandleOffer, GivesUpItsOffer
<1>4. /\ signaling'[e] = "have-remote-offer" /\ signaling'[Other(e)] = signaling[Other(e)]
      /\ pending'[e] = s.offer /\ pending'[Other(e)] = pending[Other(e)]
      /\ tasks'[e] = tasks[e] \cup {Task("Answer", s.offer)}
      /\ tasks'[Other(e)] = tasks[Other(e)]
  BY <1>1, <1>2, <1>3
<1>5. NothingPendsAtRest => NothingPendsAtRest'
  BY <1>2, <1>4 DEF NothingPendsAtRest
<1>6. /\ replaced => replaced'
      /\ e = "owner" => (replaced' <=> replaced)
      /\ e = "joiner" => signaling[e] # "have-local-offer" \/ replaced'
  BY <1>3
<1>7. QED
  BY <1>3, <1>4, <1>5, <1>6

LEMMA TakesAnswer ==
  ASSUME RelayInv, NEW e \in End, NEW s, HandleAnswer(e, s)
  PROVE  /\ s.type = "Answer" /\ tasks' = tasks /\ replaced' = replaced
         /\ NothingPendsAtRest => NothingPendsAtRest'
         /\ \/ /\ signaling[e] = "have-local-offer" /\ pending[e] = s.offer
               /\ signaling'[e] = "stable" /\ signaling'[Other(e)] = signaling[Other(e)]
               /\ pending'[Other(e)] = pending[Other(e)]
               /\ agreed'[e] = s.offer /\ agreed'[Other(e)] = agreed[Other(e)]
            \/ /\ ~(signaling[e] = "have-local-offer" /\ pending[e] = s.offer)
               /\ UNCHANGED <<signaling, pending, agreed>>
<1>1. /\ signaling \in [End -> {"none", "stable", "have-local-offer", "have-remote-offer"}]
      /\ pending \in [End -> 0..offers] /\ agreed \in [End -> 0..offers]
  BY RelayTypes
<1>2. Other(e) \in End /\ Other(e) # e /\ \A d \in End : d = e \/ d = Other(e)
  BY Ends DEF End
<1>3. s.type = "Answer" /\ tasks' = tasks /\ replaced' = replaced
  BY DEF HandleAnswer
<1>4. CASE signaling[e] = "have-local-offer" /\ pending[e] = s.offer /\ Conclude(e, s.offer)
  <2>1. /\ signaling' = [signaling EXCEPT ![e] = "stable"]
        /\ pending' = [pending EXCEPT ![e] = 0]
        /\ agreed' = [agreed EXCEPT ![e] = s.offer]
    BY <1>4 DEF Conclude
  <2>2. /\ signaling'[e] = "stable" /\ signaling'[Other(e)] = signaling[Other(e)]
        /\ pending'[e] = 0 /\ pending'[Other(e)] = pending[Other(e)]
        /\ agreed'[e] = s.offer /\ agreed'[Other(e)] = agreed[Other(e)]
    BY <1>1, <1>2, <2>1
  <2>3. NothingPendsAtRest => NothingPendsAtRest'
    BY <1>2, <2>2 DEF NothingPendsAtRest
  <2>4. QED
    BY <1>3, <1>4, <2>2, <2>3
<1>5. CASE /\ ~(signaling[e] = "have-local-offer" /\ pending[e] = s.offer)
           /\ UNCHANGED <<signaling, pending, agreed, linkVars>>
  BY <1>3, <1>5 DEF NothingPendsAtRest
<1>6. QED
  BY <1>4, <1>5 DEF HandleAnswer

LEMMA JoinerSignalAgrees ==
  ASSUME NegotiationInv, toJoiner # <<>>,
         HandleOffer("joiner", Head(toJoiner)) \/ HandleAnswer("joiner", Head(toJoiner)),
         toJoiner' = Tail(toJoiner), UNCHANGED <<toOwner, offers, lost>>
  PROVE  BookInv' /\ OfferedOnce' /\ NothingPendsAtRest' /\ OnTheWayToAgree'
<1> DEFINE s == Head(toJoiner)
           o == s.offer
<1>0. RelayInv /\ BookInv /\ OfferedOnce /\ NothingPendsAtRest
  BY DEF NegotiationInv
<1>1. "joiner" \in End /\ "owner" \in End /\ Other("joiner") = "owner"
      /\ \A d \in End : d = "joiner" \/ d = "owner"
  BY Ends
<1>2. s \in Descriptions(offers)
  <2>1. toJoiner \in Seq(Descriptions(offers))
    BY <1>0, RelayTypes
  <2>2. QED
    BY <2>1
<1>3. o \in 1..offers /\ s = Signal(s.type, o)
  BY <1>2 DEF Descriptions, Signal
<1>4. OfferedOnce'
  BY <1>0, OfferedOnceStays
<1>5. Coming("joiner")' \subseteq Coming("joiner") /\ s \in Coming("joiner")
      /\ (s.type = "Offer" => Coming("joiner")' \subseteq Coming("joiner") \ {s})
      /\ Coming("owner")' = Coming("owner")
  BY <1>0, ComingShrinks, ComingToOwner
<1>6. CASE HandleOffer("joiner", s)
  <2>1. /\ s = Signal("Offer", o)
        /\ signaling'["joiner"] = "have-remote-offer" /\ signaling'["owner"] = signaling["owner"]
        /\ pending'["joiner"] = o /\ pending'["owner"] = pending["owner"]
        /\ tasks'["joiner"] = tasks["joiner"] \cup {Task("Answer", o)}
        /\ tasks'["owner"] = tasks["owner"]
        /\ agreed' = agreed
        /\ replaced => replaced'
        /\ signaling["joiner"] # "have-local-offer" \/ replaced'
        /\ NothingPendsAtRest'
    BY <1>0, <1>1, <1>3, <1>6, TakesOffer
  <2> HIDE DEF o
  <2>2. BookInv'
    <3>1. Signal("Offer", o) \in Coming("joiner")
          /\ Coming("joiner")' \subseteq Coming("joiner") \ {Signal("Offer", o)}
      BY <1>5, <2>1, Kinds
    <3>2. QED
      BY <1>0, <1>1, <1>3, <1>5, <2>1, <3>1, TakeOfferBook
  <2>3. OnTheWayToAgree'
    <3>1. Task("Answer", o) \in tasks'["joiner"]
      BY <2>1
    <3>2. QED
      BY <1>3, <2>1, <3>1, JoinerTakesOffer
  <2>4. QED
    BY <1>4, <2>1, <2>2, <2>3
<1>7. CASE HandleAnswer("joiner", s)
  <2>1. /\ s = Signal("Answer", o) /\ tasks' = tasks /\ replaced' = replaced
        /\ NothingPendsAtRest'
        /\ \/ /\ signaling["joiner"] = "have-local-offer" /\ pending["joiner"] = o
              /\ signaling'["joiner"] = "stable" /\ signaling'["owner"] = signaling["owner"]
              /\ pending'["owner"] = pending["owner"]
              /\ agreed'["joiner"] = o /\ agreed'["owner"] = agreed["owner"]
           \/ /\ ~(signaling["joiner"] = "have-local-offer" /\ pending["joiner"] = o)
              /\ UNCHANGED <<signaling, pending, agreed>>
    BY <1>0, <1>1, <1>3, <1>7, TakesAnswer
  <2> HIDE DEF o
  <2>2. BookInv'
    <3>1. \A d \in End : tasks'[d] \subseteq tasks[d] /\ Coming(d)' \subseteq Coming(d)
      BY <1>1, <1>5, <2>1
    <3>2. QED
      BY <1>0, <3>1, FewerBook
  <2>3. OnTheWayToAgree'
    BY <1>3, <2>1, JoinerTakesAnswer, JoinerRefusesAnswer
  <2>4. QED
    BY <1>4, <2>1, <2>2, <2>3
<1>8. QED
  BY <1>6, <1>7

LEMMA OwnerSignalAgrees ==
  ASSUME NegotiationInv, NEW s \in toOwner,
         HandleOffer("owner", s) \/ HandleAnswer("owner", s),
         toOwner' = toOwner \ {s}, UNCHANGED <<toJoiner, offers, lost>>
  PROVE  BookInv' /\ OfferedOnce' /\ NothingPendsAtRest' /\ OnTheWayToAgree'
<1> DEFINE o == s.offer
<1>0. RelayInv /\ BookInv /\ OfferedOnce /\ NothingPendsAtRest
  BY DEF NegotiationInv
<1>1. "joiner" \in End /\ "owner" \in End /\ Other("owner") = "joiner"
      /\ \A d \in End : d = "joiner" \/ d = "owner"
  BY Ends
<1>2. s \in Descriptions(offers)
  BY <1>0, RelayTypes
<1>3. o \in 1..offers /\ s = Signal(s.type, o)
  BY <1>2 DEF Descriptions, Signal
<1>4. OfferedOnce'
  BY <1>0, OfferedOnceStays
<1>5. Coming("owner") = toOwner /\ Coming("owner")' = toOwner \ {s}
      /\ Coming("joiner")' = Coming("joiner")
  BY <1>1, ComingToOwner DEF Coming
<1>6. CASE HandleOffer("owner", s)
  <2>1. /\ s = Signal("Offer", o)
        /\ signaling'["owner"] = "have-remote-offer" /\ signaling'["joiner"] = signaling["joiner"]
        /\ pending'["owner"] = o /\ pending'["joiner"] = pending["joiner"]
        /\ tasks'["owner"] = tasks["owner"] \cup {Task("Answer", o)}
        /\ tasks'["joiner"] = tasks["joiner"]
        /\ agreed' = agreed
        /\ replaced => replaced'
        /\ NothingPendsAtRest'
    BY <1>0, <1>1, <1>3, <1>6, TakesOffer
  <2> HIDE DEF o
  <2>2. BookInv'
    <3>1. Signal("Offer", o) \in Coming("owner")
          /\ Coming("owner")' \subseteq Coming("owner") \ {Signal("Offer", o)}
      BY <1>5, <2>1
    <3>2. QED
      BY <1>0, <1>1, <1>3, <1>5, <2>1, <3>1, TakeOfferBook
  <2>3. OnTheWayToAgree'
    <3>1. Task("Answer", o) \in tasks'["owner"]
      BY <2>1
    <3>2. QED
      BY <1>3, <2>1, <3>1, OwnerTakesOffer
  <2>4. QED
    BY <1>4, <2>1, <2>2, <2>3
<1>7. CASE HandleAnswer("owner", s)
  <2>1. /\ s = Signal("Answer", o) /\ tasks' = tasks /\ replaced' = replaced
        /\ NothingPendsAtRest'
        /\ \/ /\ signaling["owner"] = "have-local-offer" /\ pending["owner"] = o
              /\ signaling'["owner"] = "stable" /\ signaling'["joiner"] = signaling["joiner"]
              /\ pending'["joiner"] = pending["joiner"]
              /\ agreed'["owner"] = o /\ agreed'["joiner"] = agreed["joiner"]
           \/ /\ ~(signaling["owner"] = "have-local-offer" /\ pending["owner"] = o)
              /\ UNCHANGED <<signaling, pending, agreed>>
    BY <1>0, <1>1, <1>3, <1>7, TakesAnswer
  <2> HIDE DEF o
  <2>2. BookInv'
    <3>1. \A d \in End : tasks'[d] \subseteq tasks[d] /\ Coming(d)' \subseteq Coming(d)
      BY <1>1, <1>5, <2>1
    <3>2. QED
      BY <1>0, <3>1, FewerBook
  <2>3. OnTheWayToAgree'
    BY <1>3, <2>1, OwnerTakesAnswer, OwnerRefusesAnswer
  <2>4. QED
    BY <1>4, <2>1, <2>2, <2>3
<1>8. QED
  BY <1>6, <1>7

LEMMA SignalAgrees ==
  ASSUME NegotiationInv, NEW e \in End, HandleSignal(e)
  PROVE  NegotiationInv'
<1>1. RelayInv'
  BY SignalRelay DEF NegotiationInv
<1>2. BookInv' /\ OfferedOnce' /\ NothingPendsAtRest' /\ OnTheWayToAgree'
  <2>1. CASE e = "joiner"
    BY <2>1, JoinerSignalAgrees DEF HandleSignal
  <2>2. CASE e = "owner"
    BY <2>2, OwnerSignalAgrees DEF HandleSignal
  <2>3. QED
    BY <2>1, <2>2 DEF End
<1>3. QED
  BY <1>1, <1>2 DEF NegotiationInv

LEMMA NegotiationStep ==
  ASSUME NegotiationInv, [SessionNext]_sessionVars
  PROVE  NegotiationInv'
<1>1. CASE StartOffer
  BY <1>1, StartAgrees
<1>2. CASE SignalIsLost
  BY <1>2, LostAgrees
<1>3. ASSUME NEW e \in End, OfferIsMade(e)
      PROVE  NegotiationInv'
  BY <1>3, OfferAgrees
<1>4. ASSUME NEW e \in End, AnswerIsMade(e)
      PROVE  NegotiationInv'
  BY <1>4, AnswerAgrees
<1>5. ASSUME NEW e \in End, HandleSignal(e)
      PROVE  NegotiationInv'
  BY <1>5, SignalAgrees
<1>6. ASSUME NEW e \in End, LinkMoves(e)
      PROVE  NegotiationInv'
  BY <1>6, LinkAgrees
<1>7. CASE UNCHANGED sessionVars
  <2>1. RelayInv'
    BY RelayStep DEF NegotiationInv
  <2>2. UNCHANGED <<signaling, pending, agreed, tasks, toJoiner, toOwner, offers, lost, replaced>>
    BY <1>7 DEF sessionVars
  <2>3. BookInv'
    BY <2>2, FewerBook DEF NegotiationInv, Coming
  <2>4. OfferedOnce' /\ NothingPendsAtRest'
    BY <2>2 DEF NegotiationInv, OfferedOnce, NothingPendsAtRest
  <2>5. OnTheWayToAgree'
    <3>1. offers' \in Nat
      BY <2>1 DEF RelayInv, LinkTypes
    <3>2. QED
      BY <2>2, <3>1, SameAgrees DEF NegotiationInv
  <2>6. QED
    BY <2>1, <2>3, <2>4, <2>5 DEF NegotiationInv
<1>8. QED
  BY <1>1, <1>2, <1>3, <1>4, <1>5, <1>6, <1>7 DEF SessionNext, LinkMoves

LEMMA NegotiationBegins == SessionInit => NegotiationInv
<1> SUFFICES ASSUME SessionInit PROVE NegotiationInv
  OBVIOUS
<1>1. RelayInv
  BY RelayInit
<1>2. /\ signaling = [e \in End |-> "none"]
      /\ pending = [e \in End |-> 0] /\ agreed = [e \in End |-> 0] /\ tasks = [e \in End |-> {}]
      /\ toJoiner = <<>> /\ toOwner = {} /\ "owner" \in End /\ "joiner" \in End
  BY Ends DEF SessionInit
<1>3. BookInv
  <2>1. \A e \in End : tasks[e] = {} /\ Coming(e) = {}
    BY <1>2 DEF Coming
  <2>2. QED
    BY <2>1 DEF BookInv, OffersAreFresh, AnsweredOnce
<1>4. OfferedOnce /\ NothingPendsAtRest
  BY <1>2 DEF OfferedOnce, NothingPendsAtRest
<1>5. OnTheWayToAgree
  BY <1>2 DEF OnTheWayToAgree, OffersAreStoodBy, OnTheWay, JoinerHasNone
<1>6. QED
  BY <1>1, <1>3, <1>4, <1>5 DEF NegotiationInv

\* Whatever is overtaken and whoever restarts, the two ends are on their way to agree:
\* each offer is made, sent, taken and answered once, the one the joiner waits for is on
\* its way through the owner, and the owner's last one on its way through the joiner.
THEOREM NegotiationInvariant == PeerSpec => []NegotiationInv
<1>1. NegotiationInv /\ [SessionNext]_sessionVars => NegotiationInv'
  BY NegotiationStep
<1>2. QED
  BY <1>1, NegotiationBegins, PTL DEF PeerSpec

\* With nothing under way, nothing lost and no offer given up by the joiner, both ends are
\* in the same state, have nothing pending and have concluded on the same offer.
THEOREM RestFindsThemAgreed == PeerSpec => []SettledEndsAgree
<1>1. ASSUME NegotiationInv
      PROVE  SettledEndsAgree
  <2>1. SUFFICES ASSUME toJoiner = <<>>, toOwner = {}, \A e \in End : tasks[e] = {},
                        lost = 0, ~replaced
                 PROVE  /\ agreed["owner"] = agreed["joiner"]
                        /\ signaling["owner"] = signaling["joiner"]
                        /\ \A e \in End : pending[e] = 0
    BY DEF SettledEndsAgree
  <2>2. "owner" \in End /\ "joiner" \in End /\ tasks["owner"] = {} /\ tasks["joiner"] = {}
        /\ Len(toJoiner) = 0 /\ 1..Len(toJoiner) = {}
    BY <2>1, Ends
  <2>3. ~Doomed /\ ~OwnerWaits /\ \A p : ~JoinerOffers(p)
    BY <2>1, <2>2 DEF Doomed, OwnerWaits, JoinerOffers, OfferFirst, LastOffer, AnswerFirst
  <2>4. OnTheWay
    BY <1>1, <2>1, <2>3 DEF NegotiationInv, OnTheWayToAgree
  <2>5. signaling["joiner"] \in {"none", "stable"}
    <3>1. signaling["joiner"] \in {"none", "stable", "have-local-offer", "have-remote-offer"}
      BY <1>1, <2>2, RelayTypes DEF NegotiationInv
    <3>2. ~JoinerAnswers
      BY <2>2 DEF JoinerAnswers
    <3>3. QED
      BY <2>3, <2>4, <3>1, <3>2 DEF OnTheWay
  <2>6. agreed["owner"] = agreed["joiner"] /\ signaling["owner"] = signaling["joiner"]
    BY <2>1, <2>2, <2>3, <2>4, <2>5 DEF OnTheWay, JoinerHasNone, JoinerIsStable, OwnerRests
  <2>7. QED
    BY <1>1, <2>5, <2>6, Ends DEF NegotiationInv, NothingPendsAtRest
<1>2. QED
  BY <1>1, NegotiationInvariant, PTL

-----------------------------------------------------------------------------
(* A failed link, in steps: what OutageEnds rests on, beside the fairness.  *)

\* An offer of this end or of the other is being negotiated here, or about to be made.
RestartIsUnderWay(e) ==
  \/ signaling[e] \in {"have-local-offer", "have-remote-offer"}
  \/ \E t \in tasks[e] : t.type = "Offer"

\* Whoever sees the link fail has asked for a restart or says relay.
ActsOnFailure(e) ==
  /\ ice[e] = "failed" => relayActive[e] \/ RestartIsUnderWay(e)
  /\ signaling[e] = "none" => ice[e] = "new"

FailuresAreActedOn == \A e \in End : ActsOnFailure(e)

\* With nothing under way, nothing lost and no offer given up, a failed link has its relay.
OutageIsNotTheEnd ==
  /\ toJoiner = <<>> /\ toOwner = {} /\ \A e \in End : tasks[e] = {}
  /\ lost = 0 /\ ~replaced
  => \A e \in End : ice[e] = "failed" => relayActive[e]

LEMMA UndisturbedEnd ==
  ASSUME NEW e \in End, ActsOnFailure(e),
         ice'[e] = ice[e], relayActive'[e] = relayActive[e],
         \/ signaling'[e] = signaling[e]
         \/ signaling'[e] \in {"have-local-offer", "have-remote-offer"},
         \A t \in tasks[e] : t.type = "Offer" =>
           t \in tasks'[e] \/ signaling'[e] \in {"have-local-offer", "have-remote-offer"}
  PROVE  ActsOnFailure(e)'
BY DEF ActsOnFailure, RestartIsUnderWay

\* A new agreement has the connection check again.
LEMMA ConcludedEnd ==
  ASSUME RelayInv, NEW e \in End, NEW o, Conclude(e, o)
  PROVE  ActsOnFailure(e)'
<1>1. ice'[e] = "checking" /\ signaling'[e] = "stable"
  BY DEF RelayInv, LinkTypes, Conclude, NewIceState
<1>2. QED
  BY <1>1 DEF ActsOnFailure

LEMMA StartActs ==
  ASSUME RelayInv, FailuresAreActedOn, StartOffer
  PROVE  FailuresAreActedOn'
<1>1. ASSUME NEW e \in End
      PROVE  ActsOnFailure(e)'
  <2>1. offers = 0
    BY DEF StartOffer, RelayInv, OwnerBegins
  <2>2. ice'[e] = "new"
    BY <2>1 DEF StartOffer, linkVars, RelayInv, OwnerBegins
  <2>3. QED
    BY <2>2 DEF ActsOnFailure
<1>2. QED
  BY <1>1 DEF FailuresAreActedOn

LEMMA OfferActs ==
  ASSUME RelayInv, FailuresAreActedOn, NEW e \in End, OfferIsMade(e)
  PROVE  FailuresAreActedOn'
<1>1. PICK t \in tasks[e] :
        /\ t.type = "Offer"
        /\ tasks' = [tasks EXCEPT ![e] = @ \ {t}]
        /\ \/ signaling' = [signaling EXCEPT ![e] = "have-local-offer"]
           \/ signaling[e] = "have-remote-offer" /\ UNCHANGED signaling
  BY DEF OfferIsMade
<1>2. UNCHANGED <<ice, relayActive>>
  BY DEF OfferIsMade, linkVars
<1>3. ASSUME NEW d \in End
      PROVE  ActsOnFailure(d)'
  <2>1. /\ signaling \in [End -> {"none", "stable", "have-local-offer", "have-remote-offer"}]
        /\ tasks \in [End -> SUBSET Descriptions(offers)]
    BY RelayTypes
  <2>2. d = e => signaling'[d] \in {"have-local-offer", "have-remote-offer"}
    BY <1>1, <2>1
  <2>3. d # e => signaling'[d] = signaling[d] /\ tasks'[d] = tasks[d]
    BY <1>1, <2>1
  <2>4. QED
    BY <1>2, <2>2, <2>3, UndisturbedEnd DEF FailuresAreActedOn
<1>4. QED
  BY <1>3 DEF FailuresAreActedOn

LEMMA AnswerActs ==
  ASSUME RelayInv, FailuresAreActedOn, NEW e \in End, AnswerIsMade(e)
  PROVE  FailuresAreActedOn'
<1>1. PICK t \in tasks[e] :
        /\ t.type = "Answer"
        /\ tasks' = [tasks EXCEPT ![e] = @ \ {t}]
        /\ \/ Conclude(e, t.offer)
           \/ UNCHANGED <<negotiationVars, linkVars>>
  BY DEF AnswerIsMade
<1>2. /\ signaling \in [End -> {"none", "stable", "have-local-offer", "have-remote-offer"}]
      /\ tasks \in [End -> SUBSET Descriptions(offers)]
      /\ ice \in [End -> {"new", "checking", "connected", "disconnected", "failed"}]
  BY RelayTypes DEF RelayInv, LinkTypes
<1>3. ASSUME NEW d \in End, d # e \/ ~Conclude(e, t.offer)
      PROVE  ActsOnFailure(d)'
  <2>1. /\ ice'[d] = ice[d] /\ relayActive'[d] = relayActive[d]
        /\ signaling'[d] = signaling[d]
    BY <1>1, <1>2, <1>3 DEF Conclude, NewIceState, negotiationVars, linkVars
  <2>2. \A s \in tasks[d] : s.type = "Offer" => s \in tasks'[d]
    BY <1>1, <1>2
  <2>3. QED
    BY <2>1, <2>2, UndisturbedEnd DEF FailuresAreActedOn
<1>4. QED
  BY <1>3, ConcludedEnd DEF FailuresAreActedOn

LEMMA SignalActs ==
  ASSUME RelayInv, FailuresAreActedOn, NEW e \in End, HandleSignal(e)
  PROVE  FailuresAreActedOn'
<1>1. PICK s : HandleOffer(e, s) \/ HandleAnswer(e, s)
  BY DEF HandleSignal
<1>2. /\ signaling \in [End -> {"none", "stable", "have-local-offer", "have-remote-offer"}]
      /\ tasks \in [End -> SUBSET Descriptions(offers)]
      /\ ice \in [End -> {"new", "checking", "connected", "disconnected", "failed"}]
  BY RelayTypes DEF RelayInv, LinkTypes
<1>3. CASE HandleOffer(e, s)
  <2>1. /\ UNCHANGED <<ice, relayActive>>
        /\ signaling' = [signaling EXCEPT ![e] = "have-remote-offer"]
        /\ tasks' = [tasks EXCEPT ![e] = @ \cup {Task("Answer", s.offer)}]
    BY <1>3 DEF HandleOffer, linkVars
  <2>2. ASSUME NEW d \in End
        PROVE  ActsOnFailure(d)'
    <3>1. /\ signaling'[d] = signaling[d] \/ signaling'[d] = "have-remote-offer"
          /\ tasks[d] \subseteq tasks'[d]
      BY <1>2, <2>1
    <3>2. QED
      BY <2>1, <3>1, UndisturbedEnd DEF FailuresAreActedOn
  <2>3. QED
    BY <2>2 DEF FailuresAreActedOn
<1>4. CASE HandleAnswer(e, s)
  <2>1. /\ UNCHANGED tasks
        /\ Conclude(e, s.offer) \/ UNCHANGED <<signaling, linkVars>>
    BY <1>4 DEF HandleAnswer
  <2>2. ASSUME NEW d \in End, d # e \/ ~Conclude(e, s.offer)
        PROVE  ActsOnFailure(d)'
    <3>1. /\ ice'[d] = ice[d] /\ relayActive'[d] = relayActive[d]
          /\ signaling'[d] = signaling[d]
      BY <1>2, <2>1, <2>2 DEF Conclude, NewIceState, linkVars
    <3>2. QED
      BY <2>1, <3>1, UndisturbedEnd DEF FailuresAreActedOn
  <2>3. QED
    BY <2>2, ConcludedEnd DEF FailuresAreActedOn
<1>5. QED
  BY <1>1, <1>3, <1>4

\* handleIceState: a failure it is told of is answered there and then.
LEMMA LinkActs ==
  ASSUME RelayInv, FailuresAreActedOn, NEW e \in End, LinkMoves(e)
  PROVE  FailuresAreActedOn'
<1>1. PICK state \in {"connected", "failed", "disconnected", "checking"}, late \in BOOLEAN :
        /\ HandleIceState(e, state, late)
        /\ \/ NewIceState(e, state) /\ state # "checking" /\ ice[e] # "new"
           \/ state = "checking" /\ UNCHANGED ice
  BY DEF LinkMoves, LinkIsUp, LinkFails, LinkIsInterrupted, CheckingTimesOut
<1>2. UNCHANGED signaling
  BY LinkRelay
<1>3. /\ tasks \in [End -> SUBSET Descriptions(offers)]
      /\ ice \in [End -> {"new", "checking", "connected", "disconnected", "failed"}]
      /\ relayActive \in [End -> BOOLEAN]
  BY RelayTypes DEF RelayInv, LinkTypes
<1>4. /\ \A d \in End \ {e} : ice'[d] = ice[d] /\ relayActive'[d] = relayActive[d]
      /\ \A d \in End : tasks[d] \subseteq tasks'[d]
  BY <1>1, <1>3 DEF HandleIceState, NewIceState, Established, RestartIce, SwitchToRelay
<1>5. ASSUME NEW d \in End, d # e
      PROVE  ActsOnFailure(d)'
  BY <1>2, <1>4, <1>5, UndisturbedEnd DEF FailuresAreActedOn
<1>6. ActsOnFailure(e)'
  <2>1. signaling'[e] = "none" => ice'[e] = "new"
    BY <1>1, <1>2 DEF FailuresAreActedOn, ActsOnFailure
  <2>2. CASE RestartIce(e)
    <3>1. Task("Offer", offers + 1) \in tasks'[e] /\ Task("Offer", offers + 1).type = "Offer"
      BY <1>3, <2>2 DEF RestartIce, Task
    <3>2. QED
      BY <2>1, <3>1 DEF ActsOnFailure, RestartIsUnderWay
  <2>3. CASE SwitchToRelay(e)
    <3>1. relayActive'[e]
      BY <1>3, <2>3 DEF SwitchToRelay
    <3>2. QED
      BY <2>1, <3>1 DEF ActsOnFailure
  <2>4. CASE ~RestartIce(e) /\ ~SwitchToRelay(e)
    <3>1. Decide(state, late) # "switch_to_relay"
      BY <1>1, <2>4 DEF HandleIceState, Decide
    <3>2. state # "failed"
      BY <3>1 DEF Decide
    <3>3. CASE NewIceState(e, state)
      <4>1. ice'[e] # "failed"
        BY <1>3, <3>2, <3>3 DEF NewIceState
      <4>2. QED
        BY <2>1, <4>1 DEF ActsOnFailure
    <3>4. CASE state = "checking" /\ UNCHANGED ice
      <4>1. UNCHANGED relayActive
        BY <1>1, <2>4, <3>1, <3>4 DEF HandleIceState
      <4>2. QED
        BY <1>2, <1>4, <3>4, <4>1, UndisturbedEnd DEF FailuresAreActedOn
    <3>5. QED
      BY <1>1, <3>3, <3>4
  <2>5. QED
    BY <2>2, <2>3, <2>4
<1>7. QED
  BY <1>5, <1>6 DEF FailuresAreActedOn

LEMMA FailureStep ==
  ASSUME RelayInv, FailuresAreActedOn, [SessionNext]_sessionVars
  PROVE  FailuresAreActedOn'
<1>1. CASE StartOffer
  BY <1>1, StartActs
<1>2. CASE SignalIsLost \/ UNCHANGED sessionVars
  <2>1. UNCHANGED <<signaling, ice, relayActive, tasks>>
    BY <1>2 DEF SignalIsLost, sessionVars, linkVars
  <2>2. QED
    BY <2>1, UndisturbedEnd DEF FailuresAreActedOn
<1>3. ASSUME NEW e \in End, OfferIsMade(e)
      PROVE  FailuresAreActedOn'
  BY <1>3, OfferActs
<1>4. ASSUME NEW e \in End, AnswerIsMade(e)
      PROVE  FailuresAreActedOn'
  BY <1>4, AnswerActs
<1>5. ASSUME NEW e \in End, HandleSignal(e)
      PROVE  FailuresAreActedOn'
  BY <1>5, SignalActs
<1>6. ASSUME NEW e \in End, LinkMoves(e)
      PROVE  FailuresAreActedOn'
  BY <1>6, LinkActs
<1>7. QED
  BY <1>1, <1>2, <1>3, <1>4, <1>5, <1>6 DEF SessionNext, LinkMoves

\* A window whose link has failed says relay, or is negotiating a restart, its own or the
\* other's, also when signals were lost and offers given up.
THEOREM FailuresAreAnswered == PeerSpec => []FailuresAreActedOn
<1>1. SessionInit => FailuresAreActedOn
  BY DEF SessionInit, FailuresAreActedOn, ActsOnFailure
<1>2. RelayInv /\ FailuresAreActedOn /\ [SessionNext]_sessionVars => FailuresAreActedOn'
  BY FailureStep
<1>3. QED
  BY <1>1, <1>2, RelayInvariant, PTL DEF PeerSpec

\* With nothing under way, nothing lost and no offer given up by the joiner, no window is
\* left with a failed link and without the relay: there is no dead end before the end of
\* an outage.
THEOREM OutagesHaveNoDeadEnd == PeerSpec => []OutageIsNotTheEnd
<1>1. ASSUME NegotiationInv, FailuresAreActedOn
      PROVE  OutageIsNotTheEnd
  <2>1. SUFFICES ASSUME toJoiner = <<>>, toOwner = {}, \A d \in End : tasks[d] = {},
                        lost = 0, ~replaced,
                        NEW e \in End, ice[e] = "failed"
                 PROVE  relayActive[e]
    BY DEF OutageIsNotTheEnd
  <2>2. "owner" \in End /\ "joiner" \in End /\ tasks["owner"] = {} /\ tasks["joiner"] = {}
        /\ Len(toJoiner) = 0 /\ 1..Len(toJoiner) = {}
    BY <2>1, Ends
  <2>3. ~Doomed /\ ~OwnerWaits /\ ~JoinerAnswers /\ \A p : ~JoinerOffers(p)
    BY <2>1, <2>2 DEF Doomed, OwnerWaits, JoinerAnswers, JoinerOffers, OfferFirst, LastOffer,
                      AnswerFirst
  <2>4. OnTheWay
    BY <1>1, <2>1, <2>3 DEF NegotiationInv, OnTheWayToAgree
  <2>5. signaling["joiner"] \in {"none", "stable"}
    <3>1. signaling["joiner"] \in {"none", "stable", "have-local-offer", "have-remote-offer"}
      BY <1>1, <2>2, RelayTypes DEF NegotiationInv
    <3>2. QED
      BY <2>3, <2>4, <3>1 DEF OnTheWay
  <2>6. signaling["owner"] = signaling["joiner"]
    BY <2>1, <2>2, <2>3, <2>4, <2>5 DEF OnTheWay, JoinerHasNone, JoinerIsStable, OwnerRests
  <2>7. ~RestartIsUnderWay(e)
    BY <2>1, <2>5, <2>6, Ends DEF RestartIsUnderWay, End
  <2>8. QED
    BY <1>1, <2>1, <2>7 DEF FailuresAreActedOn, ActsOnFailure
<1>2. QED
  BY <1>1, NegotiationInvariant, FailuresAreAnswered, PTL

=============================================================================
