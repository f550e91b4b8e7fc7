------------------------------ MODULE PeerSession ------------------------------
(***************************************************************************)
(* The media session between the owner's window and a joiner's: the offer  *)
(* and answer of webrtcSession.ts, the policy of relayFallback.ts, and     *)
(* handleIceState of App.tsx, at both ends.                                *)
(*                                                                         *)
(* A handler is suspended while the browser makes a description; other     *)
(* handlers of the session run meanwhile, for signals are handled without  *)
(* waiting for one another.  What the owner sends comes in order, through  *)
(* the event log.  What the joiner sends is a request of its own each      *)
(* time: it may be overtaken, or fail.                                     *)
(*                                                                         *)
(* The peer connection is external: a description that does not fit its    *)
(* signalling state is refused, an offer that meets a local one takes its  *)
(* place, a new agreement starts the connectivity checks anew, and they    *)
(* can only succeed between two ends that agreed on the same offer.        *)
(* Candidates, tracks and the closing of sessions are left out.            *)
(***************************************************************************)
EXTENDS Naturals, Sequences

CONSTANTS
  MaxOffers,       \* bound on the offers made
  MaxLost,         \* bound on the signals lost
  MaxDisconnects   \* bound on the interruptions of a working link

ASSUME SessionAssumption == MaxOffers \in Nat /\ MaxLost \in Nat /\ MaxDisconnects \in Nat

VARIABLES
  signaling,    \* signalingState of the peer connection, "none" before there is one
  pending,      \* the offer under negotiation at this end, 0 for none
  agreed,       \* the offer this end has concluded a negotiation of
  tasks,        \* suspended handlers
  toJoiner,     \* signals in the event log the joiner has not handled
  toOwner,      \* requests of the joiner under way
  ice,          \* iceConnectionState
  checkingTimer,
  retried,      \* relayRetriedPeersRef has the peer
  relayActive,  \* relayActivePeersRef has the peer
  networkPath,
  offers, lost, disconnects,
  replaced      \* history: the joiner gave up an offer of its own before its answer came

sessionVars == <<signaling, pending, agreed, tasks, toJoiner, toOwner, ice, checkingTimer,
                 retried, relayActive, networkPath, offers, lost, disconnects, replaced>>
negotiationVars == <<signaling, pending, agreed, toJoiner, toOwner>>
linkVars == <<ice, checkingTimer, retried, relayActive, networkPath, disconnects>>

End == {"owner", "joiner"}
Other(e) == CHOOSE x \in End : x # e

Signal(type, o) == [type |-> type, offer |-> o]
Task(type, o) == [type |-> type, offer |-> o]

-----------------------------------------------------------------------------
(* Negotiation.                                                            *)

\* sendLocalDescription.
SendSignal(e, s) ==
  \/ e = "owner" /\ toJoiner' = Append(toJoiner, s) /\ UNCHANGED toOwner
  \/ e = "joiner" /\ toOwner' = toOwner \cup {s} /\ UNCHANGED toJoiner

\* Another description is about to take the place of a local offer.
GivesUpItsOffer(e) ==
  replaced' = (replaced \/ (e = "joiner" /\ signaling[e] = "have-local-offer"))

\* startOffer, called for MemberJoined.
StartOffer ==
  /\ signaling["owner"] = "none"
  /\ signaling' = [signaling EXCEPT !["owner"] = "stable"]
  /\ offers' = 1
  /\ tasks' = [tasks EXCEPT !["owner"] = @ \cup {Task("Offer", 1)}]
  /\ UNCHANGED <<pending, agreed, toJoiner, toOwner, linkVars, lost, replaced>>

\* The offer is made and becomes the local description, unless an offer of the
\* peer came in between.
OfferIsMade(e) ==
  /\ \E t \in tasks[e] :
       /\ t.type = "Offer"
       /\ tasks' = [tasks EXCEPT ![e] = @ \ {t}]
       /\ \/ /\ signaling[e] \in {"stable", "have-local-offer"}
             /\ signaling' = [signaling EXCEPT ![e] = "have-local-offer"]
             /\ pending' = [pending EXCEPT ![e] = t.offer]
             /\ SendSignal(e, Signal("Offer", t.offer))
             /\ GivesUpItsOffer(e)
          \/ /\ signaling[e] = "have-remote-offer"
             /\ UNCHANGED <<signaling, pending, toJoiner, toOwner, replaced>>
  /\ UNCHANGED <<agreed, linkVars, offers, lost>>

\* oniceconnectionstatechange, the timer.
NewIceState(e, state) ==
  /\ ice' = [ice EXCEPT ![e] = state]
  /\ checkingTimer' = [checkingTimer EXCEPT ![e] = (state = "checking")]

\* The connection starts its checks over a new agreement; it reports nothing when
\* it is checking already.
Conclude(e, o) ==
  /\ signaling' = [signaling EXCEPT ![e] = "stable"]
  /\ pending' = [pending EXCEPT ![e] = 0]
  /\ agreed' = [agreed EXCEPT ![e] = o]
  /\ IF ice[e] = "checking" THEN UNCHANGED <<ice, checkingTimer>> ELSE NewIceState(e, "checking")
  /\ UNCHANGED <<retried, relayActive, networkPath, disconnects>>

\* The answer is made and becomes the local description.
AnswerIsMade(e) ==
  /\ \E t \in tasks[e] :
       /\ t.type = "Answer"
       /\ tasks' = [tasks EXCEPT ![e] = @ \ {t}]
       /\ \/ /\ signaling[e] = "have-remote-offer" /\ pending[e] = t.offer
             /\ Conclude(e, t.offer)
             /\ SendSignal(e, Signal("Answer", t.offer))
          \/ /\ ~(signaling[e] = "have-remote-offer" /\ pending[e] = t.offer)
             /\ UNCHANGED <<negotiationVars, linkVars>>
  /\ UNCHANGED <<offers, lost, replaced>>

\* handleSignal, an offer.  The first one makes the joiner's session.
HandleOffer(e, s) ==
  /\ s.type = "Offer"
  /\ signaling' = [signaling EXCEPT ![e] = "have-remote-offer"]
  /\ pending' = [pending EXCEPT ![e] = s.offer]
  /\ tasks' = [tasks EXCEPT ![e] = @ \cup {Task("Answer", s.offer)}]
  /\ GivesUpItsOffer(e)
  /\ UNCHANGED <<agreed, linkVars>>

\* A slip SettledEndsAgree would show: whatever is pending counts as answered.
HandleAnswer_Any(e, s) ==
  /\ s.type = "Answer"
  /\ \/ signaling[e] # "stable" /\ Conclude(e, pending[e])
     \/ signaling[e] = "stable" /\ UNCHANGED <<signaling, pending, agreed, linkVars>>
  /\ UNCHANGED <<tasks, replaced>>

\* handleSignal, an answer: refused unless it is to the local offer.
HandleAnswer(e, s) ==
  /\ s.type = "Answer"
  /\ \/ signaling[e] = "have-local-offer" /\ pending[e] = s.offer /\ Conclude(e, s.offer)
     \/ ~(signaling[e] = "have-local-offer" /\ pending[e] = s.offer)
        /\ UNCHANGED <<signaling, pending, agreed, linkVars>>
  /\ UNCHANGED <<tasks, replaced>>

HandleSignal(e) ==
  /\ \/ /\ e = "joiner"
        /\ toJoiner # <<>>
        /\ HandleOffer(e, Head(toJoiner)) \/ HandleAnswer(e, Head(toJoiner))
        /\ toJoiner' = Tail(toJoiner)
        /\ UNCHANGED toOwner
     \/ /\ e = "owner"
        /\ \E s \in toOwner :
             /\ HandleOffer(e, s) \/ HandleAnswer(e, s)
             /\ toOwner' = toOwner \ {s}
        /\ UNCHANGED toJoiner
  /\ UNCHANGED <<offers, lost>>

\* A request of the joiner fails; nothing is sent again.
SignalIsLost ==
  /\ lost < MaxLost
  /\ lost' = lost + 1
  /\ \E s \in toOwner : toOwner' = toOwner \ {s}
  /\ UNCHANGED <<signaling, pending, agreed, tasks, toJoiner, linkVars, offers, replaced>>

-----------------------------------------------------------------------------
(* The link.                                                               *)

\* RelayFallbackPolicy.decide; late is checkingElapsedMs >= checkingTimeoutMs.
Decide(state, late) ==
  CASE state = "failed" -> "switch_to_relay"
    [] state = "checking" /\ late -> "switch_to_relay"
    [] OTHER -> "stay_p2p"

\* A slip RelayIsTheLastResort would show: a link that is up clears half of the state.
Established_KeepsRelay(e) ==
  /\ retried' = [retried EXCEPT ![e] = FALSE]
  /\ UNCHANGED <<relayActive, networkPath, tasks, offers>>

\* "A (re)established link clears any relay state for this peer", refreshNetworkPath.
Established(e) ==
  /\ retried' = [retried EXCEPT ![e] = FALSE]
  /\ relayActive' = [relayActive EXCEPT ![e] = FALSE]
  /\ networkPath' = [networkPath EXCEPT ![e] = IF relayActive[e] THEN "p2p" ELSE @]
  /\ UNCHANGED <<tasks, offers>>

\* restartIce, once.
RestartIce(e) ==
  /\ ~retried[e]
  /\ offers < MaxOffers
  /\ retried' = [retried EXCEPT ![e] = TRUE]
  /\ offers' = offers + 1
  /\ tasks' = [tasks EXCEPT ![e] = @ \cup {Task("Offer", offers + 1)}]
  /\ UNCHANGED <<relayActive, networkPath>>

\* A slip OutageEnds would show: the restart is the end of it.
SwitchToRelay_Silently(e) ==
  /\ retried[e]
  /\ UNCHANGED <<retried, relayActive, networkPath, tasks, offers>>

SwitchToRelay(e) ==
  /\ retried[e]
  /\ relayActive' = [relayActive EXCEPT ![e] = TRUE]
  /\ networkPath' = [networkPath EXCEPT ![e] = "relay"]
  /\ UNCHANGED <<retried, tasks, offers>>

HandleIceState(e, state, late) ==
  \/ state = "connected" /\ Established(e)
  \/ /\ state # "connected" /\ Decide(state, late) = "stay_p2p"
     /\ UNCHANGED <<retried, relayActive, networkPath, tasks, offers>>
  \/ Decide(state, late) = "switch_to_relay" /\ (RestartIce(e) \/ SwitchToRelay(e))

\* The connectivity checks succeed or fail, an interrupted link comes back or not.
LinkIsUp(e) ==
  /\ ice[e] \in {"checking", "disconnected"}
  /\ agreed[e] = agreed[Other(e)]
  /\ NewIceState(e, "connected")
  /\ HandleIceState(e, "connected", FALSE)
  /\ UNCHANGED <<negotiationVars, lost, disconnects, replaced>>

LinkFails(e) ==
  /\ ice[e] \in {"checking", "disconnected"}
  /\ NewIceState(e, "failed")
  /\ HandleIceState(e, "failed", FALSE)
  /\ UNCHANGED <<negotiationVars, lost, disconnects, replaced>>

LinkIsInterrupted(e) ==
  /\ ice[e] = "connected"
  /\ disconnects < MaxDisconnects
  /\ disconnects' = disconnects + 1
  /\ NewIceState(e, "disconnected")
  /\ HandleIceState(e, "disconnected", FALSE)
  /\ UNCHANGED <<negotiationVars, lost, replaced>>

\* checkingTimer fires, once.  By the clock it is compared with it may be early.
CheckingTimesOut(e, late) ==
  /\ checkingTimer[e]
  /\ checkingTimer' = [checkingTimer EXCEPT ![e] = FALSE]
  /\ HandleIceState(e, "checking", late)
  /\ UNCHANGED <<negotiationVars, ice, lost, disconnects, replaced>>

SessionInit ==
  /\ signaling = [e \in End |-> "none"]
  /\ pending = [e \in End |-> 0] /\ agreed = [e \in End |-> 0]
  /\ tasks = [e \in End |-> {}]
  /\ toJoiner = <<>> /\ toOwner = {}
  /\ ice = [e \in End |-> "new"]
  /\ checkingTimer = [e \in End |-> FALSE]
  /\ retried = [e \in End |-> FALSE] /\ relayActive = [e \in End |-> FALSE]
  /\ networkPath = [e \in End |-> "p2p"]
  /\ offers = 0 /\ lost = 0 /\ disconnects = 0 /\ replaced = FALSE

SessionNext ==
  \/ StartOffer
  \/ SignalIsLost
  \/ \E e \in End : OfferIsMade(e)
  \/ \E e \in End : AnswerIsMade(e)
  \/ \E e \in End : HandleSignal(e)
  \/ \E e \in End : LinkIsUp(e)
  \/ \E e \in End : LinkFails(e)
  \/ \E e \in End : LinkIsInterrupted(e)
  \/ \E e \in End, late \in BOOLEAN : CheckingTimesOut(e, late)

\* Promises are resolved, signals arrive, the checks come to an end.
SessionFairness ==
  \A e \in End :
    /\ WF_sessionVars(OfferIsMade(e))
    /\ WF_sessionVars(AnswerIsMade(e))
    /\ WF_sessionVars(HandleSignal(e))
    /\ WF_sessionVars(LinkIsUp(e) \/ LinkFails(e))

PeerSpec == SessionInit /\ [][SessionNext]_sessionVars /\ SessionFairness

-----------------------------------------------------------------------------
(* What the two windows may rely on.                                       *)

\* A window says relay only after a restart of the connectivity checks did not help
\* and only as long as no link has come up since: a link that is up takes the notice,
\* the flag and the restart back at once.  Every branch of handleIceState, the timer
\* and the reports of both ends take part.
RelayIsTheLastResort ==
  \A e \in End :
    /\ relayActive[e] <=> networkPath[e] = "relay"
    /\ relayActive[e] => retried[e] /\ ice[e] # "connected"
    /\ retried[e] => offers > 1

\* When nothing is under way and no signal was lost, the two ends are stable and have
\* concluded on the same offer, whatever was overtaken and whoever restarted, unless
\* the joiner gave up an offer that was out, for one of the owner's or a second one of
\* its own: each end may then answer another offer (no end yields: createWebRtcSession
\* has no polite side).
SettledEndsAgree ==
  /\ toJoiner = <<>> /\ toOwner = {} /\ \A e \in End : tasks[e] = {}
  /\ lost = 0 /\ ~replaced
  => /\ agreed["owner"] = agreed["joiner"]
     /\ signaling["owner"] = signaling["joiner"]
     /\ \A e \in End : pending[e] = 0

\* A failed link is restored, or its window comes to say relay: the failure of the
\* restart is reported in its turn, also when the restarts of the two ends meet at the
\* owner.  Only a lost request of the joiner's, or an offer of its it gave up, leaves a
\* window saying p2p over a dead link for good: the restart then never gets its answer,
\* the state of the link does not change again, and the timer watches "checking" only.
OutageEnds ==
  \A e \in End :
    ice[e] = "failed" ~> ice[e] = "connected" \/ relayActive[e] \/ lost > 0 \/ replaced
=============================================================================
