------------------------------- MODULE RoomFeed -------------------------------
(***************************************************************************)
(* What the event channel of a room promises its readers, whatever carries *)
(* it: there is one log, it only grows, and a reader that has entered at   *)
(* some place in it is handed the entries addressed to it one at a time,   *)
(* in order, none twice and none left out, until it quits.                 *)
(***************************************************************************)
EXTENDS Naturals, Sequences

CONSTANTS
  Reader,
  Everyone,   \* the target of an entry for all readers
  Absent      \* the position of a reader that is not reading

VARIABLES
  log,        \* entries with a field `target`
  position    \* how far each reader has read

feedVars == <<log, position>>

Addressed(entry, r) == entry.target \in {Everyone, r}

\* i is the first entry after n that r may see.
NextFor(r, n, i) ==
  /\ i \in (n + 1)..Len(log)
  /\ Addressed(log[i], r)
  /\ \A j \in (n + 1)..Len(log) : j < i => ~Addressed(log[j], r)

FeedInit ==
  /\ position = [r \in Reader |-> Absent]
  /\ Len(log) \in Nat

Publish ==
  /\ Len(log) <= Len(log')
  /\ \A i \in 1..Len(log) : log'[i] = log[i]
  /\ UNCHANGED position

Enter(r) ==
  /\ position[r] = Absent
  /\ \E n \in 0..Len(log) : position' = [position EXCEPT ![r] = n]
  /\ UNCHANGED log

Read(r) ==
  /\ position[r] # Absent
  /\ \E i \in 1..Len(log) :
       /\ NextFor(r, position[r], i)
       /\ position' = [position EXCEPT ![r] = i]
  /\ UNCHANGED log

Quit(r) ==
  /\ position[r] # Absent
  /\ position' = [position EXCEPT ![r] = Absent]
  /\ UNCHANGED log

FeedNext == Publish \/ \E r \in Reader : Enter(r) \/ Read(r) \/ Quit(r)

FeedSpec == FeedInit /\ [][FeedNext]_feedVars

=============================================================================
