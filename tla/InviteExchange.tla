---------------------------- MODULE InviteExchange ----------------------------
(***************************************************************************)
(* An invite code on its way from the owner's window to a joiner's field:    *)
(* buildInviteEndpoint of App.tsx, CodeInput.tsx, and the first two calls of *)
(* resolveJoinRoom in joinRoom.ts.  The person at the field may copy the     *)
(* code with one wrong character, in other spelling, or long after it was    *)
(* made, and may have a clock that differs from the owner's.                 *)
(***************************************************************************)
EXTENDS InviteCode

CONSTANTS
  Endpoint,   \* what the owner may put into an invite, without the expiry
  StartSlot,  \* slots in which the invite may be made
  Moment      \* the times the field is used, in slots since the invite was made

ASSUME ExchangeAssumption ==
  /\ StartSlot \subseteq 0..(SlotCycle - 1)
  /\ Moment \subseteq Int

VARIABLES
  payload,  \* what the invite of the owner says
  made,     \* the owner's slot when it was made
  moment,   \* slots since then, on the joiner's clock
  field,    \* the characters in the joiner's field
  answer    \* what the field was resolved to, if it was

exchangeVars == <<payload, made, moment, field, answer>>

NotAsked == Failure("NotAsked")

-----------------------------------------------------------------------------
\* normalizeInviteCode, applied to what is typed or pasted, cut to 16 characters.
InField(text) ==
  LET kept == SelectSeq(text, LAMBDA ch : ToUpper(ch) \in Range(UpperCase) \cup Range(Alphabet))
      all  == [i \in DOMAIN kept |-> ToUpper(kept[i])]
  IN  SubSeq(all, 1, IF Len(all) < CodeLength THEN Len(all) ELSE CodeLength)

CurrentSlot == (made + moment) % SlotCycle

\* What the owner's window shows.
Invite == FormatInviteCode(EncodeInviteCode(payload).value).value

\* The same code, as people also write it.
Spellings(code) ==
  {code, SelectSeq(code, LAMBDA ch : ch # "-"),
   [i \in DOMAIN code |-> CASE code[i] = "0" -> "o" [] code[i] = "1" -> "L" [] OTHER -> code[i]],
   [i \in DOMAIN code |-> IF code[i] \in Range(UpperCase)
                          THEN LowerCase[Position(UpperCase, code[i]) + 1] ELSE code[i]]}

\* The code with a character left out, with another one in its place, or with two
\* neighbours swapped.
Miscopies(code) ==
  {RemoveAt(code, i) : i \in DOMAIN code}
    \cup {[code EXCEPT ![i] = code[i + 1], ![i + 1] = code[i]] : i \in 1..(Len(code) - 1)}
    \cup {[code EXCEPT ![i] = ch] : i \in DOMAIN code, ch \in Range(Alphabet) \cup {"U"}}

\* Those in which a hyphen was taken for a character: all that follows it moves by
\* one place in the field, and the last character is cut off.
HyphensMisread(code) ==
  {[code EXCEPT ![i] = ch] : i \in {k \in DOMAIN code : code[k] = "-"}, ch \in Range(Alphabet)}

-----------------------------------------------------------------------------
\* What the field was resolved to before plays no part in what follows, so the
\* field is filled once.
Enter ==
  /\ field = <<>>
  /\ LET code == Invite
     IN  \E text \in Spellings(code) \cup Miscopies(code) : field' = InField(text)
  /\ UNCHANGED <<payload, made, moment, answer>>

\* onComplete and the decoding of the code, which is brought into its shown form first.
Resolve ==
  /\ Len(field) = CodeLength
  /\ LET shown == FormatInviteCode(field)
     IN  answer' = IF shown.ok THEN DecodeInviteCode(shown.value, CurrentSlot) ELSE shown
  /\ UNCHANGED <<payload, made, moment, field>>

Wait ==
  /\ \E later \in Moment : later > moment /\ moment' = later
  /\ answer' = NotAsked
  /\ UNCHANGED <<payload, made, field>>

ExchangeInit ==
  /\ made \in StartSlot
  /\ payload \in {endpoint @@ [expirySlot |-> ExpirySlot(made)] : endpoint \in Endpoint}
  /\ moment \in {m \in Moment : m <= 0}
  /\ field = <<>>
  /\ answer = NotAsked

ExchangeNext == Enter \/ Resolve \/ Wait

ExchangeSpec == ExchangeInit /\ [][ExchangeNext]_exchangeVars

-----------------------------------------------------------------------------

\* A joiner is sent to the endpoint of the invite or nowhere: no other character in
\* place of one of the sixteen and no swap of neighbours makes another valid code.  The
\* only miscopy that can get past the 14 bits of the checksum is one that moves a part
\* of the code (compute_checksum, decode_invite_code, normalizeInviteCode).
MiscopiesAreNoticed ==
  answer.ok /\ answer.value # payload
    => field \in {InField(text) : text \in HyphensMisread(Invite)}

\* However the code is written, it is read as what the owner put in until its hour is
\* over, also on a clock that is behind, and also when the slots wrap around in between;
\* and it is refused for the half cycle of slots that follows (is_expired).
CodesHoldTheirHour ==
  answer # NotAsked /\ moment < 524 /\ field \in {InField(text) : text \in Spellings(Invite)}
    => answer = IF moment > 12 THEN Failure("ExpiredInviteCode") ELSE Success(payload)

\* "The decoder refuses the connection once it has timed out", invite-shortcode.md:67: a
\* code that has expired is refused from then on.  is_expired takes it again half a cycle
\* of slots after its expiry.
ExpiredCodesStayRefused ==
  moment > 12 /\ field \in {InField(text) : text \in Spellings(Invite)} => ~answer.ok
=============================================================================
