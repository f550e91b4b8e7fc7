------------------------------ MODULE InviteCode ------------------------------
(***************************************************************************)
(* The invite code of invite_code.rs: 80 bits as 16 characters of Crockford's *)
(* base 32.  The bits are a version, where and how to join, the address and  *)
(* port, the five-minute slot in which the code expires, and a checksum.     *)
(*                                                                           *)
(* Bit strings are sequences of 0 and 1 with the highest bit first, texts are *)
(* sequences of characters.  A conversion that can fail returns a record with *)
(* the field ok; it has the field value or the field error.                  *)
(***************************************************************************)
EXTENDS Integers, Sequences, SequencesExt

Version == 1
CodeLength == 16
SlotCycle == 1024

Alphabet == <<"0", "1", "2", "3", "4", "5", "6", "7", "8", "9", "A", "B", "C", "D", "E", "F",
              "G", "H", "J", "K", "M", "N", "P", "Q", "R", "S", "T", "V", "W", "X", "Y", "Z">>
EndpointScope == <<"private-lan-ipv4", "public-mapped-ipv4", "public-direct-ipv4">>
JoinMode == <<"direct-host", "host-relay-preferred">>

Success(value) == [ok |-> TRUE, value |-> value]
Failure(error) == [ok |-> FALSE, error |-> error]

\* The w bits of v, and the number of a bit string.
Bits(v, w) == [i \in 1..w |-> (v \div 2^(w - i)) % 2]
Number(bits) ==
  LET upTo[i \in 0..Len(bits)] == IF i = 0 THEN 0 ELSE 2 * upTo[i - 1] + bits[i]
  IN  upTo[Len(bits)]
Slice(bits, w, k) == SubSeq(bits, (k - 1) * w + 1, k * w)
Position(s, x) == (CHOOSE i \in DOMAIN s : s[i] = x) - 1

-----------------------------------------------------------------------------
\* The round of FNV-1a for one byte, on the 14 low bits that are kept: a carry
\* only moves upwards, so the bits above them never matter.
HashByte(hash, byte) ==
  LET low   == Bits(hash % 256, 8)
      mixed == 256 * (hash \div 256) + Number([i \in 1..8 |-> (low[i] + byte[i]) % 2])
  IN  (mixed * 403) % 2^14

\* Slip: the header is hashed as a u32, which drops its upper half.
ComputeChecksum_Lower(header) ==
  LET hash[k \in 0..4] == IF k = 0 THEN 7621
                           ELSE HashByte(hash[k - 1], Slice(SubSeq(header, 35, 66), 8, k))
  IN  hash[4]

\* The checksum of the 66 bits before it, hashed as the 16 bytes of a u128.
ComputeChecksum(header) ==
  LET padded == [i \in 1..62 |-> 0] \o header
      hash[k \in 0..16] == IF k = 0 THEN 7621
                            ELSE HashByte(hash[k - 1], Slice(padded, 8, k))
  IN  hash[16]

Header(payload) ==
  Bits(Version, 4) \o Bits(Position(EndpointScope, payload.endpointScope), 2)
    \o Bits(Position(JoinMode, payload.joinMode), 2)
    \o Bits(payload.ipv4[1], 8) \o Bits(payload.ipv4[2], 8)
    \o Bits(payload.ipv4[3], 8) \o Bits(payload.ipv4[4], 8)
    \o Bits(payload.port, 16) \o Bits(payload.expirySlot, 10)

EncodeBits(bits) == [k \in 1..CodeLength |-> Alphabet[Number(Slice(bits, 5, k)) + 1]]

EncodeInviteCode(payload) ==
  IF payload.expirySlot > 1023
  THEN Failure("InvalidFieldValue")
  ELSE Success(EncodeBits(Header(payload) \o Bits(ComputeChecksum(Header(payload)), 14)))

-----------------------------------------------------------------------------
LowerCase == <<"a", "b", "c", "d", "e", "f", "g", "h", "i", "j", "k", "l", "m",
               "n", "o", "p", "q", "r", "s", "t", "u", "v", "w", "x", "y", "z">>
UpperCase == <<"A", "B", "C", "D", "E", "F", "G", "H", "I", "J", "K", "L", "M",
               "N", "O", "P", "Q", "R", "S", "T", "U", "V", "W", "X", "Y", "Z">>

ToUpper(ch) == IF ch \in Range(LowerCase) THEN UpperCase[Position(LowerCase, ch) + 1] ELSE ch

\* A character as it is meant: in upper case, look-alikes read as digits.
NormalizeCharacter(ch) ==
  CASE ToUpper(ch) = "O"          -> "0"
    [] ToUpper(ch) \in {"I", "L"} -> "1"
    [] OTHER                      -> ToUpper(ch)

\* Separators and white space are dropped; a character outside the alphabet is
\* reported before a wrong length.
NormalizeCode(text) ==
  LET meant == [i \in DOMAIN SelectSeq(text, LAMBDA ch : ch \notin {" ", "-"}) |->
                 NormalizeCharacter(SelectSeq(text, LAMBDA ch : ch \notin {" ", "-"})[i])]
  IN  CASE \E i \in DOMAIN meant : meant[i] \notin Range(Alphabet) -> Failure("InvalidCharacter")
        [] Len(meant) # CodeLength -> Failure("InvalidLength")
        [] OTHER -> Success(meant)

\* The code as it is shown, in four groups.
FormatInviteCode(text) ==
  LET code == NormalizeCode(text)
  IN  IF ~code.ok THEN code
      ELSE Success(Slice(code.value, 4, 1) \o <<"-">> \o Slice(code.value, 4, 2) \o <<"-">>
                     \o Slice(code.value, 4, 3) \o <<"-">> \o Slice(code.value, 4, 4))

DecodeBits(code) == FlattenSeq([k \in DOMAIN code |-> Bits(Position(Alphabet, code[k]), 5)])

\* buildInviteEndpoint of App.tsx: an invite is made for the next twelve slots, an hour.
ExpirySlot(slot) == (slot + 12) % SlotCycle

\* Slip: the slots are compared as if they did not start again from zero.
IsExpired_Unwrapped(expirySlot, currentSlot) ==
  currentSlot > expirySlot

\* Slots are counted modulo 1024, so of two slots the later one is that which the
\* other reaches within half a cycle.
IsExpired(expirySlot, currentSlot) ==
  (currentSlot - expirySlot) % SlotCycle \in 1..511

\* The payload in the bits of a header, if all of its fields have a meaning.
ReadPayload(header) ==
  LET scope == Number(SubSeq(header, 5, 6))
      mode  == Number(SubSeq(header, 7, 8))
  IN  IF mode > 1 \/ scope > 2
      THEN Failure("InvalidChecksum")
      ELSE Success([endpointScope |-> EndpointScope[scope + 1], joinMode |-> JoinMode[mode + 1],
                    ipv4 |-> [k \in 1..4 |-> Number(Slice(SubSeq(header, 9, 40), 8, k))],
                    port |-> Number(SubSeq(header, 41, 56)),
                    expirySlot |-> Number(SubSeq(header, 57, 66))])

DecodeInviteCode(text, currentSlot) ==
  LET code == NormalizeCode(text)
  IN  IF ~code.ok THEN code
      ELSE LET bits   == DecodeBits(code.value)
               header == SubSeq(bits, 1, 66)
           IN  CASE Number(SubSeq(bits, 1, 4)) # Version -> Failure("UnsupportedVersion")
                 [] Number(SubSeq(bits, 67, 80)) # ComputeChecksum(header) ->
                      Failure("InvalidChecksum")
                 [] IsExpired(Number(SubSeq(header, 57, 66)), currentSlot) ->
                      Failure("ExpiredInviteCode")
                 [] OTHER -> ReadPayload(header)
=============================================================================
