----------------------------- MODULE NameCodec -----------------------------
(***************************************************************************)
(* A player's name travels as the number that identifies him               *)
(* (common/utility/hash.h): some bits for each character, the first        *)
(* lowest, and the length above them.  JOIN makes the number of what was   *)
(* typed and AUTHENTICATION FAILED makes a name of the number again.       *)
(*                                                                         *)
(* A character is its index in kCharset; CharsetSize stands for one that   *)
(* is not there.  Shifts and masks are products and remainders of what the *)
(* bits can hold.  An optional is a set with at most one element.          *)
(***************************************************************************)
EXTENDS Naturals, Sequences

CONSTANTS CharsetSize,   \* kCharset.length(): 62
          CharValues,    \* what the bits of a character can hold: 2^6
          LengthValues,  \* what the bits of the length can hold: 2^4
          MinNameLen,    \* kMinLenPlayerName: 4
          MaxPackedLen   \* kMaxPackedLen, which is kMaxLenPlayerName too: 10

ASSUME NameAssumption ==
  /\ CharsetSize \in Nat /\ CharValues \in Nat \ {0} /\ CharsetSize <= CharValues
  /\ MinNameLen \in Nat /\ MaxPackedLen \in Nat /\ MinNameLen <= MaxPackedLen
  /\ LengthValues \in Nat /\ MaxPackedLen < LengthValues

Character == 0 .. CharsetSize

\* What a position above n characters counts: 1 << 6 * n.
Place[n \in 0 .. MaxPackedLen] == IF n = 0 THEN 1 ELSE CharValues * Place[n - 1]
LengthPlace == Place[MaxPackedLen]
Code == 0 .. LengthValues * LengthPlace - 1

Field(code, i) == (code \div Place[i - 1]) % CharValues

\* The loop over the characters: code |= idx << 6 * pos.
Packed(str) ==
  LET upTo[n \in 0 .. Len(str)] == IF n = 0 THEN 0 ELSE upTo[n - 1] + str[n] * Place[n - 1]
  IN upTo[Len(str)]

EncodeString(str) ==
  IF Len(str) <= MaxPackedLen /\ \A i \in DOMAIN str : str[i] < CharsetSize
  THEN {Len(str) * LengthPlace + Packed(str)}
  ELSE {}

\* Slip: what is above the name's characters is not looked at.
DecodeStringSlip(code) ==
  LET len == code \div LengthPlace IN
  IF len <= MaxPackedLen /\ \A i \in 1 .. len : Field(code, i) < CharsetSize
  THEN {[i \in 1 .. len |-> Field(code, i)]}
  ELSE {}

DecodeString(code) ==
  LET len == code \div LengthPlace IN
  IF /\ len <= MaxPackedLen
     /\ \A i \in 1 .. len : Field(code, i) < CharsetSize
     /\ (code % LengthPlace) \div Place[len] = 0
  THEN {[i \in 1 .. len |-> Field(code, i)]}
  ELSE {}

\* What JOIN sends of a name, if it takes the name.
HandleJoin(name) ==
  IF Len(name) \in MinNameLen .. MaxPackedLen THEN EncodeString(name) ELSE {}

============================================================================
