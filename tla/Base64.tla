-------------------------------- MODULE Base64 --------------------------------
(***************************************************************************)
(* util/base64.c: b64decode, as verify_firmware_signature calls it on the  *)
(* verifying key, one action per group of characters.                      *)
(*                                                                         *)
(* A character carries three digits and a byte four, to the base Digit     *)
(* (four in the code: six and eight bits).                                 *)
(***************************************************************************)
EXTENDS Integers, Sequences, FiniteSets

CONSTANTS
  Digit,           \* 4
  Keys             \* byte strings the key generator may encode

CharValues == Digit * Digit * Digit
ByteValues == CharValues * Digit

ASSUME Base64Assumption ==
  /\ Digit \in Nat \ {0, 1}
  /\ Keys \subseteq Seq(0 .. ByteValues - 1)

(* Characters: the alphabet by its values, and two that are not in it.     *)
PadChar == CharValues         \* '='
NUL     == CharValues + 1     \* the end of VERIFYING_KEY

VARIABLES
  key,             \* what was encoded
  text,            \* p: the string literal, with its NUL
  output, written, \* output[], and the indices stored to (j counts them)
  i, dpc, result

decodeVars == <<key, text, output, written, i, dpc, result>>

(* B64index                                                                *)
B64index(char) == IF char < CharValues THEN char ELSE 0

(* bytes_len                                                               *)
BytesLen(string) ==
  CHOOSE n \in 0 .. Len(string) - 1 :
    string[n + 1] = NUL /\ \A m \in 1 .. n : string[m] # NUL

p(at) == text[at + 1]
length == BytesLen(text)

Pad1 == length % 4 # 0 \/ p(length - 1) = PadChar

(* Mutant: a third character is taken for data whenever there is one.      *)
Pad2Always == Pad1
Pad2 == Pad1 /\ (length % 4 > 2 \/ (length % 4 = 0 /\ p(length - 2) # PadChar))

LastIndex == ((length - (IF Pad1 THEN 1 ELSE 0)) \div 4) * 4

(* The number that a group of characters stands for, and its bytes.        *)
Group(c0, c1, c2, c3) ==
  ((B64index(c0) * CharValues + B64index(c1)) * CharValues + B64index(c2)) * CharValues
    + B64index(c3)
GroupByte(n, k) ==
  (CASE k = 0 -> n \div (ByteValues * ByteValues)
     [] k = 1 -> n \div ByteValues
     [] k = 2 -> n) % ByteValues

-----------------------------------------------------------------------------
(* gen-signing-key.py: b64encode, four characters for a group of three     *)
(* bytes; other encoders leave out the '='.                                *)
KeyByte(bytes, at) == IF at < Len(bytes) THEN bytes[at + 1] ELSE 0

KeyGroup(bytes, g) ==
  (KeyByte(bytes, 3 * g) * ByteValues + KeyByte(bytes, 3 * g + 1)) * ByteValues
    + KeyByte(bytes, 3 * g + 2)

GroupChar(n, k) ==
  (CASE k = 0 -> n \div (CharValues * CharValues * CharValues)
     [] k = 1 -> n \div (CharValues * CharValues)
     [] k = 2 -> n \div CharValues
     [] k = 3 -> n) % CharValues

Encode(bytes, padded) ==
  LET chars == (4 * Len(bytes) + 2) \div 3
      size  == IF padded THEN 4 * ((Len(bytes) + 2) \div 3) ELSE chars
  IN [k \in 1 .. size + 1 |->
        IF k <= chars THEN GroupChar(KeyGroup(bytes, (k - 1) \div 4), (k - 1) % 4)
        ELSE IF k <= size THEN PadChar
        ELSE NUL]

-----------------------------------------------------------------------------
DecodeInit ==
  /\ key = <<>> /\ text = <<NUL>> /\ output = <<>> /\ written = {}
  /\ i = 0 /\ dpc = "idle" /\ result = [ok |-> FALSE, count |-> 0]

(* bytes_len, the early return on an empty string, and m_memset.           *)
DecodeCall(bytes, padded) ==
  /\ dpc = "idle"
  /\ key' = bytes /\ text' = Encode(bytes, padded)
  /\ i' = 0 /\ written' = {}
  /\ output' = [k \in 0 .. Len(bytes) - 1 |-> 0]
  /\ \/ bytes = <<>> /\ dpc' = "returned" /\ result' = [ok |-> FALSE, count |-> 0]
     \/ bytes # <<>> /\ dpc' = "groups" /\ UNCHANGED result

(* output[j++] = ... for the first bytes of a group.  A store outside      *)
(* output[] is kept in `written` only.                                     *)
Store(n, bytes) ==
  LET j == Cardinality(written)
  IN /\ written' = written \cup (j .. j + bytes - 1)
     /\ output' = [k \in DOMAIN output |->
                     IF k \in j .. j + bytes - 1 THEN GroupByte(n, k - j) ELSE output[k]]

DecodeGroup ==
  /\ dpc = "groups" /\ i < LastIndex
  /\ Store(Group(p(i), p(i + 1), p(i + 2), p(i + 3)), 3)
  /\ i' = i + 4
  /\ UNCHANGED <<key, text, dpc, result>>

(* The last one or two bytes; reads no further than the NUL.               *)
DecodeTail ==
  /\ dpc = "groups" /\ i >= LastIndex /\ Pad1
  /\ \/ Pad2  /\ Store(Group(p(LastIndex), p(LastIndex + 1), p(LastIndex + 2), NUL), 2)
     \/ ~Pad2 /\ Store(Group(p(LastIndex), p(LastIndex + 1), NUL, NUL), 1)
  /\ dpc' = "tail"
  /\ UNCHANGED <<key, text, i, result>>

DecodeReturn ==
  /\ dpc = "tail" \/ (dpc = "groups" /\ i >= LastIndex /\ ~Pad1)
  /\ dpc' = "returned"
  /\ result' = [ok |-> TRUE, count |-> Cardinality(written)]
  /\ UNCHANGED <<key, text, output, written, i>>

(* The caller goes on, and may decode another key.                         *)
DecodeDone ==
  /\ dpc = "returned" /\ dpc' = "idle"
  /\ key' = <<>> /\ text' = <<NUL>> /\ output' = <<>> /\ written' = {}
  /\ i' = 0 /\ result' = [ok |-> FALSE, count |-> 0]

DecodeNext ==
  \/ \E bytes \in Keys, padded \in BOOLEAN : DecodeCall(bytes, padded)
  \/ DecodeGroup \/ DecodeTail \/ DecodeReturn \/ DecodeDone

DecodeSpec == DecodeInit /\ [][DecodeNext]_decodeVars

-----------------------------------------------------------------------------
(* Properties.                                                             *)

(* Whatever the length of a key is modulo three, with padding or without   *)
(* it, the decoder gives the key back, counts its bytes, and stores        *)
(* nothing outside the VERIFYING_KEY_LENGTH bytes of output[].             *)
KeyIsDecoded ==
  /\ written \subseteq DOMAIN output
  /\ dpc = "returned" =>
       /\ result.ok <=> key # <<>>
       /\ result.count = Len(key)
       /\ \A k \in DOMAIN output : output[k] = key[k + 1]
==============================================================================
