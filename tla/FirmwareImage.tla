---------------------------- MODULE FirmwareImage ----------------------------
(***************************************************************************)
(* The signed update file (scripts/add-fw-info.py) and the checks the      *)
(* bootloader makes on one: the header it parses (read_firmware_info) and  *)
(* the signature over the body (calculate_firmware_hash followed by        *)
(* verify_firmware_signature).                                             *)
(*                                                                         *)
(* A file is   version | size | signature | body.                          *)
(* SHA-256 and ECDSA are taken as sound: a signature is accepted exactly   *)
(* for the body the signing script made it for.                            *)
(***************************************************************************)
EXTENDS FlashController, Sequences

CONSTANTS
  SigCells,    \* FWINFO_SIGNATURE_LENGTH
  Builds       \* the files `make update` has produced with the signing key

InfoCells == 4 + SigCells      \* FWINFO_SIZE

ASSUME ImageAssumption ==
  /\ SigCells \in Nat \ {0}
  /\ \A b \in Builds :
       /\ b.version \in 0 .. ErasedWord
       /\ b.body \in Seq(Cell) /\ Len(b.body) <= ErasedWord
       /\ b.signature \in [1 .. SigCells -> Cell]

(* The update file that add-fw-info.py writes for a build.                 *)
File(b) ==
  WordCells(b.version) \o WordCells(Len(b.body)) \o b.signature \o b.body

(* What the first InfoCells of that file say.                              *)
Header(b) ==
  [version |-> b.version, size |-> Len(b.body), signature |-> b.signature]

(* read_firmware_info on the memory `mem` at offset `base`.                *)
ReadInfo(mem, base) ==
  [version   |-> Word(mem[base], mem[base + 1]),
   size      |-> Word(mem[base + 2], mem[base + 3]),
   signature |-> [i \in 1 .. SigCells |-> mem[base + 3 + i]]]

FirmwareInfo ==
  [version : 0 .. ErasedWord, size : 0 .. ErasedWord,
   signature : [1 .. SigCells -> Cell]]

(* What can pass the check of the signature, which covers the body alone:  *)
(* the body of a build, under any version.                                 *)
Images ==
  {[version |-> v, body |-> b.body, signature |-> b.signature] :
     v \in 0 .. ErasedWord, b \in Builds}

(* The body of build b lies in `mem` from `base` on.                       *)
BodyAt(mem, base, b) ==
  \A i \in 1 .. Len(b.body) : mem[base + i - 1] = b.body[i]

(* Mutant: the hash does not depend on the data.                           *)
SignatureKnown(mem, base, info) ==
  \E b \in Builds : b.signature = info.signature /\ Len(b.body) = info.size

(* info->signature is a signature of the info->size cells at base.         *)
SignatureValid(mem, base, info) ==
  \E b \in Builds :
    /\ b.signature = info.signature
    /\ Len(b.body) = info.size
    /\ BodyAt(mem, base, b)
==============================================================================
