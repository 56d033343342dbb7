-------------------------------- MODULE Cells --------------------------------
(***************************************************************************)
(* The unit of storage and of transfer is a CELL, the half word that the   *)
(* STM32F1 programs in one operation.  A 32-bit word is two cells, low     *)
(* half first.                                                             *)
(***************************************************************************)
EXTENDS Integers

CONSTANT CellMax    \* largest value of a cell, and the value of an erased one

Cell   == 0 .. CellMax
Erased == CellMax

(* Two cells read as one little-endian word (read32_from_le_bytes).        *)
Word(lo, hi) == lo + (CellMax + 1) * hi

(* What an unwritten version or size field reads as.                       *)
ErasedWord == Word(Erased, Erased)

(* struct.pack("<LL", ...) of a number into a word.                        *)
WordCells(n) == << n % (CellMax + 1), n \div (CellMax + 1) >>
==============================================================================
