--------------------------- MODULE FlashController ---------------------------
(***************************************************************************)
(* driver/flash-controller.c and the flash array it drives.                *)
(*                                                                         *)
(* Lengths, offsets and addresses count cells, and addresses are offsets   *)
(* from FLASH_BASE.  An operation of the C code that loops over pages or   *)
(* words is one action per page or cell here, because power can fail       *)
(* between any two of them.                                                *)
(***************************************************************************)
EXTENDS Cells

CONSTANTS
  PageCells,   \* FLASH_PAGE_SIZE
  FlashPages   \* pages up to FLASH_LAST_ADDRESS

ASSUME FlashAssumption ==
  /\ CellMax    \in Nat \ {0}
  /\ PageCells  \in Nat \ {0}
  /\ FlashPages \in Nat \ {0}

VARIABLES
  flash,       \* contents of the flash array
  cursor       \* loop variable of the flash operation that is running

FlashEnd == FlashPages * PageCells
Addr     == 0 .. FlashEnd - 1

PageOf(p) == p * PageCells .. (p + 1) * PageCells - 1

(* The hardware under flash_erase_page: every cell of the page is set.     *)
ErasePage(f, p) == [a \in Addr |-> IF a \in PageOf(p) THEN Erased ELSE f[a]]

(* The hardware under flash_program_word: a half word that is not erased   *)
(* keeps its value (the controller raises PGERR, which nothing reads)      *)
(* unless it is programmed to zero.                                        *)
ProgramCell(f, a, v) ==
  IF f[a] = Erased \/ v = 0 THEN [f EXCEPT ![a] = v] ELSE f

(* Mutant: the page below is erased.                                       *)
EraseNextPageBelow ==
  /\ flash'  = ErasePage(flash, cursor - 1)
  /\ cursor' = cursor + 1

(* One iteration of flash_erase_section.                                   *)
EraseNextPage ==
  /\ flash'  = ErasePage(flash, cursor)
  /\ cursor' = cursor + 1

(* The cells flash_write programs for `size` cells of data: whole words,   *)
(* the last one padded when size is odd.                                   *)
CellsToProgram(size) == 2 * ((size + 1) \div 2)

(* flash_write's source: data, then the zero padding of the last word.     *)
SourceCell(data, size, i) == IF i < size THEN data[i] ELSE 0

(* Half an iteration of the loop of flash_write, or of its last word.      *)
ProgramNextCell(base, data, size) ==
  /\ flash'  = ProgramCell(flash, base + cursor, SourceCell(data, size, cursor))
  /\ cursor' = cursor + 1

FlashTypeOK ==
  /\ flash  \in [Addr -> Cell]
  /\ cursor \in Nat
==============================================================================
