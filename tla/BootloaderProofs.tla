-------------------------- MODULE BootloaderProofs --------------------------
(***************************************************************************)
(* What the runs of MCBootloader check on small boards, proved for every   *)
(* flash geometry, every set of builds and every link.                     *)
(*                                                                         *)
(* The argument is one inductive invariant, IInv.  Its parts say what the  *)
(* RAM copy is known to be (Buffered), how far an erase (ErasedSoFar) and  *)
(* a write (WrittenSoFar) have come, and how the header in flash relates   *)
(* to the copy main took of it (FloorKept, HeaderUnchanged).               *)
(***************************************************************************)
EXTENDS Bootloader, SequenceTheorems, TLAPS

ErasedFrom == StartPage * PageCells
ErasedEnd  == (EndPage + 1) * PageCells

(* States in which the header in flash may differ from main's copy.        *)
Rewriting == Flashing \cup {"UpdateSuccess", "SwitchToApplication", "Application"}

(* fw_buffer is zero where nothing has been received.                      *)
ZeroTail == \A i \in 0 .. MaxFw - 1 : i >= bytes_written => fw_buffer[i] = 0

LengthAgreed == bl = "ReceiveFW" => fw_length \in InfoCells .. MaxFw

(* A whole header has been received, and nothing beyond the buffer.        *)
Buffered ==
  bl \in {"CheckSignature", "UpdateSuccess"} \cup Flashing =>
    bytes_written \in InfoCells .. MaxFw

(* What check_for_firmware_update established before touching the flash.   *)
UpdateChecked ==
  bl \in {"UpdateSuccess"} \cup Flashing =>
    /\ update_info = ReadInfo(fw_buffer, 0)
    /\ HeaderAccepted(update_info)
    /\ SignatureValid(fw_buffer, InfoCells, update_info)

ErasedSoFar ==
  bl = "UpdateFW" =>
    /\ cursor \in StartPage .. EndPage + 1
    /\ \A a \in ErasedFrom .. cursor * PageCells - 1 : flash[a] = Erased

(* Cell i of the erased pages above the header.                            *)
WrittenSoFar ==
  bl = "WriteFW" =>
    \A i \in 0 .. ErasedEnd - FwInfoStart - 1 :
      flash[FwInfoStart + i] =
        IF i < cursor THEN SourceCell(fw_buffer, bytes_written, i) ELSE Erased

WriteDone ==
  bl = "UpdateSuccess" =>
    \A i \in 0 .. ErasedEnd - FwInfoStart - 1 :
      i < bytes_written => flash[FwInfoStart + i] = fw_buffer[i]

(* The version in flash is at least the one main read.                     *)
FloorKept == Word(flash[FwInfoStart], flash[FwInfoStart + 1]) >= info.version

HeaderUnchanged == bl \notin Rewriting => info = ReadInfo(flash, FwInfoStart)

IInv ==
  /\ TypeOK /\ ZeroTail /\ LengthAgreed /\ Buffered /\ UpdateChecked
  /\ ErasedSoFar /\ WrittenSoFar /\ WriteDone
  /\ FloorKept /\ HeaderUnchanged
-----------------------------------------------------------------------------
(* Words and the layout of the flash.                                      *)

LEMMA ProductMonotone ==
  ASSUME NEW a \in Nat, NEW b \in Nat, NEW c \in Nat, a <= b
  PROVE  a * c <= b * c /\ c * a <= c * b
  BY SMT

LEMMA WordType ==
  ASSUME NEW lo \in Cell, NEW hi \in Cell
  PROVE  Word(lo, hi) \in 0 .. ErasedWord
<1>1. (CellMax + 1) * hi <= (CellMax + 1) * CellMax
  BY ProductMonotone, FlashAssumption DEF Cell
<1>2. (CellMax + 1) * hi \in Nat
  BY FlashAssumption DEF Cell
<1> QED
  BY <1>1, <1>2, FlashAssumption DEF Cell, Word, ErasedWord, Erased

LEMMA WordMonotone ==
  ASSUME NEW lo \in Cell, NEW hi \in Cell, NEW lo2 \in Cell, NEW hi2 \in Cell,
         lo <= lo2, hi <= hi2
  PROVE  Word(lo, hi) <= Word(lo2, hi2)
<1>1. (CellMax + 1) * hi <= (CellMax + 1) * hi2
  BY ProductMonotone, FlashAssumption DEF Cell
<1> QED
  BY <1>1, FlashAssumption DEF Cell, Word

(* The header lies in the pages that are erased, with the first cells of   *)
(* the firmware behind it.                                                 *)
LEMMA Layout ==
  /\ InfoCells \in Nat /\ InfoCells >= 5
  /\ FwInfoStart \in Nat /\ FwStart \in Nat
  /\ ErasedFrom \in Nat /\ ErasedEnd \in Nat /\ FlashEnd \in Nat
  /\ FwInfoStart + InfoCells = FwStart
  /\ ErasedFrom <= FwInfoStart
  /\ FwStart < ErasedEnd
  /\ ErasedEnd <= FlashEnd
<1>1. InfoCells \in Nat /\ InfoCells >= 5
  BY ImageAssumption DEF InfoCells
<1>2. /\ ErasedFrom \in Nat /\ ErasedEnd \in Nat /\ FlashEnd \in Nat
      /\ FwStart = ErasedFrom + PageCells
  BY BootAssumption, FlashAssumption DEF FwStart, ErasedFrom, ErasedEnd, FlashEnd
<1>3. ErasedFrom + 2 * PageCells <= ErasedEnd
  <2>1. (StartPage + 2) * PageCells <= (EndPage + 1) * PageCells
    BY ProductMonotone, BootAssumption, FlashAssumption
  <2> QED
    BY <2>1, BootAssumption, FlashAssumption DEF ErasedFrom, ErasedEnd
<1>4. ErasedEnd <= FlashEnd
  BY ProductMonotone, BootAssumption, FlashAssumption DEF ErasedEnd, FlashEnd
<1> QED
  BY <1>1, <1>2, <1>3, <1>4, BootAssumption, FlashAssumption DEF FwInfoStart, FwStart
-----------------------------------------------------------------------------
(* The types of files, headers and boards.                                 *)

LEMMA WordCellsType ==
  ASSUME NEW n \in 0 .. ErasedWord
  PROVE  WordCells(n) \in Seq(Cell) /\ Len(WordCells(n)) = 2
<1> DEFINE base == CellMax + 1
<1>1. base \in Nat \ {0} /\ n \in Nat
  BY FlashAssumption DEF ErasedWord, Word, Erased
<1>2. n % base \in Cell
  BY <1>1, FlashAssumption DEF Cell
<1>3. n \div base \in Cell
  <2>1. n \div base \in Nat /\ base * (n \div base) <= n
    BY <1>1
  <2>2. n < base * base
    BY FlashAssumption DEF ErasedWord, Word, Erased
  <2>3. CASE n \div base >= base
    BY <2>1, <2>2, <2>3, <1>1, ProductMonotone
  <2> QED
    BY <2>1, <2>3, <1>1, FlashAssumption DEF Cell
<1> QED
  BY <1>2, <1>3 DEF WordCells

LEMMA FileType ==
  ASSUME NEW b \in Builds
  PROVE  File(b) \in Seq(Cell) /\ Len(File(b)) = InfoCells + Len(b.body)
<1>1. /\ b.version \in 0 .. ErasedWord /\ Len(b.body) \in 0 .. ErasedWord
      /\ b.body \in Seq(Cell) /\ b.signature \in [1 .. SigCells -> Cell]
  BY ImageAssumption DEF ErasedWord
<1>2. b.signature \in Seq(Cell) /\ Len(b.signature) = SigCells
  BY <1>1, ImageAssumption
<1> DEFINE version == WordCells(b.version)
           size    == WordCells(Len(b.body))
<1>3. /\ version \in Seq(Cell) /\ Len(version) = 2
      /\ size \in Seq(Cell) /\ Len(size) = 2
  BY <1>1, WordCellsType
<1> HIDE DEF version, size
<1>4. version \o size \in Seq(Cell) /\ Len(version \o size) = 4
  <2>1. /\ version \o size \in Seq(Cell)
        /\ Len(version \o size) = Len(version) + Len(size)
    BY <1>3, ConcatProperties
  <2>2. Len(version) + Len(size) = 4
    BY <1>3
  <2> QED
    BY <2>1, <2>2, Zenon
<1>5. /\ version \o size \o b.signature \in Seq(Cell)
      /\ Len(version \o size \o b.signature) = InfoCells
  <2>1. /\ version \o size \o b.signature \in Seq(Cell)
        /\ Len(version \o size \o b.signature) =
             Len(version \o size) + Len(b.signature)
    BY <1>2, <1>4, ConcatProperties
  <2> QED
    BY <1>2, <1>4, <2>1 DEF InfoCells
<1>6. /\ version \o size \o b.signature \o b.body \in Seq(Cell)
      /\ Len(version \o size \o b.signature \o b.body) = InfoCells + Len(b.body)
  BY <1>1, <1>5, ConcatProperties
<1> QED
  BY <1>6 DEF File, version, size

LEMMA ReadInfoType ==
  ASSUME NEW n \in Nat, NEW mem \in [0 .. n - 1 -> Cell],
         NEW base \in Nat, base + InfoCells <= n
  PROVE  ReadInfo(mem, base) \in FirmwareInfo
<1>1. \A i \in 0 .. InfoCells - 1 : mem[base + i] \in Cell
  BY ImageAssumption DEF InfoCells
<1>2. /\ mem[base] \in Cell /\ mem[base + 1] \in Cell
      /\ mem[base + 2] \in Cell /\ mem[base + 3] \in Cell
  BY <1>1, Layout
<1>3. [i \in 1 .. SigCells |-> mem[base + 3 + i]] \in [1 .. SigCells -> Cell]
  BY <1>1, ImageAssumption DEF InfoCells
<1> QED
  BY <1>2, <1>3, WordType DEF ReadInfo, FirmwareInfo

LEMMA BoardType ==
  ASSUME NEW f \in InitialBoards
  PROVE  f \in [Addr -> Cell]
<1>1. PICK b \in Builds, p \in BOOLEAN : f = Board(b, p)
  BY BootAssumption DEF InitialBoards
<1>2. b.body \in Seq(Cell)
  BY ImageAssumption
<1>3. BootCode \in Cell /\ Erased \in Cell
  BY FlashAssumption DEF BootCode, Cell, Erased
<1>4. ASSUME NEW a \in FwStart .. FwStart + Len(b.body) - 1
      PROVE  b.body[a - FwStart + 1] \in Cell
  BY <1>2, <1>4, Layout
<1>5. ASSUME NEW a \in FwInfoStart .. FwStart - 1
      PROVE  File(b)[a - FwInfoStart + 1] \in Cell
  BY <1>2, <1>5, Layout, FileType
<1> QED
  BY <1>1, <1>3, <1>4, <1>5 DEF Board

(* The remainder and the quotient give the number back.                    *)
LEMMA DivMod ==
  ASSUME NEW m \in Nat \ {0}, NEW n \in Int
  PROVE  /\ n % m \in Int /\ n \div m \in Int /\ m * (n \div m) \in Int
         /\ (n % m) + m * (n \div m) = n
  OBVIOUS

(* A word written as two cells reads as what was written.                  *)
LEMMA WordCellsExact ==
  ASSUME NEW n \in 0 .. ErasedWord
  PROVE  Word(WordCells(n)[1], WordCells(n)[2]) = n
<1> DEFINE base == CellMax + 1
<1>1. base \in Nat \ {0} /\ n \in Int
  BY FlashAssumption DEF ErasedWord, Word, Erased
<1> HIDE DEF base
<1>2. (n % base) + base * (n \div base) = n
  BY <1>1, DivMod
<1>3. WordCells(n)[1] = n % base /\ WordCells(n)[2] = n \div base
  BY DEF WordCells, base
<1> QED
  BY <1>2, <1>3 DEF Word, base

(* The cells of two sequences put one behind the other.                    *)
LEMMA ConcatCells ==
  ASSUME NEW s \in Seq(Cell), NEW t \in Seq(Cell)
  PROVE  /\ s \o t \in Seq(Cell) /\ Len(s \o t) = Len(s) + Len(t)
         /\ \A i \in 1 .. Len(s) : (s \o t)[i] = s[i]
         /\ \A i \in 1 .. Len(t) : (s \o t)[Len(s) + i] = t[i]
<1>1. /\ s \o t \in Seq(Cell) /\ Len(s \o t) = Len(s) + Len(t)
      /\ Len(s) \in Nat /\ Len(t) \in Nat
      /\ \A i \in 1 .. Len(s) + Len(t) :
           (s \o t)[i] = IF i <= Len(s) THEN s[i] ELSE t[i - Len(s)]
  BY ConcatProperties
<1>2. \A i \in 1 .. Len(s) : (s \o t)[i] = s[i]
  BY <1>1
<1>3. ASSUME NEW i \in 1 .. Len(t)
      PROVE  (s \o t)[Len(s) + i] = t[i]
  <2>1. /\ Len(s) + i \in 1 .. Len(s) + Len(t) /\ ~(Len(s) + i <= Len(s))
        /\ (Len(s) + i) - Len(s) = i
    BY <1>1
  <2> QED
    BY <1>1, <2>1
<1> QED
  BY <1>1, <1>2, <1>3

(* The file begins with the header.                                        *)
LEMMA FileHeader ==
  ASSUME NEW b \in Builds
  PROVE  /\ Word(File(b)[1], File(b)[2]) = b.version
         /\ Word(File(b)[3], File(b)[4]) = Len(b.body)
         /\ \A i \in 1 .. SigCells : File(b)[4 + i] = b.signature[i]
<1>1. /\ b.version \in 0 .. ErasedWord /\ Len(b.body) \in 0 .. ErasedWord
      /\ b.body \in Seq(Cell) /\ b.signature \in Seq(Cell) /\ Len(b.signature) = SigCells
      /\ SigCells \in Nat
  BY ImageAssumption DEF ErasedWord
<1> DEFINE version == WordCells(b.version)
           size    == WordCells(Len(b.body))
           head    == version \o size
           header  == head \o b.signature
<1>2. /\ version \in Seq(Cell) /\ Len(version) = 2
      /\ size \in Seq(Cell) /\ Len(size) = 2
      /\ Word(version[1], version[2]) = b.version
      /\ Word(size[1], size[2]) = Len(b.body)
  BY <1>1, WordCellsType, WordCellsExact
<1>3. File(b) = header \o b.body
  BY DEF File
<1> HIDE DEF version, size
<1>4. /\ head \in Seq(Cell) /\ Len(head) = 4
      /\ \A i \in 1 .. 2 : head[i] = version[i]
      /\ \A i \in 1 .. 2 : head[2 + i] = size[i]
  <2>1. /\ head \in Seq(Cell) /\ Len(head) = Len(version) + Len(size)
        /\ \A i \in 1 .. Len(version) : head[i] = version[i]
        /\ \A i \in 1 .. Len(size) : head[Len(version) + i] = size[i]
    BY <1>2, ConcatCells
  <2> QED
    BY <1>2, <2>1
<1> HIDE DEF head
<1>5. /\ header \in Seq(Cell) /\ Len(header) = 4 + SigCells
      /\ \A i \in 1 .. 4 : header[i] = head[i]
      /\ \A i \in 1 .. SigCells : header[4 + i] = b.signature[i]
  <2>1. /\ header \in Seq(Cell) /\ Len(header) = Len(head) + Len(b.signature)
        /\ \A i \in 1 .. Len(head) : header[i] = head[i]
        /\ \A i \in 1 .. Len(b.signature) : header[Len(head) + i] = b.signature[i]
    BY <1>1, <1>4, ConcatCells
  <2> QED
    BY <1>1, <1>4, <2>1
<1> HIDE DEF header
<1>6. \A i \in 1 .. 4 + SigCells : File(b)[i] = header[i]
  <2>1. \A i \in 1 .. Len(header) : (header \o b.body)[i] = header[i]
    BY <1>1, <1>5, ConcatCells
  <2> QED
    BY <1>3, <1>5, <2>1
<1>7. /\ File(b)[1] = version[1] /\ File(b)[2] = version[2]
      /\ File(b)[3] = size[1] /\ File(b)[4] = size[2]
  <2>1. ASSUME NEW i \in 1 .. 4 PROVE File(b)[i] = head[i]
    <3>1. i \in 1 .. 4 + SigCells
      BY <1>1
    <3>2. File(b)[i] = header[i]
      BY <1>6, <3>1
    <3> QED
      BY <1>5, <3>2
  <2>2. head[3] = size[1] /\ head[4] = size[2]
    <3>1. head[2 + 1] = size[1] /\ head[2 + 2] = size[2]
      BY <1>4
    <3> QED
      BY <3>1
  <2> QED
    BY <1>4, <2>1, <2>2
<1>8. ASSUME NEW i \in 1 .. SigCells PROVE File(b)[4 + i] = b.signature[i]
  <2>1. 4 + i \in 1 .. 4 + SigCells
    BY <1>1
  <2>2. File(b)[4 + i] = header[4 + i]
    BY <1>6, <2>1
  <2> QED
    BY <1>5, <2>2
<1> QED
  BY <1>2, <1>7, <1>8
-----------------------------------------------------------------------------
(* The invariant is inductive.                                             *)

LEMMA BufferTypes ==
  /\ EmptyBuffer \in [0 .. MaxFw - 1 -> Cell]
  /\ NoInfo \in FirmwareInfo
<1>1. 0 \in Cell /\ 0 \in 0 .. ErasedWord
  <2>1. 0 \in Cell
    BY FlashAssumption DEF Cell
  <2> QED
    BY <2>1, WordType, FlashAssumption DEF Word
<1> QED
  BY <1>1 DEF EmptyBuffer, NoInfo, FirmwareInfo

LEMMA HeaderInFlash ==
  ASSUME flash \in [Addr -> Cell]
  PROVE  /\ ReadInfo(flash, FwInfoStart) \in FirmwareInfo
         /\ ReadInfo(flash, FwInfoStart).version =
              Word(flash[FwInfoStart], flash[FwInfoStart + 1])
         /\ Word(flash[FwInfoStart], flash[FwInfoStart + 1]) \in Nat
<1>1. ReadInfo(flash, FwInfoStart) \in FirmwareInfo
  BY ReadInfoType, Layout DEF Addr
<1> QED
  BY <1>1 DEF ReadInfo, FirmwareInfo

(* What main does before the loop, on a board that has been written        *)
(* properly or on one that a reset has interrupted.                        *)
Started ==
  /\ flash \in [Addr -> Cell] /\ cursor = 0
  /\ bl = "Sync" /\ info = ReadInfo(flash, FwInfoStart) /\ timer = Timeout
  /\ fw_length = 0 /\ bytes_written = 0
  /\ fw_buffer = EmptyBuffer /\ update_info = NoInfo
  /\ reply = "None" /\ packets = 0 /\ resets \in 0 .. MaxResets

LEMMA StartInv == Started => IInv
<1> SUFFICES ASSUME Started PROVE IInv
  OBVIOUS
<1> USE DEF Started
<1>1. TypeOK
  BY HeaderInFlash, BufferTypes, BootAssumption
     DEF TypeOK, FlashTypeOK, BLState, Looping, Waiting, Reply
<1>2. ZeroTail
  BY DEF ZeroTail, EmptyBuffer
<1>3. FloorKept /\ HeaderUnchanged
  BY HeaderInFlash DEF FloorKept, HeaderUnchanged
<1> QED
  BY <1>1, <1>2, <1>3 DEF IInv, LengthAgreed, Buffered, UpdateChecked,
     ErasedSoFar, WrittenSoFar, WriteDone, Flashing

LEMMA InitInv == Init => IInv
  BY StartInv, BoardType, BootAssumption DEF Init, Started

LEMMA ResetInv ==
  ASSUME IInv, Reset
  PROVE  IInv'
<1>1. flash' \in [Addr -> Cell] /\ resets' \in 0 .. MaxResets
  BY BootAssumption DEF IInv, TypeOK, FlashTypeOK, Reset
<1>2. Started'
  BY <1>1 DEF Reset, Started, ReadInfo
<1> QED
  BY <1>2, StartInv, PTL

LEMMA LengthType ==
  ASSUME NEW pkt \in Packets
  PROVE  Word(pkt.data[1], pkt.data[2]) \in Nat
<1>1. pkt.data \in [1 .. Payload -> Cell] /\ 1 \in 1 .. Payload /\ 2 \in 1 .. Payload
  BY BootAssumption
<1>2. pkt.data[1] \in Cell /\ pkt.data[2] \in Cell
  BY <1>1
<1> QED
  BY <1>2, WordType

(* The actions that touch neither the flash nor the RAM copy.              *)
Quiet ==
  \/ Tick \/ CheckForTimeout \/ SyncObserved \/ FWLengthReq
  \/ \E pkt \in Packets : WaitingForUpdateReq(pkt) \/ FWLengthRes(pkt)
  \/ LeaveLoop \/ VerifyApplication \/ JumpToFirmware

LEMMA QuietType == IInv /\ Quiet => TypeOK'
<1> SUFFICES ASSUME IInv, Quiet PROVE TypeOK'
  OBVIOUS
<1> USE BootAssumption DEF IInv, TypeOK, FlashTypeOK, loopVars, BLState,
        Looping, Waiting, Flashing, Stopped, Reply, Reported
<1>1. CASE Tick
  BY <1>1 DEF Tick
<1>2. CASE CheckForTimeout
  BY <1>2 DEF CheckForTimeout
<1>3. CASE SyncObserved
  BY <1>3 DEF SyncObserved
<1>4. CASE FWLengthReq
  BY <1>4 DEF FWLengthReq
<1>5. CASE \E pkt \in Packets : WaitingForUpdateReq(pkt)
  BY <1>5 DEF WaitingForUpdateReq
<1>6. CASE \E pkt \in Packets : FWLengthRes(pkt)
  <2>1. PICK pkt \in Packets : FWLengthRes(pkt)
    BY <1>6
  <2> DEFINE length == Word(pkt.data[1], pkt.data[2])
  <2>2. length \in Nat
    BY LengthType
  <2> HIDE DEF length
  <2>3. fw_length' = length
    BY <2>1 DEF FWLengthRes, length
  <2>4. fw_length' \in Nat
    BY <2>2, <2>3
  <2>5. /\ \/ bl' = "ReceiveFW" /\ reply' = "READY_FOR_FW" /\ timer' = Timeout
           \/ bl' = "UpdateFailure" /\ reply' = "NAK" /\ timer' = timer
        /\ UNCHANGED <<flash, cursor, bytes_written, packets, resets,
                       info, fw_buffer, update_info>>
    BY <2>1 DEF FWLengthRes
  <2>6. bl' \in BLState /\ reply' \in Reply /\ timer' \in 0 .. Timeout \cup {Reported}
    BY <2>5
  <2>7. flash' \in [Addr -> Cell] /\ cursor' = cursor
    BY <2>5
  <2> QED
    BY <2>4, <2>5, <2>6, <2>7
<1>7. CASE LeaveLoop
  BY <1>7 DEF LeaveLoop
<1>8. CASE VerifyApplication
  BY <1>8 DEF VerifyApplication
<1>9. CASE JumpToFirmware
  BY <1>9 DEF JumpToFirmware
<1> QED
  BY <1>1, <1>2, <1>3, <1>4, <1>5, <1>6, <1>7, <1>8, <1>9 DEF Quiet

LEMMA QuietInv == IInv /\ Quiet => IInv'
<1> SUFFICES ASSUME IInv, Quiet PROVE IInv'
  OBVIOUS
<1>1. UNCHANGED <<flash, cursor, info, fw_buffer, bytes_written, update_info>>
  BY DEF Quiet, Tick, CheckForTimeout, SyncObserved, WaitingForUpdateReq,
     FWLengthReq, FWLengthRes, LeaveLoop, VerifyApplication, JumpToFirmware, loopVars
(* Only Tick leaves the state where it is, and no action enters these.     *)
<1>2. /\ bl' \in {"CheckSignature", "UpdateSuccess"} \cup Flashing => bl' = bl
      /\ bl \in {"SwitchToApplication", "Application"} =>
           bl' \in {"SwitchToApplication", "Application"}
      /\ bl = "UpdateSuccess" => bl' \in {"UpdateSuccess", "SwitchToApplication"}
      /\ bl \in Flashing => bl' = bl
  BY DEF Quiet, Tick, CheckForTimeout, SyncObserved, WaitingForUpdateReq,
     FWLengthReq, FWLengthRes, LeaveLoop, VerifyApplication, JumpToFirmware,
     Waiting, Flashing, Looping
<1>3. ZeroTail' /\ FloorKept'
  BY <1>1 DEF IInv, ZeroTail, FloorKept
<1>4. LengthAgreed'
  BY DEF IInv, LengthAgreed, Quiet, Tick, CheckForTimeout, SyncObserved,
     WaitingForUpdateReq, FWLengthReq, FWLengthRes, LeaveLoop,
     VerifyApplication, JumpToFirmware, loopVars
<1>5. Buffered' /\ ErasedSoFar' /\ WrittenSoFar' /\ WriteDone'
  BY <1>1, <1>2 DEF IInv, Buffered, ErasedSoFar, WrittenSoFar, WriteDone, Flashing
<1>6. UpdateChecked'
  BY <1>1, <1>2 DEF IInv, UpdateChecked, HeaderAccepted, Flashing, ReadInfo, SignatureValid, BodyAt
<1>7. HeaderUnchanged'
  BY <1>1, <1>2 DEF IInv, HeaderUnchanged, Rewriting, ReadInfo
<1> QED
  BY QuietType, <1>3, <1>4, <1>5, <1>6, <1>7 DEF IInv

LEMMA ReceiveInv ==
  ASSUME IInv, NEW pkt \in Packets, ReceiveFW(pkt)
  PROVE  IInv'
<1> USE DEF IInv
<1>1. /\ pkt.length \in 0 .. LengthMax /\ pkt.data \in [1 .. Payload -> Cell]
      /\ bytes_written \in Nat /\ MaxFw \in Nat
      /\ LengthMax \in Nat /\ Payload \in Nat /\ Payload <= LengthMax
  BY BootAssumption DEF TypeOK
<1>2. PICK behind \in Behind : fw_buffer' = CopyPayload(pkt, behind)
  BY DEF ReceiveFW
<1>3. fw_buffer' \in [0 .. MaxFw - 1 -> Cell]
  <2>0. behind \in [1 .. LengthMax - Payload -> Cell]
    BY BootAssumption
  <2>1. ASSUME NEW k \in 1 .. pkt.length
        PROVE  PayloadCell(pkt, behind, k) \in Cell
    <3>1. CASE k <= Payload
      BY <1>1, <3>1 DEF PayloadCell
    <3>2. CASE ~(k <= Payload)
      <4>1. k - Payload \in 1 .. LengthMax - Payload
        BY <1>1, <3>2
      <4> QED
        BY <2>0, <3>2, <4>1 DEF PayloadCell
    <3> QED
      BY <3>1, <3>2
  <2>2. ASSUME NEW i \in 0 .. MaxFw - 1,
               i \in bytes_written .. bytes_written + pkt.length - 1
        PROVE  PayloadCell(pkt, behind, i - bytes_written + 1) \in Cell
    <3>1. i - bytes_written + 1 \in 1 .. pkt.length
      BY <1>1, <2>2
    <3> QED
      BY <2>1, <3>1
  <2> QED
    BY <1>2, <2>2 DEF CopyPayload, TypeOK
<1>4. TypeOK'
  <2>1. bytes_written' \in Nat /\ timer' = Timeout
    BY <1>1 DEF ReceiveFW
  <2>2. packets' \in 0 .. MaxPackets
    <3>1. CountData(pkt)
      BY DEF ReceiveFW
    <3>2. packets \in 0 .. MaxPackets /\ MaxPackets \in Nat
      BY BootAssumption DEF TypeOK
    <3> QED
      BY <3>1, <3>2 DEF CountData
  <2>3. bl' \in BLState /\ reply' \in Reply
    <3>1. bl' \in {"ReceiveFW", "CheckSignature", "Overrun"}
          /\ reply' \in {reply, "READY_FOR_FW"}
      BY DEF ReceiveFW
    <3>2. reply \in Reply
      BY DEF TypeOK
    <3> QED
      BY <3>1, <3>2 DEF BLState, Looping, Waiting, Stopped, Reply
  <2>4. UNCHANGED <<flash, cursor, resets, info, fw_length, update_info>>
    BY DEF ReceiveFW
  <2>5. timer' \in 0 .. Timeout \cup {Reported}
    BY <2>1, BootAssumption
  <2> QED
    BY <1>3, <2>1, <2>2, <2>3, <2>4, <2>5 DEF TypeOK, FlashTypeOK
<1>5. ZeroTail'
  <2>1. bytes_written' = bytes_written + pkt.length
    BY DEF ReceiveFW
  <2> QED
    BY <1>1, <1>2, <2>1 DEF ZeroTail, CopyPayload
<1>6. LengthAgreed' /\ Buffered'
  <2>1. fw_length' = fw_length /\ fw_length \in InfoCells .. MaxFw
    BY DEF LengthAgreed, ReceiveFW
  <2>2. bl' \in {"ReceiveFW", "CheckSignature", "Overrun"}
        /\ (bl' = "CheckSignature" => bytes_written' \in fw_length .. MaxFw)
    BY DEF ReceiveFW
  <2> QED
    BY <2>1, <2>2, Layout, BootAssumption DEF LengthAgreed, Buffered, Flashing
<1>7. FloorKept' /\ HeaderUnchanged'
  BY DEF FloorKept, HeaderUnchanged, ReceiveFW, Rewriting, Flashing, ReadInfo
<1>8. UpdateChecked' /\ ErasedSoFar' /\ WrittenSoFar' /\ WriteDone'
  BY DEF UpdateChecked, ErasedSoFar, WrittenSoFar, WriteDone, ReceiveFW, Flashing
<1> QED
  BY <1>4, <1>5, <1>6, <1>7, <1>8

LEMMA CheckSignatureInv ==
  ASSUME IInv, CheckSignature
  PROVE  IInv'
<1> USE DEF IInv
<1>1. ReadInfo(fw_buffer, 0) \in FirmwareInfo
  BY ReadInfoType, BootAssumption, Layout DEF TypeOK
<1>2. TypeOK'
  BY <1>1, BootAssumption DEF TypeOK, FlashTypeOK, CheckSignature,
     BLState, Looping, Waiting, Flashing, Stopped, Reply
<1>3. ZeroTail' /\ LengthAgreed' /\ Buffered'
  BY DEF ZeroTail, LengthAgreed, Buffered, CheckSignature, Flashing
<1>4. UpdateChecked'
  <2> SUFFICES ASSUME bl' = "UpdateFW" PROVE UpdateChecked'
    BY DEF CheckSignature, UpdateChecked, Flashing
  <2>1. /\ HeaderAccepted(update_info') /\ UNCHANGED <<info, fw_buffer>>
        /\ SignatureValid(fw_buffer, InfoCells, update_info')
        /\ update_info' = ReadInfo(fw_buffer, 0)
    BY DEF CheckSignature
  <2> QED
    BY <2>1 DEF UpdateChecked, HeaderAccepted, ReadInfo, SignatureValid, BodyAt
<1>5. ErasedSoFar'
  <2>1. bl' = "UpdateFW" => cursor' = StartPage
    BY DEF CheckSignature
  <2>2. StartPage \in StartPage .. EndPage + 1
    BY BootAssumption
  <2>3. StartPage * PageCells \in Int
    BY BootAssumption, FlashAssumption
  <2>4. ErasedFrom .. StartPage * PageCells - 1 = {}
    BY <2>3 DEF ErasedFrom
  <2> QED
    BY <2>1, <2>2, <2>4 DEF ErasedSoFar
<1>6. FloorKept' /\ HeaderUnchanged' /\ WrittenSoFar' /\ WriteDone'
  BY DEF FloorKept, HeaderUnchanged, WrittenSoFar, WriteDone, CheckSignature,
     Rewriting, Flashing, ReadInfo
<1> QED
  BY <1>2, <1>3, <1>4, <1>5, <1>6

(* A page erased raises the version in flash, if it changes it at all.     *)
LEMMA EraseInv ==
  ASSUME IInv, EraseFirmware
  PROVE  IInv'
<1> USE DEF IInv
<1>1. flash' \in [Addr -> Cell] /\ cursor' \in Nat
  BY FlashAssumption DEF TypeOK, FlashTypeOK, EraseFirmware, EraseNextPage,
     ErasePage, Erased, Cell
<1>2. TypeOK'
  BY <1>1 DEF TypeOK, FlashTypeOK, EraseFirmware, loopVars
<1>3. ZeroTail' /\ LengthAgreed' /\ Buffered'
  BY DEF ZeroTail, LengthAgreed, Buffered, EraseFirmware, loopVars
<1>4. UpdateChecked'
  BY DEF UpdateChecked, HeaderAccepted, EraseFirmware, loopVars, ReadInfo, SignatureValid, BodyAt,
     Flashing
<1>5. ErasedSoFar'
  <2>1. cursor \in StartPage .. EndPage /\ cursor' = cursor + 1
    BY DEF ErasedSoFar, EraseFirmware, EraseNextPage
  <2>2. cursor' \in StartPage .. EndPage + 1
    BY <2>1, BootAssumption
  <2>3. ASSUME NEW a \in ErasedFrom .. cursor' * PageCells - 1
        PROVE  flash'[a] = Erased
    <3>1. cursor' * PageCells <= ErasedEnd
      BY <2>1, <2>2, ProductMonotone, BootAssumption, FlashAssumption DEF ErasedEnd
    <3>2. cursor' * PageCells \in Nat
      BY <2>1, BootAssumption, FlashAssumption
    <3>3. a \in Addr
      BY <3>1, <3>2, Layout DEF Addr
    <3>4. CASE a \in PageOf(cursor)
      BY <3>3, <3>4 DEF EraseFirmware, EraseNextPage, ErasePage
    <3>5. CASE a \notin PageOf(cursor)
      <4>1. cursor * PageCells \in Nat
        BY <2>1, BootAssumption, FlashAssumption
      <4>2. a < cursor * PageCells
        BY <3>2, <3>5, <4>1, <2>1, Layout DEF PageOf
      <4>3. flash[a] = Erased
        BY <4>1, <4>2, Layout DEF ErasedSoFar, EraseFirmware
      <4> QED
        BY <3>3, <3>5, <4>3 DEF EraseFirmware, EraseNextPage, ErasePage
    <3> QED
      BY <3>4, <3>5
  <2> QED
    BY <2>2, <2>3 DEF ErasedSoFar
<1>6. FloorKept'
  <2> DEFINE lo == FwInfoStart
             hi == FwInfoStart + 1
  <2>1. lo \in Addr /\ hi \in Addr
    BY Layout DEF Addr
  <2>2. /\ flash[lo] \in Cell /\ flash[hi] \in Cell
        /\ flash'[lo] \in Cell /\ flash'[hi] \in Cell
    BY <1>1, <2>1 DEF TypeOK, FlashTypeOK
  <2>3. flash[lo] <= flash'[lo] /\ flash[hi] <= flash'[hi]
    BY <2>1, <2>2, FlashAssumption
       DEF EraseFirmware, EraseNextPage, ErasePage, Erased, Cell
  <2>4. Word(flash[lo], flash[hi]) <= Word(flash'[lo], flash'[hi])
    BY <2>2, <2>3, WordMonotone
  <2>5. /\ Word(flash[lo], flash[hi]) \in 0 .. ErasedWord
        /\ Word(flash'[lo], flash'[hi]) \in 0 .. ErasedWord
        /\ info' = info /\ info.version \in 0 .. ErasedWord
    <3>1. /\ Word(flash[lo], flash[hi]) \in 0 .. ErasedWord
          /\ Word(flash'[lo], flash'[hi]) \in 0 .. ErasedWord
      BY <2>2, WordType
    <3>2. info' = info /\ info.version \in 0 .. ErasedWord
      BY DEF EraseFirmware, loopVars, TypeOK, FirmwareInfo
    <3> QED
      BY <3>1, <3>2
  <2>6. Word(flash[lo], flash[hi]) >= info.version
    BY DEF FloorKept
  <2>7. Word(flash'[lo], flash'[hi]) >= info'.version
    BY <2>4, <2>5, <2>6
  <2> QED
    BY <2>7 DEF FloorKept
<1>7. HeaderUnchanged' /\ WrittenSoFar' /\ WriteDone'
  BY DEF HeaderUnchanged, WrittenSoFar, WriteDone, EraseFirmware, Rewriting, Flashing
<1> QED
  BY <1>2, <1>3, <1>4, <1>5, <1>6, <1>7

LEMMA FinishEraseInv ==
  ASSUME IInv, FinishErase
  PROVE  IInv'
<1> USE DEF IInv
<1>1. TypeOK' /\ ZeroTail' /\ LengthAgreed' /\ Buffered'
  BY DEF TypeOK, FlashTypeOK, ZeroTail, LengthAgreed, Buffered, FinishErase, loopVars,
     BLState, Looping, Flashing
<1>2. UpdateChecked'
  BY DEF UpdateChecked, HeaderAccepted, FinishErase, loopVars, ReadInfo, SignatureValid, BodyAt,
     Flashing
<1>3. WrittenSoFar'
  <2>1. cursor = EndPage + 1
    BY BootAssumption DEF ErasedSoFar, FinishErase
  <2>2. \A a \in ErasedFrom .. ErasedEnd - 1 : flash[a] = Erased
    BY <2>1 DEF ErasedSoFar, FinishErase, ErasedEnd
  <2>3. ASSUME NEW i \in 0 .. ErasedEnd - FwInfoStart - 1
        PROVE  flash[FwInfoStart + i] = Erased
    BY <2>2, Layout
  <2> QED
    BY <2>3, Layout DEF WrittenSoFar, FinishErase, loopVars
<1>4. FloorKept' /\ HeaderUnchanged' /\ ErasedSoFar' /\ WriteDone'
  BY DEF FloorKept, HeaderUnchanged, ErasedSoFar, WriteDone, FinishErase, loopVars,
     Rewriting, Flashing
<1> QED
  BY <1>1, <1>2, <1>3, <1>4

(* While the image is written, each half of the version in flash is either *)
(* still erased or the new one: the word is at least the new version.      *)
MidWrite ==
  bl = "WriteFW" /\ TypeOK /\ Buffered /\ UpdateChecked /\ WrittenSoFar

LEMMA WriteFloor == MidWrite => FloorKept
<1> SUFFICES ASSUME MidWrite PROVE FloorKept
  OBVIOUS
<1> USE DEF MidWrite
<1> DEFINE lo == flash[FwInfoStart]
           hi == flash[FwInfoStart + 1]
<1>1. bytes_written \in InfoCells .. MaxFw
  BY DEF Buffered, Flashing
<1>2. fw_buffer[0] \in Cell /\ fw_buffer[1] \in Cell
  BY <1>1, Layout, BootAssumption DEF TypeOK
<1>3. \A i \in 0 .. 1 :
        flash[FwInfoStart + i] = fw_buffer[i] \/ flash[FwInfoStart + i] = Erased
  BY <1>1, Layout DEF WrittenSoFar, SourceCell
<1>4. /\ lo \in Cell /\ hi \in Cell
      /\ fw_buffer[0] <= lo /\ fw_buffer[1] <= hi
  BY <1>2, <1>3, Layout, FlashAssumption DEF Cell, Erased
<1>5. Word(fw_buffer[0], fw_buffer[1]) <= Word(lo, hi)
  BY <1>2, <1>4, WordMonotone
<1>6. /\ Word(lo, hi) \in 0 .. ErasedWord
      /\ Word(fw_buffer[0], fw_buffer[1]) \in 0 .. ErasedWord
  BY <1>2, <1>4, WordType
<1>7. /\ Word(fw_buffer[0], fw_buffer[1]) > info.version
      /\ info.version \in 0 .. ErasedWord
  BY DEF UpdateChecked, HeaderAccepted, Flashing, ReadInfo, TypeOK, FirmwareInfo
<1>8. Word(lo, hi) >= info.version
  BY <1>5, <1>6, <1>7
<1> QED
  BY <1>8 DEF FloorKept

LEMMA WriteInv ==
  ASSUME IInv, WriteFirmware
  PROVE  IInv'
<1> USE DEF IInv
<1>1. bytes_written \in InfoCells .. MaxFw
  BY DEF Buffered, Flashing, WriteFirmware
<1>2. SourceCell(fw_buffer, bytes_written, cursor) \in Cell
  BY <1>1, Layout, BootAssumption, FlashAssumption
     DEF SourceCell, TypeOK, FlashTypeOK, Cell
<1>3. TypeOK'
  <2>1. flash' \in [Addr -> Cell] /\ cursor' \in Nat
    <3>1. flash \in [Addr -> Cell] /\ cursor \in Nat
      BY DEF TypeOK, FlashTypeOK
    <3>2. ProgramCell(flash, FwInfoStart + cursor,
                      SourceCell(fw_buffer, bytes_written, cursor)) \in [Addr -> Cell]
      BY <1>2, <3>1 DEF ProgramCell
    <3> QED
      BY <3>1, <3>2 DEF WriteFirmware, ProgramNextCell
  <2> QED
    BY <2>1 DEF TypeOK, FlashTypeOK, WriteFirmware, loopVars
<1>4. ZeroTail' /\ LengthAgreed' /\ Buffered'
  BY DEF ZeroTail, LengthAgreed, Buffered, WriteFirmware, loopVars
<1>5. UpdateChecked'
  BY DEF UpdateChecked, HeaderAccepted, WriteFirmware, loopVars, ReadInfo, SignatureValid, BodyAt,
     Flashing
<1>6. WrittenSoFar'
  <2>1. /\ cursor' = cursor + 1 /\ cursor \in Nat
        /\ UNCHANGED <<fw_buffer, bytes_written>>
        /\ flash' = ProgramCell(flash, FwInfoStart + cursor,
                                SourceCell(fw_buffer, bytes_written, cursor))
    BY DEF WriteFirmware, ProgramNextCell, loopVars, TypeOK, FlashTypeOK
  <2>2. ASSUME NEW i \in 0 .. ErasedEnd - FwInfoStart - 1
        PROVE  flash'[FwInfoStart + i] =
                 IF i < cursor' THEN SourceCell(fw_buffer, bytes_written, i) ELSE Erased
    <3>1. flash[FwInfoStart + i] =
            IF i < cursor THEN SourceCell(fw_buffer, bytes_written, i) ELSE Erased
      BY DEF WrittenSoFar, WriteFirmware
    <3>2. FwInfoStart + i \in Addr
      BY Layout DEF Addr
    <3>3. CASE i = cursor
      BY <2>1, <3>1, <3>2, <3>3 DEF ProgramCell, TypeOK, FlashTypeOK
    <3>4. CASE i # cursor
      <4>1. flash'[FwInfoStart + i] = flash[FwInfoStart + i]
        BY <2>1, <3>2, <3>4, Layout DEF ProgramCell, TypeOK, FlashTypeOK
      <4> QED
        BY <2>1, <3>1, <3>4, <4>1
    <3> QED
      BY <3>3, <3>4
  <2>3. \A i \in 0 .. ErasedEnd - FwInfoStart - 1 :
          SourceCell(fw_buffer, bytes_written, i)' =
            SourceCell(fw_buffer, bytes_written, i)
    BY <2>1 DEF SourceCell
  <2> QED
    BY <2>2, <2>3 DEF WrittenSoFar
<1>7. FloorKept'
  <2>1. MidWrite'
    BY <1>3, <1>4, <1>5, <1>6 DEF MidWrite, WriteFirmware
  <2> QED
    BY <2>1, WriteFloor, PTL
<1>8. HeaderUnchanged' /\ ErasedSoFar' /\ WriteDone'
  BY DEF HeaderUnchanged, ErasedSoFar, WriteDone, WriteFirmware, Rewriting, Flashing
<1> QED
  BY <1>3, <1>4, <1>5, <1>6, <1>7, <1>8

LEMMA FinishWriteInv ==
  ASSUME IInv, FinishWrite
  PROVE  IInv'
<1> USE DEF IInv
<1>1. TypeOK' /\ ZeroTail' /\ LengthAgreed' /\ Buffered'
  BY DEF TypeOK, FlashTypeOK, ZeroTail, LengthAgreed, Buffered, FinishWrite, loopVars,
     BLState, Looping, Flashing
<1>2. UpdateChecked'
  BY DEF UpdateChecked, HeaderAccepted, FinishWrite, loopVars, ReadInfo, SignatureValid, BodyAt,
     Flashing
<1>3. WriteDone'
  <2>1. /\ cursor >= CellsToProgram(bytes_written) /\ cursor \in Nat
        /\ bytes_written \in Nat
        /\ UNCHANGED <<flash, cursor, bytes_written, fw_buffer>>
    BY DEF FinishWrite, loopVars, TypeOK, FlashTypeOK
  <2>2. \A i \in Nat : i < bytes_written => i < cursor
    BY <2>1 DEF CellsToProgram
  <2>3. \A i \in 0 .. ErasedEnd - FwInfoStart - 1 :
          i < bytes_written => flash[FwInfoStart + i] = fw_buffer[i]
    BY <2>2, Layout DEF WrittenSoFar, FinishWrite, SourceCell
  <2> QED
    BY <2>1, <2>3 DEF WriteDone
<1>4. FloorKept' /\ HeaderUnchanged' /\ ErasedSoFar' /\ WrittenSoFar'
  BY DEF FloorKept, HeaderUnchanged, ErasedSoFar, WrittenSoFar, FinishWrite, loopVars,
     Rewriting, Flashing
<1> QED
  BY <1>1, <1>2, <1>3, <1>4

LEMMA StutterInv == IInv /\ UNCHANGED vars => IInv'
BY DEF IInv, vars, loopVars, TypeOK, FlashTypeOK, ZeroTail, LengthAgreed, Buffered,
   UpdateChecked, HeaderAccepted, ErasedSoFar, WrittenSoFar, WriteDone, FloorKept,
   HeaderUnchanged,
   ReadInfo, SignatureValid, BodyAt, SourceCell

LEMMA StepInv == IInv /\ [Next]_vars => IInv'
<1> SUFFICES ASSUME IInv, [Next]_vars PROVE IInv'
  OBVIOUS
<1>1. CASE Reset
  BY <1>1, ResetInv
<1>2. CASE Quiet
  BY <1>2, QuietInv
<1>3. CASE \E pkt \in Packets : ReceiveFW(pkt)
  BY <1>3, ReceiveInv
<1>4. CASE CheckSignature
  BY <1>4, CheckSignatureInv
<1>5. CASE EraseFirmware
  BY <1>5, EraseInv
<1>6. CASE FinishErase
  BY <1>6, FinishEraseInv
<1>7. CASE WriteFirmware
  BY <1>7, WriteInv
<1>8. CASE FinishWrite
  BY <1>8, FinishWriteInv
<1>9. CASE UNCHANGED vars
  BY <1>9, StutterInv
<1> QED
  BY <1>1, <1>2, <1>3, <1>4, <1>5, <1>6, <1>7, <1>8, <1>9
     DEF Next, Receive, Compute, Quiet

THEOREM Invariance == Spec => []IInv
  BY InitInv, StepInv, PTL DEF Spec

-----------------------------------------------------------------------------
(* Theorems.                                                               *)

(* Every variable of the update loop keeps its type, on every board and    *)
(* whatever the link delivers; in particular no header that flash or       *)
(* fw_buffer can hold makes read_firmware_info leave the type FirmwareInfo.*)
THEOREM TypeCorrect == Spec => []TypeOK
<1>1. IInv => TypeOK
  BY DEF IInv
<1> QED
  BY <1>1, Invariance, PTL

(* Anti-rollback: across any sequence of updates, power losses in the      *)
(* middle of erasing or programming, and packets, the version that main    *)
(* compares an update with never decreases.                                *)
THEOREM RollbackExcluded == Spec => NoRollback
<1>1. IInv /\ [Next]_vars => [info'.version >= info.version]_vars
  <2> SUFFICES ASSUME IInv, Next PROVE info'.version >= info.version
    BY DEF vars
  <2>1. info.version \in 0 .. ErasedWord
    BY DEF IInv, TypeOK, FirmwareInfo
  <2>2. CASE Reset
    BY <2>2, HeaderInFlash DEF Reset, IInv, FloorKept, TypeOK, FlashTypeOK
  <2>3. CASE ~Reset
    <3>1. info' = info
      BY <2>3 DEF Next, Receive, Compute, Tick, CheckForTimeout, SyncObserved,
         WaitingForUpdateReq, FWLengthReq, FWLengthRes, ReceiveFW, CheckSignature,
         EraseFirmware, FinishErase, WriteFirmware, FinishWrite, LeaveLoop,
         VerifyApplication, JumpToFirmware, loopVars
    <3> QED
      BY <2>1, <3>1
  <2> QED
    BY <2>2, <2>3
<1> QED
  BY <1>1, Invariance, PTL DEF Spec, NoRollback

(* verify_firmware never uses a header older than the one in flash.        *)
THEOREM HeaderIsFresh == Spec => []InfoFresh
<1>1. IInv => InfoFresh
  BY DEF IInv, HeaderUnchanged, InfoFresh, Rewriting, Flashing
<1> QED
  BY <1>1, Invariance, PTL

(* An update is abandoned only after the host has been sent a NAK.         *)
Refused ==
  bl \in {"UpdateTimeout", "UpdateFailure", "VerifyApplication"} => reply = "NAK"

THEOREM FailuresReported == Spec => []FailureReported
<1>1. Init => Refused
  BY DEF Init, Refused
<1>2. Refused /\ [Next]_vars => Refused'
  BY DEF Refused, vars, loopVars, Next, Receive, Compute, Reset, Tick,
     CheckForTimeout, SyncObserved, WaitingForUpdateReq, FWLengthReq, FWLengthRes,
     ReceiveFW, CheckSignature, EraseFirmware, FinishErase, WriteFirmware,
     FinishWrite, LeaveLoop, VerifyApplication, JumpToFirmware, Flashing, Looping
<1>3. Refused => FailureReported
  BY DEF Refused, FailureReported
<1> QED
  BY <1>1, <1>2, <1>3, PTL DEF Spec

(* Nothing has been received before the transfer begins, and the transfer  *)
(* ends with the first packet that completes the announced length.         *)
RoomInv ==
  /\ bl \in {"Sync", "WaitingForUpdateReq", "FWLengthReq", "FWLengthRes"} =>
       bytes_written = 0
  /\ bl = "ReceiveFW" => bytes_written < fw_length
  /\ OverrunNeedsLongFile

(* fw_buffer is overrun only in a transfer that was announced with less    *)
(* room than the longest packet takes, whatever lengths the packets claim  *)
(* and however often they come.                                            *)
THEOREM OverrunExcluded == Spec => []OverrunNeedsLongFile
<1>1. Init => RoomInv
  BY DEF Init, RoomInv, OverrunNeedsLongFile
<1>2. IInv /\ RoomInv /\ [Next]_vars => RoomInv'
  <2> SUFFICES ASSUME IInv, RoomInv, [Next]_vars PROVE RoomInv'
    OBVIOUS
  <2>1. CASE \E pkt \in Packets : ReceiveFW(pkt)
    <3>1. PICK pkt \in Packets : ReceiveFW(pkt)
      BY <2>1
    <3>2. /\ pkt.length \in 0 .. LengthMax /\ LengthMax \in Nat /\ MaxFw \in Nat
          /\ bytes_written \in Nat /\ fw_length \in Nat
      BY BootAssumption DEF IInv, TypeOK
    <3>3. /\ bytes_written < fw_length /\ fw_length' = fw_length
          /\ bytes_written' = bytes_written + pkt.length
      BY <3>1 DEF ReceiveFW, RoomInv
    <3> QED
      BY <3>1, <3>2, <3>3 DEF ReceiveFW, RoomInv, OverrunNeedsLongFile
  <2>2. CASE \E pkt \in Packets : FWLengthRes(pkt)
    <3>1. /\ bl = "FWLengthRes" /\ bytes_written' = bytes_written
          /\ \/ bl' = "ReceiveFW" /\ fw_length' \in InfoCells .. MaxFw
             \/ bl' = "UpdateFailure"
      BY <2>2 DEF FWLengthRes
    <3>2. InfoCells > 0 /\ InfoCells \in Nat /\ MaxFw \in Nat
      BY Layout, BootAssumption
    <3>3. bytes_written = 0
      BY <3>1 DEF RoomInv
    <3> QED
      BY <3>1, <3>2, <3>3 DEF RoomInv, OverrunNeedsLongFile
  <2>3. CASE ~\E pkt \in Packets : ReceiveFW(pkt) \/ FWLengthRes(pkt)
    BY <2>3 DEF RoomInv, OverrunNeedsLongFile, vars, loopVars, Next, Receive,
       Compute, Reset, Tick, CheckForTimeout, SyncObserved, WaitingForUpdateReq,
       FWLengthReq, CheckSignature, EraseFirmware, FinishErase, WriteFirmware,
       FinishWrite, LeaveLoop, VerifyApplication, JumpToFirmware, Flashing, Looping,
       Waiting
  <2> QED
    BY <2>1, <2>2, <2>3
<1>3. RoomInv => OverrunNeedsLongFile
  BY DEF RoomInv
<1> QED
  BY <1>1, <1>2, <1>3, Invariance, PTL DEF Spec

(* A bootloader image that ends below the first page erased is never       *)
(* touched by an update.  (Boot_code shows that the bound the linker       *)
(* script puts on the image is weaker.)                                    *)
THEOREM CodeIntact ==
  ASSUME BootImageCells <= ErasedFrom
  PROVE  Spec => []BootCodeIntact
<1>1. ASSUME Init PROVE BootCodeIntact
  <2>1. PICK b \in Builds, p \in BOOLEAN : flash = Board(b, p)
    BY <1>1, BootAssumption DEF Init, InitialBoards
  <2>2. 0 .. BootImageCells - 1 \subseteq Addr
    BY Layout, BootAssumption DEF Addr
  <2>3. ASSUME NEW a \in 0 .. BootImageCells - 1
        PROVE  a \notin FwStart .. FwStart + Len(b.body) - 1
                 /\ a \notin FwInfoStart .. FwStart - 1
    BY Layout, BootAssumption
  <2> QED
    BY <2>1, <2>2, <2>3, BootAssumption DEF Board, BootCodeIntact
<1>2. ASSUME IInv, BootCodeIntact, [Next]_vars PROVE BootCodeIntact'
  <2>1. CASE EraseFirmware
    <3>1. cursor \in Nat /\ StartPage <= cursor
      BY <1>2, <2>1, BootAssumption DEF IInv, ErasedSoFar, EraseFirmware
    <3>2. ErasedFrom <= cursor * PageCells /\ cursor * PageCells \in Nat
      BY <3>1, ProductMonotone, BootAssumption, FlashAssumption DEF ErasedFrom
    <3>3. \A a \in 0 .. BootImageCells - 1 : a \in Addr /\ a \notin PageOf(cursor)
      BY <3>2, Layout, BootAssumption DEF PageOf, Addr
    <3> QED
      BY <1>2, <2>1, <3>3 DEF EraseFirmware, EraseNextPage, ErasePage, BootCodeIntact
  <2>2. CASE WriteFirmware
    <3>1. cursor \in Nat /\ flash \in [Addr -> Cell]
      BY <1>2 DEF IInv, TypeOK, FlashTypeOK
    <3>2. \A a \in 0 .. BootImageCells - 1 : a \in Addr /\ a # FwInfoStart + cursor
      BY <3>1, Layout, BootAssumption DEF Addr
    <3> QED
      BY <1>2, <2>2, <3>1, <3>2
         DEF WriteFirmware, ProgramNextCell, ProgramCell, BootCodeIntact
  <2>3. CASE ~EraseFirmware /\ ~WriteFirmware
    <3>1. flash' = flash
      BY <1>2, <2>3 DEF vars, loopVars, Next, Receive, Compute, Reset, Tick,
         CheckForTimeout, SyncObserved, WaitingForUpdateReq, FWLengthReq, FWLengthRes,
         ReceiveFW, CheckSignature, FinishErase, FinishWrite, LeaveLoop,
         VerifyApplication, JumpToFirmware
    <3> QED
      BY <1>2, <3>1 DEF BootCodeIntact
  <2> QED
    BY <2>1, <2>2, <2>3
<1> QED
  BY <1>1, <1>2, Invariance, PTL DEF Spec

-----------------------------------------------------------------------------
(* Control goes only to firmware that the flash holds whole.               *)

(* Every signed image ends inside the pages that bl_erase_firmware erases; *)
(* the limit on update_info.size does not imply it (run Boot_unerased).    *)
ImagesFit == \A b \in Builds : FwStart + Len(b.body) <= ErasedEnd

(* No signed image ends in a zero cell: the zeros fw_buffer starts with    *)
(* cannot complete an image of which the last packet never came.           *)
NoZeroEnd == \A b \in Builds : b.body # <<>> => b.body[Len(b.body)] # 0

Loaded == bl \in {"SwitchToApplication", "Application"} => FlashVerified

LEMMA UpdateLoaded ==
  ASSUME ImagesFit, NoZeroEnd, IInv, bl = "UpdateSuccess"
  PROVE  FlashVerified
<1> USE DEF IInv
<1>1. bytes_written \in InfoCells .. MaxFw
  BY DEF Buffered
<1>2. PICK b \in Builds : /\ b.signature = update_info.signature
                          /\ Len(b.body) = update_info.size
                          /\ BodyAt(fw_buffer, InfoCells, b)
  BY DEF UpdateChecked, SignatureValid
<1>3. b.body \in Seq(Cell) /\ Len(b.body) \in Nat
  BY ImageAssumption
<1>4. FwStart + Len(b.body) <= ErasedEnd
  BY DEF ImagesFit
<1>5. InfoCells + Len(b.body) <= bytes_written
  <2>1. CASE b.body = <<>>
    BY <1>1, <2>1, Layout
  <2>2. CASE b.body # <<>>
    <3> DEFINE last == InfoCells + Len(b.body) - 1
    <3>1. Len(b.body) \in 1 .. Len(b.body)
      BY <1>3, <2>2
    <3>2. fw_buffer[last] # 0
      BY <1>2, <2>2, <3>1, Layout DEF BodyAt, NoZeroEnd
    <3>3. last \in 0 .. MaxFw - 1
      <4>1. ErasedEnd - FwStart \in Nat /\ last \in Nat
        BY <1>3, <3>1, Layout
      <4>2. update_info.size < MaxFw - InfoCells
        BY DEF UpdateChecked, HeaderAccepted
      <4>3. Len(b.body) < MaxFw - InfoCells
        BY <1>2, <4>2
      <4>4. InfoCells \in Nat /\ MaxFw \in Nat
        BY Layout, BootAssumption
      <4> QED
        BY <1>3, <4>1, <4>3, <4>4
    <3> QED
      BY <1>1, <1>3, <3>2, <3>3, Layout DEF ZeroTail
  <2> QED
    BY <2>1, <2>2
<1>6. \A i \in 0 .. InfoCells + Len(b.body) - 1 :
        flash[FwInfoStart + i] = fw_buffer[i]
  <2>1. /\ bytes_written \in Nat /\ Len(b.body) \in Nat
        /\ InfoCells + Len(b.body) <= ErasedEnd - FwInfoStart
    BY <1>3, <1>4, Layout DEF TypeOK
  <2>2. \A i \in 0 .. ErasedEnd - FwInfoStart - 1 :
          i < bytes_written => flash[FwInfoStart + i] = fw_buffer[i]
    BY DEF WriteDone
  <2>3. ASSUME NEW i \in 0 .. InfoCells + Len(b.body) - 1
        PROVE  i \in 0 .. ErasedEnd - FwInfoStart - 1 /\ i < bytes_written
    BY <1>5, <2>1, Layout
  <2> QED
    BY <2>2, <2>3
<1>7. ReadInfo(flash, FwInfoStart) = update_info
  <2>1. \A i \in 0 .. InfoCells - 1 : flash[FwInfoStart + i] = fw_buffer[i]
    BY <1>3, <1>6, Layout
  <2>2. \A i \in 0 .. 3 : flash[FwInfoStart + i] = fw_buffer[i]
    BY <2>1, Layout
  <2>3. \A i \in 1 .. SigCells : flash[FwInfoStart + 3 + i] = fw_buffer[3 + i]
    BY <2>1, Layout, ImageAssumption DEF InfoCells
  <2>4. update_info = ReadInfo(fw_buffer, 0)
    BY DEF UpdateChecked
  <2>5. /\ flash[FwInfoStart] = fw_buffer[0]
        /\ flash[FwInfoStart + 1] = fw_buffer[0 + 1]
        /\ flash[FwInfoStart + 2] = fw_buffer[0 + 2]
        /\ flash[FwInfoStart + 3] = fw_buffer[0 + 3]
    BY <2>2, Layout
  <2>6. \A i \in 1 .. SigCells : flash[FwInfoStart + 3 + i] = fw_buffer[0 + 3 + i]
    BY <2>3, ImageAssumption
  <2> QED
    BY <2>4, <2>5, <2>6 DEF ReadInfo
<1>8. BodyAt(flash, FwStart, b)
  <2>1. ASSUME NEW i \in 1 .. Len(b.body)
        PROVE  flash[FwStart + i - 1] = b.body[i]
    <3>1. flash[FwInfoStart + (InfoCells + i - 1)] = fw_buffer[InfoCells + i - 1]
      BY <1>3, <1>6, Layout
    <3>2. FwInfoStart + (InfoCells + i - 1) = FwStart + i - 1
      BY Layout
    <3> QED
      BY <1>2, <3>1, <3>2 DEF BodyAt
  <2> QED
    BY <2>1 DEF BodyAt
<1> QED
  BY <1>2, <1>3, <1>4, <1>7, <1>8, Layout DEF FlashVerified, SignatureValid

LEMMA StepLoaded ==
  ASSUME ImagesFit, NoZeroEnd, IInv, Loaded, [Next]_vars
  PROVE  Loaded'
<1>1. CASE LeaveLoop
  <2>1. bl' = "SwitchToApplication" => FlashVerified
    BY <1>1, UpdateLoaded DEF LeaveLoop
  <2> QED
    BY <1>1, <2>1 DEF LeaveLoop, Loaded, FlashVerified, ReadInfo, SignatureValid, BodyAt
<1>2. CASE VerifyApplication
  <2>1. bl' = "SwitchToApplication" => FlashVerified
    <3>1. info = ReadInfo(flash, FwInfoStart)
      BY <1>2 DEF VerifyApplication, IInv, HeaderUnchanged, Rewriting, Flashing
    <3> QED
      BY <1>2, <3>1 DEF VerifyApplication, FlashVerified
  <2> QED
    BY <1>2, <2>1
       DEF VerifyApplication, Loaded, FlashVerified, ReadInfo, SignatureValid, BodyAt
<1>3. CASE JumpToFirmware
  BY <1>3
     DEF JumpToFirmware, Loaded, FlashVerified, ReadInfo, SignatureValid, BodyAt
<1>4. CASE UNCHANGED vars
  BY <1>4 DEF vars, Loaded, FlashVerified, ReadInfo, SignatureValid, BodyAt
<1>5. CASE Next /\ ~LeaveLoop /\ ~VerifyApplication /\ ~JumpToFirmware
  <2>1. bl' \notin {"SwitchToApplication", "Application"}
    BY <1>5 DEF Next, Receive, Compute, Reset, Tick, CheckForTimeout, SyncObserved,
       WaitingForUpdateReq, FWLengthReq, FWLengthRes, ReceiveFW, CheckSignature,
       EraseFirmware, FinishErase, WriteFirmware, FinishWrite,
       Looping, Waiting, Flashing
  <2> QED
    BY <2>1 DEF Loaded
<1> QED
  BY <1>1, <1>2, <1>3, <1>4, <1>5

(* After a boot without update and after an update alike, the application  *)
(* gets control only if the flash itself, header and body, passes the      *)
(* check of verify_firmware - although after an update only the copy in    *)
(* RAM was ever checked.                                                   *)
THEOREM OnlyVerifiedRuns ==
  ASSUME ImagesFit, NoZeroEnd
  PROVE  Spec => []SwitchOnlyToVerified
<1>1. Init => Loaded
  BY DEF Init, Loaded
<1>2. IInv /\ Loaded /\ [Next]_vars => Loaded'
  BY StepLoaded
<1>3. Loaded => SwitchOnlyToVerified
  BY DEF Loaded, SwitchOnlyToVerified
<1> QED
  BY <1>1, <1>2, <1>3, Invariance, PTL DEF Spec

-----------------------------------------------------------------------------
(* Bootloader implements SecureBoot (KeepsPromise): whatever packets come  *)
(* and wherever power is lost, the board takes the steps of the abstract   *)
(* specification and no others.                                            *)
(*                                                                         *)
(* The invariant above says which cells of the flash hold what.  Here it   *)
(* becomes a statement on images: of the one being written, the flash      *)
(* passes for all or for nothing (ImageComing), although power can fail    *)
(* between any two of its cells.                                           *)

(* A signature is one of one body: SHA-256 and ECDSA are sound.            *)
SignaturesSound == \A b, c \in Builds : b.signature = c.signature => b.body = c.body

(* An image begins with its vector table, of which the first entry, the    *)
(* initial stack pointer, is not an erased word.                           *)
VectorTables == \A b \in Builds : b.body # <<>> /\ b.body[1] # Erased

(* The largest word is not an offset into the flash.                       *)
WordAddressed == FlashEnd <= ErasedWord

Releases ==
  ImagesFit /\ NoZeroEnd /\ SignaturesSound /\ VectorTables /\ WordAddressed

PInv == IInv /\ Loaded
-----------------------------------------------------------------------------
(* What a memory holds, as an image.                                       *)

InfoInFlash == ReadInfo(flash, FwInfoStart)

(* Cell by cell the image is the body of a build.                          *)
LEMMA ImageIsSigned ==
  ASSUME NEW mem, NEW base, NEW said, said.version \in 0 .. ErasedWord,
         NEW b \in Builds, b.signature = said.signature, Len(b.body) = said.size,
         BodyAt(mem, base, b)
  PROVE  /\ ImageAt(mem, base, said) =
              [version |-> said.version, body |-> b.body, signature |-> b.signature]
         /\ ImageAt(mem, base, said) \in Images
         /\ ImageAt(mem, base, said) # NoFirmware
<1>1. SignatureValid(mem, base, said)
  BY DEF SignatureValid
<1>2. [i \in 1 .. said.size |-> mem[base + i - 1]] = b.body
  <2>1. b.body \in Seq(Cell)
    BY ImageAssumption
  <2>2. b.body = [i \in 1 .. said.size |-> b.body[i]]
    BY <2>1, LenProperties
  <2>3. \A i \in 1 .. said.size : mem[base + i - 1] = b.body[i]
    BY DEF BodyAt
  <2> QED
    BY <2>2, <2>3
<1>3. ImageAt(mem, base, said) =
        [version |-> said.version, body |-> b.body, signature |-> b.signature]
  BY <1>1, <1>2 DEF ImageAt
<1>4. b.signature # <<>>
  <2>1. 1 \in 1 .. SigCells /\ b.signature \in [1 .. SigCells -> Cell]
    BY ImageAssumption
  <2>2. DOMAIN b.signature # {}
    BY <2>1
  <2> QED
    BY <2>2
<1> QED
  BY <1>3, <1>4 DEF Images, NoFirmware

(* What passes the check of the signature is an image, anything else none. *)
LEMMA ImageIsKnown ==
  ASSUME NEW mem, NEW base, NEW said, said.version \in 0 .. ErasedWord
  PROVE  /\ ImageAt(mem, base, said) # NoFirmware <=> SignatureValid(mem, base, said)
         /\ ImageAt(mem, base, said) \in Images \cup {NoFirmware}
         /\ ImageAt(mem, base, said) # NoFirmware =>
              /\ ImageAt(mem, base, said) \in Images
              /\ ImageAt(mem, base, said).version = said.version
<1>1. CASE SignatureValid(mem, base, said)
  <2>1. PICK b \in Builds : /\ b.signature = said.signature /\ Len(b.body) = said.size
                            /\ BodyAt(mem, base, b)
    BY <1>1 DEF SignatureValid
  <2>2. /\ ImageAt(mem, base, said) =
             [version |-> said.version, body |-> b.body, signature |-> b.signature]
        /\ ImageAt(mem, base, said) \in Images
        /\ ImageAt(mem, base, said) # NoFirmware
    BY <2>1, ImageIsSigned
  <2> QED
    BY <1>1, <2>2
<1>2. CASE ~SignatureValid(mem, base, said)
  BY <1>2 DEF ImageAt
<1> QED
  BY <1>1, <1>2

(* The image in flash has the version that main reads there.               *)
FlashKnown ==
  /\ ImageInFlash \in Images \cup {NoFirmware}
  /\ ImageInFlash # NoFirmware => ImageInFlash.version = InfoInFlash.version

(* What has been accepted is an image of the version that was compared.    *)
BufferKnown ==
  /\ bl \notin Flashing => ImageInBuffer = NoFirmware
  /\ bl \in Flashing =>
       /\ ImageInBuffer \in Images /\ ImageInBuffer # NoFirmware
       /\ ImageInBuffer.version = update_info.version

LoadedKnown ==
  bl \in {"SwitchToApplication", "Application"} => ImageInFlash # NoFirmware

(* The header is the first thing to go.                                    *)
HeaderGone == bl = "UpdateFW" /\ cursor > StartPage => ImageInFlash = NoFirmware

(* All of the pending image that is not erased anyway has been programmed. *)
Complete ==
  /\ cursor > InfoCells
  /\ \A i \in 1 .. Len(ImageInBuffer.body) :
       cursor < InfoCells + i => ImageInBuffer.body[i] = Erased

(* Half an image passes for none, and no cell is missing in the end.       *)
ImageComing ==
  bl = "WriteFW" =>
    /\ ImageInFlash = IF Complete THEN ImageInBuffer ELSE NoFirmware
    /\ cursor >= CellsToProgram(bytes_written) => Complete

Known == FlashKnown /\ BufferKnown /\ LoadedKnown /\ HeaderGone /\ ImageComing

LEMMA ImagesAreKnown ==
  ASSUME PInv
  PROVE  FlashKnown /\ BufferKnown /\ LoadedKnown
<1>1. InfoInFlash.version \in 0 .. ErasedWord /\ update_info.version \in 0 .. ErasedWord
  BY HeaderInFlash DEF PInv, IInv, TypeOK, FlashTypeOK, FirmwareInfo, InfoInFlash
<1>2. FlashKnown
  BY <1>1, ImageIsKnown DEF FlashKnown, ImageInFlash, InfoInFlash
<1>3. BufferKnown
  <2>1. bl \in Flashing => SignatureValid(fw_buffer, InfoCells, update_info)
    BY DEF PInv, IInv, UpdateChecked
  <2> QED
    BY <1>1, <2>1, ImageIsKnown DEF BufferKnown, ImageInBuffer
<1>4. LoadedKnown
  BY <1>1, ImageIsKnown
     DEF LoadedKnown, PInv, Loaded, FlashVerified, ImageInFlash, InfoInFlash
<1> QED
  BY <1>2, <1>3, <1>4

(* After the first page nothing in flash passes for an image: the header   *)
(* is in that page, and no image is as long as an erased size.             *)
LEMMA HeaderGoes ==
  ASSUME Releases, IInv, bl = "UpdateFW", cursor > StartPage
  PROVE  ImageInFlash = NoFirmware
<1>1. /\ cursor \in Nat /\ StartPage + 1 <= cursor
      /\ \A a \in ErasedFrom .. cursor * PageCells - 1 : flash[a] = Erased
  BY BootAssumption DEF IInv, ErasedSoFar, TypeOK, FlashTypeOK
<1>2. FwStart <= cursor * PageCells /\ cursor * PageCells \in Nat
  BY <1>1, ProductMonotone, BootAssumption, FlashAssumption DEF FwStart
<1>3. flash[FwInfoStart + 2] = Erased /\ flash[FwInfoStart + 3] = Erased
  BY <1>1, <1>2, Layout
<1>4. InfoInFlash.size = ErasedWord
  BY <1>3 DEF InfoInFlash, ReadInfo, ErasedWord
<1>5. ASSUME NEW b \in Builds PROVE Len(b.body) # ErasedWord
  <2>1. FwStart + Len(b.body) <= ErasedEnd /\ Len(b.body) \in Nat
    BY ImageAssumption DEF Releases, ImagesFit
  <2>2. ErasedWord \in Int /\ FlashEnd <= ErasedWord
    BY FlashAssumption DEF Releases, WordAddressed, ErasedWord, Word, Erased
  <2>3. FwStart \in Nat /\ FwStart > 0 /\ ErasedEnd <= FlashEnd
        /\ ErasedEnd \in Nat /\ FlashEnd \in Nat
    BY Layout
  <2> QED
    BY <2>1, <2>2, <2>3
<1>6. ~SignatureValid(flash, FwStart, InfoInFlash)
  BY <1>4, <1>5 DEF SignatureValid
<1> QED
  BY <1>6 DEF ImageInFlash, ImageAt, InfoInFlash

(* A header is copied when its cells are.                                  *)
LEMMA HeaderCopied ==
  ASSUME \A i \in 0 .. InfoCells - 1 : flash[FwInfoStart + i] = fw_buffer[i]
  PROVE  ReadInfo(flash, FwInfoStart) = ReadInfo(fw_buffer, 0)
<1>1. /\ flash[FwInfoStart] = fw_buffer[0]
      /\ flash[FwInfoStart + 1] = fw_buffer[0 + 1]
      /\ flash[FwInfoStart + 2] = fw_buffer[0 + 2]
      /\ flash[FwInfoStart + 3] = fw_buffer[0 + 3]
  <2>1. \A i \in 0 .. 3 : flash[FwInfoStart + i] = fw_buffer[i]
    BY Layout
  <2> QED
    BY <2>1, Layout
<1>2. \A i \in 1 .. SigCells : flash[FwInfoStart + 3 + i] = fw_buffer[0 + 3 + i]
  <2>1. \A i \in 1 .. SigCells : flash[FwInfoStart + 3 + i] = fw_buffer[3 + i]
    BY Layout, ImageAssumption DEF InfoCells
  <2> QED
    BY <2>1, ImageAssumption
<1> QED
  BY <1>1, <1>2 DEF ReadInfo

(* While the image is written, its cells are the file's up to cursor and   *)
(* erased from there on.                                                   *)
LEMMA ImageComes ==
  ASSUME Releases, IInv, bl = "WriteFW"
  PROVE  /\ ImageInFlash = IF Complete THEN ImageInBuffer ELSE NoFirmware
         /\ cursor >= CellsToProgram(bytes_written) => Complete
<1>1. PICK p \in Builds :
        p.signature = update_info.signature /\ Len(p.body) = update_info.size
          /\ BodyAt(fw_buffer, InfoCells, p)
  BY DEF IInv, UpdateChecked, SignatureValid, Flashing
<1>2. /\ bytes_written \in InfoCells .. MaxFw /\ cursor \in Nat
      /\ p.body \in Seq(Cell) /\ Len(p.body) \in Nat /\ Len(p.body) >= 1
      /\ FwStart + Len(p.body) <= ErasedEnd
      /\ SigCells \in Nat
  <2>1. bytes_written \in InfoCells .. MaxFw /\ cursor \in Nat
    BY DEF IInv, Buffered, TypeOK, FlashTypeOK, Flashing
  <2>2. p.body \in Seq(Cell) /\ p.body # <<>> /\ FwStart + Len(p.body) <= ErasedEnd
    BY ImageAssumption DEF Releases, VectorTables, ImagesFit
  <2> QED
    BY <2>1, <2>2, ImageAssumption
<1>3. /\ Len(p.body) < MaxFw - InfoCells /\ update_info = ReadInfo(fw_buffer, 0)
      /\ update_info.version \in 0 .. ErasedWord
  BY <1>1 DEF IInv, UpdateChecked, HeaderAccepted, Flashing, TypeOK, FirmwareInfo
(* The last cell of the body has been received: it is not a zero.          *)
<1>4. InfoCells + Len(p.body) <= bytes_written
  <2> DEFINE last == InfoCells + Len(p.body) - 1
  <2>1. p.body[Len(p.body)] # 0
    BY <1>2 DEF Releases, NoZeroEnd
  <2>2. fw_buffer[last] # 0
    BY <1>1, <1>2, <2>1 DEF BodyAt
  <2>3. last \in 0 .. MaxFw - 1
    <3>1. InfoCells \in Nat /\ MaxFw \in Nat
      BY Layout, BootAssumption
    <3> QED
      BY <1>2, <1>3, <3>1
  <2> QED
    BY <1>2, <2>2, <2>3, Layout DEF IInv, ZeroTail
<1>5. ASSUME NEW i \in 0 .. InfoCells + Len(p.body) - 1
      PROVE  flash[FwInfoStart + i] = IF i < cursor THEN fw_buffer[i] ELSE Erased
  <2>1. i \in 0 .. ErasedEnd - FwInfoStart - 1 /\ i < bytes_written
    BY <1>2, <1>4, Layout
  <2>2. flash[FwInfoStart + i] =
          IF i < cursor THEN SourceCell(fw_buffer, bytes_written, i) ELSE Erased
    BY <2>1 DEF IInv, WrittenSoFar
  <2> QED
    BY <2>1, <2>2 DEF SourceCell
<1>6. ASSUME NEW i \in 1 .. Len(p.body)
      PROVE  flash[FwStart + i - 1] =
               IF cursor >= InfoCells + i THEN p.body[i] ELSE Erased
  <2> DEFINE n == InfoCells + i - 1
  <2>1. /\ n \in 0 .. InfoCells + Len(p.body) - 1 /\ FwInfoStart + n = FwStart + i - 1
        /\ n < cursor <=> cursor >= InfoCells + i
        /\ fw_buffer[n] = p.body[i]
    BY <1>1, <1>2, Layout DEF BodyAt
  <2>2. flash[FwInfoStart + n] = IF n < cursor THEN fw_buffer[n] ELSE Erased
    BY <1>5, <2>1
  <2> HIDE DEF n
  <2> QED
    BY <2>1, <2>2
<1>7. ImageInBuffer = [version   |-> update_info.version, body |-> p.body,
                       signature |-> p.signature]
  BY <1>1, <1>3, ImageIsSigned DEF ImageInBuffer, Flashing
<1>8. CASE cursor > InfoCells
  <2>1. InfoInFlash = update_info
    <3>1. \A i \in 0 .. InfoCells - 1 : flash[FwInfoStart + i] = fw_buffer[i]
      BY <1>2, <1>5, <1>8, Layout
    <3> QED
      BY <1>3, <3>1, HeaderCopied DEF InfoInFlash
  <2>2. BodyAt(flash, FwStart, p) <=> Complete
    <3>1. ASSUME NEW i \in 1 .. Len(p.body)
          PROVE  flash[FwStart + i - 1] = p.body[i]
                   <=> (cursor < InfoCells + i => p.body[i] = Erased)
      <4>1. cursor < InfoCells + i <=> ~(cursor >= InfoCells + i)
        BY <1>2, Layout
      <4> QED
        BY <1>6, <4>1
    <3> QED
      BY <1>7, <1>8, <3>1 DEF BodyAt, Complete
  <2>3. CASE Complete
    BY <1>1, <1>3, <1>7, <2>1, <2>2, <2>3, ImageIsSigned DEF ImageInFlash, InfoInFlash
  <2>4. ASSUME cursor >= CellsToProgram(bytes_written) PROVE Complete
    <3>1. cursor >= bytes_written
      BY <1>2, <2>4, Layout DEF CellsToProgram
    <3>2. \A i \in 1 .. Len(p.body) : ~(cursor < InfoCells + i)
      BY <1>2, <1>4, <3>1, Layout
    <3> QED
      BY <1>7, <1>8, <3>2 DEF Complete
  <2>5. CASE ~Complete
    <3>1. ~SignatureValid(flash, FwStart, InfoInFlash)
      <4> SUFFICES ASSUME SignatureValid(flash, FwStart, InfoInFlash) PROVE FALSE
        OBVIOUS
      <4>1. PICK b \in Builds :
               b.signature = p.signature /\ BodyAt(flash, FwStart, b)
        BY <1>1, <2>1 DEF SignatureValid
      <4>2. b.body = p.body
        BY <4>1 DEF Releases, SignaturesSound
      <4> QED
        BY <2>2, <2>5, <4>1, <4>2 DEF BodyAt
    <3> QED
      BY <2>4, <2>5, <3>1 DEF ImageInFlash, ImageAt, InfoInFlash
  <2> QED
    BY <2>3, <2>4, <2>5
<1>9. CASE ~(cursor > InfoCells)
  <2>1. flash[FwStart] = Erased
    <3> DEFINE i == InfoCells
    <3>1. i \in 0 .. InfoCells + Len(p.body) - 1 /\ ~(i < cursor)
      BY <1>2, <1>9, Layout
    <3>2. flash[FwInfoStart + i] = Erased
      BY <1>5, <3>1
    <3> QED
      BY <3>2, Layout
  <2>2. ~SignatureValid(flash, FwStart, InfoInFlash)
    <3> SUFFICES ASSUME SignatureValid(flash, FwStart, InfoInFlash) PROVE FALSE
      OBVIOUS
    <3>1. PICK b \in Builds : BodyAt(flash, FwStart, b)
      BY DEF SignatureValid
    <3>2. b.body \in Seq(Cell) /\ b.body # <<>> /\ b.body[1] # Erased
      BY ImageAssumption DEF Releases, VectorTables
    <3>3. 1 \in 1 .. Len(b.body) /\ FwStart + 1 - 1 = FwStart
      BY <3>2, Layout
    <3> QED
      BY <2>1, <3>1, <3>2, <3>3 DEF BodyAt
  <2>3. ~(cursor >= CellsToProgram(bytes_written))
    BY <1>2, <1>4, <1>9, Layout DEF CellsToProgram
  <2>4. ~Complete
    BY <1>9 DEF Complete
  <2> QED
    BY <2>2, <2>3, <2>4 DEF ImageInFlash, ImageAt, InfoInFlash
<1> QED
  BY <1>8, <1>9

(* All of it follows from the invariant.                                   *)
LEMMA WhatIsKnown == Releases /\ PInv => Known
<1> SUFFICES ASSUME Releases, PInv PROVE Known
  OBVIOUS
<1>1. HeaderGone
  BY HeaderGoes DEF HeaderGone, PInv
<1>2. ImageComing
  BY ImageComes DEF ImageComing, PInv
<1> QED
  BY <1>1, <1>2, ImagesAreKnown DEF Known
-----------------------------------------------------------------------------
(* The refinement mapping, step by step.                                   *)

(* The mapped variables move only with what they are made of.              *)
LEMMA ImagesKept ==
  /\ flash' = flash => ImageInFlash' = ImageInFlash
  /\ (bl' \in Flashing <=> bl \in Flashing) /\ UNCHANGED <<fw_buffer, update_info>>
       => ImageInBuffer' = ImageInBuffer
<1>1. ASSUME flash' = flash PROVE ImageInFlash' = ImageInFlash
  <2>1. ReadInfo(flash, FwInfoStart)' = ReadInfo(flash, FwInfoStart)
    BY <1>1 DEF ReadInfo
  <2>2. SignatureValid(flash, FwStart, ReadInfo(flash, FwInfoStart))'
          <=> SignatureValid(flash, FwStart, ReadInfo(flash, FwInfoStart))
    BY <1>1, <2>1 DEF SignatureValid, BodyAt
  <2> QED
    BY <1>1, <2>1, <2>2 DEF ImageInFlash, ImageAt, NoFirmware
<1>2. (bl' \in Flashing <=> bl \in Flashing) /\ UNCHANGED <<fw_buffer, update_info>>
        => ImageInBuffer' = ImageInBuffer
  BY DEF ImageInBuffer, ImageAt, SignatureValid, BodyAt, NoFirmware
<1> QED
  BY <1>1, <1>2

(* Steps of the update loop that are none of the owner's business.         *)
Invisible ==
  \/ Quiet /\ ~JumpToFirmware
  \/ \E pkt \in Packets : ReceiveFW(pkt)
  \/ FinishErase
  \/ UNCHANGED vars

(* They change nothing the owner sees.                                     *)
LEMMA InvisibleStutters ==
  ASSUME Known, Known', Invisible
  PROVE  UNCHANGED Promise!vars
<1>1. UNCHANGED <<flash, info>>
  BY DEF Invisible, Quiet, Tick, CheckForTimeout, SyncObserved, WaitingForUpdateReq,
     FWLengthReq, FWLengthRes, ReceiveFW, FinishErase, LeaveLoop, VerifyApplication,
     vars, loopVars
<1>2. /\ bl' \in Flashing <=> bl \in Flashing
      /\ bl' = "Application" <=> bl = "Application"
  BY DEF Invisible, Quiet, Tick, CheckForTimeout, SyncObserved, WaitingForUpdateReq,
     FWLengthReq, FWLengthRes, ReceiveFW, FinishErase, LeaveLoop, VerifyApplication,
     vars, Flashing, Waiting, Looping
<1>3. ImageInFlash' = ImageInFlash
  BY <1>1, ImagesKept
<1>4. ImageInBuffer' = ImageInBuffer
  <2>1. CASE bl \in Flashing
    <3>1. UNCHANGED <<fw_buffer, update_info>>
      BY <2>1 DEF Invisible, Quiet, Tick, CheckForTimeout, SyncObserved, WaitingForUpdateReq,
         FWLengthReq, FWLengthRes, ReceiveFW, FinishErase, LeaveLoop, VerifyApplication,
         vars, loopVars, Flashing
    <3> QED
      BY <1>2, <3>1, ImagesKept
  <2>2. CASE bl \notin Flashing
    BY <1>2, <2>2 DEF Known, BufferKnown, NoFirmware
  <2> QED
    BY <2>1, <2>2
<1>5. info.version' = info.version
  BY <1>1
<1>6. (bl = "Application")' = (bl = "Application")
  BY <1>2
<1> QED
  BY <1>3, <1>4, <1>5, <1>6 DEF Promise!vars

(* A reset drops what was pending.                                         *)
LEMMA ResetRestarts ==
  ASSUME PInv, Known, Known', Reset
  PROVE  Promise!Restart
<1>1. /\ flash' = flash /\ bl' = "Sync" /\ info' = InfoInFlash
  BY DEF Reset, InfoInFlash
<1>2. (bl = "Application")' = FALSE
  BY <1>1
<1>3. ImageInBuffer' = NoFirmware
  BY <1>1 DEF Known, BufferKnown, Flashing, NoFirmware
<1>4. info.version' \in Nat /\ info.version' >= info.version
  BY <1>1, HeaderInFlash DEF PInv, IInv, FloorKept, TypeOK, FlashTypeOK, InfoInFlash
<1>5. ImageInFlash # NoFirmware => info.version' = ImageInFlash.version
  BY <1>1 DEF Known, FlashKnown
<1>6. ImageInFlash' = ImageInFlash
  BY <1>1, ImagesKept
<1> QED
  BY <1>2, <1>3, <1>4, <1>5, <1>6 DEF Promise!Restart

(* An update that passes the checks is accepted, any other goes unnoticed. *)
LEMMA CheckAccepts ==
  ASSUME Known, Known', CheckSignature
  PROVE  Promise!Accept \/ UNCHANGED Promise!vars
<1>1. /\ flash' = flash /\ info' = info
      /\ bl = "CheckSignature" /\ bl' \in {"UpdateFW", "UpdateFailure"}
  BY DEF CheckSignature
<1>2. ImageInFlash' = ImageInFlash /\ info.version' = info.version
  BY <1>1, ImagesKept
<1>3. (bl = "Application") = FALSE /\ (bl = "Application")' = FALSE
  BY <1>1
<1>4. ImageInBuffer = NoFirmware
  BY <1>1 DEF Known, BufferKnown, Flashing, NoFirmware
<1>5. CASE bl' = "UpdateFW"
  <2>1. /\ ImageInBuffer' \in Images
        /\ ImageInBuffer'.version = update_info'.version
    BY <1>5 DEF Known, BufferKnown, Flashing, Images
  <2>2. update_info'.version > info.version
    BY <1>5 DEF CheckSignature, HeaderAccepted
  <2>3. ImageInBuffer'.version > info.version
    BY <2>1, <2>2
  <2> QED
    BY <1>2, <1>3, <1>4, <2>1, <2>3 DEF Promise!Accept
<1>6. CASE bl' = "UpdateFailure"
  <2>1. ImageInBuffer' = NoFirmware
    BY <1>6 DEF Known, BufferKnown, Flashing, NoFirmware
  <2> QED
    BY <1>2, <1>3, <1>4, <2>1 DEF Promise!vars
<1> QED
  BY <1>1, <1>5, <1>6

(* The first page erased takes the old image, the others nothing more.     *)
LEMMA EraseRemoves ==
  ASSUME PInv, Known, Known', EraseFirmware
  PROVE  Promise!Remove \/ UNCHANGED Promise!vars
<1>1. /\ bl = "UpdateFW" /\ bl' = "UpdateFW"
      /\ update_info' = update_info /\ fw_buffer' = fw_buffer /\ info' = info
  BY DEF EraseFirmware, loopVars
<1>2. ImageInBuffer' = ImageInBuffer
  BY <1>1, ImagesKept
<1>3. /\ info.version' = info.version
      /\ (bl = "Application")' = (bl = "Application")
  BY <1>1
<1>4. ImageInFlash' = NoFirmware
  <2>1. cursor \in StartPage .. EndPage + 1
    BY DEF PInv, IInv, ErasedSoFar, EraseFirmware
  <2>2. cursor' > StartPage
    BY <2>1, BootAssumption DEF EraseFirmware, EraseNextPage
  <2> QED
    BY <1>1, <2>2 DEF Known, HeaderGone, NoFirmware
<1>5. ImageInBuffer # NoFirmware
  BY <1>1 DEF Known, BufferKnown, Flashing
<1>6. CASE ImageInFlash = NoFirmware
  BY <1>2, <1>3, <1>4, <1>6 DEF Promise!vars
<1>7. CASE ImageInFlash # NoFirmware
  BY <1>2, <1>3, <1>4, <1>5, <1>7 DEF Promise!Remove
<1> QED
  BY <1>6, <1>7

(* Some cell programmed completes the pending image, the others go         *)
(* unnoticed: half of it is never taken for a firmware.                    *)
LEMMA WriteInstalls ==
  ASSUME PInv, Known, Known', WriteFirmware
  PROVE  Promise!Install \/ UNCHANGED Promise!vars
<1>1. /\ bl = "WriteFW" /\ bl' = "WriteFW"
      /\ update_info' = update_info /\ info' = info /\ fw_buffer' = fw_buffer
  BY DEF WriteFirmware, loopVars
<1>2. ImageInBuffer' = ImageInBuffer /\ ImageInBuffer # NoFirmware
  BY <1>1, ImagesKept DEF Known, BufferKnown, Flashing
<1>3. /\ info.version' = info.version
      /\ (bl = "Application")' = (bl = "Application")
  BY <1>1
<1>4. ImageInFlash = IF Complete THEN ImageInBuffer ELSE NoFirmware
  BY <1>1 DEF Known, ImageComing
<1>5. ImageInFlash' = IF Complete' THEN ImageInBuffer ELSE NoFirmware
  BY <1>1, <1>2 DEF Known, ImageComing, NoFirmware
<1>6. Complete => Complete'
  <2>1. cursor \in Nat /\ cursor' = cursor + 1 /\ InfoCells \in Nat
    BY Layout DEF WriteFirmware, ProgramNextCell, PInv, IInv, TypeOK, FlashTypeOK
  <2>2. ImageInBuffer'.body = ImageInBuffer.body
    BY <1>2
  <2> QED
    BY <2>1, <2>2 DEF Complete
<1>7. CASE ImageInFlash' = ImageInFlash
  BY <1>2, <1>3, <1>7 DEF Promise!vars
<1>8. CASE ImageInFlash' # ImageInFlash
  <2>1. ImageInFlash = NoFirmware /\ ImageInFlash' = ImageInBuffer
    BY <1>4, <1>5, <1>6, <1>8
  <2> QED
    BY <1>2, <1>3, <2>1 DEF Promise!Install
<1> QED
  BY <1>7, <1>8

(* When the last cell has been programmed the installation is complete.    *)
LEMMA FinishCompletes ==
  ASSUME Known, Known', FinishWrite
  PROVE  Promise!Complete
<1>1. /\ bl = "WriteFW" /\ bl' = "UpdateSuccess" /\ flash' = flash /\ info' = info
      /\ cursor >= CellsToProgram(bytes_written)
  BY DEF FinishWrite, loopVars
<1>2. ImageInBuffer # NoFirmware
  BY <1>1 DEF Known, BufferKnown, Flashing
<1>3. ImageInFlash = ImageInBuffer
  BY <1>1 DEF Known, ImageComing
<1>4. ImageInBuffer' = NoFirmware
  BY <1>1 DEF Known, BufferKnown, Flashing, NoFirmware
<1>5. ImageInFlash' = ImageInFlash
  BY <1>1, ImagesKept
<1>6. info.version' = info.version /\ (bl = "Application")' = (bl = "Application")
  BY <1>1
<1> QED
  BY <1>2, <1>3, <1>4, <1>5, <1>6 DEF Promise!Complete

(* Control goes to an image.                                               *)
LEMMA JumpRuns ==
  ASSUME Known, Known', JumpToFirmware
  PROVE  Promise!Run
<1>1. /\ bl = "SwitchToApplication" /\ bl' = "Application"
      /\ flash' = flash /\ info' = info
  BY DEF JumpToFirmware, loopVars
<1>2. ImageInFlash # NoFirmware
  BY <1>1 DEF Known, LoadedKnown
<1>3. ImageInFlash' = ImageInFlash
  BY <1>1, ImagesKept
<1>4. ImageInBuffer = NoFirmware /\ ImageInBuffer' = NoFirmware
  BY <1>1 DEF Known, BufferKnown, Flashing, NoFirmware
<1>5. /\ info.version' = info.version
      /\ (bl = "Application") = FALSE /\ (bl = "Application")' = TRUE
  BY <1>1
<1> QED
  BY <1>2, <1>3, <1>4, <1>5 DEF Promise!Run

(* A board starts as SecureBoot does.                                      *)
LEMMA InitPromises ==
  ASSUME Releases, Init
  PROVE  Promise!Init
<1>1. PInv /\ Known
  BY InitInv, WhatIsKnown DEF PInv, Loaded, Init
<1>2. bl = "Sync" /\ info = InfoInFlash /\ flash \in [Addr -> Cell]
  BY <1>1 DEF Init, PInv, IInv, TypeOK, FlashTypeOK, InfoInFlash
<1>3. ImageInFlash \in Images \cup {NoFirmware}
  BY <1>1 DEF Known, FlashKnown
<1>4. ImageInBuffer = NoFirmware /\ ~(bl = "Application")
  BY <1>1, <1>2 DEF Known, BufferKnown, Flashing
<1>5. info.version \in Nat
  BY <1>2, HeaderInFlash DEF InfoInFlash
<1>6. ImageInFlash # NoFirmware => info.version = ImageInFlash.version
  BY <1>1, <1>2 DEF Known, FlashKnown
<1> QED
  BY <1>3, <1>4, <1>5, <1>6 DEF Promise!Init

(* Every step is one of SecureBoot, or none.                               *)
LEMMA StepPromises ==
  ASSUME Releases, PInv, PInv', [Next]_vars
  PROVE  [Promise!Next]_(Promise!vars)
<1>1. Known /\ Known'
  <2>1. Releases'
    BY DEF Releases, ImagesFit, NoZeroEnd, SignaturesSound, VectorTables, WordAddressed
  <2> QED
    BY <2>1, WhatIsKnown, PTL
<1>2. CASE Invisible
  BY <1>1, <1>2, InvisibleStutters
<1>3. CASE Reset
  BY <1>1, <1>3, ResetRestarts DEF Promise!Next
<1>4. CASE CheckSignature
  BY <1>1, <1>4, CheckAccepts DEF Promise!Next
<1>5. CASE EraseFirmware
  BY <1>1, <1>5, EraseRemoves DEF Promise!Next
<1>6. CASE WriteFirmware
  BY <1>1, <1>6, WriteInstalls DEF Promise!Next
<1>7. CASE FinishWrite
  BY <1>1, <1>7, FinishCompletes DEF Promise!Next
<1>8. CASE JumpToFirmware
  BY <1>1, <1>8, JumpRuns DEF Promise!Next
<1> QED
  BY <1>2, <1>3, <1>4, <1>5, <1>6, <1>7, <1>8
     DEF Next, Receive, Compute, Invisible, Quiet

(* The bootloader implements SecureBoot on every board, with every set of  *)
(* releases and whatever packets it is sent, forged headers and lengths    *)
(* among them.                                                             *)
THEOREM BootKeepsPromise ==
  ASSUME Releases
  PROVE  Spec => KeepsPromise
<1>1. Init => Loaded
  BY DEF Init, Loaded
<1>2. IInv /\ Loaded /\ [Next]_vars => Loaded'
  BY StepLoaded DEF Releases
<1>3. Init => Promise!Init
  BY InitPromises
<1>4. IInv /\ IInv' /\ Loaded /\ Loaded' /\ [Next]_vars =>
        [Promise!Next]_(Promise!vars)
  BY StepPromises DEF PInv
<1> QED
  BY <1>1, <1>2, <1>3, <1>4, Invariance, PTL DEF Spec, KeepsPromise, Promise!Spec
=============================================================================
