----------------------------- MODULE RingBuffer -----------------------------
(***************************************************************************)
(* util/ring-buffer.c between its two users in driver/uart.c: the receive  *)
(* interrupt writes, the main loop polls and reads.                        *)
(*                                                                         *)
(* usart2_isr may run between any two instructions of the main loop, which *)
(* never runs inside it: a write is one action, a read is four.  The       *)
(* indices are aligned 32-bit words, loaded and stored in one instruction. *)
(***************************************************************************)
EXTENDS Integers, Sequences

CONSTANTS
  Byte,
  Size        \* UART_RING_BUFFER_SIZE

(* `x & mask` is x % Size only for a power of two; UART_RING_BUFFER_SIZE   *)
(* is 256.                                                                 *)
ASSUME RingAssumption ==
  /\ Size \in Nat /\ Size >= 2 /\ \E k \in 1 .. 32 : Size = 2 ^ k
  /\ Byte # {}

VARIABLES
  buffer, reader_index, writer_index,
  pc,          \* what the main loop does next
  fetched,     \* *output of RingBuffer_read_byte
  byte         \* what uart_read_byte returned last

ringVars == <<buffer, reader_index, writer_index, pc, fetched, byte>>

Index == 0 .. Size - 1

(* Mutant: the index is not masked.                                        *)
NextIndexUnmasked(i) == i + 1

NextIndex(i) == (i + 1) % Size

(* RingBuffer_setup; what is on the stack and in the array is arbitrary.   *)
RingInit ==
  /\ reader_index = 0 /\ writer_index = 0
  /\ buffer \in [Index -> Byte] /\ fetched \in Byte /\ byte \in Byte
  /\ pc = "poll"

(* Mutant: a full ring is not noticed.                                     *)
WriteByteAlways(b) ==
  /\ buffer' = [buffer EXCEPT ![writer_index] = b]
  /\ writer_index' = NextIndex(writer_index)
  /\ UNCHANGED <<reader_index, pc, fetched, byte>>

(* usart2_isr: the byte is dropped, and nobody told, when the ring is full. *)
WriteByte(b) ==
  /\ NextIndex(writer_index) # reader_index
  /\ buffer' = [buffer EXCEPT ![writer_index] = b]
  /\ writer_index' = NextIndex(writer_index)
  /\ UNCHANGED <<reader_index, pc, fetched, byte>>

(* Mutant: a caller that reads without polling.                            *)
DataNotAwaited ==
  /\ pc = "poll"
  /\ pc' = "compare"
  /\ UNCHANGED <<buffer, reader_index, writer_index, fetched, byte>>

(* Every reader calls uart_read_byte right after uart_data_available.      *)
DataAvailable ==
  /\ pc = "poll" /\ reader_index # writer_index
  /\ pc' = "compare"
  /\ UNCHANGED <<buffer, reader_index, writer_index, fetched, byte>>

(* On "empty" uart_read_byte returns the uninitialised byte of its frame.  *)
CompareIndices ==
  /\ pc = "compare"
  /\ pc' = IF reader_index = writer_index THEN "uninitialised" ELSE "fetch"
  /\ UNCHANGED <<buffer, reader_index, writer_index, fetched, byte>>

FetchByte ==
  /\ pc = "fetch"
  /\ fetched' = buffer[reader_index]
  /\ pc' = "publish"
  /\ UNCHANGED <<buffer, reader_index, writer_index, byte>>

(* Mutant: the index published is the one that was loaded.                 *)
PublishOldIndex ==
  /\ pc = "publish"
  /\ byte' = fetched /\ pc' = "poll"
  /\ UNCHANGED <<buffer, reader_index, writer_index, fetched>>

(* The cell is the writer's again.                                         *)
PublishIndex ==
  /\ pc = "publish"
  /\ reader_index' = NextIndex(reader_index)
  /\ byte' = fetched /\ pc' = "poll"
  /\ UNCHANGED <<buffer, writer_index, fetched>>

ReadByte == DataAvailable \/ CompareIndices \/ FetchByte \/ PublishIndex

RingNext == ReadByte \/ \E b \in Byte : WriteByte(b)

(* The main loop keeps polling; the interrupt owes nobody a byte.          *)
RingSpec == RingInit /\ [][RingNext]_ringVars /\ WF_ringVars(ReadByte)

-----------------------------------------------------------------------------
RingTypeOK ==
  /\ buffer \in [Index -> Byte]
  /\ reader_index \in Index /\ writer_index \in Index
  /\ pc \in {"poll", "compare", "fetch", "publish", "uninitialised"}
  /\ fetched \in Byte /\ byte \in Byte

(* uart_read_byte, which ignores the result of RingBuffer_read_byte, never *)
(* returns a byte nobody sent.                                             *)
NeverUninitialised == pc # "uninitialised"

(* Each byte that waits is handed over, however many come in meanwhile.    *)
WaitingIsTaken ==
  \A i \in Index : reader_index = i /\ writer_index # i ~> reader_index # i

(* The bytes between the indices, oldest first.                            *)
Used    == (writer_index - reader_index) % Size
Waiting == [i \in 1 .. Used |-> buffer[(reader_index + i - 1) % Size]]

Queue == INSTANCE ByteQueue WITH
  Capacity <- Size - 1, waiting <- Waiting, taken <- byte

(* The ring is a bounded queue of Size - 1 bytes, whatever the interrupt   *)
(* does between the instructions of a read.                                *)
IsByteQueue == Queue!Spec
==============================================================================
