# embed-pfs: a verification project

TLA+ modules, TLC configurations and TLAPS proofs for the secure bootloader of
this repository (STM32F103, C), the link to its firmware updater (Rust), and
the libraries under the bootloader: timer, SHA-256, base64, ECDSA.
Everything is translated from the source; line numbers of each definition are
in `PROJECT.json` under `map`.

## 1. The system

A board holds a bootloader (offsets 0 to 0x3FFF of the flash) and an
application (from 0x4000). The 72 bytes that end the bootloader section,
0x3FB8 to 0x3FFF, are the header of the application: version, size, ECDSA
signature. After every reset the bootloader reads that header, waits up to 5 s
for an updater on the UART, receives, verifies and installs an update if one
is offered, and then verifies and starts the application or stops.

| Component | Source | State | Operations |
|---|---|---|---|
| Boot and update state machine | `boot/bootloader.c`, `boot/*.h` | `boot_state`, `finfo`, `fw_buffer`, `fw_length`, `bytes_written`, `update_info`, a timer | `main`, one iteration of `check_for_firmware_update` per BLState, `verify_firmware`, `jump_to_firmware` |
| Flash controller | `driver/flash-controller.c` | the flash array | `flash_erase_section`, `flash_write` |
| Signed image | `scripts/add-fw-info.py`, `read_firmware_info`, `verify_firmware_signature` | none | layout, header parsing, signature check |
| Packet layer | `driver/comms.c` | framing state and counters, `temp_packet`, `prev_packet`, packet buffer and its two indices | `comms_update`, `comms_write`, `comms_read`, `comms_is_packet_available` |
| UART receive ring | `driver/uart.c`, `util/ring-buffer.c` | array and two indices, shared by interrupt and main loop | `usart2_isr`, `uart_data_available`, `uart_read_byte` |
| Timer, SysTick | `driver/timer.c`, `driver/systick.c` | `ticks`, `end_time`, `elapsed` | `sys_tick_handler`, `Timer_setup`, `Timer_reset`, `Timer_has_elapsed`, `systick_delay` |
| Host updater | `firmware-updater/src/main.rs` | packet queue, `prev_packet`, position in `main` | sync, wait for a control packet, send a packet, poll the port |
| SHA-256 | `util/sha256.c` | the context of one message | `ecdsa_sha256_init`, `_update`, `_final` |
| Base64, memory helpers | `util/base64.c`, `util/mem.c` | none that lasts | decode the verifying key, copy, clear |
| Multi-word arithmetic | `util/uECC.c`, `util/uECC_vli.h`, `util/curve-specific.inc` | none that lasts | `uECC_vli_*`, reduction modulo p |
| ECDSA | `util/uECC.c`, `include/uECC.h` | none that lasts | keys, `uECC_sign`, `uECC_verify` |
| Build | `Makefile`, `scripts/*` | the files it writes | pad, link, sign |

How they interact: the interrupt handler writes the ring, `comms_update` drains
it into packets, the update loop reads packets and writes replies, the loop
erases and programs the flash that `main` of the next boot reads. `SysTick`
drives the timer. The host is a separate process on the other end of the line.
To verify an image the bootloader decodes the verifying key, hashes the image
and calls `uECC_verify`, which is built on the multi-word arithmetic; these
are calls without state of their own between them.

What is hard about it, and what makes each part correct:

- **State machine.** Power can fail in the middle of erase and write; any
  packet can arrive in any state; success is announced before the flash is
  touched; the image is verified in RAM and started from flash without another
  look; nobody compares the length a packet claims with its payload. Correct:
  only verified firmware runs, versions never fall, a boot comes to an end, a
  confirmed update is kept, the bootloader's own pages survive.
- **Flash.** Programming a half word that is not erased does nothing and is
  not reported to anybody who listens. Correct: everything programmed was
  erased before.
- **Ring.** The interrupt comes between any two instructions. Correct: a
  bounded FIFO queue that loses a byte only when it is full.
- **Packet layer.** A lost byte shifts the framing; `comms_update` returns after
  any byte of a frame; ACK, RET and data share one `prev_packet`. Correct: only
  what was sent is delivered, once and in order; what was acknowledged is kept;
  on a clean line everything arrives.
- **Host and bootloader together.** Retries and timeouts on both ends, and no
  sequence numbers: a lost or garbled answer makes the other end send again
  what was already taken. Correct: a success the host reports is one; nothing
  hangs on either end; on a clean line the two ends agree and an acceptable
  file is installed.
- **Timer.** A counter of 32 bits that wraps, timers that are asked late and
  irregularly. Correct: a timer is found elapsed once for every period, neither
  early nor with a drift; a delay is never too short.
- **SHA-256, base64.** Buffers that carry over from call to call, and the last
  group or block at every length. Correct: the digest is of the standard's
  padded message; the decoder stores exactly the bytes that were encoded.
- **Multi-word arithmetic.** Carries told from wrapped sums, values one bit
  longer than their words, a reduction with a corner at p. Correct: every
  call returns the number it stands for; the loop of the inverse ends.
- **ECDSA.** Additions that do not ask whether their points are equal or
  opposite, a scalar that must be one bit longer than n, hashes and coordinates
  that are n or more. Correct: the multiple of a point; a signature accepted
  exactly when the standard accepts it.

## 2. Modules

| Module | Models | Composes |
|---|---|---|
| `Cells` | the half words flash, buffers and payloads are made of | |
| `FlashController` | flash array; erase per page, program per half word | extends `Cells` |
| `FirmwareImage` | update file, header, signature check | extends `FlashController` |
| `Packet` | the packets of `comms.h`, as far as both ends tell them apart | extends `Cells` |
| `Bootloader` | `main` and `check_for_firmware_update` | extends `FirmwareImage`, `Packet`; instantiates `SecureBoot` |
| `SecureBoot` | abstract: whole firmware or none, versions upwards | |
| `RingBuffer` | `ring-buffer.c` between interrupt and main loop | instantiates `ByteQueue` |
| `ByteQueue` | abstract: bounded queue that hands over bytes | |
| `Comms` | `comms.c` byte by byte | |
| `SerialLine` | both directions of the line, in bursts | |
| `Updater` | one run of `main.rs` | extends `SerialLine`, `Packet` |
| `UpdateSession` | host, line, packet layer and bootloader | extends `Updater`, `Bootloader` |
| `Timer` | `timer.c` and the counter of `systick.c` | |
| `Sha256` | buffering, padding and length of `sha256.c` | |
| `Base64` | `b64decode` on the verifying key | |
| `Vli` | the multi-word arithmetic, on words; the loop of `uECC_vli_modInv` | |
| `Ecdsa` | points, keys, signing and verifying, bit by bit of the scalars | |
| `MCLibrary` | constants for TLC; a behaviour uses one of the units | extends `Timer`, `RingBuffer`, `Sha256`, `Base64`, `Vli`, which share nothing |
| `MCBootloader`, `MCComms`, `MCEcdsa` | constants for TLC | extend the module of that name |
| `MCSession` | constants for TLC | extends `SessionProofs`, so that TLC evaluates what its theorems suppose |
| `BootloaderProofs`, `CommsProofs`, `VliProofs`, `EcdsaProofs` | TLAPS proofs about the module of that name | extends it |
| `UtilProofs` | TLAPS proofs about `Sha256` and `Base64` | extends both |
| `DriverProofs` | TLAPS proofs about `Timer` and `RingBuffer` | extends both |
| `SessionProofs` | TLAPS proofs about `UpdateSession` | extends it and `BootloaderProofs` |
| `Numbers` | lemmas on induction, recursive functions, quotients and remainders | extended by the proofs that count |

### State and actions of `Bootloader`

`bl` is the BLState of the C code. `BL_UpdateFW` is split into `UpdateFW`
(erasing; `cursor` is the page) and `WriteFW` (programming; `cursor` is the half
word). `HardFault` stands for the fault handler that never returns,
`InfiniteLoop` for `infinite_loop()`, `Overrun` for a boot whose
`fw_buffer` has been written past its end, after which nothing is known.
`BL_VerifyApplication` is also what `default:` of the switch sets, so
`UpdateTimeout` and `UpdateFailure` lead there in one action (`LeaveLoop`).

One action is one iteration of the loop. `info` is `finfo`, `reply` the last
packet that the loop itself wrote. A cell of the flash is a half word, which
is the unit the controller programs; a 32-bit word is two cells and an erased
cell has the largest value, so that erased flash reads as the largest version
and size exactly as it does on the board.

`Reset` is enabled in every state: RAM is set up anew, flash is kept.

The packet layer is left open here: an iteration that finds a packet finds
any member of `Packets`. That contains every behaviour the real layer allows,
losses, repetitions and reorderings included, so the safety properties do not
depend on the link at all. A packet can claim any length from 0 to `LengthMax`
(255 in the code): `comms_update` stores whatever byte comes with a valid checksum,
and `BL_ReceiveFW` uses it as it is. What is copied from behind the payload is
an arbitrary member of `Behind`.

The timer says once that it has elapsed. After that (`Reported`) a loop that had
not left would never be told again.

### State and actions of `RingBuffer`

A write by the interrupt is atomic for the main loop (the loop never runs
inside the interrupt). A read is four actions: the poll, the loads and the
comparison of the indices, the fetch of the byte, and the store of the new
index. A byte that does not fit changes nothing and is not an action.

### State and actions of `Comms`

One iteration of the loop of `comms_update` is one byte and one action
(`AwaitLength`, `AwaitPayload`, `AwaitCRC`). Everything that follows the last
byte of a frame (compare, RET, retransmit, store and ACK, or the breakpoint,
then clearing the checksum) belongs to that action. `UpdateReturns` is the
loop condition becoming false, which it is between any two bytes (87 us each), so
it may happen at any point of a frame; `Caller` is the rest of an iteration of
the update loop. `rx` holds the bytes that have been sent and not been taken,
be they on the line or in the ring. The host sends data packets that carry a
number, and control packets; the line may drop or garble one byte of a frame.
`line` is the packet that went out last.

A byte is a token, a plain value or byte j of the checksum of a packet. The
receiver does nothing with a checksum but compare the whole of it, so this says
exactly that a window of bytes passes the check if and only if it is one whole
undamaged frame. What is left out are the collisions of CRC-32; no byte of a
real checksum has to differ from anything for that.

The indices of the packet buffer are masked as in the code. `RunsAround(n)` says
that the mask leads around in the first `n` slots, and `UsedSlots` is that n: the
mask 9 of the code goes through 2 slots of 10, so one packet fills the buffer.

### State and actions of `SerialLine`, `Updater` and `UpdateSession`

`SerialLine` carries bursts: a frame, or the four bytes of the sync sequence.
A burst that is hit arrives garbled or one byte short. Both receivers count
bytes, so what matters of an unfinished frame is how many bytes of it there are
(`bskew`, `hskew`): the next burst completes it and is spoilt, and the framing
is right again only when the bytes missing or left over add up to a whole frame.
This is the frame-by-frame view of what `Comms` does byte by byte: a return of
`comms_update` in the middle of a frame shows the caller nothing new.

`Updater`: `step` is the place in `main`, `hpc` the place in the loop that
`sync_with_bootloader` and `wait_for_cntrl_packet` share (write, sleep, poll).
`to_poll` is what was in the port when `poll_queue` began, `iterations` the time
spent in a wait. `PollQueue` is one burst of `poll_queue` with the reply to it,
`Answered` and `Unanswered` the look at the packet queue after it with all of
`main` up to the next wait.

`UpdateSession` runs the actions of `Bootloader`, on its variables, with a packet
taken from `inbox` where `Bootloader` alone takes any packet, and passes on what
the loop writes. That this is one of the behaviours of `Bootloader` is proved
(`SessionRunsBootloader`, see 5). `inbox` holds one packet (violation 3 below).
`halted` is the breakpoint.
`CommsUpdate` is one burst through `comms_update`.
The order of the next burst and the caller's read is left open, which
allows more than the board does when two frames come back to back.

Time passes only when the bootloader waits and has nothing to read. Both ends
wait for seconds; a frame takes 2 ms, a signature some 100 ms and the flash less
than a second, so no timeout runs out while the other end is at work. A tick is
one sleep of 100 ms of the host.

### State and actions of the libraries

`Timer`: `clock` is the time that a counter without a width would show, `Ticks`
the value of the code's counter. `SysTick` comes between any two calls, so a
timer is asked as late as one likes. `delay` is the call of `systick_delay`
under way.

`Sha256`: `sc` is the context with the fields of the code. `HashUpdate` passes
the next bytes of the message in pieces of any length, also of none.
`SHA256Guts` is kept apart: `hash` is the sequence of the blocks it was given.

`Base64`: `Encode` writes the text of a key as the key generator does, three bytes
in four characters. One action per group of four characters (`DecodeGroup`), then the tail
and the return. `written` is the set of the indices stored to, so that a store
outside `output[]` shows. Characters are numbers to a small base: the index
arithmetic on lengths and padding is the code's, the alphabet is abstracted.

`Vli`: an integer is a sequence of words and every operation is written on
words, with the carries found as the code finds them. A call of an operation
is one action (`CallArithmetic`, `CallModular`, `CallBits`); `uECC_vli_modInv` takes
one action per round of its loop. The assembly routines that replace addition,
subtraction and multiplication on the board are to return what the C ones do.

`Ecdsa`: field elements are numbers below p, whose arithmetic is the subject of
`Vli`; here it is exact, without the rare miss of the fast reduction (violation
6 below). The ladder of `EccPoint_mult` and the loop of `uECC_verify` take one action per
bit (`LadderStep`, `VerifyStep`); `ladder` and `shamir` hold their locals. The same
ladder serves key computation, shared secrets and signing (`ladder.caller`).
The generator of random numbers is an input: what it returns for k, and for
the Z of the first point (1 when none is set, as on the board).
`uECC_shared_secret` checks neither of its keys. That it is called with keys that
this library made (a private key from 1 to n - 1, `MadeKeys`, and the public key
of another) is a restriction on its caller, and nothing is said of other calls.
The bootloader itself calls `uECC_verify` and nothing else of all this:
`EccPoint_mult` has no caller that its program reaches, so what is shown of keys,
secrets and signing is shown of the library.

## 3. Runs

| Run | Question | Result |
|---|---|---|
| `boot_fit` | genuine files, a signed body under a forged version, packets without data and packets that claim more than they hold, all in any order: type invariant, `SwitchOnlyToVerified`, `FailureReported`, `InfoFresh`, `BootCodeIntact`, `OverrunNeedsLongFile`, `NoRollback`; does `Bootloader` implement `SecureBoot`? (`KeepsPromise`) | hold |
| `boot_live` | `DecidesUnlessFed` | holds |
| `boot_replay` | `ReplayRefused`: an old signed body under a new version is refused | violated |
| `boot_unerased` | `SwitchOnlyToVerified` with an image longer than the erased pages | violated |
| `boot_factory` | `FirstInstallAccepted`: a first update on a board from `make flash` | violated |
| `comms` | two faults, and a host that may send a packet before the last was read: type invariant, `DeliveredInOrder`, `CleanLineKeepsFrames`, `NoBreakpoint`, `AckedAreKept`, `EveryPacketIsRead` | hold |
| `comms_full` | `BreakpointMeansFull`: the breakpoint stands for a full buffer | violated |
| `session` | two faults and two resets: type invariant, `SuccessIsTrue`, `UpdateIsGenuine`, `HostEnds`, `BootEnds`, `SuccessIsInstalled`; as long as nothing has been hit: `TransferIsPrefix`, `FailureIsTrue`, `NoBreakpoint`, `CleanUpdateSucceeds` | hold |
| `session_tail` | `CleanUpdateSucceeds` with a file whose last packet is the byte 0x06 | violated |
| `library` | `TimerOnTime`, `DelayIsWhole`; of the ring its type invariant, `NeverUninitialised`, `IsByteQueue`, `WaitingIsTaken`; `DigestIsStandard`; `KeyIsDecoded`; `ArithmeticExact`, `InverseLoop`, `InverseShrinks` | hold |
| `library_fast` | `FastReductionExact`: the fast reduction modulo p returns the remainder | violated |
| `ecdsa` | `LadderIsMultiple`, `VerifyIsEcdsa`, `SignedIsAccepted` | hold |

### What the violations show

1. `boot_unerased`: pages 15 to 24 are erased, 0x3C00 to 0x63FF, but a file of
   `MAX_FW_LENGTH` starts at 0x3FB8 and ends in page 25. Images of more than
   9216 bytes pass every check; their tail is programmed onto flash that was
   not erased, and the result is started without being verified.
2. `boot_factory`: `pad-bootloader.py` leaves 0xFF in the header, which reads
   as version 0xFFFFFFFF. No update is ever newer. The README of the
   repository says to start with version 1. (An update that loses power
   between the erase and the first word leaves the board in the same state.)
3. `comms_full`: the mask of the packet buffer is 9, not a power of two minus
   one. Only slots 0 and 1 are used and one packet fills the buffer.
4. `session_tail`: a packet is a control packet by its content. A file whose
   length is 1 more than a multiple of 19 and whose last byte is 0x06 ends in a
   packet that `comms_update` takes for an ACK (0x07: for a RET) and never
   delivers. The bootloader waits for one more byte until it times out, and
   the same file fails every time.
5. `library_fast`: `vli_mmod_fast_secp256k1` folds a product into a sum of a little
   more than 256 bits and takes p off once for every carry. That gives the carry
   back only if the subtraction borrows. When the sum is p or more besides its
   carry, which happens for sums from 2^256 + p to 2 * 2^256 - 1, it does not
   borrow, and the result is short of the remainder by 2^256 - p. The run
   meets it with 204 * 3594 modulo 4073. For secp256k1 these are 2^32 + 977 sums
   next to 2^257, which no test meets and no signature either but by a chance
   that can be neglected. `ArithmeticExact` names the sums (`Folded`) and
   says what is returned for them; for all others the reduction is exact.
6. `boot_replay`: the signing script signs the body, and the bootloader compares
   the version of the header that came with it. A body of version 1 behind a
   header that claims version 4 is accepted on a board that has version 2, which
   the README of the repository says the version is there to prevent. So
   `SecureBoot` promises that the version number never falls, and that what runs is
   signed and whole; it does not promise that it is recent.

One more case is no run of its own. `boot_linker.ld` reserves 16 KiB for the
bootloader and is said to warn beyond that, but page 15, the last KiB of it, is
erased by every update. A bootloader of more than 15 KiB links without a warning
and loses its end in the first update. `BootCodeIntact` is
checked, and proved, for a bootloader that ends below page 15.

### What one or two faults do

`session` shows that none of the following makes a reported success false or
leaves an end hanging. Each is a trace TLC gives for one of the properties that
hold while nothing has been hit, when their `faults = 0` is dropped:

- An ACK of the host that is garbled is answered with a RET. The host
  resends `prev_packet`, which may by then be a data packet that the bootloader
  has already copied. It is copied twice, and the image is refused.
- A lost `UPDATE_SUCCESS`: the host reports a failure, the update takes place
  (`FailureIsTrue` is about a line that has hit nothing and does not exclude this).
- A garbled `SYN_OBSERVED`: the host sends a RET and four more sync bytes, which
  nobody expects any more and which shift the bootloader's framing by four.
  In that trace no frame is good again, and both ends time out.
- Two faults can bring two data packets to the one-packet buffer, hence to the
  breakpoint.

### What the libraries do at their edges

Not violations of anything the repository says, but worth knowing; the
properties of `library` and `ecdsa` name each of them as an exception.

- The ladder of `EccPoint_mult` cannot compute the multiples by 1, n - 2 and
  n - 1: one of its sums would be of a point and its opposite. It returns the
  point at infinity, and `uECC_compute_public_key` returns 0 for these three
  private keys although they are in the range its comment names. The set is the
  same for every curve of this form: these are the scalars for which two
  neighbouring multiples in the ladder have the same x. A signing key that
  could meet it is one in 2^254.
- `uECC_verify` adds without asking whether the points are equal or opposite.
  The Z that becomes zero then stays zero, and a genuine signature is refused;
  none is accepted because of it.
- `uECC_sign_with_k_internal` looks neither at r >= n nor at s = 0, so that with a
  negligible probability it returns a signature that no verifier accepts.
- The last test of `vli_mmod_fast_secp256k1` lets p itself pass; no product of two
  numbers below p leaves it there, because p is prime (proved, see 5).
- A timer set less than its period before the counter wraps is found elapsed at
  once, and `systick_delay` then returns at once: once in seven weeks of uptime
  the application's LED blinks early. The bootloader never runs that long.
- `fw_buffer` is overrun only in a transfer whose announced length leaves less room
  in it than the longest packet takes (`OverrunNeedsLongFile`): 255 bytes, because
  the length of a packet is not compared with its payload, and the copy comes
  before the count. The updater of the repository never sends more than 19.
- A packet without data is answered with `READY_FOR_FW` and starts the timer anew, so
  a host that sends nothing else keeps the bootloader in `BL_ReceiveFW` for ever.
  `DecidesUnlessFed` names this exception; a boot without it comes to an end.

### Bounds, and why they are enough

*Boot runs.* Pages of 8 cells, four of them: one below the erased pages, two
erased (the first shared by bootloader, header and nothing else, as page 15 is),
one behind them. `MaxFw` equals the erased pages, as 10 KiB equals the ten
pages of the code, so the header pushes the longest image past the erased
area here as there. Packets of 8 cells and images of 4, 5 and 8: fewer, equal
and more than one packet, an odd length (padded last word), an image that ends
exactly with the erased pages. Announced lengths are right, too short and too
long. `boot_fit` has besides the files a packet without data, one of length
`LengthMax` = 10 > 8 with two contents of the RAM behind it, and the chunks of a
signed body under a forged version. `MaxPackets` counts the packets with data:
three in a boot are one more than the longest file needs. In `boot_live` it is 14,
the longest length announced there, which is out of reach: a packet with data
brings at least one cell. Two resets: one in the middle
of an update and another in the middle of the repair. A timer of one tick: it
can expire or not expire in every waiting state. The board starts with a
genuine header or with the padding. `boot_replay` has one build on the board and an
older one on the line.

*Ring.* Four slots and two byte values: the indices wrap, the ring fills, and
every interleaving of a write with the four steps of a read occurs. The
proofs cover every size.

*Overrun.* A boot whose buffer has been left is not followed further (`Overrun`).

*Comms.* Two bytes each of payload and checksum, so each state of the
receiver lasts for more than one byte; three data packets, so that the ring of
two used slots wraps around; two faults, so that a fault can hit the frame
that would repair the first one. `BufferSize` is the real 10.

*Session.* Frames of the real 24 bytes and sync sequences of the real 4, so
that the skew arithmetic is the code's. A payload of 5 cells and files of two and three packets,
so there is a first, a middle and a last one; one of the files is newer than what is
installed and the other is not. The host waits for 3 ticks (5 while syncing)
and the bootloader for 3: either may give up first. Two faults, so that
the repair can be hit as well. Two resets, at any step. `MaxPackets` is out of
reach.

*Library.* The counter of the timer has 8 values and the clock reaches 14 (a
delay that is under way may take it further), so it wraps while a timer and a
delay are set; periods of 1 and 3, and up to 5 of them. SHA-256 has blocks of
8 bytes with a length field of 2, in bytes of 4 bits, and messages of 0 to 20
bytes in all pieces: every length modulo the block, around the length field,
over two block ends. Base64 keys have 0 to 6 bytes, so every remainder with
and without a whole group before it. Integers have 3 words of 4 bits, with
p = 2^12 - 2^4 - 7, the form of p = 2^256 - 2^32 - 977, and an odd n of the same
size; three words are the fewest with a first, a middle and a last one. The
operands lie around every word boundary, p and n, two of them have a product
that folds to one of the sums of violation 5, and the inverse is taken of each
of them modulo p and modulo n. The proofs cover every size and all operands.

*Ecdsa.* y^2 = x^3 + 7 modulo 79 has 67 points: both primes have 7 bits, p is 3
modulo 4, and no point has x = 0, as in secp256k1, so the same branches of
`regularize_k` (k + n with and without a carry), of `bits2int` (a hash of n or more)
and of the comparison of rx with n are taken. All private keys and nonces
are tried, the ones out of range and the three exceptional ones included;
signatures that nobody made have every r and the values of s at both ends
of the range. `MaxTries` is 2: one repetition.

## 4. Fairness

- `Bootloader`: weak fairness of `Tick` (SysTick keeps firing), of `Compute`
  (the processor keeps executing) and of `CheckForTimeout` (iterations without
  a packet keep coming while the timer has expired; it stays enabled until one
  of them does its check or the state changes). Nothing is assumed of the host.
- `RingBuffer` (in `MCLibrary` as well): weak fairness of the reader, a loop that does nothing but poll
  and read. None of the interrupt.
- `Comms`: weak fairness of `UpdateReturns` and of the caller (the loop outruns the
  line, so `comms_update` keeps finding the ring empty), and strong fairness of
  `TakeByte`: what is under way arrives, however often `comms_update` has returned
  before it. The host owes nothing.
- `UpdateSession`: weak fairness of both programs (`HostRuns`, `BootStep`), of
  the bytes that arrive when nobody listens (`Unheard`) and of the passing of
  time (`HostSleeps`, `NobodyThere`). The user need not start the updater, the
  line need not hit anything, the board need not be reset.
- The other units of `MCLibrary`, and `Ecdsa`: none. That the loop of the modular inverse ends is shown
  by its variant (`InverseShrinks`), the other loops count.

## 5. What is proved

For every value of the constants that satisfies the named assumptions:

`BootloaderProofs` (from `FlashAssumption`, `ImageAssumption`,
`BootAssumption`):

- `TypeCorrect`: `Spec => []TypeOK`.
- `RollbackExcluded`: `Spec => NoRollback`.
- `HeaderIsFresh`: `Spec => []InfoFresh`.
- `FailuresReported`: `Spec => []FailureReported`.
- `CodeIntact`: `Spec => []BootCodeIntact`, if the bootloader image ends below
  the first erased page (the linker script allows a longer one, see 3).
- `OnlyVerifiedRuns`: `Spec => []SwitchOnlyToVerified`, if images end inside the
  erased pages (`ImagesFit`; `boot_unerased` shows the need) and no image ends in
  a zero cell (`NoZeroEnd`).
- `OverrunExcluded`: `Spec => []OverrunNeedsLongFile`, for packets that claim any length
  from 0 to `LengthMax`, which may be more than their payload. Its invariant, `RoomInv`, keeps
  that a boot that is still receiving has received less than was announced.

The argument is one inductive invariant, `IInv`. Type correctness alone is not
enough for any of them: what matters is known at different times. `ZeroTail`,
`LengthAgreed` and `Buffered` say what the RAM copy is, `UpdateChecked` that it
passed the checks and has not changed since, `ErasedSoFar` how far the erase
has come, `WrittenSoFar` and `WriteDone` which cells hold the image.
`FloorKept` (the version in flash is at least the one main read) is what
excludes rollback: half way through an update each half of the version is
either erased, hence largest, or the new one's, and `WordMonotone` does the
rest. `HeaderUnchanged` ties `info` to the flash in the states that use it.
`NoZeroEnd` is needed because `fw_buffer` starts as zeros: if the announced
length is too short, an image that ends in zeros verifies in RAM before its
last packet has come, and those zeros are never programmed.

`BootKeepsPromise`, in the same module and from the same assumptions:
`Spec => KeepsPromise`, whatever packets arrive: a step of the code is a step of
the abstract specification or a stutter. The image of `SecureBoot` is the body that
the signature covers together with the version that its header claims, because the
code knows nothing else of it (violation 6). The theorem needs more about the
images than those before it, all of it in `Releases`, which the constants of
`Boot_fit.cfg` and `Session.cfg` satisfy:

- `ImagesFit` and `NoZeroEnd`, as above;
- `SignaturesSound`: two images have the same signature only if they are the same;
- `VectorTables`: an image starts with a cell that is not erased flash (it is the
  initial stack pointer, an address in RAM). Otherwise the copy of an image
  whose first cell is not programmed yet could pass for it;
- `WordAddressed`: 0xFFFFFFFF, what an erased size reads as, is no offset into the flash.

The invariant, `PInv`, adds to `IInv` that `main` leaves the update loop by success only
with a flash that passes for verified (`Loaded`). `UpdateIsGenuine` (what is flashed is a
file as the signer wrote it, header included) is not part of it: it is a
statement about the packets that an updater sends, which `session` checks and
`UpdatesAreGenuine` proves (below).

`SessionProofs` (from the assumptions above and of the link, and from
`SessionAssumption`, that `Packets` contains the packets of the files): what host,
line, packet layer and bootloader do together, whatever is hit, lost or
garbled, and wherever the board is reset.

- `SessionRunsBootloader`: `SessionSpec => Spec`, where `Spec` is that of `Bootloader`.
  A packet the loop reads came from a file, so every theorem about `Bootloader`
  holds of a session as it stands.
- `SessionTypeCorrect`: `SessionSpec => []SessionTypeOK`.
- `SuccessesAreTrue`: `SessionSpec => []SuccessIsTrue`, from `NoZeroEnd` and
  `FilesDistinct`. A host that reports success has been told so by the board, and
  the board held the file of that host, whole and verified, when it said it.
- `SessionKeepsPromise`: `SessionSpec => KeepsPromise`, from `Releases`, as a session runs
  the bootloader.
- `UpdatesAreGenuine`: `SessionSpec => []UpdateIsGenuine`, from `NoZeroEnd`,
  `FilesDistinct` and `FilesGenuine`.

The invariant is `SInv`. `LinkInv` says what may be anywhere between the ends
(only packets of the file that is being sent, and only answers of the board), `MadeOfPackets` that `fw_buffer` up to `bytes_written` is made of packets
of the file of this run of the host, which may be there twice or not at all,
and `SuccessInv` that on a board that was not reset no `UPDATE_SUCCESS` is on its
way, or has come, before the board holds the whole file of that host. The hard part is `VerifiedReceived`: packets
of a file, repeated or left out, that add up to an image with a right
signature are the file itself.

`FilesDistinct` is what makes it so: no packets of a file, in any number and
order, make up the header and body of a signed image other than that file. A
real signature is 64 bytes that look random, so a concatenation that happens
to contain another one does not occur; but it cannot follow from the code,
because the signature does not cover version and size. `FilesGenuine` says that
the host sends files as the signer wrote them. TLC evaluates `Releases`,
`FilesDistinct` and `FilesGenuine` for the constants of `session`.

And what holds as long as the line has hit nothing, for files of any length and
content, any payload and any patience of the two ends, wherever the board is
reset and however late the host is started (from `FramesDiffer` and `Patient`):

- `TransfersArePrefixes`: `SessionSpec => []TransferIsPrefix`.
- `FailuresAreTrue`: `SessionSpec => []FailureIsTrue`.
- `BreakpointUnreached`: `SessionSpec => []NoBreakpoint`.

All three follow from the lockstep of the two ends, `InStep`: `CleanInv` holds
while `faults = 0`. The obvious invariant, that requests and answers alternate
(`OneRequest`) and that each state of the bootloader goes with one or two places
in `main` (`Phases`), is not inductive: a reset starts the board anew while answers
of its earlier boots are still on the line, and a host that drops them repeats
the sync sequence to a board that is already counting bytes. What it takes
beyond it:

- Such answers are only refusals and `SYN_OBSERVED` (`Stale`). A board that has read
  a request of this host and is then reset stays in `Sync`: the host sends no
  sync sequence any more (`Syncing`, `SyncOnce`).
- A sync sequence too many shifts the framing of the board (`bskew`). When the host
  is past its own `Sync` the skew does not change any more: it is zero, or
  nothing is ever read again in this boot (`Skewed`).
- The RET of a shifted board makes the host repeat an ACK, never a request and
  never the empty packet it starts with (`Fresh`); and by the time a board that
  was reset gives up waiting, the host has taken the RETs of the boot before
  (`NoEcho`). This is where `Patient` is needed: the bootloader waits longer than one
  sleep of the host (5 s and 100 ms in the code).
- A file may end in a packet that reads as a RET (violation 4). The board then
  repeats its last packet, which is neither a RET, or the two would ask each other
  for ever, nor `UPDATE_SUCCESS` (`RetLast`, `Written`).

For `FailuresAreTrue`: when `UPDATE_SUCCESS` is written the queue of the host is
empty and there are only ACKs before it on the line, so that the next look of
the host finds it (`Coming`, in `Accepted`).

`FramesDiffer` says that the sync sequence and a frame that fails its check are no
packets, and that the bytes of ACK, RET, update request and erased buffer are
different, as 0x06, 0x07, 0x1A and 0xFF are, where the proof needs it. TLC
evaluates it and `Patient` for the constants of `session` and `session_tail`.

`DriverProofs`, on the ring (from `RingAssumption`): `RingTypeCorrect`,
`ReadsAreInitialised`, and `RingIsByteQueue`, that every step of
the ring is a step or a stutter of the bounded queue.

`CommsProofs` (from `CommsAssumption` and `SlotsCycle`, that the mask of the packet
buffer leads around in its first slots), for all sizes of payload, checksum and
buffer and any number of faults:

- `CommsTypeCorrect`, `Spec => []TypeOK`, and `AcknowledgedAreKept`,
  `Spec => []AckedAreKept`, both from `CommsInv`: a counter is at zero outside its own
  field, and the indices are the numbers of packets acknowledged and read, modulo
  `UsedSlots`, less than `UsedSlots` apart (`Indices`).
- `ReadInOrder`, `Spec => []DeliveredInOrder`, if `DataIsNoControl`. Its invariant,
  `DeliveryInv`, says which packet the k-th acknowledged one is (`KeptInOrder`) and
  what of the host's packets is still under way (`UnderWay`). The last byte of a
  checksum is the mark for that: it is under way at most once for a packet, and
  a packet that has been stored has none.
- `WaitingHostDoesNotStop`, `Spec => []NoBreakpoint`, if moreover `UsedSlots > 1`: of a
  host that sends one packet at a time at most one is anywhere between the host
  and the caller (`OneByOne`).
- `CleanLineFrames`, `Spec => []CleanLineKeepsFrames`, if `DataIsNoControl`. As long as
  nothing has been hit, the bytes under way are the rest of a frame followed
  by whole ones (`Frames`, with the packet and the place of every byte), the
  receiver is at the place before the first of them, and every packet of data
  that is not stored is still to come (`Arriving`).

`DataIsNoControl`: no data packet has the content of an ACK or a RET (violation 4 is
about a file that has one). `MCComms` evaluates it. That no packet the receiver may
hold ends in the checksum of another one is a lemma, `NoCollisions`: it follows
from what a checksum byte is in `Comms` (see 2).

`UtilProofs`, on SHA-256 (from `HashAssumption`): `DigestsAreStandard`,
`HashSpec => []DigestIsStandard`, for messages of every length and all pieces, if
the length in bits fits the length field, which is the standard's own limit.
(`LengthFits` also states that the bound, a power, is a number: the provers know
nothing of `^`.) The invariant is what a context stands for, `Holds(c, m)`: the whole
blocks of m have been digested and the buffer starts with the rest. An update
with d leads from m to m \o d, and the end is two updates, of the padding and of
the length.

`DriverProofs`, on the timers (from `TimerAssumption`), of a timer and a delay by themselves
(`TimerSpec`): `TimersOnTime`, `TimerSpec => []TimerOnTime`, and `DelayNeverShort`,
`TimerSpec => DelayIsWhole`. The invariant `TimerInv` says that `end_time` is the time
the timer is due, on the counter: the sum and the differences of
`Timer_has_elapsed` are of values that may have wrapped, and `NextEndExact` shows
that one period is what is left of them. `EraConvex` and `EraOrdered` are why the
plain comparison is right as long as the counter has not wrapped.

`UtilProofs`, on base64 (from `Base64Assumption`): `KeysAreDecoded`,
`DecodeSpec => []KeyIsDecoded`, for keys of every length and every size of the
digits. A group is a number below ByteValues^3 = CharValues^4, and the invariant,
`DecodeInv`, says that behind g groups the first 3g bytes of the key are in `output[]`.
`EncodedText` is what the decoder makes of the length and the last two
characters: it is right about the number of bytes in the last group for all
three remainders, with padding and without. The characters it does not read
there are zeros because ByteValues is a multiple of CharValues (`ZeroChars`).

`VliProofs` (from `VliAssumption`, the form of p, and `ModuliPrime`, that p and n
are prime), for words of every width, numbers of any number of words and all
operands:

- `ArithmeticIsExact`: `VliSpec => []ArithmeticExact`. Every operation on words
  returns the number it stands for.
- `InverseIsRight`: `VliSpec => []InverseLoop`, and `InverseEnds`,
  `VliSpec => InverseShrinks`: the modular inverse is one, and its loop ends.

A number is the sum of its words at their places (`Sums`), so that a loop over
words is exact when every turn of it keeps one equation between the sums and
what is carried (`OneMoreWord`, `OneWordShifted`, `OneWordScaled`). The carry of
a sum is not computed but told from the wrapped result, and `WordSum` shows that
this is right, the case included in which the word comes out as it went in.

- Sum, difference, shift: `AddExact`, `SubExact`, `ShiftExact`; comparison by a
  difference (`CmpExact`) and by the highest word that differs (`CmpUnsafeExact`).
- Product: the accumulator of three words never overflows, because a column of
  at most `NumWords` products stays below (`ColumnRoom`); column by column it
  adds up to the product of the two numbers (`OneMoreRow`, `MultExact`).
- Fast reduction: `OmegaMultExact`, and `FoldedCongruent`, that folding the upper
  half down changes nothing modulo p. The fold is at most twice `Full` and a
  little, so that there are at most two carries; `FastCarries` goes through what
  the subtractions and the last test make of them, and is where violation 5
  came to light. That p itself does not come out needs that p is prime
  (`PrimeProduct`).
- Reduction modulo n: `RoundExact` and `MmodExact`. What is left stays below
  twice the multiple of n that is tried next, and at the end below n.
- Bits and bytes: `NumBitsExact`, `NativeWords`, `BytesExact`.
- Inverse: `Cofactors`, in `InverseInvariant`, keeps that a and b are u and v times
  the input, that u and v are below the modulus although their sums overflow,
  and that a and b have no other common divisors than the input and the modulus.
  As the modulus is prime, a = b is 1.

`EcdsaProofs` (from `EcdsaAssumption`, the form of the curve and the range of what
comes in, and `GroupOfG`), for every such curve, and all keys, nonces, values of
the first Z, hashes and signatures:

- `LadderComputesMultiples`: `Spec => []LadderIsMultiple`.
- `VerifyAgreesWithEcdsa`: `Spec => []VerifyIsEcdsa`.
- `SignaturesAreAccepted`: `Spec => []SignedIsAccepted`.

`GroupOfG` is the one thing taken from mathematics: with the addition of the
textbook, the multiples of G are points with x and y other than 0 and add up as
numbers do modulo n, and a point's opposite has the same x. secp256k1 is such a
curve (its order is prime, and 7 is no square modulo p); TLC evaluates it for
the curve of the run.
All that the code makes of it is proved:

- A point over a Z is `At(m, z)`, the multiple by m with its coordinates scaled by
  z^2 and z^3. The formulas, which never divide, are the line of the textbook
  over that Z (`XYcZAddIs`, `XYcZAddCIs`, `DoubleIs`), so that `AtPlus` and `AtDouble`
  say what they return, if the points are not equal or opposite.
- The ladder: `Rungs` keeps the multiples by the bits so far and by one more, over
  a Z that is kept nowhere. `RegularIs` shows that the scalar is k + n or k + 2n, one
  bit longer than n, and `ApartIs` that on the way no two points that are added
  are equal or opposite, but for k = 1, n - 2 and n - 1. For these the sum is no
  point of the curve: it is on the cusp y^2 = x^3, and the last turn, by
  the same formulas, leads from there to the point at infinity (`CuspTurn`,
  `CollapsedLast`). The Z of the result is found from one coordinate that is known
  (`LastZIs`).
- Keys in short form: `RootIs`, that `mod_sqrt_default` finds one of the two roots of a
  square, because its loop raises to (p + 1) / 4 (`ModSqrtIs`) and by Fermat's
  theorem. `Fermat` is proved by counting: the numbers below p fall into
  orbits of multiplication by a, all of the same size.
- The loop of `uECC_verify`: `Adding` keeps the sum of the multiples of the bits, or
  Z = 0 from the first turn on in which the points have the same x (`ApartTurn`,
  `CollidedTurn`). Its last lines compare the x of u1 * G + u2 * Q modulo n with r,
  because p is below 2n (`AddingEnds`).
- `SignedNumbers` and `VerifiedNumbers`: the congruence modulo n that ties s, the nonce
  and the hash, and what it makes of u1 and u2.

The inductive invariants are `LadderInv` (whose key is it, which multiple is the
ladder at) and, on top of it, `VerifyInv` (the congruence of a signature made
here, the state of the loop). Knowing the key pair is needed for all of them:
that the public key is not G or its opposite comes from the ladder having
produced it, since it returns nothing for those keys.

`Numbers` holds what these proofs need of natural numbers: that a quotient with a
remainder is unique, that whole multiples change no remainder, that products
are monotone, and two things that the provers cannot take from the library,
whose theorems have operators for parameters. `Induct` is induction for a set
of numbers; it is proved from the well-foundedness of < . `LoopExists` says that a
first value and a table of steps define a function, so that a recursive
definition of the model is known to have its equations; `LoopTyped` gives it its
range.

Constants are assumed to have the order and the positions that the headers and
linker scripts give them: the header ends the bootloader section and starts in
the first erased page, `MAX_FW_LENGTH` reaches no further than the flash.

## 6. Only model-checked

- `DecidesUnlessFed`, `WaitingIsTaken`, `EveryPacketIsRead`,
  `HostEnds`, `BootEnds`, `SuccessIsInstalled`, `CleanUpdateSucceeds`:
  liveness is out of the prover's reach.

## 7. Not modelled

- The compression function of SHA-256 and `ecdsa_sha256_hmac` (which nobody calls).
- In `Bootloader` and `UpdateSession` a signature is accepted for exactly the body
  it was made for: that a hash and a signature of another body do not fit is
  the cryptographic assumption. Checksum collisions in `Comms` likewise.
- Of uECC: `uECC_sign_deterministic` with its HMAC, the four other curves, the
  assembly (its contract is that of the C code), and the build options that
  this build does not choose (8-bit and 64-bit words, little-endian byte strings).
  The sources of random numbers: what they return is an input.
- `m_memcmp`, a pure loop that nobody calls.
- Peripheral setup and shutdown, clocks, GPIO: no state the properties see.
- The overrun flag of the UART: a byte lost in the receiver is a byte lost on
  the line in `Comms`.
- Transmission: `usart_send_blocking` waits and cannot fail.
- In a session: more than one byte lost of a burst, a file that is empty,
  of 4 GiB or more, or cannot be read, errors of the serial port, exit codes, and a host whose sleep of
  100 ms takes seconds.
- Power lost after `UPDATE_SUCCESS` was announced: `SuccessIsInstalled` is about boards
  that are not reset. `KeepsPromise` covers the power loss itself.
- In a session, lengths that no updater sends: 0, and more than 19 (`Bootloader` has
  them).
- The break at `FLASH_LAST_ADDRESS` in `flash_write`: the area programmed ends
  below it, which `BootAssumption` states.
- The application, of which only the delay is modelled (`Timer`); key generation,
  of which only the encoding is (`Base64`); the build beyond the files it leaves.

## 8. Plan

Done: flash, image, state machine, promise, ring, packet layer, updater,
session, timer, hash, base64, multi-word arithmetic, ECDSA, and the proofs above.
Every safety property that a passing run checks is proved. Worth modelling next:
`uECC_sign_deterministic`, and `flash_write` with the break at the last address.
