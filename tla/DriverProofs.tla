---------------------------- MODULE DriverProofs ----------------------------
(***************************************************************************)
(* Two units of the driver, for every width, size and bound: the timers    *)
(* are on time and systick_delay is never too short; and the receive ring  *)
(* is a bounded queue under every interleaving of the interrupt with the   *)
(* main loop.                                                              *)
(***************************************************************************)
EXTENDS Timer, RingBuffer, SequenceTheorems, Numbers

(* Between two times of one era every time is of that era.                 *)
LEMMA EraConvex ==
  ASSUME NEW M \in Nat \ {0}, NEW x \in Nat, NEW y \in Nat, NEW z \in Nat,
         x <= y, y <= z, x \div M = z \div M
  PROVE  y \div M = z \div M
OBVIOUS

(* Within an era the counter orders times as they are.                     *)
LEMMA EraOrdered ==
  ASSUME NEW M \in Nat \ {0}, NEW x \in Nat, NEW y \in Nat,
         x \div M = y \div M
  PROVE  x % M < y % M <=> x < y
OBVIOUS

-----------------------------------------------------------------------------
(* systick_delay.                                                          *)

(* What the call under way remembers: when it came, and the value of the   *)
(* counter it waits for.                                                   *)
DelayInv ==
  /\ clock \in Nat
  /\ delay # NoDelay =>
       /\ delay.called \in Nat /\ delay.wait \in Nat /\ delay.called <= clock
       /\ delay.end_ticks = (delay.called + delay.wait) % TickModulus

(* It holds in every state.                                                *)
LEMMA DelayInvHolds == TimerSpec => []DelayInv
<1>1. TimerInit => DelayInv
  BY DEF TimerInit, DelayInv
<1>2. DelayInv /\ [TimerNext]_timerVars => DelayInv'
  <2> SUFFICES ASSUME DelayInv, [TimerNext]_timerVars PROVE DelayInv'
    OBVIOUS
  <2>1. CASE SysTick
    BY <2>1 DEF SysTick, DelayInv, NoDelay
  <2>2. CASE \E ms \in Waits : DelayCall(ms)
    <3>1. PICK ms \in Waits : DelayCall(ms)
      BY <2>2
    <3>2. ms \in Nat /\ clock \in Nat /\ TickModulus \in Nat \ {0}
      BY TimerAssumption DEF DelayInv
    <3>3. (Ticks + ms) % TickModulus = (clock + ms) % TickModulus
      <4>1. clock \in Int /\ ms \in Int
        BY <3>2
      <4> QED
        BY <3>2, <4>1, ModPlus, Zenon DEF Ticks
    <3> QED
      BY <3>1, <3>2, <3>3 DEF DelayCall, DelayInv
  <2>3. CASE DelayReturns
    BY <2>3 DEF DelayReturns, DelayInv
  <2>4. CASE TimerReset \/ HasElapsed \/ \E w \in Waits, auto \in BOOLEAN : TimerSetup(w, auto)
    BY <2>4 DEF TimerReset, HasElapsed, TimerSetup, DelayInv
  <2>5. CASE UNCHANGED timerVars
    BY <2>5 DEF timerVars, DelayInv
  <2> QED
    BY <2>1, <2>2, <2>3, <2>4, <2>5 DEF TimerNext
<1> QED
  BY <1>1, <1>2, PTL DEF TimerSpec

(* systick_delay is never too short, unless the counter wraps around       *)
(* meanwhile, for every width of the counter and every wait.               *)
THEOREM DelayNeverShort == TimerSpec => DelayIsWhole
<1> DEFINE Returns == (delay # NoDelay /\ delay' = NoDelay
                         /\ SameEra(delay.called, delay.called + delay.wait))
                      => clock >= delay.called + delay.wait
<1>1. DelayInv /\ [TimerNext]_timerVars => [Returns]_timerVars
  <2> SUFFICES ASSUME DelayInv, TimerNext, delay # NoDelay, delay' = NoDelay,
                      SameEra(delay.called, delay.called + delay.wait),
                      clock < delay.called + delay.wait
               PROVE  FALSE
    BY DEF DelayInv
  <2> DEFINE until == delay.called + delay.wait
  <2>1. Ticks >= delay.end_ticks
    BY DEF TimerNext, SysTick, TimerReset, TimerSetup, HasElapsed, DelayReturns, DelayCall
  <2>2. /\ TickModulus \in Nat \ {0} /\ clock \in Nat /\ delay.called \in Nat
        /\ until \in Nat /\ delay.called <= clock /\ clock < until
        /\ delay.end_ticks = until % TickModulus
    BY TimerAssumption DEF DelayInv
  <2>3. clock \div TickModulus = until \div TickModulus
    BY <2>2, EraConvex DEF SameEra
  <2>4. clock % TickModulus < until % TickModulus
    BY <2>2, <2>3, EraOrdered
  <2>5. clock % TickModulus \in Int /\ until % TickModulus \in Int
    BY <2>2
  <2> QED
    BY <2>1, <2>2, <2>4, <2>5 DEF Ticks
<1> QED
  BY <1>1, DelayInvHolds, PTL DEF TimerSpec, DelayIsWhole

-----------------------------------------------------------------------------
(* Timer_has_elapsed.                                                      *)

AlarmType == [wait_time : Nat, end_time : Int, auto_reset : BOOLEAN, elapsed : BOOLEAN]

(* The type invariant, and the order of the times.                         *)
TimerTypes ==
  /\ clock \in Nat /\ set_at \in Nat /\ set_at <= clock /\ fired \in Nat
  /\ asked \in Int /\ asked <= clock /\ (asked >= set_at \/ asked = -1)
  /\ alarm \in AlarmType

(* end_time is when the timer is due, on the counter; `elapsed` is set by  *)
(* the one answer a one-shot timer gives.                                  *)
TimerInv ==
  /\ TimerTypes
  /\ alarm.end_time = Due % TickModulus
  /\ alarm.auto_reset => ~alarm.elapsed
  /\ ~alarm.auto_reset /\ alarm.wait_time > 0 => fired = IF alarm.elapsed THEN 1 ELSE 0
  /\ TimerOnTime

(* Times are natural numbers, and one more period is one wait more.        *)
LEMMA DueIsNat ==
  ASSUME NEW s \in Nat, NEW n \in Nat, NEW w \in Nat
  PROVE  /\ s + (n + 1) * w \in Nat /\ s + n * w \in Nat
         /\ s + (n + 1) * w = s + n * w + w /\ s <= s + n * w
OBVIOUS

(* now + wait_time - drift is one period behind the last end, whatever     *)
(* has wrapped.                                                            *)
LEMMA NextEndExact ==
  ASSUME NEW due \in Nat, clock \in Nat,
         alarm.wait_time \in Nat, alarm.end_time = due % TickModulus
  PROVE  NextEnd = (due + alarm.wait_time) % TickModulus
<1> DEFINE M == TickModulus
           w == alarm.wait_time
           now == clock % M
           end == due % M
<1>1. M \in Nat \ {0} /\ w \in Int /\ due \in Int
  BY TimerAssumption
<1>2. now \in Int /\ end \in Int
  BY <1>1
<1>3. NextEnd = (((now + w) % M) - ((now - end) % M)) % M
  BY DEF NextEnd, Ticks
<1> HIDE DEF M, w, now, end
<1>4. /\ now + w \in Int /\ now - end \in Int /\ (now + w) % M \in Int
      /\ -(now - end) \in Int /\ (now + w) + (-(now - end)) = end + w
  BY <1>1, <1>2
<1>5. \A x, y \in Int : (x - (y % M)) % M = (x - y) % M
  BY <1>1, ModMinus
<1>6. \A x, y \in Int : ((x % M) + y) % M = (x + y) % M
  BY <1>1, ModPlus
<1>7. (((now + w) % M) - ((now - end) % M)) % M = (((now + w) % M) - (now - end)) % M
  BY <1>4, <1>5
<1>8. ((now + w) % M) - (now - end) = ((now + w) % M) + (-(now - end))
  BY <1>4, <1>2
<1>9. (((now + w) % M) + (-(now - end))) % M = (end + w) % M
  BY <1>4, <1>6
<1>10. (end + w) % M = (due + w) % M
  BY <1>1, <1>6 DEF end
<1> QED
  BY <1>3, <1>7, <1>8, <1>9, <1>10 DEF M, w

(* The comparison of Timer_has_elapsed tells whether the timer is due, as  *)
(* long as the counter has not wrapped since it was set and does not until *)
(* it is due.                                                              *)
LEMMA DueIsSeen ==
  ASSUME TimerInv, SameEra(set_at, clock), SameEra(set_at, Due)
  PROVE  Ticks >= alarm.end_time <=> clock >= Due
<1>1. Due \in Nat /\ clock \in Nat /\ TickModulus \in Nat \ {0}
  BY TimerAssumption, DueIsNat DEF TimerInv, TimerTypes, AlarmType, Due
<1>2. clock \div TickModulus = Due \div TickModulus
  BY DEF SameEra
<1>3. clock % TickModulus < Due % TickModulus <=> clock < Due
  BY <1>1, <1>2, EraOrdered
<1>4. clock % TickModulus \in Int /\ Due % TickModulus \in Int
  BY <1>1
<1> QED
  BY <1>1, <1>3, <1>4 DEF TimerInv, TimerTypes, AlarmType, Ticks

(* A repeating timer is due a period after those it has been found elapsed *)
(* for.                                                                    *)
LEMMA DueInOrder ==
  ASSUME TimerInv
  PROVE  /\ Due \in Nat /\ set_at <= Due
         /\ alarm.auto_reset => Due = set_at + fired * alarm.wait_time + alarm.wait_time
  BY DueIsNat DEF TimerInv, TimerTypes, AlarmType, Due

(* What the arithmetic below is about is numbers.                          *)
LEMMA NumbersOnly ==
  ASSUME TimerInv
  PROVE  /\ TickModulus \in Nat \ {0} /\ clock \in Nat /\ Ticks \in Int
         /\ alarm.end_time \in Int /\ asked \in Int
         /\ set_at \in Nat /\ fired \in Nat /\ alarm.wait_time \in Nat
         /\ set_at + fired * alarm.wait_time \in Nat
  BY TimerAssumption, DueIsNat DEF TimerInv, TimerTypes, AlarmType, Ticks

(* The initial state, and the steps one by one.                            *)
LEMMA TimerInvInit == TimerInit => TimerInv
<1> SUFFICES ASSUME TimerInit PROVE TimerInv
  OBVIOUS
<1>1. alarm.wait_time = 0 /\ alarm.auto_reset = FALSE /\ alarm.end_time = 0
  BY DEF TimerInit
<1>2. Due = 0
  BY <1>1 DEF TimerInit, Due
<1>3. 0 % TickModulus = 0
  BY TimerAssumption
<1>4. TimerTypes
  <2>1. alarm \in AlarmType
    BY DEF TimerInit, AlarmType
  <2> QED
    BY <2>1 DEF TimerInit, TimerTypes
<1>5. TimerOnTime
  BY <1>1 DEF TimerInit, TimerOnTime
<1> QED
  BY <1>1, <1>2, <1>3, <1>4, <1>5 DEF TimerInit, TimerInv

(* Time passes.                                                            *)
LEMMA TimerInvTick == TimerInv /\ SysTick => TimerInv'
<1> SUFFICES ASSUME TimerInv, SysTick PROVE TimerInv'
  OBVIOUS
<1>1. Due' = Due
  BY DEF SysTick, Due
<1>2. SameEra(set_at, clock)' => SameEra(set_at, clock)
  <2>1. clock' = clock + 1 /\ set_at' = set_at /\ set_at <= clock /\ clock <= clock'
        /\ clock' \in Nat
    BY NumbersOnly DEF SysTick, TimerInv, TimerTypes, AlarmType
  <2> QED
    BY <2>1, NumbersOnly, EraConvex DEF SameEra
<1>3. TimerOnTime'
  BY <1>1, <1>2 DEF SysTick, TimerInv, TimerTypes, AlarmType, TimerOnTime, SameEra
<1> QED
  BY <1>1, <1>3 DEF SysTick, TimerInv, TimerTypes, AlarmType

(* A timer is set: it has not fired, and nobody has asked.                 *)
LEMMA TimerInvSetup ==
  ASSUME TimerInv, NEW w \in Nat \ {0}, NEW auto \in BOOLEAN, TimerSetup(w, auto)
  PROVE  TimerInv'
<1>1. Due' = clock + w
  BY DEF TimerSetup, TimerInv, TimerTypes, AlarmType, Due
<1>2. (Ticks + w) % TickModulus = (clock + w) % TickModulus
  <2>1. clock \in Int /\ w \in Int /\ TickModulus \in Nat \ {0}
    BY TimerAssumption DEF TimerInv, TimerTypes, AlarmType
  <2> QED
    BY <2>1, ModPlus, Zenon DEF Ticks
<1>3. (clock + w) % TickModulus \in Int
  BY TimerAssumption DEF TimerInv, TimerTypes, AlarmType
<1>4. TimerOnTime'
  BY <1>1 DEF TimerSetup, TimerInv, TimerTypes, AlarmType, TimerOnTime
<1>5. TimerTypes'
  <2>1. alarm' \in AlarmType
    BY <1>2, <1>3 DEF TimerSetup, AlarmType
  <2> QED
    BY <2>1 DEF TimerSetup, TimerInv, TimerTypes
<1>6. alarm' = [wait_time |-> w, end_time |-> (Ticks + w) % TickModulus,
                auto_reset |-> auto, elapsed |-> FALSE] /\ fired' = 0
  BY DEF TimerSetup
<1> QED
  BY <1>1, <1>2, <1>4, <1>5, <1>6 DEF TimerInv

(* A question that comes too early, or after a one-shot timer has fired.   *)
LEMMA TimerInvNo ==
  ASSUME TimerInv, asked' = clock, answer' = FALSE,
         UNCHANGED <<clock, set_at, alarm, fired>>,
         alarm.elapsed \/ Ticks < alarm.end_time
  PROVE  TimerInv'
<1>1. Due' = Due
  BY DEF Due
<1>2. ASSUME SameEra(set_at, clock), SameEra(set_at, Due)
      PROVE  /\ ~alarm.elapsed => clock < Due
             /\ ~alarm.auto_reset /\ alarm.wait_time > 0 => fired = IF clock >= Due THEN 1 ELSE 0
             /\ alarm.auto_reset /\ fired > 0 => set_at + fired * alarm.wait_time <= clock
  <2>1. /\ Due \in Nat /\ clock \in Nat /\ asked \in Int /\ asked <= clock
        /\ alarm.end_time \in Int /\ Ticks \in Int /\ set_at + fired * alarm.wait_time \in Nat
    BY DueInOrder, DueIsNat, TimerAssumption DEF TimerInv, TimerTypes, AlarmType, Ticks
  <2>2. ~alarm.elapsed => clock < Due
    BY <1>2, <2>1, DueIsSeen
  <2> QED
    BY <1>2, <2>1, <2>2 DEF TimerInv, TimerTypes, AlarmType, TimerOnTime
<1>3. TimerOnTime'
  BY <1>1, <1>2 DEF TimerInv, TimerTypes, AlarmType, TimerOnTime, SameEra
<1>4. TimerTypes'
  BY DEF TimerInv, TimerTypes
<1> QED
  BY <1>1, <1>3, <1>4 DEF TimerInv

(* A one-shot timer is found elapsed.                                      *)
LEMMA TimerInvOneShot ==
  ASSUME TimerInv, HasElapsed, ~alarm.elapsed, Ticks >= alarm.end_time, ~alarm.auto_reset
  PROVE  TimerInv'
<1>1. /\ alarm' = [alarm EXCEPT !.elapsed = TRUE] /\ fired' = fired + 1 /\ asked' = clock
      /\ answer' = TRUE /\ UNCHANGED <<clock, set_at>>
  BY NumbersOnly DEF HasElapsed
<1>2. Due' = Due
  BY <1>1 DEF Due, TimerInv, TimerTypes, AlarmType
<1>3. SameEra(set_at, clock) /\ SameEra(set_at, Due) => clock >= Due
  BY DueIsSeen
<1>4. TimerOnTime'
  BY <1>1, <1>2, <1>3 DEF TimerInv, TimerTypes, AlarmType, TimerOnTime, SameEra
<1>5. alarm' \in AlarmType /\ alarm'.elapsed /\ alarm'.end_time = alarm.end_time
      /\ ~alarm'.auto_reset /\ alarm'.wait_time = alarm.wait_time
  BY <1>1 DEF TimerInv, TimerTypes, AlarmType
<1>6. TimerTypes'
  BY <1>1, <1>5 DEF TimerInv, TimerTypes
<1>7. alarm.wait_time > 0 => fired' = 1
  BY <1>1 DEF TimerInv
<1> QED
  BY <1>1, <1>2, <1>4, <1>5, <1>6, <1>7 DEF TimerInv

(* A repeating timer is found elapsed, and its end moves by a period.      *)
LEMMA TimerInvRepeat ==
  ASSUME TimerInv, HasElapsed, ~alarm.elapsed, Ticks >= alarm.end_time, alarm.auto_reset
  PROVE  TimerInv'
<1>1. /\ alarm' = [alarm EXCEPT !.end_time = NextEnd] /\ fired' = fired + 1 /\ asked' = clock
      /\ answer' = TRUE /\ UNCHANGED <<clock, set_at>>
  BY NumbersOnly DEF HasElapsed
<1> DEFINE w == alarm.wait_time
<1>2. /\ Due \in Nat /\ set_at <= Due /\ Due = set_at + fired' * w /\ w \in Nat
      /\ Due' = Due + w
  <2>1. fired \in Nat /\ fired + 1 \in Nat /\ set_at \in Nat /\ w \in Nat
    BY DEF TimerInv, TimerTypes, AlarmType
  <2>2. Due = set_at + (fired + 1) * w /\ Due' = set_at + (fired + 1 + 1) * w
    BY <1>1, <2>1 DEF Due, TimerInv, TimerTypes, AlarmType
  <2>3. set_at + (fired + 1 + 1) * w = set_at + (fired + 1) * w + w
    BY <2>1, DueIsNat
  <2> QED
    BY <1>1, <2>1, <2>2, <2>3, DueInOrder
<1>3. NextEnd = Due' % TickModulus /\ NextEnd \in Int
  BY <1>2, NextEndExact, TimerAssumption DEF TimerInv, TimerTypes, AlarmType
<1>4. SameEra(set_at, clock) /\ SameEra(set_at, Due') => clock >= Due
  <2>1. Due <= Due + w /\ Due + w \in Nat
    BY <1>2
  <2>2. SameEra(set_at, Due') => SameEra(set_at, Due)
    BY <1>2, <2>1, NumbersOnly, EraConvex DEF SameEra
  <2> QED
    BY <2>2, DueIsSeen
<1>5. TimerOnTime'
  BY <1>1, <1>2, <1>4 DEF TimerInv, TimerTypes, AlarmType, TimerOnTime, SameEra
<1> QED
  BY <1>1, <1>3, <1>5 DEF TimerInv, TimerTypes, AlarmType

(* As long as the counter does not wrap before a timer is due, it is found *)
(* elapsed once for each of its periods, never early and without a drift,  *)
(* however late it is asked, for every width of the counter and all waits. *)
THEOREM TimersOnTime == TimerSpec => []TimerOnTime
<1>1. TimerInv /\ [TimerNext]_timerVars => TimerInv'
  <2> SUFFICES ASSUME TimerInv, [TimerNext]_timerVars PROVE TimerInv'
    OBVIOUS
  <2>1. CASE SysTick
    BY <2>1, TimerInvTick
  <2>2. CASE TimerReset
    BY <2>2, TimerInvSetup DEF TimerReset, TimerInv, TimerTypes, AlarmType
  <2>3. CASE \E w \in Waits, auto \in BOOLEAN : TimerSetup(w, auto)
    BY <2>3, TimerInvSetup, TimerAssumption
  <2>4. CASE HasElapsed
    <3>1. CASE alarm.elapsed \/ Ticks < alarm.end_time
      <4>1. asked' = clock /\ answer' = FALSE /\ UNCHANGED <<clock, set_at, alarm, fired>>
        BY <2>4, <3>1, NumbersOnly DEF HasElapsed
      <4> QED
        BY <3>1, <4>1, TimerInvNo
    <3>2. CASE ~alarm.elapsed /\ Ticks >= alarm.end_time
      BY <2>4, <3>2, TimerInvOneShot, TimerInvRepeat
    <3> QED
      BY <2>4, <3>1, <3>2 DEF HasElapsed
  <2>5. CASE DelayReturns \/ (\E ms \in Waits : DelayCall(ms)) \/ UNCHANGED timerVars
    BY <2>5 DEF DelayReturns, DelayCall, timerVars, TimerInv, TimerTypes, AlarmType,
                TimerOnTime, Due, SameEra
  <2> QED
    BY <2>1, <2>2, <2>3, <2>4, <2>5 DEF TimerNext
<1>2. TimerInv => TimerOnTime
  BY DEF TimerInv, TimerTypes, AlarmType
<1> QED
  BY <1>1, <1>2, TimerInvInit, PTL DEF TimerSpec

-----------------------------------------------------------------------------
(* The ring.  The main loop reads only a cell that the writer has filled   *)
(* and does not own: between DataAvailable and PublishIndex the indices    *)
(* differ, and the byte fetched is the one at the reader's index.          *)
Reading ==
  /\ pc \in {"compare", "fetch", "publish"} => reader_index # writer_index
  /\ pc = "publish" => fetched = buffer[reader_index]
  /\ pc # "uninitialised"

RingInv == RingTypeOK /\ Reading

(* Indices advance by one or go back to the start.                         *)
LEMMA Wrap ==
  ASSUME NEW x \in 0 .. 2 * Size - 1
  PROVE  (x % Size) = IF x < Size THEN x ELSE x - Size
<1>1. Size \in Nat \ {0}
  BY RingAssumption
<1>2. CASE x < Size
  <2>1. x \in 0 .. Size - 1
    BY <1>1, <1>2
  <2>2. (x % Size) = x
    BY <1>1, <2>1
  <2> QED
    BY <1>2, <2>2
<1>3. CASE x >= Size
  <2>1. x \in Size .. 2 * Size - 1
    BY <1>1, <1>3
  <2>2. (x % Size) = x - Size
    BY <1>1, <2>1
  <2> QED
    BY <1>1, <1>3, <2>1, <2>2
<1> QED
  BY <1>1, <1>2, <1>3

(* The next index is an index: the one above, or 0.                        *)
LEMMA NextIndexType ==
  ASSUME NEW i \in Index
  PROVE  /\ NextIndex(i) \in Index
         /\ NextIndex(i) = IF i + 1 < Size THEN i + 1 ELSE 0
<1> DEFINE x == i + 1
<1>1. x \in 1 .. Size /\ x \in 0 .. 2 * Size - 1 /\ Size \in Nat
  BY RingAssumption DEF Index
<1> HIDE DEF x
<1>2. (x % Size) = IF x < Size THEN x ELSE x - Size
  BY <1>1, Wrap
<1>3. (x % Size) = IF x < Size THEN x ELSE 0
  BY <1>1, <1>2
<1> QED
  BY <1>1, <1>3 DEF Index, NextIndex, x

(* The invariant holds at the start.                                       *)
LEMMA RingStarts == RingInit => RingInv
  BY RingAssumption DEF RingInit, RingInv, RingTypeOK, Reading, Index

(* Every step keeps it.                                                    *)
LEMMA RingStep == RingInv /\ [RingNext]_ringVars => RingInv'
<1> SUFFICES ASSUME RingInv, [RingNext]_ringVars PROVE RingInv'
  OBVIOUS
<1> USE DEF RingInv, RingTypeOK, Reading
<1>1. ASSUME NEW b \in Byte, WriteByte(b) PROVE RingInv'
  BY <1>1, NextIndexType DEF WriteByte
<1>2. CASE DataAvailable
  BY <1>2 DEF DataAvailable
<1>3. CASE CompareIndices
  BY <1>3 DEF CompareIndices
<1>4. CASE FetchByte
  BY <1>4 DEF FetchByte
<1>5. CASE PublishIndex
  BY <1>5, NextIndexType DEF PublishIndex
<1>6. CASE UNCHANGED ringVars
  BY <1>6 DEF ringVars
<1> QED
  BY <1>1, <1>2, <1>3, <1>4, <1>5, <1>6 DEF RingNext, ReadByte

(* The invariant holds in every state: the index that the main loop        *)
(* compared is still not the writer's when it fetches and when it          *)
(* publishes.                                                              *)
THEOREM RingInvariant == RingSpec => []RingInv
  BY RingStarts, RingStep, PTL DEF RingSpec

(* The state of the ring keeps its type.                                   *)
THEOREM RingTypeCorrect == RingSpec => []RingTypeOK
<1>1. RingInv => RingTypeOK
  BY DEF RingInv
<1> QED
  BY <1>1, RingInvariant, PTL

(* uart_read_byte never returns the byte its frame happened to hold: once  *)
(* uart_data_available has said yes, no interrupt can make it untrue.      *)
THEOREM ReadsAreInitialised == RingSpec => []NeverUninitialised
<1>1. RingInv => NeverUninitialised
  BY DEF RingInv, Reading, NeverUninitialised
<1> QED
  BY <1>1, RingInvariant, PTL

-----------------------------------------------------------------------------
(* What lies between the indices.                                          *)

(* The number of bytes that wait, by the order of the indices.             *)
LEMMA UsedValue ==
  ASSUME NEW r \in Index, NEW w \in Index
  PROVE  /\ ((w - r) % Size) \in 0 .. Size - 1
         /\ ((w - r) % Size) = IF w >= r THEN w - r ELSE w - r + Size
<1> DEFINE d == w - r
<1>1. d \in 1 - Size .. Size - 1 /\ Size \in Nat \ {0}
  BY RingAssumption DEF Index
<1> HIDE DEF d
<1>2. CASE d >= 0
  <2>1. d \in 0 .. Size - 1
    BY <1>1, <1>2
  <2>2. (d % Size) = d
    BY <1>1, <2>1
  <2> QED
    BY <1>1, <1>2, <2>1, <2>2 DEF d, Index
<1>3. CASE d < 0
  <2>1. d \in -Size .. -1
    BY <1>1, <1>3
  <2>2. (d % Size) = d + Size
    BY <1>1, <2>1
  <2> QED
    BY <1>1, <1>3, <2>1, <2>2 DEF d, Index
<1> QED
  BY <1>1, <1>2, <1>3

(* The cell of a byte that waits.                                          *)
LEMMA SlotValue ==
  ASSUME NEW r \in Index, NEW i \in 1 .. Size
  PROVE  /\ ((r + i - 1) % Size) \in Index
         /\ ((r + i - 1) % Size) = IF r + i <= Size THEN r + i - 1 ELSE r + i - 1 - Size
<1> DEFINE x == r + i - 1
<1>1. x \in 0 .. 2 * Size - 1 /\ Size \in Nat /\ x = r + i - 1
  BY RingAssumption DEF Index
<1> HIDE DEF x
<1>2. (x % Size) = IF x < Size THEN x ELSE x - Size
  BY <1>1, Wrap
<1>3. (x % Size) = IF r + i <= Size THEN r + i - 1 ELSE r + i - 1 - Size
  BY <1>1, <1>2 DEF Index
<1>4. (x % Size) \in Index
  BY <1>1, <1>2 DEF Index
<1> QED
  BY <1>3, <1>4 DEF x

(* What waits is a sequence of bytes.                                      *)
LEMMA WaitingType ==
  ASSUME RingTypeOK
  PROVE  /\ Waiting \in Seq(Byte) /\ Len(Waiting) = Used
         /\ Used \in 0 .. Size - 1
         /\ \A i \in 1 .. Used : Waiting[i] = buffer[(reader_index + i - 1) % Size]
<1>1. Used \in 0 .. Size - 1
  BY UsedValue DEF RingTypeOK, Used
<1>2. ASSUME NEW i \in 1 .. Used
      PROVE  ((reader_index + i - 1) % Size) \in Index
  <2>1. i \in 1 .. Size
    BY <1>1, RingAssumption
  <2> QED
    BY <2>1, SlotValue DEF RingTypeOK
<1>3. \A i \in 1 .. Used : buffer[(reader_index + i - 1) % Size] \in Byte
  BY <1>2 DEF RingTypeOK
<1> QED
  BY <1>1, <1>3, RingAssumption DEF Waiting

(* A write appends a byte to what waits.                                   *)
LEMMA WriteAppends ==
  ASSUME RingTypeOK, NEW b \in Byte, WriteByte(b)
  PROVE  Len(Waiting) < Size - 1 /\ Waiting' = Append(Waiting, b)
<1> DEFINE r == reader_index
           w == writer_index
           n == IF w >= r THEN w - r ELSE w - r + Size
<1>1. /\ r \in Index /\ w \in Index /\ Size \in Nat /\ Size >= 2
      /\ buffer \in [Index -> Byte]
  BY RingAssumption DEF RingTypeOK
<1>2. Used = n
  BY <1>1, UsedValue DEF Used
<1>3. /\ reader_index' = r /\ writer_index' = (IF w + 1 < Size THEN w + 1 ELSE 0)
      /\ writer_index' # r /\ writer_index' \in Index
      /\ buffer' = [buffer EXCEPT ![w] = b]
  BY <1>1, NextIndexType DEF WriteByte
<1>4. n < Size - 1 /\ n \in Nat
  BY <1>1, <1>3 DEF Index
<1>5. Used' = n + 1
  <2>1. Used' = IF writer_index' >= r THEN writer_index' - r ELSE writer_index' - r + Size
    BY <1>1, <1>3, UsedValue DEF Used
  <2> QED
    BY <1>1, <1>3, <2>1 DEF Index
<1>6. \A i \in 1 .. n : /\ ((r + i - 1) % Size) # w
                       /\ ((r + i - 1) % Size) \in Index
  BY <1>1, <1>4, SlotValue DEF Index
<1>7. ((r + (n + 1) - 1) % Size) = w
  <2>1. n + 1 \in 1 .. Size
    BY <1>1, <1>4
  <2> QED
    BY <1>1, <1>4, <2>1, SlotValue DEF Index
<1>8. Waiting' = [i \in 1 .. n + 1 |-> buffer'[(r + i - 1) % Size]]
  BY <1>3, <1>5 DEF Waiting
<1>9. \A i \in 1 .. n + 1 :
        buffer'[(r + i - 1) % Size] =
          IF i <= n THEN buffer[(r + i - 1) % Size] ELSE b
  BY <1>1, <1>3, <1>4, <1>6, <1>7
<1>10. Waiting \in Seq(Byte) /\ Len(Waiting) = n
  BY <1>2, WaitingType
<1>11. /\ Append(Waiting, b) \in Seq(Byte) /\ Len(Append(Waiting, b)) = n + 1
       /\ \A i \in 1 .. n + 1 :
            Append(Waiting, b)[i] = IF i <= n THEN Waiting[i] ELSE b
  BY <1>4, <1>10
<1>12. \A i \in 1 .. n + 1 : Waiting'[i] = Append(Waiting, b)[i]
  BY <1>2, <1>4, <1>8, <1>9, <1>11, WaitingType
<1>13. Waiting' \in Seq(Byte) /\ Len(Waiting') = n + 1
  <2>1. \A i \in 1 .. n + 1 : Append(Waiting, b)[i] \in Byte
    BY <1>4, <1>11
  <2>2. Waiting' \in [1 .. n + 1 -> Byte]
    BY <1>8, <1>12, <2>1
  <2> QED
    BY <1>4, <2>2
<1> QED
  BY <1>4, <1>10, <1>11, <1>12, <1>13, SeqEqual

(* Publishing the index takes the oldest byte.                             *)
LEMMA PublishTakes ==
  ASSUME RingInv, PublishIndex
  PROVE  /\ Waiting # <<>> /\ byte' = Head(Waiting)
         /\ Waiting' = Tail(Waiting)
<1> DEFINE r == reader_index
           w == writer_index
           n == IF w >= r THEN w - r ELSE w - r + Size
<1>1. /\ r \in Index /\ w \in Index /\ Size \in Nat /\ Size >= 2
      /\ buffer \in [Index -> Byte] /\ RingTypeOK /\ r # w /\ fetched = buffer[r]
  BY RingAssumption DEF RingInv, RingTypeOK, Reading, PublishIndex
<1>2. Used = n
  BY <1>1, UsedValue DEF Used
<1>3. n \in 1 .. Size - 1
  BY <1>1 DEF Index
<1>4. /\ reader_index' = (IF r + 1 < Size THEN r + 1 ELSE 0) /\ writer_index' = w
      /\ reader_index' \in Index /\ buffer' = buffer /\ byte' = fetched
  BY <1>1, NextIndexType DEF PublishIndex
<1>5. Used' = n - 1
  <2>1. Used' = IF w >= reader_index' THEN w - reader_index' ELSE w - reader_index' + Size
    BY <1>1, <1>4, UsedValue DEF Used
  <2> QED
    BY <1>1, <1>4, <2>1 DEF Index
<1>6. /\ Waiting \in Seq(Byte) /\ Len(Waiting) = n
      /\ \A i \in 1 .. n : Waiting[i] = buffer[(r + i - 1) % Size]
  BY <1>1, <1>2, WaitingType
<1>7. Waiting # <<>> /\ byte' = Head(Waiting)
  <2>1. Waiting # <<>> /\ Head(Waiting) = Waiting[1]
    BY <1>3, <1>6
  <2>2. 1 \in 1 .. Size
    BY <1>1
  <2>3. ((r + 1 - 1) % Size) = r
    BY <1>1, <2>2, SlotValue DEF Index
  <2> QED
    BY <1>1, <1>3, <1>4, <1>6, <2>1, <2>3
<1>8. Waiting' = [i \in 1 .. n - 1 |-> buffer[(reader_index' + i - 1) % Size]]
  BY <1>4, <1>5 DEF Waiting
<1>9. ASSUME NEW i \in 1 .. n - 1
      PROVE  Waiting'[i] = Waiting[i + 1] /\ Waiting'[i] \in Byte
  <2>1. i \in 1 .. Size /\ i + 1 \in 1 .. Size /\ i + 1 \in 1 .. n
    BY <1>1, <1>3
  <2>2. ((reader_index' + i - 1) % Size) =
          IF reader_index' + i <= Size THEN reader_index' + i - 1
                                       ELSE reader_index' + i - 1 - Size
    BY <1>4, <2>1, SlotValue
  <2>3. ((r + (i + 1) - 1) % Size) =
          IF r + (i + 1) <= Size THEN r + (i + 1) - 1 ELSE r + (i + 1) - 1 - Size
    BY <1>1, <2>1, SlotValue
  <2>4. ((reader_index' + i - 1) % Size) = ((r + (i + 1) - 1) % Size)
    BY <1>1, <1>3, <1>4, <2>1, <2>2, <2>3 DEF Index
  <2>5. Waiting'[i] = buffer[(r + (i + 1) - 1) % Size]
    BY <1>8, <2>4
  <2>6. Waiting[i + 1] = buffer[(r + (i + 1) - 1) % Size]
    BY <1>6, <2>1
  <2> QED
    BY <1>3, <1>6, <2>1, <2>5, <2>6
<1>10. /\ Tail(Waiting) \in Seq(Byte) /\ Len(Tail(Waiting)) = n - 1
       /\ \A i \in 1 .. n - 1 : Tail(Waiting)[i] = Waiting[i + 1]
  BY <1>3, <1>6, <1>7, HeadTailProperties
<1>11. Waiting' \in Seq(Byte) /\ Len(Waiting') = n - 1
  <2>1. Waiting' \in [1 .. n - 1 -> Byte]
    BY <1>8, <1>9
  <2> QED
    BY <1>3, <2>1
<1>12. Waiting' = Tail(Waiting)
  BY <1>9, <1>10, <1>11, SeqEqual
<1> QED
  BY <1>7, <1>12

-----------------------------------------------------------------------------
(* Whatever the interrupt does between the instructions of a read, the     *)
(* ring hands over the bytes it accepted, once each and in order.          *)
THEOREM RingIsByteQueue == RingSpec => IsByteQueue
<1>1. ASSUME RingInit PROVE Queue!Init
  <2>1. Used = 0
    BY <1>1, UsedValue, RingStarts DEF RingInit, Used, RingInv, RingTypeOK
  <2>2. Waiting = <<>>
    BY <2>1 DEF Waiting
  <2> QED
    BY <1>1, <2>2 DEF RingInit, Queue!Init
<1>2. ASSUME RingInv, [RingNext]_ringVars PROVE [Queue!Next]_<<Waiting, byte>>
  <2>1. ASSUME NEW b \in Byte, WriteByte(b) PROVE Queue!Next
    <3>1. Len(Waiting) < Size - 1 /\ Waiting' = Append(Waiting, b) /\ byte' = byte
      BY <1>2, <2>1, WriteAppends DEF RingInv, WriteByte
    <3> QED
      BY <3>1 DEF Queue!Next, Queue!Accept
  <2>2. CASE PublishIndex
    BY <1>2, <2>2, PublishTakes DEF Queue!Next, Queue!Take
  <2>3. CASE DataAvailable \/ CompareIndices \/ FetchByte \/ UNCHANGED ringVars
    BY <2>3 DEF DataAvailable, CompareIndices, FetchByte, ringVars, Waiting, Used
  <2> QED
    BY <1>2, <2>1, <2>2, <2>3 DEF RingNext, ReadByte
<1> QED
  BY <1>1, <1>2, RingInvariant, PTL DEF RingSpec, IsByteQueue, Queue!Spec
=============================================================================
