-------------------------------- MODULE Timer --------------------------------
(***************************************************************************)
(* driver/timer.c and the millisecond counter of driver/systick.c it reads.*)
(* The counter has a width (TickModulus stands for 2^32); clock is the     *)
(* time since the reset that the counter would show if it had none.  The   *)
(* SysTick interrupt comes between any two calls.                          *)
(***************************************************************************)
EXTENDS Integers

CONSTANTS
  TickModulus,     \* 2^32: values of the variable ticks
  Waits,           \* times passed to Timer_setup and systick_delay
  MaxClock,        \* bound on the milliseconds, but for a delay under way
  MaxFired         \* bound on the answers that a timer has elapsed

ASSUME TimerAssumption ==
  /\ TickModulus \in Nat \ {0} /\ Waits \subseteq 1 .. TickModulus - 1
  /\ MaxClock \in Nat /\ MaxFired \in Nat

VARIABLES
  clock,
  alarm,           \* the Timer
  set_at,          \* clock at the last Timer_setup
  fired,           \* times it has been found elapsed since
  asked, answer,   \* clock and result of the last Timer_has_elapsed since
  delay            \* the call of systick_delay under way

timerVars == <<clock, alarm, set_at, fired, asked, answer, delay>>

NoDelay == [called |-> 0, wait |-> 0, end_ticks |-> 0]

(* systick_get_ticks *)
Ticks == clock % TickModulus

TimerInit ==
  /\ clock = 0 /\ set_at = 0 /\ fired = 0 /\ asked = -1 /\ answer = FALSE
  /\ alarm = [wait_time |-> 0, end_time |-> 0, auto_reset |-> FALSE, elapsed |-> TRUE]
  /\ delay = NoDelay

(* sys_tick_handler *)
SysTick ==
  /\ clock < MaxClock \/ Ticks < delay.end_ticks
  /\ clock' = clock + 1
  /\ UNCHANGED <<alarm, set_at, fired, asked, answer, delay>>

TimerSetup(wait_time, auto_reset) ==
  /\ delay = NoDelay
  /\ alarm' = [wait_time  |-> wait_time,
               end_time   |-> (Ticks + wait_time) % TickModulus,
               auto_reset |-> auto_reset,
               elapsed    |-> FALSE]
  /\ set_at' = clock /\ fired' = 0 /\ asked' = -1 /\ answer' = FALSE
  /\ UNCHANGED <<clock, delay>>

TimerReset == alarm.wait_time > 0 /\ TimerSetup(alarm.wait_time, alarm.auto_reset)

(* Mutant: the next period is counted from now.                            *)
NextEndDrifting == (Ticks + alarm.wait_time) % TickModulus

(* now + wait_time - drift, in uint32_t.                                   *)
NextEnd ==
  LET drift == (Ticks - alarm.end_time) % TickModulus
  IN (((Ticks + alarm.wait_time) % TickModulus) - drift) % TickModulus

HasElapsed ==
  /\ delay = NoDelay
  /\ asked' = clock
  /\ \/ /\ alarm.elapsed \/ Ticks < alarm.end_time
        /\ answer' = FALSE /\ UNCHANGED <<alarm, fired>>
     \/ /\ ~alarm.elapsed /\ Ticks >= alarm.end_time
        /\ fired < MaxFired /\ fired' = fired + 1 /\ answer' = TRUE
        /\ \/ alarm.auto_reset /\ alarm' = [alarm EXCEPT !.end_time = NextEnd]
           \/ ~alarm.auto_reset /\ alarm' = [alarm EXCEPT !.elapsed = TRUE]
  /\ UNCHANGED <<clock, set_at, delay>>

DelayCall(ms) ==
  /\ delay = NoDelay
  /\ delay' = [called |-> clock, wait |-> ms, end_ticks |-> (Ticks + ms) % TickModulus]
  /\ UNCHANGED <<clock, alarm, set_at, fired, asked, answer>>

(* Mutant: the loop counts one tick less.                                  *)
DelayReturnsEarly ==
  /\ delay # NoDelay /\ Ticks + 1 >= delay.end_ticks
  /\ delay' = NoDelay
  /\ UNCHANGED <<clock, alarm, set_at, fired, asked, answer>>

DelayReturns ==
  /\ delay # NoDelay /\ Ticks >= delay.end_ticks
  /\ delay' = NoDelay
  /\ UNCHANGED <<clock, alarm, set_at, fired, asked, answer>>

TimerNext ==
  \/ SysTick \/ TimerReset \/ HasElapsed \/ DelayReturns
  \/ \E w \in Waits, auto \in BOOLEAN : TimerSetup(w, auto)
  \/ \E ms \in Waits : DelayCall(ms)

TimerSpec == TimerInit /\ [][TimerNext]_timerVars

-----------------------------------------------------------------------------
(* Properties.                                                             *)

(* The counter does not wrap around between two times.                     *)
SameEra(from, until) == from \div TickModulus = until \div TickModulus

Due == set_at + (IF alarm.auto_reset THEN fired + 1 ELSE 1) * alarm.wait_time

(* As long as the counter does not wrap before the timer is due, however   *)
(* late and irregularly it is asked: a one-shot timer has been found       *)
(* elapsed once, by the first question that came in time; a repeating one  *)
(* never ahead of its periods, and when it says no it has been found       *)
(* elapsed once for every period that is over - the corrections of         *)
(* Timer_has_elapsed do not drift.                                         *)
TimerOnTime ==
  SameEra(set_at, clock) /\ SameEra(set_at, Due) =>
    /\ ~alarm.auto_reset /\ alarm.wait_time > 0 =>
         fired = IF asked >= Due THEN 1 ELSE 0
    /\ alarm.auto_reset =>
         /\ fired > 0 => set_at + fired * alarm.wait_time <= asked
         /\ asked >= set_at /\ ~answer => asked < Due

(* systick_delay never returns before its time, unless the counter wraps   *)
(* around meanwhile.                                                       *)
DelayIsWhole ==
  [][(delay # NoDelay /\ delay' = NoDelay
        /\ SameEra(delay.called, delay.called + delay.wait))
     => clock >= delay.called + delay.wait]_timerVars
==============================================================================
