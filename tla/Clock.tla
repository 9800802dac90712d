-------------------------------- MODULE Clock --------------------------------
(***************************************************************************)
(* The clocks of src/src/pl031.c: the processor's counter, read as time    *)
(* since boot, and the PL031, whose seconds give the time of day.          *)
(* boot_time is set nowhere and stays 0.  Frq is the counter's frequency,  *)
(* Nano the nanoseconds of a second, scaled.                               *)
(***************************************************************************)
EXTENDS Integers

CONSTANTS
  Frq, Nano,
  Lags,                \* ticks of a second the PL031 may be behind the counter
  Stamps,              \* what callers set the PL031 to
  MaxTicks             \* bound: how far the counter runs

ASSUME ClockAssumption ==
  /\ Frq \in Nat \ {0} /\ Nano \in Nat \ {0}
  /\ Lags \subseteq 0 .. Frq - 1 /\ Stamps \subseteq Nat

VARIABLES
  cntpct,              \* the counter
  rtc,                 \* the PL031: its seconds (DR), and its phase lag
  boot_epoch,          \* DR at pl031_init_time, 0 before
  since                \* ghost: cntpct at pl031_init_time, -1 if DR was set later

clockVars == <<cntpct, rtc, boot_epoch, since>>

ClockInit ==
  /\ cntpct = 0
  /\ rtc \in [dr : Stamps, lag : Lags]
  /\ boot_epoch = 0 /\ since = -1

\* The hardware: both clocks run at the same rate.
Tick ==
  /\ cntpct < MaxTicks
  /\ cntpct' = cntpct + 1
  /\ rtc' = [rtc EXCEPT !.dr = IF (cntpct + 1) % Frq = rtc.lag THEN @ + 1 ELSE @]
  /\ UNCHANGED <<boot_epoch, since>>

pl031_get_time == rtc.dr

pl031_init_time ==
  /\ boot_epoch' = pl031_get_time
  /\ since' = cntpct
  /\ UNCHANGED <<cntpct, rtc>>

\* LR loads the seconds; boot_epoch keeps the old ones.
pl031_set_time(timestamp) ==
  /\ rtc' = [rtc EXCEPT !.dr = timestamp]
  /\ since' = -1
  /\ UNCHANGED <<cntpct, boot_epoch>>

ClockNext == Tick \/ pl031_init_time \/ \E t \in Stamps : pl031_set_time(t)
ClockSpec == ClockInit /\ [][ClockNext]_clockVars

\* elapsed = now - boot_time.
get_monotonic_time(now) ==
  [sec |-> now \div Frq, nsec |-> ((now % Frq) * Nano) \div Frq]

MutRealtime(now) == [sec |-> boot_epoch + pl031_get_time, nsec |-> get_monotonic_time(now).nsec]

get_realtime(now) ==
  [sec |-> boot_epoch + get_monotonic_time(now).sec, nsec |-> get_monotonic_time(now).nsec]
------------------------------------------------------------------------------
\* A reading of the monotonic clock is the elapsed time rounded down to a
\* nanosecond, so that readings of later moments are never earlier.
MonotonicExact ==
  LET t == get_monotonic_time(cntpct) IN
  /\ t.nsec \in 0 .. Nano - 1
  /\ (t.sec * Nano + t.nsec) * Frq \in cntpct * Nano - Frq + 1 .. cntpct * Nano

\* The time of day runs ahead of the PL031 by the time from boot to
\* pl031_init_time, for ever, to within a second: since boot_time is 0 that
\* time is counted twice.  It is right only if pl031_init_time comes first.
RealtimeLead ==
  since >= 0 => get_realtime(cntpct).sec - pl031_get_time \in (since \div Frq) - 1 .. (since \div Frq) + 1

\* The readings of both functions of pl031.c: since boot exact, of the day as
\* far ahead as it was late to ask.
ClocksExact == MonotonicExact /\ RealtimeLead
==============================================================================
