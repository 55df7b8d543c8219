------------------------------- MODULE Clock -------------------------------
(***************************************************************************)
(* Time in pintos2: the CMOS clock of devices/rtc.c, the interval timer of *)
(* devices/pit.c, the delays of devices/timer.c and the speaker of         *)
(* devices/speaker.c.                                                      *)
(***************************************************************************)
EXTENDS Integers, Sequences

CONSTANTS PIT_HZ, TIMER_FREQ

days_per_month == <<31, 28, 31, 30, 31, 30, 31, 31, 30, 31, 30, 31>>
\* The six registers, in the order rtc_get_time() reads them, count in these units; days
\* and months are from 0, the year is one from 1970 to 2069.
Radix(d) == <<60, 60, 24, days_per_month[d[5] + 1] + (IF d[5] = 1 /\ d[6] % 4 = 0 THEN 1 ELSE 0), 12, 100>>
ToBcd(n) == (n \div 10) * 16 + (n % 10)
bcd_to_bin(x) == (x % 16) + (x \div 16) * 10
\* One second later.
Tick(d) ==
    [i \in 1 .. 6 |-> IF \A j \in 1 .. i - 1 : d[j] = Radix(d)[j] - 1 THEN (d[i] + 1) % Radix(d)[i] ELSE d[i]]
cmos_read(d, index) == ToBcd(IF index \in {4, 5} THEN d[index] + 1 ELSE d[index])
\* A pass of the loop whose tick, if any, comes before the read numbered tick: a second
\* is much longer than a pass.
DateAt(d, tick, read) == IF read >= tick THEN Tick(d) ELSE d
\* A mutant: the seconds are not read again.
PassOnce(d, tick) == <<[i \in 1 .. 6 |-> bcd_to_bin(cmos_read(DateAt(d, tick, i), i))]>>
Pass(d, tick) ==
    LET got == [i \in 1 .. 6 |-> bcd_to_bin(cmos_read(DateAt(d, tick, i), i))]
    IN IF got[1] = bcd_to_bin(cmos_read(DateAt(d, tick, 7), 1)) THEN <<got>> ELSE << >>
\* rtc_get_time()'s loop: a pass that fails had the tick, the next one has none.
Components(d, tick) ==
    IF Pass(d, tick) # << >> THEN Pass(d, tick)[1] ELSE Pass(Tick(d), 8)[1]

Sum[n \in 0 .. 12] == IF n = 0 THEN 0 ELSE Sum[n - 1] + days_per_month[n]
\* The seconds it returns: the days of the current month are counted as well, and 1970 is
\* taken for a leap year.
Seconds(c) ==
    LET year == (IF c[6] < 70 THEN c[6] + 100 ELSE c[6]) - 70
        days == year * 365 + (IF year = 0 THEN 0 ELSE (year - 1) \div 4) + Sum[c[5]]
                + (IF c[5] > 2 /\ year % 4 = 0 THEN 1 ELSE 0) + c[4] - 1
    IN ((days * 24 + c[3]) * 60 + c[2]) * 60 + c[1]
rtc_get_time(d, tick) == Seconds(Components(d, tick))

-----------------------------------------------------------------------------
(* devices/pit.c, devices/speaker.c                                        *)
PitCount(frequency) ==
    IF frequency < 19 THEN 0
    ELSE IF frequency > PIT_HZ THEN 2
    ELSE ((PIT_HZ + frequency \div 2) \div frequency) % 65536
\* The counter is loaded in two bytes, low one first; 0 counts as 65536.
pit_configure_channel(frequency) ==
    LET count == PitCount(frequency)
        loaded == (count % 256) + 256 * (count \div 256)
    IN IF loaded = 0 THEN 65536 ELSE loaded
speaker_off(s) == [s EXCEPT !.gate = FALSE]
speaker_on(s, frequency) ==
    IF frequency \in 20 .. 20000 THEN [gate |-> TRUE, count |-> pit_configure_channel(frequency)]
    ELSE speaker_off(s)
\* speaker_beep(): what another thread does to the speaker while this one sleeps comes
\* between the two.
speaker_beep(s, interrupts_on, other) ==
    IF interrupts_on THEN speaker_off(IF other > 0 THEN speaker_on(speaker_on(s, 440), other) ELSE speaker_on(s, 440))
    ELSE s

-----------------------------------------------------------------------------
(* devices/timer.c: loops is the number of empty loops in a tick.          *)
too_many_loops(n, loops) == n > loops
RECURSIVE HighBit(_, _)
HighBit(n, loops) == IF too_many_loops(2 * n, loops) THEN n ELSE HighBit(2 * n, loops)
\* Each bit is tried with the high bit only, not with the bits found so far.
RECURSIVE Refine(_, _, _, _)
Refine(found, high_bit, test_bit, loops) ==
    IF test_bit = high_bit \div 1024 THEN found
    ELSE Refine(IF too_many_loops(high_bit + test_bit, loops) THEN found ELSE found + test_bit,
                high_bit, test_bit \div 2, loops)
timer_calibrate(loops) == LET h == HighBit(1024, loops) IN Refine(h, h, h \div 2, loops)
\* timer_sleep(): how many ticks pass from the call, when the next tick is due at once.
RECURSIVE timer_sleep(_, _)
timer_sleep(ticks, elapsed) == IF elapsed < ticks THEN timer_sleep(ticks, elapsed + 1) ELSE elapsed
\* real_time_sleep(): whole ticks asleep, or a part of one in a loop (real_time_delay()).
real_time_delay(num, denom, loops_per_tick) == (((loops_per_tick * num) \div 1000) * TIMER_FREQ) \div (denom \div 1000)
real_time_sleep(num, denom, loops_per_tick) ==
    LET ticks == (num * TIMER_FREQ) \div denom
    IN IF ticks > 0 THEN [ticks |-> timer_sleep(ticks, 0), loops |-> 0]
       ELSE [ticks |-> 0, loops |-> real_time_delay(num, denom, loops_per_tick)]
timer_msleep(ms, loops_per_tick) == real_time_sleep(ms, 1000, loops_per_tick)
timer_usleep(us, loops_per_tick) == real_time_sleep(us, 1000000, loops_per_tick)
timer_nsleep(ns, loops_per_tick) == real_time_sleep(ns, 1000000000, loops_per_tick)
timer_mdelay(ms, loops_per_tick) == real_time_delay(ms, 1000, loops_per_tick)
timer_udelay(us, loops_per_tick) == real_time_delay(us, 1000000, loops_per_tick)
timer_ndelay(ns, loops_per_tick) == real_time_delay(ns, 1000000000, loops_per_tick)

-----------------------------------------------------------------------------
\* The days since January 1, 1970, of a date of the calendar.
TrueDays(c) ==
    LET year == (IF c[6] < 70 THEN c[6] + 100 ELSE c[6]) - 70
    IN year * 365 + (year + 1) \div 4 + Sum[c[5] - 1] + (IF c[5] > 2 /\ year % 4 = 2 THEN 1 ELSE 0) + c[4] - 1
\* What is read is one moment's date, before or after the tick that came in between.  What
\* is returned for it is not the "number of seconds since Unix epoch" of rtc.c:40: it has
\* the right time of the day, but is from 27 to 32 days ahead, because the days of the
\* current month are counted as well (rtc.c:86) and leap years are taken to be those from
\* 1970 on.
ReadAgrees(d, tick) ==
    LET Shown(x) == [i \in 1 .. 6 |-> IF i \in {4, 5} THEN x[i] + 1 ELSE x[i]]
        c == Components(d, tick)
        day == 24 * 60 * 60
    IN /\ c \in {Shown(d), Shown(Tick(d))}
       /\ rtc_get_time(d, tick) % day = (c[3] * 60 + c[2]) * 60 + c[1]
       /\ rtc_get_time(d, tick) \div day - TrueDays(c) \in 27 .. 32
\* The counter loaded is within half a cycle of the period asked for, where it fits.
PitAgrees(frequency) ==
    LET count == pit_configure_channel(frequency) IN
    /\ count \in 1 .. 65536
    /\ frequency \in 19 .. PIT_HZ =>
          2 * (count * frequency - PIT_HZ) <= frequency /\ 2 * (PIT_HZ - count * frequency) <= frequency
    /\ \A other \in {0, 10, 440} : ~ speaker_beep([gate |-> FALSE, count |-> 0], TRUE, other).gate
\* The estimate has the right high bit, and a sleep ends no sooner than whole ticks allow,
\* a tick early at the most.
DelayAgrees(loops) ==
    LET n == timer_calibrate(loops)
        ms == loops % 64
        r == timer_msleep(ms, n)
    IN /\ \E k \in 10 .. 20 : 2 ^ k <= n /\ n < 2 ^ (k + 1) /\ 2 ^ k <= loops /\ loops < 2 ^ (k + 1)
       /\ IF r.ticks > 0 THEN r.ticks * 1000 <= ms * TIMER_FREQ /\ ms * TIMER_FREQ < (r.ticks + 1) * 1000
          ELSE r.loops <= n /\ (ms = 0 => r.loops = 0)
       /\ r.ticks = 0 => r.loops = timer_mdelay(ms, n)
       /\ timer_usleep(ms, n) = [ticks |-> 0, loops |-> timer_udelay(ms, n)]
       /\ timer_nsleep(ms, n) = [ticks |-> 0, loops |-> timer_ndelay(ms, n)]
       /\ timer_udelay(ms, n) * 1000 <= timer_mdelay(ms, n) + 1000
       /\ timer_ndelay(ms, n) * 1000 <= timer_udelay(ms, n) + 1000
=============================================================================
