------------------------------ MODULE Traffic ------------------------------
(***************************************************************************)
(* traffic: what people say of load (a rate, users, people at work, a       *)
(* schedule, batches) as a monthly volume and a peak per second, each read  *)
(* from one of five shapes or refused.                                      *)
(*                                                                         *)
(* The volume is counted in parts of one arrival, Part of them, so that a   *)
(* month of 730/24 days, five sevenths of it and a schedule that fires on   *)
(* a date or a weekday are whole numbers; a peak is a fraction in lowest    *)
(* terms.  A minute of Second seconds and an hour of Minute minutes keep    *)
(* a month's seconds within TLC's integers.  Texts are what they parse to.  *)
(***************************************************************************)
EXTENDS Integers, Sequences, FiniteSets, FiniteSetsExt, SequencesExt

CONSTANTS
  Second,  \* seconds in a minute: 60
  Minute,  \* minutes in an hour: 60
  None     \* a field that is not set

ASSUME ClockAssumption == Second \in Nat \ {0} /\ Minute \in Nat \ {0}

Part == 1008            \* 84 * 12: a day of the month is 2555/84, a month 1/12 of a year
HoursPerMonth == 730
Hour == Second * Minute
Refused == [refused |-> TRUE]
OK(r) == r # Refused

RECURSIVE Gcd(_, _)
Gcd(a, b) == IF b = 0 THEN a ELSE Gcd(b, a % b)
Without(g, n, d) == <<n \div g, d \div g>>
Frac(n, d) == Without(Gcd(n, d), n, d)

-----------------------------------------------------------------------------
(***************************************************************************)
(* windowOf and hoursOf: when traffic comes.  days are in 84ths of a day;   *)
(* an hours range that ends where or before it starts wraps midnight.       *)
(***************************************************************************)
OutsideDay(h) == h < 0 \/ h > 24
HourSpan(p) == IF p.to - p.from <= 0 THEN p.to - p.from + 24 ELSE p.to - p.from
AtMostADay(hours) == IF hours > 24 THEN None ELSE hours
HoursOf(ranges) ==
  IF \E p \in Range(ranges) : OutsideDay(p.from) \/ OutsideDay(p.to) THEN None
  ELSE AtMostADay(FoldLeft(LAMBDA n, p : n + HourSpan(p), 0, ranges))

DaysPerMonth == 2555
DaysOf(days) ==
  CASE days \in {"", "all"} -> DaysPerMonth
    [] days = "weekdays" -> (DaysPerMonth * 5) \div 7
    [] days = "weekends" -> (DaysPerMonth * 2) \div 7
    [] OTHER -> None

Window(days, hours) == IF None \in {days, hours} THEN Refused ELSE [days |-> days, hours |-> hours]
WindowOf(t) == Window(DaysOf(t.days), IF t.hours = <<>> THEN 24 ELSE HoursOf(t.hours))
Seconds(w) == w.days * w.hours * Hour          \* in 84ths of a second

-----------------------------------------------------------------------------
(***************************************************************************)
(* rated, used, concurrent: the monthly volume and the factor of the peak   *)
(* over the average.  periodsPerMonth: a day is one of the active days, a   *)
(* week and a month are the calendar's.                                     *)
(***************************************************************************)
\* Mutant: a day is any day of the month, active or not.
PeriodsOfCalendar(per, w) ==
  CASE per = "day" -> DaysPerMonth [] per = "week" -> 365 [] per = "month" -> 84
    [] OTHER -> None

PeriodsPerMonth(per, w) ==                     \* in 84ths
  CASE per = "day" -> w.days [] per = "week" -> (HoursPerMonth * 84) \div 168
    [] per = "month" -> 84 [] OTHER -> None

SubDay(per) ==
  CASE per = "second" -> 1 [] per = "minute" -> Second [] per = "hour" -> Hour
    [] OTHER -> None

Volume(parts, factor) == [parts |-> parts, factor |-> factor]

Rated(r, w) ==
  IF r.count < 0 THEN Refused
  ELSE IF SubDay(r.per) # None
       THEN Volume(r.count * (Seconds(w) \div SubDay(r.per)) * 12, 1)
  ELSE IF PeriodsPerMonth(r.per, w) = None THEN Refused
  ELSE Volume(r.count * PeriodsPerMonth(r.per, w) * 12, 2)

Used(u, w) ==
  IF \/ u.people < 0 \/ u.actions < 0 \/ PeriodsPerMonth(u.per, w) = None THEN Refused
  ELSE Volume(u.people * u.actions * PeriodsPerMonth(u.per, w) * 12, 2)

Concurrent(c, w) ==
  IF c.working < 0 \/ c.every <= 0 THEN Refused
  ELSE Volume((c.working * (Seconds(w) \div c.every)) * 12, 1)

Load(parts, peak) == [parts |-> parts, peak |-> peak]

\* peaked: the average over the active hours times the factor, unless it is given.
\* Mutant: the average is over the whole month, active or not.
AverageOfMonth(parts, w) == Frac(parts, HoursPerMonth * Hour * Part)
Average(parts, w) == Frac(parts, Seconds(w) * 12)
TimesFactor(avg, factor) == Frac(avg[1] * factor, avg[2])
Peaked(t, w, v) ==
  IF v = Refused \/ (t.peakFactor # None /\ t.peakFactor < 1) THEN Refused
  ELSE Load(v.parts, IF t.peakPerSecond # None THEN <<t.peakPerSecond, 1>>
                     ELSE TimesFactor(Average(v.parts, w), IF t.peakFactor # None THEN t.peakFactor ELSE v.factor))

-----------------------------------------------------------------------------
(***************************************************************************)
(* schedule.go.  A field of a cron expression is the sequence of its parts: *)
(* star and ask for the whole range, a-b, a value, or a word (L, W, #); a   *)
(* step of 0 is no step.                                                    *)
(***************************************************************************)
RangeOf(p, lo, hi) ==
  CASE p.form \in {"star", "ask"} -> <<lo, hi>>
    [] p.form = "range" -> <<p.a, p.b>>
    [] p.form = "value" /\ p.step # 0 -> <<p.a, hi>>
    [] p.form = "word" /\ p.step # 0 -> <<lo, hi>>
    [] OTHER -> <<>>
StepOf(p) == IF p.step > 0 THEN p.step ELSE 1

Selected(p, r) == IF r = <<>> THEN 1 ELSE IF r[2] < r[1] THEN 0 ELSE (r[2] - r[1]) \div StepOf(p) + 1
CountPart(p, lo, hi) == Selected(p, RangeOf(p, lo, hi))

CountField(f, lo, hi) == FoldLeft(LAMBDA n, p : n + CountPart(p, lo, hi), 0, f)

Whole(form) == <<[form |-> form, a |-> 0, b |-> 0, step |-> 0]>>
Restricted(f) == f \notin {<<>>, Whole("star"), Whole("ask")}

Fires(parts, gap) == [parts |-> parts, gap |-> gap]

\* cron: where both dates and weekdays are given it fires when either matches.
\* The gap is of the finest field that fires more than once.
DaysFired(c, byDate, byWeekday) ==             \* in 84ths of a day
  CASE Restricted(c.dom) /\ Restricted(c.dow) ->
         84 * byDate + 365 * byWeekday - 12 * byDate * byWeekday
    [] Restricted(c.dom) /\ ~ Restricted(c.dow) -> 84 * byDate
    [] ~ Restricted(c.dom) /\ Restricted(c.dow) -> 365 * byWeekday
    [] OTHER -> DaysPerMonth
CronDays(c) == DaysFired(c, CountField(c.dom, 1, 31), CountField(c.dow, 1, 7))

SecondsOf(f) == IF Restricted(f) \/ f = Whole("star") THEN CountField(f, 0, Second - 1) ELSE 1
GapOf(secs, mins, hours) ==
  CASE secs > 1 -> <<Second, secs>>
    [] secs <= 1 /\ mins > 1 -> <<Hour, mins>>
    [] secs <= 1 /\ mins <= 1 /\ hours > 1 -> <<24 * Hour, hours>>
    [] OTHER -> <<24 * Hour, 1>>
InADay(secs, mins, hours) == [times |-> secs * mins * hours, gap |-> GapOf(secs, mins, hours)]
OverMonth(c, day) == Fires(day.times * CronDays(c) * CountField(c.month, 1, 12), Frac(day.gap[1], day.gap[2]))
Cron(c) ==
  OverMonth(c, InADay(SecondsOf(c.sec), CountField(c.min, 0, Minute - 1), CountField(c.hour, 0, 23)))

\* rate: every n minutes, hours or days.
Unit(unit) ==
  CASE unit \in {"minute", "minutes"} -> Second [] unit \in {"hour", "hours"} -> Hour
    [] unit \in {"day", "days"} -> 24 * Hour [] OTHER -> None
RateFires(s) ==
  IF s.n <= 0 \/ Unit(s.unit) = None THEN Refused
  ELSE Fires((HoursPerMonth * Hour * Part) \div (s.n * Unit(s.unit)), <<s.n * Unit(s.unit), 1>>)

\* Parse: rate(), cron() of six fields with a year, or five or six plain fields.
Fields(f) ==
  IF Len(f) = 6
  THEN [sec |-> f[1], min |-> f[2], hour |-> f[3], dom |-> f[4], month |-> f[5], dow |-> f[6]]
  ELSE [sec |-> <<>>, min |-> f[1], hour |-> f[2], dom |-> f[3], month |-> f[4], dow |-> f[5]]
NoYear(s) == IF s.call = "cron" THEN SubSeq(s.fields, 1, 5) ELSE s.fields
Parse(s) ==
  CASE s.call = "rate" -> RateFires(s)
    [] s.call # "rate" /\ Len(s.fields) \in (IF s.call = "cron" THEN {6} ELSE 5..6) -> Cron(Fields(NoYear(s)))
    [] OTHER -> Refused

-----------------------------------------------------------------------------
\* scheduled and batched: a peak given replaces theirs, hours and days do not apply.
Given(t, peak) == IF t.peakPerSecond # None THEN <<t.peakPerSecond, 1>> ELSE peak

Scheduled(t, f) ==
  IF t.hours # <<>> \/ t.days # "" \/ f = Refused THEN Refused
  ELSE Load(f.parts, Given(t, Frac(f.gap[2], f.gap[1])))

Batched(t, f) ==
  IF t.batch.items < 0 \/ t.batch.within <= 0 \/ f = Refused THEN Refused
  ELSE Load(t.batch.items * f.parts, Given(t, Frac(t.batch.items, t.batch.within)))

Shapes == {"rate", "users", "concurrent", "schedule", "batch"}

(***************************************************************************)
(* Resolve: exactly one shape.                                              *)
(***************************************************************************)
ShapesOf(t) == {s \in Shapes : t[s] # None}
AtWork(t, w) ==
  IF w = Refused THEN Refused
  ELSE Peaked(t, w, CASE t.rate # None -> Rated(t.rate, w)
                      [] t.users # None -> Used(t.users, w)
                      [] t.concurrent # None -> Concurrent(t.concurrent, w))
Resolve(t) ==
  CASE Cardinality(ShapesOf(t)) # 1 -> Refused
    [] ShapesOf(t) = {"schedule"} -> Scheduled(t, Parse(t.schedule))
    [] ShapesOf(t) = {"batch"} -> Batched(t, Parse(t.batch.every))
    [] OTHER -> AtWork(t, WindowOf(t))
=============================================================================
