------------------------------ MODULE Pricing ------------------------------
(***************************************************************************)
(* The pricing engine (pkg/pricing): a pure chain of five rules that maps  *)
(* a parking session to invoice lines.                                     *)
(*                                                                         *)
(* Instants are naturals, counted in ticks; ZeroTime is Go's zero          *)
(* time.Time, which lies further before every real instant than a          *)
(* time.Duration can express.  NoTime is a nil *time.Time.  No rule emits  *)
(* a kind another rule emits, so the slice of lines is a function from the *)
(* kinds to amounts, NoLine where the slice has no line of the kind.       *)
(***************************************************************************)
EXTENDS Integers

CONSTANTS
    BookingFeeIDR, HourlyRateIDR, OvernightFlatIDR, CancelFeeIDR, NoShowFeeIDR,
    CancelGrace,        \* Config.CancelGrace, in ticks
    HourTicks,          \* ticks in time.Hour
    DayTicks,           \* ticks from midnight to midnight
    ZoneOffset,         \* offset of Session.Timezone (a fixed zone) from UTC, in ticks
    MaxDuration,        \* the largest time.Duration: Sub saturates there
    NoTime              \* a nil *time.Time

ASSUME TariffAssumption ==
    /\ BookingFeeIDR \in Nat /\ HourlyRateIDR \in Nat /\ OvernightFlatIDR \in Nat
    /\ CancelFeeIDR \in Nat /\ NoShowFeeIDR \in Nat

ASSUME ClockAssumption ==
    /\ CancelGrace \in Nat /\ MaxDuration \in Nat /\ CancelGrace < MaxDuration
    /\ HourTicks \in Nat \ {0} /\ DayTicks \in Nat \ {0} /\ ZoneOffset \in Int
    /\ NoTime \notin Nat

Kinds == {"BOOKING", "HOURLY", "OVERNIGHT", "CANCELLATION", "NOSHOW"}

ZeroTime == 0

Session == [confirmedAt : Nat, checkedInAt : Nat, checkedOutAt : Nat,
            cancelledAt : (Nat \ {ZeroTime}) \cup {NoTime}, noShow : BOOLEAN]

-----------------------------------------------------------------------------
(* Slices of lines                                                         *)

NoLine == -1

LineSets == [Kinds -> Nat \cup {NoLine}]

NoLines == [k \in Kinds |-> NoLine]

Line(kind, idr) == [k \in Kinds |-> IF k = kind THEN idr ELSE NoLine]

hasKind(prior, kind) == prior[kind] # NoLine

Concat(out, new) == [k \in Kinds |-> IF hasKind(new, k) THEN new[k] ELSE out[k]]

AmountOf(lines, kind) == IF hasKind(lines, kind) THEN lines[kind] ELSE 0

SumOfLines(lines) ==
    AmountOf(lines, "BOOKING") + AmountOf(lines, "HOURLY")
      + AmountOf(lines, "OVERNIGHT") + AmountOf(lines, "CANCELLATION")
      + AmountOf(lines, "NOSHOW")

-----------------------------------------------------------------------------
(* time.Time                                                               *)

\* t.Sub(u), which saturates when u is the zero time (no caller passes a zero t
\* and a real u).
Sub(t, u) == IF t # ZeroTime /\ u = ZeroTime THEN MaxDuration ELSE t - u

\* The calendar day of an instant, in the session's timezone.
Day(t) == (t + ZoneOffset) \div DayTicks

\* time.Date(y, m, d+1, 0, 0, 0, 0, tz): the midnight that ends t's day,
\* on the clock of the zone.
nextMid(t) == (Day(t) + 1) * DayTicks

\* Mutant: a truncating division, at least one hour.
FloorHours(dur) == IF dur < HourTicks THEN 1 ELSE dur \div HourTicks

\* int64(math.Ceil(dur.Hours())), at least 1 because dur > 0.
CeilHours(dur) == (dur + HourTicks - 1) \div HourTicks

-----------------------------------------------------------------------------
(* The rules, in the order of the chain                                    *)

cancellationRule(s, prior) ==
    CASE s.cancelledAt = NoTime -> NoLines
      [] s.cancelledAt # NoTime /\ Sub(s.cancelledAt, s.confirmedAt) <= CancelGrace ->
            Line("CANCELLATION", 0)
      [] OTHER -> Line("CANCELLATION", CancelFeeIDR)

noShowRule(s, prior) ==
    IF ~s.noShow \/ hasKind(prior, "CANCELLATION")
    THEN NoLines
    ELSE Line("NOSHOW", NoShowFeeIDR)

bookingRule(s, prior) ==
    IF hasKind(prior, "CANCELLATION") THEN NoLines ELSE Line("BOOKING", BookingFeeIDR)

Parked(s) == s.checkedInAt # ZeroTime /\ s.checkedOutAt # ZeroTime

\* Mutant: `out.After(nextMid)` alone, so leaving at midnight sharp is not overnight.
overnightRuleAfterOnly(s, prior) ==
    IF \/ ~Parked(s)
       \/ hasKind(prior, "CANCELLATION") \/ hasKind(prior, "NOSHOW")
       \/ s.checkedOutAt + ZoneOffset <= nextMid(s.checkedInAt)
    THEN NoLines
    ELSE Line("OVERNIGHT", OvernightFlatIDR)

overnightRule(s, prior) ==
    IF \/ ~Parked(s)
       \/ hasKind(prior, "CANCELLATION") \/ hasKind(prior, "NOSHOW")
       \/ s.checkedOutAt + ZoneOffset < nextMid(s.checkedInAt)
    THEN NoLines
    ELSE Line("OVERNIGHT", OvernightFlatIDR)

hourlyRule(s, prior) ==
    LET dur == Sub(s.checkedOutAt, s.checkedInAt)
    IN  IF \/ ~Parked(s)
           \/ \E k \in {"CANCELLATION", "NOSHOW", "OVERNIGHT"} : hasKind(prior, k)
           \/ dur <= 0
        THEN NoLines
        ELSE Line("HOURLY", CeilHours(dur) * HourlyRateIDR)

\* Engine.Apply: each rule sees the session and the lines emitted before it.
Apply(s) ==
    LET c == cancellationRule(s, NoLines)
        n == Concat(c, noShowRule(s, c))
        b == Concat(n, bookingRule(s, n))
        o == Concat(b, overnightRule(s, b))
    IN  Concat(o, hourlyRule(s, o))
=============================================================================
