---------------------------- MODULE TariffProofs ----------------------------
(***************************************************************************)
(* The rule chain charges the tariff of docs/features/03: for every        *)
(* amount, every clock, every zone east or west and every session, not     *)
(* only those of the short calendar.                                       *)
(***************************************************************************)
EXTENDS MCPricing, PricingProofs

-----------------------------------------------------------------------------
(* Arithmetic                                                              *)

\* Multiplying by a natural number keeps the order.
LEMMA TimesKeepsOrder ==
    ASSUME NEW a \in Int, NEW b \in Int, NEW n \in Nat, a <= b
    PROVE  a * n <= b * n
<1>1. b - a \in Nat
  OBVIOUS
<1>2. (b - a) * n \in Nat
  BY <1>1
<1>3. (b - a) * n = b * n - a * n
  OBVIOUS
<1> QED
  BY <1>2, <1>3

\* A quotient is where the multiples of the divisor pass the dividend.
LEMMA Quotient ==
    ASSUME NEW a \in Int, NEW n \in Nat \ {0}
    PROVE  /\ a \div n \in Int
           /\ (a \div n) * n <= a
           /\ a < (a \div n) * n + n
OBVIOUS

\* And it is the only such place.
LEMMA QuotientIs ==
    ASSUME NEW a \in Int, NEW n \in Nat \ {0}, NEW q \in Int, q * n <= a, a < q * n + n
    PROVE  a \div n = q
<1> DEFINE d == a \div n
<1>1. d \in Int /\ d * n <= a /\ a < d * n + n
  BY Quotient
<1> HIDE DEF d
<1>2. (d + 1) * n = d * n + n /\ (q + 1) * n = q * n + n
  BY <1>1
<1>3. d * n \in Int /\ q * n \in Int
  BY <1>1
<1>4. CASE d < q
  <2>1. (d + 1) * n <= q * n
    BY <1>1, <1>4, TimesKeepsOrder
  <2> QED
    BY <1>1, <1>2, <1>3, <2>1
<1>5. CASE q < d
  <2>1. (q + 1) * n <= d * n
    BY <1>1, <1>5, TimesKeepsOrder
  <2> QED
    BY <1>1, <1>2, <1>3, <2>1
<1> QED
  BY <1>1, <1>4, <1>5 DEF d

\* CeilHours is the number of hours started, and that number is unique.
LEMMA CeilIsHoursStarted ==
    ASSUME NEW dur \in Nat \ {0}
    PROVE  CeilHours(dur) = HoursStarted(dur)
<1> DEFINE q == CeilHours(dur)
           P(h) == h * HourTicks >= dur /\ (h - 1) * HourTicks < dur
<1>1. HourTicks \in Nat \ {0}
  BY ClockAssumption
<1>2. q \in Int /\ q * HourTicks <= dur + HourTicks - 1 /\ dur + HourTicks - 1 < q * HourTicks + HourTicks
  BY <1>1, Quotient DEF CeilHours
<1>3. q \in Nat
  BY CeilHoursType
<1> HIDE DEF q
<1>4. q * HourTicks \in Nat /\ (q - 1) * HourTicks = q * HourTicks - HourTicks
  BY <1>1, <1>3
<1>5. P(q)
  BY <1>1, <1>2, <1>4
<1>6. q <= dur
  <2>1. SUFFICES ASSUME dur < q PROVE FALSE
    BY <1>3
  <2>2. dur * HourTicks <= (q - 1) * HourTicks
    BY <1>1, <1>3, <2>1, TimesKeepsOrder
  <2>3. dur * 1 <= dur * HourTicks
    BY <1>1
  <2> QED
    BY <1>1, <1>3, <1>4, <1>5, <2>2, <2>3
<1>7. q \in 0 .. dur
  BY <1>3, <1>6
<1>8. ASSUME NEW h \in 0 .. dur, P(h) PROVE h = q
  <2>1. h \in Int /\ (h - 1) * HourTicks = h * HourTicks - HourTicks
    BY <1>1
  <2>2. CASE h < q
    <3>1. h * HourTicks <= (q - 1) * HourTicks
      BY <1>1, <1>3, <2>2, TimesKeepsOrder
    <3> QED
      BY <1>1, <1>4, <1>5, <1>8, <3>1
  <2>3. CASE q < h
    <3>1. q * HourTicks <= (h - 1) * HourTicks
      BY <1>1, <1>3, <2>3, TimesKeepsOrder
    <3> QED
      BY <1>1, <1>4, <1>5, <1>8, <2>1, <3>1
  <2> QED
    BY <1>3, <2>1, <2>2, <2>3
<1>9. HoursStarted(dur) = q
  BY <1>5, <1>7, <1>8 DEF HoursStarted
<1> QED
  BY <1>9 DEF q

\* The check-out is not before the midnight that ends the day of the check-in exactly
\* if some midnight lies in the stay.
LEMMA MidnightPassed ==
    ASSUME NEW t \in Session
    PROVE  ~(t.checkedOutAt + ZoneOffset < nextMid(t.checkedInAt)) <=> Overnight(t)
<1> DEFINE q == Day(t.checkedInAt)
<1>1. PICK in \in Int : in = t.checkedInAt + ZoneOffset
  BY ClockAssumption DEF Session
<1>2. PICK out \in Int : out = t.checkedOutAt + ZoneOffset
  BY ClockAssumption DEF Session
<1>3. PICK n \in Nat \ {0} : n = DayTicks
  BY ClockAssumption
<1>4. q \in Int /\ q * n <= in /\ in < q * n + n
  BY <1>1, <1>3, Quotient DEF Day
<1>5. nextMid(t.checkedInAt) = (q + 1) * n
  BY <1>3 DEF nextMid
<1> HIDE DEF q
<1>6. (q + 1) * n \in Int /\ (q + 1) * n = q * n + n
  BY <1>4
<1>7. Overnight(t) <=> \E m \in in + 1 .. out : m % n = 0
  BY <1>1, <1>2, <1>3 DEF Overnight
<1>8. ASSUME (q + 1) * n <= out PROVE Overnight(t)
  <2>1. PICK m \in Int : m = (q + 1) * n
    BY <1>6
  <2>2. m \in in + 1 .. out
    BY <1>4, <1>6, <1>8, <2>1
  <2>3. m \div n = q + 1
    BY <1>4, <1>6, <2>1, QuotientIs
  <2>4. m % n = 0
    BY <1>4, <2>1, <2>3
  <2> QED
    BY <1>7, <2>2, <2>4
<1>9. ASSUME Overnight(t) PROVE (q + 1) * n <= out
  <2>1. PICK m \in in + 1 .. out : m % n = 0
    BY <1>7, <1>9
  <2>2. PICK d \in Int : d = m \div n
    OBVIOUS
  <2>3. m = d * n
    BY <2>1, <2>2
  <2>4. q < d
    <3>1. SUFFICES ASSUME d <= q PROVE FALSE
      BY <1>4, <2>2
    <3>2. d * n <= q * n
      BY <1>4, <3>1, TimesKeepsOrder
    <3> QED
      BY <1>4, <2>1, <2>3, <3>2
  <2>5. (q + 1) * n <= d * n
    BY <1>4, <2>4, TimesKeepsOrder
  <2> QED
    BY <1>6, <2>1, <2>3, <2>5
<1> QED
  BY <1>2, <1>5, <1>6, <1>8, <1>9

-----------------------------------------------------------------------------
(* The chain                                                               *)

\* A cancelled session costs the cancellation alone: all other rules see its line.
LEMMA PriceCancelled ==
    ASSUME NEW t \in Session, t.cancelledAt # NoTime
    PROVE  Price(t) = IF t.confirmedAt # ZeroTime /\ t.cancelledAt <= t.confirmedAt + CancelGrace
                      THEN 0 ELSE CancelFeeIDR
<1> DEFINE fee == IF t.confirmedAt # ZeroTime /\ t.cancelledAt <= t.confirmedAt + CancelGrace
                  THEN 0 ELSE CancelFeeIDR
           c == Line("CANCELLATION", fee)
<1>1. fee \in Nat
  BY TariffAssumption
<1>2. /\ t.cancelledAt \in Nat \ {0} /\ t.confirmedAt \in Nat
      /\ CancelGrace \in Nat /\ MaxDuration \in Nat /\ CancelGrace < MaxDuration
  BY ClockAssumption DEF Session, ZeroTime
<1>3. Sub(t.cancelledAt, t.confirmedAt) <= CancelGrace
        <=> t.confirmedAt # ZeroTime /\ t.cancelledAt <= t.confirmedAt + CancelGrace
  BY <1>2 DEF Sub, ZeroTime
<1>4. cancellationRule(t, NoLines) = c
  BY <1>3 DEF cancellationRule
<1> HIDE DEF fee
<1>5. c \in LineSets /\ hasKind(c, "CANCELLATION")
  BY <1>1, LineType DEF Line, hasKind, Kinds, NoLine
<1>6. SumOfLines(c) = fee
  BY <1>1, SumOfFewLines DEF Kinds
<1> HIDE DEF c
<1>7. /\ noShowRule(t, c) = NoLines /\ bookingRule(t, c) = NoLines
      /\ overnightRule(t, c) = NoLines /\ hourlyRule(t, c) = NoLines
  BY <1>5 DEF noShowRule, bookingRule, overnightRule, hourlyRule
<1>8. Concat(c, NoLines) = c
  BY <1>5, ConcatNothing
<1>9. Apply(t) = c
  BY <1>4, <1>7, <1>8, Zenon DEF Apply
<1> QED
  BY <1>6, <1>9 DEF Price, fee

\* A no-show costs the booking and the no-show fee, whatever the check-in says.
LEMMA PriceNoShow ==
    ASSUME NEW t \in Session, t.cancelledAt = NoTime, t.noShow
    PROVE  Price(t) = BookingFeeIDR + NoShowFeeIDR
<1> DEFINE n == Line("NOSHOW", NoShowFeeIDR)
           k == Line("BOOKING", BookingFeeIDR)
           b == Concat(n, k)
<1>1. BookingFeeIDR \in Nat /\ NoShowFeeIDR \in Nat
  BY TariffAssumption
<1>2. cancellationRule(t, NoLines) = NoLines
  BY DEF cancellationRule
<1>3. noShowRule(t, NoLines) = n
  BY NoLinesType DEF noShowRule, Kinds
<1>4. n \in LineSets /\ k \in LineSets
  BY <1>1, LineType DEF Kinds
<1>5. bookingRule(t, n) = k
  BY DEF bookingRule, Line, hasKind, Kinds, NoLine
<1>6. b \in LineSets /\ hasKind(b, "NOSHOW")
  BY <1>1, <1>4, ConcatType DEF Line, hasKind, Kinds, NoLine
<1>7. SumOfLines(b) = BookingFeeIDR + NoShowFeeIDR
  <2>1. SumOfLines(b) = NoShowFeeIDR + BookingFeeIDR
    BY <1>1, SumOfFewLines DEF Kinds
  <2> QED
    BY <1>1, <2>1
<1>8. Concat(NoLines, n) = n /\ Concat(n, k) = b
  BY <1>4, ConcatNothing
<1> HIDE DEF b, n, k
<1>9. overnightRule(t, b) = NoLines /\ hourlyRule(t, b) = NoLines
  BY <1>6 DEF overnightRule, hourlyRule
<1>10. Concat(b, NoLines) = b
  BY <1>6, ConcatNothing
<1>11. Apply(t) = b
  BY <1>2, <1>3, <1>5, <1>8, <1>9, <1>10, Zenon DEF Apply
<1> QED
  BY <1>7, <1>11 DEF Price

\* A driver who came pays the booking and one way of parking: the flat fee if the stay
\* meets a midnight, else the started hours of a positive stay.
ParkingFee(t) ==
    CASE ~Parked(t) -> 0
      [] Parked(t) /\ Overnight(t) -> OvernightFlatIDR
      [] Parked(t) /\ ~Overnight(t) /\ t.checkedOutAt <= t.checkedInAt -> 0
      [] OTHER -> CeilHours(t.checkedOutAt - t.checkedInAt) * HourlyRateIDR

\* The price of a session that is neither cancelled nor a no-show.
LEMMA PriceParked ==
    ASSUME NEW t \in Session, t.cancelledAt = NoTime, ~t.noShow
    PROVE  ParkingFee(t) \in Nat /\ Price(t) = BookingFeeIDR + ParkingFee(t)
<1> DEFINE b == Line("BOOKING", BookingFeeIDR)
           dur == t.checkedOutAt - t.checkedInAt
<1>1. BookingFeeIDR \in Nat /\ OvernightFlatIDR \in Nat /\ HourlyRateIDR \in Nat
  BY TariffAssumption
<1>2. cancellationRule(t, NoLines) = NoLines /\ noShowRule(t, NoLines) = NoLines
  BY DEF cancellationRule, noShowRule
<1>3. bookingRule(t, NoLines) = b
  BY NoLinesType DEF bookingRule, Kinds
<1>4. b \in LineSets /\ \A k \in Kinds : hasKind(b, k) <=> k = "BOOKING"
  BY <1>1, LineType DEF Line, hasKind, Kinds, NoLine
<1>5. SumOfLines(b) = BookingFeeIDR
  BY <1>1, SumOfFewLines DEF Kinds
<1>6. Concat(NoLines, NoLines) = NoLines /\ Concat(NoLines, b) = b /\ Concat(b, NoLines) = b
  BY <1>4, ConcatNothing, NoLinesType
<1>7. Parked(t) => Sub(t.checkedOutAt, t.checkedInAt) = dur
  BY DEF Sub, Parked
<1>8. dur \in Int /\ (dur <= 0 <=> t.checkedOutAt <= t.checkedInAt)
  BY DEF Session
<1>9. CASE Parked(t) /\ Overnight(t)
  <2> DEFINE o == Line("OVERNIGHT", OvernightFlatIDR)
             l == Concat(b, o)
  <2>1. overnightRule(t, b) = o
    BY <1>4, <1>9, MidnightPassed DEF overnightRule, Kinds
  <2>2. l \in LineSets /\ hasKind(l, "OVERNIGHT")
    BY <1>1, <1>4, LineType, ConcatType DEF Line, hasKind, Kinds, NoLine
  <2>3. SumOfLines(l) = BookingFeeIDR + OvernightFlatIDR
    BY <1>1, SumOfFewLines DEF Kinds
  <2>4. Concat(l, NoLines) = l
    BY <2>2, ConcatNothing
  <2>5. Concat(b, o) = l
    OBVIOUS
  <2> HIDE DEF b, o, l
  <2>6. hourlyRule(t, l) = NoLines
    BY <2>2 DEF hourlyRule
  <2>7. Apply(t) = l
    BY <1>2, <1>3, <1>6, <2>1, <2>4, <2>5, <2>6, Zenon DEF Apply
  <2>8. ParkingFee(t) = OvernightFlatIDR
    BY <1>9 DEF ParkingFee
  <2> QED
    BY <1>1, <2>3, <2>7, <2>8 DEF Price
<1>10. CASE ~Parked(t) \/ (~Overnight(t) /\ t.checkedOutAt <= t.checkedInAt)
  <2>1. overnightRule(t, b) = NoLines
    BY <1>10, MidnightPassed DEF overnightRule
  <2>2. hourlyRule(t, b) = NoLines
    BY <1>7, <1>8, <1>10 DEF hourlyRule
  <2> HIDE DEF b
  <2>3. Apply(t) = b
    BY <1>2, <1>3, <1>6, <2>1, <2>2, Zenon DEF Apply
  <2>4. ParkingFee(t) = 0
    BY <1>10 DEF ParkingFee
  <2> QED
    BY <1>1, <1>5, <2>3, <2>4 DEF Price
<1>11. CASE Parked(t) /\ ~Overnight(t) /\ t.checkedOutAt > t.checkedInAt
  <2> DEFINE fee == CeilHours(dur) * HourlyRateIDR
             h == Line("HOURLY", fee)
             l == Concat(b, h)
  <2>1. dur > 0
    BY <1>11 DEF Session
  <2>2. fee \in Nat
    BY <1>1, <1>8, <2>1, CeilHoursType
  <2>3. overnightRule(t, b) = NoLines
    BY <1>11, MidnightPassed DEF overnightRule
  <2>4. hourlyRule(t, b) = h
    BY <1>4, <1>7, <1>8, <1>11, <2>1 DEF hourlyRule, Kinds
  <2>5. ParkingFee(t) = fee
    <3>1. ~(t.checkedOutAt <= t.checkedInAt)
      BY <1>11 DEF Session
    <3> QED
      BY <1>11, <3>1 DEF ParkingFee
  <2> HIDE DEF fee
  <2>6. SumOfLines(l) = BookingFeeIDR + fee
    BY <1>1, <2>2, SumOfFewLines DEF Kinds
  <2>7. Concat(b, h) = l
    OBVIOUS
  <2> HIDE DEF b, h, l
  <2>8. Apply(t) = l
    BY <1>2, <1>3, <1>6, <2>3, <2>4, <2>7, Zenon DEF Apply
  <2> QED
    BY <2>2, <2>5, <2>6, <2>8 DEF Price
<1> QED
  BY <1>9, <1>10, <1>11 DEF Session

\* The rule chain charges every session exactly the tariff of docs/features/03, for every
\* amount, every length of the hour and the day and every offset of the zone: no
\* short-circuit drops a charge or lets one through twice (Engine.Apply, rules.go).
THEOREM TariffExact ==
    ASSUME NEW t \in Session
    PROVE  Price(t) = Tariff(t)
<1>1. CASE t.cancelledAt # NoTime
  BY <1>1, PriceCancelled DEF Tariff
<1>2. CASE t.cancelledAt = NoTime /\ t.noShow
  BY <1>2, PriceNoShow DEF Tariff
<1>3. CASE t.cancelledAt = NoTime /\ ~t.noShow
  <2> DEFINE fee == CASE t.checkedInAt = ZeroTime \/ t.checkedOutAt = ZeroTime -> 0
                      [] Parked(t) /\ Overnight(t) -> OvernightFlatIDR
                      [] Parked(t) /\ ~Overnight(t) /\ t.checkedOutAt <= t.checkedInAt -> 0
                      [] OTHER ->
                           HoursStarted(t.checkedOutAt - t.checkedInAt) * HourlyRateIDR
  <2>1. Tariff(t) = BookingFeeIDR + fee
    BY <1>3 DEF Tariff
  <2>2. fee = ParkingFee(t)
    <3>1. CASE Parked(t) /\ ~Overnight(t) /\ t.checkedOutAt > t.checkedInAt
      <4> DEFINE dur == t.checkedOutAt - t.checkedInAt
      <4>1. dur \in Nat \ {0} /\ ~(t.checkedOutAt <= t.checkedInAt)
        BY <3>1 DEF Session
      <4>2. CeilHours(dur) = HoursStarted(dur)
        BY <4>1, CeilIsHoursStarted
      <4>3. ParkingFee(t) = CeilHours(dur) * HourlyRateIDR
        BY <3>1, <4>1 DEF ParkingFee
      <4>4. fee = HoursStarted(dur) * HourlyRateIDR
        BY <3>1, <4>1 DEF Parked
      <4> QED
        BY <4>2, <4>3, <4>4
    <3>2. CASE ~Parked(t)
      BY <3>2 DEF ParkingFee, Parked
    <3>3. CASE Parked(t) /\ Overnight(t)
      BY <3>3 DEF ParkingFee, Parked
    <3>4. CASE Parked(t) /\ ~Overnight(t) /\ t.checkedOutAt <= t.checkedInAt
      BY <3>4 DEF ParkingFee, Parked
    <3> QED
      BY <3>1, <3>2, <3>3, <3>4 DEF Session
  <2> QED
    BY <1>3, <2>1, <2>2, PriceParked
<1> QED
  BY <1>1, <1>2, <1>3 DEF Session

\* The driver who leaves or cancels later still has a session.
LEMMA SessionAlways == Spec => [](s \in Session)
<1>1. Init => s \in Session
  BY HorizonAssumption DEF Init, Instants, Session, ZeroTime
<1>2. s \in Session /\ [Next]_s => (s \in Session)'
  BY HorizonAssumption DEF Next, LeaveLater, CancelLater, Session, ZeroTime
<1> QED
  BY <1>1, <1>2, PTL DEF Spec

\* The chain charges the tariff of docs/features/03 all along the calendar (Engine.Apply).
THEOREM ChainIsTariff == Spec => []ChainChargesTariff
<1>1. s \in Session => ChainChargesTariff
  BY TariffExact DEF ChainChargesTariff
<1> QED
  BY <1>1, SessionAlways, PTL

\* One more tick starts an hour exactly at the end of the one before.
LEMMA NextHour ==
    ASSUME NEW dur \in Nat
    PROVE  CeilHours(dur + 1) = CeilHours(dur) + (IF dur % HourTicks = 0 THEN 1 ELSE 0)
<1>1. PICK n \in Nat \ {0} : n = HourTicks
  BY ClockAssumption
<1>2. PICK q \in Int : q = dur \div n
  BY <1>1
<1>3. PICK r \in 0 .. (n - 1) : r = dur % n
  BY <1>1
<1>4. dur = q * n + r
  BY <1>2, <1>3
<1>5. q * n \in Int /\ (q + 1) * n = q * n + n
  OBVIOUS
<1>6. PICK a \in Int : a = dur + 1 + n - 1
  OBVIOUS
<1>7. a \div n = q + 1
  <2>1. (q + 1) * n <= a /\ a < (q + 1) * n + n
    BY <1>3, <1>4, <1>5, <1>6
  <2> QED
    BY <2>1, QuotientIs
<1>8. PICK b \in Int : b = dur + n - 1
  OBVIOUS
<1>9. b \div n = IF r = 0 THEN q ELSE q + 1
  <2>1. CASE r = 0
    <3>1. q * n <= b /\ b < q * n + n
      BY <1>4, <1>5, <1>8, <2>1
    <3> QED
      BY <2>1, <3>1, QuotientIs
  <2>2. CASE r # 0
    <3>1. (q + 1) * n <= b /\ b < (q + 1) * n + n
      BY <1>3, <1>4, <1>5, <1>8, <2>2
    <3> QED
      BY <2>2, <3>1, QuotientIs
  <2> QED
    BY <2>1, <2>2
<1> QED
  BY <1>1, <1>2, <1>3, <1>6, <1>7, <1>8, <1>9 DEF CeilHours

\* Leaving one tick later, on the day of the check-in, costs one hourly rate when an
\* hour starts and nothing otherwise, for every tariff and clock (rules.go
\* overnightRule, hourlyRule).
THEOREM StartedHours == Spec => StayPricedByStartedHour
<1>1. ASSUME s \in Session, LeaveLater, Parked(s), ~Cancelled, ~s.noShow,
             s.checkedOutAt >= s.checkedInAt, ~Overnight(s')
      PROVE  Price(s') - Price(s) = IF (s.checkedOutAt - s.checkedInAt) % HourTicks = 0
                                    THEN HourlyRateIDR ELSE 0
  <2>1. PICK t \in Session : t = s
    BY <1>1
  <2>2. PICK u \in Session : u = s' /\ u = [t EXCEPT !.checkedOutAt = @ + 1]
    BY <1>1, <2>1, HorizonAssumption DEF LeaveLater, Session
  <2>3. PICK dur \in Nat : dur = t.checkedOutAt - t.checkedInAt
    BY <1>1, <2>1 DEF Session
  <2>4. /\ t.checkedOutAt \in Nat /\ t.checkedInAt \in Nat
        /\ u.checkedOutAt = t.checkedOutAt + 1 /\ u.checkedInAt = t.checkedInAt
        /\ u.cancelledAt = t.cancelledAt /\ u.noShow = t.noShow
    BY <2>2 DEF Session
  <2>5. Parked(t) /\ Parked(u) /\ t.cancelledAt = NoTime /\ ~t.noShow
    BY <1>1, <2>1, <2>4 DEF Parked, Cancelled, ZeroTime
  <2>6. ~Overnight(u) /\ ~Overnight(t)
    <3>1. ~Overnight(u)
      BY <1>1, <2>2
    <3>2. ZoneOffset \in Int
      BY ClockAssumption
    <3>3. Overnight(t) => Overnight(u)
      BY <2>4, <3>2 DEF Overnight
    <3> QED
      BY <3>1, <3>3
  <2>7. ParkingFee(u) = CeilHours(dur + 1) * HourlyRateIDR
    <3>1. ~(u.checkedOutAt <= u.checkedInAt) /\ u.checkedOutAt - u.checkedInAt = dur + 1
      BY <2>3, <2>4
    <3> QED
      BY <2>5, <2>6, <3>1 DEF ParkingFee
  <2>8. ParkingFee(t) = CeilHours(dur) * HourlyRateIDR
    <3>1. CASE dur = 0
      <4>1. ParkingFee(t) = 0
        BY <2>3, <2>4, <2>5, <2>6, <3>1 DEF ParkingFee
      <4>2. CeilHours(0) = 0
        <5>1. PICK n \in Nat \ {0} : n = HourTicks
          BY ClockAssumption
        <5>2. (0 + n - 1) \div n = 0
          BY QuotientIs
        <5> QED
          BY <5>1, <5>2 DEF CeilHours
      <4> QED
        BY <3>1, <4>1, <4>2, TariffAssumption
    <3>2. CASE dur > 0
      BY <2>3, <2>4, <2>5, <2>6, <3>2 DEF ParkingFee
    <3> QED
      BY <3>1, <3>2
  <2>9. /\ Price(u) = BookingFeeIDR + ParkingFee(u) /\ Price(t) = BookingFeeIDR + ParkingFee(t)
        /\ ParkingFee(u) \in Nat /\ ParkingFee(t) \in Nat /\ BookingFeeIDR \in Nat
    BY <2>4, <2>5, PriceParked, TariffAssumption
  <2>10. ParkingFee(u) - ParkingFee(t) = IF dur % HourTicks = 0 THEN HourlyRateIDR ELSE 0
    <3>1. PICK c \in Int : c = CeilHours(dur)
      BY ClockAssumption DEF CeilHours
    <3>2. (c + 1) * HourlyRateIDR = c * HourlyRateIDR + HourlyRateIDR
      BY TariffAssumption
    <3>3. CeilHours(dur + 1) = c + (IF dur % HourTicks = 0 THEN 1 ELSE 0)
      BY <3>1, NextHour
    <3> QED
      BY <2>7, <2>8, <3>1, <3>2, <3>3, TariffAssumption
  <2>11. Price(u) - Price(t) = ParkingFee(u) - ParkingFee(t)
    BY <2>9
  <2> QED
    BY <2>1, <2>2, <2>3, <2>10, <2>11
<1> QED
  BY <1>1, SessionAlways, PTL DEF Spec, StayPricedByStartedHour
=============================================================================
