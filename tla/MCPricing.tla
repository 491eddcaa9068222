----------------------------- MODULE MCPricing -----------------------------
(***************************************************************************)
(* Every session over a short calendar, as an initial state; a step lets   *)
(* the driver leave one tick later or cancel one tick later.  The engine   *)
(* is compared with the tariff of docs/features/03-pricing-engine.md and   *)
(* of rules_test.go, which have no rule order.                             *)
(***************************************************************************)
EXTENDS Pricing

CONSTANT Horizon    \* bound: the last instant of the calendar

ASSUME HorizonAssumption == Horizon \in Nat

VARIABLE s

Instants == 0 .. Horizon

Init ==
    s \in [confirmedAt : {0, 1, 3}, checkedInAt : Instants, checkedOutAt : Instants,
           cancelledAt : (Instants \ {0}) \cup {NoTime}, noShow : BOOLEAN]

LeaveLater ==
    /\ s.checkedOutAt \in 1 .. Horizon - 1
    /\ s' = [s EXCEPT !.checkedOutAt = @ + 1]

CancelLater ==
    /\ s.cancelledAt # NoTime /\ s.cancelledAt \in 1 .. Horizon - 1
    /\ s' = [s EXCEPT !.cancelledAt = @ + 1]

Next == LeaveLater \/ CancelLater

Spec == Init /\ [][Next]_s

-----------------------------------------------------------------------------
Price(t) == SumOfLines(Apply(t))

Cancelled == s.cancelledAt # NoTime

\* The stay meets a midnight of the zone's clock.
Overnight(t) ==
    \E midnight \in t.checkedInAt + ZoneOffset + 1 .. t.checkedOutAt + ZoneOffset :
        midnight % DayTicks = 0

\* The number of hours a stay of dur > 0 ticks has started.
HoursStarted(dur) ==
    CHOOSE h \in 0 .. dur : h * HourTicks >= dur /\ (h - 1) * HourTicks < dur

\* The tariff of docs/features/03-pricing-engine.md:33-39 by case: a session that crosses
\* 00:00 in the zone pays the flat fee instead of the hours, each started hour is paid in
\* full, a cancellation is free within the grace window.  Where that table leaves a sum
\* open rules_test.go settles it: a late cancellation pays no booking fee, a no-show does,
\* and midnight sharp is crossed.  The tables of README.md and sequence diagrams 03 and 04
\* are other tariffs, which the code does not follow: a flat fee between 22:00 and 06:00, a
\* free cancellation until 30 minutes before the hold expires, rates by vehicle.
Tariff(t) ==
    CASE t.cancelledAt # NoTime ->
            IF t.confirmedAt # ZeroTime /\ t.cancelledAt <= t.confirmedAt + CancelGrace
            THEN 0 ELSE CancelFeeIDR
      [] t.cancelledAt = NoTime /\ t.noShow -> BookingFeeIDR + NoShowFeeIDR
      [] OTHER ->
            BookingFeeIDR +
              (CASE t.checkedInAt = ZeroTime \/ t.checkedOutAt = ZeroTime -> 0
                 [] Parked(t) /\ Overnight(t) -> OvernightFlatIDR
                 [] Parked(t) /\ ~Overnight(t) /\ t.checkedOutAt <= t.checkedInAt -> 0
                 [] OTHER ->
                      HoursStarted(t.checkedOutAt - t.checkedInAt) * HourlyRateIDR)

\* The rule chain charges exactly this tariff: the short-circuits (cancellation
\* before booking, no-show before parking, overnight before hourly) leave no
\* session charged twice for the same thing or not at all
\* (pkg/pricing/engine.go Apply, rules.go).
ChainChargesTariff == Price(s) = Tariff(s)

\* Leaving one tick later, on the day of the check-in, costs nothing more while
\* the started hour lasts and exactly one hourly rate when a new hour starts;
\* the only fall in price is the switch to the overnight flat fee
\* (rules.go overnightRule, hourlyRule).
StayPricedByStartedHour ==
    [][ LeaveLater /\ Parked(s) /\ ~Cancelled /\ ~s.noShow
        /\ s.checkedOutAt >= s.checkedInAt /\ ~Overnight(s')
        => Price(s') - Price(s)
             = IF (s.checkedOutAt - s.checkedInAt) % HourTicks = 0
               THEN HourlyRateIDR ELSE 0 ]_s

=============================================================================
