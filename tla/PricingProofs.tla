--------------------------- MODULE PricingProofs ---------------------------
(***************************************************************************)
(* What the rule chain guarantees for every tariff and every session.      *)
(***************************************************************************)
EXTENDS Pricing, TLAPS

\* The amount of a kind in a slice of lines is a natural number.
LEMMA AmountType ==
    ASSUME NEW lines \in LineSets, NEW kind \in Kinds
    PROVE  AmountOf(lines, kind) \in Nat
BY DEF LineSets, AmountOf, hasKind, NoLine

\* A single line is a slice of lines.
LEMMA LineType ==
    ASSUME NEW kind \in Kinds, NEW idr \in Nat
    PROVE  Line(kind, idr) \in LineSets
BY DEF LineSets, Line

\* Concatenation keeps the type and has exactly the kinds of its parts.
LEMMA ConcatType ==
    ASSUME NEW out \in LineSets, NEW new \in LineSets
    PROVE  /\ Concat(out, new) \in LineSets
           /\ \A k \in Kinds : hasKind(Concat(out, new), k) <=> hasKind(out, k) \/ hasKind(new, k)
BY DEF LineSets, Concat, hasKind, NoLine

\* The empty slice has no line of any kind.
LEMMA NoLinesType == NoLines \in LineSets /\ \A k \in Kinds : ~hasKind(NoLines, k)
BY DEF LineSets, NoLines, hasKind, NoLine

\* Nothing is added by a rule that emits nothing, and nothing is there before the first.
LEMMA ConcatNothing ==
    \A l \in LineSets : Concat(l, NoLines) = l /\ Concat(NoLines, l) = l
BY DEF Concat, NoLines, hasKind, LineSets

\* One line sums to its amount, two lines of different kinds to both amounts.
LEMMA SumOfFewLines ==
    ASSUME NEW j \in Kinds, NEW k \in Kinds, j # k, NEW x \in Nat, NEW y \in Nat
    PROVE  /\ SumOfLines(Line(j, x)) = x
           /\ SumOfLines(Concat(Line(j, x), Line(k, y))) = x + y
<1>1. \A l \in Kinds : AmountOf(Line(j, x), l) = IF l = j THEN x ELSE 0
  BY DEF AmountOf, Line, hasKind, NoLine
<1>2. \A l \in Kinds : AmountOf(Concat(Line(j, x), Line(k, y)), l) =
                         IF l = j THEN x ELSE IF l = k THEN y ELSE 0
  BY DEF AmountOf, Concat, Line, hasKind, NoLine
<1> QED
  BY <1>1, <1>2 DEF SumOfLines, Kinds

\* The length of a positive stay, in started hours, is a natural number.
LEMMA CeilHoursType ==
    ASSUME NEW dur \in Int, dur > 0
    PROVE  CeilHours(dur) \in Nat
<1>1. HourTicks \in Nat /\ HourTicks > 0
  BY ClockAssumption
<1>2. dur + HourTicks - 1 \in Nat
  BY <1>1
<1> QED
  BY <1>1, <1>2 DEF CeilHours

\* What each rule emits: a slice with at most one line, of the rule's own kind, and
\* none if an earlier rule short-circuits it.
LEMMA RuleLines ==
    ASSUME NEW s \in Session, NEW prior \in LineSets
    PROVE  /\ cancellationRule(s, prior) \in LineSets
           /\ noShowRule(s, prior) \in LineSets
           /\ bookingRule(s, prior) \in LineSets
           /\ overnightRule(s, prior) \in LineSets
           /\ hourlyRule(s, prior) \in LineSets
           /\ \A k \in Kinds :
                /\ hasKind(cancellationRule(s, prior), k)
                     <=> k = "CANCELLATION" /\ s.cancelledAt # NoTime
                /\ hasKind(noShowRule(s, prior), k)
                     <=> k = "NOSHOW" /\ s.noShow /\ ~hasKind(prior, "CANCELLATION")
                /\ hasKind(bookingRule(s, prior), k)
                     <=> k = "BOOKING" /\ ~hasKind(prior, "CANCELLATION")
                /\ hasKind(overnightRule(s, prior), k)
                     => /\ k = "OVERNIGHT"
                        /\ ~hasKind(prior, "CANCELLATION") /\ ~hasKind(prior, "NOSHOW")
                /\ hasKind(hourlyRule(s, prior), k)
                     => /\ k = "HOURLY" /\ ~hasKind(prior, "OVERNIGHT")
                        /\ ~hasKind(prior, "CANCELLATION") /\ ~hasKind(prior, "NOSHOW")
<1>1. \A kind \in Kinds, idr \in Nat :
        /\ Line(kind, idr) \in LineSets
        /\ \A k \in Kinds : hasKind(Line(kind, idr), k) <=> k = kind
  BY LineType DEF Line, hasKind, NoLine
<1>2. NoLines \in LineSets /\ \A k \in Kinds : ~hasKind(NoLines, k)
  BY NoLinesType
<1>3. /\ "CANCELLATION" \in Kinds /\ "NOSHOW" \in Kinds /\ "BOOKING" \in Kinds
      /\ "OVERNIGHT" \in Kinds /\ "HOURLY" \in Kinds
  BY DEF Kinds
<1>4. /\ cancellationRule(s, prior) \in LineSets
      /\ \A k \in Kinds : hasKind(cancellationRule(s, prior), k)
                            <=> k = "CANCELLATION" /\ s.cancelledAt # NoTime
  <2>1. CASE s.cancelledAt = NoTime
    BY <2>1, <1>2 DEF cancellationRule
  <2>2. CASE s.cancelledAt # NoTime
    <3>1. \/ cancellationRule(s, prior) = Line("CANCELLATION", 0)
          \/ cancellationRule(s, prior) = Line("CANCELLATION", CancelFeeIDR)
      BY <2>2 DEF cancellationRule
    <3> QED
      BY <2>2, <3>1, <1>1, <1>3, TariffAssumption
  <2> QED
    BY <2>1, <2>2
<1>5. /\ noShowRule(s, prior) \in LineSets
      /\ \A k \in Kinds : hasKind(noShowRule(s, prior), k)
           <=> k = "NOSHOW" /\ s.noShow /\ ~hasKind(prior, "CANCELLATION")
  BY <1>1, <1>2, <1>3, TariffAssumption DEF noShowRule, Session
<1>6. /\ bookingRule(s, prior) \in LineSets
      /\ \A k \in Kinds : hasKind(bookingRule(s, prior), k)
           <=> k = "BOOKING" /\ ~hasKind(prior, "CANCELLATION")
  BY <1>1, <1>2, <1>3, TariffAssumption DEF bookingRule
<1>7. /\ overnightRule(s, prior) \in LineSets
      /\ \A k \in Kinds : hasKind(overnightRule(s, prior), k)
           => /\ k = "OVERNIGHT"
              /\ ~hasKind(prior, "CANCELLATION") /\ ~hasKind(prior, "NOSHOW")
  BY <1>1, <1>2, <1>3, TariffAssumption DEF overnightRule
<1>8. /\ hourlyRule(s, prior) \in LineSets
      /\ \A k \in Kinds : hasKind(hourlyRule(s, prior), k)
           => /\ k = "HOURLY" /\ ~hasKind(prior, "OVERNIGHT")
              /\ ~hasKind(prior, "CANCELLATION") /\ ~hasKind(prior, "NOSHOW")
  <2> DEFINE dur == Sub(s.checkedOutAt, s.checkedInAt)
  <2>1. dur \in Int
    BY ClockAssumption DEF Sub, Session
  <2>2. CASE hourlyRule(s, prior) = NoLines
    BY <2>2, <1>2
  <2>3. CASE hourlyRule(s, prior) # NoLines
    <3>1. /\ hourlyRule(s, prior) = Line("HOURLY", CeilHours(dur) * HourlyRateIDR)
          /\ dur > 0 /\ ~hasKind(prior, "OVERNIGHT")
          /\ ~hasKind(prior, "CANCELLATION") /\ ~hasKind(prior, "NOSHOW")
      BY <2>1, <2>3 DEF hourlyRule
    <3>2. CeilHours(dur) * HourlyRateIDR \in Nat
      BY <2>1, <3>1, CeilHoursType, TariffAssumption
    <3> QED
      BY <3>1, <3>2, <1>1, <1>3
  <2> QED
    BY <2>2, <2>3
<1> QED
  BY <1>4, <1>5, <1>6, <1>7, <1>8

\* The chain charges a session for one thing only: the cancellation alone, or the
\* booking with at most one of no-show, overnight and hourly - for every tariff, every
\* clock and every session (Engine.Apply; TariffProofs has the amounts).
THEOREM ChainShortCircuits ==
    ASSUME NEW s \in Session
    PROVE  /\ Apply(s) \in LineSets
           /\ hasKind(Apply(s), "CANCELLATION") <=> s.cancelledAt # NoTime
           /\ hasKind(Apply(s), "BOOKING") <=> s.cancelledAt = NoTime
           /\ hasKind(Apply(s), "NOSHOW") <=> s.cancelledAt = NoTime /\ s.noShow
           /\ \A j, k \in {"CANCELLATION", "NOSHOW", "OVERNIGHT", "HOURLY"} :
                 hasKind(Apply(s), j) /\ hasKind(Apply(s), k) => j = k
<1> DEFINE c == cancellationRule(s, NoLines)
           n == Concat(c, noShowRule(s, c))
           b == Concat(n, bookingRule(s, n))
           o == Concat(b, overnightRule(s, b))
           h == Concat(o, hourlyRule(s, o))
<1> /\ "CANCELLATION" \in Kinds /\ "NOSHOW" \in Kinds /\ "BOOKING" \in Kinds
    /\ "OVERNIGHT" \in Kinds /\ "HOURLY" \in Kinds
  BY DEF Kinds
<1>1. /\ c \in LineSets
      /\ \A k \in Kinds : hasKind(c, k) <=> k = "CANCELLATION" /\ s.cancelledAt # NoTime
  BY RuleLines, NoLinesType
<1> HIDE DEF c
<1>2. /\ n \in LineSets
      /\ \A k \in Kinds : hasKind(n, k) <=>
            hasKind(c, k) \/ (k = "NOSHOW" /\ s.noShow /\ ~hasKind(c, "CANCELLATION"))
  BY <1>1, RuleLines, ConcatType
<1> HIDE DEF n
<1>3. /\ b \in LineSets
      /\ \A k \in Kinds : hasKind(b, k) <=>
            hasKind(n, k) \/ (k = "BOOKING" /\ ~hasKind(n, "CANCELLATION"))
  BY <1>2, RuleLines, ConcatType
<1> HIDE DEF b
<1>4. /\ o \in LineSets
      /\ \A k \in Kinds : hasKind(b, k) => hasKind(o, k)
      /\ \A k \in Kinds : hasKind(o, k) =>
            \/ hasKind(b, k)
            \/ k = "OVERNIGHT" /\ ~hasKind(b, "CANCELLATION") /\ ~hasKind(b, "NOSHOW")
  BY <1>3, RuleLines, ConcatType
<1> HIDE DEF o
<1>5. /\ h \in LineSets
      /\ \A k \in Kinds : hasKind(o, k) => hasKind(h, k)
      /\ \A k \in Kinds : hasKind(h, k) =>
            \/ hasKind(o, k)
            \/ /\ k = "HOURLY" /\ ~hasKind(o, "OVERNIGHT")
               /\ ~hasKind(o, "CANCELLATION") /\ ~hasKind(o, "NOSHOW")
  BY <1>4, RuleLines, ConcatType
<1>6. Apply(s) = h
  BY DEF Apply, h, o, b, n, c
<1> HIDE DEF h
<1>7. s.noShow \in BOOLEAN
  BY DEF Session
<1>8. /\ hasKind(h, "CANCELLATION") <=> s.cancelledAt # NoTime
      /\ hasKind(h, "BOOKING") <=> s.cancelledAt = NoTime
      /\ hasKind(h, "NOSHOW") <=> s.cancelledAt = NoTime /\ s.noShow
  BY <1>1, <1>2, <1>3, <1>4, <1>5, <1>7
<1>9. ASSUME NEW j \in {"CANCELLATION", "NOSHOW", "OVERNIGHT", "HOURLY"},
             NEW k \in {"CANCELLATION", "NOSHOW", "OVERNIGHT", "HOURLY"},
             hasKind(h, j), hasKind(h, k)
      PROVE  j = k
  BY <1>1, <1>2, <1>3, <1>4, <1>5, <1>7, <1>9
<1> QED
  BY <1>5, <1>6, <1>8, <1>9
=============================================================================
