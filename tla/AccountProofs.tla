---------------------------- MODULE AccountProofs ---------------------------
(***************************************************************************)
(* The ledger implements one account per reservation: every step of any    *)
(* request is a step of at most one account, for any number of requests,   *)
(* reservations and invoices and for every tariff.  And the outbox events  *)
(* of an invoice add up to its total.                                      *)
(***************************************************************************)
EXTENDS LedgerProofs, WellFoundedInduction

\* What a request was called with, as far as the account sees it: an open names a
\* reservation, a fee is the tariff's, and a free cancellation goes no further than
\* getOpenInvoice.
TariffOK(p) ==
    /\ pc[p] \in {"open_insert", "open_find"} => req[p].res \in Reservations
    /\ pc[p] \in {"fee_find", "append_insert", "append_commit"} =>
          /\ req[p].kind = "NOSHOW" => req[p].fee = NoShowFeeIDR
          /\ req[p].kind = "CANCELLATION" => req[p].fee \in {0, CancelFeeIDR}
    /\ pc[p] \in {"append_insert", "append_commit"} =>
          (req[p].kind = "CANCELLATION" => req[p].fee # 0)

\* An invoice belongs to a reservation, and has no amount without a line.
OwnedOK(i) ==
    /\ Exists(i) => invoice[i].res \in Reservations
    /\ \A k \in Kinds : count[i][k] = 0 => amount[i][k] = 0

\* The invariant of the refinement, beside IndInv and OneInvoicePerReservation.
RefInv == (\A p \in Procs : TariffOK(p)) /\ (\A i \in InvoiceIds : OwnedOK(i))

-----------------------------------------------------------------------------
\* A cancellation costs nothing or the cancellation fee (cancellationRule).
LEMMA CancelTariff ==
    ASSUME NEW c \in Cancellations
    PROVE  AmountOf(Apply(CancelSession(c)), "CANCELLATION") \in {0, CancelFeeIDR}
<1> DEFINE s == CancelSession(c)
           l == cancellationRule(s, NoLines)
<1>1. s \in Session /\ s.cancelledAt # NoTime /\ s.noShow = FALSE
  BY LedgerAssumption, ClockAssumption DEF CancelSession, Session, ZeroTime
<1>2. s.checkedInAt = ZeroTime
  BY DEF CancelSession
<1>3. ~Parked(s)
  BY <1>2 DEF Parked
<1> HIDE DEF s
<1>4. l = Line("CANCELLATION", 0) \/ l = Line("CANCELLATION", CancelFeeIDR)
  BY <1>1 DEF cancellationRule
<1>5. l["CANCELLATION"] \in {0, CancelFeeIDR} /\ l \in LineSets /\ hasKind(l, "CANCELLATION")
  BY <1>4, LineType, TariffAssumption DEF Line, Kinds, hasKind, NoLine
<1> HIDE DEF l
<1>6. \A x \in LineSets : Concat(x, NoLines) = x
  BY ConcatNothing
<1>7. noShowRule(s, l) = NoLines /\ bookingRule(s, l) = NoLines
  BY <1>5 DEF noShowRule, bookingRule
<1>8. overnightRule(s, l) = NoLines /\ hourlyRule(s, l) = NoLines
  BY <1>3 DEF overnightRule, hourlyRule
<1>9. Apply(s) = l
  BY <1>5, <1>6, <1>7, <1>8, Zenon DEF Apply, l
<1> QED
  BY <1>5, <1>9 DEF AmountOf, s

\* A request that moves was called with what its new place needs.
LEMMA TariffKept ==
    ASSUME IndInv, NEW p \in Procs, \A q \in Procs : TariffOK(q),
           Call(p) \/ LockStep(p) \/ FreeStep(p) \/ Fail(p)
    PROVE  \A q \in Procs : TariffOK(q)'
<1> DEFINE Sound == \A q \in Procs : TariffOK(q)'
<1> USE DEF IndInv, TypeOK
<1>1. CASE Call(p)
  <2>1. CASE CallOpenBlank(p)
    BY <2>1 DEF CallOpenBlank, Answer, Goto, TariffOK
  <2>2. ASSUME NEW r \in Reservations, NEW k, CallOpen(p, r, k) PROVE Sound
    BY <2>2 DEF CallOpen, Begin, Goto, TariffOK, NoRequest
  <2>3. ASSUME NEW r \in Reservations, NEW x, CallCheckedOut(p, r, x) PROVE Sound
    BY <2>3 DEF CallCheckedOut, Begin, Goto, TariffOK, NoRequest
  <2>4. ASSUME NEW r \in Reservations, NEW c \in Cancellations, CallCancelFee(p, r, c)
        PROVE  Sound
    <3> DEFINE fee == AmountOf(Apply(CancelSession(c)), "CANCELLATION")
    <3>1. fee \in {0, CancelFeeIDR}
      BY CancelTariff
    <3>2. Begin(p, "fee_find", [NoRequest EXCEPT !.op = "fee", !.res = r,
                                  !.kind = "CANCELLATION", !.fee = fee], None)
      BY <2>4 DEF CallCancelFee
    <3> HIDE DEF fee
    <3> QED
      BY <3>1, <3>2 DEF Begin, Goto, TariffOK, NoRequest
  <2>5. ASSUME NEW r \in Reservations, CallNoShowFee(p, r) PROVE Sound
    BY <2>5 DEF CallNoShowFee, Begin, Goto, TariffOK, NoRequest
  <2>6. ASSUME NEW i \in InvoiceIds, NEW x, CallClose(p, i, x) PROVE Sound
    BY <2>6 DEF CallClose, Begin, Goto, TariffOK, NoRequest
  <2>7. ASSUME NEW i \in InvoiceIds, CallGet(p, i) PROVE Sound
    BY <2>7 DEF CallGet, Begin, Goto, TariffOK, NoRequest
  <2> QED
    BY <1>1, <2>1, <2>2, <2>3, <2>4, <2>5, <2>6, <2>7, Zenon DEF Call
<1>2. CASE Fail(p) \/ OpenReplay(p) \/ OpenFind(p) \/ CloseFind(p) \/ Return(p) \/ fetchLines(p)
  BY <1>2 DEF Fail, OpenReplay, OpenFind, CloseFind, Return, fetchLines, Answer, WorkOn, Goto,
              TariffOK
<1>3. CASE FeeFind(p) \/ AppendInsert(p)
  BY <1>3 DEF FeeFind, AppendInsert, Answer, WorkOn, Goto, TariffOK
<1>4. CASE OpenInsert(p) \/ AppendCommit(p) \/ CloseWrite(p)
  BY <1>4 DEF OpenInsert, AppendCommit, CloseWrite, Goto, TariffOK
<1>5. CASE CloseLock(p) \/ GetRow(p)
  BY <1>5 DEF CloseLock, GetRow, Answer, WorkOn, Goto, TariffOK
<1> QED
  BY <1>1, <1>2, <1>3, <1>4, <1>5 DEF LockStep, FreeStep

\* The rows a step writes still belong to a reservation and count what they sum.
LEMMA OwnedKept ==
    ASSUME IndInv, RefInv, [Next]_vars
    PROVE  \A i \in InvoiceIds : OwnedOK(i)'
<1> USE DEF IndInv, TypeOK
<1>1. CASE UNCHANGED tables
  BY <1>1 DEF tables, RefInv, OwnedOK, Exists
<1>2. ASSUME NEW p \in Procs, OpenInsert(p), NEW i \in InvoiceIds PROVE OwnedOK(i)'
  <2>1. PICK n \in InvoiceIds :
          /\ ~Exists(n)
          /\ invoice' = [invoice EXCEPT ![n] = NewRow(req[p].res, req[p].key)]
          /\ count' = [count EXCEPT ![n]["BOOKING"] = @ + 1]
          /\ amount' = [amount EXCEPT ![n]["BOOKING"] = @ + BookingFeeIDR]
    BY <1>2 DEF OpenInsert
  <2>2. req[p].res \in Reservations
    BY <1>2 DEF OpenInsert, RefInv, TariffOK
  <2>3. Exists(i)' => invoice'[i].res \in Reservations
    BY <2>1, <2>2 DEF RefInv, OwnedOK, Exists, NewRow
  <2>4. \A k \in Kinds : count'[i][k] = 0 => amount'[i][k] = 0
    BY <2>1 DEF RefInv, OwnedOK
  <2> QED
    BY <2>3, <2>4 DEF OwnedOK
<1>3. ASSUME NEW p \in Procs, CloseWrite(p), NEW i \in InvoiceIds PROVE OwnedOK(i)'
  <2> DEFINE new == NewLines(req[p].lines)
  <2>1. Exists(i)' => invoice'[i].res \in Reservations
    BY <1>3, RowsKeepReservation DEF RefInv, OwnedOK
  <2>2. /\ count' = [count EXCEPT ![cur[p]] =
                        [k \in Kinds |-> @[k] + (IF hasKind(new, k) THEN 1 ELSE 0)]]
        /\ amount' = [amount EXCEPT ![cur[p]] = [k \in Kinds |-> @[k] + AmountOf(new, k)]]
    BY <1>3 DEF CloseWrite
  <2> HIDE DEF new
  <2>3. \A k \in Kinds : count'[i][k] = 0 => amount'[i][k] = 0
    BY <2>2 DEF RefInv, OwnedOK, AmountOf
  <2> QED
    BY <2>1, <2>3 DEF OwnedOK
<1>4. ASSUME NEW p \in Procs, AppendCommit(p), NEW i \in InvoiceIds PROVE OwnedOK(i)'
  <2>1. Exists(i)' => invoice'[i].res \in Reservations
    BY <1>4, RowsKeepReservation DEF RefInv, OwnedOK
  <2>2. /\ count' = [count EXCEPT ![cur[p]][req[p].kind] = @ + 1]
        /\ amount' = [amount EXCEPT ![cur[p]][req[p].kind] = @ + req[p].fee]
    BY <1>4 DEF AppendCommit
  <2>3. \A k \in Kinds : count'[i][k] = 0 => amount'[i][k] = 0
    BY <2>2 DEF RefInv, OwnedOK
  <2> QED
    BY <2>1, <2>3 DEF OwnedOK
<1> QED
  BY <1>1, <1>2, <1>3, <1>4, Writers

\* Requests carry the tariff's fees, and invoices belong to reservations, always.
LEMMA Owned == Spec => []RefInv
<1>1. Init => RefInv
  BY DEF Init, RefInv, TariffOK, OwnedOK, Exists, NoRow
<1>2. IndInv /\ RefInv /\ [Next]_vars => RefInv'
  <2> SUFFICES ASSUME IndInv, RefInv, [Next]_vars PROVE RefInv'
    OBVIOUS
  <2>1. \A p \in Procs : TariffOK(p)'
    <3>1. CASE UNCHANGED vars
      BY <3>1 DEF vars, RefInv, TariffOK
    <3>2. ASSUME NEW p \in Procs, Call(p) \/ LockStep(p) \/ FreeStep(p) \/ Fail(p)
          PROVE  \A q \in Procs : TariffOK(q)'
      BY <3>2, TariffKept DEF RefInv
    <3> QED
      BY <3>1, <3>2 DEF Next
  <2> QED
    BY <2>1, OwnedKept DEF RefInv
<1> QED
  BY <1>1, <1>2, LedgerInvariant, PTL DEF Spec

-----------------------------------------------------------------------------
(* The refinement mapping                                                  *)

\* The abstract specification speaks of lines in the same words.
LEMMA SameWords ==
    /\ Abstract!NoAccount = [status |-> "NONE", charges |-> NoLines, balance |-> 0]
    /\ Abstract!LineSets = LineSets /\ Abstract!Kinds = Kinds /\ Abstract!NoLine = NoLine
    /\ \A kind, idr : Abstract!Line(kind, idr) = Line(kind, idr)
    /\ \A l, kind : Abstract!hasKind(l, kind) <=> hasKind(l, kind)
    /\ \A l, m : Abstract!Concat(l, m) = Concat(l, m)
    /\ \A l : Abstract!SumOfLines(l) = SumOfLines(l)
BY DEF Abstract!NoAccount, Abstract!NoLines, NoLines, Abstract!LineSets, LineSets,
       Abstract!Kinds, Kinds, Abstract!NoLine, NoLine, Abstract!Line, Line,
       Abstract!hasKind, hasKind, Abstract!Concat, Concat,
       Abstract!SumOfLines, SumOfLines, Abstract!AmountOf, AmountOf

\* The account of a reservation is that of its one invoice, or no account.
LEMMA BarIs ==
    ASSUME OneInvoicePerReservation
    PROVE  /\ \A i \in InvoiceIds, r \in Reservations :
                 Exists(i) /\ invoice[i].res = r => accountBar[r] = AccountOf(i)
           /\ \A r \in Reservations :
                 (\A i \in InvoiceIds : ~(Exists(i) /\ invoice[i].res = r))
                    => accountBar[r] = Abstract!NoAccount
<1>1. ASSUME NEW i \in InvoiceIds, NEW r \in Reservations, Exists(i), invoice[i].res = r
      PROVE  accountBar[r] = AccountOf(i)
  <2> DEFINE c == CHOOSE j \in InvoiceIds : Exists(j) /\ invoice[j].res = r
  <2>1. c \in InvoiceIds /\ Exists(c) /\ invoice[c].res = r
    BY <1>1
  <2>2. accountBar[r] = AccountOf(c)
    BY <1>1 DEF accountBar
  <2> HIDE DEF c
  <2>3. c = i
    BY <1>1, <2>1 DEF OneInvoicePerReservation
  <2> QED
    BY <2>2, <2>3
<1>2. ASSUME NEW r \in Reservations, \A i \in InvoiceIds : ~(Exists(i) /\ invoice[i].res = r)
      PROVE  accountBar[r] = Abstract!NoAccount
  BY <1>2, SameWords DEF accountBar
<1> QED
  BY <1>1, <1>2

\* The same of the next state.
LEMMA BarBecomes ==
    ASSUME OneInvoicePerReservation'
    PROVE  /\ \A i \in InvoiceIds, r \in Reservations :
                 Exists(i)' /\ invoice'[i].res = r => accountBar'[r] = AccountOf(i)'
           /\ \A r \in Reservations :
                 (\A i \in InvoiceIds : ~(Exists(i)' /\ invoice'[i].res = r))
                    => accountBar'[r] = Abstract!NoAccount
<1>1. ASSUME NEW i \in InvoiceIds, NEW r \in Reservations, Exists(i)', invoice'[i].res = r
      PROVE  accountBar'[r] = AccountOf(i)'
  <2> DEFINE c == CHOOSE j \in InvoiceIds : invoice'[j].status # "NONE" /\ invoice'[j].res = r
  <2>1. c \in InvoiceIds /\ invoice'[c].status # "NONE" /\ invoice'[c].res = r
    BY <1>1 DEF Exists
  <2>3. c = i
    <3> HIDE DEF c
    <3> QED
      BY <1>1, <2>1 DEF OneInvoicePerReservation, Exists
  <2>2. accountBar'[r] = [status |-> invoice'[c].status,
                          charges |-> [k \in Kinds |-> IF count'[c][k] > 0
                                                       THEN amount'[c][k] ELSE NoLine],
                          balance |-> invoice'[c].total]
    BY <1>1 DEF accountBar, AccountOf, Exists
  <2> HIDE DEF c
  <2> QED
    BY <2>2, <2>3 DEF AccountOf
<1>2. ASSUME NEW r \in Reservations,
             \A i \in InvoiceIds : ~(Exists(i)' /\ invoice'[i].res = r)
      PROVE  accountBar'[r] = Abstract!NoAccount
  BY <1>2, SameWords DEF accountBar, Exists
<1> QED
  BY <1>1, <1>2

\* A step that writes the invoice of one reservation moves that account alone.
LEMMA OneAccountMoves ==
    ASSUME OneInvoicePerReservation, OneInvoicePerReservation',
           NEW i \in InvoiceIds, NEW r \in Reservations,
           Exists(i)', invoice'[i].res = r, Exists(i) => invoice[i].res = r,
           \A j \in InvoiceIds \ {i} :
              invoice'[j] = invoice[j] /\ count'[j] = count[j] /\ amount'[j] = amount[j]
    PROVE  accountBar' = [accountBar EXCEPT ![r] = AccountOf(i)']
<1>1. accountBar'[r] = AccountOf(i)'
  BY BarBecomes
<1>2. ASSUME NEW q \in Reservations \ {r} PROVE accountBar'[q] = accountBar[q]
  <2>1. \A j \in InvoiceIds : Exists(j)' /\ invoice'[j].res = q <=> Exists(j) /\ invoice[j].res = q
    BY DEF Exists
  <2>2. CASE \E j \in InvoiceIds : Exists(j) /\ invoice[j].res = q
    <3>1. PICK j \in InvoiceIds : Exists(j) /\ invoice[j].res = q
      BY <2>2
    <3>2. j # i
      BY <2>1, <3>1
    <3>3. AccountOf(j)' = AccountOf(j)
      BY <3>2 DEF AccountOf
    <3>4. accountBar[q] = AccountOf(j)
      BY <3>1, BarIs
    <3>5. accountBar'[q] = AccountOf(j)'
      BY <2>1, <3>1, BarBecomes
    <3> QED
      BY <3>3, <3>4, <3>5
  <2>3. CASE \A j \in InvoiceIds : ~(Exists(j) /\ invoice[j].res = q)
    BY <2>1, <2>3, BarIs, BarBecomes
  <2> QED
    BY <2>2, <2>3
<1>3. accountBar = [q \in Reservations |-> accountBar[q]]
  BY DEF accountBar
<1>4. accountBar' = [q \in Reservations |-> accountBar'[q]]
  BY DEF accountBar
<1> QED
  BY <1>1, <1>2, <1>3, <1>4

\* Initially no reservation has an account.
LEMMA RefInit == Init => Abstract!AInit
BY SameWords DEF Init, Abstract!AInit, accountBar, Exists, NoRow

\* Open's commit opens the account of its reservation.
LEMMA OpenRefines ==
    ASSUME IndInv, RefInv, OneInvoicePerReservation, OneInvoicePerReservation',
           NEW p \in Procs, OpenInsert(p)
    PROVE  Abstract!ANext
<1> USE DEF IndInv, TypeOK
<1>1. PICK r \in Reservations : r = req[p].res
  BY DEF OpenInsert, RefInv, TariffOK
<1>2. PICK i \in InvoiceIds :
        /\ ~Exists(i)
        /\ invoice' = [invoice EXCEPT ![i] = NewRow(r, req[p].key)]
        /\ count' = [count EXCEPT ![i]["BOOKING"] = @ + 1]
        /\ amount' = [amount EXCEPT ![i]["BOOKING"] = @ + BookingFeeIDR]
  BY <1>1 DEF OpenInsert
<1>3. accountBar[r] = Abstract!NoAccount
  BY <1>1, BarIs DEF OpenInsert, UniqueViolation
<1>4. invoice'[i] = NewRow(r, req[p].key)
  BY <1>2
<1>5. accountBar' = [accountBar EXCEPT ![r] = AccountOf(i)']
  BY <1>2, <1>4, OneAccountMoves DEF NewRow, Exists
<1>6. AccountOf(i)' = [status |-> "OPEN", charges |-> Line("BOOKING", BookingFeeIDR),
                       balance |-> BookingFeeIDR]
  <2>1. \A k \in Kinds : count[i][k] = 0 /\ amount[i][k] = 0
    BY <1>2 DEF RowsOK, RefInv, OwnedOK
  <2>2. "BOOKING" \in Kinds /\ BookingFeeIDR \in Nat
    BY TariffAssumption DEF Kinds
  <2>3. \A k \in Kinds : /\ count'[i][k] = IF k = "BOOKING" THEN 1 ELSE 0
                         /\ amount'[i][k] = IF k = "BOOKING" THEN BookingFeeIDR ELSE 0
    BY <1>2, <2>1, <2>2
  <2>4. [k \in Kinds |-> IF count'[i][k] > 0 THEN amount'[i][k] ELSE NoLine]
          = Line("BOOKING", BookingFeeIDR)
    BY <2>3 DEF Line
  <2>5. invoice'[i].status = "OPEN" /\ invoice'[i].total = BookingFeeIDR
    BY <1>4 DEF NewRow
  <2> QED
    BY <2>4, <2>5 DEF AccountOf
<1>7. Abstract!AOpen(r)
  <2>1. accountBar[r].status = "NONE"
    BY <1>3, SameWords
  <2>2. accountBar' = [accountBar EXCEPT ![r] =
           [status |-> "OPEN", charges |-> Abstract!Line("BOOKING", BookingFeeIDR),
            balance |-> BookingFeeIDR]]
    <3>1. Abstract!Line("BOOKING", BookingFeeIDR) = Line("BOOKING", BookingFeeIDR)
      BY SameWords
    <3> QED
      BY <1>5, <1>6, <3>1, Zenon
  <2> QED
    BY <2>1, <2>2 DEF Abstract!AOpen
<1> QED
  BY <1>7 DEF Abstract!ANext

\* AppendLine's commit charges the account a one-off fee it does not have yet.
LEMMA FeeRefines ==
    ASSUME IndInv, RefInv, OneInvoicePerReservation, OneInvoicePerReservation',
           NEW p \in Procs, AppendCommit(p)
    PROVE  Abstract!ANext
<1> USE DEF IndInv, TypeOK
<1>1. PICK i \in InvoiceIds : i = cur[p] /\ Exists(i)
  BY DEF AppendCommit, ControlOK
<1>2. PICK kind \in OneOffKinds : kind = req[p].kind
  BY DEF AppendCommit, ControlOK
<1>3. PICK fee \in Nat : fee = req[p].fee
  BY DEF Request
<1>4. PICK r \in Reservations : r = invoice[i].res
  BY <1>1 DEF RefInv, OwnedOK
<1>5. /\ invoice' = [invoice EXCEPT ![i].total = @ + fee]
      /\ count' = [count EXCEPT ![i][kind] = @ + 1]
      /\ amount' = [amount EXCEPT ![i][kind] = @ + fee]
  BY <1>1, <1>2, <1>3 DEF AppendCommit, FeeAdded
<1>6. count[i][kind] = 0 /\ amount[i][kind] = 0 /\ kind \in Kinds
  BY <1>1, <1>2 DEF AppendCommit, LocksOK, RefInv, OwnedOK, OneOffKinds, Kinds
<1>7. /\ invoice'[i].status = invoice[i].status /\ invoice'[i].res = r
      /\ invoice'[i].total = invoice[i].total + fee
  BY <1>4, <1>5 DEF InvoiceRow
<1>8. accountBar' = [accountBar EXCEPT ![r] = AccountOf(i)']
  <2>1. Exists(i)'
    BY <1>1, <1>7 DEF Exists
  <2>2. \A j \in InvoiceIds \ {i} :
           invoice'[j] = invoice[j] /\ count'[j] = count[j] /\ amount'[j] = amount[j]
    BY <1>5
  <2> QED
    BY <1>4, <1>7, <2>1, <2>2, OneAccountMoves
<1>9. accountBar[r] = AccountOf(i)
  BY <1>1, <1>4, BarIs
<1>10. AccountOf(i)' = [AccountOf(i) EXCEPT !.charges[kind] = fee, !.balance = @ + fee]
  <2>1. \A k \in Kinds : /\ count'[i][k] = IF k = kind THEN 1 ELSE count[i][k]
                         /\ amount'[i][k] = IF k = kind THEN fee ELSE amount[i][k]
    BY <1>5, <1>6
  <2>2. [k \in Kinds |-> IF count'[i][k] > 0 THEN amount'[i][k] ELSE NoLine]
          = [[k \in Kinds |-> IF count[i][k] > 0 THEN amount[i][k] ELSE NoLine]
               EXCEPT ![kind] = fee]
    <3> DEFINE f == [k \in Kinds |-> IF count'[i][k] > 0 THEN amount'[i][k] ELSE NoLine]
               g == [k \in Kinds |-> IF count[i][k] > 0 THEN amount[i][k] ELSE NoLine]
    <3>1. \A k \in Kinds : f[k] = IF k = kind THEN fee ELSE g[k]
      BY <2>1
    <3>2. DOMAIN f = Kinds /\ DOMAIN g = Kinds /\ f = [k \in Kinds |-> f[k]]
      OBVIOUS
    <3> HIDE DEF f, g
    <3>3. f = [g EXCEPT ![kind] = fee]
      BY <1>6, <3>1, <3>2
    <3> QED
      BY <3>3 DEF f, g
  <2>3. /\ AccountOf(i)'.status = AccountOf(i).status
        /\ AccountOf(i)'.charges = [AccountOf(i).charges EXCEPT ![kind] = fee]
        /\ AccountOf(i)'.balance = AccountOf(i).balance + fee
    BY <1>7, <2>2 DEF AccountOf
  <2> QED
    BY <2>3 DEF AccountOf
<1>11. Abstract!AFee(r, kind, fee)
  <2>1. accountBar[r].status # "NONE"
    BY <1>1, <1>9 DEF AccountOf, Exists
  <2>2. ~hasKind(accountBar[r].charges, kind)
    BY <1>6, <1>9 DEF AccountOf, hasKind, NoLine
  <2>3. accountBar' = [accountBar EXCEPT ![r].charges[kind] = fee, ![r].balance = @ + fee]
    BY <1>8, <1>9, <1>10
  <2> QED
    BY <2>1, <2>2, <2>3, SameWords DEF Abstract!AFee
<1>12. \/ kind = "CANCELLATION" /\ fee = CancelFeeIDR
       \/ kind = "NOSHOW" /\ fee = NoShowFeeIDR
  BY <1>2, <1>3 DEF AppendCommit, RefInv, TariffOK, OneOffKinds
<1> QED
  BY <1>11, <1>12 DEF Abstract!ANext

\* Close's commit closes the account, once, with the parking charge it inserts.
LEMMA CloseRefines ==
    ASSUME IndInv, RefInv, OneInvoicePerReservation, OneInvoicePerReservation',
           NEW p \in Procs, CloseWrite(p)
    PROVE  Abstract!ANext
<1> USE DEF IndInv, TypeOK
<1>1. PICK i \in InvoiceIds : i = cur[p] /\ Exists(i)
  BY DEF CloseWrite, ControlOK
<1>2. PICK new : new = NewLines(req[p].lines)
  OBVIOUS
<1>3. /\ new \in LineSets /\ ~hasKind(new, "BOOKING")
      /\ \A k \in OneOffKinds : ~hasKind(new, k)
      /\ ~(hasKind(new, "HOURLY") /\ hasKind(new, "OVERNIGHT"))
  BY <1>2, NewLinesType DEF CloseWrite, ControlOK, Request
<1>4. PICK r \in Reservations : r = invoice[i].res
  BY <1>1 DEF RefInv, OwnedOK
<1>5. invoice[i].status = "OPEN" /\ seen[p] = invoice[i].total
  BY <1>1 DEF CloseWrite, SnapshotIsCurrent
<1>6. /\ invoice' = [invoice EXCEPT ![i].status = "CLOSED",
                                    ![i].total = invoice[i].total + SumOfLines(new)]
      /\ count' = [count EXCEPT ![i] =
                      [k \in Kinds |-> @[k] + (IF hasKind(new, k) THEN 1 ELSE 0)]]
      /\ amount' = [amount EXCEPT ![i] = [k \in Kinds |-> @[k] + AmountOf(new, k)]]
  BY <1>1, <1>2, <1>5 DEF CloseWrite, newLineTotal
<1>7. /\ invoice'[i].status = "CLOSED" /\ invoice'[i].res = r
      /\ invoice'[i].total = invoice[i].total + SumOfLines(new)
  BY <1>4, <1>6 DEF InvoiceRow
<1>8. accountBar' = [accountBar EXCEPT ![r] = AccountOf(i)']
  <2>1. Exists(i)'
    BY <1>7 DEF Exists
  <2>2. \A j \in InvoiceIds \ {i} :
           invoice'[j] = invoice[j] /\ count'[j] = count[j] /\ amount'[j] = amount[j]
    BY <1>6
  <2> QED
    BY <1>4, <1>7, <2>1, <2>2, OneAccountMoves
<1>9. accountBar[r] = AccountOf(i)
  BY <1>1, <1>4, BarIs
<1> DEFINE before == [k \in Kinds |-> IF count[i][k] > 0 THEN amount[i][k] ELSE NoLine]
           after == [k \in Kinds |-> IF count'[i][k] > 0 THEN amount'[i][k] ELSE NoLine]
<1>10. /\ AccountOf(i) = [status |-> "OPEN", charges |-> before, balance |-> invoice[i].total]
       /\ AccountOf(i)' = [status |-> "CLOSED", charges |-> after,
                           balance |-> invoice[i].total + SumOfLines(new)]
  BY <1>5, <1>7 DEF AccountOf
<1>11. \A k \in Kinds : after[k] = IF hasKind(new, k) THEN new[k] ELSE before[k]
  <2>1. \A k \in Kinds : hasKind(new, k) => count[i][k] = 0 /\ amount[i][k] = 0
    BY <1>3, <1>5 DEF RowsOK, RefInv, OwnedOK, Kinds, OneOffKinds
  <2>2. \A k \in Kinds : /\ count'[i][k] = count[i][k] + (IF hasKind(new, k) THEN 1 ELSE 0)
                         /\ amount'[i][k] = amount[i][k] + AmountOf(new, k)
    BY <1>6
  <2>3. ASSUME NEW k \in Kinds, hasKind(new, k) PROVE after[k] = new[k]
    <3>1. new[k] \in Nat
      BY <1>3, <2>3 DEF LineSets, hasKind
    <3> QED
      BY <2>1, <2>2, <2>3, <3>1 DEF AmountOf
  <2>4. ASSUME NEW k \in Kinds, ~hasKind(new, k) PROVE after[k] = before[k]
    BY <2>2, <2>4 DEF AmountOf
  <2> QED
    BY <2>3, <2>4
<1>12. after \in LineSets
  <2>1. \A k \in Kinds : count'[i][k] \in Nat /\ amount'[i][k] \in Nat
    <3>1. \A k \in Kinds : AmountOf(new, k) \in Nat
      BY <1>3, AmountType
    <3> QED
      BY <1>6, <3>1
  <2> QED
    BY <2>1 DEF LineSets
<1> HIDE DEF after
<1>13. new = [k \in Kinds |-> IF k \in {"HOURLY", "OVERNIGHT"} THEN after[k] ELSE NoLine]
  <2>1. \A k \in Kinds : new[k] = IF k \in {"HOURLY", "OVERNIGHT"} THEN after[k] ELSE NoLine
    <3>1. before["HOURLY"] = NoLine /\ before["OVERNIGHT"] = NoLine
      <4>1. count[i]["HOURLY"] = 0 /\ count[i]["OVERNIGHT"] = 0
        BY <1>5 DEF RowsOK
      <4>2. "HOURLY" \in Kinds /\ "OVERNIGHT" \in Kinds
        BY DEF Kinds
      <4> QED
        BY <4>1, <4>2
    <3> HIDE DEF before
    <3> QED
      BY <1>3, <1>11, <3>1 DEF Kinds, OneOffKinds, hasKind
  <2> QED
    BY <1>3, <2>1 DEF LineSets
<1>14. after = Concat(before, new)
  <2>1. after = [k \in Kinds |-> after[k]]
    BY DEF after
  <2> QED
    BY <1>11, <2>1 DEF Concat
<1> HIDE DEF before
<1>15. Abstract!AClose(r)
  <2>1. accountBar'[r] = AccountOf(i)' /\ accountBar[r] = AccountOf(i)
    BY <1>8, <1>9 DEF accountBar
  <2>2. /\ accountBar[r].status = "OPEN" /\ accountBar[r].charges = before
        /\ accountBar[r].balance = invoice[i].total
        /\ accountBar'[r].charges = after
    BY <1>10, <2>1
  <2>3. new = [k \in Abstract!Kinds |-> IF k \in {"HOURLY", "OVERNIGHT"}
                                       THEN accountBar'[r].charges[k] ELSE Abstract!NoLine]
    BY <1>13, <2>2, SameWords
  <2>4. accountBar'[r].charges \in Abstract!LineSets
    BY <1>12, <2>2, SameWords
  <2>5. ~(Abstract!hasKind(new, "HOURLY") /\ Abstract!hasKind(new, "OVERNIGHT"))
    BY <1>3, SameWords
  <2>6. accountBar' = [accountBar EXCEPT ![r] =
           [status |-> "CLOSED", charges |-> Abstract!Concat(accountBar[r].charges, new),
            balance |-> accountBar[r].balance + Abstract!SumOfLines(new)]]
    <3>1. /\ Abstract!Concat(accountBar[r].charges, new) = after
          /\ accountBar[r].balance + Abstract!SumOfLines(new) = invoice[i].total + SumOfLines(new)
      BY <1>14, <2>2, SameWords
    <3> QED
      BY <1>8, <1>10, <3>1
  <2> QED
    BY <2>2, <2>3, <2>4, <2>5, <2>6 DEF Abstract!AClose
<1> QED
  BY <1>15 DEF Abstract!ANext

\* Every step of the ledger is a step of one account or of none.
LEMMA RefStep ==
    ASSUME IndInv, RefInv, OneInvoicePerReservation, OneInvoicePerReservation', [Next]_vars
    PROVE  [Abstract!ANext]_accountBar
<1>1. CASE UNCHANGED tables
  BY <1>1 DEF tables, accountBar, AccountOf, Exists
<1>2. ASSUME NEW p \in Procs, OpenInsert(p) \/ CloseWrite(p) \/ AppendCommit(p)
      PROVE  Abstract!ANext
  BY <1>2, OpenRefines, CloseRefines, FeeRefines
<1> QED
  BY <1>1, <1>2, Writers

\* Whatever the requests race, retry or fail in, each reservation's invoice behaves as an
\* account: opened once with the booking fee, closed once with at most one parking charge,
\* charged each one-off fee of the tariff once, its balance moving in the same step (the
\* transactions of Open, Close and AppendLine, with Account's specification).
THEOREM LedgerImplementsAccount == Spec => ImplementsAccount
<1>1. Init => Abstract!AInit
  BY RefInit
<1>2. /\ IndInv /\ RefInv /\ OneInvoicePerReservation /\ OneInvoicePerReservation' /\ [Next]_vars
      => [Abstract!ANext]_accountBar
  BY RefStep
<1> QED
  BY <1>1, <1>2, LedgerInvariant, Owned, OneInvoice, PTL
     DEF Spec, ImplementsAccount, Abstract!ASpec

-----------------------------------------------------------------------------
(* The outbox accounts for the total                                       *)

\* f is the running sum of what the events of invoice i charge.
RunningSum(f, i) ==
    /\ f \in [0 .. Len(outbox) -> Nat]
    /\ f[0] = 0
    /\ \A n \in 1 .. Len(outbox) :
          f[n] = f[n - 1] + (IF outbox[n].inv = i THEN EventCharge(outbox[n]) ELSE 0)

\* The invariant: the running sum of an invoice's events ends in its total.
EventsOK(i) == \E f \in [0 .. Len(outbox) -> Nat] :
                  RunningSum(f, i) /\ f[Len(outbox)] = invoice[i].total

\* A nonempty set of natural numbers has a least element.
LEMMA LeastNumber ==
    ASSUME NEW T \in SUBSET Nat, T # {}
    PROVE  \E x \in T : \A y \in T : x <= y
<1>1. IsWellFoundedOn(OpToRel(<, Nat), Nat)
  BY NatLessThanWellFounded
<1>2. PICK x \in T : \A y \in T : ~(<<y, x>> \in OpToRel(<, Nat))
  BY <1>1, WFMin
<1>3. \A y \in T : ~(y < x)
  BY <1>2 DEF OpToRel
<1> QED
  BY <1>3

\* A running sum of an invoice's events is the recursively computed one: were there a
\* place where they differ, the first such place would follow one where they agree.
LEMMA RunningSumIsAnnounced ==
    ASSUME outbox \in Seq(OutboxEvent), NEW i \in InvoiceIds, NEW f, RunningSum(f, i)
    PROVE  Announced(i) = f[Len(outbox)]
<1> DEFINE L == Len(outbox)
           c(n) == IF outbox[n].inv = i THEN EventCharge(outbox[n]) ELSE 0
           s == CHOOSE g : g = [n \in 0 .. L |-> IF n = 0 THEN 0 ELSE g[n - 1] + c(n)]
<1>1. L \in Nat
  OBVIOUS
<1>2. Announced(i) = s[L]
  BY DEF Announced
<1>3. f \in [0 .. L -> Nat] /\ f[0] = 0 /\ \A n \in 1 .. L : f[n] = f[n - 1] + c(n)
  BY DEF RunningSum
<1> HIDE DEF L, c
<1>4. f = [n \in 0 .. L |-> IF n = 0 THEN 0 ELSE f[n - 1] + c(n)]
  <2>1. \A n \in 0 .. L : f[n] = IF n = 0 THEN 0 ELSE f[n - 1] + c(n)
    BY <1>1, <1>3
  <2> QED
    BY <1>3, <2>1
<1>5. s = [n \in 0 .. L |-> IF n = 0 THEN 0 ELSE s[n - 1] + c(n)]
  BY <1>4
<1> HIDE DEF s
<1>6. \A n \in 0 .. L : s[n] = IF n = 0 THEN 0 ELSE s[n - 1] + c(n)
  BY <1>5
<1>7. \A n \in 0 .. L : s[n] = f[n]
  <2> DEFINE T == {n \in 0 .. L : s[n] # f[n]}
  <2>1. SUFFICES ASSUME T # {} PROVE FALSE
    OBVIOUS
  <2>2. PICK x \in T : \A y \in T : x <= y
    <3>1. T \in SUBSET Nat
      OBVIOUS
    <3> HIDE DEF T
    <3> QED
      BY <2>1, <3>1, LeastNumber
  <2>3. x \in 0 .. L /\ s[x] # f[x] /\ x # 0
    BY <1>1, <1>3, <1>6, <2>2
  <2>4. x - 1 \in 0 .. L /\ x - 1 < x /\ x \in 1 .. L
    BY <1>1, <2>3
  <2>5. s[x - 1] = f[x - 1]
    BY <1>1, <2>2, <2>3, <2>4
  <2> QED
    BY <1>3, <1>6, <2>3, <2>4, <2>5
<1> QED
  BY <1>1, <1>2, <1>7 DEF L

\* One more event, worth what the total moves by, keeps the running sum: the three
\* transactions that write an invoice end this way.
LEMMA OneMoreEvent ==
    ASSUME outbox \in Seq(OutboxEvent), NEW e \in OutboxEvent, NEW d \in Nat,
           outbox' = Append(outbox, e),
           d = EventCharge(e),
           NEW i \in InvoiceIds, EventsOK(i), invoice[i].total \in Nat,
           invoice'[i].total = invoice[i].total + (IF e.inv = i THEN d ELSE 0)
    PROVE  EventsOK(i)'
<1>0. PICK L \in Nat : L = Len(outbox)
  OBVIOUS
<1> DEFINE x == IF e.inv = i THEN d ELSE 0
<1>1. PICK f \in [0 .. L -> Nat] : RunningSum(f, i) /\ f[L] = invoice[i].total
  BY <1>0 DEF EventsOK
<1> DEFINE g == [n \in 0 .. (L + 1) |-> IF n = L + 1 THEN f[L] + x ELSE f[n]]
<1>2. x \in Nat /\ Len(outbox') = L + 1
  BY <1>0
<1>3. /\ \A n \in 1 .. L : outbox'[n] = outbox[n]
      /\ outbox'[L + 1] = e
  BY <1>0
<1>4. g \in [0 .. (L + 1) -> Nat] /\ g[0] = 0 /\ g[L + 1] = invoice'[i].total
  BY <1>0, <1>1, <1>2 DEF RunningSum
<1>5. ASSUME NEW n \in 1 .. (L + 1)
      PROVE  g[n] = g[n - 1] + (IF outbox'[n].inv = i THEN EventCharge(outbox'[n]) ELSE 0)
  <2>1. CASE n = L + 1
    <3>1. g[n] = f[L] + x /\ g[n - 1] = f[L]
      BY <1>2, <2>1
    <3> QED
      BY <1>3, <2>1, <3>1
  <2>2. CASE n \in 1 .. L
    <3>1. g[n] = f[n] /\ g[n - 1] = f[n - 1]
      BY <1>2, <2>2
    <3>2. f[n] = f[n - 1] + (IF outbox[n].inv = i THEN EventCharge(outbox[n]) ELSE 0)
      BY <1>0, <1>1, <2>2 DEF RunningSum
    <3> HIDE DEF g
    <3> QED
      BY <1>3, <2>2, <3>1, <3>2
  <2> QED
    BY <1>2, <2>1, <2>2
<1> HIDE DEF g
<1>6. RunningSum(g, i)'
  BY <1>2, <1>4, <1>5 DEF RunningSum, EventCharge
<1> QED
  BY <1>2, <1>4, <1>6 DEF EventsOK

\* Every transaction announces what it charges.
LEMMA AnnouncedKept ==
    ASSUME IndInv, NEW i \in InvoiceIds, EventsOK(i), [Next]_vars
    PROVE  EventsOK(i)'
<1> USE DEF IndInv, TypeOK
<1>0. outbox \in Seq(OutboxEvent) /\ invoice[i].total \in Nat
  BY DEF InvoiceRow
<1>1. CASE UNCHANGED tables
  BY <1>1 DEF tables, EventsOK, RunningSum, EventCharge
<1>2. ASSUME NEW p \in Procs, OpenInsert(p) PROVE EventsOK(i)'
  <2>1. PICK n \in InvoiceIds :
          /\ ~Exists(n)
          /\ invoice' = [invoice EXCEPT ![n] = NewRow(req[p].res, req[p].key)]
          /\ outbox' = Append(outbox, [inv |-> n, type |-> EvtInvoiceOpened, body |-> "opened",
                                       lines |-> Line("BOOKING", BookingFeeIDR)])
    BY <1>2 DEF OpenInsert
  <2> DEFINE e == [inv |-> n, type |-> EvtInvoiceOpened, body |-> "opened",
                   lines |-> Line("BOOKING", BookingFeeIDR)]
  <2>2. BookingFeeIDR \in Nat /\ Line("BOOKING", BookingFeeIDR) \in LineSets
    BY LineType, TariffAssumption DEF Kinds
  <2>3. e \in OutboxEvent /\ e.inv = n
    BY <2>2 DEF OutboxEvent
  <2>4. EventCharge(e) = BookingFeeIDR
    <3>1. SumOfLines(Line("BOOKING", BookingFeeIDR)) = BookingFeeIDR
      BY <2>2, SumOfFewLines DEF Kinds
    <3> QED
      BY <3>1 DEF EventCharge
  <2>5. invoice'[i].total = invoice[i].total + (IF e.inv = i THEN BookingFeeIDR ELSE 0)
    BY <1>0, <2>1, <2>2 DEF RowsOK, NewRow
  <2> HIDE DEF e
  <2> QED
    BY <1>0, <2>1, <2>2, <2>3, <2>4, <2>5, OneMoreEvent DEF e
<1>3. ASSUME NEW p \in Procs, CloseWrite(p) PROVE EventsOK(i)'
  <2>1. PICK n \in InvoiceIds : n = cur[p]
    BY <1>3 DEF CloseWrite, ControlOK
  <2>2. PICK raw \in LineSets : raw = req[p].lines
    BY DEF Request
  <2>3. PICK d \in Nat : d = SumOfLines(NewLines(raw))
    <3>1. NewLines(raw) \in LineSets
      BY DEF NewLines, DbLines, LineSets, NoLine
    <3> QED
      BY <3>1, SumType
  <2> DEFINE e == [inv |-> n, type |-> EvtInvoiceClosed, body |-> "closed", lines |-> raw]
  <2>4. outbox' = Append(outbox, e)
    BY <1>3, <2>1, <2>2 DEF CloseWrite
  <2>5. invoice' = [invoice EXCEPT ![n].status = "CLOSED", ![n].total = invoice[n].total + d]
    BY <1>3, <2>1, <2>2, <2>3 DEF CloseWrite, SnapshotIsCurrent, newLineTotal
  <2>6. e \in OutboxEvent /\ EventCharge(e) = d /\ e.inv = n
    BY <2>3 DEF OutboxEvent, EventCharge
  <2>7. invoice'[i].total = invoice[i].total + (IF e.inv = i THEN d ELSE 0)
    BY <1>0, <2>5, <2>6 DEF InvoiceRow
  <2> HIDE DEF e
  <2> QED
    BY <1>0, <2>4, <2>6, <2>7, OneMoreEvent
<1>4. ASSUME NEW p \in Procs, AppendCommit(p) PROVE EventsOK(i)'
  <2>1. PICK n \in InvoiceIds : n = cur[p]
    BY <1>4 DEF AppendCommit, ControlOK
  <2>2. PICK kind \in Kinds : kind = req[p].kind
    BY <1>4 DEF AppendCommit, ControlOK, OneOffKinds, Kinds
  <2>3. PICK fee \in Nat : fee = req[p].fee
    BY DEF Request
  <2> DEFINE e == [inv |-> n, type |-> EvtInvoiceClosed, body |-> "fee",
                   lines |-> Line(kind, fee)]
  <2>4. Line(kind, fee) \in LineSets /\ SumOfLines(Line(kind, fee)) = fee
    <3>1. \E j \in Kinds : j # kind
      BY DEF Kinds
    <3> QED
      BY <3>1, LineType, SumOfFewLines
  <2>5. e \in OutboxEvent /\ EventCharge(e) = fee /\ e.inv = n
    BY <2>4 DEF OutboxEvent, EventCharge
  <2>6. outbox' = Append(outbox, e)
    <3>1. outbox' = outbox \o <<e>>
      BY <1>4, <2>1, <2>2, <2>3 DEF AppendCommit, feeEvent
    <3> HIDE DEF e
    <3> QED
      BY <1>0, <2>5, <3>1
  <2>7. invoice' = [invoice EXCEPT ![n].total = @ + fee]
    BY <1>4, <2>1, <2>3 DEF AppendCommit, FeeAdded
  <2>8. invoice'[i].total = invoice[i].total + (IF e.inv = i THEN fee ELSE 0)
    BY <1>0, <2>5, <2>7 DEF InvoiceRow
  <2> HIDE DEF e
  <2> QED
    BY <1>0, <2>5, <2>6, <2>8, OneMoreEvent
<1> QED
  BY <1>1, <1>2, <1>3, <1>4, Writers

\* The events of an invoice, each counted once, add up to its total, however many
\* requests race or fail: no charge is committed without its event, none is announced
\* without being charged (the outbox rows of Open, Close and AppendLine).
THEOREM EventsTellTotal == Spec => []EventsAccountForTotal
<1> DEFINE Inv == \A i \in InvoiceIds : EventsOK(i)
<1>1. Init => Inv
  <2> SUFFICES ASSUME Init, NEW i \in InvoiceIds PROVE EventsOK(i)
    OBVIOUS
  <2> DEFINE f == [n \in {0} |-> 0]
  <2>1. 0 .. Len(outbox) = {0} /\ 1 .. Len(outbox) = {} /\ Len(outbox) = 0
    BY DEF Init
  <2>2. RunningSum(f, i)
    BY <2>1 DEF RunningSum
  <2>3. invoice[i].total = 0
    BY DEF Init, NoRow
  <2> QED
    BY <2>1, <2>2, <2>3 DEF EventsOK
<1>2. IndInv /\ Inv /\ [Next]_vars => Inv'
  <2> SUFFICES ASSUME IndInv, Inv, [Next]_vars, NEW i \in InvoiceIds PROVE EventsOK(i)'
    OBVIOUS
  <2> QED
    BY AnnouncedKept
<1>3. IndInv /\ Inv => EventsAccountForTotal
  BY RunningSumIsAnnounced DEF IndInv, TypeOK, EventsOK, EventsAccountForTotal
<1> QED
  BY <1>1, <1>2, <1>3, LedgerInvariant, PTL DEF Spec
=============================================================================
