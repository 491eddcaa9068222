---------------------------- MODULE LedgerProofs ----------------------------
(***************************************************************************)
(* The ledger's safety for any number of requests, reservations, keys and  *)
(* invoices and for every tariff.  First the types and the control state,  *)
(* then the money and the locks, which need them, then the life of an      *)
(* invoice: the only one of its reservation, final once settled, and what  *)
(* a request answers of it.                                                *)
(***************************************************************************)
EXTENDS Ledger, PricingProofs

\* A request that has found its invoice was typed by its caller.
LEMMA CallTypes ==
    /\ \A s \in CheckoutSessions :
          /\ Apply(s) \in LineSets
          /\ \A k \in OneOffKinds : ~hasKind(Apply(s), k)
          /\ ~(hasKind(Apply(s), "HOURLY") /\ hasKind(Apply(s), "OVERNIGHT"))
    /\ \A c \in Cancellations :
          AmountOf(Apply(CancelSession(c)), "CANCELLATION") \in Nat
<1>1. ASSUME NEW s \in CheckoutSessions
      PROVE  /\ Apply(s) \in LineSets
             /\ \A k \in OneOffKinds : ~hasKind(Apply(s), k)
             /\ ~(hasKind(Apply(s), "HOURLY") /\ hasKind(Apply(s), "OVERNIGHT"))
  <2>1. s \in Session /\ s.cancelledAt = NoTime /\ s.noShow = FALSE
    BY LedgerAssumption
  <2> QED
    BY <2>1, ChainShortCircuits DEF OneOffKinds
<1>2. ASSUME NEW c \in Cancellations
      PROVE  AmountOf(Apply(CancelSession(c)), "CANCELLATION") \in Nat
  <2>1. CancelSession(c) \in Session
    BY LedgerAssumption DEF CancelSession, Session, ZeroTime
  <2>2. "CANCELLATION" \in Kinds
    BY DEF Kinds
  <2> QED
    BY <2>1, <2>2, ChainShortCircuits, AmountType
<1> QED
  BY <1>1, <1>2

\* The lines Close inserts for a check-out: parking lines only, at most one.
LEMMA NewLinesType ==
    ASSUME NEW raw \in LineSets,
           \A k \in OneOffKinds : ~hasKind(raw, k),
           ~(hasKind(raw, "HOURLY") /\ hasKind(raw, "OVERNIGHT"))
    PROVE  /\ NewLines(raw) \in LineSets
           /\ ~hasKind(NewLines(raw), "BOOKING")
           /\ \A k \in OneOffKinds : ~hasKind(NewLines(raw), k)
           /\ ~(hasKind(NewLines(raw), "HOURLY") /\ hasKind(NewLines(raw), "OVERNIGHT"))
BY DEF NewLines, DbLines, hasKind, NoLine, LineSets, OneOffKinds, Kinds

\* The sum of a slice of lines is a natural number.
LEMMA SumType ==
    ASSUME NEW lines \in LineSets
    PROVE  SumOfLines(lines) \in Nat
<1>1. \A k \in Kinds : AmountOf(lines, k) \in Nat
  BY AmountType
<1> QED
  BY <1>1 DEF SumOfLines, Kinds

\* The updates of Close and AppendLine leave an invoice row.
LEMMA RowUpdates ==
    ASSUME NEW row \in InvoiceRow, NEW t \in Nat
    PROVE  /\ [row EXCEPT !.total = t] \in InvoiceRow
           /\ [row EXCEPT !.status = "CLOSED", !.total = t] \in InvoiceRow
BY DEF InvoiceRow, Statuses

\* The first layer of the inductive invariant: types and control.
TypeInv == TypeOK /\ ControlOK

\* The blank request, answer and row are typed; None is no invoice.
LEMMA BlankTypes ==
    /\ NoRequest \in Request /\ NoView \in View /\ NoRow \in InvoiceRow
    /\ None \notin InvoiceIds
BY LedgerAssumption, NoLinesType
   DEF NoRequest, Request, NoView, View, NoRow, InvoiceRow, Ops, Statuses

\* Initially nobody works on anything.
LEMMA TypeInit == Init => TypeInv
<1> SUFFICES ASSUME Init PROVE TypeInv
  OBVIOUS
<1>1. TypeOK
  BY BlankTypes DEF Init, TypeOK, PCs, Replies
<1>2. ControlOK
  BY DEF Init, ControlOK
<1> QED
  BY <1>1, <1>2 DEF TypeInv

\* The control steps keep the types: each moves one process and writes no table.
LEMMA AnswerKeeps ==
    ASSUME TypeInv, NEW p \in Procs, NEW r \in Replies, NEW v \in View, Answer(p, r, v)
    PROVE  TypeInv'
<1> USE DEF TypeInv, TypeOK, tables
<1>1. [NoRequest EXCEPT !.op = req[p].op] \in Request
  BY BlankTypes DEF Request
<1>2. TypeOK'
  BY <1>1 DEF Answer, Goto, PCs
<1>3. ControlOK'
  BY DEF Answer, Goto, ControlOK, Exists
<1> QED
  BY <1>2, <1>3

\* A handler that starts knows what its first statement needs.
LEMMA BeginKeeps ==
    ASSUME TypeInv, NEW p \in Procs, NEW label \in PCs, NEW r \in Request,
           NEW i \in InvoiceIds \cup {None}, Begin(p, label, r, i),
           label \in {"open_insert", "close_find", "close_lock", "fee_find", "get_row"},
           label \in {"close_lock", "get_row"} => i \in InvoiceIds,
           label \in {"close_find", "close_lock"} =>
              /\ \A k \in OneOffKinds : ~hasKind(r.lines, k)
              /\ ~(hasKind(r.lines, "HOURLY") /\ hasKind(r.lines, "OVERNIGHT")),
           label = "fee_find" => r.kind \in OneOffKinds
    PROVE  TypeInv'
<1> USE DEF TypeInv, TypeOK, tables
<1>1. TypeOK'
  BY DEF Begin, Goto
<1>2. ControlOK'
  BY DEF Begin, Goto, ControlOK, Exists
<1> QED
  BY <1>1, <1>2

\* A handler that goes on keeps to its own operation and to an existing invoice.
LEMMA WorkOnKeeps ==
    ASSUME TypeInv, NEW p \in Procs, NEW label \in PCs,
           NEW i \in InvoiceIds \cup {None}, WorkOn(p, i, label),
           label \in {"close_lock", "close_write", "append_insert", "append_commit",
                      "get_row", "get_lines"} => i \in InvoiceIds,
           label \in {"close_write", "append_insert", "append_commit"} => Exists(i),
           label \in {"close_find", "close_lock", "close_write"} =>
              pc[p] \in {"close_find", "close_lock", "close_write"},
           label \in {"fee_find", "append_insert", "append_commit"} =>
              pc[p] \in {"fee_find", "append_insert", "append_commit"}
    PROVE  TypeInv'
<1> USE DEF TypeInv, TypeOK, tables
<1>1. TypeOK'
  BY DEF WorkOn, Goto
<1>2. ControlOK'
  BY DEF WorkOn, Goto, ControlOK, Exists
<1> QED
  BY <1>1, <1>2

\* Type correctness is inductive: one case per action.
LEMMA TypeStep == TypeInv /\ [Next]_vars => TypeInv'
<1> SUFFICES ASSUME TypeInv, [Next]_vars PROVE TypeInv'
  OBVIOUS
<1> USE DEF TypeInv
<1>0. CASE UNCHANGED vars
  BY <1>0 DEF vars, TypeOK, ControlOK, Exists
<1>1. ASSUME NEW p \in Procs, Call(p) PROVE TypeInv'
  <2>1. CASE CallOpenBlank(p)
    BY <2>1, AnswerKeeps, BlankTypes DEF CallOpenBlank, Replies
  <2>2. ASSUME NEW r \in Reservations, NEW k \in KeysOf[r], CallOpen(p, r, k)
        PROVE  TypeInv'
    <3>1. k \in Keys
      BY LedgerAssumption
    <3>2. [NoRequest EXCEPT !.op = "open", !.res = r, !.key = k] \in Request
      BY <3>1, BlankTypes DEF Request, Ops
    <3> QED
      BY <2>2, <3>2, BeginKeeps DEF CallOpen, PCs
  <2>3. ASSUME NEW r \in Reservations, NEW s \in CheckoutSessions, CallCheckedOut(p, r, s)
        PROVE  TypeInv'
    <3> DEFINE q == [NoRequest EXCEPT !.op = "close", !.res = r, !.lines = Apply(s)]
    <3>1. q \in Request /\ q.lines = Apply(s)
      BY CallTypes, BlankTypes DEF Request, Ops
    <3>2. Begin(p, "close_find", q, None)
      BY <2>3 DEF CallCheckedOut
    <3> HIDE DEF q
    <3> QED
      BY <3>1, <3>2, CallTypes, BeginKeeps DEF PCs
  <2>4. ASSUME NEW r \in Reservations, NEW c \in Cancellations, CallCancelFee(p, r, c)
        PROVE  TypeInv'
    <3> DEFINE fee == AmountOf(Apply(CancelSession(c)), "CANCELLATION")
               q == [NoRequest EXCEPT !.op = "fee", !.res = r, !.kind = "CANCELLATION",
                                      !.fee = fee]
    <3>1. fee \in Nat
      BY CallTypes
    <3>2. Begin(p, "fee_find", q, None)
      BY <2>4 DEF CallCancelFee
    <3> HIDE DEF fee
    <3>3. q \in Request /\ q.kind \in OneOffKinds
      BY <3>1, BlankTypes DEF Request, Ops, OneOffKinds, Kinds
    <3> HIDE DEF q
    <3> QED
      BY <3>2, <3>3, BeginKeeps DEF PCs
  <2>5. ASSUME NEW r \in Reservations, CallNoShowFee(p, r)
        PROVE  TypeInv'
    <3> DEFINE q == [NoRequest EXCEPT !.op = "fee", !.res = r, !.kind = "NOSHOW",
                                      !.fee = NoShowFeeIDR]
    <3>1. Begin(p, "fee_find", q, None)
      BY <2>5 DEF CallNoShowFee
    <3>2. q \in Request /\ q.kind \in OneOffKinds
      BY BlankTypes, TariffAssumption DEF Request, Ops, OneOffKinds, Kinds
    <3> HIDE DEF q
    <3> QED
      BY <3>1, <3>2, BeginKeeps DEF PCs
  <2>6. ASSUME NEW i \in InvoiceIds, NEW s \in CheckoutSessions, CallClose(p, i, s)
        PROVE  TypeInv'
    <3> DEFINE q == [NoRequest EXCEPT !.op = "close", !.lines = Apply(s)]
    <3>1. q \in Request /\ q.lines = Apply(s)
      BY CallTypes, BlankTypes DEF Request, Ops
    <3>2. Begin(p, "close_lock", q, i)
      BY <2>6 DEF CallClose
    <3> HIDE DEF q
    <3> QED
      BY <3>1, <3>2, CallTypes, BeginKeeps DEF PCs
  <2>7. ASSUME NEW i \in InvoiceIds, CallGet(p, i)
        PROVE  TypeInv'
    <3>1. [NoRequest EXCEPT !.op = "get"] \in Request
      BY BlankTypes DEF Request, Ops
    <3> QED
      BY <2>7, <3>1, BeginKeeps DEF CallGet, PCs
  <2> QED
    BY <1>1, <2>1, <2>2, <2>3, <2>4, <2>5, <2>6, <2>7 DEF Call
<1>2. ASSUME NEW p \in Procs, OpenInsert(p) PROVE TypeInv'
  <2>1. PICK i \in InvoiceIds :
          /\ ~Exists(i)
          /\ invoice' = [invoice EXCEPT ![i] = NewRow(req[p].res, req[p].key)]
          /\ count' = [count EXCEPT ![i]["BOOKING"] = @ + 1]
          /\ amount' = [amount EXCEPT ![i]["BOOKING"] = @ + BookingFeeIDR]
          /\ outbox' = Append(outbox, [inv |-> i, type |-> EvtInvoiceOpened, body |-> "opened",
                                       lines |-> Line("BOOKING", BookingFeeIDR)])
          /\ cur' = [cur EXCEPT ![p] = i]
    BY <1>2 DEF OpenInsert
  <2>2. NewRow(req[p].res, req[p].key) \in InvoiceRow
    BY TariffAssumption DEF NewRow, InvoiceRow, Statuses, TypeOK, Request
  <2>3. [inv |-> i, type |-> EvtInvoiceOpened, body |-> "opened",
         lines |-> Line("BOOKING", BookingFeeIDR)] \in OutboxEvent
    BY LineType, TariffAssumption DEF OutboxEvent, Kinds
  <2>4. TypeOK'
    <3>1. invoice' \in [InvoiceIds -> InvoiceRow]
      BY <2>1, <2>2 DEF TypeOK
    <3>2. count' \in [InvoiceIds -> [Kinds -> Nat]] /\ amount' \in [InvoiceIds -> [Kinds -> Nat]]
      <4>1. "BOOKING" \in Kinds /\ BookingFeeIDR \in Nat
        BY TariffAssumption DEF Kinds
      <4>2. /\ [count[i] EXCEPT !["BOOKING"] = @ + 1] \in [Kinds -> Nat]
            /\ [amount[i] EXCEPT !["BOOKING"] = @ + BookingFeeIDR] \in [Kinds -> Nat]
        BY <4>1 DEF TypeOK
      <4>3. /\ count' = [count EXCEPT ![i] = [count[i] EXCEPT !["BOOKING"] = @ + 1]]
            /\ amount' = [amount EXCEPT ![i] = [amount[i] EXCEPT !["BOOKING"] = @ + BookingFeeIDR]]
        BY <2>1
      <4> QED
        BY <4>2, <4>3 DEF TypeOK
    <3>3. outbox' \in Seq(OutboxEvent)
      BY <2>1, <2>3 DEF TypeOK
    <3> QED
      BY <1>2, <2>1, <3>1, <3>2, <3>3 DEF TypeOK, OpenInsert, Goto, PCs
  <2>5. \A j \in InvoiceIds : Exists(j) => Exists(j)'
    BY <2>1 DEF Exists, TypeOK
  <2>6. ControlOK'
    BY <1>2, <2>1, <2>5 DEF OpenInsert, Goto, ControlOK, TypeOK
  <2> QED
    BY <2>4, <2>6
<1>3. ASSUME NEW p \in Procs, OpenReplay(p) PROVE TypeInv'
  BY <1>3, WorkOnKeeps DEF OpenReplay, PCs
<1>4. ASSUME NEW p \in Procs, OpenFind(p) PROVE TypeInv'
  BY <1>4, WorkOnKeeps, AnswerKeeps, BlankTypes DEF OpenFind, PCs, Replies
<1>5. ASSUME NEW p \in Procs, CloseFind(p) PROVE TypeInv'
  BY <1>5, WorkOnKeeps, AnswerKeeps, BlankTypes DEF CloseFind, PCs, Replies
<1>6. ASSUME NEW p \in Procs, CloseLock(p) PROVE TypeInv'
  <2>1. cur[p] \in InvoiceIds
    BY <1>6 DEF CloseLock, ControlOK
  <2>2. CASE Answer(p, "not_found", NoView)
    BY <2>2, AnswerKeeps, BlankTypes DEF Replies
  <2>3. CASE /\ invoice[cur[p]].status = "OPEN"
             /\ seen' = [seen EXCEPT ![p] = invoice[cur[p]].total]
             /\ Goto(p, "close_write")
             /\ UNCHANGED <<tables, req, cur, view, reply>>
    <3>1. TypeOK'
      BY <2>1, <2>3 DEF TypeOK, Goto, PCs, tables, InvoiceRow
    <3>2. ControlOK'
      BY <1>6, <2>1, <2>3 DEF CloseLock, ControlOK, Goto, tables, Exists, TypeOK
    <3> QED
      BY <3>1, <3>2
  <2>4. CASE WorkOn(p, cur[p], "get_row")
    BY <2>1, <2>4, WorkOnKeeps DEF PCs
  <2> QED
    BY <1>6, <2>2, <2>3, <2>4 DEF CloseLock
<1>7. ASSUME NEW p \in Procs, CloseWrite(p) PROVE TypeInv'
  <2> DEFINE i == cur[p]
             new == NewLines(req[p].lines)
  <2>1. i \in InvoiceIds /\ req[p].lines \in LineSets
    BY <1>7 DEF CloseWrite, ControlOK, TypeOK, Request
  <2>2. new \in LineSets
    BY <1>7, <2>1, NewLinesType DEF CloseWrite, ControlOK
  <2>3. newLineTotal(req[p].lines) \in Nat
    BY <2>2, SumType DEF newLineTotal
  <2>4. [inv |-> i, type |-> EvtInvoiceClosed, body |-> "closed",
         lines |-> req[p].lines] \in OutboxEvent
    BY <2>1 DEF OutboxEvent
  <2>5. TypeOK'
    <3>1. invoice' \in [InvoiceIds -> InvoiceRow]
      <4>1. [invoice[i] EXCEPT !.status = "CLOSED",
                               !.total = seen[p] + newLineTotal(req[p].lines)] \in InvoiceRow
        <5>1. invoice[i] \in InvoiceRow /\ seen[p] + newLineTotal(req[p].lines) \in Nat
          BY <2>1, <2>3 DEF TypeOK
        <5> QED
          BY <5>1, RowUpdates
      <4>2. \/ invoice' = invoice
            \/ invoice' = [invoice EXCEPT ![i] =
                  [invoice[i] EXCEPT !.status = "CLOSED",
                                     !.total = seen[p] + newLineTotal(req[p].lines)]]
        BY <1>7 DEF CloseWrite
      <4> QED
        BY <4>1, <4>2 DEF TypeOK
    <3>2. count' \in [InvoiceIds -> [Kinds -> Nat]]
      BY <1>7, <2>1 DEF TypeOK, CloseWrite
    <3>3. amount' \in [InvoiceIds -> [Kinds -> Nat]]
      <4>1. \A k \in Kinds : AmountOf(new, k) \in Nat
        BY <2>2, AmountType
      <4> HIDE DEF new
      <4>2. amount' = [amount EXCEPT ![i] = [k \in Kinds |-> @[k] + AmountOf(new, k)]]
        BY <1>7 DEF CloseWrite, new
      <4> QED
        BY <4>1, <4>2, <2>1 DEF TypeOK
    <3>4. outbox' \in Seq(OutboxEvent)
      BY <1>7, <2>4 DEF TypeOK, CloseWrite
    <3> QED
      BY <1>7, <3>1, <3>2, <3>3, <3>4 DEF TypeOK, CloseWrite, Goto, PCs
  <2>6. \A j \in InvoiceIds : Exists(j) => Exists(j)'
    BY <1>7 DEF CloseWrite, Exists, TypeOK, InvoiceRow
  <2>7. ControlOK'
    BY <1>7, <2>1, <2>6 DEF CloseWrite, Goto, ControlOK, TypeOK
  <2> QED
    BY <2>5, <2>7
<1>8. ASSUME NEW p \in Procs, FeeFind(p) PROVE TypeInv'
  BY <1>8, WorkOnKeeps, AnswerKeeps, BlankTypes DEF FeeFind, PCs, Replies, Exists
<1>9. ASSUME NEW p \in Procs, AppendInsert(p) PROVE TypeInv'
  BY <1>9, WorkOnKeeps, AnswerKeeps, BlankTypes DEF AppendInsert, PCs, Replies, ControlOK
<1>10. ASSUME NEW p \in Procs, AppendCommit(p) PROVE TypeInv'
  <2> DEFINE i == cur[p]
             kind == req[p].kind
             fee == req[p].fee
  <2>1. i \in InvoiceIds /\ kind \in Kinds /\ fee \in Nat
    BY <1>10 DEF AppendCommit, ControlOK, TypeOK, Request, OneOffKinds, Kinds
  <2>2. feeEvent(i, kind, fee) \in Seq(OutboxEvent)
    BY <2>1, LineType DEF feeEvent, OutboxEvent
  <2>3. TypeOK'
    <3>1. invoice' \in [InvoiceIds -> InvoiceRow]
      <4>1. [invoice[i] EXCEPT !.total = FeeAdded(@, fee)] \in InvoiceRow
        <5>1. invoice[i] \in InvoiceRow /\ invoice[i].total + fee \in Nat
          BY <2>1 DEF TypeOK, InvoiceRow
        <5> QED
          BY <5>1, RowUpdates DEF FeeAdded
      <4>2. invoice' = [invoice EXCEPT ![i] = [invoice[i] EXCEPT !.total = FeeAdded(@, fee)]]
        BY <1>10 DEF AppendCommit
      <4> QED
        BY <4>1, <4>2 DEF TypeOK
    <3>2. count' \in [InvoiceIds -> [Kinds -> Nat]] /\ amount' \in [InvoiceIds -> [Kinds -> Nat]]
      BY <1>10, <2>1 DEF TypeOK, AppendCommit
    <3>3. outbox' \in Seq(OutboxEvent)
      BY <1>10, <2>2 DEF TypeOK, AppendCommit
    <3> QED
      BY <1>10, <3>1, <3>2, <3>3 DEF TypeOK, AppendCommit, Goto, PCs
  <2>4. \A j \in InvoiceIds : Exists(j) => Exists(j)'
    BY <1>10 DEF AppendCommit, Exists, TypeOK, InvoiceRow
  <2>5. ControlOK'
    BY <1>10, <2>1, <2>4 DEF AppendCommit, Goto, ControlOK, TypeOK
  <2> QED
    BY <2>3, <2>5
<1>11. ASSUME NEW p \in Procs, GetRow(p) PROVE TypeInv'
  <2>1. CASE Answer(p, "not_found", NoView)
    BY <2>1, AnswerKeeps, BlankTypes DEF Replies
  <2>2. CASE ~Answer(p, "not_found", NoView)
    <3>1. cur[p] \in InvoiceIds
      BY <1>11 DEF GetRow, ControlOK
    <3>2. TypeOK'
      <4> DEFINE v == [view[p] EXCEPT !.status = invoice[cur[p]].status,
                                      !.total = invoice[cur[p]].total]
      <4>1. v \in View
        BY <3>1 DEF TypeOK, View, InvoiceRow
      <4>2. view' = [view EXCEPT ![p] = v]
        BY <1>11, <2>2 DEF GetRow
      <4> HIDE DEF v
      <4> QED
        BY <1>11, <2>2, <4>1, <4>2 DEF GetRow, TypeOK, Goto, PCs, tables
    <3>3. ControlOK'
      BY <1>11, <2>2, <3>1 DEF GetRow, ControlOK, Goto, tables, Exists, TypeOK
    <3> QED
      BY <3>2, <3>3
  <2> QED
    BY <2>1, <2>2
<1>12. ASSUME NEW p \in Procs, fetchLines(p) PROVE TypeInv'
  <2>1. cur[p] \in InvoiceIds
    BY <1>12 DEF fetchLines, ControlOK
  <2>2. [view[p] EXCEPT !.lines = amount[cur[p]]] \in View
    BY <2>1 DEF TypeOK, View
  <2> QED
    BY <1>12, <2>2, AnswerKeeps, BlankTypes DEF fetchLines, Replies
<1>13. ASSUME NEW p \in Procs, Fail(p) PROVE TypeInv'
  BY <1>13, AnswerKeeps, BlankTypes DEF Fail, Replies
<1>14. ASSUME NEW p \in Procs, Return(p) PROVE TypeInv'
  <2>1. TypeOK'
    BY <1>14, BlankTypes DEF Return, Goto, TypeOK, tables, PCs, Replies
  <2>2. ControlOK'
    BY <1>14 DEF Return, Goto, ControlOK, tables, Exists, TypeOK
  <2> QED
    BY <2>1, <2>2
<1> QED
  BY <1>0, <1>1, <1>2, <1>3, <1>4, <1>5, <1>6, <1>7, <1>8, <1>9, <1>10, <1>11, <1>12,
     <1>13, <1>14 DEF Next, LockStep, FreeStep

\* The tables and every request keep their types, and a request that writes an invoice
\* writes one that exists, for any number of concurrent requests (module Ledger).
THEOREM TypeCorrect == Spec => []TypeOK
<1>1. Spec => []TypeInv
  BY TypeInit, TypeStep, PTL DEF Spec
<1> QED
  BY <1>1, PTL DEF TypeInv

-----------------------------------------------------------------------------
(* Money and locks                                                         *)

\* The second layer: rows, lines, totals and who holds which row lock.
MoneyInv == RowsOK /\ LocksOK /\ SnapshotIsCurrent /\ TotalIsSumOfLines /\ NoDoubleCharge

\* Initially there are no invoices, no lines and no locks.
LEMMA MoneyInit == Init => MoneyInv
BY DEF Init, MoneyInv, RowsOK, LocksOK, SnapshotIsCurrent, TotalIsSumOfLines, NoDoubleCharge,
       NoRow, Exists, SumRows, Kinds

\* A step that writes no table and takes no lock disturbs nothing.
LEMMA QuietKeeps ==
    ASSUME TypeOK, TypeOK', MoneyInv, NEW p \in Procs, UNCHANGED tables,
           pc'[p] \notin {"close_write", "append_commit"},
           \A q \in Procs \ {p} : /\ pc'[q] = pc[q] /\ cur'[q] = cur[q]
                                  /\ req'[q] = req[q] /\ seen'[q] = seen[q]
    PROVE  MoneyInv'
<1> USE DEF MoneyInv
<1>1. invoice' = invoice /\ count' = count /\ amount' = amount
  BY DEF tables
<1>2. RowsOK' /\ TotalIsSumOfLines' /\ NoDoubleCharge'
  BY <1>1 DEF RowsOK, TotalIsSumOfLines, NoDoubleCharge, Exists
<1>3. SnapshotIsCurrent'
  BY <1>1 DEF SnapshotIsCurrent
<1>4. LocksOK'
  BY <1>1 DEF LocksOK
<1> QED
  BY <1>2, <1>3, <1>4

\* The three control steps are quiet unless they take a lock.
LEMMA ControlIsQuiet ==
    ASSUME TypeOK, NEW p \in Procs, NEW label, NEW r, NEW i, NEW v,
           \/ Answer(p, r, v)
           \/ Begin(p, label, r, i) /\ label \notin {"close_write", "append_commit"}
           \/ WorkOn(p, i, label) /\ label \notin {"close_write", "append_commit"}
    PROVE  /\ UNCHANGED tables
           /\ pc'[p] \notin {"close_write", "append_commit"}
           /\ \A q \in Procs \ {p} : /\ pc'[q] = pc[q] /\ cur'[q] = cur[q]
                                     /\ req'[q] = req[q] /\ seen'[q] = seen[q]
BY DEF TypeOK, Answer, Begin, WorkOn, Goto

\* A row update by the one transaction that may write it keeps the others' locks sound.
LEMMA MoneyStep == TypeInv /\ TypeInv' /\ MoneyInv /\ [Next]_vars => MoneyInv'
<1> SUFFICES ASSUME TypeInv, TypeInv', MoneyInv, [Next]_vars PROVE MoneyInv'
  OBVIOUS
<1> USE DEF TypeInv
<1>0. CASE UNCHANGED vars
  BY <1>0 DEF vars, MoneyInv, RowsOK, LocksOK, SnapshotIsCurrent, TotalIsSumOfLines,
              NoDoubleCharge, Exists
<1>1. ASSUME NEW p \in Procs, Call(p) PROVE MoneyInv'
  <2>1. \/ Answer(p, "validation", NoView)
        \/ \E r, i : Begin(p, "open_insert", r, i)
        \/ \E r, i : Begin(p, "close_find", r, i)
        \/ \E r, i : Begin(p, "fee_find", r, i)
        \/ \E r, i : Begin(p, "close_lock", r, i)
        \/ \E r, i : Begin(p, "get_row", r, i)
    BY <1>1, Zenon DEF Call, CallOpenBlank, CallOpen, CallCheckedOut, CallCancelFee,
                       CallNoShowFee, CallClose, CallGet
  <2>2. \/ \E r, v : Answer(p, r, v)
        \/ \E label, r, i : Begin(p, label, r, i) /\ label \notin {"close_write", "append_commit"}
    BY <2>1
  <2> QED
    BY <2>2, ControlIsQuiet, QuietKeeps
<1>2. ASSUME NEW p \in Procs, Fail(p) \/ fetchLines(p) \/ OpenReplay(p) \/ OpenFind(p)
                              \/ CloseFind(p) \/ FeeFind(p)
      PROVE  MoneyInv'
  <2>1. \/ \E r, v : Answer(p, r, v)
        \/ \E label, i : WorkOn(p, i, label) /\ label \notin {"close_write", "append_commit"}
    BY <1>2 DEF Fail, fetchLines, OpenReplay, OpenFind, CloseFind, FeeFind
  <2> QED
    BY <2>1, ControlIsQuiet, QuietKeeps
<1>3. ASSUME NEW p \in Procs, GetRow(p) PROVE MoneyInv'
  <2>1. CASE Answer(p, "not_found", NoView)
    BY <2>1, ControlIsQuiet, QuietKeeps
  <2>2. CASE Goto(p, "get_lines") /\ UNCHANGED <<tables, req, cur, seen, reply>>
    <3>1. pc'[p] = "get_lines" /\ \A q \in Procs \ {p} : pc'[q] = pc[q]
      BY <2>2 DEF Goto, TypeOK
    <3> QED
      BY <2>2, <3>1, QuietKeeps
  <2> QED
    BY <1>3, <2>1, <2>2 DEF GetRow
<1>4. ASSUME NEW p \in Procs, Return(p) PROVE MoneyInv'
  <2>1. /\ UNCHANGED tables /\ pc'[p] = "idle"
        /\ \A q \in Procs \ {p} : /\ pc'[q] = pc[q] /\ cur'[q] = cur[q]
                                  /\ req'[q] = req[q] /\ seen'[q] = seen[q]
    BY <1>4 DEF Return, Goto, TypeOK
  <2> QED
    BY <2>1, QuietKeeps
<1>5. ASSUME NEW p \in Procs, CloseLock(p) PROVE MoneyInv'
  <2>1. CASE Answer(p, "not_found", NoView)
    BY <2>1, ControlIsQuiet, QuietKeeps
  <2>3. CASE WorkOn(p, cur[p], "get_row")
    <3>1. "get_row" \notin {"close_write", "append_commit"}
      OBVIOUS
    <3> QED
      BY <2>3, <3>1, ControlIsQuiet, QuietKeeps
  <2>2. CASE /\ invoice[cur[p]].status = "OPEN"
             /\ seen' = [seen EXCEPT ![p] = invoice[cur[p]].total]
             /\ Goto(p, "close_write")
             /\ UNCHANGED <<tables, req, cur, view, reply>>
    <3>1. /\ UNCHANGED <<invoice, count, amount, cur, req>>
          /\ pc' = [pc EXCEPT ![p] = "close_write"] /\ pc[p] = "close_lock"
          /\ \A q \in Procs : cur[q] = cur[p] => pc[q] \notin {"close_write", "append_commit"}
      BY <1>5, <2>2 DEF CloseLock, RowLockFree, HoldsForUpdate, HoldsKeyShare, Goto, tables
    <3>2. RowsOK' /\ TotalIsSumOfLines' /\ NoDoubleCharge'
      BY <3>1 DEF MoneyInv, RowsOK, TotalIsSumOfLines, NoDoubleCharge, Exists
    <3>3. SnapshotIsCurrent'
      BY <2>2, <3>1 DEF MoneyInv, SnapshotIsCurrent, TypeOK
    <3>4. LocksOK'
      BY <3>1 DEF MoneyInv, LocksOK, TypeOK
    <3> QED
      BY <3>2, <3>3, <3>4 DEF MoneyInv
  <2> QED
    BY <1>5, <2>1, <2>2, <2>3 DEF CloseLock
<1>6. ASSUME NEW p \in Procs, AppendInsert(p) PROVE MoneyInv'
  <2>1. CASE Answer(p, "error", NoView)
    BY <2>1, ControlIsQuiet, QuietKeeps
  <2>2. CASE count[cur[p]][req[p].kind] = 0 /\ WorkOn(p, cur[p], "append_commit")
    <3>1. /\ UNCHANGED <<invoice, count, amount, req, seen>>
          /\ pc' = [pc EXCEPT ![p] = "append_commit"] /\ cur' = cur
          /\ \A q \in Procs : cur[q] = cur[p] =>
                /\ pc[q] # "close_write"
                /\ pc[q] = "append_commit" => req[q].kind # req[p].kind
      BY <1>6, <2>2 DEF AppendInsert, HoldsForUpdate, HoldsKeyShare, WorkOn, Goto, tables, TypeOK
    <3>2. RowsOK' /\ TotalIsSumOfLines' /\ NoDoubleCharge'
      BY <3>1 DEF MoneyInv, RowsOK, TotalIsSumOfLines, NoDoubleCharge, Exists
    <3>3. SnapshotIsCurrent'
      BY <3>1 DEF MoneyInv, SnapshotIsCurrent, TypeOK
    <3>4. LocksOK'
      BY <2>2, <3>1 DEF MoneyInv, LocksOK, TypeOK
    <3> QED
      BY <3>2, <3>3, <3>4 DEF MoneyInv
  <2> QED
    BY <1>6, <2>1, <2>2 DEF AppendInsert
<1>7. ASSUME NEW p \in Procs, OpenInsert(p) PROVE MoneyInv'
  <2>1. PICK i \in InvoiceIds :
          /\ ~Exists(i)
          /\ invoice' = [invoice EXCEPT ![i] = NewRow(req[p].res, req[p].key)]
          /\ count' = [count EXCEPT ![i]["BOOKING"] = @ + 1]
          /\ amount' = [amount EXCEPT ![i]["BOOKING"] = @ + BookingFeeIDR]
          /\ cur' = [cur EXCEPT ![p] = i]
    BY <1>7 DEF OpenInsert
  <2>2. /\ pc' = [pc EXCEPT ![p] = "get_row"] /\ req' = req /\ seen' = seen
    BY <1>7 DEF OpenInsert, Goto
  <2>3. \A q \in Procs : pc[q] \in {"close_write", "append_commit"} => cur[q] # i
    BY <2>1 DEF ControlOK
  <2>4. /\ invoice[i].total = 0 /\ invoice'[i].total = BookingFeeIDR
        /\ invoice'[i].status = "OPEN" /\ \A k \in Kinds : count[i][k] = 0
        /\ \A j \in InvoiceIds \ {i} : invoice'[j] = invoice[j] /\ count'[j] = count[j]
                                       /\ amount'[j] = amount[j]
    BY <2>1 DEF MoneyInv, RowsOK, NewRow, TypeOK
  <2>5. /\ \A k \in Kinds : count'[i][k] = IF k = "BOOKING" THEN 1 ELSE 0
        /\ \A k \in Kinds : amount'[i][k] =
              IF k = "BOOKING" THEN amount[i][k] + BookingFeeIDR ELSE amount[i][k]
    BY <2>1, <2>4 DEF TypeOK
  <2>6. RowsOK'
    BY <2>4, <2>5 DEF MoneyInv, RowsOK, Exists, Kinds
  <2>7. TotalIsSumOfLines'
    <3>1. SumRows(amount[i]) = 0 /\ \A k \in Kinds : amount[i][k] \in Nat
      BY <2>4 DEF MoneyInv, TotalIsSumOfLines, TypeOK
    <3>2. SumRows(amount'[i]) = BookingFeeIDR
      <4>1. /\ amount'[i]["BOOKING"] = amount[i]["BOOKING"] + BookingFeeIDR
            /\ amount'[i]["HOURLY"] = amount[i]["HOURLY"]
            /\ amount'[i]["OVERNIGHT"] = amount[i]["OVERNIGHT"]
            /\ amount'[i]["CANCELLATION"] = amount[i]["CANCELLATION"]
            /\ amount'[i]["NOSHOW"] = amount[i]["NOSHOW"]
        BY <2>5 DEF Kinds
      <4>2. SumRows(amount'[i]) = SumRows(amount[i]) + BookingFeeIDR
        BY <3>1, <4>1, TariffAssumption DEF SumRows, Kinds
      <4> QED
        BY <3>1, <4>2, TariffAssumption
    <3> QED
      BY <2>4, <3>2 DEF MoneyInv, TotalIsSumOfLines
  <2>8. NoDoubleCharge'
    BY <2>4, <2>5 DEF MoneyInv, NoDoubleCharge, Kinds
  <2>9. SnapshotIsCurrent'
    BY <2>1, <2>2, <2>3, <2>4 DEF MoneyInv, SnapshotIsCurrent, TypeOK, ControlOK
  <2>10. LocksOK'
    <3>1. \A q \in Procs : pc'[q] \in {"close_write", "append_commit"} =>
            /\ q # p /\ pc'[q] = pc[q] /\ cur'[q] = cur[q] /\ cur[q] \in InvoiceIds \ {i}
      BY <2>1, <2>2, <2>3 DEF TypeOK, ControlOK
    <3> QED
      BY <2>2, <2>4, <3>1 DEF MoneyInv, LocksOK
  <2> QED
    BY <2>6, <2>7, <2>8, <2>9, <2>10 DEF MoneyInv
<1>8. ASSUME NEW p \in Procs, CloseWrite(p) PROVE MoneyInv'
  <2> DEFINE i == cur[p]
             new == NewLines(req[p].lines)
  <2>1. /\ i \in InvoiceIds /\ Exists(i) /\ req[p].lines \in LineSets
        /\ invoice[i].status = "OPEN" /\ seen[p] = invoice[i].total
        /\ count[i]["HOURLY"] = 0 /\ count[i]["OVERNIGHT"] = 0
    BY <1>8 DEF CloseWrite, ControlOK, TypeOK, Request, MoneyInv, SnapshotIsCurrent, RowsOK
  <2>2. /\ new \in LineSets /\ ~hasKind(new, "BOOKING")
        /\ \A k \in OneOffKinds : ~hasKind(new, k)
        /\ ~(hasKind(new, "HOURLY") /\ hasKind(new, "OVERNIGHT"))
    BY <1>8, <2>1, NewLinesType DEF CloseWrite, ControlOK
  <2>3. \A k \in Kinds : AmountOf(new, k) \in Nat
    BY <2>2, AmountType
  <2>4. /\ invoice' = [invoice EXCEPT ![i].status = "CLOSED",
                                      ![i].total = seen[p] + SumOfLines(new)]
        /\ count' = [count EXCEPT ![i] =
                        [k \in Kinds |-> @[k] + (IF hasKind(new, k) THEN 1 ELSE 0)]]
        /\ amount' = [amount EXCEPT ![i] = [k \in Kinds |-> @[k] + AmountOf(new, k)]]
        /\ pc' = [pc EXCEPT ![p] = "get_row"] /\ pc[p] = "close_write"
        /\ req' = req /\ cur' = cur /\ seen' = seen
    BY <1>8, <2>1 DEF CloseWrite, newLineTotal, Goto
  <2> HIDE DEF new
  <2>5. /\ invoice'[i].status = "CLOSED"
        /\ invoice'[i].total = invoice[i].total + SumOfLines(new)
        /\ \A k \in Kinds : count'[i][k] = count[i][k] + (IF hasKind(new, k) THEN 1 ELSE 0)
        /\ \A k \in Kinds : amount'[i][k] = amount[i][k] + AmountOf(new, k)
        /\ \A j \in InvoiceIds \ {i} : invoice'[j] = invoice[j] /\ count'[j] = count[j]
                                       /\ amount'[j] = amount[j]
    BY <2>1, <2>4 DEF TypeOK, InvoiceRow
  <2>6. \A q \in Procs \ {p} : pc[q] \in {"close_write", "append_commit"} => cur[q] # i
    BY <2>4 DEF MoneyInv, LocksOK
  <2>7. RowsOK'
    BY <2>5 DEF MoneyInv, RowsOK, Exists
  <2>8. TotalIsSumOfLines'
    <3>1. invoice[i].total = SumRows(amount[i]) /\ \A k \in Kinds : amount[i][k] \in Nat
      BY <2>1 DEF MoneyInv, TotalIsSumOfLines, TypeOK
    <3>2. SumRows(amount'[i]) = SumRows(amount[i]) + SumOfLines(new)
      BY <2>3, <2>5, <3>1 DEF SumRows, SumOfLines, Kinds
    <3> QED
      BY <2>5, <3>1, <3>2 DEF MoneyInv, TotalIsSumOfLines
  <2>9. NoDoubleCharge'
    <3>1. \A k \in Kinds : count[i][k] \in Nat /\ count[i][k] <= 1
      BY <2>1 DEF MoneyInv, NoDoubleCharge, TypeOK
    <3>2. /\ \A k \in Kinds \ {"HOURLY", "OVERNIGHT"} : count'[i][k] = count[i][k]
          /\ count'[i]["HOURLY"] = (IF hasKind(new, "HOURLY") THEN 1 ELSE 0)
          /\ count'[i]["OVERNIGHT"] = (IF hasKind(new, "OVERNIGHT") THEN 1 ELSE 0)
      BY <2>1, <2>2, <2>5, <3>1 DEF Kinds, OneOffKinds
    <3>3. /\ \A k \in Kinds : count'[i][k] <= 1
          /\ count'[i]["HOURLY"] + count'[i]["OVERNIGHT"] <= 1
      BY <2>2, <3>1, <3>2
    <3> QED
      BY <2>5, <3>3 DEF MoneyInv, NoDoubleCharge
  <2>10. SnapshotIsCurrent'
    BY <2>4, <2>5, <2>6 DEF MoneyInv, SnapshotIsCurrent, TypeOK, ControlOK
  <2>11. LocksOK'
    <3>1. \A q \in Procs : pc'[q] \in {"close_write", "append_commit"} =>
            q # p /\ pc'[q] = pc[q] /\ cur[q] \in InvoiceIds \ {i}
      BY <2>4, <2>6 DEF TypeOK, ControlOK
    <3> QED
      BY <2>4, <2>5, <3>1 DEF MoneyInv, LocksOK
  <2> QED
    BY <2>7, <2>8, <2>9, <2>10, <2>11 DEF MoneyInv
<1>9. ASSUME NEW p \in Procs, AppendCommit(p) PROVE MoneyInv'
  <2> DEFINE i == cur[p]
             kind == req[p].kind
             fee == req[p].fee
  <2>1. /\ i \in InvoiceIds /\ Exists(i) /\ kind \in OneOffKinds /\ kind \in Kinds
        /\ fee \in Nat /\ count[i][kind] = 0
    BY <1>9 DEF AppendCommit, ControlOK, TypeOK, Request, MoneyInv, LocksOK, OneOffKinds, Kinds
  <2>2. /\ invoice' = [invoice EXCEPT ![i].total = @ + fee]
        /\ count' = [count EXCEPT ![i][kind] = @ + 1]
        /\ amount' = [amount EXCEPT ![i][kind] = @ + fee]
        /\ pc' = [pc EXCEPT ![p] = "get_row"] /\ pc[p] = "append_commit"
        /\ req' = req /\ cur' = cur /\ seen' = seen
    BY <1>9 DEF AppendCommit, FeeAdded, Goto
  <2> HIDE DEF kind, fee
  <2>3. /\ invoice'[i].status = invoice[i].status
        /\ invoice'[i].total = invoice[i].total + fee
        /\ \A k \in Kinds : count'[i][k] = IF k = kind THEN 1 ELSE count[i][k]
        /\ \A k \in Kinds : amount'[i][k] = IF k = kind THEN amount[i][k] + fee ELSE amount[i][k]
        /\ \A j \in InvoiceIds \ {i} : invoice'[j] = invoice[j] /\ count'[j] = count[j]
                                       /\ amount'[j] = amount[j]
    BY <2>1, <2>2 DEF TypeOK, InvoiceRow
  <2>4. \A q \in Procs \ {p} : cur[q] = i =>
          pc[q] # "close_write" /\ (pc[q] = "append_commit" => req[q].kind # kind)
    BY <2>2 DEF MoneyInv, LocksOK, kind
  <2>5. RowsOK'
    BY <2>1, <2>3 DEF MoneyInv, RowsOK, Exists, OneOffKinds, Kinds
  <2>6. TotalIsSumOfLines'
    <3>1. invoice[i].total = SumRows(amount[i]) /\ \A k \in Kinds : amount[i][k] \in Nat
      BY <2>1 DEF MoneyInv, TotalIsSumOfLines, TypeOK
    <3>2. SumRows(amount'[i]) = SumRows(amount[i]) + fee
      BY <2>1, <2>3, <3>1 DEF SumRows, Kinds
    <3> QED
      BY <2>3, <3>1, <3>2 DEF MoneyInv, TotalIsSumOfLines
  <2>7. NoDoubleCharge'
    <3>1. /\ \A k \in Kinds : count[i][k] \in Nat /\ count[i][k] <= 1
          /\ count[i]["HOURLY"] + count[i]["OVERNIGHT"] <= 1
      BY <2>1 DEF MoneyInv, NoDoubleCharge, TypeOK
    <3>2. /\ \A k \in Kinds : count'[i][k] <= 1
          /\ count'[i]["HOURLY"] = count[i]["HOURLY"]
          /\ count'[i]["OVERNIGHT"] = count[i]["OVERNIGHT"]
      BY <2>1, <2>3, <3>1 DEF Kinds, OneOffKinds
    <3> QED
      BY <2>3, <3>1, <3>2 DEF MoneyInv, NoDoubleCharge
  <2>8. SnapshotIsCurrent'
    BY <2>2, <2>3, <2>4 DEF MoneyInv, SnapshotIsCurrent, TypeOK, ControlOK
  <2>9. LocksOK'
    <3>1. \A q \in Procs : pc'[q] \in {"close_write", "append_commit"} =>
            q # p /\ pc'[q] = pc[q] /\ cur[q] \in InvoiceIds /\ req[q].kind \in Kinds \cup {None}
      BY <2>2 DEF TypeOK, ControlOK, Request
    <3>2. \A q \in Procs : pc'[q] = "append_commit" => count'[cur[q]][req[q].kind] = 0
      <4> SUFFICES ASSUME NEW q \in Procs, pc'[q] = "append_commit"
                   PROVE  count'[cur[q]][req[q].kind] = 0
        OBVIOUS
      <4>1. /\ q # p /\ pc[q] = "append_commit" /\ cur[q] \in InvoiceIds
            /\ req[q].kind \in Kinds /\ count[cur[q]][req[q].kind] = 0
        BY <3>1 DEF MoneyInv, LocksOK, ControlOK, OneOffKinds, Kinds
      <4> QED
        BY <4>1, <2>3, <2>4
    <3>3. \A q1, q2 \in Procs :
            /\ pc'[q1] = "close_write" /\ q1 # q2 /\ cur[q1] = cur[q2]
               => pc'[q2] \notin {"close_write", "append_commit"}
            /\ pc'[q1] = "append_commit" /\ pc'[q2] = "append_commit" /\ q1 # q2
               /\ cur[q1] = cur[q2] => req[q1].kind # req[q2].kind
      BY <3>1 DEF MoneyInv, LocksOK
    <3> QED
      BY <2>2, <3>2, <3>3 DEF LocksOK
  <2> QED
    BY <2>5, <2>6, <2>7, <2>8, <2>9 DEF MoneyInv
<1> QED
  BY <1>0, <1>1, <1>2, <1>3, <1>4, <1>5, <1>6, <1>7, <1>8, <1>9 DEF Next, LockStep, FreeStep

\* The inductive invariant of the ledger.
THEOREM LedgerInvariant == Spec => []IndInv
<1>1. Init => TypeInv /\ MoneyInv
  BY TypeInit, MoneyInit
<1>2. TypeInv /\ MoneyInv /\ [Next]_vars => (TypeInv /\ MoneyInv)'
  BY TypeStep, MoneyStep
<1>3. Spec => [](TypeInv /\ MoneyInv)
  BY <1>1, <1>2, PTL DEF Spec
<1>4. TypeInv /\ MoneyInv => IndInv
  BY DEF TypeInv, MoneyInv, IndInv
<1> QED
  BY <1>3, <1>4, PTL

\* The stored total is the sum of the lines, for any number of closes and fees racing
\* on the same invoice and for every tariff.
THEOREM TotalCorrect == Spec => []TotalIsSumOfLines
BY LedgerInvariant, PTL DEF IndInv

\* No kind is charged twice, and parking is charged once, whatever is retried.
THEOREM ChargedOnce == Spec => []NoDoubleCharge
BY LedgerInvariant, PTL DEF IndInv

\* Close always writes on the total and the status it read.
THEOREM CloseUsesCurrentTotal == Spec => []SnapshotIsCurrent
BY LedgerInvariant, PTL DEF IndInv

-----------------------------------------------------------------------------
(* What becomes of an invoice over its life, from what the steps that      *)
(* write the tables do to a row                                            *)

\* Only three steps write the tables: the commits of Open, Close and AppendLine.
LEMMA Writers ==
    ASSUME [Next]_vars
    PROVE  \/ UNCHANGED tables
           \/ \E p \in Procs : OpenInsert(p) \/ CloseWrite(p) \/ AppendCommit(p)
<1>1. CASE UNCHANGED vars
  BY <1>1 DEF vars, tables
<1>2. ASSUME NEW p \in Procs, Call(p) PROVE UNCHANGED tables
  BY <1>2, Zenon DEF Call, CallOpenBlank, CallOpen, CallCheckedOut, CallCancelFee,
                     CallNoShowFee, CallClose, CallGet, Begin, Answer, tables
<1>3. ASSUME NEW p \in Procs,
             \/ Fail(p) \/ fetchLines(p) \/ OpenReplay(p) \/ OpenFind(p)
             \/ CloseFind(p) \/ FeeFind(p) \/ AppendInsert(p)
             \/ CloseLock(p) \/ GetRow(p) \/ Return(p)
      PROVE  UNCHANGED tables
  BY <1>3 DEF Fail, fetchLines, OpenReplay, OpenFind, CloseFind, FeeFind, AppendInsert,
              CloseLock, GetRow, Return, Answer, WorkOn, tables
<1> QED
  BY <1>1, <1>2, <1>3 DEF Next, LockStep, FreeStep

\* A step that is no commit of Open leaves every row to its reservation and makes none.
LEMMA RowsKeepReservation ==
    ASSUME IndInv, NEW p \in Procs, CloseWrite(p) \/ AppendCommit(p)
    PROVE  \A i \in InvoiceIds :
              Exists(i)' => Exists(i) /\ invoice'[i].res = invoice[i].res
<1> USE DEF IndInv, TypeOK, InvoiceRow
<1>1. cur[p] \in InvoiceIds /\ Exists(cur[p])
  BY DEF CloseWrite, AppendCommit, ControlOK
<1>2. CASE CloseWrite(p)
  BY <1>1, <1>2 DEF CloseWrite, Exists
<1>3. CASE AppendCommit(p)
  BY <1>1, <1>3 DEF AppendCommit, Exists
<1> QED
  BY <1>2, <1>3

\* Only an insert adds a row, and it finds no other of its reservation.
LEMMA OneInvoiceStep ==
    IndInv /\ OneInvoicePerReservation /\ [Next]_vars => OneInvoicePerReservation'
<1> SUFFICES ASSUME IndInv, OneInvoicePerReservation, [Next]_vars
             PROVE  OneInvoicePerReservation'
  OBVIOUS
<1>1. CASE UNCHANGED tables
  BY <1>1 DEF tables, OneInvoicePerReservation, Exists
<1>2. ASSUME NEW p \in Procs, OpenInsert(p) PROVE OneInvoicePerReservation'
  <2>1. PICK n \in InvoiceIds :
          invoice' = [invoice EXCEPT ![n] = NewRow(req[p].res, req[p].key)]
    BY <1>2 DEF OpenInsert
  <2>2. \A i \in InvoiceIds : Exists(i) => invoice[i].res # req[p].res
    BY <1>2 DEF OpenInsert, UniqueViolation
  <2>3. /\ invoice'[n].res = req[p].res
        /\ \A i \in InvoiceIds \ {n} : invoice'[i] = invoice[i]
    BY <2>1 DEF IndInv, TypeOK, NewRow
  <2> QED
    BY <2>2, <2>3 DEF OneInvoicePerReservation, Exists
<1>3. ASSUME NEW p \in Procs, CloseWrite(p) \/ AppendCommit(p)
      PROVE  OneInvoicePerReservation'
  BY <1>3, RowsKeepReservation DEF OneInvoicePerReservation, Exists
<1> QED
  BY <1>1, <1>2, <1>3, Writers

\* A reservation never has two invoices, for any number of concurrent and repeated
\* opens and whatever keys they use (the unique reservation_id of Open's INSERT).
THEOREM OneInvoice == Spec => []OneInvoicePerReservation
<1>1. Init => OneInvoicePerReservation
  BY DEF Init, OneInvoicePerReservation, Exists, NoRow
<1> QED
  BY <1>1, OneInvoiceStep, LedgerInvariant, PTL DEF Spec

-----------------------------------------------------------------------------
\* A request about to append a line was about to before, or has just seen its invoice
\* OPEN (getOpenInvoice).
LEMMA AppendersSawOpen ==
    ASSUME TypeOK, [Next]_vars, NEW q \in Procs, pc'[q] \in {"append_insert", "append_commit"}
    PROVE  \/ pc[q] \in {"append_insert", "append_commit"} /\ cur'[q] = cur[q]
           \/ cur'[q] \in InvoiceIds /\ invoice[cur'[q]].status = "OPEN"
<1> DEFINE Sound == \/ pc[q] \in {"append_insert", "append_commit"} /\ cur'[q] = cur[q]
                    \/ cur'[q] \in InvoiceIds /\ invoice[cur'[q]].status = "OPEN"
<1> USE DEF TypeOK
<1>1. CASE UNCHANGED vars
  BY <1>1 DEF vars
<1>2. ASSUME NEW p \in Procs, Call(p) PROVE Sound
  <2>1. \/ Answer(p, "validation", NoView)
        \/ \E r, i : Begin(p, "open_insert", r, i)
        \/ \E r, i : Begin(p, "close_find", r, i)
        \/ \E r, i : Begin(p, "fee_find", r, i)
        \/ \E r, i : Begin(p, "close_lock", r, i)
        \/ \E r, i : Begin(p, "get_row", r, i)
    BY <1>2, Zenon DEF Call, CallOpenBlank, CallOpen, CallCheckedOut, CallCancelFee,
                       CallNoShowFee, CallClose, CallGet
  <2> QED
    BY <2>1 DEF Answer, Begin, Goto
<1>3. ASSUME NEW p \in Procs, Fail(p) \/ fetchLines(p) \/ OpenReplay(p) \/ OpenFind(p)
                              \/ CloseFind(p) \/ CloseLock(p) \/ GetRow(p) \/ Return(p)
      PROVE  Sound
  BY <1>3 DEF Fail, fetchLines, OpenReplay, OpenFind, CloseFind, CloseLock, GetRow, Return,
              Answer, WorkOn, Goto
<1>4. ASSUME NEW p \in Procs, FeeFind(p) \/ AppendInsert(p) PROVE Sound
  BY <1>4 DEF FeeFind, AppendInsert, Answer, WorkOn, Goto
<1>5. ASSUME NEW p \in Procs, OpenInsert(p) \/ CloseWrite(p) \/ AppendCommit(p) PROVE Sound
  BY <1>5 DEF OpenInsert, CloseWrite, AppendCommit, Goto
<1> QED
  BY <1>1, <1>2, <1>3, <1>4, <1>5 DEF Next, LockStep, FreeStep

\* The steps that write leave a settled invoice alone: Open writes a new row, Close one
\* that is still OPEN, and nobody is left to append to it.
LEMMA SettledRowKept ==
    ASSUME IndInv, [Next]_vars, NEW i \in InvoiceIds, Settled(i)
    PROVE  invoice'[i] = invoice[i] /\ amount'[i] = amount[i]
<1> USE DEF IndInv, TypeOK
<1>1. CASE UNCHANGED tables
  BY <1>1 DEF tables
<1>2. ASSUME NEW p \in Procs, OpenInsert(p)
      PROVE  invoice'[i] = invoice[i] /\ amount'[i] = amount[i]
  BY <1>2 DEF OpenInsert, Settled, Exists
<1>3. ASSUME NEW p \in Procs, CloseWrite(p)
      PROVE  invoice'[i] = invoice[i] /\ amount'[i] = amount[i]
  <2>1. cur[p] # i
    BY <1>3 DEF CloseWrite, SnapshotIsCurrent, Settled
  <2> QED
    BY <1>3, <2>1 DEF CloseWrite
<1>4. ASSUME NEW p \in Procs, AppendCommit(p)
      PROVE  invoice'[i] = invoice[i] /\ amount'[i] = amount[i]
  <2>1. cur[p] # i
    BY <1>4 DEF AppendCommit, Settled
  <2> QED
    BY <1>4, <2>1 DEF AppendCommit
<1> QED
  BY <1>1, <1>2, <1>3, <1>4, Writers

\* Once an invoice is CLOSED and the fees that saw it OPEN are through, no step of any
\* request changes its row or its lines again (Close's no-op on a closed invoice,
\* getOpenInvoice in front of AppendLine).
THEOREM SettledForGood == Spec => SettledIsFinal
<1> DEFINE Kept == \A i \in InvoiceIds : Settled(i) =>
                      Settled(i)' /\ invoice'[i] = invoice[i] /\ amount'[i] = amount[i]
<1>1. IndInv /\ [Next]_vars => [Kept]_vars
  <2> SUFFICES ASSUME IndInv, [Next]_vars, NEW i \in InvoiceIds, Settled(i)
               PROVE  Settled(i)' /\ invoice'[i] = invoice[i] /\ amount'[i] = amount[i]
    OBVIOUS
  <2>1. invoice'[i] = invoice[i] /\ amount'[i] = amount[i]
    BY SettledRowKept
  <2>2. ASSUME NEW q \in Procs, cur'[q] = i
        PROVE  pc'[q] \notin {"append_insert", "append_commit"}
    BY <2>2, AppendersSawOpen DEF Settled, IndInv
  <2> QED
    BY <2>1, <2>2 DEF Settled
<1> QED
  BY <1>1, LedgerInvariant, PTL DEF Spec, SettledIsFinal

-----------------------------------------------------------------------------
\* What a request knows about its answer so far: a close on its way out has a CLOSED
\* invoice, and the lines still to be read cover the total already read.
AnswerOK(p) ==
    /\ pc[p] \in {"open_insert", "open_find"} => req[p].op = "open"
    /\ pc[p] \in {"fee_find", "append_insert", "append_commit"} => req[p].op = "fee"
    /\ pc[p] = "get_row" /\ req[p].op = "close" => invoice[cur[p]].status = "CLOSED"
    /\ pc[p] = "get_lines" =>
          /\ view[p].total <= SumRows(amount[cur[p]])
          /\ req[p].op = "close" => view[p].status = "CLOSED"
    /\ pc[p] = "done" /\ reply[p] = "ok" =>
          /\ req[p].op # "fee" => view[p].total <= SumRows(view[p].lines)
          /\ req[p].op = "close" => view[p].status = "CLOSED"

\* A sum of line amounts is a natural number.
LEMMA SumRowsType ==
    ASSUME NEW f \in [Kinds -> Nat] PROVE SumRows(f) \in Nat
BY DEF SumRows, Kinds

\* It grows with each amount.
LEMMA SumRowsGrows ==
    ASSUME NEW f \in [Kinds -> Nat], NEW g \in [Kinds -> Nat], \A k \in Kinds : f[k] <= g[k]
    PROVE  SumRows(f) <= SumRows(g)
BY DEF SumRows, Kinds

\* Rows are never reopened and lines never taken away.
LEMMA RowsGrow ==
    ASSUME IndInv, [Next]_vars, NEW i \in InvoiceIds
    PROVE  /\ invoice[i].status = "CLOSED" => invoice'[i].status = "CLOSED"
           /\ amount'[i] \in [Kinds -> Nat]
           /\ SumRows(amount[i]) <= SumRows(amount'[i])
<1> USE DEF IndInv, TypeOK
<1>1. amount'[i] \in [Kinds -> Nat]
  BY TypeStep DEF TypeInv
<1>2. ASSUME NEW p \in Procs, OpenInsert(p)
      PROVE  /\ invoice[i].status = "CLOSED" => invoice'[i].status = "CLOSED"
             /\ \A k \in Kinds : amount[i][k] <= amount'[i][k]
  <2>1. PICK n \in InvoiceIds :
          /\ ~Exists(n)
          /\ invoice' = [invoice EXCEPT ![n] = NewRow(req[p].res, req[p].key)]
          /\ amount' = [amount EXCEPT ![n]["BOOKING"] = @ + BookingFeeIDR]
    BY <1>2 DEF OpenInsert
  <2>2. invoice[i].status = "CLOSED" => invoice'[i].status = "CLOSED"
    BY <2>1 DEF Exists
  <2>3. "BOOKING" \in Kinds /\ BookingFeeIDR \in Nat
    BY TariffAssumption DEF Kinds
  <2>4. \A k \in Kinds : amount[i][k] <= amount'[i][k]
    BY <2>1, <2>3
  <2> QED
    BY <2>2, <2>4
<1>3. ASSUME NEW p \in Procs, CloseWrite(p)
      PROVE  /\ invoice[i].status = "CLOSED" => invoice'[i].status = "CLOSED"
             /\ \A k \in Kinds : amount[i][k] <= amount'[i][k]
  <2>1. NewLines(req[p].lines) \in LineSets
    BY <1>3, NewLinesType DEF CloseWrite, ControlOK, Request
  <2>2. \A k \in Kinds : AmountOf(NewLines(req[p].lines), k) \in Nat
    BY <2>1, AmountType
  <2>3. amount' = [amount EXCEPT ![cur[p]] =
                     [k \in Kinds |-> @[k] + AmountOf(NewLines(req[p].lines), k)]]
    BY <1>3 DEF CloseWrite
  <2>4. \A k \in Kinds : amount[i][k] <= amount'[i][k]
    BY <2>2, <2>3
  <2>5. invoice[i].status = "CLOSED" => invoice'[i].status = "CLOSED"
    BY <1>3 DEF CloseWrite
  <2> QED
    BY <2>4, <2>5
<1>4. ASSUME NEW p \in Procs, AppendCommit(p)
      PROVE  /\ invoice[i].status = "CLOSED" => invoice'[i].status = "CLOSED"
             /\ \A k \in Kinds : amount[i][k] <= amount'[i][k]
  <2>1. req[p].fee \in Nat
    BY DEF Request
  <2>2. /\ amount' = [amount EXCEPT ![cur[p]][req[p].kind] = @ + req[p].fee]
        /\ invoice' = [invoice EXCEPT ![cur[p]].total = FeeAdded(@, req[p].fee)]
    BY <1>4 DEF AppendCommit
  <2>3. \A k \in Kinds : amount[i][k] <= amount'[i][k]
    BY <2>1, <2>2
  <2> QED
    BY <2>2, <2>3
<1>5. CASE UNCHANGED tables
  <2>1. SumRows(amount[i]) \in Nat
    BY SumRowsType
  <2> QED
    BY <1>1, <1>5, <2>1 DEF tables
<1>6. CASE ~UNCHANGED tables
  <2>1. /\ invoice[i].status = "CLOSED" => invoice'[i].status = "CLOSED"
        /\ \A k \in Kinds : amount[i][k] <= amount'[i][k]
    BY <1>2, <1>3, <1>4, <1>6, Writers
  <2> QED
    BY <1>1, <2>1, SumRowsGrows
<1> QED
  BY <1>5, <1>6

\* A request that does not move keeps what it knows.
LEMMA OthersKnow ==
    ASSUME IndInv, [Next]_vars, NEW q \in Procs, AnswerOK(q),
           pc'[q] = pc[q], cur'[q] = cur[q], req'[q] = req[q],
           view'[q] = view[q], reply'[q] = reply[q]
    PROVE  AnswerOK(q)'
<1>1. CASE pc[q] \in {"get_row", "get_lines"}
  <2>1. cur[q] \in InvoiceIds
    BY <1>1 DEF IndInv, ControlOK
  <2>2. view[q].total \in Nat /\ SumRows(amount[cur[q]]) \in Nat
    BY <2>1, SumRowsType DEF IndInv, TypeOK, View
  <2>3. SumRows(amount'[cur[q]]) \in Nat
    BY <2>1, RowsGrow, SumRowsType
  <2> QED
    BY <1>1, <2>1, <2>2, <2>3, RowsGrow DEF AnswerOK
<1>2. CASE pc[q] \notin {"get_row", "get_lines"}
  BY <1>2 DEF AnswerOK
<1> QED
  BY <1>1, <1>2

\* A request that moves knows afterwards what its new place needs.
LEMMA MoverKnows ==
    ASSUME IndInv, NEW p \in Procs, AnswerOK(p),
           Call(p) \/ LockStep(p) \/ FreeStep(p) \/ Fail(p)
    PROVE  /\ AnswerOK(p)'
           /\ \A q \in Procs \ {p} : /\ pc'[q] = pc[q] /\ cur'[q] = cur[q] /\ req'[q] = req[q]
                                     /\ view'[q] = view[q] /\ reply'[q] = reply[q]
<1> DEFINE Sound == /\ AnswerOK(p)'
                    /\ \A q \in Procs \ {p} : /\ pc'[q] = pc[q] /\ cur'[q] = cur[q]
                                              /\ req'[q] = req[q] /\ view'[q] = view[q]
                                              /\ reply'[q] = reply[q]
<1> USE DEF IndInv, TypeOK
<1>1. CASE Call(p)
  <2>1. CASE CallOpenBlank(p)
    BY <2>1 DEF CallOpenBlank, Answer, Goto, AnswerOK
  <2>2. ASSUME NEW r \in Reservations, NEW k, CallOpen(p, r, k) PROVE Sound
    BY <2>2 DEF CallOpen, Begin, Goto, AnswerOK, NoRequest
  <2>3. ASSUME NEW r \in Reservations, NEW x, CallCheckedOut(p, r, x) PROVE Sound
    BY <2>3 DEF CallCheckedOut, Begin, Goto, AnswerOK, NoRequest
  <2>4. ASSUME NEW r \in Reservations, NEW x, CallCancelFee(p, r, x) PROVE Sound
    BY <2>4 DEF CallCancelFee, Begin, Goto, AnswerOK, NoRequest
  <2>5. ASSUME NEW r \in Reservations, CallNoShowFee(p, r) PROVE Sound
    BY <2>5 DEF CallNoShowFee, Begin, Goto, AnswerOK, NoRequest
  <2>6. ASSUME NEW i \in InvoiceIds, NEW x, CallClose(p, i, x) PROVE Sound
    BY <2>6 DEF CallClose, Begin, Goto, AnswerOK, NoRequest
  <2>7. ASSUME NEW i \in InvoiceIds, CallGet(p, i) PROVE Sound
    BY <2>7 DEF CallGet, Begin, Goto, AnswerOK, NoRequest
  <2> QED
    BY <1>1, <2>1, <2>2, <2>3, <2>4, <2>5, <2>6, <2>7, Zenon DEF Call
<1>2. CASE Fail(p) \/ OpenReplay(p) \/ OpenFind(p) \/ CloseFind(p) \/ Return(p)
  BY <1>2 DEF Fail, OpenReplay, OpenFind, CloseFind, Return, Answer, WorkOn, Goto, AnswerOK
<1>3. CASE FeeFind(p) \/ AppendInsert(p)
  BY <1>3 DEF FeeFind, AppendInsert, Answer, WorkOn, Goto, AnswerOK, NoRequest
<1>4. CASE OpenInsert(p) \/ AppendCommit(p)
  BY <1>4 DEF OpenInsert, AppendCommit, Goto, AnswerOK
<1>5. CASE CloseLock(p)
  <2>1. cur[p] \in InvoiceIds
    BY <1>5 DEF CloseLock, ControlOK
  <2>2. invoice[cur[p]].status \in {"NONE", "OPEN", "CLOSED"}
    BY <2>1 DEF InvoiceRow, Statuses
  <2>3. CASE Answer(p, "not_found", NoView)
    BY <2>3 DEF Answer, Goto, AnswerOK
  <2>4. CASE WorkOn(p, cur[p], "get_row") /\ invoice[cur[p]].status = "CLOSED"
    BY <2>4 DEF WorkOn, Goto, AnswerOK, tables
  <2>5. CASE Goto(p, "close_write") /\ UNCHANGED <<tables, req, cur, view, reply>>
    BY <2>5 DEF Goto, AnswerOK
  <2> QED
    BY <1>5, <2>2, <2>3, <2>4, <2>5 DEF CloseLock, Exists
<1>6. CASE CloseWrite(p)
  <2>1. cur[p] \in InvoiceIds /\ invoice[cur[p]].status = "OPEN"
    BY <1>6 DEF CloseWrite, ControlOK, SnapshotIsCurrent
  <2>2. /\ invoice'[cur[p]].status = "CLOSED" /\ cur' = cur
        /\ pc' = [pc EXCEPT ![p] = "get_row"] /\ UNCHANGED <<req, view, reply>>
    BY <1>6, <2>1 DEF CloseWrite, Goto, InvoiceRow
  <2> QED
    BY <2>1, <2>2 DEF AnswerOK
<1>7. CASE GetRow(p)
  <2>1. cur[p] \in InvoiceIds
    BY <1>7 DEF GetRow, ControlOK
  <2>2. SumRows(amount[cur[p]]) \in Nat /\ invoice[cur[p]].total = SumRows(amount[cur[p]])
    BY <2>1, SumRowsType DEF TotalIsSumOfLines
  <2> QED
    BY <1>7, <2>1, <2>2 DEF GetRow, Answer, Goto, AnswerOK, tables, View
<1>8. CASE fetchLines(p)
  BY <1>8 DEF fetchLines, Answer, Goto, AnswerOK, View
<1> QED
  BY <1>1, <1>2, <1>3, <1>4, <1>5, <1>6, <1>7, <1>8 DEF LockStep, FreeStep

\* Every request always knows what its answer needs.
LEMMA AnswersKnown == Spec => [](\A p \in Procs : AnswerOK(p))
<1>1. Init => \A p \in Procs : AnswerOK(p)
  BY DEF Init, AnswerOK
<1>2. IndInv /\ (\A p \in Procs : AnswerOK(p)) /\ [Next]_vars => (\A p \in Procs : AnswerOK(p))'
  <2> SUFFICES ASSUME IndInv, \A p \in Procs : AnswerOK(p), [Next]_vars, NEW q \in Procs
               PROVE  AnswerOK(q)'
    OBVIOUS
  <2>1. CASE UNCHANGED vars
    BY <2>1, OthersKnow DEF vars
  <2>2. ASSUME NEW p \in Procs, Call(p) \/ LockStep(p) \/ FreeStep(p) \/ Fail(p)
        PROVE  AnswerOK(q)'
    BY <2>2, MoverKnows, OthersKnow
  <2> QED
    BY <2>1, <2>2 DEF Next
<1> QED
  BY <1>1, <1>2, LedgerInvariant, PTL DEF Spec

\* A CloseInvoice that answers without an error answers a CLOSED invoice, whoever closed
\* it (invoice.go Close, its no-op included, and the GetByID that follows).
THEOREM CloseAnswers == Spec => []CloseAnswersClosed
<1>1. (\A p \in Procs : AnswerOK(p)) => CloseAnswersClosed
  BY DEF AnswerOK, CloseAnswersClosed, Answered
<1> QED
  BY <1>1, AnswersKnown, PTL

\* No answered invoice shows a total its lines do not cover, although the row and the
\* lines are read in two statements (invoice.go GetByID).
THEOREM AnswersCovered == Spec => []AnswerCoversTotal
<1>1. (\A p \in Procs : AnswerOK(p)) => AnswerCoversTotal
  BY DEF AnswerOK, AnswerCoversTotal, Answered
<1> QED
  BY <1>1, AnswersKnown, PTL
=============================================================================
