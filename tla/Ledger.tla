------------------------------- MODULE Ledger -------------------------------
(***************************************************************************)
(* The invoice ledger: the invoice, invoice_line and outbox_event tables   *)
(* and the requests that work on them concurrently.  A process of Procs is *)
(* one running request: a gRPC or HTTP handler, or the consumer of one     *)
(* replica handling a reservation event.  A step is one SQL statement, or  *)
(* the statements of a transaction from the one that may block to COMMIT   *)
(* when nothing in between is visible to, or waits for, anyone else.       *)
(*                                                                         *)
(* Locks are not state of their own: PostgreSQL drops them when the        *)
(* transaction ends, so who holds what follows from pc.                    *)
(***************************************************************************)
EXTENDS Pricing, Sequences

CONSTANTS
    InvoiceIds,         \* the uuids gen_random_uuid() may hand out
    Reservations,
    Keys,               \* idempotency keys
    KeysOf,             \* the keys callers use to open a reservation's invoice
    Procs,
    CheckoutSessions,   \* sessions CloseInvoice is called with
    Cancellations,      \* [confirmedAt, cancelledAt] of reservation.cancelled.v1
    None

ASSUME LedgerAssumption ==
    /\ None \notin InvoiceIds /\ None \notin Reservations
    /\ None \notin Keys /\ None \notin Kinds
    /\ KeysOf \in [Reservations -> SUBSET Keys]
    /\ \A s \in CheckoutSessions :
          s \in Session /\ s.cancelledAt = NoTime /\ s.noShow = FALSE
    /\ \A c \in Cancellations :
          c \in [confirmedAt : Nat, cancelledAt : Nat \ {ZeroTime}]

VARIABLES
    invoice,    \* invoice table: id -> row
    count,      \* invoice_line table: how many rows an invoice has of a kind
    amount,     \*   and the sum of their amount_idr
    outbox,     \* outbox_event rows of the ledger, in commit order
    pc,         \* where each process is
    req,        \* its arguments
    cur,        \* the invoice id it works on
    seen,       \* existingTotal, read by Close under the row lock
    view,       \* the invoice GetByID has assembled so far
    reply       \* what it answers

tables == <<invoice, count, amount, outbox>>
locals == <<pc, req, cur, seen, view, reply>>
vars == <<invoice, count, amount, outbox, pc, req, cur, seen, view, reply>>

-----------------------------------------------------------------------------
(* Rows, events, requests                                                  *)

OneOffKinds == {"CANCELLATION", "NOSHOW"}       \* uq_line_one_off
ParkingKinds == {"HOURLY", "OVERNIGHT"}

Statuses == {"NONE", "OPEN", "CLOSED"}          \* NONE: no such row

InvoiceRow == [status : Statuses, res : Reservations \cup {None},
               key : Keys \cup {None}, total : Nat]

NoRow == [status |-> "NONE", res |-> None, key |-> None, total |-> 0]

EvtInvoiceOpened == "billing.invoice.opened.v1"
EvtInvoiceClosed == "billing.invoice.closed.v1"

\* body tells the three payloads apart; two of them travel as "closed".
OutboxEvent == [inv : InvoiceIds, type : {EvtInvoiceOpened, EvtInvoiceClosed},
                body : {"opened", "closed", "fee"}, lines : LineSets]

Ops == {"none", "open", "close", "fee", "get"}

Request == [op : Ops, res : Reservations \cup {None}, key : Keys \cup {None},
            lines : LineSets, kind : Kinds \cup {None}, fee : Nat]

NoRequest == [op |-> "none", res |-> None, key |-> None,
              lines |-> NoLines, kind |-> None, fee |-> 0]

View == [status : Statuses, total : Nat, lines : [Kinds -> Nat]]
NoView == [status |-> "NONE", total |-> 0, lines |-> [k \in Kinds |-> 0]]

PCs == {"idle", "open_insert", "open_find", "close_find", "close_lock", "close_write",
        "fee_find", "append_insert", "append_commit", "get_row", "get_lines", "done"}

Replies == {"none", "ok", "not_found", "validation", "error"}

Exists(i) == invoice[i].status # "NONE"
SumRows(f) ==
    f["BOOKING"] + f["HOURLY"] + f["OVERNIGHT"] + f["CANCELLATION"] + f["NOSHOW"]

TypeOK ==
    /\ invoice \in [InvoiceIds -> InvoiceRow]
    /\ count \in [InvoiceIds -> [Kinds -> Nat]]
    /\ amount \in [InvoiceIds -> [Kinds -> Nat]]
    /\ outbox \in Seq(OutboxEvent)
    /\ pc \in [Procs -> PCs]
    /\ req \in [Procs -> Request]
    /\ cur \in [Procs -> InvoiceIds \cup {None}]
    /\ seen \in [Procs -> Nat]
    /\ view \in [Procs -> View]
    /\ reply \in [Procs -> Replies]

Init ==
    /\ invoice = [i \in InvoiceIds |-> NoRow]
    /\ count = [i \in InvoiceIds |-> [k \in Kinds |-> 0]]
    /\ amount = [i \in InvoiceIds |-> [k \in Kinds |-> 0]]
    /\ outbox = <<>>
    /\ pc = [p \in Procs |-> "idle"]
    /\ req = [p \in Procs |-> NoRequest]
    /\ cur = [p \in Procs |-> None]
    /\ seen = [p \in Procs |-> 0]
    /\ view = [p \in Procs |-> NoView]
    /\ reply = [p \in Procs |-> "none"]

-----------------------------------------------------------------------------
(* Control of a process                                                    *)

Goto(p, label) == pc' = [pc EXCEPT ![p] = label]

\* The handler returns: only the answer (an invoice, if v is one) outlives it.
Answer(p, r, v) ==
    /\ Goto(p, "done")
    /\ reply' = [reply EXCEPT ![p] = r]
    /\ view' = [view EXCEPT ![p] = v]
    /\ req' = [req EXCEPT ![p] = [NoRequest EXCEPT !.op = req[p].op]]
    /\ cur' = [cur EXCEPT ![p] = None]
    /\ seen' = [seen EXCEPT ![p] = 0]
    /\ UNCHANGED tables

\* Go on with invoice i, having written nothing.
WorkOn(p, i, label) ==
    /\ Goto(p, label)
    /\ cur' = [cur EXCEPT ![p] = i]
    /\ UNCHANGED <<tables, req, seen, view, reply>>

Begin(p, label, r, i) ==
    /\ pc[p] = "idle"
    /\ Goto(p, label)
    /\ req' = [req EXCEPT ![p] = r]
    /\ cur' = [cur EXCEPT ![p] = i]
    /\ UNCHANGED <<tables, seen, view, reply>>

\* Row locks of open transactions: SELECT ... FOR UPDATE (Close) and the
\* FOR KEY SHARE an invoice_line insert takes through its foreign key.
HoldsForUpdate(q, i) == pc[q] = "close_write" /\ cur[q] = i
HoldsKeyShare(q, i) == pc[q] = "append_commit" /\ cur[q] = i

-----------------------------------------------------------------------------
(* Requests                                                                *)

CallOpen(p, r, k) ==
    Begin(p, "open_insert", [NoRequest EXCEPT !.op = "open", !.res = r, !.key = k], None)

\* OpenInvoice without a reservation id or without an Idempotency-Key.
CallOpenBlank(p) ==
    /\ pc[p] = "idle"
    /\ Answer(p, "validation", NoView)

\* gRPC CloseInvoice: the caller names an invoice, known or not.
CallClose(p, i, s) ==
    Begin(p, "close_lock", [NoRequest EXCEPT !.op = "close", !.lines = Apply(s)], i)

\* reservation.checked_out.v1: the caller names a reservation.
CallCheckedOut(p, r, s) ==
    Begin(p, "close_find",
          [NoRequest EXCEPT !.op = "close", !.res = r, !.lines = Apply(s)], None)

CancelSession(c) ==
    [confirmedAt |-> c.confirmedAt, checkedInAt |-> ZeroTime, checkedOutAt |-> ZeroTime,
     cancelledAt |-> c.cancelledAt, noShow |-> FALSE]

CallCancelFee(p, r, c) ==
    Begin(p, "fee_find",
          [NoRequest EXCEPT !.op = "fee", !.res = r, !.kind = "CANCELLATION",
                            !.fee = AmountOf(Apply(CancelSession(c)), "CANCELLATION")],
          None)

CallNoShowFee(p, r) ==
    Begin(p, "fee_find",
          [NoRequest EXCEPT !.op = "fee", !.res = r, !.kind = "NOSHOW",
                            !.fee = NoShowFeeIDR],
          None)

CallGet(p, i) == Begin(p, "get_row", [NoRequest EXCEPT !.op = "get"], i)

-----------------------------------------------------------------------------
(* Open                                                                    *)

\* Mutant: only idempotency_key is unique.
UniqueViolationKeyOnly(r, k) == \E i \in InvoiceIds : Exists(i) /\ invoice[i].key = k

\* Mutant: only reservation_id is unique.
UniqueViolationReservationOnly(r, k) == \E i \in InvoiceIds : Exists(i) /\ invoice[i].res = r

\* Mutant: any error of the INSERT is taken for 23505.
UniqueViolationAssumed(r, k) == TRUE

\* 23505 on invoice.reservation_id or on invoice.idempotency_key.
UniqueViolation(r, k) ==
    \E i \in InvoiceIds : Exists(i) /\ (invoice[i].res = r \/ invoice[i].key = k)

NewRow(r, k) == [status |-> "OPEN", res |-> r, key |-> k, total |-> BookingFeeIDR]

\* INSERT invoice, its booking line and its outbox row, COMMIT.  A concurrent
\* insert of the same reservation or key waits for this transaction, so the
\* whole of it is one step.
OpenInsert(p) ==
    /\ pc[p] = "open_insert"
    /\ ~UniqueViolation(req[p].res, req[p].key)
    /\ \E i \in InvoiceIds :
          /\ ~Exists(i)
          /\ invoice' = [invoice EXCEPT ![i] = NewRow(req[p].res, req[p].key)]
          /\ count' = [count EXCEPT ![i]["BOOKING"] = @ + 1]
          /\ amount' = [amount EXCEPT ![i]["BOOKING"] = @ + BookingFeeIDR]
          /\ outbox' = Append(outbox, [inv |-> i, type |-> EvtInvoiceOpened, body |-> "opened",
                                       lines |-> Line("BOOKING", BookingFeeIDR)])
          /\ cur' = [cur EXCEPT ![p] = i]
    /\ Goto(p, "get_row")
    /\ UNCHANGED <<req, seen, view, reply>>

\* The replay path: roll back and look the existing row up.
OpenReplay(p) ==
    /\ pc[p] = "open_insert"
    /\ UniqueViolation(req[p].res, req[p].key)
    /\ WorkOn(p, None, "open_find")

\* findByIdem: by key only, although the conflict may be on the reservation.
OpenFind(p) ==
    /\ pc[p] = "open_find"
    /\ \/ \E i \in InvoiceIds :
             /\ Exists(i) /\ invoice[i].key = req[p].key
             /\ WorkOn(p, i, "get_row")
       \/ /\ \A i \in InvoiceIds : Exists(i) => invoice[i].key # req[p].key
          /\ Answer(p, "not_found", NoView)

-----------------------------------------------------------------------------
(* Close                                                                   *)

\* GetByReservationID in the checked_out handler: only the id is used.
CloseFind(p) ==
    /\ pc[p] = "close_find"
    /\ \/ \E i \in InvoiceIds :
             /\ Exists(i) /\ invoice[i].res = req[p].res
             /\ WorkOn(p, i, "close_lock")
       \/ /\ \A i \in InvoiceIds : Exists(i) => invoice[i].res # req[p].res
          /\ Answer(p, "not_found", NoView)

\* Mutant: a plain SELECT, without FOR UPDATE.
RowLockIgnored(i) == TRUE

RowLockFree(i) == \A q \in Procs : ~HoldsForUpdate(q, i) /\ ~HoldsKeyShare(q, i)

\* Mutant: FOR UPDATE SKIP LOCKED, taking a busy row for a closed one.
CloseLockSkips(p) ==
    /\ pc[p] = "close_lock"
    /\ IF invoice[cur[p]].status = "OPEN" /\ RowLockFree(cur[p])
       THEN /\ seen' = [seen EXCEPT ![p] = invoice[cur[p]].total]
            /\ Goto(p, "close_write")
       ELSE Goto(p, "get_row") /\ UNCHANGED seen
    /\ UNCHANGED <<tables, req, cur, view, reply>>

\* SELECT status, total_idr ... FOR UPDATE.
CloseLock(p) ==
    /\ pc[p] = "close_lock"
    /\ RowLockFree(cur[p])
    /\ \/ /\ ~Exists(cur[p])
          /\ Answer(p, "not_found", NoView)
       \/ /\ invoice[cur[p]].status = "OPEN"
          /\ seen' = [seen EXCEPT ![p] = invoice[cur[p]].total]
          /\ Goto(p, "close_write")
          /\ UNCHANGED <<tables, req, cur, view, reply>>
       \/ /\ Exists(cur[p]) /\ invoice[cur[p]].status # "OPEN"    \* already closed: no-op
          /\ WorkOn(p, cur[p], "get_row")

\* What CloseInvoice hands to Close: no synthetic 0-IDR cancellation.
DbLines(raw) ==
    [k \in Kinds |-> IF k = "CANCELLATION" /\ raw[k] = 0 THEN NoLine ELSE raw[k]]

\* Mutant: the booking line is not skipped.
NewLinesAll(raw) == DbLines(raw)

\* What Close inserts: the booking row is there since Open.
NewLines(raw) == [k \in Kinds |-> IF k = "BOOKING" THEN NoLine ELSE DbLines(raw)[k]]

\* Mutant: newLineTotal is added to before the booking line is skipped.
newLineTotalOfAll(raw) == SumOfLines(DbLines(raw))

newLineTotal(raw) == SumOfLines(NewLines(raw))

\* INSERT the lines, UPDATE ... WHERE status = 'OPEN', INSERT the outbox row, COMMIT.
CloseWrite(p) ==
    LET i == cur[p]
        new == NewLines(req[p].lines)
    IN  /\ pc[p] = "close_write"
        /\ count' = [count EXCEPT ![i] =
                        [k \in Kinds |-> @[k] + (IF hasKind(new, k) THEN 1 ELSE 0)]]
        /\ amount' = [amount EXCEPT ![i] = [k \in Kinds |-> @[k] + AmountOf(new, k)]]
        /\ invoice' = IF invoice[i].status = "OPEN"
                      THEN [invoice EXCEPT ![i].status = "CLOSED",
                                           ![i].total = seen[p] + newLineTotal(req[p].lines)]
                      ELSE invoice
        /\ outbox' = Append(outbox, [inv |-> i, type |-> EvtInvoiceClosed, body |-> "closed",
                                     lines |-> req[p].lines])
        /\ Goto(p, "get_row")
        /\ UNCHANGED <<req, cur, seen, view, reply>>

-----------------------------------------------------------------------------
(* Cancel and no-show fees                                                 *)

\* Mutant: no test of the status.
FeeFindAnyStatus(p) ==
    /\ pc[p] = "fee_find"
    /\ \E i \in InvoiceIds :
          /\ Exists(i) /\ invoice[i].res = req[p].res
          /\ WorkOn(p, i, "append_insert")

\* getOpenInvoice, then ApplyCancelFee's or ApplyNoShowFee's decision: a free
\* cancellation appends nothing, a no-show fee is appended whatever it is.
FeeFind(p) ==
    /\ pc[p] = "fee_find"
    /\ \/ \E i \in InvoiceIds :
             /\ invoice[i].status = "OPEN" /\ invoice[i].res = req[p].res
             /\ req[p].kind = "CANCELLATION" => req[p].fee # 0
             /\ WorkOn(p, i, "append_insert")
       \/ /\ \/ \A i \in InvoiceIds :
                   Exists(i) /\ invoice[i].res = req[p].res => invoice[i].status # "OPEN"
             \/ req[p].kind = "CANCELLATION" /\ req[p].fee = 0
          /\ Answer(p, "ok", NoView)

\* Mutant: the schema of data/init.sql, which has no uq_line_one_off.
AppendInsertNoIndex(p) ==
    /\ pc[p] = "append_insert"
    /\ \A q \in Procs : ~HoldsForUpdate(q, cur[p])
    /\ WorkOn(p, cur[p], "append_commit")

\* INSERT invoice_line: waits for a transaction that holds the row FOR UPDATE or
\* is inserting the same one-off line; 23505 if that line is there already.
AppendInsert(p) ==
    LET i == cur[p]
    IN  /\ pc[p] = "append_insert"
        /\ \A q \in Procs :
              /\ ~HoldsForUpdate(q, i)
              /\ ~(HoldsKeyShare(q, i) /\ req[q].kind = req[p].kind)
        /\ \/ count[i][req[p].kind] = 0 /\ WorkOn(p, i, "append_commit")
           \/ count[i][req[p].kind] > 0 /\ Answer(p, "error", NoView)

\* Mutant: the fee is subtracted.
FeeSubtracted(total, fee) == total - fee

\* total_idr + $2, evaluated on the row's latest version.
FeeAdded(total, fee) == total + fee

\* Mutant: the UPDATE first waits for every other transaction on the row.
UpdateExclusive(p, i) == \A q \in Procs \ {p} : ~HoldsKeyShare(q, i)

\* The row lock of the UPDATE is compatible with other inserts' FOR KEY SHARE.
UpdateAllowed(p, i) == \A q \in Procs \ {p} : ~HoldsForUpdate(q, i)

\* Mutant: no outbox row, as with a nil event.
feeEventLost(i, kind, fee) == <<>>

feeEvent(i, kind, fee) ==
    <<[inv |-> i, type |-> EvtInvoiceClosed, body |-> "fee", lines |-> Line(kind, fee)]>>

\* UPDATE total_idr = total_idr + fee, INSERT the outbox row, COMMIT: there is no
\* condition on the status.
AppendCommit(p) ==
    LET i == cur[p]
        kind == req[p].kind
    IN  /\ pc[p] = "append_commit"
        /\ UpdateAllowed(p, i)
        /\ count' = [count EXCEPT ![i][kind] = @ + 1]
        /\ amount' = [amount EXCEPT ![i][kind] = @ + req[p].fee]
        /\ invoice' = [invoice EXCEPT ![i].total = FeeAdded(@, req[p].fee)]
        /\ outbox' = outbox \o feeEvent(i, kind, req[p].fee)
        /\ Goto(p, "get_row")
        /\ UNCHANGED <<req, cur, seen, view, reply>>

-----------------------------------------------------------------------------
(* GetByID: two statements outside any transaction                         *)

GetRow(p) ==
    /\ pc[p] = "get_row"
    /\ \/ /\ Exists(cur[p])
          /\ view' = [view EXCEPT ![p].status = invoice[cur[p]].status,
                                  ![p].total = invoice[cur[p]].total]
          /\ Goto(p, "get_lines")
          /\ UNCHANGED <<tables, req, cur, seen, reply>>
       \/ /\ ~Exists(cur[p])
          /\ Answer(p, "not_found", NoView)

\* A fee handler drops the invoice AppendLine returns.
fetchLines(p) ==
    /\ pc[p] = "get_lines"
    /\ Answer(p, "ok", IF req[p].op = "fee" THEN NoView
                       ELSE [view[p] EXCEPT !.lines = amount[cur[p]]])

-----------------------------------------------------------------------------
\* A database error, the 2s handler timeout, a cancelled caller or a crash ends
\* the request: an open transaction is rolled back, a committed one stays.
Fail(p) ==
    /\ pc[p] \notin {"idle", "done"}
    /\ Answer(p, "error", NoView)

Return(p) ==
    /\ pc[p] = "done"
    /\ Goto(p, "idle")
    /\ req' = [req EXCEPT ![p] = NoRequest]
    /\ view' = [view EXCEPT ![p] = NoView]
    /\ reply' = [reply EXCEPT ![p] = "none"]
    /\ UNCHANGED <<tables, cur, seen>>

Call(p) ==
    \/ CallOpenBlank(p)
    \/ \E r \in Reservations :
          \/ \E k \in KeysOf[r] : CallOpen(p, r, k)
          \/ \E s \in CheckoutSessions : CallCheckedOut(p, r, s)
          \/ \E c \in Cancellations : CallCancelFee(p, r, c)
          \/ CallNoShowFee(p, r)
    \/ \E i \in InvoiceIds :
          \/ \E s \in CheckoutSessions : CallClose(p, i, s)
          \/ CallGet(p, i)

\* Statements that may wait for another transaction.
LockStep(p) == CloseLock(p) \/ AppendInsert(p)

\* Statements that never wait.
FreeStep(p) ==
    \/ OpenInsert(p) \/ OpenReplay(p) \/ OpenFind(p)
    \/ CloseFind(p) \/ CloseWrite(p)
    \/ FeeFind(p) \/ AppendCommit(p)
    \/ GetRow(p) \/ fetchLines(p)
    \/ Return(p)

Next == \E p \in Procs : Call(p) \/ LockStep(p) \/ FreeStep(p) \/ Fail(p)

Spec == Init /\ [][Next]_vars

\* A request that can run a statement runs it.  PostgreSQL queues lock waiters, so
\* a lock that is free again and again is granted.  Nothing obliges a call or a
\* failure to happen.
Fairness == \A p \in Procs : WF_vars(FreeStep(p)) /\ SF_vars(LockStep(p))

FairSpec == Spec /\ Fairness

-----------------------------------------------------------------------------
(* What makes the ledger correct                                           *)

\* The stored total of an invoice is the sum of its lines, whatever closes and
\* fees race on it: Close writes an absolute total it computed from a total it read
\* under the row lock, AppendLine adds to the stored one
\* (repository/postgres/invoice.go Close, AppendLine; docs/architecture/erd.md).
TotalIsSumOfLines == \A i \in InvoiceIds : invoice[i].total = SumRows(amount[i])

\* No invoice carries a charge of one kind twice, and at most one of the hourly and
\* the overnight charge, however often opens, closes and fees are retried or raced
\* (Open's and Close's replay paths, uq_line_one_off).
NoDoubleCharge ==
    \A i \in InvoiceIds :
        /\ \A k \in Kinds : count[i][k] <= 1
        /\ count[i]["HOURLY"] + count[i]["OVERNIGHT"] <= 1

\* A reservation never has two invoices, even when gRPC and the consumer open it
\* under different keys (README "One invoice per reservation").
OneInvoicePerReservation ==
    \A i, j \in InvoiceIds :
        Exists(i) /\ Exists(j) /\ invoice[i].res = invoice[j].res => i = j

\* What an event adds to the bill of its invoice.
EventCharge(e) ==
    IF e.body = "closed" THEN SumOfLines(NewLines(e.lines)) ELSE SumOfLines(e.lines)

\* What the events of invoice i add up to.
Announced(i) ==
    LET sum[n \in 0 .. Len(outbox)] ==
            IF n = 0 THEN 0
            ELSE sum[n - 1] + (IF outbox[n].inv = i THEN EventCharge(outbox[n]) ELSE 0)
    IN  sum[Len(outbox)]

\* The outbox tells the whole story of an invoice: its events, each counted once,
\* account for its total, so no charge is committed without its event or announced
\* without being charged (the outbox rows of Open, Close and AppendLine).
EventsAccountForTotal == \A i \in InvoiceIds : invoice[i].total = Announced(i)

Answered(p, op) == pc[p] = "done" /\ reply[p] = "ok" /\ req[p].op = op

\* An answered invoice never shows more total than lines: GetByID reads the row
\* before the lines and outside a transaction, so a fee committed in between makes
\* the lines exceed the total, never the other way round (invoice.go GetByID).
AnswerCoversTotal ==
    \A p \in Procs : \A op \in {"open", "close", "get"} :
        Answered(p, op) => view[p].total <= SumRows(view[p].lines)

\* A CloseInvoice that answers without an error answers a closed invoice, also when
\* another request closed it or holds its row (invoice.go Close).
CloseAnswersClosed ==
    \A p \in Procs : Answered(p, "close") => view[p].status = "CLOSED"

\* Closed, and no fee has passed its check of the status before the close.
Settled(i) ==
    /\ invoice[i].status = "CLOSED"
    /\ \A p \in Procs : cur[p] = i => pc[p] \notin {"append_insert", "append_commit"}

\* A settled invoice never changes again: once the fees that saw it OPEN are through,
\* no retry or replay touches it (Close's no-op, getOpenInvoice).
SettledIsFinal ==
    [][\A i \in InvoiceIds : Settled(i) =>
          Settled(i)' /\ invoice'[i] = invoice[i] /\ amount'[i] = amount[i]]_vars

\* Every request ends: closes and fees that wait for each other's row lock never
\* block each other for good.
RequestsFinish == \A p \in Procs : pc[p] # "idle" ~> pc[p] = "idle"

-----------------------------------------------------------------------------
(* The ledger implements an account per reservation                        *)

\* The account of a reservation is its invoice.
AccountOf(i) ==
    [status |-> invoice[i].status,
     charges |-> [k \in Kinds |-> IF count[i][k] > 0 THEN amount[i][k] ELSE NoLine],
     balance |-> invoice[i].total]

accountBar ==
    [r \in Reservations |->
        IF \E i \in InvoiceIds : Exists(i) /\ invoice[i].res = r
        THEN AccountOf(CHOOSE i \in InvoiceIds : Exists(i) /\ invoice[i].res = r)
        ELSE [status |-> "NONE", charges |-> NoLines, balance |-> 0]]

Abstract == INSTANCE Account WITH account <- accountBar

\* Whatever the requests race, retry or fail in, each reservation's invoice behaves as
\* an account that is opened once, closed once with one parking charge, and charged
\* each one-off fee once, its balance moving with the charge in the same step.
ImplementsAccount == Abstract!ASpec

-----------------------------------------------------------------------------
(* Why it holds: the inductive invariant                                   *)

\* A request past its lookup works on an existing invoice, on the lines of a
\* check-out or on a one-off kind.
ControlOK ==
    \A p \in Procs :
        /\ pc[p] \in {"close_lock", "close_write", "append_insert", "append_commit",
                       "get_row", "get_lines"} => cur[p] \in InvoiceIds
        /\ pc[p] \in {"close_write", "append_insert", "append_commit"} => Exists(cur[p])
        /\ pc[p] \in {"close_find", "close_lock", "close_write"} =>
              /\ \A k \in OneOffKinds : ~hasKind(req[p].lines, k)
              /\ ~(hasKind(req[p].lines, "HOURLY") /\ hasKind(req[p].lines, "OVERNIGHT"))
        /\ pc[p] \in {"fee_find", "append_insert", "append_commit"} =>
              req[p].kind \in OneOffKinds

\* Rows that are not there have no lines; an open invoice is not charged for parking.
RowsOK ==
    \A i \in InvoiceIds :
        /\ ~Exists(i) => invoice[i].total = 0 /\ \A k \in Kinds : count[i][k] = 0
        /\ invoice[i].status # "CLOSED" =>
              count[i]["HOURLY"] = 0 /\ count[i]["OVERNIGHT"] = 0

\* The total Close has read is still the stored one, and the invoice still OPEN, when
\* Close writes: no fee and no other close got in between (SELECT ... FOR UPDATE
\* against the FOR KEY SHARE of AppendLine's insert).
SnapshotIsCurrent ==
    \A p \in Procs : pc[p] = "close_write" =>
        invoice[cur[p]].status = "OPEN" /\ seen[p] = invoice[cur[p]].total

\* Who may hold a row together: nobody beside a close; fees of different kinds, each
\* not charged yet.
LocksOK ==
    /\ \A p, q \in Procs :
          /\ pc[p] = "close_write" /\ p # q /\ cur[p] = cur[q]
             => pc[q] \notin {"close_write", "append_commit"}
          /\ pc[p] = "append_commit" /\ pc[q] = "append_commit" /\ p # q /\ cur[p] = cur[q]
             => req[p].kind # req[q].kind
    /\ \A p \in Procs : pc[p] = "append_commit" => count[cur[p]][req[p].kind] = 0

IndInv ==
    /\ TypeOK /\ ControlOK /\ RowsOK /\ LocksOK
    /\ SnapshotIsCurrent /\ TotalIsSumOfLines /\ NoDoubleCharge

-----------------------------------------------------------------------------
(* What the repository's documents and comments say, and the code does not *)

\* README "Invoice immutable after CLOSED"; repository/type.go "AppendLine adds a
\* single one-off line to an OPEN invoice": a closed invoice's total never changes.
ClosedIsImmutable ==
    [][\A i \in InvoiceIds : invoice[i].status = "CLOSED" => invoice'[i] = invoice[i]]_vars
=============================================================================
