------------------------------ MODULE Payment ------------------------------
(***************************************************************************)
(* Payment requests and the gateway's webhook.  A process of Procs is one  *)
(* running CreatePaymentRequest or webhook call; a step is one statement.  *)
(*                                                                         *)
(* The gateway is outside the repository: it takes each payment through a  *)
(* life cycle, sends a notification at every move, repeats one until it is *)
(* answered 200, sometimes even then, and keeps no order.  This service    *)
(* never tells it a payment_ref: it learns of a payment from whoever got   *)
(* the answer of CreatePaymentRequest, under the payment_ref in that       *)
(* answer, or through the intent behind the QRIS URL, under a reference of *)
(* its own, which CreatePaymentRequest drops.  Requests without a          *)
(* reservation, amount or method, and other HTTP methods than POST, are    *)
(* refused before anything happens and are left out; so are notifications  *)
(* that do not come from the gateway.                                      *)
(***************************************************************************)
EXTENDS Integers, FiniteSets

CONSTANTS
    Refs,           \* bound: the payment_refs of requests that may be created
    Procs,
    MaxFaults,      \* bound: failed calls
    MaxRepeats,     \* bound: notifications sent again although answered 200
    None

ASSUME PaymentAssumption ==
    /\ MaxFaults \in Nat /\ MaxRepeats \in Nat /\ None \notin Refs

VARIABLES
    opened,     \* the reservation has an invoice
    row,        \* payment_requests: ref -> method, status, and whether it has a QRIS URL
    events,     \* outbox_event rows of payments
    nextId,     \* their sequence
    gw,         \* the gateway's state of each payment
    order,      \* what the gateway calls it, and whether it signs its notifications
    sent,       \* history: every notification of the gateway
    inFlight,   \* the ones it still sends
    pc,         \* where each call is
    request,    \* method and QRIS URL of a CreatePaymentRequest
    notif,      \* the notification of a webhook call
    eventId,    \* the id of the event its transaction has inserted
    faults, repeats

vars == <<opened, row, events, nextId, gw, order, sent, inFlight,
          pc, request, notif, eventId, faults, repeats>>
tables == <<opened, row, events, nextId>>
gateway == <<gw, order, sent, inFlight>>
calls == <<pc, request, notif, eventId>>
bounds == <<faults, repeats>>

-----------------------------------------------------------------------------
Methods == {"QRIS", "CC"}
Statuses == {"PENDING", "SUCCESS", "FAILED"}     \* EXPIRED is never written
NoRow == [method |-> None, url |-> FALSE, status |-> "NONE"]
NoRequest == [method |-> None, url |-> FALSE]
Exists(ref) == row[ref].status # "NONE"

EvtPaymentSuccess == "billing.payment.success.v1"
EvtPaymentFailed == "billing.payment.failed.v1"

Notification == [ref : Refs \cup {None},
                 txn : {"capture", "settlement", "pending", "deny", "cancel", "expire", "failure", "refund"},
                 fraud : {"", "accept", "challenge"},
                 signed : BOOLEAN]

NoNotification == [ref |-> None, txn |-> "pending", fraud |-> "", signed |-> FALSE]

Order == [name : Refs \cup {None}, signed : BOOLEAN]
NoOrder == [name |-> None, signed |-> FALSE]

\* The gateway's moves: from, to, transaction_status and fraud_status.
Moves == [QRIS |-> {<<"new", "pending", "pending", "">>,
                    <<"new", "failed", "failure", "">>,
                    <<"pending", "paid", "settlement", "">>,
                    <<"pending", "failed", "expire", "">>,
                    <<"paid", "refunded", "refund", "">>},
          CC   |-> {<<"new", "challenged", "capture", "challenge">>,
                    <<"new", "failed", "deny", "">>,
                    <<"challenged", "paid", "capture", "accept">>,
                    <<"challenged", "failed", "cancel", "">>}]

GatewayStates == {"unknown", "new", "pending", "challenged", "paid", "failed", "refunded"}

Places == {"idle", "insert", "body", "find", "update", "event", "commit", "read"}

TypeOK ==
    /\ opened \in BOOLEAN
    /\ row \in [Refs -> [method : Methods \cup {None}, url : BOOLEAN,
                         status : Statuses \cup {"NONE"}]]
    /\ events \subseteq [id : Nat, ref : Refs, type : {EvtPaymentSuccess, EvtPaymentFailed}]
    /\ nextId \in Nat
    /\ gw \in [Refs -> GatewayStates] /\ order \in [Refs -> Order]
    /\ sent \subseteq Notification /\ inFlight \subseteq sent
    /\ pc \in [Procs -> Places]
    /\ request \in [Procs -> [method : Methods \cup {None}, url : BOOLEAN]]
    /\ notif \in [Procs -> Notification] /\ eventId \in [Procs -> Nat]
    /\ faults \in 0 .. MaxFaults /\ repeats \in 0 .. MaxRepeats

Init ==
    /\ opened = FALSE
    /\ row = [ref \in Refs |-> NoRow]
    /\ events = {} /\ nextId = 1
    /\ gw = [ref \in Refs |-> "unknown"] /\ order = [ref \in Refs |-> NoOrder]
    /\ sent = {} /\ inFlight = {}
    /\ pc = [p \in Procs |-> "idle"]
    /\ request = [p \in Procs |-> NoRequest]
    /\ notif = [p \in Procs |-> NoNotification] /\ eventId = [p \in Procs |-> 0]
    /\ faults = 0 /\ repeats = 0

Step(p, from, to) == pc[p] = from /\ pc' = [pc EXCEPT ![p] = to]

\* A call ends and its locals with it.
End(p, from) ==
    /\ Step(p, from, "idle")
    /\ request' = [request EXCEPT ![p] = NoRequest]
    /\ notif' = [notif EXCEPT ![p] = NoNotification]
    /\ eventId' = [eventId EXCEPT ![p] = 0]

-----------------------------------------------------------------------------
(* CreatePaymentRequest                                                    *)

\* The ledger opens the reservation's invoice.
InvoiceOpened ==
    /\ ~opened
    /\ opened' = TRUE
    /\ UNCHANGED <<row, events, nextId, gateway, calls, bounds>>

\* GetByReservationID finds the invoice; for QRIS the payment service is asked for an
\* intent, with the invoice's id, and its failure only leaves the URL empty.
CreatePaymentRequest(p, m, url) ==
    /\ opened
    /\ url => m = "QRIS"
    /\ Cardinality({q \in Procs : pc[q] = "insert"})
          < Cardinality({ref \in Refs : ~Exists(ref)})        \* bound: a ref is left
    /\ Step(p, "idle", "insert")
    /\ request' = [request EXCEPT ![p] = [method |-> m, url |-> url]]
    /\ UNCHANGED <<tables, gateway, notif, eventId, bounds>>

\* A fresh uuid gives a fresh payment_ref: nothing ties a reservation to one request.
Create(p) ==
    /\ End(p, "insert")
    /\ \E ref \in Refs :
          /\ ~Exists(ref)
          /\ row' = [row EXCEPT ![ref] = [method |-> request[p].method, url |-> request[p].url,
                                         status |-> "PENDING"]]
    /\ UNCHANGED <<opened, events, nextId, gateway, bounds>>

-----------------------------------------------------------------------------
(* HandlePaymentNotification                                               *)

Accepted(n) == n.fraud \in {"accept", ""}

\* Mutant: fraud_status is not looked at.
newStatusAnyFraud(n) ==
    CASE n.txn \in {"capture", "settlement"} -> "SUCCESS"
      [] n.txn \in {"deny", "cancel", "expire", "failure"} -> "FAILED"
      [] OTHER -> ""

\* Mutant: a pending notification sets the status too.
newStatusPending(n) ==
    CASE n.txn \in {"capture", "settlement"} -> IF Accepted(n) THEN "SUCCESS" ELSE "FAILED"
      [] n.txn \in {"deny", "cancel", "expire", "failure"} -> "FAILED"
      [] n.txn = "pending" -> "PENDING"
      [] OTHER -> ""

\* The status a notification asks for; none for a pending or unknown one.
newStatus(n) ==
    CASE n.txn \in {"capture", "settlement"} -> IF Accepted(n) THEN "SUCCESS" ELSE "FAILED"
      [] n.txn \in {"deny", "cancel", "expire", "failure"} -> "FAILED"
      [] OTHER -> ""

eventType(n) == IF newStatus(n) = "SUCCESS" THEN EvtPaymentSuccess ELSE EvtPaymentFailed

\* Mutant: the early returns of the switch are missing.
IgnoredNever(n) == FALSE

Ignored(n) == newStatus(n) = ""

Webhook(p, n) ==
    /\ n \in inFlight
    /\ Step(p, "idle", "body")
    /\ notif' = [notif EXCEPT ![p] = n]
    /\ UNCHANGED <<tables, gateway, request, eventId, bounds>>

\* A notification without signature_key is not checked.  One that has it is compared with
\* the HMAC, under the key "" of main.go, of the body that holds it: they never agree.
verifySignature(n) == ~n.signed

\* 401, or on to HandlePaymentNotification.
Verify(p) ==
    /\ IF verifySignature(notif[p])
       THEN Step(p, "body", "find") /\ UNCHANGED <<request, notif, eventId>>
       ELSE End(p, "body")
    /\ UNCHANGED <<tables, gateway, bounds>>

\* 200: the gateway stops sending the notification.
Acknowledge(n) == inFlight' = inFlight \ {n} /\ UNCHANGED <<gw, order, sent>>

\* GetByPaymentRef, then the switch: an unknown order is an error (500), a
\* notification without consequence is answered at once.
GetByPaymentRef(p) ==
    LET n == notif[p]
    IN  /\ \/ /\ n.ref \in Refs /\ ~Ignored(n)
              /\ Step(p, "find", "update") /\ UNCHANGED <<gateway, request, notif, eventId>>
           \/ /\ n.ref \in Refs /\ Ignored(n)
              /\ End(p, "find") /\ Acknowledge(n)
           \/ /\ n.ref \notin Refs
              /\ End(p, "find") /\ UNCHANGED gateway
        /\ UNCHANGED <<tables, bounds>>

\* The calls whose transaction has updated the row and not ended.
Holders(ref) == {q \in Procs : pc[q] \in {"event", "commit"} /\ notif[q].ref = ref}

\* Mutant: the UPDATE runs on the pool and not in the transaction.
UpdateOutsideTx(p) ==
    /\ Step(p, "update", "event")
    /\ row' = [row EXCEPT ![notif[p].ref].status = newStatus(notif[p])]
    /\ UNCHANGED <<opened, events, nextId, gateway, request, notif, eventId, bounds>>

\* UPDATE ... WHERE payment_ref = $1 locks the row until the transaction ends; what it
\* writes is seen at COMMIT.  There is no condition on the old status.
UpdateStatusByPaymentRef(p) ==
    /\ Holders(notif[p].ref) = {}
    /\ Step(p, "update", "event")
    /\ UNCHANGED <<tables, gateway, request, notif, eventId, bounds>>

\* insertOutboxSQL takes the event's id from the sequence.
InsertEvent(p) ==
    /\ Step(p, "event", "commit")
    /\ eventId' = [eventId EXCEPT ![p] = nextId]
    /\ nextId' = nextId + 1
    /\ UNCHANGED <<opened, row, events, gateway, request, notif, bounds>>

Commit(p) ==
    LET n == notif[p]
    IN  /\ Step(p, "commit", "read")
        /\ row' = [row EXCEPT ![n.ref].status = newStatus(n)]
        /\ events' = events \cup {[id |-> eventId[p], ref |-> n.ref, type |-> eventType(n)]}
        /\ UNCHANGED <<opened, nextId, gateway, request, notif, eventId, bounds>>

\* GetByID; its result is dropped, the webhook answers 200.
GetByID(p) ==
    /\ End(p, "read")
    /\ Acknowledge(notif[p])
    /\ UNCHANGED <<tables, bounds>>

\* Mutant: the webhook answers 200 whatever the usecase returns.
FailAcknowledged(p) ==
    /\ faults < MaxFaults /\ pc[p] # "idle"
    /\ End(p, pc[p])
    /\ faults' = faults + 1
    /\ Acknowledge(notif[p])
    /\ UNCHANGED <<tables, repeats>>

\* A database error, a timeout or a crash, before or after the commit, or a body that the
\* one Read of readBody does not get whole and that does not parse: the transaction is
\* rolled back and the gateway gets no 200.
Fail(p) ==
    /\ faults < MaxFaults /\ pc[p] # "idle"
    /\ End(p, pc[p])
    /\ faults' = faults + 1
    /\ UNCHANGED <<tables, gateway, repeats>>

-----------------------------------------------------------------------------
(* The gateway                                                             *)

Send(n) == sent' = sent \cup {n} /\ inFlight' = inFlight \cup {n}

\* The payer pays through the payment_ref of the answer, or at the QRIS URL.
GatewayLearns(ref, o) ==
    /\ Exists(ref) /\ gw[ref] = "unknown"
    /\ o.name = ref \/ (o.name = None /\ row[ref].url)
    /\ gw' = [gw EXCEPT ![ref] = "new"]
    /\ order' = [order EXCEPT ![ref] = o]
    /\ UNCHANGED <<tables, sent, inFlight, calls, bounds>>

GatewayMoves(ref, move) ==
    /\ Exists(ref) /\ move \in Moves[row[ref].method]
    /\ gw[ref] = move[1]
    /\ gw' = [gw EXCEPT ![ref] = move[2]]
    /\ Send([ref |-> order[ref].name, txn |-> move[3], fraud |-> move[4],
             signed |-> order[ref].signed])
    /\ UNCHANGED <<tables, order, calls, bounds>>

GatewayRepeats(n) ==
    /\ repeats < MaxRepeats /\ repeats' = repeats + 1
    /\ n \in sent \ inFlight
    /\ Send(n)
    /\ UNCHANGED <<tables, gw, order, calls, faults>>

-----------------------------------------------------------------------------
Work(p) ==
    \/ Create(p) \/ Verify(p) \/ GetByPaymentRef(p) \/ UpdateStatusByPaymentRef(p)
    \/ InsertEvent(p) \/ Commit(p) \/ GetByID(p)

Next ==
    \/ InvoiceOpened
    \/ \E p \in Procs :
          \/ \E m \in Methods, url \in BOOLEAN : CreatePaymentRequest(p, m, url)
          \/ \E n \in inFlight : Webhook(p, n)
          \/ Work(p) \/ Fail(p)
    \/ \E ref \in Refs, o \in Order : GatewayLearns(ref, o)
    \/ \E ref \in Refs, m \in Methods : \E move \in Moves[m] : GatewayMoves(ref, move)
    \/ \E n \in sent : GatewayRepeats(n)

Spec == Init /\ [][Next]_vars

\* A call that can go on does, a call that waits for a row gets it in turn, and the
\* gateway repeats what is not answered until a call handles it.  Nothing obliges the
\* gateway to move or to repeat itself.
Fairness ==
    /\ \A p \in Procs : WF_vars(Work(p)) /\ SF_vars(UpdateStatusByPaymentRef(p))
    /\ \A ref \in Refs \cup {None} :
          SF_vars(\E p \in Procs, n \in inFlight : n.ref = ref /\ Webhook(p, n))

FairSpec == Spec /\ Fairness

-----------------------------------------------------------------------------
(* What makes payments correct                                             *)

Paid(ref) == gw[ref] \in {"paid", "refunded"}

\* A request is SUCCESS only when the gateway has taken the money, and a QRIS request
\* FAILED only when it has not and will not, in whatever order, and however often,
\* notifications are handled (HandlePaymentNotification's switch).
StatusFollowsGateway ==
    \A ref \in Refs :
        /\ row[ref].status = "SUCCESS" => Paid(ref)
        /\ row[ref].status = "FAILED" /\ row[ref].method = "QRIS" => gw[ref] = "failed"

\* The event of a request with the greatest id, the one the outbox sends last, tells its
\* status, and a request without events is PENDING: concurrent notifications cannot leave
\* the consumers of the events with another outcome than the table (the UPDATE of
\* UpdateStatusByPaymentRef holds the row while the event takes its id).
LastEventIsStatus ==
    \A ref \in Refs :
        LET own == {e \in events : e.ref = ref}
        IN  Exists(ref) =>
              IF own = {} THEN row[ref].status = "PENDING"
              ELSE \E e \in own :
                      /\ \A f \in own : f.id <= e.id
                      /\ e.type = IF row[ref].status = "SUCCESS"
                                  THEN EvtPaymentSuccess ELSE EvtPaymentFailed

\* The outcome of a QRIS payment never changes again: late and repeated notifications
\* of its life cycle, the pending one included, leave it alone.
QrisOutcomeIsFinal ==
    [][\A ref \in Refs :
          row[ref].method = "QRIS" /\ row[ref].status \in {"SUCCESS", "FAILED"}
          => row'[ref] = row[ref]]_vars

Recorded(ref) == row[ref].status = "SUCCESS"

\* A QRIS payment that the gateway has taken under its payment_ref, and notifies without a
\* signature, is recorded, through failed calls that committed or did not: every
\* notification is repeated until it is answered.  Two kinds are never recorded, and are
\* excepted: a signed notification gets 401 each time, and one under the reference of the
\* intent, which CreatePaymentRequest drops, gets 500.  (The notifications of a card payment
\* may end in the wrong order: SuccessIsTerminal.)
PaymentsRecorded ==
    \A ref \in Refs :
        /\ row[ref].method = "QRIS" /\ Paid(ref)
        /\ order[ref] = [name |-> ref, signed |-> FALSE]
        ~> Recorded(ref)

-----------------------------------------------------------------------------
\* repository/type.go says of UpdateStatusByPaymentRef that it "updates terminal status": a
\* request that is SUCCESS stays so.
SuccessIsTerminal ==
    [][\A ref \in Refs : row[ref].status = "SUCCESS" => row'[ref] = row[ref]]_vars
=============================================================================
