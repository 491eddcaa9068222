------------------------------ MODULE Consumer ------------------------------
(***************************************************************************)
(* The reservation events on their way to the ledger: the durable queue,   *)
(* the subscriber of each replica and the handler it calls, in front of    *)
(* the tables and statements of Ledger.  A consumer handles one delivery   *)
(* at a time, so it is one process of Ledger.  The other processes are the *)
(* gRPC calls that open and close the same invoices beside it.             *)
(***************************************************************************)
EXTENDS Ledger, FiniteSets

CONSTANTS
    Consumers,      \* one per replica
    Messages,
    Scenarios,      \* what the messages may carry
    Parties,        \* the replicas and the gRPC callers there are in each scenario
    OwnKey,         \* the reservation id as idempotency key
    Prefetch,       \* unacknowledged deliveries a subscriber may hold
    MaxFaults       \* bound on failing statements and lost connections

EvtReservationCreated == "reservation.created.v1"
EvtReservationCancelled == "reservation.cancelled.v1"
EvtReservationExpired == "reservation.expired.v1"
EvtReservationCheckedOut == "reservation.checked_out.v1"

RoutingKeys == {EvtReservationCreated, EvtReservationCancelled,
                EvtReservationExpired, EvtReservationCheckedOut}

\* body: well-formed, not JSON, without a reservation_id, or with one that is no
\* uuid.  cancels: the instants a cancelled event may be priced with, several when
\* it has no cancelled_at and the handler takes the time of the delivery.
Event == [type : RoutingKeys, body : {"good", "garbled", "blank", "malformed"},
          res : Reservations, stay : CheckoutSessions, cancels : SUBSET Cancellations]

ASSUME ConsumerAssumption ==
    /\ Consumers \subseteq Procs
    /\ Scenarios \subseteq [Messages -> Event]
    /\ Parties \in [Scenarios -> SUBSET Procs]
    /\ OwnKey \in [Reservations -> Keys]
    /\ \A r, s \in Reservations : OwnKey[r] = OwnKey[s] => r = s
    \* A gRPC caller never takes another reservation's id for its key.
    /\ \A r, s \in Reservations : OwnKey[r] \in KeysOf[s] => r = s
    /\ Prefetch \in Nat \ {0} /\ MaxFaults \in Nat

VARIABLES
    content,    \* what each message carries
    log,        \* the messages of the queue that are not acknowledged, in order
    opened,     \* fee events sent when the invoice of their reservation was there
    ready,      \* waiting in the queue
    buffer,     \* delivered to a subscriber and not settled; the first is handled
    acked,      \* acknowledged, gone from the queue
    up,         \* whether a replica's subscription is alive
    faults

broker == <<content, log, opened, ready, buffer, acked, up, faults>>
cvars == <<vars, broker>>

Elements(s) == {s[n] : n \in 1..Len(s)}

ConsumerTypeOK ==
    /\ TypeOK
    /\ content \in Scenarios
    /\ log \in Seq(Messages)
    /\ opened \subseteq Messages
    /\ ready \subseteq Messages
    /\ buffer \in [Consumers -> Seq(Messages)]
    /\ \A c \in Consumers : Len(buffer[c]) <= Prefetch
    /\ acked \subseteq Messages
    /\ up \in [Consumers -> BOOLEAN]
    /\ faults \in 0..MaxFaults

ConsumerInit ==
    /\ Init
    /\ content \in Scenarios
    /\ log = <<>> /\ opened = {} /\ ready = {} /\ acked = {}
    /\ buffer = [c \in Consumers |-> <<>>]
    /\ up = [c \in Consumers |-> c \in Parties[content]]
    /\ faults = 0

Good(m, type) == content[m].type = type /\ content[m].body = "good"

FeeKind(m) ==
    IF content[m].type = EvtReservationExpired THEN "NOSHOW" ELSE "CANCELLATION"

\* A fee event whose fee is never waived.
Charges(m) ==
    \/ Good(m, EvtReservationExpired)
    \/ /\ Good(m, EvtReservationCancelled)
       /\ \A x \in content[m].cancels :
             AmountOf(Apply(CancelSession(x)), "CANCELLATION") > 0

-----------------------------------------------------------------------------
(* The broker                                                              *)

Invoiced(r) == \E i \in InvoiceIds : Exists(i) /\ invoice[i].res = r

\* reservation-service publishes its events in any order; an event published twice is
\* two messages with the same content.
PublishEvent(m) ==
    /\ m \notin Elements(log) \cup acked
    /\ log' = Append(log, m)
    /\ opened' = IF Charges(m) /\ Invoiced(content[m].res) THEN opened \cup {m} ELSE opened
    /\ ready' = ready \cup {m}
    /\ UNCHANGED <<vars, content, buffer, acked, up, faults>>

\* A requeued message goes back to its place, so the queue is always in log order.
AtHead(m) ==
    /\ m \in ready
    /\ \A n \in ready :
          \E a, b \in 1..Len(log) : log[a] = m /\ log[b] = n /\ a <= b

\* Mutant: one delivery more.
HasRoomAtLimit(c) == Len(buffer[c]) <= Prefetch

\* Mutant: one delivery less.
HasRoomButOne(c) == Len(buffer[c]) < Prefetch - 1

\* ch.Qos(10, 0, false), of which Prefetch is the 10.
HasRoom(c) == Len(buffer[c]) < Prefetch

Deliver(c, m) ==
    /\ up[c]
    /\ HasRoom(c)
    /\ AtHead(m)
    /\ ready' = ready \ {m}
    /\ buffer' = [buffer EXCEPT ![c] = Append(@, m)]
    /\ UNCHANGED <<vars, content, log, opened, acked, up, faults>>

-----------------------------------------------------------------------------
(* Consume and Handle                                                      *)

\* What Handle decides before the first statement, and the calls it makes.
Handle(c, e) ==
    \/ /\ \/ e.body = "garbled"
          \/ e.body = "blank" /\ e.type = EvtReservationCreated
       /\ Answer(c, "ok", NoView)
    \/ /\ \/ e.body = "malformed"                   \* PostgreSQL refuses the uuid
          \/ e.body = "blank" /\ e.type # EvtReservationCreated
       /\ Answer(c, "error", NoView)
    \/ /\ e.body = "good"
       /\ \/ e.type = EvtReservationCreated /\ CallOpen(c, e.res, OwnKey[e.res])
          \/ /\ e.type = EvtReservationCancelled
             /\ \E x \in e.cancels : CallCancelFee(c, e.res, x)
          \/ e.type = EvtReservationExpired /\ CallNoShowFee(c, e.res)
          \/ e.type = EvtReservationCheckedOut /\ CallCheckedOut(c, e.res, e.stay)

Start(c) ==
    /\ up[c] /\ buffer[c] # <<>> /\ pc[c] = "idle"
    /\ Handle(c, content[Head(buffer[c])])
    /\ UNCHANGED broker

\* The statements of the handler.
Statement(c) ==
    /\ pc[c] # "done"
    /\ FreeStep(c)
    /\ UNCHANGED broker

Wait(c) == LockStep(c) /\ UNCHANGED broker

\* d.Ack(false): the message leaves its place in the queue.
Ack(m) ==
    /\ acked' = acked \cup {m}
    /\ \E a \in 1..Len(log) :
          log[a] = m /\ log' = SubSeq(log, 1, a - 1) \o SubSeq(log, a + 1, Len(log))
    /\ UNCHANGED ready

\* d.Nack(false, true): back into the queue at once.
Nack(m) ==
    /\ ready' = ready \cup {m}
    /\ UNCHANGED <<log, acked>>

\* Mutant: the handler's error is not looked at.
SettlementIgnoringErrors(c, m) == Ack(m)

\* Mutant: d.Nack(false, false).
SettlementNoRequeue(c, m) ==
    IF reply[c] = "ok" THEN Ack(m) ELSE UNCHANGED <<log, acked, ready>>

\* By the handler's error.
Settlement(c, m) ==
    \/ reply[c] = "ok" /\ Ack(m)
    \/ reply[c] # "ok" /\ Nack(m)

\* The handler has returned.  On a closed channel Ack and Nack fail unnoticed.
Settle(c) ==
    /\ Return(c)
    /\ IF up[c]
       THEN /\ Settlement(c, Head(buffer[c]))
            /\ buffer' = [buffer EXCEPT ![c] = Tail(@)]
       ELSE UNCHANGED <<log, ready, acked, buffer>>
    /\ UNCHANGED <<content, opened, up, faults>>

-----------------------------------------------------------------------------
(* Faults                                                                  *)

StatementFails(c) ==
    /\ faults < MaxFaults
    /\ faults' = faults + 1
    /\ Fail(c)
    /\ UNCHANGED <<content, log, opened, ready, buffer, acked, up>>

\* The connection is gone: the broker takes back what was not settled, Consume
\* returns "delivery channel closed" after the handler it is in, and main only logs
\* it.  Nothing subscribes again while the process lives.
DropConnection(c) ==
    /\ up[c]
    /\ faults < MaxFaults
    /\ faults' = faults + 1
    /\ up' = [up EXCEPT ![c] = FALSE]
    /\ ready' = ready \cup Elements(buffer[c])
    /\ buffer' = [buffer EXCEPT ![c] = <<>>]
    /\ UNCHANGED <<vars, content, log, opened, acked>>

\* The process is replaced; a handler still running dies with it.
Restart(c) ==
    /\ ~up[c] /\ c \in Parties[content]
    /\ up' = [up EXCEPT ![c] = TRUE]
    /\ pc' = [pc EXCEPT ![c] = "idle"]
    /\ req' = [req EXCEPT ![c] = NoRequest]
    /\ cur' = [cur EXCEPT ![c] = None]
    /\ seen' = [seen EXCEPT ![c] = 0]
    /\ view' = [view EXCEPT ![c] = NoView]
    /\ reply' = [reply EXCEPT ![c] = "none"]
    /\ UNCHANGED <<tables, content, log, opened, ready, buffer, acked, faults>>

Step(c) == Start(c) \/ Statement(c) \/ Settle(c)

-----------------------------------------------------------------------------
(* gRPC calls beside the consumers                                         *)

Callers == Procs \ Consumers

\* OpenInvoice under a key of the caller's choice, and CloseInvoice.  GetInvoice and
\* refused calls write nothing.
GrpcCall(p) ==
    /\ p \in Parties[content]
    /\ \/ \E r \in Reservations : \E k \in KeysOf[r] : CallOpen(p, r, k)
       \/ \E i \in InvoiceIds, s \in CheckoutSessions : CallClose(p, i, s)
    /\ UNCHANGED broker

GrpcStep(p) == FreeStep(p) /\ UNCHANGED broker

GrpcFails(p) == Fail(p) /\ UNCHANGED broker

ConsumerNext ==
    \/ \E m \in Messages : PublishEvent(m)
    \/ \E c \in Consumers :
          \/ \E m \in Messages : Deliver(c, m)
          \/ Step(c) \/ Wait(c)
          \/ StatementFails(c) \/ DropConnection(c) \/ Restart(c)
    \/ \E p \in Callers : GrpcCall(p) \/ GrpcStep(p) \/ Wait(p) \/ GrpcFails(p)

ConsumerSpec == ConsumerInit /\ [][ConsumerNext]_cvars

\* The loop of Consume runs, locks are granted as in Ledger, and the broker pushes:
\* a message that is at the head again and again while some subscriber has room is
\* delivered.  No event has to be published, no call made, no replica restarted.
ConsumerFairness ==
    /\ \A c \in Consumers : WF_cvars(Step(c))
    /\ \A p \in Callers : WF_cvars(GrpcStep(p))
    /\ \A p \in Procs : SF_cvars(Wait(p))
    /\ \A m \in Messages : SF_cvars(\E c \in Consumers : Deliver(c, m))

FairConsumerSpec == ConsumerSpec /\ ConsumerFairness

-----------------------------------------------------------------------------
(* What a subscriber promises                                              *)

\* A message the queue has received is in exactly one place: waiting, held by one
\* subscriber, or acknowledged.  Neither a failing handler nor a lost connection loses
\* it or leaves it with two replicas (subscriber.go Consume).
NoEventLost ==
    \A m \in Messages :
        LET places == {c \in Consumers : m \in Elements(buffer[c])}
        IN  /\ m \in ready => places = {} /\ m \notin acked
            /\ m \in acked => places = {}
            /\ \A c, d \in places : c = d
            /\ m \in Elements(log) => m \in ready \cup acked \/ places # {}

\* A created event's invoice is there, a checked_out event's is CLOSED, and a fee event
\* that was sent when the invoice was there is charged on it unless it had been closed.
Applied(m) == LET r == content[m].res IN
    /\ Good(m, EvtReservationCreated) => Invoiced(r)
    /\ Good(m, EvtReservationCheckedOut) =>
          \E i \in InvoiceIds : invoice[i].res = r /\ invoice[i].status = "CLOSED"
    /\ Charges(m) /\ m \in opened =>
          \E i \in InvoiceIds :
             /\ Exists(i) /\ invoice[i].res = r
             /\ invoice[i].status = "CLOSED" \/ count[i][FeeKind(m)] > 0

\* An acknowledged event has had its effect: the acknowledgement comes after the COMMIT,
\* and every error before it keeps the message (reservation.go Handle, subscriber.go
\* Consume).
AckedIsApplied == \A m \in acked : Applied(m)

\* An event the handler answers with an error every time, as things stand: no usable
\* reservation id, an invoice that gRPC opened under another key (findByIdem looks for the
\* reservation id), a check-out without an invoice, a fee that is on the open invoice
\* already.
Spins(m) == LET e == content[m] IN
    \/ e.body = "malformed"
    \/ e.body = "blank" /\ e.type # EvtReservationCreated
    \/ /\ Good(m, EvtReservationCreated)
       /\ \E i \in InvoiceIds :
             Exists(i) /\ invoice[i].res = e.res /\ invoice[i].key # OwnKey[e.res]
    \/ Good(m, EvtReservationCheckedOut) /\ ~Invoiced(e.res)
    \/ /\ Good(m, EvtReservationExpired) \/ Good(m, EvtReservationCancelled)
       /\ \E i \in InvoiceIds :
             /\ invoice[i].res = e.res /\ invoice[i].status = "OPEN"
             /\ count[i][FeeKind(m)] > 0

\* As many events spin as a subscriber may hold: they can fill it for good, and the
\* event that would end it (the created one of a check-out) is never delivered.
Starved == Cardinality({m \in Elements(log) : Spins(m)}) >= Prefetch

\* In the end only spinning events are left in the queue: every other event is handled,
\* next to spinning ones, beside gRPC calls on the same invoices and in spite of failing
\* statements and lost connections, as long as a subscription is left and fewer events
\* spin than the prefetch (subscriber.go Consume, Qos; reservation.go Handle;
\* repository/postgres/invoice.go findByIdem).
EventsHandled ==
    <>[](\/ \A m \in Elements(log) : Spins(m)
         \/ Starved
         \/ \A c \in Consumers : ~up[c])

-----------------------------------------------------------------------------
(* What the documents say, and the code does not                           *)

\* docs/features/04: a replayed fee event is a no-op (INSERT invoice_line ON CONFLICT
\* DO NOTHING): every well-formed fee event is acknowledged in the end.
FeeEventsSettle ==
    \A m \in Messages :
        m \in Elements(log) /\ (Good(m, EvtReservationCancelled) \/ Good(m, EvtReservationExpired))
            ~> m \in acked
=============================================================================
