# A TLA+ model of billing-service

billing-service keeps one invoice per parking reservation. It opens the invoice
with a booking fee, adds cancellation and no-show fees, closes it at check-out
with the parking charge, takes payment requests through a gateway's webhook, and
announces each change through a transactional outbox. It is driven by gRPC and
HTTP calls and by the events of reservation-service. This directory holds TLA+
modules translated from the source, TLC instances of them, and theorems checked
by TLAPS. `PROJECT.json` maps every
definition to its lines.

## 1. Inventory

| Component | State | Operations | Interacts with |
|---|---|---|---|
| Pricing engine (`pkg/pricing`) | none | `Engine.Apply`, five rules in a chain | called by the usecases |
| Invoice ledger (`usecase`, `repository/postgres/invoice.go`) | tables `invoice`, `invoice_line`, `outbox_event` | `Open`, `Close`, `AppendLine`, `GetByID` and their usecases | PostgreSQL row locks and unique indexes |
| gRPC server and handlers, HTTP reads (`pkg/grpcserver`, `handler`) | the calls in progress | OpenInvoice, CloseInvoice, GetInvoice, GetByReservation, behind recovery, logging, timeout and idempotency interceptors | start requests on the ledger |
| Reservation consumer (`consumer`, `pkg/rabbit/subscriber.go`) | an AMQP queue, prefetch 10 | created, cancelled, expired, checked_out | starts requests on the ledger; acks, or nacks with requeue on error |
| Outbox publisher (`worker`, `repository/postgres/outbox.go`, `pkg/rabbit/publisher.go`) | `published_at`, one AMQP channel per replica | `tick`: fetch, publish, mark | reads what the ledger commits |
| Payment requests and webhook | table `payment_requests` | CreatePaymentRequest, HandlePaymentNotification | writes `outbox_event` |
| Idempotency interceptor and store | table `idempotency_key` | `Get`, `Put` around OpenInvoice | in front of the ledger |
| Wiring, config, logging, tracing, clients, generated code | none of the domain's | - | - |

What is hard here:

- Several replicas, each with gRPC handlers and one consumer, work on the same
  rows. A usecase spans several statements and often several transactions, so a
  status read by one is stale when the next runs.
- `Close` writes an *absolute* total, `AppendLine` a *relative* one; only row
  locks keep the two from losing an update, and one of these locks is the one
  PostgreSQL takes implicitly for a foreign key.
- Every operation is retried (AMQP redelivery, gRPC retries, timeouts after the
  commit), so every operation has to be idempotent at every point of failure.
- The consumer's queue redelivers: events come out of order, twice, to two
  replicas at once, and one that keeps failing is requeued without limit.
- The publisher can die, or lose its connection or its `UPDATE`, between the
  publish and the mark.
- Prices depend on calendar boundaries and on which rule fired before.

The properties that make each part correct are in section 4; `hazards` in
`PROJECT.json` lists where they could go wrong, line by line.

## 2. Modules

| Module | Models | Extends |
|---|---|---|
| `Pricing` | the rules and the chain, as operators | |
| `MCPricing` | all sessions of a short calendar, the tariff of `docs/features/03`, the README's night hours | `Pricing` |
| `PricingProofs` | the lines the chain emits | `Pricing` |
| `TariffProofs` | the amounts it charges | `MCPricing`, `PricingProofs` |
| `Ledger` | the ledger's tables and concurrent requests | `Pricing` |
| `Account` | the abstract specification: one account per reservation | `Pricing` |
| `MCLedger` | sessions, cancellations and keys for TLC | `Ledger` |
| `LedgerProofs` | the inductive invariant; one invoice per reservation, settled invoices, answers | `Ledger`, `PricingProofs` |
| `AccountProofs` | the ledger implements `Account`; events add up to totals | `LedgerProofs` |
| `Consumer` | the event queue, the replicas' subscribers, `Handle`, gRPC calls beside them; composed with the ledger | `Ledger` |
| `MCConsumer` | what the messages carry | `Consumer` |
| `ConsumerProofs` | messages, acknowledgements and the ledger under the consumers | `Consumer`, `LedgerProofs` |
| `Api` | the interceptor chain, the idempotency store, gRPC and HTTP handlers; composed with the ledger | `Ledger` |
| `ApiProofs` | the servers implement the ledger; keys and answers | `Api`, `LedgerProofs` |
| `MCApi` | sessions and keys for TLC | `Api` |
| `Outbox` | outbox rows, publisher workers, channels, faults | |
| `MCOutbox` | the instances of `Outbox` | `Outbox` |
| `OutboxProofs` | marks, repetitions and order | `Outbox` |
| `Payment` | payment requests, webhook calls, the gateway | |
| `MCPayment` | the instances of `Payment` | `Payment` |
| `PaymentProofs` | statuses and events follow the gateway | `Payment` |

### Pricing

A session is a record of instants (naturals; 0 is Go's zero time). A slice of
lines is a function from the five kinds to an amount or `NoLine`: no two rules
emit the same kind, so the order in the slice carries no information. `Apply`
threads the slice through the rules as the loop in `engine.go` does. Two details
of Go's `time` matter and are kept: subtracting the zero time saturates at the
largest `Duration`, so a cancellation without `confirmed_at` counts as late; and
`nextMid` is a midnight of the zone, not of UTC. The zone is a fixed offset, west or
east, as Asia/Jakarta is one. Whole numbers of ticks replace nanoseconds; the float division
in `dur.Hours()` is exact at this scale.

### Ledger

A process of `Procs` is a request in progress. Its control state `pc` names the
next SQL statement; `req`, `cur`, `seen`, `view`, `reply` are the handler's
local variables. A step is one statement, or the statements from one that can
block up to COMMIT when nothing in between can be seen or waited for:

| Action | Code |
|---|---|
| `CallOpen`, `CallOpenBlank`, `CallClose`, `CallCheckedOut`, `CallCancelFee`, `CallNoShowFee`, `CallGet` | the handlers and the consumer's `Handle`, up to the first statement |
| `OpenInsert` / `OpenReplay`, `OpenFind` | `Open`: the insert transaction, or 23505, rollback, `findByIdem` |
| `CloseFind`, `CloseLock`, `CloseWrite` | the checked_out lookup; `SELECT ... FOR UPDATE`; lines, `UPDATE`, outbox row, COMMIT |
| `FeeFind`, `AppendInsert`, `AppendCommit` | `getOpenInvoice`; the line insert; `UPDATE`, outbox row, COMMIT |
| `GetRow`, `fetchLines` | `GetByID`, which ends most operations |
| `Fail` | any database error, the 2 s timeout, a cancelled caller, a crash: a transaction in progress is rolled back |
| `Return` | the caller has the answer; the process is free for another request or a retry |

`count` and `amount` stand for `invoice_line`: the number of rows and the sum of
their amounts, by invoice and kind. Locks are not variables: a transaction holds
a row FOR UPDATE exactly at `close_write` and FOR KEY SHARE (the foreign key of
an inserted line) exactly at `append_commit`. FOR UPDATE conflicts with both;
FOR KEY SHARE does not conflict with the `UPDATE` of another fee, which changes
no key column. `uq_line_one_off` makes a second insert of the same one-off line
wait for the first and then fail. The schema is the migrations', not
`data/init.sql`, which lacks that index (the mutant `AppendInsertNoIndex` shows
what its absence does).

Left out of the ledger: `driver_id` and the payload's msisdn (no decision
depends on them), timestamps of rows, and the statuses PAID and VOID (no code
writes them). `Ledger` takes every call as it comes; `Consumer` and `Api` put the
code that makes the calls in front of it.

### Account

What a caller may rely on: an account is opened once with the booking fee,
closed once with at most one of the two parking charges, takes each one-off fee
once at its configured amount, and its balance moves in the same step as the
charge. A fee may arrive after the close; the code allows that. `Ledger` defines
the refinement mapping `accountBar` (the account of a reservation is its
invoice) and instantiates `Account` as `Abstract`.

### Consumer

A replica's consumer handles one delivery at a time, so it is one process of
`Ledger`, and its database steps are the ledger's own actions. The processes that
are no consumers (`Callers`) are gRPC calls on the same invoices. Around them:

| Action | Code |
|---|---|
| `PublishEvent`, `Deliver` | the broker (external): messages enter in any order; the first ready one goes to a subscriber with room (`HasRoom`, the `Qos` of `NewSubscriber`) |
| `Start`, `Handle` | `Consume` takes a delivery; `Handle` decodes, drops or calls a usecase |
| `Statement`, `Wait` | the usecase's statements |
| `Settle`, `Settlement` | the handler has returned: `Ack`, or `Nack` with requeue |
| `StatementFails` | a database error or cancelled context in the handler |
| `GrpcCall`, `GrpcStep`, `Wait`, `GrpcFails` | OpenInvoice under a key of the caller's choice and CloseInvoice, beside the consumers; `Api` has them with their interceptors |
| `DropConnection`, `Restart` | the connection is lost, the broker takes back what is unsettled, `Consume` returns and nobody calls it again until the process is replaced |

`content` says what each message carries: an event of one of the four kinds, well
formed or garbled, blank or malformed in its reservation id; a cancelled event
without `cancelled_at` may be priced at several instants, because the handler
takes the time of the delivery. The same event published twice is two messages.
A requeued message returns to its old place (RabbitMQ's rule), so the queue is
the set `ready` in the order of `log`. `log` drops acknowledged messages to keep
the state small. `OwnKey` is the key a created event opens its invoice under; the
code uses the reservation id itself, so the assumption says that two reservations
never share one, and that no gRPC caller takes the id of one reservation for its key
on another: under such a key `findByIdem` would answer an open with another
reservation's invoice, and the event would be acknowledged without its own. A gRPC
caller may open an invoice under the reservation id or under any other key; after the
latter the created event conflicts on the reservation, is looked up by its own key and
answered NotFound, each time, so `Spins` counts it among the events that are requeued
for ever.
`opened` is a history variable: the fee events that were sent
when the invoice was there.

### Api

A process is one call in progress. `rpc` says where it is in the chain: the
interceptor's lookup (`StoreGet`), the handler (`Statement`, in which it is a
request of `Ledger`), the cache insert (`StorePut`), the answer. `HandlerFails` is an error, a
panic caught by the recovery interceptor, the 2 s deadline or a caller that is
gone; a caller that lost the answer simply calls again. `mapError` gives the
status: VALIDATION has no case and becomes Internal, and an error that is no
`AppError` goes out as it is, Unknown.

Two facts about the cache are computed, not assumed. `protoZero` answers nil, so a
cached response is never unmarshalled and the handler runs on every call. And
`formatInterval` converts the seconds to a `Duration` of as many nanoseconds:
24 hours print as `86.4µs` and get one more `s`, which PostgreSQL does not read
as an interval, so `Put` fails, its error is ignored, and the table stays empty.
What keeps a retried OpenInvoice idempotent is the unique `idempotency_key`
column and `findByIdem` in the ledger.

HTTP reads have no interceptor and answer 404 to every error. `told` is a history
variable: which invoices callers were told of under a key.

### Outbox

A row gets its id from the sequence at insert and becomes visible at commit, so
overlapping transactions can make ids appear out of order. That happens within one
`aggregate_id`, too: a payment event carries its invoice's id, but its transaction
locks the `payment_requests` row only, so it overlaps with a close or a fee of that
invoice and with payments of its other requests. A row therefore carries no aggregate
in the model but its past, the events that were committed when it was inserted
(history only); two transactions that wait for each other's row lock are never in
overlap. A worker's tick fetches a batch (`WithLimit`) in id order (`FOR UPDATE SKIP LOCKED` outside a
transaction: the locks last as long as the statement, here from
`FetchUnpublished` to `FetchReturns`), publishes row by row until the first
error, and marks the published prefix. `wire` is what was written to the socket
and not yet read by the broker: the channel has no confirms. A lost connection
is never dialled again by the process; `CrashAndRestart` is the only way back.

### Payment

A process is a running `CreatePaymentRequest` or webhook call; `pc` names its next
statement. `CreatePaymentRequest` is the usecase up to the insert, the intent for a
QRIS URL included, which may fail or find no client and then leaves the URL empty;
`Create` is the insert. A notification goes through `Webhook` (the body is read),
`Verify` (the signature check, 401), `GetByPaymentRef` with the switch that follows
it, the transaction `UpdateStatusByPaymentRef`, `InsertEvent`, `Commit`, and
`GetByID`. The `UPDATE` locks its row until the transaction ends (`Holders`), so the
events of a request take their ids in the order of the updates. `Fail` is an error,
timeout or crash at any of these points, before or after the commit, or a body that the
single `Read` of `readBody` did not get whole, which does not parse.

`verifySignature` is modelled by what it computes: a notification without
`signature_key` is not checked, and one that has it is compared with an HMAC, under
the empty key that `main` passes, of the very body that contains it. A body that holds
its own HMAC would be a fixed point of the hash; the model takes it that there is none,
so a signed notification is always refused.

The gateway is external. This service never gives it a `payment_ref`: `Create` makes
the ref after the intent, and of the intent's answer only the URL is kept. So the
gateway gets to know a payment (`GatewayLearns`) either through whoever got the answer of
`CreatePaymentRequest` and passes the ref on, or through the QRIS URL, under a
reference of its own that no row has; and it signs or does not. It then moves the
payment along `Moves` (what a QRIS and a card payment can go through, and the
notification each move sends), delivers notifications in any order, and repeats one
until it is answered 200 and up to `MaxRepeats` times after that. `refund` stands for
the statuses the switch ignores. Amounts and expiry times decide nothing in this code,
and no code writes EXPIRED. Calls refused for their arguments or their HTTP method touch
no state and are left out. Notifications that do not come from the gateway are outside
the model; the code accepts any that carries no signature. The migrations do not create
`payment_requests`; the model takes its columns from the repository's SQL and relies on
no index.

## 3. Runs

| Run | Instance | Shows |
|---|---|---|
| `pricing_tariff` | all 10,368 sessions over 12 instants, a day of 8, an hour of 3, a zone of +3 | the chain charges the tariff of `docs/features/03`; a stay grows by started hours |
| `ledger_race` | 3 requests, 1 invoice, an overnight stay, a late cancellation, a no-show | totals, charges, answers and events under every interleaving |
| `ledger_account` | 2 requests, 3 kinds of stay, 3 kinds of cancellation, fairness | refinement of `Account`; every request finishes |
| `api` | 2 calls, 2 reservations, 2 keys, one of them shared, one stay | one invoice per reservation, one invoice per key, and what NotFound means, through the whole chain |
| `consumer` | 2 replicas, or 1 and a gRPC caller with 2 keys; 3 messages in 5 scenarios, prefetch 2, 1 fault, fairness | no event is lost; an acknowledged one is applied; all but spinning ones are handled |
| `outbox_one_worker` | 3 rows, batch of 2, 2 faults, 1 lost connection | order, batch limit and repetitions |
| `outbox_two_workers` | 2 rows, 2 replicas, 1 fault, 1 lost connection, fairness | only what was sent is marked; committed events arrive |
| `payment` | 1 request, 2 concurrent calls, 1 fault, 1 repeat, fairness | status and events follow the gateway; QRIS payments settled under their `payment_ref`, unsigned, are recorded |

Bounds. The fees are distinct powers of two, so two different sets of charges
never have the same total. A race on a row needs the holder of a lock, a waiter,
and a third request that slips in between: three processes. Processes return and
start again without limit; the state stays finite because unique indexes and
statuses stop the second open, close or fee. `Horizon` covers a stay that ends
before, at and after midnight and up to four started hours. Three outbox rows
with a batch of two give a full batch, a rest, and an event committed late with
an early id. The
scenarios of `consumer` are a stay, a reservation with both fees, events that never
reach the ledger with one that spins, and a stay beside gRPC calls; a prefetch of
two lets one event spin and another pass, and two replicas share the queue, so
that a lost connection hands an event to the other while it is still handled.
`Parties` says who is there in a scenario: two replicas, or one and a gRPC caller,
since three processes with their fairness are more than TLC checks in reasonable
time. The caller may come before, between and after the events, with the
reservation's id or with another key; its calls fail without limit.
`MaxRows`, `MaxFaults`, `MaxDrops` and `MaxRepeats` are the only counters. Payment requests
share nothing but the table, so one is enough; its notifications race in pairs.
Deadlock is checked in every ledger run and in `api`; the consumer runs switch it
off because a drained queue whose events are all published ends the behaviour,
the outbox runs because a drained outbox whose bounds are used up has nothing
left to do, the pricing run because its calendar ends, and the payment runs
because their payments do.

Symmetry over processes and ids is used in safety runs only.

Fairness. `FairSpec` of `Ledger` gives weak fairness to statements that never
wait and strong fairness to the two that wait for a lock: PostgreSQL queues lock
waiters, so a lock that keeps becoming free is granted. Neither calls nor
failures are obliged to happen, so `RequestsFinish` does not lean on the timeout.
`FairSpec` of `Outbox` says that the one-second ticker keeps firing, that the
calls of a tick return, and that the broker reads its socket. It obliges no
restart, which is why `EventsArrive` promises nothing after a lost connection.
`FairConsumerSpec` says that the loop of `Consume` goes on, that locks are granted
as in `Ledger`, and that the broker delivers a message that is at the head again
and again while a subscriber has room (strong fairness per message: a broker
pushes as long as it may). It obliges no event to be published, no gRPC call to be made
and no replica to restart, so `EventsHandled` promises nothing once no subscription is left.
`FairSpec` of `Payment` says that a call that can go on does, that a row lock is
granted in turn, and that the gateway keeps sending a request's unanswered notifications until a call takes one; it obliges no
payment to move.

## 4. Properties

- `TotalIsSumOfLines`, `SnapshotIsCurrent`: no update of a total is lost between
  a close and the fees racing with it.
- `NoDoubleCharge`, `ImplementsAccount`: retries, replays and failures after the
  commit never charge twice.
- `OneInvoicePerReservation`: concurrent and repeated opens, under any keys.
- `SameKeySameInvoice`: every success under one key names the same invoice, with
  retries, races and a cache that never answers.
- `NotFoundMeansTaken`: OpenInvoice answers NotFound only when another key holds
  the reservation's invoice, never for a lost race under the caller's own key.
- `NoEventLost`: an event is in one place, waiting, with one subscriber, or
  acknowledged, whatever fails.
- `AckedIsApplied`: the acknowledgement follows the commit, so an acknowledged
  event has had its effect on the ledger.
- `EventsHandled`: in the end only spinning events are in the queue, unless as many
  spin as the prefetch, or no subscription is left. `Spins` lists them: events without
  a usable reservation id, a created event whose invoice gRPC opened under another key,
  a check-out without an invoice, a fee that is on the open invoice already.
- `AnswerCoversTotal`: `GetByID` reads the row first, so a torn answer shows
  lines the total does not include yet, never a total without its lines.
- `CloseAnswersClosed`, `SettledIsFinal`: a close that answers has closed; after
  the last fee that saw the invoice OPEN, nothing changes it.
- `EventsAccountForTotal`: the events of an invoice, each counted once, add up to
  its total.
- `RequestsFinish`: lock waits end.
- `ChainChargesTariff`, `StayPricedByStartedHour`: the rule order implements the
  tariff of `docs/features/03`, boundaries included.
- `MarkedWasSent`, `RepeatsNeedFaults`, `EventsArrive`: the outbox marks what it sent,
  repeats only after faults, and committed events arrive while the connection holds.
- `FirstSendsInOrder`: with one replica, an event committed before another was inserted
  is first sent before it. Of overlapping transactions either may come first, and no
  document promises an order per aggregate.
- `StatusFollowsGateway`, `QrisOutcomeIsFinal`: no order or repetition of
  notifications makes a request SUCCESS that is not paid, or changes the outcome
  of a QRIS payment.
- `LastEventIsStatus`: consumers of the events end with the table's outcome, although
  update, event and commit of two notifications interleave.
- `PaymentsRecorded`: retries bring every QRIS payment that the gateway settles under
  the `payment_ref`, and notifies without a signature, into the table.

Each has a mutant in `PROJECT.json`: a plausible slip in the code it is about,
under which TLC finds it violated.

### Where documents and code disagree

Four runs are expected to fail; each states what a document or comment says.

| Run | The document says | The code does |
|---|---|---|
| `ledger_immutable` | README: immutable after CLOSED | a fee that saw OPEN is added after the close |
| `consumer_settle` | features/04: a repeated fee event is a no-op (`ON CONFLICT DO NOTHING`) | the insert fails, the event is requeued at once, for ever |
| `outbox_at_least_once` | worker/outbox.go: at-least-once | a marked event can be lost on the wire |
| `payment_terminal` | repository/type.go: terminal status | a late challenge of a card payment turns SUCCESS into FAILED |

Further disagreements have no run of their own. Features/04 says that a fee closes
the invoice; it stays OPEN, though a closed event is sent (`feeEvent`). README says
that OpenInvoice is idempotent on the reservation; under a second key it answers
NotFound, which is what `NotFoundMeansTaken` pins down. Sequence diagram 04 has the
consumer create a minimal invoice for a cancellation without one; the code
acknowledges the event and charges nothing, which is why `AckedIsApplied` asks for
the fee only of events in `opened`. The interceptor's comment promises that a
replay has zero side effects; the handler runs again (`StoreGet`). Features/04 also
lists a dead-letter queue that is not there. `webhook.go` documents a payload with a
`signature_key`; a notification that has one is compared with an HMAC of the body that
contains it, under the empty key of `main`, and is answered 401 each time (`Verify`).
`repository/type.go` calls the `payment_ref` provider-facing and the end-to-end test
expects the intent's reference in it; with a payment client (`main` wires none)
`CreatePaymentRequest` drops that reference, and a notification that names it finds no
row (`GetByPaymentRef`). `PaymentsRecorded` excepts both, and says so.

The repository has two tariffs. `Tariff` is the one of `docs/features/03`, lines 33-39:
midnight crossed, two minutes of grace, started hours, one rate. What that table leaves
open its tests settle (`rules_test.go`: midnight sharp, the zone, what a late
cancellation and a no-show pay in sum), and amounts are parameters. The other one is in
`README.md` lines 379-385 and sequence diagrams 03 (lines 142-156, 208-216) and 04
(lines 236-264), and the code differs from it in more than amounts:

- the overnight fee is due between 22:00 and 06:00; in the code a night stay that does
  not reach midnight, 22:30 to 23:30 or 01:00 to 05:00, pays by the hour;
- a cancellation is free until 30 minutes before the hold expires and then costs the
  booking fee; the code counts two minutes from `confirmed_at` and charges a fee of its
  own. A `Session` has no hold expiry, so no property here can state the other rule;
- a motorcycle pays other rates; `Session` has a vehicle type that no rule reads, and
  both callers fill in a car;
- a no-show pays the booking fee and a penalty, as in the code;
- diagrams in the README and in 03 price 2.5 hours at 2.5 times the rate, though 03
  itself writes `ceil(2.5)`; the code rounds up to 3.

So `ChainChargesTariff` says that the chain implements the first tariff; it says
nothing of the second.

`rules.go` says that a late cancellation's fee replaces the booking fee, which
holds of the rule chain but not of the ledger: `Open` has already charged the
booking line and `ApplyCancelFee` leaves it on the invoice.

## 5. Proofs

`LedgerProofs` proves for any sets of processes, ids, reservations, keys,
sessions and cancellations and for every tariff:

- `TypeCorrect`: `Spec => []TypeOK`;
- `TotalCorrect`: `Spec => []TotalIsSumOfLines`;
- `ChargedOnce`: `Spec => []NoDoubleCharge`;
- `CloseUsesCurrentTotal`: `Spec => []SnapshotIsCurrent`;
- `LedgerInvariant`: `Spec => []IndInv`, from which they follow.

None of these is inductive alone. `TotalIsSumOfLines` breaks in `CloseWrite`
unless the total that was read is still the stored one (`SnapshotIsCurrent`),
which another process would break unless it is kept out of the row (`LocksOK`);
`NoDoubleCharge` needs that an open invoice has no parking lines yet and a
missing one has no lines at all (`RowsOK`), that two fees about to commit on a
row differ in kind (`LocksOK`), and that a check-out's lines hold no one-off
kind and at most one parking charge (`ControlOK`). The last fact is a theorem
about the rule chain: `ChainShortCircuits` in `PricingProofs`. The invariant is
proved in two layers, `TypeInv` (types and control) and `MoneyInv` (rows, locks,
money), with one case per action.

From there it goes on:

- `OneInvoice`: `Spec => []OneInvoicePerReservation`, inductive because, of
  the three steps that write the tables (`Writers`), only `OpenInsert` adds a row;
- `SettledForGood`: `Spec => SettledIsFinal`, an action property: a close writes
  only rows that are OPEN (`SnapshotIsCurrent`), and whoever is about to append
  was about to before or has just seen OPEN (`AppendersSawOpen`);
- `CloseAnswers` and `AnswersCovered`: `Spec => []CloseAnswersClosed` and
  `Spec => []AnswerCoversTotal`, from `AnswerOK`: what a request knows about its
  answer at each point, kept because rows are never reopened and lines never
  taken away (`RowsGrow`).

`AccountProofs` proves the refinement and what the outbox tells:

- `LedgerImplementsAccount`: `Spec => ImplementsAccount`. `RefInit` maps the initial
  state; `RefStep` maps every step: `OpenRefines`, `CloseRefines` and `FeeRefines`
  for the three commits (`Writers`), stuttering for all others. The mapping picks
  the invoice of a reservation, so it needs `OneInvoicePerReservation` before and
  after the step (`OneAccountMoves`: only one account changes). `RefInv` adds that a
  fee under way is one of the tariff's (`CancelTariff`), that a free cancellation
  never reaches `AppendLine`, and that a line that is not there has no amount;
- `EventsTellTotal`: `Spec => []EventsAccountForTotal`. The inductive form says that
  a running sum over the outbox exists that ends in the total (`EventsOK`); each
  commit extends it by one event worth what the total moves by (`OneMoreEvent`).
  `RunningSumIsAnnounced` identifies it with the recursively defined sum.

`ApiProofs` proves of the servers in front of the ledger:

- `ApiImplementsLedger`: `ApiSpec => Spec`, so every theorem above holds behind the
  interceptors too (`ApiOneInvoice` is one of them);
- `ApiTypeCorrect`, `OneInvoicePerKey`, `NotFoundOnlyIfTaken`: `ApiSpec =>` always
  `ApiTypeOK`, `SameKeySameInvoice` and `NotFoundMeansTaken`.

`ApiInv` is the invariant: a keyed call in its handler is on OpenInvoice's path and
carries its own key into the ledger, the invoice it holds from `OpenInsert` or
`OpenFind` on was opened under that key (`KeyedOK`), keys are unique (`KeyUnique`),
and whatever has been told under a key has it (`ToldOK`). For NotFound, a conflict
met on the replay path stays one, because rows keep their reservation and key
(`ConflictsStay`).

`TariffProofs` proves that the chain charges the tariff of `docs/features/03`, for
every session, every zone offset and not only on the calendar of the run (`TariffExact`; `ChainIsTariff` and
`StartedHours` are the run's two properties). `Tariff` knows no rule order, counts
started hours by their definition and looks for a midnight inside the stay; the
proof shows that the rounding division finds those hours (`CeilIsHoursStarted`),
that comparing with `nextMid` finds such a midnight (`MidnightPassed`), and follows
the chain through its three ways (`PriceCancelled`, `PriceNoShow`, `PriceParked`).

`ConsumerProofs` proves for any number of replicas, messages, gRPC calls, faults and
restarts and any prefetch:

- `ConsumerTypes`, `EventsKept`: always `ConsumerTypeOK` and `NoEventLost`, from
  `ConsumerInv`: a running handler has the first delivery of its subscriber, no
  message is twice in a buffer or in two, and what waits or is held is still in the
  queue (`BrokerOK`);
- `AckedApplied`: always `AckedIsApplied`. `ApplyInv` says at each statement what a
  handler has reached for its message (`Handling`): past the commit, the effect is
  there, and `Grows` keeps it there, since no step removes an invoice or a line,
  reopens one or changes its reservation. `OwnKeyOK` is needed for the replay path
  of created: no row has another reservation's id for its key, whoever opened it, so
  the row found by the message's key is its own. `GrpcApart` says that a gRPC call
  touches neither the broker nor a handler;
- `ConsumersKeepLedger`: the ledger's invariant and one invoice per reservation hold
  under the consumers. `ConsumerSpec` is not an instance of `Spec`: a process that
  is replaced in the middle of a statement goes to idle in one step (`Restart`), and
  `Handle` answers some messages without a call. Neither writes a table or takes a
  lock (`MoneyKept`).

`OutboxProofs` proves `OutboxTypes` and `MarkedSent` (`MarkedWasSent`) for any
number of replicas from `OInv`: workers hold committed rows only, and what a worker
will mark it has handed over. `RepeatsAreFaults` and `SendsInOrder`
(`RepeatsNeedFaults`, `FirstSendsInOrder`) are about one replica and say so in their
hypothesis `OneWorker`: with two the code promises neither. `OneInv` counts: a row
that is unpublished and not yet handed over in this tick has been handed over at
most once for each fault. The order follows because a tick fetches the lowest
unpublished ids, hands them over in that order and stops at the first error, and an
event that is committed when another is inserted has the lower id and is there for
every tick that sees the other. Nothing is assumed of which transactions overlap.

`PaymentProofs` proves `PaymentTypes`, `StatusFollows`, `OutcomeIsFinal` and
`LastEventTells` for any number of requests, calls, faults and repeats. `PayInv`
says of a notification that is on its way that what it asks for is still true of the
gateway (`SentOK`), which the moves of the gateway keep: nothing leaves "failed",
and only a refund leaves "paid" (`MoveFacts`). So an old notification applied late
cannot write a wrong status. For `LastEventTells` the invariant adds that one transaction
at a time holds a row and that the id it has taken is above those of the events that are
committed (`IdsOK`), which only the lock makes true.

Assumptions: fees are naturals, the clock's units are positive, the grace window
is shorter than the largest `Duration`, `None` and `NoTime` are fresh, and the
sessions of check-outs carry neither a cancellation nor the no-show flag, as the
two callers of `CloseInvoice` build them; the consumers' keys are one per
reservation and no gRPC caller's key for another; batch size and prefetch are positive. TLC evaluates all of them in the
runs.

Two definitions are written so that they can be reasoned about: `InOrder` chooses
the ascending sequence of a set of ids instead of sorting it, and `Ack` cuts the
message out of `log` by its position. Where a proof needs induction over numbers it
argues from a least counterexample (`LeastElement` in `OutboxProofs`, `LeastNumber` in
`AccountProofs`): the library's induction theorems take an operator, which the
provers cannot instantiate.

Only model-checked: liveness, which is out of the prover's reach (`RequestsFinish`,
`EventsHandled`, `EventsArrive`, `PaymentsRecorded`). Every invariant and action
property of a passing run is proved.

## 6. Not modelled

The README's reconciliation cron does not exist in the source. Configuration,
logging, tracing, the redis client (unused), the database pool, the gRPC clients
(not wired by `main`) and generated code have no billing state.

`main`'s shutdown is not a module. After a signal it waits for the servers and
for neither the consumer nor the outbox worker, so the process may end at any of
their steps; that is `Consumer`'s `DropConnection` followed by `Restart`,
`Outbox`'s `CrashAndRestart`, and `Fail` for a call. How many calls `GracefulStop`
lets finish when they came through `ServeHTTP` is decided in grpc-go, which is not
in the repository, and no property here depends on it.

Several payment requests for one reservation are possible and modelled as
separate requests; no document says how many there may be, so no property does.

## 7. Plan

1. A composition of `Ledger` and `Outbox` through the shared table: from the
   commit of a charge to the broker.
2. The safety steps under the liveness properties: that a waiting request always
   waits for one that can go on (`RequestsFinish`), and that a spinning event is
   one of the kinds `EventsHandled` excepts.
3. The answers of the ledger (`CloseAnswersClosed`, `AnswerCoversTotal`) and the
   refinement of `Account` under the consumers, as `ConsumersKeepLedger` has the money.
