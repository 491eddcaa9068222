------------------------------- MODULE Outbox -------------------------------
(***************************************************************************)
(* The transactional outbox: rows of outbox_event, the publisher worker of *)
(* each replica (worker/outbox.go) and its AMQP channel (pkg/rabbit).      *)
(*                                                                         *)
(* A row takes its id from the sequence at INSERT and becomes visible at   *)
(* COMMIT, so ids can become visible out of order, those of one aggregate  *)
(* too: a payment event carries the invoice's id but is inserted under the *)
(* lock of the payment request alone, beside a Close of that invoice.      *)
(* Each row remembers which rows were committed when it was inserted.      *)
(***************************************************************************)
EXTENDS Integers, FiniteSets, Sequences, SequencesExt

CONSTANTS
    Workers,        \* one publisher per replica
    BatchSize,      \* OutboxPublisher.batch
    MaxRows,        \* bound: rows ever inserted
    MaxFaults,      \* bound: worker crashes and failed MarkPublished calls
    MaxDrops        \* bound: lost broker connections

ASSUME OutboxAssumption ==
    BatchSize \in Nat \ {0} /\ MaxRows \in Nat /\ MaxFaults \in Nat /\ MaxDrops \in Nat

VARIABLES
    row,        \* outbox_event: id -> state, and the ids committed before its INSERT
    nextId,     \* the bigserial sequence
    pc,         \* worker: "idle", "fetching", "publishing"
    batch,      \* rows it fetched and has not tried yet
    published,  \* ids it has handed to the channel in this tick
    up,         \* its AMQP connection; a lost one is never dialled again
    wire,       \* written to the socket, not yet seen by the broker
    broker,     \* ids the exchange has received
    sent,       \* history: every hand-over to a channel, in order
    faults, drops

vars == <<row, nextId, pc, batch, published, up, wire, broker, sent, faults, drops>>
rows == <<row, nextId>>
worker == <<pc, batch, published>>
amqp == <<up, wire, broker, sent>>

Ids == 1 .. MaxRows
NoRow == [past |-> {}, state |-> "absent"]

TypeOK ==
    /\ row \in [Ids -> [past : SUBSET Ids,
                        state : {"absent", "uncommitted", "unpublished", "published"}]]
    /\ nextId \in 1 .. MaxRows + 1
    /\ pc \in [Workers -> {"idle", "fetching", "publishing"}]
    /\ batch \in [Workers -> Seq(Ids)] /\ \A w \in Workers : Len(batch[w]) <= BatchSize
    /\ published \in [Workers -> SUBSET Ids]
    /\ up \in [Workers -> BOOLEAN]
    /\ wire \in [Workers -> Seq(Ids)]
    /\ broker \subseteq Ids
    /\ sent \in Seq(Ids)
    /\ faults \in 0 .. MaxFaults /\ drops \in 0 .. MaxDrops

Init ==
    /\ row = [id \in Ids |-> NoRow]
    /\ nextId = 1
    /\ pc = [w \in Workers |-> "idle"]
    /\ batch = [w \in Workers |-> <<>>]
    /\ published = [w \in Workers |-> {}]
    /\ up = [w \in Workers |-> TRUE]
    /\ wire = [w \in Workers |-> <<>>]
    /\ broker = {}
    /\ sent = <<>>
    /\ faults = 0 /\ drops = 0

-----------------------------------------------------------------------------
(* The transactions that insert events                                     *)

Committed(id) == row[id].state \in {"unpublished", "published"}

InsertEvent ==
    /\ nextId <= MaxRows
    /\ row' = [row EXCEPT ![nextId] =
                  [past |-> {id \in Ids : Committed(id)}, state |-> "uncommitted"]]
    /\ nextId' = nextId + 1
    /\ UNCHANGED <<worker, amqp, faults, drops>>

CommitEvent(id) ==
    /\ row[id].state = "uncommitted"
    /\ row' = [row EXCEPT ![id].state = "unpublished"]
    /\ UNCHANGED <<nextId, worker, amqp, faults, drops>>

\* The sequence does not take the id back.
RollbackEvent(id) ==
    /\ row[id].state = "uncommitted"
    /\ row' = [row EXCEPT ![id] = NoRow]
    /\ UNCHANGED <<nextId, worker, amqp, faults, drops>>

-----------------------------------------------------------------------------
(* One tick of a worker                                                    *)

\* FOR UPDATE SKIP LOCKED runs outside a transaction: its locks last for the
\* statement only.
LockedBy(w) == IF pc[w] = "fetching" THEN ToSet(batch[w]) ELSE {}

Fetchable(w) ==
    {id \in Ids : /\ row[id].state = "unpublished"
                  /\ \A v \in Workers \ {w} : id \notin LockedBy(v)}

\* Mutant: ORDER BY id DESC.
InReverse(ids) ==
    CHOOSE s \in [1 .. Cardinality(ids) -> ids] : \A i, j \in DOMAIN s : i < j => s[i] > s[j]

\* ORDER BY id
InOrder(ids) ==
    CHOOSE s \in [1 .. Cardinality(ids) -> ids] : \A i, j \in DOMAIN s : i < j => s[i] < s[j]

\* Mutant: the query has no LIMIT.
WithoutLimit(found) == found

\* LIMIT $1
WithLimit(found) == SubSeq(found, 1, IF Len(found) < BatchSize THEN Len(found) ELSE BatchSize)

FetchUnpublished(w) ==
    /\ pc[w] = "idle"
    /\ Fetchable(w) # {}
    /\ batch' = [batch EXCEPT ![w] = WithLimit(InOrder(Fetchable(w)))]
    /\ pc' = [pc EXCEPT ![w] = "fetching"]
    /\ UNCHANGED <<rows, published, amqp, faults, drops>>

FetchReturns(w) ==
    /\ pc[w] = "fetching"
    /\ pc' = [pc EXCEPT ![w] = "publishing"]
    /\ UNCHANGED <<rows, batch, published, amqp, faults, drops>>

\* PublishWithContext returns when the frames are written to the socket: the channel
\* is not in confirm mode.
Publish(w) ==
    /\ pc[w] = "publishing" /\ batch[w] # <<>> /\ up[w]
    /\ wire' = [wire EXCEPT ![w] = Append(@, Head(batch[w]))]
    /\ sent' = Append(sent, Head(batch[w]))
    /\ published' = [published EXCEPT ![w] = @ \cup {Head(batch[w])}]
    /\ batch' = [batch EXCEPT ![w] = Tail(@)]
    /\ UNCHANGED <<rows, pc, up, broker, faults, drops>>

\* Mutant: the failed row is marked with the others.
PublishFailsMarked(w) ==
    /\ pc[w] = "publishing" /\ batch[w] # <<>> /\ ~up[w]
    /\ published' = [published EXCEPT ![w] = @ \cup {Head(batch[w])}]
    /\ batch' = [batch EXCEPT ![w] = <<>>]
    /\ UNCHANGED <<rows, pc, amqp, faults, drops>>

\* The first error breaks the loop; what went before is still marked.
PublishFails(w) ==
    /\ pc[w] = "publishing" /\ batch[w] # <<>> /\ ~up[w]
    /\ batch' = [batch EXCEPT ![w] = <<>>]
    /\ UNCHANGED <<rows, pc, published, amqp, faults, drops>>

\* Mutant: the last published row is left out.
ToMarkButLast(ids) == {id \in ids : \E other \in ids : id < other}

\* Mutant: UPDATE ... WHERE id <= the last id, as if ids were committed in order.
ToMarkUpTo(ids) == {id \in Ids : \E last \in ids : id <= last}

ToMark(ids) == ids

MarkPublished(w) ==
    /\ pc[w] = "publishing" /\ batch[w] = <<>>
    /\ row' = [id \in Ids |-> IF id \in ToMark(published[w])
                              THEN [row[id] EXCEPT !.state = "published"] ELSE row[id]]
    /\ published' = [published EXCEPT ![w] = {}]
    /\ pc' = [pc EXCEPT ![w] = "idle"]
    /\ UNCHANGED <<nextId, batch, amqp, faults, drops>>

\* The UPDATE fails: the rows stay unpublished and the next tick finds them again.
MarkFails(w) ==
    /\ faults < MaxFaults
    /\ pc[w] = "publishing" /\ batch[w] = <<>> /\ published[w] # {}
    /\ faults' = faults + 1
    /\ published' = [published EXCEPT ![w] = {}]
    /\ pc' = [pc EXCEPT ![w] = "idle"]
    /\ UNCHANGED <<rows, batch, amqp, drops>>

-----------------------------------------------------------------------------
(* Connection and process failures                                         *)

BrokerReceives(w) ==
    /\ wire[w] # <<>>
    /\ broker' = broker \cup {Head(wire[w])}
    /\ wire' = [wire EXCEPT ![w] = Tail(@)]
    /\ UNCHANGED <<rows, worker, up, sent, faults, drops>>

\* The connection breaks: what the broker has not read is gone.
DropConnection(w) ==
    /\ drops < MaxDrops
    /\ up[w]
    /\ drops' = drops + 1
    /\ up' = [up EXCEPT ![w] = FALSE]
    /\ wire' = [wire EXCEPT ![w] = <<>>]
    /\ UNCHANGED <<rows, worker, broker, sent, faults>>

\* The process dies and its replacement dials anew.  What it wrote to the socket is
\* still delivered; a crash that loses that too is a DropConnection and then this.
CrashAndRestart(w) ==
    /\ faults < MaxFaults
    /\ faults' = faults + 1
    /\ pc' = [pc EXCEPT ![w] = "idle"]
    /\ batch' = [batch EXCEPT ![w] = <<>>]
    /\ published' = [published EXCEPT ![w] = {}]
    /\ up' = [up EXCEPT ![w] = TRUE]
    /\ UNCHANGED <<rows, wire, broker, sent, drops>>

-----------------------------------------------------------------------------
Tick(w) ==
    \/ FetchUnpublished(w) \/ FetchReturns(w)
    \/ Publish(w) \/ PublishFails(w) \/ MarkPublished(w)

Next ==
    \/ InsertEvent
    \/ \E id \in Ids : CommitEvent(id) \/ RollbackEvent(id)
    \/ \E w \in Workers :
          \/ Tick(w) \/ MarkFails(w)
          \/ BrokerReceives(w) \/ DropConnection(w) \/ CrashAndRestart(w)

Spec == Init /\ [][Next]_vars

\* The ticker fires again and again and every call of a tick returns; the broker reads
\* what is on the wire.  Faults are never obliged to happen, nor is a restart.
Fairness == \A w \in Workers : WF_vars(Tick(w)) /\ WF_vars(BrokerReceives(w))

FairSpec == Spec /\ Fairness

-----------------------------------------------------------------------------
(* What makes the outbox correct                                           *)

SendsOf(id) == Cardinality({n \in 1 .. Len(sent) : sent[n] = id})

\* No row is marked published that was not handed to a channel, and no event of a
\* transaction that rolled back is, whatever fails in the middle of a batch
\* (worker/outbox.go tick marks only the prefix that was published).
MarkedWasSent ==
    /\ \A id \in Ids : row[id].state = "published" => SendsOf(id) > 0
    /\ \A n \in 1 .. Len(sent) : Committed(sent[n])

\* An event that was committed before another was inserted is first handed over before
\* it, through breaks and restarts, as long as one worker publishes (ORDER BY id, break
\* on the first error).  Transactions that wait for one another are such: two on one
\* invoice row, or two on one payment request.
FirstSendsInOrder ==
    \A later \in Ids : \A id \in row[later].past :
        SendsOf(later) > 0
        => \E n \in 1 .. Len(sent) : sent[n] = id /\ \A m \in 1 .. n : sent[m] # later

\* With one worker a row is handed over again only after a crash or a failed UPDATE,
\* once for each at most.
RepeatsNeedFaults == \A id \in Ids : SendsOf(id) <= 1 + faults

\* A committed event is eventually published and reaches the broker, unless a connection
\* breaks: the tick finds again what a crash or a failed UPDATE left behind.
EventsArrive ==
    \A id \in Ids : row[id].state = "unpublished" ~>
        (row[id].state = "published" /\ id \in broker) \/ drops > 0

-----------------------------------------------------------------------------
\* worker/outbox.go "at-least-once delivery": a row marked published has reached the
\* broker or is on its way.
AtLeastOnce ==
    \A id \in Ids : row[id].state = "published" =>
        id \in broker \/ \E w \in Workers : id \in ToSet(wire[w])
=============================================================================
