--------------------------- MODULE PaymentProofs ---------------------------
(***************************************************************************)
(* Proofs about Payment, for every set of refs and calls and for every     *)
(* number of faults and repeated notifications: the types, that a          *)
(* request's status follows the gateway, that the last event tells the     *)
(* status, and that the outcome of a QRIS payment is final.                *)
(***************************************************************************)
EXTENDS Payment, TLAPS

Active == {"body", "find", "update", "event", "commit", "read"}
Event == [id : Nat, ref : Refs, type : {EvtPaymentSuccess, EvtPaymentFailed}]
Row == [method : Methods \cup {None}, url : BOOLEAN, status : Statuses \cup {"NONE"}]

\* A request without a row is unknown to the gateway and to the events; one with a row
\* has a method, and its status follows the gateway, which names no other request.
RowOK(ref) ==
    /\ Exists(ref) => row[ref].method \in Methods
    /\ ~Exists(ref) => gw[ref] = "unknown"
    /\ ~Exists(ref) => \A e \in events : e.ref # ref
    /\ order[ref].name \in {ref, None}
    /\ row[ref].status = "SUCCESS" => Paid(ref)
    /\ row[ref].status = "FAILED" /\ row[ref].method = "QRIS" => gw[ref] = "failed"

\* What a notification asks for stays true of the gateway after it was sent: the money is
\* never given back to "not paid", and a QRIS payment that failed has failed for good.
SentOK(n) ==
    n.ref \in Refs =>
        /\ Exists(n.ref)
        /\ newStatus(n) = "SUCCESS" => Paid(n.ref)
        /\ newStatus(n) = "FAILED" /\ row[n.ref].method = "QRIS" => gw[n.ref] = "failed"

\* A webhook call works on a notification that was sent, and past the switch on one that
\* changes a status; a CreatePaymentRequest has a method.
CallOK(p) ==
    /\ pc[p] \in Active => notif[p] \in sent
    /\ pc[p] \in {"update", "event", "commit"} => notif[p].ref \in Refs /\ ~Ignored(notif[p])
    /\ pc[p] = "insert" => request[p].method \in Methods

\* The inductive invariant.
PayInv ==
    /\ TypeOK
    /\ \A ref \in Refs : RowOK(ref)
    /\ \A n \in sent : SentOK(n)
    /\ \A p \in Procs : CallOK(p)

-----------------------------------------------------------------------------
(* The operators                                                           *)

\* The switch of HandlePaymentNotification writes SUCCESS or FAILED or nothing, never
\* PENDING.
LEMMA StatusValues ==
    ASSUME NEW n
    PROVE  newStatus(n) \in {"SUCCESS", "FAILED", ""}
BY DEF newStatus

\* What a notification is of, and what it asks for, at every move of the gateway: success
\* where the money is taken, failure of a QRIS payment only where it fails.  Nothing leaves
\* "failed", and only a refund leaves "paid".
LEMMA MoveFacts ==
    ASSUME NEW m \in Methods, NEW move \in Moves[m], NEW o \in Order
    PROVE  LET n == [ref |-> o.name, txn |-> move[3], fraud |-> move[4], signed |-> o.signed]
           IN  /\ n \in Notification
               /\ move[2] \in GatewayStates
               /\ move[2] # "unknown" /\ move[1] \notin {"failed", "unknown"}
               /\ move[1] \in {"paid", "refunded"} => move[2] = "refunded"
               /\ newStatus(n) = "SUCCESS" => move[2] = "paid"
               /\ newStatus(n) = "FAILED" /\ m = "QRIS" => move[2] = "failed"
<1> DEFINE n == [ref |-> o.name, txn |-> move[3], fraud |-> move[4], signed |-> o.signed]
<1> USE DEF Order
<1>1. CASE m = "QRIS"
  <2>1. move \in {<<"new", "pending", "pending", "">>,
                  <<"new", "failed", "failure", "">>,
                  <<"pending", "paid", "settlement", "">>,
                  <<"pending", "failed", "expire", "">>,
                  <<"paid", "refunded", "refund", "">>}
    BY <1>1 DEF Moves
  <2>2. CASE move = <<"new", "pending", "pending", "">>
    BY <2>2 DEF newStatus, Accepted, Notification, GatewayStates
  <2>3. CASE move = <<"new", "failed", "failure", "">>
    BY <2>3 DEF newStatus, Accepted, Notification, GatewayStates
  <2>4. CASE move = <<"pending", "paid", "settlement", "">>
    BY <2>4 DEF newStatus, Accepted, Notification, GatewayStates
  <2>5. CASE move = <<"pending", "failed", "expire", "">>
    BY <2>5 DEF newStatus, Accepted, Notification, GatewayStates
  <2>6. CASE move = <<"paid", "refunded", "refund", "">>
    BY <2>6 DEF newStatus, Accepted, Notification, GatewayStates
  <2> QED BY <2>1, <2>2, <2>3, <2>4, <2>5, <2>6
<1>2. CASE m = "CC"
  <2>1. move \in {<<"new", "challenged", "capture", "challenge">>,
                  <<"new", "failed", "deny", "">>,
                  <<"challenged", "paid", "capture", "accept">>,
                  <<"challenged", "failed", "cancel", "">>}
    BY <1>2 DEF Moves
  <2>2. CASE move = <<"new", "challenged", "capture", "challenge">>
    BY <1>2, <2>2 DEF newStatus, Accepted, Notification, GatewayStates
  <2>3. CASE move = <<"new", "failed", "deny", "">>
    BY <1>2, <2>3 DEF newStatus, Accepted, Notification, GatewayStates
  <2>4. CASE move = <<"challenged", "paid", "capture", "accept">>
    BY <1>2, <2>4 DEF newStatus, Accepted, Notification, GatewayStates
  <2>5. CASE move = <<"challenged", "failed", "cancel", "">>
    BY <1>2, <2>5 DEF newStatus, Accepted, Notification, GatewayStates
  <2> QED BY <2>1, <2>2, <2>3, <2>4, <2>5
<1> QED BY <1>1, <1>2 DEF Methods

-----------------------------------------------------------------------------
(* The inductive invariant                                                 *)

\* Nothing is requested, sent or running at the start.
LEMMA PayInit == Init => PayInv
<1> SUFFICES ASSUME Init PROVE PayInv
  OBVIOUS
<1> USE PaymentAssumption
<1>1. TypeOK
  <2>1. NoNotification \in Notification /\ NoOrder \in Order
    BY DEF Notification, NoNotification, Order, NoOrder
  <2>2. /\ row \in [Refs -> [method : Methods \cup {None}, url : BOOLEAN,
                            status : Statuses \cup {"NONE"}]]
        /\ gw \in [Refs -> GatewayStates] /\ order \in [Refs -> Order]
        /\ notif \in [Procs -> Notification]
    BY <2>1 DEF Init, NoRow, GatewayStates
  <2>3. /\ opened \in BOOLEAN /\ sent \subseteq Notification /\ inFlight \subseteq sent
        /\ events \subseteq [id : Nat, ref : Refs, type : {EvtPaymentSuccess, EvtPaymentFailed}]
        /\ nextId \in Nat
    BY DEF Init
  <2>4. /\ pc \in [Procs -> Places] /\ eventId \in [Procs -> Nat]
        /\ request \in [Procs -> [method : Methods \cup {None}, url : BOOLEAN]]
    BY DEF Init, NoRequest, Places
  <2>5. faults \in 0 .. MaxFaults /\ repeats \in 0 .. MaxRepeats
    BY DEF Init
  <2> QED BY <2>2, <2>3, <2>4, <2>5 DEF TypeOK
<1>2. \A ref \in Refs : RowOK(ref)
  BY DEF Init, RowOK, Exists, NoRow, NoOrder, Paid
<1>3. \A p \in Procs : CallOK(p)
  BY DEF Init, CallOK, Active
<1> QED BY <1>1, <1>2, <1>3 DEF PayInv, Init

\* A step that leaves the tables and the gateway alone keeps what is known about them.
LEMMA QuietKeeps ==
    ASSUME PayInv, UNCHANGED <<row, events, gw, order, sent>>
    PROVE  /\ (\A ref \in Refs : RowOK(ref))'
           /\ (\A n \in sent : SentOK(n))'
BY DEF PayInv, RowOK, SentOK, Exists, Paid

\* A step of one call, with its new locals in order, leaves every call in order.
LEMMA OthersKeep ==
    ASSUME PayInv, NEW p \in Procs, sent \subseteq sent', CallOK(p)',
           \A q \in Procs \ {p} :
               pc'[q] = pc[q] /\ notif'[q] = notif[q] /\ request'[q] = request[q]
    PROVE  (\A q \in Procs : CallOK(q))'
BY DEF PayInv, CallOK

\* A call that goes on with the same notification, past the switch only when it may,
\* leaves every call in order.
LEMMA StepKeeps ==
    ASSUME PayInv, NEW p \in Procs, NEW from \in Active, NEW to \in Active, Step(p, from, to),
           UNCHANGED <<sent, request, notif>>,
           to \in {"update", "event", "commit"} => notif[p].ref \in Refs /\ ~Ignored(notif[p])
    PROVE  pc' \in [Procs -> Places] /\ (\A q \in Procs : CallOK(q))'
<1>1. /\ pc[p] = from /\ pc'[p] = to /\ pc' \in [Procs -> Places]
      /\ \A q \in Procs \ {p} : pc'[q] = pc[q]
  BY DEF Step, PayInv, TypeOK, Active, Places
<1>2. notif[p] \in sent
  BY <1>1 DEF PayInv, CallOK
<1>3. CallOK(p)'
  BY <1>1, <1>2 DEF CallOK, Active
<1> QED BY <1>1, <1>3, OthersKeep

\* A call that ends keeps the types and the other calls.
LEMMA EndKeeps ==
    ASSUME PayInv, NEW p \in Procs, NEW from, End(p, from), sent' = sent
    PROVE  /\ pc' \in [Procs -> Places]
           /\ request' \in [Procs -> [method : Methods \cup {None}, url : BOOLEAN]]
           /\ notif' \in [Procs -> Notification] /\ eventId' \in [Procs -> Nat]
           /\ (\A q \in Procs : CallOK(q))'
<1>1. NoNotification \in Notification /\ NoRequest \in [method : Methods \cup {None}, url : BOOLEAN]
  BY DEF NoNotification, NoRequest, Notification
<1>2. /\ pc' \in [Procs -> Places]
      /\ request' \in [Procs -> [method : Methods \cup {None}, url : BOOLEAN]]
      /\ notif' \in [Procs -> Notification] /\ eventId' \in [Procs -> Nat]
  BY <1>1 DEF PayInv, TypeOK, End, Step, Places
<1>3. CallOK(p)'
  BY DEF CallOK, Active, End, Step, PayInv, TypeOK
<1>4. \A q \in Procs \ {p} :
         pc'[q] = pc[q] /\ notif'[q] = notif[q] /\ request'[q] = request[q]
  BY DEF End, Step, PayInv, TypeOK
<1> QED BY <1>2, <1>3, <1>4, OthersKeep

\* CreatePaymentRequest has a method of the two.
LEMMA CreatePaymentRequestKeeps ==
    ASSUME PayInv, NEW p \in Procs, NEW m \in Methods, NEW url \in BOOLEAN,
           CreatePaymentRequest(p, m, url)
    PROVE  PayInv'
<1> USE DEF CreatePaymentRequest, Step, tables, gateway, bounds
<1>1. TypeOK'
  BY DEF PayInv, TypeOK, Places
<1>2. CallOK(p)'
  BY DEF PayInv, TypeOK, CallOK, Active
<1>3. (\A q \in Procs : CallOK(q))'
  BY <1>2, OthersKeep DEF PayInv, TypeOK
<1> QED BY <1>1, <1>3, QuietKeeps DEF PayInv

\* The new row is PENDING, and the gateway has said nothing about it.
LEMMA CreateKeeps ==
    ASSUME PayInv, NEW p \in Procs, Create(p)
    PROVE  PayInv'
<1> DEFINE new == [method |-> request[p].method, url |-> request[p].url, status |-> "PENDING"]
<1>1. PICK ref \in Refs : ~Exists(ref) /\ row' = [row EXCEPT ![ref] = new]
  BY DEF Create
<1>2. request[p].method \in Methods /\ request[p].url \in BOOLEAN
  BY DEF Create, End, Step, PayInv, CallOK, TypeOK
<1>3. /\ End(p, "insert") /\ UNCHANGED <<sent, inFlight, gw, order>>
      /\ UNCHANGED <<opened, events, nextId, faults, repeats>>
  BY DEF Create, gateway, bounds
<1>4. new \in Row /\ row' \in [Refs -> Row]
  BY <1>1, <1>2 DEF PayInv, TypeOK, Statuses, Row
<1>5. TypeOK'
  BY <1>3, <1>4, EndKeeps DEF PayInv, TypeOK, Row
<1>6. \A r \in Refs : r # ref => row'[r] = row[r]
  BY <1>1 DEF PayInv, TypeOK
<1>7. row'[ref] = new
  BY <1>1 DEF PayInv, TypeOK
<1>8. (\A r \in Refs : RowOK(r))'
  <2> SUFFICES ASSUME NEW r \in Refs PROVE RowOK(r)'
    OBVIOUS
  <2>1. CASE r = ref
    BY <1>2, <1>3, <1>7, <2>1 DEF RowOK, Exists, Paid, PayInv
  <2>2. CASE r # ref
    BY <1>3, <1>6, <2>2 DEF RowOK, Exists, Paid, PayInv
  <2> QED BY <2>1, <2>2
<1>9. (\A n \in sent : SentOK(n))'
  BY <1>1, <1>3, <1>6 DEF PayInv, SentOK, Exists, Paid
<1> QED BY <1>3, <1>5, <1>8, <1>9, EndKeeps DEF PayInv

\* A webhook call works on a notification in flight, which was sent.
LEMMA WebhookKeeps ==
    ASSUME PayInv, NEW p \in Procs, NEW n \in inFlight, Webhook(p, n)
    PROVE  PayInv'
<1> USE DEF Webhook, Step, tables, gateway, bounds
<1>1. n \in sent /\ n \in Notification
  BY DEF PayInv, TypeOK
<1>2. TypeOK'
  BY <1>1 DEF PayInv, TypeOK, Places
<1>3. CallOK(p)'
  BY <1>1 DEF PayInv, TypeOK, CallOK, Active
<1>4. (\A q \in Procs : CallOK(q))'
  BY <1>3, OthersKeep DEF PayInv, TypeOK
<1> QED BY <1>2, <1>4, QuietKeeps DEF PayInv

\* The signature check passes the notification on or ends the call.
LEMMA VerifyKeeps ==
    ASSUME PayInv, NEW p \in Procs, Verify(p)
    PROVE  PayInv'
<1>1. UNCHANGED <<opened, row, events, nextId, gw, order, sent, inFlight, faults, repeats>>
  BY DEF Verify, tables, gateway, bounds
<1>2. CASE Step(p, "body", "find") /\ UNCHANGED <<request, notif, eventId>>
  <2>1. pc' \in [Procs -> Places] /\ (\A q \in Procs : CallOK(q))'
    BY <1>1, <1>2, StepKeeps DEF Active
  <2>2. TypeOK'
    BY <1>1, <1>2, <2>1 DEF PayInv, TypeOK
  <2> QED BY <1>1, <2>1, <2>2, QuietKeeps DEF PayInv
<1>3. CASE End(p, "body")
  <2>1. TypeOK'
    BY <1>1, <1>3, EndKeeps DEF PayInv, TypeOK
  <2> QED BY <1>1, <1>3, <2>1, EndKeeps, QuietKeeps DEF PayInv
<1> QED BY <1>2, <1>3 DEF Verify

\* The lookup passes only a notification of a known order that changes a status.
LEMMA GetByPaymentRefKeeps ==
    ASSUME PayInv, NEW p \in Procs, GetByPaymentRef(p)
    PROVE  PayInv'
<1>1. UNCHANGED <<opened, row, events, nextId, faults, repeats>>
  BY DEF GetByPaymentRef, tables, bounds
<1>2. CASE /\ notif[p].ref \in Refs /\ ~Ignored(notif[p])
           /\ Step(p, "find", "update") /\ UNCHANGED <<gateway, request, notif, eventId>>
  <2>1. UNCHANGED <<gw, order, sent, inFlight, request, notif, eventId>>
    BY <1>2 DEF gateway
  <2>2. pc' \in [Procs -> Places] /\ (\A q \in Procs : CallOK(q))'
    BY <1>2, <2>1, StepKeeps DEF Active
  <2>3. TypeOK'
    BY <1>1, <2>1, <2>2 DEF PayInv, TypeOK
  <2> QED BY <1>1, <2>1, <2>2, <2>3, QuietKeeps DEF PayInv
<1>3. CASE End(p, "find") /\ (Acknowledge(notif[p]) \/ UNCHANGED gateway)
  <2>1. UNCHANGED <<gw, order, sent>> /\ inFlight' \subseteq inFlight
    BY <1>3 DEF Acknowledge, gateway
  <2>2. TypeOK'
    BY <1>1, <1>3, <2>1, EndKeeps DEF PayInv, TypeOK
  <2> QED BY <1>1, <1>3, <2>1, <2>2, EndKeeps, QuietKeeps DEF PayInv
<1> QED BY <1>2, <1>3 DEF GetByPaymentRef

\* The UPDATE and the INSERT of the transaction change nothing that others see.
LEMMA TransactionKeeps ==
    ASSUME PayInv, NEW p \in Procs, UpdateStatusByPaymentRef(p) \/ InsertEvent(p)
    PROVE  PayInv'
<1>1. /\ UNCHANGED <<opened, row, events, gw, order, sent, inFlight, request, notif, faults, repeats>>
      /\ nextId' \in Nat /\ eventId' \in [Procs -> Nat]
  BY DEF UpdateStatusByPaymentRef, InsertEvent, tables, gateway, bounds, PayInv, TypeOK
<1>2. PICK from \in {"update", "event"}, to \in {"event", "commit"} : Step(p, from, to)
  BY DEF UpdateStatusByPaymentRef, InsertEvent
<1>3. notif[p].ref \in Refs /\ ~Ignored(notif[p])
  BY <1>2 DEF Step, PayInv, CallOK
<1>4. pc' \in [Procs -> Places] /\ (\A q \in Procs : CallOK(q))'
  BY <1>1, <1>2, <1>3, StepKeeps DEF Active
<1>5. TypeOK'
  BY <1>1, <1>4 DEF PayInv, TypeOK
<1> QED BY <1>1, <1>4, <1>5, QuietKeeps DEF PayInv

\* The row takes the status the notification asks for, which the gateway stands by.
LEMMA CommitFacts ==
    ASSUME PayInv, NEW p \in Procs, Commit(p)
    PROVE  LET n == notif[p]
               e == [id |-> eventId[p], ref |-> n.ref, type |-> eventType(n)]
           IN  /\ n.ref \in Refs /\ SentOK(n)
               /\ newStatus(n) \in {"SUCCESS", "FAILED"}
               /\ row'[n.ref] = [row[n.ref] EXCEPT !.status = newStatus(n)]
               /\ \A r \in Refs : r # n.ref => row'[r] = row[r]
               /\ row' \in [Refs -> Row]
               /\ events' = events \cup {e} /\ e \in Event
               /\ UNCHANGED <<opened, nextId, gw, order, sent, inFlight, request, notif,
                             eventId, faults, repeats>>
<1> DEFINE n == notif[p]
<1>1. pc[p] = "commit" /\ n \in sent /\ eventId[p] \in Nat
  BY DEF Commit, Step, PayInv, CallOK, Active, TypeOK
<1>2. n.ref \in Refs /\ ~Ignored(n) /\ SentOK(n)
  BY <1>1 DEF PayInv, CallOK
<1>3. newStatus(n) \in {"SUCCESS", "FAILED"}
  BY <1>2, StatusValues DEF Ignored
<1>4. row' = [row EXCEPT ![n.ref].status = newStatus(n)] /\ row \in [Refs -> Row]
  BY DEF Commit, PayInv, TypeOK, Row
<1>5. /\ row'[n.ref] = [row[n.ref] EXCEPT !.status = newStatus(n)]
      /\ \A r \in Refs : r # n.ref => row'[r] = row[r]
  BY <1>2, <1>4
<1>6. row' \in [Refs -> Row]
  BY <1>2, <1>3, <1>4 DEF Row, Statuses
<1>7. /\ events' = events \cup {[id |-> eventId[p], ref |-> n.ref, type |-> eventType(n)]}
      /\ UNCHANGED <<opened, nextId, gw, order, sent, inFlight, request, notif,
                    eventId, faults, repeats>>
  BY DEF Commit, gateway, bounds
<1>8. [id |-> eventId[p], ref |-> n.ref, type |-> eventType(n)] \in Event
  BY <1>1, <1>2 DEF eventType, Event
<1> QED BY <1>2, <1>3, <1>5, <1>6, <1>7, <1>8

\* The COMMIT of a status and its event keeps the invariant.
LEMMA CommitKeeps ==
    ASSUME PayInv, NEW p \in Procs, Commit(p)
    PROVE  PayInv'
<1> DEFINE n == notif[p]
           e == [id |-> eventId[p], ref |-> n.ref, type |-> eventType(n)]
<1>1. /\ n.ref \in Refs /\ SentOK(n) /\ newStatus(n) \in {"SUCCESS", "FAILED"}
      /\ row'[n.ref] = [row[n.ref] EXCEPT !.status = newStatus(n)]
      /\ \A r \in Refs : r # n.ref => row'[r] = row[r]
  BY CommitFacts
<1>2. row' \in [Refs -> Row] /\ row \in [Refs -> Row]
  BY CommitFacts DEF PayInv, TypeOK, Row
<1>3. /\ events' = events \cup {e} /\ e \in Event
      /\ UNCHANGED <<opened, nextId, gw, order, sent, inFlight, request, notif,
                    eventId, faults, repeats>>
  BY CommitFacts
<1>4. e.ref = n.ref
  OBVIOUS
<1>5. row'[n.ref].method = row[n.ref].method /\ row'[n.ref].status = newStatus(n)
  BY <1>1, <1>2 DEF Row
<1> HIDE DEF n, e
<1>6. pc' \in [Procs -> Places] /\ (\A q \in Procs : CallOK(q))'
  <2>1. Step(p, "commit", "read")
    BY DEF Commit
  <2> QED BY <1>3, <2>1, StepKeeps DEF Active
<1>7. TypeOK'
  BY <1>2, <1>3, <1>6 DEF PayInv, TypeOK, Row, Event
<1>8. (\A r \in Refs : RowOK(r))'
  <2> SUFFICES ASSUME NEW r \in Refs PROVE RowOK(r)'
    OBVIOUS
  <2>1. CASE r = n.ref
    BY <1>1, <1>3, <1>5, <2>1 DEF RowOK, SentOK, Exists, Paid, PayInv
  <2>2. CASE r # n.ref
    <3>1. row'[r] = row[r] /\ gw'[r] = gw[r] /\ order'[r] = order[r] /\ RowOK(r)
      BY <1>1, <1>3, <2>2 DEF PayInv
    <3>2. ~Exists(r) => \A f \in events' : f.ref # r
      BY <1>3, <1>4, <2>2, <3>1 DEF RowOK
    <3> QED BY <3>1, <3>2 DEF RowOK, Exists, Paid
  <2> QED BY <2>1, <2>2
<1>9. (\A k \in sent : SentOK(k))'
  <2> SUFFICES ASSUME NEW k \in sent, k.ref \in Refs PROVE SentOK(k)'
    BY <1>3 DEF SentOK
  <2>1. SentOK(k)
    BY DEF PayInv
  <2>2. row'[k.ref].method = row[k.ref].method /\ row'[k.ref].status # "NONE"
    BY <1>1, <1>5, <2>1 DEF SentOK, Exists
  <2> QED BY <1>3, <2>1, <2>2 DEF SentOK, Exists, Paid
<1> QED BY <1>6, <1>7, <1>8, <1>9 DEF PayInv

\* A call that ends, well or not, keeps the invariant.
LEMMA EndStepsKeep ==
    ASSUME PayInv, NEW p \in Procs, GetByID(p) \/ Fail(p)
    PROVE  PayInv'
<1>1. \E from : End(p, from)
  BY DEF GetByID, Fail
<1>2. /\ UNCHANGED <<opened, row, events, nextId, gw, order, sent, repeats>>
      /\ inFlight' \subseteq inFlight /\ faults' \in 0 .. MaxFaults
  <2>1. CASE GetByID(p)
    BY <2>1 DEF GetByID, Acknowledge, tables, bounds, PayInv, TypeOK
  <2>2. CASE Fail(p)
    BY <2>2, PaymentAssumption DEF Fail, tables, gateway, PayInv, TypeOK
  <2> QED BY <2>1, <2>2
<1>3. TypeOK'
  BY <1>1, <1>2, EndKeeps DEF PayInv, TypeOK
<1> QED BY <1>1, <1>2, <1>3, EndKeeps, QuietKeeps DEF PayInv

\* A payment the gateway learns of is not yet paid and has not failed.
LEMMA GatewayLearnsKeep ==
    ASSUME PayInv, NEW ref \in Refs, NEW o \in Order, GatewayLearns(ref, o)
    PROVE  PayInv'
<1>1. /\ Exists(ref) /\ gw[ref] = "unknown" /\ o.name \in {ref, None}
      /\ gw' = [gw EXCEPT ![ref] = "new"] /\ order' = [order EXCEPT ![ref] = o]
      /\ UNCHANGED <<opened, row, events, nextId, sent, inFlight, pc, request, notif, eventId,
                    faults, repeats>>
  BY DEF GatewayLearns, tables, calls, bounds
<1>2. /\ gw'[ref] = "new" /\ order'[ref] = o
      /\ \A r \in Refs : r # ref => gw'[r] = gw[r] /\ order'[r] = order[r]
  BY <1>1 DEF PayInv, TypeOK
<1>3. \A r \in Refs : /\ Paid(r) => Paid(r)'
                      /\ gw[r] = "failed" => gw'[r] = "failed"
  BY <1>1, <1>2 DEF Paid
<1>4. TypeOK'
  BY <1>1 DEF PayInv, TypeOK, GatewayStates
<1>5. (\A r \in Refs : RowOK(r))'
  BY <1>1, <1>2, <1>3 DEF PayInv, RowOK, Exists
<1>6. (\A k \in sent : SentOK(k))'
  BY <1>1, <1>3 DEF PayInv, SentOK, Exists
<1>7. (\A q \in Procs : CallOK(q))'
  BY <1>1 DEF PayInv, CallOK
<1> QED BY <1>4, <1>5, <1>6, <1>7 DEF PayInv

\* A move of the gateway keeps what its earlier notifications said.
LEMMA GatewayMovesKeep ==
    ASSUME PayInv, NEW ref \in Refs, NEW m \in Methods, NEW move \in Moves[m],
           GatewayMoves(ref, move)
    PROVE  PayInv'
<1> DEFINE mm == row[ref].method
           n == [ref |-> order[ref].name, txn |-> move[3], fraud |-> move[4],
                 signed |-> order[ref].signed]
<1>1. mm \in Methods /\ move \in Moves[mm] /\ Exists(ref)
  BY DEF GatewayMoves, PayInv, RowOK
<1>2. order[ref] \in Order /\ order[ref].name \in {ref, None}
  BY DEF PayInv, TypeOK, RowOK
<1>3. /\ n \in Notification
      /\ move[2] \in GatewayStates
      /\ move[2] # "unknown" /\ move[1] \notin {"failed", "unknown"}
      /\ move[1] \in {"paid", "refunded"} => move[2] = "refunded"
      /\ newStatus(n) = "SUCCESS" => move[2] = "paid"
      /\ newStatus(n) = "FAILED" /\ mm = "QRIS" => move[2] = "failed"
  BY <1>1, <1>2, MoveFacts
<1>4. /\ gw[ref] = move[1] /\ gw' = [gw EXCEPT ![ref] = move[2]]
      /\ sent' = sent \cup {n} /\ inFlight' = inFlight \cup {n}
      /\ UNCHANGED <<opened, row, events, nextId, order, pc, request, notif, eventId,
                    faults, repeats>>
  BY DEF GatewayMoves, Send, tables, calls, bounds
<1>5. n.ref \in {ref, None}
  BY <1>2
<1> HIDE DEF n, mm
<1>6. TypeOK'
  BY <1>3, <1>4 DEF PayInv, TypeOK
<1>7. gw'[ref] = move[2] /\ \A r \in Refs : r # ref => gw'[r] = gw[r]
  BY <1>4 DEF PayInv, TypeOK
<1>8. \A r \in Refs : /\ Paid(r) => Paid(r)'
                      /\ gw[r] = "failed" => gw'[r] = "failed"
  BY <1>3, <1>4, <1>7 DEF Paid
<1>9. (\A r \in Refs : RowOK(r))'
  BY <1>1, <1>4, <1>7, <1>8 DEF PayInv, RowOK, Exists
<1>10. (\A k \in sent : SentOK(k))'
  <2> SUFFICES ASSUME NEW k \in sent' PROVE SentOK(k)'
    OBVIOUS
  <2>1. CASE k \in sent
    BY <1>4, <1>8, <2>1 DEF PayInv, SentOK, Exists
  <2>2. CASE k = n
    BY <1>1, <1>3, <1>4, <1>5, <1>7, <2>2, PaymentAssumption DEF SentOK, Exists, Paid, mm
  <2> QED BY <1>4, <2>1, <2>2
<1>11. (\A q \in Procs : CallOK(q))'
  BY <1>4 DEF PayInv, CallOK
<1> QED BY <1>6, <1>9, <1>10, <1>11 DEF PayInv

\* A repeated notification says nothing new about a request.
LEMMA OtherStepsKeep ==
    ASSUME PayInv, InvoiceOpened \/ (\E n \in sent : GatewayRepeats(n)) \/ UNCHANGED vars
    PROVE  PayInv'
<1>1. CASE InvoiceOpened \/ UNCHANGED vars
  <2>1. /\ UNCHANGED <<row, events, nextId, gw, order, sent, inFlight,
                      pc, request, notif, eventId, faults, repeats>>
        /\ opened' \in BOOLEAN
    BY <1>1 DEF InvoiceOpened, vars, gateway, calls, bounds, PayInv, TypeOK
  <2>2. TypeOK'
    BY <2>1 DEF PayInv, TypeOK
  <2>3. (\A q \in Procs : CallOK(q))'
    BY <2>1 DEF PayInv, CallOK
  <2> QED BY <2>1, <2>2, <2>3, QuietKeeps DEF PayInv
<1>2. ASSUME NEW n \in sent, GatewayRepeats(n) PROVE PayInv'
  <2>1. /\ sent' = sent /\ inFlight' = inFlight \cup {n}
        /\ repeats < MaxRepeats /\ repeats' = repeats + 1
        /\ UNCHANGED <<opened, row, events, nextId, gw, order, pc, request, notif, eventId, faults>>
    BY <1>2 DEF GatewayRepeats, Send, tables, calls
  <2>2. TypeOK'
    BY <2>1, PaymentAssumption DEF PayInv, TypeOK
  <2>3. (\A q \in Procs : CallOK(q))'
    BY <2>1 DEF PayInv, CallOK
  <2> QED BY <2>1, <2>2, <2>3, QuietKeeps DEF PayInv
<1> QED BY <1>1, <1>2

\* Every step keeps the invariant.
LEMMA PayStep == PayInv /\ [Next]_vars => PayInv'
<1> SUFFICES ASSUME PayInv, [Next]_vars PROVE PayInv'
  OBVIOUS
<1>1. ASSUME NEW p \in Procs, NEW m \in Methods, NEW url \in BOOLEAN,
             CreatePaymentRequest(p, m, url)
      PROVE  PayInv'
  BY <1>1, CreatePaymentRequestKeeps
<1>2. ASSUME NEW p \in Procs, NEW n \in inFlight, Webhook(p, n) PROVE PayInv'
  BY <1>2, WebhookKeeps
<1>3. ASSUME NEW p \in Procs, Work(p) \/ Fail(p) PROVE PayInv'
  BY <1>3, CreateKeeps, VerifyKeeps, GetByPaymentRefKeeps, TransactionKeeps, CommitKeeps,
     EndStepsKeep DEF Work
<1>4. ASSUME NEW ref \in Refs, NEW o \in Order, GatewayLearns(ref, o) PROVE PayInv'
  BY <1>4, GatewayLearnsKeep
<1>5. ASSUME NEW ref \in Refs, NEW m \in Methods, NEW move \in Moves[m], GatewayMoves(ref, move)
      PROVE  PayInv'
  BY <1>5, GatewayMovesKeep
<1> QED BY <1>1, <1>2, <1>3, <1>4, <1>5, OtherStepsKeep DEF Next

\* The inductive invariant holds in every behaviour.
THEOREM PaymentInvariant == Spec => []PayInv
BY PayInit, PayStep, PTL DEF Spec

\* Type correctness of the payment requests, their calls and the gateway.
THEOREM PaymentTypes == Spec => []TypeOK
<1>1. PayInv => TypeOK
  BY DEF PayInv
<1> QED BY <1>1, PaymentInvariant, PTL

\* Whatever the order and the number of notifications, a request is SUCCESS only when the
\* gateway has taken the money and a QRIS request FAILED only when it has not
\* (HandlePaymentNotification).
THEOREM StatusFollows == Spec => []StatusFollowsGateway
<1>1. PayInv => StatusFollowsGateway
  BY DEF PayInv, RowOK, StatusFollowsGateway
<1> QED BY <1>1, PaymentInvariant, PTL

-----------------------------------------------------------------------------
(* Events and final outcomes                                               *)

\* Only Create and a COMMIT write a row or show an event.
LEMMA QuietSteps ==
    ASSUME [Next]_vars, \A p \in Procs : ~Commit(p) /\ ~Create(p)
    PROVE  row' = row /\ events' = events
BY DEF Next, Work, vars, tables, InvoiceOpened, CreatePaymentRequest, Webhook, Verify,
       GetByPaymentRef, UpdateStatusByPaymentRef, InsertEvent, GetByID, Fail,
       GatewayLearns, GatewayMoves, GatewayRepeats

\* A QRIS request that has its outcome keeps it in every step: the notification that
\* a late call applies asks for the same one.
LEMMA OutcomeStep ==
    ASSUME PayInv, [Next]_vars, NEW ref \in Refs,
           row[ref].method = "QRIS", row[ref].status \in {"SUCCESS", "FAILED"}
    PROVE  row'[ref] = row[ref]
<1>1. ASSUME NEW p \in Procs, Commit(p) PROVE row'[ref] = row[ref]
  <2> DEFINE n == notif[p]
  <2>1. CASE ref # n.ref
    BY <1>1, <2>1, CommitFacts
  <2>2. CASE ref = n.ref
    <3>1. /\ SentOK(n) /\ newStatus(n) \in {"SUCCESS", "FAILED"}
          /\ row'[ref] = [row[ref] EXCEPT !.status = newStatus(n)]
      BY <1>1, <2>2, CommitFacts
    <3>2. RowOK(ref)
      BY DEF PayInv
    <3>3. newStatus(n) = row[ref].status
      BY <2>2, <3>1, <3>2 DEF SentOK, RowOK, Paid
    <3>4. row[ref] \in Row
      BY DEF PayInv, TypeOK, Row
    <3> QED BY <3>1, <3>3, <3>4 DEF Row
  <2> QED BY <2>1, <2>2
<1>2. ASSUME NEW p \in Procs, Create(p) PROVE row'[ref] = row[ref]
  BY <1>2 DEF Create, Exists, PayInv, TypeOK
<1>3. CASE \A p \in Procs : ~Commit(p) /\ ~Create(p)
  BY <1>3, QuietSteps
<1> QED BY <1>1, <1>2, <1>3

\* The outcome of a QRIS payment never changes again.
THEOREM OutcomeIsFinal == Spec => QrisOutcomeIsFinal
<1>1. PayInv /\ [Next]_vars =>
         [\A ref \in Refs :
             row[ref].method = "QRIS" /\ row[ref].status \in {"SUCCESS", "FAILED"}
             => row'[ref] = row[ref]]_vars
  BY OutcomeStep
<1> QED BY <1>1, PaymentInvariant, PTL DEF Spec, QrisOutcomeIsFinal

\* A call whose transaction has updated its row.
Writes(p) == pc[p] \in {"event", "commit"}

\* A row is written by one transaction at a time, and the event that a transaction has
\* inserted comes after every committed event of its request.
IdsOK ==
    /\ \A e \in events : e.id < nextId
    /\ \A p \in Procs : pc[p] = "commit" =>
          /\ eventId[p] < nextId
          /\ \A e \in events : e.ref = notif[p].ref => e.id < eventId[p]
    /\ \A p, q \in Procs : Writes(p) /\ Writes(q) /\ notif[p].ref = notif[q].ref => p = q

\* A step in which no transaction moves keeps the order of the ids.
LEMMA IdsKeep ==
    ASSUME IdsOK, UNCHANGED <<events, nextId>>,
           \A q \in Procs : Writes(q)' =>
               pc'[q] = pc[q] /\ notif'[q] = notif[q] /\ eventId'[q] = eventId[q]
    PROVE  IdsOK'
BY DEF IdsOK, Writes

\* Every step keeps the order of the ids.
LEMMA IdsStep ==
    ASSUME PayInv, IdsOK, [Next]_vars
    PROVE  IdsOK'
<1>0. TypeOK
  BY DEF PayInv
<1>1. ASSUME NEW p \in Procs, UpdateStatusByPaymentRef(p) PROVE IdsOK'
  <2>1. /\ UNCHANGED <<events, nextId, notif, eventId>> /\ Holders(notif[p].ref) = {}
        /\ pc[p] = "update" /\ pc'[p] = "event" /\ \A q \in Procs \ {p} : pc'[q] = pc[q]
    BY <1>0, <1>1 DEF UpdateStatusByPaymentRef, Step, tables, TypeOK
  <2>2. \A q \in Procs : Writes(q) => notif[q].ref # notif[p].ref
    BY <2>1 DEF Holders, Writes
  <2>3. \A q, r \in Procs : Writes(q)' /\ Writes(r)' /\ notif'[q].ref = notif'[r].ref => q = r
    BY <2>1, <2>2 DEF IdsOK, Writes
  <2>4. \A q \in Procs : pc'[q] = "commit" => pc[q] = "commit"
    BY <2>1
  <2> QED BY <2>1, <2>3, <2>4 DEF IdsOK
<1>2. ASSUME NEW p \in Procs, InsertEvent(p) PROVE IdsOK'
  <2>1. /\ UNCHANGED <<events, notif>> /\ nextId' = nextId + 1 /\ nextId \in Nat
        /\ eventId'[p] = nextId /\ pc[p] = "event" /\ pc'[p] = "commit"
        /\ \A q \in Procs \ {p} : pc'[q] = pc[q] /\ eventId'[q] = eventId[q]
    BY <1>0, <1>2 DEF InsertEvent, Step, TypeOK
  <2>2. \A q \in Procs : eventId[q] \in Nat
    BY <1>0 DEF TypeOK
  <2>3. \A e \in events : e.id \in Nat
    BY <1>0 DEF TypeOK
  <2>4. \A q \in Procs : Writes(q)' => Writes(q)
    BY <2>1 DEF Writes
  <2>5. \A q \in Procs : pc'[q] = "commit" =>
           /\ eventId'[q] < nextId'
           /\ \A e \in events : e.ref = notif[q].ref => e.id < eventId'[q]
    BY <2>1, <2>2, <2>3 DEF IdsOK
  <2>6. \A e \in events : e.id < nextId'
    BY <2>1, <2>3 DEF IdsOK
  <2> QED BY <2>1, <2>4, <2>5, <2>6 DEF IdsOK
<1>3. ASSUME NEW p \in Procs, Commit(p) PROVE IdsOK'
  <2> DEFINE e == [id |-> eventId[p], ref |-> notif[p].ref, type |-> eventType(notif[p])]
  <2>1. events' = events \cup {e} /\ UNCHANGED <<nextId, notif, eventId>>
    BY <1>3, CommitFacts
  <2>2. pc[p] = "commit" /\ pc'[p] = "read" /\ \A q \in Procs \ {p} : pc'[q] = pc[q]
    BY <1>0, <1>3 DEF Commit, Step, TypeOK
  <2>3. e.id = eventId[p] /\ e.ref = notif[p].ref /\ e.id < nextId
    BY <2>2 DEF IdsOK
  <2> HIDE DEF e
  <2>4. \A q \in Procs : Writes(q)' => q # p /\ Writes(q) /\ notif[q].ref # e.ref
    BY <2>2, <2>3 DEF IdsOK, Writes
  <2>5. \A q \in Procs : pc'[q] = "commit" => Writes(q)' /\ pc[q] = "commit"
    BY <2>2 DEF Writes
  <2>6. \A q \in Procs : pc'[q] = "commit" =>
           /\ eventId[q] < nextId
           /\ \A f \in events' : f.ref = notif[q].ref => f.id < eventId[q]
    BY <2>1, <2>4, <2>5 DEF IdsOK
  <2>7. \A f \in events' : f.id < nextId
    BY <2>1, <2>3 DEF IdsOK
  <2> QED BY <2>1, <2>4, <2>6, <2>7 DEF IdsOK
<1>4. ASSUME NEW p \in Procs, NEW from, End(p, from), UNCHANGED <<events, nextId>> PROVE IdsOK'
  <2>1. pc'[p] = "idle" /\ \A q \in Procs \ {p} :
           pc'[q] = pc[q] /\ notif'[q] = notif[q] /\ eventId'[q] = eventId[q]
    BY <1>0, <1>4 DEF End, Step, TypeOK
  <2> QED BY <1>4, <2>1, IdsKeep DEF Writes
<1>5. ASSUME NEW p \in Procs, NEW from, NEW to \in {"insert", "body", "find", "update"},
             Step(p, from, to), UNCHANGED <<events, nextId, eventId>>,
             \A q \in Procs \ {p} : notif'[q] = notif[q]
      PROVE  IdsOK'
  <2>1. pc'[p] = to /\ \A q \in Procs \ {p} : pc'[q] = pc[q]
    BY <1>0, <1>5 DEF Step, TypeOK
  <2> QED BY <1>5, <2>1, IdsKeep DEF Writes
<1>6. ASSUME NEW p \in Procs, NEW m \in Methods, NEW url \in BOOLEAN, CreatePaymentRequest(p, m, url)
      PROVE  IdsOK'
  BY <1>5, <1>6 DEF CreatePaymentRequest, tables
<1>7. ASSUME NEW p \in Procs, NEW n \in inFlight, Webhook(p, n) PROVE IdsOK'
  <2>1. /\ Step(p, "idle", "body") /\ UNCHANGED <<events, nextId, eventId>>
        /\ \A q \in Procs \ {p} : notif'[q] = notif[q]
    BY <1>0, <1>7 DEF Webhook, tables, TypeOK
  <2> QED BY <1>5, <2>1
<1>8. ASSUME NEW p \in Procs, Create(p) \/ GetByID(p) \/ Fail(p) PROVE IdsOK'
  BY <1>4, <1>8 DEF Create, GetByID, Fail, tables
<1>9. ASSUME NEW p \in Procs, Verify(p) PROVE IdsOK'
  <2>1. UNCHANGED <<events, nextId>>
    BY <1>9 DEF Verify, tables
  <2> QED BY <1>4, <1>5, <1>9, <2>1 DEF Verify
<1>10. ASSUME NEW p \in Procs, GetByPaymentRef(p) PROVE IdsOK'
  <2>1. UNCHANGED <<events, nextId>>
    BY <1>10 DEF GetByPaymentRef, tables
  <2> QED BY <1>4, <1>5, <1>10, <2>1 DEF GetByPaymentRef
<1>11. ASSUME UNCHANGED <<events, nextId, pc, notif, eventId>> PROVE IdsOK'
  BY <1>11, IdsKeep
<1>12. CASE \/ InvoiceOpened \/ UNCHANGED vars \/ \E n \in sent : GatewayRepeats(n)
            \/ \E ref \in Refs, o \in Order : GatewayLearns(ref, o)
            \/ \E ref \in Refs, m \in Methods : \E move \in Moves[m] : GatewayMoves(ref, move)
  BY <1>11, <1>12 DEF InvoiceOpened, vars, GatewayRepeats, GatewayLearns, GatewayMoves, tables, calls
<1> QED BY <1>1, <1>2, <1>3, <1>6, <1>7, <1>8, <1>9, <1>10, <1>12 DEF Next, Work

\* What the events tell about one request.
EventsTell(ref) ==
    LET own == {e \in events : e.ref = ref}
    IN  Exists(ref) =>
          IF own = {} THEN row[ref].status = "PENDING"
          ELSE \E e \in own :
                  /\ \A f \in own : f.id <= e.id
                  /\ e.type = IF row[ref].status = "SUCCESS"
                              THEN EvtPaymentSuccess ELSE EvtPaymentFailed

\* Every step keeps what the events tell of a request: a COMMIT brings a status and an
\* event that says so and has the greatest id.
LEMMA TellStep ==
    ASSUME PayInv, IdsOK, LastEventIsStatus, [Next]_vars, NEW ref \in Refs
    PROVE  EventsTell(ref)'
<1>0. EventsTell(ref)
  BY DEF LastEventIsStatus, EventsTell
<1>1. ASSUME NEW p \in Procs, Commit(p) PROVE EventsTell(ref)'
  <2> DEFINE n == notif[p]
             e == [id |-> eventId[p], ref |-> n.ref, type |-> eventType(n)]
  <2>1. /\ n.ref \in Refs /\ newStatus(n) \in {"SUCCESS", "FAILED"}
        /\ row'[n.ref] = [row[n.ref] EXCEPT !.status = newStatus(n)]
        /\ \A r \in Refs : r # n.ref => row'[r] = row[r]
        /\ events' = events \cup {e} /\ e \in Event
    BY <1>1, CommitFacts
  <2>2. e.ref = n.ref /\ e.id \in Nat /\ e.type = eventType(n)
    BY <2>1 DEF Event
  <2>3. \A f \in events : f.ref = n.ref => f.id < e.id
    BY <1>1 DEF Commit, Step, IdsOK
  <2>4. \A f \in events : f.id \in Nat
    BY DEF PayInv, TypeOK
  <2>5. row'[n.ref].status = newStatus(n)
    BY <2>1 DEF PayInv, TypeOK
  <2> HIDE DEF e
  <2>6. CASE ref # n.ref
    <3>1. {f \in events' : f.ref = ref} = {f \in events : f.ref = ref}
      BY <2>1, <2>2, <2>6
    <3>2. row'[ref] = row[ref]
      BY <2>1, <2>6
    <3> QED BY <1>0, <3>1, <3>2 DEF EventsTell, Exists
  <2>7. CASE ref = n.ref
    <3>1. e \in {f \in events' : f.ref = ref}
      BY <2>1, <2>2, <2>7
    <3>2. \A f \in {f \in events' : f.ref = ref} : f.id <= e.id
      BY <2>1, <2>2, <2>3, <2>4, <2>7
    <3>3. e.type = IF row'[ref].status = "SUCCESS" THEN EvtPaymentSuccess ELSE EvtPaymentFailed
      BY <2>2, <2>5, <2>7 DEF eventType
    <3> QED BY <3>1, <3>2, <3>3 DEF EventsTell
  <2> QED BY <2>6, <2>7
<1>2. ASSUME NEW p \in Procs, Create(p) PROVE EventsTell(ref)'
  <2>1. PICK r \in Refs :
           /\ ~Exists(r)
           /\ row' = [row EXCEPT ![r] = [method |-> request[p].method, url |-> request[p].url,
                                        status |-> "PENDING"]]
    BY <1>2 DEF Create
  <2>2. events' = events
    BY <1>2 DEF Create
  <2>3. CASE ref = r
    <3>1. {e \in events : e.ref = ref} = {}
      BY <2>1, <2>3 DEF PayInv, RowOK
    <3>2. row'[ref].status = "PENDING"
      BY <2>1, <2>3 DEF PayInv, TypeOK
    <3> QED BY <2>2, <3>1, <3>2 DEF EventsTell
  <2>4. CASE ref # r
    <3>1. row'[ref] = row[ref]
      BY <2>1, <2>4 DEF PayInv, TypeOK
    <3> QED BY <1>0, <2>2, <3>1 DEF EventsTell, Exists
  <2> QED BY <2>3, <2>4
<1>3. CASE \A p \in Procs : ~Commit(p) /\ ~Create(p)
  <2>1. row' = row /\ events' = events
    BY <1>3, QuietSteps
  <2> QED BY <1>0, <2>1 DEF EventsTell, Exists
<1> QED BY <1>1, <1>2, <1>3

\* The event with the greatest id tells the status of its request, however notifications
\* interleave (UpdateStatusByPaymentRef's transaction).
THEOREM LastEventTells == Spec => []LastEventIsStatus
<1>1. Init => IdsOK /\ LastEventIsStatus
  BY DEF Init, IdsOK, Writes, LastEventIsStatus, Exists, NoRow
<1>2. PayInv /\ IdsOK /\ LastEventIsStatus /\ [Next]_vars => (IdsOK /\ LastEventIsStatus)'
  BY IdsStep, TellStep DEF EventsTell, LastEventIsStatus
<1> QED BY <1>1, <1>2, PaymentInvariant, PTL DEF Spec
=============================================================================
