----------------------------- MODULE ApiProofs ------------------------------
(***************************************************************************)
(* The servers keep to the ledger's specification, and answer one invoice  *)
(* per key, for any number of calls, keys and reservations.                *)
(***************************************************************************)
EXTENDS Api, LedgerProofs

\* What the calls carry: a key in front of the store, and one its caller may use for
\* the reservation.
RpcOK ==
    /\ rpc \in [Procs -> Rpc]
    /\ \A p \in Procs : rpc[p].stage = "store_get" =>
          /\ rpc[p].key \in Keys
          /\ rpc[p].res = None \/ (rpc[p].res \in Reservations /\ rpc[p].key \in KeysOf[rpc[p].res])

\* The inductive invariant of the ledger is kept by each of its steps.
LEMMA IndInvStep == IndInv /\ [Next]_vars => IndInv'
<1> SUFFICES ASSUME IndInv, [Next]_vars PROVE IndInv'
  OBVIOUS
<1>1. TypeInv /\ MoneyInv
  BY DEF IndInv, TypeInv, MoneyInv
<1>2. TypeInv' /\ MoneyInv'
  BY <1>1, TypeStep, MoneyStep
<1> QED
  BY <1>2 DEF IndInv, TypeInv, MoneyInv

\* A step of the servers is a step of the ledger or leaves the ledger alone.
LEMMA ApiStepIsLedgerStep == RpcOK /\ [ApiNext]_avars => [Next]_vars
<1> SUFFICES ASSUME RpcOK, [ApiNext]_avars PROVE [Next]_vars
  OBVIOUS
<1>1. CASE UNCHANGED avars
  BY <1>1 DEF avars
<1>2. ASSUME NEW p \in Procs, StoreGet(p) PROVE [Next]_vars
  <2>1. CASE UNCHANGED vars
    BY <2>1
  <2>2. CASE CallOpenBlank(p)
    BY <2>2 DEF Next, Call
  <2>3. CASE rpc[p].res # None /\ CallOpen(p, rpc[p].res, rpc[p].key)
    <3>1. rpc[p].res \in Reservations /\ rpc[p].key \in KeysOf[rpc[p].res]
      BY <1>2, <2>3 DEF StoreGet, RpcOK
    <3>2. Call(p)
      BY <2>3, <3>1 DEF Call
    <3> QED
      BY <3>2 DEF Next
  <2> QED
    BY <1>2, <2>1, <2>2, <2>3 DEF StoreGet
<1>3. ASSUME NEW p \in Procs, Unguarded(p) PROVE [Next]_vars
  <2>1. Call(p)
    BY <1>3, Zenon DEF Unguarded, Call
  <2> QED
    BY <2>1 DEF Next
<1>4. ASSUME NEW p \in Procs, NEW i \in InvoiceIds, HttpById(p, i) PROVE [Next]_vars
  <2>1. Call(p)
    BY <1>4, Zenon DEF HttpById, Call
  <2> QED
    BY <2>1 DEF Next
<1>5. ASSUME NEW p \in Procs, HttpFind(p) PROVE [Next]_vars
  <2>1. Call(p) \/ UNCHANGED vars
    BY <1>5, Zenon DEF HttpFind, Call
  <2> QED
    BY <2>1 DEF Next
<1>6. ASSUME NEW p \in Procs,
             Statement(p) \/ HandlerFails(p) \/ HandlerReturns(p) \/ HttpReturns(p)
      PROVE  [Next]_vars
  <2>1. LockStep(p) \/ FreeStep(p) \/ Fail(p)
    BY <1>6, Zenon DEF Statement, HandlerFails, HandlerReturns, HttpReturns, FreeStep
  <2> QED
    BY <2>1 DEF Next
<1>7. ASSUME NEW p \in Procs, NEW r, NEW k,
             OpenInvoice(p, r, k) \/ StorePut(p) \/ HttpByReservation(p, r) \/ Sent(p)
      PROVE  [Next]_vars
  BY <1>7, Zenon DEF OpenInvoice, StorePut, HttpByReservation, Sent
<1>8. ASSUME NEW p \in Procs, StorePut(p) \/ Sent(p) PROVE [Next]_vars
  BY <1>8, Zenon DEF StorePut, Sent
<1> QED
  BY <1>1, <1>2, <1>3, <1>4, <1>5, <1>6, <1>7, <1>8, Zenon DEF ApiNext

\* A request that is done has an answer.
RepliesOK == \A p \in Procs : pc[p] = "done" => reply[p] # "none"

\* Every way to the end of a request sets its answer.
LEMMA RepliesStep == IndInv /\ RepliesOK /\ [Next]_vars => RepliesOK'
<1> SUFFICES ASSUME IndInv, RepliesOK, [Next]_vars, NEW q \in Procs, pc'[q] = "done"
             PROVE  reply'[q] # "none"
  BY DEF RepliesOK
<1> USE DEF IndInv, TypeOK
<1>1. CASE UNCHANGED vars
  BY <1>1 DEF vars, RepliesOK
<1>2. ASSUME NEW p \in Procs, Call(p) PROVE reply'[q] # "none"
  <2>1. \/ Answer(p, "validation", NoView)
        \/ \E r, i : Begin(p, "open_insert", r, i)
        \/ \E r, i : Begin(p, "close_find", r, i)
        \/ \E r, i : Begin(p, "fee_find", r, i)
        \/ \E r, i : Begin(p, "close_lock", r, i)
        \/ \E r, i : Begin(p, "get_row", r, i)
    BY <1>2, Zenon DEF Call, CallOpenBlank, CallOpen, CallCheckedOut, CallCancelFee,
                       CallNoShowFee, CallClose, CallGet
  <2> QED
    BY <2>1 DEF Answer, Begin, Goto, RepliesOK
<1>3. ASSUME NEW p \in Procs, Fail(p) \/ fetchLines(p) \/ OpenReplay(p) \/ OpenFind(p)
                              \/ CloseFind(p) \/ FeeFind(p) \/ Return(p)
      PROVE  reply'[q] # "none"
  BY <1>3 DEF Fail, fetchLines, OpenReplay, OpenFind, CloseFind, FeeFind, Return,
              Answer, WorkOn, Goto, RepliesOK
<1>4. ASSUME NEW p \in Procs, CloseLock(p) \/ AppendInsert(p) \/ GetRow(p)
      PROVE  reply'[q] # "none"
  BY <1>4 DEF CloseLock, AppendInsert, GetRow, Answer, WorkOn, Goto, RepliesOK
<1>5. ASSUME NEW p \in Procs, OpenInsert(p) \/ CloseWrite(p) \/ AppendCommit(p)
      PROVE  reply'[q] # "none"
  BY <1>5 DEF OpenInsert, CloseWrite, AppendCommit, Goto, RepliesOK
<1> QED
  BY <1>1, <1>2, <1>3, <1>4, <1>5 DEF Next, LockStep, FreeStep

\* mapError has a status for every answer.
LEMMA mapErrorType ==
    ASSUME NEW r \in Replies, r # "none"
    PROVE  mapError(r) \subseteq Codes /\ (r # "ok" => "OK" \notin mapError(r))
BY DEF Replies, mapError, Codes

\* The calls stay well-formed, whatever the chain does with them.
LEMMA RpcStep == IndInv /\ IndInv' /\ RepliesOK /\ RpcOK /\ [ApiNext]_avars => RpcOK'
<1> SUFFICES ASSUME IndInv, IndInv', RepliesOK, RpcOK, [ApiNext]_avars PROVE RpcOK'
  OBVIOUS
<1> USE DEF RpcOK
<1>0. NoRpc \in Rpc
  BY LedgerAssumption DEF NoRpc, Rpc, Stages, Codes
<1>1. CASE UNCHANGED avars
  BY <1>1 DEF avars
<1>3. ASSUME NEW p \in Procs, NEW stage \in Stages, stage # "store_get", Goes(p, stage)
      PROVE  RpcOK'
  BY <1>3 DEF Goes, Rpc
<1>4. ASSUME NEW p \in Procs, NEW code \in Codes, Respond(p, code) PROVE RpcOK'
  BY <1>4 DEF Respond, Rpc, Stages
<1>5. ASSUME NEW p \in Procs, NEW r \in Reservations \cup {None}, NEW k \in Keys \cup {None},
             r # None /\ k # None => k \in KeysOf[r],
             OpenInvoice(p, r, k)
      PROVE  RpcOK'
  BY <1>5, <1>0 DEF OpenInvoice, Rpc, NoRpc, Stages, Codes
<1>6. ASSUME NEW p \in Procs, NEW r \in Reservations \cup {None}, HttpByReservation(p, r)
      PROVE  RpcOK'
  BY <1>6, <1>0 DEF HttpByReservation, Rpc, NoRpc, Stages, Codes
<1>7. ASSUME NEW p \in Procs, StoreGet(p) \/ Unguarded(p) PROVE RpcOK'
  <2>1. CASE Goes(p, "handler")
    BY <2>1, <1>3 DEF Stages
  <2> QED
    BY <1>7, <2>1 DEF StoreGet, Unguarded, protoZero
<1>8. ASSUME NEW p \in Procs, NEW i \in InvoiceIds, HttpById(p, i) PROVE RpcOK'
  BY <1>8, <1>3 DEF HttpById, Stages
<1>9. ASSUME NEW p \in Procs, Statement(p) PROVE RpcOK'
  <2>1. cur[p] \in InvoiceIds \cup {None} /\ cur'[p] \in InvoiceIds \cup {None}
    BY DEF IndInv, TypeOK
  <2>2. PICK i \in InvoiceIds \cup {None} : rpc' = [rpc EXCEPT ![p].inv = i]
    BY <1>9, <2>1 DEF Statement
  <2> QED
    BY <1>9, <2>2 DEF Statement, Rpc
<1>10. ASSUME NEW p \in Procs, HandlerFails(p) PROVE RpcOK'
  BY <1>10 DEF HandlerFails
<1>11. ASSUME NEW p \in Procs, HandlerReturns(p) PROVE RpcOK'
  <2>1. reply[p] \in Replies /\ reply[p] # "none"
    BY <1>11 DEF HandlerReturns, Return, RepliesOK, IndInv, TypeOK
  <2> QED
    BY <1>11, <2>1, <1>3, <1>4, mapErrorType DEF HandlerReturns, Stages
<1>12. ASSUME NEW p \in Procs, StorePut(p) \/ HttpReturns(p) PROVE RpcOK'
  BY <1>12, <1>4 DEF StorePut, HttpReturns, Codes
<1>13. ASSUME NEW p \in Procs, HttpFind(p) PROVE RpcOK'
  BY <1>13, <1>3, <1>4 DEF HttpFind, Stages, Codes
<1>14. ASSUME NEW p \in Procs, Sent(p) PROVE RpcOK'
  BY <1>14, <1>0 DEF Sent, NoRpc
<1>15. \A r \in Reservations : \A k \in KeysOf[r] : k \in Keys
  BY LedgerAssumption
<1> QED
  BY <1>1, <1>5, <1>6, <1>7, <1>8, <1>9, <1>10, <1>11, <1>12, <1>13, <1>14, <1>15
  DEF ApiNext

-----------------------------------------------------------------------------
\* Invoice i was opened under key k.
HasKey(i, k) == i \in InvoiceIds /\ Exists(i) /\ invoice[i].key = k

\* ... after the step.
HasKeyNow(i, k) == i \in InvoiceIds /\ invoice'[i].status # "NONE" /\ invoice'[i].key = k

\* No two invoices have the same key.
KeyUnique ==
    \A i, j \in InvoiceIds : Exists(i) /\ Exists(j) /\ invoice[i].key = invoice[j].key => i = j

\* What a keyed call has in its hands is an invoice of its key.
KeyedOK(p) ==
    /\ rpc[p].stage \in {"idle", "http_find", "http"} => rpc[p].key = None
    /\ rpc[p].stage = "handler" /\ rpc[p].key # None =>
          /\ pc[p] \in {"open_insert", "open_find", "get_row", "get_lines", "done"}
          /\ pc[p] \in {"open_insert", "open_find"} => req[p].key = rpc[p].key
          /\ pc[p] \in {"get_row", "get_lines"} => HasKey(cur[p], rpc[p].key)
          /\ pc[p] = "done" /\ reply[p] = "ok" => HasKey(rpc[p].inv, rpc[p].key)
    /\ rpc[p].stage = "store_put" => rpc[p].key # None /\ HasKey(rpc[p].inv, rpc[p].key)

\* What is cached or has been told under a key is an invoice of that key.
ToldOK ==
    /\ cache \in [Keys -> InvoiceIds \cup {None}]
    /\ told \in [Keys -> SUBSET InvoiceIds]
    /\ \A k \in Keys : \A i \in told[k] : HasKey(i, k)

\* An invoice keeps its key.
LEMMA KeysKept ==
    ASSUME IndInv, [Next]_vars, NEW i, NEW k, HasKey(i, k)
    PROVE  HasKey(i, k)'
<1> USE DEF IndInv, TypeOK, HasKey
<1>1. CASE UNCHANGED tables
  BY <1>1 DEF tables, Exists
<1>2. ASSUME NEW p \in Procs, OpenInsert(p) PROVE HasKey(i, k)'
  BY <1>2 DEF OpenInsert, Exists
<1>3. ASSUME NEW p \in Procs, CloseWrite(p) PROVE HasKey(i, k)'
  BY <1>3 DEF CloseWrite, Exists, InvoiceRow
<1>4. ASSUME NEW p \in Procs, AppendCommit(p) PROVE HasKey(i, k)'
  BY <1>4 DEF AppendCommit, Exists, InvoiceRow
<1> QED
  BY <1>1, <1>2, <1>3, <1>4, Writers

\* Keys stay unique: only Open adds a row, and not with a key that is taken.
LEMMA KeyUniqueStep == IndInv /\ KeyUnique /\ [Next]_vars => KeyUnique'
<1> SUFFICES ASSUME IndInv, KeyUnique, [Next]_vars PROVE KeyUnique'
  OBVIOUS
<1> USE DEF IndInv, TypeOK
<1>1. CASE UNCHANGED tables
  BY <1>1 DEF tables, KeyUnique, Exists
<1>2. ASSUME NEW p \in Procs, OpenInsert(p) PROVE KeyUnique'
  <2>1. PICK n \in InvoiceIds :
          invoice' = [invoice EXCEPT ![n] = NewRow(req[p].res, req[p].key)]
    BY <1>2 DEF OpenInsert
  <2>2. \A i \in InvoiceIds : Exists(i) => invoice[i].key # req[p].key
    BY <1>2 DEF OpenInsert, UniqueViolation
  <2>3. /\ invoice'[n].key = req[p].key
        /\ \A i \in InvoiceIds \ {n} : invoice'[i] = invoice[i]
    BY <2>1 DEF NewRow
  <2> HIDE DEF IndInv, TypeOK
  <2> QED
    BY <2>2, <2>3 DEF KeyUnique, Exists
<1>3. ASSUME NEW p \in Procs, CloseWrite(p) \/ AppendCommit(p) PROVE KeyUnique'
  <2>1. cur[p] \in InvoiceIds /\ Exists(cur[p])
    BY <1>3 DEF CloseWrite, AppendCommit, ControlOK
  <2>2. \A i \in InvoiceIds : Exists(i)' => Exists(i) /\ invoice'[i].key = invoice[i].key
    <3>1. CASE CloseWrite(p)
      BY <2>1, <3>1 DEF CloseWrite, Exists, InvoiceRow
    <3>2. CASE AppendCommit(p)
      BY <2>1, <3>2 DEF AppendCommit, Exists, InvoiceRow
    <3> QED
      BY <1>3, <3>1, <3>2
  <2> QED
    BY <2>2 DEF KeyUnique, Exists
<1> QED
  BY <1>1, <1>2, <1>3, Writers

\* A call that does not move keeps its invoice.
LEMMA KeyedKept ==
    ASSUME IndInv, [Next]_vars, NEW q \in Procs, KeyedOK(q), rpc'[q] = rpc[q],
           pc'[q] = pc[q], req'[q] = req[q], cur'[q] = cur[q], reply'[q] = reply[q]
    PROVE  KeyedOK(q)'
BY KeysKept DEF KeyedOK

\* The statements of OpenInvoice lead to an invoice of its key: the row it inserts, or
\* the one findByIdem finds.
LEMMA OpenFindsKey ==
    ASSUME IndInv, [Next]_vars, RpcOK, NEW p \in Procs, KeyedOK(p), rpc[p].stage = "handler",
           rpc[p].key # None, pc[p] # "done", LockStep(p) \/ FreeStep(p)
    PROVE  LET i == IF cur'[p] = None THEN cur[p] ELSE cur'[p] IN
           /\ pc'[p] \in {"open_find", "get_row", "get_lines", "done"}
           /\ pc'[p] = "open_find" => req'[p].key = rpc[p].key
           /\ pc'[p] \in {"get_row", "get_lines"} => HasKeyNow(cur'[p], rpc[p].key)
           /\ pc'[p] = "done" /\ reply'[p] = "ok" => HasKeyNow(i, rpc[p].key)
<1> USE DEF IndInv, TypeOK
<1>1. pc[p] \in {"open_insert", "open_find", "get_row", "get_lines"}
  BY DEF KeyedOK
<1>2. CASE OpenInsert(p)
  <2>1. PICK n \in InvoiceIds :
          /\ invoice' = [invoice EXCEPT ![n] = NewRow(req[p].res, req[p].key)]
          /\ cur' = [cur EXCEPT ![p] = n]
    BY <1>2 DEF OpenInsert
  <2>2. cur'[p] = n /\ pc'[p] = "get_row" /\ req[p].key = rpc[p].key
    BY <1>2, <2>1 DEF OpenInsert, Goto, KeyedOK
  <2>3. HasKeyNow(n, rpc[p].key)
    BY <2>1, <2>2 DEF HasKeyNow, NewRow
  <2> QED
    BY <2>2, <2>3
<1>3. CASE OpenReplay(p)
  BY <1>3 DEF OpenReplay, WorkOn, Goto, KeyedOK
<1>4. CASE OpenFind(p)
  BY <1>4 DEF OpenFind, WorkOn, Answer, Goto, KeyedOK, HasKey, HasKeyNow, Exists, tables
<1>5. CASE GetRow(p)
  BY <1>5 DEF GetRow, Answer, Goto, KeyedOK, HasKey, HasKeyNow, Exists, tables
<1>6. CASE fetchLines(p)
  <2>1. /\ HasKey(cur[p], rpc[p].key) /\ cur'[p] = None /\ pc'[p] = "done"
        /\ UNCHANGED tables
    BY <1>6 DEF fetchLines, Answer, Goto, KeyedOK
  <2> QED
    BY <2>1 DEF HasKey, HasKeyNow, Exists, tables
<1> QED
  BY <1>1, <1>2, <1>3, <1>4, <1>5, <1>6
  DEF LockStep, FreeStep, CloseLock, AppendInsert, CloseFind, CloseWrite, FeeFind,
      AppendCommit, Return

\* A step of the ledger moves one process.
LEMMA OneMoves ==
    ASSUME IndInv, NEW p \in Procs,
           \/ Call(p) \/ LockStep(p) \/ FreeStep(p) \/ Fail(p)
           \/ UNCHANGED vars
    PROVE  \A q \in Procs \ {p} : /\ pc'[q] = pc[q] /\ cur'[q] = cur[q] /\ req'[q] = req[q]
                                  /\ reply'[q] = reply[q]
<1> DEFINE Others == \A q \in Procs \ {p} : /\ pc'[q] = pc[q] /\ cur'[q] = cur[q]
                                            /\ req'[q] = req[q] /\ reply'[q] = reply[q]
<1> USE DEF IndInv, TypeOK
<1>1. CASE UNCHANGED vars
  BY <1>1 DEF vars
<1>2. CASE Call(p)
  <2>1. (\E r, v : Answer(p, r, v)) \/ (\E label, r, i : Begin(p, label, r, i))
    BY <1>2, Zenon DEF Call, CallOpenBlank, CallOpen, CallCheckedOut, CallCancelFee,
                       CallNoShowFee, CallClose, CallGet
  <2> QED
    BY <2>1 DEF Answer, Begin, Goto
<1>3. CASE Fail(p) \/ OpenReplay(p) \/ OpenFind(p) \/ CloseFind(p) \/ FeeFind(p)
           \/ AppendInsert(p) \/ fetchLines(p) \/ Return(p)
  BY <1>3 DEF Fail, OpenReplay, OpenFind, CloseFind, FeeFind, AppendInsert, fetchLines,
              Return, Answer, WorkOn, Goto
<1>4. CASE CloseLock(p) \/ GetRow(p)
  BY <1>4 DEF CloseLock, GetRow, Answer, WorkOn, Goto
<1>5. CASE OpenInsert(p) \/ CloseWrite(p) \/ AppendCommit(p)
  BY <1>5 DEF OpenInsert, CloseWrite, AppendCommit, Goto
<1> QED
  BY <1>1, <1>2, <1>3, <1>4, <1>5 DEF LockStep, FreeStep

\* Every action of a server is of one call.
ApiStep(p) ==
    \/ \E r \in Reservations : \E k \in KeysOf[r] : OpenInvoice(p, r, k)
    \/ \E k \in Keys : OpenInvoice(p, None, k)
    \/ \E r \in Reservations : OpenInvoice(p, r, None)
    \/ Unguarded(p)
    \/ StoreGet(p) \/ Statement(p) \/ HandlerFails(p) \/ HandlerReturns(p)
    \/ StorePut(p)
    \/ \E i \in InvoiceIds : HttpById(p, i)
    \/ \E r \in Reservations \cup {None} : HttpByReservation(p, r)
    \/ HttpFind(p) \/ HttpReturns(p)
    \/ Sent(p)

\* The other calls stay where they are.
LEMMA OtherCallsWait ==
    ASSUME IndInv, RpcOK, NEW p \in Procs, ApiStep(p)
    PROVE  \A q \in Procs \ {p} :
              /\ pc'[q] = pc[q] /\ cur'[q] = cur[q] /\ req'[q] = req[q]
              /\ reply'[q] = reply[q] /\ rpc'[q] = rpc[q]
<1>1. \/ Call(p) \/ LockStep(p) \/ FreeStep(p) \/ Fail(p)
      \/ UNCHANGED vars
  <2>1. CASE StoreGet(p)
    <3>1. CASE rpc[p].res # None /\ CallOpen(p, rpc[p].res, rpc[p].key)
      <4>1. rpc[p].res \in Reservations /\ rpc[p].key \in KeysOf[rpc[p].res]
        BY <2>1, <3>1 DEF StoreGet, RpcOK
      <4> QED
        BY <3>1, <4>1 DEF Call
    <3> QED
      BY <2>1, <3>1 DEF StoreGet, Call
  <2>2. CASE Unguarded(p) \/ (\E i \in InvoiceIds : HttpById(p, i)) \/ HttpFind(p)
    BY <2>2, Zenon DEF Unguarded, HttpById, HttpFind, Call
  <2>3. CASE Statement(p) \/ HandlerFails(p) \/ HandlerReturns(p) \/ HttpReturns(p)
    BY <2>3, Zenon DEF Statement, HandlerFails, HandlerReturns, HttpReturns, FreeStep
  <2> QED
    BY <2>1, <2>2, <2>3, Zenon DEF ApiStep, OpenInvoice, StorePut, HttpByReservation, Sent
<1>2. \A q \in Procs \ {p} : rpc'[q] = rpc[q]
  BY DEF RpcOK, ApiStep, OpenInvoice, Unguarded, StoreGet, Statement, HandlerFails,
         HandlerReturns, StorePut, HttpById, HttpByReservation, HttpFind, HttpReturns, Sent,
         Goes, Respond
<1> QED
  BY <1>1, <1>2, OneMoves

\* The call that moves has an invoice of its key in its hands when it needs one.
LEMMA KeyedMoves ==
    ASSUME IndInv, [Next]_vars, RepliesOK, RpcOK, NEW p \in Procs, KeyedOK(p), ApiStep(p)
    PROVE  KeyedOK(p)'
<1> USE DEF RpcOK
<1>0. ASSUME NEW code, Respond(p, code) PROVE rpc'[p].stage = "answered"
  BY <1>0 DEF Respond, Rpc
<1>1. CASE (\E r \in Reservations : \E k \in KeysOf[r] : OpenInvoice(p, r, k))
           \/ (\E k \in Keys : OpenInvoice(p, None, k))
           \/ (\E r \in Reservations : OpenInvoice(p, r, None))
           \/ (\E r \in Reservations \cup {None} : HttpByReservation(p, r))
           \/ Sent(p)
  <2>1. \/ rpc'[p].stage \in {"answered", "store_get"}
        \/ rpc'[p].stage \in {"http_find", "idle"} /\ rpc'[p].key = None
    <3>1. ASSUME NEW r, NEW k, OpenInvoice(p, r, k)
          PROVE  rpc'[p].stage \in {"answered", "store_get"}
      BY <3>1 DEF OpenInvoice, NoRpc
    <3>2. ASSUME NEW r, HttpByReservation(p, r)
          PROVE  \/ rpc'[p].stage = "answered"
                 \/ rpc'[p].stage = "http_find" /\ rpc'[p].key = None
      BY <3>2 DEF HttpByReservation, NoRpc
    <3>3. CASE Sent(p)
      BY <3>3 DEF Sent, NoRpc
    <3> QED
      BY <1>1, <3>1, <3>2, <3>3
  <2> QED
    BY <2>1 DEF KeyedOK
<1>2. CASE Unguarded(p) \/ (\E i \in InvoiceIds : HttpById(p, i))
  <2>1. rpc[p].stage = "idle" /\ rpc'[p].stage \in {"handler", "http"} /\ rpc'[p].key = rpc[p].key
    BY <1>2 DEF Unguarded, HttpById, Goes, Rpc
  <2> QED
    BY <2>1 DEF KeyedOK
<1>3. CASE StoreGet(p)
  <2>1. rpc'[p].stage = "handler" /\ rpc'[p].key = rpc[p].key
    BY <1>3 DEF StoreGet, Goes, Rpc, protoZero
  <2>2. CASE CallOpenBlank(p)
    <3>1. pc'[p] = "done" /\ reply'[p] = "validation"
      BY <2>2 DEF CallOpenBlank, Answer, Goto, IndInv, TypeOK
    <3> QED
      BY <2>1, <3>1 DEF KeyedOK
  <2>3. CASE CallOpen(p, rpc[p].res, rpc[p].key)
    <3>1. pc'[p] = "open_insert" /\ req'[p].key = rpc[p].key
      BY <2>3 DEF CallOpen, Begin, Goto, IndInv, TypeOK, NoRequest
    <3> QED
      BY <2>1, <3>1 DEF KeyedOK
  <2> QED
    BY <1>3, <2>2, <2>3 DEF StoreGet, protoZero
<1>4. CASE Statement(p)
  <2> DEFINE i == IF cur'[p] = None THEN cur[p] ELSE cur'[p]
  <2>1. rpc'[p].stage = rpc[p].stage /\ rpc'[p].key = rpc[p].key /\ rpc'[p].inv = i
    BY <1>4 DEF Statement, Rpc
  <2>2. CASE rpc[p].key = None
    BY <1>4, <2>1, <2>2 DEF Statement, KeyedOK
  <2>3. CASE rpc[p].stage = "handler" /\ rpc[p].key # None
    <3>1. pc[p] # "done" /\ (LockStep(p) \/ FreeStep(p))
      BY <1>4 DEF Statement
    <3>2. /\ pc'[p] \in {"open_find", "get_row", "get_lines", "done"}
          /\ pc'[p] = "open_find" => req'[p].key = rpc[p].key
          /\ pc'[p] \in {"get_row", "get_lines"} => HasKeyNow(cur'[p], rpc[p].key)
          /\ pc'[p] = "done" /\ reply'[p] = "ok" => HasKeyNow(i, rpc[p].key)
      BY <2>3, <3>1, OpenFindsKey
    <3> HIDE DEF i
    <3> QED
      BY <2>1, <2>3, <3>2 DEF KeyedOK, HasKey, HasKeyNow, Exists
  <2> QED
    BY <1>4, <2>2, <2>3 DEF Statement, KeyedOK
<1>5. CASE HandlerFails(p)
  <2>1. pc'[p] = "done" /\ reply'[p] = "error" /\ rpc'[p] = rpc[p]
    BY <1>5 DEF HandlerFails, Fail, Answer, Goto, IndInv, TypeOK
  <2> QED
    BY <1>5, <2>1 DEF HandlerFails, KeyedOK
<1>6. CASE HandlerReturns(p)
  <2>1. CASE reply[p] = "ok" /\ rpc[p].key # None
    <3>1. /\ HasKey(rpc[p].inv, rpc[p].key) /\ UNCHANGED tables
          /\ rpc'[p].stage = "store_put" /\ rpc'[p].key = rpc[p].key /\ rpc'[p].inv = rpc[p].inv
      BY <1>6, <2>1 DEF HandlerReturns, Return, Goes, KeyedOK, Rpc
    <3> QED
      BY <2>1, <3>1 DEF KeyedOK, HasKey, Exists, tables
  <2>2. CASE ~(reply[p] = "ok" /\ rpc[p].key # None)
    <3>1. rpc'[p].stage = "answered"
      BY <1>0, <1>6, <2>2 DEF HandlerReturns
    <3> QED
      BY <3>1 DEF KeyedOK
  <2> QED
    BY <2>1, <2>2
<1>7. CASE StorePut(p) \/ HttpReturns(p)
  <2>1. rpc'[p].stage = "answered"
    BY <1>0, <1>7 DEF StorePut, HttpReturns
  <2> QED
    BY <2>1 DEF KeyedOK
<1>8. CASE HttpFind(p)
  <2>1. \/ rpc'[p].stage = "answered"
        \/ rpc'[p].stage = "http" /\ rpc'[p].key = rpc[p].key /\ rpc[p].stage = "http_find"
    BY <1>8 DEF HttpFind, Respond, Goes, Rpc
  <2> QED
    BY <2>1 DEF KeyedOK
<1> QED
  BY <1>1, <1>2, <1>3, <1>4, <1>5, <1>6, <1>7, <1>8 DEF ApiStep

\* Only a call that has put its invoice into the store, of its own key, tells of it.
LEMMA ToldStep ==
    ASSUME IndInv, [Next]_vars, RepliesOK, RpcOK, ToldOK, NEW p \in Procs, KeyedOK(p), ApiStep(p)
    PROVE  ToldOK'
<1> USE DEF RpcOK
<1>1. CASE UNCHANGED <<cache, told>>
  BY <1>1, KeysKept DEF ToldOK
<1>2. CASE StorePut(p)
  <2>1. rpc[p].key \in Keys /\ HasKey(rpc[p].inv, rpc[p].key) /\ UNCHANGED tables
    BY <1>2 DEF StorePut, KeyedOK, Rpc, vars, tables
  <2>2. /\ rpc[p].inv \in InvoiceIds
        /\ \A i, k : HasKey(i, k) => HasKey(i, k)'
    BY <2>1 DEF HasKey, Exists, tables
  <2>3. cache' \in [Keys -> InvoiceIds \cup {None}]
    BY <1>2, <2>1, <2>2 DEF StorePut, ToldOK
  <2>4. told' = told \/ told' = [told EXCEPT ![rpc[p].key] = @ \cup {rpc[p].inv}]
    BY <1>2 DEF StorePut, Respond
  <2>5. /\ told' \in [Keys -> SUBSET InvoiceIds]
        /\ \A k \in Keys : \A i \in told'[k] : HasKey(i, k)
    BY <2>1, <2>2, <2>4 DEF ToldOK
  <2> QED
    BY <2>2, <2>3, <2>5 DEF ToldOK
<1>3. CASE StoreGet(p)
  BY <1>3, <1>1 DEF StoreGet, protoZero
<1>4. CASE HandlerReturns(p)
  <2>1. reply[p] \in Replies /\ reply[p] # "none"
    BY <1>4 DEF HandlerReturns, Return, RepliesOK, IndInv, TypeOK
  <2>2. CASE reply[p] = "ok" /\ rpc[p].key # None
    BY <1>4, <2>2, <1>1 DEF HandlerReturns
  <2>3. CASE ~(reply[p] = "ok" /\ rpc[p].key # None)
    <3>1. PICK c \in mapError(reply[p]) : Respond(p, c)
      BY <1>4, <2>3 DEF HandlerReturns
    <3>2. c = "OK" => rpc[p].key = None
      BY <2>1, <2>3, mapErrorType
    <3> QED
      BY <1>1, <1>4, <3>1, <3>2 DEF HandlerReturns, Respond
  <2> QED
    BY <2>2, <2>3
<1>5. CASE HttpReturns(p) \/ HttpFind(p)
  BY <1>5, <1>1 DEF HttpReturns, HttpFind, Respond
<1>6. CASE Statement(p) \/ HandlerFails(p) \/ Unguarded(p) \/ Sent(p)
           \/ (\E i \in InvoiceIds : HttpById(p, i))
           \/ (\E r \in Reservations \cup {None} : HttpByReservation(p, r))
  BY <1>6, <1>1 DEF Statement, HandlerFails, Unguarded, Sent, HttpById, HttpByReservation
<1>7. CASE (\E r \in Reservations : \E k \in KeysOf[r] : OpenInvoice(p, r, k))
           \/ (\E k \in Keys : OpenInvoice(p, None, k))
           \/ (\E r \in Reservations : OpenInvoice(p, r, None))
  BY <1>7, <1>1 DEF OpenInvoice
<1> QED
  BY <1>2, <1>3, <1>4, <1>5, <1>6, <1>7 DEF ApiStep

-----------------------------------------------------------------------------
\* The inductive invariant of the servers.
ApiInv ==
    /\ IndInv /\ RepliesOK /\ RpcOK /\ KeyUnique /\ ToldOK
    /\ \A p \in Procs : KeyedOK(p)

\* It holds when the servers start.
LEMMA ApiInvInit == ApiInit => ApiInv
<1> SUFFICES ASSUME ApiInit PROVE ApiInv
  OBVIOUS
<1>1. Init
  BY DEF ApiInit
<1>2. IndInv
  BY <1>1, TypeInit, MoneyInit DEF IndInv, TypeInv, MoneyInv
<1>3. RepliesOK /\ KeyUnique
  BY <1>1 DEF Init, RepliesOK, KeyUnique, Exists, NoRow
<1>4. RpcOK
  BY LedgerAssumption DEF ApiInit, RpcOK, NoRpc, Rpc, Stages, Codes
<1>5. ToldOK
  BY DEF ApiInit, ToldOK
<1>6. \A p \in Procs : KeyedOK(p)
  BY DEF ApiInit, KeyedOK, NoRpc
<1> QED
  BY <1>2, <1>3, <1>4, <1>5, <1>6 DEF ApiInv

\* Every step keeps it, and is a step of the ledger.
LEMMA ApiInvStep == ApiInv /\ [ApiNext]_avars => ApiInv' /\ [Next]_vars
<1> SUFFICES ASSUME ApiInv, [ApiNext]_avars PROVE ApiInv' /\ [Next]_vars
  OBVIOUS
<1>1. [Next]_vars
  BY ApiStepIsLedgerStep DEF ApiInv
<1>2. IndInv' /\ RepliesOK' /\ KeyUnique'
  BY <1>1, IndInvStep, RepliesStep, KeyUniqueStep DEF ApiInv
<1>3. RpcOK'
  BY <1>2, RpcStep DEF ApiInv
<1>4. ToldOK' /\ \A q \in Procs : KeyedOK(q)'
  <2>1. CASE UNCHANGED avars
    BY <2>1 DEF avars, vars, ApiInv, ToldOK, KeyedOK, HasKey, Exists
  <2>2. ASSUME NEW p \in Procs, ApiStep(p)
        PROVE  ToldOK' /\ \A q \in Procs : KeyedOK(q)'
    <3>1. ToldOK' /\ KeyedOK(p)'
      BY <1>1, <2>2, ToldStep, KeyedMoves DEF ApiInv
    <3>2. ASSUME NEW q \in Procs \ {p} PROVE KeyedOK(q)'
      BY <1>1, <2>2, OtherCallsWait, KeyedKept DEF ApiInv
    <3> QED
      BY <3>1, <3>2
  <2> QED
    BY <2>1, <2>2, Zenon DEF ApiNext, ApiStep
<1> QED
  BY <1>1, <1>2, <1>3, <1>4 DEF ApiInv

\* The servers implement the ledger: whatever the interceptors, the cache, retries and
\* failing handlers do, the tables only ever see the ledger's own steps (interceptors.go,
\* handlers.go, invoice.go).  So the theorems about Spec hold of them too.
THEOREM ApiImplementsLedger == ApiSpec => Spec
<1>1. ApiInit => Init
  BY DEF ApiInit
<1> QED
  BY <1>1, ApiInvInit, ApiInvStep, PTL DEF ApiSpec, Spec

\* The invariant of the servers.
THEOREM ApiInvariant == ApiSpec => []ApiInv
BY ApiInvInit, ApiInvStep, PTL DEF ApiSpec

\* Every variable of the servers keeps its type; every answer has a status of Codes.
THEOREM ApiTypeCorrect == ApiSpec => []ApiTypeOK
<1>1. ApiInv => ApiTypeOK
  BY DEF ApiInv, IndInv, RpcOK, ToldOK, ApiTypeOK
<1> QED
  BY <1>1, ApiInvariant, PTL

\* All successes of OpenInvoice under one key name the same invoice, for any number of
\* calls, keys and reservations, with retries, races, failures and a cache that never
\* answers (interceptors.go idempotencyInterceptor, invoice.go Open and findByIdem).
THEOREM OneInvoicePerKey == ApiSpec => []SameKeySameInvoice
<1>1. ApiInv => SameKeySameInvoice
  BY DEF ApiInv, KeyUnique, ToldOK, HasKey, SameKeySameInvoice
<1> QED
  BY <1>1, ApiInvariant, PTL

\* The servers never give a reservation two invoices either.
THEOREM ApiOneInvoice == ApiSpec => []OneInvoicePerReservation
BY ApiImplementsLedger, OneInvoice, PTL

-----------------------------------------------------------------------------
\* The invoice of reservation r has another key than k.
Taken(r, k) == \E i \in InvoiceIds : Exists(i) /\ invoice[i].res = r /\ invoice[i].key # k

\* A call on the replay path has met an invoice of its reservation or of its key, and
\* one that is answered NotFound one of its reservation.
TakenOK(p) ==
    /\ rpc[p].stage = "handler" /\ rpc[p].key # None =>
          /\ pc[p] \in {"open_insert", "open_find"} =>
                req[p].res = rpc[p].res /\ req[p].key = rpc[p].key
          /\ pc[p] = "open_find" => UniqueViolation(rpc[p].res, rpc[p].key)
          /\ pc[p] = "done" /\ reply[p] = "not_found" => Taken(rpc[p].res, rpc[p].key)
    /\ rpc[p].code = "NotFound" /\ rpc[p].key # None => Taken(rpc[p].res, rpc[p].key)

\* Rows keep their reservation and their key, so a conflict stays one.
LEMMA ConflictsStay ==
    ASSUME IndInv, [Next]_vars, NEW r, NEW k
    PROVE  /\ UniqueViolation(r, k) => UniqueViolation(r, k)'
           /\ Taken(r, k) => Taken(r, k)'
<1>1. \A i \in InvoiceIds : Exists(i) =>
        Exists(i)' /\ invoice'[i].res = invoice[i].res /\ invoice'[i].key = invoice[i].key
  <2> USE DEF IndInv, TypeOK
  <2>1. CASE UNCHANGED tables
    BY <2>1 DEF tables, Exists
  <2>2. ASSUME NEW p \in Procs, OpenInsert(p)
        PROVE  \A i \in InvoiceIds : Exists(i) => Exists(i)' /\ invoice'[i] = invoice[i]
    BY <2>2 DEF OpenInsert, Exists
  <2>3. ASSUME NEW p \in Procs, CloseWrite(p) \/ AppendCommit(p), NEW i \in InvoiceIds, Exists(i)
        PROVE  Exists(i)' /\ invoice'[i].res = invoice[i].res /\ invoice'[i].key = invoice[i].key
    <3>1. CASE CloseWrite(p)
      BY <2>3, <3>1 DEF CloseWrite, Exists, InvoiceRow
    <3>2. CASE AppendCommit(p)
      BY <2>3, <3>2 DEF AppendCommit, Exists, InvoiceRow
    <3> QED
      BY <2>3, <3>1, <3>2
  <2> QED
    BY <2>1, <2>2, <2>3, Writers
<1>2. UniqueViolation(r, k) => UniqueViolation(r, k)'
  BY <1>1 DEF UniqueViolation
<1>3. Taken(r, k) => Taken(r, k)'
  BY <1>1 DEF Taken
<1> QED
  BY <1>2, <1>3

\* A call that does not move keeps what it has met.
LEMMA TakenKept ==
    ASSUME IndInv, [Next]_vars, NEW q \in Procs, TakenOK(q), rpc'[q] = rpc[q],
           pc'[q] = pc[q], req'[q] = req[q], reply'[q] = reply[q]
    PROVE  TakenOK(q)'
BY ConflictsStay DEF TakenOK

\* The statements of OpenInvoice answer NotFound only for a reservation that is taken.
LEMMA OpenMeetsTaken ==
    ASSUME IndInv, [Next]_vars, NEW p \in Procs, KeyedOK(p), TakenOK(p),
           rpc[p].stage = "handler", rpc[p].key # None, pc[p] # "done",
           LockStep(p) \/ FreeStep(p),
           NEW r, r = rpc[p].res, NEW k, k = rpc[p].key
    PROVE  /\ pc'[p] # "open_insert"
           /\ pc'[p] = "open_find" => /\ req'[p].res = r /\ req'[p].key = k
                                      /\ UniqueViolation(r, k)'
           /\ pc'[p] = "done" /\ reply'[p] = "not_found" => Taken(r, k)'
<1> USE DEF IndInv, TypeOK
<1>1. pc[p] \in {"open_insert", "open_find", "get_row", "get_lines"}
  BY DEF KeyedOK
<1>2. CASE OpenInsert(p)
  BY <1>2 DEF OpenInsert, Goto
<1>3. CASE OpenReplay(p)
  <2>1. req[p].res = r /\ req[p].key = k /\ UniqueViolation(r, k)
    BY <1>3 DEF OpenReplay, TakenOK
  <2>2. pc'[p] = "open_find" /\ req'[p] = req[p]
    BY <1>3 DEF OpenReplay, WorkOn, Goto
  <2> QED
    BY <2>1, <2>2, ConflictsStay
<1>4. CASE OpenFind(p)
  <2>1. UniqueViolation(r, k) /\ req[p].key = k
    BY <1>4 DEF OpenFind, TakenOK
  <2>2. ASSUME NEW i \in InvoiceIds, WorkOn(p, i, "get_row") PROVE pc'[p] = "get_row"
    BY <2>2 DEF WorkOn, Goto
  <2>3. CASE /\ \A i \in InvoiceIds : Exists(i) => invoice[i].key # req[p].key
             /\ Answer(p, "not_found", NoView)
    <3>1. pc'[p] = "done" /\ Taken(r, k)
      BY <2>1, <2>3 DEF Answer, Goto, UniqueViolation, Taken
    <3> QED
      BY <3>1, ConflictsStay
  <2> QED
    BY <1>4, <2>2, <2>3 DEF OpenFind
<1>5. CASE GetRow(p)
  <2>1. Exists(cur[p])
    BY <1>5 DEF GetRow, KeyedOK, HasKey
  <2> QED
    BY <1>5, <2>1 DEF GetRow, Goto
<1>6. CASE fetchLines(p)
  BY <1>6 DEF fetchLines, Answer, Goto
<1> QED
  BY <1>1, <1>2, <1>3, <1>4, <1>5, <1>6
  DEF LockStep, FreeStep, CloseLock, AppendInsert, CloseFind, CloseWrite, FeeFind,
      AppendCommit, Return

\* The call that moves is answered NotFound only for a reservation that is taken.
LEMMA TakenMoves ==
    ASSUME IndInv, [Next]_vars, RepliesOK, RpcOK, NEW p \in Procs, KeyedOK(p), TakenOK(p),
           ApiStep(p)
    PROVE  TakenOK(p)'
<1> USE DEF RpcOK
<1>1. CASE (\E r \in Reservations : \E k \in KeysOf[r] : OpenInvoice(p, r, k))
           \/ (\E k \in Keys : OpenInvoice(p, None, k))
           \/ (\E r \in Reservations : OpenInvoice(p, r, None))
           \/ (\E r \in Reservations \cup {None} : HttpByReservation(p, r))
           \/ Sent(p)
  <2>1. rpc'[p].stage # "handler" /\ rpc'[p].code # "NotFound"
    <3>1. ASSUME NEW r, NEW k, OpenInvoice(p, r, k)
          PROVE  rpc'[p].stage # "handler" /\ rpc'[p].code # "NotFound"
      BY <3>1 DEF OpenInvoice, NoRpc
    <3>2. ASSUME NEW r, HttpByReservation(p, r)
          PROVE  rpc'[p].stage # "handler" /\ rpc'[p].code # "NotFound"
      BY <3>2 DEF HttpByReservation, NoRpc
    <3>3. CASE Sent(p)
      BY <3>3 DEF Sent, NoRpc
    <3> QED
      BY <1>1, <3>1, <3>2, <3>3
  <2> QED
    BY <2>1 DEF TakenOK
<1>2. CASE Unguarded(p) \/ (\E i \in InvoiceIds : HttpById(p, i))
           \/ HttpFind(p) \/ HttpReturns(p)
  <2>1. rpc[p].key = None
    BY <1>2 DEF Unguarded, HttpById, HttpFind, HttpReturns, KeyedOK
  <2>2. rpc'[p].key = rpc[p].key
    BY <1>2 DEF Unguarded, HttpById, HttpFind, HttpReturns, Goes, Respond, Rpc
  <2> QED
    BY <2>1, <2>2 DEF TakenOK
<1>3. PICK r, k : r = rpc[p].res /\ k = rpc[p].key
  OBVIOUS
<1>4. rpc[p].code = "NotFound" /\ k # None => Taken(r, k)'
  BY <1>3, ConflictsStay DEF TakenOK
<1>5. CASE StoreGet(p)
  <2>1. /\ rpc'[p].res = r /\ rpc'[p].key = k /\ rpc'[p].code = rpc[p].code
    BY <1>3, <1>5 DEF StoreGet, Goes, Rpc, protoZero
  <2>2. CASE CallOpenBlank(p)
    <3>1. pc'[p] = "done" /\ reply'[p] = "validation"
      BY <2>2 DEF CallOpenBlank, Answer, Goto, IndInv, TypeOK
    <3> QED
      BY <1>4, <2>1, <3>1 DEF TakenOK, Taken, Exists
  <2>3. CASE CallOpen(p, rpc[p].res, rpc[p].key)
    <3>1. pc'[p] = "open_insert" /\ req'[p].res = r /\ req'[p].key = k
      BY <1>3, <2>3 DEF CallOpen, Begin, Goto, IndInv, TypeOK, NoRequest
    <3> QED
      BY <1>4, <2>1, <3>1 DEF TakenOK, Taken, Exists
  <2> QED
    BY <1>5, <2>2, <2>3 DEF StoreGet, protoZero
<1>6. CASE Statement(p)
  <2>1. /\ rpc'[p].res = r /\ rpc'[p].key = k /\ rpc'[p].code = rpc[p].code
        /\ rpc'[p].stage = rpc[p].stage
    BY <1>3, <1>6 DEF Statement, Rpc
  <2>2. CASE rpc[p].stage = "handler" /\ k # None
    <3>1. pc[p] # "done" /\ (LockStep(p) \/ FreeStep(p))
      BY <1>6 DEF Statement
    <3>2. /\ pc'[p] # "open_insert"
          /\ pc'[p] = "open_find" => /\ req'[p].res = r /\ req'[p].key = k
                                     /\ UniqueViolation(r, k)'
          /\ pc'[p] = "done" /\ reply'[p] = "not_found" => Taken(r, k)'
      BY <1>3, <2>2, <3>1, OpenMeetsTaken
    <3> QED
      BY <1>4, <2>1, <3>2 DEF TakenOK, Taken, UniqueViolation, Exists
  <2>3. CASE ~(rpc[p].stage = "handler" /\ k # None)
    BY <1>4, <2>1, <2>3 DEF TakenOK, Taken, Exists
  <2> QED
    BY <2>2, <2>3
<1>7. CASE HandlerFails(p)
  <2>1. pc'[p] = "done" /\ reply'[p] = "error" /\ rpc'[p] = rpc[p]
    BY <1>7 DEF HandlerFails, Fail, Answer, Goto, IndInv, TypeOK
  <2> QED
    BY <1>3, <1>4, <2>1 DEF TakenOK, Taken, Exists
<1>8. ASSUME NEW code, Respond(p, code), code = "NotFound" /\ k # None => Taken(r, k)'
      PROVE  TakenOK(p)'
  <2>1. /\ rpc'[p].res = r /\ rpc'[p].key = k /\ rpc'[p].code = code
        /\ rpc'[p].stage = "answered"
    BY <1>3, <1>8 DEF Respond, Rpc
  <2> QED
    BY <1>8, <2>1 DEF TakenOK, Taken, Exists
<1>9. CASE HandlerReturns(p)
  <2>1. reply[p] \in Replies /\ reply[p] # "none" /\ pc[p] = "done" /\ rpc[p].stage = "handler"
    BY <1>9 DEF HandlerReturns, Return, RepliesOK, IndInv, TypeOK
  <2>2. CASE reply[p] = "ok" /\ rpc[p].key # None
    <3>1. /\ rpc'[p].res = r /\ rpc'[p].key = k /\ rpc'[p].code = rpc[p].code
          /\ rpc'[p].stage = "store_put"
      BY <1>3, <1>9, <2>2 DEF HandlerReturns, Goes, Rpc
    <3> QED
      BY <1>4, <3>1 DEF TakenOK, Taken, Exists
  <2>3. CASE ~(reply[p] = "ok" /\ rpc[p].key # None)
    <3>1. PICK c \in mapError(reply[p]) : Respond(p, c)
      BY <1>9, <2>3 DEF HandlerReturns
    <3>2. c = "NotFound" => reply[p] = "not_found"
      BY <2>1, <3>1 DEF mapError, Replies
    <3>3. c = "NotFound" /\ k # None => Taken(r, k)'
      BY <1>3, <2>1, <3>2, ConflictsStay DEF TakenOK
    <3> QED
      BY <1>8, <3>1, <3>3
  <2> QED
    BY <2>2, <2>3
<1>10. CASE StorePut(p)
  BY <1>8, <1>10 DEF StorePut
<1> QED
  BY <1>1, <1>2, <1>5, <1>6, <1>7, <1>9, <1>10 DEF ApiStep

\* OpenInvoice answers NotFound only when another key holds the reservation's invoice, for
\* any number of calls, keys and reservations: a lost race under the caller's own key
\* finds the invoice (invoice.go Open and findByIdem, interceptors.go mapError).
THEOREM NotFoundOnlyIfTaken == ApiSpec => []NotFoundMeansTaken
<1>1. ApiInit => \A p \in Procs : TakenOK(p)
  BY DEF ApiInit, TakenOK, NoRpc
<1>2. ApiInv /\ (\A p \in Procs : TakenOK(p)) /\ [ApiNext]_avars
        => (\A p \in Procs : TakenOK(p))'
  <2> SUFFICES ASSUME ApiInv, \A p \in Procs : TakenOK(p), [ApiNext]_avars, NEW q \in Procs
               PROVE  TakenOK(q)'
    OBVIOUS
  <2>1. [Next]_vars
    BY ApiInvStep
  <2>2. CASE UNCHANGED avars
    BY <2>1, <2>2, TakenKept DEF avars, vars, ApiInv
  <2>3. ASSUME NEW p \in Procs, ApiStep(p) PROVE TakenOK(q)'
    <3>1. CASE q = p
      BY <2>1, <2>3, <3>1, TakenMoves DEF ApiInv
    <3>2. CASE q # p
      BY <2>1, <2>3, <3>2, OtherCallsWait, TakenKept DEF ApiInv
    <3> QED
      BY <3>1, <3>2
  <2> QED
    BY <2>2, <2>3, Zenon DEF ApiNext, ApiStep
<1>3. (\A p \in Procs : TakenOK(p)) => NotFoundMeansTaken
  BY DEF TakenOK, Taken, NotFoundMeansTaken
<1> QED
  BY <1>1, <1>2, <1>3, ApiInvariant, PTL DEF ApiSpec
=============================================================================
