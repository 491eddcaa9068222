-------------------------------- MODULE Api ---------------------------------
(***************************************************************************)
(* The servers in front of the ledger.  gRPC: the interceptor chain        *)
(* (recovery, logging with mapError, timeout, idempotency), the            *)
(* idempotency store and the handlers of BillingService.  HTTP: the reads  *)
(* of InvoiceHandler.  A process is one call in progress; while it is in   *)
(* the usecase it is a request of Ledger.                                  *)
(***************************************************************************)
EXTENDS Ledger

CONSTANTS
    TTL         \* of a cached response, in seconds: 24 * 3600 in the code

ASSUME ApiAssumption == TTL \in Nat

VARIABLES
    cache,      \* idempotency_key table: scope OpenInvoice, key -> the invoice answered
    rpc,        \* each process's call: where it is in the chain, what it carries
    told        \* the invoices callers were told of under a key, for ever

avars == <<vars, cache, rpc, told>>

Codes == {"none", "OK", "InvalidArgument", "NotFound", "Internal", "Unknown",
          "200", "400", "404"}

Stages == {"idle", "store_get", "handler", "store_put", "answered",
           "http_find", "http"}

Rpc == [stage : Stages, res : Reservations \cup {None}, key : Keys \cup {None},
        inv : InvoiceIds \cup {None}, code : Codes]

NoRpc == [stage |-> "idle", res |-> None, key |-> None, inv |-> None, code |-> "none"]

ApiTypeOK ==
    /\ TypeOK
    /\ cache \in [Keys -> InvoiceIds \cup {None}]
    /\ rpc \in [Procs -> Rpc]
    /\ told \in [Keys -> SUBSET InvoiceIds]

ApiInit ==
    /\ Init
    /\ cache = [k \in Keys |-> None]
    /\ rpc = [p \in Procs |-> NoRpc]
    /\ told = [k \in Keys |-> {}]

-----------------------------------------------------------------------------
(* What the chain computes                                                 *)

\* Mutant: codes mapError has no case for go out as they are.
mapErrorPartly(r) ==
    CASE r = "ok" -> {"OK"}
      [] r = "not_found" -> {"NotFound"}
      [] r = "validation" -> {"VALIDATION"}
      [] r = "error" -> {"Unknown", "Internal"}

\* mapError, and the recovery interceptor for a handler that panics.  VALIDATION has no
\* case of its own; an error that is no AppError is passed on.
mapError(r) ==
    CASE r = "ok" -> {"OK"}
      [] r = "not_found" -> {"NotFound"}
      [] r = "validation" -> {"Internal"}
      [] r = "error" -> {"Unknown", "Internal"}

\* formatInterval: the number of seconds is printed as a Duration in nanoseconds, and
\* another s is put behind it.  What counts is the unit: 24 h give 86.4 and "uss", the u
\* standing for a mu.
formatInterval(seconds) ==
    CASE seconds < 1000 -> "nss"
      [] seconds >= 1000 /\ seconds < 1000000 -> "uss"
      [] seconds >= 1000000 /\ seconds < 1000000000 -> "mss"
      [] OTHER -> "ss"

\* The abbreviations of these units PostgreSQL reads in an interval.
IntervalUnits == {"s", "sec", "secs", "ms", "msec", "msecs", "us", "usec", "usecs"}

\* protoZero has no type to make a response of.
protoZero == None

-----------------------------------------------------------------------------
(* The chain                                                               *)

Goes(p, stage) == rpc' = [rpc EXCEPT ![p].stage = stage]

Respond(p, code) ==
    /\ rpc' = [rpc EXCEPT ![p].stage = "answered", ![p].code = code]
    /\ told' = IF code = "OK" /\ rpc[p].key # None
               THEN [told EXCEPT ![rpc[p].key] = @ \cup {rpc[p].inv}] ELSE told

\* OpenInvoice is the one guarded method.  r = None: a blank reservation id.
OpenInvoice(p, r, k) ==
    /\ rpc[p].stage = "idle"
    /\ rpc' = [rpc EXCEPT ![p] =
                  IF k = None
                  THEN [NoRpc EXCEPT !.stage = "answered", !.code = "InvalidArgument"]
                  ELSE [NoRpc EXCEPT !.stage = "store_get", !.res = r, !.key = k]]
    /\ UNCHANGED <<vars, cache, told>>

\* The other methods pass through.
Unguarded(p) ==
    /\ rpc[p].stage = "idle"
    /\ Goes(p, "handler")
    /\ \E i \in InvoiceIds :
          CallGet(p, i) \/ \E s \in CheckoutSessions : CallClose(p, i, s)
    /\ UNCHANGED <<cache, told>>

\* store.Get, whose error is ignored; the handler is called unless the cached bytes can
\* be turned into a response.
StoreGet(p) ==
    /\ rpc[p].stage = "store_get"
    /\ IF cache[rpc[p].key] # None /\ protoZero # None
       THEN /\ rpc' = [rpc EXCEPT ![p].stage = "answered", ![p].code = "OK",
                                  ![p].inv = cache[rpc[p].key]]
            /\ told' = [told EXCEPT ![rpc[p].key] = @ \cup {cache[rpc[p].key]}]
            /\ UNCHANGED vars
       ELSE /\ Goes(p, "handler") /\ UNCHANGED told
            /\ IF rpc[p].res = None
               THEN CallOpenBlank(p)
               ELSE CallOpen(p, rpc[p].res, rpc[p].key)
    /\ UNCHANGED cache

\* The statements of the handler; inv is the invoice they work on.
Statement(p) ==
    /\ rpc[p].stage \in {"handler", "http"} /\ pc[p] # "done"
    /\ LockStep(p) \/ FreeStep(p)
    /\ rpc' = [rpc EXCEPT ![p].inv = IF cur'[p] = None THEN cur[p] ELSE cur'[p]]
    /\ UNCHANGED <<cache, told>>

\* An error, a panic, a caller that is gone, or for gRPC the deadline (the caller's, or
\* 2 s).
HandlerFails(p) ==
    /\ rpc[p].stage \in {"handler", "http"}
    /\ Fail(p)
    /\ UNCHANGED <<cache, rpc, told>>

HandlerReturns(p) ==
    /\ rpc[p].stage = "handler"
    /\ Return(p)
    /\ IF reply[p] = "ok" /\ rpc[p].key # None
       THEN Goes(p, "store_put") /\ UNCHANGED told
       ELSE \E c \in mapError(reply[p]) : Respond(p, c)
    /\ UNCHANGED cache

\* store.Put: INSERT ... now() + $4::interval ON CONFLICT DO NOTHING, its error ignored.
StorePut(p) ==
    /\ rpc[p].stage = "store_put"
    /\ cache' = IF formatInterval(TTL) \in IntervalUnits /\ cache[rpc[p].key] = None
                THEN [cache EXCEPT ![rpc[p].key] = rpc[p].inv] ELSE cache
    /\ Respond(p, "OK")
    /\ UNCHANGED vars

\* GET /v1/invoices/{id}.
HttpById(p, i) ==
    /\ rpc[p].stage = "idle"
    /\ Goes(p, "http")
    /\ CallGet(p, i)
    /\ UNCHANGED <<cache, told>>

\* GET /v1/invoices?reservation_id=r.  r = None: without the parameter.
HttpByReservation(p, r) ==
    /\ rpc[p].stage = "idle"
    /\ rpc' = [rpc EXCEPT ![p] =
                  IF r = None
                  THEN [NoRpc EXCEPT !.stage = "answered", !.code = "400"]
                  ELSE [NoRpc EXCEPT !.stage = "http_find", !.res = r]]
    /\ UNCHANGED <<vars, cache, told>>

\* The first statement of GetByReservationID, or its failure.
HttpFind(p) ==
    /\ rpc[p].stage = "http_find"
    /\ \/ \E i \in InvoiceIds :
             /\ Exists(i) /\ invoice[i].res = rpc[p].res
             /\ Goes(p, "http")
             /\ CallGet(p, i)
             /\ UNCHANGED told
       \/ Respond(p, "404") /\ UNCHANGED vars
    /\ UNCHANGED cache

\* Every error is answered 404.
HttpReturns(p) ==
    /\ rpc[p].stage = "http"
    /\ Return(p)
    /\ Respond(p, IF reply[p] = "ok" THEN "200" ELSE "404")
    /\ UNCHANGED cache

Sent(p) ==
    /\ rpc[p].stage = "answered"
    /\ rpc' = [rpc EXCEPT ![p] = NoRpc]
    /\ UNCHANGED <<vars, cache, told>>

ApiNext ==
    \E p \in Procs :
        \/ \E r \in Reservations : \E k \in KeysOf[r] : OpenInvoice(p, r, k)
        \/ \E k \in Keys : OpenInvoice(p, None, k)
        \/ \E r \in Reservations : OpenInvoice(p, r, None)
        \/ Unguarded(p)
        \/ StoreGet(p) \/ Statement(p) \/ HandlerFails(p) \/ HandlerReturns(p)
        \/ StorePut(p)
        \/ \E i \in InvoiceIds : HttpById(p, i)
        \/ \E r \in Reservations \cup {None} : HttpByReservation(p, r)
        \/ HttpFind(p) \/ HttpReturns(p)
        \/ Sent(p)

ApiSpec == ApiInit /\ [][ApiNext]_avars

-----------------------------------------------------------------------------
(* What callers may rely on                                                *)

\* All calls of OpenInvoice that succeed under one key, retried, concurrent, after a lost
\* answer, or for another reservation by mistake, name the same invoice, although no
\* response ever comes out of the cache: the unique key column and findByIdem do it
\* (interceptors.go idempotencyInterceptor, invoice.go Open; docs/features/01).
SameKeySameInvoice == \A k \in Keys : \A i, j \in told[k] : i = j

\* OpenInvoice answers NotFound only when another key holds the reservation's invoice: a
\* caller that gets it need not open, and a retry with the same key cannot help
\* (invoice.go Open, findByIdem; interceptors.go mapError).
NotFoundMeansTaken ==
    \A p \in Procs :
        rpc[p].code = "NotFound" /\ rpc[p].key # None =>
            \E i \in InvoiceIds :
                Exists(i) /\ invoice[i].res = rpc[p].res /\ invoice[i].key # rpc[p].key
=============================================================================
