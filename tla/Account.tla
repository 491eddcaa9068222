------------------------------ MODULE Account ------------------------------
(***************************************************************************)
(* What the ledger promises about one reservation, without invoices ids,   *)
(* keys, transactions or requests: an account that is opened once with the *)
(* booking fee, closed once with at most one parking charge, and that      *)
(* takes each one-off fee once.  A fee may still arrive after the close.   *)
(***************************************************************************)
EXTENDS Pricing

CONSTANT Reservations

VARIABLE account

NoAccount == [status |-> "NONE", charges |-> NoLines, balance |-> 0]

AInit == account = [r \in Reservations |-> NoAccount]

AOpen(r) ==
    /\ account[r].status = "NONE"
    /\ account' = [account EXCEPT ![r] =
          [status |-> "OPEN", charges |-> Line("BOOKING", BookingFeeIDR),
           balance |-> BookingFeeIDR]]

AFee(r, kind, fee) ==
    /\ account[r].status # "NONE"
    /\ ~hasKind(account[r].charges, kind)
    /\ account' = [account EXCEPT ![r].charges[kind] = fee, ![r].balance = @ + fee]

\* The account says what it was charged for parking: one charge or none.
AClose(r) ==
    LET parking == [k \in Kinds |->
                      IF k \in {"HOURLY", "OVERNIGHT"} THEN account'[r].charges[k] ELSE NoLine]
    IN  /\ account[r].status = "OPEN"
        /\ account'[r].charges \in LineSets
        /\ ~(hasKind(parking, "HOURLY") /\ hasKind(parking, "OVERNIGHT"))
        /\ account' = [account EXCEPT ![r] =
              [status |-> "CLOSED", charges |-> Concat(account[r].charges, parking),
               balance |-> account[r].balance + SumOfLines(parking)]]

ANext ==
    \E r \in Reservations :
        \/ AOpen(r)
        \/ AFee(r, "CANCELLATION", CancelFeeIDR)
        \/ AFee(r, "NOSHOW", NoShowFeeIDR)
        \/ AClose(r)

ASpec == AInit /\ [][ANext]_account
=============================================================================
