------------------------------ MODULE MCLedger ------------------------------
(***************************************************************************)
(* Instances of the ledger: which sessions, cancellations and keys the     *)
(* callers use.                                                            *)
(***************************************************************************)
EXTENDS Ledger, TLC

CONSTANTS k1, r1

\* An hourly stay, a stay over midnight (a day has 8 ticks), and a checked_out
\* event that came without a check-in time.
Hourly == [confirmedAt |-> 1, checkedInAt |-> 1, checkedOutAt |-> 2,
           cancelledAt |-> NoTime, noShow |-> FALSE]
Overnight == [Hourly EXCEPT !.checkedOutAt = 9]
NoCheckIn == [Hourly EXCEPT !.checkedInAt = ZeroTime]

OneSession == {Overnight}
AllSessions == {Hourly, Overnight, NoCheckIn}

InGrace == [confirmedAt |-> 1, cancelledAt |-> 2]
Late == [confirmedAt |-> 1, cancelledAt |-> 4]
NoConfirmedAt == [confirmedAt |-> ZeroTime, cancelledAt |-> 2]

LateOnly == {Late}
AllCancellations == {InGrace, Late, NoConfirmedAt}

\* The consumer's choice: the reservation id is the key.
OneKey == r1 :> {k1}

ProcSymmetry == Permutations(Procs)
=============================================================================
