------------------------------- MODULE MCApi --------------------------------
(***************************************************************************)
(* An instance of the servers: two reservations, two keys.                 *)
(***************************************************************************)
EXTENDS Api, TLC

CONSTANTS k1, k2, r1, r2

Overnight == [confirmedAt |-> ZeroTime, checkedInAt |-> 1, checkedOutAt |-> 9,
              cancelledAt |-> NoTime, noShow |-> FALSE]

OneSession == {Overnight}
NoCancellation == {}

\* The first reservation is opened under two keys, one of which is used for the second
\* reservation too.
SharedKey == (r1 :> {k1, k2}) @@ (r2 :> {k2})

Symmetry == Permutations(Procs) \cup Permutations(InvoiceIds)
=============================================================================
