----------------------------- MODULE MCConsumer -----------------------------
(***************************************************************************)
(* Instances of the consumer: the messages of one reservation, a spinning  *)
(* one among them, handled by two replicas or by one beside a gRPC caller. *)
(***************************************************************************)
EXTENDS Consumer, TLC

CONSTANTS c1, c2, g1, k1, k2, r1, m1, m2, m3

Overnight == [confirmedAt |-> 1, checkedInAt |-> 1, checkedOutAt |-> 9,
              cancelledAt |-> NoTime, noShow |-> FALSE]
InGrace == [confirmedAt |-> 1, cancelledAt |-> 2]
Late == [confirmedAt |-> 1, cancelledAt |-> 4]

OneStay == {Overnight}
TwoCancels == {InGrace, Late}
OneKey == r1 :> {k1}
TwoKeys == r1 :> {k1, k2}
ReservationKey == r1 :> k1

Created == [type |-> EvtReservationCreated, body |-> "good", res |-> r1,
            stay |-> Overnight, cancels |-> {Late}]
CheckedOut == [Created EXCEPT !.type = EvtReservationCheckedOut]
Cancelled == [Created EXCEPT !.type = EvtReservationCancelled]
Unstamped == [Cancelled EXCEPT !.cancels = {InGrace, Late}]
Expired == [Created EXCEPT !.type = EvtReservationExpired]
Unreadable == [Created EXCEPT !.body = "garbled"]
NoReservation == [Created EXCEPT !.body = "blank"]
NotAUuid == [Created EXCEPT !.body = "malformed"]
CancelsNothing == [Cancelled EXCEPT !.body = "blank"]

Carrying(a, b, c) == (m1 :> a) @@ (m2 :> b) @@ (m3 :> c)

\* A stay, a cancellation whose time is that of the delivery with a no-show, and events
\* that never reach the ledger.
Queued == {Carrying(Created, CheckedOut, NoReservation),
           Carrying(Created, Unstamped, Expired),
           Carrying(Unreadable, NoReservation, CancelsNothing),
           Carrying(Unreadable, NoReservation, NotAUuid)}

\* A stay whose invoice gRPC may open and close, too.
Shared == {Carrying(Created, CheckedOut, Unreadable)}

Lives == Queued \cup Shared

\* Two replicas, or one beside a gRPC caller.
TwoAtATime == [s \in Scenarios |-> IF s \in Shared THEN {c1, g1} ELSE {c1, c2}]

\* reservation.cancelled.v1 is published twice.
Replay == {Carrying(Created, Cancelled, Cancelled)}
=============================================================================
