----------------------------- MODULE MCPayment -----------------------------
(* The instances of the payment requests.                                  *)
EXTENDS Payment
=============================================================================
