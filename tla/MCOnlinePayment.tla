--------------------------- MODULE MCOnlinePayment ---------------------------
EXTENDS OnlinePayment
CONSTANTS t1, w1, w2
(* The backend handles one payment at a time; the application of the       *)
(* customer calls at any moment.                                           *)
OneBackend == (w1 :> {"webhook", "cron", "manual", "refund", "cancel"}) @@ (w2 :> {"app"})
=============================================================================
