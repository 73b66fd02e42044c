----------------------------- MODULE MCAlertPath -----------------------------
(* One monitor and a queue of two: one result may raise three alerts, so its *)
(* own alerts fill the queue, and an older one of the same topic may be in   *)
(* front of them.                                                           *)
EXTENDS AlertPath

MCHours == {24 * CertWarnDays - 1, 24 * CertWarnDays}
=============================================================================
