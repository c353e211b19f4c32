----------------------------- MODULE MCBilling -----------------------------
(* Metering and Billing: three windows, of which two are in the first billing *)
(* window and the third opens the next; of two samples, one is dropped.       *)
EXTENDS Billing

\* Bound: two bytes are carried, or one is carried and one sent.
FewBytes == carried + fakes <= MaxBytes
=============================================================================
