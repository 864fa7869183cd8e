---------------------------- MODULE MCSdkDelivery ---------------------------
(* Instances of SdkDelivery for TLC. *)
EXTENDS SdkDelivery, TLC

CONSTANTS t1, t2, a, b, c

TwoThreads == (t1 :> <<a, b>>) @@ (t2 :> <<c>>)
=============================================================================
