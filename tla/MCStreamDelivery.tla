-------------------------- MODULE MCStreamDelivery --------------------------
(* Instances of StreamDelivery for TLC.  Connections share nothing but what *)
(* the worker and Redis give each of them, so one is as good as many.        *)
EXTENDS StreamDelivery
=============================================================================
