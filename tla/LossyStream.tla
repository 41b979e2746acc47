----------------------------- MODULE LossyStream -----------------------------
(***************************************************************************)
(* What a watcher of a submission is promised, without Redis or gateways:  *)
(* frames are numbered 0, 1, 2, ... as they leave the worker, and each     *)
(* client receives some of those already out, never one twice and never    *)
(* one older than the last.  Frames may be missed; StreamDelivery's        *)
(* GapsAccounted says which.                                               *)
(***************************************************************************)
EXTENDS Naturals, Sequences

CONSTANT Clients

VARIABLES emitted,   \* how many numbers have left the worker
          received   \* [Clients -> the numbers a client was sent, in order]

Init == /\ emitted = 0
        /\ received = [c \in Clients |-> << >>]

Emit == /\ emitted' = emitted + 1
        /\ UNCHANGED received

Receive(c) ==
    \E n \in 0..(emitted - 1) :
        /\ \A i \in 1..Len(received[c]) : received[c][i] < n
        /\ received' = [received EXCEPT ![c] = Append(@, n)]
        /\ UNCHANGED emitted

Next == Emit \/ \E c \in Clients : Receive(c)

Spec == Init /\ [][Next]_<<emitted, received>>
=============================================================================
