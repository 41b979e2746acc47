--------------------------- MODULE ChunkProtocol ---------------------------
(***************************************************************************)
(* What every consumer of BaseSandbox.stream_execute relies on, and what   *)
(* the Yield action of StreamDelivery assumes: any number of data chunks   *)
(* (status, stdout, stderr), then at most one ERROR (some sandboxes: a     *)
(* second one), then at most one COMPLETE, and nothing after it.           *)
(***************************************************************************)
EXTENDS Naturals

CONSTANT RepeatsError  \* whether an ERROR may follow an ERROR

VARIABLES phase,  \* open, errored, completed
          count   \* chunks yielded

Init == phase = "open" /\ count = 0

Chunk(from, to) == /\ phase \in from
                   /\ phase' = to
                   /\ count' = count + 1

Next == \/ Chunk({"open"}, "open")
        \/ Chunk({"open"}, "errored")
        \/ RepeatsError /\ Chunk({"errored"}, "errored")
        \/ Chunk({"open", "errored"}, "completed")

Spec == Init /\ [][Next]_<<phase, count>>
=============================================================================
