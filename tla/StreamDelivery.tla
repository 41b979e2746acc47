--------------------------- MODULE StreamDelivery ---------------------------
(***************************************************************************)
(* How the terminal output of ONE submission travels from the worker to    *)
(* the browsers watching it.                                               *)
(*                                                                         *)
(*   worker   _stream_and_collect iterates sandbox.stream_execute and, for *)
(*            each chunk, StreamMultiplexer.publish_chunk_async performs   *)
(*            three separately awaited Redis calls:                        *)
(*                   PUBLISH channel ; RPUSH buffer ; EXPIRE buffer        *)
(*   Redis    a Pub/Sub channel (no memory) and a list with a TTL          *)
(*   gateway  one websocket_stream_submission per connection: SUBSCRIBE,   *)
(*            LRANGE the buffer, replay it, then forward the channel,      *)
(*            dropping every frame whose sequence was already sent         *)
(*                                                                         *)
(* A frame is its sequence number and its event: "complete", "error", or   *)
(* "data" for status/stdout/stderr, which nothing here tells apart.        *)
(***************************************************************************)
EXTENDS Naturals, Integers, Sequences, FiniteSets

CONSTANTS
    Sessions,   \* WebSocket connections; a reconnect is another member
    MaxFrames,  \* bound: sequence numbers one execution may use
    MaxFaults,  \* bound: Redis errors, sandbox exceptions, worker crashes
    MaxExpiries \* bound: times the buffer's TTL runs out

ASSUME BoundsAssumption ==
    /\ MaxFrames \in Nat
    /\ MaxFaults \in Nat
    /\ MaxExpiries \in Nat

VARIABLES
    phase,     \* what the execution may still emit
    step,      \* the await publish_chunk_async is at
    frame,     \* the frame in the worker's hands
    seq,       \* StreamMultiplexer.sequence: the next number
    buffer,    \* the Redis list rce:buffer:<id>
    ttl,       \* whether that key has an expiry set
    faults,    \* faults so far (bounded)
    expiries,  \* expiries so far (bounded)
    conn,      \* [Sessions -> state of the endpoint coroutine]
    inbox,     \* [Sessions -> channel messages delivered, not yet read]
    replay,    \* [Sessions -> frames of LRANGE still to be replayed]
    last,      \* [Sessions -> last_seq of downstream_pump]
    sent,      \* [Sessions -> frames written to the socket]
    dropped,   \* history: numbers that never entered the buffer or left it
    inflight   \* history: numbers on the wire when the session subscribed

workerVars  == <<phase, step, frame, seq>>
redisVars   == <<buffer, ttl, expiries>>
sessionVars == <<conn, inbox, replay, last, sent>>
history     == <<dropped, inflight>>
vars == <<workerVars, redisVars, faults, sessionVars, history>>

Events == {"data", "error", "complete"}
Frames == [seq : Nat, event : Events]

Phases == {"open",       \* the sandbox runs
           "errored",    \* it yielded ERROR; a second, COMPLETE or the end follow
           "completed",  \* it yielded COMPLETE
           "failed"}     \* the except branch is publishing its ERROR
Steps  == {"iterate", "publish", "append", "expire", "done"}

ConnStates == {"new", "accepted", "subscribed", "pumping", "closing", "closed"}

\* A bug: the buffer is read first and the channel subscribed after it.
SubscribeLate == {s \in Sessions : conn[s] = "pumping"}

\* Sessions whose SUBSCRIBE Redis has processed: PUBLISH reaches these.
Subscribers == {s \in Sessions : conn[s] \in {"subscribed", "pumping"}}

Seqs(fs) == {fs[i].seq : i \in 1..Len(fs)}

Init ==
    /\ phase = "open"
    /\ step = "iterate"
    /\ frame = [seq |-> 0, event |-> "data"]
    /\ seq = 0
    /\ buffer = << >>
    /\ ttl = FALSE
    /\ faults = 0
    /\ expiries = 0
    /\ conn = [s \in Sessions |-> "new"]
    /\ inbox = [s \in Sessions |-> << >>]
    /\ replay = [s \in Sessions |-> << >>]
    /\ last = [s \in Sessions |-> -1]
    /\ sent = [s \in Sessions |-> << >>]
    /\ dropped = {}
    /\ inflight = [s \in Sessions |-> {}]

-----------------------------------------------------------------------------
(* The worker *)

\* _format_payload stamps the chunk and advances the counter, before any await.
Format(e) ==
    /\ frame' = [seq |-> seq, event |-> e]
    /\ seq' = seq + 1
    /\ step' = "publish"

\* The sandbox yields a chunk.  A data chunk leaves room for the two frames
\* that may end the stream.
Yield(e) ==
    /\ step = "iterate"
    /\ \/ e = "data"     /\ phase = "open" /\ seq + 2 < MaxFrames /\ phase' = "open"
       \/ e = "error"    /\ phase \in {"open", "errored"} /\ seq + 1 < MaxFrames
                         /\ phase' = "errored"
       \/ e = "complete" /\ phase \in {"open", "errored"} /\ seq < MaxFrames
                         /\ phase' = "completed"
    /\ Format(e)
    /\ UNCHANGED <<redisVars, faults, sessionVars, history>>

\* The generator is exhausted: after COMPLETE, or after ERROR alone (a
\* DockerException).
Finish ==
    /\ step = "iterate"
    /\ phase \in {"errored", "completed"}
    /\ step' = "done"
    /\ UNCHANGED <<phase, frame, seq, redisVars, faults, sessionVars, history>>

\* 1. PUBLISH: every current subscriber gets the frame, nobody else ever will.
Publish ==
    /\ step = "publish"
    /\ step' = "append"
    /\ inbox' = [s \in Sessions |-> IF s \in Subscribers
                                    THEN Append(inbox[s], frame) ELSE inbox[s]]
    /\ UNCHANGED <<phase, frame, seq, redisVars, faults,
                   conn, replay, last, sent, history>>

\* 2. RPUSH.
AppendToBuffer ==
    /\ step = "append"
    /\ step' = "expire"
    /\ buffer' = Append(buffer, frame)
    /\ UNCHANGED <<phase, frame, seq, ttl, expiries, faults, sessionVars, history>>

\* 3. EXPIRE; the except branch publishes one frame and leaves.
SetExpiry ==
    /\ step = "expire"
    /\ step' = IF phase = "failed" THEN "done" ELSE "iterate"
    /\ ttl' = (buffer # << >>)
    /\ UNCHANGED <<phase, frame, seq, buffer, expiries, faults, sessionVars, history>>

\* A frame abandoned before its RPUSH never enters the buffer.
Unbuffered == IF step \in {"publish", "append"} THEN {frame.seq} ELSE {}

\* The sandbox, or one of the three Redis calls, raises: the except branch
\* formats an ERROR frame.  A lost reply is a failure at the following step.
StreamFails ==
    /\ step # "done"
    /\ phase # "failed"
    /\ faults < MaxFaults
    /\ faults' = faults + 1
    /\ phase' = "failed"
    /\ Format("error")
    /\ dropped' = dropped \cup Unbuffered
    /\ UNCHANGED <<redisVars, sessionVars, inflight>>

\* Publishing that ERROR raises too, or the worker process dies: nothing more.
WorkerStops ==
    /\ step # "done"
    /\ faults < MaxFaults
    /\ faults' = faults + 1
    /\ step' = "done"
    /\ dropped' = dropped \cup Unbuffered
    /\ UNCHANGED <<phase, frame, seq, redisVars, sessionVars, inflight>>

-----------------------------------------------------------------------------
(* Redis *)

\* BUFFER_TTL_SECONDS pass since the last EXPIRE; a run may be silent longer.
BufferExpires ==
    /\ ttl = TRUE
    /\ expiries < MaxExpiries
    /\ expiries' = expiries + 1
    /\ buffer' = << >>
    /\ ttl' = FALSE
    /\ dropped' = dropped \cup Seqs(buffer)
    /\ UNCHANGED <<workerVars, faults, sessionVars, inflight>>

-----------------------------------------------------------------------------
(* The gateway: one coroutine per connection *)

\* The handshake: a token that does not decode closes the socket with 1008.
Handshake(s) ==
    /\ conn[s] = "new"
    /\ \E authenticated \in BOOLEAN :
          conn' = [conn EXCEPT ![s] = IF authenticated THEN "accepted" ELSE "closed"]
    /\ UNCHANGED <<workerVars, redisVars, faults, inbox, replay, last, sent, history>>

Subscribe(s) ==
    /\ conn[s] = "accepted"
    /\ conn' = [conn EXCEPT ![s] = "subscribed"]
    /\ inflight' = [inflight EXCEPT ![s] = IF step = "append" THEN {frame.seq} ELSE {}]
    /\ UNCHANGED <<workerVars, redisVars, faults, inbox, replay, last, sent, dropped>>

\* LRANGE buffer 0 -1, the first await of downstream_pump.
ReadBuffer(s) ==
    /\ conn[s] = "subscribed"
    /\ conn' = [conn EXCEPT ![s] = "pumping"]
    /\ replay' = [replay EXCEPT ![s] = buffer]
    /\ UNCHANGED <<workerVars, redisVars, faults, inbox, last, sent, history>>

\* A bug: no deduplication.
ForwardAll(s, f) ==
    /\ sent' = [sent EXCEPT ![s] = Append(@, f)]
    /\ last' = [last EXCEPT ![s] = f.seq]

\* "if seq > last_seq": forward the frame and remember its number, or drop it.
Forward(s, f) ==
    IF f.seq > last[s]
    THEN /\ sent' = [sent EXCEPT ![s] = Append(@, f)]
         /\ last' = [last EXCEPT ![s] = f.seq]
    ELSE UNCHANGED <<sent, last>>

\* One turn of the catch-up loop, which looks at no frame's event.
ReplayFrame(s) ==
    /\ conn[s] = "pumping"
    /\ replay[s] # << >>
    /\ Forward(s, Head(replay[s]))
    /\ replay' = [replay EXCEPT ![s] = Tail(@)]
    /\ UNCHANGED <<workerVars, redisVars, faults, conn, inbox, history>>

\* A bug: only a COMPLETE frame ends the live loop.
EndsOnComplete(f) == f.event = "complete"

\* The frames that end the live loop.
Ends(f) == f.event \in {"complete", "error"}

\* One turn of the live loop.
ForwardLive(s) ==
    /\ conn[s] = "pumping"
    /\ replay[s] = << >>
    /\ inbox[s] # << >>
    /\ Forward(s, Head(inbox[s]))
    /\ inbox' = [inbox EXCEPT ![s] = Tail(@)]
    /\ conn' = [conn EXCEPT ![s] = IF Ends(Head(inbox[s])) THEN "closing" ELSE "pumping"]
    /\ UNCHANGED <<workerVars, redisVars, faults, replay, history>>

\* The browser goes away (upstream_pump sees WebSocketDisconnect, or the live
\* loop client_state) or the gateway's Redis connection raises.
Disconnect(s) ==
    /\ conn[s] \in {"accepted", "subscribed", "pumping"}
    /\ conn' = [conn EXCEPT ![s] = "closing"]
    /\ UNCHANGED <<workerVars, redisVars, faults, inbox, replay, last, sent, history>>

\* The finally block: unsubscribe, close; the pubsub's queue goes with it.
CloseSession(s) ==
    /\ conn[s] = "closing"
    /\ conn' = [conn EXCEPT ![s] = "closed"]
    /\ inbox' = [inbox EXCEPT ![s] = << >>]
    /\ replay' = [replay EXCEPT ![s] = << >>]
    /\ UNCHANGED <<workerVars, redisVars, faults, last, sent, history>>

-----------------------------------------------------------------------------
Worker == \/ \E e \in Events : Yield(e)
          \/ Finish
          \/ Publish
          \/ AppendToBuffer
          \/ SetExpiry

Gateway(s) == \/ Subscribe(s)
              \/ ReadBuffer(s)
              \/ ReplayFrame(s)
              \/ ForwardLive(s)
              \/ CloseSession(s)

Next == \/ Worker
        \/ StreamFails
        \/ WorkerStops
        \/ BufferExpires
        \/ \E s \in Sessions : Gateway(s) \/ Handshake(s) \/ Disconnect(s)

Spec == Init /\ [][Next]_vars

\* The worker and each connection are coroutines of event loops that keep
\* running; faults, disconnects and new connections are never owed.
Fairness == /\ WF_vars(Worker)
            /\ \A s \in Sessions : WF_vars(Gateway(s))

FairSpec == Spec /\ Fairness

-----------------------------------------------------------------------------
(* Properties *)

TypeOK ==
    /\ phase \in Phases
    /\ step \in Steps
    /\ frame \in Frames
    /\ seq \in Nat
    /\ buffer \in Seq(Frames)
    /\ ttl \in BOOLEAN
    /\ faults \in Nat
    /\ expiries \in Nat
    /\ conn \in [Sessions -> ConnStates]
    /\ inbox \in [Sessions -> Seq(Frames)]
    /\ replay \in [Sessions -> Seq(Frames)]
    /\ last \in [Sessions -> Nat \cup {-1}]
    /\ sent \in [Sessions -> Seq(Frames)]
    /\ dropped \in SUBSET Nat
    /\ inflight \in [Sessions -> SUBSET Nat]

\* The numbers of fs go up, each at most once.
Increasing(fs) == \A i, j \in 1..Len(fs) : i < j => fs[i].seq < fs[j].seq

\* Replay and live forwarding overlap (the session subscribes before it reads
\* the buffer), yet no connection is ever sent a frame twice or out of order.
SentInOrder == \A s \in Sessions : Increasing(sent[s])

\* What a client can miss.  Up to the last number a session forwarded, every
\* frame was forwarded to it except those that were on the wire (published,
\* not yet pushed) at the instant it subscribed, and those Redis never stored
\* or has expired.  This is the exact guarantee of "subscribe, LRANGE, dedupe"
\* against a worker that publishes before it appends.
GapsAccounted ==
    \A s \in Sessions : \A n \in 0..last[s] :
        n \in Seqs(sent[s]) \cup dropped \cup inflight[s]

\* A session that was waiting on the channel when the run's terminal frame was
\* published is closed by the server: no watcher is left on a dead stream.
WatcherIsReleased ==
    \A s \in Sessions :
        (\E i \in 1..Len(inbox[s]) : inbox[s][i].event \in {"complete", "error"})
            ~> conn[s] = "closed"

-----------------------------------------------------------------------------
(* Why GapsAccounted holds: the strengthening that is inductive *)

\* Every number below Released was published or given up; every number below
\* Settled was pushed to the buffer or given up.
Released == IF step = "publish" THEN seq - 1 ELSE seq
Settled  == IF step \in {"publish", "append"} THEN seq - 1 ELSE seq

HandInv == step \in {"publish", "append", "expire"} => seq = frame.seq + 1

BufferInv ==
    /\ Increasing(buffer)
    /\ \A n \in Seqs(buffer) : n < Settled
    /\ \A n \in 0..(Settled - 1) : n \in Seqs(buffer) \cup dropped

\* Before the catch-up loop nothing was forwarded.
FreshInv(s) == conn[s] \in {"new", "accepted", "subscribed"} => last[s] = -1

InboxInv(s) == Increasing(inbox[s]) /\ \A n \in Seqs(inbox[s]) : n < Released

\* What is left to replay is new to the client, and has no hole of its own.
ReplayInv(s) ==
    conn[s] = "pumping" =>
        /\ Increasing(replay[s])
        /\ \A n \in Seqs(replay[s]) : last[s] < n /\ n < Released
        /\ \A m \in Seqs(replay[s]) : \A n \in 0..m :
              n \in Seqs(sent[s]) \cup Seqs(replay[s]) \cup dropped

SentInv(s) == Increasing(sent[s]) /\ \A n \in Seqs(sent[s]) : n <= last[s]

\* A subscribed session can still get everything released so far from
\* somewhere: its queue and the buffer, or its queue and its replay.
SourcesInv(s) ==
    s \in Subscribers =>
        \A n \in 0..(Released - 1) :
            n \in Seqs(inbox[s]) \cup dropped \cup inflight[s]
                  \cup (IF conn[s] = "subscribed" THEN Seqs(buffer)
                        ELSE Seqs(sent[s]) \cup Seqs(replay[s]))

\* The inductive invariant.
StreamInv ==
    /\ TypeOK
    /\ HandInv
    /\ BufferInv
    /\ \A s \in Sessions : /\ FreshInv(s)
                           /\ InboxInv(s)
                           /\ ReplayInv(s)
                           /\ SentInv(s)
                           /\ SourcesInv(s)
    /\ GapsAccounted

-----------------------------------------------------------------------------
(* The abstract specification, and how this one implements it *)

SeqNumbers(fs) == [i \in 1..Len(fs) |-> fs[i].seq]

Abs == INSTANCE LossyStream WITH
           Clients  <- Sessions,
           emitted  <- Released,
           received <- [s \in Sessions |-> SeqNumbers(sent[s])]

\* Publisher, buffer, channel and gateways together are a lossy, ordered,
\* duplicate-free stream to each client.
ImplementsLossyStream == Abs!Spec
=============================================================================
