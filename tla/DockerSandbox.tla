---------------------------- MODULE DockerSandbox ----------------------------
(***************************************************************************)
(* DockerSandbox.stream_execute of one Python submission, beside the       *)
(* janitor, which removes sandbox containers older than their lease.       *)
(*                                                                         *)
(*   generator  create, attach and start the container, then poll: look at *)
(*              the clock, drain the log queue, look at the container      *)
(*   reader     the thread log_worker: from the attach socket to the queue *)
(*   input      _consume_upstream_inputs, a task of the generator's event  *)
(*              loop: its write_stdin is a blocking send on the socket     *)
(*   container  the submitted code and the Docker daemon                   *)
(*   janitor    JanitorReaper.reap_stale_containers, in another process    *)
(*                                                                         *)
(* The terminal is a tty: one output stream.  Times are counted only as    *)
(* far as they are compared.                                               *)
(***************************************************************************)
EXTENDS Naturals, Sequences, Sums

CONSTANTS
    Deadlines,  \* timeout_seconds a submission may ask for
    Lease,      \* CONTAINER_MAX_LEASE_SECONDS
    MaxBytes,   \* max_output_bytes
    MaxWrites   \* bound: chunks the submitted code writes

ASSUME DockerAssumption ==
    /\ Deadlines \subseteq Nat \ {0}
    /\ Lease \in Nat
    /\ MaxBytes \in Nat
    /\ MaxWrites \in Nat

VARIABLES
    pc,        \* where the generator is
    deadline,  \* request.timeout_seconds
    timedOut,  \* its timed_out flag
    verdict,   \* the status of the COMPLETE chunk, once yielded
    consumer,  \* asking (anext), busy (publishing a chunk), gone
    sending,   \* write_stdin stands in sendall(), and the event loop with it
    elapsed,   \* time since start_time, at most deadline
    age,       \* the container's age, at most Lease + 1
    box,       \* the container: absent, created, running, exited, removed
    code,      \* its ExitCode
    oom,       \* its OOMKilled
    handle,    \* the generator knows the container
    socket,    \* chunks in the attach socket
    reader,    \* log_worker: off, test, recv, put, done
    held,      \* << >>, or the chunk it has received and not queued
    stop,      \* stop_reader is set
    queue,     \* log_queue
    total,     \* StreamConsumer.total_bytes
    limit,     \* StreamConsumer.limit_exceeded
    last,      \* history: kind of the last chunk yielded
    count,     \* history: chunks yielded
    written,   \* history: sizes of the chunks the code wrote
    output     \* history: output chunks yielded

verdicts  == <<timedOut, verdict>>
attached  == <<handle, sending>>
clocks    == <<deadline, elapsed, age>>
container == <<box, code, oom>>
capping   == <<total, limit>>
history   == <<last, count, output>>
dockerVars == <<pc, verdicts, consumer, clocks, container, attached, socket, reader, held,
          stop, queue, capping, history, written>>

Sizes  == {1, 2}
Chunks == [n : Nat, size : Nat]
None   == [n |-> 0, size |-> 0]   \* what log_worker queues when it ends
Killed == 137

\* Where a run is over: "unremoved" if the removal of its container failed.
Concluded == {"closed", "unremoved", "crashed"}

Exists == box \in {"created", "running", "exited"}

DockerInit ==
    /\ pc = "begin" /\ timedOut = FALSE /\ verdict = "none"
    /\ deadline \in Deadlines
    /\ consumer = "asking" /\ sending = FALSE
    /\ elapsed = 0 /\ age = 0
    /\ box = "absent" /\ code = 0 /\ oom = FALSE /\ handle = FALSE
    /\ socket = << >>
    /\ reader = "off" /\ held = << >> /\ stop = FALSE
    /\ queue = << >>
    /\ total = 0 /\ limit = FALSE
    /\ last = "none" /\ count = 0 /\ output = << >>
    /\ written = << >>

Yield(kind) ==
    /\ last' = kind
    /\ count' = count + 1
    /\ consumer' = "busy"

-----------------------------------------------------------------------------
(* The generator: from its start to a running container *)

Begin ==
    /\ pc = "begin"
    /\ pc' = "create"
    /\ Yield("data")
    /\ UNCHANGED <<verdicts, clocks, container, attached, socket, reader, held, stop,
                   queue, capping, output, written>>

Create ==
    /\ pc = "create"
    /\ box' = "created"
    /\ handle' = TRUE
    /\ pc' = "attach"
    /\ UNCHANGED <<verdicts, consumer, sending, clocks, code, oom, socket, reader, held, stop,
                   queue, capping, history, written>>

Attach ==
    /\ pc = "attach"
    /\ box = "created"
    /\ pc' = "start"
    /\ UNCHANGED <<verdicts, consumer, clocks, container, attached, socket, reader,
                   held, stop, queue, capping, history, written>>

\* One of up to three attempts succeeds.  The initial stdin, if there is any, is
\* written, and may keep the event loop.
Start ==
    /\ pc = "start"
    /\ box = "created"
    /\ box' = "running"
    /\ sending' \in BOOLEAN
    /\ pc' = "read"
    /\ UNCHANGED <<verdicts, consumer, clocks, code, oom, handle, socket, reader,
                   held, stop, queue, capping, history, written>>

\* Only then does the reader thread start.
StartReader ==
    /\ pc = "read"
    /\ reader' = "test"
    /\ pc' = "poll"
    /\ UNCHANGED <<verdicts, consumer, clocks, container, attached, socket, held,
                   stop, queue, capping, history, written>>

\* A call to the Docker daemon fails.  A DockerException becomes an ERROR chunk,
\* and no COMPLETE follows; any other exception (the connection) is raised into
\* the consumer.  A create whose answer is lost leaves a container behind that
\* the generator does not know; a start whose answer is lost, one that runs.
CallFails ==
    /\ pc \in {"create", "attach", "start", "inspect"}
    /\ pc' = "cleanup"
    /\ \/ UNCHANGED box
       \/ pc = "create" /\ box' = "created"
       \/ pc = "start" /\ box = "created" /\ box' = "running"
    /\ \/ Yield("error")
       \/ consumer' = "gone" /\ UNCHANGED <<last, count>>
    /\ UNCHANGED <<verdicts, clocks, code, oom, attached, socket, reader, held, stop,
                   queue, capping, output, written>>

-----------------------------------------------------------------------------
(* The generator: the polling loop *)

\* container.kill(SIGKILL); errors are suppressed.
Kill ==
    \/ /\ box = "running"
       /\ box' = "exited"
       /\ code' = Killed
       /\ oom' = FALSE
    \/ UNCHANGED container

\* A bug: a deadline that is noted but leaves the loop running.
WatchForever ==
    /\ pc = "poll"
    /\ timedOut' = (elapsed >= deadline)
    /\ pc' = "drain"
    /\ UNCHANGED <<verdict, consumer, clocks, container, attached, socket, reader, held,
                   stop, queue, capping, history, written>>

\* A bug: the timeout is announced at once, before the output that has arrived.
WatchAndAnnounce ==
    /\ pc = "poll"
    /\ IF elapsed >= deadline
       THEN timedOut' = TRUE /\ Kill /\ stop' = TRUE /\ pc' = "join" /\ Yield("error")
       ELSE UNCHANGED <<timedOut, container, stop, consumer, last, count>> /\ pc' = "drain"
    /\ UNCHANGED <<verdict, clocks, attached, socket, reader, held, queue, capping,
                   output, written>>

\* The top of the loop: the deadline comes before the output that has arrived.
Watch ==
    /\ pc = "poll"
    /\ IF elapsed >= deadline
       THEN timedOut' = TRUE /\ Kill /\ stop' = TRUE /\ pc' = "join"
       ELSE UNCHANGED <<timedOut, container, stop>> /\ pc' = "drain"
    /\ UNCHANGED <<verdict, consumer, clocks, attached, socket, reader, held, queue,
                   capping, history, written>>

\* A bug: the chunk that crosses the cap is dropped, whatever room is left.
CappedAway(c) == [c EXCEPT !.size = IF total + c.size <= MaxBytes THEN @ ELSE 0]

\* consume_stdout: the chunk that crosses the cap is cut to the room left.
Capped(c) == [c EXCEPT !.size = IF total + c.size <= MaxBytes THEN @ ELSE MaxBytes - total]

\* One item off the queue.  A chunk is counted, capped and yielded; past the
\* cap, and for None, nothing is yielded.
Consume(goOn, atEnd, atLimit) ==
    LET c == Head(queue)
    IN  /\ queue' = Tail(queue)
        /\ IF c = None \/ limit
           THEN /\ pc' = IF c = None THEN atEnd ELSE atLimit
                /\ UNCHANGED <<consumer, capping, history>>
           ELSE /\ total' = total + Capped(c).size
                /\ limit' = (Capped(c) # c)
                /\ output' = Append(output, Capped(c))
                /\ Yield("data")
                /\ pc' = IF limit' THEN atLimit ELSE goOn
        /\ UNCHANGED <<verdicts, clocks, container, attached, socket, reader, held,
                       stop, written>>

DrainOne == pc = "drain" /\ queue # << >> /\ Consume("drain", "judge", "judge")

DrainEnds ==
    /\ pc = "drain"
    /\ queue = << >>
    /\ pc' = "judge"
    /\ UNCHANGED <<verdicts, consumer, clocks, container, attached, socket, reader,
                   held, stop, queue, capping, history, written>>

StopAtLimit ==
    /\ pc = "judge"
    /\ limit
    /\ Kill
    /\ stop' = TRUE
    /\ pc' = "join"
    /\ UNCHANGED <<verdicts, consumer, clocks, attached, socket, reader, held, queue,
                   capping, history, written>>

\* container.reload(): a container seen to have exited leads to a look at the
\* queue; one still running, or an error (suppressed), to the next turn.
LookAtContainer ==
    /\ pc = "judge"
    /\ ~limit
    /\ \/ box = "exited" /\ pc' = "look"
       \/ pc' = "poll"
    /\ UNCHANGED <<verdicts, consumer, clocks, container, attached, socket, reader,
                   held, stop, queue, capping, history, written>>

\* log_queue.empty(), read after the container's state.
LookAtQueue ==
    /\ pc = "look"
    /\ pc' = IF queue = << >> THEN "stop" ELSE "poll"
    /\ UNCHANGED <<verdicts, consumer, clocks, container, attached, socket, reader,
                   held, stop, queue, capping, history, written>>

-----------------------------------------------------------------------------
(* The generator: after the loop *)

StopReader ==
    /\ pc = "stop"
    /\ stop' = TRUE
    /\ pc' = "join"
    /\ UNCHANGED <<verdicts, consumer, clocks, container, attached, socket, reader,
                   held, queue, capping, history, written>>

\* reader_thread.join(0.5): the thread has ended, or is given up.
Join ==
    /\ pc = "join"
    /\ pc' = "final"
    /\ UNCHANGED <<verdicts, consumer, clocks, container, attached, socket, reader,
                   held, stop, queue, capping, history, written>>

DrainRest == pc = "final" /\ queue # << >> /\ Consume("final", "final", "final")

\* Nothing left; after a timeout its notice.
RestEnds ==
    /\ pc = "final"
    /\ queue = << >>
    /\ pc' = "inspect"
    /\ IF timedOut THEN Yield("error") ELSE UNCHANGED <<consumer, last, count>>
    /\ UNCHANGED <<verdicts, clocks, container, attached, socket, reader, held, stop,
                   queue, capping, output, written>>

\* A bug: the timeout is forgotten.
StatusUntimed == IF code = 0 /\ ~oom THEN "COMPLETED" ELSE "RUNTIME_ERROR"

\* The order of the tests matters: exit code 137 is taken for memory before the
\* output cap is looked at.
Status == IF timedOut THEN "TIME_LIMIT_EXCEEDED"
          ELSE IF oom \/ code = Killed THEN "MEMORY_LIMIT_EXCEEDED"
          ELSE IF limit THEN "OUTPUT_LIMIT_EXCEEDED"
          ELSE IF code = 0 THEN "COMPLETED"
          ELSE "RUNTIME_ERROR"

\* A bug: the last state seen is reported, without asking the daemon again.
ReportUnseen ==
    /\ pc = "inspect"
    /\ verdict' = Status
    /\ pc' = "cleanup"
    /\ Yield("complete")
    /\ UNCHANGED <<timedOut, clocks, container, attached, socket, reader, held, stop,
                   queue, capping, output, written>>

\* container.reload() once more (raises for a removed container: CallFails).
Report ==
    /\ pc = "inspect"
    /\ Exists
    /\ verdict' = Status
    /\ pc' = "cleanup"
    /\ Yield("complete")
    /\ UNCHANGED <<timedOut, clocks, container, attached, socket, reader, held, stop,
                   queue, capping, output, written>>

\* The end of the finally block: the removal, if the generator knows a container
\* to remove; its errors are suppressed.
Removal ==
    \/ handle /\ Exists /\ box' = "removed" /\ pc' = "closed"
    \/ handle /\ Exists /\ UNCHANGED box /\ pc' = "unremoved"
    \/ ~(handle /\ Exists) /\ UNCHANGED box /\ pc' = "closed"

\* A bug: the removal follows the try block, and an exception skips it.
CleanupUnlessRaised ==
    /\ ~sending
    /\ pc = "cleanup"
    /\ consumer # "busy"
    /\ IF consumer = "gone" THEN pc' = "closed" /\ UNCHANGED box ELSE Removal
    /\ UNCHANGED <<verdicts, consumer, clocks, code, oom, attached, socket, reader,
                   held, stop, queue, capping, history, written>>

\* The finally block, which runs whether or not the consumer still asks.
Cleanup ==
    /\ ~sending
    /\ pc = "cleanup"
    /\ consumer # "busy"
    /\ Removal
    /\ UNCHANGED <<verdicts, consumer, clocks, code, oom, attached, socket, reader,
                   held, stop, queue, capping, history, written>>

\* The generator is resumed by the consumer's request, on an event loop that is
\* not standing in a send.
Resumed ==
    /\ ~sending
    /\ consumer = "asking"
    /\ \/ Begin \/ Create \/ Attach \/ Start \/ StartReader \/ CallFails
       \/ Watch \/ DrainOne \/ DrainEnds \/ StopAtLimit
       \/ LookAtContainer \/ LookAtQueue
       \/ StopReader \/ Join \/ DrainRest \/ RestEnds \/ Report

Published ==
    /\ ~sending
    /\ pc # "crashed"
    /\ consumer = "busy"
    /\ consumer' = "asking"
    /\ UNCHANGED <<pc, verdicts, clocks, container, attached, socket, reader, held,
                   stop, queue, capping, history, written>>

\* Publishing raises: the generator is closed at its yield.
PublishFails ==
    /\ ~sending
    /\ pc # "crashed"
    /\ consumer = "busy"
    /\ consumer' = "gone"
    /\ pc' = "cleanup"
    /\ UNCHANGED <<verdicts, clocks, container, attached, socket, reader, held,
                   stop, queue, capping, history, written>>

-----------------------------------------------------------------------------
(* The input task *)

\* The task runs while the generator is suspended: at a yield, in the sleep
\* between two attempts to start, and in the one that ends a turn of the loop.
InputTurn == /\ ~sending
             /\ handle /\ pc \notin Concluded
             /\ consumer # "asking" \/ pc \in {"start", "poll"}

\* What the socket is sent finds no room, and sendall() waits.  (A send that
\* finds room changes nothing here.)
WriteStdin ==
    /\ InputTurn
    /\ sending' = TRUE
    /\ UNCHANGED <<pc, verdicts, consumer, clocks, container, handle, socket, reader,
                   held, stop, queue, capping, history, written>>

\* The program reads; or the send raises, which is logged: the container is
\* gone, or the Docker client's own timeout on the socket has passed.
SendReturns ==
    /\ sending
    /\ sending' = FALSE
    /\ UNCHANGED <<pc, verdicts, consumer, clocks, container, handle, socket, reader,
                   held, stop, queue, capping, history, written>>

\* send_signal: container.kill(signal) ends the code, or it catches the signal.
SendSignal ==
    /\ InputTurn
    /\ box = "running"
    /\ box' = "exited"
    /\ code' \in {1, Killed}
    /\ oom' = FALSE
    /\ UNCHANGED <<pc, verdicts, consumer, clocks, attached, socket, reader, held,
                   stop, queue, capping, history, written>>

\* The worker process dies, and its thread with it; the container lives on.
WorkerDies ==
    /\ pc \notin Concluded
    /\ pc' = "crashed"
    /\ reader' = "done"
    /\ UNCHANGED <<verdicts, consumer, clocks, container, attached, socket, held,
                   stop, queue, capping, history, written>>

-----------------------------------------------------------------------------
(* log_worker *)

ReaderEnds ==
    /\ reader' = "done"
    /\ queue' = Append(queue, None)

\* "while not stop_reader.is_set()"
Test ==
    /\ reader = "test"
    /\ IF stop THEN ReaderEnds ELSE reader' = "recv" /\ UNCHANGED queue
    /\ UNCHANGED <<pc, verdicts, consumer, clocks, container, attached, socket, held,
                   stop, capping, history, written>>

\* A bug: a chunk received while the stop flag is set is thrown away.
ReceiveUnlessStopped ==
    /\ reader = "recv"
    /\ socket # << >>
    /\ held' = IF stop THEN << >> ELSE <<Head(socket)>>
    /\ socket' = Tail(socket)
    /\ IF stop THEN ReaderEnds ELSE reader' = "put" /\ UNCHANGED queue
    /\ UNCHANGED <<pc, verdicts, consumer, clocks, container, attached, stop,
                   capping, history, written>>

Receive ==
    /\ reader = "recv"
    /\ socket # << >>
    /\ held' = <<Head(socket)>>
    /\ socket' = Tail(socket)
    /\ reader' = "put"
    /\ UNCHANGED <<pc, verdicts, consumer, clocks, container, attached, stop, queue,
                   capping, history, written>>

\* recv() returns nothing or raises: the container or the socket is closed, or
\* the client's own timeout on the socket has passed in silence.
ReceiveEnds ==
    /\ reader = "recv"
    /\ socket = << >>
    /\ ReaderEnds
    /\ UNCHANGED <<pc, verdicts, consumer, clocks, container, attached, socket, held,
                   stop, capping, history, written>>

Put ==
    /\ reader = "put"
    /\ queue' = queue \o held
    /\ held' = << >>
    /\ reader' = "test"
    /\ UNCHANGED <<pc, verdicts, consumer, clocks, container, attached, socket, stop,
                   capping, history, written>>

Reader == Test \/ Receive \/ ReceiveEnds \/ Put

-----------------------------------------------------------------------------
(* The container, the janitor and the clock *)

Write ==
    /\ box = "running"
    /\ Len(written) < MaxWrites
    /\ \E z \in Sizes :
          /\ written' = Append(written, z)
          /\ socket' = Append(socket, [n |-> Len(written) + 1, size |-> z])
    /\ UNCHANGED <<pc, verdicts, consumer, clocks, container, attached, reader, held,
                   stop, queue, capping, history>>

\* The code ends: by itself, by a signal, or out of memory.
Exit ==
    /\ box = "running"
    /\ box' = "exited"
    /\ \/ code' \in {0, 1, Killed} /\ oom' = FALSE
       \/ code' = Killed /\ oom' = TRUE
    /\ UNCHANGED <<pc, verdicts, consumer, clocks, attached, socket, reader, held, stop,
                   queue, capping, history, written>>

\* A scan of the janitor, if it is run, finds the container older than its lease,
\* and the removal succeeds.  (A scan that fails is logged and changes nothing.)
Reap ==
    /\ Exists
    /\ age > Lease
    /\ box' = "removed"
    /\ UNCHANGED <<pc, verdicts, consumer, clocks, code, oom, attached, socket, reader,
                   held, stop, queue, capping, history, written>>

TimePasses ==
    /\ elapsed < deadline \/ (Exists /\ age <= Lease)
    /\ elapsed' = IF elapsed < deadline THEN elapsed + 1 ELSE elapsed
    /\ age' = IF Exists /\ age <= Lease THEN age + 1 ELSE age
    /\ UNCHANGED <<pc, verdicts, deadline, consumer, container, attached, socket,
                   reader, held, stop, queue, capping, history, written>>

-----------------------------------------------------------------------------
DockerNext == \/ Resumed \/ Cleanup \/ Published \/ PublishFails \/ WorkerDies
        \/ WriteStdin \/ SendReturns \/ SendSignal
        \/ Reader
        \/ Write \/ Exit
        \/ Reap
        \/ TimePasses

DockerSpec == DockerInit /\ [][DockerNext]_dockerVars

\* The event loop gives each of its tasks a turn, so that no stream of input
\* keeps the others from theirs; publications end, a send that nobody reads
\* meets its timeout, the thread runs, and time passes.  The submitted code owes
\* nothing, nor does the janitor: nothing in the repository starts its schedule.
Fairness == /\ SF_dockerVars(Resumed)
            /\ SF_dockerVars(Cleanup)
            /\ SF_dockerVars(Published \/ PublishFails)
            /\ WF_dockerVars(SendReturns)
            /\ WF_dockerVars(Reader)
            /\ WF_dockerVars(TimePasses)

DockerFairSpec == DockerSpec /\ Fairness

-----------------------------------------------------------------------------
(* Properties *)

\* The chunks of a queue, without the None that may end it.
Data(cs)  == IF cs # << >> /\ cs[Len(cs)] = None THEN SubSeq(cs, 1, Len(cs) - 1) ELSE cs
Pending   == Data(queue) \o held \o socket
Original  == [i \in 1..Len(written) |-> [n |-> i, size |-> written[i]]]
\* The bytes of a sequence of chunks.
SizeOf(cs) == SumTo([i \in DOMAIN cs |-> cs[i].size], Len(cs))

\* Socket, thread and queue hand chunks on without losing, doubling or swapping
\* one: until the cap is met, what was yielded and what is still under way make
\* up what the code wrote.
Conserved == ~limit => output \o Pending = Original

\* What the user sees is the beginning of what the code wrote, at most
\* max_output_bytes of it, and all of it that fits: the chunk that crosses the
\* cap is cut, none before it, and none after it is shown.
ShownIsCappedPrefix ==
    /\ SizeOf(output) = total
    /\ \A i \in 1..Len(output) :
          /\ output[i].n = i
          /\ \/ output[i].size = written[i]
             \/ (limit /\ i = Len(output) /\ total = MaxBytes)

\* What each status says of the container it was read from.
Justified ==
    /\ box # "removed"
    /\ CASE verdict = "TIME_LIMIT_EXCEEDED" -> elapsed = deadline
         [] verdict = "MEMORY_LIMIT_EXCEEDED" -> box = "exited" /\ code = Killed
         [] verdict = "OUTPUT_LIMIT_EXCEEDED" -> SizeOf(Original) > MaxBytes
         [] verdict = "COMPLETED" -> box = "exited" /\ code = 0 /\ SizeOf(output) <= MaxBytes
         [] verdict = "RUNTIME_ERROR" -> box = "exited" /\ code = 1

\* A status is reported only from a container that still exists, and says what
\* its end was; a run whose container the janitor took gets none.
VerdictJustified == [][verdict' # verdict => Justified']_dockerVars

\* A container that outlives its run is one whose worker died, whose removal the
\* daemon refused, or whose creation was never confirmed, and that one never ran
\* any code; no lost publication, failed call, deadline or cap leaves another.
LeftoversExplained ==
    pc \in Concluded /\ Exists =>
        \/ pc \in {"crashed", "unremoved"}
        \/ ~handle /\ box = "created"

\* Every run ends, whatever the code writes, however long it sleeps, and even
\* if the janitor takes its container.
EveryRunEnds == <>(pc \in Concluded)

-----------------------------------------------------------------------------
(* The chunk protocol its consumers rely on *)

Phase == CASE last \in {"none", "data"} -> "open"
           [] last = "error" -> "errored"
           [] last = "complete" -> "completed"

Abs == INSTANCE ChunkProtocol WITH RepeatsError <- TRUE, phase <- Phase, count <- count

\* Daemon failures after a timeout notice give a second ERROR; no output or
\* status follows an error, and nothing follows COMPLETE.
ImplementsChunkProtocol == Abs!Spec
=============================================================================
