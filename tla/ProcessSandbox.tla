--------------------------- MODULE ProcessSandbox ---------------------------
(***************************************************************************)
(* ProcessSandbox.stream_execute: one execution as a host subprocess.      *)
(*                                                                         *)
(*   generator  the async generator: compile, spawn, feed stdin, then take *)
(*              chunks from a queue until the pumps' end mark or the       *)
(*              deadline, reap, and report                                 *)
(*   pumps      one task per output pipe: read, cap (StreamConsumer),      *)
(*              queue; the second to finish queues the end mark            *)
(*   consumer   "async for" of _stream_and_collect: the generator stands   *)
(*              still while a chunk is published                           *)
(*   program    the submitted code and a child it may fork, which may      *)
(*              leave its process group (setsid): they read, write, close  *)
(*              any of their standard streams and exit as they please      *)
(*   input      _consume_upstream_inputs, a task beside the generator that *)
(*              hands the user's keystrokes and signals to the program     *)
(*                                                                         *)
(* A pipe carries chunks: a number, and a size in units of the byte cap.   *)
(***************************************************************************)
EXTENDS Naturals, Integers, Sequences, FiniteSets, Sums

CONSTANTS
    MaxBytes,    \* max_output_bytes
    PipeSize,    \* chunks a pipe holds
    StdinExcess, \* stdin units beyond what the pipe and the writer's buffer hold
    MaxWrites    \* bound: chunks the program and its child write

ASSUME SandboxAssumption ==
    /\ MaxBytes \in Nat
    /\ PipeSize \in Nat \ {0}
    /\ StdinExcess \in Nat
    /\ MaxWrites \in Nat

VARIABLES
    pc,        \* where the generator is
    timedOut,  \* its timed_out flag
    verdict,   \* the status of the COMPLETE chunk, once yielded
    expired,   \* timeout_seconds have passed
    consumer,  \* asking (anext), busy (publishing a chunk), gone (it raised)
    compiler,  \* absent, running, exited
    program,   \* absent, running, zombie (not reaped), reaped
    code,      \* its exit code
    child,     \* absent, running, detached (in a session of its own), dead
    holders,   \* [Ends -> the processes that have it open; stdin's while it is fed]
    pipe,      \* [Streams -> chunks in the pipe]
    stdin,     \* stdin units drain() still waits for the program to take
    pump,      \* [Streams -> idle, reading, done]
    total,     \* StreamConsumer.total_bytes
    limit,     \* StreamConsumer.limit_exceeded
    queue,     \* chunk_queue
    last,      \* history: kind of the last chunk yielded
    count,     \* history: chunks yielded
    written,   \* history: [Streams -> sizes of the chunks written]
    output     \* history: stdout and stderr chunks yielded

generator == <<pc, timedOut, verdict>>
processes == <<compiler, program, code, child, holders>>
pumping   == <<pump, total, limit>>
history   == <<last, count, output>>
vars == <<generator, expired, consumer, processes, pipe, stdin, pumping, queue,
          history, written>>

Streams == {"stdout", "stderr"}
Ends    == Streams \cup {"stdin"}
Sizes   == {1, 2}
Chunks  == [src : Streams, n : Nat, size : Nat]
EndMark == [src |-> "none", n |-> 0, size |-> 0]
Killed  == -9

Init ==
    /\ pc = "begin" /\ timedOut = FALSE /\ verdict = "none"
    /\ expired = FALSE
    /\ consumer = "asking"
    /\ compiler = "absent"
    /\ program = "absent" /\ code = 0 /\ child = "absent"
    /\ holders = [e \in Ends |-> {}]
    /\ pipe = [s \in Streams |-> << >>]
    /\ stdin \in {0, StdinExcess}
    /\ pump = [s \in Streams |-> "idle"]
    /\ total = 0 /\ limit = FALSE
    /\ queue = << >>
    /\ last = "none" /\ count = 0
    /\ written = [s \in Streams |-> << >>]
    /\ output = << >>

\* The generator yields: the consumer is busy with the chunk until it asks on.
Yield(kind) ==
    /\ last' = kind
    /\ count' = count + 1
    /\ consumer' = "busy"

Complete(status) ==
    /\ Yield("complete")
    /\ verdict' = status
    /\ pc' = "cleanup"

\* A bug: process.kill() alone, without the group.
TerminateLeader ==
    /\ program' = IF program = "running" THEN "zombie" ELSE program
    /\ code' = IF program = "running" THEN Killed ELSE code
    /\ holders' = [e \in Ends |-> holders[e] \ {"program"}]
    /\ UNCHANGED child

\* _terminate_subprocess: SIGKILL to the group of a process not yet reaped.
\* After the reap getpgid raises, the exception is suppressed, and the rest of
\* the group is left alone.  A child that left the group is never reached.
Terminate ==
    /\ program' = IF program = "running" THEN "zombie" ELSE program
    /\ code' = IF program = "running" THEN Killed ELSE code
    /\ IF program = "reaped"
       THEN UNCHANGED <<child, holders>>
       ELSE /\ child' = IF child = "running" THEN "dead" ELSE child
            /\ holders' = [e \in Ends |-> IF child = "detached"
                                            THEN holders[e] \ {"program"} ELSE {}]

-----------------------------------------------------------------------------
(* The generator, resumed by the consumer's next request *)

\* A status chunk, then the compiler or, for an interpreted language, the run.
Begin ==
    /\ pc = "begin"
    /\ Yield("data")
    /\ pc' \in {"compile", "spawn"}
    /\ UNCHANGED <<timedOut, verdict, expired, processes, pipe, stdin, pumping, queue, output, written>>

CompileSucceeds ==
    /\ pc = "compile"
    /\ compiler' = "exited"
    /\ pc' = "spawn"
    /\ Yield("data")
    /\ UNCHANGED <<timedOut, verdict, expired, program, code, child, holders,
                   pipe, stdin, pumping, queue, output, written>>

\* Non-zero exit, compiler not installed, or no answer in ten seconds: in the
\* last case wait_for cancels communicate() and nobody kills the compiler.
CompileFails ==
    /\ pc = "compile"
    /\ compiler' \in {"exited", "running"}
    /\ pc' = "compile_error"
    /\ Yield("error")
    /\ UNCHANGED <<timedOut, verdict, expired, program, code, child, holders,
                   pipe, stdin, pumping, queue, output, written>>

CompileError ==
    /\ pc = "compile_error"
    /\ Complete("COMPILE_ERROR")
    /\ UNCHANGED <<timedOut, expired, processes, pipe, stdin, pumping, queue,
                   output, written>>

\* create_subprocess_exec; without stdin_data the pumps start at once.
Spawn ==
    /\ pc = "spawn"
    /\ program' = "running"
    /\ \/ /\ pc' = "drain"
          /\ holders' = [e \in Ends |-> {"program"}]
          /\ UNCHANGED pump
       \/ /\ pc' = "loop" /\ stdin = 0
          /\ holders' = [e \in Ends |-> IF e = "stdin" THEN {} ELSE {"program"}]
          /\ pump' = [s \in Streams |-> "reading"]
    /\ UNCHANGED <<timedOut, verdict, expired, consumer, compiler, code, child,
                   pipe, stdin, total, limit, queue, history, written>>

\* The source cannot be written, or the compiler (for another reason than that
\* it is not installed) or the program cannot be started: the outer except.
SpawnFails ==
    /\ pc \in {"begin", "compile", "spawn"}
    /\ pc' = "fatal"
    /\ Yield("error")
    /\ UNCHANGED <<timedOut, verdict, expired, processes, pipe, stdin, pumping,
                   queue, output, written>>

\* "await process.stdin.drain()": returns once the program has taken what the
\* pipe and the writer's buffer cannot hold; then stdin is closed, and who has
\* it open matters to nobody.  Only then do the pumps start.
Drain ==
    /\ pc = "drain"
    /\ stdin = 0
    /\ pc' = "loop"
    /\ pump' = [s \in Streams |-> "reading"]
    /\ holders' = [holders EXCEPT !["stdin"] = {}]
    /\ UNCHANGED <<timedOut, verdict, expired, consumer, compiler, program, code, child,
                   pipe, stdin, total, limit, queue, history, written>>

\* Nobody has the other end of stdin open any more: drain() raises, into the
\* outer except branch, whether the program is alive or not.
DrainFails ==
    /\ pc = "drain"
    /\ holders["stdin"] = {}
    /\ pc' = "fatal"
    /\ Yield("error")
    /\ UNCHANGED <<timedOut, verdict, expired, processes, pipe, stdin, pumping,
                   queue, output, written>>

Fatal ==
    /\ pc = "fatal"
    /\ Complete("SYSTEM_ERROR")
    /\ UNCHANGED <<timedOut, expired, processes, pipe, stdin, pumping, queue,
                   output, written>>

\* One turn of the main loop: a chunk.
Deliver ==
    /\ pc = "loop"
    /\ queue # << >>
    /\ Head(queue) # EndMark
    /\ Yield("data")
    /\ output' = Append(output, Head(queue))
    /\ queue' = Tail(queue)
    /\ UNCHANGED <<generator, expired, processes, pipe, stdin, pumping, written>>

\* The end mark.
OutputEnds ==
    /\ pc = "loop"
    /\ queue # << >>
    /\ Head(queue) = EndMark
    /\ queue' = Tail(queue)
    /\ pc' = "reap"
    /\ UNCHANGED <<timedOut, verdict, expired, consumer, processes, pipe, stdin,
                   pumping, history, written>>

\* A bug: the deadline is noted and nothing is killed.
DeadlineNoted ==
    /\ pc = "loop"
    /\ queue = << >>
    /\ expired
    /\ timedOut' = TRUE
    /\ pc' = "kill"
    /\ UNCHANGED <<verdict, expired, consumer, processes, pipe, stdin, pumping,
                   queue, history, written>>

\* wait_for gives up: only on an empty queue, and only past the deadline.
DeadlinePasses ==
    /\ pc = "loop"
    /\ queue = << >>
    /\ expired
    /\ timedOut' = TRUE
    /\ Terminate
    /\ pc' = "kill"
    /\ UNCHANGED <<verdict, expired, consumer, compiler, pipe, stdin, pumping,
                   queue, history, written>>

\* A bug: no break after the timeout notice.
AnnounceAndGoOn ==
    /\ pc = "kill"
    /\ program = "reaped"
    /\ Yield("error")
    /\ pc' = "loop"
    /\ UNCHANGED <<timedOut, verdict, expired, processes, pipe, stdin, pumping,
                   queue, output, written>>

\* "await process.wait()", which has no deadline, then the timeout notice.
AnnounceTimeout ==
    /\ pc = "kill"
    /\ program = "reaped"
    /\ Yield("error")
    /\ pc' = "reap"
    /\ UNCHANGED <<timedOut, verdict, expired, processes, pipe, stdin, pumping,
                   queue, output, written>>

\* A bug: no exit code taken for exit code 0.
StatusOfNone == IF timedOut THEN "TIME_LIMIT_EXCEEDED"
                ELSE IF limit THEN "OUTPUT_LIMIT_EXCEEDED"
                ELSE IF code = 0 THEN "COMPLETED"
                ELSE "RUNTIME_ERROR"

\* The status, from the flags and the exit code; returncode is None while the
\* program has not been reaped.
Status == IF timedOut THEN "TIME_LIMIT_EXCEEDED"
          ELSE IF limit THEN "OUTPUT_LIMIT_EXCEEDED"
          ELSE IF program = "reaped" /\ code = 0 THEN "COMPLETED"
          ELSE "RUNTIME_ERROR"

\* wait_for(process.wait(), 2.0), which may give up on a live program; the
\* pumps are cancelled and the outcome is reported.
Report ==
    /\ pc = "reap"
    /\ program # "zombie"
    /\ pump' = [s \in Streams |-> "done"]
    /\ Complete(Status)
    /\ UNCHANGED <<timedOut, expired, processes, pipe, stdin, total, limit,
                   queue, output, written>>

\* The finally block: active_process := None, the directory is removed.
Cleanup ==
    /\ pc = "cleanup"
    /\ pc' = "closed"
    /\ UNCHANGED <<timedOut, verdict, expired, consumer, processes, pipe, stdin,
                   pumping, queue, history, written>>

Resumed ==
    /\ consumer = "asking"
    /\ \/ Begin \/ CompileSucceeds \/ CompileFails \/ CompileError
       \/ Spawn \/ SpawnFails \/ Drain \/ DrainFails \/ Fatal
       \/ Deliver \/ OutputEnds \/ DeadlinePasses \/ AnnounceTimeout
       \/ Report \/ Cleanup

-----------------------------------------------------------------------------
(* The pumps *)

\* A bug: the cap tested before the chunk is counted.
FitsBefore(c) == total < MaxBytes

\* consume_stdout and consume_stderr: the chunk that crosses the cap is cut to
\* what is left on stdout, replaced by a notice on stderr.
Fits(c)   == total + c.size <= MaxBytes
Room(s)   == IF s = "stdout" THEN MaxBytes - total ELSE 0
Capped(c) == [c EXCEPT !.size = IF Fits(c) THEN @ ELSE Room(c.src)]

\* A bug: the first pump to finish ends the stream.
MarkAtFirst(s) == <<EndMark>>

\* What a finishing pump adds: the last one queues the end mark.
MarkIfLast(s) ==
    IF \A t \in Streams \ {s} : pump[t] = "done" THEN <<EndMark>> ELSE << >>

\* One read of a pump.  Past the cap the chunk is dropped; the read that meets
\* the cap, or finds it met, kills the program and ends the pump.
Read(s) ==
    /\ pump[s] = "reading"
    /\ pipe[s] # << >>
    /\ pipe' = [pipe EXCEPT ![s] = Tail(@)]
    /\ LET c == Head(pipe[s])
           chunk == IF limit THEN << >> ELSE <<Capped(c)>>
       IN  /\ total' = IF limit THEN total ELSE total + Capped(c).size
           /\ limit' = (limit \/ ~Fits(c))
           /\ IF limit'
              THEN /\ Terminate
                   /\ pump' = [pump EXCEPT ![s] = "done"]
                   /\ queue' = queue \o chunk \o MarkIfLast(s)
              ELSE /\ UNCHANGED <<program, code, child, holders, pump>>
                   /\ queue' = queue \o chunk
    /\ UNCHANGED <<generator, expired, consumer, compiler, stdin, history, written>>

\* End of file: the pipe is empty and no process holds its write end.
EndOfFile(s) ==
    /\ pump[s] = "reading"
    /\ pipe[s] = << >>
    /\ holders[s] = {}
    /\ pump' = [pump EXCEPT ![s] = "done"]
    /\ queue' = queue \o MarkIfLast(s)
    /\ UNCHANGED <<generator, expired, consumer, processes, pipe, stdin, total,
                   limit, history, written>>

Pump(s) == Read(s) \/ EndOfFile(s)

-----------------------------------------------------------------------------
(* The consumer, the clock and the kernel *)

\* The chunk is published; anext() follows.
Published ==
    /\ consumer = "busy"
    /\ consumer' = "asking"
    /\ UNCHANGED <<generator, expired, processes, pipe, stdin, pumping, queue,
                   history, written>>

\* Publishing raises: "async for" ends, and the generator, never asked again,
\* is closed by GeneratorExit, which runs its finally block and no except.
PublishFails ==
    /\ consumer = "busy"
    /\ consumer' = "gone"
    /\ pc' = "closed"
    /\ UNCHANGED <<timedOut, verdict, expired, processes, pipe, stdin, pumping,
                   queue, history, written>>

TimePasses ==
    /\ ~expired
    /\ expired' = TRUE
    /\ UNCHANGED <<generator, consumer, processes, pipe, stdin, pumping, queue,
                   history, written>>

\* The event loop's child watcher collects the exit status.
Collect ==
    /\ program = "zombie"
    /\ program' = "reaped"
    /\ UNCHANGED <<generator, expired, consumer, compiler, code, child, holders,
                   pipe, stdin, pumping, queue, history, written>>

-----------------------------------------------------------------------------
(* The submitted code: "program" and the child it may fork *)

Alive(p) == \/ p = "program" /\ program = "running"
            \/ p = "child" /\ child \in {"running", "detached"}

TakeStdin ==
    /\ holders["stdin"] # {}
    /\ stdin > 0
    /\ stdin' = stdin - 1
    /\ UNCHANGED <<generator, expired, consumer, processes, pipe, pumping, queue,
                   history, written>>

Write(s) ==
    /\ holders[s] # {}
    /\ Len(pipe[s]) < PipeSize
    /\ Len(written["stdout"]) + Len(written["stderr"]) < MaxWrites
    /\ \E z \in Sizes :
          /\ written' = [written EXCEPT ![s] = Append(@, z)]
          /\ pipe' = [pipe EXCEPT ![s] =
                         Append(@, [src |-> s, n |-> Len(written[s]) + 1, size |-> z])]
    /\ UNCHANGED <<generator, expired, consumer, processes, stdin, pumping, queue,
                   history>>

\* A process closes its end of a standard stream and goes on.
Close(p, e) ==
    /\ p \in holders[e]
    /\ holders' = [holders EXCEPT ![e] = @ \ {p}]
    /\ UNCHANGED <<generator, expired, consumer, compiler, program, code, child,
                   pipe, stdin, pumping, queue, history, written>>

\* The child inherits what the program holds, and its process group.
Fork ==
    /\ Alive("program")
    /\ child = "absent"
    /\ child' = "running"
    /\ holders' = [e \in Ends |-> IF "program" \in holders[e]
                                  THEN holders[e] \cup {"child"} ELSE holders[e]]
    /\ UNCHANGED <<generator, expired, consumer, compiler, program, code, pipe,
                   stdin, pumping, queue, history, written>>

\* setsid() by the child.  The program leads its session and cannot leave it.
Detach ==
    /\ child = "running"
    /\ child' = "detached"
    /\ UNCHANGED <<generator, expired, consumer, compiler, program, code, holders,
                   pipe, stdin, pumping, queue, history, written>>

Exit(p) ==
    /\ Alive(p)
    /\ holders' = [e \in Ends |-> holders[e] \ {p}]
    /\ \/ /\ p = "program"
          /\ program' = "zombie"
          /\ code' \in {0, 1}
          /\ UNCHANGED child
       \/ /\ p = "child"
          /\ child' = "dead"
          /\ UNCHANGED <<program, code>>
    /\ UNCHANGED <<generator, expired, consumer, compiler, pipe, stdin, pumping,
                   queue, history, written>>

Code == \/ TakeStdin
        \/ Fork \/ Detach
        \/ \E s \in Streams : Write(s)
        \/ \E p \in {"program", "child"} :
              Exit(p) \/ \E e \in Ends : Close(p, e)

-----------------------------------------------------------------------------
(* The input task *)

\* active_process is set.
Addressed == pc \in {"drain", "loop", "kill", "reap", "fatal", "cleanup"}

\* write_stdin: into the writer's buffer, which only a drain() that waits
\* already can notice.  (Bound: one unit at a time beyond StdinExcess.)
WriteStdin ==
    /\ Addressed
    /\ stdin \in 1..StdinExcess
    /\ stdin' = stdin + 1
    /\ UNCHANGED <<generator, expired, consumer, processes, pipe, pumping, queue,
                   history, written>>

\* send_signal: to the program alone, not to its group, and the program dies of
\* it.  One that catches or ignores the signal goes on as it pleases.
SendSignal ==
    /\ Addressed
    /\ Alive("program")
    /\ program' = "zombie"
    /\ code' = 1
    /\ holders' = [e \in Ends |-> holders[e] \ {"program"}]
    /\ UNCHANGED <<generator, expired, consumer, compiler, child, pipe, stdin,
                   pumping, queue, history, written>>

-----------------------------------------------------------------------------
Next == \/ Resumed
        \/ \E s \in Streams : Pump(s)
        \/ Published \/ PublishFails
        \/ TimePasses \/ Collect
        \/ Code
        \/ WriteStdin \/ SendSignal

Spec == Init /\ [][Next]_vars

\* What may hold process.wait() up after a kill: newer releases of asyncio wait
\* for the program's end, older ones for that of its pipes too, which a child
\* out of the kill's reach may keep open, and output that no pump reads any more.
HeldUp ==
    /\ pc = "kill"
    /\ program = "reaped"
    /\ \/ Alive("child")
       \/ \E s \in Streams : pump[s] = "done" /\ pipe[s] # << >>

\* The event loop runs every task that can run, the clock advances, exit
\* statuses are collected.  The submitted code owes nothing, nor does a
\* publication have to succeed, but it ends.
Fairness == /\ WF_vars(Resumed /\ ~HeldUp)
            /\ \A s \in Streams : WF_vars(Pump(s))
            /\ WF_vars(Published \/ PublishFails)
            /\ WF_vars(TimePasses)
            /\ WF_vars(Collect)

FairSpec == Spec /\ Fairness

-----------------------------------------------------------------------------
(* Properties *)

Nth(cs, i, s) == Cardinality({j \in 1..i : cs[j].src = s})  \* chunks of s among the first i
Bytes(sizes)  == SumTo(sizes, Len(sizes))
SizeOf(cs)    == Bytes([i \in DOMAIN cs |-> cs[i].size])
BytesWritten  == Bytes(written["stdout"]) + Bytes(written["stderr"])

\* Two pumps share one cap: together they hand on at most max_output_bytes of
\* the program's output, each stream in order, without gaps or duplicates, and
\* whole but for the chunk that met the cap, after which nothing is handed on.
OutputIsCappedPrefix ==
    /\ SizeOf(output) <= MaxBytes
    /\ \A i \in DOMAIN output :
          LET c == output[i]
          IN  /\ c.n = Nth(output, i, c.src)
              /\ \/ c.size = written[c.src][c.n]
                 \/ limit /\ c.size < written[c.src][c.n] /\ i = Len(output)

\* A run reported as COMPLETED or RUNTIME_ERROR delivered all that was ever
\* written: the end mark cannot overtake a chunk of either pump.
NothingLost ==
    verdict \in {"COMPLETED", "RUNTIME_ERROR"} =>
        \A s \in Streams : Nth(output, Len(output), s) = Len(written[s])

\* What each reported status tells the user about the program is so: a system
\* error means that it was never started, or that nobody was left to be fed and
\* nothing of its output was read.
Justified ==
    CASE verdict = "COMPLETED" -> program = "reaped" /\ code = 0 /\ BytesWritten <= MaxBytes
      [] verdict = "RUNTIME_ERROR" ->
            \/ code = 1
            \/ Alive("program") /\ \A s \in Streams : holders[s] = {}
      [] verdict = "OUTPUT_LIMIT_EXCEEDED" -> BytesWritten > MaxBytes /\ ~Alive("program")
      [] verdict = "TIME_LIMIT_EXCEEDED" -> expired /\ ~Alive("program")
      [] verdict = "SYSTEM_ERROR" ->
            /\ program = "absent" \/ holders["stdin"] = {}
            /\ \A s \in Streams : pump[s] = "idle"
      [] OTHER -> program = "absent"

VerdictJustified == [][verdict' # verdict => Justified']_vars

\* A run ends, whatever the submitted code does, unless it waits for ever to
\* hand over its stdin, which is not under the deadline, or with the older
\* releases for the pipes of a program it has killed.
EveryRunEnds == \/ <>(pc = "closed")
                \/ <>[](pc = "drain" /\ stdin > 0 /\ holders["stdin"] # {})
                \/ <>[]HeldUp

\* What a finished run can leave behind: a compiler that was given up after ten
\* seconds; a program that a publish failure cut loose, that had closed both its
\* outputs, or that would not be fed; a child whose program was not killed,
\* because it had exited, or that had left the program's group.
ResidueExplained ==
    pc = "closed" =>
        /\ compiler = "running" => verdict = "COMPILE_ERROR" \/ consumer = "gone"
        /\ Alive("program") =>
              \/ consumer = "gone"
              \/ verdict = "RUNTIME_ERROR" /\ \A s \in Streams : holders[s] = {}
              \/ verdict = "SYSTEM_ERROR" /\ holders["stdin"] = {}
        /\ Alive("child") /\ ~Alive("program") => code # Killed \/ child = "detached"

-----------------------------------------------------------------------------
(* The chunk protocol its consumers rely on *)

Phase == CASE last \in {"none", "data"} -> "open"
           [] last = "error" -> "errored"
           [] last = "complete" -> "completed"

Abs == INSTANCE ChunkProtocol WITH RepeatsError <- FALSE, phase <- Phase, count <- count

\* Compile errors, deadlines, caps and fatal errors all yield data chunks, at
\* most one ERROR, one COMPLETE, and nothing more.
ImplementsChunkProtocol == Abs!Spec
=============================================================================
