--------------------------- MODULE MicroVMSandbox ---------------------------
(***************************************************************************)
(* MicroVMSandbox.stream_execute: one execution as a guest process.        *)
(*                                                                         *)
(* Unlike ProcessSandbox it awaits the program's end first, under the      *)
(* deadline, and only then reads stdout and stderr, each to its end; the   *)
(* nested read_stream and monitor_output are called by nothing, so the     *)
(* output cap never applies.  In the meantime a pipe and its StreamReader  *)
(* hold Capacity units of output; a program that writes more stands still. *)
(* There is no process group: a kill reaches the program alone.            *)
(*                                                                         *)
(* Process.wait() wakes up at the program's exit or, in older releases of  *)
(* asyncio, only when all its pipes have been seen closed, which needs     *)
(* every holder gone and every reader below its limit.                     *)
(***************************************************************************)
EXTENDS Naturals, Integers, Sequences, FiniteSets

CONSTANTS
    Capacity,    \* units a pipe and its reader hold
    ReaderLimit, \* units at which the reader stops reading its pipe
    StdinExcess, \* stdin units beyond what pipe and writer hold
    MaxWrites    \* bound: units the program and its child write

ASSUME SandboxAssumption ==
    /\ {Capacity, ReaderLimit, StdinExcess, MaxWrites} \subseteq Nat
    /\ ReaderLimit < Capacity

VARIABLES
    wakes,    \* when wait() returns: at "exit", or when all is "closed"
    pc,       \* where the generator is
    verdict,  \* the status of the COMPLETE chunk, once yielded
    consumer, \* asking (anext), busy (publishing a chunk), gone (it raised)
    compiler, \* absent, running, exited
    program,  \* absent, running, exited
    code,     \* its exit code
    child,    \* absent, running, exited: it inherits what the program has open
    holders,  \* [Ends -> the processes that have it open; stdin's while it is fed]
    stdin,    \* stdin units drain() waits for the program to take
    held,     \* [Streams -> units written and not harvested]
    shown,    \* history: [Streams -> units yielded]
    written,  \* history: [Streams -> units written]
    last,     \* history: kind of the last chunk yielded
    count     \* history: chunks yielded

processes == <<compiler, program, code, child, holders, stdin>>
output    == <<held, shown, written>>
history   == <<last, count>>
vars == <<wakes, pc, verdict, consumer, processes, output, history>>

Streams == {"stdout", "stderr"}
Ends    == Streams \cup {"stdin"}
Killed  == -9

Init ==
    /\ wakes \in {"exit", "closed"}
    /\ pc = "begin" /\ verdict = "none" /\ consumer = "asking"
    /\ compiler = "absent" /\ program = "absent" /\ child = "absent"
    /\ code = 0
    /\ holders = [e \in Ends |-> {}]
    /\ stdin \in {0, StdinExcess}
    /\ held = [s \in Streams |-> 0]
    /\ shown = [s \in Streams |-> 0]
    /\ written = [s \in Streams |-> 0]
    /\ last = "none" /\ count = 0

\* The generator yields, and stands still until the consumer asks on.
Yield(kind) == last' = kind /\ count' = count + 1 /\ consumer' = "busy"
Silently    == UNCHANGED <<history, consumer>>

Complete(status) == Yield("complete") /\ verdict' = status /\ pc' = "cleanup"
\* A bug: the error is reported, and the generator goes on where it was.
FailAndRetry == Yield("error") /\ UNCHANGED <<pc, verdict>>
Fail == Yield("error") /\ pc' = "cleanup" /\ UNCHANGED verdict

\* A process that ends closes all it has open.
Closes(p) == holders' = [e \in Ends |-> holders[e] \ {p}]

\* wait() has returned, or would.
Woken == /\ program = "exited"
         /\ wakes = "closed" =>
               \A s \in Streams : holders[s] = {} /\ held[s] <= ReaderLimit

-----------------------------------------------------------------------------
(* The generator *)

Begin ==
    /\ pc = "begin"
    /\ pc' \in {"compile", "announce"}
    /\ compiler' = IF pc' = "compile" THEN "running" ELSE compiler
    /\ Silently
    /\ UNCHANGED <<verdict, program, code, child, holders, stdin, output>>

\* The temporary directory or the source file cannot be written: this is outside
\* the try, so the exception leaves the generator, which yields nothing.
BeginFails ==
    /\ pc = "begin"
    /\ pc' = "done"
    /\ Silently
    /\ UNCHANGED <<verdict, processes, output>>

\* communicate() returns; or there is no compiler, or it raises, or ten seconds
\* pass, and nobody kills the compiler.
CompileEnds ==
    /\ pc = "compile"
    /\ compiler' \in {"absent", "exited", "running"}
    /\ \/ compiler' = "exited" /\ pc' = "announce" /\ Silently /\ UNCHANGED verdict
       \/ compiler' = "exited" /\ pc' = "diagnosed" /\ Yield("data") /\ UNCHANGED verdict
       \/ Fail
    /\ UNCHANGED <<program, code, child, holders, stdin, output>>

CompileError ==
    /\ pc = "diagnosed"
    /\ Complete("COMPILE_ERROR")
    /\ UNCHANGED <<processes, output>>

Announce ==
    /\ pc = "announce"
    /\ Yield("data")
    /\ pc' = "spawn"
    /\ UNCHANGED <<verdict, processes, output>>

\* create_subprocess_exec, which may raise.
Spawn ==
    /\ pc = "spawn"
    /\ \/ /\ program' = "running"
          /\ holders' = [e \in Ends |-> {"program"}]
          /\ pc' = "drain"
          /\ Silently
          /\ UNCHANGED verdict
       \/ Fail /\ UNCHANGED <<program, holders>>
    /\ UNCHANGED <<compiler, code, child, stdin, output>>

\* stdin.drain() and close(), before and outside the deadline; without stdin
\* there is nothing to wait for.
Drain ==
    /\ pc = "drain"
    /\ stdin = 0
    /\ pc' = "wait"
    /\ holders' = [holders EXCEPT !["stdin"] = {}]
    /\ Silently
    /\ UNCHANGED <<verdict, compiler, program, code, child, stdin, output>>

\* Nobody can read what is fed, the program gone or not: drain() raises.
DrainFails ==
    /\ pc = "drain"
    /\ holders["stdin"] = {}
    /\ Fail
    /\ UNCHANGED <<processes, output>>

WaitEnds ==
    /\ pc = "wait"
    /\ Woken
    /\ pc' = "stdout"
    /\ Silently
    /\ UNCHANGED <<verdict, processes, output>>

\* A bug: the deadline is noted, the program is not killed.
KillNot == UNCHANGED <<program, code, holders>>

\* proc.kill(): nothing if the program has exited.
Kill ==
    /\ program' = "exited"
    /\ code' = IF program = "running" THEN Killed ELSE code
    /\ Closes("program")

\* wait_for's timeout.
DeadlinePasses ==
    /\ pc = "wait"
    /\ Kill
    /\ pc' = "reap"
    /\ Silently
    /\ UNCHANGED <<verdict, compiler, child, stdin, output>>

\* The second wait() has no deadline.
AnnounceTimeout ==
    /\ pc = "reap"
    /\ Woken
    /\ Yield("data")
    /\ pc' = "timed_out"
    /\ UNCHANGED <<verdict, processes, output>>

\* COMPLETE, and return: what the program wrote is not harvested.
TimedOut ==
    /\ pc = "timed_out"
    /\ Complete("TIME_LIMIT_EXCEEDED")
    /\ UNCHANGED <<processes, output>>

\* A bug: a read of what has arrived, not of everything.
MayHarvestEarly(s) == TRUE
\* read() returns at the end of the stream, when no process holds the pipe.
MayHarvest(s) == holders[s] = {}

Harvest(s, next) ==
    /\ pc = s
    /\ MayHarvest(s)
    /\ IF held[s] > 0 THEN Yield("data") ELSE Silently
    /\ shown' = [shown EXCEPT ![s] = @ + held[s]]
    /\ held' = [held EXCEPT ![s] = 0]
    /\ pc' = next
    /\ UNCHANGED <<verdict, processes, written>>

\* limit_exceeded is never set: nothing feeds the consumer.
Report ==
    /\ pc = "report"
    /\ Complete(IF code = 0 THEN "COMPLETED" ELSE "RUNTIME_ERROR")
    /\ UNCHANGED <<processes, output>>

\* finally: active_process = None; the temporary directory goes.
Cleanup ==
    /\ pc = "cleanup"
    /\ pc' = "done"
    /\ Silently
    /\ UNCHANGED <<verdict, processes, output>>

\* What the generator does when it is resumed.
Resumed ==
    /\ consumer = "asking"
    /\ \/ Begin \/ BeginFails \/ CompileEnds \/ CompileError \/ Announce
       \/ Spawn \/ Drain \/ DrainFails
       \/ WaitEnds \/ DeadlinePasses \/ AnnounceTimeout \/ TimedOut
       \/ Harvest("stdout", "stderr") \/ Harvest("stderr", "report")
       \/ Report \/ Cleanup
    /\ UNCHANGED wakes

-----------------------------------------------------------------------------
(* The consumer, and the processes *)

\* The chunk is published, or publishing raises and the generator is left.
Published ==
    /\ consumer = "busy"
    /\ consumer' \in {"asking", "gone"}
    /\ UNCHANGED <<wakes, pc, verdict, processes, output, history>>

\* A process that has it open writes a unit, if the pipe has room or is read.
Write(s) ==
    /\ holders[s] # {}
    /\ written["stdout"] + written["stderr"] < MaxWrites
    /\ held[s] < Capacity \/ pc = s
    /\ held' = [held EXCEPT ![s] = @ + 1]
    /\ written' = [written EXCEPT ![s] = @ + 1]
    /\ UNCHANGED <<wakes, pc, verdict, consumer, processes, shown, history>>

\* The program, or a child that inherited its stdin, reads.
TakeStdin ==
    /\ stdin > 0
    /\ holders["stdin"] # {}
    /\ stdin' = stdin - 1
    /\ UNCHANGED <<wakes, pc, verdict, consumer, compiler, program, code, child, holders,
                   output, history>>

\* A process closes one of its standard streams and lives on.
Close(p, e) ==
    /\ p \in holders[e]
    /\ holders' = [holders EXCEPT ![e] = @ \ {p}]
    /\ UNCHANGED <<wakes, pc, verdict, consumer, compiler, program, code, child, stdin,
                   output, history>>

Fork ==
    /\ program = "running"
    /\ child = "absent"
    /\ child' = "running"
    /\ holders' = [e \in Ends |-> holders[e] \cup
                                   (IF "program" \in holders[e] THEN {"child"} ELSE {})]
    /\ UNCHANGED <<wakes, pc, verdict, consumer, compiler, program, code, stdin,
                   output, history>>

Exit ==
    /\ \/ /\ program = "running"
          /\ program' = "exited"
          /\ code' \in {0, 1}
          /\ Closes("program")
          /\ UNCHANGED child
       \/ /\ child = "running"
          /\ child' = "exited"
          /\ Closes("child")
          /\ UNCHANGED <<program, code>>
    /\ UNCHANGED <<wakes, pc, verdict, consumer, compiler, stdin, output, history>>

-----------------------------------------------------------------------------
(* The input task *)

\* write_stdin while drain() waits: it waits for this too.  (Bound: one unit at
\* a time beyond StdinExcess.)
WriteStdin ==
    /\ pc = "drain"
    /\ stdin \in 1..StdinExcess
    /\ stdin' = stdin + 1
    /\ UNCHANGED <<wakes, pc, verdict, consumer, compiler, program, code, child, holders,
                   output, history>>

\* send_signal, while active_process is set: the program dies of it, or catches
\* it and goes on as it pleases.
SendSignal ==
    /\ pc \in {"drain", "wait", "reap", "timed_out", "stdout", "stderr", "report", "cleanup"}
    /\ program = "running"
    /\ program' = "exited"
    /\ code' = 1
    /\ Closes("program")
    /\ UNCHANGED <<wakes, pc, verdict, consumer, compiler, child, stdin, output, history>>

-----------------------------------------------------------------------------
Next == \/ Resumed
        \/ Published
        \/ \E s \in Streams : Write(s)
        \/ TakeStdin \/ Fork \/ Exit
        \/ \E p \in {"program", "child"}, e \in Ends : Close(p, e)
        \/ WriteStdin \/ SendSignal

Spec == Init /\ [][Next]_vars

\* The event loop runs: a deadline passes, a chunk is published or not.  The
\* submitted code owes nothing.
FairSpec == Spec /\ WF_vars(Resumed) /\ WF_vars(Published)

-----------------------------------------------------------------------------
(* Properties *)

\* A verdict says what happened.  A reported exit code is the program's own,
\* everything it and its child wrote has been yielded, and without a child no
\* more was written than the pipes hold; a time limit is the program's kill, or
\* a kill that came too late for one that had just exited, and shows none of its
\* output; a compile error means it never ran.
VerdictJustified ==
    /\ verdict \in {"COMPLETED", "RUNTIME_ERROR"} =>
          /\ program = "exited" /\ \A s \in Streams : holders[s] = {}
          /\ (verdict = "COMPLETED") = (code = 0)
          /\ code # Killed
          /\ shown = written
          /\ child = "absent" => \A s \in Streams : written[s] <= Capacity
    /\ verdict = "TIME_LIMIT_EXCEEDED" =>
          /\ program = "exited"
          /\ \A s \in Streams : shown[s] = 0 /\ held[s] <= Capacity
    /\ verdict = "COMPILE_ERROR" => program = "absent" /\ compiler = "exited"

Over == pc = "done" \/ consumer = "gone"

\* What a run may wait for without end: stdin that nobody takes while a process,
\* the program or a child that inherited it, has it open; a child that holds a
\* pipe, once the program is gone (with the older wait(), any child); with that
\* wait() also a reader over its limit, which nothing will ever read.
Stuck ==
    \/ pc = "drain" /\ stdin > 0 /\ holders["stdin"] # {}
    \/ /\ program = "exited" /\ child = "running"
       /\ wakes = "closed" \/ \E s \in Streams : holders[s] # {}
    \/ wakes = "closed" /\ \E s \in Streams : held[s] > ReaderLimit

\* Every other run ends, whether the program does or not.
EveryRunEnds == []<>(Over \/ Stuck)

Abs == INSTANCE ChunkProtocol WITH
           RepeatsError <- FALSE, count <- count,
           phase <- CASE last = "error" -> "errored"
                      [] last = "complete" -> "completed"
                      [] OTHER -> "open"

\* The chunks follow the protocol the consumers rely on.
ImplementsChunkProtocol == Abs!Spec
=============================================================================
