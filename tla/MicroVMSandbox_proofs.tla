------------------------ MODULE MicroVMSandbox_proofs ------------------------
(***************************************************************************)
(* What a verdict of the MicroVM sandbox says, and the order of its        *)
(* chunks, for pipes of any size, any stdin and any number of writes.      *)
(***************************************************************************)
EXTENDS MicroVMSandbox, TLAPS

\* Before the program is started; and while its output may be read.
Early   == {"begin", "compile", "diagnosed", "announce", "spawn"}
Reading == {"stdout", "stderr", "report"}
Ending  == {"cleanup", "done"}

TypeInv ==
    /\ pc \in Early \cup {"drain", "wait", "reap", "timed_out"} \cup Reading \cup Ending
    /\ wakes \in {"exit", "closed"}
    /\ verdict \in {"none", "COMPILE_ERROR", "TIME_LIMIT_EXCEEDED", "COMPLETED", "RUNTIME_ERROR"}
    /\ compiler \in {"absent", "running", "exited"}
    /\ program \in {"absent", "running", "exited"}
    /\ child \in {"absent", "running", "exited"}
    /\ code \in {Killed, 0, 1}
    /\ holders \in [Ends -> SUBSET {"program", "child"}]
    /\ held \in [Streams -> Nat]
    /\ shown \in [Streams -> Nat]
    /\ written \in [Streams -> Nat]

\* Which processes there are, by where the generator is.
ProcessInv ==
    /\ pc \in Early => program = "absent"
    /\ pc \in {"reap", "timed_out"} \cup Reading => program = "exited"
    /\ pc = "diagnosed" => compiler = "exited"
    /\ program = "absent" => child = "absent"
    /\ \A e \in Ends : /\ "program" \in holders[e] => program = "running"
                       /\ "child" \in holders[e] => child = "running"
    /\ code = Killed => \/ pc \in {"reap", "timed_out"}
                        \/ verdict = "TIME_LIMIT_EXCEEDED"

\* Nothing is lost between the pipes and the chunks, and what is not being
\* read fits its pipe.
OutputInv ==
    /\ \A s \in Streams : written[s] = held[s] + shown[s]
    /\ pc \notin Reading \cup Ending => \A s \in Streams : shown[s] = 0 /\ held[s] <= Capacity
    /\ \A s \in Streams : shown[s] > 0 => program = "exited"
    /\ child = "absent" => \A s \in Streams : written[s] <= Capacity
    /\ pc \in {"stderr", "report"} => holders["stdout"] = {} /\ held["stdout"] = 0
    /\ pc = "report" => holders["stderr"] = {} /\ held["stderr"] = 0

\* A verdict is given at the end, and stays justified.
VerdictInv ==
    /\ verdict # "none" => pc \in Ending
    /\ VerdictJustified

MicroInv == TypeInv /\ ProcessInv /\ OutputInv /\ VerdictInv

USE SandboxAssumption

\* The code of a killed process is none a program exits with.
LEMMA KilledIsNoCode == Killed \in Int /\ Killed \notin {0, 1}
  BY DEF Killed

\* An execution begins with nothing started, written or shown.
LEMMA InitMicro == Init => MicroInv
  BY KilledIsNoCode DEF Init, MicroInv, TypeInv, ProcessInv, OutputInv, VerdictInv, VerdictJustified,
        Early, Reading, Ending, Streams

\* The generator's steps that touch no process and no output.
Moves == /\ UNCHANGED <<processes, output, wakes>>
         /\ \/ BeginFails \/ CompileError \/ Announce \/ DrainFails \/ WaitEnds
            \/ AnnounceTimeout \/ TimedOut \/ Report \/ Cleanup

\* They keep the invariant.
LEMMA MoveStep == ASSUME MicroInv, Moves PROVE MicroInv'
  <1> USE KilledIsNoCode DEF MicroInv, processes, output, Moves, BeginFails, CompileError, Announce,
          DrainFails, WaitEnds, AnnounceTimeout, TimedOut, Report, Cleanup, Complete, Fail,
          Early, Reading, Ending
  <1>1. TypeInv'
    BY DEF TypeInv
  <1>2. ProcessInv'
    BY DEF TypeInv, ProcessInv, Woken, VerdictInv
  <1>3. OutputInv'
    BY DEF TypeInv, OutputInv, ProcessInv
  <1>4. VerdictInv'
    BY DEF TypeInv, OutputInv, ProcessInv, VerdictInv, VerdictJustified, Streams
  <1> QED BY <1>1, <1>2, <1>3, <1>4

\* The steps up to the program's start, and the end of its feeding.
LEMMA StartStep ==
    ASSUME MicroInv, UNCHANGED wakes, Begin \/ CompileEnds \/ Spawn \/ Drain
    PROVE  MicroInv'
  <1> USE KilledIsNoCode DEF MicroInv, output, Begin, CompileEnds, Spawn, Drain, Fail,
          Early, Reading, Ending
  <1>1. TypeInv'
    BY DEF TypeInv, Ends
  <1>2. ProcessInv'
    BY DEF TypeInv, ProcessInv, VerdictInv
  <1>3. OutputInv'
    BY DEF TypeInv, OutputInv, ProcessInv
  <1>4. VerdictInv'
    BY DEF TypeInv, ProcessInv, VerdictInv, VerdictJustified, Streams
  <1> QED BY <1>1, <1>2, <1>3, <1>4

\* The kill at the deadline.
LEMMA DeadlineStep == ASSUME MicroInv, UNCHANGED wakes, DeadlinePasses PROVE MicroInv'
  <1> USE KilledIsNoCode DEF MicroInv, output, DeadlinePasses, Kill, Closes, Early, Reading, Ending
  <1>1. TypeInv'
    BY DEF TypeInv
  <1>2. ProcessInv'
    BY DEF TypeInv, ProcessInv
  <1>3. OutputInv'
    BY DEF TypeInv, OutputInv, ProcessInv
  <1>4. VerdictInv'
    BY DEF TypeInv, VerdictInv, VerdictJustified
  <1> QED BY <1>1, <1>2, <1>3, <1>4

\* Reading a pipe to its end.
LEMMA HarvestStep ==
    ASSUME MicroInv, UNCHANGED wakes,
           Harvest("stdout", "stderr") \/ Harvest("stderr", "report")
    PROVE  MicroInv'
  <1> USE KilledIsNoCode DEF MicroInv, processes, Harvest, Early, Reading, Ending, Streams
  <1>1. TypeInv'
    BY DEF TypeInv
  <1>2. ProcessInv'
    BY DEF TypeInv, ProcessInv
  <1>3. OutputInv'
    BY DEF TypeInv, OutputInv, ProcessInv, MayHarvest
  <1>4. VerdictInv'
    BY DEF TypeInv, VerdictInv, VerdictJustified
  <1> QED BY <1>1, <1>2, <1>3, <1>4

\* A unit written by the program or its child.
LEMMA WriteStep == ASSUME MicroInv, NEW s \in Streams, Write(s) PROVE MicroInv'
  <1> USE KilledIsNoCode DEF MicroInv, processes, history, Write, Early, Reading, Ending, Streams
  <1>1. TypeInv'
    BY DEF TypeInv
  <1>2. ProcessInv'
    BY DEF TypeInv, ProcessInv
  <1>3. OutputInv'
    <2>1. holders[s] # {} /\ (program = "running" \/ child = "running")
      BY DEF TypeInv, ProcessInv, Ends
    <2>2. child = "absent" => held[s] < Capacity /\ shown[s] = 0
      BY <2>1 DEF TypeInv, ProcessInv, OutputInv
    <2> QED BY <2>1, <2>2 DEF TypeInv, OutputInv
  <1>4. VerdictInv'
    <2>1. holders[s] # {} /\ program # "absent"
      BY DEF TypeInv, ProcessInv, Ends
    <2>2. verdict \notin {"COMPLETED", "RUNTIME_ERROR", "COMPILE_ERROR"}
      BY <2>1 DEF VerdictInv, VerdictJustified
    <2> QED BY <2>2 DEF TypeInv, VerdictInv, VerdictJustified
  <1> QED BY <1>1, <1>2, <1>3, <1>4

\* No step of theirs opens a pipe again that everybody has closed.
LEMMA ClosedStays ==
    ASSUME TypeInv, ProcessInv, NEW e \in Ends, holders[e] = {},
           TakeStdin \/ Fork \/ Exit \/ (\E p \in {"program", "child"}, f \in Ends : Close(p, f))
           \/ WriteStdin \/ SendSignal \/ Published
    PROVE  holders'[e] = {}
  BY DEF TakeStdin, Fork, Exit, Close, Closes, WriteStdin, SendSignal, Published, processes,
         TypeInv, Ends, Streams

\* The consumer, the processes and the input task.
LEMMA OutsideStep ==
    ASSUME MicroInv,
           TakeStdin \/ Fork \/ Exit \/ (\E p \in {"program", "child"}, f \in Ends : Close(p, f))
           \/ WriteStdin \/ SendSignal \/ Published
    PROVE  MicroInv'
  <1>0. \A e \in Ends : holders[e] = {} => holders'[e] = {}
    BY ClosedStays DEF MicroInv
  <1> USE KilledIsNoCode DEF MicroInv, processes, output, history, Published, TakeStdin, Close, Closes,
          Fork, Exit, WriteStdin, SendSignal, Early, Reading, Ending
  <1>1. TypeInv'
    BY DEF TypeInv, Ends, Streams
  <1>2. ProcessInv'
    <2>1. /\ (pc \in Early => program = "absent")'
          /\ (pc \in {"reap", "timed_out"} \cup Reading => program = "exited")'
          /\ (pc = "diagnosed" => compiler = "exited")'
          /\ (program = "absent" => child = "absent")'
          /\ (code = Killed => \/ pc \in {"reap", "timed_out"}
                              \/ verdict = "TIME_LIMIT_EXCEEDED")'
      BY DEF TypeInv, ProcessInv, VerdictInv, VerdictJustified
    <2>2. ASSUME NEW e \in Ends
          PROVE  /\ "program" \in holders'[e] => program' = "running"
                 /\ "child" \in holders'[e] => child' = "running"
      BY <2>2 DEF TypeInv, ProcessInv
    <2> QED BY <2>1, <2>2 DEF ProcessInv
  <1>3. OutputInv'
    BY <1>0 DEF TypeInv, OutputInv, ProcessInv, Ends, Streams
  <1>4. VerdictInv'
    BY <1>0 DEF TypeInv, ProcessInv, OutputInv, VerdictInv, VerdictJustified, Ends
  <1> QED BY <1>1, <1>2, <1>3, <1>4

\* Every step keeps the invariant.
LEMMA NextMicro == ASSUME MicroInv, [Next]_vars PROVE MicroInv'
  <1>1. CASE Resumed
    <2>1. CASE Moves
      BY <2>1, MoveStep
    <2>2. CASE ~Moves
      BY <1>1, <2>2, StartStep, DeadlineStep, HarvestStep
         DEF Resumed, Moves, BeginFails, CompileError, Announce, DrainFails, WaitEnds,
             AnnounceTimeout, TimedOut, Report, Cleanup
    <2> QED BY <2>1, <2>2
  <1>2. CASE \E s \in Streams : Write(s)
    BY <1>2, WriteStep
  <1>3. CASE UNCHANGED vars
    BY <1>3 DEF vars, processes, output, history, MicroInv, TypeInv, ProcessInv, OutputInv,
                VerdictInv, VerdictJustified
  <1> QED BY <1>1, <1>2, <1>3, OutsideStep DEF Next

\* The invariant the other theorems rest on.
THEOREM Inductive == Spec => []MicroInv
  BY InitMicro, NextMicro, PTL DEF Spec

\* Whatever the program, its child, its stdin and the clock do, a verdict says
\* what happened: COMPLETED and RUNTIME_ERROR mean the program's own exit and
\* all of its output, a time limit a kill and none of it.
THEOREM Justified == Spec => []VerdictJustified
  <1>1. MicroInv => VerdictJustified
    BY DEF MicroInv, VerdictInv
  <1> QED BY <1>1, Inductive, PTL

-----------------------------------------------------------------------------
\* After an ERROR or a COMPLETE the generator yields nothing more.
QuietInv == /\ pc \in Early \cup {"drain", "wait", "reap", "timed_out"} \cup Reading \cup Ending
            /\ last \in {"error", "complete"} => pc \in Ending

\* A step that yields the last chunk leaves the generator at its end.
LEMMA QuietStep == ASSUME QuietInv, [Next]_vars PROVE QuietInv'
  <1> USE DEF QuietInv, Early, Reading, Ending, history, processes, output
  <1>1. CASE Resumed
    BY <1>1 DEF Resumed, Begin, BeginFails, CompileEnds, CompileError, Announce, Spawn,
                Drain, DrainFails, WaitEnds, DeadlinePasses, AnnounceTimeout, TimedOut, Harvest, Report,
                Cleanup, Complete, Fail, Yield, Silently
  <1>2. CASE ~Resumed
    BY <1>2 DEF Next, vars, Published, Write, TakeStdin, Close, Fork, Exit, WriteStdin, SendSignal
  <1> QED BY <1>1, <1>2

\* A yield is a chunk of the abstract protocol, and every other step a stutter.
AbsPhase == CASE last = "error" -> "errored"
              [] last = "complete" -> "completed"
              [] OTHER -> "open"

\* Every step yields a chunk the protocol allows, or none.
LEMMA StepRefines ==
    ASSUME QuietInv, [Next]_vars
    PROVE  [Abs!Next]_<<AbsPhase, count>>
  <1>1. CASE UNCHANGED history
    BY <1>1 DEF history, AbsPhase
  <1>2. ASSUME NEW kind \in {"data", "error", "complete"}, Yield(kind), pc \notin Ending
        PROVE  Abs!Next
    BY <1>2 DEF Yield, QuietInv, Abs!Next, Abs!Chunk
  <1>3. CASE Resumed
    BY <1>1, <1>2, <1>3 DEF Resumed, Begin, BeginFails, CompileEnds, CompileError, Announce, Spawn,
                Drain, DrainFails, WaitEnds, DeadlinePasses, AnnounceTimeout, TimedOut, Harvest, Report,
                Cleanup, Complete, Fail, Silently, Ending, history
  <1>4. CASE ~Resumed
    <2>1. UNCHANGED history
      BY <1>4 DEF Next, vars, history, Published, Write, TakeStdin, Close, Fork, Exit,
                  WriteStdin, SendSignal
    <2> QED BY <2>1, <1>1
  <1> QED BY <1>3, <1>4

\* The MicroVM sandbox keeps the protocol its callers rely on: after an ERROR
\* nothing, after a COMPLETE nothing.
THEOREM Refinement == Spec => ImplementsChunkProtocol
  <1>1. Init => QuietInv /\ Abs!Init
    BY DEF Init, QuietInv, Early, Reading, Ending, Abs!Init
  <1>2. QuietInv /\ [Next]_vars => QuietInv' /\ [Abs!Next]_<<AbsPhase, count>>
    BY QuietStep, StepRefines
  <1> QED BY <1>1, <1>2, PTL DEF Spec, ImplementsChunkProtocol, Abs!Spec, AbsPhase
=============================================================================
