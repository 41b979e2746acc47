------------------------ MODULE ProcessSandbox_proofs ------------------------
(***************************************************************************)
(* What the process sandbox hands on, what its verdicts say and what it    *)
(* leaves behind, for every cap, pipe, stdin and number of writes.         *)
(***************************************************************************)
EXTENDS ProcessSandbox, FiniteSetTheorems, WellFoundedInduction, NaturalsInduction, TLAPS

-----------------------------------------------------------------------------
(* Sums, by induction on the number of terms (as in Grading_proofs) *)

\* A set of numbers that is not empty has a least one.
LEMMA LeastNumber ==
    ASSUME NEW T \in SUBSET Nat, T # {}
    PROVE  \E m \in T : \A k \in T : m <= k
  <1> DEFINE R == OpToRel(<, Nat)
  <1>1. IsWellFoundedOn(R, Nat)
    BY NatLessThanWellFounded
  <1>2. \A a, b \in Nat : a < b => <<a, b>> \in R
    BY DEF OpToRel
  <1> HIDE DEF R
  <1>3. PICK m \in T : \A k \in T : ~(<<k, m>> \in R)
    BY <1>1, WFMin
  <1>4. \A k \in T : k \in Nat /\ ~(k < m)
    BY <1>2, <1>3
  <1> QED BY <1>4

\* A set with zero and every successor of its members holds every number: the
\* form in which induction is used below.
LEMMA SetInduction ==
    ASSUME NEW T, 0 \in T, \A n \in Nat : n \in T => n + 1 \in T
    PROVE  Nat \subseteq T
  <1> DEFINE U == Nat \ T
  <1>1. SUFFICES ASSUME U # {} PROVE FALSE
    OBVIOUS
  <1>2. PICK m \in U : \A k \in U : m <= k
    BY <1>1, LeastNumber
  <1>3. m # 0 /\ m \in Nat /\ m - 1 \in Nat /\ m - 1 \notin U
    BY <1>2
  <1>4. m - 1 \in T
    BY <1>3
  <1> QED BY <1>2, <1>3, <1>4

\* The equation that SumTo's recursion has to meet.
IsSumOf(g, f, n) == g = [i \in 0..n |-> IF i = 0 THEN 0 ELSE g[i - 1] + f[i]]

\* A function meets it, for every number of terms.
LEMMA SumsExist == ASSUME NEW f, NEW n \in Nat PROVE \E g : IsSumOf(g, f, n)
  <1> DEFINE T == {k \in Nat : \E g : IsSumOf(g, f, k)}
  <1>1. 0 \in T
    <2>1. IsSumOf([i \in 0..0 |-> 0], f, 0)
      BY DEF IsSumOf
    <2> QED BY <2>1
  <1>2. ASSUME NEW k \in Nat, k \in T PROVE k + 1 \in T
    <2>1. PICK g : IsSumOf(g, f, k)
      BY <1>2
    <2> DEFINE h == [i \in 0..(k + 1) |-> IF i = k + 1 THEN g[k] + f[k + 1] ELSE g[i]]
    <2>2. \A i \in 0..k : g[i] = IF i = 0 THEN 0 ELSE g[i - 1] + f[i]
      BY <2>1 DEF IsSumOf
    <2>3. ASSUME NEW i \in 0..(k + 1) PROVE h[i] = IF i = 0 THEN 0 ELSE h[i - 1] + f[i]
      <3>1. CASE i = k + 1
        BY <3>1
      <3>2. CASE i # k + 1
        <4>1. i \in 0..k /\ (i # 0 => i - 1 \in 0..k)
          BY <3>2
        <4>2. h[i] = g[i] /\ (i # 0 => h[i - 1] = g[i - 1])
          BY <4>1
        <4> HIDE DEF h
        <4> QED BY <2>2, <4>1, <4>2
      <3> QED BY <3>1, <3>2
    <2>4. IsSumOf(h, f, k + 1)
      BY <2>3 DEF IsSumOf
    <2> QED BY <2>4
  <1> HIDE DEF T
  <1>3. Nat \subseteq T
    BY <1>1, <1>2, SetInduction
  <1> QED BY <1>3 DEF T

\* Two functions that meet it agree where both are defined.
LEMMA SumsAgree ==
    ASSUME NEW f, NEW m \in Nat, NEW n \in Nat, m <= n, NEW g, NEW h, IsSumOf(g, f, m), IsSumOf(h, f, n)
    PROVE  \A i \in 0..m : g[i] = h[i]
  <1> DEFINE T == {i \in Nat : i <= m => g[i] = h[i]}
  <1>0. /\ \A i \in 0..m : g[i] = IF i = 0 THEN 0 ELSE g[i - 1] + f[i]
        /\ \A i \in 0..n : h[i] = IF i = 0 THEN 0 ELSE h[i - 1] + f[i]
    BY DEF IsSumOf
  <1>1. 0 \in T
    BY <1>0
  <1>2. ASSUME NEW k \in Nat, k \in T PROVE k + 1 \in T
    BY <1>0, <1>2
  <1> HIDE DEF T
  <1>3. Nat \subseteq T
    BY <1>1, <1>2, SetInduction
  <1> QED BY <1>3 DEF T

\* No term, and one term more.
LEMMA SumSteps ==
    ASSUME NEW f
    PROVE  /\ SumTo(f, 0) = 0
           /\ \A n \in Nat : SumTo(f, n + 1) = SumTo(f, n) + f[n + 1]
  <1>1. ASSUME NEW n \in Nat PROVE \E g : IsSumOf(g, f, n) /\ SumTo(f, n) = g[n]
    <2> DEFINE sum == CHOOSE g : g = [i \in 0..n |-> IF i = 0 THEN 0 ELSE g[i - 1] + f[i]]
    <2>1. IsSumOf(sum, f, n)
      BY SumsExist DEF IsSumOf
    <2>2. SumTo(f, n) = sum[n]
      BY DEF SumTo
    <2> HIDE DEF sum
    <2> QED BY <2>1, <2>2
  <1>2. SumTo(f, 0) = 0
    <2>1. PICK g : IsSumOf(g, f, 0) /\ SumTo(f, 0) = g[0]
      BY <1>1
    <2> QED BY <2>1 DEF IsSumOf
  <1>3. ASSUME NEW n \in Nat PROVE SumTo(f, n + 1) = SumTo(f, n) + f[n + 1]
    <2>1. PICK g : IsSumOf(g, f, n) /\ SumTo(f, n) = g[n]
      BY <1>1
    <2>2. PICK h : IsSumOf(h, f, n + 1) /\ SumTo(f, n + 1) = h[n + 1]
      BY <1>1
    <2>3. g[n] = h[n]
      BY <2>1, <2>2, SumsAgree
    <2>4. h[n + 1] = h[n] + f[n + 1]
      BY <2>2 DEF IsSumOf
    <2> QED BY <2>1, <2>2, <2>3, <2>4
  <1> QED BY <1>2, <1>3

\* A sum depends on its terms only.
LEMMA SumSame ==
    ASSUME NEW f, NEW g, NEW n \in Nat, \A i \in 1..n : f[i] = g[i]
    PROVE  SumTo(f, n) = SumTo(g, n)
  <1> DEFINE T == {k \in Nat : k <= n => SumTo(f, k) = SumTo(g, k)}
  <1>1. 0 \in T
    BY SumSteps
  <1>2. ASSUME NEW k \in Nat, k \in T PROVE k + 1 \in T
    BY <1>2, SumSteps
  <1> HIDE DEF T
  <1>3. Nat \subseteq T
    BY <1>1, <1>2, SetInduction
  <1> QED BY <1>3 DEF T

\* A sum of natural numbers is one.
LEMMA SumNat ==
    ASSUME NEW f, NEW n \in Nat, \A i \in 1..n : f[i] \in Nat
    PROVE  SumTo(f, n) \in Nat
  <1> DEFINE T == {k \in Nat : k <= n => SumTo(f, k) \in Nat}
  <1>1. 0 \in T
    BY SumSteps
  <1>2. ASSUME NEW k \in Nat, k \in T PROVE k + 1 \in T
    BY <1>2, SumSteps
  <1> HIDE DEF T
  <1>3. Nat \subseteq T
    BY <1>1, <1>2, SetInduction
  <1> QED BY <1>3 DEF T

-----------------------------------------------------------------------------
(* The inductive invariant *)

Modes  == {"idle", "reading", "done"}
Before == {"begin", "compile", "compile_error", "spawn"}
Ending == {"cleanup", "closed"}
Whole  == {"COMPLETED", "RUNTIME_ERROR"}
Items  == Chunks \cup {EndMark}

GeneratorType ==
    /\ pc \in Before \cup {"drain", "fatal", "loop", "kill", "reap"} \cup Ending
    /\ timedOut \in BOOLEAN /\ limit \in BOOLEAN
    /\ verdict \in Whole \cup {"none", "COMPILE_ERROR", "SYSTEM_ERROR",
                               "TIME_LIMIT_EXCEEDED", "OUTPUT_LIMIT_EXCEEDED"}
    /\ consumer \in {"asking", "busy", "gone"}
    /\ last \in {"none", "data", "error", "complete"}
    /\ pump \in [Streams -> Modes]

ProcessType ==
    /\ compiler \in {"absent", "running", "exited"}
    /\ program \in {"absent", "running", "zombie", "reaped"}
    /\ code \in {Killed, 0, 1}
    /\ child \in {"absent", "running", "detached", "dead"}
    /\ holders \in [Ends -> SUBSET {"program", "child"}]

DataType ==
    /\ pipe \in [Streams -> Seq(Chunks)]
    /\ written \in [Streams -> Seq(Sizes)]
    /\ queue \in Seq(Items)
    /\ output \in Seq(Chunks)
    /\ total \in Nat /\ limit \in BOOLEAN

\* Who was killed, and why.
KillInv ==
    /\ pc \in Before => program = "absent" /\ ~timedOut
    /\ pc \in {"drain", "loop", "kill", "reap"} => program # "absent"
    /\ program = "absent" => /\ child = "absent" /\ holders = [e \in Ends |-> {}]
                              /\ \A s \in Streams : pump[s] = "idle"
    /\ pc \in Before \cup {"drain", "fatal"} => \A s \in Streams : pump[s] = "idle"
    /\ pc = "kill" => timedOut
    /\ timedOut => expired
    /\ limit \/ timedOut => program # "running"
    /\ pc = "fatal" \/ verdict = "SYSTEM_ERROR" => program = "absent" \/ holders["stdin"] = {}
    /\ limit => program # "absent"
    /\ code = Killed => /\ child # "running" /\ program \in {"zombie", "reaped"}
                        /\ limit \/ timedOut

\* How far the generator is, by what it has yielded.
EndInv ==
    /\ verdict # "none" => pc \in Ending
    /\ consumer = "gone" => pc = "closed"
    /\ pc \in Ending => verdict # "none" \/ consumer = "gone"
    /\ compiler = "running" => pc = "compile_error" \/ verdict = "COMPILE_ERROR" \/ consumer = "gone"
    /\ program = "running" /\ pc \in Ending => consumer = "gone" \/ verdict \in {"RUNTIME_ERROR", "SYSTEM_ERROR"}
    /\ pc \in {"begin", "compile", "spawn", "drain", "loop", "kill"} => last \in {"none", "data"}
    /\ verdict = "none" => last # "complete"

\* The end mark is the last item, and says that both pumps are done; a pump that
\* is done for no other reason has seen the end of its stream.
MarkInv ==
    /\ \A i \in 1..Len(queue) :
          queue[i] = EndMark => i = Len(queue) /\ \A s \in Streams : pump[s] = "done"
    /\ \A s \in Streams :
          pump[s] = "done" /\ ~limit /\ ~timedOut => pipe[s] = << >> /\ holders[s] = {}
    /\ (pc = "reap" /\ ~timedOut) \/ verdict \in Whole =>
          queue = << >> /\ \A s \in Streams : pump[s] = "done"
    /\ verdict \in Whole => ~limit /\ ~timedOut

\* The chunks taken from a pipe so far; all that was handed on.
Taken(s) == Len(written[s]) - Len(pipe[s])
All      == output \o queue

\* A pipe holds the last chunks written.
InPipe(p, w, s) ==
    /\ Len(p) <= Len(w)
    /\ \A i \in 1..Len(p) :
          p[i] = [src |-> s, n |-> Len(w) - Len(p) + i, size |-> w[Len(w) - Len(p) + i]]

\* What was handed on of the chunks w: each in its place, and whole, or cut and
\* followed by no other.
HandedOn(cs, w, capped) ==
    \A i \in 1..Len(cs) : cs[i] # EndMark =>
        /\ cs[i].n = Nth(cs, i, cs[i].src)
        /\ cs[i].n \in 1..Len(w[cs[i].src])
        /\ \/ cs[i].size = w[cs[i].src][cs[i].n]
           \/ /\ capped
              /\ cs[i].size < w[cs[i].src][cs[i].n]
              /\ \A j \in (i + 1)..Len(cs) : cs[j] = EndMark

\* Pipes, pumps and queue lose no chunk before the cap is met.
FlowInv ==
    /\ \A s \in Streams : InPipe(pipe[s], written[s], s)
    /\ HandedOn(All, written, limit)
    /\ ~limit => \A s \in Streams : Nth(All, Len(All), s) = Taken(s)

\* total_bytes counts what was handed on and, before the cap is met, what was read.
BytesInv ==
    /\ total <= MaxBytes
    /\ SizeOf(All) = total
    /\ ~limit => total = SumTo(written["stdout"], Taken("stdout"))
                         + SumTo(written["stderr"], Taken("stderr"))
    /\ limit => BytesWritten > MaxBytes

ControlInv == GeneratorType /\ ProcessType /\ KillInv /\ EndInv
SandboxInv == ControlInv /\ DataType /\ MarkInv /\ FlowInv /\ BytesInv

USE SandboxAssumption

\* The shapes of chunks, marks and exit codes the proofs need.
LEMMA Constants ==
    /\ Killed \in Int /\ Killed \notin {0, 1}
    /\ EndMark \notin Chunks /\ EndMark.src \notin Streams /\ EndMark.size = 0
    /\ Streams = {"stdout", "stderr"} /\ Ends = {"stdout", "stderr", "stdin"}
    /\ Sizes \subseteq Nat \ {0}
    /\ \A c \in Items : c.size \in Nat
  BY DEF Killed, EndMark, Chunks, Streams, Ends, Sizes, Items

-----------------------------------------------------------------------------
(* The control of the generator, the pumps and the processes *)

\* A kill: the program is running no longer, and its child neither unless the
\* program's end was collected before.
LEMMA KillStops ==
    ASSUME ProcessType, Terminate, program # "absent"
    PROVE  /\ program' \in {"zombie", "reaped"} /\ code' \in {Killed, 0, 1}
           /\ child' \in {"absent", "running", "detached", "dead"}
           /\ holders' \in [Ends -> SUBSET {"program", "child"}]
           /\ \A e \in Ends : holders'[e] \subseteq holders[e]
           /\ code' = Killed => (code = Killed /\ child' = child) \/ child' # "running"
           /\ child' = "running" => child = "running"
           /\ code' # code => program = "running"
  BY DEF ProcessType, Terminate

\* The control invariant holds at first.
LEMMA InitControl == Init => ControlInv
  BY Constants DEF Init, ControlInv, GeneratorType, ProcessType, KillInv, EndInv, Modes, Before, Ending, Whole

\* The steps of the generator that kill nothing.
Calm == \/ Begin \/ CompileSucceeds \/ CompileFails \/ CompileError
        \/ Spawn \/ SpawnFails \/ Drain \/ DrainFails \/ Fatal
        \/ Deliver \/ OutputEnds \/ AnnounceTimeout \/ Report \/ Cleanup

\* The steps that kill nothing keep it: each sets pc where its flags belong.
LEMMA CalmControl == ASSUME ControlInv, consumer = "asking", Calm PROVE ControlInv'
  <1> USE Constants DEF ControlInv, Before, Ending, Whole, Yield, Complete,
          generator, processes, pumping, history
  <1>1. GeneratorType'
    BY DEF GeneratorType, Modes, Calm, Begin, CompileSucceeds, CompileFails, CompileError, Spawn, SpawnFails,
           Drain, DrainFails, Fatal, Deliver, OutputEnds, AnnounceTimeout, Report, Cleanup, Status
  <1>2. ProcessType'
    BY DEF ProcessType, Calm, Begin, CompileSucceeds, CompileFails, CompileError, Spawn, SpawnFails,
           Drain, DrainFails, Fatal, Deliver, OutputEnds, AnnounceTimeout, Report, Cleanup
  <1>3. KillInv'
    <2>1. pc \notin Ending => verdict = "none"
      BY DEF EndInv
    <2>2. CASE Spawn \/ Drain
      BY <2>1, <2>2 DEF KillInv, GeneratorType, ProcessType, Spawn, Drain
    <2>3. CASE ~(Spawn \/ Drain)
      <3>1. UNCHANGED <<program, code, child, holders, limit, expired, timedOut>>
        BY <2>3 DEF Calm, Begin, CompileSucceeds, CompileFails, CompileError, SpawnFails, DrainFails,
                    Fatal, Deliver, OutputEnds, AnnounceTimeout, Report, Cleanup
      <3>2. verdict' = "SYSTEM_ERROR" \/ pc' = "fatal" => program = "absent" \/ holders["stdin"] = {}
        BY <2>1, <2>3 DEF KillInv, Calm, Begin, CompileSucceeds, CompileFails, CompileError, SpawnFails,
                    DrainFails, Fatal, Deliver, OutputEnds, AnnounceTimeout, Report, Cleanup, Status
      <3> QED BY <2>3, <3>1, <3>2 DEF KillInv, GeneratorType, ProcessType, Calm, Begin, CompileSucceeds,
                    CompileFails, CompileError, SpawnFails, DrainFails, Fatal, Deliver, OutputEnds,
                    AnnounceTimeout, Report, Cleanup
    <2> QED BY <2>2, <2>3
  <1>4. EndInv'
    BY DEF EndInv, KillInv, GeneratorType, ProcessType, Calm, Begin, CompileSucceeds, CompileFails,
           CompileError, Spawn, SpawnFails, Drain, DrainFails, Fatal, Deliver, OutputEnds,
           AnnounceTimeout, Report, Cleanup, Status
  <1> QED BY <1>1, <1>2, <1>3, <1>4

\* The deadline kills the program it declares timed out.
LEMMA DeadlineControl == ASSUME ControlInv, consumer = "asking", DeadlinePasses PROVE ControlInv'
  <1> USE Constants DEF ControlInv, Before, Ending, Whole, history
  <1>1. program # "absent"
    BY DEF DeadlinePasses, KillInv
  <1>2. /\ program' \in {"zombie", "reaped"} /\ code' \in {Killed, 0, 1}
        /\ child' \in {"absent", "running", "detached", "dead"}
        /\ holders' \in [Ends -> SUBSET {"program", "child"}] /\ \A e \in Ends : holders'[e] \subseteq holders[e]
        /\ code' = Killed => (code = Killed /\ child' = child) \/ child' # "running"
    BY <1>1, KillStops DEF DeadlinePasses
  <1>3. GeneratorType'
    BY DEF GeneratorType, DeadlinePasses, pumping
  <1>4. ProcessType'
    BY <1>2 DEF ProcessType, DeadlinePasses
  <1>5. KillInv'
    BY <1>2 DEF KillInv, DeadlinePasses, pumping
  <1>6. EndInv'
    BY <1>2 DEF EndInv, DeadlinePasses, KillInv
  <1> QED BY <1>3, <1>4, <1>5, <1>6

\* A pump that meets the cap kills the program; one that ends changes no process.
LEMMA PumpControl == ASSUME ControlInv, NEW s \in Streams, Pump(s) PROVE ControlInv'
  <1> USE Constants DEF ControlInv, Before, Ending, Whole, generator, history
  <1>0. pump[s] = "reading" /\ program # "absent"
    BY DEF Pump, Read, EndOfFile, KillInv
  <1>1. UNCHANGED <<pc, timedOut, verdict, expired, consumer, compiler, last>>
    BY DEF Pump, Read, EndOfFile, processes
  <1>2. pump' \in [Streams -> Modes] /\ \A t \in Streams : pump[t] = "idle" => pump'[t] = "idle"
    BY <1>0 DEF Pump, Read, EndOfFile, GeneratorType, Modes
  <1>3. CASE UNCHANGED <<limit, program, code, child, holders>>
    BY <1>0, <1>1, <1>2, <1>3 DEF GeneratorType, ProcessType, KillInv, EndInv
  <1>4. CASE limit' = TRUE /\ Terminate
    <2>1. /\ program' \in {"zombie", "reaped"} /\ code' \in {Killed, 0, 1}
          /\ child' \in {"absent", "running", "detached", "dead"}
          /\ holders' \in [Ends -> SUBSET {"program", "child"}] /\ \A e \in Ends : holders'[e] \subseteq holders[e]
          /\ code' = Killed => (code = Killed /\ child' = child) \/ child' # "running"
      BY <1>0, <1>4, KillStops
    <2>2. GeneratorType' /\ ProcessType'
      BY <1>1, <1>2, <1>4, <2>1 DEF GeneratorType, ProcessType
    <2>3. pc \notin Before \cup {"drain", "fatal"}
      BY <1>0 DEF KillInv
    <2>4. KillInv'
      BY <1>0, <1>1, <1>2, <1>4, <2>1, <2>3 DEF KillInv
    <2>5. EndInv'
      BY <1>1, <1>4, <2>1 DEF EndInv
    <2> QED BY <2>2, <2>4, <2>5
  <1>5. (UNCHANGED <<limit, program, code, child, holders>>) \/ (limit' = TRUE /\ Terminate)
    <2>1. CASE EndOfFile(s)
      BY <2>1 DEF EndOfFile, processes
    <2>2. CASE Read(s)
      BY <2>2 DEF Read, GeneratorType
    <2> QED BY <2>1, <2>2 DEF Pump
  <1> QED BY <1>3, <1>4, <1>5

\* The consumer, the clock, the kernel, the submitted code and the input task.
Outside == Published \/ PublishFails \/ TimePasses \/ Collect \/ Code \/ WriteStdin \/ SendSignal

\* Steps that touch neither the control nor the processes.
LEMMA ControlQuiet ==
    ASSUME ControlInv, UNCHANGED <<generator, expired, consumer, processes, pump, limit, last>>
    PROVE  ControlInv'
  BY DEF ControlInv, GeneratorType, ProcessType, KillInv, EndInv, generator, processes

\* What is outside the generator can end the program, never start it again.
LEMMA OutsideControl == ASSUME ControlInv, Outside PROVE ControlInv'
  <1> USE Constants DEF ControlInv, Before, Ending, Whole, generator, processes, pumping, history
  <1>1. CASE Published \/ TimePasses
    BY <1>1 DEF Published, TimePasses, GeneratorType, ProcessType, KillInv, EndInv
  <1>6. CASE PublishFails
    BY <1>6 DEF PublishFails, GeneratorType, ProcessType, KillInv, EndInv
  <1>7. CASE Collect
    BY <1>7 DEF Collect, GeneratorType, ProcessType, KillInv, EndInv
  <1>2. CASE WriteStdin \/ TakeStdin \/ \E s \in Streams : Write(s)
    <2>1. UNCHANGED <<generator, expired, consumer, processes, pump, limit, last>>
      BY <1>2 DEF WriteStdin, TakeStdin, Write
    <2> QED BY <2>1, ControlQuiet
  <1>3. CASE SendSignal \/ Exit("program")
    BY <1>3 DEF SendSignal, Exit, Alive, GeneratorType, ProcessType, KillInv, EndInv
  <1>4. CASE Fork \/ Detach \/ Exit("child")
    BY <1>4 DEF Fork, Detach, Exit, Alive, GeneratorType, ProcessType, KillInv, EndInv
  <1>5. ASSUME NEW p \in {"program", "child"}, NEW e \in Ends, Close(p, e) PROVE ControlInv'
    BY <1>5 DEF Close, Alive, GeneratorType, ProcessType, KillInv, EndInv
  <1> QED BY <1>1, <1>2, <1>3, <1>4, <1>5, <1>6, <1>7 DEF Outside, Code

\* Every step keeps the control invariant.
LEMMA NextControl == ASSUME ControlInv, [Next]_vars PROVE ControlInv'
  <1>1. CASE Resumed
    BY <1>1, CalmControl, DeadlineControl DEF Resumed, Calm
  <1>2. CASE UNCHANGED vars
    BY <1>2 DEF vars, generator, processes, pumping, history, ControlInv, GeneratorType, ProcessType,
                KillInv, EndInv
  <1> QED BY <1>1, <1>2, PumpControl, OutsideControl DEF Next, Outside

-----------------------------------------------------------------------------
(* Sequences of chunks *)

\* What every element of a sequence over S is.
LEMMA SeqElements ==
    ASSUME NEW S, NEW q \in Seq(S)
    PROVE  \A i \in 1..Len(q) : q[i] \in S
  OBVIOUS

\* A sum of natural numbers does not shrink with its terms.
LEMMA SumGrows ==
    ASSUME NEW f, NEW m \in Nat, NEW n \in Nat, m <= n, \A i \in 1..n : f[i] \in Nat
    PROVE  SumTo(f, m) <= SumTo(f, n)
  <1> DEFINE T == {k \in Nat : m <= k /\ k <= n => SumTo(f, m) <= SumTo(f, k)}
  <1>1. 0 \in T
    BY SumNat
  <1>2. ASSUME NEW k \in Nat, k \in T PROVE k + 1 \in T
    <2>1. SUFFICES ASSUME m <= k + 1, k + 1 <= n PROVE SumTo(f, m) <= SumTo(f, k + 1)
      OBVIOUS
    <2>2. SumTo(f, m) \in Nat /\ SumTo(f, k) \in Nat /\ f[k + 1] \in Nat
      BY <2>1, SumNat
    <2>3. SumTo(f, k + 1) = SumTo(f, k) + f[k + 1]
      BY SumSteps
    <2>4. CASE m = k + 1
      BY <2>2, <2>3, <2>4
    <2>5. CASE m <= k
      BY <1>2, <2>1, <2>2, <2>3, <2>5
    <2> QED BY <2>1, <2>4, <2>5
  <1> HIDE DEF T
  <1>3. Nat \subseteq T
    BY <1>1, <1>2, SetInduction
  <1> QED BY <1>3 DEF T

\* The bytes of a sequence with one item more; of its beginning.
LEMMA BytesAppend ==
    ASSUME NEW cs \in Seq(Items), NEW c \in Items
    PROVE  SizeOf(Append(cs, c)) = SizeOf(cs) + c.size /\ SizeOf(cs) \in Nat
  <1> DEFINE n == Len(cs)
             f == [i \in DOMAIN cs |-> cs[i].size]
             more == Append(cs, c)
             g == [i \in DOMAIN more |-> more[i].size]
  <1>1. n \in Nat /\ Len(more) = n + 1 /\ DOMAIN cs = 1..n /\ DOMAIN more = 1..(n + 1)
    OBVIOUS
  <1>2. g[n + 1] = c.size /\ \A i \in 1..n : g[i] = f[i]
    OBVIOUS
  <1>3. \A i \in 1..n : f[i] \in Nat
    <2>1. \A i \in 1..n : cs[i] \in Items
      BY SeqElements
    <2> QED BY <2>1, Constants
  <1>4. Len(f) = n /\ Len(g) = n + 1
    BY <1>1
  <1>5. SizeOf(cs) = SumTo(f, n) /\ SizeOf(more) = SumTo(g, n + 1)
    BY <1>4 DEF SizeOf, Bytes
  <1> HIDE DEF f, g, more, n
  <1>6. SumTo(g, n + 1) = SumTo(g, n) + g[n + 1] /\ SumTo(g, n) = SumTo(f, n) /\ SumTo(f, n) \in Nat
    BY <1>1, <1>2, <1>3, SumSteps, SumSame, SumNat
  <1> QED BY <1>2, <1>5, <1>6 DEF more

\* What was delivered is no more than what was handed on.
LEMMA BytesPrefix ==
    ASSUME NEW o \in Seq(Items), NEW q \in Seq(Items)
    PROVE  SizeOf(o) <= SizeOf(o \o q)
  <1> DEFINE m == Len(o)
             n == Len(o) + Len(q)
             all == o \o q
             f == [i \in DOMAIN o |-> o[i].size]
             g == [i \in DOMAIN all |-> all[i].size]
  <1>1. /\ m \in Nat /\ n \in Nat /\ m <= n /\ Len(all) = n
        /\ DOMAIN o = 1..m /\ DOMAIN all = 1..n /\ all \in Seq(Items)
    OBVIOUS
  <1>2. \A i \in 1..m : g[i] = f[i]
    OBVIOUS
  <1>3. \A i \in 1..n : g[i] \in Nat
    <2>1. \A i \in 1..n : all[i] \in Items
      BY <1>1, SeqElements
    <2> QED BY <1>1, <2>1, Constants
  <1>4. Len(f) = m /\ Len(g) = n
    BY <1>1
  <1>5. SizeOf(o) = SumTo(f, m) /\ SizeOf(all) = SumTo(g, n)
    BY <1>4 DEF SizeOf, Bytes
  <1> HIDE DEF f, g, all, m, n
  <1>6. SumTo(f, m) = SumTo(g, m) /\ SumTo(g, m) <= SumTo(g, n)
    BY <1>1, <1>2, <1>3, SumSame, SumGrows
  <1> QED BY <1>5, <1>6 DEF all

\* How many chunks of a stream there are among the first, with one item more.
LEMMA NthType == ASSUME NEW cs, NEW i \in Nat, NEW s PROVE Nth(cs, i, s) \in Nat
  <1>1. IsFiniteSet(1..i) /\ {j \in 1..i : cs[j].src = s} \subseteq 1..i
    BY FS_Interval
  <1> QED BY <1>1, FS_Subset, FS_CardinalityType DEF Nth

\* The count looks at no item beyond the i-th.
LEMMA NthSame ==
    ASSUME NEW cs, NEW ds, NEW i \in Nat, NEW s, \A j \in 1..i : cs[j] = ds[j]
    PROVE  Nth(cs, i, s) = Nth(ds, i, s)
  <1>1. {j \in 1..i : cs[j].src = s} = {j \in 1..i : ds[j].src = s}
    OBVIOUS
  <1> QED BY <1>1 DEF Nth

\* One item more counts one more, if it is of the stream.
LEMMA NthStep ==
    ASSUME NEW cs, NEW i \in Nat, NEW s
    PROVE  Nth(cs, i + 1, s) = Nth(cs, i, s) + (IF cs[i + 1].src = s THEN 1 ELSE 0)
  <1> DEFINE A == {j \in 1..i : cs[j].src = s}
             B == {j \in 1..(i + 1) : cs[j].src = s}
  <1>1. IsFiniteSet(A) /\ i + 1 \notin A
    <2>1. IsFiniteSet(1..i) /\ A \subseteq 1..i /\ i + 1 \notin 1..i
      BY FS_Interval
    <2> QED BY <2>1, FS_Subset
  <1>2. CASE cs[i + 1].src = s
    <2>1. B = A \cup {i + 1}
      BY <1>2
    <2>2. Cardinality(B) = Cardinality(A) + 1
      BY <1>1, <2>1, FS_AddElement
    <2> QED BY <1>2, <2>2 DEF Nth
  <1>3. CASE cs[i + 1].src # s
    <2>1. B = A
      BY <1>3
    <2>2. Nth(cs, i + 1, s) = Nth(cs, i, s)
      BY <2>1 DEF Nth
    <2>3. Nth(cs, i, s) \in Nat
      BY NthType
    <2> QED BY <1>3, <2>2, <2>3
  <1> QED BY <1>2, <1>3

\* One item more, seen element by element.
LEMMA AppendFacts ==
    ASSUME NEW cs \in Seq(Items), NEW c \in Items
    PROVE  /\ Append(cs, c) \in Seq(Items)
           /\ Len(Append(cs, c)) = Len(cs) + 1 /\ Len(cs) \in Nat
           /\ Append(cs, c)[Len(cs) + 1] = c
           /\ \A i \in 1..Len(cs) : Append(cs, c)[i] = cs[i]
           /\ \A s : \A i \in 0..Len(cs) : Nth(Append(cs, c), i, s) = Nth(cs, i, s)
           /\ \A s : Nth(Append(cs, c), Len(cs) + 1, s)
                       = Nth(cs, Len(cs), s) + (IF c.src = s THEN 1 ELSE 0)
  <1> DEFINE ds == Append(cs, c)
             n == Len(cs)
  <1>1. /\ ds \in Seq(Items) /\ Len(ds) = n + 1 /\ n \in Nat /\ ds[n + 1] = c
        /\ \A i \in 1..n : ds[i] = cs[i]
    OBVIOUS
  <1> HIDE DEF ds, n
  <1>2. ASSUME NEW s, NEW i \in 0..n PROVE Nth(ds, i, s) = Nth(cs, i, s)
    <2>1. i \in Nat /\ \A j \in 1..i : ds[j] = cs[j]
      BY <1>1
    <2> QED BY <2>1, NthSame
  <1>3. ASSUME NEW s PROVE Nth(ds, n + 1, s) = Nth(cs, n, s) + (IF c.src = s THEN 1 ELSE 0)
    BY <1>1, <1>2, NthStep
  <1> QED BY <1>1, <1>2, <1>3 DEF ds, n

\* A chunk is handed on behind whole ones, in its place: it may be the cut one.
LEMMA HandOn ==
    ASSUME NEW cs \in Seq(Items), NEW w, HandedOn(cs, w, FALSE),
           NEW c \in Chunks, NEW capped \in BOOLEAN,
           c.n = Nth(cs, Len(cs), c.src) + 1, c.n \in 1..Len(w[c.src]),
           c.size = w[c.src][c.n] \/ (capped /\ c.size < w[c.src][c.n])
    PROVE  HandedOn(Append(cs, c), w, capped)
  <1> DEFINE ds == Append(cs, c)
             n == Len(cs)
  <1>1. /\ Len(ds) = n + 1 /\ n \in Nat /\ ds[n + 1] = c
        /\ \A i \in 1..n : ds[i] = cs[i]
        /\ \A s : \A i \in 0..n : Nth(ds, i, s) = Nth(cs, i, s)
        /\ Nth(ds, n + 1, c.src) = Nth(cs, n, c.src) + 1
    BY AppendFacts DEF Items
  <1> HIDE DEF ds, n
  <1> SUFFICES ASSUME NEW i \in 1..(n + 1), ds[i] # EndMark
               PROVE  /\ ds[i].n = Nth(ds, i, ds[i].src)
                      /\ ds[i].n \in 1..Len(w[ds[i].src])
                      /\ \/ ds[i].size = w[ds[i].src][ds[i].n]
                         \/ /\ capped
                            /\ ds[i].size < w[ds[i].src][ds[i].n]
                            /\ \A j \in (i + 1)..(n + 1) : ds[j] = EndMark
    BY <1>1 DEF HandedOn, ds
  <1>2. CASE i = n + 1
    BY <1>1, <1>2 DEF n
  <1>3. CASE i \in 1..n
    BY <1>1, <1>3 DEF HandedOn, n
  <1>4. i = n + 1 \/ i \in 1..n
    BY <1>1
  <1> QED BY <1>2, <1>3, <1>4

\* The end mark behind what was handed on, or taken away, changes nothing of it.
LEMMA HandMark ==
    ASSUME NEW cs \in Seq(Items), NEW w, NEW capped \in BOOLEAN
    PROVE  /\ HandedOn(Append(cs, EndMark), w, capped) <=> HandedOn(cs, w, capped)
           /\ SizeOf(Append(cs, EndMark)) = SizeOf(cs)
           /\ \A s \in Streams : Nth(Append(cs, EndMark), Len(cs) + 1, s) = Nth(cs, Len(cs), s)
           /\ Append(cs, EndMark) \in Seq(Items) /\ Len(Append(cs, EndMark)) = Len(cs) + 1
  <1> DEFINE ds == Append(cs, EndMark)
             n == Len(cs)
  <1>0. EndMark \in Items
    BY DEF Items
  <1>1. /\ Len(ds) = n + 1 /\ n \in Nat /\ ds[n + 1] = EndMark /\ ds \in Seq(Items)
        /\ \A i \in 1..n : ds[i] = cs[i]
        /\ \A s : \A i \in 0..n : Nth(ds, i, s) = Nth(cs, i, s)
        /\ \A s : Nth(ds, n + 1, s) = Nth(cs, n, s) + (IF EndMark.src = s THEN 1 ELSE 0)
    BY <1>0, AppendFacts
  <1>2. \A s \in Streams : Nth(ds, n + 1, s) = Nth(cs, n, s)
    BY <1>1, Constants, NthType
  <1>3. SizeOf(ds) = SizeOf(cs)
    BY <1>0, BytesAppend, Constants
  <1> HIDE DEF ds, n
  <1>4. ASSUME HandedOn(cs, w, capped) PROVE HandedOn(ds, w, capped)
    <2> SUFFICES ASSUME NEW i \in 1..(n + 1), ds[i] # EndMark
                 PROVE  /\ ds[i].n = Nth(ds, i, ds[i].src)
                        /\ ds[i].n \in 1..Len(w[ds[i].src])
                        /\ \/ ds[i].size = w[ds[i].src][ds[i].n]
                           \/ /\ capped
                              /\ ds[i].size < w[ds[i].src][ds[i].n]
                              /\ \A j \in (i + 1)..(n + 1) : ds[j] = EndMark
      BY <1>1 DEF HandedOn
    <2>1. i \in 1..n /\ i \in 0..n
      BY <1>1
    <2>2. /\ cs[i].n = Nth(cs, i, cs[i].src)
          /\ cs[i].n \in 1..Len(w[cs[i].src])
          /\ \/ cs[i].size = w[cs[i].src][cs[i].n]
             \/ /\ capped
                /\ cs[i].size < w[cs[i].src][cs[i].n]
                /\ \A j \in (i + 1)..n : cs[j] = EndMark
      BY <1>1, <1>4, <2>1 DEF HandedOn, n
    <2>3. (\A j \in (i + 1)..n : cs[j] = EndMark) => \A j \in (i + 1)..(n + 1) : ds[j] = EndMark
      <3> SUFFICES ASSUME \A j \in (i + 1)..n : cs[j] = EndMark, NEW j \in (i + 1)..(n + 1)
                   PROVE  ds[j] = EndMark
        OBVIOUS
      <3>1. j = n + 1 \/ (j \in (i + 1)..n /\ j \in 1..n)
        BY <1>1, <2>1
      <3> QED BY <1>1, <3>1
    <2> QED BY <1>1, <2>1, <2>2, <2>3
  <1>5. ASSUME HandedOn(ds, w, capped) PROVE HandedOn(cs, w, capped)
    <2> SUFFICES ASSUME NEW i \in 1..n, cs[i] # EndMark
                 PROVE  /\ cs[i].n = Nth(cs, i, cs[i].src)
                        /\ cs[i].n \in 1..Len(w[cs[i].src])
                        /\ \/ cs[i].size = w[cs[i].src][cs[i].n]
                           \/ /\ capped
                              /\ cs[i].size < w[cs[i].src][cs[i].n]
                              /\ \A j \in (i + 1)..n : cs[j] = EndMark
      BY DEF HandedOn, n
    <2>1. i \in 1..(n + 1) /\ i \in 0..n /\ ds[i] = cs[i]
      BY <1>1
    <2>2. /\ ds[i].n = Nth(ds, i, ds[i].src)
          /\ ds[i].n \in 1..Len(w[ds[i].src])
          /\ \/ ds[i].size = w[ds[i].src][ds[i].n]
             \/ /\ capped
                /\ ds[i].size < w[ds[i].src][ds[i].n]
                /\ \A j \in (i + 1)..(n + 1) : ds[j] = EndMark
      BY <1>1, <1>5, <2>1 DEF HandedOn
    <2>3. \A j \in (i + 1)..n : j \in (i + 1)..(n + 1) /\ ds[j] = cs[j]
      BY <1>1
    <2> QED BY <1>1, <2>1, <2>2, <2>3
  <1> QED BY <1>1, <1>2, <1>3, <1>4, <1>5 DEF ds, n

\* More was written: what was handed on is still of it.
LEMMA HandedOnGrows ==
    ASSUME NEW cs \in Seq(Items), NEW v \in [Streams -> Seq(Sizes)], NEW w \in [Streams -> Seq(Sizes)],
           NEW capped \in BOOLEAN, HandedOn(cs, v, capped),
           \A s \in Streams : Len(v[s]) <= Len(w[s]) /\ \A i \in 1..Len(v[s]) : w[s][i] = v[s][i]
    PROVE  HandedOn(cs, w, capped)
  <1> SUFFICES ASSUME NEW i \in 1..Len(cs), cs[i] # EndMark
               PROVE  /\ cs[i].n = Nth(cs, i, cs[i].src)
                      /\ cs[i].n \in 1..Len(w[cs[i].src])
                      /\ \/ cs[i].size = w[cs[i].src][cs[i].n]
                         \/ /\ capped
                            /\ cs[i].size < w[cs[i].src][cs[i].n]
                            /\ \A j \in (i + 1)..Len(cs) : cs[j] = EndMark
    BY DEF HandedOn
  <1>1. cs[i].src \in Streams
    <2>1. cs[i] \in Chunks
      BY SeqElements DEF Items
    <2> QED BY <2>1 DEF Chunks
  <1>2. /\ Len(v[cs[i].src]) \in Nat /\ Len(w[cs[i].src]) \in Nat
        /\ Len(v[cs[i].src]) <= Len(w[cs[i].src])
    BY <1>1
  <1> QED BY <1>1, <1>2 DEF HandedOn

-----------------------------------------------------------------------------
(* The chunks on their way: pipes, pumps, queue *)

DataInv == DataType /\ FlowInv /\ BytesInv

\* What was handed on is chunks and marks.
LEMMA AllTyped == ASSUME DataType PROVE All \in Seq(Items) /\ output \in Seq(Items) /\ queue \in Seq(Items)
  <1>1. output \in Seq(Items)
    BY DEF DataType, Items
  <1> QED BY <1>1 DEF DataType, All

\* Differences of natural numbers, for leaves that see no arithmetic otherwise.
LEMMA Differences ==
    /\ \A a \in Nat : a <= a
    /\ \A a, b \in Nat : a <= b => b - a \in Nat /\ b - a <= b
  OBVIOUS

\* The numbers of a stream's chunks.
LEMMA TakenType ==
    ASSUME DataType, FlowInv, NEW s \in Streams
    PROVE  /\ Len(pipe[s]) \in Nat /\ Len(written[s]) \in Nat
           /\ Taken(s) \in Nat /\ Taken(s) <= Len(written[s])
           /\ \A i \in 1..Len(written[s]) : written[s][i] \in Nat \ {0}
  <1>1. pipe[s] \in Seq(Chunks) /\ written[s] \in Seq(Sizes)
    BY DEF DataType
  <1>2. Len(pipe[s]) \in Nat /\ Len(written[s]) \in Nat
    BY <1>1
  <1>4. Len(pipe[s]) <= Len(written[s])
    BY DEF FlowInv, InPipe
  <1>3. \A i \in 1..Len(written[s]) : written[s][i] \in Nat \ {0}
    <2>1. \A i \in 1..Len(written[s]) : written[s][i] \in Sizes
      BY <1>1, SeqElements
    <2> QED BY <2>1, Constants
  <1>5. Taken(s) \in Nat /\ Taken(s) <= Len(written[s])
    BY <1>2, <1>4, Differences DEF Taken
  <1> QED BY <1>2, <1>3, <1>5

\* Before anything is written.
LEMMA InitData == Init => DataInv
  <1> SUFFICES ASSUME Init PROVE DataInv
    OBVIOUS
  <1>1. All = << >> /\ output = << >> /\ queue = << >> /\ Len(<< >>) = 0
    BY DEF Init, All
  <1>2. DataType
    <2>1. \A S : << >> \in Seq(S)
      OBVIOUS
    <2>2. pipe \in [Streams -> Seq(Chunks)] /\ written \in [Streams -> Seq(Sizes)]
      BY <2>1 DEF Init
    <2> QED BY <2>1, <2>2 DEF Init, DataType
  <1>3. \A s \in Streams : Taken(s) = 0 /\ pipe[s] = << >> /\ written[s] = << >>
    BY DEF Init, Taken
  <1>4. \A s : Nth(<< >>, 0, s) = 0
    <2>1. \A s : {j \in 1..0 : << >>[j].src = s} = {}
      OBVIOUS
    <2> QED BY <2>1, FS_EmptySet DEF Nth
  <1>5. HandedOn(<< >>, written, limit)
    BY DEF HandedOn
  <1>6. FlowInv
    <2>1. \A s \in Streams : InPipe(<< >>, << >>, s)
      BY DEF InPipe
    <2> QED BY <1>1, <1>3, <1>4, <1>5, <2>1 DEF FlowInv
  <1>7. SizeOf(<< >>) = 0
    <2>1. Len([i \in DOMAIN << >> |-> << >>[i].size]) = 0
      OBVIOUS
    <2> QED BY <2>1, SumSteps DEF SizeOf, Bytes
  <1>8. BytesInv
    <2>1. total = 0 /\ ~limit
      BY DEF Init
    <2>2. SumTo(written["stdout"], 0) = 0 /\ SumTo(written["stderr"], 0) = 0
      BY SumSteps
    <2> QED BY <1>1, <1>3, <1>7, <2>1, <2>2, Constants DEF BytesInv
  <1> QED BY <1>2, <1>6, <1>8 DEF DataInv

\* The steps that move no chunk.
LEMMA DataQuiet ==
    ASSUME DataInv, UNCHANGED <<pipe, written, queue, output, total, limit>>
    PROVE  DataInv'
  BY DEF DataInv, DataType, FlowInv, BytesInv, All, Taken, BytesWritten, Bytes, SizeOf

\* A chunk goes from the queue to the consumer.
LEMMA DeliverData == ASSUME DataInv, Deliver PROVE DataInv'
  <1>1. /\ queue # << >> /\ Head(queue) # EndMark
        /\ output' = Append(output, Head(queue)) /\ queue' = Tail(queue)
        /\ UNCHANGED <<pipe, written, total, limit>>
    BY DEF Deliver, pumping
  <1>2. queue \in Seq(Items) /\ output \in Seq(Chunks) /\ Head(queue) \in Items
    BY <1>1 DEF DataInv, DataType
  <1>3. Head(queue) \in Chunks
    BY <1>1, <1>2 DEF Items
  <1>4. DataType'
    BY <1>1, <1>2, <1>3 DEF DataInv, DataType
  <1>5. All' = All
    BY <1>1, <1>2, <1>3 DEF All, Items
  <1> QED BY <1>1, <1>4, <1>5 DEF DataInv, FlowInv, BytesInv, Taken, BytesWritten, Bytes

\* The end mark is taken off the queue.
LEMMA EndData == ASSUME DataInv, MarkInv, OutputEnds PROVE DataInv' /\ queue' = << >>
  <1>1. /\ queue # << >> /\ Head(queue) = EndMark /\ queue' = Tail(queue)
        /\ UNCHANGED <<output, pipe, written, total, limit>>
    BY DEF OutputEnds, pumping, history
  <1>2. queue \in Seq(Items) /\ output \in Seq(Items)
    BY AllTyped DEF DataInv
  <1>3. Len(queue) = 1 /\ queue[1] = EndMark
    <2>1. Len(queue) \in Nat /\ Len(queue) >= 1 /\ queue[1] = EndMark
      BY <1>1, <1>2
    <2>2. 1 \in 1..Len(queue)
      BY <2>1
    <2>3. Len(queue) = 1
      BY <2>1, <2>2 DEF MarkInv
    <2> QED BY <2>1, <2>3
  <1>4. queue' = << >> /\ queue = <<EndMark>>
    BY <1>1, <1>2, <1>3
  <1>5. All' = output /\ All = Append(output, EndMark)
    BY <1>1, <1>2, <1>4 DEF All
  <1>6. limit \in BOOLEAN
    BY DEF DataInv, DataType
  <1>7. /\ HandedOn(All', written, limit)
        /\ SizeOf(All') = SizeOf(All)
        /\ \A s \in Streams : Nth(All', Len(All'), s) = Nth(All, Len(All), s)
    BY <1>2, <1>5, <1>6, HandMark DEF DataInv, FlowInv
  <1>8. DataType'
    BY <1>1, <1>4 DEF DataInv, DataType
  <1>9. FlowInv'
    BY <1>1, <1>7 DEF DataInv, FlowInv, Taken
  <1>10. BytesInv'
    BY <1>1, <1>7 DEF DataInv, BytesInv, Taken, BytesWritten, Bytes
  <1> QED BY <1>4, <1>8, <1>9, <1>10 DEF DataInv

\* The program writes a chunk.
LEMMA WriteData == ASSUME DataInv, NEW s \in Streams, Write(s) PROVE DataInv'
  <1>1. PICK z \in Sizes :
            /\ written' = [written EXCEPT ![s] = Append(@, z)]
            /\ pipe' = [pipe EXCEPT ![s] =
                          Append(@, [src |-> s, n |-> Len(written[s]) + 1, size |-> z])]
    BY DEF Write
  <1>2. UNCHANGED <<queue, output, total, limit>>
    BY DEF Write, pumping, history
  <1> DEFINE w == written[s]
             p == pipe[s]
             c == [src |-> s, n |-> Len(w) + 1, size |-> z]
  <1>3. /\ w \in Seq(Sizes) /\ p \in Seq(Chunks) /\ Len(w) \in Nat /\ Len(p) \in Nat
        /\ Len(p) <= Len(w) /\ InPipe(p, w, s)
    <2>1. w \in Seq(Sizes) /\ p \in Seq(Chunks)
      BY DEF DataInv, DataType
    <2>2. InPipe(p, w, s)
      BY DEF DataInv, FlowInv
    <2>3. Len(w) \in Nat /\ Len(p) \in Nat
      BY <2>1
    <2>4. Len(p) <= Len(w)
      BY <2>2 DEF InPipe
    <2> QED BY <2>1, <2>2, <2>3, <2>4
  <1>4. c \in Chunks
    BY <1>1, <1>3, Constants DEF Chunks
  <1>5. /\ written' \in [Streams -> Seq(Sizes)] /\ pipe' \in [Streams -> Seq(Chunks)]
        /\ written'[s] = Append(w, z) /\ pipe'[s] = Append(p, c)
        /\ \A t \in Streams \ {s} : written'[t] = written[t] /\ pipe'[t] = pipe[t]
    BY <1>1, <1>3, <1>4 DEF DataInv, DataType
  <1>6. DataType'
    BY <1>2, <1>5 DEF DataInv, DataType
  <1> HIDE DEF c, w, p
  <1>7. /\ Len(Append(w, z)) = Len(w) + 1 /\ Len(Append(p, c)) = Len(p) + 1
        /\ \A i \in 1..Len(w) : Append(w, z)[i] = w[i]
        /\ \A i \in 1..Len(p) : Append(p, c)[i] = p[i]
        /\ Append(w, z)[Len(w) + 1] = z /\ Append(p, c)[Len(p) + 1] = c
    BY <1>1, <1>3, <1>4
  <1>8. InPipe(Append(p, c), Append(w, z), s)
    <2> DEFINE p2 == Append(p, c)
               w2 == Append(w, z)
    <2>1. Len(p2) = Len(p) + 1 /\ Len(w2) = Len(w) + 1 /\ Len(p2) <= Len(w2)
      BY <1>3, <1>7
    <2> HIDE DEF p2, w2
    <2>2. ASSUME NEW i \in 1..Len(p2)
          PROVE  p2[i] = [src |-> s, n |-> Len(w2) - Len(p2) + i, size |-> w2[Len(w2) - Len(p2) + i]]
      <3>1. Len(w2) - Len(p2) + i = Len(w) - Len(p) + i
        BY <1>3, <2>1
      <3>2. CASE i = Len(p) + 1
        <4>1. p2[i] = c /\ Len(w) - Len(p) + i = Len(w) + 1 /\ w2[Len(w) + 1] = z
          BY <1>3, <1>7, <3>2 DEF p2, w2
        <4> QED BY <3>1, <4>1 DEF c
      <3>3. CASE i \in 1..Len(p)
        <4>1. p2[i] = p[i] /\ Len(w) - Len(p) + i \in 1..Len(w)
          BY <1>3, <1>7, <3>3 DEF p2
        <4>2. w2[Len(w) - Len(p) + i] = w[Len(w) - Len(p) + i]
          BY <1>7, <4>1 DEF w2
        <4>3. p[i] = [src |-> s, n |-> Len(w) - Len(p) + i, size |-> w[Len(w) - Len(p) + i]]
          BY <1>3, <3>3 DEF InPipe
        <4> QED BY <3>1, <4>1, <4>2, <4>3
      <3>4. i = Len(p) + 1 \/ i \in 1..Len(p)
        BY <1>3, <2>1
      <3> QED BY <3>2, <3>3, <3>4
    <2> QED BY <2>1, <2>2 DEF InPipe, p2, w2
  <1>9. \A t \in Streams : InPipe(pipe'[t], written'[t], t)
    <2>1. InPipe(pipe'[s], written'[s], s)
      BY <1>5, <1>8
    <2> QED BY <1>5, <2>1 DEF DataInv, FlowInv
  <1>10. /\ \A t \in Streams : Len(written[t]) <= Len(written'[t])
         /\ \A t \in Streams : \A i \in 1..Len(written[t]) : written'[t][i] = written[t][i]
    <2>1. Len(written[s]) <= Len(written'[s]) /\ \A i \in 1..Len(written[s]) : written'[s][i] = written[s][i]
      BY <1>3, <1>5, <1>7 DEF w
    <2>2. \A t \in Streams : Len(written[t]) \in Nat
      BY TakenType DEF DataInv
    <2>3. ASSUME NEW t \in Streams
          PROVE  Len(written[t]) <= Len(written'[t]) /\ \A i \in 1..Len(written[t]) : written'[t][i] = written[t][i]
      <3>1. CASE t = s
        BY <2>1, <3>1
      <3>2. CASE t # s
        BY <1>5, <2>2, <3>2, Differences
      <3> QED BY <3>1, <3>2
    <2> QED BY <2>3
  <1>11. All' = All /\ All \in Seq(Items) /\ limit' = limit /\ limit \in BOOLEAN
    BY <1>2, AllTyped DEF All, DataInv, DataType
  <1>12. HandedOn(All', written', limit')
    <2>1. written \in [Streams -> Seq(Sizes)] /\ HandedOn(All, written, limit)
      BY DEF DataInv, DataType, FlowInv
    <2> QED BY <1>5, <1>10, <1>11, <2>1, HandedOnGrows
  <1>13. \A t \in Streams : Taken(t)' = Taken(t)
    <2>1. Taken(s)' = Taken(s)
      BY <1>3, <1>5, <1>7 DEF Taken, w, p
    <2> QED BY <1>5, <2>1 DEF Taken
  <1>14. FlowInv'
    BY <1>9, <1>11, <1>12, <1>13 DEF DataInv, FlowInv
  <1>15. \A t \in Streams : SumTo(written'[t], Taken(t)) = SumTo(written[t], Taken(t))
    <2> SUFFICES ASSUME NEW t \in Streams PROVE SumTo(written'[t], Taken(t)) = SumTo(written[t], Taken(t))
      OBVIOUS
    <2>1. Taken(t) \in Nat /\ \A i \in 1..Taken(t) : i \in 1..Len(written[t])
      BY TakenType DEF DataInv
    <2> QED BY <1>10, <2>1, SumSame
  <1>16. BytesWritten <= BytesWritten' /\ BytesWritten \in Nat /\ BytesWritten' \in Nat
    <2>1. ASSUME NEW t \in Streams
          PROVE  Bytes(written[t]) <= Bytes(written'[t]) /\ Bytes(written[t]) \in Nat /\ Bytes(written'[t]) \in Nat
      <3>1. /\ Len(written[t]) \in Nat /\ Len(written'[t]) \in Nat
            /\ \A i \in 1..Len(written[t]) : written[t][i] \in Nat
            /\ \A i \in 1..Len(written'[t]) : written'[t][i] \in Nat
        <4>1. Len(written'[t]) \in Nat /\ \A i \in 1..Len(written'[t]) : written'[t][i] \in Sizes
          <5>1. written'[t] \in Seq(Sizes)
            BY <1>5
          <5> QED BY <5>1, SeqElements
        <4> QED BY <4>1, TakenType, Constants DEF DataInv
      <3>2. SumTo(written[t], Len(written[t])) = SumTo(written'[t], Len(written[t]))
        BY <1>10, <3>1, SumSame
      <3>3. SumTo(written'[t], Len(written[t])) <= SumTo(written'[t], Len(written'[t]))
        BY <1>10, <3>1, SumGrows
      <3>4. SumTo(written[t], Len(written[t])) \in Nat /\ SumTo(written'[t], Len(written'[t])) \in Nat
        BY <3>1, SumNat
      <3> QED BY <3>2, <3>3, <3>4 DEF Bytes
    <2>2. /\ Bytes(written["stdout"]) <= Bytes(written'["stdout"])
          /\ Bytes(written["stderr"]) <= Bytes(written'["stderr"])
          /\ {Bytes(written["stdout"]), Bytes(written["stderr"]),
              Bytes(written'["stdout"]), Bytes(written'["stderr"])} \subseteq Nat
      BY <2>1, Constants
    <2>3. /\ BytesWritten = Bytes(written["stdout"]) + Bytes(written["stderr"])
          /\ BytesWritten' = Bytes(written'["stdout"]) + Bytes(written'["stderr"])
          /\ BytesWritten \in Nat /\ BytesWritten' \in Nat
      BY <2>2 DEF BytesWritten, Bytes
    <2> QED BY <2>2, <2>3
  <1>17. BytesInv'
    <2>1. limit => BytesWritten' > MaxBytes
      BY <1>16 DEF DataInv, BytesInv
    <2>2. /\ SumTo(written'["stdout"], Taken("stdout")') = SumTo(written["stdout"], Taken("stdout"))
          /\ SumTo(written'["stderr"], Taken("stderr")') = SumTo(written["stderr"], Taken("stderr"))
      BY <1>13, <1>15, Constants
    <2> QED BY <1>2, <1>11, <2>1, <2>2 DEF DataInv, BytesInv
  <1> QED BY <1>6, <1>14, <1>17 DEF DataInv

\* A pump that ends adds nothing, or the mark.
LEMMA MarkAdds ==
    ASSUME NEW cs \in Seq(Items), NEW ds, NEW w, NEW capped \in BOOLEAN,
           ds = cs \/ ds = Append(cs, EndMark)
    PROVE  /\ HandedOn(cs, w, capped) => HandedOn(ds, w, capped)
           /\ SizeOf(ds) = SizeOf(cs)
           /\ \A s \in Streams : Nth(ds, Len(ds), s) = Nth(cs, Len(cs), s)
           /\ ds \in Seq(Items)
  <1>1. CASE ds = cs
    BY <1>1
  <1>2. CASE ds = Append(cs, EndMark)
    BY <1>2, HandMark
  <1> QED BY <1>1, <1>2

\* A last item, moved out of the brackets.
LEMMA Append1 ==
    ASSUME NEW S, NEW o \in Seq(S), NEW q \in Seq(S), NEW a \in S
    PROVE  o \o (q \o <<a>>) = Append(o \o q, a) /\ q \o << >> = q /\ q \o <<a>> \in Seq(S)
  OBVIOUS

\* The queue after a read or an end of file: what was handed on, a chunk or none
\* more, and the mark or not.
LEMMA QueueAdds ==
    ASSUME NEW o \in Seq(Items), NEW q \in Seq(Items), NEW chunk \in Seq(Items),
           NEW mark \in {<< >>, <<EndMark>>}
    PROVE  /\ q \o chunk \o mark \in Seq(Items) /\ o \o (q \o chunk) \in Seq(Items)
           /\ o \o (q \o chunk \o mark) \in {o \o (q \o chunk), Append(o \o (q \o chunk), EndMark)}
  <1> DEFINE r == q \o chunk
  <1>1. r \in Seq(Items) /\ EndMark \in Items
    BY DEF Items
  <1> HIDE DEF r
  <1>2. o \o r \in Seq(Items)
    BY <1>1
  <1>3. CASE mark = << >>
    BY <1>1, <1>2, <1>3 DEF r
  <1>4. CASE mark = <<EndMark>>
    BY <1>1, <1>2, <1>4, Append1 DEF r
  <1> QED BY <1>3, <1>4

\* A pump that sees the end of its stream moves no chunk.
LEMMA EndOfFileData == ASSUME DataInv, NEW s \in Streams, EndOfFile(s) PROVE DataInv'
  <1>1. /\ queue' = queue \o MarkIfLast(s)
        /\ UNCHANGED <<pipe, written, output, total, limit>>
    BY DEF EndOfFile, history
  <1>2. output \in Seq(Items) /\ queue \in Seq(Items) /\ All \in Seq(Items) /\ limit \in BOOLEAN
    BY AllTyped DEF DataInv, DataType
  <1>3. /\ queue' \in Seq(Items)
        /\ All' = All \/ All' = Append(All, EndMark)
    <2>1. MarkIfLast(s) = << >> \/ MarkIfLast(s) = <<EndMark>>
      BY DEF MarkIfLast
    <2>2. EndMark \in Items
      BY DEF Items
    <2>3. CASE MarkIfLast(s) = << >>
      BY <1>1, <1>2, <2>3 DEF All
    <2>4. CASE MarkIfLast(s) = <<EndMark>>
      BY <1>1, <1>2, <2>2, <2>4, Append1 DEF All
    <2> QED BY <2>1, <2>3, <2>4
  <1>4. /\ HandedOn(All', written, limit)
        /\ SizeOf(All') = SizeOf(All)
        /\ \A t \in Streams : Nth(All', Len(All'), t) = Nth(All, Len(All), t)
    BY <1>2, <1>3, MarkAdds DEF DataInv, FlowInv
  <1>5. DataType'
    BY <1>1, <1>3 DEF DataInv, DataType
  <1>6. FlowInv'
    BY <1>1, <1>4 DEF DataInv, FlowInv, Taken
  <1>7. BytesInv'
    BY <1>1, <1>4 DEF DataInv, BytesInv, Taken, BytesWritten, Bytes
  <1> QED BY <1>5, <1>6, <1>7 DEF DataInv

\* A read takes the next chunk of its stream.
LEMMA HeadOfPipe ==
    ASSUME DataInv, NEW s \in Streams, pipe[s] # << >>
    PROVE  /\ Head(pipe[s]) \in Chunks
           /\ Head(pipe[s]) = [src |-> s, n |-> Taken(s) + 1, size |-> written[s][Taken(s) + 1]]
           /\ Taken(s) + 1 \in 1..Len(written[s])
           /\ Tail(pipe[s]) \in Seq(Chunks) /\ Len(Tail(pipe[s])) = Len(pipe[s]) - 1
           /\ InPipe(Tail(pipe[s]), written[s], s)
  <1> DEFINE p == pipe[s]
             w == written[s]
             k == Len(p)
             m == Len(w)
  <1>1. /\ p \in Seq(Chunks) /\ k \in Nat /\ m \in Nat /\ p # << >>
        /\ InPipe(p, w, s) /\ Taken(s) = m - k
    BY TakenType DEF DataInv, DataType, FlowInv, Taken
  <1>2. k >= 1 /\ Head(p) = p[1] /\ p[1] \in Chunks /\ Tail(p) \in Seq(Chunks) /\ Len(Tail(p)) = k - 1
        /\ \A i \in 1..(k - 1) : Tail(p)[i] = p[i + 1]
    BY <1>1
  <1> HIDE DEF p, w, k, m
  <1>3. k <= m /\ \A i \in 1..k : p[i] = [src |-> s, n |-> m - k + i, size |-> w[m - k + i]]
    BY <1>1 DEF InPipe, k, m
  <1>4. p[1] = [src |-> s, n |-> m - k + 1, size |-> w[m - k + 1]]
    BY <1>1, <1>2, <1>3
  <1>5. m - k + 1 \in 1..m
    BY <1>1, <1>2, <1>3
  <1>6. InPipe(Tail(p), w, s)
    <2> DEFINE q == Tail(p)
    <2>1. Len(q) = k - 1
      BY <1>2
    <2> HIDE DEF q
    <2>2. ASSUME NEW i \in 1..(k - 1)
          PROVE  q[i] = [src |-> s, n |-> m - (k - 1) + i, size |-> w[m - (k - 1) + i]]
      <3>1. q[i] = p[i + 1] /\ i + 1 \in 1..k
        BY <1>1, <1>2 DEF q
      <3>2. m - k + (i + 1) = m - (k - 1) + i
        BY <1>1
      <3> QED BY <1>3, <3>1, <3>2
    <2>3. k - 1 <= m
      BY <1>1, <1>3
    <2>4. InPipe(q, w, s)
      BY <2>1, <2>2, <2>3 DEF InPipe, m
    <2> QED BY <2>4 DEF q
  <1> QED BY <1>1, <1>2, <1>4, <1>5, <1>6 DEF p, w, k, m

\* The cap: what it leaves of a chunk.
LEMMA CapFacts ==
    ASSUME DataInv, NEW c \in Chunks, c.size \in Nat \ {0}
    PROVE  /\ Capped(c) \in Chunks /\ Capped(c).src = c.src /\ Capped(c).n = c.n
           /\ Fits(c) => Capped(c).size = c.size
           /\ ~Fits(c) => Capped(c).size < c.size /\ total + c.size > MaxBytes
           /\ total + Capped(c).size <= MaxBytes
  <1>1. total \in Nat /\ total <= MaxBytes /\ MaxBytes \in Nat
    BY DEF DataInv, DataType, BytesInv
  <1>2. c.src \in Streams /\ c.n \in Nat /\ c.size \in Nat
    BY DEF Chunks
  <1>3. Fits(c) <=> total + c.size <= MaxBytes
    BY DEF Fits
  <1>4. Room(c.src) = MaxBytes - total \/ Room(c.src) = 0
    BY DEF Room
  <1>5. /\ Capped(c).src = c.src /\ Capped(c).n = c.n
        /\ Capped(c).size = IF Fits(c) THEN c.size ELSE Room(c.src)
        /\ Capped(c) = [src |-> c.src, n |-> c.n, size |-> IF Fits(c) THEN c.size ELSE Room(c.src)]
    BY DEF Capped, Chunks
  <1>6. Capped(c).size \in Nat
    BY <1>1, <1>2, <1>3, <1>4, <1>5
  <1>7. Capped(c) \in Chunks
    BY <1>2, <1>5, <1>6 DEF Chunks
  <1> QED BY <1>1, <1>2, <1>3, <1>4, <1>5, <1>7

\* A read takes the next chunk of its stream and hands on what the cap leaves of it.
LEMMA ReadData == ASSUME DataInv, NEW s \in Streams, Read(s) PROVE DataInv'
  <1> DEFINE c  == Head(pipe[s])
             cc == Capped(c)
             r  == Taken(s)
             w  == written[s]
             cs == IF limit THEN All ELSE Append(All, cc)
  <1>1. /\ pipe[s] # << >> /\ pipe' = [pipe EXCEPT ![s] = Tail(@)]
        /\ total' = IF limit THEN total ELSE total + cc.size
        /\ limit' = (limit \/ ~Fits(c))
        /\ UNCHANGED <<written, output>>
    BY DEF Read, history
  <1>2. /\ c \in Chunks /\ c = [src |-> s, n |-> r + 1, size |-> w[r + 1]]
        /\ r + 1 \in 1..Len(w)
        /\ Tail(pipe[s]) \in Seq(Chunks) /\ Len(Tail(pipe[s])) = Len(pipe[s]) - 1
        /\ InPipe(Tail(pipe[s]), w, s)
    BY <1>1, HeadOfPipe
  <1>3. /\ r \in Nat /\ Len(pipe[s]) \in Nat /\ Len(w) \in Nat
        /\ \A i \in 1..Len(w) : w[i] \in Nat \ {0}
        /\ All \in Seq(Items) /\ output \in Seq(Items) /\ queue \in Seq(Items)
        /\ total \in Nat /\ limit \in BOOLEAN /\ MaxBytes \in Nat
    BY TakenType, AllTyped DEF DataInv, DataType
  <1>4. c.src = s /\ c.n = r + 1 /\ c.size = w[r + 1] /\ c.size \in Nat \ {0}
    BY <1>2, <1>3
  <1>5. /\ cc \in Chunks /\ cc.src = s /\ cc.n = r + 1
        /\ Fits(c) => cc.size = c.size
        /\ ~Fits(c) => cc.size < c.size /\ total + c.size > MaxBytes
        /\ total + cc.size <= MaxBytes
    BY <1>2, <1>4, CapFacts
  <1>6. cc \in Items /\ cc.size \in Nat
    BY <1>5, Constants DEF Items
  <1>7. queue' \in Seq(Items) /\ cs \in Seq(Items) /\ (All' = cs \/ All' = Append(cs, EndMark))
    <2> DEFINE chunk == IF limit THEN << >> ELSE <<cc>>
               mark  == IF limit' THEN MarkIfLast(s) ELSE << >>
    <2>1. queue' = queue \o chunk \o mark
      <3>1. CASE limit'
        BY <3>1 DEF Read
      <3>2. CASE ~limit'
        <4>1. queue' = queue \o chunk
          BY <3>2 DEF Read
        <4>2. queue \o chunk \in Seq(Items)
          BY <1>3, <1>6
        <4> QED BY <3>2, <4>1, <4>2
      <3> QED BY <3>1, <3>2
    <2>2. chunk \in Seq(Items) /\ output \o (queue \o chunk) = cs
      <3>1. CASE limit
        BY <1>3, <3>1 DEF All
      <3>2. CASE ~limit
        BY <1>3, <1>6, <3>2, Append1 DEF All
      <3> QED BY <3>1, <3>2
    <2>3. mark \in {<< >>, <<EndMark>>}
      BY DEF MarkIfLast
    <2> HIDE DEF chunk, mark, cs
    <2>4. All' = output \o (queue \o chunk \o mark)
      BY <1>1, <2>1 DEF All
    <2>5. output \in Seq(Items) /\ queue \in Seq(Items)
      BY <1>3
    <2>6. /\ queue \o chunk \o mark \in Seq(Items) /\ cs \in Seq(Items)
          /\ output \o (queue \o chunk \o mark) \in {cs, Append(cs, EndMark)}
      BY <2>2, <2>3, <2>5, QueueAdds
    <2> QED BY <2>1, <2>4, <2>6
  <1>8. /\ pipe' \in [Streams -> Seq(Chunks)] /\ pipe'[s] = Tail(pipe[s])
        /\ \A t \in Streams \ {s} : pipe'[t] = pipe[t]
    BY <1>1, <1>2 DEF DataInv, DataType
  <1>9. Taken(s)' = r + 1 /\ \A t \in Streams \ {s} : Taken(t)' = Taken(t)
    <2>1. Taken(s)' = Len(w) - (Len(pipe[s]) - 1) /\ r = Len(w) - Len(pipe[s])
      BY <1>1, <1>2, <1>8 DEF Taken
    <2> QED BY <1>1, <1>3, <1>8, <2>1 DEF Taken
  <1>10. limit' \in BOOLEAN /\ total' \in Nat /\ total' <= MaxBytes
    BY <1>1, <1>3, <1>5, <1>6 DEF DataInv, BytesInv
  <1>11. DataType'
    BY <1>1, <1>7, <1>8, <1>10 DEF DataInv, DataType
  <1> HIDE DEF c, cc, r, w
  <1>12. HandedOn(cs, written, limit')
    <2>1. CASE limit
      BY <1>1, <2>1 DEF DataInv, FlowInv
    <2>2. CASE ~limit
      <3>1. /\ HandedOn(All, written, FALSE) /\ cc.n = Nth(All, Len(All), cc.src) + 1
            /\ cc.n \in 1..Len(written[cc.src])
            /\ cc.size = written[cc.src][cc.n] \/ (limit' /\ cc.size < written[cc.src][cc.n])
        <4>1. limit = FALSE
          BY <1>3, <2>2
        <4>2. HandedOn(All, written, FALSE) /\ Nth(All, Len(All), s) = r
          BY <4>1 DEF DataInv, FlowInv, r
        <4> QED BY <1>1, <1>2, <1>4, <1>5, <4>2 DEF w
      <3>2. HandedOn(Append(All, cc), written, limit')
        BY <1>3, <1>5, <1>10, <3>1, HandOn
      <3> QED BY <2>2, <3>2
    <2> QED BY <2>1, <2>2
  <1>13. SizeOf(cs) = total'
    <2>1. SizeOf(All) = total
      BY DEF DataInv, BytesInv
    <2>2. CASE limit
      BY <1>1, <2>1, <2>2
    <2>3. CASE ~limit
      <3>1. SizeOf(Append(All, cc)) = total + cc.size
        BY <1>3, <1>6, <2>1, BytesAppend
      <3> QED BY <1>1, <2>3, <3>1
    <2> QED BY <2>2, <2>3
  <1>14. ~limit' => \A t \in Streams : Nth(cs, Len(cs), t) = Taken(t)'
    <2> SUFFICES ASSUME ~limit', NEW t \in Streams PROVE Nth(cs, Len(cs), t) = Taken(t)'
      OBVIOUS
    <2>1. ~limit /\ cs = Append(All, cc) /\ Nth(All, Len(All), t) = Taken(t)
      BY <1>1 DEF DataInv, FlowInv
    <2>2. Nth(cs, Len(cs), t) = Nth(All, Len(All), t) + (IF cc.src = t THEN 1 ELSE 0)
      BY <1>3, <1>6, <2>1, AppendFacts
    <2>3. Taken(t) \in Nat
      BY TakenType DEF DataInv
    <2>4. CASE t = s
      BY <1>5, <1>9, <2>1, <2>2, <2>4 DEF r
    <2>5. CASE t # s
      BY <1>5, <1>9, <2>1, <2>2, <2>3, <2>5
    <2> QED BY <2>4, <2>5
  <1>15. /\ HandedOn(All', written, limit')
         /\ SizeOf(All') = total'
         /\ ~limit' => \A t \in Streams : Nth(All', Len(All'), t) = Taken(t)'
    <2> HIDE DEF cs
    <2> QED BY <1>7, <1>10, <1>12, <1>13, <1>14, MarkAdds
  <1>16. \A t \in Streams : InPipe(pipe'[t], written[t], t)
    BY <1>2, <1>8 DEF DataInv, FlowInv, w
  <1>17. FlowInv'
    BY <1>1, <1>15, <1>16 DEF FlowInv
  <1> DEFINE Sum(t) == SumTo(written[t], Taken(t))
             Sum2(t) == SumTo(written[t], Taken(t)')
  <1>18. /\ \A t \in Streams : Sum(t) \in Nat /\ Sum2(t) \in Nat
         /\ Sum2(s) = Sum(s) + w[r + 1]
         /\ \A t \in Streams \ {s} : Sum2(t) = Sum(t)
         /\ \A t \in Streams : Sum2(t) <= Bytes(written[t]) /\ Bytes(written[t]) \in Nat
    <2>1. Sum2(s) = Sum(s) + w[r + 1]
      BY <1>3, <1>9, SumSteps DEF r, w
    <2>2. ASSUME NEW t \in Streams
          PROVE  Taken(t) \in Nat /\ Taken(t)' \in Nat /\ Taken(t)' <= Len(written[t])
      <3>1. Taken(t) \in Nat /\ Taken(t) <= Len(written[t]) /\ Len(written[t]) \in Nat
        BY TakenType DEF DataInv
      <3>2. CASE t = s
        <4>1. Taken(t) = r /\ Taken(t)' = r + 1
          BY <1>9, <3>2 DEF r
        <4>2. r \in Nat /\ r + 1 <= Len(written[t])
          BY <1>2, <1>3, <3>2 DEF w
        <4> QED BY <4>1, <4>2
      <3>3. CASE t # s
        BY <1>9, <3>1, <3>3
      <3> QED BY <3>2, <3>3
    <2>3. ASSUME NEW t \in Streams
          PROVE  Sum(t) \in Nat /\ Sum2(t) \in Nat /\ Sum2(t) <= Bytes(written[t]) /\ Bytes(written[t]) \in Nat
      <3>1. Len(written[t]) \in Nat /\ Taken(t) <= Len(written[t])
            /\ \A i \in 1..Len(written[t]) : written[t][i] \in Nat
        BY TakenType DEF DataInv
      <3>2. /\ \A i \in 1..Taken(t) : written[t][i] \in Nat
            /\ \A i \in 1..Taken(t)' : written[t][i] \in Nat
        BY <2>2, <3>1
      <3> QED BY <2>2, <3>1, <3>2, SumNat, SumGrows DEF Bytes
    <2> QED BY <1>9, <2>1, <2>3
  <1> HIDE DEF Sum, Sum2
  <1>19. ~limit => total + w[r + 1] = Sum2("stdout") + Sum2("stderr")
    <2>1. ~limit => total = Sum("stdout") + Sum("stderr")
      BY DEF DataInv, BytesInv, Sum
    <2>2. CASE s = "stdout"
      BY <1>2, <1>3, <1>18, <2>1, <2>2, Constants
    <2>3. CASE s = "stderr"
      BY <1>2, <1>3, <1>18, <2>1, <2>3, Constants
    <2> QED BY <2>2, <2>3, Constants
  <1>20. ~limit' => total' = Sum2("stdout") + Sum2("stderr")
    BY <1>1, <1>4, <1>5, <1>19
  <1>21. limit' => BytesWritten > MaxBytes
    <2>1. CASE limit
      BY <2>1 DEF DataInv, BytesInv
    <2>2. CASE ~limit /\ limit'
      <3>1. total + w[r + 1] > MaxBytes
        BY <1>1, <1>4, <1>5, <2>2
      <3>2. /\ Sum2("stdout") <= Bytes(written["stdout"]) /\ Sum2("stderr") <= Bytes(written["stderr"])
            /\ {Sum2("stdout"), Sum2("stderr"), Bytes(written["stdout"]), Bytes(written["stderr"])} \subseteq Nat
        BY <1>18, Constants
      <3> QED BY <1>3, <1>19, <2>2, <3>1, <3>2 DEF BytesWritten
    <2> QED BY <1>3, <2>1, <2>2
  <1>22. BytesInv'
    <2>1. BytesWritten' = BytesWritten
      BY <1>1 DEF BytesWritten, Bytes
    <2>2. written' = written
      BY <1>1
    <2> QED BY <1>10, <1>15, <1>20, <1>21, <2>1, <2>2 DEF BytesInv, Sum2
  <1> QED BY <1>11, <1>17, <1>22 DEF DataInv

-----------------------------------------------------------------------------
(* The end mark *)

\* The steps that neither read nor end a stream.
LEMMA MarkQuiet ==
    ASSUME MarkInv, UNCHANGED <<queue, pump, pipe, limit, timedOut>>,
           \A s \in Streams : holders[s] = {} => holders'[s] = {},
           pc' = "reap" => pc = "reap" \/ timedOut,
           verdict' \in Whole => verdict \in Whole
    PROVE  MarkInv'
  BY DEF MarkInv

\* No end mark is in the queue while a pump goes on.
LEMMA NoMarkYet ==
    ASSUME MarkInv, NEW s \in Streams, pump[s] # "done"
    PROVE  /\ \A i \in 1..Len(queue) : queue[i] # EndMark
           /\ verdict \notin Whole /\ (pc = "reap" => timedOut)
  BY DEF MarkInv

\* Pumps that start are not done.
LEMMA SpawnMark == ASSUME ControlInv, MarkInv, Spawn \/ Drain PROVE MarkInv'
  <1>1. \A s \in Streams : pump[s] = "idle" /\ pump'[s] # "done"
    BY DEF ControlInv, KillInv, GeneratorType, Before, Spawn, Drain
  <1>2. UNCHANGED <<queue, limit, timedOut, verdict>> /\ pc' # "reap"
    BY DEF Spawn, Drain, history
  <1>3. \A i \in 1..Len(queue) : queue[i] # EndMark
    BY <1>1, Constants, NoMarkYet
  <1>4. verdict \notin Whole
    BY <1>1, Constants, NoMarkYet
  <1> QED BY <1>1, <1>2, <1>3, <1>4 DEF MarkInv

\* A chunk delivered leaves the end mark last in the queue.
LEMMA DeliverMark == ASSUME DataInv, MarkInv, ControlInv, Deliver PROVE MarkInv'
  <1>1. /\ queue # << >> /\ Head(queue) # EndMark /\ queue' = Tail(queue)
        /\ UNCHANGED <<pc, verdict, pump, pipe, limit, timedOut, holders>> /\ pc = "loop"
    BY DEF Deliver, generator, pumping, processes
  <1>2. queue \in Seq(Items)
    BY DEF DataInv, DataType
  <1>3. /\ Len(queue) \in Nat /\ Len(queue') = Len(queue) - 1
        /\ \A i \in 1..Len(queue') : queue'[i] = queue[i + 1] /\ i + 1 \in 1..Len(queue)
    BY <1>1, <1>2
  <1>4. ASSUME NEW i \in 1..Len(queue'), queue'[i] = EndMark
        PROVE  i = Len(queue') /\ \A s \in Streams : pump[s] = "done"
    <2>1. i + 1 = Len(queue) /\ \A s \in Streams : pump[s] = "done"
      BY <1>3, <1>4 DEF MarkInv
    <2> QED BY <1>3, <2>1
  <1>5. verdict \notin Whole
    BY <1>1 DEF ControlInv, EndInv, Ending, Whole
  <1> QED BY <1>1, <1>4, <1>5 DEF MarkInv

\* The generator that takes the end mark leaves an empty queue and two finished pumps.
LEMMA EndMarkTaken == ASSUME DataInv, MarkInv, ControlInv, OutputEnds PROVE MarkInv'
  <1>1. queue' = << >>
    BY EndData
  <1>2. /\ UNCHANGED <<verdict, pump, pipe, limit, timedOut, holders>>
        /\ pc = "loop" /\ queue # << >> /\ Head(queue) = EndMark
    BY DEF OutputEnds, pumping, processes
  <1>3. 1 \in 1..Len(queue) /\ queue[1] = EndMark
    <2>1. queue \in Seq(Items)
      BY DEF DataInv, DataType
    <2> QED BY <1>2, <2>1
  <1>4. \A s \in Streams : pump[s] = "done"
    BY <1>3 DEF MarkInv
  <1>5. verdict \notin Whole
    BY <1>2 DEF ControlInv, EndInv, Ending, Whole
  <1>6. \A i \in 1..Len(queue') : queue'[i] # EndMark
    BY <1>1
  <1> QED BY <1>1, <1>2, <1>4, <1>5, <1>6 DEF MarkInv

\* The report of a whole run follows the end mark, not a deadline.
LEMMA ReportMark == ASSUME MarkInv, ControlInv, Report PROVE MarkInv'
  <1>1. /\ pc = "reap" /\ pc' = "cleanup" /\ verdict' = Status
        /\ \A s \in Streams : pump'[s] = "done"
        /\ UNCHANGED <<queue, pipe, limit, timedOut, holders>>
    BY DEF Report, Complete, processes
  <1>2. Status \in Whole => ~timedOut /\ ~limit
    BY DEF Status, Whole
  <1>3. ~timedOut => queue = << >> /\ \A s \in Streams : pump[s] = "done"
    BY <1>1 DEF MarkInv
  <1> QED BY <1>1, <1>2, <1>3 DEF MarkInv

\* Behind chunks alone a mark is the last item.
LEMMA MarkLast ==
    ASSUME NEW q \in Seq(Items), NEW chunk \in {<< >>} \cup {<<c>> : c \in Chunks},
           NEW mark \in {<< >>, <<EndMark>>}, \A i \in 1..Len(q) : q[i] # EndMark
    PROVE  LET ds == q \o chunk \o mark
           IN  \A i \in 1..Len(ds) : ds[i] = EndMark => i = Len(ds) /\ mark = <<EndMark>>
  <1> DEFINE r == q \o chunk
  <1>0. EndMark \in Items /\ Chunks \subseteq Items
    BY DEF Items
  <1>1. r \in Seq(Items) /\ \A i \in 1..Len(r) : r[i] # EndMark
    <2>1. CASE chunk = << >>
      BY <2>1
    <2>2. ASSUME NEW a \in Chunks, chunk = <<a>>
          PROVE  r \in Seq(Items) /\ \A i \in 1..Len(r) : r[i] # EndMark
      <3>1. a \in Items /\ a # EndMark
        BY <1>0, Constants
      <3>2. r = Append(q, a)
        <4>1. q \o <<a>> = Append(q, a)
          BY <3>1
        <4> QED BY <2>2, <4>1
      <3> HIDE DEF r
      <3>3. Len(Append(q, a)) = Len(q) + 1 /\ Append(q, a) \in Seq(Items) /\ Append(q, a)[Len(q) + 1] = a
            /\ \A i \in 1..Len(q) : Append(q, a)[i] = q[i]
        BY <3>1
      <3>4. ASSUME NEW i \in 1..(Len(q) + 1) PROVE Append(q, a)[i] # EndMark
        <4>1. i = Len(q) + 1 \/ i \in 1..Len(q)
          OBVIOUS
        <4> QED BY <3>1, <3>3, <4>1
      <3> QED BY <3>2, <3>3, <3>4
    <2> QED BY <2>1, <2>2
  <1> HIDE DEF r
  <1>2. CASE mark = << >>
    <2>1. r \o mark = r
      BY <1>1, <1>2
    <2> QED BY <1>1, <2>1 DEF r
  <1>3. CASE mark = <<EndMark>>
    <2>1. /\ Len(r \o mark) = Len(r) + 1 /\ Len(r) \in Nat
          /\ \A i \in 1..Len(r) : (r \o mark)[i] = r[i]
      BY <1>0, <1>1, <1>3
    <2>2. ASSUME NEW i \in 1..Len(r \o mark), (r \o mark)[i] = EndMark PROVE i = Len(r \o mark)
      <3>1. i = Len(r) + 1 \/ i \in 1..Len(r)
        BY <2>1
      <3> QED BY <1>1, <2>1, <2>2, <3>1
    <2> QED BY <1>3, <2>2 DEF r
  <1> QED BY <1>2, <1>3

\* Only the second pump to finish queues the mark, behind all chunks of both.
LEMMA PumpMark == ASSUME DataInv, MarkInv, ControlInv, NEW s \in Streams, Pump(s) PROVE MarkInv'
  <1>0. /\ pump[s] = "reading" /\ UNCHANGED <<pc, timedOut, verdict>>
        /\ pump \in [Streams -> Modes] /\ program # "absent" /\ ProcessType
    BY DEF Pump, Read, EndOfFile, generator, ControlInv, GeneratorType, KillInv
  <1>1. /\ \A i \in 1..Len(queue) : queue[i] # EndMark
        /\ verdict \notin Whole /\ (pc = "reap" => timedOut)
    BY <1>0, NoMarkYet
  <1>2. queue \in Seq(Items) /\ << >> \in {<< >>} \cup {<<c>> : c \in Chunks}
    BY DEF DataInv, DataType
  <1>3. MarkIfLast(s) \in {<< >>, <<EndMark>>} /\ (MarkIfLast(s) = <<EndMark>> => \A t \in Streams \ {s} : pump[t] = "done")
    <2>1. <<EndMark>> # << >>
      OBVIOUS
    <2> QED BY <2>1 DEF MarkIfLast
  <1>4. CASE EndOfFile(s)
    <2>1. /\ pump' = [pump EXCEPT ![s] = "done"] /\ queue' = queue \o MarkIfLast(s)
          /\ UNCHANGED <<pipe, limit, holders>> /\ pipe[s] = << >> /\ holders[s] = {}
      BY <1>4 DEF EndOfFile, processes
    <2>2. queue \o << >> \o MarkIfLast(s) = queue \o MarkIfLast(s)
      BY <1>2
    <2>3. \A i \in 1..Len(queue') : queue'[i] = EndMark => i = Len(queue') /\ MarkIfLast(s) = <<EndMark>>
      <3>1. LET ds == queue \o << >> \o MarkIfLast(s)
            IN  \A i \in 1..Len(ds) : ds[i] = EndMark => i = Len(ds) /\ MarkIfLast(s) = <<EndMark>>
        BY <1>1, <1>2, <1>3, MarkLast
      <3> QED BY <2>1, <2>2, <3>1
    <2>4. pump'[s] = "done" /\ \A t \in Streams \ {s} : pump'[t] = pump[t]
      BY <1>0, <2>1
    <2> QED BY <1>0, <1>1, <1>3, <2>1, <2>3, <2>4 DEF MarkInv
  <1>5. CASE Read(s)
    <2> DEFINE cc == Capped(Head(pipe[s]))
               chunk == IF limit THEN << >> ELSE <<cc>>
    <2>1. pipe' = [pipe EXCEPT ![s] = Tail(@)] /\ pipe[s] # << >> /\ pipe \in [Streams -> Seq(Chunks)]
      BY <1>5 DEF Read, DataInv, DataType
    <2>2. cc \in Chunks
      <3>1. Head(pipe[s]) = [src |-> s, n |-> Taken(s) + 1, size |-> written[s][Taken(s) + 1]]
            /\ Taken(s) + 1 \in 1..Len(written[s]) /\ Head(pipe[s]) \in Chunks
        BY <2>1, HeadOfPipe
      <3>2. Head(pipe[s]).size \in Nat \ {0}
        BY <3>1, TakenType DEF DataInv
      <3> QED BY <3>1, <3>2, CapFacts
    <2>3. chunk \in Seq(Items) /\ chunk \in {<< >>} \cup {<<d>> : d \in Chunks}
      <3>1. cc \in Items
        BY <2>2 DEF Items
      <3> HIDE DEF cc
      <3>2. << >> \in Seq(Items) /\ <<cc>> \in Seq(Items)
        BY <3>1
      <3> QED BY <2>2, <3>2
    <2>4. CASE limit'
      <3>1. /\ pump' = [pump EXCEPT ![s] = "done"] /\ queue' = queue \o chunk \o MarkIfLast(s)
        BY <1>5, <2>4 DEF Read
      <3>2. \A i \in 1..Len(queue') : queue'[i] = EndMark => i = Len(queue') /\ MarkIfLast(s) = <<EndMark>>
        <4> HIDE DEF chunk
        <4> QED BY <1>1, <1>2, <1>3, <2>3, <3>1, MarkLast
      <3>3. pump'[s] = "done" /\ \A t \in Streams \ {s} : pump'[t] = pump[t]
        BY <1>0, <3>1
      <3> QED BY <1>0, <1>1, <1>3, <2>4, <3>2, <3>3 DEF MarkInv
    <2>5. CASE ~limit'
      <3>1. /\ UNCHANGED <<pump, holders>> /\ queue' = queue \o chunk /\ (limit => limit')
        BY <1>5, <2>5 DEF Read
      <3>2. \A i \in 1..Len(queue') : queue'[i] # EndMark
        <4>1. queue \o chunk \o << >> = queue \o chunk /\ << >> # <<EndMark>>
          BY <1>2, <2>3 DEF Items
        <4>2. LET ds == queue \o chunk \o << >>
              IN  \A i \in 1..Len(ds) : ds[i] = EndMark => i = Len(ds) /\ << >> = <<EndMark>>
          <5> HIDE DEF chunk
          <5> QED BY <1>1, <1>2, <2>3, MarkLast
        <4> QED BY <3>1, <4>1, <4>2
      <3>3. \A t \in Streams : pump[t] = "done" => pipe'[t] = pipe[t]
        BY <1>0, <2>1
      <3> QED BY <1>0, <1>1, <2>5, <3>1, <3>2, <3>3 DEF MarkInv
    <2> QED BY <2>4, <2>5
  <1> QED BY <1>4, <1>5 DEF Pump

\* Nothing is written to a stream whose end was seen.
LEMMA WriteMark == ASSUME MarkInv, DataInv, NEW s \in Streams, Write(s) PROVE MarkInv'
  <1>1. /\ holders[s] # {} /\ UNCHANGED <<pc, timedOut, verdict, queue, pump, limit, holders>>
        /\ \A t \in Streams \ {s} : pipe'[t] = pipe[t]
    BY DEF Write, generator, pumping, processes, DataInv, DataType
  <1> QED BY <1>1 DEF MarkInv

\* Every step keeps the end mark last.
LEMMA NextMark == ASSUME DataInv, MarkInv, ControlInv, [Next]_vars PROVE MarkInv'
  <1>1. CASE Begin \/ CompileSucceeds \/ CompileFails \/ SpawnFails \/ DrainFails \/ Cleanup
    BY <1>1, MarkQuiet DEF Begin, CompileSucceeds, CompileFails, SpawnFails, DrainFails, Cleanup,
                           Yield, processes, pumping
  <1>2. CASE CompileError \/ Fatal
    BY <1>2, MarkQuiet DEF CompileError, Fatal, Complete, Whole, processes, pumping
  <1>3. CASE AnnounceTimeout
    <2>1. timedOut
      BY <1>3 DEF AnnounceTimeout, ControlInv, KillInv
    <2> QED BY <1>3, <2>1, MarkQuiet DEF AnnounceTimeout, processes, pumping
  <1>4. CASE DeadlinePasses
    <2>1. /\ timedOut' = TRUE /\ pc' = "kill" /\ pc = "loop" /\ UNCHANGED <<verdict, queue, pump>>
      BY <1>4 DEF DeadlinePasses, pumping
    <2>2. verdict \notin Whole
      BY <2>1 DEF ControlInv, EndInv, Ending, Whole
    <2> QED BY <2>1, <2>2 DEF MarkInv
  <1>5. CASE Resumed
    BY <1>1, <1>2, <1>3, <1>4, <1>5, SpawnMark, DeliverMark, EndMarkTaken, ReportMark DEF Resumed
  <1>6. CASE Published \/ PublishFails \/ TimePasses \/ Collect \/ WriteStdin \/ TakeStdin
    BY <1>6, MarkQuiet DEF Published, PublishFails, TimePasses, Collect, WriteStdin, TakeStdin,
                           generator, processes, pumping
  <1>7. CASE SendSignal \/ \E p \in {"program", "child"} : Exit(p) \/ \E e \in Ends : Close(p, e)
    <2>1. UNCHANGED <<queue, pump, pipe, limit, timedOut, pc, verdict>>
      BY <1>7 DEF SendSignal, Exit, Close, generator, pumping
    <2>2. \A s \in Streams : holders'[s] \subseteq holders[s]
      BY <1>7, Constants DEF SendSignal, Exit, Close, ControlInv, ProcessType
    <2> QED BY <2>1, <2>2, MarkQuiet
  <1>8. CASE Fork \/ Detach
    <2>1. UNCHANGED <<queue, pump, pipe, limit, timedOut, pc, verdict>>
      BY <1>8 DEF Fork, Detach, generator, pumping
    <2>2. \A s \in Streams : holders[s] = {} => holders'[s] = {}
      BY <1>8, Constants DEF Fork, Detach, ControlInv, ProcessType
    <2> QED BY <2>1, <2>2, MarkQuiet
  <1>9. CASE UNCHANGED vars
    BY <1>9, MarkQuiet DEF vars, generator, processes, pumping
  <1> QED BY <1>5, <1>6, <1>7, <1>8, <1>9, PumpMark, WriteMark DEF Next, Code

-----------------------------------------------------------------------------
(* The invariant holds *)

\* No mark is queued at first.
LEMMA InitMark == Init => MarkInv
  <1> SUFFICES ASSUME Init PROVE MarkInv
    OBVIOUS
  <1>1. queue = << >> /\ Len(<< >>) = 0 /\ verdict = "none" /\ pc = "begin"
        /\ \A s \in Streams : pump[s] = "idle"
    BY DEF Init
  <1> QED BY <1>1 DEF MarkInv, Whole

\* Only Deliver and OutputEnds, the pumps and the program's writes move chunks.
LEMMA NextData == ASSUME DataInv, MarkInv, [Next]_vars PROVE DataInv'
  <1>1. CASE Begin \/ CompileSucceeds \/ CompileFails \/ SpawnFails \/ DrainFails \/ Cleanup
    BY <1>1, DataQuiet DEF Begin, CompileSucceeds, CompileFails, SpawnFails, DrainFails, Cleanup, pumping, history
  <1>2. CASE CompileError \/ Fatal \/ AnnounceTimeout \/ Report \/ Spawn \/ Drain \/ DeadlinePasses
    BY <1>2, DataQuiet DEF CompileError, Fatal, AnnounceTimeout, Report, Spawn, Drain, DeadlinePasses,
                           pumping, history
  <1>3. CASE Resumed
    BY <1>1, <1>2, <1>3, DeliverData, EndData DEF Resumed
  <1>4. CASE Published \/ PublishFails \/ TimePasses \/ Collect \/ WriteStdin \/ SendSignal \/ UNCHANGED vars
    BY <1>4, DataQuiet DEF Published, PublishFails, TimePasses, Collect, WriteStdin, SendSignal, vars,
                           pumping, history
  <1>5. CASE Code
    <2>1. CASE TakeStdin \/ Fork \/ Detach
      BY <2>1, DataQuiet DEF TakeStdin, Fork, Detach, pumping, history
    <2>2. CASE \E p \in {"program", "child"} : Exit(p) \/ \E e \in Ends : Close(p, e)
      BY <2>2, DataQuiet DEF Exit, Close, pumping, history
    <2> QED BY <1>5, <2>1, <2>2, WriteData DEF Code
  <1>6. ASSUME NEW s \in Streams, Pump(s) PROVE DataInv'
    BY <1>6, ReadData, EndOfFileData DEF Pump
  <1> QED BY <1>3, <1>4, <1>5, <1>6 DEF Next

\* The invariant behind every property of this module: control, types, the end
\* mark, the flow of the chunks and the bytes.
THEOREM Inductive == Spec => []SandboxInv
  <1>1. Init => SandboxInv
    BY InitControl, InitData, InitMark DEF SandboxInv, DataInv
  <1>2. SandboxInv /\ [Next]_vars => SandboxInv'
    BY NextControl, NextData, NextMark DEF SandboxInv, DataInv
  <1> QED BY <1>1, <1>2, PTL DEF Spec

-----------------------------------------------------------------------------
(* What the sandbox hands on *)

\* The invariant says what the cap leaves of the output.
LEMMA InvCapped == ASSUME SandboxInv PROVE OutputIsCappedPrefix
  <1> DEFINE all == output \o queue
             n == Len(output)
  <1>1. output \in Seq(Items) /\ queue \in Seq(Items) /\ output \in Seq(Chunks)
    BY AllTyped DEF SandboxInv, DataType
  <1>2. SizeOf(output) <= MaxBytes
    <2>1. SizeOf(output) <= SizeOf(all) /\ SizeOf(all) = total /\ total <= MaxBytes
      BY <1>1, BytesPrefix DEF SandboxInv, BytesInv, All
    <2>2. SizeOf(output) \in Nat
      BY <1>1, BytesAppend, Constants DEF Items
    <2> QED BY <2>1, <2>2, SandboxAssumption DEF SandboxInv, DataType
  <1>3. /\ n \in Nat /\ DOMAIN output = 1..n /\ Len(all) \in Nat /\ n <= Len(all)
        /\ \A i \in 1..n : all[i] = output[i]
    BY <1>1
  <1>4. \A i \in 1..n : output[i] \in Chunks
    BY <1>1, SeqElements
  <1>5. HandedOn(all, written, limit)
    BY DEF SandboxInv, FlowInv, All
  <1> HIDE DEF all, n
  <1>6. ASSUME NEW i \in 1..n
        PROVE  /\ output[i].n = Nth(output, i, output[i].src)
               /\ \/ output[i].size = written[output[i].src][output[i].n]
                  \/ limit /\ output[i].size < written[output[i].src][output[i].n] /\ i = n
    <2>1. i \in 1..Len(all) /\ i \in Nat /\ all[i] = output[i] /\ all[i] # EndMark
      BY <1>3, <1>4, Constants
    <2>2. /\ all[i].n = Nth(all, i, all[i].src)
          /\ \/ all[i].size = written[all[i].src][all[i].n]
             \/ /\ limit /\ all[i].size < written[all[i].src][all[i].n]
                /\ \A j \in (i + 1)..Len(all) : all[j] = EndMark
      BY <1>5, <2>1 DEF HandedOn
    <2>3. Nth(all, i, output[i].src) = Nth(output, i, output[i].src)
      <3>1. \A j \in 1..i : all[j] = output[j]
        BY <1>3
      <3> QED BY <2>1, <3>1, NthSame
    <2>4. (\A j \in (i + 1)..Len(all) : all[j] = EndMark) => i = n
      <3> SUFFICES ASSUME \A j \in (i + 1)..Len(all) : all[j] = EndMark, i # n PROVE FALSE
        OBVIOUS
      <3>1. i + 1 \in 1..n /\ i + 1 \in (i + 1)..Len(all)
        BY <1>3
      <3> QED BY <1>3, <1>4, <3>1, Constants
    <2> QED BY <2>1, <2>2, <2>3, <2>4
  <1> QED BY <1>2, <1>3, <1>6 DEF OutputIsCappedPrefix, n

\* The two pumps share one cap: what is handed on is at most max_output_bytes of
\* the output, each stream in order, without gaps, whole but for the last chunk.
THEOREM CappedPrefix == Spec => []OutputIsCappedPrefix
  BY Inductive, InvCapped, PTL

\* Both pumps at their end of file: every chunk written was taken.
LEMMA AllTaken ==
    ASSUME SandboxInv, ~limit, ~timedOut, NEW s \in Streams, pump[s] = "done"
    PROVE  Taken(s) = Len(written[s]) /\ holders[s] = {}
  <1>1. pipe[s] = << >> /\ holders[s] = {}
    BY DEF SandboxInv, MarkInv
  <1>2. Len(written[s]) \in Nat
    BY TakenType DEF SandboxInv
  <1> QED BY <1>1, <1>2 DEF Taken

\* The invariant says that a whole run delivered all chunks written.
LEMMA InvNothingLost == ASSUME SandboxInv PROVE NothingLost
  <1> SUFFICES ASSUME verdict \in Whole, NEW s \in Streams
               PROVE  Nth(output, Len(output), s) = Len(written[s])
    BY DEF NothingLost, Whole
  <1>1. queue = << >> /\ pump[s] = "done" /\ ~limit /\ ~timedOut
    BY DEF SandboxInv, MarkInv
  <1>2. All = output
    <2>1. output \in Seq(Items)
      BY AllTyped DEF SandboxInv
    <2> QED BY <1>1, <2>1 DEF All
  <1>3. Nth(All, Len(All), s) = Taken(s)
    BY <1>1 DEF SandboxInv, FlowInv
  <1> QED BY <1>1, <1>2, <1>3, AllTaken

\* A run reported as COMPLETED or RUNTIME_ERROR delivered all that was written:
\* the end mark of the second pump overtakes no chunk of either.
THEOREM WholeOutput == Spec => []NothingLost
  BY Inductive, InvNothingLost, PTL

-----------------------------------------------------------------------------
(* What the sandbox reports, and leaves behind *)

\* The invariant explains what a closed run left behind.
LEMMA InvResidue == ASSUME SandboxInv PROVE ResidueExplained
  <1> SUFFICES ASSUME pc = "closed"
               PROVE  /\ compiler = "running" => verdict = "COMPILE_ERROR" \/ consumer = "gone"
                      /\ Alive("program") =>
                            \/ consumer = "gone"
                            \/ verdict = "RUNTIME_ERROR" /\ \A s \in Streams : holders[s] = {}
                            \/ verdict = "SYSTEM_ERROR" /\ holders["stdin"] = {}
                      /\ Alive("child") /\ ~Alive("program") => code # Killed \/ child = "detached"
    BY DEF ResidueExplained
  <1>1. compiler = "running" => verdict = "COMPILE_ERROR" \/ consumer = "gone"
    BY DEF SandboxInv, ControlInv, EndInv
  <1>2. Alive("program") => consumer = "gone" \/ verdict \in {"RUNTIME_ERROR", "SYSTEM_ERROR"}
    BY DEF Alive, SandboxInv, ControlInv, EndInv, Ending
  <1>3. ASSUME verdict = "RUNTIME_ERROR", NEW s \in Streams PROVE holders[s] = {}
    <2>1. ~limit /\ ~timedOut /\ pump[s] = "done"
      BY <1>3 DEF SandboxInv, MarkInv, Whole
    <2> QED BY <2>1, AllTaken
  <1>4. Alive("child") => code # Killed \/ child = "detached"
    BY DEF Alive, SandboxInv, ControlInv, KillInv
  <1>5. verdict = "SYSTEM_ERROR" /\ Alive("program") => holders["stdin"] = {}
    BY DEF Alive, SandboxInv, ControlInv, KillInv
  <1> QED BY <1>1, <1>2, <1>3, <1>4, <1>5

\* What a finished run can leave behind, and why: a compiler given up, a program
\* cut loose, silent or not to be fed, a child whose program was not killed or
\* that had left its group.
THEOREM Residue == Spec => []ResidueExplained
  BY Inductive, InvResidue, PTL

\* The report of a run that ended by itself: all was read, within the cap.
LEMMA ReadOut ==
    ASSUME SandboxInv, pc = "reap", ~timedOut, ~limit
    PROVE  /\ BytesWritten <= MaxBytes
           /\ \A s \in Streams : holders[s] = {}
           /\ code # Killed
  <1>1. \A s \in Streams : pump[s] = "done"
    BY DEF SandboxInv, MarkInv
  <1>2. \A s \in Streams : Taken(s) = Len(written[s]) /\ holders[s] = {}
    BY <1>1, AllTaken
  <1>3. total = BytesWritten /\ total <= MaxBytes
    BY <1>2, Constants DEF SandboxInv, BytesInv, BytesWritten, Bytes
  <1>4. code # Killed
    BY DEF SandboxInv, ControlInv, KillInv
  <1> QED BY <1>2, <1>3, <1>4

\* What Report says of the program is so.
LEMMA ReportJustified == ASSUME SandboxInv, Report PROVE Justified'
  <1>1. /\ pc = "reap" /\ program # "zombie" /\ verdict' = Status
        /\ UNCHANGED <<expired, program, code, child, holders, written>>
    BY DEF Report, Complete, processes
  <1>2. BytesWritten' = BytesWritten
    BY <1>1 DEF BytesWritten, Bytes
  <1>3. /\ program \in {"running", "reaped"} /\ code \in {Killed, 0, 1}
        /\ timedOut => expired /\ program # "running"
        /\ limit => BytesWritten > MaxBytes /\ program # "running"
    BY <1>1 DEF SandboxInv, ControlInv, ProcessType, KillInv, BytesInv
  <1>4. CASE timedOut
    BY <1>1, <1>3, <1>4 DEF Status, Justified, Alive
  <1>5. CASE limit /\ ~timedOut
    BY <1>1, <1>2, <1>3, <1>5 DEF Status, Justified, Alive
  <1>6. CASE ~limit /\ ~timedOut
    <2>1. BytesWritten <= MaxBytes /\ (\A s \in Streams : holders[s] = {}) /\ code # Killed
      BY <1>1, <1>6, ReadOut
    <2>2. CASE program = "reaped" /\ code = 0
      <3>1. verdict' = "COMPLETED"
        BY <1>1, <1>6, <2>2 DEF Status
      <3> QED BY <1>1, <1>2, <2>1, <2>2, <3>1 DEF Justified
    <2>3. CASE ~(program = "reaped" /\ code = 0)
      <3>1. verdict' = "RUNTIME_ERROR"
        BY <1>1, <1>6, <2>3 DEF Status
      <3>2. code = 1 \/ program = "running"
        BY <1>3, <2>1, <2>3
      <3> QED BY <1>1, <2>1, <3>1, <3>2 DEF Justified, Alive
    <2> QED BY <2>2, <2>3
  <1> QED BY <1>4, <1>5, <1>6

\* Only CompileError, Fatal and Report set a verdict, and each a justified one.
LEMMA StepJustified == ASSUME SandboxInv, [Next]_vars, verdict' # verdict PROVE Justified'
  <1>1. CASE Resumed
    <2>1. CASE CompileError
      <3>1. verdict' = "COMPILE_ERROR" /\ program' = "absent"
        BY <2>1 DEF CompileError, Complete, processes, SandboxInv, ControlInv, KillInv, Before
      <3> QED BY <3>1 DEF Justified
    <2>2. CASE Fatal
      <3>1. /\ verdict' = "SYSTEM_ERROR" /\ UNCHANGED <<program, holders, pump>>
            /\ program = "absent" \/ holders["stdin"] = {}
            /\ \A s \in Streams : pump[s] = "idle"
        BY <2>2 DEF Fatal, Complete, processes, pumping, SandboxInv, ControlInv, KillInv
      <3> QED BY <3>1 DEF Justified
    <2>3. CASE Report
      BY <2>3, ReportJustified
    <2>4. CompileError \/ Fatal \/ Report
      BY <1>1 DEF Resumed, Begin, CompileSucceeds, CompileFails, Spawn, SpawnFails, Drain, DrainFails,
                  Deliver, OutputEnds, DeadlinePasses, AnnounceTimeout, Cleanup, generator
    <2> QED BY <2>1, <2>2, <2>3, <2>4
  <1>2. CASE ~Resumed
    BY <1>2 DEF Next, vars, generator, Pump, Read, EndOfFile, Published, PublishFails, TimePasses, Collect,
                Code, TakeStdin, Fork, Detach, Write, Exit, Close, WriteStdin, SendSignal
  <1> QED BY <1>1, <1>2

\* What a reported status says of the program is so when it is reported.
THEOREM JustifiedVerdicts == Spec => VerdictJustified
  <1>1. SandboxInv /\ [Next]_vars => [verdict' # verdict => Justified']_vars
    BY StepJustified
  <1> QED BY <1>1, Inductive, PTL DEF Spec, VerdictJustified

-----------------------------------------------------------------------------
(* The chunk protocol *)

\* Only the generator's own steps yield, and only chunks the protocol allows.
LEMMA StepRefines ==
    ASSUME ControlInv, [Next]_vars
    PROVE  [Abs!Next]_<<Phase, count>>
  <1>1. CASE UNCHANGED <<last, count>>
    BY <1>1 DEF Phase
  <1>2. ASSUME NEW kind \in {"data", "error"}, Yield(kind), last \in {"none", "data"}
        PROVE  Abs!Next
    BY <1>2 DEF Yield, Phase, Abs!Next, Abs!Chunk
  <1>3. ASSUME Yield("complete"), pc \notin Ending PROVE Abs!Next
    <2>1. last \in {"none", "data", "error"}
      BY <1>3 DEF ControlInv, EndInv, GeneratorType
    <2> QED BY <1>3, <2>1 DEF Yield, Phase, Abs!Next, Abs!Chunk
  <1>4. CASE Begin \/ CompileSucceeds \/ CompileFails \/ SpawnFails \/ DrainFails \/ Deliver \/ AnnounceTimeout
    <2>1. last \in {"none", "data"}
      BY <1>4 DEF Begin, CompileSucceeds, CompileFails, SpawnFails, DrainFails, Deliver, AnnounceTimeout,
                  ControlInv, EndInv
    <2>2. Yield("data") \/ Yield("error")
      BY <1>4 DEF Begin, CompileSucceeds, CompileFails, SpawnFails, DrainFails, Deliver, AnnounceTimeout
    <2> QED BY <1>2, <2>1, <2>2
  <1>5. CASE CompileError \/ Fatal \/ Report
    BY <1>3, <1>5 DEF CompileError, Fatal, Report, Complete, Ending
  <1>6. CASE Resumed
    BY <1>1, <1>4, <1>5, <1>6 DEF Resumed, Spawn, Drain, OutputEnds, DeadlinePasses, Cleanup, history
  <1>7. CASE ~Resumed
    <2>1. UNCHANGED history
      BY <1>7 DEF Next, vars, Pump, Read, EndOfFile, Published, PublishFails, TimePasses, Collect,
                  Code, TakeStdin, Fork, Detach, Write, Exit, Close, WriteStdin, SendSignal
    <2> QED BY <1>1, <2>1 DEF history
  <1> QED BY <1>6, <1>7

\* The process sandbox keeps the protocol its callers rely on: at most one
\* ERROR, then one COMPLETE, then nothing.
THEOREM Refinement == Spec => ImplementsChunkProtocol
  <1>1. Init => Abs!Init
    BY DEF Init, Phase, Abs!Init
  <1>2. SandboxInv /\ [Next]_vars => [Abs!Next]_<<Phase, count>>
    BY StepRefines DEF SandboxInv
  <1> QED BY <1>1, <1>2, Inductive, PTL DEF Spec, ImplementsChunkProtocol, Abs!Spec
=============================================================================
