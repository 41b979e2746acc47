------------------------ MODULE SubmissionLifecycle ------------------------
(***************************************************************************)
(* The life of submissions from POST /submissions to a final status:       *)
(*                                                                         *)
(*   API      submit_code / create_submission: INSERT the row as PENDING   *)
(*            and commit it, then LPUSH the job; any exception answers 500 *)
(*   Redis    the list rce:submissions, pushed at the head, popped at the  *)
(*            tail                                                         *)
(*   workers  AsyncWorkerDaemon.start: BRPOP, execute, UPDATE the row; an  *)
(*            exception is logged and the loop sleeps a second             *)
(*                                                                         *)
(* The row and the queue are two stores with no transaction around them,   *)
(* and BRPOP hands the only copy of a job to one worker's memory.  Jobs    *)
(* pushed by the API carry neither "action" nor "test_cases", so the       *)
(* daemon's grading branch is never taken here.                            *)
(***************************************************************************)
EXTENDS Naturals, Sequences, FiniteSets, SequencesExt

CONSTANTS
    Submissions,  \* POST requests, each with the row and job it creates
    Workers,      \* daemon processes on one queue
    MaxFaults,    \* bound: database, Redis and process failures
    NoJob

ASSUME LifecycleAssumption ==
    /\ IsFiniteSet(Submissions)
    /\ NoJob \notin Submissions
    /\ MaxFaults \in Nat

VARIABLES
    call,      \* [Submissions -> progress or answer of the POST]
    row,       \* [Submissions -> the row's status in PostgreSQL]
    queue,     \* the Redis list, head first
    state,     \* [Workers -> where AsyncWorkerDaemon.start is]
    stopping,  \* [Workers -> ~self.running]
    job,       \* [Workers -> the submission in the worker's hands]
    result,    \* [Workers -> the status _stream_and_collect returned]
    faults,    \* failures so far (bounded)
    pushed,    \* history: jobs in the order Redis received them
    popped     \* history: jobs in the order Redis gave them out

apiVars    == <<call, row>>
workerVars == <<state, stopping, job, result>>
vars == <<apiVars, queue, workerVars, faults, pushed, popped>>

Final == {"COMPLETED", "SYSTEM_ERROR"}  \* an outcome of the run, or the default
Answers == {"202", "400", "500"}

Init ==
    /\ call = [i \in Submissions |-> "idle"]
    /\ row = [i \in Submissions |-> "absent"]
    /\ queue = << >>
    /\ state = [w \in Workers |-> "waiting"]
    /\ stopping = [w \in Workers |-> FALSE]
    /\ job = [w \in Workers |-> NoJob]
    /\ result = [w \in Workers |-> "SYSTEM_ERROR"]
    /\ faults = 0
    /\ pushed = << >>
    /\ popped = << >>

Fault == faults < MaxFaults /\ faults' = faults + 1

-----------------------------------------------------------------------------
(* The API handler *)

\* The body is checked before anything is stored: unsupported language is 400.
Receive(i) ==
    /\ call[i] = "idle"
    /\ \E supported \in BOOLEAN :
          call' = [call EXCEPT ![i] = IF supported THEN "commit" ELSE "400"]
    /\ UNCHANGED <<row, queue, workerVars, faults, pushed, popped>>

Commit(i) ==
    /\ call[i] = "commit"
    /\ call' = [call EXCEPT ![i] = "push"]
    /\ row' = [row EXCEPT ![i] = "PENDING"]
    /\ UNCHANGED <<queue, workerVars, faults, pushed, popped>>

\* commit or refresh raises; the row may or may not have been stored.
CommitFails(i) ==
    /\ call[i] = "commit"
    /\ Fault
    /\ call' = [call EXCEPT ![i] = "500"]
    /\ \E stored \in {"absent", "PENDING"} : row' = [row EXCEPT ![i] = stored]
    /\ UNCHANGED <<queue, workerVars, pushed, popped>>

\* A bug: RPUSH, at the end the workers pop from.
EnqueueAtTail(i) ==
    /\ queue' = Append(queue, i)
    /\ pushed' = Append(pushed, i)

Enqueue(i) ==
    /\ queue' = <<i>> \o queue
    /\ pushed' = Append(pushed, i)

Push(i) ==
    /\ call[i] = "push"
    /\ call' = [call EXCEPT ![i] = "202"]
    /\ Enqueue(i)
    /\ UNCHANGED <<row, workerVars, faults, popped>>

\* LPUSH raises, before or after Redis stored the job; the row stays PENDING.
PushFails(i) ==
    /\ call[i] = "push"
    /\ Fault
    /\ call' = [call EXCEPT ![i] = "500"]
    /\ Enqueue(i) \/ UNCHANGED <<queue, pushed>>
    /\ UNCHANGED <<row, workerVars, popped>>

-----------------------------------------------------------------------------
(* A worker *)

\* A bug: the job is read and left in the list (LINDEX for BRPOP).
Peek(i) ==
    /\ queue # << >>
    /\ i = Last(queue)
    /\ UNCHANGED queue
    /\ popped' = Append(popped, i)

\* BRPOP takes the oldest job; from here the worker holds its only copy.
Dequeue(i) ==
    /\ queue # << >>
    /\ i = Last(queue)
    /\ queue' = Front(queue)
    /\ popped' = Append(popped, i)

Pop(w) ==
    /\ state[w] = "waiting"
    /\ \E i \in Submissions :
          Dequeue(i) /\ job' = [job EXCEPT ![w] = i]
    /\ state' = [state EXCEPT ![w] = "running"]
    /\ UNCHANGED <<apiVars, stopping, result, faults, pushed>>

\* The connection drops between Redis removing the job and the worker
\* reading it.
PopReplyLost(w) ==
    /\ state[w] = "waiting"
    /\ Fault
    /\ \E i \in Submissions : Dequeue(i)
    /\ state' = [state EXCEPT ![w] = "backoff"]
    /\ UNCHANGED <<apiVars, stopping, job, result, pushed>>

\* "while self.running", tested whenever the loop comes round.
LoopTop(w) == IF stopping[w] THEN "stopped" ELSE "waiting"

\* BRPOP's two-second timeout: how an idle worker notices stop().
PopTimesOut(w) ==
    /\ state[w] = "waiting"
    /\ queue = << >>
    /\ stopping[w]
    /\ state' = [state EXCEPT ![w] = LoopTop(w)]
    /\ UNCHANGED <<apiVars, queue, stopping, job, result, faults, pushed, popped>>


\* _stream_and_collect returns; SYSTEM_ERROR when sandbox or stream failed.
Execute(w) ==
    /\ state[w] = "running"
    /\ \E status \in Final : result' = [result EXCEPT ![w] = status]
    /\ state' = [state EXCEPT ![w] = "persisting"]
    /\ UNCHANGED <<apiVars, queue, stopping, job, faults, pushed, popped>>

\* It raises instead: its own except branch failed to publish the ERROR frame.
ExecuteFails(w) ==
    /\ state[w] = "running"
    /\ Fault
    /\ state' = [state EXCEPT ![w] = "backoff"]
    /\ job' = [job EXCEPT ![w] = NoJob]
    /\ UNCHANGED <<apiVars, queue, stopping, result, pushed, popped>>

\* A bug: a worker told to stop drops the result in its hands.
PersistUnlessStopping(w) ==
    /\ state[w] = "persisting"
    /\ row' = IF stopping[w] THEN row ELSE [row EXCEPT ![job[w]] = result[w]]
    /\ job' = [job EXCEPT ![w] = NoJob]
    /\ state' = [state EXCEPT ![w] = LoopTop(w)]
    /\ UNCHANGED <<call, queue, stopping, result, faults, pushed, popped>>

\* _persist_submission_result: UPDATE ... WHERE id.
Persist(w) ==
    /\ state[w] = "persisting"
    /\ row' = [row EXCEPT ![job[w]] = result[w]]
    /\ job' = [job EXCEPT ![w] = NoJob]
    /\ state' = [state EXCEPT ![w] = LoopTop(w)]
    /\ UNCHANGED <<call, queue, stopping, result, faults, pushed, popped>>

\* The UPDATE raises; the exception is logged and swallowed.
PersistFails(w) ==
    /\ state[w] = "persisting"
    /\ Fault
    /\ job' = [job EXCEPT ![w] = NoJob]
    /\ state' = [state EXCEPT ![w] = LoopTop(w)]
    /\ UNCHANGED <<apiVars, queue, stopping, result, pushed, popped>>

\* asyncio.sleep(1) of the loop's except branch.
WakeUp(w) ==
    /\ state[w] = "backoff"
    /\ state' = [state EXCEPT ![w] = LoopTop(w)]
    /\ UNCHANGED <<apiVars, queue, stopping, job, result, faults, pushed, popped>>

\* AsyncWorkerDaemon.stop.
Stop(w) ==
    /\ state[w] \notin {"stopped", "down"}
    /\ ~stopping[w]
    /\ stopping' = [stopping EXCEPT ![w] = TRUE]
    /\ UNCHANGED <<apiVars, queue, state, job, result, faults, pushed, popped>>

\* The process dies: crash, SIGTERM, or Ctrl-C, which leaves
\* run_until_complete without resuming start().
Die(w) ==
    /\ state[w] \notin {"stopped", "down"}
    /\ Fault
    /\ state' = [state EXCEPT ![w] = "down"]
    /\ job' = [job EXCEPT ![w] = NoJob]
    /\ UNCHANGED <<apiVars, queue, stopping, result, pushed, popped>>

\* Somebody starts the daemon again, with empty hands; nothing in the repository
\* does.
Restart(w) ==
    /\ state[w] \in {"stopped", "down"}
    /\ state' = [state EXCEPT ![w] = "waiting"]
    /\ stopping' = [stopping EXCEPT ![w] = FALSE]
    /\ UNCHANGED <<apiVars, queue, job, result, faults, pushed, popped>>

-----------------------------------------------------------------------------
Api(i) == Commit(i) \/ Push(i)

Loop(w) == \/ Pop(w)
           \/ PopTimesOut(w)
           \/ Execute(w)
           \/ Persist(w)
           \/ WakeUp(w)

Next ==
    \/ \E i \in Submissions : Receive(i) \/ Api(i) \/ CommitFails(i) \/ PushFails(i)
    \/ \E w \in Workers : \/ Loop(w) \/ Stop(w) \/ Restart(w)
                          \/ PopReplyLost(w) \/ ExecuteFails(w)
                          \/ PersistFails(w) \/ Die(w)

Spec == Init /\ [][Next]_vars

\* A handler that was entered is run to its answer, the loop of a worker that is
\* up keeps turning, and executions end: the sandbox's promise, with the
\* exceptions EveryRunEnds of ProcessSandbox and DockerSandbox names.  That a
\* daemon that exited is started again is not assumed.
Fairness == /\ \A i \in Submissions : WF_vars(Api(i))
            /\ \A w \in Workers : WF_vars(Loop(w))

FairSpec == Spec /\ Fairness

-----------------------------------------------------------------------------
(* Properties *)

TypeOK ==
    /\ call \in [Submissions -> {"idle", "commit", "push"} \cup Answers]
    /\ row \in [Submissions -> {"absent", "PENDING"} \cup Final]
    /\ queue \in Seq(Submissions)
    /\ state \in [Workers -> {"waiting", "backoff", "running", "persisting",
                              "stopped", "down"}]
    /\ stopping \in [Workers -> BOOLEAN]
    /\ job \in [Workers -> Submissions \cup {NoJob}]
    /\ result \in [Workers -> Final]
    /\ faults \in Nat
    /\ pushed \in Seq(Submissions)
    /\ popped \in Seq(Submissions)

InQueue(i)  == Contains(queue, i)
Held(i)     == \E w \in Workers : job[w] = i
Finished(i) == row[i] \in Final

\* A submission is in one place at a time: no two workers ever run it, it is
\* not queued while it runs, and once its row is final nobody holds it again.
AtMostOnePlace ==
    /\ IsInjective(queue)
    /\ \A v, w \in Workers : job[v] = job[w] /\ job[v] # NoJob => v = w
    /\ \A i \in Submissions : /\ InQueue(i) => ~Held(i) /\ ~Finished(i)
                              /\ Held(i) => ~Finished(i)

\* LPUSH at one end and BRPOP at the other: jobs leave in arrival order,
\* whichever workers take them.
FirstInFirstOut == pushed = popped \o Reverse(queue)

\* Each failure costs at most one accepted submission, and stop() none: a job
\* answered with 202 that is neither queued, held nor finished was lost to a
\* failure of its own.
Lost == {i \in Submissions :
            call[i] = "202" /\ ~InQueue(i) /\ ~Held(i) /\ ~Finished(i)}

LossesNeedFaults == Cardinality(Lost) <= faults

\* A final status is never overwritten.
FinalIsFinal ==
    [][\A i \in Submissions : Finished(i) => row'[i] = row[i]]_vars

Up(w) == state[w] \notin {"stopped", "down"}


-----------------------------------------------------------------------------
(* Why they hold: the strengthening that is inductive *)

Gone(i) == Contains(popped, i)

\* A job exists only once its POST has come to the end of create_submission.
AnsweredFirst ==
    \A i \in Submissions :
        InQueue(i) \/ Held(i) \/ Finished(i) \/ Gone(i) => call[i] \in {"202", "500"}

\* A worker holds a job exactly while it runs or persists it.
HandsInv ==
    \A w \in Workers : job[w] # NoJob <=> state[w] \in {"running", "persisting"}

\* Jobs reach workers through the queue alone.
HeldWasPopped == \A i \in Submissions : Held(i) => Gone(i)

LifecycleInv ==
    /\ TypeOK
    /\ AnsweredFirst
    /\ HandsInv
    /\ HeldWasPopped
    /\ AtMostOnePlace
    /\ FirstInFirstOut
    /\ LossesNeedFaults

-----------------------------------------------------------------------------
(* The abstract specification *)

Stage(i) == IF Finished(i) THEN "done"
            ELSE IF Held(i) THEN "taken"
            ELSE IF InQueue(i) THEN "queued"
            ELSE IF Gone(i) THEN "gone"
            ELSE "new"

Abs == INSTANCE AtMostOnceJobs WITH
           Jobs  <- Submissions,
           stage <- [i \in Submissions |-> Stage(i)]

\* Two stores, a list and any number of workers amount to at-most-once jobs.
ImplementsAtMostOnce == Abs!Spec
=============================================================================
