---------------------------- MODULE BrowserStream ----------------------------
(***************************************************************************)
(* The terminal of the browser: useExecutionStream, the hook that watches  *)
(* one submission over a WebSocket, and the Run button of App.             *)
(*                                                                         *)
(* The hook keeps one current socket in a ref and a handful of other refs  *)
(* that belong to the hook and not to a socket: highestSequence,           *)
(* reconnectAttempts, isTerminated.  A socket that was replaced still has  *)
(* its onclose to run, and a reconnection timer still has to go off: both  *)
(* act on those shared refs, on behalf of a submission that may not be the *)
(* one on the screen.                                                      *)
(*                                                                         *)
(* The gateway's side of a socket is the one of StreamDelivery: SUBSCRIBE, *)
(* read the buffer, replay it, then forward what is published.  A message  *)
(* is sent and handled in one step: what is on the wire when a connection  *)
(* breaks is the same as not yet sent.                                     *)
(***************************************************************************)
EXTENDS Integers, Sequences, FiniteSets

CONSTANTS
    MaxRuns,      \* bound: submissions the user starts
    MaxAttempts,  \* maxReconnectAttempts
    MaxFrames,    \* bound: frames of one submission's log
    MaxSockets,   \* bound: WebSockets the tab opens
    MaxDrops      \* bound: connections refused or broken

ASSUME BoundsAssumption ==
    {MaxRuns, MaxAttempts, MaxFrames, MaxSockets, MaxDrops} \subseteq Nat

VARIABLES
    worker,       \* [Runs -> how far the submission's execution is]
    log,          \* [Runs -> frames published so far: Seq([seq, event])]
    stored,       \* [Runs -> how many of them are in the buffer]
    socks,        \* the WebSockets opened, in order
    timers,       \* sockets whose onclose has a reconnection pending
    socketRef,    \* socketRef.current: an index of socks, 0 for null
    submissionId, \* the submission on the screen, 0 for none
    view,         \* chunks: Seq([run, seq])
    state,        \* the hook's WebSocketState
    highest,      \* highestSequenceRef
    attempts,     \* reconnectAttemptsRef
    terminated,   \* isTerminatedRef
    token,        \* whether the tab holds an access token
    posting,      \* runs whose POST /submissions is not answered yet
    requested,    \* history: the run the user's last answered POST created
    hasty,        \* history: a run was started over one that was not put away
    drops         \* connections refused or broken so far

workerVars == <<worker, log, stored>>
screen     == <<submissionId, view, state, highest, attempts, terminated>>
user       == <<token, posting, requested, hasty>>
vars == <<workerVars, socks, timers, socketRef, screen, user, drops>>

Runs == 1..MaxRuns
Watching == state \in {"CONNECTING", "STREAMING"}   \* isStreaming

Init ==
    /\ worker = [r \in Runs |-> "new"]
    /\ log = [r \in Runs |-> << >>]
    /\ stored = [r \in Runs |-> 0]
    /\ socks = << >>
    /\ timers = {}
    /\ socketRef = 0
    /\ submissionId = 0
    /\ view = << >>
    /\ state = "DISCONNECTED"
    /\ highest = -1
    /\ attempts = 0
    /\ terminated = FALSE
    /\ token = TRUE
    /\ posting = {}
    /\ requested = 0
    /\ hasty = FALSE
    /\ drops = 0

-----------------------------------------------------------------------------
(* The worker: publish_chunk_async is PUBLISH, then RPUSH *)

Publish(r, e) ==
    /\ worker[r] \in {"running", "errored"}
    /\ stored[r] = Len(log[r])
    /\ \/ e = "data"     /\ worker[r] = "running" /\ Len(log[r]) + 1 < MaxFrames
                         /\ worker' = worker
       \/ e = "error"    /\ worker[r] = "running" /\ Len(log[r]) < MaxFrames
                         /\ worker' = [worker EXCEPT ![r] = "errored"]
       \/ e = "complete" /\ Len(log[r]) < MaxFrames
                         /\ worker' = [worker EXCEPT ![r] = "ended"]
    /\ log' = [log EXCEPT ![r] = Append(@, [seq |-> Len(log[r]), event |-> e])]
    /\ UNCHANGED <<stored, socks, timers, socketRef, screen, user, drops>>

Store(r) ==
    /\ stored[r] < Len(log[r])
    /\ stored' = [stored EXCEPT ![r] = Len(log[r])]
    /\ UNCHANGED <<worker, log, socks, timers, socketRef, screen, user, drops>>

\* A sandbox that yields ERROR and no COMPLETE.
EndAfterError(r) ==
    /\ worker[r] = "errored"
    /\ worker' = [worker EXCEPT ![r] = "ended"]
    /\ UNCHANGED <<log, stored, socks, timers, socketRef, screen, user, drops>>

-----------------------------------------------------------------------------
(* The hook *)

Opened(r) == [run |-> r, phase |-> "connecting", code |-> "none",
              replay |-> 1, upto |-> 0, live |-> 0, last |-> -1]

\* A socket that is over, its onclose still to run; its session is forgotten.
Ended(s, code) == [Opened(s.run) EXCEPT !.phase = "ended", !.code = code]

\* A bug: the ref is overwritten, and the old socket stays open.
ClosedNever(ss) == ss

\* disconnect: close the current socket, if there is one.  Its onclose will
\* still run, with the code it already had or with none.
Closed(ss) ==
    [i \in 1..Len(ss) |->
        IF i = socketRef /\ ss[i].phase \notin {"ended", "closed"}
        THEN Ended(ss[i], "own") ELSE ss[i]]

\* disconnect, then the resets, then the new socket, if there is a token.
Disconnect == Closed(socks)
ConnectToStream(r) ==
    /\ Len(socks) < MaxSockets
    /\ submissionId' = r
    /\ view' = << >>
    /\ highest' = -1
    /\ terminated' = FALSE
    /\ attempts' = 0
    /\ IF token
       THEN /\ state' = "CONNECTING"
            /\ socks' = Append(Disconnect, Opened(r))
            /\ socketRef' = Len(socks) + 1
       ELSE /\ state' = "ERROR"
            /\ socks' = Disconnect
            /\ socketRef' = 0

\* A bug: COMPLETE is shown like any chunk; only the close finishes the watch.
OnMessageShown(r, f) ==
    IF f.seq <= highest
    THEN UNCHANGED <<submissionId, view, state, highest, attempts, terminated>>
    ELSE /\ highest' = f.seq
         /\ view' = Append(view, [run |-> r, seq |-> f.seq])
         /\ UNCHANGED <<submissionId, state, attempts, terminated>>

\* onmessage: numbers at or below the highest are dropped; COMPLETE is shown
\* as a closing line and finishes the watch.
OnMessage(r, f) ==
    IF f.seq <= highest
    THEN UNCHANGED <<submissionId, view, state, highest, attempts, terminated>>
    ELSE /\ highest' = f.seq
         /\ view' = Append(view, [run |-> r, seq |-> f.seq])
         /\ terminated' = (terminated \/ f.event = "complete")
         /\ state' = IF f.event = "complete" THEN "FINISHED" ELSE state
         /\ UNCHANGED <<submissionId, attempts>>

\* A bug: the COMPLETE that was shown does not stop reconnection.
GivesUpByCode(i) == socks[i].code = "normal"

\* onclose tries no more once COMPLETE was shown, or after a normal close.
GivesUp(i) == terminated \/ socks[i].code = "normal"

OnClose(i) ==
    /\ socks[i].phase = "ended"
    /\ socks' = [socks EXCEPT ![i].phase = "closed"]
    /\ IF ~GivesUp(i) /\ attempts < MaxAttempts
       THEN /\ attempts' = attempts + 1
            /\ timers' = timers \cup {i}
            /\ UNCHANGED <<state, terminated>>
       ELSE /\ terminated' = TRUE
            /\ state' = "FINISHED"
            /\ UNCHANGED <<attempts, timers>>
    /\ UNCHANGED <<workerVars, socketRef, submissionId, view, highest, user, drops>>

\* setTimeout: the backoff is over.  The closure reconnects to ITS submission.
Backoff(i) ==
    /\ i \in timers
    /\ timers' = timers \ {i}
    /\ IF terminated
       THEN UNCHANGED <<socks, socketRef, screen>>
       ELSE ConnectToStream(socks[i].run)
    /\ UNCHANGED <<workerVars, user, drops>>

-----------------------------------------------------------------------------
(* A socket's gateway session *)

\* Accepted: onopen.
Accept(i) ==
    /\ socks[i].phase = "connecting"
    /\ socks' = [socks EXCEPT ![i].phase = "open"]
    /\ state' = "STREAMING"
    /\ attempts' = 0
    /\ UNCHANGED <<workerVars, timers, socketRef, submissionId, view, highest,
                   terminated, user, drops>>

\* A connection is refused (a close before accept is an HTTP 403, whose code
\* is 1006 and never 1008) or lost; or the gateway's own Redis connection
\* raises, and its finally block closes with 1000.
Break(i, code) ==
    /\ drops < MaxDrops
    /\ \/ code = "lost"   /\ socks[i].phase \in {"connecting", "open", "subscribed", "pumping"}
       \/ code = "normal" /\ socks[i].phase \in {"open", "subscribed", "pumping"}
    /\ drops' = drops + 1
    /\ socks' = [socks EXCEPT ![i] = Ended(@, code)]
    /\ UNCHANGED <<workerVars, timers, socketRef, screen, user>>

Subscribe(i) ==
    /\ socks[i].phase = "open"
    /\ socks' = [socks EXCEPT ![i].phase = "subscribed",
                              ![i].live = Len(log[socks[i].run]) + 1]
    /\ UNCHANGED <<workerVars, timers, socketRef, screen, user, drops>>

ReadBuffer(i) ==
    /\ socks[i].phase = "subscribed"
    /\ socks' = [socks EXCEPT ![i].phase = "pumping", ![i].upto = stored[socks[i].run]]
    /\ UNCHANGED <<workerVars, timers, socketRef, screen, user, drops>>

\* Send a frame the session has not passed yet; the browser handles it.
Forward(s, f) == IF f.seq > s.last THEN OnMessage(s.run, f) ELSE UNCHANGED screen
Passed(s, f) == IF f.seq > s.last THEN f.seq ELSE s.last

\* One turn of the catch-up loop: no frame ends it.
Replay(i) ==
    LET s == socks[i]
        f == log[s.run][s.replay]
    IN  /\ s.phase = "pumping"
        /\ s.replay <= s.upto
        /\ Forward(s, f)
        /\ socks' = [socks EXCEPT ![i].replay = @ + 1, ![i].last = Passed(s, f)]
        /\ UNCHANGED <<workerVars, timers, socketRef, user, drops>>

\* The frames that end a session, whatever their number.
Terminal(f) == f.event \in {"complete", "error"}
\* One turn of the live loop: a terminal frame closes the socket with 1000.
Live(i) ==
    LET s == socks[i]
        f == log[s.run][s.live]
    IN  /\ s.phase = "pumping"
        /\ s.replay > s.upto
        /\ s.live <= Len(log[s.run])
        /\ Forward(s, f)
        /\ socks' = [socks EXCEPT
               ![i] = IF Terminal(f) THEN Ended(s, "normal")
                      ELSE [s EXCEPT !.live = @ + 1, !.last = Passed(s, f)]]
        /\ UNCHANGED <<workerVars, timers, socketRef, user, drops>>

-----------------------------------------------------------------------------
(* The user *)

\* handleRunCode: blocked while a stream is shown, not while a POST is out.
ClickRun(r) ==
    /\ token
    /\ ~Watching
    /\ worker[r] = "new" /\ \A q \in 1..(r - 1) : worker[q] # "new"
    /\ posting' = posting \cup {r}
    /\ hasty' = (hasty \/ posting # {})
    /\ worker' = [worker EXCEPT ![r] = "running"]
    /\ UNCHANGED <<log, stored, socks, timers, socketRef, screen,
                   token, requested, drops>>

\* The POST is answered: stream.connect(submission.id).
PostAnswered(r) ==
    /\ r \in posting
    /\ posting' = posting \ {r}
    /\ requested' = r
    /\ hasty' = (hasty \/ \E i \in DOMAIN socks : socks[i].phase # "closed")
    /\ ConnectToStream(r)
    /\ UNCHANGED <<workerVars, timers, token, drops>>

\* The POST fails: an alert, and the screen stays as it is.
PostFails(r) ==
    /\ r \in posting
    /\ posting' = posting \ {r}
    /\ UNCHANGED <<workerVars, socks, timers, socketRef, screen,
                   token, requested, hasty, drops>>

Logout ==
    /\ token
    /\ token' = FALSE
    /\ UNCHANGED <<workerVars, socks, timers, socketRef, screen,
                   posting, requested, hasty, drops>>

-----------------------------------------------------------------------------
Worker(r) == \/ \E e \in {"data", "error", "complete"} : Publish(r, e)
             \/ Store(r)
             \/ EndAfterError(r)

\* Opened sockets: what their session and the event loop owe them.
Serve(i) == /\ i \in DOMAIN socks
            /\ \/ Accept(i) \/ Subscribe(i) \/ ReadBuffer(i) \/ Replay(i) \/ Live(i)
               \/ OnClose(i) \/ Backoff(i)

Next ==
    \/ \E r \in Runs : Worker(r)
    \/ \E r \in Runs : ClickRun(r) \/ PostAnswered(r) \/ PostFails(r)
    \/ Logout
    \/ \E i \in 1..MaxSockets : Serve(i)
    \/ \E i \in DOMAIN socks : \E code \in {"normal", "lost"} : Break(i, code)

Spec == Init /\ [][Next]_vars

\* Sessions and the browser's event loop keep running; nobody owes a click,
\* an answer, a fault, or the end of a program.
FairSpec == Spec /\ \A i \in 1..MaxSockets : WF_vars(Serve(i))

-----------------------------------------------------------------------------
(* Properties *)

\* Whatever sockets, timers and lost workers do, the screen holds frames of
\* the submission it names, in the order of their numbers, none of them twice.
ViewIsOneRun ==
    /\ \A k \in DOMAIN view : view[k].run = submissionId
    /\ \A j, k \in DOMAIN view : j < k => view[j].seq < view[k].seq

\* If every run was started after the one before it was put away (its socket
\* closed, no POST out), the screen shows the run the user started last: no
\* late close and no timer brings back an older one.
ShowsTheLastRun == hasty \/ submissionId = requested

\* A session that will hear of no end: the terminal frames of the log came
\* before its subscription, and its replay holds no COMPLETE the browser takes
\* (an ERROR alone, or a COMPLETE then on the wire).
Deaf(s) ==
    \A j \in DOMAIN log[s.run] :
        Terminal(log[s.run][j]) =>
            j < s.live /\ (log[s.run][j].event = "complete" => j > s.upto)

Over(r) == worker[r] = "ended" /\ stored[r] = Len(log[r])

\* When the submission on the screen has ended, the tab stops watching: it
\* gets the end, or it reconnects and then gets it, or it gives up; a tab
\* that does not is one whose session came too late to hear of the end.
WatchingEnds ==
    /\ submissionId \in Runs
    /\ Watching
    /\ Over(submissionId)
    ~> \/ ~Watching
       \/ hasty
       \/ socketRef # 0 /\ socks[socketRef].phase = "pumping" /\ Deaf(socks[socketRef])

\* What the hook says of itself: it reconnects when it was "disconnected
\* unexpectedly", not when it closed the socket itself.
ReconnectsUnexpected == \A i \in timers : socks[i].code = "lost"
=============================================================================
