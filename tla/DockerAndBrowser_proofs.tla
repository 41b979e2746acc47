------------------------ MODULE DockerAndBrowser_proofs ------------------------
(***************************************************************************)
(* The two ends of an output stream: the browser's terminal, for any       *)
(* number of runs, frames, sockets, reconnections and broken connections;  *)
(* and the container it comes from, for any deadlines, lease, cap and      *)
(* number of writes.                                                       *)
(***************************************************************************)
EXTENDS DockerSandbox, BrowserStream, SequenceTheorems, WellFoundedInduction, NaturalsInduction, TLAPS

-----------------------------------------------------------------------------
(* BrowserStream: the inductive invariant *)

Frames == [seq : Nat, event : {"data", "error", "complete"}]
Socks  == [run : Runs, code : {"none", "own", "normal", "lost"},
           phase : {"connecting", "open", "subscribed", "pumping", "ended", "closed"},
           replay : Nat, upto : Nat, live : Nat, last : Int]

Alive(s) == s.phase \notin {"ended", "closed"}

\* The logs number their frames from 0, and the buffer holds a prefix.
LogInv ==
    /\ log \in [Runs -> Seq(Frames)]
    /\ stored \in [Runs -> Nat]
    /\ \A r \in Runs : stored[r] <= Len(log[r])

\* A socket's session reads its own run's log.
SockInv(s) ==
    /\ s.replay >= 1
    /\ s.upto <= Len(log[s.run])
    /\ s.phase \in {"subscribed", "pumping"} => s.live >= 1

\* Only the current socket can deliver, and it is the submission's.
SocksInv ==
    /\ socks \in Seq(Socks)
    /\ socketRef \in 0..Len(socks)
    /\ timers \subseteq 1..Len(socks)
    /\ \A i \in 1..Len(socks) :
          /\ SockInv(socks[i])
          /\ Alive(socks[i]) => i = socketRef /\ socks[i].run = submissionId

\* The numbers shown are at most the highest one seen.
ViewInv ==
    /\ view \in Seq([run : Runs, seq : Nat])
    /\ highest \in Int
    /\ \A k \in 1..Len(view) : view[k].seq <= highest
    /\ ViewIsOneRun

BrowserInv == LogInv /\ SocksInv /\ ViewInv

\* The elements of a sequence.
LEMMA SeqElements ==
    ASSUME NEW S, NEW s \in Seq(S) PROVE \A k \in 1..Len(s) : s[k] \in S
  OBVIOUS

\* What is known of any socket that was opened.
LEMMA SockTyped ==
    ASSUME BrowserInv, NEW i \in 1..Len(socks)
    PROVE  /\ socks[i] \in Socks /\ SockInv(socks[i]) /\ socks[i].run \in Runs
           /\ Alive(socks[i]) => i = socketRef /\ socks[i].run = submissionId
           /\ log[socks[i].run] \in Seq(Frames)
  <1>1. socks \in Seq(Socks) /\ i \in 1..Len(socks)
    BY DEF BrowserInv, SocksInv
  <1>2. socks[i] \in Socks
    BY <1>1
  <1>3. socks[i].run \in Runs
    BY <1>2 DEF Socks
  <1>4. log[socks[i].run] \in Seq(Frames)
    BY <1>3 DEF BrowserInv, LogInv
  <1> QED BY <1>2, <1>3, <1>4 DEF BrowserInv, SocksInv

\* Moving on one field of a socket leaves a socket.
LEMMA SockUpdates ==
    ASSUME NEW s \in Socks, NEW n \in Nat, NEW p \in Int
    PROVE  /\ [s EXCEPT !.replay = n, !.last = p] \in Socks
           /\ [s EXCEPT !.live = n, !.last = p] \in Socks
           /\ [s EXCEPT !.phase = "subscribed", !.live = n] \in Socks
           /\ [s EXCEPT !.phase = "pumping", !.upto = n] \in Socks
  BY DEF Socks

\* No run, no socket, an empty screen.
LEMMA InitBrowser == Init => BrowserInv
  BY DEF Init, BrowserInv, LogInv, SocksInv, ViewInv, ViewIsOneRun

\* The worker lengthens a log or what is stored of it.
LEMMA WorkerStep == ASSUME BrowserInv, NEW r \in Runs, Worker(r) PROVE BrowserInv'
  <1>1. /\ UNCHANGED <<socks, timers, socketRef, screen>>
        /\ LogInv'
        /\ \A q \in Runs : Len(log'[q]) >= Len(log[q])
    <2>1. ASSUME Store(r) \/ EndAfterError(r)
          PROVE  /\ LogInv'
                 /\ \A q \in Runs : Len(log'[q]) >= Len(log[q])
      <3>1. log' = log /\ \A q \in Runs : Len(log[q]) \in Nat
        BY <2>1 DEF Store, EndAfterError, BrowserInv, LogInv
      <3>2. stored' = stored \/ stored' = [stored EXCEPT ![r] = Len(log[r])]
        BY <2>1 DEF Store, EndAfterError
      <3>3. stored' \in [Runs -> Nat] /\ \A q \in Runs : stored'[q] <= Len(log[q])
        <4>1. CASE stored' = stored
          BY <4>1 DEF BrowserInv, LogInv
        <4>2. CASE stored' = [stored EXCEPT ![r] = Len(log[r])]
          BY <3>1, <4>2 DEF BrowserInv, LogInv
        <4> QED BY <3>2, <4>1, <4>2
      <3>4. \A q \in Runs : Len(log'[q]) >= Len(log[q])
        BY <3>1
      <3> QED BY <3>1, <3>3, <3>4 DEF BrowserInv, LogInv
    <2>2. ASSUME NEW e \in {"data", "error", "complete"}, Publish(r, e)
          PROVE  /\ LogInv'
                 /\ \A q \in Runs : Len(log'[q]) >= Len(log[q])
      <3>1. [seq |-> Len(log[r]), event |-> e] \in Frames
        BY DEF Frames, BrowserInv, LogInv
      <3>2. /\ log' = [log EXCEPT ![r] = Append(log[r], [seq |-> Len(log[r]), event |-> e])]
            /\ stored' = stored
        BY <2>2 DEF Publish
      <3> QED BY <3>1, <3>2 DEF BrowserInv, LogInv
    <2>3. UNCHANGED <<socks, timers, socketRef, screen>>
      BY DEF Worker, Publish, Store, EndAfterError
    <2>4. Worker(r) => Store(r) \/ EndAfterError(r)
                         \/ \E e \in {"data", "error", "complete"} : Publish(r, e)
      BY DEF Worker
    <2>5. CASE Store(r) \/ EndAfterError(r)
      BY <2>1, <2>3, <2>5
    <2>6. CASE \E e \in {"data", "error", "complete"} : Publish(r, e)
      BY <2>2, <2>3, <2>6
    <2> QED BY <2>4, <2>5, <2>6
  <1>2. SocksInv'
    <2>1. ASSUME NEW i \in 1..Len(socks) PROVE SockInv(socks[i])'
      <3>1. socks[i] \in Socks /\ SockInv(socks[i])
        BY DEF BrowserInv, SocksInv
      <3> QED BY <1>1, <3>1 DEF SockInv, Socks, BrowserInv, LogInv
    <2> QED BY <1>1, <2>1 DEF BrowserInv, SocksInv, screen
  <1>3. ViewInv'
    BY <1>1 DEF BrowserInv, ViewInv, ViewIsOneRun, screen
  <1> QED BY <1>1, <1>2, <1>3 DEF BrowserInv

\* A step of one socket: it stays its run's, and none comes to life again.
LEMMA SockStep ==
    ASSUME BrowserInv, NEW i \in 1..Len(socks), NEW x \in Socks,
           socks' = [socks EXCEPT ![i] = x],
           x.run = socks[i].run, SockInv(x), Alive(x) => Alive(socks[i]),
           UNCHANGED <<workerVars, socketRef, submissionId>>,
           timers' \subseteq timers \cup {i}, ViewInv'
    PROVE  BrowserInv'
  <1>1. /\ socks' \in Seq(Socks) /\ Len(socks') = Len(socks)
        /\ socks'[i] = x /\ \A j \in 1..Len(socks) : j # i => socks'[j] = socks[j]
    BY DEF BrowserInv, SocksInv
  <1>2. ASSUME NEW j \in 1..Len(socks)
        PROVE  /\ SockInv(socks[j])'
               /\ Alive(socks[j])' => j = socketRef /\ socks'[j].run = submissionId
    <2>1. CASE j = i
      BY <1>1, <2>1 DEF BrowserInv, SocksInv, SockInv, Alive, workerVars
    <2>2. CASE j # i
      BY <1>1, <2>2 DEF BrowserInv, SocksInv, SockInv, Alive, workerVars
    <2> QED BY <2>1, <2>2
  <1> QED BY <1>1, <1>2 DEF BrowserInv, LogInv, SocksInv, workerVars

\* A socket that is over: an empty session of the same run.
LEMMA EndedSock ==
    ASSUME LogInv, NEW s \in Socks, NEW c \in {"own", "normal", "lost"}
    PROVE  /\ Ended(s, c) \in Socks
           /\ Ended(s, c).run = s.run
           /\ SockInv(Ended(s, c))
           /\ ~Alive(Ended(s, c))
  <1>0. Opened(s.run) \in Socks
    BY DEF Opened, Socks
  <1>1. Ended(s, c) \in Socks /\ Ended(s, c).run = s.run /\ Ended(s, c).phase = "ended"
        /\ Ended(s, c).replay = 1 /\ Ended(s, c).upto = 0
    BY <1>0 DEF Ended, Opened, Socks
  <1>2. s.run \in Runs /\ Len(log[s.run]) \in Nat
    BY DEF Socks, LogInv
  <1> QED BY <1>1, <1>2 DEF SockInv, Alive

\* Replacing the current socket: nothing else was alive.
LEMMA ConnectStep ==
    ASSUME BrowserInv, NEW r \in Runs, ConnectToStream(r),
           UNCHANGED workerVars, timers' \subseteq timers
    PROVE  BrowserInv'
  <1>1. ViewInv'
    BY DEF ConnectToStream, ViewInv, ViewIsOneRun
  <1>2. /\ Closed(socks) \in Seq(Socks) /\ Len(Closed(socks)) = Len(socks)
        /\ \A i \in 1..Len(socks) : SockInv(Closed(socks)[i]) /\ ~Alive(Closed(socks)[i])
    <2>1. ASSUME NEW i \in 1..Len(socks)
          PROVE  /\ Closed(socks)[i] \in Socks /\ SockInv(Closed(socks)[i])
                 /\ ~Alive(Closed(socks)[i])
      <3>1. socks[i] \in Socks /\ SockInv(socks[i]) /\ (Alive(socks[i]) => i = socketRef)
        BY DEF BrowserInv, SocksInv
      <3>2. CASE Alive(socks[i])
        <4>1. Closed(socks)[i] = Ended(socks[i], "own")
          BY <3>1, <3>2 DEF Closed, Alive
        <4> QED BY <3>1, <4>1, EndedSock DEF BrowserInv
      <3>3. CASE ~Alive(socks[i])
        BY <3>1, <3>3 DEF Closed, Alive
      <3> QED BY <3>2, <3>3
    <2> QED BY <2>1 DEF Closed, BrowserInv, SocksInv
  <1>3. Opened(r) \in Socks /\ SockInv(Opened(r)) /\ Opened(r).run = r
    BY DEF Opened, Socks, SockInv, BrowserInv, LogInv
  <1>4. submissionId' = r /\ UNCHANGED <<log, stored>>
    BY DEF ConnectToStream, workerVars
  <1>5. SocksInv'
    <2>1. CASE token
      <3>1. socks' = Append(Closed(socks), Opened(r)) /\ socketRef' = Len(socks) + 1
        BY <2>1 DEF ConnectToStream, Disconnect
      <3>2. /\ socks' \in Seq(Socks) /\ Len(socks') = Len(socks) + 1
            /\ socks'[Len(socks) + 1] = Opened(r)
            /\ \A i \in 1..Len(socks) : socks'[i] = Closed(socks)[i]
        BY <1>2, <1>3, <3>1
      <3> QED BY <1>2, <1>3, <1>4, <3>1, <3>2 DEF SocksInv, BrowserInv, SockInv, Alive
    <2>2. CASE ~token
      <3>1. socks' = Closed(socks) /\ socketRef' = 0
        BY <2>2 DEF ConnectToStream, Disconnect
      <3> QED BY <1>2, <1>4, <3>1 DEF SocksInv, BrowserInv, SockInv, Alive
    <2> QED BY <2>1, <2>2
  <1> QED BY <1>1, <1>4, <1>5 DEF BrowserInv, LogInv

\* A frame of the submission on the screen extends what is shown, or is dropped.
LEMMA MessageStep ==
    ASSUME ViewInv, NEW f \in Frames, NEW r \in Runs, r = submissionId, OnMessage(r, f)
    PROVE  ViewInv' /\ submissionId' = submissionId
  <1>1. CASE f.seq <= highest
    BY <1>1 DEF OnMessage, ViewInv, ViewIsOneRun
  <1>2. CASE ~(f.seq <= highest)
    <2> DEFINE c == [run |-> r, seq |-> f.seq]
    <2>1. c \in [run : Runs, seq : Nat] /\ c.run = r /\ c.seq = f.seq /\ f.seq \in Nat
      BY DEF Frames
    <2>2. view' = Append(view, c) /\ highest' = f.seq /\ submissionId' = submissionId
      BY <1>2 DEF OnMessage
    <2> HIDE DEF c
    <2>3. /\ view' \in Seq([run : Runs, seq : Nat]) /\ Len(view') = Len(view) + 1
          /\ view'[Len(view) + 1] = c
          /\ \A k \in 1..Len(view) : view'[k] = view[k]
      BY <2>1, <2>2 DEF ViewInv
    <2>0. \A k \in 1..Len(view) : view[k] \in [run : Runs, seq : Nat] /\ view[k].seq \in Nat
      <3>1. view \in Seq([run : Runs, seq : Nat])
        BY DEF ViewInv
      <3>2. \A k \in 1..Len(view) : view[k] \in [run : Runs, seq : Nat]
        BY <3>1, SeqElements
      <3> QED BY <3>2
    <2>4. \A k \in 1..Len(view) : view[k].seq \in Nat /\ view[k].seq < f.seq
      <3>1. highest \in Int /\ \A k \in 1..Len(view) : view[k].seq <= highest
        BY DEF ViewInv
      <3> QED BY <1>2, <2>0, <2>1, <3>1
    <2>7. /\ \A k \in 1..Len(view) : view[k].run = submissionId
          /\ \A j, k \in 1..Len(view) : j < k => view[j].seq < view[k].seq
          /\ Len(view) \in Nat
      BY DEF ViewInv, ViewIsOneRun
    <2>5. \A k \in 1..Len(view') : view'[k].run = submissionId /\ view'[k].seq <= f.seq
      <3> TAKE k \in 1..Len(view')
      <3>1. CASE k = Len(view) + 1
        BY <2>1, <2>2, <2>3, <3>1
      <3>2. CASE k # Len(view) + 1
        <4>1. k \in 1..Len(view)
          BY <2>3, <2>7, <3>2
        <4> QED BY <2>1, <2>2, <2>3, <2>4, <2>7, <4>1
      <3> QED BY <3>1, <3>2
    <2>6. \A j, k \in 1..Len(view') : j < k => view'[j].seq < view'[k].seq
      <3> SUFFICES ASSUME NEW j \in 1..Len(view'), NEW k \in 1..Len(view'), j < k
                   PROVE  view'[j].seq < view'[k].seq
        OBVIOUS
      <3>1. j \in 1..Len(view)
        BY <2>3, <2>7
      <3>2. CASE k = Len(view) + 1
        BY <2>1, <2>3, <2>4, <3>1, <3>2
      <3>3. CASE k # Len(view) + 1
        <4>1. k \in 1..Len(view)
          <5>1. Len(view') = Len(view) + 1 /\ Len(view) \in Nat
            BY <2>3, <2>7
          <5> QED BY <5>1, <3>3
        <4> QED BY <2>3, <2>7, <3>1, <4>1
      <3> QED BY <3>2, <3>3
    <2>8. DOMAIN view' = 1..Len(view')
      BY <2>3
    <2>9. ViewIsOneRun'
      BY <2>2, <2>5, <2>6, <2>8 DEF ViewIsOneRun
    <2>10. highest' \in Int /\ \A k \in 1..Len(view') : view'[k].seq <= highest'
      BY <2>1, <2>2, <2>5
    <2> QED BY <2>2, <2>3, <2>9, <2>10 DEF ViewInv
  <1> QED BY <1>1, <1>2

\* A session's frame reaches the screen only through the current socket.
LEMMA ForwardStep ==
    ASSUME BrowserInv, NEW i \in 1..Len(socks), Alive(socks[i]), NEW f \in Frames,
           Forward(socks[i], f)
    PROVE  ViewInv' /\ submissionId' = submissionId
  <1>1. socks[i].run = submissionId /\ socks[i].run \in Runs
    BY SockTyped
  <1> QED BY <1>1, MessageStep DEF Forward, screen, BrowserInv, ViewInv, ViewIsOneRun

\* The steps of a socket that show nothing.
LEMMA QuietSock ==
    ASSUME BrowserInv, NEW i \in 1..Len(socks),
           OnClose(i) \/ Accept(i) \/ Subscribe(i) \/ ReadBuffer(i)
             \/ \E how \in {"normal", "lost"} : Break(i, how)
    PROVE  BrowserInv'
  <1>0. socks[i] \in Socks /\ SockInv(socks[i]) /\ socks[i].run \in Runs
    BY SockTyped
  <1>1. ViewInv' /\ UNCHANGED <<workerVars, socketRef, submissionId>> /\ timers' \subseteq timers \cup {i}
    BY DEF OnClose, Accept, Subscribe, ReadBuffer, Break, screen, BrowserInv, ViewInv, ViewIsOneRun
  <1>2. CASE OnClose(i)
    <2> DEFINE x == [socks[i] EXCEPT !.phase = "closed"]
    <2>1. socks' = [socks EXCEPT ![i] = x]
      BY <1>2 DEF OnClose
    <2>2. x \in Socks /\ x.run = socks[i].run /\ SockInv(x) /\ ~Alive(x)
      BY <1>0 DEF Socks, SockInv, Alive
    <2> QED BY <1>1, <2>1, <2>2, SockStep
  <1>3. CASE Accept(i)
    <2> DEFINE x == [socks[i] EXCEPT !.phase = "open"]
    <2>1. socks' = [socks EXCEPT ![i] = x] /\ Alive(socks[i])
      BY <1>3 DEF Accept, Alive
    <2>2. x \in Socks /\ x.run = socks[i].run /\ SockInv(x)
      BY <1>0 DEF Socks, SockInv
    <2> QED BY <1>1, <2>1, <2>2, SockStep
  <1>4. CASE Subscribe(i)
    <2> DEFINE n == Len(log[socks[i].run]) + 1
               x == [socks[i] EXCEPT !.phase = "subscribed", !.live = n]
    <2>0. n \in Nat /\ n >= 1
      BY <1>0 DEF BrowserInv, LogInv
    <2>1. socks' = [socks EXCEPT ![i] = x] /\ Alive(socks[i])
      BY <1>4 DEF Subscribe, Alive
    <2> HIDE DEF n
    <2>2. x \in Socks /\ x.run = socks[i].run /\ SockInv(x)
      BY <1>0, <2>0 DEF Socks, SockInv
    <2> QED BY <1>1, <2>1, <2>2, SockStep
  <1>5. CASE ReadBuffer(i)
    <2> DEFINE x == [socks[i] EXCEPT !.phase = "pumping", !.upto = stored[socks[i].run]]
    <2>1. socks' = [socks EXCEPT ![i] = x] /\ Alive(socks[i]) /\ socks[i].phase = "subscribed"
      BY <1>5 DEF ReadBuffer, Alive
    <2>2. x \in Socks /\ x.run = socks[i].run /\ SockInv(x)
      BY <1>0, <2>1 DEF Socks, SockInv, BrowserInv, LogInv
    <2> QED BY <1>1, <2>1, <2>2, SockStep
  <1>6. ASSUME NEW how \in {"normal", "lost"}, Break(i, how) PROVE BrowserInv'
    <2>1. socks' = [socks EXCEPT ![i] = Ended(socks[i], how)]
      BY <1>6 DEF Break
    <2> QED BY <1>0, <1>1, <2>1, EndedSock, SockStep DEF BrowserInv
  <1> QED BY <1>2, <1>3, <1>4, <1>5, <1>6

\* The steps of a socket that may show a frame.
LEMMA ServingSock ==
    ASSUME BrowserInv, NEW i \in 1..Len(socks), Replay(i) \/ Live(i)
    PROVE  BrowserInv'
  <1>0. /\ socks[i] \in Socks /\ SockInv(socks[i]) /\ socks[i].run \in Runs
        /\ log[socks[i].run] \in Seq(Frames)
    BY SockTyped
  <1>1. CASE Replay(i)
    <2> DEFINE f == log[socks[i].run][socks[i].replay]
               p == Passed(socks[i], f)
               n == socks[i].replay + 1
               x == [socks[i] EXCEPT !.replay = n, !.last = p]
    <2>1. /\ socks[i].phase = "pumping" /\ socks[i].replay <= socks[i].upto
          /\ Forward(socks[i], f) /\ socks' = [socks EXCEPT ![i] = x]
          /\ UNCHANGED <<workerVars, timers, socketRef>>
      BY <1>1 DEF Replay
    <2>2. f \in Frames
      BY <1>0, <2>1 DEF SockInv, Socks
    <2>3. p \in Int
      BY <1>0, <2>2 DEF Passed, Frames, Socks
    <2>9. n \in Nat /\ n >= 1
      BY <1>0 DEF Socks
    <2> HIDE DEF f, p, n
    <2>4. x \in Socks /\ x.run = socks[i].run /\ SockInv(x) /\ Alive(socks[i])
      <3>1. x \in Socks
        BY <1>0, <2>3, <2>9, SockUpdates
      <3>2. socks[i] \in Socks
        BY <1>0
      <3> QED BY <1>0, <2>1, <2>9, <3>1, <3>2 DEF Socks, SockInv, Alive
    <2>5. ViewInv' /\ submissionId' = submissionId
      BY <2>1, <2>2, <2>4, ForwardStep
    <2> QED BY <2>1, <2>4, <2>5, SockStep
  <1>2. CASE Live(i)
    <2> DEFINE f == log[socks[i].run][socks[i].live]
               p == Passed(socks[i], f)
               n == socks[i].live + 1
               x == [socks[i] EXCEPT !.live = n, !.last = p]
    <2>1. /\ socks[i].phase = "pumping" /\ socks[i].live <= Len(log[socks[i].run])
          /\ Forward(socks[i], f)
          /\ \/ socks' = [socks EXCEPT ![i] = Ended(socks[i], "normal")]
             \/ socks' = [socks EXCEPT ![i] = x]
          /\ UNCHANGED <<workerVars, timers, socketRef>>
      BY <1>2 DEF Live
    <2>2. f \in Frames
      BY <1>0, <2>1 DEF SockInv, Socks
    <2>3. p \in Int
      BY <1>0, <2>2 DEF Passed, Frames, Socks
    <2>9. n \in Nat /\ n >= 1
      BY <1>0 DEF Socks
    <2> HIDE DEF f, p, n
    <2>4. x \in Socks /\ x.run = socks[i].run /\ SockInv(x) /\ Alive(socks[i])
      <3>1. x \in Socks
        BY <1>0, <2>3, <2>9, SockUpdates
      <3>2. socks[i] \in Socks
        BY <1>0
      <3> QED BY <1>0, <2>1, <2>9, <3>1, <3>2 DEF Socks, SockInv, Alive
    <2>5. ViewInv' /\ submissionId' = submissionId
      BY <2>1, <2>2, <2>4, ForwardStep
    <2>6. CASE socks' = [socks EXCEPT ![i] = x]
      BY <2>1, <2>4, <2>5, <2>6, SockStep
    <2>7. CASE socks' = [socks EXCEPT ![i] = Ended(socks[i], "normal")]
      BY <1>0, <2>1, <2>5, <2>7, EndedSock, SockStep DEF BrowserInv
    <2> QED BY <2>1, <2>6, <2>7
  <1> QED BY <1>1, <1>2

\* Every step keeps the invariant.
LEMMA NextBrowser == ASSUME BrowserInv, [Next]_vars PROVE BrowserInv'
  <1>1. ASSUME UNCHANGED <<workerVars, socks, timers, socketRef, screen>> PROVE BrowserInv'
    BY <1>1 DEF workerVars, screen, BrowserInv, LogInv, SocksInv, SockInv, Alive, ViewInv, ViewIsOneRun
  <1>2. ASSUME NEW r \in Runs, ClickRun(r) PROVE BrowserInv'
    <2>1. /\ UNCHANGED <<log, stored, socks, timers, socketRef, screen>>
      BY <1>2 DEF ClickRun
    <2> QED BY <2>1 DEF screen, BrowserInv, LogInv, SocksInv, SockInv, Alive, ViewInv, ViewIsOneRun
  <1>3. ASSUME NEW r \in Runs, PostAnswered(r) PROVE BrowserInv'
    BY <1>3, ConnectStep DEF PostAnswered
  <1>4. ASSUME NEW r \in Runs, PostFails(r) PROVE BrowserInv'
    BY <1>1, <1>4 DEF PostFails
  <1>5. CASE Logout \/ UNCHANGED vars
    BY <1>1, <1>5 DEF Logout, vars
  <1>6. ASSUME NEW i \in DOMAIN socks, Backoff(i) PROVE BrowserInv'
    <2>1. i \in 1..Len(socks) /\ socks[i].run \in Runs
      <3>1. i \in 1..Len(socks)
        BY <1>6 DEF BrowserInv, SocksInv
      <3> QED BY <3>1, SockTyped
    <2>2. timers' \subseteq timers /\ UNCHANGED workerVars
      BY <1>6 DEF Backoff
    <2>3. CASE terminated
      BY <1>6, <2>2, <2>3 DEF Backoff, workerVars, screen, BrowserInv, LogInv, SocksInv, SockInv,
                               Alive, ViewInv, ViewIsOneRun
    <2>4. CASE ~terminated
      BY <1>6, <2>1, <2>2, <2>4, ConnectStep DEF Backoff
    <2> QED BY <2>3, <2>4
  <1>7. ASSUME NEW i \in 1..MaxSockets, Serve(i) PROVE BrowserInv'
    <2>1. i \in DOMAIN socks /\ i \in 1..Len(socks)
      BY <1>7 DEF Serve, BrowserInv, SocksInv
    <2> QED BY <1>6, <1>7, <2>1, QuietSock, ServingSock DEF Serve
  <1>8. ASSUME NEW i \in DOMAIN socks, NEW how \in {"normal", "lost"}, Break(i, how)
        PROVE  BrowserInv'
    <2>1. i \in 1..Len(socks)
      BY DEF BrowserInv, SocksInv
    <2> QED BY <1>8, <2>1, QuietSock
  <1> QED BY <1>2, <1>3, <1>4, <1>5, <1>7, <1>8, WorkerStep DEF Next

\* Whatever sockets, timers, lost connections and answers come in whatever
\* order, the terminal shows one submission's frames, in order, none twice
\* (useExecutionStream closes the old socket before it opens another, and drops
\* numbers it has seen).
THEOREM OneRunShown == Spec => []ViewIsOneRun
  <1>1. BrowserInv => ViewIsOneRun
    BY DEF BrowserInv, ViewInv
  <1> QED BY <1>1, InitBrowser, NextBrowser, PTL DEF Spec
-----------------------------------------------------------------------------
(* The run asked for last *)

\* A socket whose end is to come, or whose reconnection is.
Busy(i) == socks[i].phase # "closed" \/ i \in timers

\* While no run was started over another, one socket or one timer at a time
\* works for the run asked for last, and the screen says that it does until it
\* is over.
ShowInv == hasty \/
    /\ submissionId = requested
    /\ \A i \in 1..Len(socks) : Busy(i) => socks[i].run = requested /\ (Watching \/ terminated)
    /\ \A i, j \in 1..Len(socks) : Busy(i) /\ Busy(j) => i = j
    /\ \A i \in timers : socks[i].phase = "closed" /\ ~terminated
    /\ \A i \in 1..Len(socks) : socks[i].phase = "connecting" => ~terminated
    /\ \A p, q \in posting : p = q
    /\ posting # {} => ~Watching

\* Steps that touch neither sockets nor screen nor the user.
LEMMA ShowQuiet ==
    ASSUME ShowInv, UNCHANGED <<socks, timers, screen, user>>
    PROVE  ShowInv'
  BY DEF ShowInv, Busy, Watching, screen, user

\* A step of the one socket that is not over.
LEMMA SockShows ==
    ASSUME BrowserInv, ShowInv, NEW i \in 1..Len(socks), socks[i].phase # "closed",
           NEW x \in Socks, socks' = [socks EXCEPT ![i] = x],
           x.run = socks[i].run, x.phase # "connecting",
           UNCHANGED <<user, submissionId>>,
           timers' = timers \/ (timers' = timers \cup {i} /\ x.phase = "closed" /\ ~terminated'),
           terminated => terminated',
           \/ (Watching' <=> Watching) /\ (terminated' <=> terminated)
           \/ terminated' /\ (Watching' => Watching)
    PROVE  ShowInv'
  <1> SUFFICES ASSUME ~hasty PROVE ShowInv'
    BY DEF ShowInv, user
  <1>1. /\ Len(socks') = Len(socks) /\ socks'[i] = x
        /\ \A j \in 1..Len(socks) : j # i => socks'[j] = socks[j]
        /\ timers \subseteq 1..Len(socks)
    BY DEF BrowserInv, SocksInv
  <1>2. /\ submissionId = requested
        /\ socks[i].run = requested /\ (Watching \/ terminated)
        /\ \A j \in 1..Len(socks) : Busy(j) => j = i
        /\ \A p, q \in posting : p = q
        /\ posting # {} => ~Watching
    BY DEF ShowInv, Busy
  <1>3. timers = {}
    <2> SUFFICES ASSUME NEW j \in timers PROVE FALSE
      OBVIOUS
    <2>1. j = i /\ socks[j].phase = "closed"
      BY <1>1, <1>2 DEF Busy, ShowInv
    <2> QED BY <2>1
  <1>4. \A j \in 1..Len(socks) : Busy(j)' => j = i
    BY <1>1, <1>2, <1>3 DEF Busy
  <1>5. Watching' \/ terminated'
    BY <1>2
  <1>6. \A j \in timers' : j = i /\ socks'[j].phase = "closed" /\ ~terminated'
    BY <1>1, <1>3
  <1>7. \A j \in 1..Len(socks) : socks'[j].phase # "connecting"
    BY <1>1, <1>2 DEF Busy
  <1>8. Watching' => Watching
    OBVIOUS
  <1>9. /\ \A j \in 1..Len(socks') : Busy(j)' => socks'[j].run = requested' /\ (Watching' \/ terminated')
        /\ \A j, k \in 1..Len(socks') : Busy(j)' /\ Busy(k)' => j = k
    BY <1>1, <1>2, <1>4, <1>5 DEF user
  <1>10. submissionId' = requested' /\ (\A p, q \in posting' : p = q) /\ (posting' # {} => ~Watching')
    BY <1>2, <1>8 DEF user
  <1> HIDE DEF Watching
  <1> QED BY <1>1, <1>6, <1>7, <1>9, <1>10 DEF ShowInv

\* A connection to the run asked for last, when all before it is over.
LEMMA ConnectShows ==
    ASSUME BrowserInv, NEW r \in Runs, ConnectToStream(r), requested' = r, timers' = {}, posting' = {},
           \A i \in 1..Len(socks) : socks[i].phase = "closed"
    PROVE  ShowInv'
  <1>1. /\ Closed(socks) \in Seq(Socks) /\ Len(Closed(socks)) = Len(socks)
        /\ \A i \in 1..Len(socks) : Closed(socks)[i] = socks[i]
    BY DEF Closed, BrowserInv, SocksInv
  <1>2. Opened(r) \in Socks /\ Opened(r).run = r
    BY DEF Opened, Socks
  <1>3. submissionId' = r /\ terminated' = FALSE
    BY DEF ConnectToStream
  <1>4. CASE token
    <2>1. socks' = Append(Closed(socks), Opened(r)) /\ state' = "CONNECTING"
      BY <1>4 DEF ConnectToStream, Disconnect
    <2>2. /\ Len(socks') = Len(socks) + 1 /\ Len(socks) \in Nat
          /\ socks'[Len(socks) + 1] = Opened(r)
          /\ \A i \in 1..Len(socks) : socks'[i].phase = "closed"
      <3>1. Len(socks) \in Nat
        BY DEF BrowserInv, SocksInv
      <3> QED BY <1>1, <1>2, <2>1, <3>1
    <2>3. \A i \in 1..Len(socks') : Busy(i)' => i = Len(socks) + 1
      BY <2>2 DEF Busy
    <2> QED BY <1>2, <1>3, <2>1, <2>2, <2>3 DEF ShowInv, Watching
  <1>5. CASE ~token
    <2>1. socks' = Closed(socks)
      BY <1>5 DEF ConnectToStream, Disconnect
    <2>2. \A i \in 1..Len(socks') : socks'[i].phase = "closed" /\ ~Busy(i)'
      BY <1>1, <2>1 DEF Busy
    <2> QED BY <1>3, <2>2 DEF ShowInv
  <1> QED BY <1>4, <1>5

\* The answer to a POST that was not hasty finds every socket over and no timer.
LEMMA AnswerShows == ASSUME BrowserInv, ShowInv, NEW r \in Runs, PostAnswered(r) PROVE ShowInv'
  <1> SUFFICES ASSUME ~hasty' PROVE ShowInv'
    BY DEF ShowInv
  <1>1. /\ r \in posting /\ posting' = posting \ {r} /\ requested' = r
        /\ ConnectToStream(r) /\ timers' = timers
        /\ ~hasty /\ \A i \in 1..Len(socks) : socks[i].phase = "closed"
    <2>1. DOMAIN socks = 1..Len(socks)
      BY DEF BrowserInv, SocksInv
    <2>2. ~hasty /\ \A i \in DOMAIN socks : socks[i].phase = "closed"
      BY DEF PostAnswered
    <2> QED BY <2>1, <2>2 DEF PostAnswered
  <1>2. posting' = {} /\ ~Watching
    BY <1>1 DEF ShowInv
  <1>3. timers' = {}
    <2> SUFFICES ASSUME NEW i \in timers PROVE FALSE
      BY <1>1
    <2>1. i \in 1..Len(socks) /\ Busy(i)
      BY DEF Busy, BrowserInv, SocksInv
    <2> QED BY <1>1, <1>2, <2>1 DEF ShowInv
  <1> QED BY <1>1, <1>2, <1>3, ConnectShows

\* A reconnection is the only timer, for the run asked for last.
LEMMA BackoffShows ==
    ASSUME BrowserInv, ShowInv, NEW i \in 1..Len(socks), Backoff(i)
    PROVE  ShowInv'
  <1> SUFFICES ASSUME ~hasty PROVE ShowInv'
    BY DEF ShowInv, Backoff, user
  <1>1. i \in timers /\ timers' = timers \ {i} /\ UNCHANGED user
    BY DEF Backoff
  <1>2. /\ ~terminated /\ socks[i].phase = "closed" /\ Busy(i) /\ socks[i].run = requested
        /\ \A j \in 1..Len(socks) : Busy(j) => j = i
        /\ Watching /\ posting = {}
    BY <1>1 DEF ShowInv, Busy
  <1>3. \A j \in 1..Len(socks) : socks[j].phase = "closed"
    BY <1>2 DEF Busy
  <1>4. timers' = {}
    <2>1. timers \subseteq 1..Len(socks)
      BY DEF BrowserInv, SocksInv
    <2> QED BY <1>1, <1>2, <2>1 DEF Busy
  <1>5. ConnectToStream(socks[i].run) /\ socks[i].run \in Runs
    BY <1>2, SockTyped DEF Backoff
  <1> QED BY <1>1, <1>2, <1>3, <1>4, <1>5, ConnectShows DEF user

\* A frame ends the watch, or leaves it as it is.
LEMMA MessageShows ==
    ASSUME NEW s, NEW f, Forward(s, f), ShowInv, BrowserInv
    PROVE  /\ terminated => terminated'
           /\ \/ (Watching' <=> Watching) /\ (terminated' <=> terminated)
              \/ terminated' /\ (Watching' => Watching)
  <1>1. CASE UNCHANGED screen
    BY <1>1 DEF screen, Watching
  <1>2. CASE OnMessage(s.run, f) /\ ~(f.seq <= highest)
    <2>1. /\ terminated' = (terminated \/ f.event = "complete")
          /\ state' = IF f.event = "complete" THEN "FINISHED" ELSE state
      BY <1>2 DEF OnMessage
    <2>2. CASE f.event = "complete"
      BY <2>1, <2>2 DEF Watching
    <2>3. CASE f.event # "complete"
      BY <2>1, <2>3 DEF Watching
    <2> QED BY <2>2, <2>3
  <1> QED BY <1>1, <1>2 DEF Forward, OnMessage, screen

\* The steps of one socket and its session.
LEMMA ServeShows ==
    ASSUME BrowserInv, ShowInv, NEW i \in 1..Len(socks),
           \/ Accept(i) \/ Subscribe(i) \/ ReadBuffer(i) \/ OnClose(i)
           \/ \E how \in {"normal", "lost"} : Break(i, how)
    PROVE  ShowInv'
  <1>0. /\ socks[i] \in Socks /\ SockInv(socks[i]) /\ socks[i].run \in Runs
        /\ stored[socks[i].run] \in Nat /\ Len(log[socks[i].run]) \in Nat
    BY SockTyped DEF BrowserInv, LogInv
  <1>1. CASE Accept(i)
    <2> DEFINE x == [socks[i] EXCEPT !.phase = "open"]
    <2>1. /\ socks' = [socks EXCEPT ![i] = x] /\ socks[i].phase = "connecting" /\ state' = "STREAMING"
          /\ UNCHANGED <<timers, user, submissionId, terminated>>
      BY <1>1 DEF Accept
    <2>2. x \in Socks /\ x.run = socks[i].run /\ x.phase = "open"
      BY <1>0 DEF Socks
    <2>3. CASE hasty
      BY <2>1, <2>3 DEF ShowInv, user
    <2>4. CASE ~hasty
      <3>1. Watching /\ Watching'
        BY <2>1, <2>4 DEF ShowInv, Busy, Watching
      <3> HIDE DEF x
      <3> QED BY <2>1, <2>2, <3>1, SockShows
    <2> QED BY <2>3, <2>4
  <1>2. CASE Subscribe(i)
    <2> DEFINE n == Len(log[socks[i].run]) + 1
               x == [socks[i] EXCEPT !.phase = "subscribed", !.live = n]
    <2>0. n \in Nat
      BY <1>0
    <2>1. /\ socks' = [socks EXCEPT ![i] = x] /\ socks[i].phase = "open"
          /\ UNCHANGED <<timers, user, submissionId, terminated, state>>
      BY <1>2 DEF Subscribe, screen
    <2> HIDE DEF n
    <2>2. x \in Socks /\ x.run = socks[i].run /\ x.phase = "subscribed"
      BY <1>0, <2>0 DEF Socks
    <2> HIDE DEF x
    <2> QED BY <2>1, <2>2, SockShows DEF Watching
  <1>3. CASE ReadBuffer(i)
    <2> DEFINE x == [socks[i] EXCEPT !.phase = "pumping", !.upto = stored[socks[i].run]]
    <2>1. /\ socks' = [socks EXCEPT ![i] = x] /\ socks[i].phase = "subscribed"
          /\ UNCHANGED <<timers, user, submissionId, terminated, state>>
      BY <1>3 DEF ReadBuffer, screen
    <2>2. x \in Socks /\ x.run = socks[i].run /\ x.phase = "pumping"
      BY <1>0 DEF Socks
    <2> HIDE DEF x
    <2> QED BY <2>1, <2>2, SockShows DEF Watching
  <1>4. CASE OnClose(i)
    <2> DEFINE x == [socks[i] EXCEPT !.phase = "closed"]
    <2>1. /\ socks' = [socks EXCEPT ![i] = x] /\ socks[i].phase = "ended"
          /\ UNCHANGED <<user, submissionId>>
          /\ \/ /\ ~terminated /\ timers' = timers \cup {i}
                /\ UNCHANGED <<state, terminated>>
             \/ /\ terminated' = TRUE /\ state' = "FINISHED" /\ timers' = timers
      BY <1>4 DEF OnClose, GivesUp
    <2>2. x \in Socks /\ x.run = socks[i].run /\ x.phase = "closed"
      BY <1>0 DEF Socks
    <2>3. /\ terminated => terminated'
          /\ timers' = timers \/ (timers' = timers \cup {i} /\ ~terminated')
          /\ \/ (Watching' <=> Watching) /\ (terminated' <=> terminated)
             \/ terminated' /\ (Watching' => Watching)
      BY <2>1 DEF Watching
    <2> HIDE DEF x
    <2> QED BY <2>1, <2>2, <2>3, SockShows
  <1>5. ASSUME NEW how \in {"normal", "lost"}, Break(i, how) PROVE ShowInv'
    <2> DEFINE x == Ended(socks[i], how)
    <2>1. /\ socks' = [socks EXCEPT ![i] = x] /\ socks[i].phase # "closed"
          /\ UNCHANGED <<timers, user, submissionId, terminated, state>>
      BY <1>5 DEF Break, screen
    <2>2. x \in Socks /\ x.run = socks[i].run /\ x.phase = "ended"
      BY <1>0, EndedSock DEF BrowserInv, Ended, Opened
    <2> HIDE DEF x
    <2> QED BY <2>1, <2>2, SockShows DEF Watching
  <1> QED BY <1>1, <1>2, <1>3, <1>4, <1>5

\* A frame forwarded: the session moves on or is over, the screen may finish.
LEMMA FrameShows ==
    ASSUME BrowserInv, ShowInv, NEW i \in 1..Len(socks), Replay(i) \/ Live(i)
    PROVE  ShowInv'
  <1>0. /\ socks[i] \in Socks /\ SockInv(socks[i]) /\ socks[i].run \in Runs
        /\ log[socks[i].run] \in Seq(Frames)
    BY SockTyped
  <1>1. PICK f : /\ Forward(socks[i], f)
                 /\ \/ Replay(i) /\ f = log[socks[i].run][socks[i].replay]
                    \/ Live(i) /\ f = log[socks[i].run][socks[i].live]
    BY DEF Replay, Live
  <1>2. socks[i].phase = "pumping" /\ UNCHANGED <<workerVars, timers, socketRef, user>>
    BY DEF Replay, Live
  <1>3. f \in Frames
    BY <1>0, <1>1 DEF Replay, Live, SockInv, Socks
  <1>4. submissionId' = submissionId
    <2>1. Alive(socks[i])
      BY <1>2 DEF Alive
    <2> QED BY <1>1, <1>3, <2>1, ForwardStep
  <1>5. /\ terminated => terminated'
        /\ \/ (Watching' <=> Watching) /\ (terminated' <=> terminated)
           \/ terminated' /\ (Watching' => Watching)
    BY <1>1, MessageShows
  <1>6. PICK x \in Socks : socks' = [socks EXCEPT ![i] = x] /\ x.run = socks[i].run /\ x.phase # "connecting"
    <2> DEFINE p == Passed(socks[i], f)
               m == socks[i].replay + 1
               n == socks[i].live + 1
               y == [socks[i] EXCEPT !.replay = m, !.last = p]
               z == [socks[i] EXCEPT !.live = n, !.last = p]
    <2>1. p \in Int /\ m \in Nat /\ n \in Nat
      BY <1>0, <1>3 DEF Passed, Frames, Socks
    <2>2. CASE Replay(i) /\ f = log[socks[i].run][socks[i].replay]
      <3>1. socks' = [socks EXCEPT ![i] = y]
        BY <2>2 DEF Replay
      <3> HIDE DEF p, m
      <3>2. y \in Socks
        BY <1>0, <2>1, SockUpdates
      <3>3. y.run = socks[i].run /\ y.phase = "pumping"
        BY <1>0, <1>2 DEF Socks
      <3> QED BY <3>1, <3>2, <3>3
    <2>3. CASE Live(i) /\ f = log[socks[i].run][socks[i].live]
      <3>1. \/ socks' = [socks EXCEPT ![i] = Ended(socks[i], "normal")]
            \/ socks' = [socks EXCEPT ![i] = z]
        BY <2>3 DEF Live
      <3> HIDE DEF p, n
      <3>2. z \in Socks
        BY <1>0, <2>1, SockUpdates
      <3>3. z.run = socks[i].run /\ z.phase = "pumping"
        BY <1>0, <1>2 DEF Socks
      <3>4. /\ Ended(socks[i], "normal") \in Socks /\ Ended(socks[i], "normal").run = socks[i].run
            /\ Ended(socks[i], "normal").phase = "ended"
        BY <1>0, EndedSock DEF BrowserInv, Ended, Opened
      <3> QED BY <3>1, <3>2, <3>3, <3>4
    <2> QED BY <1>1, <2>2, <2>3
  <1> QED BY <1>2, <1>4, <1>5, <1>6, SockShows

\* Every step keeps it.
LEMMA NextShows == ASSUME BrowserInv, ShowInv, [Next]_vars PROVE ShowInv'
  <1>1. ASSUME NEW r \in Runs, Worker(r) PROVE ShowInv'
    BY <1>1, ShowQuiet DEF Worker, Publish, Store, EndAfterError
  <1>2. ASSUME NEW r \in Runs, ClickRun(r) PROVE ShowInv'
    BY <1>2 DEF ClickRun, ShowInv, Busy, Watching, screen
  <1>3. ASSUME NEW r \in Runs, PostFails(r) PROVE ShowInv'
    BY <1>3 DEF PostFails, ShowInv, Busy, Watching, screen
  <1>4. CASE Logout \/ UNCHANGED vars
    BY <1>4 DEF Logout, vars, ShowInv, Busy, Watching, screen, user
  <1>5. ASSUME NEW i \in 1..MaxSockets, Serve(i) PROVE ShowInv'
    <2>1. i \in 1..Len(socks)
      BY <1>5 DEF Serve, BrowserInv, SocksInv
    <2> QED BY <1>5, <2>1, ServeShows, FrameShows, BackoffShows DEF Serve
  <1>6. ASSUME NEW i \in DOMAIN socks, NEW how \in {"normal", "lost"}, Break(i, how) PROVE ShowInv'
    <2>1. i \in 1..Len(socks)
      BY DEF BrowserInv, SocksInv
    <2> QED BY <1>6, <2>1, ServeShows
  <1> QED BY <1>1, <1>2, <1>3, <1>4, <1>5, <1>6, AnswerShows DEF Next

\* While no run is started over another, no late close and no timer brings an
\* older submission back to the screen: it shows the run asked for last.
THEOREM LastRunShown == Spec => []ShowsTheLastRun
  <1>1. Init => BrowserInv /\ ShowInv
    BY InitBrowser DEF Init, ShowInv, Busy
  <1>2. BrowserInv /\ ShowInv /\ [Next]_vars => (BrowserInv /\ ShowInv)'
    BY NextBrowser, NextShows
  <1>3. ShowInv => ShowsTheLastRun
    BY DEF ShowInv, ShowsTheLastRun
  <1> QED BY <1>1, <1>2, <1>3, PTL DEF Spec

-----------------------------------------------------------------------------
(* Sums, by induction on the number of terms (as in ProcessSandbox_proofs) *)

\* A set of numbers that is not empty has a least one.
LEMMA LeastNumber ==
    ASSUME NEW T \in SUBSET Nat, T # {}
    PROVE  \E m \in T : \A k \in T : m <= k
  <1> DEFINE R == OpToRel(<, Nat)
  <1>1. IsWellFoundedOn(R, Nat)
    BY NatLessThanWellFounded
  <1>2. \A a, b \in Nat : a < b => <<a, b>> \in R
    BY DEF OpToRel
  <1> HIDE DEF R
  <1>3. PICK m \in T : \A k \in T : ~(<<k, m>> \in R)
    BY <1>1, WFMin
  <1>4. \A k \in T : k \in Nat /\ ~(k < m)
    BY <1>2, <1>3
  <1> QED BY <1>4

\* A set with zero and every successor of its members holds every number: the
\* form in which induction is used below.
LEMMA SetInduction ==
    ASSUME NEW T, 0 \in T, \A n \in Nat : n \in T => n + 1 \in T
    PROVE  Nat \subseteq T
  <1> DEFINE U == Nat \ T
  <1>1. SUFFICES ASSUME U # {} PROVE FALSE
    OBVIOUS
  <1>2. PICK m \in U : \A k \in U : m <= k
    BY <1>1, LeastNumber
  <1>3. m # 0 /\ m \in Nat /\ m - 1 \in Nat /\ m - 1 \notin U
    BY <1>2
  <1>4. m - 1 \in T
    BY <1>3
  <1> QED BY <1>2, <1>3, <1>4

\* The equation that SumTo's recursion has to meet.
IsSumOf(g, f, n) == g = [i \in 0..n |-> IF i = 0 THEN 0 ELSE g[i - 1] + f[i]]

\* A function meets it, for every number of terms.
LEMMA SumsExist == ASSUME NEW f, NEW n \in Nat PROVE \E g : IsSumOf(g, f, n)
  <1> DEFINE T == {k \in Nat : \E g : IsSumOf(g, f, k)}
  <1>1. 0 \in T
    <2>1. IsSumOf([i \in 0..0 |-> 0], f, 0)
      BY DEF IsSumOf
    <2> QED BY <2>1
  <1>2. ASSUME NEW k \in Nat, k \in T PROVE k + 1 \in T
    <2>1. PICK g : IsSumOf(g, f, k)
      BY <1>2
    <2> DEFINE h == [i \in 0..(k + 1) |-> IF i = k + 1 THEN g[k] + f[k + 1] ELSE g[i]]
    <2>2. \A i \in 0..k : g[i] = IF i = 0 THEN 0 ELSE g[i - 1] + f[i]
      BY <2>1 DEF IsSumOf
    <2>3. ASSUME NEW i \in 0..(k + 1) PROVE h[i] = IF i = 0 THEN 0 ELSE h[i - 1] + f[i]
      <3>1. CASE i = k + 1
        BY <3>1
      <3>2. CASE i # k + 1
        <4>1. i \in 0..k /\ (i # 0 => i - 1 \in 0..k)
          BY <3>2
        <4>2. h[i] = g[i] /\ (i # 0 => h[i - 1] = g[i - 1])
          BY <4>1
        <4> HIDE DEF h
        <4> QED BY <2>2, <4>1, <4>2
      <3> QED BY <3>1, <3>2
    <2>4. IsSumOf(h, f, k + 1)
      BY <2>3 DEF IsSumOf
    <2> QED BY <2>4
  <1> HIDE DEF T
  <1>3. Nat \subseteq T
    BY <1>1, <1>2, SetInduction
  <1> QED BY <1>3 DEF T

\* Two functions that meet it agree where both are defined.
LEMMA SumsAgree ==
    ASSUME NEW f, NEW m \in Nat, NEW n \in Nat, m <= n, NEW g, NEW h, IsSumOf(g, f, m), IsSumOf(h, f, n)
    PROVE  \A i \in 0..m : g[i] = h[i]
  <1> DEFINE T == {i \in Nat : i <= m => g[i] = h[i]}
  <1>0. /\ \A i \in 0..m : g[i] = IF i = 0 THEN 0 ELSE g[i - 1] + f[i]
        /\ \A i \in 0..n : h[i] = IF i = 0 THEN 0 ELSE h[i - 1] + f[i]
    BY DEF IsSumOf
  <1>1. 0 \in T
    BY <1>0
  <1>2. ASSUME NEW k \in Nat, k \in T PROVE k + 1 \in T
    BY <1>0, <1>2
  <1> HIDE DEF T
  <1>3. Nat \subseteq T
    BY <1>1, <1>2, SetInduction
  <1> QED BY <1>3 DEF T

\* No term, and one term more.
LEMMA SumSteps ==
    ASSUME NEW f
    PROVE  /\ SumTo(f, 0) = 0
           /\ \A n \in Nat : SumTo(f, n + 1) = SumTo(f, n) + f[n + 1]
  <1>1. ASSUME NEW n \in Nat PROVE \E g : IsSumOf(g, f, n) /\ SumTo(f, n) = g[n]
    <2> DEFINE sum == CHOOSE g : g = [i \in 0..n |-> IF i = 0 THEN 0 ELSE g[i - 1] + f[i]]
    <2>1. IsSumOf(sum, f, n)
      BY SumsExist DEF IsSumOf
    <2>2. SumTo(f, n) = sum[n]
      BY DEF SumTo
    <2> HIDE DEF sum
    <2> QED BY <2>1, <2>2
  <1>2. SumTo(f, 0) = 0
    <2>1. PICK g : IsSumOf(g, f, 0) /\ SumTo(f, 0) = g[0]
      BY <1>1
    <2> QED BY <2>1 DEF IsSumOf
  <1>3. ASSUME NEW n \in Nat PROVE SumTo(f, n + 1) = SumTo(f, n) + f[n + 1]
    <2>1. PICK g : IsSumOf(g, f, n) /\ SumTo(f, n) = g[n]
      BY <1>1
    <2>2. PICK h : IsSumOf(h, f, n + 1) /\ SumTo(f, n + 1) = h[n + 1]
      BY <1>1
    <2>3. g[n] = h[n]
      BY <2>1, <2>2, SumsAgree
    <2>4. h[n + 1] = h[n] + f[n + 1]
      BY <2>2 DEF IsSumOf
    <2> QED BY <2>1, <2>2, <2>3, <2>4
  <1> QED BY <1>2, <1>3

\* A sum depends on its terms only.
LEMMA SumSame ==
    ASSUME NEW f, NEW g, NEW n \in Nat, \A i \in 1..n : f[i] = g[i]
    PROVE  SumTo(f, n) = SumTo(g, n)
  <1> DEFINE T == {k \in Nat : k <= n => SumTo(f, k) = SumTo(g, k)}
  <1>1. 0 \in T
    BY SumSteps
  <1>2. ASSUME NEW k \in Nat, k \in T PROVE k + 1 \in T
    BY <1>2, SumSteps
  <1> HIDE DEF T
  <1>3. Nat \subseteq T
    BY <1>1, <1>2, SetInduction
  <1> QED BY <1>3 DEF T

\* A sum of natural numbers is one.
LEMMA SumNat ==
    ASSUME NEW f, NEW n \in Nat, \A i \in 1..n : f[i] \in Nat
    PROVE  SumTo(f, n) \in Nat
  <1> DEFINE T == {k \in Nat : k <= n => SumTo(f, k) \in Nat}
  <1>1. 0 \in T
    BY SumSteps
  <1>2. ASSUME NEW k \in Nat, k \in T PROVE k + 1 \in T
    BY <1>2, SumSteps
  <1> HIDE DEF T
  <1>3. Nat \subseteq T
    BY <1>1, <1>2, SetInduction
  <1> QED BY <1>3 DEF T
\* A sum of natural numbers does not shrink with its terms.
LEMMA SumGrows ==
    ASSUME NEW f, NEW m \in Nat, NEW n \in Nat, m <= n, \A i \in 1..n : f[i] \in Nat
    PROVE  SumTo(f, m) <= SumTo(f, n)
  <1> DEFINE T == {k \in Nat : m <= k /\ k <= n => SumTo(f, m) <= SumTo(f, k)}
  <1>1. 0 \in T
    BY SumNat
  <1>2. ASSUME NEW k \in Nat, k \in T PROVE k + 1 \in T
    <2>1. SUFFICES ASSUME m <= k + 1, k + 1 <= n PROVE SumTo(f, m) <= SumTo(f, k + 1)
      OBVIOUS
    <2>2. SumTo(f, m) \in Nat /\ SumTo(f, k) \in Nat /\ f[k + 1] \in Nat
      BY <2>1, SumNat
    <2>3. SumTo(f, k + 1) = SumTo(f, k) + f[k + 1]
      BY SumSteps
    <2>4. CASE m = k + 1
      BY <2>2, <2>3, <2>4
    <2>5. CASE m <= k
      BY <1>2, <2>1, <2>2, <2>3, <2>5
    <2> QED BY <2>1, <2>4, <2>5
  <1> HIDE DEF T
  <1>3. Nat \subseteq T
    BY <1>1, <1>2, SetInduction
  <1> QED BY <1>3 DEF T

-----------------------------------------------------------------------------
(* DockerSandbox: the inductive invariant *)

Starting == {"begin", "create", "attach", "start", "read"}
Looping  == {"poll", "drain", "judge"}
Finished == {"cleanup"} \cup Concluded
Statuses == {"TIME_LIMIT_EXCEEDED", "MEMORY_LIMIT_EXCEEDED", "OUTPUT_LIMIT_EXCEEDED",
             "COMPLETED", "RUNTIME_ERROR"}

RunType ==
    /\ pc \in Starting \cup Looping
              \cup {"look", "stop", "join", "final", "inspect"} \cup Finished
    /\ timedOut \in BOOLEAN /\ verdict \in Statuses \cup {"none"}
    /\ last \in {"none", "data", "error", "complete"}
    /\ deadline \in Nat /\ elapsed \in Nat /\ elapsed <= deadline
    /\ box \in {"absent", "created", "running", "exited", "removed"}
    /\ code \in {0, 1, Killed} /\ oom \in BOOLEAN
    /\ limit \in BOOLEAN

\* What the generator has yielded where it stands, and what it and the exit code
\* say of the container and of the clock.
EndInv ==
    /\ pc \in Starting \cup Looping \cup {"look", "stop", "join", "final"}
         => last \in {"none", "data"}
    /\ last = "complete" => pc \in Finished
    /\ timedOut => elapsed = deadline
    /\ pc \in {"begin", "create"} => box = "absent"
    /\ code # 0 \/ oom => box \in {"exited", "removed"}
    /\ oom => code = Killed
    /\ pc \in {"look", "stop", "join", "final", "inspect"} /\ ~timedOut /\ ~limit
         => box \in {"exited", "removed"}

DataType ==
    /\ socket \in Seq(Chunks) /\ held \in Seq(Chunks) /\ queue \in Seq(Chunks) /\ output \in Seq(Chunks)
    /\ written \in Seq(Sizes)
    /\ total \in Nat /\ total <= MaxBytes /\ limit \in BOOLEAN

\* The reader holds a chunk only on its way from the socket to the queue, and
\* None is the last it queues.
ReaderInv ==
    /\ reader \in {"off", "test", "recv", "put", "done"}
    /\ reader \in {"off", "test", "recv"} => held = << >>
    /\ pc \in Starting => reader = "off"
    /\ \A i \in 1..Len(queue) : queue[i] = None => i = Len(queue) /\ reader = "done"

\* The first m of the chunks cs are, of those with the sizes ws, the ones after
\* the first k.
Numbered(cs, m, k, ws) == \A i \in 1..m : cs[i] = [n |-> k + i, size |-> ws[k + i]]

\* What is under way is the end of what was written; what was yielded is its
\* beginning, up to there as long as the cap is not met.
FlowInv ==
    /\ Len(output) + Len(Pending) <= Len(written)
    /\ Numbered(Pending, Len(Pending), Len(written) - Len(Pending), written)
    /\ ~limit => Len(output) + Len(Pending) = Len(written) /\ Numbered(output, Len(output), 0, written)
    /\ limit => /\ Len(output) >= 1 /\ total = MaxBytes
                /\ Numbered(output, Len(output) - 1, 0, written)
                /\ output[Len(output)].n = Len(output)
                /\ output[Len(output)].size < written[Len(output)]

BytesInv == SizeOf(output) = total

ControlInv == RunType /\ EndInv
DataInv    == DataType /\ ReaderInv /\ FlowInv /\ BytesInv
DockerInv  == ControlInv /\ DataInv

USE DockerAssumption

\* The shapes of chunks and exit codes the proofs need.
LEMMA Shapes ==
    /\ Killed = 137 /\ None \in Chunks /\ None.n = 0
    /\ Sizes \subseteq Nat \ {0}
    /\ \A c \in Chunks : c.n \in Nat /\ c.size \in Nat
  BY DEF Killed, None, Chunks, Sizes

-----------------------------------------------------------------------------
(* DockerSandbox: the control of the generator and the container *)

\* At first.
LEMMA InitControl == DockerInit => ControlInv
  <1>1. SUFFICES ASSUME DockerInit PROVE ControlInv
    OBVIOUS
  <1>2. deadline \in Nat /\ deadline >= 0
    BY <1>1 DEF DockerInit, DockerAssumption
  <1>3. RunType
    BY <1>1, <1>2, Shapes DEF DockerInit, RunType, Starting
  <1>4. EndInv
    BY <1>1, Shapes DEF DockerInit, EndInv, Starting, Looping, Finished, Concluded
  <1> QED BY <1>3, <1>4 DEF ControlInv

\* A kill ends a running container or changes nothing.
LEMMA KillEnds ==
    ASSUME RunType, Kill
    PROVE  \/ box = "running" /\ box' = "exited" /\ code' = Killed /\ oom' = FALSE
           \/ UNCHANGED <<box, code, oom>>
  BY DEF Kill, container

\* Taking one item off the queue leaves the container and the clock alone, and
\* the cap once met stays so.
LEMMA ConsumeControl ==
    ASSUME ControlInv, NEW goOn, NEW atEnd, NEW atLimit, Consume(goOn, atEnd, atLimit)
    PROVE  /\ pc' \in {goOn, atEnd, atLimit}
           /\ UNCHANGED <<timedOut, verdict, deadline, elapsed, age, box, code, oom>>
           /\ last' \in {last, "data"}
           /\ limit' \in BOOLEAN /\ (limit => limit')
           /\ pc' = goOn /\ goOn # atLimit /\ goOn # atEnd => ~limit'
  <1> DEFINE c == Head(queue)
  <1>0. UNCHANGED <<timedOut, verdict, deadline, elapsed, age, box, code, oom>>
    BY DEF Consume, verdicts, clocks, container
  <1>1. CASE c = None \/ limit
    BY <1>0, <1>1 DEF Consume, capping, history, ControlInv, RunType
  <1>2. CASE ~(c = None \/ limit)
    BY <1>0, <1>2 DEF Consume, Yield, ControlInv, RunType
  <1> QED BY <1>1, <1>2

\* The generator's steps up to the loop.
StartsUp == Begin \/ Create \/ Attach \/ Start \/ StartReader \/ CallFails

\* They keep the control invariant.
LEMMA StartControl == ASSUME ControlInv, StartsUp PROVE ControlInv'
  <1> USE Shapes DEF ControlInv, Starting, Looping, Finished, Concluded
  <1>1. RunType'
    BY DEF RunType, StartsUp, Begin, Create, Attach, Start, StartReader, CallFails, Yield, verdicts, clocks,
           container, attached, capping, history
  <1>2. EndInv'
    BY DEF RunType, EndInv, StartsUp, Begin, Create, Attach, Start, StartReader, CallFails, Yield, verdicts,
           clocks, container, attached, capping, history
  <1> QED BY <1>1, <1>2

\* The steps that may kill the container.
LEMMA StopControl == ASSUME ControlInv, Watch \/ StopAtLimit PROVE ControlInv'
  <1> USE Shapes DEF ControlInv, Starting, Looping, Finished, Concluded
  <1>1. \/ /\ pc = "poll" /\ elapsed >= deadline /\ timedOut' = TRUE /\ pc' = "join" /\ Kill
        \/ /\ pc = "poll" /\ pc' = "drain" /\ UNCHANGED <<timedOut, box, code, oom>>
        \/ /\ pc = "judge" /\ limit /\ pc' = "join" /\ UNCHANGED timedOut /\ Kill
    BY DEF Watch, StopAtLimit, container, verdicts
  <1>2. UNCHANGED <<verdict, deadline, elapsed, limit, last>>
    BY DEF Watch, StopAtLimit, clocks, capping, history, verdicts
  <1>3. Kill => \/ box = "running" /\ box' = "exited" /\ code' = Killed /\ oom' = FALSE
                \/ UNCHANGED <<box, code, oom>>
    BY KillEnds
  <1>4. box' \in {box, "exited"} /\ code' \in {code, Killed} /\ oom' \in BOOLEAN /\ timedOut' \in BOOLEAN
    BY <1>1, <1>3 DEF RunType
  <1>5. RunType'
    BY <1>1, <1>2, <1>4 DEF RunType
  <1>6. EndInv'
    BY <1>1, <1>2, <1>3 DEF RunType, EndInv
  <1> QED BY <1>5, <1>6

\* The steps that look and decide.
Looks == DrainEnds \/ LookAtContainer \/ LookAtQueue \/ StopReader \/ Join \/ RestEnds \/ Report

\* They keep it too.
LEMMA LookControl == ASSUME ControlInv, Looks PROVE ControlInv'
  <1> USE Shapes DEF ControlInv, Starting, Looping, Finished, Concluded
  <1>1. UNCHANGED <<timedOut, deadline, elapsed, box, code, oom, limit>>
    BY DEF Looks, DrainEnds, LookAtContainer, LookAtQueue, StopReader, Join, RestEnds, Report, verdicts,
           clocks, container, capping
  <1>2. verdict' = verdict \/ (Report /\ verdict' = Status)
    BY DEF Looks, DrainEnds, LookAtContainer, LookAtQueue, StopReader, Join, RestEnds, Report, verdicts
  <1>3. Status \in Statuses
    BY DEF Status, Statuses
  <1>4. \/ pc = "drain" /\ pc' = "judge" /\ last' = last
        \/ pc = "judge" /\ pc' = "look" /\ last' = last /\ box = "exited"
        \/ pc = "judge" /\ pc' = "poll" /\ last' = last
        \/ pc = "look" /\ pc' \in {"stop", "poll"} /\ last' = last
        \/ pc = "stop" /\ pc' = "join" /\ last' = last
        \/ pc = "join" /\ pc' = "final" /\ last' = last
        \/ pc = "final" /\ pc' = "inspect" /\ last' \in {last, "error"}
        \/ pc = "inspect" /\ pc' = "cleanup" /\ last' = "complete"
    BY DEF Looks, DrainEnds, LookAtContainer, LookAtQueue, StopReader, Join, RestEnds, Report, Yield, history
  <1>5. RunType'
    BY <1>1, <1>2, <1>3, <1>4 DEF RunType
  <1>6. EndInv'
    BY <1>1, <1>4 DEF RunType, EndInv
  <1> QED BY <1>5, <1>6

\* So does taking an item off the queue.
LEMMA DrainControl == ASSUME ControlInv, DrainOne \/ DrainRest PROVE ControlInv'
  <1> USE Shapes DEF ControlInv, Starting, Looping, Finished, Concluded
  <1>1. /\ UNCHANGED <<timedOut, verdict, deadline, elapsed, age, box, code, oom>>
        /\ last' \in {last, "data"} /\ limit' \in BOOLEAN /\ (limit => limit')
        /\ \/ pc = "drain" /\ pc' \in {"drain", "judge"}
           \/ pc = "final" /\ pc' = "final"
    <2>1. CASE DrainOne
      <3>1. pc = "drain" /\ Consume("drain", "judge", "judge")
        BY <2>1 DEF DrainOne
      <3> QED BY <3>1, ConsumeControl
    <2>2. CASE DrainRest
      <3>1. pc = "final" /\ Consume("final", "final", "final")
        BY <2>2 DEF DrainRest
      <3> QED BY <3>1, ConsumeControl
    <2> QED BY <2>1, <2>2
  <1>2. RunType'
    BY <1>1 DEF RunType
  <1>3. EndInv'
    BY <1>1 DEF RunType, EndInv
  <1> QED BY <1>2, <1>3

\* The steps of the others: the consumer, the input task, the thread, the
\* container, the janitor and the clock.
Others == \/ Cleanup \/ Published \/ PublishFails \/ WorkerDies \/ WriteStdin \/ SendReturns \/ SendSignal
          \/ Reader \/ Write \/ Exit \/ Reap \/ TimePasses

\* They end the container or take it away, and end the generator.
LEMMA OthersControl == ASSUME ControlInv, Others PROVE ControlInv'
  <1> USE Shapes DEF ControlInv, Starting, Looping, Finished, Concluded
  <1>1. UNCHANGED <<timedOut, verdict, deadline, limit, last>>
    BY DEF Others, Cleanup, Removal, Published, PublishFails, WorkerDies, WriteStdin, SendReturns,
           SendSignal, Reader,
           Test, Receive, ReceiveEnds, Put, Write, Exit, Reap, TimePasses, verdicts, clocks, capping, history
  <1>2. pc' \in {pc, "cleanup", "closed", "unremoved", "crashed"}
    BY DEF Others, Cleanup, Removal, Published, PublishFails, WorkerDies, WriteStdin, SendReturns,
           SendSignal, Reader,
           Test, Receive, ReceiveEnds, Put, Write, Exit, Reap, TimePasses
  <1>3. /\ elapsed' = elapsed \/ (elapsed < deadline /\ elapsed' = elapsed + 1)
        /\ \/ UNCHANGED <<box, code, oom>>
           \/ box # "absent" /\ box' = "removed" /\ UNCHANGED <<code, oom>>
           \/ box = "running" /\ box' = "exited" /\ code' \in {0, 1, Killed} /\ oom' = FALSE
           \/ box = "running" /\ box' = "exited" /\ code' = Killed /\ oom' = TRUE
    BY DEF Others, Cleanup, Removal, Published, PublishFails, WorkerDies, WriteStdin, SendReturns,
           SendSignal, Reader,
           Test, Receive, ReceiveEnds, Put, Write, Exit, Reap, TimePasses, Exists, clocks, container
  <1>4. pc \in Finished => pc' \in Finished
    BY DEF Others, Cleanup, Removal, Published, PublishFails, WorkerDies, WriteStdin, SendReturns,
           SendSignal, InputTurn,
           Reader, Test, Receive, ReceiveEnds, Put, Write, Exit, Reap, TimePasses
  <1>5. RunType'
    <2>1. box' \in {box, "exited", "removed"} /\ code' \in {code, 0, 1, Killed} /\ oom' \in BOOLEAN
      BY <1>3 DEF RunType
    <2>2. elapsed' \in Nat /\ elapsed' <= deadline'
      BY <1>1, <1>3 DEF RunType
    <2> QED BY <1>1, <1>2, <2>1, <2>2 DEF RunType
  <1>6. EndInv'
    BY <1>1, <1>2, <1>3, <1>4 DEF RunType, EndInv
  <1> QED BY <1>5, <1>6

\* Every step is one of these.
LEMMA StepKinds ==
    ASSUME DockerNext
    PROVE  StartsUp \/ Watch \/ StopAtLimit \/ Looks \/ DrainOne \/ DrainRest \/ Others
  BY DEF DockerNext, Resumed, StartsUp, Looks, Others

\* The control invariant is inductive.
LEMMA StepControl == ASSUME ControlInv, [DockerNext]_dockerVars PROVE ControlInv'
  <1>1. CASE UNCHANGED dockerVars
    BY <1>1 DEF dockerVars, verdicts, attached, clocks, container, capping, history, ControlInv, RunType,
                EndInv
  <1>2. CASE DockerNext
    BY <1>2, StepKinds, StartControl, StopControl, LookControl, DrainControl, OthersControl
  <1> QED BY <1>1, <1>2

-----------------------------------------------------------------------------
(* DockerSandbox: the chunks under way *)

\* The data of a queue are its items, but for a last None.
LEMMA DataShape ==
    ASSUME NEW q \in Seq(Chunks)
    PROVE  /\ Data(q) \in Seq(Chunks)
           /\ Len(Data(q)) = IF Len(q) # 0 /\ q[Len(q)] = None THEN Len(q) - 1 ELSE Len(q)
           /\ \A i \in 1..Len(Data(q)) : Data(q)[i] = q[i]
  <1>0. Len(q) \in Nat /\ (q = << >> <=> Len(q) = 0) /\ \A i \in 1..Len(q) : q[i] \in Chunks
    BY EmptySeq, LenProperties, ElementOfSeq
  <1>1. CASE q # << >> /\ q[Len(q)] = None
    <2> DEFINE m == Len(q) - 1
               d == SubSeq(q, 1, m)
    <2>1. Data(q) = d
      BY <1>1 DEF Data
    <2>2. m \in Nat /\ m <= Len(q) /\ m = Len(q) - 1
      BY <1>0, <1>1
    <2> HIDE DEF m
    <2>3. \A i \in 1..m : q[i] \in Chunks
      BY <1>0, <2>2
    <2>4. d \in Seq(Chunks) /\ Len(d) = (IF 1 <= m THEN m - 1 + 1 ELSE 0)
          /\ \A i \in 1..(m - 1 + 1) : d[i] = q[1 + i - 1]
      BY <2>2, <2>3, SubSeqProperties
    <2> HIDE DEF d
    <2>5. Len(d) = m /\ \A i \in 1..m : d[i] = q[i]
      BY <2>2, <2>4
    <2> QED BY <1>0, <1>1, <2>1, <2>2, <2>4, <2>5
  <1>2. CASE ~(q # << >> /\ q[Len(q)] = None)
    BY <1>0, <1>2 DEF Data
  <1> QED BY <1>1, <1>2

\* None adds no data.
LEMMA DataNone ==
    ASSUME NEW q \in Seq(Chunks), \A i \in 1..Len(q) : q[i] # None
    PROVE  Data(q) = q /\ Data(Append(q, None)) = q
  <1> DEFINE more == Append(q, None)
             n == Len(q)
  <1>1. n \in Nat /\ Data(q) \in Seq(Chunks) /\ Len(Data(q)) = n /\ \A i \in 1..n : Data(q)[i] = q[i]
    <2>1. n \in Nat /\ (n # 0 => q[n] # None)
      BY LenProperties
    <2> QED BY <2>1, DataShape
  <1>2. /\ more \in Seq(Chunks) /\ Len(more) = n + 1 /\ more[n + 1] = None
        /\ \A i \in 1..n : more[i] = q[i]
    BY Shapes, AppendProperties
  <1> HIDE DEF more
  <1>3. Data(more) \in Seq(Chunks) /\ Len(Data(more)) = n /\ \A i \in 1..n : Data(more)[i] = q[i]
    <2>1. Len(Data(more)) = IF Len(more) # 0 /\ more[Len(more)] = None THEN Len(more) - 1 ELSE Len(more)
      BY <1>2, DataShape
    <2>2. Len(Data(more)) = n
      BY <1>1, <1>2, <2>1
    <2>3. \A i \in 1..n : Data(more)[i] = more[i]
      BY <1>2, <2>2, DataShape
    <2> QED BY <1>2, <2>2, <2>3, DataShape
  <1> HIDE DEF Data
  <1> QED BY <1>1, <1>3, SeqEqual DEF more

\* Taking the first item takes the first of the data, or the None that is alone.
LEMMA DataTail ==
    ASSUME NEW q \in Seq(Chunks), q # << >>, \A i \in 1..Len(q) : q[i] = None => i = Len(q)
    PROVE  /\ Tail(q) \in Seq(Chunks) /\ Head(q) \in Chunks
           /\ Head(q) = None => Data(q) = << >> /\ Data(Tail(q)) = << >>
           /\ Head(q) # None => /\ Data(q) # << >> /\ Head(Data(q)) = Head(q)
                                /\ Data(Tail(q)) = Tail(Data(q))
  <1> DEFINE n == Len(q)
             t == Tail(q)
             d == Data(q)
             e == Data(t)
  <1>1. n \in Nat /\ n >= 1 /\ Head(q) = q[1] /\ q[1] \in Chunks
    BY EmptySeq, ElementOfSeq
  <1>2. t \in Seq(Chunks) /\ Len(t) = n - 1 /\ \A i \in 1..(n - 1) : t[i] = q[i + 1]
    BY HeadTailProperties
  <1>3. d \in Seq(Chunks) /\ Len(d) = (IF q[n] = None THEN n - 1 ELSE n)
        /\ \A i \in 1..Len(d) : d[i] = q[i]
    BY <1>1, DataShape
  <1> HIDE DEF t, d
  <1>4. e \in Seq(Chunks) /\ Len(e) = (IF n - 1 # 0 /\ t[n - 1] = None THEN n - 2 ELSE n - 1)
        /\ \A i \in 1..Len(e) : e[i] = t[i]
    <2>1. Len(e) = IF Len(t) # 0 /\ t[Len(t)] = None THEN Len(t) - 1 ELSE Len(t)
      BY <1>2, DataShape
    <2>2. Len(e) = IF n - 1 # 0 /\ t[n - 1] = None THEN n - 2 ELSE n - 1
      BY <1>1, <1>2, <2>1
    <2> QED BY <1>2, <2>2, DataShape
  <1> HIDE DEF e
  <1>5. n - 1 # 0 => t[n - 1] = q[n]
    BY <1>1, <1>2
  <1>6. \A i \in 1..n : q[i] = None => i = n
    OBVIOUS
  <1> HIDE DEF n
  <1>7. ASSUME q[1] = None PROVE d = << >> /\ e = << >>
    <2>1. n = 1
      BY <1>1, <1>6, <1>7
    <2>2. Len(d) = 0 /\ Len(e) = 0
      BY <1>3, <1>4, <1>7, <2>1
    <2> QED BY <1>3, <1>4, <2>2, EmptySeq
  <1>8. ASSUME q[1] # None PROVE d # << >> /\ Head(d) = q[1] /\ e = Tail(d)
    <2>1. Len(d) >= 1 /\ Len(d) <= n /\ Len(d) \in Nat /\ Len(e) = Len(d) - 1
      BY <1>1, <1>3, <1>4, <1>5, <1>8
    <2>2. d # << >> /\ Head(d) = d[1] /\ d[1] = q[1]
      BY <1>3, <2>1, EmptySeq
    <2>3. Tail(d) \in Seq(Chunks) /\ Len(Tail(d)) = Len(d) - 1 /\ \A i \in 1..(Len(d) - 1) : Tail(d)[i] = d[i + 1]
      BY <1>3, <2>2, HeadTailProperties
    <2>4. \A i \in 1..Len(e) : e[i] = Tail(d)[i]
      BY <1>1, <1>2, <1>3, <1>4, <2>1, <2>3
    <2> QED BY <1>4, <2>1, <2>2, <2>3, <2>4, SeqEqual
  <1> QED BY <1>1, <1>2, <1>7, <1>8 DEF t, d, e

\* What is under way, as a sequence.
LEMMA PendingType ==
    ASSUME DataType
    PROVE  /\ Data(queue) \in Seq(Chunks) /\ Data(queue) \o held \in Seq(Chunks)
           /\ Pending \in Seq(Chunks)
           /\ Len(Pending) \in Nat /\ Len(Pending) >= Len(socket)
  <1>1. Data(queue) \in Seq(Chunks) /\ held \in Seq(Chunks) /\ socket \in Seq(Chunks)
    BY DataShape DEF DataType
  <1> QED BY <1>1, ConcatProperties DEF Pending

\* An item taken off the queue is the first of what is under way.
LEMMA PendingTail ==
    ASSUME DataType, ReaderInv, queue # << >>, queue' = Tail(queue), UNCHANGED <<held, socket>>
    PROVE  /\ queue' \in Seq(Chunks)
           /\ Head(queue) = None => Pending' = Pending
           /\ Head(queue) # None => Pending # << >> /\ Head(Pending) = Head(queue) /\ Pending' = Tail(Pending)
  <1>1. queue \in Seq(Chunks) /\ held \in Seq(Chunks) /\ socket \in Seq(Chunks)
    BY DEF DataType
  <1>2. \A i \in 1..Len(queue) : queue[i] = None => i = Len(queue)
    BY DEF ReaderInv
  <1> DEFINE d == Data(queue)
             e == Data(Tail(queue))
             rest == held \o socket
  <1>3. /\ Tail(queue) \in Seq(Chunks) /\ d \in Seq(Chunks) /\ e \in Seq(Chunks)
        /\ Head(queue) = None => d = << >> /\ e = << >>
        /\ Head(queue) # None => d # << >> /\ Head(d) = Head(queue) /\ e = Tail(d)
    BY <1>1, <1>2, DataTail, DataShape
  <1>4. Pending = d \o held \o socket /\ Pending' = e \o held \o socket
    BY DEF Pending
  <1> HIDE DEF d, e
  <1>5. rest \in Seq(Chunks) /\ Pending = d \o rest /\ Pending' = e \o rest
    <2>1. rest \in Seq(Chunks)
      BY <1>1, ConcatProperties
    <2>2. \A a \in Seq(Chunks) : (a \o held) \o socket = a \o rest
      BY <1>1, ConcatAssociative
    <2> QED BY <1>3, <1>4, <2>1, <2>2
  <1> HIDE DEF rest
  <1>6. ASSUME Head(queue) # None
        PROVE  Pending # << >> /\ Head(Pending) = Head(queue) /\ Pending' = Tail(Pending)
    <2>1. d # << >> /\ Head(d) = Head(queue) /\ e = Tail(d)
      BY <1>3, <1>6
    <2>2. d \o rest # << >> /\ Head(d \o rest) = Head(d) /\ Tail(d \o rest) = Tail(d) \o rest
      BY <1>3, <1>5, <2>1
    <2> QED BY <1>5, <2>1, <2>2
  <1> QED BY <1>3, <1>5, <1>6

\* What the thread holds is a chunk that was written, and no None.
LEMMA HeldData == ASSUME DataInv PROVE \A i \in 1..Len(held) : held[i] # None
  <1>1. SUFFICES ASSUME NEW i \in 1..Len(held), held[i] = None PROVE FALSE
    OBVIOUS
  <1>2. /\ Data(queue) \in Seq(Chunks) /\ held \in Seq(Chunks) /\ socket \in Seq(Chunks)
        /\ Data(queue) \o held \in Seq(Chunks) /\ Len(Pending) \in Nat
    BY PendingType DEF DataInv, DataType
  <1> DEFINE k == Len(Data(queue)) + i
             m == Len(written) - Len(Pending)
  <1>3. Len(Data(queue)) \in Nat /\ Len(held) \in Nat /\ Len(socket) \in Nat /\ i \in 1..Len(held)
    BY <1>2, LenProperties
  <1>4. /\ (Data(queue) \o held)[k] = held[i] /\ k \in 1..Len(Data(queue) \o held)
        /\ Len(Data(queue) \o held) = Len(Data(queue)) + Len(held)
    BY <1>2, <1>3, ConcatProperties
  <1>5. Pending[k] = held[i] /\ k \in 1..Len(Pending)
    BY <1>2, <1>3, <1>4, ConcatProperties DEF Pending
  <1>6. m \in Nat
    <2>1. Len(written) \in Nat /\ Len(output) \in Nat
      BY LenProperties DEF DataInv, DataType
    <2> QED BY <1>2, <2>1 DEF DataInv, FlowInv
  <1> HIDE DEF m
  <1>7. Pending[k].n = m + k
    <2>1. \A j \in 1..Len(Pending) : Pending[j] = [n |-> m + j, size |-> written[m + j]]
      BY DEF DataInv, FlowInv, Numbered, m
    <2>2. Pending[k] = [n |-> m + k, size |-> written[m + k]]
      BY <1>5, <2>1
    <2> QED BY <2>2
  <1> QED BY <1>1, <1>3, <1>5, <1>6, <1>7, Shapes

\* The thread's steps leave what is under way as it is.
LEMMA PendingMoves ==
    ASSUME DataInv, Reader
    PROVE  /\ socket' \in Seq(Chunks) /\ held' \in Seq(Chunks) /\ queue' \in Seq(Chunks)
           /\ ReaderInv' /\ Pending' = Pending
  <1> USE DEF DataInv
  <1>1. queue \in Seq(Chunks) /\ held \in Seq(Chunks) /\ socket \in Seq(Chunks) /\ Data(queue) \in Seq(Chunks)
    BY PendingType DEF DataType
  <1>2. UNCHANGED pc /\ reader \in {"test", "recv", "put"}
    BY DEF Reader, Test, Receive, ReceiveEnds, Put
  <1>3. \A i \in 1..Len(queue) : queue[i] # None
    BY <1>2 DEF ReaderInv
  <1>4. pc \notin Starting
    BY <1>2 DEF ReaderInv
  <1>5. CASE ReaderEnds /\ UNCHANGED <<held, socket>>
    <2>1. queue' \in Seq(Chunks) /\ Data(queue') = Data(queue)
      <3>1. queue' = Append(queue, None)
        BY <1>5 DEF ReaderEnds
      <3>2. Append(queue, None) \in Seq(Chunks)
        BY <1>1, Shapes, AppendProperties
      <3>3. Data(queue) = queue /\ Data(Append(queue, None)) = queue
        BY <1>1, <1>3, DataNone
      <3> QED BY <3>1, <3>2, <3>3
    <2>2. ReaderInv'
      <3>1. reader' = "done" /\ Len(queue') = Len(queue) + 1 /\ \A i \in 1..Len(queue) : queue'[i] = queue[i]
        BY <1>1, <1>5 DEF ReaderEnds
      <3>2. Len(queue) \in Nat
        BY <1>1
      <3>3. \A i \in 1..Len(queue') : queue'[i] = None => i = Len(queue')
        BY <1>3, <3>1, <3>2
      <3> QED BY <1>2, <1>4, <3>1, <3>3 DEF ReaderInv
    <2>3. Pending' = Pending
      BY <1>5, <2>1 DEF Pending
    <2> QED BY <1>1, <1>5, <2>1, <2>2, <2>3
  <1>6. CASE Test /\ ~stop
    <2>1. reader = "test" /\ reader' = "recv" /\ UNCHANGED <<queue, held, socket>>
      BY <1>6 DEF Test
    <2>2. Pending' = Pending
      BY <2>1 DEF Pending
    <2> QED BY <1>1, <1>2, <1>3, <1>4, <2>1, <2>2 DEF ReaderInv
  <1>7. CASE Receive
    <2>1. /\ reader = "recv" /\ reader' = "put" /\ UNCHANGED queue /\ socket # << >>
          /\ held' = <<Head(socket)>> /\ socket' = Tail(socket)
      BY <1>7 DEF Receive
    <2>2. held = << >>
      BY <2>1 DEF ReaderInv
    <2>3. held' \in Seq(Chunks) /\ socket' \in Seq(Chunks) /\ held' \o socket' = socket
      BY <1>1, <2>1
    <2>4. Pending' = Data(queue) \o (held' \o socket') /\ Pending = Data(queue) \o socket
      BY <1>1, <2>1, <2>2, <2>3, ConcatAssociative, ConcatEmptySeq DEF Pending
    <2> QED BY <1>1, <1>2, <1>3, <1>4, <2>1, <2>3, <2>4 DEF ReaderInv
  <1>8. CASE Put
    <2>1. reader = "put" /\ reader' = "test" /\ queue' = queue \o held /\ held' = << >> /\ UNCHANGED socket
      BY <1>8 DEF Put
    <2>2. \A i \in 1..Len(held) : held[i] # None
      BY HeldData
    <2>3. /\ queue' \in Seq(Chunks) /\ Len(queue') = Len(queue) + Len(held)
          /\ \A i \in 1..(Len(queue) + Len(held)) :
                queue'[i] = IF i <= Len(queue) THEN queue[i] ELSE held[i - Len(queue)]
      BY <1>1, <2>1, ConcatProperties
    <2>4. \A i \in 1..Len(queue') : queue'[i] # None
      <3>1. Len(queue) \in Nat /\ Len(held) \in Nat
        BY <1>1, LenProperties
      <3> QED BY <1>3, <2>2, <2>3, <3>1
    <2>5. Data(queue') = queue \o held /\ Data(queue) = queue
      BY <1>1, <1>3, <2>1, <2>3, <2>4, DataNone
    <2>6. Pending' = (queue \o held) \o << >> \o socket /\ Pending = queue \o held \o socket
      BY <2>1, <2>5 DEF Pending
    <2>7. Pending' = Pending
      BY <1>1, <2>1, <2>3, <2>6, ConcatEmptySeq
    <2>8. held' \in Seq(Chunks)
      BY <2>1, EmptySeq
    <2> QED BY <1>1, <1>2, <1>4, <2>1, <2>3, <2>4, <2>7, <2>8 DEF ReaderInv
  <1>9. CASE ReceiveEnds
    BY <1>5, <1>9 DEF ReceiveEnds
  <1>10. CASE Test /\ stop
    BY <1>5, <1>10 DEF Test
  <1> QED BY <1>5, <1>6, <1>7, <1>8, <1>9, <1>10 DEF Reader

-----------------------------------------------------------------------------
(* DockerSandbox: what was yielded and what is under way *)

\* The bytes of a sequence with one chunk more.
LEMMA BytesAppend ==
    ASSUME NEW cs \in Seq(Chunks), NEW c \in Chunks
    PROVE  SizeOf(Append(cs, c)) = SizeOf(cs) + c.size
  <1> DEFINE n == Len(cs)
             f == [i \in DOMAIN cs |-> cs[i].size]
             more == Append(cs, c)
             g == [i \in DOMAIN more |-> more[i].size]
  <1>1. n \in Nat /\ Len(more) = n + 1 /\ DOMAIN cs = 1..n /\ DOMAIN more = 1..(n + 1)
    OBVIOUS
  <1>2. g[n + 1] = c.size /\ \A i \in 1..n : g[i] = f[i]
    OBVIOUS
  <1>3. SizeOf(cs) = SumTo(f, n) /\ SizeOf(more) = SumTo(g, n + 1)
    BY <1>1 DEF SizeOf
  <1> HIDE DEF f, g, more, n
  <1>4. SumTo(g, n + 1) = SumTo(g, n) + g[n + 1] /\ SumTo(g, n) = SumTo(f, n)
    BY <1>1, <1>2, SumSteps, SumSame
  <1> QED BY <1>2, <1>3, <1>4 DEF more

\* The cap cuts a chunk to the room left, or not at all.
LEMMA CappedFits ==
    ASSUME DataType, NEW c \in Chunks
    PROVE  /\ Capped(c) \in Chunks /\ Capped(c).n = c.n
           /\ total + Capped(c).size <= MaxBytes
           /\ \/ Capped(c) = c
              \/ Capped(c) # c /\ Capped(c).size < c.size /\ total + Capped(c).size = MaxBytes
  <1>1. total \in Nat /\ MaxBytes \in Nat /\ total <= MaxBytes /\ c.n \in Nat /\ c.size \in Nat
        /\ c = [n |-> c.n, size |-> c.size]
    BY DEF DataType, DockerAssumption, Chunks
  <1>2. CASE total + c.size <= MaxBytes
    <2>1. Capped(c) = c
      BY <1>1, <1>2 DEF Capped
    <2> QED BY <1>1, <1>2, <2>1
  <1>3. CASE ~(total + c.size <= MaxBytes)
    <2>1. Capped(c) = [n |-> c.n, size |-> MaxBytes - total]
      BY <1>1, <1>3 DEF Capped
    <2>2. MaxBytes - total \in Nat /\ MaxBytes - total < c.size /\ total + (MaxBytes - total) = MaxBytes
      BY <1>1, <1>3
    <2> QED BY <1>1, <2>1, <2>2 DEF Chunks
  <1> QED BY <1>2, <1>3

\* Nothing written, nothing yielded, and the same under way.
LEMMA FlowRests ==
    ASSUME FlowInv, BytesInv, Pending' = Pending, UNCHANGED <<output, written, total, limit>>
    PROVE  FlowInv' /\ BytesInv'
  BY DEF FlowInv, BytesInv, Numbered, SizeOf

\* A chunk written is the next one under way.
LEMMA FlowWrites ==
    ASSUME DataInv, NEW z \in Sizes, written' = Append(written, z),
           socket' = Append(socket, [n |-> Len(written) + 1, size |-> z]),
           UNCHANGED <<queue, held, output, total, limit>>
    PROVE  /\ written' \in Seq(Sizes) /\ socket' \in Seq(Chunks)
           /\ FlowInv' /\ BytesInv'
  <1> DEFINE c == [n |-> Len(written) + 1, size |-> z]
             w == Len(written)
             p == Len(Pending)
             o == Len(output)
  <1>1. /\ Data(queue) \o held \in Seq(Chunks) /\ Pending \in Seq(Chunks) /\ socket \in Seq(Chunks)
        /\ written \in Seq(Sizes) /\ output \in Seq(Chunks)
    BY PendingType DEF DataInv, DataType
  <1>2. w \in Nat /\ p \in Nat /\ o \in Nat
    BY <1>1, LenProperties
  <1>3. c \in Chunks
    BY <1>2, Shapes DEF Chunks
  <1>4. Pending' = Append(Pending, c)
    <2> DEFINE d == Data(queue) \o held
    <2>1. Pending' = d \o Append(socket, c) /\ Pending = d \o socket
      BY DEF Pending
    <2>2. d \in Seq(Chunks)
      BY <1>1
    <2> HIDE DEF d, c
    <2>3. d \o Append(socket, c) = Append(d \o socket, c)
      BY ONLY <1>1, <1>3, <2>2
    <2> QED BY <2>1, <2>3
  <1>5. /\ Pending' \in Seq(Chunks) /\ Len(Pending') = p + 1 /\ Pending'[p + 1] = c
        /\ \A i \in 1..p : Pending'[i] = Pending[i]
    BY <1>1, <1>3, <1>4, AppendProperties
  <1>6. /\ written' \in Seq(Sizes) /\ Len(written') = w + 1 /\ written'[w + 1] = z
        /\ \A i \in 1..w : written'[i] = written[i]
    BY <1>1, AppendProperties
  <1>7. c = [n |-> w + 1, size |-> z]
    OBVIOUS
  <1>8. /\ o + p <= w
        /\ \A i \in 1..p : Pending[i] = [n |-> w - p + i, size |-> written[w - p + i]]
    BY DEF DataInv, FlowInv, Numbered
  <1> HIDE DEF c, w, p, o
  <1>9. o + (p + 1) <= w + 1
    BY <1>2, <1>8
  <1>10. \A i \in 1..(p + 1) : Pending'[i] = [n |-> (w + 1) - (p + 1) + i, size |-> written'[(w + 1) - (p + 1) + i]]
    <2>1. ASSUME NEW i \in 1..(p + 1)
          PROVE  Pending'[i] = [n |-> (w + 1) - (p + 1) + i, size |-> written'[(w + 1) - (p + 1) + i]]
      <3>1. (w + 1) - (p + 1) + i = w - p + i
        BY <1>2, <2>1
      <3>2. CASE i = p + 1
        <4>1. w - p + i = w + 1
          BY <1>2, <3>2
        <4> QED BY <1>5, <1>6, <1>7, <3>1, <3>2, <4>1
      <3>3. CASE i # p + 1
        <4>1. i \in 1..p /\ w - p + i \in 1..w
          BY <1>2, <1>8, <2>1, <3>3
        <4> QED BY <1>5, <1>6, <1>8, <3>1, <4>1
      <3> QED BY <3>2, <3>3
    <2> QED BY <2>1
  <1>11. /\ ~limit => o + p = w /\ Numbered(output, o, 0, written')
         /\ limit => /\ o >= 1 /\ total = MaxBytes /\ Numbered(output, o - 1, 0, written')
                     /\ output[o].n = o /\ output[o].size < written'[o]
    <2>1. /\ ~limit => o + p = w /\ Numbered(output, o, 0, written)
          /\ limit => /\ o >= 1 /\ total = MaxBytes /\ Numbered(output, o - 1, 0, written)
                      /\ output[o].n = o /\ output[o].size < written[o]
      BY DEF DataInv, FlowInv, o, p, w
    <2>2. o <= w
      BY <1>2, <1>8
    <2>3. ASSUME NEW m \in Nat, m <= o, Numbered(output, m, 0, written)
          PROVE  Numbered(output, m, 0, written')
      <3>1. ASSUME NEW i \in 1..m PROVE output[i] = [n |-> 0 + i, size |-> written'[0 + i]]
        <4>1. 0 + i \in 1..w
          BY <1>2, <2>2, <2>3, <3>1
        <4>2. output[i] = [n |-> 0 + i, size |-> written[0 + i]]
          BY <2>3, <3>1 DEF Numbered
        <4> QED BY <1>6, <4>1, <4>2
      <3> QED BY <3>1 DEF Numbered
    <2>4. Numbered(output, o, 0, written) => Numbered(output, o, 0, written')
      BY <1>2, <2>3
    <2>5. o >= 1 => /\ Numbered(output, o - 1, 0, written) => Numbered(output, o - 1, 0, written')
                    /\ written'[o] = written[o]
      <3>1. o >= 1 => o - 1 \in Nat /\ o - 1 <= o /\ o \in 1..w
        BY <1>2, <2>2
      <3> QED BY <1>6, <2>3, <3>1
    <2> QED BY <2>1, <2>4, <2>5
  <1>12. /\ Len(output') = o /\ Len(written') = w + 1 /\ Len(Pending') = p + 1
         /\ output' = output /\ total' = total /\ limit' = limit
    BY <1>5, <1>6 DEF o
  <1>13. FlowInv'
    <2>1. Numbered(Pending', p + 1, (w + 1) - (p + 1), written')
      BY <1>10 DEF Numbered
    <2>2. SUFFICES /\ Len(output') + Len(Pending') <= Len(written')
                   /\ Numbered(Pending', Len(Pending'), Len(written') - Len(Pending'), written')
                   /\ ~limit' => /\ Len(output') + Len(Pending') = Len(written')
                                 /\ Numbered(output', Len(output'), 0, written')
                   /\ limit' => /\ Len(output') >= 1 /\ total' = MaxBytes
                                /\ Numbered(output', Len(output') - 1, 0, written')
                                /\ output'[Len(output')].n = Len(output')
                                /\ output'[Len(output')].size < written'[Len(output')]
      BY DEF FlowInv
    <2>3. Numbered(Pending', Len(Pending'), Len(written') - Len(Pending'), written')
      BY <1>12, <2>1
    <2>4. ~limit => o + p = w
      BY <1>11
    <2>5. o + p = w => o + (p + 1) = w + 1
      BY <1>2
    <2>6. ~limit' => Len(output') + Len(Pending') = Len(written') /\ Numbered(output', Len(output'), 0, written')
      BY <1>11, <1>12, <2>4, <2>5
    <2>7. limit' => /\ Len(output') >= 1 /\ total' = MaxBytes
                    /\ Numbered(output', Len(output') - 1, 0, written')
                    /\ output'[Len(output')].n = Len(output')
                    /\ output'[Len(output')].size < written'[Len(output')]
      <3>1. SUFFICES ASSUME limit' PROVE /\ Len(output') >= 1 /\ total' = MaxBytes
                                         /\ Numbered(output', Len(output') - 1, 0, written')
                                         /\ output'[Len(output')].n = Len(output')
                                         /\ output'[Len(output')].size < written'[Len(output')]
        OBVIOUS
      <3>2. limit
        BY <1>12, <3>1
      <3>3. /\ o >= 1 /\ total = MaxBytes /\ Numbered(output, o - 1, 0, written')
            /\ output[o].n = o /\ output[o].size < written'[o]
        BY <1>11, <3>2
      <3>4. Len(output') >= 1 /\ total' = MaxBytes
        BY <1>12, <3>3
      <3>5. Numbered(output', Len(output') - 1, 0, written')
        BY <1>12, <3>3
      <3>6. output'[Len(output')].n = Len(output')
        BY <1>12, <3>3
      <3>7. output'[Len(output')].size < written'[Len(output')]
        BY <1>12, <3>3
      <3> QED BY <3>4, <3>5, <3>6, <3>7
    <2>8. Len(output') + Len(Pending') <= Len(written')
      BY <1>9, <1>12
    <2> QED BY <2>2, <2>3, <2>6, <2>7, <2>8
  <1>14. BytesInv'
    BY DEF DataInv, BytesInv, SizeOf
  <1>15. socket' \in Seq(Chunks)
    BY <1>1, <1>3, AppendProperties DEF c
  <1> QED BY <1>6, <1>13, <1>14, <1>15

\* The first chunk under way is taken: past the cap it is dropped, else it is
\* the next one yielded, cut if it crosses the cap.
LEMMA FlowTakes ==
    ASSUME DataInv, Pending # << >>, Pending' = Tail(Pending), UNCHANGED written,
           \/ limit /\ UNCHANGED <<output, total, limit>>
           \/ /\ ~limit
              /\ total' = total + Capped(Head(Pending)).size
              /\ limit' = (Capped(Head(Pending)) # Head(Pending))
              /\ output' = Append(output, Capped(Head(Pending)))
    PROVE  /\ output' \in Seq(Chunks) /\ total' \in Nat /\ total' <= MaxBytes /\ limit' \in BOOLEAN
           /\ FlowInv' /\ BytesInv'
  <1> DEFINE c == Head(Pending)
             w == Len(written)
             p == Len(Pending)
             o == Len(output)
  <1>1. Pending \in Seq(Chunks) /\ written \in Seq(Sizes) /\ output \in Seq(Chunks) /\ total \in Nat
    BY PendingType DEF DataInv, DataType
  <1>2. w \in Nat /\ p \in Nat /\ o \in Nat /\ p >= 1
    BY <1>1, LenProperties, EmptySeq
  <1>3. /\ c \in Chunks /\ c = Pending[1]
        /\ Pending' \in Seq(Chunks) /\ Len(Pending') = p - 1
        /\ \A i \in 1..(p - 1) : Pending'[i] = Pending[i + 1]
    BY <1>1, HeadTailProperties
  <1>4. /\ o + p <= w
        /\ \A i \in 1..p : Pending[i] = [n |-> w - p + i, size |-> written[w - p + i]]
        /\ ~limit => o + p = w /\ \A i \in 1..o : output[i] = [n |-> 0 + i, size |-> written[0 + i]]
        /\ limit => /\ o >= 1 /\ total = MaxBytes
                    /\ \A i \in 1..(o - 1) : output[i] = [n |-> 0 + i, size |-> written[0 + i]]
                    /\ output[o].n = o /\ output[o].size < written[o]
    BY DEF DataInv, FlowInv, Numbered
  <1>5. /\ Capped(c) \in Chunks /\ Capped(c).n = c.n /\ total + Capped(c).size <= MaxBytes
        /\ \/ Capped(c) = c
           \/ Capped(c) # c /\ Capped(c).size < c.size /\ total + Capped(c).size = MaxBytes
    BY <1>3, CappedFits DEF DataInv
  <1>6. SUFFICES /\ output' \in Seq(Chunks) /\ total' \in Nat /\ total' <= MaxBytes /\ limit' \in BOOLEAN
                 /\ SizeOf(output') = total'
                 /\ Len(output') + (p - 1) <= w
                 /\ ~limit' => /\ Len(output') + (p - 1) = w
                               /\ \A i \in 1..Len(output') : output'[i] = [n |-> 0 + i, size |-> written[0 + i]]
                 /\ limit' => /\ Len(output') >= 1 /\ total' = MaxBytes
                              /\ \A i \in 1..(Len(output') - 1) :
                                    output'[i] = [n |-> 0 + i, size |-> written[0 + i]]
                              /\ output'[Len(output')].n = Len(output')
                              /\ output'[Len(output')].size < written[Len(output')]
    <2>1. \A i \in 1..(p - 1) : Pending'[i] = [n |-> w - (p - 1) + i, size |-> written[w - (p - 1) + i]]
      <3>1. ASSUME NEW i \in 1..(p - 1)
            PROVE  Pending'[i] = [n |-> w - (p - 1) + i, size |-> written[w - (p - 1) + i]]
        <4>1. i + 1 \in 1..p /\ w - p + (i + 1) = w - (p - 1) + i
          BY <1>2, <3>1
        <4> QED BY <1>3, <1>4, <4>1
      <3> QED BY <3>1
    <2> HIDE DEF c, p, o
    <2> QED BY <1>3, <1>6, <2>1 DEF FlowInv, BytesInv, Numbered, SizeOf
  <1> HIDE DEF w, p, o
  <1>7. CASE limit /\ UNCHANGED <<output, total, limit>>
    <2>1. output' = output /\ total' = total /\ limit' /\ limit' \in BOOLEAN
      BY <1>7 DEF DataInv, DataType
    <2>2. SizeOf(output) = total /\ total <= MaxBytes
      BY DEF DataInv, BytesInv, DataType
    <2>3. Len(output) = o /\ o + (p - 1) <= w
      BY <1>2, <1>4 DEF o
    <2> QED BY <1>1, <1>4, <1>7, <2>1, <2>2, <2>3
  <1>8. CASE /\ ~limit
             /\ total' = total + Capped(c).size
             /\ limit' = (Capped(c) # c)
             /\ output' = Append(output, Capped(c))
    <2>1. /\ output' \in Seq(Chunks) /\ Len(output') = o + 1 /\ output'[o + 1] = Capped(c)
          /\ \A i \in 1..o : output'[i] = output[i]
      BY <1>1, <1>5, <1>8, AppendProperties DEF o
    <2>2. o + p = w /\ \A i \in 1..o : output[i] = [n |-> 0 + i, size |-> written[0 + i]]
      BY <1>4, <1>8
    <2>3. c = [n |-> o + 1, size |-> written[o + 1]]
      <3>1. 1 \in 1..p /\ w - p + 1 = o + 1
        BY <1>2, <2>2
      <3> QED BY <1>3, <1>4, <3>1
    <2>4. SizeOf(output') = total' /\ total' \in Nat /\ total' <= MaxBytes
      <3>1. SizeOf(output') = SizeOf(output) + Capped(c).size
        BY <1>1, <1>5, <1>8, BytesAppend
      <3>2. SizeOf(output) = total
        BY DEF DataInv, BytesInv
      <3>3. Capped(c).size \in Nat
        BY <1>5, Shapes
      <3> HIDE DEF c
      <3> QED BY <1>1, <1>5, <1>8, <3>1, <3>2, <3>3
    <2>5. Len(output') + (p - 1) = w
      BY <1>2, <2>1, <2>2
    <2>6. \A i \in 1..o : output'[i] = [n |-> 0 + i, size |-> written[0 + i]]
      BY <2>1, <2>2
    <2>7. limit' \in BOOLEAN
      BY <1>8
    <2> HIDE DEF c
    <2>8. CASE Capped(c) = c
      <3>1. ~limit'
        BY <1>8, <2>8
      <3>2. \A i \in 1..(o + 1) : output'[i] = [n |-> 0 + i, size |-> written[0 + i]]
        <4>1. 0 + (o + 1) = o + 1
          BY <1>2
        <4>2. \A i \in 1..(o + 1) : i = o + 1 \/ i \in 1..o
          BY <1>2
        <4> QED BY <2>1, <2>3, <2>6, <2>8, <4>1, <4>2
      <3> QED BY <1>2, <2>1, <2>4, <2>5, <2>7, <3>1, <3>2
    <2>9. CASE Capped(c) # c
      <3>1. limit' /\ total' = MaxBytes /\ Capped(c).size < c.size
        BY <1>5, <1>8, <2>9
      <3>2. c.n = o + 1 /\ c.size = written[o + 1]
        BY <2>3
      <3>3. Len(output') - 1 = o /\ Len(output') >= 1
        BY <1>2, <2>1
      <3>4. Len(output') + (p - 1) <= w
        BY <1>2, <2>5
      <3> QED BY <1>5, <2>1, <2>4, <2>6, <2>7, <3>1, <3>2, <3>3, <3>4
    <2> QED BY <2>8, <2>9
  <1> QED BY <1>7, <1>8

-----------------------------------------------------------------------------
(* DockerSandbox: every step keeps the chunks *)

\* Nothing written, received, yielded at first.
LEMMA InitData == DockerInit => DataInv
  <1>1. SUFFICES ASSUME DockerInit PROVE DataInv
    OBVIOUS
  <1>2. /\ socket = << >> /\ held = << >> /\ queue = << >> /\ output = << >> /\ written = << >>
        /\ reader = "off" /\ total = 0 /\ limit = FALSE
    BY <1>1 DEF DockerInit
  <1>3. DataType
    <2>1. << >> \in Seq(Chunks) /\ << >> \in Seq(Sizes)
      BY EmptySeq
    <2>2. 0 \in Nat /\ 0 <= MaxBytes
      BY DockerAssumption DEF DockerAssumption
    <2> QED BY <1>2, <2>1, <2>2 DEF DataType
  <1>4. ReaderInv
    BY <1>2, EmptySeq DEF ReaderInv
  <1>5. Data(queue) = << >>
    BY <1>2 DEF Data
  <1>6. Pending = << >>
    BY <1>2, <1>5 DEF Pending
  <1>7. FlowInv
    BY <1>2, <1>6, EmptySeq DEF FlowInv, Numbered
  <1>8. BytesInv
    <2>1. SizeOf(output) = SumTo([i \in DOMAIN output |-> output[i].size], 0)
      BY <1>2 DEF SizeOf
    <2> QED BY <1>2, <2>1, SumSteps DEF BytesInv
  <1> QED BY <1>3, <1>4, <1>7, <1>8 DEF DataInv

\* Steps that touch no chunk: the thread starts, or dies with the worker, or is
\* not concerned.
LEMMA QuietData ==
    ASSUME DataInv, UNCHANGED <<socket, held, queue, output, written, total, limit>>,
           \/ reader' = reader /\ (pc' \in Starting => pc \in Starting)
           \/ reader = "off" /\ reader' = "test" /\ pc' \notin Starting
           \/ reader' = "done" /\ pc' \notin Starting
    PROVE  DataInv'
  <1>1. DataType'
    BY DEF DataInv, DataType
  <1>2. ReaderInv'
    BY DEF DataInv, ReaderInv
  <1>3. Pending' = Pending
    BY DEF Pending
  <1> QED BY <1>1, <1>2, <1>3, FlowRests DEF DataInv

\* Taking one item off the queue.
LEMMA ConsumeData ==
    ASSUME DataInv, queue # << >>, NEW goOn, NEW atEnd, NEW atLimit, Consume(goOn, atEnd, atLimit),
           pc' \notin Starting
    PROVE  DataInv'
  <1> DEFINE c == Head(queue)
  <1>1. /\ queue' = Tail(queue) /\ UNCHANGED <<socket, held, reader, written>>
        /\ c = None \/ limit => UNCHANGED <<output, total, limit>>
        /\ ~(c = None \/ limit) => /\ total' = total + Capped(c).size
                                   /\ limit' = (Capped(c) # c)
                                   /\ output' = Append(output, Capped(c))
    BY DEF Consume, capping, history
  <1>2. /\ queue' \in Seq(Chunks)
        /\ c = None => Pending' = Pending
        /\ c # None => Pending # << >> /\ Head(Pending) = c /\ Pending' = Tail(Pending)
    BY <1>1, PendingTail DEF DataInv
  <1> HIDE DEF c
  <1>3. ReaderInv'
    <2>1. queue \in Seq(Chunks)
      BY DEF DataInv, DataType
    <2>2. Len(queue') = Len(queue) - 1 /\ Len(queue) \in Nat /\ \A i \in 1..(Len(queue) - 1) : queue'[i] = queue[i + 1]
      BY <1>1, <2>1, HeadTailProperties, LenProperties
    <2>3. \A i \in 1..Len(queue) : queue[i] = None => i = Len(queue) /\ reader = "done"
      BY DEF DataInv, ReaderInv
    <2>4. \A i \in 1..Len(queue') : queue'[i] = None => i = Len(queue') /\ reader' = "done"
      <3> DEFINE n == Len(queue)
      <3>1. ASSUME NEW i \in 1..(n - 1), queue'[i] = None PROVE i = n - 1 /\ reader = "done"
        <4>1. n \in Nat /\ i + 1 \in 1..n /\ queue[i + 1] = None
          BY <2>2, <3>1
        <4>2. i + 1 = n /\ reader = "done"
          BY <2>3, <4>1
        <4> QED BY <4>1, <4>2
      <3> QED BY <1>1, <2>2, <3>1
    <2> QED BY <1>1, <2>4 DEF DataInv, ReaderInv
  <1>4. CASE c = None
    <2>1. UNCHANGED <<output, total, limit>>
      BY <1>1, <1>4
    <2>2. FlowInv' /\ BytesInv'
      BY <1>1, <1>2, <1>4, <2>1, FlowRests DEF DataInv
    <2>3. DataType'
      BY <1>1, <1>2, <2>1 DEF DataInv, DataType
    <2> QED BY <1>3, <2>2, <2>3 DEF DataInv
  <1>5. CASE c # None
    <2>1. \/ limit /\ UNCHANGED <<output, total, limit>>
          \/ /\ ~limit
             /\ total' = total + Capped(c).size
             /\ limit' = (Capped(c) # c)
             /\ output' = Append(output, Capped(c))
      BY <1>1, <1>5
    <2>2. Pending # << >> /\ Head(Pending) = c /\ Pending' = Tail(Pending) /\ UNCHANGED written
      BY <1>1, <1>2, <1>5
    <2>3. /\ output' \in Seq(Chunks) /\ total' \in Nat /\ total' <= MaxBytes /\ limit' \in BOOLEAN
          /\ FlowInv' /\ BytesInv'
      BY <2>1, <2>2, FlowTakes
    <2>4. DataType'
      BY <1>1, <1>2, <2>3 DEF DataInv, DataType
    <2> QED BY <1>3, <2>3, <2>4 DEF DataInv
  <1> QED BY <1>4, <1>5

\* The container's output.
LEMMA WriteData == ASSUME DataInv, Write PROVE DataInv'
  <1>1. PICK z \in Sizes : /\ written' = Append(written, z)
                           /\ socket' = Append(socket, [n |-> Len(written) + 1, size |-> z])
    BY DEF Write
  <1>2. UNCHANGED <<pc, reader, queue, held, output, total, limit>>
    BY DEF Write, capping, history
  <1>3. written' \in Seq(Sizes) /\ socket' \in Seq(Chunks) /\ FlowInv' /\ BytesInv'
    BY <1>1, <1>2, FlowWrites
  <1>4. DataType'
    BY <1>2, <1>3 DEF DataInv, DataType
  <1>5. ReaderInv'
    BY <1>2 DEF DataInv, ReaderInv
  <1> QED BY <1>3, <1>4, <1>5 DEF DataInv

\* The thread's steps.
LEMMA ReaderData == ASSUME DataInv, Reader PROVE DataInv'
  <1>1. UNCHANGED <<output, written, total, limit>>
    BY DEF Reader, Test, Receive, ReceiveEnds, Put, capping, history
  <1>2. /\ socket' \in Seq(Chunks) /\ held' \in Seq(Chunks) /\ queue' \in Seq(Chunks)
        /\ ReaderInv' /\ Pending' = Pending
    BY PendingMoves
  <1>3. DataType'
    BY <1>1, <1>2 DEF DataInv, DataType
  <1> QED BY <1>1, <1>2, <1>3, FlowRests DEF DataInv

\* The chunks under way and yielded, at every step.
LEMMA StepData == ASSUME DataInv, [DockerNext]_dockerVars PROVE DataInv'
  <1>1. CASE UNCHANGED dockerVars
    <2>1. UNCHANGED <<pc, reader, socket, held, queue, output, written, total, limit>>
      BY <1>1 DEF dockerVars, capping, history
    <2> QED BY <2>1, QuietData
  <1>2. CASE StartsUp \/ Watch \/ StopAtLimit \/ Looks
    <2>1. UNCHANGED <<socket, held, queue, output, written, total, limit>>
      BY <1>2 DEF StartsUp, Begin, Create, Attach, Start, StartReader, CallFails, Watch, StopAtLimit, Looks,
                  DrainEnds, LookAtContainer, LookAtQueue, StopReader, Join, RestEnds, Report, Yield, capping,
                  history
    <2>2. \/ reader' = reader /\ (pc' \in Starting => pc \in Starting)
          \/ pc = "read" /\ reader' = "test" /\ pc' = "poll"
      BY <1>2 DEF StartsUp, Begin, Create, Attach, Start, StartReader, CallFails, Watch, StopAtLimit, Looks,
                  DrainEnds, LookAtContainer, LookAtQueue, StopReader, Join, RestEnds, Report, Starting
    <2>3. pc = "read" => reader = "off"
      BY DEF DataInv, ReaderInv, Starting
    <2>4. pc' = "poll" => pc' \notin Starting
      BY DEF Starting
    <2> QED BY <2>1, <2>2, <2>3, <2>4, QuietData
  <1>3. CASE DrainOne
    <2>1. queue # << >> /\ Consume("drain", "judge", "judge")
      BY <1>3 DEF DrainOne
    <2>2. pc' \notin Starting
      BY <2>1 DEF Consume, Starting
    <2> QED BY <2>1, <2>2, ConsumeData
  <1>4. CASE DrainRest
    <2>1. queue # << >> /\ Consume("final", "final", "final")
      BY <1>4 DEF DrainRest
    <2>2. pc' \notin Starting
      BY <2>1 DEF Consume, Starting
    <2> QED BY <2>1, <2>2, ConsumeData
  <1>5. CASE Others
    <2>1. CASE Reader
      BY <2>1, ReaderData
    <2>2. CASE Write
      BY <2>2, WriteData
    <2>3. CASE Cleanup \/ Published \/ PublishFails \/ WorkerDies \/ WriteStdin \/ SendReturns \/ SendSignal
               \/ Exit \/ Reap \/ TimePasses
      <3>1. UNCHANGED <<socket, held, queue, output, written, total, limit>>
        BY <2>3 DEF Cleanup, Removal, Published, PublishFails, WorkerDies, WriteStdin, SendReturns,
                    SendSignal, Exit,
                    Reap, TimePasses, capping, history
      <3>2. \/ reader' = reader /\ (pc' \in Starting => pc \in Starting)
            \/ reader' = "done" /\ pc' \notin Starting
        BY <2>3 DEF Cleanup, Removal, Published, PublishFails, WorkerDies, WriteStdin, SendReturns,
                    SendSignal, Exit,
                    Reap, TimePasses, Starting
      <3> QED BY <3>1, <3>2, QuietData
    <2> QED BY <1>5, <2>1, <2>2, <2>3 DEF Others
  <1> QED BY <1>1, <1>2, <1>3, <1>4, <1>5, StepKinds

-----------------------------------------------------------------------------
(* DockerSandbox: the theorems *)

\* Where generator and container stand, and what became of every chunk, holds
\* in every reachable state.
THEOREM Contained == DockerSpec => []DockerInv
  <1>1. DockerInit => DockerInv
    BY InitControl, InitData DEF DockerInv
  <1>2. DockerInv /\ [DockerNext]_dockerVars => DockerInv'
    BY StepControl, StepData DEF DockerInv
  <1> QED BY <1>1, <1>2, PTL DEF DockerSpec

\* Before the cap is met, what was yielded and what is under way are what the
\* code wrote.
LEMMA InvConserved == DataInv => Conserved
  <1>1. SUFFICES ASSUME DataInv, ~limit PROVE output \o Pending = Original
    BY DEF Conserved
  <1> DEFINE w == Len(written)
             p == Len(Pending)
             o == Len(output)
             both == output \o Pending
  <1>2. Pending \in Seq(Chunks) /\ written \in Seq(Sizes) /\ output \in Seq(Chunks)
    BY <1>1, PendingType DEF DataInv, DataType
  <1>3. w \in Nat /\ p \in Nat /\ o \in Nat /\ \A i \in 1..w : written[i] \in Sizes
    BY <1>2, LenProperties, ElementOfSeq
  <1>4. o + p = w /\ (\A i \in 1..p : Pending[i] = [n |-> w - p + i, size |-> written[w - p + i]])
        /\ \A i \in 1..o : output[i] = [n |-> 0 + i, size |-> written[0 + i]]
    BY <1>1 DEF DataInv, FlowInv, Numbered
  <1>5. both \in Seq(Chunks) /\ Len(both) = o + p
        /\ \A i \in 1..(o + p) : both[i] = IF i <= o THEN output[i] ELSE Pending[i - o]
    BY <1>2, ConcatProperties
  <1>6. Original = [i \in 1..w |-> [n |-> i, size |-> written[i]]]
    BY DEF Original
  <1> HIDE DEF w, p, o, both
  <1>7. ASSUME NEW i \in 1..w PROVE both[i] = [n |-> i, size |-> written[i]]
    <2>1. CASE i <= o
      <3>1. i \in 1..o /\ i \in 1..(o + p) /\ 0 + i = i
        BY <1>3, <1>4, <1>7, <2>1
      <3> QED BY <1>4, <1>5, <2>1, <3>1
    <2>2. CASE ~(i <= o)
      <3>1. i - o \in 1..p /\ i \in 1..(o + p) /\ w - p + (i - o) = i
        BY <1>3, <1>4, <1>7, <2>2
      <3> QED BY <1>4, <1>5, <2>2, <3>1
    <2> QED BY <2>1, <2>2
  <1>8. Original \in Seq(Chunks) /\ Len(Original) = w /\ \A i \in 1..w : Original[i] = [n |-> i, size |-> written[i]]
    <2>1. \A i \in 1..w : [n |-> i, size |-> written[i]] \in Chunks
      <3>1. ASSUME NEW i \in 1..w PROVE [n |-> i, size |-> written[i]] \in Chunks
        <4>1. i \in Nat
          BY <1>3, <3>1
        <4>2. written[i] \in Sizes
          BY <1>3, <3>1
        <4>3. written[i] \in Nat
          BY <4>2, Shapes
        <4> QED BY <4>1, <4>3 DEF Chunks
      <3> QED BY <3>1
    <2> QED BY <1>3, <1>6, <2>1
  <1>9. both = Original
    BY <1>4, <1>5, <1>7, <1>8, SeqEqual
  <1> QED BY <1>9 DEF both

\* Socket, thread and queue lose, double and swap no chunk.
THEOREM NoChunkLost == DockerSpec => []Conserved
  <1>1. DockerInv => Conserved
    BY InvConserved DEF DockerInv
  <1> QED BY <1>1, Contained, PTL

\* What was yielded is the capped beginning of what the code wrote.
LEMMA InvPrefix == DataInv => ShownIsCappedPrefix
  <1>1. SUFFICES ASSUME DataInv PROVE ShownIsCappedPrefix
    OBVIOUS
  <1>2. SizeOf(output) = total
    BY <1>1 DEF DataInv, BytesInv
  <1>3. ASSUME NEW i \in 1..Len(output)
        PROVE  /\ output[i].n = i
               /\ \/ output[i].size = written[i]
                  \/ limit /\ i = Len(output) /\ total = MaxBytes
    <2> DEFINE o == Len(output)
    <2>1. o \in Nat /\ i \in 1..o /\ 0 + i = i
      BY <1>1, LenProperties DEF DataInv, DataType
    <2>2. \/ \A j \in 1..o : output[j] = [n |-> 0 + j, size |-> written[0 + j]]
          \/ /\ limit /\ total = MaxBytes
             /\ \A j \in 1..(o - 1) : output[j] = [n |-> 0 + j, size |-> written[0 + j]]
             /\ output[o].n = o
      BY <1>1 DEF DataInv, FlowInv, Numbered
    <2> HIDE DEF o
    <2>3. CASE output[i] = [n |-> 0 + i, size |-> written[0 + i]]
      BY <2>1, <2>3
    <2>4. CASE limit /\ total = MaxBytes /\ i = o /\ output[o].n = o
      BY <2>4 DEF o
    <2>5. i \in 1..(o - 1) \/ i = o
      BY <2>1
    <2> QED BY <2>1, <2>2, <2>3, <2>4, <2>5
  <1> QED BY <1>2, <1>3 DEF ShownIsCappedPrefix

\* What the user sees is the beginning of what the code wrote, cut at the cap.
THEOREM ShownPrefix == DockerSpec => []ShownIsCappedPrefix
  <1>1. DockerInv => ShownIsCappedPrefix
    BY InvPrefix DEF DockerInv
  <1> QED BY <1>1, Contained, PTL

\* Where the cap was met, the code wrote more than it.
LEMMA CapWasExceeded == ASSUME DataInv, limit PROVE SizeOf(Original) > MaxBytes
  <1> DEFINE w == Len(written)
             o == Len(output)
             f == [i \in 1..w |-> written[i]]
             g == [i \in 1..o |-> output[i].size]
             h == [i \in 1..w |-> Original[i].size]
  <1>1. written \in Seq(Sizes) /\ output \in Seq(Chunks) /\ Len(Pending) \in Nat
    BY PendingType DEF DataInv, DataType
  <1>2. w \in Nat /\ o \in Nat /\ DOMAIN output = 1..o
        /\ (\A i \in 1..w : written[i] \in Sizes) /\ \A i \in 1..o : output[i] \in Chunks
    BY <1>1, LenProperties, ElementOfSeq
  <1>3. /\ o >= 1 /\ total = MaxBytes /\ o + Len(Pending) <= w
        /\ \A i \in 1..(o - 1) : output[i] = [n |-> 0 + i, size |-> written[0 + i]]
        /\ output[o].size < written[o]
    BY DEF DataInv, FlowInv, Numbered
  <1>4. SizeOf(output) = SumTo(g, o) /\ SizeOf(output) = total
    BY <1>2 DEF SizeOf, DataInv, BytesInv
  <1>5. SizeOf(Original) = SumTo(h, w)
    <2>1. Original = [i \in 1..w |-> [n |-> i, size |-> written[i]]]
      BY DEF Original
    <2>2. DOMAIN Original = 1..w /\ Len(Original) = w
      BY <1>2, <2>1
    <2> QED BY <2>2 DEF SizeOf
  <1>6. \A i \in 1..w : h[i] = written[i] /\ f[i] = written[i] /\ written[i] \in Nat
    BY <1>2, Shapes DEF Original
  <1>7. \A i \in 1..o : g[i] = output[i].size /\ output[i].size \in Nat
    BY <1>2, Shapes
  <1> HIDE DEF f, g, h, w, o
  <1>8. o - 1 \in Nat /\ o - 1 <= o /\ o <= w /\ (o - 1) + 1 = o
    BY <1>1, <1>2, <1>3
  <1>9. SumTo(g, o) = SumTo(g, o - 1) + output[o].size
    <2>1. SumTo(g, (o - 1) + 1) = SumTo(g, o - 1) + g[(o - 1) + 1]
      BY <1>8, SumSteps
    <2> QED BY <1>2, <1>3, <1>7, <1>8, <2>1
  <1>10. SumTo(f, o) = SumTo(f, o - 1) + written[o]
    <2>1. SumTo(f, (o - 1) + 1) = SumTo(f, o - 1) + f[(o - 1) + 1]
      BY <1>8, SumSteps
    <2> QED BY <1>2, <1>3, <1>6, <1>8, <2>1
  <1>11. SumTo(g, o - 1) = SumTo(f, o - 1)
    <2>1. \A i \in 1..(o - 1) : g[i] = f[i]
      <3>1. ASSUME NEW i \in 1..(o - 1) PROVE g[i] = f[i]
        <4>1. i \in 1..o /\ i \in 1..w /\ 0 + i = i
          BY <1>2, <1>8, <3>1
        <4>2. output[i] = [n |-> 0 + i, size |-> written[0 + i]]
          BY <1>3, <3>1
        <4>3. output[i].size = written[i]
          BY <4>1, <4>2
        <4> QED BY <1>6, <1>7, <4>1, <4>3
      <3> QED BY <3>1
    <2> QED BY <1>8, <2>1, SumSame
  <1>12. SumTo(f, o - 1) \in Nat
    <2>1. \A i \in 1..(o - 1) : f[i] \in Nat
      BY <1>2, <1>6, <1>8
    <2> QED BY <1>8, <2>1, SumNat
  <1>13. SumTo(f, o) <= SumTo(f, w) /\ SumTo(f, o) \in Nat /\ SumTo(f, w) \in Nat
    <2>1. (\A i \in 1..w : f[i] \in Nat) /\ \A i \in 1..o : f[i] \in Nat
      BY <1>2, <1>6, <1>8
    <2> QED BY <1>2, <1>8, <2>1, SumGrows, SumNat
  <1>14. SumTo(f, w) = SumTo(h, w)
    BY <1>2, <1>6, SumSame
  <1>15. o \in 1..o /\ o \in 1..w
    BY <1>2, <1>3, <1>8
  <1>16. SumTo(g, o) < SumTo(f, o)
    BY <1>3, <1>6, <1>7, <1>9, <1>10, <1>11, <1>12, <1>15
  <1> QED BY <1>3, <1>4, <1>5, <1>7, <1>9, <1>11, <1>12, <1>13, <1>14, <1>15, <1>16

\* Only Report sets a verdict, and a justified one.
LEMMA VerdictStep == ASSUME DockerInv, [DockerNext]_dockerVars, verdict' # verdict PROVE Justified'
  <1>1. Report
    <2>1. CASE UNCHANGED dockerVars
      BY <2>1 DEF dockerVars, verdicts
    <2>2. CASE StartsUp \/ Watch \/ StopAtLimit \/ DrainOne \/ DrainRest
      BY <2>2 DEF StartsUp, Begin, Create, Attach, Start, StartReader, CallFails, Watch, StopAtLimit, DrainOne,
                  DrainRest, Consume, verdicts
    <2>3. CASE Looks
      BY <2>3 DEF Looks, DrainEnds, LookAtContainer, LookAtQueue, StopReader, Join, RestEnds, verdicts
    <2>4. CASE Others
      BY <2>4 DEF Others, Cleanup, Removal, Published, PublishFails, WorkerDies, WriteStdin, SendReturns,
                  SendSignal,
                  Reader, Test, Receive, ReceiveEnds, Put, Write, Exit, Reap, TimePasses, verdicts
    <2> QED BY <2>1, <2>2, <2>3, <2>4, StepKinds
  <1>2. /\ pc = "inspect" /\ box \in {"created", "running", "exited"} /\ verdict' = Status
        /\ UNCHANGED <<elapsed, deadline, box, code, output, written>>
    BY <1>1 DEF Report, Exists, clocks, container
  <1>3. SizeOf(output') = SizeOf(output) /\ SizeOf(Original)' = SizeOf(Original)
    BY <1>2 DEF SizeOf, Original
  <1>4. /\ timedOut => elapsed = deadline
        /\ code # 0 \/ oom => box = "exited"
        /\ oom => code = Killed
        /\ ~timedOut /\ ~limit => box = "exited"
        /\ code \in {0, 1, Killed}
    BY <1>2 DEF DockerInv, ControlInv, RunType, EndInv
  <1>5. limit => SizeOf(Original) > MaxBytes
    BY CapWasExceeded DEF DockerInv
  <1>6. SizeOf(output) <= MaxBytes
    BY DEF DockerInv, DataInv, DataType, BytesInv
  <1>7. box' # "removed"
    BY <1>2
  <1>8. CASE timedOut
    <2>1. verdict' = "TIME_LIMIT_EXCEEDED"
      BY <1>2, <1>8 DEF Status
    <2> QED BY <1>2, <1>4, <1>7, <1>8, <2>1 DEF Justified
  <1>9. CASE ~timedOut /\ (oom \/ code = Killed)
    <2>1. verdict' = "MEMORY_LIMIT_EXCEEDED"
      BY <1>2, <1>9 DEF Status
    <2>2. code = Killed /\ code # 0
      BY <1>4, <1>9, Shapes
    <2> QED BY <1>2, <1>4, <1>7, <2>1, <2>2 DEF Justified
  <1>10. CASE ~timedOut /\ ~(oom \/ code = Killed) /\ limit
    <2>1. verdict' = "OUTPUT_LIMIT_EXCEEDED"
      BY <1>2, <1>10 DEF Status
    <2> QED BY <1>3, <1>5, <1>7, <1>10, <2>1 DEF Justified
  <1>11. CASE ~timedOut /\ ~(oom \/ code = Killed) /\ ~limit /\ code = 0
    <2>1. verdict' = "COMPLETED"
      BY <1>2, <1>11 DEF Status
    <2> QED BY <1>2, <1>3, <1>4, <1>6, <1>7, <1>11, <2>1 DEF Justified
  <1>12. CASE ~timedOut /\ ~(oom \/ code = Killed) /\ ~limit /\ code # 0
    <2>1. verdict' = "RUNTIME_ERROR" /\ code = 1
      BY <1>2, <1>4, <1>12 DEF Status
    <2> QED BY <1>2, <1>4, <1>7, <1>12, <2>1 DEF Justified
  <1> QED BY <1>8, <1>9, <1>10, <1>11, <1>12

\* A status says what the container's end was, of a container that exists.
THEOREM VerdictsSaySo == DockerSpec => VerdictJustified
  <1>1. DockerInv /\ [DockerNext]_dockerVars => [verdict' # verdict => Justified']_dockerVars
    BY VerdictStep
  <1> QED BY <1>1, Contained, PTL DEF DockerSpec, VerdictJustified

\* The chunks of a step are those the protocol allows.
LEMMA StepKeepsProtocol == ASSUME ControlInv, [DockerNext]_dockerVars PROVE [Abs!Next]_<<Phase, count>>
  <1>1. CASE UNCHANGED <<last, count>>
    BY <1>1 DEF Phase
  <1>2. ASSUME NEW kind \in {"data", "error"}, Yield(kind), last \in {"none", "data"}
        PROVE  Abs!Next
    BY <1>2 DEF Yield, Phase, Abs!Next, Abs!Chunk
  <1>3. ASSUME NEW kind \in {"error", "complete"}, Yield(kind), last \in {"none", "data", "error"}
        PROVE  Abs!Next
    BY <1>3 DEF Yield, Phase, Abs!Next, Abs!Chunk
  <1>4. pc \in Starting \cup Looping \cup {"look", "stop", "join", "final"} => last \in {"none", "data"}
    BY DEF ControlInv, EndInv
  <1>5. pc = "inspect" => last \in {"none", "data", "error"}
    BY DEF ControlInv, RunType, EndInv, Finished, Concluded
  <1>6. CASE StartsUp
    <2>1. \/ UNCHANGED <<last, count>>
          \/ pc \in Starting /\ Yield("data")
          \/ pc \in Starting \cup {"inspect"} /\ Yield("error")
      BY <1>6 DEF StartsUp, Begin, Create, Attach, Start, StartReader, CallFails, Starting, history
    <2> QED BY <1>1, <1>2, <1>3, <1>4, <1>5, <2>1
  <1>7. CASE Watch \/ StopAtLimit
    BY <1>1, <1>7 DEF Watch, StopAtLimit, history
  <1>8. CASE DrainOne \/ DrainRest
    <2>1. pc \in {"drain", "final"} /\ (UNCHANGED <<last, count>> \/ Yield("data"))
      BY <1>8 DEF DrainOne, DrainRest, Consume, history
    <2> QED BY <1>1, <1>2, <1>4, <2>1 DEF Looping
  <1>9. CASE Looks
    <2>1. \/ UNCHANGED <<last, count>>
          \/ pc = "final" /\ Yield("error")
          \/ pc = "inspect" /\ Yield("complete")
      BY <1>9 DEF Looks, DrainEnds, LookAtContainer, LookAtQueue, StopReader, Join, RestEnds, Report, history
    <2> QED BY <1>1, <1>2, <1>3, <1>4, <1>5, <2>1
  <1>10. CASE Others
    <2>1. UNCHANGED <<last, count>>
      BY <1>10 DEF Others, Cleanup, Removal, Published, PublishFails, WorkerDies, WriteStdin, SendReturns,
                   SendSignal,
                   Reader, Test, Receive, ReceiveEnds, Put, Write, Exit, Reap, TimePasses, history
    <2> QED BY <1>1, <2>1
  <1>11. CASE UNCHANGED dockerVars
    BY <1>1, <1>11 DEF dockerVars, history
  <1> QED BY <1>6, <1>7, <1>8, <1>9, <1>10, <1>11, StepKinds

\* The Docker sandbox keeps the protocol its consumers rely on, with the second
\* ERROR that a daemon failure after a timeout notice makes.
THEOREM ContainerProtocol == DockerSpec => ImplementsChunkProtocol
  <1>1. DockerInit => Abs!Init
    BY DEF DockerInit, Phase, Abs!Init
  <1>2. DockerInv /\ [DockerNext]_dockerVars => [Abs!Next]_<<Phase, count>>
    BY StepKeepsProtocol DEF DockerInv
  <1> QED BY <1>1, <1>2, Contained, PTL DEF DockerSpec, ImplementsChunkProtocol, Abs!Spec

-----------------------------------------------------------------------------
(* DockerSandbox: what outlives a run *)

\* The generator knows its container from the answer to create on; one it does
\* not know is never started; one it knows is gone when it closes.
KnownInv ==
    /\ pc \in {"begin", "create"} => ~handle /\ box = "absent"
    /\ pc \notin {"begin", "create"} \cup Finished => handle
    /\ ~handle => box \in {"absent", "created", "removed"}
    /\ pc = "closed" /\ handle => ~Exists
    /\ handle => box # "absent"

\* It is inductive.
LEMMA StepKnown == ASSUME KnownInv, [DockerNext]_dockerVars PROVE KnownInv'
  <1> USE DEF KnownInv, Finished, Concluded, Exists
  <1>1. CASE StartsUp
    BY <1>1 DEF StartsUp, Begin, Create, Attach, Start, StartReader, CallFails, container, attached
  <1>2. CASE Watch \/ StopAtLimit
    <2>1. /\ UNCHANGED handle /\ pc \in {"poll", "judge"} /\ pc' \in {"join", "drain"}
          /\ box' = box \/ (box = "running" /\ box' = "exited")
      BY <1>2 DEF Watch, StopAtLimit, Kill, attached, container
    <2> QED BY <2>1
  <1>3. CASE Looks \/ DrainOne \/ DrainRest
    <2>1. /\ UNCHANGED <<handle, box>>
          /\ pc \in {"drain", "judge", "look", "stop", "join", "final", "inspect"}
          /\ pc' \in {"judge", "drain", "poll", "look", "stop", "join", "final", "inspect", "cleanup"}
      BY <1>3 DEF Looks, DrainEnds, LookAtContainer, LookAtQueue, StopReader, Join, RestEnds, Report,
                  DrainOne, DrainRest, Consume, attached, container
    <2> QED BY <2>1
  <1>4. CASE Cleanup
    BY <1>4 DEF Cleanup, Removal, attached
  <1>5. CASE Others /\ ~Cleanup
    <2>1. /\ UNCHANGED handle
          /\ \/ UNCHANGED box
             \/ Exists /\ box' = "removed"
             \/ box = "running" /\ box' = "exited"
      BY <1>5 DEF Others, Published, PublishFails, WorkerDies, WriteStdin, SendReturns, SendSignal,
                  Reader, Test, Receive, ReceiveEnds, Put, Write, Exit, Reap, TimePasses, attached, container
    <2>2. \/ UNCHANGED pc
          \/ pc' = "crashed"
          \/ pc' = "cleanup"
      BY <1>5 DEF Others, Published, PublishFails, WorkerDies, WriteStdin, SendReturns, SendSignal,
                  Reader, Test, Receive, ReceiveEnds, Put, Write, Exit, Reap, TimePasses
    <2> QED BY <2>1, <2>2
  <1>6. CASE UNCHANGED dockerVars
    BY <1>6 DEF dockerVars, attached, container
  <1> QED BY <1>1, <1>2, <1>3, <1>4, <1>5, <1>6, StepKinds DEF Others

\* Whatever daemon calls fail, publications are lost, workers die and the janitor
\* does, a container outlives its run only for the causes named.
THEOREM Leftovers == DockerSpec => []LeftoversExplained
  <1>1. DockerInit => KnownInv
    BY DEF DockerInit, KnownInv, Finished, Concluded
  <1>2. KnownInv /\ [DockerNext]_dockerVars => KnownInv'
    BY StepKnown
  <1>3. KnownInv => LeftoversExplained
    BY DEF KnownInv, LeftoversExplained, Concluded, Exists
  <1> QED BY <1>1, <1>2, <1>3, PTL DEF DockerSpec
=============================================================================
