----------------------- MODULE StreamDelivery_proofs -----------------------
(***************************************************************************)
(* Theorems of StreamDelivery for every set of connections and every       *)
(* bound.  The argument: Seqs and Increasing turn queues into sets of      *)
(* numbers (first four lemmas); TypeOK is inductive alone; StreamInv is    *)
(* inductive given TypeOK; the two promised invariants follow from it.     *)
(***************************************************************************)
EXTENDS StreamDelivery, TLAPS

\* The numbers of a queue of frames are naturals.
LEMMA SeqsType == ASSUME NEW fs \in Seq(Frames) PROVE Seqs(fs) \subseteq Nat
  <1>1. \A i \in 1..Len(fs) : fs[i] \in Frames
    OBVIOUS
  <1>2. \A f \in Frames : f.seq \in Nat
    BY DEF Frames
  <1> QED BY <1>1, <1>2 DEF Seqs

\* Appending a frame adds exactly its number.
LEMMA AppendSeqs ==
  ASSUME NEW fs \in Seq(Frames), NEW f \in Frames
  PROVE  /\ Append(fs, f) \in Seq(Frames)
         /\ Seqs(Append(fs, f)) = Seqs(fs) \cup {f.seq}
  <1>1. /\ Append(fs, f) \in Seq(Frames)
        /\ Len(Append(fs, f)) = Len(fs) + 1
        /\ \A i \in 1..Len(fs) : Append(fs, f)[i] = fs[i]
        /\ Append(fs, f)[Len(fs) + 1] = f
    OBVIOUS
  <1>2. \A i \in 1..(Len(fs) + 1) : i \in 1..Len(fs) \/ i = Len(fs) + 1
    OBVIOUS
  <1>3. 1..Len(fs) \subseteq 1..(Len(fs) + 1) /\ Len(fs) + 1 \in 1..(Len(fs) + 1)
    OBVIOUS
  <1> QED BY <1>1, <1>2, <1>3, Zenon DEF Seqs

\* A non-empty queue is its head and its tail.
LEMMA TailSeqs ==
  ASSUME NEW fs \in Seq(Frames), fs # << >>
  PROVE  /\ Head(fs) \in Frames
         /\ Tail(fs) \in Seq(Frames)
         /\ Seqs(fs) = {Head(fs).seq} \cup Seqs(Tail(fs))
  <1>1. /\ Len(fs) >= 1 /\ Len(fs) \in Nat
        /\ Head(fs) = fs[1]
        /\ Tail(fs) \in Seq(Frames)
        /\ Len(Tail(fs)) = Len(fs) - 1
        /\ \A i \in 1..(Len(fs) - 1) : Tail(fs)[i] = fs[i + 1]
    OBVIOUS
  <1>2. Head(fs) \in Frames
    BY <1>1
  <1>3. ASSUME NEW n \in Seqs(fs) PROVE n \in {Head(fs).seq} \cup Seqs(Tail(fs))
    <2>1. PICK i \in 1..Len(fs) : n = fs[i].seq
      BY <1>3 DEF Seqs
    <2>2. CASE i = 1
      BY <2>1, <2>2, <1>1
    <2>3. CASE i # 1
      <3>1. i - 1 \in 1..(Len(fs) - 1) /\ Tail(fs)[i - 1] = fs[i]
        BY <2>3, <1>1
      <3> QED BY <3>1, <2>1, <1>1 DEF Seqs
    <2> QED BY <2>2, <2>3
  <1>4. ASSUME NEW n \in {Head(fs).seq} \cup Seqs(Tail(fs)) PROVE n \in Seqs(fs)
    <2>1. CASE n = Head(fs).seq
      BY <2>1, <1>1 DEF Seqs
    <2>2. CASE n \in Seqs(Tail(fs))
      <3>1. PICK i \in 1..(Len(fs) - 1) : n = Tail(fs)[i].seq
        BY <2>2, <1>1 DEF Seqs
      <3>2. i + 1 \in 1..Len(fs) /\ n = fs[i + 1].seq
        BY <3>1, <1>1
      <3> QED BY <3>2 DEF Seqs
    <2> QED BY <1>4, <2>1, <2>2
  <1> QED BY <1>1, <1>2, <1>3, <1>4

\* Appending a larger number keeps the order.
LEMMA AppendIncreasing ==
  ASSUME NEW fs \in Seq(Frames), NEW f \in Frames,
         Increasing(fs), \A n \in Seqs(fs) : n < f.seq
  PROVE  Increasing(Append(fs, f))
  <1>1. /\ Len(Append(fs, f)) = Len(fs) + 1
        /\ \A i \in 1..Len(fs) : Append(fs, f)[i] = fs[i]
        /\ Append(fs, f)[Len(fs) + 1] = f
    OBVIOUS
  <1>2. SUFFICES ASSUME NEW i \in 1..(Len(fs) + 1), NEW j \in 1..(Len(fs) + 1), i < j
                 PROVE  Append(fs, f)[i].seq < Append(fs, f)[j].seq
    BY <1>1 DEF Increasing
  <1>3. i \in 1..Len(fs) /\ fs[i].seq \in Seqs(fs)
    BY <1>2 DEF Seqs
  <1>4. CASE j \in 1..Len(fs)
    BY <1>1, <1>2, <1>3, <1>4 DEF Increasing
  <1>5. CASE j = Len(fs) + 1
    BY <1>1, <1>3, <1>5
  <1> QED BY <1>4, <1>5

\* The tail of an ordered queue is ordered and lies above the head.
LEMMA TailIncreasing ==
  ASSUME NEW fs \in Seq(Frames), fs # << >>, Increasing(fs)
  PROVE  Increasing(Tail(fs)) /\ \A n \in Seqs(Tail(fs)) : Head(fs).seq < n
  <1>1. /\ Len(fs) >= 1 /\ Len(fs) \in Nat
        /\ Head(fs) = fs[1]
        /\ Len(Tail(fs)) = Len(fs) - 1
        /\ \A i \in 1..(Len(fs) - 1) : Tail(fs)[i] = fs[i + 1]
    OBVIOUS
  <1>2. ASSUME NEW i \in 1..(Len(fs) - 1)
        PROVE  i + 1 \in 1..Len(fs) /\ 1 \in 1..Len(fs) /\ 1 < i + 1
    BY <1>1
  <1>3. Increasing(Tail(fs))
    <2>1. SUFFICES ASSUME NEW i \in 1..(Len(fs) - 1), NEW j \in 1..(Len(fs) - 1), i < j
                   PROVE  Tail(fs)[i].seq < Tail(fs)[j].seq
      BY <1>1 DEF Increasing
    <2>2. i + 1 \in 1..Len(fs) /\ j + 1 \in 1..Len(fs) /\ i + 1 < j + 1
      BY <2>1, <1>1
    <2>3. fs[i + 1].seq < fs[j + 1].seq
      BY <2>2 DEF Increasing
    <2> QED BY <2>3, <1>1
  <1>4. ASSUME NEW n \in Seqs(Tail(fs)) PROVE Head(fs).seq < n
    <2>1. PICK i \in 1..(Len(fs) - 1) : n = Tail(fs)[i].seq
      BY <1>4, <1>1 DEF Seqs
    <2> QED BY <2>1, <1>1, <1>2 DEF Increasing
  <1> QED BY <1>3, <1>4

\* The empty queue.
LEMMA EmptySeqs == Seqs(<< >>) = {} /\ Increasing(<< >>)
  BY DEF Seqs, Increasing

\* The empty sequence is a sequence of frames.
LEMMA EmptyType == << >> \in Seq(Frames)
  OBVIOUS

-----------------------------------------------------------------------------
(* Type correctness *)

\* Every action keeps the types: TypeOK is an invariant of StreamDelivery.
LEMMA TypeStep == TypeOK /\ [Next]_vars => TypeOK'
  <1> SUFFICES ASSUME TypeOK, [Next]_vars PROVE TypeOK'
    OBVIOUS
  <1> USE DEF TypeOK, workerVars, redisVars, sessionVars, history
  <1>0. Unbuffered \in SUBSET Nat
    BY DEF Unbuffered, Frames
  <1>1. ASSUME NEW e \in Events, Yield(e) PROVE TypeOK'
    BY <1>1 DEF Yield, Format, Phases, Steps, Events, Frames
  <1>2. CASE Finish
    BY <1>2 DEF Finish, Steps
  <1>3. CASE Publish
    <2>1. \A s \in Sessions : Append(inbox[s], frame) \in Seq(Frames)
      BY AppendSeqs
    <2> QED BY <1>3, <2>1 DEF Publish, Steps
  <1>4. CASE AppendToBuffer
    <2>1. Append(buffer, frame) \in Seq(Frames)
      BY AppendSeqs
    <2> QED BY <1>4, <2>1 DEF AppendToBuffer, Steps
  <1>5. CASE SetExpiry
    BY <1>5 DEF SetExpiry, Steps
  <1>6. CASE StreamFails
    <2>1. dropped' \in SUBSET Nat
      BY <1>6, <1>0 DEF StreamFails
    <2>2. frame' \in Frames /\ seq' \in Nat
      BY <1>6 DEF StreamFails, Format, Frames, Events
    <2> QED BY <1>6, <2>1, <2>2 DEF StreamFails, Format, Phases, Steps
  <1>7. CASE WorkerStops
    <2>1. dropped' \in SUBSET Nat
      BY <1>7, <1>0 DEF WorkerStops
    <2> QED BY <1>7, <2>1 DEF WorkerStops, Steps
  <1>8. CASE BufferExpires
    <2>1. dropped' \in SUBSET Nat
      <3>1. Seqs(buffer) \subseteq Nat
        BY SeqsType, Zenon
      <3>2. dropped' = dropped \cup Seqs(buffer)
        BY <1>8 DEF BufferExpires
      <3>3. dropped \subseteq Nat
        OBVIOUS
      <3> QED BY <3>1, <3>2, <3>3
    <2>2. buffer' \in Seq(Frames)
      BY <1>8, EmptyType DEF BufferExpires
    <2>3. ttl' \in BOOLEAN
      BY <1>8, Zenon DEF BufferExpires
    <2>4. /\ expiries' = expiries + 1
          /\ UNCHANGED <<workerVars, faults, sessionVars, inflight>>
      BY <1>8, Zenon DEF BufferExpires
    <2> QED BY <2>1, <2>2, <2>3, <2>4
  <1>9. ASSUME NEW s \in Sessions, Handshake(s) \/ Disconnect(s) PROVE TypeOK'
    BY <1>9 DEF Handshake, Disconnect, ConnStates
  <1>10. ASSUME NEW s \in Sessions, Subscribe(s) PROVE TypeOK'
    BY <1>10 DEF Subscribe, ConnStates, Frames
  <1>11. ASSUME NEW s \in Sessions, ReadBuffer(s) PROVE TypeOK'
    BY <1>11 DEF ReadBuffer, ConnStates
  <1>12. ASSUME NEW s \in Sessions, NEW f \in Frames, Forward(s, f)
         PROVE  /\ last' \in [Sessions -> Nat \cup {-1}]
                /\ sent' \in [Sessions -> Seq(Frames)]
    <2>1. Append(sent[s], f) \in Seq(Frames)
      BY AppendSeqs
    <2>2. f.seq \in Nat
      BY DEF Frames
    <2> QED BY <1>12, <2>1, <2>2 DEF Forward
  <1>13. ASSUME NEW s \in Sessions, ReplayFrame(s) PROVE TypeOK'
    <2>1. Head(replay[s]) \in Frames /\ Tail(replay[s]) \in Seq(Frames)
      BY <1>13, TailSeqs DEF ReplayFrame
    <2> QED BY <1>12, <1>13, <2>1 DEF ReplayFrame
  <1>14. ASSUME NEW s \in Sessions, ForwardLive(s) PROVE TypeOK'
    <2>1. Head(inbox[s]) \in Frames /\ Tail(inbox[s]) \in Seq(Frames)
      BY <1>14, TailSeqs DEF ForwardLive
    <2> QED BY <1>12, <1>14, <2>1 DEF ForwardLive, ConnStates
  <1>15. ASSUME NEW s \in Sessions, CloseSession(s) PROVE TypeOK'
    BY <1>15, EmptyType DEF CloseSession, ConnStates
  <1>16. CASE UNCHANGED vars
    BY <1>16 DEF vars
  <1> QED BY <1>1, <1>2, <1>3, <1>4, <1>5, <1>6, <1>7, <1>8, <1>9, <1>10, <1>11,
             <1>13, <1>14, <1>15, <1>16 DEF Next, Worker, Gateway

\* The initial state is well typed.
LEMMA TypeInit == Init => TypeOK
  <1> SUFFICES ASSUME Init PROVE TypeOK
    OBVIOUS
  <1>1. /\ inbox \in [Sessions -> Seq(Frames)]
        /\ replay \in [Sessions -> Seq(Frames)]
        /\ sent \in [Sessions -> Seq(Frames)]
        /\ buffer \in Seq(Frames)
    BY EmptyType DEF Init
  <1>2. /\ dropped \in SUBSET Nat
        /\ inflight \in [Sessions -> SUBSET Nat]
    BY DEF Init
  <1> QED BY <1>1, <1>2 DEF Init, TypeOK, Phases, Steps, Frames, Events, ConnStates

\* Every reachable state is well typed, for every set of connections and bound.
THEOREM TypeCorrect == Spec => []TypeOK
  BY TypeInit, TypeStep, PTL DEF Spec

-----------------------------------------------------------------------------
(* The inductive invariant *)

\* What StreamInv says of one session.
SessionInv(s) ==
    /\ FreshInv(s)
    /\ InboxInv(s)
    /\ ReplayInv(s)
    /\ SentInv(s)
    /\ SourcesInv(s)
    /\ \A n \in 0..last[s] : n \in Seqs(sent[s]) \cup dropped \cup inflight[s]

\* StreamInv, session by session.
LEMMA StreamInvParts ==
  StreamInv <=> TypeOK /\ HandInv /\ BufferInv /\ \A s \in Sessions : SessionInv(s)
  BY Zenon DEF StreamInv, SessionInv, GapsAccounted

\* Released and Settled are integers below seq.
LEMMA Marks ==
  ASSUME TypeOK
  PROVE  /\ Released \in Int /\ Settled \in Int /\ seq \in Nat
         /\ Settled <= Released /\ Released <= seq
  BY DEF TypeOK, Released, Settled

\* A number below b is below a, or from a up to b.
LEMMA BelowMark ==
  \A a, b \in Int : \A n \in 0..(b - 1) :
      n \in 0..(a - 1) \/ (n \in Int /\ a <= n /\ n < b)
  OBVIOUS

\* A worker step that leaves buffer and sessions alone, and gives up every
\* number by which it moves the marks, keeps the invariant.
LEMMA QuietStep ==
  ASSUME StreamInv, TypeOK', HandInv',
         UNCHANGED <<buffer, conn, inbox, replay, last, sent, inflight>>,
         dropped \subseteq dropped',
         Released <= Released', Settled <= Settled',
         \A n \in Int : Released <= n /\ n < Released' => n \in dropped',
         \A n \in Int : Settled <= n /\ n < Settled' => n \in dropped'
  PROVE  StreamInv'
  <1>0. /\ Released \in Int /\ Released' \in Int /\ Settled \in Int /\ Settled' \in Int
        /\ Seqs(buffer) \subseteq Nat
        /\ \A s \in Sessions : Seqs(inbox[s]) \subseteq Nat /\ Seqs(replay[s]) \subseteq Nat
    <2>1. TypeOK
      BY DEF StreamInv
    <2> QED BY <2>1, Marks, SeqsType DEF TypeOK, Released, Settled
  <1>1. BufferInv'
    <2>1. BufferInv
      BY DEF StreamInv
    <2>2. ASSUME NEW n \in 0..(Settled' - 1) PROVE n \in Seqs(buffer) \cup dropped'
      <3>1. n \in 0..(Settled - 1) \/ (n \in Int /\ Settled <= n /\ n < Settled')
        BY <1>0, BelowMark, Zenon
      <3> QED BY <3>1, <2>1 DEF BufferInv
    <2>3. \A n \in Seqs(buffer) : n < Settled'
      BY <2>1, <1>0 DEF BufferInv
    <2> QED BY <2>1, <2>2, <2>3, Zenon DEF BufferInv
  <1>2. ASSUME NEW s \in Sessions PROVE SessionInv(s)'
    <2>1. SessionInv(s)
      BY StreamInvParts
    <2>2. FreshInv(s)' /\ SentInv(s)'
      BY <2>1 DEF SessionInv, FreshInv, SentInv
    <2>3. InboxInv(s)'
      BY <2>1, <1>0 DEF SessionInv, InboxInv
    <2>4. ReplayInv(s)'
      BY <2>1, <1>0 DEF SessionInv, ReplayInv
    <2>5. SourcesInv(s)'
      <3>1. SUFFICES ASSUME s \in Subscribers, NEW n \in 0..(Released' - 1)
                     PROVE  n \in Seqs(inbox[s]) \cup dropped' \cup inflight[s]
                                  \cup (IF conn[s] = "subscribed" THEN Seqs(buffer)
                                        ELSE Seqs(sent[s]) \cup Seqs(replay[s]))
        BY Zenon DEF SourcesInv, Subscribers
      <3>2. n \in 0..(Released - 1) \/ (n \in Int /\ Released <= n /\ n < Released')
        BY <1>0, <3>1, BelowMark, Zenon
      <3> QED BY <3>1, <3>2, <2>1 DEF SessionInv, SourcesInv
    <2> QED BY <2>1, <2>2, <2>3, <2>4, <2>5 DEF SessionInv
  <1> QED BY <1>1, <1>2, Zenon DEF StreamInv, SessionInv, GapsAccounted

\* Facts about the numbers of every queue, used by the steps below.
LEMMA Numbers ==
  ASSUME TypeOK
  PROVE  /\ Released \in Int /\ Settled \in Int /\ Settled <= Released
         /\ frame \in Frames /\ frame.seq \in Nat
         /\ buffer \in Seq(Frames) /\ Seqs(buffer) \subseteq Nat
         /\ \A s \in Sessions :
              /\ inbox[s] \in Seq(Frames) /\ Seqs(inbox[s]) \subseteq Nat
              /\ replay[s] \in Seq(Frames) /\ Seqs(replay[s]) \subseteq Nat
              /\ sent[s] \in Seq(Frames) /\ Seqs(sent[s]) \subseteq Nat
              /\ last[s] \in Int /\ last[s] >= -1
  <1>1. frame \in Frames /\ frame.seq \in Nat
    BY DEF TypeOK, Frames
  <1>2. /\ buffer \in Seq(Frames)
        /\ \A s \in Sessions : /\ inbox[s] \in Seq(Frames) /\ replay[s] \in Seq(Frames)
                               /\ sent[s] \in Seq(Frames)
                               /\ last[s] \in Int /\ last[s] >= -1
    BY DEF TypeOK
  <1> QED BY <1>1, <1>2, Marks, SeqsType

\* A number at most k is below k + 1.
LEMMA BelowNext == \A k, n \in Nat : n < k \/ n = k => n < k + 1
  OBVIOUS

\* PUBLISH: the frame joins every subscriber's queue.
LEMMA PublishStep == StreamInv /\ TypeOK' /\ Publish => StreamInv'
  <1> SUFFICES ASSUME StreamInv, TypeOK', Publish PROVE StreamInv'
    OBVIOUS
  <1>0. TypeOK /\ HandInv /\ BufferInv /\ step = "publish" /\ step' = "append"
    BY DEF StreamInv, Publish
  <1>1. /\ UNCHANGED <<seq, frame, buffer, conn, replay, last, sent, dropped, inflight>>
        /\ \A s \in Sessions :
              inbox'[s] = IF s \in Subscribers THEN Append(inbox[s], frame) ELSE inbox[s]
    BY <1>0 DEF Publish, redisVars, history
  <1>2. /\ Released = frame.seq /\ Released' = frame.seq + 1
        /\ Settled = frame.seq /\ Settled' = frame.seq
        /\ HandInv'
    BY <1>0, <1>1, Numbers DEF HandInv, Released, Settled
  <1>3. BufferInv'
    BY <1>0, <1>1, <1>2, Zenon DEF BufferInv
  <1>4. ASSUME NEW s \in Sessions PROVE SessionInv(s)'
    <2>0. SessionInv(s)
      BY StreamInvParts
    <2>1. /\ Increasing(inbox'[s])
          /\ IF s \in Subscribers THEN Seqs(inbox'[s]) = Seqs(inbox[s]) \cup {frame.seq}
                                  ELSE inbox'[s] = inbox[s]
      BY <1>0, <1>1, <1>2, <2>0, Numbers, AppendSeqs, AppendIncreasing
         DEF SessionInv, InboxInv
    <2>2. InboxInv(s)'
      <3>1. \A n \in Seqs(inbox[s]) : n < frame.seq
        BY <1>2, <2>0 DEF SessionInv, InboxInv
      <3>2. \A n \in Seqs(inbox'[s]) : n < frame.seq + 1
        <4>1. frame.seq \in Nat /\ Seqs(inbox[s]) \subseteq Nat
          BY <1>0, Numbers, Zenon
        <4>2. ASSUME NEW n \in Seqs(inbox'[s])
              PROVE  n \in Nat /\ (n < frame.seq \/ n = frame.seq)
          BY <2>1, <3>1, <4>1
        <4> QED BY <4>1, <4>2, BelowNext, Zenon
      <3> QED BY <1>2, <2>1, <3>2, Zenon DEF InboxInv
    <2>3. FreshInv(s)' /\ SentInv(s)'
      BY <1>1, <2>0, Zenon DEF SessionInv, FreshInv, SentInv
    <2>4. ReplayInv(s)'
      <3>1. conn[s] = "pumping" => \A n \in Seqs(replay[s]) : n < frame.seq + 1
        <4>1. frame.seq \in Nat /\ Seqs(replay[s]) \subseteq Nat
          BY <1>0, Numbers, Zenon
        <4>2. conn[s] = "pumping" => \A n \in Seqs(replay[s]) : n < frame.seq
          BY <1>2, <2>0, Zenon DEF SessionInv, ReplayInv
        <4> QED BY <4>1, <4>2, BelowNext, Zenon
      <3> QED BY <1>1, <1>2, <2>0, <3>1, Zenon DEF SessionInv, ReplayInv
    <2>5. SourcesInv(s)'
      <3>1. SUFFICES ASSUME s \in Subscribers, NEW n \in 0..frame.seq
                     PROVE  n \in Seqs(inbox'[s]) \cup dropped \cup inflight[s]
                                  \cup (IF conn[s] = "subscribed" THEN Seqs(buffer)
                                        ELSE Seqs(sent[s]) \cup Seqs(replay[s]))
        <4>1. Released' - 1 = frame.seq
          BY <1>0, <1>2, Numbers
        <4> QED BY <1>1, <4>1, Zenon DEF SourcesInv, Subscribers
      <3>2. n \in 0..(Released - 1) \/ n = frame.seq
        BY <1>0, <1>2, <3>1, Numbers
      <3> QED BY <2>0, <2>1, <3>1, <3>2 DEF SessionInv, SourcesInv
    <2> QED BY <1>1, <2>0, <2>2, <2>3, <2>4, <2>5, Zenon DEF SessionInv
  <1> QED BY <1>2, <1>3, <1>4, Zenon DEF StreamInv, SessionInv, GapsAccounted

\* RPUSH: the frame joins the buffer.
LEMMA AppendStep == StreamInv /\ TypeOK' /\ AppendToBuffer => StreamInv'
  <1> SUFFICES ASSUME StreamInv, TypeOK', AppendToBuffer PROVE StreamInv'
    OBVIOUS
  <1>0. TypeOK /\ HandInv /\ BufferInv /\ step = "append" /\ step' = "expire"
    BY DEF StreamInv, AppendToBuffer
  <1>1. /\ UNCHANGED <<seq, frame, conn, inbox, replay, last, sent, dropped, inflight>>
        /\ buffer' = Append(buffer, frame)
    BY <1>0 DEF AppendToBuffer, sessionVars, history
  <1>2. /\ Released = frame.seq + 1 /\ Released' = frame.seq + 1
        /\ Settled = frame.seq /\ Settled' = frame.seq + 1
        /\ HandInv'
    BY <1>0, <1>1, Numbers DEF HandInv, Released, Settled
  <1>3. Seqs(buffer') = Seqs(buffer) \cup {frame.seq} /\ Increasing(buffer')
    BY <1>0, <1>1, <1>2, Numbers, AppendSeqs, AppendIncreasing DEF BufferInv
  <1>4. BufferInv'
    <2>1. ASSUME NEW n \in 0..(Settled' - 1) PROVE n \in Seqs(buffer') \cup dropped
      <3>1. n \in 0..(Settled - 1) \/ n = frame.seq
        BY <1>0, <1>2, Numbers
      <3> QED BY <3>1, <1>0, <1>3 DEF BufferInv
    <2>2. \A n \in Seqs(buffer') : n < Settled'
      BY <1>0, <1>2, <1>3, Numbers DEF BufferInv
    <2> QED BY <1>1, <1>3, <2>1, <2>2, Zenon DEF BufferInv
  <1>5. ASSUME NEW s \in Sessions PROVE SessionInv(s)'
    <2>0. SessionInv(s)
      BY StreamInvParts
    <2>1. FreshInv(s)' /\ SentInv(s)' /\ InboxInv(s)' /\ ReplayInv(s)'
      BY <1>1, <1>2, <2>0, Zenon DEF SessionInv, FreshInv, SentInv, InboxInv, ReplayInv
    <2>2. SourcesInv(s)'
      BY <1>1, <1>2, <1>3, <2>0 DEF SessionInv, SourcesInv, Subscribers
    <2> QED BY <1>1, <2>0, <2>1, <2>2, Zenon DEF SessionInv
  <1> QED BY <1>2, <1>4, <1>5, Zenon DEF StreamInv, SessionInv, GapsAccounted

\* The buffer's expiry moves its numbers to dropped.
LEMMA ExpireStep == StreamInv /\ TypeOK' /\ BufferExpires => StreamInv'
  <1> SUFFICES ASSUME StreamInv, TypeOK', BufferExpires PROVE StreamInv'
    OBVIOUS
  <1>0. TypeOK /\ HandInv /\ BufferInv
    BY DEF StreamInv
  <1>1. /\ UNCHANGED <<step, seq, frame, conn, inbox, replay, last, sent, inflight>>
        /\ buffer' = << >> /\ dropped' = dropped \cup Seqs(buffer)
    BY Zenon DEF BufferExpires, workerVars, sessionVars
  <1>2. Released' = Released /\ Settled' = Settled /\ HandInv'
    BY <1>0, <1>1, Zenon DEF HandInv, Released, Settled
  <1>3. BufferInv'
    BY <1>0, <1>1, <1>2, EmptySeqs DEF BufferInv
  <1>4. ASSUME NEW s \in Sessions PROVE SessionInv(s)'
    <2>0. SessionInv(s)
      BY StreamInvParts
    <2>1. FreshInv(s)' /\ SentInv(s)' /\ InboxInv(s)'
      BY <1>1, <1>2, <2>0, Zenon DEF SessionInv, FreshInv, SentInv, InboxInv
    <2>2. ReplayInv(s)'
      BY <1>1, <1>2, <2>0 DEF SessionInv, ReplayInv
    <2>3. SourcesInv(s)'
      BY <1>1, <1>2, <2>0, EmptySeqs DEF SessionInv, SourcesInv, Subscribers
    <2>4. (\A n \in 0..last[s] : n \in Seqs(sent[s]) \cup dropped \cup inflight[s])'
      BY <1>1, <2>0 DEF SessionInv
    <2> QED BY <2>1, <2>2, <2>3, <2>4 DEF SessionInv
  <1> QED BY <1>2, <1>3, <1>4, Zenon DEF StreamInv, SessionInv, GapsAccounted

\* A step of one session keeps the invariant when it keeps that session's part.
LEMMA OneSession ==
  ASSUME StreamInv, TypeOK', NEW s \in Sessions,
         UNCHANGED <<step, seq, frame, buffer, dropped>>,
         \A t \in Sessions \ {s} :
            /\ conn'[t] = conn[t] /\ inbox'[t] = inbox[t] /\ replay'[t] = replay[t]
            /\ last'[t] = last[t] /\ sent'[t] = sent[t] /\ inflight'[t] = inflight[t],
         SessionInv(s)'
  PROVE  StreamInv'
  <1>1. Released' = Released /\ Settled' = Settled /\ HandInv' /\ BufferInv'
    BY Zenon DEF StreamInv, Released, Settled, HandInv, BufferInv
  <1>2. ASSUME NEW t \in Sessions, t # s PROVE SessionInv(t)'
    <2>1. SessionInv(t)
      BY StreamInvParts
    <2>2. t \in Subscribers' <=> t \in Subscribers
      BY <1>2, Zenon DEF Subscribers
    <2>3. /\ conn'[t] = conn[t] /\ inbox'[t] = inbox[t] /\ replay'[t] = replay[t]
          /\ last'[t] = last[t] /\ sent'[t] = sent[t] /\ inflight'[t] = inflight[t]
      BY <1>2
    <2>4. FreshInv(t)' /\ InboxInv(t)' /\ SentInv(t)' /\ ReplayInv(t)'
      BY <1>1, <2>1, <2>3, Zenon DEF SessionInv, FreshInv, InboxInv, SentInv, ReplayInv
    <2>5. SourcesInv(t)'
      BY <1>1, <2>1, <2>2, <2>3 DEF SessionInv, SourcesInv
    <2> QED BY <2>1, <2>3, <2>4, <2>5, Zenon DEF SessionInv
  <1> QED BY <1>1, <1>2, Zenon DEF StreamInv, SessionInv, GapsAccounted

\* Handshake and Disconnect only move conn to a state that owes nothing.
LEMMA ConnStep ==
  ASSUME StreamInv, TypeOK', NEW s \in Sessions, Handshake(s) \/ Disconnect(s)
  PROVE  StreamInv'
  <1>1. /\ UNCHANGED <<step, seq, frame, buffer, dropped, inbox, replay, last, sent, inflight>>
        /\ \A t \in Sessions \ {s} : conn'[t] = conn[t]
        /\ \/ conn[s] = "new" /\ conn'[s] \in {"accepted", "closed"}
           \/ conn'[s] = "closing"
    BY DEF Handshake, Disconnect, workerVars, redisVars, history, StreamInv, TypeOK
  <1>2. Released' = Released
    BY <1>1, Zenon DEF Released
  <1>3. SessionInv(s)'
    <2>1. SessionInv(s)
      BY StreamInvParts
    <2>2. InboxInv(s)' /\ SentInv(s)'
      BY <1>1, <1>2, <2>1, Zenon DEF SessionInv, InboxInv, SentInv
    <2>3. FreshInv(s)' /\ ReplayInv(s)' /\ SourcesInv(s)'
      BY <1>1, <2>1 DEF SessionInv, FreshInv, ReplayInv, SourcesInv, Subscribers
    <2> QED BY <1>1, <2>1, <2>2, <2>3, Zenon DEF SessionInv
  <1> QED BY <1>1, <1>3, OneSession

\* SUBSCRIBE: only the frame on the wire escapes both channel and buffer.
LEMMA SubscribeStep ==
  ASSUME StreamInv, TypeOK', NEW s \in Sessions, Subscribe(s)
  PROVE  StreamInv'
  <1>0. TypeOK /\ HandInv /\ BufferInv
    BY DEF StreamInv
  <1>1. /\ UNCHANGED <<step, seq, frame, buffer, dropped, inbox, replay, last, sent>>
        /\ \A t \in Sessions \ {s} : conn'[t] = conn[t] /\ inflight'[t] = inflight[t]
        /\ conn[s] = "accepted" /\ conn'[s] = "subscribed"
        /\ inflight'[s] = IF step = "append" THEN {frame.seq} ELSE {}
    BY <1>0 DEF Subscribe, workerVars, redisVars, TypeOK
  <1>2. Released' = Released
    BY <1>1, Zenon DEF Released
  <1>3. SessionInv(s)'
    <2>1. SessionInv(s)
      BY StreamInvParts
    <2>2. InboxInv(s)' /\ SentInv(s)'
      BY <1>1, <1>2, <2>1, Zenon DEF SessionInv, InboxInv, SentInv
    <2>3. FreshInv(s)' /\ ReplayInv(s)'
      BY <1>1, <2>1 DEF SessionInv, FreshInv, ReplayInv
    <2>4. SourcesInv(s)'
      <3>1. ASSUME NEW n \in 0..(Released - 1)
            PROVE  n \in Seqs(buffer) \cup dropped \cup inflight'[s]
        <4>1. CASE step = "append"
          <5>1. Released = frame.seq + 1 /\ Settled = frame.seq
            BY <1>0, <4>1, Numbers DEF HandInv, Released, Settled
          <5>2. n \in 0..(Settled - 1) \/ n = frame.seq
            BY <1>0, <5>1, Numbers
          <5> QED BY <1>0, <1>1, <4>1, <5>2 DEF BufferInv
        <4>2. CASE step # "append"
          <5>1. Released = Settled
            BY <4>2 DEF Released, Settled
          <5> QED BY <1>0, <5>1 DEF BufferInv
        <4> QED BY <4>1, <4>2
      <3> QED BY <1>1, <1>2, <3>1 DEF SourcesInv, Subscribers
    <2>5. \A n \in 0..last[s] : FALSE
      BY <1>1, <2>1 DEF SessionInv, FreshInv
    <2> QED BY <1>1, <2>2, <2>3, <2>4, <2>5, Zenon DEF SessionInv
  <1> QED BY <1>1, <1>3, OneSession

\* LRANGE: the buffer has no unaccounted hole, so neither has the replay.
LEMMA ReadBufferStep ==
  ASSUME StreamInv, TypeOK', NEW s \in Sessions, ReadBuffer(s)
  PROVE  StreamInv'
  <1>0. TypeOK /\ HandInv /\ BufferInv
    BY DEF StreamInv
  <1>1. /\ UNCHANGED <<step, seq, frame, buffer, dropped, inbox, last, sent, inflight>>
        /\ \A t \in Sessions \ {s} : conn'[t] = conn[t] /\ replay'[t] = replay[t]
        /\ conn[s] = "subscribed" /\ conn'[s] = "pumping" /\ replay'[s] = buffer
    BY <1>0 DEF ReadBuffer, workerVars, redisVars, history, TypeOK
  <1>2. Released' = Released
    BY <1>1, Zenon DEF Released
  <1>3. SessionInv(s)'
    <2>1. SessionInv(s) /\ last[s] = -1
      BY <1>1, StreamInvParts DEF SessionInv, FreshInv
    <2>2. InboxInv(s)' /\ SentInv(s)'
      BY <1>1, <1>2, <2>1, Zenon DEF SessionInv, InboxInv, SentInv
    <2>3. FreshInv(s)'
      BY <1>1 DEF FreshInv
    <2>4. ReplayInv(s)'
      <3>1. ASSUME NEW n \in Seqs(buffer) PROVE last[s] < n /\ n < Released
        BY <1>0, <2>1, <3>1, Numbers DEF BufferInv
      <3>2. ASSUME NEW m \in Seqs(buffer), NEW n \in 0..m
            PROVE  n \in Seqs(buffer) \cup dropped
        <4>1. m \in Nat /\ m < Settled
          BY <1>0, Numbers DEF BufferInv
        <4>2. n \in 0..(Settled - 1)
          BY <1>0, <4>1, Numbers
        <4> QED BY <1>0, <4>2 DEF BufferInv
      <3> QED BY <1>0, <1>1, <1>2, <3>1, <3>2 DEF ReplayInv, BufferInv
    <2>5. SourcesInv(s)'
      BY <1>1, <1>2, <2>1 DEF SessionInv, SourcesInv, Subscribers
    <2> QED BY <1>1, <2>1, <2>2, <2>3, <2>4, <2>5, Zenon DEF SessionInv
  <1> QED BY <1>1, <1>3, OneSession

\* Facts about the order of the integers that leaves below cite.
LEMMA Orders ==
  /\ \A a, b, c \in Int : a <= b /\ b < c => a < c
  /\ \A a, b \in Int : a < b \/ a = b => a <= b
  /\ Nat \subseteq Int
  OBVIOUS

\* The head of the replay is a released frame the client has not seen.
LEMMA ReplayHead ==
  ASSUME StreamInv, NEW s \in Sessions, conn[s] = "pumping", replay[s] # << >>
  PROVE  /\ Head(replay[s]) \in Frames /\ Head(replay[s]).seq \in Nat
         /\ Seqs(replay[s]) = {Head(replay[s]).seq} \cup Seqs(Tail(replay[s]))
         /\ Increasing(Tail(replay[s]))
         /\ \A n \in Seqs(Tail(replay[s])) : Head(replay[s]).seq < n
         /\ last[s] < Head(replay[s]).seq /\ Head(replay[s]).seq < Released
  <1>0. TypeOK /\ SessionInv(s)
    BY StreamInvParts
  <1>1. replay[s] \in Seq(Frames)
    BY <1>0, Numbers
  <1>2. ReplayInv(s) /\ Increasing(replay[s])
    BY <1>0, Zenon DEF SessionInv, ReplayInv
  <1>3. Head(replay[s]) \in Frames /\ Seqs(replay[s]) = {Head(replay[s]).seq} \cup Seqs(Tail(replay[s]))
    BY <1>0, <1>1, TailSeqs
  <1>4. Head(replay[s]).seq \in Nat
    BY <1>3 DEF Frames
  <1>5. Increasing(Tail(replay[s])) /\ \A n \in Seqs(Tail(replay[s])) : Head(replay[s]).seq < n
    BY <1>0, <1>1, <1>2, TailIncreasing
  <1> QED BY <1>0, <1>2, <1>3, <1>4, <1>5 DEF ReplayInv

\* The head of the channel queue is the oldest frame in it, and released.
LEMMA InboxHead ==
  ASSUME StreamInv, NEW s \in Sessions, inbox[s] # << >>
  PROVE  /\ Head(inbox[s]) \in Frames /\ Head(inbox[s]).seq \in Nat /\ Head(inbox[s]).seq < Released
         /\ Seqs(inbox[s]) = {Head(inbox[s]).seq} \cup Seqs(Tail(inbox[s]))
         /\ Increasing(Tail(inbox[s]))
         /\ \A n \in Seqs(Tail(inbox[s])) : Head(inbox[s]).seq < n
  <1>0. TypeOK /\ SessionInv(s)
    BY StreamInvParts
  <1>1. inbox[s] \in Seq(Frames)
    BY <1>0, Numbers
  <1>2. InboxInv(s)
    BY <1>0, Zenon DEF SessionInv
  <1>3. Head(inbox[s]) \in Frames /\ Seqs(inbox[s]) = {Head(inbox[s]).seq} \cup Seqs(Tail(inbox[s]))
    BY <1>0, <1>1, TailSeqs
  <1>4. Head(inbox[s]).seq \in Nat
    BY <1>3 DEF Frames
  <1>5. Increasing(Tail(inbox[s])) /\ \A n \in Seqs(Tail(inbox[s])) : Head(inbox[s]).seq < n
    BY <1>0, <1>1, <1>2, TailIncreasing DEF InboxInv
  <1> QED BY <1>2, <1>3, <1>4, <1>5 DEF InboxInv

\* The catch-up loop: the head of the replay is new, and nothing unaccounted
\* lies below it.
LEMMA ReplayStep ==
  ASSUME StreamInv, TypeOK', NEW s \in Sessions, ReplayFrame(s)
  PROVE  StreamInv'
  <1> DEFINE f == Head(replay[s])
  <1>0. TypeOK /\ SessionInv(s) /\ conn[s] = "pumping" /\ replay[s] # << >>
    BY StreamInvParts DEF ReplayFrame
  <1>1. /\ f \in Frames /\ f.seq \in Nat
        /\ Seqs(replay[s]) = {f.seq} \cup Seqs(Tail(replay[s]))
        /\ Increasing(Tail(replay[s])) /\ \A n \in Seqs(Tail(replay[s])) : f.seq < n
        /\ last[s] < f.seq
    BY <1>0, ReplayHead
  <1>2. /\ UNCHANGED <<step, seq, frame, buffer, dropped, conn, inbox, inflight>>
        /\ \A t \in Sessions \ {s} :
              replay'[t] = replay[t] /\ last'[t] = last[t] /\ sent'[t] = sent[t]
        /\ replay'[s] = Tail(replay[s]) /\ last'[s] = f.seq
        /\ sent'[s] = Append(sent[s], f)
    <2>1. f.seq > last[s]
      BY <1>0, <1>1, Numbers
    <2> QED BY <1>0, <2>1
        DEF ReplayFrame, Forward, workerVars, redisVars, history, TypeOK
  <1>3. /\ Seqs(sent'[s]) = Seqs(sent[s]) \cup {f.seq} /\ Increasing(sent'[s])
        /\ \A n \in Seqs(sent[s]) : n < f.seq
    <2>1. \A n \in Seqs(sent[s]) : n < f.seq
      <3>1. /\ f.seq \in Int /\ last[s] \in Int
            /\ \A n \in Seqs(sent[s]) : n \in Int /\ n <= last[s]
        BY <1>0, <1>1, Numbers DEF SessionInv, SentInv
      <3> HIDE DEF f
      <3> QED BY <1>1, <3>1
    <2> QED BY <1>0, <1>1, <1>2, <2>1, Numbers, AppendSeqs, AppendIncreasing
        DEF SessionInv, SentInv
  <1>4. Released' = Released
    BY <1>2, Zenon DEF Released
  <1>5. SessionInv(s)'
    <2>1. InboxInv(s)' /\ FreshInv(s)'
      BY <1>0, <1>2, <1>4 DEF SessionInv, InboxInv, FreshInv
    <2>2. SentInv(s)'
      <3>1. ASSUME NEW n \in Seqs(sent'[s]) PROVE n <= f.seq
        <4>1. n \in Nat /\ (n < f.seq \/ n = f.seq)
          BY <1>0, <1>1, <1>3, Numbers
        <4> QED BY <1>1, <4>1, Orders, Zenon
      <3> QED BY <1>2, <1>3, <3>1, Zenon DEF SentInv
    <2>3. ReplayInv(s)'
      <3>1. \A n \in Seqs(replay'[s]) : last'[s] < n /\ n < Released
        BY <1>0, <1>1, <1>2 DEF SessionInv, ReplayInv
      <3>2. \A m \in Seqs(replay'[s]) : \A n \in 0..m :
               n \in Seqs(sent'[s]) \cup Seqs(replay'[s]) \cup dropped
        BY <1>0, <1>1, <1>2, <1>3 DEF SessionInv, ReplayInv
      <3> QED BY <1>1, <1>2, <1>4, <3>1, <3>2 DEF ReplayInv
    <2>4. SourcesInv(s)'
      BY <1>0, <1>1, <1>2, <1>3, <1>4 DEF SessionInv, SourcesInv, Subscribers
    <2>5. ASSUME NEW n \in 0..f.seq
          PROVE  n \in Seqs(sent'[s]) \cup dropped
      <3>1. n \in Seqs(sent[s]) \cup Seqs(replay[s]) \cup dropped
        BY <1>0, <1>1 DEF SessionInv, ReplayInv
      <3>2. n \in Seqs(Tail(replay[s])) => FALSE
        BY <1>1
      <3> QED BY <1>1, <1>3, <3>1, <3>2
    <2> QED BY <1>2, <2>1, <2>2, <2>3, <2>4, <2>5 DEF SessionInv
  <1> QED BY <1>2, <1>5, OneSession

\* The live loop: what the queue's head skips over was accounted for before.
LEMMA ForwardStep ==
  ASSUME StreamInv, TypeOK', NEW s \in Sessions, ForwardLive(s)
  PROVE  StreamInv'
  <1> DEFINE f == Head(inbox[s])
  <1>0. /\ TypeOK /\ SessionInv(s) /\ conn[s] = "pumping" /\ inbox[s] # << >>
        /\ replay[s] = << >>
    BY StreamInvParts DEF ForwardLive
  <1>1. /\ f \in Frames /\ f.seq \in Nat /\ f.seq < Released
        /\ Seqs(inbox[s]) = {f.seq} \cup Seqs(Tail(inbox[s]))
        /\ Increasing(Tail(inbox[s])) /\ \A n \in Seqs(Tail(inbox[s])) : f.seq < n
    BY <1>0, InboxHead
  <1>2. /\ UNCHANGED <<step, seq, frame, buffer, dropped, replay, inflight>>
        /\ \A t \in Sessions \ {s} : /\ conn'[t] = conn[t] /\ inbox'[t] = inbox[t]
                                     /\ last'[t] = last[t] /\ sent'[t] = sent[t]
        /\ inbox'[s] = Tail(inbox[s]) /\ conn'[s] \in {"pumping", "closing"}
    BY <1>0 DEF ForwardLive, Forward, workerVars, redisVars, history, TypeOK
  <1>3. Released' = Released
    BY <1>2, Zenon DEF Released
  <1>4. InboxInv(s)' /\ FreshInv(s)' /\ ReplayInv(s)'
    <2>1. InboxInv(s)'
      BY <1>0, <1>1, <1>2, <1>3 DEF SessionInv, InboxInv
    <2>2. FreshInv(s)'
      BY <1>2 DEF FreshInv
    <2>3. ReplayInv(s)'
      BY <1>0, <1>2, EmptySeqs DEF ReplayInv
    <2> QED BY <2>1, <2>2, <2>3
  <1>5. ASSUME f.seq > last[s] PROVE SessionInv(s)'
    <2>1. last'[s] = f.seq /\ sent'[s] = Append(sent[s], f)
      BY <1>0, <1>5 DEF ForwardLive, Forward, TypeOK
    <2>2. \A n \in Seqs(sent[s]) : n < f.seq
      <3>1. /\ f.seq \in Int /\ last[s] \in Int /\ last[s] < f.seq
            /\ \A n \in Seqs(sent[s]) : n \in Int /\ n <= last[s]
        BY <1>0, <1>1, <1>5, Numbers DEF SessionInv, SentInv
      <3> HIDE DEF f
      <3> QED BY <3>1
    <2>3. Seqs(sent'[s]) = Seqs(sent[s]) \cup {f.seq} /\ Increasing(sent'[s])
      BY <1>0, <1>1, <2>1, <2>2, Numbers, AppendSeqs, AppendIncreasing
         DEF SessionInv, SentInv
    <2>4. SentInv(s)'
      <3>1. ASSUME NEW n \in Seqs(sent'[s]) PROVE n <= f.seq
        <4>1. n \in Nat /\ (n < f.seq \/ n = f.seq)
          BY <1>0, <1>1, <2>2, <2>3, Numbers
        <4> QED BY <1>1, <4>1, Orders, Zenon
      <3> QED BY <2>1, <2>3, <3>1, Zenon DEF SentInv
    <2>5. SourcesInv(s)'
      BY <1>0, <1>1, <1>2, <1>3, <2>3 DEF SessionInv, SourcesInv, Subscribers
    <2>6. ASSUME NEW n \in 0..f.seq
          PROVE  n \in Seqs(sent'[s]) \cup dropped \cup inflight[s]
      <3>1. n \in 0..(Released - 1) /\ s \in Subscribers
        BY <1>0, <1>1, Numbers DEF Subscribers
      <3>2. n \in Seqs(inbox[s]) \cup dropped \cup inflight[s] \cup Seqs(sent[s])
        BY <1>0, <3>1, EmptySeqs DEF SessionInv, SourcesInv
      <3>3. n \in Seqs(Tail(inbox[s])) => FALSE
        BY <1>1
      <3> QED BY <1>1, <2>3, <3>2, <3>3
    <2> QED BY <1>2, <1>4, <2>1, <2>4, <2>5, <2>6 DEF SessionInv
  <1>6. ASSUME ~(f.seq > last[s]) PROVE SessionInv(s)'
    <2>1. last'[s] = last[s] /\ sent'[s] = sent[s]
      BY <1>6, Zenon DEF ForwardLive, Forward
    <2>2. f.seq \in Seqs(sent[s]) \cup dropped \cup inflight[s]
      <3>1. f.seq \in 0..last[s]
        BY <1>0, <1>1, <1>6, Numbers
      <3> QED BY <1>0, <3>1 DEF SessionInv
    <2>3. SentInv(s)'
      BY <1>0, <2>1 DEF SessionInv, SentInv
    <2>4. SourcesInv(s)'
      BY <1>0, <1>1, <1>2, <1>3, <2>1, <2>2 DEF SessionInv, SourcesInv, Subscribers
    <2> QED BY <1>0, <1>2, <1>4, <2>1, <2>3, <2>4 DEF SessionInv
  <1>7. SessionInv(s)'
    BY <1>5, <1>6
  <1> QED BY <1>2, <1>7, OneSession

\* Closing empties the queues and owes nothing more.
LEMMA CloseStep ==
  ASSUME StreamInv, TypeOK', NEW s \in Sessions, CloseSession(s)
  PROVE  StreamInv'
  <1>1. /\ UNCHANGED <<step, seq, frame, buffer, dropped, last, sent, inflight>>
        /\ \A t \in Sessions \ {s} : /\ conn'[t] = conn[t] /\ inbox'[t] = inbox[t]
                                     /\ replay'[t] = replay[t]
        /\ inbox'[s] = << >> /\ conn'[s] = "closed"
    BY DEF CloseSession, workerVars, redisVars, history, StreamInv, TypeOK
  <1>2. SessionInv(s)'
    <2>1. SessionInv(s)
      BY StreamInvParts
    <2>2. InboxInv(s)' /\ SentInv(s)'
      BY <1>1, <2>1, EmptySeqs DEF SessionInv, InboxInv, SentInv
    <2>3. FreshInv(s)' /\ ReplayInv(s)' /\ SourcesInv(s)'
      BY <1>1 DEF FreshInv, ReplayInv, SourcesInv, Subscribers
    <2> QED BY <1>1, <2>1, <2>2, <2>3 DEF SessionInv
  <1> QED BY <1>1, <1>2, OneSession

\* The worker's other steps: the marks stay, or move over numbers given up.
LEMMA WorkerStep ==
  ASSUME StreamInv, TypeOK',
         \/ \E e \in Events : Yield(e)
         \/ Finish \/ SetExpiry \/ StreamFails \/ WorkerStops \/ UNCHANGED vars
  PROVE  StreamInv'
  <1>0. TypeOK /\ HandInv /\ seq \in Nat /\ step \in Steps
    BY DEF StreamInv, TypeOK
  <1>1. UNCHANGED <<buffer, conn, inbox, replay, last, sent, inflight>>
    BY DEF Yield, Finish, SetExpiry, StreamFails, WorkerStops, vars,
           redisVars, sessionVars, history
  <1>2. HandInv'
    <2>1. ASSUME NEW e \in Events, Yield(e) PROVE HandInv'
      BY <1>0, <2>1 DEF Yield, Format, HandInv
    <2>2. CASE StreamFails
      BY <1>0, <2>2 DEF StreamFails, Format, HandInv
    <2>3. CASE Finish \/ SetExpiry \/ WorkerStops \/ UNCHANGED vars
      BY <1>0, <2>3 DEF Finish, SetExpiry, WorkerStops, vars, workerVars, HandInv
    <2> QED BY <2>1, <2>2, <2>3
  <1>3. CASE (\E e \in Events : Yield(e)) \/ Finish \/ SetExpiry \/ UNCHANGED vars
    <2>1. dropped' = dropped
      BY <1>3 DEF Yield, Finish, SetExpiry, vars, history
    <2>2. Released' = Released /\ Settled' = Settled
      <3>1. ASSUME NEW e \in Events, Yield(e)
            PROVE  Released' = Released /\ Settled' = Settled
        BY <1>0, <3>1 DEF Yield, Format, Released, Settled
      <3>2. CASE Finish \/ SetExpiry \/ UNCHANGED vars
        BY <1>0, <3>2 DEF Finish, SetExpiry, vars, workerVars, Released, Settled
      <3> QED BY <1>3, <3>1, <3>2
    <2>3. Released \in Int /\ Settled \in Int
      BY <1>0, Marks
    <2>4. \A a \in Int : a <= a /\ \A n \in Int : ~(a <= n /\ n < a)
      OBVIOUS
    <2> QED BY <1>1, <1>2, <2>1, <2>2, <2>3, <2>4, QuietStep
  <1>4. CASE StreamFails \/ WorkerStops
    <2>1. /\ dropped' = dropped \cup Unbuffered
          /\ step # "done" /\ step' \in {"publish", "done"}
          /\ step' = "publish" => seq' = seq + 1
          /\ step' = "done" => seq' = seq
      BY <1>4 DEF StreamFails, WorkerStops, Format
    <2>2. Released' = seq /\ Settled' = seq
      BY <1>0, <2>1 DEF Released, Settled
    <2>3. ASSUME NEW n \in Int, Released <= n \/ Settled <= n, n < seq
          PROVE  n \in Unbuffered
      <3>1. CASE step \in {"publish", "append"}
        <4>1. frame.seq \in Int /\ seq = frame.seq + 1 /\ Settled = frame.seq
          BY <1>0, <3>1, Numbers DEF HandInv, Settled
        <4>2. Settled <= Released
          BY <1>0, Marks
        <4>3. n = frame.seq
          <5>1. Settled \in Int /\ Released \in Int
            BY <1>0, Marks
          <5> QED BY <2>3, <4>1, <4>2, <5>1
        <4> QED BY <3>1, <4>3 DEF Unbuffered
      <3>2. CASE step \notin {"publish", "append"}
        <4>1. Released = seq /\ Settled = seq
          BY <3>2 DEF Released, Settled
        <4> QED BY <1>0, <2>3, <4>1
      <3> QED BY <3>1, <3>2
    <2>4. Released <= seq /\ Settled <= seq
      BY <1>0, Marks
    <2> QED BY <1>1, <1>2, <2>1, <2>2, <2>3, <2>4, QuietStep
  <1> QED BY <1>3, <1>4

\* StreamInv holds initially.
LEMMA StreamInvInit == Init => StreamInv
  <1> SUFFICES ASSUME Init PROVE StreamInv
    OBVIOUS
  <1>1. TypeOK /\ HandInv
    BY TypeInit DEF Init, HandInv
  <1>2. Released = 0 /\ Settled = 0
    BY DEF Init, Released, Settled
  <1>3. BufferInv
    BY <1>2, EmptySeqs DEF Init, BufferInv
  <1>4. ASSUME NEW s \in Sessions PROVE SessionInv(s)
    BY <1>2, EmptySeqs DEF Init, SessionInv, FreshInv, InboxInv, ReplayInv, SentInv,
                           SourcesInv, Subscribers
  <1> QED BY <1>1, <1>3, <1>4, StreamInvParts

\* Every step preserves StreamInv: one lemma per action, put together.
LEMMA StreamInvStep == StreamInv /\ [Next]_vars => StreamInv'
  <1> SUFFICES ASSUME StreamInv, [Next]_vars PROVE StreamInv'
    OBVIOUS
  <1>1. TypeOK'
    BY TypeStep, Zenon DEF StreamInv
  <1>2. CASE UNCHANGED vars
    BY <1>1, <1>2, WorkerStep
  <1>3. CASE Worker
    BY <1>1, <1>3, WorkerStep, PublishStep, AppendStep DEF Worker
  <1>4. CASE StreamFails \/ WorkerStops
    BY <1>1, <1>4, WorkerStep
  <1>5. CASE BufferExpires
    BY <1>1, <1>5, ExpireStep
  <1>6. ASSUME NEW s \in Sessions, Gateway(s) PROVE StreamInv'
    BY <1>1, <1>6, SubscribeStep, ReadBufferStep, ReplayStep, ForwardStep, CloseStep
       DEF Gateway
  <1>7. ASSUME NEW s \in Sessions, Handshake(s) \/ Disconnect(s) PROVE StreamInv'
    BY <1>1, <1>7, ConnStep
  <1> QED BY <1>2, <1>3, <1>4, <1>5, <1>6, <1>7 DEF Next

\* StreamInv, which accounts for every released frame, holds in every
\* reachable state.
THEOREM Accounting == Spec => []StreamInv
  BY StreamInvInit, StreamInvStep, PTL DEF Spec

\* No connection is ever sent a frame twice or out of order.
THEOREM OrderedDelivery == Spec => []SentInOrder
  <1>1. StreamInv => SentInOrder
    BY DEF StreamInv, SentInv, SentInOrder
  <1> QED BY <1>1, Accounting, PTL

\* A connection misses only the frame on the wire when it subscribed and the
\* frames Redis never stored or expired.
THEOREM BoundedLoss == Spec => []GapsAccounted
  <1>1. StreamInv => GapsAccounted
    BY DEF StreamInv
  <1> QED BY <1>1, Accounting, PTL

-----------------------------------------------------------------------------
(* Refinement *)

\* The abstract view of appending a frame is appending its number.
LEMMA AppendNumbers ==
  ASSUME NEW fs \in Seq(Frames), NEW f \in Frames
  PROVE  SeqNumbers(Append(fs, f)) = Append(SeqNumbers(fs), f.seq)
  <1>1. /\ Len(Append(fs, f)) = Len(fs) + 1
        /\ \A i \in 1..Len(fs) : Append(fs, f)[i] = fs[i]
        /\ Append(fs, f)[Len(fs) + 1] = f
        /\ Len(fs) \in Nat
    OBVIOUS
  <1>2. /\ SeqNumbers(fs) \in Seq(Nat)
        /\ Len(SeqNumbers(fs)) = Len(fs)
    <2>1. \A i \in 1..Len(fs) : fs[i].seq \in Nat
      <3>1. \A i \in 1..Len(fs) : fs[i] \in Frames
        OBVIOUS
      <3>2. \A g \in Frames : g.seq \in Nat
        BY DEF Frames
      <3> QED BY <3>1, <3>2
    <2> QED BY <1>1, <2>1 DEF SeqNumbers
  <1>3. f.seq \in Nat
    BY DEF Frames
  <1> DEFINE a == SeqNumbers(Append(fs, f))
             b == Append(SeqNumbers(fs), f.seq)
  <1>4. /\ a = [i \in 1..(Len(fs) + 1) |-> Append(fs, f)[i].seq]
        /\ b = [i \in 1..(Len(fs) + 1) |-> IF i = Len(fs) + 1 THEN f.seq ELSE SeqNumbers(fs)[i]]
    <2>1. a = [i \in 1..(Len(fs) + 1) |-> Append(fs, f)[i].seq]
      BY <1>1 DEF SeqNumbers
    <2>2. b \in Seq(Nat) /\ Len(b) = Len(fs) + 1 /\ DOMAIN b = 1..(Len(fs) + 1)
      BY <1>2, <1>3
    <2>3. \A i \in 1..(Len(fs) + 1) : b[i] = IF i = Len(fs) + 1 THEN f.seq ELSE SeqNumbers(fs)[i]
      BY <1>2, <1>3
    <2>4. b = [i \in DOMAIN b |-> b[i]]
      BY <2>2
    <2> QED BY <2>1, <2>2, <2>3, <2>4
  <1>5. \A i \in 1..(Len(fs) + 1) :
           Append(fs, f)[i].seq = IF i = Len(fs) + 1 THEN f.seq ELSE SeqNumbers(fs)[i]
    <2> SUFFICES ASSUME NEW i \in 1..(Len(fs) + 1)
                 PROVE  Append(fs, f)[i].seq = IF i = Len(fs) + 1 THEN f.seq
                                               ELSE SeqNumbers(fs)[i]
      OBVIOUS
    <2>1. CASE i = Len(fs) + 1
      BY <1>1, <2>1
    <2>2. CASE i # Len(fs) + 1
      <3>1. i \in 1..Len(fs)
        BY <1>1, <2>2
      <3> QED BY <1>1, <2>2, <3>1 DEF SeqNumbers
    <2> QED BY <2>1, <2>2
  <1> QED BY <1>4, <1>5, Zenon

\* Forwarding a released frame above everything sent is an abstract Receive.
LEMMA ForwardReceives ==
  ASSUME TypeOK, TypeOK', NEW s \in Sessions, NEW f \in Frames,
         SentInv(s), f.seq \in 0..(Released - 1), Released' = Released,
         f.seq > last[s], Forward(s, f)
  PROVE  Abs!Receive(s)
  <1> DEFINE r == [t \in Sessions |-> SeqNumbers(sent[t])]
  <1>1. sent' = [sent EXCEPT ![s] = Append(sent[s], f)]
    BY DEF Forward, TypeOK
  <1>2. sent[s] \in Seq(Frames) /\ Append(sent[s], f) \in Seq(Frames)
    BY AppendSeqs DEF TypeOK
  <1>3. r' = [r EXCEPT ![s] = Append(r[s], f.seq)]
    <2>1. ASSUME NEW t \in Sessions
          PROVE  SeqNumbers(sent'[t]) = IF t = s THEN Append(SeqNumbers(sent[s]), f.seq)
                                        ELSE SeqNumbers(sent[t])
      BY <1>1, <1>2, AppendNumbers DEF TypeOK
    <2> QED BY <2>1
  <1>4. \A i \in 1..Len(r[s]) : r[s][i] < f.seq
    <2>1. Len(r[s]) = Len(sent[s])
      BY <1>2 DEF SeqNumbers
    <2>2. ASSUME NEW i \in 1..Len(sent[s]) PROVE r[s][i] < f.seq
      <3>1. r[s][i] = sent[s][i].seq /\ sent[s][i].seq \in Seqs(sent[s])
        BY DEF SeqNumbers, Seqs
      <3>2. sent[s][i].seq \in Int /\ sent[s][i].seq <= last[s]
        BY <1>2, <3>1, SeqsType DEF SentInv
      <3>3. last[s] \in Int /\ f.seq \in Int
        BY DEF TypeOK, Frames
      <3> QED BY <3>1, <3>2, <3>3
    <2> QED BY <2>1, <2>2
  <1> QED BY <1>3, <1>4 DEF Abs!Receive

\* A worker step moves Released by at most one number.
LEMMA WorkerEmits ==
  ASSUME StreamInv, Worker \/ StreamFails \/ WorkerStops \/ BufferExpires
  PROVE  Abs!Emit \/ UNCHANGED <<Released, [s \in Sessions |-> SeqNumbers(sent[s])]>>
  <1>0. seq \in Nat
    BY DEF StreamInv, TypeOK
  <1>1. sent' = sent
    BY DEF Worker, Yield, Finish, Publish, AppendToBuffer, SetExpiry, StreamFails,
           WorkerStops, BufferExpires, sessionVars
  <1>2. Released' = Released \/ Released' = Released + 1
    <2>1. ASSUME NEW e \in Events, Yield(e) PROVE Released' = Released
      BY <1>0, <2>1 DEF Yield, Format, Released
    <2>2. CASE StreamFails
      BY <1>0, <2>2 DEF StreamFails, Format, Released
    <2>3. CASE Finish \/ SetExpiry \/ BufferExpires
      BY <1>0, <2>3 DEF Finish, SetExpiry, BufferExpires, workerVars, Released
    <2>4. CASE Publish \/ AppendToBuffer \/ WorkerStops
      BY <1>0, <2>4 DEF Publish, AppendToBuffer, WorkerStops, Released
    <2> QED BY <2>1, <2>2, <2>3, <2>4 DEF Worker
  <1> QED BY <1>1, <1>2, Zenon DEF Abs!Emit

\* A session step is a Receive or invisible.
LEMMA SessionReceives ==
  ASSUME StreamInv, TypeOK', NEW s \in Sessions,
         Gateway(s) \/ Handshake(s) \/ Disconnect(s)
  PROVE  \/ Abs!Receive(s)
         \/ UNCHANGED <<Released, [t \in Sessions |-> SeqNumbers(sent[t])]>>
  <1>0. TypeOK /\ SessionInv(s) /\ SentInv(s)
    BY StreamInvParts DEF SessionInv
  <1>1. Released' = Released
    <2>1. UNCHANGED <<step, seq>>
      BY DEF Gateway, Subscribe, ReadBuffer, ReplayFrame, ForwardLive, CloseSession,
             Handshake, Disconnect, workerVars
    <2> QED BY <2>1, Zenon DEF Released
  <1>2. ASSUME NEW f \in Frames, f.seq < Released, Forward(s, f)
        PROVE  \/ Abs!Receive(s)
               \/ UNCHANGED <<Released, [t \in Sessions |-> SeqNumbers(sent[t])]>>
    <2>1. CASE f.seq > last[s]
      <3>1. f.seq \in 0..(Released - 1)
        BY <1>0, <1>2, Numbers DEF Frames
      <3> QED BY <1>0, <1>1, <1>2, <2>1, <3>1, ForwardReceives
    <2>2. CASE ~(f.seq > last[s])
      <3>1. sent' = sent
        BY <1>2, <2>2, Zenon DEF Forward
      <3> QED BY <1>1, <3>1, Zenon
    <2> QED BY <2>1, <2>2
  <1>3. CASE ReplayFrame(s)
    <2>1. Head(replay[s]) \in Frames /\ Head(replay[s]).seq < Released
      BY <1>3, ReplayHead DEF ReplayFrame
    <2> QED BY <1>2, <1>3, <2>1, Zenon DEF ReplayFrame
  <1>4. CASE ForwardLive(s)
    <2>1. Head(inbox[s]) \in Frames /\ Head(inbox[s]).seq < Released
      BY <1>4, InboxHead DEF ForwardLive
    <2> QED BY <1>2, <1>4, <2>1, Zenon DEF ForwardLive
  <1>5. CASE \/ Subscribe(s) \/ ReadBuffer(s) \/ CloseSession(s)
             \/ Handshake(s) \/ Disconnect(s)
    <2>1. sent' = sent
      BY <1>5 DEF Subscribe, ReadBuffer, CloseSession, Handshake, Disconnect
    <2> QED BY <1>1, <2>1, Zenon
  <1> QED BY <1>3, <1>4, <1>5, Zenon DEF Gateway

\* Publisher, buffer, channel and gateways implement the lossy ordered stream.
THEOREM Refinement == Spec => ImplementsLossyStream
  <1>1. Init => Abs!Init
    <2> SUFFICES ASSUME Init PROVE Abs!Init
      OBVIOUS
    <2>1. Released = 0
      BY DEF Init, Released
    <2>2. SeqNumbers(<< >>) = << >>
      BY DEF SeqNumbers
    <2> QED BY <2>1, <2>2 DEF Init, Abs!Init
  <1>2. StreamInv /\ TypeOK' /\ [Next]_vars
           => [Abs!Next]_<<Released, [s \in Sessions |-> SeqNumbers(sent[s])]>>
    <2> SUFFICES ASSUME StreamInv, TypeOK', [Next]_vars
                 PROVE  [Abs!Next]_<<Released, [s \in Sessions |-> SeqNumbers(sent[s])]>>
      OBVIOUS
    <2>1. CASE UNCHANGED vars
      <3>1. sent' = sent /\ Released' = Released
        BY <2>1, Zenon DEF vars, sessionVars, workerVars, Released
      <3> QED BY <3>1, Zenon
    <2>2. CASE Worker \/ StreamFails \/ WorkerStops \/ BufferExpires
      BY <2>2, WorkerEmits, Zenon DEF Abs!Next
    <2>3. ASSUME NEW s \in Sessions, Gateway(s) \/ Handshake(s) \/ Disconnect(s)
          PROVE  [Abs!Next]_<<Released, [t \in Sessions |-> SeqNumbers(sent[t])]>>
      BY <2>3, SessionReceives, Zenon DEF Abs!Next
    <2> QED BY <2>1, <2>2, <2>3, Zenon DEF Next
  <1> QED BY <1>1, <1>2, Accounting, TypeCorrect, PTL DEF Spec, ImplementsLossyStream, Abs!Spec
=============================================================================
