-------------------- MODULE SubmissionLifecycle_proofs --------------------
(***************************************************************************)
(* Proofs about SubmissionLifecycle.  LifecycleInv is inductive; one lemma *)
(* per group of actions that change the same places shows it.              *)
(***************************************************************************)
EXTENDS SubmissionLifecycle, FiniteSetTheorems, SequenceTheorems, TLAPS

-----------------------------------------------------------------------------
(* Lemmas about the list *)

\* LPUSH: what a list pushed at the head contains, and that it stays free of
\* duplicates.
LEMMA ListPush ==
    ASSUME NEW S, NEW q \in Seq(S), NEW i \in S
    PROVE  /\ <<i>> \o q \in Seq(S)
           /\ \A j : Contains(<<i>> \o q, j) <=> j = i \/ Contains(q, j)
           /\ IsInjective(q) /\ ~Contains(q, i) => IsInjective(<<i>> \o q)
<1> DEFINE r == <<i>> \o q
<1>1. /\ r \in Seq(S)
      /\ Len(r) = Len(q) + 1
      /\ r[1] = i
      /\ \A k \in 1..Len(q) : r[k + 1] = q[k]
      /\ \A k \in 2..Len(r) : k - 1 \in 1..Len(q) /\ r[k] = q[k - 1]
  OBVIOUS
<1>2. /\ DOMAIN r = 1..Len(r)
      /\ DOMAIN q = 1..Len(q)
      /\ Len(q) \in Nat
  BY <1>1
<1> HIDE DEF r
<1>3. ASSUME NEW j PROVE Contains(r, j) <=> j = i \/ Contains(q, j)
  <2>1. ASSUME Contains(r, j), j # i PROVE Contains(q, j)
    <3>1. PICK k \in 1..Len(r) : r[k] = j
      BY <2>1 DEF Contains
    <3>2. k \in 2..Len(r)
      BY <1>1, <1>2, <2>1, <3>1
    <3> QED
      BY <1>1, <3>1, <3>2 DEF Contains
  <2>2. ASSUME Contains(q, j) PROVE Contains(r, j)
    <3>1. PICK k \in 1..Len(q) : q[k] = j
      BY <2>2 DEF Contains
    <3>2. k + 1 \in 1..Len(r) /\ r[k + 1] = j
      BY <1>1, <1>2, <3>1
    <3> QED
      BY <3>2 DEF Contains
  <2>3. Contains(r, i)
    BY <1>1, <1>2 DEF Contains
  <2> QED
    BY <2>1, <2>2, <2>3
<1>4. ASSUME IsInjective(q), ~Contains(q, i) PROVE IsInjective(r)
  <2>1. SUFFICES ASSUME NEW a \in 1..Len(r), NEW b \in 1..Len(r), r[a] = r[b]
                 PROVE  a = b
    BY <1>2 DEF IsInjective
  <2>2. CASE a = 1
    <3>1. ~(b \in 2..Len(r))
      BY <1>1, <1>4, <2>1, <2>2 DEF Contains
    <3> QED
      BY <1>2, <2>2, <3>1, <1>1
  <2>3. CASE b = 1
    <3>1. ~(a \in 2..Len(r))
      BY <1>1, <1>4, <2>1, <2>3 DEF Contains
    <3> QED
      BY <1>2, <2>3, <3>1, <1>1
  <2>4. CASE a # 1 /\ b # 1
    <3>1. a \in 2..Len(r) /\ b \in 2..Len(r)
      BY <2>4, <1>1, <1>2
    <3>2. q[a - 1] = q[b - 1] /\ a - 1 \in 1..Len(q) /\ b - 1 \in 1..Len(q)
      BY <1>1, <2>1, <3>1
    <3>3. a - 1 = b - 1
      BY <1>2, <1>4, <3>2 DEF IsInjective
    <3> QED
      BY <3>1, <3>3, <1>1, <1>2
  <2> QED
    BY <2>2, <2>3, <2>4
<1> QED
  BY <1>1, <1>3, <1>4 DEF r

\* BRPOP: what a list free of duplicates contains once its last element has
\* been taken.
LEMMA ListPop ==
    ASSUME NEW S, NEW q \in Seq(S), q # << >>
    PROVE  /\ Last(q) \in S
           /\ Contains(q, Last(q))
           /\ Front(q) \in Seq(S)
           /\ \A j : Contains(Front(q), j) => Contains(q, j)
           /\ \A j : Contains(q, j) /\ j # Last(q) => Contains(Front(q), j)
           /\ IsInjective(q) => IsInjective(Front(q)) /\ ~Contains(Front(q), Last(q))
<1> DEFINE r == Front(q)
<1>1. /\ Len(q) \in Nat /\ Len(q) > 0
      /\ r \in Seq(S)
      /\ Len(r) = Len(q) - 1
      /\ \A k \in 1..Len(r) : k \in 1..Len(q) /\ r[k] = q[k]
  <2>1. Len(q) \in Nat /\ Len(q) > 0 /\ \A k \in 1..Len(q) : q[k] \in S
    OBVIOUS
  <2>2. /\ SubSeq(q, 1, Len(q) - 1) \in Seq(S)
        /\ Len(SubSeq(q, 1, Len(q) - 1)) = Len(q) - 1
        /\ \A k \in 1..(Len(q) - 1) : SubSeq(q, 1, Len(q) - 1)[k] = q[k]
    <3> DEFINE n == Len(q) - 1
    <3>1. n \in Int /\ n >= 0 /\ \A k \in 1..n : q[k] \in S
      BY <2>1
    <3> HIDE DEF n
    <3>2. /\ SubSeq(q, 1, n) \in Seq(S)
          /\ Len(SubSeq(q, 1, n)) = IF 1 <= n THEN n - 1 + 1 ELSE 0
          /\ \A k \in 1..(n - 1 + 1) : SubSeq(q, 1, n)[k] = q[1 + k - 1]
      BY <3>1, SubSeqProperties
    <3>3. n - 1 + 1 = n
      BY <3>1
    <3>4. Len(SubSeq(q, 1, n)) = n
      BY <3>1, <3>2
    <3>5. \A k \in 1..n : SubSeq(q, 1, n)[k] = q[k]
      BY <3>1, <3>2, <3>3
    <3> QED
      BY <3>2, <3>4, <3>5 DEF n
  <2> QED
    BY <2>1, <2>2 DEF Front
<1>2. DOMAIN r = 1..Len(r) /\ DOMAIN q = 1..Len(q)
  BY <1>1
<1> HIDE DEF r
<1>3. Last(q) \in S /\ Contains(q, Last(q))
  BY <1>1 DEF Last, Contains
<1>4. ASSUME NEW j, Contains(r, j) PROVE Contains(q, j)
  BY <1>1, <1>4 DEF Contains
<1>5. ASSUME NEW j, Contains(q, j), j # Last(q) PROVE Contains(r, j)
  <2>1. PICK k \in 1..Len(q) : q[k] = j
    BY <1>5 DEF Contains
  <2>2. k \in 1..Len(r)
    BY <1>1, <1>5, <2>1 DEF Last
  <2> QED
    BY <1>1, <2>1, <2>2 DEF Contains
<1>6. ASSUME IsInjective(q) PROVE IsInjective(r) /\ ~Contains(r, Last(q))
  <2>1. IsInjective(r)
    BY <1>1, <1>2, <1>6 DEF IsInjective
  <2>2. ASSUME NEW k \in 1..Len(r), r[k] = Last(q) PROVE FALSE
    <3>1. k \in 1..Len(q) /\ q[k] = q[Len(q)] /\ Len(q) \in 1..Len(q)
      BY <1>1, <2>2 DEF Last
    <3>2. k = Len(q)
      BY <1>2, <1>6, <3>1 DEF IsInjective
    <3> QED
      BY <1>1, <2>2, <3>2
  <2> QED
    BY <2>1, <2>2 DEF Contains
<1> QED
  BY <1>1, <1>3, <1>4, <1>5, <1>6 DEF r

\* Appending to a history.
LEMMA ListAppend ==
    ASSUME NEW S, NEW q \in Seq(S), NEW i \in S
    PROVE  /\ Append(q, i) \in Seq(S)
           /\ \A j : Contains(Append(q, i), j) <=> j = i \/ Contains(q, j)
<1>1. /\ Append(q, i) \in Seq(S)
      /\ Len(Append(q, i)) = Len(q) + 1
      /\ Len(q) \in Nat
      /\ \A k \in 1..Len(q) : Append(q, i)[k] = q[k]
      /\ Append(q, i)[Len(q) + 1] = i
  OBVIOUS
<1>2. ASSUME NEW j, Contains(Append(q, i), j), j # i PROVE Contains(q, j)
  <2>1. PICK k \in 1..(Len(q) + 1) : Append(q, i)[k] = j
    BY <1>1, <1>2 DEF Contains
  <2> QED
    BY <1>1, <1>2, <2>1 DEF Contains
<1>3. ASSUME NEW j, Contains(q, j) PROVE Contains(Append(q, i), j)
  BY <1>1, <1>3 DEF Contains
<1>4. Contains(Append(q, i), i)
  BY <1>1 DEF Contains
<1> QED
  BY <1>1, <1>2, <1>3, <1>4

\* Reversed, the head of the list is its newest element ...
LEMMA ReversePush ==
    ASSUME NEW S, NEW q \in Seq(S), NEW i \in S, NEW p \in Seq(S), NEW x \in Seq(S),
           p = x \o Reverse(q)
    PROVE  Append(p, i) = x \o Reverse(<<i>> \o q)
<1>1. /\ Reverse(q) \in Seq(S) /\ Len(Reverse(q)) = Len(q)
      /\ \A k \in 1..Len(q) : Reverse(q)[k] = q[Len(q) - k + 1]
  BY DEF Reverse
<1>2. /\ <<i>> \o q \in Seq(S) /\ Len(<<i>> \o q) = Len(q) + 1
      /\ (<<i>> \o q)[1] = i
      /\ \A k \in 2..(Len(q) + 1) : (<<i>> \o q)[k] = q[k - 1]
  OBVIOUS
<1> DEFINE r == <<i>> \o q
<1> HIDE DEF r
<1>3. /\ Reverse(r) \in Seq(S) /\ Len(Reverse(r)) = Len(q) + 1
      /\ \A k \in 1..(Len(q) + 1) : Reverse(r)[k] = r[Len(q) + 1 - k + 1]
  BY <1>2 DEF Reverse, r
<1>4. Reverse(r) = Append(Reverse(q), i)
  <2>1. ASSUME NEW k \in 1..(Len(q) + 1) PROVE Reverse(r)[k] = Append(Reverse(q), i)[k]
    <3>1. CASE k = Len(q) + 1
      <4>1. Reverse(r)[k] = r[1]
        BY <1>3, <3>1
      <4> QED
        BY <1>1, <1>2, <4>1, <3>1 DEF r
    <3>2. CASE k \in 1..Len(q)
      <4>1. Reverse(r)[k] = r[Len(q) + 1 - k + 1] /\ Len(q) + 1 - k + 1 \in 2..(Len(q) + 1)
        BY <1>3, <3>2
      <4>2. r[Len(q) + 1 - k + 1] = q[Len(q) - k + 1]
        BY <1>2, <4>1, <3>2 DEF r
      <4> QED
        BY <1>1, <4>1, <4>2, <3>2
    <3> QED
      <4>1. k = Len(q) + 1 \/ k \in 1..Len(q)
        BY <1>1
      <4> QED
        BY <3>1, <3>2, <4>1
  <2>2. Append(Reverse(q), i) \in Seq(S) /\ Len(Append(Reverse(q), i)) = Len(q) + 1
    BY <1>1
  <2> QED
    BY <1>3, <2>1, <2>2, SeqEqual
<1>5. Append(x \o Reverse(q), i) = x \o Append(Reverse(q), i)
  <2>1. Append(x \o Reverse(q), i) = (x \o Reverse(q)) \o <<i>>
    BY <1>1, AppendIsConcat, ConcatProperties
  <2>2. Append(Reverse(q), i) = Reverse(q) \o <<i>>
    BY <1>1, AppendIsConcat
  <2>3. <<i>> \in Seq(S)
    OBVIOUS
  <2> QED
    BY <1>1, <2>1, <2>2, <2>3, ConcatAssociative
<1> QED
  BY <1>4, <1>5 DEF r

\* ... and its last element the oldest.
LEMMA ReversePop ==
    ASSUME NEW S, NEW q \in Seq(S), q # << >>, NEW p, NEW x \in Seq(S),
           p = x \o Reverse(q)
    PROVE  p = Append(x, Last(q)) \o Reverse(Front(q))
<1>1. /\ Reverse(q) \in Seq(S) /\ Len(Reverse(q)) = Len(q)
      /\ \A k \in 1..Len(q) : Reverse(q)[k] = q[Len(q) - k + 1]
      /\ Len(q) \in Nat /\ Len(q) > 0
  BY DEF Reverse
<1> DEFINE r == Front(q)
<1>2. /\ r \in Seq(S) /\ Len(r) = Len(q) - 1
      /\ \A k \in 1..(Len(q) - 1) : r[k] = q[k]
  BY <1>1 DEF Front
<1> HIDE DEF r
<1>3. /\ Reverse(r) \in Seq(S) /\ Len(Reverse(r)) = Len(q) - 1
      /\ \A k \in 1..(Len(q) - 1) : Reverse(r)[k] = r[Len(q) - 1 - k + 1]
  BY <1>1, <1>2 DEF Reverse
<1>4. Last(q) \in S
  BY <1>1 DEF Last
<1>5. Reverse(q) = <<Last(q)>> \o Reverse(r)
  <2>1. ASSUME NEW k \in 1..Len(q) PROVE Reverse(q)[k] = (<<Last(q)>> \o Reverse(r))[k]
    <3>1. CASE k = 1
      <4>1. Reverse(q)[1] = q[Len(q)]
        BY <1>1
      <4>2. (<<Last(q)>> \o Reverse(r))[1] = Last(q)
        BY <1>3, <1>4
      <4> QED
        BY <3>1, <4>1, <4>2 DEF Last
    <3>2. CASE k \in 2..Len(q)
      <4>1. (<<Last(q)>> \o Reverse(r))[k] = Reverse(r)[k - 1] /\ k - 1 \in 1..(Len(q) - 1)
        BY <1>1, <1>3, <1>4, <3>2
      <4>2. Reverse(r)[k - 1] = r[Len(q) - 1 - (k - 1) + 1]
        BY <1>3, <4>1
      <4>3. Len(q) - 1 - (k - 1) + 1 = Len(q) - k + 1 /\ Len(q) - k + 1 \in 1..(Len(q) - 1)
        BY <1>1, <3>2
      <4> QED
        BY <1>1, <1>2, <4>1, <4>2, <4>3
    <3> QED
      <4>1. k = 1 \/ k \in 2..Len(q)
        BY <1>1
      <4> QED
        BY <3>1, <3>2, <4>1
  <2>2. /\ <<Last(q)>> \o Reverse(r) \in Seq(S)
        /\ Len(<<Last(q)>> \o Reverse(r)) = Len(q)
    BY <1>1, <1>3, <1>4
  <2> QED
    BY <1>1, <2>1, <2>2, SeqEqual
<1>6. x \o (<<Last(q)>> \o Reverse(r)) = Append(x, Last(q)) \o Reverse(r)
  <2>1. Append(x, Last(q)) = x \o <<Last(q)>>
    BY <1>4, AppendIsConcat
  <2>2. <<Last(q)>> \in Seq(S)
    BY <1>4
  <2> QED
    BY <1>3, <2>1, <2>2, ConcatAssociative
<1> QED
  BY <1>5, <1>6 DEF r

-----------------------------------------------------------------------------
(* Lemmas about counting losses *)

\* A set of losses that only shrinks stays within its bound.
LEMMA LossesShrink ==
    ASSUME NEW S, IsFiniteSet(S), NEW K \in SUBSET S, NEW L \in SUBSET K,
           NEW n \in Nat, Cardinality(K) <= n
    PROVE  Cardinality(L) <= n
<1>1. IsFiniteSet(K)
  BY FS_Subset
<1>2. IsFiniteSet(L) /\ Cardinality(L) <= Cardinality(K)
  BY <1>1, FS_Subset
<1>3. Cardinality(L) \in Nat /\ Cardinality(K) \in Nat
  BY <1>1, <1>2, FS_CardinalityType
<1> QED
  BY <1>2, <1>3

\* One more loss needs a bound higher by one.
LEMMA LossesGrow ==
    ASSUME NEW S, IsFiniteSet(S), NEW K \in SUBSET S, NEW x, NEW L \in SUBSET (K \cup {x}),
           NEW n \in Nat, Cardinality(K) <= n
    PROVE  Cardinality(L) <= n + 1
<1>1. IsFiniteSet(K)
  BY FS_Subset
<1>2. /\ IsFiniteSet(K \cup {x})
      /\ Cardinality(K \cup {x}) <= Cardinality(K) + 1
  <2>1. /\ IsFiniteSet(K \cup {x})
        /\ Cardinality(K \cup {x}) = IF x \in K THEN Cardinality(K) ELSE Cardinality(K) + 1
    BY <1>1, FS_AddElement
  <2>2. Cardinality(K) \in Nat
    BY <1>1, FS_CardinalityType
  <2> QED
    BY <2>1, <2>2
<1>3. IsFiniteSet(L) /\ Cardinality(L) <= Cardinality(K \cup {x})
  BY <1>2, FS_Subset
<1>4. Cardinality(L) \in Nat /\ Cardinality(K) \in Nat /\ Cardinality(K \cup {x}) \in Nat
  BY <1>1, <1>2, <1>3, FS_CardinalityType
<1> QED
  BY <1>2, <1>3, <1>4

-----------------------------------------------------------------------------
(* Types *)

\* A loop that comes round waits or stops.
LEMMA LoopTopType == \A w : LoopTop(w) \in {"waiting", "stopped"}
BY DEF LoopTop

\* The initial state has the declared types.
LEMMA TypeInit == Init => TypeOK
<1> SUFFICES ASSUME Init PROVE TypeOK
  OBVIOUS
<1>1. queue \in Seq(Submissions) /\ pushed \in Seq(Submissions) /\ popped \in Seq(Submissions)
  BY DEF Init
<1>2. stopping \in [Workers -> BOOLEAN]
  BY Zenon DEF Init
<1> QED
  BY <1>1, <1>2 DEF Init, TypeOK, Answers, Final

\* Every step of the API keeps them.
LEMMA TypeApi ==
    ASSUME TypeOK, NEW i \in Submissions,
           Receive(i) \/ Api(i) \/ CommitFails(i) \/ PushFails(i)
    PROVE  TypeOK'
<1> USE DEF TypeOK, Answers, Final, apiVars, workerVars
<1>1. CASE Receive(i)
  <2>1. PICK a \in {"commit", "400"} : call' = [call EXCEPT ![i] = a]
    BY <1>1 DEF Receive
  <2> QED
    BY <1>1, <2>1 DEF Receive
<1>2. CASE Commit(i)
  BY <1>2 DEF Commit
<1>3. CASE CommitFails(i)
  BY <1>3 DEF CommitFails, Fault
<1>4. CASE Push(i) \/ PushFails(i)
  <2>1. <<i>> \o queue \in Seq(Submissions) /\ Append(pushed, i) \in Seq(Submissions)
    BY ListPush, ListAppend
  <2>2. queue' \in Seq(Submissions) /\ pushed' \in Seq(Submissions)
    BY <1>4, <2>1 DEF Push, PushFails, Enqueue
  <2>3. call' \in [Submissions -> {"idle", "commit", "push"} \cup Answers] /\ faults' \in Nat
    <3>1. CASE Push(i)
      BY <3>1 DEF Push
    <3>2. CASE PushFails(i)
      BY <3>2 DEF PushFails, Fault
    <3> QED
      BY <1>4, <3>1, <3>2
  <2> QED
    BY <1>4, <2>2, <2>3 DEF Push, PushFails
<1> QED
  BY <1>1, <1>2, <1>3, <1>4 DEF Api

\* What BRPOP does, by ListPop.
LEMMA DequeueType ==
    ASSUME TypeOK, NEW i \in Submissions, Dequeue(i)
    PROVE  queue' \in Seq(Submissions) /\ popped' \in Seq(Submissions)
BY ListPop, ListAppend DEF Dequeue, TypeOK

\* Every step of a worker keeps them.
LEMMA TypeWorker ==
    ASSUME TypeOK, NEW w \in Workers,
           \/ Loop(w) \/ Stop(w) \/ Restart(w) \/ PopReplyLost(w)
           \/ ExecuteFails(w) \/ PersistFails(w) \/ Die(w)
    PROVE  TypeOK'
<1> USE DEF TypeOK, Answers, Final, apiVars, workerVars
<1>1. CASE Pop(w)
  <2>1. PICK i \in Submissions : Dequeue(i) /\ job' = [job EXCEPT ![w] = i]
    BY <1>1 DEF Pop
  <2> QED
    BY <1>1, <2>1, DequeueType DEF Pop
<1>2. CASE PopReplyLost(w)
  <2>1. PICK i \in Submissions : Dequeue(i)
    BY <1>2 DEF PopReplyLost
  <2> QED
    BY <1>2, <2>1, DequeueType DEF PopReplyLost, Fault
<1>3. CASE PopTimesOut(w) \/ WakeUp(w)
  BY <1>3, LoopTopType DEF PopTimesOut, WakeUp
<1>4. CASE Execute(w)
  BY <1>4 DEF Execute
<1>5. CASE ExecuteFails(w)
  BY <1>5 DEF ExecuteFails, Fault
<1>10. CASE Die(w)
  BY <1>10 DEF Die, Fault
<1>6. CASE Persist(w)
  <2>1. row' \in [Submissions -> {"absent", "PENDING"} \cup Final]
    BY <1>6 DEF Persist
  <2> QED
    BY <1>6, <2>1, LoopTopType DEF Persist
<1>7. CASE PersistFails(w)
  BY <1>7, LoopTopType DEF PersistFails, Fault
<1>8. CASE Stop(w)
  <2>1. stopping' \in [Workers -> BOOLEAN]
    BY <1>8, Zenon DEF Stop
  <2> QED
    BY <1>8, <2>1 DEF Stop
<1>9. CASE Restart(w)
  <2>1. stopping' \in [Workers -> BOOLEAN]
    BY <1>9, Zenon DEF Restart
  <2> QED
    BY <1>9, <2>1 DEF Restart
<1> QED
  BY <1>1, <1>2, <1>3, <1>4, <1>5, <1>6, <1>7, <1>8, <1>9, <1>10 DEF Loop

\* Stuttering keeps them.
LEMMA TypeStutter == TypeOK /\ UNCHANGED vars => TypeOK'
BY DEF TypeOK, vars, apiVars, workerVars

-----------------------------------------------------------------------------
(* The inductive invariant: first, who holds a job *)

\* A worker's hands are full exactly while it runs or persists.
LEMMA HandsStep ==
    ASSUME TypeOK, TypeOK', HandsInv, [Next]_vars
    PROVE  HandsInv'
<1> USE DEF HandsInv
<1>0. NoJob \notin Submissions
  BY LifecycleAssumption
<1>1. CASE UNCHANGED <<state, job>>
  BY <1>1
<1>2. ASSUME NEW w \in Workers, Pop(w) PROVE HandsInv'
  <2>1. PICK i \in Submissions : job' = [job EXCEPT ![w] = i]
    BY <1>2 DEF Pop
  <2>2. state' = [state EXCEPT ![w] = "running"]
    BY <1>2 DEF Pop
  <2> QED
    BY <1>0, <2>1, <2>2 DEF TypeOK
<1>3. ASSUME NEW w \in Workers, job' = job,
             state[w] \in {"waiting", "backoff", "stopped", "down"},
             NEW v \in {"waiting", "backoff", "stopped", "down"},
             state' = [state EXCEPT ![w] = v]
      PROVE  HandsInv'
  BY <1>3 DEF TypeOK
<1>4. ASSUME NEW w \in Workers, job' = [job EXCEPT ![w] = NoJob],
             NEW v \in {"waiting", "backoff", "stopped", "down"},
             state' = [state EXCEPT ![w] = v]
      PROVE  HandsInv'
  BY <1>4 DEF TypeOK
<1>5. ASSUME NEW w \in Workers, Execute(w) PROVE HandsInv'
  BY <1>5 DEF TypeOK, Execute
<1>6. ASSUME NEW w \in Workers, PopReplyLost(w) PROVE HandsInv'
  BY <1>6, <1>3 DEF PopReplyLost, workerVars
<1>7. ASSUME NEW w \in Workers, PopTimesOut(w) PROVE HandsInv'
  BY <1>7, <1>3, LoopTopType DEF PopTimesOut
<1>8. ASSUME NEW w \in Workers, WakeUp(w) PROVE HandsInv'
  BY <1>8, <1>3, LoopTopType DEF WakeUp
<1>9. ASSUME NEW w \in Workers, Restart(w) PROVE HandsInv'
  BY <1>9, <1>3 DEF Restart
<1>10. ASSUME NEW w \in Workers, ExecuteFails(w) PROVE HandsInv'
  BY <1>10, <1>4 DEF ExecuteFails
<1>11. ASSUME NEW w \in Workers, Die(w) PROVE HandsInv'
  BY <1>11, <1>4 DEF Die
<1>12. ASSUME NEW w \in Workers, Persist(w) PROVE HandsInv'
  BY <1>12, <1>4, LoopTopType DEF Persist
<1>13. ASSUME NEW w \in Workers, PersistFails(w) PROVE HandsInv'
  BY <1>13, <1>4, LoopTopType DEF PersistFails
<1>14. ASSUME NEW w \in Workers, Stop(w) PROVE HandsInv'
  BY <1>14, <1>1 DEF Stop
<1>15. ASSUME NEW i \in Submissions,
              Receive(i) \/ Api(i) \/ CommitFails(i) \/ PushFails(i)
       PROVE  HandsInv'
  BY <1>15, <1>1 DEF Receive, Api, Commit, Push, CommitFails, PushFails, workerVars
<1>16. CASE UNCHANGED vars
  BY <1>16, <1>1 DEF vars, workerVars
<1> QED
  BY <1>2, <1>5, <1>6, <1>7, <1>8, <1>9, <1>10, <1>11, <1>12, <1>13, <1>14, <1>15,
     <1>16 DEF Next, Loop

-----------------------------------------------------------------------------
(* Then where the jobs are: one lemma for each way a step moves them *)

\* The conjuncts that a step may move jobs against.
PlacesInv == AnsweredFirst /\ HeldWasPopped /\ AtMostOnePlace /\ FirstInFirstOut
                /\ LossesNeedFaults

\* What a step of the API other than LPUSH, or of an idle worker, amounts to.
Unmoved ==
    /\ UNCHANGED <<queue, job, pushed, popped>>
    /\ \A j \in Submissions : (row'[j] \in Final) = (row[j] \in Final)
    /\ \A j \in Submissions : call[j] \in {"202", "500"} => call'[j] = call[j]
    /\ \A j \in Submissions : call'[j] = "202" => call[j] = "202"
    /\ faults' >= faults

\* A step that moves one job, in terms of the refinement mapping.
Moves(i, from, to) ==
    /\ Stage(i) = from
    /\ Stage(i)' = to
    /\ \A j \in Submissions : j # i => Stage(j)' = Stage(j)

\* A step that moves no job keeps the places.
LEMMA UnmovedStep ==
    ASSUME TypeOK, TypeOK', PlacesInv, Unmoved
    PROVE  PlacesInv' /\ \A j \in Submissions : Stage(j)' = Stage(j)
<1>1. /\ queue' = queue /\ job' = job /\ pushed' = pushed /\ popped' = popped
      /\ \A j \in Submissions : InQueue(j)' = InQueue(j) /\ Held(j)' = Held(j)
                                /\ Gone(j)' = Gone(j) /\ Finished(j)' = Finished(j)
  BY DEF Unmoved, InQueue, Held, Gone, Finished
<1>2. AnsweredFirst'
  BY <1>1 DEF PlacesInv, AnsweredFirst, Unmoved
<1>3. HeldWasPopped'
  BY <1>1 DEF PlacesInv, HeldWasPopped
<1>4. AtMostOnePlace'
  BY <1>1 DEF PlacesInv, AtMostOnePlace
<1>5. FirstInFirstOut'
  BY <1>1 DEF PlacesInv, FirstInFirstOut
<1>6. LossesNeedFaults'
  <2>1. Lost' \in SUBSET Lost /\ Lost \in SUBSET Submissions
    BY <1>1 DEF Lost, Unmoved
  <2>2. Cardinality(Lost) <= faults /\ faults \in Nat /\ faults' \in Nat /\ faults <= faults'
    BY DEF PlacesInv, LossesNeedFaults, TypeOK, Unmoved
  <2>3. Cardinality(Lost) <= faults'
    <3>1. Cardinality(Lost) \in Nat
      BY <2>1, LifecycleAssumption, FS_Subset, FS_CardinalityType
    <3> QED
      BY <2>2, <3>1
  <2> QED
    BY <2>1, <2>2, <2>3, LifecycleAssumption, LossesShrink DEF LossesNeedFaults
<1>7. \A j \in Submissions : Stage(j)' = Stage(j)
  BY <1>1, Zenon DEF Stage
<1> QED
  BY <1>2, <1>3, <1>4, <1>5, <1>6, <1>7 DEF PlacesInv

\* What AtMostOnePlace says of each submission.
LEMMA Apart ==
    ASSUME PlacesInv, NEW j \in Submissions
    PROVE  /\ InQueue(j) => ~Held(j) /\ ~Finished(j)
           /\ Held(j) => ~Finished(j)
<1>1. \A i \in Submissions : /\ InQueue(i) => ~Held(i) /\ ~Finished(i)
                             /\ Held(i) => ~Finished(i)
  BY DEF PlacesInv, AtMostOnePlace
<1> QED
  BY <1>1

\* LPUSH: the job of a POST that had none is queued.
LEMMA EnqueueStep ==
    ASSUME TypeOK, TypeOK', PlacesInv, NEW i \in Submissions,
           call[i] = "push", Enqueue(i),
           NEW a \in {"202", "500"}, call' = [call EXCEPT ![i] = a],
           UNCHANGED <<row, job, popped>>, faults' >= faults
    PROVE  PlacesInv' /\ Moves(i, "new", "queued")
<1>1. ~InQueue(i) /\ ~Held(i) /\ ~Finished(i) /\ ~Gone(i)
  BY DEF PlacesInv, AnsweredFirst
<1>2. ASSUME NEW j \in Submissions
      PROVE  /\ InQueue(j)' <=> j = i \/ InQueue(j)
             /\ (Held(j)' <=> Held(j)) /\ (Gone(j)' <=> Gone(j)) /\ (Finished(j)' <=> Finished(j))
  BY ListPush DEF Enqueue, InQueue, Held, Gone, Finished, TypeOK
<1>3. call'[i] \in {"202", "500"} /\ \A j \in Submissions : j # i => call'[j] = call[j]
  BY DEF TypeOK
<1>4. AnsweredFirst'
  BY <1>2, <1>3 DEF PlacesInv, AnsweredFirst
<1>5. HeldWasPopped'
  BY <1>2 DEF PlacesInv, HeldWasPopped
<1>6. AtMostOnePlace'
  <2>1. IsInjective(queue')
    BY <1>1, ListPush DEF PlacesInv, AtMostOnePlace, Enqueue, InQueue, TypeOK
  <2>2. \A j \in Submissions : /\ InQueue(j)' => ~Held(j)' /\ ~Finished(j)'
                               /\ Held(j)' => ~Finished(j)'
    BY <1>1, <1>2, Apart, Zenon
  <2> QED
    BY <2>1, <2>2 DEF PlacesInv, AtMostOnePlace
<1>7. FirstInFirstOut'
  <2>1. /\ pushed = popped \o Reverse(queue)
        /\ queue \in Seq(Submissions) /\ pushed \in Seq(Submissions)
        /\ popped \in Seq(Submissions)
    BY DEF PlacesInv, FirstInFirstOut, TypeOK
  <2>2. Append(pushed, i) = popped \o Reverse(<<i>> \o queue)
    BY <2>1, ReversePush
  <2> QED
    BY <2>2 DEF FirstInFirstOut, Enqueue
<1>8. LossesNeedFaults'
  <2>1. Lost' \in SUBSET Lost /\ Lost \in SUBSET Submissions
    BY <1>2, <1>3 DEF Lost
  <2>2. Cardinality(Lost) \in Nat
    BY <2>1, LifecycleAssumption, FS_Subset, FS_CardinalityType
  <2>3. Cardinality(Lost) <= faults' /\ faults' \in Nat
    BY <2>2 DEF PlacesInv, LossesNeedFaults, TypeOK
  <2> QED
    BY <2>1, <2>3, LifecycleAssumption, LossesShrink DEF LossesNeedFaults
<1>9. Moves(i, "new", "queued")
  BY <1>1, <1>2, Zenon DEF Moves, Stage
<1> QED
  BY <1>4, <1>5, <1>6, <1>7, <1>8, <1>9 DEF PlacesInv

\* What BRPOP does to the list and the history, whoever gets the reply.
LEMMA DequeueEffect ==
    ASSUME TypeOK, PlacesInv, NEW i \in Submissions, Dequeue(i), UNCHANGED pushed
    PROVE  /\ InQueue(i) /\ ~InQueue(i)' /\ Gone(i)'
           /\ \A j \in Submissions : j # i => /\ InQueue(j)' <=> InQueue(j)
                                              /\ Gone(j)' <=> Gone(j)
           /\ IsInjective(queue')
           /\ FirstInFirstOut'
<1>1. queue # << >> /\ queue \in Seq(Submissions) /\ i = Last(queue)
      /\ queue' = Front(queue) /\ popped' = Append(popped, i)
      /\ popped \in Seq(Submissions) /\ IsInjective(queue)
  BY DEF Dequeue, TypeOK, PlacesInv, AtMostOnePlace
<1>2. /\ Contains(queue, i) /\ ~Contains(queue', i)
      /\ \A j : j # i => (Contains(queue', j) <=> Contains(queue, j))
      /\ IsInjective(queue')
  BY <1>1, ListPop
<1>3. \A j : Contains(popped', j) <=> j = i \/ Contains(popped, j)
  BY <1>1, ListAppend
<1>4. pushed' = popped' \o Reverse(queue')
  BY <1>1, ReversePop DEF PlacesInv, FirstInFirstOut
<1> QED
  BY <1>2, <1>3, <1>4 DEF InQueue, Gone, FirstInFirstOut

\* A worker with empty hands takes a job.
LEMMA PopStep ==
    ASSUME TypeOK, TypeOK', HandsInv, PlacesInv, NEW w \in Workers, Pop(w)
    PROVE  PlacesInv' /\ \E i \in Submissions : Moves(i, "queued", "taken")
<1>1. PICK i \in Submissions : Dequeue(i) /\ job' = [job EXCEPT ![w] = i]
  BY DEF Pop
<1>2. row' = row /\ call' = call /\ faults' = faults /\ pushed' = pushed
  BY DEF Pop, apiVars
<1>3. job[w] = NoJob /\ NoJob \notin Submissions
  BY LifecycleAssumption DEF Pop, HandsInv
<1>4. /\ InQueue(i) /\ ~InQueue(i)' /\ Gone(i)'
      /\ \A j \in Submissions : j # i => /\ InQueue(j)' <=> InQueue(j)
                                         /\ Gone(j)' <=> Gone(j)
      /\ IsInjective(queue') /\ FirstInFirstOut'
  BY <1>1, <1>2, DequeueEffect
<1>5. \A v \in Workers : job'[v] = IF v = w THEN i ELSE job[v]
  BY <1>1 DEF TypeOK
<1>6. /\ Held(i)' /\ \A j \in Submissions : j # i => (Held(j)' <=> Held(j))
      /\ ~Held(i) /\ \A v \in Workers : job[v] # i
  <2>1. ~Held(i)
    BY <1>4, Apart
  <2> QED
    BY <1>3, <1>5, <2>1 DEF Held
<1>7. \A j \in Submissions : Finished(j)' <=> Finished(j)
  BY <1>2 DEF Finished
<1>8. AnsweredFirst'
  BY <1>2, <1>4, <1>6, <1>7 DEF PlacesInv, AnsweredFirst
<1>9. HeldWasPopped'
  BY <1>4, <1>6 DEF PlacesInv, HeldWasPopped
<1>10. AtMostOnePlace'
  <2>1. \A u, v \in Workers : job'[u] = job'[v] /\ job'[u] # NoJob => u = v
    BY <1>5, <1>6 DEF PlacesInv, AtMostOnePlace
  <2>2. \A j \in Submissions : /\ InQueue(j)' => ~Held(j)' /\ ~Finished(j)'
                               /\ Held(j)' => ~Finished(j)'
    BY <1>4, <1>6, <1>7, Apart, Zenon
  <2> QED
    BY <1>4, <2>1, <2>2 DEF AtMostOnePlace
<1>11. LossesNeedFaults'
  <2>1. Lost' \in SUBSET Lost /\ Lost \in SUBSET Submissions
    BY <1>2, <1>4, <1>6, <1>7 DEF Lost
  <2>2. Cardinality(Lost) <= faults /\ faults \in Nat
    BY DEF PlacesInv, LossesNeedFaults, TypeOK
  <2> QED
    BY <1>2, <2>1, <2>2, LifecycleAssumption, LossesShrink DEF LossesNeedFaults
<1>12. \E j \in Submissions : Moves(j, "queued", "taken")
  BY <1>4, <1>6, <1>7, Apart, Zenon DEF Moves, Stage
<1> QED
  BY <1>4, <1>8, <1>9, <1>10, <1>11, <1>12 DEF PlacesInv

\* A job taken off the list and never read is lost, by a fault of its own.
LEMMA ReplyLostStep ==
    ASSUME TypeOK, TypeOK', PlacesInv, NEW w \in Workers, PopReplyLost(w)
    PROVE  PlacesInv' /\ \E i \in Submissions : Moves(i, "queued", "gone")
<1>1. PICK i \in Submissions : Dequeue(i)
  BY DEF PopReplyLost
<1>2. row' = row /\ call' = call /\ job' = job /\ pushed' = pushed /\ faults' = faults + 1
  BY DEF PopReplyLost, apiVars, Fault
<1>3. /\ InQueue(i) /\ ~InQueue(i)' /\ Gone(i)'
      /\ \A j \in Submissions : j # i => /\ InQueue(j)' <=> InQueue(j)
                                         /\ Gone(j)' <=> Gone(j)
      /\ IsInjective(queue') /\ FirstInFirstOut'
  BY <1>1, <1>2, DequeueEffect
<1>4. \A j \in Submissions : (Held(j)' <=> Held(j)) /\ (Finished(j)' <=> Finished(j))
  BY <1>2 DEF Held, Finished
<1>5. AnsweredFirst'
  BY <1>2, <1>3, <1>4 DEF PlacesInv, AnsweredFirst
<1>6. HeldWasPopped'
  BY <1>3, <1>4 DEF PlacesInv, HeldWasPopped
<1>7. AtMostOnePlace'
  <2>1. \A j \in Submissions : /\ InQueue(j)' => ~Held(j)' /\ ~Finished(j)'
                               /\ Held(j)' => ~Finished(j)'
    BY <1>3, <1>4, Apart, Zenon
  <2> QED
    BY <1>2, <1>3, <2>1 DEF PlacesInv, AtMostOnePlace
<1>8. LossesNeedFaults'
  <2>1. Lost' \in SUBSET (Lost \cup {i}) /\ Lost \in SUBSET Submissions
    BY <1>2, <1>3, <1>4 DEF Lost
  <2>2. Cardinality(Lost) <= faults /\ faults \in Nat
    BY DEF PlacesInv, LossesNeedFaults, TypeOK
  <2> QED
    BY <1>2, <2>1, <2>2, LifecycleAssumption, LossesGrow DEF LossesNeedFaults
<1>9. \E j \in Submissions : Moves(j, "queued", "gone")
  BY <1>3, <1>4, Apart, Zenon DEF Moves, Stage
<1> QED
  BY <1>3, <1>5, <1>6, <1>7, <1>8, <1>9 DEF PlacesInv

\* A worker loses what it holds: a crash, a failed execution, a failed UPDATE.
LEMMA DropStep ==
    ASSUME TypeOK, TypeOK', PlacesInv, NEW w \in Workers,
           job' = [job EXCEPT ![w] = NoJob], faults' = faults + 1,
           UNCHANGED <<call, row, queue, pushed, popped>>
    PROVE  /\ PlacesInv'
           /\ \/ \A j \in Submissions : Stage(j)' = Stage(j)
              \/ \E i \in Submissions : Moves(i, "taken", "gone")
<1>1. NoJob \notin Submissions
  BY LifecycleAssumption
<1>2. \A v \in Workers : job'[v] = IF v = w THEN NoJob ELSE job[v]
  BY DEF TypeOK
<1>3. \A j \in Submissions : /\ (InQueue(j)' <=> InQueue(j)) /\ (Gone(j)' <=> Gone(j))
                             /\ (Finished(j)' <=> Finished(j))
                             /\ Held(j)' => Held(j)
                             /\ j # job[w] => (Held(j) => Held(j)')
  BY <1>1, <1>2 DEF InQueue, Gone, Finished, Held
<1>4. AnsweredFirst'
  BY <1>3 DEF PlacesInv, AnsweredFirst
<1>5. HeldWasPopped'
  BY <1>3 DEF PlacesInv, HeldWasPopped
<1>6. AtMostOnePlace'
  <2>1. \A u, v \in Workers : job'[u] = job'[v] /\ job'[u] # NoJob => u = v
    BY <1>2 DEF PlacesInv, AtMostOnePlace
  <2>2. \A j \in Submissions : /\ InQueue(j)' => ~Held(j)' /\ ~Finished(j)'
                               /\ Held(j)' => ~Finished(j)'
    BY <1>3, Apart, Zenon
  <2> QED
    BY <2>1, <2>2 DEF PlacesInv, AtMostOnePlace
<1>7. FirstInFirstOut'
  BY DEF PlacesInv, FirstInFirstOut
<1>8. LossesNeedFaults'
  <2>1. Lost' \in SUBSET (Lost \cup {job[w]}) /\ Lost \in SUBSET Submissions
    BY <1>3 DEF Lost
  <2>2. Cardinality(Lost) <= faults /\ faults \in Nat
    BY DEF PlacesInv, LossesNeedFaults, TypeOK
  <2> QED
    BY <2>1, <2>2, LifecycleAssumption, LossesGrow DEF LossesNeedFaults
<1>9. \/ \A j \in Submissions : Stage(j)' = Stage(j)
      \/ \E i \in Submissions : Moves(i, "taken", "gone")
  <2>1. CASE job[w] = NoJob
    <3>1. \A j \in Submissions : Held(j)' <=> Held(j)
      BY <1>1, <1>3, <2>1
    <3> QED
      BY <1>3, <3>1, Zenon DEF Stage
  <2>2. ASSUME NEW i \in Submissions, job[w] = i
        PROVE  Moves(i, "taken", "gone")
    <3>1. Held(i) /\ Gone(i) /\ ~InQueue(i) /\ ~Finished(i)
      BY <2>2, Apart DEF Held, PlacesInv, HeldWasPopped
    <3>2. ~Held(i)'
      BY <1>1, <1>2, <2>2 DEF Held, PlacesInv, AtMostOnePlace
    <3> QED
      BY <1>3, <2>2, <3>1, <3>2, Zenon DEF Moves, Stage
  <2> QED
    BY <2>1, <2>2 DEF TypeOK
<1> QED
  BY <1>4, <1>5, <1>6, <1>7, <1>8, <1>9 DEF PlacesInv

\* A worker finishes what it holds.
LEMMA PersistStep ==
    ASSUME TypeOK, TypeOK', HandsInv, PlacesInv, NEW w \in Workers, Persist(w)
    PROVE  PlacesInv' /\ \E i \in Submissions : Moves(i, "taken", "done")
<1>0. PICK i \in Submissions : job[w] = i
  BY DEF Persist, HandsInv, TypeOK
<1>1. NoJob \notin Submissions /\ result[w] \in Final
  BY LifecycleAssumption DEF TypeOK
<1>2. /\ job' = [job EXCEPT ![w] = NoJob] /\ row' = [row EXCEPT ![i] = result[w]]
      /\ call' = call /\ queue' = queue /\ pushed' = pushed /\ popped' = popped
      /\ faults' = faults
  BY <1>0 DEF Persist
<1>3. \A v \in Workers : job'[v] = IF v = w THEN NoJob ELSE job[v]
  BY <1>2 DEF TypeOK
<1>4. Held(i)
  BY <1>0 DEF Held
<1>5. ~Held(i)' /\ ~InQueue(i) /\ Gone(i) /\ Finished(i)'
  <2>1. ~Held(i)'
    BY <1>0, <1>1, <1>3 DEF Held, PlacesInv, AtMostOnePlace
  <2>2. ~InQueue(i) /\ Gone(i)
    BY <1>1, <1>4, Apart DEF PlacesInv, HeldWasPopped
  <2>3. Finished(i)'
    BY <1>1, <1>2 DEF Finished, TypeOK
  <2> QED
    BY <2>1, <2>2, <2>3
<1>6. \A j \in Submissions : /\ (InQueue(j)' <=> InQueue(j)) /\ (Gone(j)' <=> Gone(j))
                             /\ j # i => /\ (Finished(j)' <=> Finished(j))
                                              /\ (Held(j)' <=> Held(j))
  BY <1>0, <1>1, <1>2, <1>3 DEF InQueue, Gone, Finished, Held, TypeOK
<1>7. AnsweredFirst'
  <2>1. call[i] \in {"202", "500"}
    BY <1>1, <1>4 DEF PlacesInv, AnsweredFirst
  <2> QED
    BY <1>2, <1>6, <2>1 DEF PlacesInv, AnsweredFirst
<1>8. HeldWasPopped'
  BY <1>5, <1>6 DEF PlacesInv, HeldWasPopped
<1>9. AtMostOnePlace'
  <2>1. \A u, v \in Workers : job'[u] = job'[v] /\ job'[u] # NoJob => u = v
    BY <1>3 DEF PlacesInv, AtMostOnePlace
  <2>2. ASSUME NEW j \in Submissions
        PROVE  /\ InQueue(j)' => ~Held(j)' /\ ~Finished(j)'
               /\ Held(j)' => ~Finished(j)'
    <3>1. CASE j = i
      BY <1>5, <1>6, <3>1, Zenon
    <3>2. CASE j # i
      BY <1>6, <3>2, Apart, Zenon
    <3> QED
      BY <3>1, <3>2
  <2> QED
    BY <1>2, <2>1, <2>2 DEF PlacesInv, AtMostOnePlace
<1>10. FirstInFirstOut'
  BY <1>2 DEF PlacesInv, FirstInFirstOut
<1>11. LossesNeedFaults'
  <2>1. Lost' \in SUBSET Lost /\ Lost \in SUBSET Submissions
    BY <1>2, <1>5, <1>6 DEF Lost
  <2>2. Cardinality(Lost) <= faults /\ faults \in Nat
    BY DEF PlacesInv, LossesNeedFaults, TypeOK
  <2> QED
    BY <1>2, <2>1, <2>2, LifecycleAssumption, LossesShrink DEF LossesNeedFaults
<1>12. \E j \in Submissions : Moves(j, "taken", "done")
  BY <1>4, <1>5, <1>6, Apart, Zenon DEF Moves, Stage
<1> QED
  BY <1>7, <1>8, <1>9, <1>10, <1>11, <1>12 DEF PlacesInv

-----------------------------------------------------------------------------
(* The step of the whole system *)

\* Initially nothing exists.
LEMMA LifecycleInit == Init => LifecycleInv
<1> SUFFICES ASSUME Init PROVE LifecycleInv
  OBVIOUS
<1>1. TypeOK
  BY TypeInit
<1>2. /\ queue = << >> /\ popped = << >> /\ pushed = << >>
      /\ NoJob \notin Submissions /\ IsFiniteSet(Submissions)
      /\ \A w \in Workers : job[w] = NoJob /\ state[w] = "waiting"
      /\ \A i \in Submissions : row[i] = "absent" /\ call[i] = "idle"
      /\ faults = 0
  BY LifecycleAssumption DEF Init
<1>3. \A i \in Submissions : ~InQueue(i) /\ ~Held(i) /\ ~Finished(i) /\ ~Gone(i)
  BY <1>2 DEF InQueue, Held, Finished, Gone, Contains, Final
<1>4. AnsweredFirst /\ HandsInv /\ HeldWasPopped
  BY <1>2, <1>3 DEF AnsweredFirst, HandsInv, HeldWasPopped
<1>5. AtMostOnePlace
  <2>1. IsInjective(queue)
    BY <1>2 DEF IsInjective
  <2> QED
    BY <1>2, <1>3, <2>1 DEF AtMostOnePlace
<1>6. FirstInFirstOut
  <2>1. Reverse(queue) = << >>
    BY <1>2 DEF Reverse
  <2> QED
    BY <1>2, <2>1 DEF FirstInFirstOut
<1>7. LossesNeedFaults
  <2>1. Lost = {}
    BY <1>2 DEF Lost
  <2> QED
    BY <1>2, <2>1, FS_EmptySet DEF LossesNeedFaults
<1> QED
  BY <1>1, <1>4, <1>5, <1>6, <1>7 DEF LifecycleInv

\* What a step can do to the stages of the jobs.
StageStep ==
    \/ \A j \in Submissions : Stage(j)' = Stage(j)
    \/ \E i \in Submissions : \/ Moves(i, "new", "queued")
                              \/ Moves(i, "queued", "taken")
                              \/ Moves(i, "queued", "gone")
                              \/ Moves(i, "taken", "gone")
                              \/ Moves(i, "taken", "done")

\* Types, over all actions.
LEMMA TypeStep == TypeOK /\ [Next]_vars => TypeOK'
BY TypeApi, TypeWorker, TypeStutter DEF Next

\* Places, over the API's actions.
LEMMA ApiStep ==
    ASSUME TypeOK, TypeOK', PlacesInv, NEW i \in Submissions,
           Receive(i) \/ Api(i) \/ CommitFails(i) \/ PushFails(i)
    PROVE  PlacesInv' /\ StageStep
<1>1. ASSUME Unmoved PROVE PlacesInv' /\ StageStep
  BY <1>1, UnmovedStep DEF StageStep
<1>2. faults \in Nat
  BY DEF TypeOK
<1>3. CASE Receive(i)
  <2>1. Unmoved
    BY <1>2, <1>3 DEF Receive, Unmoved, workerVars, TypeOK
  <2> QED
    BY <1>1, <2>1
<1>4. ASSUME call[i] = "commit", NEW a \in {"push", "500"},
             call' = [call EXCEPT ![i] = a],
             NEW r \in {"absent", "PENDING"}, row' = [row EXCEPT ![i] = r],
             UNCHANGED <<queue, job, pushed, popped>>, faults' >= faults
      PROVE  Unmoved
  <2>1. ~Finished(i)
    BY <1>4 DEF PlacesInv, AnsweredFirst
  <2>2. \A j \in Submissions : (row'[j] \in Final) = (row[j] \in Final)
    BY <1>4, <2>1 DEF Finished, Final, TypeOK
  <2> QED
    BY <1>4, <2>2 DEF Unmoved, TypeOK
<1>5. CASE Commit(i)
  BY <1>1, <1>2, <1>4, <1>5 DEF Commit, workerVars
<1>6. CASE CommitFails(i)
  <2>1. PICK r \in {"absent", "PENDING"} : row' = [row EXCEPT ![i] = r]
    BY <1>6 DEF CommitFails
  <2>2. /\ call[i] = "commit" /\ call' = [call EXCEPT ![i] = "500"]
        /\ UNCHANGED <<queue, job, pushed, popped>> /\ faults' >= faults
    BY <1>2, <1>6 DEF CommitFails, Fault, workerVars
  <2>3. Unmoved
    BY <1>4, <2>1, <2>2
  <2> QED
    BY <1>1, <2>3
<1>7. CASE Push(i)
  <2>1. /\ call[i] = "push" /\ Enqueue(i) /\ call' = [call EXCEPT ![i] = "202"]
        /\ UNCHANGED <<row, job, popped>> /\ faults' >= faults
    BY <1>2, <1>7 DEF Push, workerVars
  <2>2. PlacesInv' /\ Moves(i, "new", "queued")
    BY <2>1, EnqueueStep
  <2> QED
    BY <2>2 DEF StageStep
<1>8. CASE PushFails(i) /\ Enqueue(i)
  <2>1. /\ call[i] = "push" /\ Enqueue(i) /\ call' = [call EXCEPT ![i] = "500"]
        /\ UNCHANGED <<row, job, popped>> /\ faults' >= faults
    BY <1>2, <1>8 DEF PushFails, Fault, workerVars
  <2>2. PlacesInv' /\ Moves(i, "new", "queued")
    BY <2>1, EnqueueStep
  <2> QED
    BY <2>2 DEF StageStep
<1>9. CASE PushFails(i) /\ UNCHANGED <<queue, pushed>>
  <2>1. Unmoved
    BY <1>2, <1>9 DEF PushFails, Fault, Unmoved, workerVars, TypeOK
  <2> QED
    BY <1>1, <2>1
<1> QED
  BY <1>3, <1>5, <1>6, <1>7, <1>8, <1>9 DEF Api, PushFails

\* Places, over a worker's actions.
LEMMA WorkerStep ==
    ASSUME TypeOK, TypeOK', HandsInv, PlacesInv, NEW w \in Workers,
           \/ Loop(w) \/ Stop(w) \/ Restart(w) \/ PopReplyLost(w)
           \/ ExecuteFails(w) \/ PersistFails(w) \/ Die(w)
    PROVE  PlacesInv' /\ StageStep
<1>1. ASSUME UNCHANGED <<call, row, queue, job, pushed, popped, faults>>
      PROVE  PlacesInv' /\ StageStep
  <2>1. Unmoved
    BY <1>1 DEF Unmoved, TypeOK
  <2> QED
    BY <2>1, UnmovedStep DEF StageStep
<1>2. CASE PopTimesOut(w) \/ Execute(w) \/ WakeUp(w) \/ Stop(w) \/ Restart(w)
  BY <1>1, <1>2 DEF PopTimesOut, Execute, WakeUp, Stop, Restart, apiVars
<1>3. CASE Pop(w)
  BY <1>3, PopStep DEF StageStep
<1>4. CASE PopReplyLost(w)
  BY <1>4, ReplyLostStep DEF StageStep
<1>5. CASE Persist(w)
  BY <1>5, PersistStep DEF StageStep
<1>6. ASSUME job' = [job EXCEPT ![w] = NoJob], Fault,
             UNCHANGED <<call, row, queue, pushed, popped>>
      PROVE  PlacesInv' /\ StageStep
  <2>1. /\ PlacesInv'
        /\ \/ \A j \in Submissions : Stage(j)' = Stage(j)
           \/ \E i \in Submissions : Moves(i, "taken", "gone")
    BY <1>6, DropStep DEF Fault
  <2> QED
    BY <2>1 DEF StageStep
<1>7. CASE ExecuteFails(w)
  BY <1>6, <1>7 DEF ExecuteFails, apiVars
<1>8. CASE PersistFails(w)
  BY <1>6, <1>8 DEF PersistFails, apiVars
<1>9. CASE Die(w)
  BY <1>6, <1>9 DEF Die, apiVars
<1> QED
  BY <1>2, <1>3, <1>4, <1>5, <1>7, <1>8, <1>9 DEF Loop

\* Places, over all actions.
LEMMA PlacesStep ==
    ASSUME LifecycleInv, [Next]_vars
    PROVE  PlacesInv' /\ StageStep
<1>1. TypeOK /\ TypeOK' /\ HandsInv /\ PlacesInv
  BY TypeStep DEF LifecycleInv, PlacesInv
<1>2. CASE UNCHANGED vars
  <2>1. Unmoved
    BY <1>1, <1>2 DEF Unmoved, vars, apiVars, workerVars, TypeOK
  <2> QED
    BY <1>1, <2>1, UnmovedStep DEF StageStep
<1> QED
  BY <1>1, <1>2, ApiStep, WorkerStep DEF Next

\* LifecycleInv is inductive.
LEMMA LifecycleStep == LifecycleInv /\ [Next]_vars => LifecycleInv'
<1> SUFFICES ASSUME LifecycleInv, [Next]_vars PROVE LifecycleInv'
  OBVIOUS
<1>1. TypeOK' /\ HandsInv'
  BY TypeStep, HandsStep DEF LifecycleInv
<1>2. PlacesInv'
  BY PlacesStep
<1> QED
  BY <1>1, <1>2 DEF LifecycleInv, PlacesInv

\* LifecycleInv holds in every reachable state, for any number of
\* submissions, workers and faults.
THEOREM Inductive == Spec => []LifecycleInv
BY LifecycleInit, LifecycleStep, PTL DEF Spec

\* Every variable keeps its type.
THEOREM TypeCorrect == Spec => []TypeOK
<1>1. LifecycleInv => TypeOK
  BY DEF LifecycleInv
<1> QED
  BY <1>1, Inductive, PTL

\* No submission is ever in two places: queued twice, run by two workers, or
\* run again once its row is final.
THEOREM OnePlace == Spec => []AtMostOnePlace
<1>1. LifecycleInv => AtMostOnePlace
  BY DEF LifecycleInv
<1> QED
  BY <1>1, Inductive, PTL

\* Jobs leave the queue in the order the API's LPUSHes reached it.
THEOREM Fifo == Spec => []FirstInFirstOut
<1>1. LifecycleInv => FirstInFirstOut
  BY DEF LifecycleInv
<1> QED
  BY <1>1, Inductive, PTL

\* Each fault loses at most one accepted submission.
THEOREM BoundedLosses == Spec => []LossesNeedFaults
<1>1. LifecycleInv => LossesNeedFaults
  BY DEF LifecycleInv
<1> QED
  BY <1>1, Inductive, PTL

\* A final status is written once.
THEOREM FinalOnce == Spec => FinalIsFinal
<1>1. LifecycleInv /\ [Next]_vars =>
         [\A i \in Submissions : Finished(i) => row'[i] = row[i]]_vars
  <2> SUFFICES ASSUME LifecycleInv, [Next]_vars, NEW i \in Submissions, Finished(i)
               PROVE  row'[i] = row[i]
    OBVIOUS
  <2>1. TypeOK /\ AnsweredFirst /\ AtMostOnePlace
    BY DEF LifecycleInv
  <2>2. ASSUME NEW j \in Submissions, Commit(j) \/ CommitFails(j) PROVE row'[i] = row[i]
    <3>1. call[j] = "commit"
      BY <2>2 DEF Commit, CommitFails
    <3>2. j # i
      BY <2>1, <3>1 DEF AnsweredFirst
    <3> QED
      BY <2>1, <2>2, <3>2 DEF Commit, CommitFails, TypeOK
  <2>3. ASSUME NEW w \in Workers, Persist(w) PROVE row'[i] = row[i]
    <3>1. job[w] # i
      BY <2>1 DEF AtMostOnePlace, Held
    <3> QED
      BY <2>1, <2>3, <3>1 DEF Persist, TypeOK
  <2>4. ASSUME row' = row PROVE row'[i] = row[i]
    BY <2>4
  <2>5. ASSUME NEW j \in Submissions, Receive(j) \/ Push(j) \/ PushFails(j)
        PROVE  row' = row
    BY <2>5 DEF Receive, Push, PushFails
  <2>6. ASSUME NEW w \in Workers,
               \/ Pop(w) \/ PopTimesOut(w) \/ Execute(w) \/ WakeUp(w) \/ Restart(w)
               \/ Stop(w) \/ PopReplyLost(w) \/ ExecuteFails(w)
               \/ PersistFails(w) \/ Die(w)
        PROVE  row' = row
    BY <2>6 DEF Pop, PopTimesOut, Execute, WakeUp, Restart, Stop, PopReplyLost,
                ExecuteFails, PersistFails, Die, apiVars
  <2>7. CASE UNCHANGED vars
    BY <2>7 DEF vars, apiVars
  <2> QED
    BY <2>2, <2>3, <2>4, <2>5, <2>6, <2>7 DEF Next, Api, Loop
<1> QED
  BY <1>1, Inductive, PTL DEF Spec, FinalIsFinal

-----------------------------------------------------------------------------
(* The refinement *)

\* The refinement mapping takes initial states to initial states.
LEMMA AbsInit == Init => Abs!Init
<1> SUFFICES ASSUME Init PROVE Abs!Init
  OBVIOUS
<1>1. \A i \in Submissions : ~InQueue(i) /\ ~Held(i) /\ ~Finished(i) /\ ~Gone(i)
  <2>1. /\ queue = << >> /\ popped = << >> /\ NoJob \notin Submissions
        /\ \A w \in Workers : job[w] = NoJob
        /\ \A i \in Submissions : row[i] = "absent"
    BY LifecycleAssumption DEF Init
  <2> QED
    BY <2>1 DEF InQueue, Held, Finished, Gone, Contains, Final
<1>2. \A i \in Submissions : Stage(i) = "new"
  BY <1>1, Zenon DEF Stage
<1> QED
  BY <1>2 DEF Abs!Init

\* Moving one job is a move of the abstract specification.
LEMMA AbsMove ==
    ASSUME NEW i \in Submissions, NEW from, NEW to, NEW F, from \in F, Moves(i, from, to)
    PROVE  Abs!Move(i, F, to)
<1> DEFINE stage == [j \in Submissions |-> Stage(j)]
<1>1. stage[i] \in F
  BY DEF Moves
<1>2. stage' = [j \in Submissions |-> Stage(j)']
  OBVIOUS
<1>3. [j \in Submissions |-> Stage(j)'] = [stage EXCEPT ![i] = to]
  BY DEF Moves
<1> QED
  BY <1>1, <1>2, <1>3 DEF Abs!Move

\* Two stores, a list and any number of workers implement at-most-once jobs.
THEOREM Refinement == Spec => ImplementsAtMostOnce
<1>1. LifecycleInv /\ [Next]_vars => [Abs!Next]_([i \in Submissions |-> Stage(i)])
  <2> SUFFICES ASSUME LifecycleInv, [Next]_vars
               PROVE  [Abs!Next]_([i \in Submissions |-> Stage(i)])
    OBVIOUS
  <2>1. StageStep
    BY PlacesStep
  <2>2. CASE \A j \in Submissions : Stage(j)' = Stage(j)
    <3>1. [j \in Submissions |-> Stage(j)]' = [j \in Submissions |-> Stage(j)]
      BY <2>2
    <3> QED
      BY <3>1
  <2>3. ASSUME NEW i \in Submissions,
               \/ Moves(i, "new", "queued")
               \/ Moves(i, "queued", "taken")
               \/ Moves(i, "queued", "gone")
               \/ Moves(i, "taken", "gone")
               \/ Moves(i, "taken", "done")
        PROVE  Abs!Next
    <3>1. CASE Moves(i, "new", "queued")
      BY <3>1, AbsMove DEF Abs!Next, Abs!Enqueue
    <3>2. CASE Moves(i, "queued", "taken")
      BY <3>2, AbsMove DEF Abs!Next, Abs!Take
    <3>3. CASE Moves(i, "queued", "gone")
      BY <3>3, AbsMove DEF Abs!Next, Abs!Lose
    <3>4. CASE Moves(i, "taken", "gone")
      BY <3>4, AbsMove DEF Abs!Next, Abs!Lose
    <3>5. CASE Moves(i, "taken", "done")
      BY <3>5, AbsMove DEF Abs!Next, Abs!Complete
    <3> QED
      BY <2>3, <3>1, <3>2, <3>3, <3>4, <3>5
  <2> QED
    BY <2>1, <2>2, <2>3 DEF StageStep
<1> QED
  BY <1>1, AbsInit, Inductive, PTL DEF Spec, ImplementsAtMostOnce, Abs!Spec
=============================================================================
