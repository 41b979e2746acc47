------------------------ MODULE RateLimiter_proofs ------------------------
(***************************************************************************)
(* Proofs about RateLimiter: LimiterInv is inductive, so the limit is      *)
(* exceeded by no more than OvershootBounded says, for any number of       *)
(* handlers, any limit, window and delay.                                  *)
(***************************************************************************)
EXTENDS RateLimiter, FiniteSetTheorems, TLAPS

-----------------------------------------------------------------------------
(* Lemmas about sizes *)

\* A subset is finite and no larger.
LEMMA Smaller ==
    ASSUME NEW S, IsFiniteSet(S), NEW T \in SUBSET S
    PROVE  /\ IsFiniteSet(T)
           /\ Cardinality(T) \in Nat /\ Cardinality(S) \in Nat
           /\ Cardinality(T) <= Cardinality(S)
<1>1. IsFiniteSet(T) /\ Cardinality(T) <= Cardinality(S)
  BY FS_Subset
<1> QED
  BY <1>1, FS_CardinalityType

\* One element more adds at most one.
LEMMA OneMore ==
    ASSUME NEW S, IsFiniteSet(S), NEW x, NEW T \in SUBSET (S \cup {x})
    PROVE  /\ IsFiniteSet(T)
           /\ Cardinality(T) \in Nat /\ Cardinality(S) \in Nat
           /\ Cardinality(T) <= Cardinality(S) + 1
<1>1. /\ IsFiniteSet(S \cup {x})
      /\ Cardinality(S \cup {x}) = IF x \in S THEN Cardinality(S) ELSE Cardinality(S) + 1
  BY FS_AddElement
<1>2. Cardinality(S) \in Nat
  BY FS_CardinalityType
<1>3. /\ IsFiniteSet(T)
      /\ Cardinality(T) \in Nat
      /\ Cardinality(T) <= Cardinality(S \cup {x})
  BY <1>1, Smaller
<1> QED
  BY <1>1, <1>2, <1>3

\* A set without one of its elements is smaller by one.
LEMMA OneLess ==
    ASSUME NEW S, IsFiniteSet(S), NEW x \in S, NEW T \in SUBSET (S \ {x})
    PROVE  /\ Cardinality(T) \in Nat /\ Cardinality(S) \in Nat
           /\ Cardinality(T) <= Cardinality(S) - 1
<1>1. IsFiniteSet(S \ {x}) /\ Cardinality(S \ {x}) = Cardinality(S) - 1
  BY FS_RemoveElement
<1>2. Cardinality(S) \in Nat
  BY FS_CardinalityType
<1> QED
  BY <1>1, <1>2, Smaller

\* What a set keeps of another, and what it does not.
LEMMA Split ==
    ASSUME NEW S, IsFiniteSet(S), NEW A, IsFiniteSet(A), NEW T \in SUBSET (S \cup A)
    PROVE  Cardinality(T) <= Cardinality(S) + Cardinality(A)
<1>1. /\ IsFiniteSet(S \cup A)
      /\ Cardinality(S \cup A) = Cardinality(S) + Cardinality(A) - Cardinality(S \cap A)
  BY FS_Union
<1>2. Cardinality(S \cap A) \in Nat
  BY Smaller
<1>3. /\ Cardinality(T) \in Nat /\ Cardinality(S \cup A) \in Nat
      /\ Cardinality(T) <= Cardinality(S \cup A)
  BY <1>1, Smaller
<1>4. Cardinality(S) \in Nat /\ Cardinality(A) \in Nat
  BY FS_CardinalityType
<1> QED
  BY <1>1, <1>2, <1>3, <1>4

-----------------------------------------------------------------------------
(* Types and sizes that a step preserves *)

\* The initial state satisfies the invariant.
LEMMA LimiterInit == Init => LimiterInv
<1> SUFFICES ASSUME Init PROVE LimiterInv
  OBVIOUS
<1> USE LimiterAssumption
<1>1. TypeOK
  BY DEF Init, TypeOK, Members
<1>2. /\ IsFiniteSet({}) /\ Cardinality({}) = 0
      /\ Cardinality(Handlers) \in Nat /\ Cardinality(Handlers) >= 1
  <2>1. IsFiniteSet({}) /\ Cardinality({}) = 0
    BY FS_EmptySet
  <2>2. Cardinality(Handlers) \in Nat /\ Cardinality(Handlers) # 0
    BY FS_EmptySet, FS_CardinalityType
  <2> QED
    BY <2>1, <2>2
<1>3. /\ zset = {} /\ admitted = {} /\ Recording = {} /\ errors = 0
      /\ \A t, len : Admitted(t, len) = {} /\ Pending(t, len) = {}
  BY DEF Init, Recording, Admitted, Pending
<1>4. ClockInv /\ KeyInv
  BY DEF Init, ClockInv, KeyInv
<1>5. KeyStaysSmall
  BY <1>2, <1>3 DEF KeyStaysSmall
<1>6. NoEarlyForgetting
  BY <1>2, <1>3 DEF NoEarlyForgetting
<1>7. WindowInv
  <2> SUFFICES ASSUME NEW t \in 0..clock
               PROVE  Cardinality(Admitted(t, Window - MaxDelay))
                         + Cardinality(Pending(t, Window - MaxDelay))
                           <= MaxRequests + Cardinality(Handlers) - 1 + errors
    BY DEF WindowInv
  <2>1. /\ Cardinality(Admitted(t, Window - MaxDelay)) = 0
        /\ Cardinality(Pending(t, Window - MaxDelay)) = 0
    BY <1>2, <1>3
  <2> QED
    BY <1>2, <1>3, <2>1
<1> QED
  BY <1>1, <1>2, <1>3, <1>4, <1>5, <1>6, <1>7 DEF LimiterInv

\* Every action keeps the types.
LEMMA TypeStep ==
    ASSUME TypeOK, IsFiniteSet(admitted), [Next]_vars
    PROVE  TypeOK'
<1> USE LimiterAssumption DEF TypeOK, Members
<1>1. CASE Tick
  BY <1>1 DEF Tick
<1>2. CASE KeyExpires
  BY <1>2 DEF KeyExpires
<1>3. ASSUME NEW h \in Handlers, Arrive(h) PROVE TypeOK'
  BY <1>3 DEF Arrive
<1>4. ASSUME NEW h \in Handlers, Count(h) PROVE TypeOK'
  BY <1>4 DEF Count, Pruned
<1>5. Cardinality(admitted) \in Nat
  BY FS_CardinalityType
<1>6. ASSUME NEW h \in Handlers, Record(h) PROVE TypeOK'
  BY <1>5, <1>6 DEF Record, KeyGrace
<1>7. ASSUME NEW h \in Handlers, RedisFails(h) PROVE TypeOK'
  <2>1. admitted' \in SUBSET Members /\ zset' \in SUBSET Members /\ deadline' \in Nat
    BY <1>5, <1>7 DEF RedisFails, Pruned, KeyGrace
  <2> QED
    BY <1>7, <2>1 DEF RedisFails
<1>8. CASE UNCHANGED vars
  BY <1>8 DEF vars
<1> QED
  BY <1>1, <1>2, <1>3, <1>4, <1>6, <1>7, <1>8 DEF Next

\* No handler uses a clock reading from the future or older than MaxDelay.
LEMMA ClockStep ==
    ASSUME TypeOK, TypeOK', ClockInv, [Next]_vars
    PROVE  ClockInv'
<1> USE LimiterAssumption DEF TypeOK, Members, ClockInv
<1>1. CASE Tick
  BY <1>1 DEF Tick
<1>2. CASE KeyExpires
  BY <1>2 DEF KeyExpires
<1>3. ASSUME NEW h \in Handlers, Arrive(h) PROVE ClockInv'
  BY <1>3 DEF Arrive
<1>4. ASSUME NEW h \in Handlers, Count(h) PROVE ClockInv'
  BY <1>4 DEF Count, Pruned
<1>5. ASSUME NEW h \in Handlers, Record(h) PROVE ClockInv'
  BY <1>5 DEF Record
<1>6. ASSUME NEW h \in Handlers, RedisFails(h) PROVE ClockInv'
  <2>1. \A m \in (zset \cup admitted)' : m.at <= clock
    BY <1>6 DEF RedisFails, Pruned
  <2> QED
    BY <1>6, <2>1 DEF RedisFails
<1>7. CASE UNCHANGED vars
  BY <1>7 DEF vars
<1> QED
  BY <1>1, <1>2, <1>3, <1>4, <1>5, <1>6, <1>7 DEF Next

\* A record moves the key's deadline past the window of every member.
LEMMA KeyStep ==
    ASSUME TypeOK, TypeOK', IsFiniteSet(admitted), ClockInv, KeyInv, [Next]_vars
    PROVE  KeyInv'
<1> USE LimiterAssumption DEF TypeOK, Members, KeyInv
<1>1. CASE Tick
  BY <1>1 DEF Tick
<1>2. CASE KeyExpires
  BY <1>2 DEF KeyExpires
<1>3. ASSUME NEW h \in Handlers, Arrive(h) PROVE KeyInv'
  BY <1>3 DEF Arrive
<1>4. ASSUME zset' \subseteq zset, deadline' = deadline PROVE KeyInv'
  BY <1>4
<1>5. ASSUME NEW h \in Handlers, NEW n \in Nat,
             zset' = zset \cup {[at |-> now[h], id |-> n]},
             deadline' = clock + Window + KeyGrace
      PROVE  KeyInv'
  <2>1. \A m \in zset : m.at \in Nat /\ m.at <= clock
    BY DEF ClockInv
  <2>2. now[h] \in Nat /\ now[h] <= clock
    BY DEF ClockInv
  <2>3. ASSUME NEW a \in Nat, a <= clock PROVE a + Window < deadline'
    BY <1>5, <2>3 DEF KeyGrace
  <2> QED
    BY <1>5, <2>1, <2>2, <2>3
<1>6. ASSUME NEW h \in Handlers, Count(h) PROVE KeyInv'
  BY <1>4, <1>6 DEF Count, Pruned
<1>7. Cardinality(admitted) \in Nat
  BY FS_CardinalityType
<1>8. ASSUME NEW h \in Handlers, Record(h) PROVE KeyInv'
  BY <1>5, <1>7, <1>8 DEF Record
<1>9. ASSUME NEW h \in Handlers, RedisFails(h) PROVE KeyInv'
  BY <1>4, <1>5, <1>7, <1>9 DEF RedisFails, Pruned
<1>10. CASE UNCHANGED vars
  BY <1>10 DEF vars
<1> QED
  BY <1>1, <1>2, <1>3, <1>6, <1>8, <1>9, <1>10 DEF Next

\* The histories stay finite.
LEMMA FiniteStep ==
    ASSUME IsFiniteSet(zset), IsFiniteSet(admitted), [Next]_vars
    PROVE  IsFiniteSet(zset)' /\ IsFiniteSet(admitted)'
<1>1. CASE UNCHANGED <<zset, admitted>>
  BY <1>1
<1>2. ASSUME NEW h \in Handlers
      PROVE  IsFiniteSet(Pruned(h)) /\ IsFiniteSet({})
  BY Smaller, FS_EmptySet DEF Pruned
<1>3. ASSUME NEW m PROVE IsFiniteSet(zset \cup {m}) /\ IsFiniteSet(admitted \cup {m})
  BY FS_AddElement
<1>4. CASE KeyExpires
  BY <1>4, FS_EmptySet DEF KeyExpires
<1>5. ASSUME NEW h \in Handlers, Count(h)
      PROVE  IsFiniteSet(zset)' /\ IsFiniteSet(admitted)'
  BY <1>2, <1>5 DEF Count
<1>6. ASSUME NEW h \in Handlers, Record(h)
      PROVE  IsFiniteSet(zset)' /\ IsFiniteSet(admitted)'
  BY <1>3, <1>6 DEF Record
<1>7. ASSUME NEW h \in Handlers, RedisFails(h)
      PROVE  IsFiniteSet(zset)' /\ IsFiniteSet(admitted)'
  BY <1>2, <1>3, <1>7 DEF RedisFails
<1>8. ASSUME NEW h \in Handlers, Arrive(h) PROVE UNCHANGED <<zset, admitted>>
  BY <1>8 DEF Arrive
<1>9. Tick \/ UNCHANGED vars => UNCHANGED <<zset, admitted>>
  BY DEF Tick, vars
<1> QED
  BY <1>1, <1>4, <1>5, <1>6, <1>7, <1>8, <1>9 DEF Next

\* The key and the handlers about to add to it stay within the limit and the
\* number of handlers.
LEMMA SmallStep ==
    ASSUME TypeOK, TypeOK', IsFiniteSet(zset), IsFiniteSet(zset)', KeyStaysSmall, [Next]_vars
    PROVE  KeyStaysSmall'
<1> USE LimiterAssumption
<1>1. /\ Cardinality(Handlers) \in Nat
      /\ \A R \in SUBSET Handlers : /\ IsFiniteSet(R)
                                    /\ Cardinality(R) \in Nat
                                    /\ Cardinality(R) <= Cardinality(Handlers)
  BY Smaller
<1>2. /\ Recording \in SUBSET Handlers
      /\ Recording' \in SUBSET Handlers
      /\ Cardinality(zset) \in Nat /\ Cardinality(zset') \in Nat
      /\ Cardinality(Recording) \in Nat /\ Cardinality(Recording') \in Nat
      /\ IsFiniteSet(Recording)
  <2>1. Recording \in SUBSET Handlers /\ Recording' \in SUBSET Handlers
    BY DEF Recording
  <2> QED
    BY <1>1, <2>1, FS_CardinalityType
<1>3. ASSUME zset' \in SUBSET zset, Recording' \in SUBSET Recording
      PROVE  KeyStaysSmall'
  <2>1. /\ Cardinality(zset') <= Cardinality(zset)
        /\ Cardinality(Recording') <= Cardinality(Recording)
    BY <1>2, <1>3, Smaller
  <2> QED
    BY <1>1, <1>2, <2>1 DEF KeyStaysSmall
<1>4. ASSUME NEW h \in Handlers, pc[h] = "record", pc' = [pc EXCEPT ![h] = "idle"],
             NEW m, zset' = zset \cup {m}
      PROVE  KeyStaysSmall'
  <2>1. h \in Recording /\ Recording' \in SUBSET (Recording \ {h})
    BY <1>4 DEF Recording, TypeOK
  <2>2. Cardinality(Recording') <= Cardinality(Recording) - 1
    BY <1>2, <2>1, OneLess
  <2>3. Cardinality(zset') <= Cardinality(zset) + 1
    BY <1>4, OneMore
  <2> QED
    BY <1>1, <1>2, <2>2, <2>3 DEF KeyStaysSmall
<1>5. ASSUME NEW h \in Handlers, Count(h) PROVE KeyStaysSmall'
  <2>1. CASE AtLimit(h)
    <3>1. zset' \in SUBSET zset /\ pc' = [pc EXCEPT ![h] = "idle"]
      BY <1>5, <2>1 DEF Count, Pruned
    <3>2. Recording' \in SUBSET Recording
      BY <3>1 DEF Recording, TypeOK
    <3> QED
      BY <1>3, <3>1, <3>2
  <2>2. CASE ~AtLimit(h)
    <3>1. zset' = Pruned(h)
      BY <1>5 DEF Count
    <3>2. Cardinality(zset') < MaxRequests
      BY <1>2, <2>2, <3>1 DEF AtLimit
    <3>3. Cardinality(Recording') <= Cardinality(Handlers)
      BY <1>1, <1>2
    <3> QED
      BY <1>1, <1>2, <3>2, <3>3 DEF KeyStaysSmall
  <2> QED
    BY <2>1, <2>2
<1>6. ASSUME NEW h \in Handlers, Record(h) PROVE KeyStaysSmall'
  BY <1>4, <1>6 DEF Record
<1>7. ASSUME NEW h \in Handlers, pc' = [pc EXCEPT ![h] = "idle"]
      PROVE  Recording' \in SUBSET Recording
  BY <1>7 DEF Recording, TypeOK
<1>8. ASSUME NEW h \in Handlers, RedisFails(h) PROVE KeyStaysSmall'
  <2>1. pc' = [pc EXCEPT ![h] = "idle"]
    BY <1>8 DEF RedisFails
  <2>2. CASE zset' \in SUBSET zset
    BY <1>3, <1>7, <2>1, <2>2
  <2>3. ASSUME pc[h] = "record", NEW m, zset' = zset \cup {m} PROVE KeyStaysSmall'
    BY <1>4, <2>1, <2>3
  <2> QED
    BY <1>8, <2>2, <2>3 DEF RedisFails, Pruned
<1>9. ASSUME NEW h \in Handlers, Arrive(h) PROVE KeyStaysSmall'
  <2>1. zset' = zset /\ Recording' \in SUBSET Recording
    BY <1>9 DEF Arrive, Recording, TypeOK
  <2> QED
    BY <1>3, <2>1
<1>10. CASE Tick \/ KeyExpires \/ UNCHANGED vars
  <2>1. zset' \in SUBSET zset /\ pc' = pc
    BY <1>10 DEF Tick, KeyExpires, vars
  <2>2. Recording' = Recording
    BY <2>1 DEF Recording
  <2> QED
    BY <1>3, <2>1, <2>2
<1> QED
  BY <1>5, <1>6, <1>8, <1>9, <1>10 DEF Next

-----------------------------------------------------------------------------
(* What the key still knows *)

\* Only errors keep a request of the current window out of the key.
LEMMA ForgetStep ==
    ASSUME TypeOK, TypeOK', IsFiniteSet(admitted), IsFiniteSet(admitted)',
           ClockInv, KeyInv, NoEarlyForgetting, [Next]_vars
    PROVE  NoEarlyForgetting'
<1> USE LimiterAssumption
<1> DEFINE Missing == Admitted(clock, Window) \ zset
<1>1. IsFiniteSet(Missing) /\ Cardinality(Missing) <= errors /\ errors \in Nat
  <2>1. Missing \in SUBSET admitted
    BY DEF Admitted
  <2> QED
    BY <2>1, Smaller DEF NoEarlyForgetting, TypeOK
<1>2. ASSUME Missing' \in SUBSET Missing, errors' >= errors PROVE NoEarlyForgetting'
  <2>1. Cardinality(Missing') <= Cardinality(Missing) /\ Cardinality(Missing') \in Nat
        /\ Cardinality(Missing) \in Nat
    BY <1>1, <1>2, Smaller
  <2> QED
    BY <1>1, <1>2, <2>1 DEF NoEarlyForgetting, TypeOK
<1>3. ASSUME NEW m, Missing' \in SUBSET (Missing \cup {m}), errors' = errors + 1
      PROVE  NoEarlyForgetting'
  <2>1. Cardinality(Missing') <= Cardinality(Missing) + 1 /\ Cardinality(Missing') \in Nat
        /\ Cardinality(Missing) \in Nat
    BY <1>1, <1>3, OneMore
  <2> QED
    BY <1>1, <1>3, <2>1 DEF NoEarlyForgetting, TypeOK
<1>4. \A m \in Admitted(clock, Window) : \A h \in Handlers : m \in zset => m \in Pruned(h)
  BY DEF Admitted, Pruned, ClockInv, TypeOK, Members
<1>5. CASE Tick
  <2>1. Missing' \in SUBSET Missing
    BY <1>5 DEF Tick, Admitted, ClockInv, TypeOK, Members
  <2> QED
    BY <1>1, <1>2, <1>5, <2>1 DEF Tick
<1>6. CASE KeyExpires
  <2>1. \A m \in zset : m \notin Admitted(clock, Window)
    BY <1>6 DEF KeyExpires, KeyInv, Admitted, TypeOK, Members
  <2>2. Missing' \in SUBSET Missing
    BY <1>6, <2>1 DEF KeyExpires, Admitted
  <2> QED
    BY <1>1, <1>2, <1>6, <2>2 DEF KeyExpires
<1>7. ASSUME NEW h \in Handlers, Arrive(h) PROVE NoEarlyForgetting'
  <2>1. Missing' \in SUBSET Missing
    BY <1>7 DEF Arrive, Admitted
  <2> QED
    BY <1>1, <1>2, <1>7, <2>1 DEF Arrive
<1>8. ASSUME NEW h \in Handlers, Count(h) PROVE NoEarlyForgetting'
  <2>1. Missing' \in SUBSET Missing
    BY <1>4, <1>8 DEF Count, Admitted
  <2> QED
    BY <1>1, <1>2, <1>8, <2>1 DEF Count
<1>9. ASSUME NEW h \in Handlers, Record(h) PROVE NoEarlyForgetting'
  <2>1. PICK m : zset' = zset \cup {m} /\ admitted' = admitted \cup {m}
    BY <1>9 DEF Record
  <2>2. clock' = clock /\ errors' = errors
    BY <1>9 DEF Record
  <2>3. Missing' \in SUBSET Missing
    BY <2>1, <2>2 DEF Admitted
  <2> QED
    BY <1>1, <1>2, <2>2, <2>3
<1>10. ASSUME NEW h \in Handlers, RedisFails(h) PROVE NoEarlyForgetting'
  <2>1. PICK m : admitted' = admitted \cup {m}
    BY <1>10 DEF RedisFails
  <2>2. clock' = clock /\ errors' = errors + 1
    BY <1>10 DEF RedisFails
  <2>3. Pruned(h) \subseteq zset' \/ zset \subseteq zset'
    BY <1>10 DEF RedisFails
  <2>4. Missing' \in SUBSET (Missing \cup {m})
    BY <1>4, <2>1, <2>2, <2>3 DEF Admitted
  <2> QED
    BY <1>3, <2>2, <2>4
<1>11. CASE UNCHANGED vars
  <2>1. Missing' \in SUBSET Missing
    BY <1>11 DEF vars, Admitted
  <2> QED
    BY <1>1, <1>2, <1>11, <2>1 DEF vars
<1> QED
  BY <1>5, <1>6, <1>7, <1>8, <1>9, <1>10, <1>11 DEF Next

-----------------------------------------------------------------------------
(* The bound on a window *)

\* A handler that counts in time finds in the key all that was let through in
\* any window it falls into, but for what errors kept out of it.
LEMMA CountSeesWindow ==
    ASSUME TypeOK, ClockInv, IsFiniteSet(zset), IsFiniteSet(admitted), NoEarlyForgetting,
           NEW h \in Handlers, pc[h] = "count",
           NEW t \in 0..clock, t - (Window - MaxDelay) < now[h], now[h] <= t
    PROVE  Cardinality(Admitted(t, Window - MaxDelay)) <= Cardinality(Pruned(h)) + errors
<1> USE LimiterAssumption
<1> DEFINE Missing == Admitted(clock, Window) \ zset
<1>1. IsFiniteSet(Missing) /\ IsFiniteSet(Pruned(h))
  <2>1. Missing \in SUBSET admitted /\ Pruned(h) \in SUBSET zset
    BY DEF Admitted, Pruned
  <2> QED
    BY <2>1, Smaller
<1>2. clock <= now[h] + MaxDelay /\ now[h] \in Nat /\ clock \in Nat
  BY DEF ClockInv, TypeOK
<1>3. ASSUME NEW m \in Admitted(t, Window - MaxDelay)
      PROVE  m \in Pruned(h) \cup Missing
  <2>1. m \in admitted /\ m.at \in Nat /\ t - (Window - MaxDelay) < m.at /\ m.at <= t
    BY DEF Admitted, TypeOK, Members
  <2>2. now[h] - Window < m.at /\ clock - Window < m.at /\ m.at <= clock
    BY <1>2, <2>1
  <2> QED
    BY <2>1, <2>2 DEF Admitted, Pruned
<1>4. Admitted(t, Window - MaxDelay) \in SUBSET (Pruned(h) \cup Missing)
  BY <1>3
<1>5. Cardinality(Admitted(t, Window - MaxDelay))
         <= Cardinality(Pruned(h)) + Cardinality(Missing)
  BY <1>1, <1>4, Split
<1>6. /\ Cardinality(Missing) <= errors
      /\ Cardinality(Missing) \in Nat /\ Cardinality(Pruned(h)) \in Nat /\ errors \in Nat
      /\ Cardinality(Admitted(t, Window - MaxDelay)) \in Nat
  <2>1. Admitted(t, Window - MaxDelay) \in SUBSET admitted
    BY DEF Admitted
  <2> QED
    BY <1>1, <2>1, Smaller, FS_CardinalityType DEF NoEarlyForgetting, TypeOK
<1> QED
  BY <1>5, <1>6

\* The requests let through in a window and those about to be stay within the
\* limit, the number of handlers and the number of errors.
LEMMA WindowStep ==
    ASSUME TypeOK, TypeOK', IsFiniteSet(zset), IsFiniteSet(admitted), IsFiniteSet(admitted)',
           ClockInv, NoEarlyForgetting, WindowInv, [Next]_vars
    PROVE  WindowInv'
<1> USE LimiterAssumption
<1> DEFINE len == Window - MaxDelay
           Bound == MaxRequests + Cardinality(Handlers) - 1
<1>1. /\ Cardinality(Handlers) \in Nat
      /\ errors \in Nat /\ errors' \in Nat /\ clock \in Nat /\ clock' \in Nat
      /\ Bound \in Int /\ len \in Nat
  BY FS_CardinalityType DEF TypeOK
<1>2. \A t : /\ Admitted(t, len) \in SUBSET admitted
             /\ Admitted(t, len)' \in SUBSET admitted'
             /\ Pending(t, len) \in SUBSET Handlers
             /\ Pending(t, len)' \in SUBSET Handlers
  BY DEF Admitted, Pending, Recording
<1>3. \A t : /\ IsFiniteSet(Admitted(t, len)) /\ IsFiniteSet(Pending(t, len))
             /\ Cardinality(Admitted(t, len)) \in Nat
             /\ Cardinality(Pending(t, len)) \in Nat
             /\ Cardinality(Admitted(t, len)') \in Nat
             /\ Cardinality(Pending(t, len)') \in Nat
             /\ Cardinality(Pending(t, len)') <= Cardinality(Handlers)
  BY <1>2, Smaller
<1>4. \A t \in 0..clock :
         Cardinality(Admitted(t, len)) + Cardinality(Pending(t, len)) <= Bound + errors
  BY DEF WindowInv
<1> SUFFICES ASSUME NEW t \in 0..clock'
             PROVE  Cardinality(Admitted(t, len)') + Cardinality(Pending(t, len)')
                       <= Bound + errors'
  BY DEF WindowInv
<1> DEFINE Goal == Cardinality(Admitted(t, len)') + Cardinality(Pending(t, len)')
                      <= Bound + errors'
<1>5. t \in Nat
  BY <1>1
<1> HIDE DEF len, Bound, Goal
<1>6. ASSUME NEW u \in 0..clock, Admitted(t, len)' \in SUBSET Admitted(u, len),
             Pending(t, len)' \in SUBSET Pending(u, len), errors' >= errors
      PROVE  Goal
  <2>1. /\ Cardinality(Admitted(t, len)') <= Cardinality(Admitted(u, len))
        /\ Cardinality(Pending(t, len)') <= Cardinality(Pending(u, len))
    BY <1>3, <1>6, Smaller
  <2> QED
    BY <1>1, <1>3, <1>4, <1>6, <2>1 DEF Goal
<1>7. ASSUME Tick PROVE Goal
  <2>1. /\ admitted' = admitted /\ pc' = pc /\ now' = now /\ errors' = errors
        /\ clock' = clock + 1
    BY <1>7 DEF Tick
  <2>2. CASE t \in 0..clock
    <3>1. Admitted(t, len)' = Admitted(t, len) /\ Pending(t, len)' = Pending(t, len)
      BY <2>1 DEF Admitted, Pending, Recording, len
    <3>2. /\ t \in 0..clock /\ errors' >= errors
          /\ Admitted(t, len)' \in SUBSET Admitted(t, len)
          /\ Pending(t, len)' \in SUBSET Pending(t, len)
      BY <1>1, <2>1, <2>2, <3>1
    <3> QED
      BY <1>6, <3>2
  <2>3. CASE t = clock + 1
    <3>1. Admitted(t, len)' \in SUBSET Admitted(clock, len)
      <4>1. \A m \in admitted : m.at \in Nat /\ m.at <= clock
        BY DEF ClockInv, TypeOK, Members
      <4> QED
        BY <1>1, <2>1, <2>3, <4>1 DEF Admitted, len
    <3>2. Pending(t, len)' \in SUBSET Pending(clock, len)
      <4>1. \A h \in Handlers : now[h] \in Nat /\ now[h] <= clock
        BY DEF ClockInv, TypeOK
      <4> QED
        BY <1>1, <2>1, <2>3, <4>1 DEF Pending, Recording, len
    <3>3. clock \in 0..clock /\ errors' >= errors
      BY <1>1, <2>1
    <3> QED
      BY <1>6, <3>1, <3>2, <3>3
  <2> QED
    BY <1>1, <2>1, <2>2, <2>3
<1>8. ASSUME clock' = clock, admitted' = admitted, errors' = errors,
             Pending(t, len)' \in SUBSET Pending(t, len)
      PROVE  Goal
  <2>1. Admitted(t, len)' = Admitted(t, len)
    BY <1>8 DEF Admitted, len
  <2> QED
    BY <1>1, <1>6, <1>8, <2>1
<1>9. ASSUME KeyExpires \/ UNCHANGED vars PROVE Goal
  <2>1. /\ clock' = clock /\ admitted' = admitted /\ errors' = errors
        /\ pc' = pc /\ now' = now
    BY <1>9 DEF KeyExpires, vars
  <2>2. Pending(t, len)' = Pending(t, len)
    BY <2>1 DEF Pending, Recording, len
  <2>3. Pending(t, len)' \in SUBSET Pending(t, len)
    BY <2>2
  <2> QED
    BY <1>8, <2>1, <2>3
<1>10. ASSUME NEW h \in Handlers, Arrive(h) PROVE Goal
  <2>1. Pending(t, len)' \in SUBSET Pending(t, len)
    BY <1>10 DEF Arrive, Pending, Recording, TypeOK, len
  <2> QED
    BY <1>8, <1>10, <2>1 DEF Arrive
<1>11. ASSUME NEW h \in Handlers, Count(h) PROVE Goal
  <2>1. /\ clock' = clock /\ admitted' = admitted /\ errors' = errors /\ now' = now
        /\ pc' = [pc EXCEPT ![h] = IF AtLimit(h) THEN "idle" ELSE "record"]
        /\ pc[h] = "count"
    BY <1>11 DEF Count
  <2>2. CASE AtLimit(h)
    <3>1. Pending(t, len)' \in SUBSET Pending(t, len)
      BY <2>1, <2>2 DEF Pending, Recording, TypeOK, len
    <3> QED
      BY <1>8, <2>1, <3>1
  <2>3. CASE ~(t - len < now[h] /\ now[h] <= t)
    <3>1. Pending(t, len)' \in SUBSET Pending(t, len)
      BY <2>1, <2>3 DEF Pending, Recording, TypeOK, len
    <3> QED
      BY <1>8, <2>1, <3>1
  <2>4. CASE ~AtLimit(h) /\ t - len < now[h] /\ now[h] <= t
    <3>1. Cardinality(Admitted(t, len)) <= Cardinality(Pruned(h)) + errors
      BY <2>1, <2>4, CountSeesWindow DEF len
    <3>2. Cardinality(Pruned(h)) \in Nat /\ Cardinality(Pruned(h)) < MaxRequests
      <4>1. Cardinality(Pruned(h)) \in Nat
        BY Smaller DEF Pruned
      <4> QED
        BY <2>4, <4>1 DEF AtLimit
    <3>3. Admitted(t, len)' = Admitted(t, len)
      BY <2>1 DEF Admitted, len
    <3> QED
      BY <1>1, <1>3, <2>1, <3>1, <3>2, <3>3 DEF Goal, Bound
  <2> QED
    BY <2>2, <2>3, <2>4
<1>12. ASSUME NEW h \in Handlers, Record(h) PROVE Goal
  <2>1. /\ clock' = clock /\ errors' = errors /\ now' = now
        /\ pc' = [pc EXCEPT ![h] = "idle"] /\ pc[h] = "record"
        /\ now[h] \in Nat
    BY <1>12 DEF Record, TypeOK
  <2> DEFINE m == [at |-> now[h], id |-> Cardinality(admitted)]
  <2>2. admitted' = admitted \cup {m} /\ m.at = now[h]
    BY <1>12 DEF Record
  <2> HIDE DEF m
  <2>3. CASE t - len < now[h] /\ now[h] <= t
    <3>1. Admitted(t, len)' \in SUBSET (Admitted(t, len) \cup {m})
      BY <2>2 DEF Admitted, len
    <3>2. h \in Pending(t, len) /\ Pending(t, len)' \in SUBSET (Pending(t, len) \ {h})
      BY <2>1, <2>3 DEF Pending, Recording, TypeOK, len
    <3>3. Cardinality(Admitted(t, len)') <= Cardinality(Admitted(t, len)) + 1
      BY <1>3, <3>1, OneMore
    <3>4. Cardinality(Pending(t, len)') <= Cardinality(Pending(t, len)) - 1
      BY <1>3, <3>2, OneLess
    <3> QED
      BY <1>1, <1>3, <1>4, <2>1, <3>3, <3>4 DEF Goal
  <2>4. CASE ~(t - len < now[h] /\ now[h] <= t)
    <3>1. Admitted(t, len)' \in SUBSET Admitted(t, len)
      BY <2>2, <2>4 DEF Admitted, len
    <3>2. Pending(t, len)' \in SUBSET Pending(t, len)
      BY <2>1 DEF Pending, Recording, TypeOK, len
    <3> QED
      BY <1>1, <1>6, <2>1, <3>1, <3>2
  <2> QED
    BY <2>3, <2>4
<1>13. ASSUME NEW h \in Handlers, RedisFails(h) PROVE Goal
  <2>1. /\ clock' = clock /\ errors' = errors + 1 /\ now' = now
        /\ pc' = [pc EXCEPT ![h] = "idle"]
    BY <1>13 DEF RedisFails
  <2>2. PICK m : admitted' = admitted \cup {m}
    BY <1>13 DEF RedisFails
  <2>3. Admitted(t, len)' \in SUBSET (Admitted(t, len) \cup {m})
    BY <2>2 DEF Admitted, len
  <2>4. Pending(t, len)' \in SUBSET Pending(t, len)
    BY <2>1 DEF Pending, Recording, TypeOK, len
  <2>5. Cardinality(Admitted(t, len)') <= Cardinality(Admitted(t, len)) + 1
    BY <1>3, <2>3, OneMore
  <2>6. Cardinality(Pending(t, len)') <= Cardinality(Pending(t, len))
    BY <1>3, <2>4, Smaller
  <2> QED
    BY <1>1, <1>3, <1>4, <2>1, <2>5, <2>6 DEF Goal
<1> QED
  BY <1>7, <1>9, <1>10, <1>11, <1>12, <1>13 DEF Next, Goal

-----------------------------------------------------------------------------
(* The theorems *)

\* LimiterInv is inductive.
LEMMA LimiterStep == LimiterInv /\ [Next]_vars => LimiterInv'
<1> SUFFICES ASSUME LimiterInv, [Next]_vars PROVE LimiterInv'
  OBVIOUS
<1>1. /\ TypeOK /\ IsFiniteSet(zset) /\ IsFiniteSet(admitted) /\ ClockInv /\ KeyInv
      /\ KeyStaysSmall /\ NoEarlyForgetting /\ WindowInv
  BY DEF LimiterInv
<1>2. TypeOK' /\ IsFiniteSet(zset)' /\ IsFiniteSet(admitted)'
  BY <1>1, TypeStep, FiniteStep
<1>3. ClockInv' /\ KeyInv'
  BY <1>1, <1>2, ClockStep, KeyStep
<1>4. KeyStaysSmall'
  BY <1>1, <1>2, SmallStep
<1>5. NoEarlyForgetting'
  BY <1>1, <1>2, ForgetStep
<1>6. WindowInv'
  BY <1>1, <1>2, WindowStep
<1> QED
  BY <1>2, <1>3, <1>4, <1>5, <1>6 DEF LimiterInv

\* LimiterInv holds in every reachable state.
THEOREM Inductive == Spec => []LimiterInv
BY LimiterInit, LimiterStep, PTL DEF Spec

\* Every variable keeps its type.
THEOREM TypeCorrect == Spec => []TypeOK
<1>1. LimiterInv => TypeOK
  BY DEF LimiterInv
<1> QED
  BY <1>1, Inductive, PTL

\* A window, shortened by the handlers' delay, lets through no more than the
\* limit, the other handlers and the Redis errors account for.
THEOREM BoundedOvershoot == Spec => []OvershootBounded
<1>1. LimiterInv => OvershootBounded
  <2> SUFFICES ASSUME LimiterInv, NEW t \in 0..clock
               PROVE  Cardinality(Admitted(t, Window - MaxDelay))
                         <= MaxRequests + Cardinality(Handlers) - 1 + errors
    BY DEF OvershootBounded
  <2>1. /\ Cardinality(Admitted(t, Window - MaxDelay))
              + Cardinality(Pending(t, Window - MaxDelay))
                <= MaxRequests + Cardinality(Handlers) - 1 + errors
        /\ IsFiniteSet(admitted) /\ errors \in Nat
    BY DEF LimiterInv, WindowInv, TypeOK
  <2>2. /\ Admitted(t, Window - MaxDelay) \in SUBSET admitted
        /\ Pending(t, Window - MaxDelay) \in SUBSET Handlers
    BY DEF Admitted, Pending, Recording
  <2>3. /\ Cardinality(Admitted(t, Window - MaxDelay)) \in Nat
        /\ Cardinality(Pending(t, Window - MaxDelay)) \in Nat
        /\ Cardinality(Handlers) \in Nat
    BY <2>1, <2>2, LimiterAssumption, Smaller
  <2> QED
    BY <2>1, <2>3, LimiterAssumption
<1> QED
  BY <1>1, Inductive, PTL

\* The key never holds more than the limit and the handlers account for.
THEOREM SmallKey == Spec => []KeyStaysSmall
<1>1. LimiterInv => KeyStaysSmall
  BY DEF LimiterInv
<1> QED
  BY <1>1, Inductive, PTL

\* Only errors make the key forget a request that still counts.
THEOREM Remembered == Spec => []NoEarlyForgetting
<1>1. LimiterInv => NoEarlyForgetting
  BY DEF LimiterInv
<1> QED
  BY <1>1, Inductive, PTL
=============================================================================
