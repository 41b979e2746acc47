---------------------------- MODULE RateLimiter ----------------------------
(***************************************************************************)
(* The sliding-window-log rate limiter of one client (one ZSET key), as    *)
(* RateLimiter.__call__ runs it in every API process:                      *)
(*                                                                         *)
(*    now := time.time()                                                   *)
(*    MULTI  ZREMRANGEBYSCORE key 0 now-window ; ZCARD key  EXEC           *)
(*    if count >= max_requests: 429                                        *)
(*    MULTI  ZADD key now ; EXPIRE key window+5  EXEC                      *)
(*                                                                         *)
(* Each MULTI/EXEC is atomic, the pair is not: other handlers run between  *)
(* the count and the record, and between reading the clock and the count.  *)
(***************************************************************************)
EXTENDS Naturals, Integers, FiniteSets

CONSTANTS
    Handlers,     \* request handlers that may run at once
    MaxRequests,  \* max_requests
    Window,       \* window_seconds
    MaxDelay,     \* longest time from a handler's clock reading to its record
    MaxTime,      \* bound: the clock stops here
    MaxCalls,     \* bound: requests made
    MaxErrors     \* bound: Redis errors

ASSUME LimiterAssumption ==
    /\ IsFiniteSet(Handlers) /\ Handlers # {}
    /\ MaxRequests \in Nat \ {0}
    /\ Window \in Nat \ {0}
    /\ MaxDelay \in 0..Window
    /\ MaxTime \in Nat /\ MaxCalls \in Nat /\ MaxErrors \in Nat

VARIABLES
    clock,     \* wall-clock time, common to the API processes
    zset,      \* the key's members: [at : score, id : the uuid suffix]
    deadline,  \* when the key expires
    pc,        \* [Handlers -> idle, count, record]
    now,       \* [Handlers -> the handler's reading of the clock]
    calls,     \* requests so far
    errors,    \* Redis errors so far
    admitted   \* history: requests let through, with the score they carry

vars == <<clock, zset, deadline, pc, now, calls, errors, admitted>>

KeyGrace == 5   \* the "+ 5" of EXPIRE

Init ==
    /\ clock = 0
    /\ zset = {}
    /\ deadline = 0
    /\ pc = [h \in Handlers |-> "idle"]
    /\ now = [h \in Handlers |-> 0]
    /\ calls = 0
    /\ errors = 0
    /\ admitted = {}

\* A request reaches the dependency and reads the clock.
Arrive(h) ==
    /\ pc[h] = "idle"
    /\ calls < MaxCalls
    /\ calls' = calls + 1
    /\ pc' = [pc EXCEPT ![h] = "count"]
    /\ now' = [now EXCEPT ![h] = clock]
    /\ UNCHANGED <<clock, zset, deadline, errors, admitted>>

\* A bug: off by one at the old end of the window.
PrunedTooMuch(h) == {m \in zset : m.at > now[h] - Window + 1}

\* What the first pipeline leaves in the key.
Pruned(h) == {m \in zset : m.at > now[h] - Window}

\* A bug: ">" for ">=".
PastLimit(h) == Cardinality(Pruned(h)) > MaxRequests

AtLimit(h) == Cardinality(Pruned(h)) >= MaxRequests

\* First pipeline, then "if current_count >= max_requests".  A refusal leaves
\* no record.
Count(h) ==
    /\ pc[h] = "count"
    /\ zset' = Pruned(h)
    /\ pc' = [pc EXCEPT ![h] = IF AtLimit(h) THEN "idle" ELSE "record"]
    /\ UNCHANGED <<clock, deadline, now, calls, errors, admitted>>

\* Second pipeline: the request is recorded and let through.
Record(h) ==
    /\ pc[h] = "record"
    /\ LET member == [at |-> now[h], id |-> Cardinality(admitted)]
       IN  /\ zset' = zset \cup {member}
           /\ admitted' = admitted \cup {member}
    /\ deadline' = clock + Window + KeyGrace
    /\ pc' = [pc EXCEPT ![h] = "idle"]
    /\ UNCHANGED <<clock, now, calls, errors>>

\* Any other exception is logged and the request let through: fail open.  The
\* pipeline whose reply was lost may still have run.
RedisFails(h) ==
    /\ pc[h] \in {"count", "record"}
    /\ errors < MaxErrors
    /\ errors' = errors + 1
    /\ pc' = [pc EXCEPT ![h] = "idle"]
    /\ LET member == [at |-> now[h], id |-> Cardinality(admitted)]
       IN  /\ admitted' = admitted \cup {member}
           /\ \/ UNCHANGED <<zset, deadline>>
              \/ /\ pc[h] = "count"
                 /\ zset' = Pruned(h)
                 /\ UNCHANGED deadline
              \/ /\ pc[h] = "record"
                 /\ zset' = zset \cup {member}
                 /\ deadline' = clock + Window + KeyGrace
    /\ UNCHANGED <<clock, now, calls>>

\* Redis drops the whole key at its deadline.
KeyExpires ==
    /\ zset # {}
    /\ clock >= deadline
    /\ zset' = {}
    /\ UNCHANGED <<clock, deadline, pc, now, calls, errors, admitted>>

\* Time passes; no handler is held up for more than MaxDelay between its
\* reading of the clock and its second pipeline.
Tick ==
    /\ clock < MaxTime
    /\ \A h \in Handlers : pc[h] # "idle" => clock < now[h] + MaxDelay
    /\ clock' = clock + 1
    /\ UNCHANGED <<zset, deadline, pc, now, calls, errors, admitted>>

Next == \/ Tick
        \/ KeyExpires
        \/ \E h \in Handlers : Arrive(h) \/ Count(h) \/ Record(h) \/ RedisFails(h)

Spec == Init /\ [][Next]_vars

-----------------------------------------------------------------------------
(* Properties *)

Members == [at : Nat, id : Nat]

TypeOK ==
    /\ clock \in Nat
    /\ zset \in SUBSET Members
    /\ deadline \in Nat
    /\ pc \in [Handlers -> {"idle", "count", "record"}]
    /\ now \in [Handlers -> Nat]
    /\ calls \in Nat
    /\ errors \in Nat
    /\ admitted \in SUBSET Members

\* The requests let through whose score lies in the len ticks that end at t.
Admitted(t, len) == {m \in admitted : t - len < m.at /\ m.at <= t}

Recording == {h \in Handlers : pc[h] = "record"}

\* How far the limit can be exceeded.  Handlers that counted before any of
\* them recorded all pass, and a handler held up since it read the clock lets
\* another prune entries its own window still needs.  So what holds is: any
\* window shorter by the delay has at most max_requests, plus one request for
\* every other handler that may run at once, plus one for every Redis error
\* that failed open.
OvershootBounded ==
    \A t \in 0..clock : Cardinality(Admitted(t, Window - MaxDelay))
                           <= MaxRequests + Cardinality(Handlers) - 1 + errors

\* The key itself stays that small, whatever the delays: stored entries and
\* handlers about to add one.
KeyStaysSmall ==
    Cardinality(zset) + Cardinality(Recording)
        <= MaxRequests - 1 + Cardinality(Handlers)

\* The key forgets nothing that still counts: whatever pruning by another
\* handler's older or newer clock, or the key's own expiry, did, the requests
\* let through in the current window that are not in the key are no more than
\* the Redis errors that kept them out.
NoEarlyForgetting == Cardinality(Admitted(clock, Window) \ zset) <= errors

-----------------------------------------------------------------------------
(* Why they hold: the strengthening that is inductive *)

\* No reading of the clock is in the future, none in use older than MaxDelay.
ClockInv ==
    /\ \A h \in Handlers : now[h] <= clock
    /\ \A h \in Handlers : pc[h] # "idle" => clock <= now[h] + MaxDelay
    /\ \A m \in zset \cup admitted : m.at <= clock

\* The key outlives the window of each of its members.
KeyInv == \A m \in zset : m.at + Window < deadline

\* The requests of the window that ends at t still to be recorded.
Pending(t, len) == {h \in Recording : t - len < now[h] /\ now[h] <= t}

WindowInv ==
    \A t \in 0..clock :
        Cardinality(Admitted(t, Window - MaxDelay))
                + Cardinality(Pending(t, Window - MaxDelay))
            <= MaxRequests + Cardinality(Handlers) - 1 + errors

LimiterInv ==
    /\ TypeOK
    /\ IsFiniteSet(zset) /\ IsFiniteSet(admitted)
    /\ ClockInv
    /\ KeyInv
    /\ KeyStaysSmall
    /\ NoEarlyForgetting
    /\ WindowInv
=============================================================================
