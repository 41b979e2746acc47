------------------------ MODULE RecordsAndRooms_proofs ------------------------
(***************************************************************************)
(* The API's records, and the rooms whose records they are.                *)
(*                                                                         *)
(*   records  seeding leaves all default problems or none, only racing     *)
(*            requests fail, and no INSERTs wait in a circle, for any list *)
(*            of defaults and any handlers that seed, create, register,    *)
(*            join and die (CheckThenInsert)                               *)
(*   rooms    lists of members correct themselves, edits that cross no     *)
(*            other arrive, and a tab leaves no open socket behind, for    *)
(*            any tabs, users, connections, edits and breaks               *)
(*            (CollaborativeRoom)                                          *)
(*                                                                         *)
(* The two share no variable: each theorem is about the specification it   *)
(* names.                                                                  *)
(***************************************************************************)
EXTENDS CheckThenInsert, CollaborativeRoom, WellFoundedInduction, NaturalsInduction, TLAPS

Seeding(h) == Kind(h) = "seed" /\ pc[h] = "insert"

\* The slugs the next `pos` of a seeding handler leaves behind it.
Behind(h) == {Defaults[i] : i \in 1..(pos[h] - 1)}

\* What a seeding handler holds is what it has inserted so far, and a handler
\* that is not inserting holds nothing.
SeedInv ==
    /\ request \in [Handlers -> Requests]
    /\ pc \in [Handlers -> {"new", "look", "insert", "enrol", "done"}]
    /\ pos \in [Handlers -> Nat]
    /\ owner \in [Keys -> {"free", "committed"} \cup Handlers]
    /\ \A h \in Handlers : Kind(h) = "seed" /\ pc[h] \in {"new", "look"} => pos[h] = 1
    /\ \A h \in Handlers : Seeding(h) => /\ pos[h] \in 1..(Len(Defaults) + 1)
                                         /\ {k \in Keys : owner[k] = h} = Behind(h)
    /\ \A h \in Handlers : pc[h] # "insert" \/ Kind(h) = "room" => \A k \in Keys : owner[k] # h
    /\ SeedIsAllOrNothing

\* The slugs of the default problems, as a set.
LEMMA DefaultSlugs == /\ ToSet(Defaults) = {Defaults[i] : i \in 1..Len(Defaults)}
                      /\ Len(Defaults) \in Nat
                      /\ \A i \in 1..Len(Defaults) : Defaults[i] \in Slugs /\ Defaults[i] \in Keys
  BY KeysAssumption DEF ToSet, Keys

\* A seeding process asks for the slugs of the default problems.
LEMMA SeedRequest == ASSUME SeedInv, NEW h \in Handlers, Kind(h) = "seed"
                     PROVE  request[h].keys = Defaults
  BY DEF SeedInv, Kind, Requests, SeedKeys

\* Nothing is seeded, held or begun.
LEMMA InitSeed == Init => SeedInv
  BY KeysAssumption DEF Init, SeedInv, Seeding, SeedIsAllOrNothing

\* The steps that insert and commit nothing.
LEMMA LookStep ==
    ASSUME SeedInv, NEW h \in Handlers,
           Arrive(h) \/ LookUp(h) \/ CountProblems(h) \/ LookForMember(h)
             \/ CommitRoom(h) \/ Enrol(h)
    PROVE  SeedInv'
  <1>1. /\ UNCHANGED <<request, owner, seeded>>
        /\ pc' \in [Handlers -> {"new", "look", "insert", "enrol", "done"}]
        /\ pos' \in [Handlers -> Nat]
        /\ \A g \in Handlers : g # h => pc'[g] = pc[g] /\ pos'[g] = pos[g]
    <2>1. CASE Arrive(h) \/ CommitRoom(h)
      BY <2>1 DEF Arrive, CommitRoom, SeedInv
    <2>2. CASE LookUp(h)
      <3>1. /\ \/ pc' = pc
               \/ pc' = [pc EXCEPT ![h] = "done"]
               \/ pc' = [pc EXCEPT ![h] = "insert"]
            /\ pos' = pos \/ pos' = [pos EXCEPT ![h] = @ + 1] \/ pos' = [pos EXCEPT ![h] = 1]
            /\ UNCHANGED <<request, owner, seeded>>
        BY <2>2 DEF LookUp, Done
      <3> QED BY <3>1 DEF SeedInv
    <2>3. CASE CountProblems(h) \/ Enrol(h)
      BY <2>3 DEF CountProblems, Enrol, Done, SeedInv
    <2>4. CASE LookForMember(h)
      BY <2>4 DEF LookForMember, Done, SeedInv
    <2> QED BY <2>1, <2>2, <2>3, <2>4
  <1>2. pc[h] = "insert" => pc'[h] # "insert" /\ Kind(h) = "room"
    BY DEF Arrive, LookUp, CountProblems, LookForMember, CommitRoom, Enrol, SeedInv
  <1>3. Kind(h) = "seed" => pos'[h] = pos[h] /\ pc'[h] # "new"
    BY DEF Arrive, LookUp, CountProblems, LookForMember, CommitRoom, Enrol, Done, SeedInv
  <1>4. \A k \in Keys : owner[k] # h
    BY <1>2 DEF SeedInv
  <1>5. Kind(h) = "seed" /\ pc'[h] = "look" => pc[h] = "new"
    BY <1>2 DEF Arrive, LookUp, CountProblems, LookForMember, CommitRoom, Enrol, Done, SeedInv
  <1>6. Kind(h) = "seed" /\ pc'[h] = "insert" => pc[h] = "look"
    BY <1>2 DEF Arrive, LookUp, CountProblems, LookForMember, CommitRoom, Enrol, Done, SeedInv
  <1>7. ASSUME NEW g \in Handlers, Seeding(g)'
        PROVE  /\ pos'[g] \in 1..(Len(Defaults) + 1)
               /\ {k \in Keys : owner'[k] = g} = Behind(g)'
    <2>1. CASE g = h
      <3>1. pos'[g] = 1
        BY <1>1, <1>3, <1>6, <1>7, <2>1 DEF Seeding, Kind, SeedInv
      <3> QED BY <1>1, <1>4, <2>1, <3>1, DefaultSlugs DEF Behind
    <2>2. CASE g # h
      BY <1>1, <1>7, <2>2 DEF Seeding, Kind, SeedInv, Behind
    <2> QED BY <2>1, <2>2
  <1>8. ASSUME NEW g \in Handlers, Kind(g)' = "seed", pc'[g] \in {"new", "look"}
        PROVE  pos'[g] = 1
    BY <1>1, <1>3, <1>5, <1>8 DEF SeedInv, Kind
  <1>9. ASSUME NEW g \in Handlers, pc'[g] # "insert" \/ Kind(g)' = "room"
        PROVE  \A k \in Keys : owner'[k] # g
    BY <1>1, <1>4, <1>9 DEF SeedInv, Kind
  <1> QED BY <1>1, <1>7, <1>8, <1>9 DEF SeedInv, SeedIsAllOrNothing

\* A handler that releases or inserts a key moves no other handler's keys.
LEMMA InsertStep == ASSUME SeedInv, NEW h \in Handlers, Insert(h) \/ Lose(h) PROVE SeedInv'
  <1>1. /\ UNCHANGED <<request, seeded>>
        /\ pc' \in [Handlers -> {"new", "look", "insert", "enrol", "done"}]
        /\ \A g \in Handlers : g # h => pc'[g] = pc[g] /\ pos'[g] = pos[g]
        /\ h \notin {"free", "committed"}
    BY KeysAssumption DEF Insert, Lose, Done, SeedInv
  <1>2. ASSUME owner' = RolledBack(h), pc'[h] = "done", UNCHANGED pos
        PROVE  SeedInv'
    <2>1. /\ owner' \in [Keys -> {"free", "committed"} \cup Handlers]
          /\ \A k \in Keys : owner'[k] # h
          /\ \A g \in Handlers : g # h => {k \in Keys : owner'[k] = g} = {k \in Keys : owner[k] = g}
      BY <1>1, <1>2, KeysAssumption DEF RolledBack, SeedInv
    <2> QED BY <1>1, <1>2, <2>1 DEF SeedInv, Seeding, Kind, Behind, SeedIsAllOrNothing
  <1>3. CASE Lose(h)
    BY <1>2, <1>3 DEF Lose, Done, SeedInv
  <1>4. CASE Insert(h) /\ pc'[h] = "done"
    BY <1>2, <1>4 DEF Insert, Done, SeedInv
  <1>5. CASE Insert(h) /\ pc'[h] # "done"
    <2> DEFINE k == request[h].keys[pos[h]]
    <2>1. /\ pc[h] = "insert" /\ UNCHANGED pc
          /\ owner[k] = "free" /\ owner' = [owner EXCEPT ![k] = h]
          /\ pos' = [pos EXCEPT ![h] = pos[h] + 1]
          /\ Kind(h) # "room" /\ pos[h] <= Len(request[h].keys)
      BY <1>5 DEF Insert, Done, SeedInv
    <2>2. /\ owner' \in [Keys -> {"free", "committed"} \cup Handlers]
          /\ pos' \in [Handlers -> Nat]
          /\ \A g \in Handlers : g # h => {l \in Keys : owner'[l] = g} = {l \in Keys : owner[l] = g}
      <3> HIDE DEF k
      <3>1. owner' \in [Keys -> {"free", "committed"} \cup Handlers]
        BY <2>1 DEF SeedInv
      <3>2. ASSUME NEW g \in Handlers, g # h, NEW l \in Keys
            PROVE  owner'[l] = g <=> owner[l] = g
        BY <2>1, <3>2, KeysAssumption DEF SeedInv
      <3>3. pos' \in [Handlers -> Nat]
        BY <2>1 DEF SeedInv
      <3> QED BY <3>1, <3>2, <3>3
    <2>3. ASSUME Kind(h) = "seed"
          PROVE  /\ pos'[h] \in 1..(Len(Defaults) + 1)
                 /\ {l \in Keys : owner'[l] = h} = Behind(h)'
      <3>1. k = Defaults[pos[h]] /\ pos[h] \in 1..Len(Defaults) /\ k \in Keys
        BY <2>1, <2>3, SeedRequest, DefaultSlugs DEF SeedInv, Seeding
      <3>2. {l \in Keys : owner'[l] = h} = {l \in Keys : owner[l] = h} \cup {k}
        BY <2>1, <3>1 DEF SeedInv
      <3>3. {l \in Keys : owner[l] = h} = Behind(h)
        BY <2>1, <2>3 DEF SeedInv, Seeding
      <3>4. Behind(h)' = Behind(h) \cup {Defaults[pos[h]]}
        BY <2>1, <3>1 DEF Behind, SeedInv
      <3> QED BY <2>1, <3>1, <3>2, <3>3, <3>4, DefaultSlugs DEF SeedInv
    <2>4. ASSUME NEW g \in Handlers, g # h, Seeding(g)'
          PROVE  /\ pos'[g] \in 1..(Len(Defaults) + 1)
                 /\ {l \in Keys : owner'[l] = g} = Behind(g)'
      <3>1. Seeding(g) /\ Behind(g)' = Behind(g) /\ pos'[g] = pos[g]
        BY <1>1, <2>1, <2>4 DEF Seeding, Kind, Behind
      <3> QED BY <2>2, <2>4, <3>1 DEF SeedInv
    <2>5. ASSUME NEW g \in Handlers, pc'[g] # "insert" \/ Kind(g)' = "room"
          PROVE  \A l \in Keys : owner'[l] # g
      BY <1>1, <2>1, <2>5 DEF SeedInv, Kind
    <2> QED BY <1>1, <2>1, <2>2, <2>3, <2>4, <2>5 DEF SeedInv, SeedIsAllOrNothing, Seeding, Kind
  <1> QED BY <1>1, <1>3, <1>4, <1>5 DEF Insert, Lose

\* A COMMIT of seeding commits every default; any other commits none.
LEMMA CommitStep == ASSUME SeedInv, NEW h \in Handlers, Commit(h) PROVE SeedInv'
  <1>1. /\ UNCHANGED <<request, pos>> /\ pc' = [pc EXCEPT ![h] = "done"]
        /\ pc[h] = "insert" /\ pos[h] > Len(request[h].keys)
        /\ owner' = [k \in Keys |-> IF owner[k] = h THEN "committed" ELSE owner[k]]
        /\ h \notin {"free", "committed"}
    BY KeysAssumption DEF Commit, MayCommit, Done
  <1>2. /\ owner' \in [Keys -> {"free", "committed"} \cup Handlers]
        /\ \A k \in Keys : owner'[k] # h
        /\ \A g \in Handlers : g # h => {k \in Keys : owner'[k] = g} = {k \in Keys : owner[k] = g}
    BY <1>1, KeysAssumption DEF SeedInv
  <1>3. seeded' \in {{}, ToSet(Defaults)}
    <2>1. CASE Kind(h) = "seed"
      <3>1. pos[h] = Len(Defaults) + 1 /\ {k \in Keys : owner[k] = h} = Behind(h)
        BY <1>1, <2>1, SeedRequest, DefaultSlugs DEF SeedInv, Seeding
      <3>2. Behind(h) = ToSet(Defaults)
        BY <3>1, DefaultSlugs DEF Behind
      <3>3. {s \in Slugs : owner[s] = h} = ToSet(Defaults)
        BY <3>1, <3>2, DefaultSlugs DEF Keys
      <3> QED BY <2>1, <3>3 DEF Commit, SeedInv, SeedIsAllOrNothing
    <2>2. CASE Kind(h) # "seed"
      BY <2>2 DEF Commit, SeedInv, SeedIsAllOrNothing
    <2> QED BY <2>1, <2>2
  <1> QED BY <1>1, <1>2, <1>3 DEF SeedInv, Seeding, Kind, Behind, SeedIsAllOrNothing

\* Every step keeps the seeding invariant.
LEMMA NextSeed == ASSUME SeedInv, [Next]_vars PROVE SeedInv'
  <1>1. CASE UNCHANGED vars
    BY <1>1 DEF vars, SeedInv, Seeding, Kind, Behind, SeedIsAllOrNothing
  <1>2. CASE Next
    BY <1>2, LookStep, InsertStep, CommitStep DEF Next
  <1> QED BY <1>1, <1>2

\* However many handlers seed, create problems, fail and die at once, the
\* problems that seeding has committed are all of the defaults or none
\* (seed_default_problems_if_empty commits once, after the last INSERT).
THEOREM Seeded == Spec => []SeedIsAllOrNothing
  <1>1. SeedInv => SeedIsAllOrNothing
    BY DEF SeedInv
  <1> QED BY <1>1, InitSeed, NextSeed, PTL DEF Spec
-----------------------------------------------------------------------------
(* Requests and their keys *)

\* What a request asks for, by its kind.
LEMMA RequestKinds ==
    ASSUME SeedInv, NEW h \in Handlers
    PROVE  \/ Kind(h) = "register" /\ \E e \in Emails, n \in Usernames : request[h].keys = <<e, n>>
           \/ Kind(h) = "create" /\ \E s \in Slugs : request[h].keys = <<s>>
           \/ Kind(h) = "seed" /\ request[h].keys = Defaults
           \/ Kind(h) \in {"join", "room"} /\ request[h].user \in Members
  <1>1. request[h] \in Requests
    BY DEF SeedInv
  <1>2. CASE request[h] \in [kind : {"register"}, keys : RegisterKeys]
    BY <1>2 DEF RegisterKeys, Kind
  <1>3. CASE request[h] \in [kind : {"create"}, keys : CreateKeys]
    BY <1>3 DEF CreateKeys, Kind
  <1>4. CASE request[h] \in [kind : {"seed"}, keys : SeedKeys]
    BY <1>4 DEF SeedKeys, Kind
  <1>5. CASE request[h] \in [kind : {"join", "room"}, user : Members]
    BY <1>5 DEF Kind
  <1> QED BY <1>1, <1>2, <1>3, <1>4, <1>5 DEF Requests

\* The keys of a request that inserts some.
LEMMA RequestKeys ==
    ASSUME SeedInv, NEW h \in Handlers, ~Enrols(h)
    PROVE  /\ Len(request[h].keys) \in Nat
           /\ \A i \in 1..Len(request[h].keys) : request[h].keys[i] \in Keys
           /\ ToSet(request[h].keys) = {request[h].keys[i] : i \in 1..Len(request[h].keys)}
           /\ Kind(h) \in {"register", "create"} => Len(request[h].keys) >= 1
  <1>1. CASE Kind(h) = "register" /\ \E e \in Emails, n \in Usernames : request[h].keys = <<e, n>>
    BY <1>1 DEF Keys, ToSet
  <1>2. CASE Kind(h) = "create" /\ \E s \in Slugs : request[h].keys = <<s>>
    BY <1>2 DEF Keys, ToSet
  <1>3. CASE Kind(h) = "seed" /\ request[h].keys = Defaults
    BY <1>3, DefaultSlugs
  <1> QED BY <1>1, <1>2, <1>3, RequestKinds DEF Enrols

\* Two requests of several keys have a common key at the same position.
LEMMA KeyOrder ==
    ASSUME SeedInv, NEW g \in Handlers, NEW h \in Handlers, ~Enrols(g), ~Enrols(h),
           NEW i \in 1..Len(request[g].keys), NEW j \in 1..Len(request[h].keys),
           request[g].keys[i] = request[h].keys[j]
    PROVE  i = j \/ Len(request[g].keys) = 1 \/ Len(request[h].keys) = 1
  <1>1. CASE Kind(g) = "create" \/ Kind(h) = "create"
    <2>1. CASE Kind(g) = "create"
      <3>1. PICK s \in Slugs : request[g].keys = <<s>>
        BY <2>1, RequestKinds
      <3> QED BY <3>1
    <2>2. CASE Kind(h) = "create"
      <3>1. PICK s \in Slugs : request[h].keys = <<s>>
        BY <2>2, RequestKinds
      <3> QED BY <3>1
    <2> QED BY <1>1, <2>1, <2>2
  <1>2. CASE Kind(g) = "register" /\ Kind(h) = "register"
    <2>1. PICK e \in Emails, n \in Usernames : request[g].keys = <<e, n>>
      BY <1>2, RequestKinds
    <2>2. PICK d \in Emails, m \in Usernames : request[h].keys = <<d, m>>
      BY <1>2, RequestKinds
    <2> QED BY <2>1, <2>2, KeysAssumption
  <1>3. CASE Kind(g) = "seed" /\ Kind(h) = "seed"
    BY <1>3, RequestKinds, KeysAssumption, DefaultSlugs DEF IsInjective
  <1>4. ASSUME NEW f \in Handlers, NEW k \in Handlers, Kind(f) = "register", Kind(k) = "seed",
               NEW a \in 1..Len(request[f].keys), NEW b \in 1..Len(request[k].keys)
        PROVE  request[f].keys[a] # request[k].keys[b]
    <2>1. PICK e \in Emails, n \in Usernames : request[f].keys = <<e, n>>
      BY <1>4, RequestKinds
    <2>2. request[k].keys = Defaults
      BY <1>4, SeedRequest
    <2>3. request[k].keys[b] \in Slugs
      BY <1>4, <2>2, DefaultSlugs
    <2> QED BY <2>1, <2>3, KeysAssumption
  <1> QED BY <1>1, <1>2, <1>3, <1>4, RequestKinds DEF Enrols

-----------------------------------------------------------------------------
(* Handlers that meet: the invariant *)

\* Where a handler of each kind can be, and what it has answered.
PlaceInv ==
    /\ answer \in [Handlers -> {"none", "ok", "refused", "error", "lost"}]
    /\ created \in BOOLEAN
    /\ rows \in [Members -> Nat]
    /\ met \in [Handlers -> SUBSET Handlers]
    /\ \A h \in Handlers :
          /\ pos[h] >= 1
          /\ answer[h] # "none" => pc[h] = "done"
          /\ pc[h] = "new" => met[h] = {} /\ pos[h] = 1
          /\ pc[h] = "look" => Kind(h) # "room"
          /\ pc[h] = "insert" => Kind(h) # "join"
          /\ pc[h] = "enrol" => Enrols(h)

\* Handlers open together have met.
MetInv == \A g, h \in Handlers : Open(g) /\ Open(h) /\ g # h => g \in met[h]

\* The keys a handler holds are those it has inserted.
HoldInv ==
    \A h \in Handlers : \A k \in Keys : owner[k] = h =>
        \E i \in 1..(pos[h] - 1) : i <= Len(request[h].keys) /\ request[h].keys[i] = k

\* What is committed was committed by a handler that answered 200.
CommittedInv ==
    \A k \in Keys : owner[k] = "committed" =>
        \E g \in Handlers : ~Enrols(g) /\ answer[g] = "ok" /\ k \in ToSet(request[g].keys)

\* The positions of the keys a handler has found uncommitted, those aside
\* that its look-up cannot find.
Looked(h) == {i \in 1..Len(request[h].keys) :
                 /\ request[h].keys[i] \notin UuidSlugs
                 /\ pc[h] = "insert" \/ (pc[h] = "look" /\ i < pos[h])}

\* A key that is committed since it was looked up was committed by a rival.
LookedInv ==
    \A h \in Handlers : ~Enrols(h) =>
        \A i \in Looked(h) :
            owner[request[h].keys[i]] = "committed" => \E g \in Handlers : Race(g, h)

\* The one room; a row that is there since a handler looked is a rival's, and
\* two rows are two rivals'.
RoomInv ==
    /\ \A g, h \in Handlers : Kind(g) = "room" /\ Kind(h) = "room" => g = h
    /\ \A h \in Handlers : created /\ Kind(h) = "room" => pc[h] \in {"enrol", "done"}
    /\ ~created => (\A m \in Members : rows[m] = 0) /\ \A h \in Handlers : pc[h] # "enrol"
    /\ \A h \in Handlers : pc[h] = "enrol" /\ rows[request[h].user] > 0 =>
          \E g \in Handlers : g # h /\ Race(g, h)
    /\ \A m \in Members : rows[m] > 1 =>
          \E f, g \in Handlers : f # g /\ Race(f, g) /\ Enrols(f) /\ request[f].user = m

RaceInv == /\ PlaceInv /\ MetInv /\ HoldInv /\ CommittedInv /\ LookedInv /\ RoomInv
           /\ FailuresAreRaces

\* The step of a handler.
Step(h) == \/ Arrive(h)
           \/ LookUp(h) \/ CountProblems(h) \/ LookForMember(h)
           \/ Insert(h) \/ Commit(h)
           \/ CommitRoom(h) \/ Enrol(h)
           \/ Lose(h)

\* No handler has met or done anything.
LEMMA InitRace == Init => RaceInv
  <1> SUFFICES ASSUME Init PROVE RaceInv
    OBVIOUS
  <1>1. /\ pc = [h \in Handlers |-> "new"] /\ answer = [h \in Handlers |-> "none"]
        /\ owner = [k \in Keys |-> "free"] /\ met = [h \in Handlers |-> {}]
        /\ pos = [h \in Handlers |-> 1] /\ rows = [m \in Members |-> 0] /\ created \in BOOLEAN
    BY DEF Init
  <1>2. PlaceInv /\ MetInv
    BY <1>1 DEF PlaceInv, MetInv, Open
  <1>3. HoldInv
    BY <1>1, KeysAssumption DEF HoldInv
  <1>4. LookedInv /\ CommittedInv
    BY <1>1 DEF LookedInv, Looked, CommittedInv
  <1>5. RoomInv
    <2>1. \A g, h \in Handlers : Kind(g) = "room" /\ Kind(h) = "room" => g = h /\ ~created
      BY DEF Init
    <2> QED BY <1>1, <2>1 DEF RoomInv
  <1>6. FailuresAreRaces
    BY <1>1 DEF FailuresAreRaces
  <1> QED BY <1>2, <1>3, <1>4, <1>5, <1>6 DEF RaceInv

\* What every step leaves alone.
LEMMA StepFrame ==
    ASSUME SeedInv, PlaceInv, NEW h \in Handlers, Step(h)
    PROVE  /\ request' = request
           /\ \A g \in Handlers : g # h => pc'[g] = pc[g] /\ pos'[g] = pos[g] /\ answer'[g] = answer[g]
           /\ pc[h] # "new" => met' = met /\ Open(h)
           /\ pc[h] = "new" => /\ UNCHANGED <<pos, answer, owner, created, rows>>
                               /\ Arrive(h)
           /\ pc[h] # "done"
  <1>1. request' = request /\ pc[h] # "done"
    BY DEF Step, Arrive, LookUp, CountProblems, LookForMember, Insert, Commit, CommitRoom, Enrol, Lose, Open
  <1>2. \A g \in Handlers : g # h => pc'[g] = pc[g] /\ pos'[g] = pos[g] /\ answer'[g] = answer[g]
    <2>1. CASE Arrive(h) \/ CommitRoom(h) \/ Enrol(h) \/ Lose(h)
      BY <2>1 DEF Arrive, CommitRoom, Enrol, Lose, Done, SeedInv, PlaceInv
    <2>2. CASE LookUp(h)
      BY <2>2 DEF LookUp, Done, SeedInv, PlaceInv
    <2>3. CASE CountProblems(h) \/ LookForMember(h)
      BY <2>3 DEF CountProblems, LookForMember, Done, SeedInv, PlaceInv
    <2>4. CASE Insert(h) \/ Commit(h)
      BY <2>4 DEF Insert, Commit, Done, SeedInv, PlaceInv
    <2> QED BY <2>1, <2>2, <2>3, <2>4 DEF Step
  <1>3. pc[h] # "new" => met' = met /\ Open(h)
    BY <1>1 DEF Step, Arrive, LookUp, CountProblems, LookForMember, Insert, Commit, CommitRoom, Enrol, Lose, Open
  <1>4. pc[h] = "new" => UNCHANGED <<pos, answer, owner, created, rows>> /\ Arrive(h)
    BY DEF Step, Arrive, LookUp, CountProblems, LookForMember, Insert, Commit, CommitRoom, Enrol, Lose, Open
  <1> QED BY <1>1, <1>2, <1>3, <1>4

\* Handlers keep to their places.
LEMMA PlaceStep == ASSUME SeedInv, PlaceInv, NEW h \in Handlers, Step(h) PROVE PlaceInv'
  <1>0. /\ pc \in [Handlers -> {"new", "look", "insert", "enrol", "done"}]
        /\ pos \in [Handlers -> Nat] /\ request' = request
    BY StepFrame DEF SeedInv
  <1>1. CASE Arrive(h)
    BY <1>0, <1>1 DEF Arrive, PlaceInv, Kind, Enrols, Open
  <1>2. CASE LookUp(h)
    <2>1. /\ pos' \in {pos, [pos EXCEPT ![h] = pos[h] + 1], [pos EXCEPT ![h] = 1]}
          /\ \/ pc' = pc /\ answer' = answer
             \/ pc' = [pc EXCEPT ![h] = "done"] /\ answer' = [answer EXCEPT ![h] = "refused"]
             \/ pc' = [pc EXCEPT ![h] = "insert"] /\ answer' = answer
          /\ pc[h] = "look" /\ Kind(h) \in {"register", "create"}
          /\ UNCHANGED <<created, rows, met>>
      BY <1>2 DEF LookUp, Done
    <2>2. \A g \in Handlers : pos'[g] >= 1
      BY <1>0, <2>1 DEF PlaceInv
    <2> QED BY <1>0, <2>1, <2>2 DEF PlaceInv, Kind, Enrols
  <1>3. CASE CountProblems(h)
    BY <1>0, <1>3 DEF CountProblems, Done, PlaceInv, Kind, Enrols
  <1>4. CASE LookForMember(h)
    BY <1>0, <1>4 DEF LookForMember, Done, PlaceInv, Kind, Enrols
  <1>5. CASE Insert(h)
    <2>1. /\ \/ pos' = [pos EXCEPT ![h] = pos[h] + 1] /\ pc' = pc /\ answer' = answer
             \/ /\ pos' = pos
                /\ pc' = [pc EXCEPT ![h] = "done"] /\ answer' = [answer EXCEPT ![h] = "error"]
          /\ pc[h] = "insert" /\ UNCHANGED <<created, rows, met>>
      BY <1>5 DEF Insert, Done
    <2>2. \A g \in Handlers : pos'[g] >= 1
      BY <1>0, <2>1 DEF PlaceInv
    <2> QED BY <1>0, <2>1, <2>2 DEF PlaceInv, Kind, Enrols
  <1>6. CASE Commit(h)
    BY <1>0, <1>6 DEF Commit, MayCommit, Done, PlaceInv, Kind, Enrols
  <1>7. CASE CommitRoom(h)
    BY <1>0, <1>7 DEF CommitRoom, PlaceInv, Kind, Enrols
  <1>8. CASE Enrol(h)
    <2>1. request[h].user \in Members
      BY <1>8, RequestKinds DEF Enrol, PlaceInv, Enrols
    <2> QED BY <1>0, <1>8, <2>1 DEF Enrol, Done, PlaceInv, Kind, Enrols
  <1>9. CASE Lose(h)
    BY <1>0, <1>9 DEF Lose, Done, PlaceInv, Kind, Enrols
  <1> QED BY <1>1, <1>2, <1>3, <1>4, <1>5, <1>6, <1>7, <1>8, <1>9 DEF Step

\* Handlers open together have met.
LEMMA MetStep == ASSUME SeedInv, PlaceInv, MetInv, NEW h \in Handlers, Step(h) PROVE MetInv'
  <1>1. CASE pc[h] = "new"
    <2>1. /\ met' = [g \in Handlers |->
                        IF g = h THEN {f \in Handlers : Open(f)}
                        ELSE IF Open(g) THEN met[g] \cup {h} ELSE met[g]]
          /\ \A g \in Handlers : g # h => (Open(g)' <=> Open(g))
      BY <1>1, StepFrame DEF Arrive, Open
    <2> QED BY <2>1 DEF MetInv
  <1>2. CASE pc[h] # "new"
    <2>1. met' = met /\ \A g \in Handlers : Open(g)' => Open(g)
      BY <1>2, StepFrame DEF Open
    <2> QED BY <2>1 DEF MetInv
  <1> QED BY <1>1, <1>2

\* Handlers never forget whom they met, so a race remains one.
LEMMA RaceStays ==
    ASSUME SeedInv, PlaceInv, NEW h \in Handlers, Step(h), NEW f \in Handlers, NEW g \in Handlers
    PROVE  /\ Race(f, g) => Race(f, g)'
           /\ Enrols(f)' <=> Enrols(f)
           /\ Kind(f)' = Kind(f)
  <1>1. met[g] \subseteq met'[g]
    <2>1. CASE pc[h] = "new"
      <3>1. met' = [e \in Handlers |->
                        IF e = h THEN {d \in Handlers : Open(d)}
                        ELSE IF Open(e) THEN met[e] \cup {h} ELSE met[e]]
        BY <2>1, StepFrame DEF Arrive
      <3>2. met[h] = {}
        BY <2>1 DEF PlaceInv
      <3> QED BY <3>1, <3>2
    <2>2. CASE pc[h] # "new"
      BY <2>2, StepFrame
    <2> QED BY <2>1, <2>2
  <1>2. request' = request
    BY StepFrame
  <1> QED BY <1>1, <1>2 DEF Race, Enrols, Kind

\* A handler holds the keys it has inserted, and no other step changes them.
LEMMA HoldStep == ASSUME SeedInv, PlaceInv, HoldInv, NEW h \in Handlers, Step(h) PROVE HoldInv'
  <1>0. /\ request' = request /\ pos \in [Handlers -> Nat] /\ h \notin {"free", "committed"}
        /\ \A g \in Handlers : g # h => pos'[g] = pos[g]
        /\ owner \in [Keys -> {"free", "committed"} \cup Handlers]
    BY StepFrame, KeysAssumption DEF SeedInv
  <1> SUFFICES ASSUME NEW g \in Handlers, NEW k \in Keys, owner'[k] = g
               PROVE  \E i \in 1..(pos'[g] - 1) : i <= Len(request[g].keys) /\ request[g].keys[i] = k
    BY <1>0 DEF HoldInv
  <1>1. CASE owner[k] = g /\ pos'[g] = pos[g]
    BY <1>1 DEF HoldInv
  <1>2. CASE Insert(h) /\ owner[request[h].keys[pos[h]]] = "free" /\ pc'[h] # "done"
    <2> DEFINE c == request[h].keys[pos[h]]
    <2>1. /\ owner' = [owner EXCEPT ![c] = h] /\ pos' = [pos EXCEPT ![h] = pos[h] + 1]
          /\ pos[h] <= Len(request[h].keys)
      BY <1>2 DEF Insert, Done, SeedInv
    <2>2. pos[h] \in Nat /\ pos[h] >= 1 /\ pos'[h] = pos[h] + 1
      BY <1>0, <2>1 DEF PlaceInv
    <2>3. CASE g = h /\ k = c
      BY <2>1, <2>2, <2>3
    <2>4. CASE owner[k] = g
      <3>1. PICK i \in 1..(pos[g] - 1) : i <= Len(request[g].keys) /\ request[g].keys[i] = k
        BY <2>4 DEF HoldInv
      <3>2. i \in 1..(pos'[g] - 1)
        BY <1>0, <2>2
      <3> QED BY <3>1, <3>2
    <2>5. (g = h /\ k = c) \/ owner[k] = g
      <3> HIDE DEF c
      <3> QED BY <1>0, <2>1
    <2> QED BY <2>3, <2>4, <2>5
  <1>3. CASE ~(Insert(h) /\ owner[request[h].keys[pos[h]]] = "free" /\ pc'[h] # "done")
    <2>1. owner[k] = g
      <3>1. owner' = owner \/ owner' = RolledBack(h)
              \/ owner' = [l \in Keys |-> IF owner[l] = h THEN "committed" ELSE owner[l]]
        BY <1>3 DEF Step, Arrive, LookUp, CountProblems, LookForMember, Insert, Commit, CommitRoom, Enrol, Lose,
                    Done, SeedInv
      <3> QED BY <1>0, <3>1, KeysAssumption DEF RolledBack
    <2>2. CASE g # h
      BY <1>0, <1>1, <2>1, <2>2
    <2>3. CASE g = h
      <3>1. pc[h] = "insert" /\ Kind(h) # "room"
        BY <2>1, <2>3 DEF SeedInv
      <3>2. owner'[k] = h /\ owner[k] = h
        BY <2>1, <2>3
      <3>3. pos'[h] = pos[h]
        BY <1>3, <3>1, <3>2, KeysAssumption DEF Step, Arrive, LookUp, CountProblems, LookForMember, Insert, Commit,
           CommitRoom, Enrol, Lose, Done, SeedInv, PlaceInv
      <3> QED BY <1>1, <2>1, <2>3, <3>3
    <2> QED BY <2>2, <2>3
  <1> QED BY <1>2, <1>3

\* A key found uncommitted is committed later by a handler met, or not at all.
LEMMA LookedStep ==
    ASSUME SeedInv, PlaceInv, MetInv, HoldInv, LookedInv, NEW h \in Handlers, Step(h)
    PROVE  LookedInv'
  <1>0. /\ request' = request /\ owner \in [Keys -> {"free", "committed"} \cup Handlers]
        /\ \A g \in Handlers : g # h => pc'[g] = pc[g] /\ pos'[g] = pos[g]
        /\ h \notin {"free", "committed"}
    BY StepFrame, KeysAssumption DEF SeedInv
  <1> SUFFICES ASSUME NEW g \in Handlers, ~Enrols(g), NEW i \in Looked(g)',
                      owner'[request[g].keys[i]] = "committed"
               PROVE  \E f \in Handlers : Race(f, g)'
    BY <1>0, RaceStays DEF LookedInv
  <1> DEFINE k == request[g].keys[i]
  <1>1. i \in 1..Len(request[g].keys) /\ k \in Keys
    BY <1>0, RequestKeys DEF Looked
  <1>2. CASE i \in Looked(g) /\ owner[k] = "committed"
    <2>1. \E f \in Handlers : Race(f, g)
      BY <1>2 DEF LookedInv
    <2> QED BY <2>1, RaceStays
  <1>3. CASE i \in Looked(g) /\ owner[k] # "committed"
    <2>1. Commit(h) /\ owner[k] = h
      <3>1. CASE Insert(h) \/ Lose(h)
        BY <1>0, <1>1, <1>3, <3>1 DEF Insert, Lose, RolledBack
      <3>2. CASE ~Insert(h) /\ ~Lose(h) /\ ~Commit(h)
        BY <1>3, <3>2 DEF Step, Arrive, LookUp, CountProblems, LookForMember, CommitRoom, Enrol
      <3>3. CASE Commit(h)
        BY <1>1, <1>3, <3>3 DEF Commit
      <3> QED BY <3>1, <3>2, <3>3
    <2>2. /\ pc[h] = "insert" /\ pc'[h] = "done" /\ ~Enrols(h)
      BY <2>1 DEF Commit, MayCommit, Done, SeedInv, PlaceInv, Enrols
    <2>3. g # h
      BY <2>2 DEF Looked
    <2>4. h \in met[g]
      BY <1>3, <2>2, <2>3 DEF MetInv, Open, Looked
    <2>5. PICK j \in 1..(pos[h] - 1) : j <= Len(request[h].keys) /\ request[h].keys[j] = k
      BY <1>1, <2>1 DEF HoldInv
    <2>6. k \in ToSet(request[h].keys) /\ k \in ToSet(request[g].keys)
      <3>1. j \in 1..Len(request[h].keys)
        BY <2>2, <2>5, RequestKeys DEF SeedInv
      <3> QED BY <1>1, <2>2, <2>5, <3>1, RequestKeys
    <2>7. Race(h, g)
      BY <2>2, <2>4, <2>6 DEF Race
    <2> QED BY <2>7, RaceStays
  <1>4. CASE i \notin Looked(g)
    <2>1. g = h
      BY <1>0, <1>4 DEF Looked
    <2>2. CASE LookUp(h)
      <3>1. i = pos[h]
        <4>1. Len(request[h].keys) \in Nat /\ pos[h] \in Nat
          BY <2>1, RequestKeys DEF SeedInv
        <4>2. CASE pos' = [pos EXCEPT ![h] = pos[h] + 1] /\ pc' = pc
          BY <1>1, <1>4, <2>1, <2>2, <4>1, <4>2 DEF Looked, LookUp, SeedInv
        <4>3. CASE pc' = [pc EXCEPT ![h] = "insert"] /\ ~(pos[h] < Len(request[h].keys))
          BY <1>1, <1>4, <2>1, <2>2, <4>1, <4>3 DEF Looked, LookUp
        <4>4. CASE pc' = [pc EXCEPT ![h] = "done"]
          BY <2>1, <4>4 DEF Looked, SeedInv
        <4> QED BY <2>2, <4>2, <4>3, <4>4 DEF LookUp, Done
      <3>2. CASE owner[k] = "committed"
        <4>1. pc'[h] = "done"
          <5>1. Found(k)
            BY <1>0, <3>2 DEF Found, Looked
          <5> QED BY <2>1, <2>2, <3>1, <5>1 DEF LookUp, Done, SeedInv
        <4> QED BY <2>1, <4>1 DEF Looked
      <3>3. owner' = owner
        BY <2>2 DEF LookUp
      <3> QED BY <3>2, <3>3
    <2>3. CASE CountProblems(h)
      <3>1. k \in Slugs
        BY <1>1, <2>1, <2>3, SeedRequest, DefaultSlugs DEF CountProblems
      <3>2. CASE owner[k] = "committed"
        <4>1. pc'[h] = "done"
          BY <2>3, <3>1, <3>2 DEF CountProblems, Done, SeedInv
        <4> QED BY <2>1, <4>1 DEF Looked
      <3>3. owner' = owner
        BY <2>3 DEF CountProblems
      <3> QED BY <3>2, <3>3
    <2>4. CASE ~LookUp(h) /\ ~CountProblems(h)
      <3>1. CASE Arrive(h)
        <4>1. pos'[h] = 1 /\ pc'[h] = "look"
          BY <2>1, <3>1 DEF Arrive, PlaceInv, SeedInv, Enrols
        <4> QED BY <1>1, <2>1, <4>1 DEF Looked
      <3>2. CASE ~Arrive(h)
        <4>1. pc'[h] = "insert" => pc[h] = "insert"
          BY <2>4, <3>2 DEF Step, LookForMember, Insert, Commit, CommitRoom, Enrol, Lose, Done, SeedInv
        <4>2. pc'[h] # "look"
          BY <2>1, <2>4, <3>2 DEF Step, LookForMember, Insert, Commit, CommitRoom, Enrol, Lose, Done, SeedInv, MayCommit, Enrols
        <4> QED BY <1>0, <1>1, <1>4, <2>1, <4>1, <4>2 DEF Looked
      <3> QED BY <3>1, <3>2
    <2> QED BY <2>2, <2>3, <2>4
  <1> QED BY <1>2, <1>3, <1>4

\* A handler commits what it has inserted, and answers 200.
LEMMA CommittedStep ==
    ASSUME SeedInv, PlaceInv, HoldInv, CommittedInv, NEW h \in Handlers, Step(h)
    PROVE  CommittedInv'
  <1>0. /\ request' = request /\ owner \in [Keys -> {"free", "committed"} \cup Handlers]
        /\ \A f \in Handlers : f # h => answer'[f] = answer[f]
        /\ answer[h] # "ok" /\ h \notin {"free", "committed"}
    BY StepFrame, KeysAssumption DEF SeedInv, PlaceInv
  <1> SUFFICES ASSUME NEW k \in Keys, owner'[k] = "committed"
               PROVE  \E g \in Handlers : ~Enrols(g) /\ answer'[g] = "ok" /\ k \in ToSet(request[g].keys)
    BY <1>0, RaceStays DEF CommittedInv
  <1>1. CASE owner[k] = "committed"
    <2>1. PICK g \in Handlers : ~Enrols(g) /\ answer[g] = "ok" /\ k \in ToSet(request[g].keys)
      BY <1>1 DEF CommittedInv
    <2> QED BY <1>0, <2>1
  <1>2. CASE owner[k] # "committed"
    <2>1. Commit(h) /\ owner[k] = h
      <3>1. CASE Insert(h) \/ Lose(h)
        BY <1>0, <1>2, <3>1 DEF Insert, Lose, RolledBack
      <3>2. CASE ~Insert(h) /\ ~Lose(h) /\ ~Commit(h)
        BY <1>2, <3>2 DEF Step, Arrive, LookUp, CountProblems, LookForMember, CommitRoom, Enrol
      <3>3. CASE Commit(h)
        BY <1>2, <3>3 DEF Commit
      <3> QED BY <3>1, <3>2, <3>3
    <2>2. pc[h] = "insert" /\ ~Enrols(h) /\ answer'[h] = "ok"
      BY <2>1 DEF Commit, MayCommit, Done, SeedInv, PlaceInv, Enrols
    <2>3. PICK j \in 1..(pos[h] - 1) : j <= Len(request[h].keys) /\ request[h].keys[j] = k
      BY <2>1 DEF HoldInv
    <2>4. k \in ToSet(request[h].keys)
      <3>1. j \in 1..Len(request[h].keys)
        BY <2>2, <2>3, RequestKeys DEF SeedInv
      <3> QED BY <2>2, <2>3, <3>1, RequestKeys
    <2> QED BY <2>2, <2>4
  <1> QED BY <1>1, <1>2

\* A handler that enrols a member has met all who may.
LEMMA RoomStep ==
    ASSUME SeedInv, PlaceInv, MetInv, RoomInv, NEW h \in Handlers, Step(h)
    PROVE  RoomInv'
  <1>0. /\ request' = request /\ pc \in [Handlers -> {"new", "look", "insert", "enrol", "done"}]
        /\ \A g \in Handlers : g # h => pc'[g] = pc[g]
        /\ \A f, g \in Handlers : Race(f, g) => Race(f, g)'
        /\ \A f \in Handlers : (Enrols(f)' <=> Enrols(f)) /\ Kind(f)' = Kind(f)
    BY StepFrame, RaceStays DEF SeedInv
  <1>1. CASE Enrol(h)
    <2> DEFINE u == request[h].user
    <2>1. /\ u \in Members /\ rows' = [rows EXCEPT ![u] = rows[u] + 1] /\ rows \in [Members -> Nat]
          /\ pc' = [pc EXCEPT ![h] = "done"] /\ Enrols(h) /\ pc[h] = "enrol" /\ created' = created /\ created
      BY <1>1, RequestKinds DEF Enrol, Done, PlaceInv, RoomInv, Enrols
    <2>2. ASSUME NEW g \in Handlers, pc'[g] = "enrol", rows'[request[g].user] > 0
          PROVE  \E f \in Handlers : f # g /\ Race(f, g)'
      <3>1. g # h /\ pc[g] = "enrol" /\ Enrols(g)
        BY <1>0, <2>1, <2>2 DEF PlaceInv
      <3>2. CASE request[g].user = u
        <4>1. h \in met[g]
          BY <2>1, <3>1 DEF MetInv, Open
        <4>2. Race(h, g)
          BY <2>1, <3>1, <3>2, <4>1 DEF Race
        <4> QED BY <1>0, <3>1, <4>2
      <3>3. CASE request[g].user # u
        <4>1. rows'[request[g].user] = rows[request[g].user]
          BY <2>1, <3>1, <3>3, RequestKinds DEF Enrols
        <4>2. \E f \in Handlers : f # g /\ Race(f, g)
          BY <2>2, <3>1, <4>1 DEF RoomInv
        <4> QED BY <1>0, <4>2
      <3> QED BY <3>2, <3>3
    <2>3. ASSUME NEW m \in Members, rows'[m] > 1
          PROVE  \E f, g \in Handlers : f # g /\ Race(f, g)' /\ Enrols(f)' /\ request[f].user = m
      <3>1. CASE rows[m] > 1
        <4>1. PICK f \in Handlers, g \in Handlers : f # g /\ Race(f, g) /\ Enrols(f) /\ request[f].user = m
          BY <3>1 DEF RoomInv
        <4> QED BY <1>0, <4>1
      <3>2. CASE ~(rows[m] > 1)
        <4>1. m = u /\ rows[u] > 0
          BY <2>1, <2>3, <3>2
        <4>2. PICK f \in Handlers : f # h /\ Race(f, h)
          BY <2>1, <4>1 DEF RoomInv
        <4>3. Enrols(f) /\ request[f].user = u
          BY <2>1, <4>2 DEF Race
        <4> QED BY <1>0, <4>1, <4>2, <4>3
      <3> QED BY <3>1, <3>2
    <2>4. \A g \in Handlers : created' /\ Kind(g)' = "room" => pc'[g] \in {"enrol", "done"}
      BY <1>0, <2>1 DEF RoomInv
    <2> HIDE DEF u
    <2> QED BY <1>0, <2>1, <2>2, <2>3, <2>4 DEF RoomInv
  <1>2. CASE ~Enrol(h)
    <2>1. rows' = rows
      BY <1>2 DEF Step, Arrive, LookUp, CountProblems, LookForMember, Insert, Commit, CommitRoom, Lose
    <2>2. /\ created => created'
          /\ created' # created => CommitRoom(h)
          /\ pc'[h] = "enrol" => \/ CommitRoom(h) 
                                 \/ LookForMember(h) /\ created /\ rows[request[h].user] = 0
                                 \/ pc[h] = "enrol"
      BY <1>0, <1>2 DEF Step, Arrive, LookUp, CountProblems, LookForMember, Insert, Commit, CommitRoom, Lose, Done,
         PlaceInv
    <2>3. CommitRoom(h) => ~created /\ Kind(h) = "room" /\ pc'[h] = "enrol" /\ created' = TRUE
      BY <1>0 DEF CommitRoom, RoomInv, PlaceInv
    <2>4. \A g \in Handlers : created' /\ Kind(g)' = "room" => pc'[g] \in {"enrol", "done"}
      <3> SUFFICES ASSUME NEW g \in Handlers, created', Kind(g) = "room" PROVE pc'[g] \in {"enrol", "done"}
        BY <1>0
      <3>1. CASE CommitRoom(h)
        BY <2>3, <3>1 DEF RoomInv
      <3>2. CASE ~CommitRoom(h)
        <4>1. pc[g] \in {"enrol", "done"}
          BY <2>2, <3>2 DEF RoomInv
        <4>2. CASE g = h
          <5>1. pc[h] = "enrol" /\ Lose(h)
            BY <1>2, <3>2, <4>1, <4>2, StepFrame DEF Step, Arrive, LookUp, CountProblems, LookForMember,
                Insert, Commit, CommitRoom
          <5> QED BY <1>0, <4>2, <5>1 DEF Lose, Done
        <4> QED BY <1>0, <4>1, <4>2
      <3> QED BY <3>1, <3>2
    <2>5. ~created' => (\A m \in Members : rows'[m] = 0) /\ \A g \in Handlers : pc'[g] # "enrol"
      <3> SUFFICES ASSUME ~created' PROVE (\A m \in Members : rows'[m] = 0) /\ \A g \in Handlers : pc'[g] # "enrol"
        OBVIOUS
      <3>1. ~created
        BY <2>2
      <3> QED BY <1>0, <2>1, <2>2, <2>3, <3>1 DEF RoomInv
    <2>6. ASSUME NEW g \in Handlers, pc'[g] = "enrol", rows'[request[g].user] > 0
          PROVE  \E f \in Handlers : f # g /\ Race(f, g)'
      <3>1. CASE pc[g] = "enrol"
        <4>1. \E f \in Handlers : f # g /\ Race(f, g)
          BY <2>1, <2>6, <3>1 DEF RoomInv
        <4> QED BY <1>0, <4>1
      <3>2. CASE pc[g] # "enrol"
        <4>1. g = h
          BY <1>0, <2>6, <3>2
        <4>2. CASE LookForMember(h) /\ rows[request[h].user] = 0
          BY <2>1, <2>6, <4>1, <4>2
        <4>3. CASE CommitRoom(h)
          <5>1. request[h].user \in Members
            BY <2>3, <4>3, RequestKinds DEF Enrols
          <5>2. rows[request[h].user] = 0
            BY <2>3, <4>3, <5>1 DEF RoomInv
          <5> QED BY <2>1, <2>6, <4>1, <5>2
        <4> QED BY <2>2, <2>6, <3>2, <4>1, <4>2, <4>3
      <3> QED BY <3>1, <3>2
    <2>7. ASSUME NEW m \in Members, rows'[m] > 1
          PROVE  \E f, g \in Handlers : f # g /\ Race(f, g)' /\ Enrols(f)' /\ request[f].user = m
      <3>1. PICK f \in Handlers, g \in Handlers : f # g /\ Race(f, g) /\ Enrols(f) /\ request[f].user = m
        BY <2>1, <2>7 DEF RoomInv
      <3> QED BY <1>0, <3>1
    <2>8. \A f, g \in Handlers : Kind(f)' = "room" /\ Kind(g)' = "room" => f = g
      BY <1>0 DEF RoomInv
    <2> QED BY <1>0, <2>4, <2>5, <2>6, <2>7, <2>8 DEF RoomInv
  <1> QED BY <1>1, <1>2

\* A 500 comes of a key committed since it was looked up, of one the look-up
\* cannot find, or of two rows.
LEMMA FailureStep ==
    ASSUME SeedInv, RaceInv, NEW h \in Handlers, Step(h)
    PROVE  FailuresAreRaces'
  <1>0. /\ request' = request /\ \A g \in Handlers : g # h => answer'[g] = answer[g]
        /\ \A f, g \in Handlers : Race(f, g) => Race(f, g)'
        /\ \A f \in Handlers : Enrols(f)' <=> Enrols(f)
        /\ \A f, g \in Handlers : Overlooked(f, g) => Overlooked(f, g)'
    <2>1. answer[h] # "ok"
      BY StepFrame DEF RaceInv, PlaceInv
    <2> QED BY <2>1, StepFrame, RaceStays DEF RaceInv, Overlooked
  <1> SUFFICES ASSUME NEW g \in Handlers, answer'[g] = "error"
               PROVE  \/ ~Enrols(g) /\ \E f \in Handlers : Race(f, g) \/ Overlooked(f, g)
                      \/ Enrols(g)  /\ \E e, f \in Handlers : e # f /\ Race(e, f)
                                                              /\ request[e].user = request[g].user
    BY <1>0 DEF FailuresAreRaces
  <1>1. CASE answer[g] = "error"
    BY <1>1 DEF RaceInv, FailuresAreRaces
  <1>2. CASE answer[g] # "error"
    <2>1. g = h
      BY <1>0, <1>2
    <2>2. \/ Insert(h) /\ owner[request[h].keys[pos[h]]] = "committed"
          \/ LookForMember(h) /\ created /\ rows[request[h].user] > 1
      BY <1>2, <2>1 DEF Step, Arrive, LookUp, CountProblems, LookForMember, Insert, Commit, CommitRoom, Enrol,
                        Lose, Done, RaceInv, PlaceInv
    <2>3. CASE Insert(h) /\ owner[request[h].keys[pos[h]]] = "committed"
      <3>1. ~Enrols(h) /\ pc[h] = "insert" /\ pos[h] <= Len(request[h].keys)
        BY <2>3 DEF Insert, RaceInv, PlaceInv, Enrols
      <3> DEFINE k == request[h].keys[pos[h]]
      <3>2. pos[h] \in 1..Len(request[h].keys) /\ k \in Keys /\ k \in ToSet(request[h].keys)
        <4>1. pos[h] \in Nat /\ pos[h] >= 1
          BY DEF SeedInv, RaceInv, PlaceInv
        <4>2. Len(request[h].keys) \in Nat
          BY <3>1, RequestKeys
        <4>3. pos[h] \in 1..Len(request[h].keys)
          BY <3>1, <4>1, <4>2
        <4> HIDE DEF k
        <4>4. \A i \in 1..Len(request[h].keys) :
                 request[h].keys[i] \in Keys /\ request[h].keys[i] \in ToSet(request[h].keys)
          BY <3>1, RequestKeys
        <4> QED BY <4>3, <4>4 DEF k
      <3>3. CASE k \in UuidSlugs
        <4>1. PICK f \in Handlers : ~Enrols(f) /\ answer[f] = "ok" /\ k \in ToSet(request[f].keys)
          BY <2>3, <3>2 DEF RaceInv, CommittedInv
        <4>2. Overlooked(f, h)
          BY <3>2, <3>3, <4>1 DEF Overlooked
        <4> QED BY <2>1, <3>1, <4>2
      <3>4. CASE k \notin UuidSlugs
        <4>1. pos[h] \in Looked(h)
          BY <3>1, <3>2, <3>4 DEF Looked
        <4> QED BY <2>1, <2>3, <3>1, <4>1 DEF RaceInv, LookedInv
      <3> QED BY <3>3, <3>4
    <2>4. CASE LookForMember(h) /\ rows[request[h].user] > 1
      <3>1. Enrols(h) /\ request[h].user \in Members
        BY <2>4, RequestKinds DEF LookForMember, Enrols
      <3>2. PICK e \in Handlers, f \in Handlers : e # f /\ Race(e, f) /\ Enrols(e)
                                                  /\ request[e].user = request[h].user
        BY <2>4, <3>1 DEF RaceInv, RoomInv
      <3> QED BY <2>1, <3>1, <3>2
    <2> QED BY <2>2, <2>3, <2>4
  <1> QED BY <1>1, <1>2

\* Every step keeps the race invariant.
LEMMA NextRace == ASSUME SeedInv, RaceInv, [Next]_vars PROVE RaceInv'
  <1>1. CASE UNCHANGED vars
    <2>1. UNCHANGED <<request, pc, pos, answer, owner, created, rows, met>>
      BY <1>1 DEF vars
    <2>2. (PlaceInv /\ MetInv /\ HoldInv => PlaceInv' /\ MetInv' /\ HoldInv')
      BY <2>1 DEF PlaceInv, MetInv, HoldInv, Enrols, Kind, Open
    <2>3. (LookedInv => LookedInv') /\ (CommittedInv => CommittedInv')
      BY <2>1 DEF LookedInv, Race, Enrols, Kind, Looked, CommittedInv
    <2>4. RoomInv => RoomInv'
      BY <2>1 DEF RoomInv, Race, Enrols, Kind
    <2>5. FailuresAreRaces => FailuresAreRaces'
      BY <2>1 DEF FailuresAreRaces, Race, Enrols, Kind, Overlooked
    <2> QED BY <2>2, <2>3, <2>4, <2>5 DEF RaceInv
  <1>2. ASSUME NEW h \in Handlers, Step(h) PROVE RaceInv'
    BY <1>2, PlaceStep, MetStep, HoldStep, CommittedStep, LookedStep, RoomStep, FailureStep DEF RaceInv
  <1> QED BY <1>1, <1>2 DEF Next, Step

\* The invariants of seeding and of races hold together.
LEMMA RacesInvariant == Spec => [](SeedInv /\ RaceInv)
  <1>1. Init => SeedInv /\ RaceInv
    BY InitSeed, InitRace
  <1>2. SeedInv /\ RaceInv /\ [Next]_vars => (SeedInv /\ RaceInv)'
    BY NextSeed, NextRace
  <1> QED BY <1>1, <1>2, PTL DEF Spec

\* A 500 is the mark of a race, whatever the handlers do and die of: a request
\* that meets no other for its key, its user or its room gets none, unless it
\* repeats the UUID a problem has for its slug.
THEOREM RacesOnly == Spec => []FailuresAreRaces
  <1>1. RaceInv => FailuresAreRaces
    BY DEF RaceInv
  <1> QED BY <1>1, RacesInvariant, PTL

-----------------------------------------------------------------------------
(* Waiting *)

\* A handler that waits and is waited for is further along than who waits for it.
LEMMA WaitsForLater ==
    ASSUME SeedInv, PlaceInv, HoldInv, NEW g \in Handlers, NEW h \in Handlers,
           g \in WaitsFor(h), WaitsFor(g) # {}
    PROVE  pos[g] > pos[h]
  <1>1. /\ pc[h] = "insert" /\ Kind(h) # "room" /\ pos[h] <= Len(request[h].keys)
        /\ owner[request[h].keys[pos[h]]] = g /\ ~Enrols(h)
        /\ pc[g] = "insert" /\ Kind(g) # "room" /\ pos[g] <= Len(request[g].keys) /\ ~Enrols(g)
    BY DEF WaitsFor, PlaceInv, Enrols
  <1>2. /\ pos[h] \in 1..Len(request[h].keys) /\ pos[g] \in Nat /\ Len(request[g].keys) \in Nat
        /\ request[h].keys[pos[h]] \in Keys
    <2>1. pos[h] \in Nat /\ pos[h] >= 1 /\ pos[g] \in Nat
      BY DEF SeedInv, PlaceInv
    <2>2. pos[h] \in 1..Len(request[h].keys)
      BY <1>1, <2>1, RequestKeys
    <2> QED BY <1>1, <2>1, <2>2, RequestKeys
  <1>3. PICK i \in 1..(pos[g] - 1) : i <= Len(request[g].keys) /\ request[g].keys[i] = request[h].keys[pos[h]]
    BY <1>1, <1>2 DEF HoldInv
  <1>4. i \in 1..Len(request[g].keys) /\ i < Len(request[g].keys) /\ i < pos[g]
    BY <1>1, <1>2, <1>3
  <1>5. i = pos[h] \/ Len(request[h].keys) = 1
    <2>1. i = pos[h] \/ Len(request[g].keys) = 1 \/ Len(request[h].keys) = 1
      BY <1>1, <1>2, <1>3, <1>4, KeyOrder
    <2>2. Len(request[g].keys) # 1
      <3> DEFINE n == Len(request[g].keys)
      <3>1. i \in 1..n /\ i < n
        BY <1>4
      <3> HIDE DEF n
      <3>2. n # 1
        BY <3>1
      <3> QED BY <3>2 DEF n
    <2> QED BY <2>1, <2>2
  <1> QED BY <1>2, <1>4, <1>5

\* The positions of handlers that insert are bounded, whatever their number.
LEMMA WaitBound ==
    ASSUME SeedInv, PlaceInv, NEW h \in Handlers, WaitsFor(h) # {}
    PROVE  pos[h] \in Nat /\ pos[h] <= Len(Defaults) + 2 /\ Len(Defaults) \in Nat
  <1>1. pos[h] \in Nat /\ pos[h] <= Len(request[h].keys) /\ ~Enrols(h)
    BY DEF WaitsFor, SeedInv, PlaceInv, Enrols
  <1>2. Len(request[h].keys) \in {1, 2, Len(Defaults)} /\ Len(Defaults) \in Nat
    <2>1. CASE Kind(h) = "register" /\ \E e \in Emails, n \in Usernames : request[h].keys = <<e, n>>
      BY <2>1, DefaultSlugs
    <2>2. CASE Kind(h) = "create" /\ \E s \in Slugs : request[h].keys = <<s>>
      BY <2>2, DefaultSlugs
    <2>3. CASE Kind(h) = "seed" /\ request[h].keys = Defaults
      BY <2>3, DefaultSlugs
    <2> QED BY <1>1, <2>1, <2>2, <2>3, RequestKinds DEF Enrols
  <1> DEFINE n == Len(request[h].keys)
             d == Len(Defaults)
  <1>3. pos[h] \in Nat /\ pos[h] <= n /\ n \in {1, 2, d} /\ d \in Nat
    BY <1>1, <1>2
  <1> HIDE DEF n, d
  <1>4. pos[h] <= d + 2
    BY <1>3
  <1> QED BY <1>3, <1>4 DEF d

\* A set of numbers that is not empty has a least one.
LEMMA LeastNumber ==
    ASSUME NEW T \in SUBSET Nat, T # {}
    PROVE  \E m \in T : \A k \in T : m <= k
  <1> DEFINE R == OpToRel(<, Nat)
  <1>1. IsWellFoundedOn(R, Nat)
    BY NatLessThanWellFounded
  <1>2. \A a, b \in Nat : a < b => <<a, b>> \in R
    BY DEF OpToRel
  <1> HIDE DEF R
  <1>3. PICK m \in T : \A k \in T : ~(<<k, m>> \in R)
    BY <1>1, WFMin
  <1>4. \A k \in T : k \in Nat /\ ~(k < m)
    BY <1>2, <1>3
  <1> QED BY <1>4

\* Of handlers that all wait for each other, one that is furthest along waits
\* for one that is further: there is no such circle.
LEMMA NoCircle == ASSUME SeedInv, PlaceInv, HoldInv PROVE NoCircularWait
  <1> SUFFICES ASSUME NEW S \in SUBSET Handlers, S # {}, \A h \in S : WaitsFor(h) \cap S # {}
               PROVE  FALSE
    BY DEF NoCircularWait
  <1> DEFINE B == Len(Defaults) + 2
             T == {B - pos[h] : h \in S}
  <1>1. B \in Nat /\ \A h \in S : pos[h] \in Nat /\ pos[h] <= B /\ B - pos[h] \in Nat
    <2>1. \A h \in S : pos[h] \in Nat /\ pos[h] <= B /\ B \in Nat
      BY WaitBound
    <2> HIDE DEF B
    <2> QED BY <2>1
  <1>2. T \subseteq Nat /\ T # {}
    BY <1>1
  <1> HIDE DEF B
  <1>4. PICK m \in T : \A k \in T : m <= k
    BY <1>2, LeastNumber
  <1>5. PICK h \in S : m = B - pos[h]
    BY <1>4
  <1>6. PICK g \in S : g \in WaitsFor(h)
    OBVIOUS
  <1>7. pos[g] > pos[h]
    BY <1>6, WaitsForLater
  <1>8. B - pos[g] < B - pos[h]
    BY <1>1, <1>7
  <1>9. B - pos[g] \in T
    OBVIOUS
  <1> HIDE DEF T
  <1>10. m <= B - pos[g]
    BY <1>4, <1>9
  <1> QED BY <1>1, <1>5, <1>8, <1>10

\* INSERTs never wait for each other in a circle, however many handlers insert
\* however many default problems: each takes its keys in the one order.
THEOREM Unentangled == Spec => []NoCircularWait
  <1>1. SeedInv /\ RaceInv => NoCircularWait
    BY NoCircle DEF RaceInv
  <1> QED BY <1>1, RacesInvariant, PTL

-----------------------------------------------------------------------------
(* The rooms that join_room and create_room are about: what the connections of *)
(* one room do (CollaborativeRoom) *)

Msg == [kind : {"joined", "left", "code"}, user : Users, text : Nat]
Sock == [tab : Tabs, client : {"connecting", "open", "closing", "closed"},
         session : {"none", "announced", "live", "gone"}, up : Seq(Nat), down : Seq(Msg)]

\* What the variables of the room hold.
RoomType ==
    /\ user \in [Tabs -> Users]
    /\ socketRef \in [Tabs -> Nat]
    /\ doc \in [Tabs -> Nat]
    /\ members \in [Tabs -> SUBSET Users]
    /\ socks \in Seq(Sock)
    /\ edits \in Nat
    /\ unheard \subseteq Users
    /\ last \in [text : Nat, clean : BOOLEAN, audience : SUBSET Tabs]
    /\ \A t \in Tabs : socketRef[t] # 0 => socketRef[t] \in Of(t)

\* A connection carries messages only while both ends are there for them.
WireInv ==
    \A k \in Sockets :
        /\ socks[k].down # << >> => Subscribed(k) /\ socks[k].client = "open"
        /\ socks[k].up # << >> => socks[k].session \in {"announced", "live"}
        /\ socks[k].client = "connecting" => socks[k].session = "none"
        /\ socks[k].client = "open" => socks[k].session \in {"announced", "live"}

\* A tab that was never in a hurry has one connection that is not closed.
TidyInv ==
    \A t \in Tabs \ rushed : \A j, k \in Of(t) :
        j # k => socks[j].client = "closed" \/ socks[k].client = "closed"

Attached(t) == \E k \in Of(t) : Subscribed(k) /\ socks[k].client = "open"
\* Who may be listed with no word of a departure on its way: whoever is in the
\* room, and whoever's last departure was not published.
Within(ss, u) == \/ \E k \in DOMAIN ss : /\ user[ss[k].tab] = u
                                         /\ ss[k].session \in {"announced", "live"}
                 \/ u \in unheard

\* Presence on the wire: nobody hears of themselves, and behind every arrival
\* comes the departure of whoever is gone, if it was published.
MailInv ==
    \A k \in Sockets : \A i \in DOMAIN socks[k].down :
        LET m == socks[k].down[i]
        IN  /\ m.user # user[socks[k].tab]
            /\ m.kind = "joined" =>
                  \/ Within(socks, m.user)
                  \/ \E j \in DOMAIN socks[k].down : /\ i < j
                                                    /\ socks[k].down[j].kind = "left"
                                                    /\ socks[k].down[j].user = m.user

\* Members listed are others', and whoever lists them hears of them.
ListInv ==
    \A t \in Tabs : /\ user[t] \notin members[t]
                    /\ t \notin stale /\ members[t] # {} => Attached(t)

HasCode(k) == \E i \in DOMAIN socks[k].down : socks[k].down[i].kind = "code"

\* The newest edit is the only document on its way, up or down.
Alone ==
    /\ \A k \in Sockets : \A i \in DOMAIN socks[k].down :
          socks[k].down[i].kind = "code" => socks[k].down[i].text = last.text
    /\ \A k \in Sockets : socks[k].up \in {<< >>, <<last.text>>}
    /\ \A j, k \in Sockets : socks[j].up # << >> /\ socks[k].up # << >> => j = k

\* A tab shows the newest edit, or is being sent it, or listens while another
\* user's session has it to relay.
Due(t) ==
    \/ doc[t] = last.text
    \/ \E k \in Of(t) : HasCode(k)
    \/ Attached(t) /\ \E j \in Sockets : socks[j].up # << >> /\ user[socks[j].tab] # user[t]

\* Where an edit made while no other was on its way is, until all have it.
EditInv == last.clean => Alone /\ \A t \in last.audience : Due(t)

MeetingInv == RoomType /\ WireInv /\ TidyInv /\ NoOrphanSocket
              /\ MailInv /\ ListInv /\ NoGhosts /\ EditInv

-----------------------------------------------------------------------------
(* What the steps do to the connections *)

\* Connections are a sequence: each is one, and its fields are what they should be.
LEMMA SockFields ==
    ASSUME NEW ss \in Seq(Sock), NEW k \in 1..Len(ss)
    PROVE  /\ DOMAIN ss = 1..Len(ss) /\ Len(ss) \in Nat
           /\ ss[k] \in Sock /\ ss[k].tab \in Tabs
           /\ ss[k].client \in {"connecting", "open", "closing", "closed"}
           /\ ss[k].session \in {"none", "announced", "live", "gone"}
           /\ ss[k].up \in Seq(Nat) /\ ss[k].down \in Seq(Msg)
  <1>1. DOMAIN ss = 1..Len(ss) /\ Len(ss) \in Nat /\ ss[k] \in Sock
    OBVIOUS
  <1> QED BY <1>1 DEF Sock

\* A connection replaced by another leaves a sequence of connections.
LEMMA Replaced ==
    ASSUME NEW ss \in Seq(Sock), NEW k \in 1..Len(ss), NEW r \in Sock
    PROVE  /\ [ss EXCEPT ![k] = r] \in Seq(Sock)
           /\ Len([ss EXCEPT ![k] = r]) = Len(ss)
           /\ [ss EXCEPT ![k] = r][k] = r
           /\ \A j \in 1..Len(ss) : j # k => [ss EXCEPT ![k] = r][j] = ss[j]
  OBVIOUS

\* Whether a message of user u reaches the tab at the end of connection k.
Hears(ss, k, u) == ss[k].session = "live" /\ ss[k].client = "open" /\ user[ss[k].tab] # u

\* A publication appends to what each listening connection is to be sent.
LEMMA PublishedShape ==
    ASSUME NEW ss \in Seq(Sock), NEW m \in Msg
    PROVE  /\ Published(ss, m) \in Seq(Sock)
           /\ Len(Published(ss, m)) = Len(ss)
           /\ \A k \in 1..Len(ss) :
                 Published(ss, m)[k] = IF Hears(ss, k, m.user)
                                       THEN [ss[k] EXCEPT !.down = Append(@, m)] ELSE ss[k]
  <1> DEFINE p == Published(ss, m)
             n == Len(ss)
  <1>1. n \in Nat /\ DOMAIN ss = 1..n
    OBVIOUS
  <1>2. p = [k \in 1..n |-> IF Hears(ss, k, m.user)
                            THEN [ss[k] EXCEPT !.down = Append(@, m)] ELSE ss[k]]
    BY <1>1 DEF Published, Hears
  <1>3. \A k \in 1..n : p[k] \in Sock
    <2> SUFFICES ASSUME NEW k \in 1..n PROVE p[k] \in Sock
      OBVIOUS
    <2>1. ss[k] \in Sock /\ ss[k].down \in Seq(Msg)
      BY SockFields
    <2>2. Append(ss[k].down, m) \in Seq(Msg)
      BY <2>1
    <2>3. [ss[k] EXCEPT !.down = Append(@, m)] \in Sock
      BY <2>1, <2>2 DEF Sock
    <2> QED BY <1>2, <2>1, <2>3
  <1> HIDE DEF p
  <1>4. p \in [1..n -> Sock]
    BY <1>2, <1>3
  <1>5. p \in Seq(Sock) /\ Len(p) = n
    BY <1>1, <1>4
  <1> QED BY <1>2, <1>5 DEF p

Cut(s) == [s EXCEPT !.client = "closing", !.down = << >>]

\* A connection whose tab's end goes is cut, the others stay as they are.
LEMMA GoneShape ==
    ASSUME NEW ss \in Seq(Sock), NEW k \in 1..Len(ss)
    PROVE  /\ Gone(ss, k) \in Seq(Sock) /\ Len(Gone(ss, k)) = Len(ss)
           /\ \A j \in 1..Len(ss) : Gone(ss, k)[j] = IF j = k THEN Cut(ss[k]) ELSE ss[j]
  <1>0. << >> \in Seq(Msg) /\ ss[k] \in Sock
    OBVIOUS
  <1>1. Cut(ss[k]) \in Sock
    BY <1>0 DEF Cut, Sock
  <1>2. Gone(ss, k) = [ss EXCEPT ![k] = Cut(ss[k])]
    BY SockFields DEF Gone, Cut, Sock
  <1> QED BY <1>1, <1>2, Replaced

Drops(t, k) == k = socketRef[t] /\ IsOpen(k)

\* disconnectSocket cuts the tab's current connection if it is open.
LEMMA DisconnectedShape ==
    ASSUME RoomType, NEW t \in Tabs
    PROVE  /\ Disconnected(t) \in Seq(Sock) /\ Len(Disconnected(t)) = Len(socks)
           /\ \A k \in 1..Len(socks) :
                 Disconnected(t)[k] = IF Drops(t, k) THEN Cut(socks[k]) ELSE socks[k]
  <1>1. socks \in Seq(Sock) /\ (socketRef[t] # 0 => socketRef[t] \in 1..Len(socks))
    BY DEF RoomType, Of, Sockets
  <1>2. CASE socketRef[t] # 0 /\ IsOpen(socketRef[t])
    BY <1>1, <1>2, GoneShape DEF Disconnected, Drops
  <1>3. CASE ~(socketRef[t] # 0 /\ IsOpen(socketRef[t]))
    BY <1>1, <1>3 DEF Disconnected, Drops
  <1> QED BY <1>2, <1>3

New(t) == [tab |-> t, client |-> "connecting", session |-> "none", up |-> << >>, down |-> << >>]

\* A new connection is added behind what is left of the old ones.
LEMMA ConnectShape ==
    ASSUME RoomType, NEW t \in Tabs, ConnectToRoom(t)
    PROVE  /\ socks' \in Seq(Sock) /\ Len(socks') = Len(socks) + 1
           /\ \A k \in 1..Len(socks) :
                 socks'[k] = IF Drops(t, k) THEN Cut(socks[k]) ELSE socks[k]
           /\ socks'[Len(socks) + 1] = New(t)
  <1> DEFINE d == Disconnected(t)
  <1>1. New(t) \in Sock
    BY DEF New, Sock
  <1>2. socks' = Append(d, New(t))
    BY DEF ConnectToRoom, New
  <1>3. /\ d \in Seq(Sock) /\ Len(d) = Len(socks)
        /\ \A k \in 1..Len(socks) : d[k] = IF Drops(t, k) THEN Cut(socks[k]) ELSE socks[k]
    BY DisconnectedShape
  <1> HIDE DEF d
  <1>4. Len(socks) \in Nat
    BY DEF RoomType
  <1> QED BY <1>1, <1>2, <1>3, <1>4

Sent(s, text) == [s EXCEPT !.up = Append(@, text)]
Sends(t) == t \notin remote /\ socketRef[t] # 0 /\ socks[socketRef[t]].client = "open"

\* An edit goes on the tab's current connection, if it is open.
LEMMA EditShape ==
    ASSUME RoomType, NEW t \in Tabs, Edit(t)
    PROVE  /\ socks' \in Seq(Sock) /\ Len(socks') = Len(socks)
           /\ \A k \in 1..Len(socks) :
                 socks'[k] = IF Sends(t) /\ k = socketRef[t] THEN Sent(socks[k], edits + 1)
                             ELSE socks[k]
  <1> DEFINE k == socketRef[t]
  <1>1. socks \in Seq(Sock) /\ (k # 0 => k \in 1..Len(socks)) /\ edits + 1 \in Nat
    BY DEF RoomType, Of, Sockets
  <1>2. CASE Sends(t)
    <2>1. k \in 1..Len(socks)
      BY <1>1, <1>2 DEF Sends
    <2>2. Append(socks[k].up, edits + 1) \in Seq(Nat)
      BY <1>1, <2>1, SockFields
    <2>3. Sent(socks[k], edits + 1) \in Sock
      BY <1>1, <2>1, <2>2, SockFields DEF Sock, Sent
    <2>4. socks' = [socks EXCEPT ![k] = Sent(socks[k], edits + 1)]
      BY <1>1, <1>2, <2>1, SockFields DEF Edit, Sends, Sent, Sock
    <2> HIDE DEF k
    <2>5. \A j \in 1..Len(socks) : socks'[j] = IF j = k THEN Sent(socks[k], edits + 1) ELSE socks[j]
      BY <1>1, <2>1, <2>3, <2>4, Replaced
    <2>6. socks' \in Seq(Sock) /\ Len(socks') = Len(socks)
      BY <1>1, <2>1, <2>3, <2>4, Replaced
    <2> QED BY <1>2, <2>5, <2>6 DEF k
  <1>3. CASE ~Sends(t)
    BY <1>1, <1>3 DEF Edit, Sends
  <1> QED BY <1>2, <1>3

\* A tab's handling of a close touches that connection only.
LEMMA CloseShape ==
    ASSUME RoomType, NEW k \in Sockets, OnClose(k)
    PROVE  /\ socks' \in Seq(Sock) /\ Len(socks') = Len(socks)
           /\ \A j \in 1..Len(socks) :
                 socks'[j] = IF j = k THEN [socks[k] EXCEPT !.client = "closed"] ELSE socks[j]
  <1>1. socks \in Seq(Sock) /\ k \in 1..Len(socks)
    BY DEF RoomType, Sockets
  <1>2. socks' = [socks EXCEPT ![k] = [socks[k] EXCEPT !.client = "closed"]]
    BY <1>1, SockFields DEF OnClose, Sock
  <1>3. [socks[k] EXCEPT !.client = "closed"] \in Sock
    BY <1>1, SockFields DEF Sock
  <1> QED BY <1>1, <1>2, <1>3, Replaced

\* So does a break.
LEMMA BreakShape ==
    ASSUME RoomType, NEW k \in Sockets, Break(k)
    PROVE  /\ socks' \in Seq(Sock) /\ Len(socks') = Len(socks)
           /\ \A j \in 1..Len(socks) : socks'[j] = IF j = k THEN Cut(socks[k]) ELSE socks[j]
  <1>1. socks \in Seq(Sock) /\ k \in 1..Len(socks)
    BY DEF RoomType, Sockets
  <1> QED BY <1>1, GoneShape DEF Break

\* So does a subscription.
LEMMA SubscribeShape ==
    ASSUME RoomType, NEW k \in Sockets, Subscribe(k)
    PROVE  /\ socks' \in Seq(Sock) /\ Len(socks') = Len(socks)
           /\ \A j \in 1..Len(socks) :
                 socks'[j] = IF j = k THEN [socks[k] EXCEPT !.session = "live"] ELSE socks[j]
  <1>1. socks \in Seq(Sock) /\ k \in 1..Len(socks)
    BY DEF RoomType, Sockets
  <1>2. socks' = [socks EXCEPT ![k] = [socks[k] EXCEPT !.session = "live"]]
    BY <1>1, SockFields DEF Subscribe, Sock
  <1>3. [socks[k] EXCEPT !.session = "live"] \in Sock
    BY <1>1, SockFields DEF Sock
  <1> QED BY <1>1, <1>2, <1>3, Replaced

\* What is sent down goes to the tab in its order.
LEMMA DownShape ==
    ASSUME RoomType, NEW k \in Sockets, RelayDown(k)
    PROVE  /\ socks' \in Seq(Sock) /\ Len(socks') = Len(socks)
           /\ \A j \in 1..Len(socks) :
                 socks'[j] = IF j = k THEN [socks[k] EXCEPT !.down = Tail(@)] ELSE socks[j]
  <1>1. socks \in Seq(Sock) /\ k \in 1..Len(socks)
    BY DEF RoomType, Sockets
  <1>2. socks' = [socks EXCEPT ![k] = [socks[k] EXCEPT !.down = Tail(@)]]
    BY <1>1, SockFields DEF RelayDown, Sock
  <1>3. Tail(socks[k].down) \in Seq(Msg)
    BY <1>1, SockFields DEF RelayDown
  <1>4. [socks[k] EXCEPT !.down = Tail(@)] \in Sock
    BY <1>1, <1>3, SockFields DEF Sock
  <1> QED BY <1>1, <1>2, <1>4, Replaced

Heard(k, m) == IF Hears(socks, k, m.user) THEN [socks[k] EXCEPT !.down = Append(@, m)] ELSE socks[k]

\* The messages that sessions publish are messages, under their tab's user.
LEMMA Messages ==
    ASSUME RoomType, NEW k \in Sockets, NEW text \in Nat, NEW kind \in {"joined", "left", "code"}
    PROVE  /\ Message(kind, socks[k].tab, text) \in Msg
           /\ Message(kind, socks[k].tab, text).kind = kind
           /\ Message(kind, socks[k].tab, text).user = user[socks[k].tab]
           /\ Message(kind, socks[k].tab, text).text = text
  <1>0. socks \in Seq(Sock) /\ k \in 1..Len(socks)
    BY DEF RoomType, Sockets
  <1>1. socks[k].tab \in Tabs
    BY <1>0, SockFields
  <1>2. user[socks[k].tab] \in Users
    BY <1>1 DEF RoomType
  <1> QED BY <1>2 DEF Message, Msg

\* An arrival is heard by all who listen, and opens the connection.
LEMMA AnnounceShape ==
    ASSUME RoomType, NEW k \in Sockets, Announce(k)
    PROVE  /\ socks' \in Seq(Sock) /\ Len(socks') = Len(socks)
           /\ \A j \in 1..Len(socks) :
                 socks'[j] = IF j = k THEN [socks[k] EXCEPT !.session = "announced", !.client = "open"]
                             ELSE Heard(j, Message("joined", socks[k].tab, 0))
  <1> DEFINE m == Message("joined", socks[k].tab, 0)
             p == Published(socks, m)
  <1>1. socks \in Seq(Sock) /\ k \in 1..Len(socks)
    BY DEF RoomType, Sockets
  <1>2. m \in Msg
    BY Messages
  <1>3. socks' = [p EXCEPT ![k].session = "announced", ![k].client = "open"]
    BY DEF Announce
  <1> HIDE DEF m
  <1>4. /\ p \in Seq(Sock) /\ Len(p) = Len(socks)
        /\ \A j \in 1..Len(socks) : p[j] = Heard(j, m)
    BY <1>1, <1>2, PublishedShape DEF Heard
  <1>5. Heard(k, m) = socks[k]
    BY DEF Heard, Hears, Announce
  <1> HIDE DEF p
  <1>6. p[k] = socks[k] /\ k \in 1..Len(p)
    BY <1>1, <1>4, <1>5
  <1>7. socks' = [p EXCEPT ![k] = [socks[k] EXCEPT !.session = "announced", !.client = "open"]]
    BY <1>3, <1>4, <1>6, SockFields DEF Sock
  <1>8. [socks[k] EXCEPT !.session = "announced", !.client = "open"] \in Sock
    BY <1>1, SockFields DEF Sock
  <1> QED BY <1>4, <1>6, <1>7, <1>8, Replaced DEF m

\* A departure is heard by all who listen, and takes along what was not relayed.
LEMMA LeaveShape ==
    ASSUME RoomType, NEW k \in Sockets, Leave(k)
    PROVE  /\ socks' \in Seq(Sock) /\ Len(socks') = Len(socks)
           /\ \A j \in 1..Len(socks) :
                 socks'[j] = IF j = k THEN [socks[k] EXCEPT !.session = "gone", !.up = << >>]
                             ELSE Heard(j, Message("left", socks[k].tab, 0))
  <1> DEFINE m == Message("left", socks[k].tab, 0)
             p == Published(socks, m)
  <1>1. socks \in Seq(Sock) /\ k \in 1..Len(socks)
    BY DEF RoomType, Sockets
  <1>2. m \in Msg
    BY Messages
  <1>3. socks' = [p EXCEPT ![k].session = "gone", ![k].up = << >>]
    BY DEF Leave, Ended
  <1> HIDE DEF m
  <1>4. /\ p \in Seq(Sock) /\ Len(p) = Len(socks)
        /\ \A j \in 1..Len(socks) : p[j] = Heard(j, m)
    BY <1>1, <1>2, PublishedShape DEF Heard
  <1>5. Heard(k, m) = socks[k]
    BY DEF Heard, Hears, Leave, Departed, IsOpen
  <1> HIDE DEF p
  <1>6. p[k] = socks[k] /\ k \in 1..Len(p)
    BY <1>1, <1>4, <1>5
  <1>7. socks' = [p EXCEPT ![k] = [socks[k] EXCEPT !.session = "gone", !.up = << >>]]
    BY <1>3, <1>4, <1>6, SockFields DEF Sock
  <1>8. << >> \in Seq(Nat) /\ socks[k] \in Sock
    BY <1>1
  <1>9. [socks[k] EXCEPT !.session = "gone", !.up = << >>] \in Sock
    BY <1>8 DEF Sock
  <1> QED BY <1>4, <1>6, <1>7, <1>9, Replaced DEF m

\* A document on its way up goes down to all who listen.
LEMMA UpShape ==
    ASSUME RoomType, NEW k \in Sockets, RelayUp(k)
    PROVE  /\ socks' \in Seq(Sock) /\ Len(socks') = Len(socks)
           /\ Head(socks[k].up) \in Nat
           /\ \A j \in 1..Len(socks) :
                 socks'[j] = IF j = k THEN [socks[k] EXCEPT !.up = Tail(@)]
                             ELSE Heard(j, Message("code", socks[k].tab, Head(socks[k].up)))
  <1> DEFINE m == Message("code", socks[k].tab, Head(socks[k].up))
             s == [socks EXCEPT ![k].up = Tail(@)]
             r == [socks[k] EXCEPT !.up = Tail(@)]
  <1>1. socks \in Seq(Sock) /\ k \in 1..Len(socks) /\ socks[k].up \in Seq(Nat) /\ socks[k].up # << >>
    BY SockFields DEF RoomType, Sockets, RelayUp
  <1>2. Head(socks[k].up) \in Nat /\ Tail(socks[k].up) \in Seq(Nat)
    BY <1>1
  <1>3. m \in Msg /\ m.user = user[socks[k].tab]
    BY <1>2, Messages
  <1>4. r \in Sock /\ r.tab = socks[k].tab
    BY <1>1, <1>2, SockFields DEF Sock
  <1>5. s = [socks EXCEPT ![k] = r]
    BY <1>1, SockFields DEF Sock
  <1>6. socks' = Published(s, m)
    BY DEF RelayUp
  <1> HIDE DEF m, r, s
  <1>7. /\ s \in Seq(Sock) /\ Len(s) = Len(socks) /\ s[k] = r
        /\ \A j \in 1..Len(socks) : j # k => s[j] = socks[j]
    BY <1>1, <1>4, <1>5, Replaced
  <1>8a. s \in Seq(Sock) /\ m \in Msg
    BY <1>3, <1>7
  <1>8b. /\ Published(s, m) \in Seq(Sock) /\ Len(Published(s, m)) = Len(s)
         /\ \A j \in 1..Len(s) :
              Published(s, m)[j] = IF Hears(s, j, m.user) THEN [s[j] EXCEPT !.down = Append(@, m)] ELSE s[j]
    BY ONLY <1>8a, PublishedShape
  <1>8. /\ socks' \in Seq(Sock) /\ Len(socks') = Len(socks)
        /\ \A j \in 1..Len(socks) :
              socks'[j] = IF Hears(s, j, m.user) THEN [s[j] EXCEPT !.down = Append(@, m)] ELSE s[j]
    BY <1>6, <1>7, <1>8b
  <1>9. ~Hears(s, k, m.user)
    BY <1>3, <1>4, <1>7 DEF Hears
  <1>10. \A j \in 1..Len(socks) : j # k => socks'[j] = Heard(j, m)
    BY <1>7, <1>8 DEF Hears, Heard
  <1>11. socks'[k] = r
    BY <1>1, <1>7, <1>8, <1>9
  <1> QED BY <1>2, <1>8, <1>10, <1>11 DEF m, r

-----------------------------------------------------------------------------
(* Each step keeps the invariant *)

\* The connections, as positions.
LEMMA SocketsAre == RoomType => /\ Sockets = 1..Len(socks) /\ Len(socks) \in Nat
                                /\ socks \in Seq(Sock)
                                /\ \A k \in Sockets : socks[k] \in Sock
  BY DEF RoomType, Sockets

\* The room is empty at first.
LEMMA InitMeeting == RoomInit => MeetingInv
  <1> SUFFICES ASSUME RoomInit PROVE MeetingInv
    OBVIOUS
  <1>1. socks = << >> /\ Sockets = {}
    BY DEF RoomInit, Sockets
  <1>2. RoomType
    BY <1>1 DEF RoomInit, RoomType
  <1> QED BY <1>1, <1>2 DEF RoomInit, MeetingInv, WireInv, TidyInv, NoOrphanSocket, MailInv, ListInv,
                           NoGhosts, EditInv, Of

\* A connection breaks: its tab is no longer sure of anything.
LEMMA BreakKeeps == ASSUME MeetingInv, NEW k \in Sockets, Break(k) PROVE MeetingInv'
  <1> USE SocketsAre DEF MeetingInv
  <1>1. RoomType
    OBVIOUS
  <1>2. /\ socks' \in Seq(Sock) /\ Len(socks') = Len(socks)
        /\ \A j \in Sockets : socks'[j] = IF j = k THEN Cut(socks[k]) ELSE socks[j]
    BY BreakShape
  <1>3. Sockets' = Sockets
    BY <1>1, <1>2 DEF Sockets
  <1>4. /\ Cut(socks[k]).tab = socks[k].tab /\ Cut(socks[k]).client = "closing"
        /\ Cut(socks[k]).session = socks[k].session
        /\ Cut(socks[k]).up = socks[k].up /\ Cut(socks[k]).down = << >>
    BY <1>1 DEF Cut, Sock
  <1>5. /\ \A j \in Sockets : /\ socks'[j].tab = socks[j].tab
                              /\ socks'[j].session = socks[j].session
                              /\ socks'[j].up = socks[j].up
                              /\ j # k => socks'[j] = socks[j]
        /\ socks'[k].client = "closing" /\ socks'[k].down = << >>
        /\ socks[k].client \in {"connecting", "open"}
    BY <1>2, <1>4 DEF Break, IsOpen
  <1>6. \A t \in Tabs : Of(t)' = Of(t)
    BY <1>3, <1>5 DEF Of
  <1> DEFINE t == socks[k].tab
  <1>7. /\ t \in Tabs /\ k \in Of(t)
        /\ UNCHANGED <<user, socketRef, doc, members, edits, rushed, unheard>>
        /\ stale' = IF members[t] = {} THEN stale ELSE stale \cup {t}
        /\ last' = [last EXCEPT !.audience = @ \ {t}]
    BY <1>1 DEF Break, Detached, tabVars, Of, Sock
  <1> HIDE DEF t
  <1>8. RoomType'
    BY <1>1, <1>2, <1>6, <1>7 DEF RoomType
  <1>9. WireInv'
    BY <1>3, <1>5 DEF WireInv, Subscribed
  <1>10. TidyInv'
    BY <1>5, <1>6, <1>7 DEF TidyInv, Of
  <1>11. NoOrphanSocket'
    BY <1>5, <1>6, <1>7 DEF NoOrphanSocket, IsOpen, Of
  <1>12. MailInv'
    <2>1. \A u : Within(socks, u) => Within(socks', u)
      BY <1>3, <1>5, <1>7 DEF Within, Sockets
    <2> SUFFICES ASSUME NEW j \in Sockets, j # k, NEW i \in DOMAIN socks[j].down
                 PROVE  LET w == socks[j].down[i]
                        IN  /\ w.user # user[socks[j].tab]
                            /\ w.kind = "joined" =>
                                  \/ Within(socks', w.user)
                                  \/ \E l \in DOMAIN socks[j].down :
                                        /\ i < l
                                        /\ socks[j].down[l].kind = "left"
                                        /\ socks[j].down[l].user = w.user
      BY <1>3, <1>5, <1>7 DEF MailInv, Within
    <2> QED BY <2>1 DEF MailInv
  <1>13. ListInv'
    BY <1>5, <1>6, <1>7 DEF ListInv, Attached, Of, Subscribed
  <1>14. NoGhosts'
    <2>1. \A u : Within(socks, u) => Within(socks', u)
      BY <1>3, <1>5, <1>7 DEF Within, Sockets
    <2> SUFFICES ASSUME NEW u \in Tabs \ stale, NEW v \in members[u]
                 PROVE  \/ Within(socks', v)
                        \/ \E j \in Of(u) : \E i \in DOMAIN socks[j].down :
                              socks[j].down[i].kind = "left" /\ socks[j].down[i].user = v
      <3>1. ASSUME NEW u \in Tabs, u \notin stale', NEW v \in members[u] PROVE u \notin stale /\ u # t
        BY <1>7, <3>1
      <3> QED BY <3>1, <1>3, <1>5, <1>6, <1>7 DEF NoGhosts, Within, Sockets, Of
    <2> QED BY <2>1 DEF NoGhosts, Within, Sockets
  <1>15. EditInv'
    <2>1. last'.clean = last.clean /\ last'.text = last.text /\ last'.audience = last.audience \ {t}
      BY <1>1, <1>7 DEF RoomType
    <2>2. Alone => Alone'
      BY <1>3, <1>5, <2>1 DEF Alone
    <2>3. ASSUME NEW u \in last.audience \ {t}, Due(u) PROVE Due(u)'
      <3>1. u \in Tabs /\ Of(u)' = Of(u) /\ k \notin Of(u)
        BY <1>1, <1>6, <1>7 DEF RoomType, Of
      <3>2. \A j \in Of(u) : HasCode(j)' = HasCode(j) /\ socks'[j] = socks[j]
        BY <1>3, <1>5, <3>1 DEF HasCode, Of
      <3>3. Attached(u) => Attached(u)'
        BY <3>1, <3>2 DEF Attached, Subscribed
      <3> QED BY <1>3, <1>5, <1>7, <2>1, <2>3, <3>1, <3>2, <3>3 DEF Due
    <2> QED BY <2>1, <2>2, <2>3 DEF EditInv
  <1> QED BY <1>8, <1>9, <1>10, <1>11, <1>12, <1>13, <1>14, <1>15

\* A tab is told of a close: its current connection may be another by now.
LEMMA CloseKeeps == ASSUME MeetingInv, NEW k \in Sockets, OnClose(k) PROVE MeetingInv'
  <1> USE SocketsAre DEF MeetingInv
  <1>1. RoomType
    OBVIOUS
  <1>2. /\ socks' \in Seq(Sock) /\ Len(socks') = Len(socks)
        /\ \A j \in Sockets : socks'[j] = IF j = k THEN [socks[k] EXCEPT !.client = "closed"] ELSE socks[j]
    BY CloseShape
  <1>3. Sockets' = Sockets
    BY <1>1, <1>2 DEF Sockets
  <1>4. /\ \A j \in Sockets : /\ socks'[j].tab = socks[j].tab
                              /\ socks'[j].session = socks[j].session
                              /\ socks'[j].up = socks[j].up
                              /\ socks'[j].down = socks[j].down
                              /\ j # k => socks'[j] = socks[j]
        /\ socks'[k].client = "closed" /\ socks[k].client = "closing"
    BY <1>1, <1>2 DEF OnClose, Sock
  <1>5. \A u \in Tabs : Of(u)' = Of(u)
    BY <1>3, <1>4 DEF Of
  <1> DEFINE t == socks[k].tab
  <1>6. /\ t \in Tabs /\ k \in Of(t)
        /\ UNCHANGED <<user, doc, members, edits, rushed, stale, unheard, last>>
        /\ socketRef' = [socketRef EXCEPT ![t] = 0]
    BY <1>1 DEF OnClose, history, Of, Sock
  <1> HIDE DEF t
  <1>7. RoomType'
    BY <1>1, <1>2, <1>5, <1>6 DEF RoomType
  <1>8. WireInv'
    BY <1>3, <1>4 DEF WireInv, Subscribed
  <1>9. TidyInv'
    BY <1>4, <1>5, <1>6 DEF TidyInv, Of
  <1>10. NoOrphanSocket'
    <2> SUFFICES ASSUME NEW u \in Tabs \ rushed, NEW j \in Of(u), IsOpen(j)'
                 PROVE  socketRef'[u] = j
      BY <1>5, <1>6 DEF NoOrphanSocket
    <2>1. j \in Sockets /\ j # k /\ IsOpen(j) /\ socketRef[u] = j /\ socks[j].client # "closed"
      BY <1>4 DEF IsOpen, Of, NoOrphanSocket
    <2>2. u # t
      BY <1>4, <1>6, <2>1 DEF TidyInv
    <2> QED BY <1>1, <1>6, <2>1, <2>2 DEF RoomType
  <1>11. MailInv'
    <2>1. \A u : Within(socks, u) => Within(socks', u)
      BY <1>3, <1>4, <1>6 DEF Within, Sockets
    <2> SUFFICES ASSUME NEW j \in Sockets, NEW i \in DOMAIN socks[j].down
                 PROVE  LET w == socks[j].down[i]
                        IN  /\ w.user # user[socks[j].tab]
                            /\ w.kind = "joined" =>
                                  \/ Within(socks', w.user)
                                  \/ \E l \in DOMAIN socks[j].down :
                                        /\ i < l
                                        /\ socks[j].down[l].kind = "left"
                                        /\ socks[j].down[l].user = w.user
      BY <1>3, <1>4, <1>6 DEF MailInv, Within
    <2> QED BY <2>1 DEF MailInv
  <1>12. \A u \in Tabs : Attached(u) => Attached(u)'
    BY <1>4, <1>5 DEF Attached, Of, Subscribed
  <1>13. ListInv'
    BY <1>6, <1>12 DEF ListInv
  <1>14. NoGhosts'
    <2>1. \A u : Within(socks, u) => Within(socks', u)
      BY <1>3, <1>4, <1>6 DEF Within, Sockets
    <2> SUFFICES ASSUME NEW u \in Tabs \ stale, NEW v \in members[u]
                 PROVE  \/ Within(socks', v)
                        \/ \E j \in Of(u) : \E i \in DOMAIN socks[j].down :
                              socks[j].down[i].kind = "left" /\ socks[j].down[i].user = v
      BY <1>3, <1>4, <1>5, <1>6 DEF NoGhosts, Within, Sockets, Of
    <2> QED BY <2>1 DEF NoGhosts, Within, Sockets
  <1>15. EditInv'
    <2>1. Alone => Alone'
      BY <1>3, <1>4, <1>6 DEF Alone
    <2>2. ASSUME NEW u \in last.audience, Due(u) PROVE Due(u)'
      <3>1. u \in Tabs
        BY <1>1 DEF RoomType
      <3>2. \A j \in Of(u) : HasCode(j)' = HasCode(j)
        BY <1>4 DEF HasCode, Of
      <3> QED BY <1>3, <1>4, <1>5, <1>6, <1>12, <2>2, <3>1, <3>2 DEF Due
    <2> QED BY <1>6, <2>1, <2>2 DEF EditInv
  <1> QED BY <1>7, <1>8, <1>9, <1>10, <1>11, <1>13, <1>14, <1>15

\* A session subscribes: from now on it is sent what is published.
LEMMA SubscribeKeeps == ASSUME MeetingInv, NEW k \in Sockets, Subscribe(k) PROVE MeetingInv'
  <1> USE SocketsAre DEF MeetingInv
  <1>1. RoomType
    OBVIOUS
  <1>2. /\ socks' \in Seq(Sock) /\ Len(socks') = Len(socks)
        /\ \A j \in Sockets : socks'[j] = IF j = k THEN [socks[k] EXCEPT !.session = "live"] ELSE socks[j]
    BY SubscribeShape
  <1>3. Sockets' = Sockets
    BY <1>1, <1>2 DEF Sockets
  <1>4. /\ \A j \in Sockets : /\ socks'[j].tab = socks[j].tab
                              /\ socks'[j].client = socks[j].client
                              /\ socks'[j].up = socks[j].up
                              /\ socks'[j].down = socks[j].down
                              /\ j # k => socks'[j] = socks[j]
        /\ socks'[k].session = "live" /\ socks[k].session = "announced"
    BY <1>1, <1>2 DEF Subscribe, Sock
  <1>5. \A u \in Tabs : Of(u)' = Of(u)
    BY <1>3, <1>4 DEF Of
  <1>6. UNCHANGED <<user, socketRef, doc, members, edits, rushed, stale, unheard, last>>
    BY DEF Subscribe, history, tabVars
  <1>7. RoomType'
    BY <1>1, <1>2, <1>5, <1>6 DEF RoomType
  <1>8. WireInv'
    BY <1>3, <1>4 DEF WireInv, Subscribed
  <1>9. TidyInv'
    BY <1>4, <1>5, <1>6 DEF TidyInv, Of
  <1>10. NoOrphanSocket'
    BY <1>4, <1>5, <1>6 DEF NoOrphanSocket, IsOpen, Of
  <1>11. \A u : Within(socks, u) => Within(socks', u)
    BY <1>3, <1>4, <1>6 DEF Within, Sockets
  <1>12. MailInv'
    <2>1. \A u : Within(socks, u) => Within(socks', u)
      BY <1>3, <1>4, <1>6 DEF Within, Sockets
    <2> SUFFICES ASSUME NEW j \in Sockets, NEW i \in DOMAIN socks[j].down
                 PROVE  LET w == socks[j].down[i]
                        IN  /\ w.user # user[socks[j].tab]
                            /\ w.kind = "joined" =>
                                  \/ Within(socks', w.user)
                                  \/ \E l \in DOMAIN socks[j].down :
                                        /\ i < l
                                        /\ socks[j].down[l].kind = "left"
                                        /\ socks[j].down[l].user = w.user
      BY <1>3, <1>4, <1>6 DEF MailInv, Within
    <2> QED BY <2>1 DEF MailInv
  <1>13. \A u \in Tabs : Attached(u) => Attached(u)'
    BY <1>4, <1>5 DEF Attached, Of, Subscribed
  <1>14. ListInv'
    BY <1>6, <1>13 DEF ListInv
  <1>15. NoGhosts'
    <2>1. \A u : Within(socks, u) => Within(socks', u)
      BY <1>3, <1>4, <1>6 DEF Within, Sockets
    <2> SUFFICES ASSUME NEW u \in Tabs \ stale, NEW v \in members[u]
                 PROVE  \/ Within(socks', v)
                        \/ \E j \in Of(u) : \E i \in DOMAIN socks[j].down :
                              socks[j].down[i].kind = "left" /\ socks[j].down[i].user = v
      BY <1>3, <1>4, <1>5, <1>6 DEF NoGhosts, Within, Sockets, Of
    <2> QED BY <2>1 DEF NoGhosts, Within, Sockets
  <1>16. EditInv'
    <2>1. Alone => Alone'
      BY <1>3, <1>4, <1>6 DEF Alone
    <2>2. ASSUME NEW u \in last.audience, Due(u) PROVE Due(u)'
      <3>1. u \in Tabs
        BY <1>1 DEF RoomType
      <3>2. \A j \in Of(u) : HasCode(j)' = HasCode(j)
        BY <1>4 DEF HasCode, Of
      <3> QED BY <1>3, <1>4, <1>5, <1>6, <1>13, <2>2, <3>1, <3>2 DEF Due
    <2> QED BY <1>6, <2>1, <2>2 DEF EditInv
  <1> QED BY <1>7, <1>8, <1>9, <1>10, <1>12, <1>14, <1>15, <1>16

\* The 50 ms after a remote change end: nothing else changes.
LEMMA WindowKeeps == ASSUME MeetingInv, NEW t \in Tabs, RemoteWindowEnds(t) PROVE MeetingInv'
  <1>1. UNCHANGED <<user, socketRef, doc, members, socks, edits, stale, unheard, rushed, last>>
    BY DEF RemoteWindowEnds, history
  <1>2. RoomType' /\ WireInv' /\ TidyInv' /\ NoOrphanSocket'
    BY <1>1 DEF MeetingInv, RoomType, WireInv, TidyInv, NoOrphanSocket, Of, Sockets, IsOpen, Subscribed
  <1>3. MailInv' /\ ListInv' /\ NoGhosts'
    BY <1>1 DEF MeetingInv, MailInv, ListInv, NoGhosts, Attached, Within, Sockets, Of, Sockets, Subscribed
  <1>4. EditInv'
    BY <1>1 DEF MeetingInv, EditInv, Alone, Due, HasCode, Attached, Of, Sockets, Subscribed
  <1> QED BY <1>2, <1>3, <1>4 DEF MeetingInv

\* An edit: nobody is due another document when it is counted on.
LEMMA EditKeeps == ASSUME MeetingInv, NEW t \in Tabs, Edit(t) PROVE MeetingInv'
  <1> USE SocketsAre DEF MeetingInv
  <1>1. RoomType
    OBVIOUS
  <1> DEFINE n == edits + 1
             k == socketRef[t]
  <1>2. /\ socks' \in Seq(Sock) /\ Len(socks') = Len(socks)
        /\ \A j \in Sockets : socks'[j] = IF Sends(t) /\ j = k THEN Sent(socks[k], n) ELSE socks[j]
    BY EditShape
  <1>3. Sockets' = Sockets
    BY <1>1, <1>2 DEF Sockets
  <1>4. \A j \in Sockets : /\ socks'[j].tab = socks[j].tab
                           /\ socks'[j].client = socks[j].client
                           /\ socks'[j].session = socks[j].session
                           /\ socks'[j].down = socks[j].down
                           /\ ~(Sends(t) /\ j = k) => socks'[j].up = socks[j].up
                           /\ Sends(t) /\ j = k => socks'[j].up = Append(socks[j].up, n)
    <2>1. Sends(t) => k \in Sockets
      BY <1>1 DEF Sends, RoomType, Of
    <2> HIDE DEF k, n
    <2>2. ASSUME NEW j \in Sockets
          PROVE  /\ Sent(socks[j], n).tab = socks[j].tab
                 /\ Sent(socks[j], n).client = socks[j].client
                 /\ Sent(socks[j], n).session = socks[j].session
                 /\ Sent(socks[j], n).down = socks[j].down
                 /\ Sent(socks[j], n).up = Append(socks[j].up, n)
      BY <1>1 DEF Sent, Sock
    <2> QED BY <1>2, <2>1, <2>2
  <1>5. \A u \in Tabs : Of(u)' = Of(u)
    BY <1>3, <1>4 DEF Of
  <1>6. /\ UNCHANGED <<user, socketRef, members, rushed, stale, unheard>> /\ n \in Nat /\ edits' = n
        /\ doc' = [doc EXCEPT ![t] = n]
        /\ last' = [text |-> n, clean |-> Sends(t) /\ ~InFlight, audience |-> Audience(t)]
        /\ Sends(t) => k \in Of(t) /\ socks[k].client = "open"
    BY <1>1 DEF Edit, RoomType, Sends
  <1> HIDE DEF n, k
  <1>7. RoomType'
    <2>1. Audience(t) \subseteq Tabs
      BY DEF Audience
    <2>2. last' \in [text : Nat, clean : BOOLEAN, audience : SUBSET Tabs]
      BY <1>6, <2>1
    <2> QED BY <1>1, <1>2, <1>5, <1>6, <2>2 DEF RoomType
  <1>8. WireInv'
    BY <1>3, <1>4, <1>6 DEF WireInv, Subscribed, Of
  <1>9. TidyInv'
    BY <1>4, <1>5, <1>6 DEF TidyInv, Of
  <1>10. NoOrphanSocket'
    BY <1>4, <1>5, <1>6 DEF NoOrphanSocket, IsOpen, Of
  <1>11. MailInv'
    <2>1. \A u : Within(socks, u) => Within(socks', u)
      BY <1>3, <1>4, <1>6 DEF Within, Sockets
    <2> SUFFICES ASSUME NEW j \in Sockets, NEW i \in DOMAIN socks[j].down
                 PROVE  LET w == socks[j].down[i]
                        IN  /\ w.user # user[socks[j].tab]
                            /\ w.kind = "joined" =>
                                  \/ Within(socks', w.user)
                                  \/ \E l \in DOMAIN socks[j].down :
                                        /\ i < l
                                        /\ socks[j].down[l].kind = "left"
                                        /\ socks[j].down[l].user = w.user
      BY <1>3, <1>4, <1>6 DEF MailInv, Within
    <2> QED BY <2>1 DEF MailInv
  <1>12. \A u \in Tabs : Attached(u) => Attached(u)'
    BY <1>4, <1>5 DEF Attached, Of, Subscribed
  <1>13. ListInv'
    BY <1>6, <1>12 DEF ListInv
  <1>14. NoGhosts'
    <2>1. \A u : Within(socks, u) => Within(socks', u)
      BY <1>3, <1>4, <1>6 DEF Within, Sockets
    <2> SUFFICES ASSUME NEW u \in Tabs \ stale, NEW v \in members[u]
                 PROVE  \/ Within(socks', v)
                        \/ \E j \in Of(u) : \E i \in DOMAIN socks[j].down :
                              socks[j].down[i].kind = "left" /\ socks[j].down[i].user = v
      BY <1>3, <1>4, <1>5, <1>6 DEF NoGhosts, Within, Sockets, Of
    <2> QED BY <2>1 DEF NoGhosts, Within, Sockets
  <1>15. EditInv'
    <2> SUFFICES ASSUME Sends(t), ~InFlight PROVE Alone' /\ \A u \in last'.audience : Due(u)'
      BY <1>6 DEF EditInv
    <2>1. last'.text = n /\ last'.audience = Audience(t)
      BY <1>6
    <2>2. \A j \in Sockets : socks[j].up = << >> /\ \A i \in DOMAIN socks[j].down : socks[j].down[i].kind # "code"
      BY DEF InFlight
    <2>3. k \in Sockets /\ socks[k].tab = t /\ socks'[k].up = <<n>>
          /\ \A j \in Sockets : j # k => socks'[j].up = << >>
      BY <1>4, <1>6, <2>2 DEF Of
    <2>4. Alone'
      <3>1. \A j \in Sockets' : \A i \in DOMAIN socks'[j].down : socks'[j].down[i].kind # "code"
        BY <1>3, <1>4, <2>2
      <3>2. \A j \in Sockets' : socks'[j].up = IF j = k THEN <<n>> ELSE << >>
        BY <1>3, <2>3
      <3>3. <<n>> # << >>
        OBVIOUS
      <3> QED BY <2>1, <3>1, <3>2, <3>3 DEF Alone
    <2>5. Due(t)'
      BY <1>1, <1>6, <2>1 DEF Due, RoomType
    <2>6. ASSUME NEW u \in Audience(t), u # t PROVE Due(u)'
      <3>1. u \in Tabs /\ user[u] # user[t] /\ Attached(u)
        BY <2>6 DEF Audience, Attached
      <3> QED BY <1>3, <1>4, <1>6, <1>12, <2>3, <3>1 DEF Due
    <2> QED BY <2>1, <2>4, <2>5, <2>6
  <1> QED BY <1>7, <1>8, <1>9, <1>10, <1>11, <1>13, <1>14, <1>15

\* An old submission is picked: the tab no longer counts among the audience.
LEMMA PickKeeps == ASSUME MeetingInv, NEW t \in Tabs, PickFromHistory(t) PROVE MeetingInv'
  <1> USE DEF MeetingInv
  <1>1. /\ UNCHANGED <<user, socketRef, members, socks, stale, unheard, rushed>>
        /\ edits' = edits + 1 /\ doc' = [doc EXCEPT ![t] = edits + 1]
        /\ last' = [last EXCEPT !.audience = @ \ {t}]
    BY DEF PickFromHistory
  <1>2. RoomType'
    <2>1. edits' \in Nat
      BY <1>1 DEF RoomType
    <2>2. doc' \in [Tabs -> Nat]
      BY <1>1, <2>1 DEF RoomType
    <2>3. last' \in [text : Nat, clean : BOOLEAN, audience : SUBSET Tabs]
      BY <1>1 DEF RoomType
    <2> QED BY <1>1, <2>1, <2>2, <2>3 DEF RoomType, Of, Sockets
  <1>3. WireInv' /\ TidyInv' /\ NoOrphanSocket'
    BY <1>1 DEF WireInv, TidyInv, NoOrphanSocket, Of, Sockets, IsOpen, Subscribed
  <1>4. MailInv' /\ ListInv' /\ NoGhosts'
    BY <1>1 DEF MailInv, ListInv, NoGhosts, Attached, Within, Sockets, Of, Subscribed
  <1>5. EditInv'
    <2>1. last'.clean = last.clean /\ last'.text = last.text /\ last'.audience = last.audience \ {t}
      BY <1>1 DEF RoomType
    <2>2. Alone => Alone'
      BY <1>1, <2>1 DEF Alone, Sockets
    <2>3. ASSUME NEW u \in last.audience \ {t}, Due(u) PROVE Due(u)'
      <3>1. u \in Tabs /\ doc'[u] = doc[u]
        BY <1>1 DEF RoomType
      <3> QED BY <1>1, <2>1, <2>3, <3>1 DEF Due, HasCode, Attached, Of, Sockets, Subscribed
    <2> QED BY <2>1, <2>2, <2>3 DEF EditInv
  <1> QED BY <1>2, <1>3, <1>4, <1>5

\* A cut connection is the tab's end gone, with what was on its way to it.
LEMMA CutFields ==
    ASSUME NEW s \in Sock
    PROVE  /\ Cut(s).tab = s.tab /\ Cut(s).client = "closing" /\ Cut(s).session = s.session
           /\ Cut(s).up = s.up /\ Cut(s).down = << >>
  BY DEF Cut, Sock

\* What the invariant needs of the connections when tab t drops its current one.
LEMMA Dropping ==
    ASSUME MeetingInv, NEW t \in Tabs,
           \A k \in Sockets : socks'[k] = IF Drops(t, k) THEN Cut(socks[k]) ELSE socks[k]
    PROVE  /\ \A k \in Sockets : /\ socks'[k].tab = socks[k].tab
                                 /\ socks'[k].session = socks[k].session
                                 /\ socks'[k].up = socks[k].up
                                 /\ socks'[k] = socks[k] \/ (socks'[k].client = "closing" /\ socks'[k].down = << >>)
                                 /\ socks'[k].client # "closed" => socks[k].client # "closed"
                                 /\ k \notin Of(t) => socks'[k] = socks[k]
                                 /\ Drops(t, k) => socks'[k].client = "closing"
                                 /\ ~Drops(t, k) => socks'[k] = socks[k]
           /\ \A k \in Sockets : Drops(t, k) => k \in Of(t)
  <1> USE SocketsAre DEF MeetingInv
  <1>1. \A k \in Sockets : Drops(t, k) => k \in Of(t) /\ socks[k].client # "closed"
    BY DEF Drops, RoomType, IsOpen, Of
  <1>2. \A k \in Sockets : /\ Cut(socks[k]).tab = socks[k].tab /\ Cut(socks[k]).client = "closing"
                           /\ Cut(socks[k]).session = socks[k].session
                           /\ Cut(socks[k]).up = socks[k].up /\ Cut(socks[k]).down = << >>
    BY CutFields
  <1> QED BY <1>1, <1>2

\* A tab leaves the room: its current connection is cut, its list empty.
LEMMA LeaveRoomKeeps == ASSUME MeetingInv, NEW t \in Tabs, LeaveRoom(t) PROVE MeetingInv'
  <1> USE SocketsAre DEF MeetingInv
  <1>1. RoomType
    OBVIOUS
  <1>2. /\ socks' \in Seq(Sock) /\ Len(socks') = Len(socks)
        /\ \A k \in Sockets : socks'[k] = IF Drops(t, k) THEN Cut(socks[k]) ELSE socks[k]
    BY DisconnectedShape DEF LeaveRoom
  <1>3. Sockets' = Sockets
    BY <1>1, <1>2 DEF Sockets
  <1>4. /\ \A k \in Sockets : /\ socks'[k].tab = socks[k].tab
                              /\ socks'[k].session = socks[k].session
                              /\ socks'[k].up = socks[k].up
                              /\ socks'[k] = socks[k] \/ (socks'[k].client = "closing" /\ socks'[k].down = << >>)
                              /\ socks'[k].client # "closed" => socks[k].client # "closed"
                              /\ k \notin Of(t) => socks'[k] = socks[k]
                              /\ Drops(t, k) => socks'[k].client = "closing"
                              /\ ~Drops(t, k) => socks'[k] = socks[k]
    BY <1>2, Dropping
  <1>5. \A u \in Tabs : Of(u)' = Of(u)
    BY <1>3, <1>4 DEF Of
  <1>6. /\ UNCHANGED <<user, doc, edits, rushed, unheard>>
        /\ socketRef' = [socketRef EXCEPT ![t] = 0] /\ members' = [members EXCEPT ![t] = {}]
        /\ stale' = stale \ {t} /\ last' = [last EXCEPT !.audience = @ \ {t}]
    BY DEF LeaveRoom
  <1>7. RoomType'
    BY <1>1, <1>2, <1>5, <1>6 DEF RoomType
  <1>8. WireInv'
    BY <1>3, <1>4 DEF WireInv, Subscribed
  <1>9. TidyInv'
    BY <1>4, <1>5, <1>6 DEF TidyInv, Of
  <1>10. NoOrphanSocket'
    <2> SUFFICES ASSUME NEW u \in Tabs \ rushed, NEW k \in Of(u), IsOpen(k)'
                 PROVE  socketRef'[u] = k
      BY <1>5, <1>6 DEF NoOrphanSocket
    <2>1. k \in Sockets /\ ~Drops(t, k) /\ IsOpen(k) /\ socketRef[u] = k
      BY <1>4 DEF IsOpen, Of, NoOrphanSocket
    <2> QED BY <1>1, <1>6, <2>1 DEF RoomType, Drops
  <1>11. MailInv'
    <2> SUFFICES ASSUME NEW k \in Sockets, socks'[k] = socks[k]
                 PROVE  \A i \in DOMAIN socks[k].down :
                            LET m == socks[k].down[i]
                            IN  /\ m.user # user[socks[k].tab]
                                /\ m.kind = "joined" =>
                                      \/ Within(socks', m.user)
                                      \/ \E j \in DOMAIN socks[k].down : /\ i < j
                                                    /\ socks[k].down[j].kind = "left"
                                                    /\ socks[k].down[j].user = m.user
      BY <1>3, <1>4, <1>6 DEF MailInv, Within
    <2> QED BY <1>3, <1>4, <1>6 DEF MailInv, Within, Sockets
  <1>12. \A u \in Tabs : u # t /\ Attached(u) => Attached(u)'
    BY <1>4, <1>5 DEF Attached, Of, Subscribed
  <1>13. ListInv'
    BY <1>1, <1>6, <1>12 DEF ListInv, RoomType
  <1>14. NoGhosts'
    <2> SUFFICES ASSUME NEW u \in Tabs \ stale', NEW v \in members'[u]
                 PROVE  \/ \E k \in Sockets : /\ user[socks'[k].tab] = v
                                              /\ socks'[k].session \in {"announced", "live"}
                        \/ \E k \in Of(u) : \E i \in DOMAIN socks'[k].down :
                              socks'[k].down[i].kind = "left" /\ socks'[k].down[i].user = v
                        \/ v \in unheard
      BY <1>3, <1>5, <1>6 DEF NoGhosts
    <2>1. u # t /\ u \notin stale /\ v \in members[u]
      BY <1>1, <1>6 DEF RoomType
    <2>2. \A k \in Of(u) : k \in Sockets /\ socks'[k] = socks[k]
      BY <1>4, <2>1 DEF Of
    <2> QED BY <1>4, <2>1, <2>2 DEF NoGhosts
  <1>15. EditInv'
    <2>1. last'.clean = last.clean /\ last'.text = last.text /\ last'.audience = last.audience \ {t}
      BY <1>1, <1>6 DEF RoomType
    <2>2. Alone => Alone'
      BY <1>3, <1>4, <2>1 DEF Alone
    <2>3. ASSUME NEW u \in last.audience \ {t}, Due(u) PROVE Due(u)'
      <3>1. u \in Tabs /\ Of(u)' = Of(u)
        BY <1>1, <1>5 DEF RoomType
      <3>2. \A k \in Of(u) : HasCode(k)' = HasCode(k)
        BY <1>3, <1>4, <2>3, <3>1 DEF HasCode, Of
      <3> QED BY <1>3, <1>4, <1>6, <1>12, <2>1, <2>3, <3>1, <3>2 DEF Due
    <2> QED BY <2>1, <2>2, <2>3 DEF EditInv
  <1> QED BY <1>7, <1>8, <1>9, <1>10, <1>11, <1>13, <1>14, <1>15

\* A tab goes to a room: a new connection, and what is left of the old ones.
LEMMA ConnectKeeps == ASSUME MeetingInv, NEW t \in Tabs, ConnectToRoom(t) PROVE MeetingInv'
  <1> USE SocketsAre DEF MeetingInv
  <1>1. RoomType
    OBVIOUS
  <1> DEFINE n == Len(socks) + 1
  <1>2. /\ socks' \in Seq(Sock) /\ Len(socks') = Len(socks) + 1
        /\ \A k \in Sockets : socks'[k] = IF Drops(t, k) THEN Cut(socks[k]) ELSE socks[k]
        /\ socks'[n] = New(t)
    BY ConnectShape
  <1>3. Sockets' = Sockets \cup {n} /\ n \notin Sockets /\ n \in Nat /\ n # 0
    BY <1>1, <1>2 DEF Sockets
  <1>4. /\ \A k \in Sockets : /\ socks'[k].tab = socks[k].tab
                              /\ socks'[k].session = socks[k].session
                              /\ socks'[k].up = socks[k].up
                              /\ socks'[k] = socks[k] \/ (socks'[k].client = "closing" /\ socks'[k].down = << >>)
                              /\ socks'[k].client # "closed" => socks[k].client # "closed"
                              /\ k \notin Of(t) => socks'[k] = socks[k]
                              /\ Drops(t, k) => socks'[k].client = "closing"
                              /\ ~Drops(t, k) => socks'[k] = socks[k]
    BY <1>2, Dropping
  <1> HIDE DEF n
  <1>5. /\ socks'[n].tab = t /\ socks'[n].client = "connecting" /\ socks'[n].session = "none"
        /\ socks'[n].up = << >> /\ socks'[n].down = << >>
    BY <1>2 DEF New
  <1>6. /\ \A u \in Tabs : u # t => Of(u)' = Of(u)
        /\ Of(t)' = Of(t) \cup {n} /\ n \notin Of(t)
    BY <1>3, <1>4, <1>5 DEF Of
  <1>7. /\ UNCHANGED <<user, members, edits, unheard>>
        /\ socketRef' = [socketRef EXCEPT ![t] = n]
        /\ \E text \in {0, doc[t]} : doc' = [doc EXCEPT ![t] = text]
        /\ rushed' = IF \E k \in Of(t) : socks[k].client # "closed" THEN rushed \cup {t} ELSE rushed
        /\ stale' = IF members[t] = {} THEN stale ELSE stale \cup {t}
        /\ last' = [last EXCEPT !.audience = @ \ {t}]
    BY DEF ConnectToRoom, Detached, n
  <1>8. RoomType'
    <2>1. doc' \in [Tabs -> Nat] /\ socketRef' \in [Tabs -> Nat]
      BY <1>1, <1>3, <1>7 DEF RoomType
    <2>2. \A u \in Tabs : socketRef'[u] # 0 => socketRef'[u] \in Of(u)'
      BY <1>1, <1>6, <1>7 DEF RoomType
    <2>3. last' \in [text : Nat, clean : BOOLEAN, audience : SUBSET Tabs]
      BY <1>1, <1>7 DEF RoomType
    <2> QED BY <1>1, <1>2, <1>7, <2>1, <2>2, <2>3 DEF RoomType
  <1>9. WireInv'
    BY <1>3, <1>4, <1>5 DEF WireInv, Subscribed
  <1>10. t \notin rushed' => \A k \in Of(t) : socks'[k].client = "closed"
    BY <1>4, <1>7 DEF Of, Drops, IsOpen
  <1>11. TidyInv'
    <2> SUFFICES ASSUME NEW u \in Tabs \ rushed', NEW j \in Of(u)', NEW k \in Of(u)', j # k
                 PROVE  socks'[j].client = "closed" \/ socks'[k].client = "closed"
      BY DEF TidyInv
    <2>1. CASE u = t
      BY <1>6, <1>10, <2>1
    <2>2. CASE u # t
      BY <1>4, <1>6, <1>7, <2>2 DEF TidyInv, Of
    <2> QED BY <2>1, <2>2
  <1>12. NoOrphanSocket'
    <2> SUFFICES ASSUME NEW u \in Tabs \ rushed', NEW k \in Of(u)', IsOpen(k)'
                 PROVE  socketRef'[u] = k
      BY DEF NoOrphanSocket
    <2>1. CASE u = t
      BY <1>1, <1>6, <1>7, <1>10, <2>1 DEF RoomType, IsOpen
    <2>2. CASE u # t
      BY <1>1, <1>4, <1>6, <1>7, <2>2 DEF RoomType, NoOrphanSocket, Of, IsOpen
    <2> QED BY <2>1, <2>2
  <1>13. \A u : Within(socks, u) => Within(socks', u)
    BY <1>3, <1>4, <1>7 DEF Within, Sockets
  <1>14. MailInv'
    <2> SUFFICES ASSUME NEW k \in Sockets, socks'[k] = socks[k]
                 PROVE  \A i \in DOMAIN socks[k].down :
                            LET m == socks[k].down[i]
                            IN  /\ m.user # user[socks[k].tab]
                                /\ m.kind = "joined" =>
                                      \/ Within(socks', m.user)
                                      \/ \E j \in DOMAIN socks[k].down : /\ i < j
                                                    /\ socks[k].down[j].kind = "left"
                                                    /\ socks[k].down[j].user = m.user
      BY <1>3, <1>4, <1>5, <1>7 DEF MailInv, Within
    <2> QED BY <1>13 DEF MailInv
  <1>15. \A u \in Tabs : u # t /\ Attached(u) => Attached(u)'
    BY <1>4, <1>6 DEF Attached, Of, Subscribed
  <1>16. ListInv'
    BY <1>1, <1>7, <1>15 DEF ListInv, RoomType
  <1>17. NoGhosts'
    <2> SUFFICES ASSUME NEW u \in Tabs \ stale', NEW v \in members'[u]
                 PROVE  \/ \E k \in Sockets : /\ user[socks'[k].tab] = v
                                              /\ socks'[k].session \in {"announced", "live"}
                        \/ \E k \in Of(u) : \E i \in DOMAIN socks'[k].down :
                              socks'[k].down[i].kind = "left" /\ socks'[k].down[i].user = v
                        \/ v \in unheard
      BY <1>3, <1>6, <1>7 DEF NoGhosts
    <2>1. u # t /\ u \notin stale /\ v \in members[u]
      BY <1>1, <1>7 DEF RoomType
    <2>2. \A k \in Of(u) : k \in Sockets /\ socks'[k] = socks[k]
      BY <1>4, <2>1 DEF Of
    <2> QED BY <1>4, <2>1, <2>2 DEF NoGhosts
  <1>18. EditInv'
    <2>1. last'.clean = last.clean /\ last'.text = last.text /\ last'.audience = last.audience \ {t}
      BY <1>1, <1>7 DEF RoomType
    <2>2. Alone => Alone'
      BY <1>3, <1>4, <1>5, <2>1 DEF Alone
    <2>3. ASSUME NEW u \in last.audience \ {t}, Due(u) PROVE Due(u)'
      <3>1. u \in Tabs /\ u # t /\ Of(u)' = Of(u)
        BY <1>1, <1>6 DEF RoomType
      <3>2. \A k \in Of(u) : HasCode(k)' = HasCode(k)
        BY <1>3, <1>4, <2>3, <3>1 DEF HasCode, Of
      <3>3. doc'[u] = doc[u]
        BY <1>1, <1>7, <3>1 DEF RoomType
      <3> QED BY <1>3, <1>4, <1>7, <1>15, <2>1, <2>3, <3>1, <3>2, <3>3 DEF Due
    <2> QED BY <2>1, <2>2, <2>3 DEF EditInv
  <1> QED BY <1>8, <1>9, <1>11, <1>12, <1>14, <1>16, <1>17, <1>18

\* A connection that hears a message has it behind those it had; nothing else
\* of it changes.
LEMMA HeardFields ==
    ASSUME RoomType, NEW m \in Msg, NEW k \in Sockets
    PROVE  LET h == Heard(k, m)
               end == Len(socks[k].down) + 1
           IN  /\ h.tab = socks[k].tab /\ h.client = socks[k].client
               /\ h.session = socks[k].session /\ h.up = socks[k].up
               /\ \A i \in DOMAIN socks[k].down : i \in DOMAIN h.down /\ h.down[i] = socks[k].down[i]
               /\ \A i \in DOMAIN h.down :
                     i \notin DOMAIN socks[k].down => Hears(socks, k, m.user) /\ h.down[i] = m
               /\ Hears(socks, k, m.user) =>
                     /\ end \in DOMAIN h.down /\ h.down[end] = m
                     /\ \A i \in DOMAIN socks[k].down : i < end
               /\ h.down # << >> => socks[k].down # << >> \/ Hears(socks, k, m.user)
  <1> DEFINE d == socks[k].down
             h == Heard(k, m)
  <1>1. socks[k] \in Sock /\ d \in Seq(Msg)
    BY SocketsAre DEF Sock
  <1>2. CASE Hears(socks, k, m.user)
    <2>1. h = [socks[k] EXCEPT !.down = Append(d, m)]
      BY <1>2 DEF Heard
    <2>2. /\ h.tab = socks[k].tab /\ h.client = socks[k].client
          /\ h.session = socks[k].session /\ h.up = socks[k].up /\ h.down = Append(d, m)
      BY <1>1, <2>1 DEF Sock
    <2> HIDE DEF h, d
    <2>3. /\ DOMAIN Append(d, m) = 1..(Len(d) + 1) /\ DOMAIN d = 1..Len(d) /\ Len(d) \in Nat
          /\ Append(d, m)[Len(d) + 1] = m /\ \A i \in 1..Len(d) : Append(d, m)[i] = d[i]
      BY <1>1
    <2> QED BY <1>2, <2>2, <2>3 DEF h, d
  <1>3. CASE ~Hears(socks, k, m.user)
    BY <1>3 DEF Heard
  <1> QED BY <1>2, <1>3

\* What a publication over the room does to all connections but its own.
LEMMA Hearing ==
    ASSUME MeetingInv, NEW k \in Sockets, NEW m \in Msg,
           \A j \in Sockets : j # k => socks'[j] = Heard(j, m)
    PROVE  \A j \in Sockets : j # k =>
              /\ socks'[j].tab = socks[j].tab /\ socks'[j].client = socks[j].client
              /\ socks'[j].session = socks[j].session /\ socks'[j].up = socks[j].up
              /\ \A i \in DOMAIN socks[j].down :
                    i \in DOMAIN socks'[j].down /\ socks'[j].down[i] = socks[j].down[i]
              /\ \A i \in DOMAIN socks'[j].down :
                    i \notin DOMAIN socks[j].down =>
                        Hears(socks, j, m.user) /\ socks'[j].down[i] = m
              /\ Hears(socks, j, m.user) =>
                    \E l \in DOMAIN socks'[j].down :
                        socks'[j].down[l] = m /\ \A i \in DOMAIN socks[j].down : i < l
              /\ socks'[j].down # << >> => socks[j].down # << >> \/ Hears(socks, j, m.user)
  BY HeardFields DEF MeetingInv

\* A session announces its tab: it is present from here on.
LEMMA AnnounceKeeps == ASSUME MeetingInv, NEW k \in Sockets, Announce(k) PROVE MeetingInv'
  <1> USE SocketsAre DEF MeetingInv
  <1>1. RoomType
    OBVIOUS
  <1> DEFINE m == Message("joined", socks[k].tab, 0)
  <1>2. /\ socks' \in Seq(Sock) /\ Len(socks') = Len(socks)
        /\ \A j \in Sockets :
              socks'[j] = IF j = k THEN [socks[k] EXCEPT !.session = "announced", !.client = "open"]
                          ELSE Heard(j, m)
    BY AnnounceShape
  <1>3. Sockets' = Sockets
    BY <1>1, <1>2 DEF Sockets
  <1>4. m \in Msg /\ m.kind = "joined" /\ m.user = user[socks[k].tab]
    <2>1. 0 \in Nat /\ "joined" \in {"joined", "left", "code"}
      OBVIOUS
    <2>2. RoomType /\ k \in Sockets
      BY <1>1
    <2> QED BY ONLY <2>1, <2>2, Messages
  <1> HIDE DEF m
  <1>5. \A j \in Sockets : j # k =>
           /\ socks'[j].tab = socks[j].tab /\ socks'[j].client = socks[j].client
           /\ socks'[j].session = socks[j].session /\ socks'[j].up = socks[j].up
           /\ \A i \in DOMAIN socks[j].down :
                 i \in DOMAIN socks'[j].down /\ socks'[j].down[i] = socks[j].down[i]
           /\ \A i \in DOMAIN socks'[j].down :
                 i \notin DOMAIN socks[j].down =>
                     Hears(socks, j, m.user) /\ socks'[j].down[i] = m
           /\ socks'[j].down # << >> => socks[j].down # << >> \/ Hears(socks, j, m.user)
    BY <1>2, <1>4, Hearing
  <1>6. /\ socks'[k].tab = socks[k].tab /\ socks'[k].client = "open" /\ socks'[k].session = "announced"
        /\ socks'[k].up = socks[k].up /\ socks'[k].down = socks[k].down
    BY <1>1, <1>2 DEF Sock
  <1>7. socks[k].client = "connecting" /\ socks[k].session = "none" /\ socks[k].down = << >>
    BY DEF Announce, WireInv
  <1>8. \A u \in Tabs : Of(u)' = Of(u)
    BY <1>3, <1>5, <1>6 DEF Of
  <1>9. UNCHANGED <<user, socketRef, doc, members, edits, rushed, stale, unheard, last>>
    BY DEF Announce, history, tabVars
  <1>10. RoomType'
    BY <1>1, <1>2, <1>8, <1>9 DEF RoomType
  <1>11. WireInv'
    BY <1>3, <1>5, <1>6, <1>7 DEF WireInv, Subscribed, Hears
  <1>12. \A j \in Sockets : socks'[j].client = "closed" <=> socks[j].client = "closed"
    BY <1>5, <1>6, <1>7
  <1>13. TidyInv'
    BY <1>8, <1>9, <1>12 DEF TidyInv, Of
  <1>14. \A j \in Sockets : IsOpen(j)' <=> IsOpen(j)
    BY <1>5, <1>6, <1>7 DEF IsOpen
  <1>15. NoOrphanSocket'
    BY <1>8, <1>9, <1>14 DEF NoOrphanSocket, Of
  <1>16. \A u : Within(socks, u) => Within(socks', u)
    BY <1>3, <1>5, <1>6, <1>7, <1>9 DEF Within, Sockets
  <1>17. Within(socks', m.user)
    BY <1>3, <1>4, <1>6, <1>9 DEF Within, Sockets
  <1>18. MailInv'
    <2> SUFFICES ASSUME NEW j \in Sockets, j # k, NEW i \in DOMAIN socks'[j].down
                 PROVE  LET w == socks'[j].down[i]
                        IN  /\ w.user # user[socks'[j].tab]
                            /\ w.kind = "joined" =>
                                  \/ Within(socks', w.user)
                                  \/ \E l \in DOMAIN socks'[j].down :
                                        /\ i < l
                                        /\ socks'[j].down[l].kind = "left"
                                        /\ socks'[j].down[l].user = w.user
      BY <1>3, <1>6, <1>7, <1>9 DEF MailInv, Within
    <2>1. CASE i \in DOMAIN socks[j].down
      BY <1>5, <1>16, <2>1 DEF MailInv
    <2>2. CASE i \notin DOMAIN socks[j].down
      BY <1>5, <1>17, <2>2 DEF Hears
    <2> QED BY <2>1, <2>2
  <1>19. \A u \in Tabs : Attached(u) => Attached(u)'
    BY <1>5, <1>7, <1>8 DEF Attached, Of, Subscribed
  <1>20. ListInv'
    BY <1>9, <1>19 DEF ListInv
  <1>21. NoGhosts'
    <2> SUFFICES ASSUME NEW u \in Tabs \ stale, NEW v \in members[u]
                 PROVE  \/ Within(socks', v)
                        \/ \E j \in Of(u) : \E i \in DOMAIN socks'[j].down :
                              socks'[j].down[i].kind = "left" /\ socks'[j].down[i].user = v
      BY <1>3, <1>8, <1>9 DEF NoGhosts, Within, Sockets
    <2>1. \/ Within(socks, v)
          \/ \E j \in Of(u) : \E i \in DOMAIN socks[j].down :
                socks[j].down[i].kind = "left" /\ socks[j].down[i].user = v
      BY DEF NoGhosts, Within, Sockets
    <2> QED BY <1>5, <1>7, <1>16, <2>1 DEF Of
  <1>22. EditInv'
    <2>1. Alone => Alone'
      <3> SUFFICES ASSUME Alone PROVE Alone'
        OBVIOUS
      <3>1. \A j \in Sockets : socks'[j].up = socks[j].up
        BY <1>5, <1>6
      <3>2. ASSUME NEW j \in Sockets, NEW i \in DOMAIN socks'[j].down, socks'[j].down[i].kind = "code"
            PROVE  socks'[j].down[i].text = last.text
        BY <1>4, <1>5, <1>6, <1>7, <3>2 DEF Alone
      <3> QED BY <1>3, <1>9, <3>1, <3>2 DEF Alone
    <2>2. ASSUME NEW u \in last.audience, Due(u) PROVE Due(u)'
      <3>1. u \in Tabs
        BY <1>1 DEF RoomType
      <3>2. \A j \in Of(u) : HasCode(j) => HasCode(j)'
        BY <1>5, <1>6 DEF HasCode, Of
      <3>3. \A j \in Sockets : socks'[j].up = socks[j].up /\ socks'[j].tab = socks[j].tab
        BY <1>5, <1>6
      <3> QED BY <1>3, <1>8, <1>9, <1>19, <2>2, <3>1, <3>2, <3>3 DEF Due
    <2> QED BY <1>9, <2>1, <2>2 DEF EditInv
  <1> QED BY <1>10, <1>11, <1>13, <1>15, <1>18, <1>20, <1>21, <1>22

\* A session ends: those who listed its user have heard of it, or will.
LEMMA LeaveKeeps == ASSUME MeetingInv, NEW k \in Sockets, Leave(k) PROVE MeetingInv'
  <1> USE SocketsAre DEF MeetingInv
  <1>1. RoomType
    OBVIOUS
  <1> DEFINE m == Message("left", socks[k].tab, 0)
  <1>2. /\ socks' \in Seq(Sock) /\ Len(socks') = Len(socks)
        /\ \A j \in Sockets :
              socks'[j] = IF j = k THEN [socks[k] EXCEPT !.session = "gone", !.up = << >>]
                          ELSE Heard(j, m)
    BY LeaveShape
  <1>3. Sockets' = Sockets
    BY <1>1, <1>2 DEF Sockets
  <1>4. m \in Msg /\ m.kind = "left" /\ m.user = user[socks[k].tab]
    <2>1. 0 \in Nat /\ "left" \in {"joined", "left", "code"}
      OBVIOUS
    <2>2. RoomType /\ k \in Sockets
      BY <1>1
    <2> QED BY ONLY <2>1, <2>2, Messages
  <1> HIDE DEF m
  <1>5. \A j \in Sockets : j # k =>
           /\ socks'[j].tab = socks[j].tab /\ socks'[j].client = socks[j].client
           /\ socks'[j].session = socks[j].session /\ socks'[j].up = socks[j].up
           /\ \A i \in DOMAIN socks[j].down :
                 i \in DOMAIN socks'[j].down /\ socks'[j].down[i] = socks[j].down[i]
           /\ \A i \in DOMAIN socks'[j].down :
                 i \notin DOMAIN socks[j].down =>
                     Hears(socks, j, m.user) /\ socks'[j].down[i] = m
           /\ Hears(socks, j, m.user) =>
                 \E l \in DOMAIN socks'[j].down :
                     socks'[j].down[l] = m /\ \A i \in DOMAIN socks[j].down : i < l
           /\ socks'[j].down # << >> => socks[j].down # << >> \/ Hears(socks, j, m.user)
    BY <1>2, <1>4, Hearing
  <1>6. /\ socks'[k].tab = socks[k].tab /\ socks'[k].client = socks[k].client /\ socks'[k].session = "gone"
        /\ socks'[k].up = << >> /\ socks'[k].down = socks[k].down
    BY <1>1, <1>2 DEF Sock
  <1>7. /\ socks[k].client \in {"closing", "closed"} /\ socks[k].session = "live"
        /\ socks[k].down = << >>
    BY <1>1 DEF Leave, Departed, WireInv, Subscribed, IsOpen, Sock
  <1>8. \A u \in Tabs : Of(u)' = Of(u)
    BY <1>3, <1>5, <1>6 DEF Of
  <1>9. /\ UNCHANGED <<user, socketRef, doc, members, edits, rushed, stale>>
        /\ last' = [last EXCEPT !.clean = @ /\ socks[k].up = << >>]
        /\ unheard' = unheard \ {m.user}
    BY <1>4 DEF Leave, Departed, tabVars
  <1>10. RoomType'
    BY <1>1, <1>2, <1>8, <1>9 DEF RoomType
  <1>11. WireInv'
    BY <1>3, <1>5, <1>6, <1>7 DEF WireInv, Subscribed, Hears
  <1>12. \A j \in Sockets : socks'[j].client = "closed" <=> socks[j].client = "closed"
    BY <1>5, <1>6, <1>7
  <1>13. TidyInv'
    BY <1>8, <1>9, <1>12 DEF TidyInv, Of
  <1>14. \A j \in Sockets : IsOpen(j)' <=> IsOpen(j)
    BY <1>5, <1>6, <1>7 DEF IsOpen
  <1>15. NoOrphanSocket'
    BY <1>8, <1>9, <1>14 DEF NoOrphanSocket, Of
  <1> DEFINE After(u) == \/ \E j \in Sockets : /\ user[socks'[j].tab] = u
                                              /\ socks'[j].session \in {"announced", "live"}
                         \/ u \in unheard'
  <1>16. \A u : Within(socks, u) => After(u) \/ u = m.user
    BY <1>3, <1>4, <1>5, <1>9 DEF Within, Sockets
  <1>17. \A j \in Sockets : socks[j].session = "live" /\ socks[j].client = "open" => j # k
    BY <1>7
  <1>18. MailInv'
    <2> SUFFICES ASSUME NEW j \in Sockets, j # k, NEW i \in DOMAIN socks'[j].down
                 PROVE  LET w == socks'[j].down[i]
                        IN  /\ w.user # user[socks'[j].tab]
                            /\ w.kind = "joined" =>
                                  \/ After(w.user)
                                  \/ \E l \in DOMAIN socks'[j].down :
                                        /\ i < l
                                        /\ socks'[j].down[l].kind = "left"
                                        /\ socks'[j].down[l].user = w.user
      BY <1>3, <1>6, <1>7, <1>9 DEF MailInv, Within, Sockets
    <2>1. CASE i \in DOMAIN socks[j].down
      <3> DEFINE w == socks[j].down[i]
      <3>1. /\ socks'[j].down[i] = w /\ socks'[j].tab = socks[j].tab
            /\ w.user # user[socks[j].tab]
            /\ w.kind = "joined" =>
                  \/ Within(socks, w.user)
                  \/ \E l \in DOMAIN socks[j].down : /\ i < l
                                                    /\ socks[j].down[l].kind = "left"
                                                    /\ socks[j].down[l].user = w.user
        BY <1>5, <2>1 DEF MailInv
      <3>2. w.user = m.user => Hears(socks, j, m.user)
        BY <2>1, <3>1 DEF WireInv, Hears, Subscribed
      <3> HIDE DEF w
      <3>3. w.user = m.user => \E l \in DOMAIN socks'[j].down :
                /\ i < l /\ socks'[j].down[l].kind = "left" /\ socks'[j].down[l].user = w.user
        BY <1>4, <1>5, <2>1, <3>2
      <3> QED BY <1>5, <1>16, <3>1, <3>3
    <2>2. CASE i \notin DOMAIN socks[j].down
      BY <1>4, <1>5, <2>2 DEF Hears
    <2> QED BY <2>1, <2>2
  <1>19. \A u \in Tabs : Attached(u) => Attached(u)'
    BY <1>5, <1>7, <1>8 DEF Attached, Of, Subscribed
  <1>20. ListInv'
    BY <1>9, <1>19 DEF ListInv
  <1>21. NoGhosts'
    <2> SUFFICES ASSUME NEW u \in Tabs \ stale, NEW v \in members[u]
                 PROVE  \/ After(v)
                        \/ \E j \in Of(u) : \E i \in DOMAIN socks'[j].down :
                              socks'[j].down[i].kind = "left" /\ socks'[j].down[i].user = v
      BY <1>3, <1>8, <1>9 DEF NoGhosts, Within, Sockets
    <2>1. \/ Within(socks, v)
          \/ \E j \in Of(u) : \E i \in DOMAIN socks[j].down :
                socks[j].down[i].kind = "left" /\ socks[j].down[i].user = v
      BY DEF NoGhosts, Within, Sockets
    <2>2. CASE v = m.user
      <3>1. PICK j \in Of(u) : Subscribed(j) /\ socks[j].client = "open"
        BY DEF ListInv, Attached
      <3>2. j \in Sockets /\ socks[j].tab = u /\ user[u] # v /\ j # k
        BY <1>17, <3>1 DEF Of, Subscribed, ListInv
      <3>3. Hears(socks, j, m.user)
        BY <2>2, <3>1, <3>2 DEF Hears, Subscribed
      <3> QED BY <1>4, <1>5, <2>2, <3>2, <3>3
    <2> QED BY <1>5, <1>7, <1>16, <2>1, <2>2 DEF Of
  <1>22. EditInv'
    <2>1. /\ last'.text = last.text /\ last'.audience = last.audience
          /\ last'.clean => last.clean /\ socks[k].up = << >>
      BY <1>1, <1>9 DEF RoomType
    <2> SUFFICES ASSUME last.clean, socks[k].up = << >> PROVE Alone' /\ \A u \in last.audience : Due(u)'
      BY <2>1 DEF EditInv
    <2>2. Alone /\ \A u \in last.audience : Due(u)
      BY DEF EditInv
    <2>3. \A j \in Sockets : socks'[j].up = socks[j].up /\ socks'[j].tab = socks[j].tab
      BY <1>5, <1>6
    <2>4. Alone'
      <3>1. ASSUME NEW j \in Sockets, NEW i \in DOMAIN socks'[j].down, socks'[j].down[i].kind = "code"
            PROVE  socks'[j].down[i].text = last.text
        BY <1>4, <1>5, <1>6, <1>7, <2>2, <3>1 DEF Alone
      <3> QED BY <1>3, <2>1, <2>2, <2>3, <3>1 DEF Alone
    <2>5. ASSUME NEW u \in last.audience, Due(u) PROVE Due(u)'
      <3>1. u \in Tabs
        BY <1>1 DEF RoomType
      <3>2. \A j \in Of(u) : HasCode(j) => HasCode(j)'
        BY <1>5, <1>6 DEF HasCode, Of
      <3> QED BY <1>3, <1>8, <1>9, <1>19, <2>1, <2>3, <2>5, <3>1, <3>2 DEF Due
    <2> QED BY <2>2, <2>4, <2>5
  <1> QED BY <1>10, <1>11, <1>13, <1>15, <1>18, <1>20, <1>21, <1>22

\* A session ends that nobody hears of: its user is among the unheard.
LEMMA UnheardKeeps == ASSUME MeetingInv, NEW k \in Sockets, LeaveUnheard(k) PROVE MeetingInv'
  <1> USE SocketsAre DEF MeetingInv
  <1>1. RoomType
    OBVIOUS
  <1> DEFINE r == [socks[k] EXCEPT !.session = "gone", !.up = << >>]
             v == user[socks[k].tab]
  <1>2. /\ socks' \in Seq(Sock) /\ Len(socks') = Len(socks)
        /\ \A j \in Sockets : socks'[j] = IF j = k THEN r ELSE socks[j]
    <2>1. << >> \in Seq(Nat) /\ socks[k] \in Sock
      BY <1>1
    <2>2. r \in Sock
      BY <2>1 DEF Sock
    <2>3. socks' = [socks EXCEPT ![k] = r]
      BY <2>1 DEF LeaveUnheard, Ended, Sock
    <2> HIDE DEF r
    <2> QED BY <1>1, <2>2, <2>3, Replaced
  <1>3. Sockets' = Sockets
    BY <1>1, <1>2 DEF Sockets
  <1>4. /\ socks[k].client \in {"closing", "closed"} /\ socks[k].tab \in Tabs /\ v \in Users
        /\ socks[k].down = << >>
    BY <1>1 DEF LeaveUnheard, Departed, WireInv, IsOpen, Sock, RoomType
  <1>5. /\ \A j \in Sockets : /\ socks'[j].tab = socks[j].tab
                              /\ socks'[j].client = socks[j].client
                              /\ socks'[j].down = socks[j].down
                              /\ j # k => socks'[j] = socks[j]
        /\ socks'[k].session = "gone" /\ socks'[k].up = << >>
    <2>1. /\ r.tab = socks[k].tab /\ r.client = socks[k].client /\ r.down = socks[k].down
          /\ r.session = "gone" /\ r.up = << >>
      BY <1>1 DEF Sock
    <2> HIDE DEF r, v
    <2> QED BY <1>2, <2>1
  <1> HIDE DEF r, v
  <1>6. \A u \in Tabs : Of(u)' = Of(u)
    BY <1>3, <1>5 DEF Of
  <1>7. /\ UNCHANGED <<user, socketRef, doc, members, edits, rushed, stale>>
        /\ last' = [last EXCEPT !.clean = @ /\ socks[k].up = << >>]
        /\ unheard' = unheard \cup {v}
    BY DEF LeaveUnheard, Departed, tabVars, v
  <1>8. RoomType'
    BY <1>1, <1>2, <1>4, <1>6, <1>7 DEF RoomType
  <1>9. WireInv'
    BY <1>3, <1>4, <1>5 DEF WireInv, Subscribed
  <1>10. TidyInv'
    BY <1>5, <1>6, <1>7 DEF TidyInv, Of
  <1>11. NoOrphanSocket'
    BY <1>5, <1>6, <1>7 DEF NoOrphanSocket, IsOpen, Of
  <1> DEFINE After(u) == \/ \E j \in Sockets : /\ user[socks'[j].tab] = u
                                              /\ socks'[j].session \in {"announced", "live"}
                         \/ u \in unheard'
  <1>12. \A u : Within(socks, u) => After(u)
    BY <1>3, <1>5, <1>7 DEF Within, Sockets, v
  <1>13. MailInv'
    <2> SUFFICES ASSUME NEW j \in Sockets, NEW i \in DOMAIN socks[j].down
                 PROVE  LET w == socks[j].down[i]
                        IN  /\ w.user # user[socks[j].tab]
                            /\ w.kind = "joined" =>
                                  \/ After(w.user)
                                  \/ \E l \in DOMAIN socks[j].down :
                                        /\ i < l
                                        /\ socks[j].down[l].kind = "left"
                                        /\ socks[j].down[l].user = w.user
      BY <1>3, <1>5, <1>7 DEF MailInv, Within, Sockets
    <2> QED BY <1>12 DEF MailInv
  <1>14. \A u \in Tabs : Attached(u) => Attached(u)'
    BY <1>4, <1>5, <1>6 DEF Attached, Of, Subscribed
  <1>15. ListInv'
    BY <1>7, <1>14 DEF ListInv
  <1>16. NoGhosts'
    <2> SUFFICES ASSUME NEW u \in Tabs \ stale, NEW w \in members[u]
                 PROVE  \/ After(w)
                        \/ \E j \in Of(u) : \E i \in DOMAIN socks[j].down :
                              socks[j].down[i].kind = "left" /\ socks[j].down[i].user = w
      BY <1>3, <1>5, <1>6, <1>7 DEF NoGhosts, Of
    <2> QED BY <1>12 DEF NoGhosts, Within, Sockets
  <1>17. EditInv'
    <2>1. /\ last'.text = last.text /\ last'.audience = last.audience
          /\ last'.clean => last.clean /\ socks[k].up = << >>
      BY <1>1, <1>7 DEF RoomType
    <2> SUFFICES ASSUME last.clean, socks[k].up = << >> PROVE Alone' /\ \A u \in last.audience : Due(u)'
      BY <2>1 DEF EditInv
    <2>2. Alone /\ \A u \in last.audience : Due(u)
      BY DEF EditInv
    <2>3. \A j \in Sockets : socks'[j].up = socks[j].up /\ socks'[j].tab = socks[j].tab
      BY <1>5
    <2>4. Alone'
      BY <1>3, <1>5, <2>1, <2>2, <2>3 DEF Alone
    <2>5. ASSUME NEW u \in last.audience, Due(u) PROVE Due(u)'
      <3>1. u \in Tabs
        BY <1>1 DEF RoomType
      <3>2. \A j \in Of(u) : HasCode(j) => HasCode(j)'
        BY <1>5 DEF HasCode, Of
      <3> QED BY <1>3, <1>6, <1>7, <1>14, <2>1, <2>3, <2>5, <3>1, <3>2 DEF Due
    <2> QED BY <2>2, <2>4, <2>5
  <1> QED BY <1>8, <1>9, <1>10, <1>11, <1>13, <1>15, <1>16, <1>17

\* A document is relayed: all who listen are sent it.
LEMMA UpKeeps == ASSUME MeetingInv, NEW k \in Sockets, RelayUp(k) PROVE MeetingInv'
  <1> USE SocketsAre DEF MeetingInv
  <1>1. RoomType
    OBVIOUS
  <1> DEFINE m == Message("code", socks[k].tab, Head(socks[k].up))
  <1>2. /\ socks' \in Seq(Sock) /\ Len(socks') = Len(socks)
        /\ \A j \in Sockets :
              socks'[j] = IF j = k THEN [socks[k] EXCEPT !.up = Tail(@)]
                          ELSE Heard(j, m)
    BY UpShape
  <1>3. Sockets' = Sockets
    BY <1>1, <1>2 DEF Sockets
  <1>4. m \in Msg /\ m.kind = "code" /\ m.user = user[socks[k].tab] /\ m.text = Head(socks[k].up)
    <2>1. Head(socks[k].up) \in Nat /\ "code" \in {"joined", "left", "code"}
      BY UpShape
    <2>2. RoomType /\ k \in Sockets
      BY <1>1
    <2> QED BY ONLY <2>1, <2>2, Messages
  <1> HIDE DEF m
  <1>5. \A j \in Sockets : j # k =>
           /\ socks'[j].tab = socks[j].tab /\ socks'[j].client = socks[j].client
           /\ socks'[j].session = socks[j].session /\ socks'[j].up = socks[j].up
           /\ \A i \in DOMAIN socks[j].down :
                 i \in DOMAIN socks'[j].down /\ socks'[j].down[i] = socks[j].down[i]
           /\ \A i \in DOMAIN socks'[j].down :
                 i \notin DOMAIN socks[j].down =>
                     Hears(socks, j, m.user) /\ socks'[j].down[i] = m
           /\ Hears(socks, j, m.user) =>
                 \E l \in DOMAIN socks'[j].down :
                     socks'[j].down[l] = m /\ \A i \in DOMAIN socks[j].down : i < l
           /\ socks'[j].down # << >> => socks[j].down # << >> \/ Hears(socks, j, m.user)
    BY <1>2, <1>4, Hearing
  <1>6. /\ socks'[k].tab = socks[k].tab /\ socks'[k].client = socks[k].client
        /\ socks'[k].session = socks[k].session /\ socks'[k].up = Tail(socks[k].up) /\ socks'[k].down = socks[k].down
    BY <1>1, <1>2 DEF Sock
  <1>7. socks[k].session = "live" /\ socks[k].up # << >>
    BY DEF RelayUp, Subscribed
  <1>8. \A u \in Tabs : Of(u)' = Of(u)
    BY <1>3, <1>5, <1>6 DEF Of
  <1>9. UNCHANGED <<user, socketRef, doc, members, edits, rushed, stale, unheard, last>>
    BY DEF RelayUp, history, tabVars
  <1>10. RoomType'
    BY <1>1, <1>2, <1>8, <1>9 DEF RoomType
  <1>11. WireInv'
    BY <1>3, <1>5, <1>6, <1>7 DEF WireInv, Subscribed, Hears
  <1>12. \A j \in Sockets : socks'[j].client = "closed" <=> socks[j].client = "closed"
    BY <1>5, <1>6, <1>7
  <1>13. TidyInv'
    BY <1>8, <1>9, <1>12 DEF TidyInv, Of
  <1>14. \A j \in Sockets : IsOpen(j)' <=> IsOpen(j)
    BY <1>5, <1>6, <1>7 DEF IsOpen
  <1>15. NoOrphanSocket'
    BY <1>8, <1>9, <1>14 DEF NoOrphanSocket, Of
  <1>16. \A u : Within(socks, u) => Within(socks', u)
    BY <1>3, <1>5, <1>6, <1>7, <1>9 DEF Within, Sockets
  <1>18. MailInv'
    <2> SUFFICES ASSUME NEW j \in Sockets, NEW i \in DOMAIN socks'[j].down
                 PROVE  LET w == socks'[j].down[i]
                        IN  /\ w.user # user[socks'[j].tab]
                            /\ w.kind = "joined" =>
                                  \/ Within(socks', w.user)
                                  \/ \E l \in DOMAIN socks'[j].down :
                                        /\ i < l
                                        /\ socks'[j].down[l].kind = "left"
                                        /\ socks'[j].down[l].user = w.user
      BY <1>3, <1>9 DEF MailInv, Within
    <2>1. CASE i \in DOMAIN socks[j].down
      BY <1>5, <1>6, <1>16, <2>1 DEF MailInv
    <2>2. CASE i \notin DOMAIN socks[j].down
      BY <1>4, <1>5, <1>6, <2>2 DEF Hears
    <2> QED BY <2>1, <2>2
  <1>19. \A u \in Tabs : Attached(u) => Attached(u)'
    BY <1>5, <1>6, <1>8 DEF Attached, Of, Subscribed
  <1>20. ListInv'
    BY <1>9, <1>19 DEF ListInv
  <1>21. NoGhosts'
    <2> SUFFICES ASSUME NEW u \in Tabs \ stale, NEW v \in members[u]
                 PROVE  \/ Within(socks', v)
                        \/ \E j \in Of(u) : \E i \in DOMAIN socks'[j].down :
                              socks'[j].down[i].kind = "left" /\ socks'[j].down[i].user = v
      BY <1>3, <1>8, <1>9 DEF NoGhosts, Within, Sockets
    <2>1. \/ Within(socks, v)
          \/ \E j \in Of(u) : \E i \in DOMAIN socks[j].down :
                socks[j].down[i].kind = "left" /\ socks[j].down[i].user = v
      BY DEF NoGhosts, Within, Sockets
    <2> QED BY <1>5, <1>6, <1>16, <2>1 DEF Of
  <1>22. EditInv'
    <2> SUFFICES ASSUME last.clean PROVE Alone' /\ \A u \in last.audience : Due(u)'
      BY <1>9 DEF EditInv
    <2>1. Alone /\ \A u \in last.audience : Due(u)
      BY DEF EditInv
    <2>2. /\ m.text = last.text /\ socks'[k].up = << >>
          /\ \A j \in Sockets : j # k => socks[j].up = << >> /\ socks'[j].up = << >>
      <3>1. socks[k].up = <<last.text>> /\ last.text \in Nat
        BY <1>1, <1>7, <2>1 DEF Alone, RoomType
      <3>2. Head(<<last.text>>) = last.text /\ Tail(<<last.text>>) = << >>
        BY <3>1
      <3> QED BY <1>4, <1>5, <1>6, <1>7, <2>1, <3>1, <3>2 DEF Alone
    <2>3. Alone'
      <3>1. ASSUME NEW j \in Sockets, NEW i \in DOMAIN socks'[j].down, socks'[j].down[i].kind = "code"
            PROVE  socks'[j].down[i].text = last.text
        BY <1>5, <1>6, <2>1, <2>2, <3>1 DEF Alone
      <3>2. \A j \in Sockets : socks'[j].up = << >>
        BY <2>2
      <3> QED BY <1>3, <1>9, <3>1, <3>2 DEF Alone
    <2>4. ASSUME NEW u \in last.audience, Due(u) PROVE Due(u)'
      <3>1. u \in Tabs
        BY <1>1 DEF RoomType
      <3>2. \A j \in Of(u) : HasCode(j) => HasCode(j)'
        BY <1>5, <1>6 DEF HasCode, Of
      <3>3. CASE doc[u] = last.text \/ \E j \in Of(u) : HasCode(j)
        BY <1>8, <1>9, <3>1, <3>2, <3>3 DEF Due
      <3>4. CASE Attached(u) /\ user[socks[k].tab] # user[u]
        <4>1. PICK j \in Of(u) : Subscribed(j) /\ socks[j].client = "open"
          BY <3>4 DEF Attached
        <4>2. j \in Sockets /\ j # k /\ Hears(socks, j, m.user)
          BY <1>4, <3>4, <4>1 DEF Of, Hears, Subscribed
        <4>3. HasCode(j)'
          BY <1>4, <1>5, <4>2 DEF HasCode
        <4> QED BY <1>8, <3>1, <4>1, <4>3 DEF Due
      <3> QED BY <2>2, <2>4, <3>3, <3>4 DEF Due
    <2> QED BY <2>1, <2>3, <2>4
  <1> QED BY <1>10, <1>11, <1>13, <1>15, <1>18, <1>20, <1>21, <1>22

\* A tab handles what it is sent: its list and its document follow.
LEMMA DownKeeps == ASSUME MeetingInv, NEW k \in Sockets, RelayDown(k) PROVE MeetingInv'
  <1> USE SocketsAre DEF MeetingInv
  <1>1. RoomType
    OBVIOUS
  <1> DEFINE d == socks[k].down
             m == Head(d)
             t == socks[k].tab
             n == Len(d)
  <1>2. /\ socks' \in Seq(Sock) /\ Len(socks') = Len(socks)
        /\ \A j \in Sockets : socks'[j] = IF j = k THEN [socks[k] EXCEPT !.down = Tail(@)] ELSE socks[j]
    BY DownShape
  <1>3. Sockets' = Sockets
    BY <1>1, <1>2 DEF Sockets
  <1>4. /\ \A j \in Sockets : /\ socks'[j].tab = socks[j].tab
                              /\ socks'[j].client = socks[j].client
                              /\ socks'[j].session = socks[j].session
                              /\ socks'[j].up = socks[j].up
                              /\ j # k => socks'[j] = socks[j]
        /\ socks'[k].down = Tail(d)
    BY <1>1, <1>2 DEF Sock
  <1>5. d \in Seq(Msg) /\ d # << >> /\ socks[k].session = "live" /\ socks[k].client = "open" /\ t \in Tabs
    BY <1>1 DEF RelayDown, Subscribed, Sock
  <1>6. /\ n \in Nat /\ n >= 1 /\ DOMAIN d = 1..n /\ m = d[1] /\ m \in Msg
        /\ DOMAIN Tail(d) = 1..(n - 1) /\ \A i \in 1..(n - 1) : Tail(d)[i] = d[i + 1]
    <2> HIDE DEF d
    <2> QED BY <1>5
  <1>7. /\ UNCHANGED <<user, socketRef, edits, stale, rushed, unheard, last>>
        /\ \/ m.kind = "joined" /\ members' = [members EXCEPT ![t] = @ \cup {m.user}] /\ doc' = doc
           \/ m.kind = "left" /\ members' = [members EXCEPT ![t] = @ \ {m.user}] /\ doc' = doc
           \/ m.kind = "code" /\ members' = members /\ doc' = [doc EXCEPT ![t] = m.text]
    BY DEF RelayDown, OnMessage, history
  <1>8. \A u \in Tabs : Of(u)' = Of(u)
    BY <1>3, <1>4 DEF Of
  <1>9. k \in Of(t)
    BY DEF Of
  <1>10. /\ m.user # user[t]
         /\ m.kind = "joined" =>
               \/ Within(socks, m.user)
               \/ \E j \in 1..n : 1 < j /\ d[j].kind = "left" /\ d[j].user = m.user
    BY <1>6 DEF MailInv
  <1>22. socks[k].down = d /\ socks[k].tab = t
    OBVIOUS
  <1> HIDE DEF m, n, d, t
  <1> USE <1>22
  <1>11. RoomType'
    <2>1. members' \in [Tabs -> SUBSET Users] /\ doc' \in [Tabs -> Nat]
      <3>1. m.user \in Users /\ m.text \in Nat
        BY <1>6 DEF Msg
      <3>2. CASE m.kind = "joined"
        <4>1. members' = [members EXCEPT ![t] = @ \cup {m.user}] /\ doc' = doc
          BY <1>7, <3>2
        <4>2. members[t] \cup {m.user} \in SUBSET Users
          BY <1>1, <1>5, <3>1 DEF RoomType
        <4> QED BY <1>1, <1>5, <4>1, <4>2 DEF RoomType
      <3>3. CASE m.kind = "left"
        <4>1. members' = [members EXCEPT ![t] = @ \ {m.user}] /\ doc' = doc
          BY <1>7, <3>3
        <4>2. members[t] \ {m.user} \in SUBSET Users
          BY <1>1, <1>5 DEF RoomType
        <4> QED BY <1>1, <1>5, <4>1, <4>2 DEF RoomType
      <3>4. CASE m.kind = "code"
        <4>1. members' = members /\ doc' = [doc EXCEPT ![t] = m.text]
          BY <1>7, <3>4
        <4> QED BY <1>1, <1>5, <3>1, <4>1 DEF RoomType
      <3> QED BY <1>7, <3>2, <3>3, <3>4
    <2> QED BY <1>1, <1>2, <1>7, <1>8, <2>1 DEF RoomType
  <1>12. WireInv'
    BY <1>3, <1>4, <1>5 DEF WireInv, Subscribed
  <1>13. TidyInv'
    BY <1>4, <1>7, <1>8 DEF TidyInv, Of
  <1>14. NoOrphanSocket'
    BY <1>4, <1>7, <1>8 DEF NoOrphanSocket, IsOpen, Of
  <1>15. \A u : Within(socks, u) => Within(socks', u)
    BY <1>3, <1>4, <1>7 DEF Within, Sockets
  <1>16. MailInv'
    <2> SUFFICES ASSUME NEW j \in Sockets, NEW i \in DOMAIN socks'[j].down
                 PROVE  LET w == socks'[j].down[i]
                        IN  /\ w.user # user[socks'[j].tab]
                            /\ w.kind = "joined" =>
                                  \/ Within(socks', w.user)
                                  \/ \E l \in DOMAIN socks'[j].down :
                                        /\ i < l
                                        /\ socks'[j].down[l].kind = "left"
                                        /\ socks'[j].down[l].user = w.user
      BY <1>3, <1>7 DEF MailInv, Within
    <2>1. CASE j # k
      BY <1>4, <1>15, <2>1 DEF MailInv
    <2>2. CASE j = k
      <3> DEFINE w == d[i + 1]
      <3>1. i \in 1..(n - 1) /\ socks'[k].down[i] = w /\ i + 1 \in 1..n
        BY <1>4, <1>6, <2>2
      <3>2. /\ w.user # user[t]
            /\ w.kind = "joined" =>
                  \/ Within(socks, w.user)
                  \/ \E l \in 1..n : i + 1 < l /\ d[l].kind = "left" /\ d[l].user = w.user
        BY <1>6, <3>1 DEF MailInv
      <3> HIDE DEF w
      <3>3. ASSUME NEW l \in 1..n, i + 1 < l
            PROVE  l - 1 \in 1..(n - 1) /\ i < l - 1 /\ Tail(d)[l - 1] = d[l]
        <4>1. l - 1 \in 1..(n - 1) /\ i < l - 1 /\ (l - 1) + 1 = l
          BY <1>6, <3>1, <3>3
        <4> QED BY <1>6, <4>1
      <3>4. (\E l \in 1..n : i + 1 < l /\ d[l].kind = "left" /\ d[l].user = w.user)
            => \E q \in DOMAIN Tail(d) : i < q /\ Tail(d)[q].kind = "left" /\ Tail(d)[q].user = w.user
        BY <1>6, <3>3
      <3> QED BY <1>4, <1>15, <2>2, <3>1, <3>2, <3>4
    <2> QED BY <2>1, <2>2
  <1>17. \A u \in Tabs : Attached(u) => Attached(u)'
    BY <1>4, <1>8 DEF Attached, Of, Subscribed
  <1>18. Attached(t)
    BY <1>5, <1>9 DEF Attached, Subscribed
  <1>19. ListInv'
    <2>1. \A u \in Tabs : user[u] \notin members'[u]
      BY <1>1, <1>5, <1>7, <1>10 DEF ListInv, RoomType
    <2>2. \A u \in Tabs : u # t => members'[u] = members[u]
      BY <1>1, <1>5, <1>7 DEF RoomType
    <2> QED BY <1>5, <1>7, <1>17, <1>18, <2>1, <2>2 DEF ListInv
  <1>20. NoGhosts'
    <2> DEFINE Told(j, v) == \E i \in DOMAIN socks[j].down :
                                socks[j].down[i].kind = "left" /\ socks[j].down[i].user = v
               Tells(j, v) == \E i \in DOMAIN socks'[j].down :
                                socks'[j].down[i].kind = "left" /\ socks'[j].down[i].user = v
    <2> SUFFICES ASSUME NEW u \in Tabs \ stale, NEW v \in members'[u]
                 PROVE  Within(socks', v) \/ \E j \in Of(u) : Tells(j, v)
      BY <1>3, <1>7, <1>8 DEF NoGhosts, Within, Sockets
    <2>1. ASSUME NEW j \in Sockets, Told(j, v), j # k \/ ~(m.kind = "left" /\ m.user = v)
          PROVE  Tells(j, v)
      <3>1. CASE j # k
        BY <1>4, <2>1, <3>1
      <3>2. CASE j = k
        <4>1. PICK i \in 1..n : d[i].kind = "left" /\ d[i].user = v
          BY <1>6, <2>1, <3>2
        <4>2. i # 1
          BY <1>6, <2>1, <3>2, <4>1
        <4>3. i - 1 \in 1..(n - 1) /\ (i - 1) + 1 = i
          BY <1>6, <4>2
        <4>4. Tail(d)[i - 1] = d[i]
          BY <1>6, <4>3
        <4> QED BY <1>4, <1>6, <3>2, <4>1, <4>3, <4>4
      <3> QED BY <3>1, <3>2
    <2>2. CASE v \in members[u]
      <3>1. Within(socks, v) \/ \E j \in Of(u) : Told(j, v)
        BY <2>2 DEF NoGhosts, Within, Sockets
      <3>2. u = t => ~(m.kind = "left" /\ m.user = v)
        BY <1>1, <1>5, <1>7 DEF RoomType
      <3>3. u # t => k \notin Of(u)
        BY DEF Of
      <3>4. \A j \in Of(u) : j \in Sockets
        BY DEF Of
      <3> HIDE DEF Told, Tells
      <3> QED BY <1>15, <2>1, <3>1, <3>2, <3>3, <3>4
    <2>3. CASE v \notin members[u]
      <3>1. u = t /\ m.kind = "joined" /\ v = m.user
        BY <1>1, <1>5, <1>7, <2>3 DEF RoomType
      <3>2. Within(socks, v) \/ Told(k, v)
        BY <1>6, <1>10, <3>1
      <3> HIDE DEF Told, Tells
      <3> QED BY <1>9, <1>15, <2>1, <3>1, <3>2
    <2> QED BY <2>2, <2>3
  <1>21. EditInv'
    <2> SUFFICES ASSUME last.clean PROVE Alone' /\ \A u \in last.audience : Due(u)'
      BY <1>7 DEF EditInv
    <2>1. Alone /\ \A u \in last.audience : Due(u)
      BY DEF EditInv
    <2>5. \A q \in 1..n : d[q].kind = "code" => d[q].text = last.text
      BY <1>6, <2>1 DEF Alone
    <2>2. m.kind = "code" => m.text = last.text
      BY <1>6, <2>5
    <2>3. Alone'
      <3>1. ASSUME NEW j \in Sockets, NEW i \in DOMAIN socks'[j].down, socks'[j].down[i].kind = "code"
            PROVE  socks'[j].down[i].text = last.text
        <4>1. CASE j # k
          BY <1>4, <2>1, <3>1, <4>1 DEF Alone
        <4>2. CASE j = k
          <5>1. i \in 1..(n - 1) /\ i + 1 \in 1..n /\ socks'[k].down[i] = d[i + 1]
            BY <1>4, <1>6, <4>2
          <5> QED BY <2>5, <3>1, <4>2, <5>1
        <4> QED BY <4>1, <4>2
      <3>2. \A j \in Sockets : socks'[j].up = socks[j].up
        BY <1>4
      <3> QED BY <1>3, <1>7, <2>1, <3>1, <3>2 DEF Alone
    <2>4. ASSUME NEW u \in last.audience, Due(u) PROVE Due(u)'
      <3>1. u \in Tabs
        BY <1>1 DEF RoomType
      <3>2. doc[u] = last.text => doc'[u] = last.text
        BY <1>1, <1>7, <2>2, <3>1 DEF RoomType
      <3>3. \A j \in Of(u) : j # k => HasCode(j)' = HasCode(j)
        BY <1>4 DEF HasCode, Of
      <3>4. u = t /\ HasCode(k) => HasCode(k)' \/ doc'[u] = last.text
        <4> SUFFICES ASSUME u = t, HasCode(k), m.kind # "code" PROVE HasCode(k)'
          BY <1>1, <1>7, <2>2, <3>1 DEF RoomType
        <4>1. PICK i \in 1..n : d[i].kind = "code"
          BY <1>6 DEF HasCode
        <4>2. i - 1 \in 1..(n - 1) /\ (i - 1) + 1 = i
          BY <1>6, <4>1
        <4>3. Tail(d)[i - 1] = d[i]
          BY <1>6, <4>2
        <4>4. \E q \in DOMAIN Tail(d) : Tail(d)[q].kind = "code"
          BY <1>6, <4>1, <4>2, <4>3
        <4> QED BY <1>4, <4>4 DEF HasCode
      <3>5. k \in Of(u) => u = t
        BY DEF Of
      <3> QED BY <1>3, <1>4, <1>7, <1>8, <1>17, <2>4, <3>1, <3>2, <3>3, <3>4, <3>5 DEF Due
    <2> QED BY <2>1, <2>3, <2>4
  <1> QED BY <1>11, <1>12, <1>13, <1>14, <1>16, <1>19, <1>20, <1>21

\* The invariant holds in every state of the room.
LEMMA MeetingInvariant == RoomSpec => []MeetingInv
  <1>1. ASSUME MeetingInv, [RoomNext]_roomVars PROVE MeetingInv'
    <2>1. CASE UNCHANGED roomVars
      <3>1. UNCHANGED <<user, socketRef, doc, members, socks, edits, stale, unheard, rushed, last>>
        BY <2>1 DEF roomVars, tabVars, history
      <3>2. RoomType' /\ WireInv' /\ TidyInv' /\ NoOrphanSocket'
        BY <1>1, <3>1 DEF MeetingInv, RoomType, WireInv, TidyInv, NoOrphanSocket, Of, Sockets, IsOpen, Subscribed
      <3>3. MailInv' /\ ListInv' /\ NoGhosts'
        BY <1>1, <3>1 DEF MeetingInv, MailInv, ListInv, NoGhosts, Attached, Within, Of, Sockets, Subscribed
      <3>4. EditInv'
        BY <1>1, <3>1 DEF MeetingInv, EditInv, Alone, Due, HasCode, Attached, Of, Sockets, Subscribed
      <3> QED BY <3>2, <3>3, <3>4 DEF MeetingInv
    <2>2. CASE RoomNext
      BY <1>1, <2>2, ConnectKeeps, LeaveRoomKeeps, EditKeeps, PickKeeps, WindowKeeps, AnnounceKeeps,
         SubscribeKeeps, UpKeeps, DownKeeps, LeaveKeeps, UnheardKeeps, CloseKeeps, BreakKeeps DEF RoomNext, Session
    <2> QED BY <1>1, <2>1, <2>2
  <1> QED BY <1>1, InitMeeting, PTL DEF RoomSpec

\* The list of members corrects itself, for any number of tabs, users and
\* connections: whoever is listed and gone, the tab is being told so, unless no
\* session of theirs has had its departure published since the last that did not.
THEOREM GhostsLeave == RoomSpec => []NoGhosts
  <1>1. MeetingInv => NoGhosts
    BY DEF MeetingInv
  <1> QED BY <1>1, MeetingInvariant, PTL

\* A tab that waits for its socket's close leaves no open socket behind.
THEOREM OneSocket == RoomSpec => []NoOrphanSocket
  <1>1. MeetingInv => NoOrphanSocket
    BY DEF MeetingInv
  <1> QED BY <1>1, MeetingInvariant, PTL

\* An edit that crosses no other is shown by all that could hear of it and have
\* picked nothing from the history since, as soon as nothing is on its way.
THEOREM EditsArrive == RoomSpec => []AudienceAgrees
  <1>1. MeetingInv => AudienceAgrees
    <2> SUFFICES ASSUME MeetingInv, last.clean, ~InFlight, NEW t \in last.audience
                 PROVE  doc[t] = last.text
      BY DEF AudienceAgrees
    <2>1. Due(t)
      BY DEF MeetingInv, EditInv
    <2> QED BY <2>1 DEF Due, InFlight, HasCode, Of
  <1> QED BY <1>1, MeetingInvariant, PTL
=============================================================================
