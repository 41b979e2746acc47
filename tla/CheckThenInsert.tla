--------------------------- MODULE CheckThenInsert ---------------------------
(***************************************************************************)
(* The API handlers that look whether a record exists and then insert it,  *)
(* as concurrent transactions of one database:                             *)
(*                                                                         *)
(*   register   SELECT email; SELECT username; INSERT; COMMIT              *)
(*   create     SELECT id or slug; INSERT problem; COMMIT                  *)
(*   seed       SELECT count; INSERT each default problem; one COMMIT      *)
(*              (every read or submission of problems does this first)     *)
(*   join       SELECT membership; INSERT; COMMIT                          *)
(*   room       INSERT room; COMMIT; INSERT the owner's membership; COMMIT *)
(*                                                                         *)
(* users.email, users.username and problems.slug are unique: an INSERT of  *)
(* a key that another open transaction has inserted waits for its end, and *)
(* one of a committed key fails.  Memberships have no such constraint.     *)
(* A SELECT sees what is committed.                                        *)
(***************************************************************************)
EXTENDS Naturals, Sequences, SequencesExt

CONSTANTS
    Handlers,   \* requests, one handler each
    Emails,
    Usernames,
    Defaults,   \* the slugs of the default problems, in the order of seeding
    OtherSlugs, \* slugs an administrator may use besides
    UuidSlugs,  \* those of them that uuid.UUID can parse
    Members     \* users who create or join the room

Slugs == ToSet(Defaults) \cup OtherSlugs
Keys  == Emails \cup Usernames \cup Slugs

ASSUME KeysAssumption ==
    /\ Emails \cap Usernames = {} /\ (Emails \cup Usernames) \cap Slugs = {}
    /\ Defaults \in Seq(Slugs) /\ IsInjective(Defaults)
    /\ UuidSlugs \subseteq OtherSlugs \ ToSet(Defaults)
    /\ {"free", "committed"} \cap Handlers = {}

\* A bug: each handler seeds in an order of its own.
SeedKeysAnyOrder == {d \in [DOMAIN Defaults -> ToSet(Defaults)] : IsInjective(d)}

\* The keys a request inserts, in order.
SeedKeys == {Defaults}
RegisterKeys == {<<e, n>> : e \in Emails, n \in Usernames}
CreateKeys == {<<s>> : s \in Slugs}

Requests == [kind : {"register"}, keys : RegisterKeys]
       \cup [kind : {"create"}, keys : CreateKeys]
       \cup [kind : {"seed"}, keys : SeedKeys]
       \cup [kind : {"join", "room"}, user : Members]

VARIABLES
    request,  \* [Handlers -> Requests], fixed
    pc,       \* [Handlers -> "new", "look", "insert", "enrol", "done"]
    pos,      \* [Handlers -> the key looked up or inserted next]
    answer,   \* [Handlers -> "none", "ok", "refused" (400/404), "error" (500), "lost"]
    owner,    \* [Keys -> "free", the handler that has inserted it, or "committed"]
    seeded,   \* history: the slugs committed by seeding
    created,  \* whether the room exists
    rows,     \* [Members -> rows of room_members]
    met       \* history: [Handlers -> handlers open at the same time]

vars == <<request, pc, pos, answer, owner, seeded, created, rows, met>>

Kind(h) == request[h].kind
Open(h) == pc[h] \notin {"new", "done"}

Init ==
    /\ request \in [Handlers -> Requests]
    /\ created \in BOOLEAN
    /\ \A g, h \in Handlers : Kind(g) = "room" /\ Kind(h) = "room" => g = h /\ ~created
    /\ pc = [h \in Handlers |-> "new"]
    /\ pos = [h \in Handlers |-> 1]
    /\ answer = [h \in Handlers |-> "none"]
    /\ owner = [k \in Keys |-> "free"]
    /\ seeded = {}
    /\ rows = [m \in Members |-> 0]
    /\ met = [h \in Handlers |-> {}]

Done(h, a) == /\ pc' = [pc EXCEPT ![h] = "done"]
              /\ answer' = [answer EXCEPT ![h] = a]

\* get_db: what h inserted and has not committed is rolled back.
RolledBack(h) == [k \in Keys |-> IF owner[k] = h THEN "free" ELSE owner[k]]

-----------------------------------------------------------------------------
\* A request arrives; a new room needs no look-up.
Arrive(h) ==
    /\ pc[h] = "new"
    /\ pc' = [pc EXCEPT ![h] = IF Kind(h) = "room" THEN "insert" ELSE "look"]
    /\ met' = [g \in Handlers |->
                  IF g = h THEN {f \in Handlers : Open(f)}
                  ELSE IF Open(g) THEN met[g] \cup {h} ELSE met[g]]
    /\ UNCHANGED <<request, pos, answer, owner, seeded, created, rows>>

\* get_problem_by_id_or_slug takes a slug that is a UUID for an id, and ids
\* are drawn by the server: the problem with that slug is not found.
Found(k) == owner[k] = "committed" /\ k \notin UuidSlugs

\* register looks up the email, then the username; create, the slug.
LookUp(h) ==
    /\ pc[h] = "look"
    /\ Kind(h) \in {"register", "create"}
    /\ IF Found(request[h].keys[pos[h]])
       THEN Done(h, "refused") /\ UNCHANGED pos
       ELSE IF pos[h] < Len(request[h].keys)
            THEN pos' = [pos EXCEPT ![h] = @ + 1] /\ UNCHANGED <<pc, answer>>
            ELSE /\ pc' = [pc EXCEPT ![h] = "insert"]
                 /\ pos' = [pos EXCEPT ![h] = 1]
                 /\ UNCHANGED answer
    /\ UNCHANGED <<request, owner, seeded, created, rows, met>>

\* seed_default_problems_if_empty: any problem at all is enough.
CountProblems(h) ==
    /\ pc[h] = "look"
    /\ Kind(h) = "seed"
    /\ IF \E s \in Slugs : owner[s] = "committed"
       THEN Done(h, "ok")
       ELSE pc' = [pc EXCEPT ![h] = "insert"] /\ UNCHANGED answer
    /\ UNCHANGED <<request, pos, owner, seeded, created, rows, met>>

\* A bug: membership is not returned but added again.
LookForMemberNot(h) ==
    /\ pc[h] = "look"
    /\ Kind(h) = "join"
    /\ \/ ~created                                /\ Done(h, "refused")
       \/ created /\ rows[request[h].user] > 1    /\ Done(h, "error")
       \/ created /\ rows[request[h].user] <= 1   /\ pc' = [pc EXCEPT ![h] = "enrol"]
                                                  /\ UNCHANGED answer
    /\ UNCHANGED <<request, pos, owner, seeded, created, rows, met>>

\* join_room: no room is refused, one row is returned as it is, and of two
\* rows scalar_one_or_none raises.
LookForMember(h) ==
    LET n == rows[request[h].user]
    IN  /\ pc[h] = "look"
        /\ Kind(h) = "join"
        /\ \/ ~created         /\ Done(h, "refused")
           \/ created /\ n = 1 /\ Done(h, "ok")
           \/ created /\ n > 1 /\ Done(h, "error")
           \/ created /\ n = 0 /\ pc' = [pc EXCEPT ![h] = "enrol"] /\ UNCHANGED answer
        /\ UNCHANGED <<request, pos, owner, seeded, created, rows, met>>

\* The next unique key: free, it is the transaction's; committed, the
\* transaction is rolled back; in another's hands, the INSERT waits.
Insert(h) ==
    LET k == request[h].keys[pos[h]]
    IN  /\ pc[h] = "insert"
        /\ Kind(h) # "room"
        /\ pos[h] <= Len(request[h].keys)
        /\ \/ /\ owner[k] = "free"
              /\ owner' = [owner EXCEPT ![k] = h]
              /\ pos' = [pos EXCEPT ![h] = @ + 1]
              /\ UNCHANGED <<pc, answer>>
           \/ /\ owner[k] = "committed"
              /\ owner' = RolledBack(h)
              /\ Done(h, "error")
              /\ UNCHANGED pos
        /\ UNCHANGED <<request, seeded, created, rows, met>>

\* A bug: every default problem is committed as it is inserted.
MayCommitEach(h) == Kind(h) = "seed" \/ pos[h] > Len(request[h].keys)

\* COMMIT comes after the last INSERT.
MayCommit(h) == pos[h] > Len(request[h].keys)

Commit(h) ==
    /\ pc[h] = "insert"
    /\ Kind(h) # "room"
    /\ MayCommit(h)
    /\ owner' = [k \in Keys |-> IF owner[k] = h THEN "committed" ELSE owner[k]]
    /\ seeded' = IF Kind(h) = "seed" THEN seeded \cup {s \in Slugs : owner[s] = h} ELSE seeded
    /\ IF pos[h] > Len(request[h].keys) THEN Done(h, "ok") ELSE UNCHANGED <<pc, answer>>
    /\ UNCHANGED <<request, pos, created, rows, met>>

\* create_room's first COMMIT: from here the room can be listed and joined.
CommitRoom(h) ==
    /\ pc[h] = "insert"
    /\ Kind(h) = "room"
    /\ created' = TRUE
    /\ pc' = [pc EXCEPT ![h] = "enrol"]
    /\ UNCHANGED <<request, pos, answer, owner, seeded, rows, met>>

\* The membership row of join_room, or of create_room's owner, and its COMMIT.
Enrol(h) ==
    /\ pc[h] = "enrol"
    /\ rows' = [rows EXCEPT ![request[h].user] = @ + 1]
    /\ Done(h, "ok")
    /\ UNCHANGED <<request, pos, owner, seeded, created, met>>

\* The handler's process or its database connection is gone, at any await.
Lose(h) ==
    /\ Open(h)
    /\ owner' = RolledBack(h)
    /\ Done(h, "lost")
    /\ UNCHANGED <<request, pos, seeded, created, rows, met>>

-----------------------------------------------------------------------------
Next == \E h \in Handlers :
            \/ Arrive(h)
            \/ LookUp(h) \/ CountProblems(h) \/ LookForMember(h)
            \/ Insert(h) \/ Commit(h)
            \/ CommitRoom(h) \/ Enrol(h)
            \/ Lose(h)

Spec == Init /\ [][Next]_vars

-----------------------------------------------------------------------------
(* Properties *)

Enrols(h) == Kind(h) \in {"join", "room"}

\* Two requests race for a record: open at the same time, and one key or one
\* member in common.
Race(g, h) ==
    /\ g \in met[h]
    /\ \/ ~Enrols(g) /\ ~Enrols(h)
          /\ ToSet(request[g].keys) \cap ToSet(request[h].keys) # {}
       \/ Enrols(g) /\ Enrols(h) /\ request[g].user = request[h].user

\* h was to insert a slug that g has, and that no look-up by slug finds.
Overlooked(g, h) ==
    /\ ~Enrols(g) /\ answer[g] = "ok"
    /\ ToSet(request[g].keys) \cap ToSet(request[h].keys) \cap UuidSlugs # {}

\* A 500 is the mark of a race: of the request itself for a unique key, or of
\* two enrolments of its user, whose two rows every later join trips over.  A
\* request that comes after the others are done is answered 200, 400 or 404.
\* The one exception is a second problem with a slug that is a UUID: its
\* look-up by id misses the first, which was answered 200.
FailuresAreRaces ==
    \A h \in Handlers : answer[h] = "error" =>
        \/ ~Enrols(h) /\ \E g \in Handlers : Race(g, h) \/ Overlooked(g, h)
        \/ Enrols(h)  /\ \E f, g \in Handlers : f # g /\ Race(f, g)
                                                /\ request[f].user = request[h].user

\* Seeding leaves all the default problems or none, however many handlers
\* seed, create and fail at once.
SeedIsAllOrNothing == seeded \in {{}, ToSet(Defaults)}

\* Who a handler's INSERT waits for.
WaitsFor(h) ==
    IF pc[h] = "insert" /\ Kind(h) # "room" /\ pos[h] <= Len(request[h].keys)
    THEN {owner[request[h].keys[pos[h]]]} \cap (Handlers \ {h}) ELSE {}

\* No INSERTs wait for each other: handlers that insert several keys do so in
\* one order, so the database never has to break a circle of them.
NoCircularWait ==
    \A S \in SUBSET Handlers :
        S # {} => \E h \in S : WaitsFor(h) \cap S = {}
=============================================================================
