------------------------------- MODULE PhpCount -------------------------------
(***************************************************************************)
(* The hit counter of src/libs/phpcount.rs: what add_hit and               *)
(* get_hit_counts do to the tables cshits and csnodupes and to the visitor *)
(* key, when several requests run them at once.                            *)
(*                                                                         *)
(* Each SQL statement is one atomic step (the tables are MyISAM: there is  *)
(* no transaction, a statement locks its table).  Each lock of the visitor *)
(* key is one step.  What the code computes before it awaits a statement   *)
(* (cutoff, identifier, time) is kept in a local and used as it was then.  *)
(*                                                                         *)
(* An identifier ids_hash is HMAC(key, page NUL visitor): it is modelled   *)
(* by the triple of the key's generation, the page and the visitor.        *)
(***************************************************************************)
EXTENDS Integers, FiniteSets, FiniteSetsExt, Functions

CONSTANTS
    Requests,       \* slots for requests in flight
    Pages,          \* page identifiers
    Visitors,       \* client addresses
    HitOldAfter,    \* HIT_OLD_AFTER_SECONDS, in clock ticks
    KeyLifetime,    \* VISITOR_KEY_LIFETIME, in clock ticks
    MaxHitCount,    \* the largest value of the column hitcount
    MaxClock,       \* bound on the clock
    MaxRestarts     \* bound on restarts of the process

ASSUME CounterAssumption ==
    /\ IsFiniteSet(Requests) /\ IsFiniteSet(Visitors)
    /\ HitOldAfter \in Nat \ {0}
    /\ KeyLifetime \in Nat \ {0}
    /\ MaxHitCount \in Nat
    /\ MaxClock \in Nat
    /\ MaxRestarts \in Nat

VARIABLES
    clock,      \* the time of day, in ticks
    restarts,   \* how often the process has been restarted
    key,        \* visitor_key: its generation, and when it was created
    present,    \* the rows of cshits: <<pageid, isunique>>
    hitcount,   \* their hitcount
    nodupes,    \* the rows of csnodupes
    pc,         \* the next step of a request
    call,       \* the method it is in
    page,       \* its page
    visitor,    \* its client address
    unique,     \* is_unique_hit has answered true
    gen,        \* the generation of the key its ids_hash was computed with
    time,       \* the time it works with: cutoff, a row's time, or now
    shown       \* the HitCounts it has read so far

\* History, which only the properties read.
VARIABLES
    recorded,   \* the <<page, visitor>> whose add_hit has succeeded at least once
    counted,    \* the <<page, visitor>> counted unique at least once
    logged,     \* csnodupes if nothing were ever deleted: the last write of each id
    began,      \* when its log_hit began, and the generation of the key then
    seen,       \* the hits logged that no older one still to be logged displaces
    met,        \* the times in seen for its ids_hash when its lookup began
    torn        \* per page, sequences interrupted after the unique count

shared  == <<clock, restarts, key>>
tables  == <<present, hitcount, nodupes>>
request == <<call, page, visitor>>
locals  == <<unique, gen, time, shown>>
lookups == <<began, met>>
history == <<recorded, counted, logged, seen, lookups, torn>>
vars == <<shared, tables, request, pc, locals, history>>

-----------------------------------------------------------------------------
(* Data *)

IsUnique == {0, 1}
Rows == Pages \X IsUnique
Fields == {"page_hits", "unique_hits", "total_hits", "total_unique_hits"}

Ids == [gen : Nat, page : Pages, visitor : Visitors]
DupRows == [id : Ids, time : Nat]

NoRow == -1
NoCounts == [f \in Fields |-> 0]

\* SELECT time FROM csnodupes WHERE ids_hash = i, or no row.
TimeOf(i, rows) ==
    IF \E row \in rows : row.id = i
    THEN (CHOOSE row \in rows : row.id = i).time
    ELSE NoRow

\* INSERT ... ON DUPLICATE KEY UPDATE time = VALUES(time).
Upsert(i, t, rows) == {row \in rows : row.id # i} \cup {[id |-> i, time |-> t]}

IdOf(r, g) == [gen |-> g, page |-> page[r], visitor |-> visitor[r]]

\* COALESCE(SUM(hitcount), 0) over the rows of cshits with this isunique.
Total(u) == SumFunctionOnSet(hitcount, {row \in present : row[2] = u})

\* The visitors of page p among the pairs in S.
VisitorsOf(p, S) == {v \in Visitors : <<p, v>> \in S}

is_expired == clock - key.created >= KeyLifetime

\* r has counted itself unique and has not yet finished its sequence.
InSequence(r) == unique[r] /\ pc[r] # "countUnique"

Sequences(p) == {r \in Requests : page[r] = p /\ InSequence(r)}

-----------------------------------------------------------------------------
(* Initial state: a new process on an empty database *)

Init ==
    /\ clock = 0 /\ restarts = 0
    /\ key = [gen |-> 0, created |-> 0]
    /\ present = {}
    /\ hitcount = [row \in Rows |-> 0]
    /\ nodupes = {}
    /\ pc = [r \in Requests |-> "idle"]
    /\ call = [r \in Requests |-> "add_hit"]
    /\ page = [r \in Requests |-> "none"]
    /\ visitor = [r \in Requests |-> "none"]
    /\ unique = [r \in Requests |-> FALSE]
    /\ gen = [r \in Requests |-> 0]
    /\ time = [r \in Requests |-> 0]
    /\ shown = [r \in Requests |-> NoCounts]
    /\ recorded = {} /\ counted = {} /\ logged = {}
    /\ began = [r \in Requests |-> [gen |-> 0, time |-> 0]]
    /\ seen = {} /\ met = [r \in Requests |-> {}]
    /\ torn = [p \in Pages |-> 0]

-----------------------------------------------------------------------------
(* A request's control *)

GoTo(r, step) == pc' = [pc EXCEPT ![r] = step]

\* The statements of a request: the steps that can fail.
Statements ==
    {"delete", "exists0", "insert0", "exists1", "insert1", "select", "countUnique",
     "log", "countTotal", "page_hits", "unique_hits", "total_hits", "total_unique_hits"}

\* The locals a finished method leaves behind mean nothing any more.
Forget(r) ==
    /\ unique' = [unique EXCEPT ![r] = FALSE]
    /\ gen' = [gen EXCEPT ![r] = 0]
    /\ time' = [time EXCEPT ![r] = 0]
    /\ began' = [began EXCEPT ![r] = [gen |-> 0, time |-> 0]]
    /\ met' = [met EXCEPT ![r] = {}]

\* The dispatcher goes on to get_hit_counts, whatever add_hit returned.
EnterGetHitCounts(r) ==
    /\ Forget(r)
    /\ call' = [call EXCEPT ![r] = "get_hit_counts"]
    /\ GoTo(r, "exists0")

\* A statement returns an error: add_hit returns it and the dispatcher only
\* logs it; get_hit_counts returns it and the dispatcher shows zeros.  The
\* sequence is torn if the unique count stands without the total count.
Fail(r, tears) ==
    /\ torn' = IF tears THEN [torn EXCEPT ![page[r]] = @ + 1] ELSE torn
    /\ \/ /\ call[r] = "add_hit"
          /\ EnterGetHitCounts(r)
          /\ UNCHANGED shown
       \/ /\ call[r] = "get_hit_counts"
          /\ GoTo(r, "show")
          /\ shown' = [shown EXCEPT ![r] = NoCounts]
          /\ UNCHANGED <<call, unique, gen, time, lookups>>

\* The database does not execute a statement.
StatementFails(r) ==
    /\ pc[r] \in Statements
    /\ Fail(r, InSequence(r))
    /\ UNCHANGED <<shared, tables, page, visitor, recorded, counted, logged, seen>>

-----------------------------------------------------------------------------
(* The dispatcher *)

\* A page is asked for, by a visitor or by a search bot, which is not counted.
Arrive(r, p, v) ==
    /\ pc[r] = "idle"
    /\ page' = [page EXCEPT ![r] = p]
    /\ visitor' = [visitor EXCEPT ![r] = v]
    /\ \/ GoTo(r, "cleanup") /\ call' = [call EXCEPT ![r] = "add_hit"]
       \/ GoTo(r, "exists0") /\ call' = [call EXCEPT ![r] = "get_hit_counts"]
    /\ UNCHANGED <<shared, tables, locals, history>>

\* The page is rendered with the counts read.
Show(r) ==
    /\ pc[r] = "show"
    /\ GoTo(r, "idle")
    /\ page' = [page EXCEPT ![r] = "none"]
    /\ visitor' = [visitor EXCEPT ![r] = "none"]
    /\ call' = [call EXCEPT ![r] = "add_hit"]
    /\ shown' = [shown EXCEPT ![r] = NoCounts]
    /\ UNCHANGED <<shared, tables, unique, gen, time, history>>

-----------------------------------------------------------------------------
(* cleanup *)

\* Mutant: the retention period is not subtracted.
CutoffNow(r) ==
    /\ pc[r] = "cleanup"
    /\ time' = [time EXCEPT ![r] = clock]
    /\ GoTo(r, "delete")
    /\ UNCHANGED <<shared, tables, request, unique, gen, shown, history>>

Cutoff(r) ==
    /\ pc[r] = "cleanup"
    /\ time' = [time EXCEPT ![r] = clock - HitOldAfter]
    /\ GoTo(r, "delete")
    /\ UNCHANGED <<shared, tables, request, unique, gen, shown, history>>

\* DELETE FROM csnodupes WHERE time < cutoff.
Delete(r) ==
    /\ nodupes' = {row \in nodupes : ~(row.time < time[r])}
    /\ UNCHANGED <<present, hitcount, counted, logged, seen>>

DeleteOld(r) ==
    /\ pc[r] = "delete"
    /\ Delete(r)
    /\ GoTo(r, "exists0")
    /\ UNCHANGED <<shared, request, locals, recorded, lookups, torn>>

-----------------------------------------------------------------------------
(* create_counts_if_not_present: a SELECT, then perhaps an INSERT, twice *)

\* What follows when the row <<page, u>> is known to be there.
AfterCreate(r, u) ==
    GoTo(r, IF u = 0 THEN "exists1"
            ELSE IF call[r] = "add_hit" THEN "key"
            ELSE "page_hits")

Exists(r, u) ==
    /\ pc[r] = (IF u = 0 THEN "exists0" ELSE "exists1")
    /\ \/ <<page[r], u>> \in present /\ AfterCreate(r, u)
       \/ <<page[r], u>> \notin present /\ GoTo(r, IF u = 0 THEN "insert0" ELSE "insert1")
    /\ UNCHANGED <<shared, tables, request, locals, history>>

\* Mutant: a row that is there is replaced.
ReplaceRow(r, u) ==
    /\ present' = present \cup {<<page[r], u>>}
    /\ hitcount' = [hitcount EXCEPT ![<<page[r], u>>] = 0]
    /\ UNCHANGED <<nodupes, counted, logged, seen>>

\* INSERT INTO cshits ... VALUES (page, u, 0): the primary key refuses a row
\* that another request has inserted since the SELECT.
InsertRow(r, u) ==
    /\ <<page[r], u>> \notin present
    /\ present' = present \cup {<<page[r], u>>}
    /\ hitcount' = [hitcount EXCEPT ![<<page[r], u>>] = 0]
    /\ UNCHANGED <<nodupes, counted, logged, seen>>

AtInsert(r, u) == pc[r] = (IF u = 0 THEN "insert0" ELSE "insert1")

Insert(r, u) ==
    /\ AtInsert(r, u)
    /\ InsertRow(r, u)
    /\ AfterCreate(r, u)
    /\ UNCHANGED <<shared, request, locals, recorded, lookups, torn>>

DuplicateKey(r, u) ==
    /\ AtInsert(r, u)
    /\ <<page[r], u>> \in present
    /\ Fail(r, FALSE)
    /\ UNCHANGED <<shared, tables, page, visitor, recorded, counted, logged, seen>>

-----------------------------------------------------------------------------
(* id_hash, called by is_unique_hit and again by log_hit *)

\* Under the read lock: has the key expired?
CheckKey(r) ==
    /\ pc[r] = "key"
    /\ GoTo(r, IF is_expired THEN "rotate" ELSE "hash")
    /\ UNCHANGED <<shared, tables, request, locals, history>>

\* Mutant: does not check again.
RotateKeyBlindly(r) ==
    /\ pc[r] = "rotate"
    /\ key' = [gen |-> key.gen + 1, created |-> clock]
    /\ GoTo(r, "hash")
    /\ UNCHANGED <<clock, restarts, tables, request, locals, history>>

\* Under the write lock, after checking again.
RotateKey(r) ==
    /\ pc[r] = "rotate"
    /\ key' = IF is_expired THEN [gen |-> key.gen + 1, created |-> clock] ELSE key
    /\ GoTo(r, "hash")
    /\ UNCHANGED <<clock, restarts, tables, request, locals, history>>

\* What seen holds for the identifier of r's page and visitor under key g.
SeenTimes(r, g) == {row.time : row \in {row \in seen : row.id = IdOf(r, g)}}

\* Mutant: log_hit writes under the identifier the lookup computed.
HashIdOnce(r) ==
    /\ pc[r] = "hash"
    /\ gen' = IF unique[r] THEN gen ELSE [gen EXCEPT ![r] = key.gen]
    /\ \/ unique[r] /\ time' = [time EXCEPT ![r] = clock] /\ met' = met /\ GoTo(r, "log")
       \/ /\ ~unique[r] /\ time' = time /\ GoTo(r, "select")
          /\ met' = [met EXCEPT ![r] = SeenTimes(r, key.gen)]
    /\ UNCHANGED <<shared, tables, request, unique, shown>>
    /\ UNCHANGED <<recorded, counted, logged, began, seen, torn>>

\* Under a second read lock: the identifier.  log_hit then takes the time.
HashId(r) ==
    /\ pc[r] = "hash"
    /\ gen' = [gen EXCEPT ![r] = key.gen]
    /\ \/ unique[r] /\ time' = [time EXCEPT ![r] = clock] /\ met' = met /\ GoTo(r, "log")
       \/ /\ ~unique[r] /\ time' = time /\ GoTo(r, "select")
          /\ met' = [met EXCEPT ![r] = SeenTimes(r, key.gen)]
    /\ UNCHANGED <<shared, tables, request, unique, shown>>
    /\ UNCHANGED <<recorded, counted, logged, began, seen, torn>>

-----------------------------------------------------------------------------
(* is_unique_hit *)

SelectTime(r) ==
    /\ pc[r] = "select"
    /\ time' = [time EXCEPT ![r] = TimeOf(IdOf(r, gen[r]), nodupes)]
    /\ GoTo(r, "decide")
    /\ UNCHANGED <<shared, tables, request, unique, gen, shown, history>>

\* No row, or one that is old by now.
Decide(r) ==
    /\ pc[r] = "decide"
    /\ LET old == time[r] = NoRow \/ time[r] <= clock - HitOldAfter IN
         /\ unique' = [unique EXCEPT ![r] = old]
         /\ GoTo(r, IF old THEN "countUnique" ELSE "countTotal")
    /\ UNCHANGED <<shared, tables, request, gen, time, shown, history>>

-----------------------------------------------------------------------------
(* count_hit and log_hit *)

\* Mutant: the column has no limit.
CountUnbounded(p, u) ==
    /\ hitcount' = IF <<p, u>> \in present
                   THEN [hitcount EXCEPT ![<<p, u>>] = @ + 1] ELSE hitcount
    /\ UNCHANGED <<present, nodupes, logged, seen>>

\* UPDATE cshits SET hitcount = hitcount + 1: touches the row if there is one,
\* and is an error when the column is full.
Count(p, u) ==
    /\ <<p, u>> \in present => hitcount[<<p, u>>] < MaxHitCount
    /\ hitcount' = IF <<p, u>> \in present
                   THEN [hitcount EXCEPT ![<<p, u>>] = @ + 1] ELSE hitcount
    /\ UNCHANGED <<present, nodupes, logged, seen>>

ColumnFull(r) ==
    /\ \/ pc[r] = "countUnique" /\ hitcount[<<page[r], 1>>] = MaxHitCount
       \/ pc[r] = "countTotal" /\ hitcount[<<page[r], 0>>] = MaxHitCount
    /\ Fail(r, InSequence(r))
    /\ UNCHANGED <<shared, tables, page, visitor, recorded, counted, logged, seen>>

CountedUnique(r) ==
    /\ Count(page[r], 1)
    /\ counted' = counted \cup {<<page[r], visitor[r]>>}

CountUnique(r) ==
    /\ pc[r] = "countUnique"
    /\ CountedUnique(r)
    /\ began' = [began EXCEPT ![r] = [gen |-> key.gen, time |-> clock]]
    /\ GoTo(r, "key")
    /\ UNCHANGED <<shared, request, locals, recorded, met, torn>>

\* An INSERT for the same identifier is still to come that will put the time of
\* its row back before r's log_hit began.
Overtaken(r) ==
    \E q \in Requests \ {r} :
        /\ pc[q] = "log" /\ IdOf(q, gen[q]) = IdOf(r, gen[r])
        /\ time[q] < began[r].time

Log(r) ==
    /\ nodupes' = Upsert(IdOf(r, gen[r]), time[r], nodupes)
    /\ logged' = Upsert(IdOf(r, gen[r]), time[r], logged)
    /\ seen' = IF Overtaken(r) THEN seen
               ELSE seen \cup {[id |-> IdOf(r, began[r].gen), time |-> began[r].time]}
    /\ UNCHANGED <<present, hitcount, counted>>

\* Mutant: a unique hit is not counted as a hit.
LogHitAndReturn(r) ==
    /\ pc[r] = "log"
    /\ Log(r)
    /\ EnterGetHitCounts(r)
    /\ recorded' = recorded \cup {<<page[r], visitor[r]>>}
    /\ UNCHANGED <<shared, page, visitor, shown, torn>>

LogHit(r) ==
    /\ pc[r] = "log"
    /\ Log(r)
    /\ GoTo(r, "countTotal")
    /\ UNCHANGED <<shared, request, locals, recorded, lookups, torn>>

\* The last statement of add_hit: it returns Ok(true).
CountTotal(r) ==
    /\ pc[r] = "countTotal"
    /\ Count(page[r], 0) /\ counted' = counted
    /\ EnterGetHitCounts(r)
    /\ recorded' = recorded \cup {<<page[r], visitor[r]>>}
    /\ UNCHANGED <<shared, page, visitor, shown, torn>>

\* The connection is lost after the database executed a statement and before
\* it said so: to the code this is an error like any other.
AnswerLost(r) ==
    /\ \/ pc[r] = "delete" /\ Delete(r) /\ Fail(r, FALSE)
       \/ \E u \in IsUnique : AtInsert(r, u) /\ InsertRow(r, u) /\ Fail(r, FALSE)
       \/ pc[r] = "countUnique" /\ CountedUnique(r) /\ Fail(r, TRUE)
       \/ pc[r] = "log" /\ Log(r) /\ Fail(r, TRUE)
       \/ pc[r] = "countTotal" /\ Count(page[r], 0) /\ counted' = counted /\ Fail(r, FALSE)
    /\ UNCHANGED <<shared, page, visitor, recorded>>

-----------------------------------------------------------------------------
(* get_hit_counts: four separate reads *)

Read(r, field, value, next) ==
    /\ pc[r] = field
    /\ shown' = [shown EXCEPT ![r] = [@ EXCEPT ![field] = value]]
    /\ GoTo(r, next)
    /\ UNCHANGED <<shared, tables, request, unique, gen, time, history>>

\* Mutant: the site totals are read before the page's unique count.
ReadUniqueLast(r) ==
    \/ Read(r, "page_hits", hitcount[<<page[r], 0>>], "total_hits")
    \/ Read(r, "total_hits", Total(0), "total_unique_hits")
    \/ Read(r, "total_unique_hits", Total(1), "unique_hits")
    \/ Read(r, "unique_hits", hitcount[<<page[r], 1>>], "show")

ReadCounts(r) ==
    \/ Read(r, "page_hits", hitcount[<<page[r], 0>>], "unique_hits")
    \/ Read(r, "unique_hits", hitcount[<<page[r], 1>>], "total_hits")
    \/ Read(r, "total_hits", Total(0), "total_unique_hits")
    \/ Read(r, "total_unique_hits", Total(1), "show")

-----------------------------------------------------------------------------
(* The world around the requests *)

Tick ==
    /\ clock < MaxClock
    /\ clock' = clock + 1
    /\ UNCHANGED <<restarts, key, tables, request, pc, locals, history>>

\* The process stops between any two steps and starts again: requests in
\* flight are gone, the tables stay, and there is a new key.
Restart ==
    /\ restarts < MaxRestarts
    /\ restarts' = restarts + 1
    /\ key' = [gen |-> key.gen + 1, created |-> clock]
    /\ pc' = [r \in Requests |-> "idle"]
    /\ call' = [r \in Requests |-> "add_hit"]
    /\ page' = [r \in Requests |-> "none"]
    /\ visitor' = [r \in Requests |-> "none"]
    /\ unique' = [r \in Requests |-> FALSE]
    /\ gen' = [r \in Requests |-> 0]
    /\ time' = [r \in Requests |-> 0]
    /\ began' = [r \in Requests |-> [gen |-> 0, time |-> 0]]
    /\ met' = [r \in Requests |-> {}]
    /\ shown' = [r \in Requests |-> NoCounts]
    /\ torn' = [p \in Pages |-> torn[p] + Cardinality(Sequences(p))]
    /\ UNCHANGED <<clock, tables, recorded, counted, logged, seen>>

-----------------------------------------------------------------------------
(* Specification *)

\* Mutant: a visitor is logged first and counted afterwards.
AddHitLogFirst(r) ==
    \/ Cutoff(r) \/ DeleteOld(r)
    \/ CheckKey(r) \/ RotateKey(r) \/ HashId(r)
    \/ SelectTime(r)
    \/ /\ pc[r] = "decide"
       /\ LET old == time[r] = NoRow \/ time[r] <= clock - HitOldAfter IN
            /\ unique' = [unique EXCEPT ![r] = old]
            /\ GoTo(r, IF old THEN "key" ELSE "countTotal")
       /\ UNCHANGED <<shared, tables, request, gen, time, shown, history>>
    \/ /\ pc[r] = "log"
       /\ Log(r)
       /\ GoTo(r, "countUnique")
       /\ UNCHANGED <<shared, request, locals, recorded, lookups, torn>>
    \/ /\ pc[r] = "countUnique"
       /\ CountedUnique(r)
       /\ GoTo(r, "countTotal")
       /\ UNCHANGED <<shared, request, locals, recorded, lookups, torn>>
    \/ CountTotal(r)

AddHit(r) ==
    \/ Cutoff(r) \/ DeleteOld(r)
    \/ CheckKey(r) \/ RotateKey(r) \/ HashId(r)
    \/ SelectTime(r) \/ Decide(r)
    \/ CountUnique(r) \/ LogHit(r) \/ CountTotal(r)

CreateCounts(r) == \E u \in IsUnique : Exists(r, u) \/ Insert(r, u) \/ DuplicateKey(r, u)

Serve(r) ==
    \/ AddHit(r)
    \/ CreateCounts(r)
    \/ ColumnFull(r) \/ StatementFails(r) \/ AnswerLost(r)
    \/ ReadCounts(r)
    \/ Show(r)

Next ==
    \/ \E r \in Requests : Serve(r) \/ \E p \in Pages, v \in Visitors : Arrive(r, p, v)
    \/ Tick
    \/ Restart

Spec == Init /\ [][Next]_vars

-----------------------------------------------------------------------------
(* Properties *)

Steps == {"idle", "cleanup", "key", "rotate", "hash", "decide", "show"} \cup Statements

\* Each variable has its type.
StateTypes ==
    /\ clock \in 0..MaxClock /\ restarts \in 0..MaxRestarts
    /\ key \in [gen : Nat, created : 0..MaxClock]
    /\ present \subseteq Rows
    /\ hitcount \in [Rows -> 0..MaxHitCount]
    /\ nodupes \subseteq DupRows /\ logged \subseteq DupRows
    /\ pc \in [Requests -> Steps]
    /\ call \in [Requests -> {"add_hit", "get_hit_counts"}]
    /\ page \in [Requests -> Pages \cup {"none"}]
    /\ visitor \in [Requests -> Visitors \cup {"none"}]
    /\ unique \in [Requests -> BOOLEAN]
    /\ gen \in [Requests -> Nat]
    /\ time \in [Requests -> Int]
    /\ recorded \subseteq Pages \X Visitors
    /\ counted \subseteq Pages \X Visitors
    /\ began \in [Requests -> [gen : Nat, time : Nat]]
    /\ seen \subseteq DupRows
    /\ met \in [Requests -> SUBSET Nat]
    /\ torn \in [Pages -> Nat]

TypeOK == StateTypes /\ shown \in [Requests -> [Fields -> Nat]]

\* Whatever fails or is interrupted, and however requests interleave, a page's
\* unique count is never below the number of visitors whose hit was recorded.
\* The order of phpcount.rs:170-173 is what achieves it: a visitor is entered
\* in csnodupes only after it was counted.
UniqueNeverUndercounts ==
    \A p \in Pages : Cardinality(VisitorsOf(p, recorded)) <= hitcount[<<p, 1>>]

\* The two counts of a page drift apart only by sequences that are under way
\* or were interrupted (phpcount.rs:168): without failures, an idle counter
\* never shows more unique hits than hits.
UniqueWithinTotal ==
    \A p \in Pages :
        hitcount[<<p, 1>>] <= hitcount[<<p, 0>>] + torn[p] + Cardinality(Sequences(p))

\* A row is deleted only when the uniqueness test no longer cares for it: a
\* cutoff taken before the DELETE ran, by any request, reaches no row that
\* another request would still find young (phpcount.rs:288 and :404).
CleanupKeepsWhatCounts ==
    \A row \in logged \ nodupes : row.time <= clock - HitOldAfter

\* A hit that log_hit has recorded keeps the visitor from being found unique for
\* HitOldAfter ticks, counted from when that log_hit began: no lookup that begins
\* after it was recorded says otherwise, whatever other requests log, delete and
\* rotate meanwhile.  It is so under the key in force when log_hit began: a
\* rotation forgets the visitor.  And it is so unless, when the hit was recorded,
\* a request that had taken an earlier time (phpcount.rs:297) had its INSERT still
\* to come: that INSERT puts the row's time back, and the visitor is unique again
\* as much sooner (phpcount.rs:275, :288 and :300-306).
UniqueOnlyAfterRetention ==
    \A r \in Requests :
        pc[r] = "countUnique" => \A t \in met[r] : t <= clock - HitOldAfter

\* The site totals shown with a page are never below the counts shown for the
\* page, although four statements read them while others count.
ShownTotalsCoverPage ==
    \A r \in Requests : pc[r] = "show" =>
        /\ shown[r]["page_hits"] <= shown[r]["total_hits"]
        /\ shown[r]["unique_hits"] <= shown[r]["total_unique_hits"]

\* A key is replaced only by a restart or when it has served its lifetime, and
\* once: requests that found it expired together do not replace it again.
KeyServesItsLifetime ==
    [][key'.gen # key.gen => restarts' # restarts \/ clock - key.created >= KeyLifetime]_vars

\* "rotation never orphans a row that is still being consulted"
\* (phpcount.rs:41): a row written under an earlier key is old.
RotationOrphansNoYoungRow ==
    \A row \in nodupes : row.id.gen # key.gen => row.time <= clock - HitOldAfter

-----------------------------------------------------------------------------
(* The abstract specification *)

\* What the rows, the history and the requests under way stand for, per page.
HitsOf(u) == [p \in Pages |-> hitcount[<<p, u>>]]
KnownVisitors == [p \in Pages |-> VisitorsOf(p, counted)]
UnderWay == [p \in Pages |-> Cardinality(Sequences(p))]

Ledger == INSTANCE HitLedger WITH
    hits <- HitsOf(0),
    uniques <- HitsOf(1),
    known <- KnownVisitors,
    open <- UnderWay,
    lost <- torn

\* Every step of the counter is one stroke of the ledger or none: no race, retry,
\* cleanup or rotation takes a count back, counts twice in one step, or counts a
\* returning visitor who never was a new one (phpcount.rs:155-176).
ImplementsLedger == Ledger!LSpec
===============================================================================
