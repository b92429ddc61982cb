---------------------------- MODULE PhpCount_proofs ----------------------------
(***************************************************************************)
(* Proofs about PhpCount, for every value of its constants.                *)
(*                                                                         *)
(* First the tables and what decides uniqueness, with the invariant        *)
(* CounterInv; then how long a logged visitor is remembered, with          *)
(* RetentionInv on top of it; then the counts a page shows, with ShownInv: *)
(* the site totals are sums over a set, and what a sum returns is proved   *)
(* by induction over the set (module Induction).  Last, that the counter   *)
(* implements HitLedger.                                                   *)
(***************************************************************************)
EXTENDS PhpCount, Induction

-----------------------------------------------------------------------------
(* The inductive invariant *)

\* The steps of add_hit alone, and those at which the rows of the page exist.
AddSteps == {"cleanup", "delete", "key", "rotate", "hash", "select", "decide",
             "countUnique", "log", "countTotal"}
ReadSteps == {"page_hits", "unique_hits", "total_hits", "total_unique_hits"}
CountingSteps == AddSteps \ {"cleanup", "delete"}

\* What the step of a request says about its locals and its rows.
ControlOf(r) ==
    /\ pc[r] # "idle" => page[r] \in Pages /\ visitor[r] \in Visitors
    /\ pc[r] \in AddSteps => call[r] = "add_hit"
    /\ pc[r] \in ReadSteps \cup {"show"} => call[r] = "get_hit_counts"
    /\ unique[r] => pc[r] \in {"countUnique", "key", "rotate", "hash", "log", "countTotal"}
    /\ pc[r] = "log" => unique[r] /\ time[r] \in Nat
    /\ pc[r] = "countUnique" => unique[r]
    /\ pc[r] \in {"exists1", "insert1"} => <<page[r], 0>> \in present
    /\ pc[r] \in CountingSteps \cup ReadSteps =>
          <<page[r], 0>> \in present /\ <<page[r], 1>> \in present

Control == \A r \in Requests : ControlOf(r)

\* Who counted: a request that found a row, or that is past the unique count,
\* is about a visitor that was counted.
CountedOf(r) ==
    (pc[r] = "decide" /\ time[r] # NoRow) \/ pc[r] = "countTotal" \/ InSequence(r)
        => <<page[r], visitor[r]>> \in counted

\* The cutoff of a request, taken from the clock earlier on, still lies before
\* the retention period.
TimesOf(r) == pc[r] = "delete" => time[r] <= clock - HitOldAfter

RequestInv == \A r \in Requests : CountedOf(r) /\ TimesOf(r)

\* The tables: what is logged was counted, what is counted is covered by the
\* page's unique count, and an identifier has one row.
AbsentIsZero == \A row \in Rows \ present : hitcount[row] = 0

LoggedWasCounted ==
    /\ recorded \subseteq counted
    /\ \A row \in logged : <<row.id.page, row.id.visitor>> \in counted

CountedIsCovered ==
    \A p \in Pages : Cardinality(VisitorsOf(p, counted)) <= hitcount[<<p, 1>>]

OneRowIn(rows) == \A row1, row2 \in rows : row1.id = row2.id => row1 = row2

TableInv ==
    /\ AbsentIsZero
    /\ LoggedWasCounted
    /\ CountedIsCovered
    /\ nodupes \subseteq logged
    /\ OneRowIn(logged)
    /\ CleanupKeepsWhatCounts

CounterInv == StateTypes /\ Control /\ RequestInv /\ TableInv

\* The invariant holds of a new process on an empty database.
LEMMA InitInv == Init => CounterInv
<1> SUFFICES ASSUME Init PROVE CounterInv
  OBVIOUS
<1> USE CounterAssumption DEF Init
<1>1. StateTypes
  BY DEF StateTypes, Steps, NoRow
<1>2. Control
  BY DEF Control, ControlOf, AddSteps, ReadSteps, CountingSteps
<1>3. RequestInv
  BY DEF RequestInv, CountedOf, TimesOf, InSequence
<1>4. CountedIsCovered
  <2>. SUFFICES ASSUME NEW p \in Pages
       PROVE  Cardinality(VisitorsOf(p, counted)) <= hitcount[<<p, 1>>]
    BY DEF CountedIsCovered
  <2>1. VisitorsOf(p, counted) = {}
    BY DEF VisitorsOf
  <2>2. Cardinality(VisitorsOf(p, counted)) = 0
    BY <2>1, FS_EmptySet
  <2>3. hitcount[<<p, 1>>] = 0
    BY DEF Rows, IsUnique
  <2>. QED
    BY <2>2, <2>3
<1>5. TableInv
  BY <1>4 DEF TableInv, AbsentIsZero, LoggedWasCounted, OneRowIn, CleanupKeepsWhatCounts
<1>. QED
  BY <1>1, <1>2, <1>3, <1>5 DEF CounterInv

-----------------------------------------------------------------------------
(* Type correctness *)

\* What failing does to a request.
LEMMA FailStep ==
    ASSUME StateTypes, NEW r \in Requests, NEW tears \in BOOLEAN,
           page[r] \in Pages, Fail(r, tears)
    PROVE  /\ pc' \in [Requests -> Steps]
           /\ call' \in [Requests -> {"add_hit", "get_hit_counts"}]
           /\ unique' \in [Requests -> BOOLEAN]
           /\ gen' \in [Requests -> Nat]
           /\ time' \in [Requests -> Int]
           /\ began' \in [Requests -> [gen : Nat, time : Nat]]
           /\ met' \in [Requests -> SUBSET Nat]
           /\ torn' \in [Pages -> Nat]
<1>1. torn' \in [Pages -> Nat]
  BY DEF StateTypes, Fail
<1>2. CASE call[r] = "add_hit" /\ EnterGetHitCounts(r)
  BY <1>1, <1>2 DEF StateTypes, EnterGetHitCounts, Forget, GoTo, Steps, Statements
<1>3. CASE GoTo(r, "show") /\ UNCHANGED <<call, unique, gen, time, lookups>>
  BY <1>1, <1>3 DEF StateTypes, GoTo, Steps, lookups
<1>4. QED
  BY <1>2, <1>3 DEF Fail

\* What SELECT time returns.
LEMMA TimeOfType ==
    ASSUME NEW rows \in SUBSET DupRows, NEW i
    PROVE  TimeOf(i, rows) \in Nat \cup {NoRow}
<1>1. CASE \E row \in rows : row.id = i
  <2>. DEFINE found == CHOOSE row \in rows : row.id = i
  <2>1. found \in rows
    BY <1>1
  <2>2. found.time \in Nat
    BY <2>1 DEF DupRows
  <2>. QED
    BY <1>1, <2>2 DEF TimeOf
<1>2. CASE ~ \E row \in rows : row.id = i
  BY <1>2 DEF TimeOf
<1>. QED
  BY <1>1, <1>2

\* An UPDATE keeps the column within its width.
LEMMA CountType ==
    ASSUME StateTypes, NEW p \in Pages, NEW u \in IsUnique, Count(p, u)
    PROVE  hitcount' \in [Rows -> 0..MaxHitCount]
<1>1. <<p, u>> \in Rows /\ hitcount \in [Rows -> 0..MaxHitCount]
  BY DEF Rows, StateTypes
<1>2. CASE <<p, u>> \in present
  <2>1. hitcount[<<p, u>>] + 1 \in 0..MaxHitCount
    BY <1>1, <1>2, CounterAssumption DEF Count
  <2>2. hitcount' = [hitcount EXCEPT ![<<p, u>>] = hitcount[<<p, u>>] + 1]
    BY <1>2 DEF Count
  <2>. QED
    BY <1>1, <2>1, <2>2
<1>3. CASE <<p, u>> \notin present
  BY <1>1, <1>3 DEF Count
<1>. QED
  BY <1>2, <1>3

\* What log_hit writes is a row.
LEMMA LogType ==
    ASSUME StateTypes, NEW r \in Requests, page[r] \in Pages, visitor[r] \in Visitors,
           time[r] \in Nat, NEW rows \in SUBSET DupRows
    PROVE  /\ Upsert(IdOf(r, gen[r]), time[r], rows) \in SUBSET DupRows
           /\ [id |-> IdOf(r, began[r].gen), time |-> began[r].time] \in DupRows
  BY DEF StateTypes, Upsert, IdOf, DupRows, Ids

\* Every step keeps the types of the state.
LEMMA TypesStep ==
    StateTypes /\ Control /\ [Next]_vars => StateTypes'
<1> SUFFICES ASSUME StateTypes, Control, [Next]_vars PROVE StateTypes'
  OBVIOUS
<1> USE CounterAssumption
    DEF StateTypes, Steps, Rows, IsUnique, NoRow, shared, tables, request, locals, lookups, history, GoTo
<1>1. ASSUME NEW r \in Requests, Cutoff(r) \/ CheckKey(r) \/ RotateKey(r)
      PROVE  StateTypes'
  <2>1. CASE Cutoff(r)
    BY <2>1 DEF Cutoff, Statements
  <2>2. CASE CheckKey(r)
    <3>1. pc' \in [Requests -> Steps]
      BY <2>2 DEF CheckKey, Statements
    <3>. QED
      BY <2>2, <3>1 DEF CheckKey
  <2>3. CASE RotateKey(r)
    <3>1. key' \in [gen : Nat, created : 0..MaxClock]
      BY <2>3 DEF RotateKey
    <3>2. pc' \in [Requests -> Steps]
      BY <2>3 DEF RotateKey, Statements
    <3>. QED
      BY <2>3, <3>1, <3>2 DEF RotateKey
  <2>. QED
    BY <1>1, <2>1, <2>2, <2>3
<1>2. ASSUME NEW r \in Requests, HashId(r) \/ Decide(r)
      PROVE  StateTypes'
  <2>1. pc' \in [Requests -> Steps]
    <3>1. \/ pc' = [pc EXCEPT ![r] = "log"] \/ pc' = [pc EXCEPT ![r] = "select"]
          \/ pc' = [pc EXCEPT ![r] = "countUnique"] \/ pc' = [pc EXCEPT ![r] = "countTotal"]
      BY <1>2, Zenon DEF HashId, Decide
    <3>. QED
      BY <3>1 DEF Statements
  <2>2. CASE HashId(r)
    <3>1. clock \in Int /\ key.gen \in Nat
      OBVIOUS
    <3>2. SeenTimes(r, key.gen) \in SUBSET Nat
      BY DEF SeenTimes, DupRows
    <3>3. met' \in [Requests -> SUBSET Nat]
      BY <2>2, <3>2, Zenon DEF HashId
    <3>4. time' \in [Requests -> Int]
      BY <2>2, <3>1, Zenon DEF HashId
    <3>. QED
      BY <2>1, <2>2, <3>1, <3>3, <3>4 DEF HashId
  <2>3. CASE Decide(r)
    <3>1. unique' \in [Requests -> BOOLEAN]
      BY <2>3, Zenon DEF Decide
    <3>. QED
      BY <2>1, <2>3, <3>1 DEF Decide
  <2>. QED
    BY <1>2, <2>2, <2>3
<1>3. ASSUME NEW r \in Requests, DeleteOld(r) PROVE StateTypes'
  BY <1>3 DEF DeleteOld, Delete, Statements
<1>4. ASSUME NEW r \in Requests, SelectTime(r) PROVE StateTypes'
  BY <1>4, TimeOfType DEF SelectTime
<1>5. ASSUME NEW r \in Requests, CountUnique(r) PROVE StateTypes'
  <2>1. page[r] \in Pages /\ visitor[r] \in Visitors
    BY <1>5 DEF CountUnique, Control, ControlOf
  <2>2. hitcount' \in [Rows -> 0..MaxHitCount]
    BY <1>5, <2>1, CountType DEF CountUnique, CountedUnique
  <2>. QED
    BY <1>5, <2>1, <2>2 DEF CountUnique, CountedUnique, Count, Statements
<1>6. ASSUME NEW r \in Requests, LogHit(r) PROVE StateTypes'
  BY <1>6, LogType DEF LogHit, Log, Control, ControlOf, Statements
<1>7. ASSUME NEW r \in Requests, CountTotal(r) PROVE StateTypes'
  <2>1. page[r] \in Pages /\ visitor[r] \in Visitors
    BY <1>7 DEF CountTotal, Control, ControlOf
  <2>2. hitcount' \in [Rows -> 0..MaxHitCount]
    BY <1>7, <2>1, CountType DEF CountTotal
  <2>. QED
    BY <1>7, <2>1, <2>2 DEF CountTotal, Count, EnterGetHitCounts, Forget, Statements
<1>8. ASSUME NEW r \in Requests, CreateCounts(r) PROVE StateTypes'
  <2>. PICK u \in IsUnique : Exists(r, u) \/ Insert(r, u) \/ DuplicateKey(r, u)
    BY <1>8 DEF CreateCounts
  <2>1. CASE Exists(r, u)
    BY <2>1 DEF Exists, AfterCreate, Statements
  <2>2. CASE Insert(r, u)
    <3>1. page[r] \in Pages
      BY <2>2 DEF Insert, AtInsert, Control, ControlOf
    <3>2. pc' \in [Requests -> Steps]
      BY <2>2 DEF Insert, AfterCreate, Statements
    <3>3. hitcount' \in [Rows -> 0..MaxHitCount] /\ present' \subseteq Rows
      BY <2>2, <3>1 DEF Insert, InsertRow
    <3>. QED
      BY <2>2, <3>2, <3>3 DEF Insert, InsertRow
  <2>3. CASE DuplicateKey(r, u)
    BY <2>3, FailStep DEF DuplicateKey, AtInsert, Control, ControlOf
  <2>. QED
    BY <2>1, <2>2, <2>3
<1>9. ASSUME NEW r \in Requests, ColumnFull(r) \/ StatementFails(r) PROVE StateTypes'
  <2>1. page[r] \in Pages /\ Fail(r, InSequence(r)) /\ InSequence(r) \in BOOLEAN
    BY <1>9 DEF ColumnFull, StatementFails, Statements, Control, ControlOf, InSequence
  <2>. QED
    BY <1>9, <2>1, FailStep DEF ColumnFull, StatementFails
<1>10. ASSUME NEW r \in Requests, AnswerLost(r) PROVE StateTypes'
  <2>. PICK tears \in BOOLEAN : Fail(r, tears)
    BY <1>10 DEF AnswerLost
  <2>1. page[r] \in Pages /\ visitor[r] \in Visitors
    BY <1>10 DEF AnswerLost, AtInsert, Control, ControlOf
  <2>2. /\ present' \subseteq Rows /\ hitcount' \in [Rows -> 0..MaxHitCount]
        /\ nodupes' \subseteq DupRows /\ logged' \subseteq DupRows
        /\ seen' \subseteq DupRows
        /\ counted' \subseteq Pages \X Visitors
    <3>1. CASE pc[r] = "delete" /\ Delete(r)
      BY <3>1 DEF Delete
    <3>2. CASE \E u \in IsUnique : AtInsert(r, u) /\ InsertRow(r, u)
      BY <2>1, <3>2 DEF InsertRow
    <3>3. CASE pc[r] = "countUnique" /\ CountedUnique(r)
      BY <2>1, <3>3, CountType DEF CountedUnique, Count
    <3>4. CASE pc[r] = "log" /\ Log(r)
      BY <2>1, <3>4, LogType DEF Log, Control, ControlOf
    <3>5. CASE Count(page[r], 0) /\ counted' = counted
      BY <2>1, <3>5, CountType DEF Count
    <3>. QED
      BY <1>10, <3>1, <3>2, <3>3, <3>4, <3>5 DEF AnswerLost
  <2>. QED
    BY <1>10, <2>1, <2>2, FailStep DEF AnswerLost
<1>11. ASSUME NEW r \in Requests, ReadCounts(r) \/ Show(r) PROVE StateTypes'
  BY <1>11 DEF ReadCounts, Read, Show, Statements
<1>12. ASSUME NEW r \in Requests, NEW p \in Pages, NEW v \in Visitors, Arrive(r, p, v)
       PROVE  StateTypes'
  BY <1>12 DEF Arrive, Statements
<1>13. CASE Tick
  BY <1>13 DEF Tick
<1>14. CASE Restart
  <2>1. \A p \in Pages : Cardinality(Sequences(p)) \in Nat
    BY FS_Subset, FS_CardinalityType DEF Sequences
  <2>2. torn' \in [Pages -> Nat]
    BY <1>14, <2>1 DEF Restart
  <2>3. key' \in [gen : Nat, created : 0..MaxClock]
    BY <1>14 DEF Restart
  <2>. QED
    BY <1>14, <2>2, <2>3 DEF Restart
<1>15. CASE UNCHANGED vars
  BY <1>15 DEF vars
<1>. QED
  BY <1>1, <1>2, <1>3, <1>4, <1>5, <1>6, <1>7, <1>8, <1>9, <1>10, <1>11, <1>12, <1>13, <1>14, <1>15
  DEF Next, Serve, AddHit

-----------------------------------------------------------------------------
(* What a step does to the tables *)

\* The six things a step can do to the tables, whatever it does to a request.
LEMMA TablesStep ==
    ASSUME [Next]_vars
    PROVE  \/ UNCHANGED <<present, hitcount, nodupes, counted, logged, seen>>
           \/ \E r \in Requests :
                \/ pc[r] = "delete" /\ Delete(r)
                \/ \E u \in IsUnique : AtInsert(r, u) /\ InsertRow(r, u)
                \/ pc[r] = "countUnique" /\ CountedUnique(r)
                \/ pc[r] = "log" /\ Log(r)
                \/ pc[r] = "countTotal" /\ Count(page[r], 0) /\ counted' = counted
<1> USE DEF shared, tables, request, locals, lookups, history
<1>1. ASSUME NEW r \in Requests, AddHit(r)
      PROVE  \/ UNCHANGED <<present, hitcount, nodupes, counted, logged, seen>>
             \/ pc[r] = "delete" /\ Delete(r)
             \/ pc[r] = "countUnique" /\ CountedUnique(r)
             \/ pc[r] = "log" /\ Log(r)
             \/ pc[r] = "countTotal" /\ Count(page[r], 0) /\ counted' = counted
  <2>1. CASE Cutoff(r) \/ CheckKey(r) \/ RotateKey(r) \/ HashId(r) \/ SelectTime(r) \/ Decide(r)
    BY <2>1 DEF Cutoff, CheckKey, RotateKey, HashId, SelectTime, Decide
  <2>2. CASE DeleteOld(r) \/ CountUnique(r) \/ LogHit(r) \/ CountTotal(r)
    BY <2>2 DEF DeleteOld, CountUnique, LogHit, CountTotal
  <2>. QED
    BY <1>1, <2>1, <2>2 DEF AddHit
<1>2. ASSUME NEW r \in Requests, CreateCounts(r)
      PROVE  \/ UNCHANGED <<present, hitcount, nodupes, counted, logged, seen>>
             \/ \E u \in IsUnique : AtInsert(r, u) /\ InsertRow(r, u)
  BY <1>2 DEF CreateCounts, Exists, Insert, DuplicateKey
<1>3. ASSUME NEW r \in Requests,
             ColumnFull(r) \/ StatementFails(r) \/ ReadCounts(r) \/ Show(r)
      PROVE  UNCHANGED <<present, hitcount, nodupes, counted, logged, seen>>
  BY <1>3 DEF ColumnFull, StatementFails, ReadCounts, Read, Show
<1>4. ASSUME NEW r \in Requests, AnswerLost(r)
      PROVE  \/ pc[r] = "delete" /\ Delete(r)
             \/ \E u \in IsUnique : AtInsert(r, u) /\ InsertRow(r, u)
             \/ pc[r] = "countUnique" /\ CountedUnique(r)
             \/ pc[r] = "log" /\ Log(r)
             \/ pc[r] = "countTotal" /\ Count(page[r], 0) /\ counted' = counted
  BY <1>4 DEF AnswerLost
<1>5. ASSUME NEW r \in Requests, NEW p \in Pages, NEW v \in Visitors, Arrive(r, p, v)
      PROVE  UNCHANGED <<present, hitcount, nodupes, counted, logged, seen>>
  BY <1>5 DEF Arrive
<1>6. CASE Tick \/ Restart \/ UNCHANGED vars
  BY <1>6 DEF Tick, Restart, vars
<1>. QED
  BY <1>1, <1>2, <1>3, <1>4, <1>5, <1>6 DEF Next, Serve

\* Only the last step of add_hit records a hit.
LEMMA RecordedStep ==
    ASSUME [Next]_vars
    PROVE  \/ recorded' = recorded
           \/ \E r \in Requests :
                /\ pc[r] = "countTotal"
                /\ recorded' = recorded \cup {<<page[r], visitor[r]>>}
                /\ counted' = counted
<1> USE DEF shared, tables, request, locals, lookups, history
<1>1. ASSUME NEW r \in Requests, AddHit(r)
      PROVE  \/ recorded' = recorded
             \/ /\ pc[r] = "countTotal"
                /\ recorded' = recorded \cup {<<page[r], visitor[r]>>}
                /\ counted' = counted
  BY <1>1 DEF AddHit, Cutoff, DeleteOld, CheckKey, RotateKey, HashId, SelectTime, Decide,
              CountUnique, LogHit, CountTotal
<1>2. ASSUME NEW r \in Requests,
             \/ CreateCounts(r) \/ ColumnFull(r) \/ StatementFails(r) \/ AnswerLost(r)
             \/ ReadCounts(r) \/ Show(r)
      PROVE  recorded' = recorded
  BY <1>2 DEF CreateCounts, Exists, Insert, DuplicateKey, ColumnFull, StatementFails,
              AnswerLost, ReadCounts, Read, Show
<1>3. ASSUME NEW r \in Requests, NEW p \in Pages, NEW v \in Visitors, Arrive(r, p, v)
      PROVE  recorded' = recorded
  BY <1>3 DEF Arrive
<1>4. CASE Tick \/ Restart \/ UNCHANGED vars
  BY <1>4 DEF Tick, Restart, vars
<1>. QED
  BY <1>1, <1>2, <1>3, <1>4 DEF Next, Serve

\* The clock does not go back.
LEMMA ClockStep ==
    ASSUME StateTypes, [Next]_vars
    PROVE  clock' \in Nat /\ clock <= clock' /\ clock \in Nat
<1> USE CounterAssumption DEF StateTypes, shared
<1>1. ASSUME NEW r \in Requests, Serve(r) PROVE clock' = clock
  BY <1>1 DEF Serve, AddHit, Cutoff, DeleteOld, CheckKey, RotateKey, HashId, SelectTime, Decide,
              CountUnique, LogHit, CountTotal, CreateCounts, Exists, Insert, DuplicateKey,
              ColumnFull, StatementFails, AnswerLost, ReadCounts, Read, Show
<1>2. ASSUME NEW r \in Requests, NEW p \in Pages, NEW v \in Visitors, Arrive(r, p, v)
      PROVE  clock' = clock
  BY <1>2 DEF Arrive
<1>3. CASE Restart \/ UNCHANGED vars
  BY <1>3 DEF Restart, vars
<1>4. CASE Tick
  BY <1>4 DEF Tick
<1>5. CASE clock' = clock
  BY <1>5
<1>. QED
  BY <1>1, <1>2, <1>3, <1>4, <1>5 DEF Next

-----------------------------------------------------------------------------
(* The tables *)

\* The visitors of a page can be counted.
LEMMA VisitorsFinite ==
    ASSUME NEW p, NEW S
    PROVE  IsFiniteSet(VisitorsOf(p, S)) /\ Cardinality(VisitorsOf(p, S)) \in Nat
  BY CounterAssumption, FS_Subset, FS_CardinalityType DEF VisitorsOf

\* One more visitor of a page is at most one more counted visitor.
LEMMA OneMoreVisitor ==
    ASSUME NEW p, NEW q, NEW w, NEW S
    PROVE  /\ Cardinality(VisitorsOf(p, S)) \in Nat
           /\ Cardinality(VisitorsOf(p, S \cup {<<q, w>>})) <= Cardinality(VisitorsOf(p, S)) + 1
<1>1. IsFiniteSet(VisitorsOf(p, S)) /\ Cardinality(VisitorsOf(p, S)) \in Nat
  BY VisitorsFinite
<1>2. \/ VisitorsOf(p, S \cup {<<q, w>>}) = VisitorsOf(p, S)
      \/ VisitorsOf(p, S \cup {<<q, w>>}) = VisitorsOf(p, S) \cup {w}
  BY DEF VisitorsOf
<1>3. \/ Cardinality(VisitorsOf(p, S) \cup {w}) = Cardinality(VisitorsOf(p, S))
      \/ Cardinality(VisitorsOf(p, S) \cup {w}) = Cardinality(VisitorsOf(p, S)) + 1
  BY <1>1, FS_AddElement
<1>4. \/ Cardinality(VisitorsOf(p, S \cup {<<q, w>>})) = Cardinality(VisitorsOf(p, S))
      \/ Cardinality(VisitorsOf(p, S \cup {<<q, w>>})) = Cardinality(VisitorsOf(p, S)) + 1
  BY <1>2, <1>3
<1>5. Cardinality(VisitorsOf(p, S \cup {<<q, w>>})) <= Cardinality(VisitorsOf(p, S)) + 1
  BY <1>1, <1>4
<1>. QED
  BY <1>1, <1>5

\* A smaller set of pairs has no more visitors.
LEMMA FewerVisitors ==
    ASSUME NEW p, NEW S, NEW T, S \subseteq T
    PROVE  /\ Cardinality(VisitorsOf(p, S)) \in Nat
           /\ Cardinality(VisitorsOf(p, T)) \in Nat
           /\ Cardinality(VisitorsOf(p, S)) <= Cardinality(VisitorsOf(p, T))
<1>1. IsFiniteSet(VisitorsOf(p, T)) /\ VisitorsOf(p, S) \subseteq VisitorsOf(p, T)
  BY CounterAssumption, FS_Subset DEF VisitorsOf
<1>. QED
  BY <1>1, FS_Subset, FS_CardinalityType

\* The unique count keeps up with the visitors that were counted.
LEMMA CoveredStep ==
    ASSUME StateTypes, Control, AbsentIsZero, CountedIsCovered, [Next]_vars
    PROVE  AbsentIsZero' /\ CountedIsCovered'
<1>. USE DEF StateTypes, Rows, IsUnique
<1>1. CASE UNCHANGED <<present, hitcount, nodupes, counted, logged, seen>>
  BY <1>1 DEF AbsentIsZero, CountedIsCovered, VisitorsOf
<1>2. ASSUME NEW r \in Requests, Delete(r) \/ Log(r)
      PROVE  AbsentIsZero' /\ CountedIsCovered'
  BY <1>2 DEF Delete, Log, AbsentIsZero, CountedIsCovered, VisitorsOf
<1>3. ASSUME NEW r \in Requests, NEW u \in IsUnique, AtInsert(r, u), InsertRow(r, u)
      PROVE  AbsentIsZero' /\ CountedIsCovered'
  <2>1. page[r] \in Pages
    BY <1>3 DEF AtInsert, Control, ControlOf
  <2>2. hitcount' = hitcount
    BY <1>3, <2>1 DEF InsertRow, AbsentIsZero
  <2>. QED
    BY <1>3, <2>1, <2>2 DEF InsertRow, AbsentIsZero, CountedIsCovered, VisitorsOf
<1>4. ASSUME NEW r \in Requests, pc[r] = "countUnique", CountedUnique(r)
      PROVE  AbsentIsZero' /\ CountedIsCovered'
  <2>1. /\ page[r] \in Pages /\ <<page[r], 1>> \in present
        /\ hitcount' = [hitcount EXCEPT ![<<page[r], 1>>] = @ + 1]
        /\ present' = present
    BY <1>4 DEF Control, ControlOf, CountingSteps, AddSteps, CountedUnique, Count
  <2>2. AbsentIsZero'
    BY <2>1 DEF AbsentIsZero
  <2>3. ASSUME NEW p \in Pages
        PROVE  Cardinality(VisitorsOf(p, counted')) <= hitcount'[<<p, 1>>]
    <3>1. counted' = counted \cup {<<page[r], visitor[r]>>}
      BY <1>4 DEF CountedUnique
    <3>2. Cardinality(VisitorsOf(p, counted)) \in Nat /\ hitcount[<<p, 1>>] \in Nat
      <4>1. hitcount[<<p, 1>>] \in 0..MaxHitCount
        OBVIOUS
      <4>. QED
        BY <4>1, VisitorsFinite, CounterAssumption
    <3>3. Cardinality(VisitorsOf(p, counted)) <= hitcount[<<p, 1>>]
      BY DEF CountedIsCovered
    <3>4. CASE p = page[r]
      <4>1. hitcount'[<<p, 1>>] = hitcount[<<p, 1>>] + 1
        BY <2>1, <3>4
      <4>2. Cardinality(VisitorsOf(p, counted')) <= Cardinality(VisitorsOf(p, counted)) + 1
        BY <3>1, OneMoreVisitor
      <4>3. Cardinality(VisitorsOf(p, counted')) \in Nat
        BY OneMoreVisitor
      <4>. QED
        BY <3>2, <3>3, <4>1, <4>2, <4>3
    <3>5. CASE p # page[r]
      <4>1. hitcount'[<<p, 1>>] = hitcount[<<p, 1>>]
        BY <2>1, <3>5
      <4>2. VisitorsOf(p, counted \cup {<<page[r], visitor[r]>>}) = VisitorsOf(p, counted)
        BY <3>5 DEF VisitorsOf
      <4>. QED
        BY <3>1, <3>3, <4>1, <4>2
    <3>. QED
      BY <3>4, <3>5
  <2>. QED
    BY <2>2, <2>3 DEF CountedIsCovered, VisitorsOf
<1>5. ASSUME NEW r \in Requests, pc[r] = "countTotal", Count(page[r], 0), counted' = counted
      PROVE  AbsentIsZero' /\ CountedIsCovered'
  <2>1. /\ page[r] \in Pages /\ <<page[r], 0>> \in present
        /\ hitcount' = [hitcount EXCEPT ![<<page[r], 0>>] = @ + 1]
        /\ present' = present
    BY <1>5 DEF Control, ControlOf, CountingSteps, AddSteps, Count
  <2>2. \A p \in Pages : hitcount'[<<p, 1>>] = hitcount[<<p, 1>>]
    BY <2>1
  <2>3. AbsentIsZero'
    BY <2>1 DEF AbsentIsZero
  <2>. QED
    BY <1>5, <2>2, <2>3 DEF CountedIsCovered, VisitorsOf
<1>. QED
  BY <1>1, <1>2, <1>3, <1>4, <1>5, TablesStep

\* Rows keep their identifiers apart.
LEMMA UpsertKeepsApart ==
    ASSUME NEW rows, OneRowIn(rows), NEW i, NEW t
    PROVE  OneRowIn(Upsert(i, t, rows))
  BY DEF OneRowIn, Upsert

\* The table of visitors: what is deleted is old, and an identifier has one row.
LEMMA LoggedStep ==
    ASSUME StateTypes, Control, RequestInv, TableInv, [Next]_vars
    PROVE  /\ LoggedWasCounted'
           /\ nodupes' \subseteq logged'
           /\ OneRowIn(logged)'
           /\ CleanupKeepsWhatCounts'
<1>0. clock \in Nat /\ clock' \in Nat /\ clock <= clock' /\ HitOldAfter \in Nat
  BY ClockStep, CounterAssumption
<1>1. /\ nodupes \subseteq logged /\ OneRowIn(logged) /\ LoggedWasCounted
      /\ \A row \in logged \ nodupes : row.time <= clock' - HitOldAfter
      /\ \A row \in logged : row.time \in Nat
  <2>1. \A row \in logged : row.time \in Nat
    BY DEF StateTypes, DupRows
  <2>. QED
    BY <1>0, <2>1 DEF TableInv, CleanupKeepsWhatCounts
<1>2. CASE nodupes' = nodupes /\ logged' = logged
  <2>1. counted \subseteq counted'
    BY TablesStep DEF Delete, InsertRow, CountedUnique, Log
  <2>2. recorded' \subseteq counted'
    BY <2>1, <1>1, RecordedStep DEF LoggedWasCounted, RequestInv, CountedOf
  <2>. QED
    BY <1>1, <1>2, <2>1, <2>2 DEF LoggedWasCounted, CleanupKeepsWhatCounts, OneRowIn
<1>3. ASSUME NEW r \in Requests, pc[r] = "delete", Delete(r)
      PROVE  /\ LoggedWasCounted' /\ nodupes' \subseteq logged'
             /\ OneRowIn(logged)' /\ CleanupKeepsWhatCounts'
  <2>1. time[r] \in Int /\ time[r] <= clock - HitOldAfter
    BY <1>3 DEF RequestInv, TimesOf, StateTypes
  <2>2. \A row \in logged' \ nodupes' : row.time <= clock' - HitOldAfter
    BY <1>0, <1>1, <1>3, <2>1 DEF Delete
  <2>3. LoggedWasCounted'
    BY <1>1, <1>3, RecordedStep DEF LoggedWasCounted, Delete, RequestInv, CountedOf
  <2>. QED
    BY <1>1, <1>3, <2>2, <2>3 DEF Delete, CleanupKeepsWhatCounts, OneRowIn
<1>4. ASSUME NEW r \in Requests, pc[r] = "log", Log(r)
      PROVE  /\ LoggedWasCounted' /\ nodupes' \subseteq logged'
             /\ OneRowIn(logged)' /\ CleanupKeepsWhatCounts'
  <2>1. <<page[r], visitor[r]>> \in counted
    BY <1>4 DEF RequestInv, CountedOf, InSequence, Control, ControlOf
  <2>2. /\ logged' = Upsert(IdOf(r, gen[r]), time[r], logged)
        /\ nodupes' = Upsert(IdOf(r, gen[r]), time[r], nodupes)
        /\ counted' = counted
    BY <1>4 DEF Log
  <2>3. OneRowIn(logged')
    BY <1>1, <2>2, UpsertKeepsApart
  <2>4. nodupes' \subseteq logged' /\ logged' \ nodupes' \subseteq logged \ nodupes
    BY <1>1, <2>2 DEF Upsert
  <2>5. LoggedWasCounted'
    <3>1. recorded' \subseteq counted'
      BY <1>1, <2>2, RecordedStep DEF LoggedWasCounted, RequestInv, CountedOf
    <3>2. \A row \in logged' : <<row.id.page, row.id.visitor>> \in counted'
      <4>. SUFFICES ASSUME NEW row \in logged'
           PROVE  <<row.id.page, row.id.visitor>> \in counted
        BY <2>2
      <4>1. row \in logged \/ row = [id |-> IdOf(r, gen[r]), time |-> time[r]]
        BY <2>2 DEF Upsert
      <4>2. CASE row \in logged
        BY <1>1, <4>2 DEF LoggedWasCounted
      <4>3. CASE row = [id |-> IdOf(r, gen[r]), time |-> time[r]]
        BY <2>1, <4>3 DEF IdOf
      <4>. QED
        BY <4>1, <4>2, <4>3
    <3>. QED
      BY <3>1, <3>2 DEF LoggedWasCounted
  <2>. QED
    BY <1>1, <2>3, <2>4, <2>5 DEF CleanupKeepsWhatCounts, OneRowIn
<1>. QED
  BY <1>2, <1>3, <1>4, TablesStep DEF InsertRow, CountedUnique, Count

-----------------------------------------------------------------------------
(* The requests *)

RequestOf(r) ==
    <<pc[r], call[r], page[r], visitor[r], unique[r], gen[r], time[r], began[r], met[r]>>

\* A request that does not move keeps what holds of it.
LEMMA Unmoved ==
    ASSUME StateTypes, NEW r \in Requests, ControlOf(r), CountedOf(r), TimesOf(r), [Next]_vars,
           UNCHANGED RequestOf(r)
    PROVE  ControlOf(r)' /\ CountedOf(r)' /\ TimesOf(r)'
<1>1. present \subseteq present' /\ counted \subseteq counted'
  BY TablesStep DEF Delete, InsertRow, CountedUnique, Count, Log
<1>2. ControlOf(r)'
  BY <1>1 DEF ControlOf, RequestOf
<1>3. CountedOf(r)'
  BY <1>1 DEF CountedOf, InSequence, RequestOf
<1>4. TimesOf(r)'
  <2>1. clock \in Nat /\ clock' \in Nat /\ clock <= clock' /\ HitOldAfter \in Nat
    BY ClockStep, CounterAssumption
  <2>2. time[r] \in Int
    BY DEF StateTypes
  <2>. QED
    BY <2>1, <2>2 DEF TimesOf, RequestOf
<1>. QED
  BY <1>2, <1>3, <1>4

\* A step of one request moves no other.
LEMMA OthersUnmoved ==
    ASSUME StateTypes, NEW r \in Requests, NEW q \in Requests \ {r},
           Serve(r) \/ \E p \in Pages, v \in Visitors : Arrive(r, p, v)
    PROVE  UNCHANGED RequestOf(q)
<1>. USE DEF StateTypes, shared, tables, request, locals, lookups, history, GoTo, RequestOf
<1>1. ASSUME Fail(r, TRUE) \/ Fail(r, FALSE), UNCHANGED <<page, visitor>>
      PROVE  UNCHANGED RequestOf(q)
  BY <1>1 DEF Fail, EnterGetHitCounts, Forget
<1>2. CASE Cutoff(r) \/ DeleteOld(r) \/ CheckKey(r) \/ RotateKey(r) \/ HashId(r)
  BY <1>2 DEF Cutoff, DeleteOld, CheckKey, RotateKey, HashId
<1>3. CASE SelectTime(r) \/ Decide(r) \/ CountUnique(r) \/ LogHit(r)
  BY <1>3 DEF SelectTime, Decide, CountUnique, LogHit
<1>4. CASE CountTotal(r)
  BY <1>4 DEF CountTotal, EnterGetHitCounts, Forget
<1>5. CASE CreateCounts(r)
  BY <1>5, <1>1 DEF CreateCounts, Exists, Insert, AfterCreate, DuplicateKey
<1>6. CASE ColumnFull(r) \/ StatementFails(r) \/ AnswerLost(r)
  <2>1. Fail(r, TRUE) \/ Fail(r, FALSE)
    <3>1. InSequence(r) \in BOOLEAN
      BY DEF InSequence
    <3>. QED
      BY <1>6, <3>1 DEF ColumnFull, StatementFails, AnswerLost
  <2>. QED
    BY <1>1, <1>6, <2>1 DEF ColumnFull, StatementFails, AnswerLost
<1>7. CASE ReadCounts(r) \/ Show(r)
  BY <1>7 DEF ReadCounts, Read, Show
<1>8. CASE \E p \in Pages, v \in Visitors : Arrive(r, p, v)
  BY <1>8 DEF Arrive
<1>. QED
  BY <1>2, <1>3, <1>4, <1>5, <1>6, <1>7, <1>8 DEF Serve, AddHit

\* What holds of a request after its method has failed.
LEMMA FailMoves ==
    ASSUME StateTypes, NEW r \in Requests, ControlOf(r), pc[r] # "idle", NEW tears \in BOOLEAN,
           Fail(r, tears), UNCHANGED <<page, visitor>>
    PROVE  ControlOf(r)' /\ CountedOf(r)' /\ TimesOf(r)'
<1>1. /\ pc'[r] \in {"exists0", "show"} /\ ~unique'[r]
      /\ pc'[r] = "show" => call'[r] = "get_hit_counts"
  <2>1. CASE call[r] = "add_hit" /\ EnterGetHitCounts(r)
    BY <2>1 DEF StateTypes, EnterGetHitCounts, Forget, GoTo
  <2>2. CASE /\ call[r] = "get_hit_counts"
             /\ GoTo(r, "show") /\ UNCHANGED <<call, unique, gen, time, lookups>>
    BY <2>2 DEF StateTypes, GoTo, ControlOf, AddSteps
  <2>. QED
    BY <2>1, <2>2 DEF Fail
<1>2. page'[r] \in Pages /\ visitor'[r] \in Visitors
  BY DEF ControlOf
<1>. QED
  BY <1>1, <1>2 DEF ControlOf, CountedOf, TimesOf, InSequence, AddSteps, ReadSteps, CountingSteps

\* What holds of a request after a step of its own.
LEMMA Moved ==
    ASSUME CounterInv, NEW r \in Requests,
           Serve(r) \/ \E p \in Pages, v \in Visitors : Arrive(r, p, v)
    PROVE  ControlOf(r)' /\ CountedOf(r)' /\ TimesOf(r)'
<1>. DEFINE Goal == ControlOf(r)' /\ CountedOf(r)' /\ TimesOf(r)'
<1>0. /\ StateTypes /\ ControlOf(r) /\ CountedOf(r) /\ TimesOf(r)
      /\ clock \in Nat /\ HitOldAfter \in Nat /\ time[r] \in Int
  BY CounterAssumption DEF CounterInv, Control, RequestInv, StateTypes
<1>. USE <1>0 DEF shared, tables, request, locals, lookups, history, GoTo
<1>1. CASE Cutoff(r)
  <2>1. pc'[r] = "delete" /\ time'[r] = clock - HitOldAfter /\ clock' = clock
    BY <1>1 DEF Cutoff, StateTypes
  <2>. QED
    BY <1>1, <2>1 DEF Cutoff, ControlOf, CountedOf, TimesOf, InSequence, AddSteps, ReadSteps,
                      CountingSteps
<1>2. CASE DeleteOld(r)
  <2>1. pc'[r] = "exists0"
    BY <1>2 DEF DeleteOld, StateTypes
  <2>. QED
    BY <1>2, <2>1 DEF DeleteOld, Delete, ControlOf, CountedOf, TimesOf, InSequence, AddSteps,
                      ReadSteps, CountingSteps
<1>3. CASE CheckKey(r) \/ RotateKey(r)
  <2>1. pc[r] \in {"key", "rotate"} /\ pc'[r] \in {"rotate", "hash"}
    BY <1>3 DEF CheckKey, RotateKey, StateTypes
  <2>. QED
    BY <1>3, <2>1 DEF CheckKey, RotateKey, ControlOf, CountedOf, TimesOf, InSequence, AddSteps,
                      ReadSteps, CountingSteps
<1>4. CASE HashId(r)
  <2>1. \/ pc'[r] = "log" /\ unique[r] /\ time'[r] = clock
        \/ pc'[r] = "select" /\ ~unique[r]
    BY <1>4 DEF HashId, StateTypes
  <2>. QED
    BY <1>4, <2>1 DEF HashId, ControlOf, CountedOf, TimesOf, InSequence, AddSteps,
                      ReadSteps, CountingSteps
<1>5. CASE SelectTime(r)
  <2>. DEFINE i == IdOf(r, gen[r])
  <2>1. pc'[r] = "decide" /\ clock' = clock /\ time'[r] = TimeOf(i, nodupes)
    BY <1>5 DEF SelectTime, StateTypes
  <2>2. TimeOf(i, nodupes) # NoRow => <<page[r], visitor[r]>> \in counted
    BY DEF CounterInv, TableInv, LoggedWasCounted, TimeOf, IdOf
  <2>. HIDE DEF i
  <2>3. ControlOf(r)'
    BY <1>5, <2>1 DEF SelectTime, ControlOf, AddSteps, ReadSteps, CountingSteps
  <2>4. CountedOf(r)'
    BY <1>5, <2>1, <2>2 DEF SelectTime, CountedOf, InSequence, ControlOf
  <2>5. TimesOf(r)'
    BY <2>1 DEF TimesOf
  <2>. QED
    BY <2>3, <2>4, <2>5
<1>6. CASE Decide(r)
  <2>1. /\ pc[r] = "decide" /\ clock' = clock
        /\ \/ pc'[r] = "countUnique" /\ unique'[r]
              /\ (time[r] = NoRow \/ time[r] <= clock - HitOldAfter)
           \/ pc'[r] = "countTotal" /\ ~unique'[r] /\ time[r] # NoRow
    BY <1>6 DEF Decide, StateTypes
  <2>2. ControlOf(r)'
    BY <1>6, <2>1 DEF Decide, ControlOf, AddSteps, ReadSteps, CountingSteps
  <2>3. CountedOf(r)'
    BY <1>6, <2>1 DEF Decide, CountedOf, InSequence
  <2>4. TimesOf(r)'
    BY <1>6, <2>1 DEF Decide, TimesOf
  <2>. QED
    BY <2>2, <2>3, <2>4
<1>7. CASE CountUnique(r)
  <2>1. pc[r] = "countUnique" /\ pc'[r] = "key" /\ <<page[r], visitor[r]>> \in counted'
    BY <1>7 DEF CountUnique, CountedUnique, StateTypes
  <2>. QED
    BY <1>7, <2>1 DEF CountUnique, CountedUnique, Count, ControlOf, CountedOf, TimesOf,
                      AddSteps, ReadSteps, CountingSteps
<1>8. CASE LogHit(r)
  <2>1. pc[r] = "log" /\ pc'[r] = "countTotal"
    BY <1>8 DEF LogHit, StateTypes
  <2>. QED
    BY <1>8, <2>1 DEF LogHit, Log, ControlOf, CountedOf, TimesOf, InSequence, AddSteps,
                      ReadSteps, CountingSteps
<1>9. CASE CountTotal(r)
  <2>1. pc[r] = "countTotal" /\ pc'[r] = "exists0" /\ ~unique'[r]
    BY <1>9 DEF CountTotal, EnterGetHitCounts, Forget, StateTypes
  <2>. QED
    BY <1>9, <2>1 DEF CountTotal, ControlOf, CountedOf, TimesOf, InSequence, AddSteps,
                      ReadSteps, CountingSteps
<1>10. CASE CreateCounts(r)
  <2>. PICK u \in IsUnique : Exists(r, u) \/ Insert(r, u) \/ DuplicateKey(r, u)
    BY <1>10 DEF CreateCounts
  <2>1. CASE DuplicateKey(r, u)
    BY <2>1, FailMoves DEF DuplicateKey, AtInsert
  <2>2. CASE Exists(r, u) \/ Insert(r, u)
    <3>1. \/ u = 0 /\ pc[r] \in {"exists0", "insert0"}
          \/ u = 1 /\ pc[r] \in {"exists1", "insert1"}
      BY <2>2 DEF Exists, Insert, AtInsert, IsUnique
    <3>4. /\ ~unique[r] /\ UNCHANGED <<unique, page, visitor, call>>
          /\ present \subseteq present'
      BY <2>2, <3>1 DEF Exists, Insert, InsertRow, ControlOf
    <3>2. \/ pc'[r] \in {"insert0", "insert1"} /\ pc'[r] = (IF u = 0 THEN "insert0" ELSE "insert1")
          \/ /\ pc'[r] = IF u = 0 THEN "exists1" ELSE IF call[r] = "add_hit" THEN "key" ELSE "page_hits"
             /\ <<page[r], u>> \in present'
      BY <2>2 DEF Exists, Insert, AfterCreate, InsertRow, StateTypes
    <3>3. call[r] \in {"add_hit", "get_hit_counts"}
      BY DEF StateTypes
    <3>. QED
      BY <3>1, <3>2, <3>3, <3>4 DEF ControlOf, CountedOf, TimesOf, InSequence, AddSteps, ReadSteps,
                              CountingSteps
  <2>. QED
    BY <2>1, <2>2
<1>11. CASE ColumnFull(r) \/ StatementFails(r) \/ AnswerLost(r)
  <2>1. /\ pc[r] # "idle" /\ UNCHANGED <<page, visitor>>
        /\ Fail(r, TRUE) \/ Fail(r, FALSE)
    <3>1. InSequence(r) \in BOOLEAN
      BY DEF InSequence, StateTypes
    <3>. QED
      BY <1>11, <3>1 DEF ColumnFull, StatementFails, AnswerLost, AtInsert, Statements
  <2>. QED
    BY <2>1, FailMoves
<1>12. CASE ReadCounts(r) \/ Show(r)
  <2>1. /\ pc[r] \in ReadSteps \cup {"show"}
        /\ pc'[r] \in ReadSteps \cup {"show", "idle"}
        /\ pc'[r] \in ReadSteps \cup {"show"} =>
              pc[r] \in ReadSteps /\ UNCHANGED <<call, page, visitor>>
        /\ UNCHANGED <<unique, time, present, counted, clock>>
    BY <1>12 DEF ReadCounts, Read, Show, ReadSteps, StateTypes
  <2>. QED
    BY <2>1 DEF ControlOf, CountedOf, TimesOf, InSequence, AddSteps, ReadSteps, CountingSteps
<1>13. CASE \E p \in Pages, v \in Visitors : Arrive(r, p, v)
  <2>1. /\ pc[r] = "idle" /\ page'[r] \in Pages /\ visitor'[r] \in Visitors
        /\ \/ pc'[r] = "cleanup" /\ call'[r] = "add_hit"
           \/ pc'[r] = "exists0"
        /\ ~unique'[r]
    BY <1>13 DEF Arrive, StateTypes, ControlOf
  <2>. QED
    BY <2>1 DEF ControlOf, CountedOf, TimesOf, InSequence, AddSteps, ReadSteps, CountingSteps
<1>. QED
  BY <1>1, <1>2, <1>3, <1>4, <1>5, <1>6, <1>7, <1>8, <1>9, <1>10, <1>11, <1>12, <1>13
  DEF Serve, AddHit

-----------------------------------------------------------------------------
(* The theorems *)

\* Every step keeps the invariant.
LEMMA CounterStep == CounterInv /\ [Next]_vars => CounterInv'
<1> SUFFICES ASSUME CounterInv, [Next]_vars PROVE CounterInv'
  OBVIOUS
<1>1. StateTypes'
  BY TypesStep DEF CounterInv
<1>2. ASSUME NEW r \in Requests PROVE ControlOf(r)' /\ CountedOf(r)' /\ TimesOf(r)'
  <2>1. StateTypes /\ ControlOf(r) /\ CountedOf(r) /\ TimesOf(r)
    BY DEF CounterInv, Control, RequestInv
  <2>2. ASSUME NEW q \in Requests, Serve(q) \/ \E p \in Pages, v \in Visitors : Arrive(q, p, v)
        PROVE  ControlOf(r)' /\ CountedOf(r)' /\ TimesOf(r)'
    <3>1. CASE r = q
      BY <2>2, <3>1, Moved
    <3>2. CASE r # q
      <4>1. UNCHANGED RequestOf(r)
        BY <2>1, <2>2, <3>2, OthersUnmoved
      <4>. QED
        BY <2>1, <4>1, Unmoved
    <3>. QED
      BY <3>1, <3>2
  <2>3. CASE Tick \/ UNCHANGED vars
    <3>1. UNCHANGED RequestOf(r)
      BY <2>3 DEF Tick, vars, request, locals, lookups, history, RequestOf
    <3>. QED
      BY <2>1, <3>1, Unmoved
  <2>4. CASE Restart
    BY <2>4 DEF Restart, ControlOf, CountedOf, TimesOf, InSequence, AddSteps, ReadSteps,
                CountingSteps
  <2>. QED
    BY <2>2, <2>3, <2>4 DEF Next
<1>3. TableInv'
  BY CoveredStep, LoggedStep DEF CounterInv, TableInv
<1>. QED
  BY <1>1, <1>2, <1>3 DEF CounterInv, Control, RequestInv

\* CounterInv holds in every reachable state.
THEOREM Invariance == Spec => []CounterInv
  BY InitInv, CounterStep, PTL DEF Spec

\* However requests interleave, fail or are cut off by a restart, a page's unique
\* count is at least the number of visitors whose hit was recorded
\* (phpcount.rs:170).
THEOREM NeverUndercounts == Spec => []UniqueNeverUndercounts
<1>1. CounterInv => UniqueNeverUndercounts
  <2>. SUFFICES ASSUME CounterInv, NEW p \in Pages
       PROVE  Cardinality(VisitorsOf(p, recorded)) <= hitcount[<<p, 1>>]
    BY DEF UniqueNeverUndercounts
  <2>1. /\ Cardinality(VisitorsOf(p, recorded)) \in Nat
        /\ Cardinality(VisitorsOf(p, counted)) \in Nat
        /\ Cardinality(VisitorsOf(p, recorded)) <= Cardinality(VisitorsOf(p, counted))
    BY FewerVisitors DEF CounterInv, TableInv, LoggedWasCounted
  <2>2. hitcount[<<p, 1>>] \in 0..MaxHitCount
    BY DEF CounterInv, StateTypes, Rows, IsUnique
  <2>3. Cardinality(VisitorsOf(p, counted)) <= hitcount[<<p, 1>>]
    BY DEF CounterInv, TableInv, CountedIsCovered
  <2>. QED
    BY <2>1, <2>2, <2>3, CounterAssumption
<1>. QED
  BY <1>1, Invariance, PTL

\* A DELETE whose cutoff was taken at any earlier moment, by any request, removes
\* no row that is_unique_hit would still find young (phpcount.rs:402).
THEOREM CleanupIsSafe == Spec => []CleanupKeepsWhatCounts
<1>1. CounterInv => CleanupKeepsWhatCounts
  BY DEF CounterInv, TableInv
<1>. QED
  BY <1>1, Invariance, PTL

\* Requests that find the key expired together replace it once
\* (phpcount.rs:249).
THEOREM KeyLives == Spec => KeyServesItsLifetime
<1>1. StateTypes /\ [Next]_vars =>
        [key'.gen # key.gen => restarts' # restarts \/ clock - key.created >= KeyLifetime]_vars
  <2>. SUFFICES ASSUME StateTypes, [Next]_vars, key'.gen # key.gen
       PROVE  restarts' # restarts \/ clock - key.created >= KeyLifetime
    OBVIOUS
  <2>. USE DEF shared
  <2>1. ASSUME NEW r \in Requests, RotateKey(r)
        PROVE  clock - key.created >= KeyLifetime
    BY <2>1 DEF RotateKey, is_expired
  <2>2. ASSUME NEW r \in Requests, Serve(r), ~RotateKey(r) PROVE FALSE
    BY <2>2 DEF Serve, AddHit, Cutoff, DeleteOld, CheckKey, HashId, SelectTime, Decide,
                CountUnique, LogHit, CountTotal, CreateCounts, Exists, Insert, DuplicateKey,
                ColumnFull, StatementFails, AnswerLost, ReadCounts, Read, Show
  <2>3. ASSUME NEW r \in Requests, NEW p \in Pages, NEW v \in Visitors, Arrive(r, p, v)
        PROVE  FALSE
    BY <2>3 DEF Arrive
  <2>4. CASE Tick \/ UNCHANGED vars
    BY <2>4 DEF Tick, vars
  <2>5. CASE Restart
    BY <2>5 DEF Restart, StateTypes
  <2>. QED
    BY <2>1, <2>2, <2>3, <2>4, <2>5 DEF Next
<1>2. CounterInv => StateTypes
  BY DEF CounterInv
<1>. QED
  BY <1>1, <1>2, Invariance, PTL DEF Spec, KeyServesItsLifetime

-----------------------------------------------------------------------------
(* What is remembered of a visitor *)

InLogHit(r) == unique[r] /\ pc[r] \in {"key", "rotate", "hash", "log"}

\* The identifier i has been logged at time t or later, and no INSERT of an
\* earlier time is still to come.
SeenKept(i, t) ==
    /\ \E row \in logged : row.id = i /\ row.time >= t
    /\ \A q \in Requests : pc[q] = "log" /\ IdOf(q, gen[q]) = i => time[q] >= t

\* A log_hit works with a key and a time no older than its beginning.
BeganOf(r) ==
    /\ InLogHit(r) => began[r].gen <= key.gen /\ began[r].time <= clock
    /\ pc[r] = "log" =>
          began[r].gen <= gen[r] /\ gen[r] <= key.gen /\ began[r].time <= time[r]

\* A lookup reads the hits it has met, unless they are old by then.
LookupOf(r) ==
    /\ pc[r] = "select" => \A t \in met[r] : t <= clock /\ SeenKept(IdOf(r, gen[r]), t)
    /\ pc[r] = "decide" => \A t \in met[r] : t <= time[r] \/ t <= clock - HitOldAfter
    /\ pc[r] = "countUnique" => \A t \in met[r] : t <= clock - HitOldAfter

SeenInv ==
    \A s \in seen :
        /\ s.id.gen <= key.gen /\ s.time <= clock
        /\ s.id.gen = key.gen => SeenKept(s.id, s.time)

RetentionInv == SeenInv /\ \A r \in Requests : BeganOf(r) /\ LookupOf(r)

\* The steps of a request that matter here.
LEMMA Elsewhere ==
    ASSUME StateTypes, NEW r \in Requests, ControlOf(r),
           Serve(r) \/ \E p \in Pages, v \in Visitors : Arrive(r, p, v)
    PROVE  \/ CheckKey(r) \/ RotateKey(r) \/ HashId(r) \/ SelectTime(r) \/ Decide(r)
           \/ CountUnique(r)
           \/ pc'[r] \notin {"log", "select", "decide", "countUnique"} /\ ~InLogHit(r)'
<1>. DEFINE Away == pc'[r] \notin {"log", "select", "decide", "countUnique"} /\ ~InLogHit(r)'
<1>. USE DEF InLogHit, StateTypes, GoTo
<1>1. CASE Fail(r, TRUE) \/ Fail(r, FALSE)
  <2>1. pc'[r] \in {"exists0", "show"}
    BY <1>1 DEF Fail, EnterGetHitCounts
  <2>. QED
    BY <2>1
<1>2. CASE Cutoff(r) \/ DeleteOld(r) \/ LogHit(r) \/ CountTotal(r)
  <2>1. pc'[r] \in {"delete", "exists0", "countTotal"}
    BY <1>2 DEF Cutoff, DeleteOld, LogHit, CountTotal, EnterGetHitCounts
  <2>. QED
    BY <2>1
<1>3. CASE \E u \in IsUnique : Exists(r, u) \/ Insert(r, u)
  <2>. PICK u \in IsUnique : Exists(r, u) \/ Insert(r, u)
    BY <1>3
  <2>1. pc[r] \in {"exists0", "exists1", "insert0", "insert1"}
    BY DEF Exists, Insert, AtInsert
  <2>2. pc'[r] \in {"exists1", "key", "page_hits", "insert0", "insert1"}
    BY DEF Exists, Insert, AfterCreate
  <2>3. ~unique'[r]
    BY <2>1 DEF Exists, Insert, ControlOf, locals
  <2>. QED
    BY <2>2, <2>3
<1>4. CASE ReadCounts(r) \/ Show(r)
  <2>1. pc'[r] \in ReadSteps \cup {"show", "idle"}
    BY <1>4 DEF ReadCounts, Read, Show, ReadSteps
  <2>. QED
    BY <2>1 DEF ReadSteps
<1>5. CASE \E p \in Pages, v \in Visitors : Arrive(r, p, v)
  <2>1. pc'[r] \in {"cleanup", "exists0"}
    BY <1>5 DEF Arrive
  <2>. QED
    BY <2>1
<1>6. ColumnFull(r) \/ StatementFails(r) \/ AnswerLost(r) => Fail(r, TRUE) \/ Fail(r, FALSE)
  <2>1. InSequence(r) \in BOOLEAN
    BY DEF InSequence
  <2>. QED
    BY <2>1 DEF ColumnFull, StatementFails, AnswerLost
<1>7. \A u \in IsUnique : DuplicateKey(r, u) => Fail(r, FALSE)
  BY DEF DuplicateKey
<1>. QED
  BY <1>1, <1>2, <1>3, <1>4, <1>5, <1>6, <1>7 DEF Serve, AddHit, CreateCounts

\* A request's INSERT is due because it was, or because it has just computed its
\* identifier.
LEMMA InsertDue ==
    ASSUME StateTypes, NEW q \in Requests, ControlOf(q), [Next]_vars, pc'[q] = "log"
    PROVE  (pc[q] = "log" /\ UNCHANGED RequestOf(q)) \/ (HashId(q) /\ unique[q])
<1>1. ASSUME NEW r \in Requests, Serve(r) \/ \E p \in Pages, v \in Visitors : Arrive(r, p, v)
      PROVE  (pc[q] = "log" /\ UNCHANGED RequestOf(q)) \/ (HashId(q) /\ unique[q])
  <2>1. CASE r = q
    <3>1. \/ CheckKey(q) \/ RotateKey(q) \/ HashId(q) \/ SelectTime(q) \/ Decide(q)
          \/ CountUnique(q)
      BY <1>1, <2>1, Elsewhere
    <3>2. HashId(q)
      <4>1. ~CheckKey(q) /\ ~RotateKey(q) /\ ~SelectTime(q) /\ ~Decide(q) /\ ~CountUnique(q)
        BY DEF StateTypes, GoTo, CheckKey, RotateKey, SelectTime, Decide, CountUnique
      <4>. QED
        BY <3>1, <4>1
    <3>. QED
      BY <3>2 DEF HashId, GoTo, StateTypes
  <2>2. CASE r # q
    <3>1. UNCHANGED RequestOf(q)
      BY <1>1, <2>2, OthersUnmoved
    <3>2. pc'[q] = pc[q]
      BY <3>1 DEF RequestOf
    <3>. QED
      BY <3>1, <3>2
  <2>. QED
    BY <2>1, <2>2
<1>2. CASE Tick \/ UNCHANGED vars
  <2>1. UNCHANGED RequestOf(q)
    BY <1>2 DEF Tick, vars, request, locals, lookups, history, RequestOf
  <2>2. pc'[q] = pc[q]
    BY <2>1 DEF RequestOf
  <2>. QED
    BY <2>1, <2>2
<1>3. CASE Restart
  BY <1>3 DEF Restart
<1>. QED
  BY <1>1, <1>2, <1>3 DEF Next

\* The key is of the same generation or of a later one.
LEMMA KeyStep ==
    ASSUME StateTypes, [Next]_vars
    PROVE  key.gen \in Nat /\ key'.gen \in Nat /\ key.gen <= key'.gen
<1>0. key \in [gen : Nat, created : 0..MaxClock] /\ key.gen \in Nat
  BY DEF StateTypes
<1>1. key' = key \/ key' = [gen |-> key.gen + 1, created |-> clock]
  <2>. USE DEF shared
  <2>1. ASSUME NEW r \in Requests, Serve(r), ~RotateKey(r) PROVE key' = key
    BY <2>1 DEF Serve, AddHit, Cutoff, DeleteOld, CheckKey, HashId, SelectTime, Decide,
                CountUnique, LogHit, CountTotal, CreateCounts, Exists, Insert, DuplicateKey,
                ColumnFull, StatementFails, AnswerLost, ReadCounts, Read, Show
  <2>2. ASSUME NEW r \in Requests, NEW p \in Pages, NEW v \in Visitors, Arrive(r, p, v)
        PROVE  key' = key
    BY <2>2 DEF Arrive
  <2>. QED
    BY <2>1, <2>2 DEF Next, RotateKey, Tick, Restart, vars
<1>. QED
  BY <1>0, <1>1

\* A hit logged stays: what is logged over it is no older.
LEMMA KeptStays ==
    ASSUME StateTypes, Control, [Next]_vars, NEW i, NEW t \in Nat, t <= clock, SeenKept(i, t)
    PROVE  SeenKept(i, t)'
<1>1. PICK row \in logged : row.id = i /\ row.time >= t
  BY DEF SeenKept
<1>2. ASSUME NEW q \in Requests, pc[q] = "log", IdOf(q, gen[q]) = i PROVE time[q] >= t
  BY <1>2 DEF SeenKept
<1>3. \E kept \in logged' : kept.id = i /\ kept.time >= t
  <2>1. CASE logged' = logged
    BY <1>1, <2>1
  <2>2. ASSUME NEW r \in Requests, pc[r] = "log", Log(r)
        PROVE  \E kept \in logged' : kept.id = i /\ kept.time >= t
    <3>. DEFINE new == [id |-> IdOf(r, gen[r]), time |-> time[r]]
    <3>1. new \in logged' /\ \A old \in logged : old.id # IdOf(r, gen[r]) => old \in logged'
      BY <2>2 DEF Log, Upsert
    <3>2. CASE IdOf(r, gen[r]) = i
      <4>1. new.id = i /\ new.time = time[r] /\ time[r] >= t
        BY <1>2, <2>2, <3>2
      <4>. QED
        BY <3>1, <4>1
    <3>3. CASE IdOf(r, gen[r]) # i
      BY <1>1, <3>1, <3>3
    <3>. QED
      BY <3>2, <3>3
  <2>. QED
    BY <2>1, <2>2, TablesStep DEF Delete, InsertRow, CountedUnique, Count
<1>4. ASSUME NEW q \in Requests, pc'[q] = "log", IdOf(q, gen[q])' = i PROVE time'[q] >= t
  <2>1. CASE pc[q] = "log" /\ UNCHANGED RequestOf(q)
    <3>1. IdOf(q, gen[q]) = i /\ time'[q] = time[q]
      BY <1>4, <2>1 DEF IdOf, RequestOf
    <3>. QED
      BY <1>2, <2>1, <3>1
  <2>2. CASE HashId(q) /\ unique[q]
    <3>1. time'[q] = clock
      BY <2>2 DEF HashId, StateTypes
    <3>2. clock \in Nat
      BY ClockStep
    <3>. QED
      BY <3>1, <3>2
  <2>. QED
    BY <1>4, <2>1, <2>2, InsertDue DEF Control
<1>. QED
  BY <1>3, <1>4 DEF SeenKept

\* What Log records in seen is kept: whoever else is about to write the row has
\* no earlier time.
LEMMA SeenStep ==
    ASSUME CounterInv, RetentionInv, [Next]_vars
    PROVE  SeenInv'
<1>0. /\ StateTypes /\ Control /\ SeenInv
      /\ clock \in Nat /\ clock' \in Nat /\ clock <= clock'
      /\ key.gen \in Nat /\ key'.gen \in Nat /\ key.gen <= key'.gen
  BY ClockStep, KeyStep DEF CounterInv, RetentionInv
<1>1. ASSUME NEW s \in seen'
      PROVE  /\ s.id.gen <= key'.gen /\ s.time <= clock'
             /\ s.id.gen = key'.gen => SeenKept(s.id, s.time)'
  <2>1. CASE s \in seen
    <3>1. /\ s.id.gen \in Nat /\ s.time \in Nat
          /\ s.id.gen <= key.gen /\ s.time <= clock
      BY <1>0, <2>1 DEF StateTypes, DupRows, Ids, SeenInv
    <3>2. ASSUME s.id.gen = key'.gen PROVE SeenKept(s.id, s.time)'
      <4>1. s.id.gen = key.gen
        BY <1>0, <3>1, <3>2
      <4>2. SeenKept(s.id, s.time)
        BY <1>0, <2>1, <4>1 DEF SeenInv
      <4>. QED
        BY <1>0, <3>1, <4>2, KeptStays
    <3>. QED
      BY <1>0, <3>1, <3>2
  <2>2. CASE s \notin seen
    <3>1. PICK r \in Requests : pc[r] = "log" /\ Log(r)
      BY <2>2, TablesStep DEF Delete, InsertRow, CountedUnique, Count
    <3>2. ~Overtaken(r) /\ s = [id |-> IdOf(r, began[r].gen), time |-> began[r].time]
      BY <2>2, <3>1 DEF Log
    <3>3. /\ s.id = IdOf(r, began[r].gen) /\ s.id.gen = began[r].gen /\ s.time = began[r].time
      BY <3>2 DEF IdOf
    <3>4. /\ began[r].gen \in Nat /\ began[r].time \in Nat /\ gen[r] \in Nat /\ time[r] \in Int
          /\ InLogHit(r)
      BY <1>0, <3>1 DEF StateTypes, Control, ControlOf, InLogHit
    <3>5. /\ began[r].gen <= gen[r] /\ gen[r] <= key.gen /\ began[r].time <= time[r]
          /\ began[r].time <= clock
      BY <3>1, <3>4 DEF RetentionInv, BeganOf
    <3>6. ASSUME s.id.gen = key'.gen PROVE SeenKept(s.id, s.time)'
      <4>1. began[r].gen = gen[r]
        BY <1>0, <3>3, <3>4, <3>5, <3>6
      <4>2. s.id = IdOf(r, gen[r])
        BY <3>3, <4>1
      <4>. DEFINE new == [id |-> IdOf(r, gen[r]), time |-> time[r]]
      <4>3. new \in logged' /\ new.id = s.id /\ new.time >= s.time
        BY <3>1, <3>3, <3>4, <3>5, <4>2 DEF Log, Upsert
      <4>4. ASSUME NEW q \in Requests, pc'[q] = "log", IdOf(q, gen[q])' = s.id
            PROVE  time'[q] >= s.time
        <5>1. pc[q] = "log" /\ UNCHANGED RequestOf(q)
          <6>1. HashId(q) => seen' = seen
            BY DEF HashId
          <6>2. ControlOf(q)
            BY <1>0 DEF Control
          <6>. QED
            BY <1>0, <2>2, <4>4, <6>1, <6>2, InsertDue
        <5>2. IdOf(q, gen[q]) = s.id /\ time'[q] = time[q] /\ time[q] \in Int
          BY <1>0, <4>4, <5>1 DEF IdOf, RequestOf, StateTypes
        <5>3. CASE q = r
          BY <3>3, <3>4, <3>5, <5>2, <5>3
        <5>4. CASE q # r
          <6>1. ~(time[q] < began[r].time)
            BY <3>2, <4>2, <5>1, <5>2, <5>4 DEF Overtaken
          <6>. QED
            BY <3>3, <3>4, <5>2, <6>1
        <5>. QED
          BY <5>3, <5>4
      <4>. QED
        BY <4>3, <4>4 DEF SeenKept
    <3>. QED
      BY <1>0, <3>3, <3>4, <3>5, <3>6
  <2>. QED
    BY <2>1, <2>2
<1>. QED
  BY <1>1 DEF SeenInv

\* A request that does not move keeps what it has of the past.
LEMMA LookupStays ==
    ASSUME CounterInv, [Next]_vars, NEW r \in Requests, BeganOf(r), LookupOf(r),
           UNCHANGED RequestOf(r)
    PROVE  BeganOf(r)' /\ LookupOf(r)'
<1>0. /\ StateTypes /\ Control /\ HitOldAfter \in Nat
      /\ clock \in Nat /\ clock' \in Nat /\ clock <= clock'
      /\ key.gen \in Nat /\ key'.gen \in Nat /\ key.gen <= key'.gen
  BY CounterAssumption, ClockStep, KeyStep DEF CounterInv
<1>1. /\ gen[r] \in Nat /\ time[r] \in Int /\ began[r].gen \in Nat /\ began[r].time \in Nat
      /\ met[r] \subseteq Nat
  BY <1>0 DEF StateTypes
<1>2. /\ pc'[r] = pc[r] /\ unique'[r] = unique[r] /\ gen'[r] = gen[r] /\ time'[r] = time[r]
      /\ began'[r] = began[r] /\ met'[r] = met[r]
      /\ IdOf(r, gen[r])' = IdOf(r, gen[r]) /\ (InLogHit(r)' <=> InLogHit(r))
  BY DEF RequestOf, IdOf, InLogHit
<1>3. BeganOf(r)'
  <2>1. InLogHit(r)' => began'[r].gen <= key'.gen /\ began'[r].time <= clock'
    BY <1>0, <1>1, <1>2 DEF BeganOf
  <2>2. pc'[r] = "log" => began'[r].gen <= gen'[r] /\ gen'[r] <= key'.gen
                          /\ began'[r].time <= time'[r]
    BY <1>0, <1>1, <1>2 DEF BeganOf
  <2>. QED
    BY <2>1, <2>2 DEF BeganOf
<1>4. LookupOf(r)'
  <2>1. ASSUME pc[r] = "select", NEW t \in met[r]
        PROVE  t <= clock' /\ SeenKept(IdOf(r, gen[r]), t)'
    <3>1. t \in Nat /\ t <= clock /\ SeenKept(IdOf(r, gen[r]), t)
      BY <1>1, <2>1 DEF LookupOf
    <3>2. PICK i : i = IdOf(r, gen[r])
      OBVIOUS
    <3>3. SeenKept(i, t)'
      BY <1>0, <3>1, <3>2, KeptStays
    <3>. QED
      BY <1>0, <1>2, <3>1, <3>2, <3>3
  <2>2. ASSUME pc[r] = "decide", NEW t \in met[r]
        PROVE  t <= time[r] \/ t <= clock' - HitOldAfter
    BY <1>0, <1>1, <2>2 DEF LookupOf
  <2>3. ASSUME pc[r] = "countUnique", NEW t \in met[r]
        PROVE  t <= clock' - HitOldAfter
    BY <1>0, <1>1, <2>3 DEF LookupOf
  <2>. QED
    BY <1>2, <2>1, <2>2, <2>3 DEF LookupOf
<1>. QED
  BY <1>3, <1>4

\* A lookup begins with what seen holds for its identifier.
LEMMA LookupBegins ==
    ASSUME CounterInv, SeenInv, [Next]_vars, NEW r \in Requests, HashId(r), ~unique[r]
    PROVE  LookupOf(r)'
<1>0. /\ StateTypes /\ Control
      /\ clock \in Nat /\ clock' \in Nat /\ clock <= clock'
  BY ClockStep DEF CounterInv
<1>1. /\ pc'[r] = "select" /\ gen'[r] = key.gen /\ page' = page /\ visitor' = visitor
      /\ met'[r] = SeenTimes(r, key.gen)
  BY <1>0 DEF HashId, StateTypes, GoTo, request
<1>2. PICK i : i = IdOf(r, key.gen)
  OBVIOUS
<1>3. ASSUME NEW t \in met'[r] PROVE t <= clock' /\ SeenKept(i, t)'
  <2>1. PICK s \in seen : s.id = i /\ s.time = t
    BY <1>1, <1>2, <1>3 DEF SeenTimes
  <2>2. s.id.gen = key.gen
    BY <1>2, <2>1 DEF IdOf
  <2>3. SeenKept(i, t) /\ t <= clock
    BY <2>1, <2>2 DEF SeenInv
  <2>4. t \in Nat
    BY <1>0, <2>1 DEF StateTypes, DupRows
  <2>5. SeenKept(i, t)'
    BY <1>0, <2>3, <2>4, KeptStays
  <2>. QED
    BY <1>0, <2>3, <2>4, <2>5
<1>4. IdOf(r, gen[r])' = i
  BY <1>1, <1>2 DEF IdOf
<1>. QED
  BY <1>1, <1>3, <1>4 DEF LookupOf

\* A lookup finds the row of a hit it has met, unless that row is old.
LEMMA LookupReads ==
    ASSUME CounterInv, NEW r \in Requests, LookupOf(r), SelectTime(r)
    PROVE  LookupOf(r)'
<1>. DEFINE i == IdOf(r, gen[r])
<1>0. /\ StateTypes /\ nodupes \subseteq logged /\ OneRowIn(logged)
      /\ CleanupKeepsWhatCounts
      /\ clock \in Nat /\ HitOldAfter \in Nat
  BY CounterAssumption DEF CounterInv, StateTypes, TableInv
<1>1. /\ pc[r] = "select" /\ pc'[r] = "decide" /\ time'[r] = TimeOf(i, nodupes)
      /\ met' = met /\ clock' = clock
  BY <1>0 DEF SelectTime, StateTypes, GoTo, history, lookups, shared
<1>2. ASSUME NEW t \in met[r] PROVE t <= time'[r] \/ t <= clock - HitOldAfter
  <2>1. PICK row \in logged : row.id = i /\ row.time >= t
    BY <1>1 DEF LookupOf, SeenKept
  <2>2. row.time \in Nat /\ t \in Nat
    BY <1>0 DEF StateTypes, DupRows
  <2>3. CASE row \in nodupes
    <3>. DEFINE found == CHOOSE other \in nodupes : other.id = i
    <3>1. found \in nodupes /\ found.id = i
      BY <2>1, <2>3
    <3>2. found = row
      BY <1>0, <2>1, <2>3, <3>1 DEF OneRowIn
    <3>3. TimeOf(i, nodupes) = row.time
      BY <2>1, <2>3, <3>2 DEF TimeOf
    <3>. QED
      BY <1>1, <2>1, <2>2, <3>3
  <2>4. CASE row \notin nodupes
    <3>1. row.time <= clock - HitOldAfter
      BY <1>0, <2>4 DEF CleanupKeepsWhatCounts
    <3>. QED
      BY <1>0, <2>1, <2>2, <3>1
  <2>. QED
    BY <2>3, <2>4
<1>. QED
  BY <1>1, <1>2 DEF LookupOf

\* A visitor is found unique when what was read is old.
LEMMA LookupDecides ==
    ASSUME CounterInv, NEW r \in Requests, LookupOf(r), Decide(r)
    PROVE  LookupOf(r)'
<1>0. /\ StateTypes /\ clock \in Nat /\ HitOldAfter \in Nat
      /\ time[r] \in Int /\ met[r] \subseteq Nat
  BY CounterAssumption DEF CounterInv, StateTypes
<1>1. /\ pc[r] = "decide" /\ met' = met /\ clock' = clock
      /\ \/ pc'[r] = "countUnique" /\ (time[r] = NoRow \/ time[r] <= clock - HitOldAfter)
         \/ pc'[r] = "countTotal"
  BY <1>0 DEF Decide, StateTypes, GoTo, history, lookups, shared
<1>2. ASSUME NEW t \in met[r], time[r] = NoRow \/ time[r] <= clock - HitOldAfter
      PROVE  t <= clock - HitOldAfter
  <2>1. t <= time[r] \/ t <= clock - HitOldAfter
    BY <1>1 DEF LookupOf
  <2>. QED
    BY <1>0, <1>2, <2>1 DEF NoRow
<1>. QED
  BY <1>1, <1>2 DEF LookupOf

\* What a request has of the past after a step of its own.
LEMMA LookupMoves ==
    ASSUME CounterInv, RetentionInv, [Next]_vars, NEW r \in Requests,
           Serve(r) \/ \E p \in Pages, v \in Visitors : Arrive(r, p, v)
    PROVE  BeganOf(r)' /\ LookupOf(r)'
<1>0. /\ StateTypes /\ ControlOf(r) /\ BeganOf(r) /\ LookupOf(r) /\ SeenInv
      /\ clock \in Nat /\ key.gen \in Nat
  BY DEF CounterInv, StateTypes, Control, RetentionInv
<1>. USE <1>0 DEF StateTypes, GoTo
<1>1. CASE /\ pc'[r] \notin {"log", "select", "decide", "countUnique"}
           /\ ~InLogHit(r)'
  BY <1>1 DEF BeganOf, LookupOf
<1>2. CASE CheckKey(r) \/ RotateKey(r)
  <2>1. /\ pc[r] \in {"key", "rotate"} /\ pc'[r] \in {"rotate", "hash"}
        /\ unique' = unique /\ began' = began /\ clock' = clock
    BY <1>2 DEF CheckKey, RotateKey, locals, history, lookups, shared
  <2>2. InLogHit(r)' => InLogHit(r)
    BY <2>1 DEF InLogHit
  <2>3. /\ key.gen <= key'.gen /\ key'.gen \in Nat /\ began[r].gen \in Nat
    BY KeyStep
  <2>4. BeganOf(r)'
    <3>1. InLogHit(r) => began[r].gen <= key'.gen /\ began[r].time <= clock
      BY <2>3 DEF BeganOf
    <3>. QED
      BY <2>1, <2>2, <3>1 DEF BeganOf
  <2>. QED
    BY <2>1, <2>4 DEF LookupOf
<1>3. CASE HashId(r) /\ unique[r]
  <2>1. /\ pc[r] = "hash" /\ pc'[r] = "log" /\ InLogHit(r)
        /\ gen'[r] = key.gen /\ time'[r] = clock
        /\ began' = began /\ clock' = clock /\ key' = key
    BY <1>3 DEF HashId, InLogHit, shared
  <2>2. began[r].gen <= key.gen /\ began[r].time <= clock
    BY <2>1 DEF BeganOf
  <2>. QED
    BY <2>1, <2>2 DEF BeganOf, LookupOf
<1>4. CASE HashId(r) /\ ~unique[r]
  <2>1. pc'[r] = "select" /\ ~unique'[r]
    BY <1>4 DEF HashId
  <2>2. BeganOf(r)'
    BY <2>1 DEF BeganOf, InLogHit
  <2>. QED
    BY <1>4, <2>2, LookupBegins
<1>5. CASE SelectTime(r)
  <2>1. pc'[r] = "decide"
    BY <1>5 DEF SelectTime
  <2>2. BeganOf(r)'
    BY <2>1 DEF BeganOf, InLogHit
  <2>. QED
    BY <1>5, <2>2, LookupReads
<1>6. CASE Decide(r)
  <2>1. pc'[r] \in {"countUnique", "countTotal"}
    BY <1>6 DEF Decide
  <2>2. BeganOf(r)'
    BY <2>1 DEF BeganOf, InLogHit
  <2>. QED
    BY <1>6, <2>2, LookupDecides
<1>7. CASE CountUnique(r)
  <2>1. /\ pc'[r] = "key" /\ key' = key /\ clock' = clock
        /\ began'[r] = [gen |-> key.gen, time |-> clock]
    BY <1>7 DEF CountUnique, shared
  <2>. QED
    BY <2>1 DEF BeganOf, LookupOf
<1>. QED
  BY <1>1, <1>2, <1>3, <1>4, <1>5, <1>6, <1>7, Elsewhere

\* Every step keeps what is remembered of a visitor.
LEMMA RetentionStep == CounterInv /\ RetentionInv /\ [Next]_vars => RetentionInv'
<1> SUFFICES ASSUME CounterInv, RetentionInv, [Next]_vars PROVE RetentionInv'
  OBVIOUS
<1>1. ASSUME NEW r \in Requests PROVE BeganOf(r)' /\ LookupOf(r)'
  <2>1. StateTypes /\ BeganOf(r) /\ LookupOf(r)
    BY DEF CounterInv, RetentionInv
  <2>2. ASSUME NEW q \in Requests, Serve(q) \/ \E p \in Pages, v \in Visitors : Arrive(q, p, v)
        PROVE  BeganOf(r)' /\ LookupOf(r)'
    <3>1. CASE r = q
      BY <2>2, <3>1, LookupMoves
    <3>2. CASE r # q
      <4>1. UNCHANGED RequestOf(r)
        BY <2>1, <2>2, <3>2, OthersUnmoved
      <4>. QED
        BY <2>1, <4>1, LookupStays
    <3>. QED
      BY <3>1, <3>2
  <2>3. CASE Tick \/ UNCHANGED vars
    <3>1. UNCHANGED RequestOf(r)
      BY <2>3 DEF Tick, vars, request, locals, lookups, history, RequestOf
    <3>. QED
      BY <2>1, <3>1, LookupStays
  <2>4. CASE Restart
    BY <2>4 DEF Restart, BeganOf, LookupOf, InLogHit
  <2>. QED
    BY <2>2, <2>3, <2>4 DEF Next
<1>. QED
  BY <1>1, SeenStep DEF RetentionInv

LEMMA InitRetention == Init => RetentionInv
  BY DEF Init, RetentionInv, SeenInv, BeganOf, LookupOf, InLogHit

\* A hit that log_hit has recorded keeps the visitor from being found unique until
\* the retention period has passed since that log_hit began, under the key then in
\* force and unless an INSERT of an earlier time was still to come when it was
\* recorded (phpcount.rs:275, :288, :296-306).
THEOREM UniqueIsOld == Spec => []UniqueOnlyAfterRetention
<1>1. Spec => [](CounterInv /\ RetentionInv)
  BY InitInv, InitRetention, CounterStep, RetentionStep, PTL DEF Spec
<1>2. RetentionInv => UniqueOnlyAfterRetention
  BY DEF RetentionInv, LookupOf, UniqueOnlyAfterRetention
<1>. QED
  BY <1>1, <1>2, PTL


-----------------------------------------------------------------------------
(* The two counts of a page *)

\* The sequences of a page can be counted.
LEMMA SequencesFinite ==
    ASSUME NEW p
    PROVE  /\ IsFiniteSet(Sequences(p)) /\ Cardinality(Sequences(p)) \in Nat
  BY CounterAssumption, FS_Subset, FS_CardinalityType DEF Sequences

\* A request joins the sequences of its page, or leaves them, alone.
LEMMA OneSequence ==
    ASSUME NEW S, NEW T, NEW r, IsFiniteSet(S), T \ {r} = S \ {r}
    PROVE  /\ IsFiniteSet(T) /\ Cardinality(S) \in Nat /\ Cardinality(T) \in Nat
           /\ r \in S /\ r \in T => Cardinality(T) = Cardinality(S)
           /\ r \notin S /\ r \notin T => Cardinality(T) = Cardinality(S)
           /\ r \notin S /\ r \in T => Cardinality(T) = Cardinality(S) + 1
           /\ r \in S /\ r \notin T => Cardinality(T) = Cardinality(S) - 1
<1>1. IsFiniteSet(S \ {r}) /\ IsFiniteSet(T)
  <2>1. IsFiniteSet(S \ {r})
    BY FS_RemoveElement
  <2>2. T = S \ {r} \/ T = (S \ {r}) \cup {r}
    OBVIOUS
  <2>. QED
    BY <2>1, <2>2, FS_AddElement
<1>2. Cardinality(S) \in Nat /\ Cardinality(T) \in Nat
  BY <1>1, FS_CardinalityType
<1>3. r \in S => Cardinality(S \ {r}) = Cardinality(S) - 1
  BY FS_RemoveElement
<1>4. r \in T => Cardinality(T \ {r}) = Cardinality(T) - 1
  BY <1>1, FS_RemoveElement
<1>5. /\ r \notin S => S \ {r} = S
      /\ r \notin T => T \ {r} = T
  OBVIOUS
<1>6. /\ r \notin S => Cardinality(S \ {r}) = Cardinality(S)
      /\ r \notin T => Cardinality(T \ {r}) = Cardinality(T)
  BY <1>5
<1>7. Cardinality(T \ {r}) = Cardinality(S \ {r})
  OBVIOUS
<1>. QED
  BY <1>1, <1>2, <1>3, <1>4, <1>6, <1>7

\* What a step of r does to the counts of its page, to its part in a sequence,
\* to the visitors counted as new and to the number of torn sequences.
Visit(r)  == <<page[r], visitor[r]>>
Quiet(r)  == /\ InSequence(r)' <=> InSequence(r)
             /\ InSequence(r) => page'[r] = page[r]
             /\ UNCHANGED <<hitcount, counted, torn>>
Joins(r)  == /\ ~InSequence(r) /\ page'[r] = page[r] /\ torn' = torn /\ InSequence(r)'
             /\ hitcount' = [hitcount EXCEPT ![<<page[r], 1>>] = @ + 1]
             /\ counted' = counted \cup {Visit(r)}
Misses(r) == /\ ~InSequence(r) /\ ~InSequence(r)'
             /\ hitcount' = [hitcount EXCEPT ![<<page[r], 1>>] = @ + 1]
             /\ counted' = counted \cup {Visit(r)}
             /\ torn' = [torn EXCEPT ![page[r]] = @ + 1]
Tears(r)  == /\ InSequence(r) /\ ~InSequence(r)' /\ UNCHANGED <<hitcount, counted>>
             /\ torn' = [torn EXCEPT ![page[r]] = @ + 1]
Ends(r)   == /\ ~InSequence(r)' /\ torn' = torn
             /\ hitcount' = [hitcount EXCEPT ![<<page[r], 0>>] = @ + 1]
             /\ counted' = counted /\ Visit(r) \in counted

\* A request whose statement failed is in no sequence any more.
LEMMA FailEndsSequence ==
    ASSUME StateTypes, NEW r \in Requests, ControlOf(r), NEW tears \in BOOLEAN, Fail(r, tears)
    PROVE  ~InSequence(r)'
<1>1. CASE call[r] = "add_hit" /\ EnterGetHitCounts(r)
  BY <1>1 DEF StateTypes, EnterGetHitCounts, Forget, InSequence
<1>2. CASE call[r] = "get_hit_counts" /\ UNCHANGED unique
  BY <1>2 DEF ControlOf, AddSteps, InSequence
<1>. QED
  BY <1>1, <1>2 DEF Fail

\* A step of a request is one of the five.
LEMMA SequenceStep ==
    ASSUME CounterInv, NEW r \in Requests,
           Serve(r) \/ \E p \in Pages, v \in Visitors : Arrive(r, p, v)
    PROVE  \/ Quiet(r)
           \/ /\ page[r] \in Pages /\ visitor[r] \in Visitors
              /\ Joins(r) \/ Misses(r) \/ Tears(r) \/ Ends(r)
<1>0. /\ StateTypes /\ ControlOf(r) /\ CountedOf(r)
  BY DEF CounterInv, Control, RequestInv
<1>. USE <1>0 DEF shared, tables, request, locals, lookups, history, GoTo
<1>1. ASSUME NEW u \in IsUnique, AtInsert(r, u), InsertRow(r, u)
      PROVE  UNCHANGED <<hitcount, counted>>
  <2>1. page[r] \in Pages
    BY <1>1 DEF AtInsert, ControlOf
  <2>. QED
    BY <1>1, <2>1 DEF InsertRow, CounterInv, TableInv, AbsentIsZero, StateTypes, Rows
<1>2. CASE Cutoff(r) \/ DeleteOld(r) \/ CheckKey(r) \/ RotateKey(r) \/ HashId(r) \/ SelectTime(r)
  <2>1. InSequence(r)' <=> InSequence(r)
    BY <1>2 DEF Cutoff, DeleteOld, CheckKey, RotateKey, HashId, SelectTime, InSequence, StateTypes
  <2>. QED
    BY <1>2, <2>1 DEF Cutoff, DeleteOld, Delete, CheckKey, RotateKey, HashId, SelectTime, Quiet
<1>3. CASE Decide(r)
  <2>1. ~InSequence(r)
    BY <1>3 DEF Decide, InSequence, ControlOf
  <2>2. ~InSequence(r)'
    BY <1>3 DEF Decide, InSequence, StateTypes
  <2>. QED
    BY <1>3, <2>1, <2>2 DEF Decide, Quiet
<1>4. CASE CountUnique(r)
  <2>1. /\ page[r] \in Pages /\ visitor[r] \in Visitors
        /\ <<page[r], 1>> \in present /\ unique[r]
    BY <1>4 DEF CountUnique, ControlOf, CountingSteps, AddSteps
  <2>2. InSequence(r)' /\ ~InSequence(r)
    BY <1>4, <2>1 DEF CountUnique, InSequence, StateTypes
  <2>. QED
    BY <1>4, <2>1, <2>2 DEF CountUnique, CountedUnique, Count, Joins, Visit
<1>5. CASE LogHit(r)
  <2>1. InSequence(r)' <=> InSequence(r)
    BY <1>5 DEF LogHit, InSequence, StateTypes
  <2>. QED
    BY <1>5, <2>1 DEF LogHit, Log, Quiet
<1>6. CASE CountTotal(r)
  <2>1. /\ page[r] \in Pages /\ visitor[r] \in Visitors
        /\ <<page[r], 0>> \in present /\ Visit(r) \in counted
    BY <1>6 DEF CountTotal, ControlOf, CountedOf, CountingSteps, AddSteps, Visit
  <2>2. ~InSequence(r)'
    BY <1>6 DEF CountTotal, EnterGetHitCounts, Forget, InSequence, StateTypes
  <2>. QED
    BY <1>6, <2>1, <2>2 DEF CountTotal, Count, Ends
<1>7. CASE CreateCounts(r)
  <2>. PICK u \in IsUnique : Exists(r, u) \/ Insert(r, u) \/ DuplicateKey(r, u)
    BY <1>7 DEF CreateCounts
  <2>1. ~InSequence(r)
    BY DEF Exists, Insert, DuplicateKey, AtInsert, InSequence, ControlOf, IsUnique
  <2>2. CASE Exists(r, u) \/ Insert(r, u)
    <3>1. UNCHANGED <<hitcount, counted, unique, page, torn>>
      BY <1>1, <2>2 DEF Exists, Insert
    <3>2. ~InSequence(r)'
      BY <2>1, <2>2, <3>1 DEF Exists, Insert, AtInsert, InSequence, ControlOf, IsUnique
    <3>. QED
      BY <2>1, <3>1, <3>2 DEF Quiet
  <2>3. CASE DuplicateKey(r, u)
    BY <2>1, <2>3, FailEndsSequence DEF DuplicateKey, Fail, Quiet
  <2>. QED
    BY <2>2, <2>3
<1>8. CASE ColumnFull(r) \/ StatementFails(r)
  <2>1. /\ Fail(r, InSequence(r)) /\ InSequence(r) \in BOOLEAN
        /\ UNCHANGED <<hitcount, counted, page>> /\ page[r] \in Pages /\ visitor[r] \in Visitors
    BY <1>8 DEF ColumnFull, StatementFails, Statements, ControlOf, InSequence, StateTypes
  <2>2. ~InSequence(r)'
    BY <2>1, FailEndsSequence
  <2>. QED
    BY <2>1, <2>2 DEF Fail, Quiet, Tears
<1>9. CASE AnswerLost(r)
  <2>1. page[r] \in Pages /\ visitor[r] \in Visitors
    BY <1>9 DEF AnswerLost, AtInsert, ControlOf
  <2>2. ~InSequence(r)'
    BY <1>9, FailEndsSequence DEF AnswerLost
  <2>3. CASE pc[r] = "delete" /\ Delete(r) /\ Fail(r, FALSE)
    BY <2>2, <2>3 DEF Delete, Fail, Quiet, InSequence, ControlOf
  <2>4. CASE \E u \in IsUnique : AtInsert(r, u) /\ InsertRow(r, u) /\ Fail(r, FALSE)
    <3>1. ~InSequence(r)
      BY <2>4 DEF AtInsert, InSequence, ControlOf, IsUnique
    <3>. QED
      BY <1>1, <2>2, <2>4, <3>1 DEF Fail, Quiet
  <2>5. CASE pc[r] = "countUnique" /\ CountedUnique(r) /\ Fail(r, TRUE)
    <3>1. <<page[r], 1>> \in present /\ ~InSequence(r)
      BY <2>5 DEF ControlOf, CountingSteps, AddSteps, InSequence
    <3>. QED
      BY <2>1, <2>2, <2>5, <3>1 DEF CountedUnique, Count, Fail, Misses, Visit
  <2>6. CASE pc[r] = "log" /\ Log(r) /\ Fail(r, TRUE)
    <3>1. InSequence(r)
      BY <2>6 DEF ControlOf, InSequence
    <3>. QED
      BY <2>1, <2>2, <2>6, <3>1 DEF Log, Fail, Tears
  <2>7. CASE pc[r] = "countTotal" /\ Count(page[r], 0) /\ counted' = counted /\ Fail(r, FALSE)
    <3>1. <<page[r], 0>> \in present /\ Visit(r) \in counted
      BY <2>7 DEF ControlOf, CountedOf, CountingSteps, AddSteps, Visit
    <3>. QED
      BY <2>1, <2>2, <2>7, <3>1 DEF Count, Fail, Ends
  <2>. QED
    BY <1>9, <2>3, <2>4, <2>5, <2>6, <2>7 DEF AnswerLost
<1>10. CASE ReadCounts(r) \/ Show(r)
  <2>1. ~InSequence(r) /\ UNCHANGED <<unique, hitcount, counted, torn>>
    BY <1>10 DEF ReadCounts, Read, Show, InSequence, ControlOf
  <2>2. ~InSequence(r)'
    BY <1>10, <2>1 DEF ReadCounts, Read, Show, InSequence, ControlOf
  <2>. QED
    BY <2>1, <2>2 DEF Quiet
<1>11. CASE \E p \in Pages, v \in Visitors : Arrive(r, p, v)
  <2>1. ~unique[r] /\ UNCHANGED <<unique, hitcount, counted, torn>>
    BY <1>11 DEF Arrive, ControlOf
  <2>. QED
    BY <2>1 DEF Quiet, InSequence
<1>. QED
  BY <1>2, <1>3, <1>4, <1>5, <1>6, <1>7, <1>8, <1>9, <1>10, <1>11 DEF Serve, AddHit

\* How many requests of a page are in their sequences, before and after a step
\* of one of them.
LEMMA SequencesMove ==
    ASSUME CounterInv, NEW r \in Requests, NEW p \in Pages,
           Serve(r) \/ \E q \in Pages, v \in Visitors : Arrive(r, q, v),
           NEW S, S = Sequences(p), NEW T, T = Sequences(p)'
    PROVE  /\ r \in S <=> page[r] = p /\ InSequence(r)
           /\ r \in T <=> page'[r] = p /\ InSequence(r)'
           /\ Cardinality(S) \in Nat /\ Cardinality(T) \in Nat
           /\ r \in S /\ r \in T => Cardinality(T) = Cardinality(S)
           /\ r \notin S /\ r \notin T => Cardinality(T) = Cardinality(S)
           /\ r \notin S /\ r \in T => Cardinality(T) = Cardinality(S) + 1
           /\ r \in S /\ r \notin T => Cardinality(T) = Cardinality(S) - 1
<1>1. /\ r \in S <=> page[r] = p /\ InSequence(r)
      /\ r \in T <=> page'[r] = p /\ InSequence(r)'
  BY DEF Sequences
<1>2. T \ {r} = S \ {r}
  <2>1. ASSUME NEW q \in Requests \ {r}
        PROVE  page'[q] = page[q] /\ (InSequence(q)' <=> InSequence(q))
    BY OthersUnmoved DEF CounterInv, RequestOf, InSequence
  <2>. QED
    BY <2>1 DEF Sequences
<1>3. IsFiniteSet(S)
  BY SequencesFinite
<1>. QED
  BY <1>1, <1>2, <1>3, OneSequence

\* One step of one request keeps the balance of every page.
LEMMA BalanceOfRequest ==
    ASSUME CounterInv, UniqueWithinTotal, NEW r \in Requests, NEW p \in Pages,
           Serve(r) \/ \E q \in Pages, v \in Visitors : Arrive(r, q, v)
    PROVE  hitcount'[<<p, 1>>] <= hitcount'[<<p, 0>>] + torn'[p] + Cardinality(Sequences(p)')
<1>. DEFINE S == Sequences(p)
            T == Sequences(p)'
<1>1. /\ hitcount[<<p, 1>>] \in Nat /\ hitcount[<<p, 0>>] \in Nat /\ torn[p] \in Nat
      /\ hitcount \in [Rows -> 0..MaxHitCount] /\ torn \in [Pages -> Nat]
      /\ <<p, 0>> \in Rows /\ <<p, 1>> \in Rows
  <2>1. <<p, 0>> \in Rows /\ <<p, 1>> \in Rows
    BY DEF Rows, IsUnique
  <2>. QED
    BY <2>1, CounterAssumption DEF CounterInv, StateTypes
<1>2. /\ r \in S <=> page[r] = p /\ InSequence(r)
      /\ r \in T <=> page'[r] = p /\ InSequence(r)'
      /\ Cardinality(S) \in Nat /\ Cardinality(T) \in Nat
      /\ r \in S /\ r \in T => Cardinality(T) = Cardinality(S)
      /\ r \notin S /\ r \notin T => Cardinality(T) = Cardinality(S)
      /\ r \notin S /\ r \in T => Cardinality(T) = Cardinality(S) + 1
      /\ r \in S /\ r \notin T => Cardinality(T) = Cardinality(S) - 1
  BY SequencesMove
<1>3. hitcount[<<p, 1>>] <= hitcount[<<p, 0>>] + torn[p] + Cardinality(S)
  BY DEF UniqueWithinTotal
<1>. HIDE DEF S, T
<1>4. CASE Quiet(r)
  <2>1. r \in S <=> r \in T
    BY <1>2, <1>4 DEF Quiet
  <2>. QED
    BY <1>2, <1>3, <1>4, <2>1 DEF Quiet, T
<1>5. CASE page[r] = p /\ Joins(r)
  <2>1. /\ hitcount'[<<p, 1>>] = hitcount[<<p, 1>>] + 1
        /\ hitcount'[<<p, 0>>] = hitcount[<<p, 0>>] /\ torn' = torn
    BY <1>1, <1>5 DEF Joins
  <2>2. Cardinality(T) = Cardinality(S) + 1
    BY <1>2, <1>5 DEF Joins
  <2>. QED
    BY <1>1, <1>2, <1>3, <2>1, <2>2 DEF T
<1>6. CASE page[r] = p /\ Misses(r)
  <2>1. /\ hitcount'[<<p, 1>>] = hitcount[<<p, 1>>] + 1
        /\ hitcount'[<<p, 0>>] = hitcount[<<p, 0>>] /\ torn'[p] = torn[p] + 1
    BY <1>1, <1>6 DEF Misses
  <2>2. Cardinality(T) = Cardinality(S)
    BY <1>2, <1>6 DEF Misses
  <2>. QED
    BY <1>1, <1>2, <1>3, <2>1, <2>2 DEF T
<1>7. CASE page[r] = p /\ Tears(r)
  <2>1. hitcount' = hitcount /\ torn'[p] = torn[p] + 1
    BY <1>1, <1>7 DEF Tears
  <2>2. Cardinality(T) = Cardinality(S) - 1
    BY <1>2, <1>7 DEF Tears
  <2>. QED
    BY <1>1, <1>2, <1>3, <2>1, <2>2 DEF T
<1>8. CASE page[r] = p /\ Ends(r)
  <2>1. /\ hitcount'[<<p, 1>>] = hitcount[<<p, 1>>]
        /\ hitcount'[<<p, 0>>] = hitcount[<<p, 0>>] + 1 /\ torn' = torn
    BY <1>1, <1>8 DEF Ends
  <2>2. Cardinality(T) = Cardinality(S) \/ Cardinality(T) = Cardinality(S) - 1
    BY <1>2, <1>8 DEF Ends
  <2>. QED
    BY <1>1, <1>2, <1>3, <2>1, <2>2 DEF T
<1>9. CASE /\ page[r] \in Pages /\ page[r] # p
           /\ Joins(r) \/ Misses(r) \/ Tears(r) \/ Ends(r)
  <2>1. ASSUME Joins(r) \/ Misses(r)
        PROVE  /\ hitcount'[<<p, 1>>] = hitcount[<<p, 1>>]
               /\ hitcount'[<<p, 0>>] = hitcount[<<p, 0>>] /\ torn'[p] = torn[p]
               /\ r \notin T
    BY <1>1, <1>2, <1>9, <2>1 DEF Joins, Misses
  <2>2. ASSUME Tears(r) \/ Ends(r)
        PROVE  /\ hitcount'[<<p, 1>>] = hitcount[<<p, 1>>]
               /\ hitcount'[<<p, 0>>] = hitcount[<<p, 0>>] /\ torn'[p] = torn[p]
               /\ r \notin T
    BY <1>1, <1>2, <1>9, <2>2 DEF Tears, Ends
  <2>3. r \notin S
    BY <1>2, <1>9
  <2>. QED
    BY <1>2, <1>3, <1>9, <2>1, <2>2, <2>3 DEF T
<1>. QED
  BY <1>4, <1>5, <1>6, <1>7, <1>8, <1>9, SequenceStep

\* Every step keeps the balance of every page.
LEMMA BalanceStep ==
    CounterInv /\ UniqueWithinTotal /\ [Next]_vars => UniqueWithinTotal'
<1> SUFFICES ASSUME CounterInv, UniqueWithinTotal, [Next]_vars, NEW p \in Pages
    PROVE  hitcount'[<<p, 1>>] <= hitcount'[<<p, 0>>] + torn'[p] + Cardinality(Sequences(p)')
  BY DEF UniqueWithinTotal, Sequences, InSequence
<1>1. ASSUME NEW r \in Requests, Serve(r) \/ \E q \in Pages, v \in Visitors : Arrive(r, q, v)
      PROVE  hitcount'[<<p, 1>>] <= hitcount'[<<p, 0>>] + torn'[p] + Cardinality(Sequences(p)')
  BY <1>1, BalanceOfRequest
<1>2. CASE Tick \/ UNCHANGED vars
  <2>1. UNCHANGED <<hitcount, torn>> /\ Sequences(p)' = Sequences(p)
    BY <1>2 DEF Tick, vars, tables, request, locals, lookups, history, Sequences, InSequence
  <2>. QED
    BY <2>1 DEF UniqueWithinTotal
<1>3. CASE Restart
  <2>1. Sequences(p)' = {}
    BY <1>3 DEF Restart, Sequences, InSequence
  <2>2. Cardinality(Sequences(p)') = 0
    BY <2>1, FS_EmptySet
  <2>3. hitcount' = hitcount /\ torn'[p] = torn[p] + Cardinality(Sequences(p))
    BY <1>3 DEF Restart, tables
  <2>4. /\ hitcount[<<p, 0>>] \in 0..MaxHitCount
        /\ torn[p] \in Nat /\ Cardinality(Sequences(p)) \in Nat
    BY SequencesFinite DEF CounterInv, StateTypes, Rows, IsUnique
  <2>5. hitcount[<<p, 1>>] <= hitcount[<<p, 0>>] + torn[p] + Cardinality(Sequences(p))
    BY DEF UniqueWithinTotal
  <2>. QED
    BY <2>2, <2>3, <2>4, <2>5
<1>. QED
  BY <1>1, <1>2, <1>3 DEF Next

\* A page's unique count exceeds its hit count by no more than the sequences
\* that are under way or were interrupted (phpcount.rs:168).
THEOREM WithinTotal == Spec => []UniqueWithinTotal
<1>1. Init => UniqueWithinTotal
  <2>. SUFFICES ASSUME Init, NEW p \in Pages
       PROVE  hitcount[<<p, 1>>] <= hitcount[<<p, 0>>] + torn[p] + Cardinality(Sequences(p))
    BY DEF UniqueWithinTotal
  <2>1. hitcount[<<p, 1>>] = 0 /\ hitcount[<<p, 0>>] = 0 /\ torn[p] = 0
    BY DEF Init, Rows, IsUnique
  <2>2. Cardinality(Sequences(p)) \in Nat
    BY SequencesFinite
  <2>. QED
    BY <2>1, <2>2
<1>. QED
  BY <1>1, BalanceStep, Invariance, PTL DEF Spec

-----------------------------------------------------------------------------
(* The counts that are shown *)

\* A sum of numbers over a finite set is a number, none of its terms is above it.
LEMMA SumOf ==
    ASSUME NEW S, IsFiniteSet(S), NEW f, \A x \in S : f[x] \in Nat
    PROVE  /\ SumFunctionOnSet(f, S) \in Nat
           /\ \A x \in S : f[x] <= SumFunctionOnSet(f, S)
<1>1. \E g : SumTable(f, S, g)
  BY SumTableExists
<1>2. PICK h : SumTable(f, S, h) /\ SumFunctionOnSet(f, S) = h[S]
  <2>. DEFINE h == CHOOSE g : SumTable(f, S, g)
  <2>1. SumTable(f, S, h)
    BY <1>1, Zenon
  <2>2. SumFunctionOnSet(f, S) = h[S]
    BY DEF SumFunctionOnSet, FoldFunctionOnSet, MapThenFoldSet, SumTable, AnyOf
  <2>. QED
    BY <2>1, <2>2
<1>3. /\ \A T \in SUBSET S : h[T] \in Nat
      /\ \A T \in SUBSET S : \A x \in T : h[T] = f[x] + h[T \ {x}]
  BY <1>2, SumTableFacts
<1>4. h[S] \in Nat
  BY <1>3
<1>5. ASSUME NEW x \in S PROVE f[x] <= h[S]
  <2>1. h[S] = f[x] + h[S \ {x}] /\ h[S \ {x}] \in Nat /\ f[x] \in Nat
    BY <1>3
  <2>. QED
    BY <2>1
<1>. QED
  BY <1>2, <1>4, <1>5

\* A site total covers the count of every row it adds up.
LEMMA TotalCovers ==
    ASSUME StateTypes, IsFiniteSet(present), NEW u \in IsUnique
    PROVE  /\ Total(u) \in Nat
           /\ \A row \in present : row[2] = u => hitcount[row] <= Total(u)
<1>. DEFINE S == {row \in present : row[2] = u}
<1>1. IsFiniteSet(S)
  BY FS_Subset
<1>2. \A row \in S : hitcount[row] \in Nat
  BY CounterAssumption DEF StateTypes
<1>. HIDE DEF S
<1>3. /\ SumFunctionOnSet(hitcount, S) \in Nat
      /\ \A row \in S : hitcount[row] <= SumFunctionOnSet(hitcount, S)
  BY <1>1, <1>2, SumOf
<1>. QED
  BY <1>3 DEF Total, S

\* While the four reads are under way: a count that has been read is not above
\* the row, which only grows, and then not above the site total.
ShownOf(r) ==
    /\ shown[r] \in [Fields -> Nat]
    /\ pc[r] \in {"unique_hits", "total_hits"} => shown[r]["page_hits"] <= hitcount[<<page[r], 0>>]
    /\ pc[r] \in {"total_hits", "total_unique_hits"} =>
          shown[r]["unique_hits"] <= hitcount[<<page[r], 1>>]
    /\ pc[r] \in {"total_unique_hits", "show"} => shown[r]["page_hits"] <= shown[r]["total_hits"]
    /\ pc[r] = "show" => shown[r]["unique_hits"] <= shown[r]["total_unique_hits"]

ShownInv ==
    /\ IsFiniteSet(present)
    /\ shown = [r \in Requests |-> shown[r]]
    /\ \A r \in Requests : ShownOf(r)

\* The table has finitely many rows, and no step lowers the count of one.
LEMMA CountsGrow ==
    ASSUME CounterInv, IsFiniteSet(present), [Next]_vars
    PROVE  /\ IsFiniteSet(present')
           /\ \A row \in Rows : hitcount[row] <= hitcount'[row]
<1>. USE DEF Rows, IsUnique
<1>1. /\ hitcount \in [Rows -> Int] /\ Control
      /\ \A row \in Rows \ present : hitcount[row] = 0
  BY CounterAssumption DEF CounterInv, StateTypes, TableInv, AbsentIsZero
<1>2. ASSUME hitcount' = hitcount, present' = present
      PROVE  IsFiniteSet(present') /\ \A row \in Rows : hitcount[row] <= hitcount'[row]
  BY <1>1, <1>2
<1>3. ASSUME NEW r \in Requests, NEW u \in IsUnique, AtInsert(r, u), InsertRow(r, u)
      PROVE  IsFiniteSet(present') /\ \A row \in Rows : hitcount[row] <= hitcount'[row]
  <2>1. page[r] \in Pages
    BY <1>1, <1>3 DEF AtInsert, Control, ControlOf
  <2>2. hitcount' = hitcount
    BY <1>1, <1>3, <2>1 DEF InsertRow
  <2>3. IsFiniteSet(present')
    BY <1>3, FS_AddElement DEF InsertRow
  <2>. QED
    BY <1>1, <2>2, <2>3
<1>4. ASSUME NEW p, NEW u, Count(p, u)
      PROVE  IsFiniteSet(present') /\ \A row \in Rows : hitcount[row] <= hitcount'[row]
  BY <1>1, <1>4 DEF Count
<1>. QED
  BY TablesStep, <1>2, <1>3, <1>4 DEF Delete, Log, CountedUnique

\* A request that does not move keeps what its counts say.
LEMMA ShownUnmoved ==
    ASSUME CounterInv, NEW r \in Requests, ShownOf(r), UNCHANGED <<pc[r], page[r], shown[r]>>,
           hitcount' \in [Rows -> Nat], \A row \in Rows : hitcount[row] <= hitcount'[row]
    PROVE  ShownOf(r)'
<1>1. pc[r] \in ReadSteps => <<page[r], 0>> \in Rows /\ <<page[r], 1>> \in Rows
  BY DEF CounterInv, Control, ControlOf, StateTypes
<1>2. \A row \in Rows : hitcount[row] \in Nat /\ hitcount'[row] \in Nat
  BY CounterAssumption DEF CounterInv, StateTypes
<1>3. \A f \in Fields : shown[r][f] \in Nat
  BY DEF ShownOf
<1>. QED
  BY <1>1, <1>2, <1>3 DEF ShownOf, ReadSteps, Fields

\* A step of one request does not touch what another one has read.
LEMMA OthersNotShown ==
    ASSUME shown = [q \in Requests |-> shown[q]], NEW r \in Requests, NEW q \in Requests \ {r},
           Serve(r) \/ \E p \in Pages, v \in Visitors : Arrive(r, p, v)
    PROVE  shown'[q] = shown[q]
<1>. USE DEF locals
<1>1. CASE AddHit(r)
  BY <1>1 DEF AddHit, Cutoff, DeleteOld, CheckKey, RotateKey, HashId, SelectTime, Decide,
              CountUnique, LogHit, CountTotal
<1>2. CASE CreateCounts(r) \/ ColumnFull(r) \/ StatementFails(r) \/ AnswerLost(r)
  BY <1>2 DEF CreateCounts, Exists, Insert, DuplicateKey, ColumnFull, StatementFails, AnswerLost,
              Fail
<1>3. CASE ReadCounts(r) \/ Show(r) \/ \E p \in Pages, v \in Visitors : Arrive(r, p, v)
  BY <1>3 DEF ReadCounts, Read, Show, Arrive
<1>. QED
  BY <1>1, <1>2, <1>3 DEF Serve

\* The request's own step.
LEMMA ShownMoved ==
    ASSUME CounterInv, ShownInv, NEW r \in Requests,
           Serve(r) \/ \E p \in Pages, v \in Visitors : Arrive(r, p, v),
           hitcount' \in [Rows -> Nat]
    PROVE  ShownOf(r)'
<1>0. /\ pc \in [Requests -> Steps] /\ ShownOf(r) /\ ControlOf(r)
      /\ \A f \in Fields : shown[r][f] \in Nat
  BY DEF CounterInv, StateTypes, ShownInv, Control, ShownOf
<1>. DEFINE Early == pc'[r] \notin ReadSteps \cup {"show"} \/ pc'[r] = "page_hits"
<1>1. ASSUME shown'[r] = shown[r], Early PROVE ShownOf(r)'
  BY <1>0, <1>1 DEF ShownOf, ReadSteps
<1>2. ASSUME NEW tears \in BOOLEAN, Fail(r, tears) PROVE ShownOf(r)'
  <2>1. CASE call[r] = "add_hit" /\ EnterGetHitCounts(r) /\ UNCHANGED shown
    <3>1. pc'[r] = "exists0"
      BY <1>0, <2>1 DEF EnterGetHitCounts, GoTo
    <3>. QED
      BY <1>1, <2>1, <3>1 DEF ReadSteps
  <2>2. CASE GoTo(r, "show") /\ shown' = [shown EXCEPT ![r] = NoCounts]
    <3>1. pc'[r] = "show" /\ shown'[r] = NoCounts
      BY <1>0, <2>2 DEF GoTo, ShownInv
    <3>. QED
      BY <3>1 DEF ShownOf, NoCounts, Fields
  <2>. QED
    BY <1>2, <2>1, <2>2 DEF Fail
<1>3. CASE AddHit(r)
  <2>1. shown' = shown /\ Early
    BY <1>0, <1>3 DEF AddHit, Cutoff, DeleteOld, CheckKey, RotateKey, HashId, SelectTime, Decide,
       CountUnique, LogHit, CountTotal, EnterGetHitCounts, GoTo, locals, ReadSteps
  <2>. QED
    BY <1>1, <2>1
<1>4. CASE CreateCounts(r)
  <2>. PICK u \in IsUnique : Exists(r, u) \/ Insert(r, u) \/ DuplicateKey(r, u)
    BY <1>4 DEF CreateCounts
  <2>1. CASE DuplicateKey(r, u)
    BY <1>2, <2>1 DEF DuplicateKey
  <2>2. CASE Exists(r, u) \/ Insert(r, u)
    <3>1. shown' = shown /\ Early
      BY <1>0, <2>2 DEF Exists, Insert, AfterCreate, GoTo, locals, ReadSteps
    <3>. QED
      BY <1>1, <3>1
  <2>. QED
    BY <2>1, <2>2
<1>5. CASE ColumnFull(r) \/ StatementFails(r) \/ AnswerLost(r)
  <2>1. InSequence(r) \in BOOLEAN
    BY DEF InSequence, CounterInv, StateTypes
  <2>2. Fail(r, TRUE) \/ Fail(r, FALSE)
    BY <1>5, <2>1 DEF ColumnFull, StatementFails, AnswerLost
  <2>. QED
    BY <1>2, <2>2
<1>6. CASE Show(r) \/ \E p \in Pages, v \in Visitors : Arrive(r, p, v)
  <2>1. Early
    BY <1>0, <1>6 DEF Show, Arrive, GoTo, ReadSteps
  <2>2. shown'[r] \in {shown[r], NoCounts}
    BY <1>6 DEF Show, Arrive, locals, ShownInv
  <2>. QED
    BY <1>0, <2>1, <2>2 DEF ShownOf, NoCounts, ReadSteps
<1>7. CASE ReadCounts(r)
  <2>1. /\ pc[r] \in ReadSteps
        /\ hitcount' = hitcount /\ page' = page
        /\ pc[r] = "page_hits" =>
              /\ pc'[r] = "unique_hits"
              /\ shown'[r] = [shown[r] EXCEPT !["page_hits"] = hitcount[<<page[r], 0>>]]
        /\ pc[r] = "unique_hits" =>
              /\ pc'[r] = "total_hits"
              /\ shown'[r] = [shown[r] EXCEPT !["unique_hits"] = hitcount[<<page[r], 1>>]]
        /\ pc[r] = "total_hits" =>
              /\ pc'[r] = "total_unique_hits"
              /\ shown'[r] = [shown[r] EXCEPT !["total_hits"] = Total(0)]
        /\ pc[r] = "total_unique_hits" =>
              /\ pc'[r] = "show"
              /\ shown'[r] = [shown[r] EXCEPT !["total_unique_hits"] = Total(1)]
    BY <1>0, <1>7 DEF ReadCounts, Read, GoTo, tables, request, ReadSteps, ShownInv
  <2>2. /\ hitcount[<<page[r], 0>>] \in Nat /\ hitcount[<<page[r], 1>>] \in Nat
        /\ Total(0) \in Nat /\ Total(1) \in Nat
        /\ hitcount[<<page[r], 0>>] <= Total(0) /\ hitcount[<<page[r], 1>>] <= Total(1)
    <3>1. <<page[r], 0>> \in present /\ <<page[r], 1>> \in present
      BY <1>0, <2>1 DEF ControlOf
    <3>2. hitcount[<<page[r], 0>>] \in Nat /\ hitcount[<<page[r], 1>>] \in Nat
      BY <3>1, CounterAssumption DEF CounterInv, StateTypes
    <3>3. StateTypes /\ IsFiniteSet(present) /\ 0 \in IsUnique /\ 1 \in IsUnique
      BY DEF CounterInv, ShownInv, IsUnique
    <3>4. Total(0) \in Nat /\ hitcount[<<page[r], 0>>] <= Total(0)
      BY <3>1, <3>3, TotalCovers
    <3>5. Total(1) \in Nat /\ hitcount[<<page[r], 1>>] <= Total(1)
      BY <3>1, <3>3, TotalCovers
    <3>. QED
      BY <3>2, <3>4, <3>5
  <2>3. shown[r] \in [Fields -> Nat]
    BY <1>0 DEF ShownOf
  <2>4. CASE pc[r] = "page_hits"
    BY <2>1, <2>2, <2>3, <2>4 DEF ShownOf, Fields
  <2>5. CASE pc[r] = "unique_hits"
    BY <1>0, <2>1, <2>2, <2>3, <2>5 DEF ShownOf, Fields
  <2>6. CASE pc[r] = "total_hits"
    BY <1>0, <2>1, <2>2, <2>3, <2>6 DEF ShownOf, Fields
  <2>7. CASE pc[r] = "total_unique_hits"
    BY <1>0, <2>1, <2>2, <2>3, <2>7 DEF ShownOf, Fields
  <2>. QED
    BY <2>1, <2>4, <2>5, <2>6, <2>7 DEF ReadSteps
<1>. QED
  BY <1>3, <1>4, <1>5, <1>6, <1>7 DEF Serve

\* Nothing has been read at the start.
LEMMA InitShown == Init => ShownInv
<1>. SUFFICES ASSUME Init PROVE ShownInv
  OBVIOUS
<1>1. IsFiniteSet(present)
  BY FS_EmptySet DEF Init
<1>2. ASSUME NEW r \in Requests PROVE ShownOf(r)
  BY DEF Init, ShownOf, NoCounts, Fields
<1>. QED
  BY <1>1, <1>2 DEF ShownInv, Init

\* Every step keeps what holds of the counts read so far.
LEMMA ShownStep == CounterInv /\ CounterInv' /\ ShownInv /\ [Next]_vars => ShownInv'
<1>. SUFFICES ASSUME CounterInv, CounterInv', ShownInv, [Next]_vars PROVE ShownInv'
  OBVIOUS
<1>1. IsFiniteSet(present') /\ \A row \in Rows : hitcount[row] <= hitcount'[row]
  BY CountsGrow DEF ShownInv
<1>2. hitcount' \in [Rows -> Nat]
  BY CounterAssumption DEF CounterInv, StateTypes
<1>3. ASSUME NEW r \in Requests, UNCHANGED <<pc[r], page[r], shown[r]>> PROVE ShownOf(r)'
  BY <1>1, <1>2, <1>3, ShownUnmoved DEF ShownInv
<1>4. ASSUME NEW q \in Requests, Serve(q) \/ \E p \in Pages, v \in Visitors : Arrive(q, p, v)
      PROVE  \A r \in Requests : ShownOf(r)'
  <2>. SUFFICES ASSUME NEW r \in Requests PROVE ShownOf(r)'
    OBVIOUS
  <2>1. CASE r = q
    BY <1>2, <1>4, <2>1, ShownMoved
  <2>2. CASE r # q
    <3>1. UNCHANGED RequestOf(r)
      BY <1>4, <2>2, OthersUnmoved DEF CounterInv
    <3>2. shown'[r] = shown[r]
      BY <1>4, <2>2, OthersNotShown DEF ShownInv
    <3>. QED
      BY <1>3, <3>1, <3>2 DEF RequestOf
  <2>. QED
    BY <2>1, <2>2
<1>5. ASSUME Restart PROVE \A r \in Requests : ShownOf(r)'
  BY <1>5 DEF Restart, ShownOf, NoCounts, Fields
<1>6. ASSUME Tick \/ UNCHANGED vars PROVE \A r \in Requests : ShownOf(r)'
  BY <1>3, <1>6 DEF Tick, vars, request, locals
<1>7. \A r \in Requests : ShownOf(r)'
  BY <1>4, <1>5, <1>6 DEF Next
<1>8. shown' = [r \in Requests |-> shown'[r]]
  <2>1. ASSUME NEW r \in Requests, Serve(r) PROVE \/ shown' = shown
                                                  \/ \E c : shown' = [shown EXCEPT ![r] = c]
    <3>. USE <2>1 DEF locals
    <3>1. CASE AddHit(r)
      BY <3>1 DEF AddHit, Cutoff, DeleteOld, CheckKey, RotateKey, HashId, SelectTime, Decide,
                  CountUnique, LogHit, CountTotal
    <3>2. CASE CreateCounts(r) \/ ColumnFull(r) \/ StatementFails(r) \/ AnswerLost(r)
      BY <3>2 DEF CreateCounts, Exists, Insert, DuplicateKey, ColumnFull, StatementFails,
                  AnswerLost, Fail
    <3>3. CASE ReadCounts(r) \/ Show(r)
      BY <3>3 DEF ReadCounts, Read, Show
    <3>. QED
      BY <2>1, <3>1, <3>2, <3>3 DEF Serve
  <2>2. \/ shown' = shown
        \/ \E r \in Requests : \E c : shown' = [shown EXCEPT ![r] = c]
        \/ shown' = [r \in Requests |-> NoCounts]
    BY <2>1 DEF Next, Arrive, Tick, Restart, vars, locals
  <2>3. shown = [r \in Requests |-> shown[r]]
    BY DEF ShownInv
  <2>. QED
    BY <2>2, <2>3
<1>. QED
  BY <1>1, <1>7, <1>8 DEF ShownInv

\* ShownInv holds in every reachable state.
THEOREM ShownInvariance == Spec => []ShownInv
<1>1. CounterInv /\ ShownInv /\ [Next]_vars => CounterInv' /\ ShownInv'
  BY CounterStep, ShownStep
<1>. QED
  BY <1>1, InitInv, InitShown, PTL DEF Spec

\* Every variable keeps its type: the counts stay in their column, the four
\* counts of a page are numbers whatever failed, and a page's step never names
\* a row, a page or a visitor that is not there.
THEOREM TypeCorrect == Spec => []TypeOK
<1>1. CounterInv /\ ShownInv => TypeOK
  BY DEF CounterInv, ShownInv, ShownOf, TypeOK
<1>. QED
  BY <1>1, Invariance, ShownInvariance, PTL

\* The site totals shown with a page cover the counts shown for the page: four
\* statements read them one after the other while other requests count, and the
\* totals are read last (phpcount.rs:202).
THEOREM TotalsCover == Spec => []ShownTotalsCoverPage
<1>1. ShownInv => ShownTotalsCoverPage
  BY DEF ShownInv, ShownOf, ShownTotalsCoverPage
<1>. QED
  BY <1>1, ShownInvariance, PTL

-----------------------------------------------------------------------------
(* The counter implements the ledger *)

\* One more hit of one kind on one page.
LEMMA HitsCounted ==
    ASSUME StateTypes, NEW q \in Pages, NEW u \in IsUnique,
           hitcount' = [hitcount EXCEPT ![<<q, u>>] = @ + 1]
    PROVE  /\ HitsOf(u)' = [HitsOf(u) EXCEPT ![q] = @ + 1]
           /\ HitsOf(1 - u)' = HitsOf(1 - u)
<1>1. /\ hitcount \in [Rows -> 0..MaxHitCount] /\ 1 - u \in IsUnique /\ 1 - u # u
      /\ \A p \in Pages : <<p, u>> \in Rows /\ <<p, 1 - u>> \in Rows
  BY DEF StateTypes, Rows, IsUnique
<1>2. ASSUME NEW p \in Pages
      PROVE  /\ hitcount'[<<p, u>>] =
                   IF p = q THEN hitcount[<<p, u>>] + 1 ELSE hitcount[<<p, u>>]
             /\ hitcount'[<<p, 1 - u>>] = hitcount[<<p, 1 - u>>]
  BY <1>1
<1>. QED
  BY <1>2 DEF HitsOf

\* One more visitor counted as new.
LEMMA KnownGrow ==
    ASSUME NEW q \in Pages, NEW v \in Visitors, counted' = counted \cup {<<q, v>>}
    PROVE  KnownVisitors' = [KnownVisitors EXCEPT ![q] = @ \cup {v}]
<1>1. ASSUME NEW p \in Pages
      PROVE  VisitorsOf(p, counted \cup {<<q, v>>}) =
                 IF p = q THEN VisitorsOf(p, counted) \cup {v} ELSE VisitorsOf(p, counted)
  BY DEF VisitorsOf
<1>2. KnownVisitors' = [p \in Pages |-> VisitorsOf(p, counted \cup {<<q, v>>})]
  BY DEF KnownVisitors, VisitorsOf
<1>. QED
  BY <1>1, <1>2 DEF KnownVisitors

\* A request begins its sequence, or ends it, on one page.
LEMMA UnderWayMoves ==
    ASSUME CounterInv, NEW r \in Requests,
           Serve(r) \/ \E q \in Pages, v \in Visitors : Arrive(r, q, v)
    PROVE  /\ UnderWay \in [Pages -> Nat]
           /\ Quiet(r) \/ (~InSequence(r) /\ ~InSequence(r)') => UnderWay' = UnderWay
           /\ page[r] \in Pages /\ page'[r] = page[r] /\ ~InSequence(r) /\ InSequence(r)'
                => UnderWay' = [UnderWay EXCEPT ![page[r]] = @ + 1]
           /\ page[r] \in Pages /\ InSequence(r) /\ ~InSequence(r)'
                => UnderWay[page[r]] > 0 /\ UnderWay' = [UnderWay EXCEPT ![page[r]] = @ - 1]
<1>. DEFINE n(p) == Cardinality(Sequences(p))
            m(p) == Cardinality(Sequences(p)')
<1>1. /\ UnderWay = [p \in Pages |-> n(p)]
      /\ UnderWay' = [p \in Pages |-> m(p)]
  BY DEF UnderWay
<1>2. ASSUME NEW p \in Pages
      PROVE  /\ n(p) \in Nat /\ m(p) \in Nat
             /\ Quiet(r) \/ (~InSequence(r) /\ ~InSequence(r)') => m(p) = n(p)
             /\ page'[r] = page[r] /\ ~InSequence(r) /\ InSequence(r)'
                  => m(p) = IF page[r] = p THEN n(p) + 1 ELSE n(p)
             /\ InSequence(r) /\ ~InSequence(r)'
                  => m(p) = IF page[r] = p THEN n(p) - 1 ELSE n(p)
  <2>. DEFINE S == Sequences(p)
              T == Sequences(p)'
  <2>1. /\ r \in S <=> page[r] = p /\ InSequence(r)
        /\ r \in T <=> page'[r] = p /\ InSequence(r)'
        /\ Cardinality(S) \in Nat /\ Cardinality(T) \in Nat
        /\ r \in S /\ r \in T => Cardinality(T) = Cardinality(S)
        /\ r \notin S /\ r \notin T => Cardinality(T) = Cardinality(S)
        /\ r \notin S /\ r \in T => Cardinality(T) = Cardinality(S) + 1
        /\ r \in S /\ r \notin T => Cardinality(T) = Cardinality(S) - 1
    BY SequencesMove
  <2>. HIDE DEF S, T
  <2>2. Quiet(r) => (r \in S <=> r \in T)
    BY <2>1 DEF Quiet
  <2>3. n(p) = Cardinality(S) /\ m(p) = Cardinality(T)
    BY DEF S, T
  <2>. HIDE DEF n, m
  <2>. QED
    BY <2>1, <2>2, <2>3
<1>3. \A p \in Pages : n(p) \in Nat /\ m(p) \in Nat
  BY <1>2
<1>. HIDE DEF n, m
<1>4. UnderWay \in [Pages -> Nat]
  BY <1>1, <1>3
<1>5. Quiet(r) \/ (~InSequence(r) /\ ~InSequence(r)') => UnderWay' = UnderWay
  BY <1>1, <1>2
<1>6. page[r] \in Pages /\ page'[r] = page[r] /\ ~InSequence(r) /\ InSequence(r)'
        => UnderWay' = [UnderWay EXCEPT ![page[r]] = @ + 1]
  BY <1>1, <1>2
<1>7. page[r] \in Pages /\ InSequence(r) /\ ~InSequence(r)'
        => UnderWay[page[r]] > 0 /\ UnderWay' = [UnderWay EXCEPT ![page[r]] = @ - 1]
  <2>. SUFFICES ASSUME page[r] \in Pages, InSequence(r), ~InSequence(r)'
       PROVE  UnderWay[page[r]] > 0 /\ UnderWay' = [UnderWay EXCEPT ![page[r]] = @ - 1]
    OBVIOUS
  <2>1. \A p \in Pages : m(p) = IF page[r] = p THEN n(p) - 1 ELSE n(p)
    BY <1>2
  <2>2. UnderWay[page[r]] = n(page[r]) /\ n(page[r]) - 1 \in Nat /\ n(page[r]) \in Nat
    BY <1>1, <1>3, <2>1
  <2>3. UnderWay' = [UnderWay EXCEPT ![page[r]] = @ - 1]
    BY <1>1, <2>1
  <2>. QED
    BY <2>2, <2>3
<1>. QED
  BY <1>4, <1>5, <1>6, <1>7

\* One step of one request is one stroke of the ledger, or none.
LEMMA LedgerOfRequest ==
    ASSUME CounterInv, NEW r \in Requests,
           Serve(r) \/ \E q \in Pages, v \in Visitors : Arrive(r, q, v)
    PROVE  Ledger!LNext \/ UNCHANGED Ledger!lvars
<1>. DEFINE p == page[r]
            v == visitor[r]
<1>1. StateTypes /\ 0 \in IsUnique /\ 1 \in IsUnique /\ 1 - 0 = 1 /\ 1 - 1 = 0
  BY DEF CounterInv, IsUnique
<1>2. /\ counted' = counted => KnownVisitors' = KnownVisitors
      /\ hitcount' = hitcount => HitsOf(0)' = HitsOf(0) /\ HitsOf(1)' = HitsOf(1)
  BY DEF KnownVisitors, VisitorsOf, HitsOf
<1>3. CASE Quiet(r)
  <2>1. UnderWay' = UnderWay
    BY <1>3, UnderWayMoves
  <2>. QED
    BY <1>2, <1>3, <2>1 DEF Quiet, Ledger!lvars
<1>4. ASSUME p \in Pages, v \in Visitors, Joins(r) \/ Misses(r)
      PROVE  Ledger!CountNew(p, v)
  <2>1. /\ HitsOf(1)' = [HitsOf(1) EXCEPT ![p] = @ + 1]
        /\ HitsOf(0)' = HitsOf(0)
    <3>1. HitsOf(1 - 1)' = HitsOf(1 - 1) /\ HitsOf(1)' = [HitsOf(1) EXCEPT ![p] = @ + 1]
      BY <1>1, <1>4, HitsCounted DEF Joins, Misses
    <3>. QED
      BY <1>1, <3>1
  <2>2. KnownVisitors' = [KnownVisitors EXCEPT ![p] = @ \cup {v}]
    BY <1>4, KnownGrow DEF Joins, Misses, Visit
  <2>3. \/ UnderWay' = [UnderWay EXCEPT ![p] = @ + 1] /\ torn' = torn
        \/ torn' = [torn EXCEPT ![p] = @ + 1] /\ UnderWay' = UnderWay
    BY <1>4, UnderWayMoves DEF Joins, Misses
  <2>. QED
    BY <2>1, <2>2, <2>3 DEF Ledger!CountNew
<1>5. ASSUME p \in Pages, Tears(r)
      PROVE  Ledger!Lose(p)
  <2>1. UnderWay[p] > 0 /\ UnderWay' = [UnderWay EXCEPT ![p] = @ - 1]
    BY <1>5, UnderWayMoves DEF Tears
  <2>. QED
    BY <1>2, <1>5, <2>1 DEF Tears, Ledger!Lose
<1>6. ASSUME p \in Pages, v \in Visitors, Ends(r)
      PROVE  Ledger!CountSecond(p) \/ Ledger!CountKnown(p, v)
  <2>1. /\ HitsOf(0)' = [HitsOf(0) EXCEPT ![p] = @ + 1]
        /\ HitsOf(1)' = HitsOf(1)
    <3>1. HitsOf(1 - 0)' = HitsOf(1 - 0) /\ HitsOf(0)' = [HitsOf(0) EXCEPT ![p] = @ + 1]
      BY <1>1, <1>6, HitsCounted DEF Ends
    <3>. QED
      BY <1>1, <3>1
  <2>2. KnownVisitors' = KnownVisitors /\ torn' = torn
    BY <1>2, <1>6 DEF Ends
  <2>3. CASE InSequence(r)
    <3>1. UnderWay[p] > 0 /\ UnderWay' = [UnderWay EXCEPT ![p] = @ - 1]
      BY <1>6, <2>3, UnderWayMoves DEF Ends
    <3>. QED
      BY <2>1, <2>2, <3>1 DEF Ledger!CountSecond
  <2>4. CASE ~InSequence(r)
    <3>1. UnderWay' = UnderWay
      BY <1>6, <2>4, UnderWayMoves DEF Ends
    <3>2. v \in KnownVisitors[p]
      BY <1>6 DEF Ends, Visit, KnownVisitors, VisitorsOf
    <3>. QED
      BY <2>1, <2>2, <3>1, <3>2 DEF Ledger!CountKnown
  <2>. QED
    BY <2>3, <2>4
<1>. QED
  BY <1>3, <1>4, <1>5, <1>6, SequenceStep DEF Ledger!LNext

\* So is one step of the system: time only passes, and a restart loses what is open.
LEMMA LedgerStep == CounterInv /\ [Next]_vars => [Ledger!LNext]_Ledger!lvars
<1> SUFFICES ASSUME CounterInv, [Next]_vars PROVE Ledger!LNext \/ UNCHANGED Ledger!lvars
  BY DEF Ledger!lvars
<1>1. ASSUME NEW r \in Requests, Serve(r) \/ \E q \in Pages, v \in Visitors : Arrive(r, q, v)
      PROVE  Ledger!LNext \/ UNCHANGED Ledger!lvars
  BY <1>1, LedgerOfRequest
<1>2. CASE Tick \/ UNCHANGED vars
  BY <1>2 DEF Tick, vars, tables, request, locals, lookups, history, Sequences, InSequence, HitsOf,
              KnownVisitors, VisitorsOf, UnderWay, Ledger!lvars
<1>3. CASE Restart
  <2>1. ASSUME NEW p \in Pages PROVE Cardinality(Sequences(p)') = 0
    <3>1. Sequences(p)' = {}
      BY <1>3 DEF Restart, Sequences, InSequence
    <3>. QED
      BY <3>1, FS_EmptySet
  <2>2. UnderWay' = [p \in Pages |-> 0]
    BY <2>1 DEF UnderWay
  <2>3. torn' = [p \in Pages |-> torn[p] + UnderWay[p]]
    BY <1>3 DEF Restart, UnderWay
  <2>4. UNCHANGED <<HitsOf(0), HitsOf(1), KnownVisitors>>
    BY <1>3 DEF Restart, tables, HitsOf, KnownVisitors, VisitorsOf
  <2>. QED
    BY <2>2, <2>3, <2>4 DEF Ledger!LoseAll, Ledger!LNext
<1>. QED
  BY <1>1, <1>2, <1>3 DEF Next

\* An empty database is an empty ledger.
LEMMA LedgerInit == Init => Ledger!LInit
<1> SUFFICES ASSUME Init PROVE Ledger!LInit
  OBVIOUS
<1>1. HitsOf(0) = [p \in Pages |-> 0] /\ HitsOf(1) = [p \in Pages |-> 0]
  BY DEF Init, HitsOf, Rows, IsUnique
<1>2. KnownVisitors = [p \in Pages |-> {}]
  BY DEF Init, KnownVisitors, VisitorsOf
<1>3. UnderWay = [p \in Pages |-> 0]
  <2>1. ASSUME NEW p \in Pages PROVE Cardinality(Sequences(p)) = 0
    <3>1. Sequences(p) = {}
      BY DEF Init, Sequences, InSequence
    <3>. QED
      BY <3>1, FS_EmptySet
  <2>. QED
    BY <2>1 DEF UnderWay
<1>. QED
  BY <1>1, <1>2, <1>3 DEF Init, Ledger!LInit

\* However requests interleave, fail and are cut off, every step of the counter is
\* one stroke of the ledger or none (phpcount.rs:155-176).
THEOREM KeepsLedger == Spec => ImplementsLedger
  BY LedgerInit, LedgerStep, Invariance, PTL DEF Spec, ImplementsLedger, Ledger!LSpec
===============================================================================
