----------------------------- MODULE CrackResults -----------------------------
(***************************************************************************)
(* A submission that has passed the captcha: how the home page's handler   *)
(* (src/pages/home.rs) takes the text apart into hashes, how they are      *)
(* looked up and counted (src/cracking.rs), and the table the page shows   *)
(* (templates/pages/home.html).                                            *)
(*                                                                         *)
(* The lookup itself is the crate preimage, which is external: it is       *)
(* modelled by what cracking.rs and its tests expect of crack_with_limit.  *)
(***************************************************************************)
EXTENDS HtmlEscape, Functions

CONSTANTS
    Services,       \* [tables, texts]: loaded tables, and what visitors send them
    MaxHashes,      \* hashes accepted per submission: 20
    MaxMatches,     \* MAX_MATCHES_PER_HASH
    PrefixLen       \* hex digits of the index prefix: 16

\* What a digest is written with: two digits stand for the sixteen.
Digits == {"a", "b"}

ASSUME ResultsAssumption ==
    /\ MaxHashes \in Nat
    /\ MaxMatches \in Nat \ {0}
    /\ PrefixLen \in Nat
    /\ \A s \in Services :
          /\ s.tables \in Seq(SUBSET [word : Seq(Characters), digest : Seq(Digits)])
          /\ \A t \in DOMAIN s.tables :
                /\ IsFiniteSet(s.tables[t])
                /\ \A e \in s.tables[t] : Len(e.digest) >= PrefixLen
          /\ s.texts \subseteq Seq(STRING)

VARIABLES
    tables,     \* the registered tables, in the order they are consulted
    page,       \* what the visitor sees, or the step the handler is at
    text,       \* the field "hashes"
    hashes,     \* the hashes parsed from it
    results,    \* the CrackResults
    summary,    \* the ResultSummary
    counted     \* how many results it counts so far

vars == <<tables, page, text, hashes, results, summary, counted>>

-----------------------------------------------------------------------------
(* Taking the text apart.                                                  *)

\* The k-th smallest of a set of numbers.
Kth(S, k) == CHOOSE i \in S : Cardinality({j \in S : j < i}) = k - 1

\* The elements of seq at the positions in S.
At(seq, S) == [k \in 1..Cardinality(S) |-> seq[Kth(S, k)]]

\* Mutant: carriage returns are left to trim.
normalized_Not(raw) == raw

\* replace("\r\n", "\n").replace('\r', '\n')
normalized(raw) ==
    LET merged == At(raw, {i \in DOMAIN raw : ~(raw[i] = "CR" /\ i < Len(raw) /\ raw[i + 1] = "LF")})
    IN  [i \in DOMAIN merged |-> IF merged[i] = "CR" THEN "LF" ELSE merged[i]]

\* The positions around the lines: before the first, each LF, after the last.
Breaks(t) == {0, Len(t) + 1} \cup {i \in DOMAIN t : t[i] = "LF"}

\* split('\n')
lines(t) ==
    [k \in 1..(Cardinality(Breaks(t)) - 1) |->
        SubSeq(t, Kth(Breaks(t), k) + 1, Kth(Breaks(t), k + 1) - 1)]

trim_matches(t, dropped) ==
    LET kept == {i \in DOMAIN t : t[i] \notin dropped}
    IN  IF kept = {} THEN <<>> ELSE SubSeq(t, Min(kept), Max(kept))

\* trim().trim_matches('*')
Trimmed(t) ==
    LET all == lines(t)
    IN  [k \in DOMAIN all |-> trim_matches(trim_matches(all[k], Blanks), {"*"})]

NonEmpty(all) == {k \in DOMAIN all : all[k] # <<>>}

Hashes(raw) ==
    LET all == Trimmed(normalized(raw))
    IN  At(all, NonEmpty(all))

-----------------------------------------------------------------------------
(* The crate preimage.  A table is a set of entries: a word and its digest  *)
(* in lowercase hex.                                                        *)

to_ascii_lowercase(c) == IF c = "A" THEN "a" ELSE IF c = "B" THEN "b" ELSE c

Lower(hash) == [i \in DOMAIN hash |-> to_ascii_lowercase(hash[i])]

\* Hex digits, an even number of them, and enough for the index prefix.
IsHash(hash) ==
    /\ Len(hash) % 2 = 0 /\ Len(hash) >= PrefixLen
    /\ \A i \in DOMAIN hash : to_ascii_lowercase(hash[i]) \in Digits

\* The entries of a table whose digest has the hash's index prefix.
Block(hash, table) ==
    {e \in table : SubSeq(e.digest, 1, PrefixLen) = SubSeq(Lower(hash), 1, PrefixLen)}

HasExact(hash, table) == \E e \in table : e.digest = Lower(hash)

\* early_exit: no table is consulted after one that holds the hash itself.
Consulted(hash) == {t \in DOMAIN tables : \A s \in 1..(t - 1) : ~HasExact(hash, tables[s])}

Candidates(hash) ==
    UNION {{[table |-> t, entry |-> e] : e \in Block(hash, tables[t])} : t \in Consulted(hash)}

IsExact(hash, candidate) == candidate.entry.digest = Lower(hash)

\* crack_with_limit: as many candidates as the limit admits, with an exact
\* one among them if there is one.  The order is left open.
Kept(hash) ==
    LET all   == Candidates(hash)
        exact == {c \in all : IsExact(hash, c)}
        n     == Min({Cardinality(all), MaxMatches})
    IN  {s \in [1..n -> all] :
            /\ IsInjective(s)
            /\ exact # {} => \E i \in DOMAIN s : s[i] \in exact}

-----------------------------------------------------------------------------
(* cracking.rs.  near_miss is the empty set for None.                       *)

Agreement(submitted, actual) ==
    {n \in 0..Min({Len(submitted), Len(actual)}) :
        \A i \in 1..n : to_ascii_lowercase(submitted[i]) = actual[i]}

\* Mutant: the digits are compared as they were typed.
NearMiss_AsTyped(submitted, actual) ==
    LET matched_len == Max({n \in Agreement(submitted, actual) :
                               \A i \in 1..n : submitted[i] = actual[i]})
    IN  [matched |-> SubSeq(actual, 1, matched_len),
         rest    |-> SubSeq(actual, matched_len + 1, Len(actual))]

NearMiss(submitted, actual) ==
    LET matched_len == Max(Agreement(submitted, actual))
    IN  [matched |-> SubSeq(actual, 1, matched_len),
         rest    |-> SubSeq(actual, matched_len + 1, Len(actual))]

CrackMatch(hash, candidate) ==
    [plaintext |-> display_plaintext(candidate.entry.word),
     near_miss |-> IF IsExact(hash, candidate) THEN {}
                   ELSE {NearMiss(hash, candidate.entry.digest)}]

InvalidFormat(hash) ==
    [hash |-> hash, matches |-> <<>>, total_matches |-> 0, format_error |-> TRUE]

\* Mutant: the matches that are kept are taken for all there are.
Lookup_KeptIsAll(hash, kept) ==
    [hash          |-> hash,
     matches       |-> [i \in DOMAIN kept |-> CrackMatch(hash, kept[i])],
     total_matches |-> Len(kept),
     format_error  |-> FALSE]

Lookup(hash, kept) ==
    [hash          |-> hash,
     matches       |-> [i \in DOMAIN kept |-> CrackMatch(hash, kept[i])],
     total_matches |-> Cardinality(Candidates(hash)),
     format_error  |-> FALSE]

is_full_match(match) == match.near_miss = {}

HasFull(result) == \E i \in DOMAIN result.matches : is_full_match(result.matches[i])

hidden_matches(result) ==
    IF result.total_matches > Len(result.matches)
    THEN result.total_matches - Len(result.matches) ELSE 0

NoSummary == [hashes |-> 0, cracked |-> 0, partial |-> 0, not_found |-> 0, invalid |-> 0]

\* Mutant: the first match decides.
Bucket_First(result) ==
    IF result.format_error THEN "invalid"
    ELSE IF result.matches = <<>> THEN "not_found"
    ELSE IF is_full_match(result.matches[1]) THEN "cracked"
    ELSE "partial"

\* What ResultSummary::of counts a result as.
Bucket(result) ==
    IF result.format_error THEN "invalid"
    ELSE IF result.matches = <<>> THEN "not_found"
    ELSE IF HasFull(result) THEN "cracked"
    ELSE "partial"

Counted(s) == s.cracked + s.partial + s.not_found + s.invalid

is_exhaustive(s) == Counted(s) = s.hashes

-----------------------------------------------------------------------------
(* The table: for each result its rows.  A row has a colour, the digest or  *)
(* hash in its first cell, how much of it is highlighted, the word's cell,  *)
(* and how many matches it says are not shown.                              *)

Row(class, hash, matched, cell, hidden) ==
    [class |-> class, hash |-> hash, matched |-> matched, cell |-> cell, hidden |-> hidden]

MatchRow(result, match) ==
    IF is_full_match(match)
    THEN Row("suc", result.hash, 0, plaintext_html(match.plaintext), 0)
    ELSE LET near == CHOOSE m \in match.near_miss : TRUE
         IN  Row("part", near.matched \o near.rest, Len(near.matched),
                 plaintext_html(match.plaintext), 0)

MoreRows(result) ==
    IF hidden_matches(result) > 0
    THEN <<Row("more", result.hash, 0, <<>>, hidden_matches(result))>> ELSE <<>>

Rows(result) ==
    IF result.format_error
    THEN <<Row("fail", result.hash, 0, <<"Unrecognized">>, 0)>>
    ELSE IF result.matches = <<>>
    THEN <<Row("fail", result.hash, 0, <<"NotFound">>, 0)>>
    ELSE [i \in DOMAIN result.matches |-> MatchRow(result, result.matches[i])] \o MoreRows(result)

-----------------------------------------------------------------------------
Init ==
    /\ \E s \in Services : tables = s.tables
    /\ page = "form"
    /\ text = <<>>
    /\ hashes = <<>>
    /\ results = <<>>
    /\ summary = NoSummary
    /\ counted = 0

\* A visitor sends the form.
Submit ==
    /\ page = "form"
    /\ \E s \in Services : s.tables = tables /\ text' \in s.texts
    /\ hashes' = Hashes(text')
    /\ page' = "parsed"
    /\ UNCHANGED <<tables, results, summary, counted>>

\* Mutant: one hash more.
TooMany_OffByOne == Len(hashes) > MaxHashes + 1

TooMany == Len(hashes) > MaxHashes

\* "Please enter 20 or less hashes."
RefuseMany ==
    /\ page = "parsed"
    /\ TooMany
    /\ page' = "refused"
    /\ UNCHANGED <<tables, text, hashes, results, summary, counted>>

\* No hash: the form again.
ShowForm ==
    /\ page = "parsed"
    /\ hashes = <<>>
    /\ page' = "blank"
    /\ UNCHANGED <<tables, text, hashes, results, summary, counted>>

\* crack_hashes, one hash: each is looked up on its own.
Crack ==
    /\ page = "parsed"
    /\ ~TooMany
    /\ Len(results) < Len(hashes)
    /\ LET hash == hashes[Len(results) + 1] IN
       \/ /\ ~IsHash(hash)
          /\ results' = Append(results, InvalidFormat(hash))
       \/ /\ IsHash(hash)
          /\ \E kept \in Kept(hash) : results' = Append(results, Lookup(hash, kept))
    /\ UNCHANGED <<tables, page, text, hashes, summary, counted>>

\* expect("oracle lookup failed"): the panic becomes a 500 without a table.
LookupFails ==
    /\ page = "parsed"
    /\ ~TooMany
    /\ Len(results) < Len(hashes)
    /\ page' = "failed"
    /\ UNCHANGED <<tables, text, hashes, results, summary, counted>>

\* The template counts the summary before it writes the table.
StartTable ==
    /\ page = "parsed"
    /\ hashes # <<>> /\ Len(results) = Len(hashes)
    /\ page' = "counting"
    /\ summary' = [NoSummary EXCEPT !.hashes = Len(results)]
    /\ UNCHANGED <<tables, text, hashes, results, counted>>

\* ResultSummary::of, one round of its loop.
Count ==
    /\ page = "counting"
    /\ counted < Len(results)
    /\ counted' = counted + 1
    /\ summary' = [summary EXCEPT ![Bucket(results[counted'])] = @ + 1]
    /\ UNCHANGED <<tables, page, text, hashes, results>>

\* debug_assert!(summary.is_exhaustive()), and the page is written.
ShowTable ==
    /\ page = "counting"
    /\ counted = Len(results)
    /\ page' = "results"
    /\ UNCHANGED <<tables, text, hashes, results, summary, counted>>

\* The visitor turns to the form again.
Return ==
    /\ page \in {"refused", "blank", "failed", "results"}
    /\ page' = "form"
    /\ text' = <<>> /\ hashes' = <<>> /\ results' = <<>>
    /\ summary' = NoSummary /\ counted' = 0
    /\ UNCHANGED tables

Next ==
    \/ Submit \/ RefuseMany \/ ShowForm \/ Crack \/ LookupFails
    \/ StartTable \/ Count \/ ShowTable \/ Return

Spec == Init /\ [][Next]_vars

-----------------------------------------------------------------------------
(* Properties.                                                             *)

\* At most MaxHashes results with at most MaxMatches matches each, however
\* much was sent or found; and the counts are numbers.
TypeOK ==
    /\ page \in {"form", "parsed", "counting", "results", "blank", "refused", "failed"}
    /\ Len(results) <= MaxHashes
    /\ \A k \in DOMAIN results :
          /\ Len(results[k].matches) <= MaxMatches
          /\ results[k].total_matches \in Nat
    /\ summary \in [{"hashes", "cracked", "partial", "not_found", "invalid"} -> 0..MaxHashes]
    /\ counted \in 0..Len(results)

\* ResultSummary: the line above the table counts what its rows show.  A hash
\* is cracked if it has a green row, partial if it has yellow ones only, and
\* the four buckets make up all hashes (is_exhaustive).
SummaryAgreesWithTable ==
    page = "results" =>
        LET Has(k, class) == \E i \in DOMAIN Rows(results[k]) : Rows(results[k])[i].class = class
            Says(k, words) == Rows(results[k])[1].class = "fail" /\ Rows(results[k])[1].cell = <<words>>
            all == DOMAIN results
        IN  /\ summary.hashes = Cardinality(all)
            /\ summary.cracked = Cardinality({k \in all : Has(k, "suc")})
            /\ summary.partial = Cardinality({k \in all : Has(k, "part") /\ ~Has(k, "suc")})
            /\ summary.not_found = Cardinality({k \in all : Says(k, "NotFound")})
            /\ summary.invalid = Cardinality({k \in all : Says(k, "Unrecognized")})
            /\ is_exhaustive(summary)

\* Each maximal run of text within a line that begins and ends with neither
\* a blank nor a star, in order: what a visitor would call the hashes.
Written(raw) ==
    LET solid == {i \in DOMAIN raw : raw[i] \notin Blanks \cup {"*"}}
        OneLine(i, j) == \A n \in i..j : raw[n] \notin LineEnds
        firsts == {i \in solid : ~\E j \in solid : j < i /\ OneLine(j, i)}
        last(i) == Max({j \in solid : j >= i /\ OneLine(i, j)})
    IN  [k \in 1..Cardinality(firsts) |-> SubSeq(raw, Kth(firsts, k), last(Kth(firsts, k)))]

\* Whatever the convention for line ends, each line with anything on it but
\* blanks and stars is answered, once, in the order of the lines; and no text
\* with such a line is taken for an empty one.
EveryLineAnswered ==
    LET stripped == [k \in DOMAIN results |-> trim_matches(results[k].hash, Blanks \cup {"*"})]
    IN  /\ page = "results" => Written(text) = At(stripped, NonEmpty(stripped))
        /\ page = "blank" => Written(text) = <<>>

\* Nothing is dropped without a word: the rows of a hash and the number in
\* its last row make up the words of the consulted tables that share its
\* index prefix, and a hash that stands in any table has a green row with a
\* word of that hash.
NothingHiddenSilently ==
    page = "results" =>
        \A k \in DOMAIN results :
            LET hash == results[k].hash
                rows == Rows(results[k])
                hits == {i \in DOMAIN rows : rows[i].class \in {"suc", "part"}}
                last == rows[Len(rows)]
            IN  IsHash(hash) =>
                    /\ Cardinality(hits) + last.hidden = Cardinality(Candidates(hash))
                    /\ \A t \in DOMAIN tables :
                          HasExact(hash, tables[t]) =>
                              \E i \in hits : \E s \in DOMAIN tables : \E e \in tables[s] :
                                  /\ rows[i].class = "suc"
                                  /\ e.digest = Lower(hash)
                                  /\ rows[i].cell = plaintext_html(display_plaintext(e.word))

\* NearMiss: a yellow row shows the digest of its own word, and highlights
\* exactly the digits, at least the index prefix, up to the first one that
\* the submitted hash got wrong, in whatever case it was typed.
NearMissShowsDigest ==
    page = "results" =>
        \A k \in DOMAIN results : \A i \in DOMAIN Rows(results[k]) :
            LET row == Rows(results[k])[i]
                hash == Lower(results[k].hash)
            IN  row.class = "part" =>
                    /\ \E t \in DOMAIN tables : \E e \in tables[t] :
                          e.digest = row.hash /\ row.cell = plaintext_html(display_plaintext(e.word))
                    /\ row.hash # hash
                    /\ row.matched >= PrefixLen
                    /\ SubSeq(row.hash, 1, row.matched) = SubSeq(hash, 1, row.matched)
                    /\ row.matched < Len(row.hash) /\ row.matched < Len(hash) =>
                          row.hash[row.matched + 1] # hash[row.matched + 1]

\* display_plaintext, plaintext_html: a cell shows its word as an editor
\* would, every character in its column and nothing cut off at the ends; for
\* a word that is no text, the two digits of each of its bytes.  (A carriage
\* return in a word has no place on a line and is left out here.)
Shows(cell, word) ==
    IF \E i \in DOMAIN word : word[i] = "bad"
    THEN \A i \in DOMAIN word : <<13 + 2 * (i - 1), hex(word[i])>> \in Browser(cell).visible
    ELSE Browser(cell) = Editor(word)

CellDisplaysTheWord ==
    page = "results" =>
        \A k \in DOMAIN results : \A i \in DOMAIN Rows(results[k]) :
            LET row == Rows(results[k])[i] IN
            row.class \in {"suc", "part"} =>
                \E t \in DOMAIN tables : \E e \in tables[t] :
                    /\ e.digest = Lower(row.hash)
                    /\ \/ \E j \in DOMAIN e.word : e.word[j] \in LineEnds
                       \/ Shows(row.cell, e.word)

\* Nothing of a word reaches a cell as markup: the cells are written with
\* |safe, and html_special_chars is all that stands between.
CellsAreInert ==
    \A k \in DOMAIN results : \A i \in DOMAIN Rows(results[k]) :
        \A j \in DOMAIN Rows(results[k])[i].cell : Rows(results[k])[i].cell[j] \notin Markup
===============================================================================
