# Verification of crackstation-rust

TLA+ models of the CrackStation web server, the TLC runs that check them on
small instances, and proofs by TLAPS of the properties that matter most. Line
numbers refer to this commit of the repository; `main.rs:62` is
`src/main.rs`, line 62, and other files are named the same way.

## 1. The system

One process (axum on tokio) behind one proxy (Caddy), with a MySQL database and
Google's reCAPTCHA service.

| Part | Code | State it keeps | Operations |
|---|---|---|---|
| Middleware stack | `main.rs:266-309`, `middleware/*` | none between requests | canonicalization, body buffering, admission, security headers, panics to 500 |
| Blocking pool | `main.rs:40-71`, `middleware/blocking.rs` | threads, FIFO of tasks, permits | admit, shed, run a closure, nested tasks, disconnect |
| Registry | `registry/*` | a constant table | `resolve_path`, aliases, canonical URLs |
| Dispatcher | `registered_page_handler.rs`, `handler.rs`, `libs/csrf.rs` | none | method and origin checks, hit counting, page handlers |
| Hit counter | `libs/phpcount.rs`, `dev/01-init.sql` | tables `cshits` and `csnodupes`, the visitor key | `add_hit`, `get_hit_counts`, key rotation, cleanup |
| Home page | `pages/home.rs` | none | parse the form, verify the captcha, crack |
| Captcha | `libs/recaptcha.rs`, `main.rs:84-165`, `app_state.rs` | the site key; two environment variables it reads but does not own | boot check, `verify` |
| Results | `cracking.rs`, `templates/pages/home.html` | lookup tables (external crate) | `crack_hashes`, summary, display |
| Client address | `libs/util.rs` | none | `client_ip`, `is_https` |
| Escaping | `libs/html_escape.rs` | none | a pure conversion |
| Start-up | `main.rs:167-265` | none | a sequence of checks that panic |
| Shutdown | `main.rs:311-379` | signal handlers, the runtime | drain connections, drop the runtime |
| Static pages, templates, assets | `pages/*`, `templates/`, `static/` | none | rendering |

How they interact. A request passes the layers outside in: CatchPanic,
SecurityHeaders, UrlCanonicalization, body buffering, admission, the blocking
middleware, the router. The blocking middleware runs the rest of the request as
ONE closure on a pool thread with `block_on`; what the handler awaits in there
(file probes of ServeDir, the name resolution of the captcha request) is again
a task of the same pool. A registered page then goes through the counter's
statements and its handler. A file's body is read after the response future,
and with it the permit, is gone.

What is hard here:

- the pool is used re-entrantly: its threads wait for tasks queued behind them;
  the only protection is an admission limit, whose permit dies with the
  response future while the closure does not (section 3.1);
- the counter's sequence of statements has no transaction: statements fail or
  lose their answer half-way, requests interleave between any two of them, the
  key rotates between two identifiers of one hit, cleanup deletes with a cutoff
  computed earlier, the process restarts (section 3.2);
- the layers resolve the path and read the Host header separately, before and
  after one another, and must agree; a redirect is canonicalized again when the
  browser follows it (section 3.3);
- the captcha's site key is chosen at boot and its secret read at every
  verification; pages and tokens outlive the process that served them; Google
  may have redeemed a token whose answer never arrives (section 3.4);
- what a visitor sees of its hashes goes through a text field with three
  conventions for line ends, a cap on matches over several tables, and an
  escaping that has to survive a browser's treatment of blanks (section 3.5);
- a stop signal meets closures whose clients have gone, leaves in the queue and
  connections that only their clients can end (section 3.6).

What makes each part correct: no circular wait, no lost permit, every admitted
request leaves (pool); counts that neither lose a recorded visitor nor drift
apart, a uniqueness test and a cleanup that agree on what is old (counter);
redirects that settle, assertions that never fire, hits counted only for
what is served (routing); lookups that are paid for and visitors who are not
turned away for the operator's mistakes (captcha); no line, match or byte that
is dropped without a word (results); a process that stops, but not under
open connections or running closures (shutdown).

## 2. Modules

| Module | Models | Lines of the code |
|---|---|---|
| `Admission` | contract of admission control | `main.rs:52-71`, `:293-300` |
| `BlockingPool` | request path, permits, pool, nested tasks | `main.rs:46-71`, `:254-309`, `blocking.rs`, `buffer_body.rs`, `home.rs`, `recaptcha.rs` |
| `BlockingPool_proofs` | theorems about it | |
| `PhpCount` | the hit counter and its two tables | `phpcount.rs:28-410`, `01-init.sql` |
| `HitLedger` | what the numbers of the counter stand for | `phpcount.rs:141-179` |
| `PhpCount_proofs` | theorems about it | |
| `RequestRouting` | layers, registry, dispatcher, a browser | `middleware/*`, `registry/*`, `csrf.rs`, `util.rs`, `registered_page_handler.rs` |
| `RequestRouting_proofs` | theorems about it | |
| `Shutdown` | the end of the process, around `BlockingPool` | `main.rs:167-175`, `:316-379` |
| `Shutdown_proofs` | theorems about it, on those about the pool | |
| `ClientAddress` | whose request it is; used by `RequestRouting` and `Captcha` | `util.rs:6-109` |
| `Captcha` | boot check, environment, browsers, Google | `main.rs:73-166`, `recaptcha.rs`, `app_state.rs`, `home.rs:33-88`, `:125-144` |
| `Captcha_proofs` | theorems about it | |
| `HtmlEscape` | `escape_text`, and what a browser draws of it | `html_escape.rs:28-126`, `cracking.rs:98-145` |
| `CrackResults` | from the text of the form to the table of results | `home.rs:86-124`, `cracking.rs:44-95`, `:159-201`, `:287-353`, `home.html:54-71` |
| `CrackResults_proofs` | theorems about results, summary and rows | |
| `ResultsText_proofs` | theorems about what is read and what is shown | |
| `Induction` | induction over numbers and sums, for the proofs | |
| `MC*` | instances for TLC | |

How they compose. `Shutdown` EXTENDS `BlockingPool` and wraps every step of it;
`BlockingPool` implements `Admission` (`INSTANCE ... WITH`), and `Shutdown` is
shown to implement it too. `PhpCount` implements `HitLedger`. `RequestRouting` and `Captcha` EXTEND
`ClientAddress`; `CrackResults` EXTENDS `HtmlEscape`. `Captcha` ends where
`CrackResults` begins: at a POST that passed. The pool sees a POST as the
threads and waits it costs.

Definitions keep the names of the code where they can (`add_hit` has become
`AddHit`, `resolve_path` kept its name). Operators marked *Mutant* in a comment
are deliberately wrong variants of the definition that follows them; they are
used nowhere in a specification. Each one shows that a property would notice
that mistake.

### BlockingPool

An element of `Requests` is a slot that carries one request at a time.
`client` is the connection's side (idle, received, waiting, streaming, shed),
`closure` where the spawned closure stands, `leaf` the nested task of the
request, `queue` tokio's FIFO, `permits` the semaphore. `Arrive`, `RefuseBody`,
`Admit`, `Shed` are the layers in front of the pool; `StartTask` a pool thread
that takes the head of the queue; `Probe`/`ServeFile`/`MissFile` are ServeDir,
`AnswerEarly`/`CountHit`/`RenderPage`/`VerifyCaptcha`/`Verdict` the dispatcher
and the home page, `VerifyTimeout` reqwest's timeout while its name resolution
is queued or running; `Respond`, `ReadChunk`, `SendChunk` the connection task;
`LeaveWhileWaiting` and `LeaveElsewhere` a client that disconnects.

Abstractions: consecutive file probes of one request are one leaf; the
re-resolution of the database's name when sqlx reconnects is left out; the
hand-over of a permit is atomic with the decision to shed. In tokio it is not:
`LoadShed` polls the semaphore, which queues the request for a permit, and drops
it again when it sheds. A permit that is given back in between goes to that
request first, and a third one that asks at this very moment is shed although no
request holds the permit. The properties below do not cover this window.
`MaxAbandoned` bounds how many closures may outlive their clients. The code has
no such bound: it is a parameter so that the theorem can say what the deadlock
depends on.

### PhpCount

One action per SQL statement and per lock step: `Cutoff` and `DeleteOld`
(cleanup), `CheckKey`, `RotateKey`, `HashId` (`id_hash`, read lock, then write
lock), `SelectTime`, `Decide`, `CountUnique`, `LogHit`, `CountTotal`, the
SELECT/INSERT/duplicate-key path that creates a row, and the four reads of
`get_hit_counts`. `StatementFails` stops a request at any statement,
`AnswerLost` after the statement has taken effect, `ColumnFull` when the
counter column cannot grow. `Restart` cuts everything off and makes a new key.

History variables: `recorded` and `counted` are visitors, `torn` counts the
sequences cut off after the unique count. `logged` is the table as it would be
if nothing were deleted, so it holds the LAST write of each identifier, which
need not be the latest time: `log_hit` takes its time before the INSERT
(`phpcount.rs:297`), and an older INSERT that lands later puts the row back.
`began` is the time and key with which each `log_hit` began, `seen` the hits
recorded that no such older INSERT threatened at that moment, `met` those of
them that a lookup found when it began.

Abstractions: statements are atomic (the tables are MyISAM, which locks the
table); `Instant` and the wall clock are one clock that does not go back;
SHA-256 is injective, an identifier is a triple of key generation, page and
visitor; the UPDATE of a full column is an error (strict mode).

### RequestRouting

A browser types a URL or sends a form (`Navigate`), follows redirects
(`Follow`: drops userinfo, may turn a POST into a GET after a 301) and leaves.
`phase` is the layer a request has reached. A Host header is a record of
userinfo, name and port; a path is a record of name, extension, case and final
slash, so that `resolve_path` is what it does to the spelling. `peer` is the
form in which our proxy's address is reported. Answers carry status, Location,
Allow and the headers that SecurityHeaders adds.
A read of a file is answered as its conditions and ranges have it (200, 206, 304,
412 or 416), which ServeDir decides.

Abstractions: whether admission sheds is left open (BlockingPool decides it);
what a hit writes is PhpCount's; a query string is there or not; the empty
path of a CONNECT request is not asked for in the run. ServeDir is modelled
from its use: file, directory without slash (307), or the fallback. The directory
under `/files` is taken to hold files only, like the archives that `main.rs:225`
looks for: a directory in it would be answered with a 307 whose Location has lost
the prefix.

### Captcha, ClientAddress

`env` is the environment, `booted` what `main` read of it, `site_key` what
`AppState` serves. `Boot` is the boot check (a configuration it refuses runs
nothing), `Stop`, `Configure` and `ChangeEnvironment` the operator. A visitor
opens a page (`OpenPage` remembers the site key in it, which may be that of a
process long gone), solves a challenge (`Solve`) and sends a POST: `Bypass`,
`RejectToken`, `MissSecret`, `AskGoogle` are the branches of `Handler::post` and
of `verify` up to the request; `Judge` is Google; `Receive` and `Fail` the rest.
A lost or late answer leaves the history of the token as it is, so that a visitor
who is then told "incorrect" would be noticed.
`bought`, `good` and `vouched` are history variables.

`client_ip` works on header lines that are readable or not, each a sequence of
elements that are an address or "junk". `Arrivals` is every way in which a
request can reach the process: directly, through a proxy that adds a line, or
through one that appends to the visitor's line.

Abstractions: addresses and secrets are values that are equal or not, and
"padded" says that white space surrounds a secret. Google is external and is
modelled by what `recaptcha.rs` says of it; whether it overlooks the white
space is left open. Its answer always carries a verdict (a JSON text without
`success` reads as false in the code). The key of `Bypass` is somebody's or not.

### HtmlEscape, CrackResults

A text is a sequence of short strings: a letter, a blank, an entity, or "bad"
for bytes that are not UTF-8. `escape_text` applies the code's steps in the
code's order; each of its scans is a set of positions (`Fix`) or a recursive
function. `Editor` and `Browser` say what an editor and a browser draw: the
visible characters, each with its column.

`Submit` parses the field at once (`Hashes`); `Crack` is one round of
`crack_hashes`, `Count` one round of `ResultSummary::of`; `RefuseMany`,
`ShowForm`, `LookupFails` and `ShowTable` are the ways out of the handler. `Rows`
is the table of the template.

The crate preimage is external. `Candidates` and `Kept` say what `cracking.rs`
relies on: entries share the index prefix, no table is consulted after one
with the exact hash, the limit is respected and an exact match survives it.
These are assumptions, and the order of the kept matches is left open. The
column with the algorithm's name is left out.

### Shutdown

`process` is what `main` is doing: serving, draining, dropping the runtime,
exited. `ReceiveSignal` closes the listener and the idle connections; those
that have sent half a request's head (`reading`) may still send the rest
(`FinishHead`) or go away (`LeaveHead`). `Drain` is every step of the pool but
an arrival. `Drained` is the return of `axum::serve`. Then `CancelTask`,
`RefuseLeaf`, `RunOn` and `RunQueue` are what a runtime that is being dropped
does with what clients that have gone left behind, and `Exit` is the end of
`main`. What the drop does is tokio's, and external.

## 3. What is checked

TLC, every run within the bounds of its `.cfg`:

| Run | States | Shows |
|---|---|---|
| `pool_safety` | 103k | permits, queue, leaves; no circular wait with one abandoned closure |
| `shutdown` | 216k | closures end, the pool implements `Admission`, and the process stops, no connection cut off and no closure left running |
| `pool_demand` | violated | the documented peak demand |
| `pool_deadlock` | violated | the documented protection from deadlock |
| `counter_counts` | 341k | counts under failures, interleaving, a restart; the four counts read for a page |
| `counter_retention` | 7.7M | uniqueness test, cleanup, rotation over time |
| `counter_rotation` | violated | the documented claim about rotation |
| `routing` | 341k | every layer and every redirect |
| `routing_csp` | violated | the documented claim about the policy header |
| `captcha` | 3.4M | who passes, who is turned away, whose address is reported |
| `captcha_blame` | violated | the documented claim about misconfiguration |
| `results` | 112k | parsing, matches, summary, escaping |

### 3.1 Pool

Bounds. Four slots, three threads, one permit and one abandoned closure are
the smallest sizes at which closures queue behind closures, a leaf queues
behind both, a permit is reused while its former closure still runs, and the
number of closures that can wait (permits plus abandoned) is one below the
number of threads, where the circular wait is closest. The two violated runs keep the code's ratio of
one permit to four threads.

`PermitAccounting`: however a request ends, its permit is neither lost nor
doubled. `QueueMatchesTasks`, `LeavesHaveOwners`: tasks are queued once and
results have somebody to take them, even after a timeout. `NoCircularWait`: the
deadlock that the comment at `main.rs:62` describes.

The liveness of the pool is checked in the run `shutdown` (section 3.6), under
the fairness stated there.

Two findings. *Peak demand*: `main.rs:60` derives twice the number of permits;
file bodies and given-up name resolutions draw from the pool without a permit
(`pool_demand`). *The limit is not the bound it is meant to be*: a client that
disconnects gives its permit back while its closure keeps the thread, so
permits plus abandoned closures is the real bound; when that reaches the pool's
size the circular wait is reachable (`pool_deadlock`). At the code's sizes it
takes 3072 closures abandoned at the same time, each still waiting for a leaf.

### 3.2 Counter

Bounds. Two requests are enough for every race between two statements; two
visitors of one page for counts, one visitor and a clock of 0 to 4 (retention 2,
key lifetime 3) for everything about age: a row can be written, grow old and be
deleted, and a key can expire while rows written under it are young. One page is enough for the totals:
other pages can only make the sum larger than what the page shows.
`MaxHitCount = 2` makes the column full within the run.

`UniqueNeverUndercounts` is the promise of the order count-then-log, under any
failure. `UniqueWithinTotal` says by how much the two counts may disagree.
`ImplementsLedger` is about steps: whatever a statement, a race for a row, a
failure or a restart does, it is one stroke of `HitLedger` (a new visitor's
first stroke or second, a lost second one, or the hit of a visitor who was
counted as new before) or none. Counts are never reset and never skip.
`CleanupKeepsWhatCounts` is about the DELETE: three readings of the clock, two
comparisons (`<` and `<=`) and other requests that log and look up in between.
`UniqueOnlyAfterRetention` is about what the rows are for: a hit recorded keeps its
visitor from being unique for the retention period, for every lookup that begins
after it. Two things excuse the code, and the history names them. A rotation of the
key forgets visitors, so the hit counts under the key in force when its `log_hit`
began; that the identifier is computed anew there, not taken over from the lookup, is
what its mutant undoes. And an older time whose INSERT is still to come puts the row
back: the visitor is then unique sooner, by as much as that request was delayed.
A hit to which neither applies is never overlooked. The simple claim, that nothing
was logged for the visitor within the period, is not true of the code.
`KeyServesItsLifetime` is the double check under the write lock.
`ShownTotalsCoverPage` holds only because the page's counts are read before the
totals.

A finding: `phpcount.rs:41` says that rotation never orphans a row that is
still consulted. A row written shortly before the rotation is
(`counter_rotation`); the visitor is counted as unique again. The module's own
header (`phpcount.rs:24`) describes it correctly.

### 3.3 Routing

Bounds. The registry has the home page, a page, the page "404" and an alias of
each kind; paths are spelled with every extension that takes another branch, in
wrong case, and with a slash; hosts are missing, exact, with a port, with
userinfo that looks like the master host, on the development list and next to
it; all four forms of the peer; Origin and Referer each absent, own, foreign or
of a development host. A browser would follow five redirects: two is the
most it ever gets, so the bound is never reached.

`RedirectsSettle` is the outage described at `util.rs:27-35`, for every
combination. `DispatcherAssertionsHold` covers the `BUG:` assertions of the
dispatcher. `PagesOnlyOnSite`, `RedirectsKeepWhatWasAsked`,
`CountedOnlyIfServed`, `AllowTellsTheTruth` and `PagesAreHardened` each relate
the decisions of two or more layers.

A finding: `security_headers.rs:31` says that the policy is sent with every
response; the 500 that CatchPanic makes does not pass that layer
(`routing_csp`).

### 3.4 Captcha

Bounds. Two visitors who may send the same token are enough for every race
about one token; one challenge, since tokens do not interact; every pairing of
the two variables that the boot check tells apart; one change under the running
process and any number of restarts. The lines that visitors send by themselves
hold made-up addresses before and after junk, on one line or two, readable or
not.

`LookupsArePaidFor` is what the captcha is for: under the production key, one
lookup for one challenge of that key, although pages, tokens and secrets may
all be from another time. `HonestVisitorsGetThrough` is the other side of it:
the guard against the test secret must not refuse anybody whom it is not meant
for, nor may an answer that was lost be told as "incorrect". `BypassMeansSecretChanged` is what the code concludes from the signature
(`recaptcha.rs:178`). `AddressIsVouchedFor` is for every way a request can
arrive.

A finding: `recaptcha.rs:3` says that a misconfiguration is never reported as a
bad captcha. A secret of another site passes the boot check, and Google's
complaint about it comes as `success: false`: every visitor is told "Incorrect
captcha" (`captcha_blame`).

### 3.5 Results

Bounds. Every text of up to five characters over a letter that is a digit, one
that is not, blank, star, CR and LF: five is the least length with two lines, a
two-character line end between them and a blank or star on one side. Two hashes
are accepted, so that three are too many. Every pair of ten hashes against two
tables whose blocks are as large as the cap and larger. Every word of up to
four characters over space, tab, a letter, markup, CR and bytes that are no
text, shown by its whole hash and as a near miss.

`EveryLineAnswered` compares the parser with a definition of its own of what a
visitor would call a hash. `SummaryAgreesWithTable` relates the line above
the table to the colours in it. `NothingHiddenSilently` is about the cap.
`NearMissShowsDigest` and `CellsAreInert` are about single cells.
`CellDisplaysTheWord` says that a browser draws the word as an editor would:
each character in its column, trailing blanks included. It leaves out words
with a line break in them.

What the model also shows, and no document of the code denies: a line `* HASH`
keeps the blank between star and hash, because the trimming of stars comes
after that of blanks; the answer is "Unrecognized". A line `* *` is answered by
a row for a blank.

### 3.6 Shutdown, and liveness of the pool

Bounds. Three slots without symmetry, three threads, one permit, one abandoned
closure: at the signal one request can be under way, one abandoned, and one connection in
its client's hands.

Fairness (`SFairness`), and why the code justifies it: pool threads take tasks
(`StartTask`) and finish them (`EndLeaf`), connection tasks are scheduled
(`Respond`), a closure that can take a step does (`ClosureRuns`), and `main` goes
on when what it awaits is there (`Drained`, `Exit`). The closures' part includes
that the database and Google answer or fail: for Google `VERIFY_TIMEOUT` sees to
it, for the database there is no statement timeout in the code, so this is an
assumption about MySQL and TCP. Clients owe nothing, and no signal need come.

`EveryClosureEnds` and the liveness half of `ImplementsAdmission` (an admitted
request leaves) hold at any moment of the process's life, the drop of the
runtime included. `ShutdownCompletes` says what a stop can be kept waiting by:
only by clients that hold a connection with half a head, half a body or a file
they do not read; the code has no timeout for these. `GracefulExit` says that no
connection is cut off (the runtime is dropped only when none is open) and that
`main` does not return over a closure on a thread. It does not say that such a
closure got its work done: its database awaits end in errors once the runtime is
dropped (`RunOn`), and its hit may stay half counted, which is a torn sequence
of `PhpCount`. All of this assumes the bound on abandoned closures; a pool that
is in the circular wait of section 3.1 also never finishes a shutdown.

## 4. What is proved

TLAPS checks, for every value of the constants that satisfies the assumptions
named in the modules:

- `BlockingPool_proofs`. `Inv` is `TypeOK` with `Control` (which stages, replies
  and leaves go together), the accounting of permits, the agreement of queue
  and tasks, and the bound on abandoned closures. The agreement is needed
  because the head of the queue decides who gets a thread. From it: types,
  `PermitAccounting`, `QueueMatchesTasks`, `LeavesHaveOwners`,
  `HandlerDemandBounded`; `NoDeadlock`, from `MaxConcurrentRequests +
  MaxAbandoned < MaxBlockingThreads` (a starved closure is live, and live
  closures are waiting or abandoned); and `Refinement`, that each step of the
  pool is a step or a stutter of `Admission`.
- `Induction` has no component of its own. The library's induction theorems take
  an operator, which the provers cannot instantiate; here a property of numbers
  is the set of the numbers that have it, which they can. A recursive function
  is a choice among the solutions of its equations: `Iterates` and
  `SumTableExists` show that there is a solution, the function then is one, and
  induction gives its values. Sums over a set (`MapThenSumSet`), texts that are
  joined (`FlattenSeq`) and scans (`Cursor`) are reasoned about in this way.
- `PhpCount_proofs`. `CounterInv` is `StateTypes` with `Control` (what a request
  between two statements knows), `RequestInv` (the times it holds are not from
  the future, and what it saw of the table is still a lower bound) and
  `TableInv` (rows, history and counts). On top of it, `UniqueWithinTotal` is
  carried by a balance of counts, torn sequences and sequences under way.
  `SequenceStep` sorts the steps of a request into five kinds, four of which are
  the strokes of `HitLedger`: `KeepsLedger` is the refinement, for any number of
  requests, pages and visitors. It needs `CounterInv` for one thing above all: a
  hit that is not a new visitor's is that of a visitor in `counted`.
  `RetentionInv` carries `UniqueOnlyAfterRetention`: as long as the key is the same, a
  hit in `seen` has been logged with its time or a later one, and no INSERT of an
  earlier time is to come; a lookup reads the hits it has met unless they are
  old by then.
  `ShownInv` is about the four statements of `get_hit_counts`: a count that has
  been read is at most what the table holds now (counts never fall), and a sum
  over the pages is at least each of its terms. From it the rest of `TypeOK` and
  `ShownTotalsCoverPage`.
- `RequestRouting_proofs`. `RoutingInv` is `TypeOK` with what each layer may
  assume of the ones before it, what `SecurityHeaders` may assume of the answer,
  a potential (the redirects already followed plus those that host and path
  still need are at most two: each redirect lowers that need) and what the URL
  under way has in common with the one typed. Every property of the run follows,
  for every registry, static tree and set of hosts.

- `Shutdown_proofs`. `SInv`: the pool's `Inv` is kept by the steps of the
  shutdown too, cancelled and refused tasks included, and once the runtime is
  dropped no connection is open (`Open = {}`). The theorems of the pool are used
  as they are for the steps that the path has too; only a cancelled and a refused
  task are new. From it `GracefulExit` and, again, the refinement of `Admission`.
- `Captcha_proofs`. The invariant ties a POST under way to the environment that
  booted and to what Google has redeemed: an answer of success under the
  production key that is not the test secret's is one for a token redeemed for
  that POST alone. `ArrivalAddress` reduces `client_ip` to the last readable line
  for header lines of any number and length.
- `CrackResults_proofs`. `IInv` says of each result that it was made by
  `InvalidFormat` or by `Lookup` with some kept matches, and of the summary that
  it has counted the results so far, bucket by bucket. Its cardinalities grow
  by one element at a time, so that no induction is needed; where a
  least or greatest element is (longest common beginning, `Min` of a cap) it
  comes from the well-foundedness of `<`. `CellIsInert` needs no invariant.
  Proved for all tables, texts and bounds: the types (with the cap on results
  and matches), `SummaryAgreesWithTable`, `NothingHiddenSilently`,
  `NearMissShowsDigest`, `CellsAreInert`.
- `ResultsText_proofs`, first part: `EveryLineAnswered`, for texts of any length.
  Both sides are lists of pieces in the order of their positions. The lemmas
  show that the k-th smallest element exists and is the only one of its rank,
  that merging CR LF keeps order and line ends, that each line has at most one
  hash, which is what stands between its first and last solid character, and so
  that the k-th hash of one side is the k-th of the other.
- `ResultsText_proofs`, second part: `CellDisplaysTheWord`, for words of any
  length. `TabsFacts`: `tabs_to_spaces` puts every character where the editor's
  column is. `CellFacts`: after the replacements of `escape_text` and of
  `plaintext_html` each plain space stands alone between two visible
  characters, so (`BrowserIs`) the browser drops none, and columns are sums of
  widths. `TextIsShown` and `BytesAreShown` put these together for a word that is
  text and for one that is not.

The assumptions are the named ASSUMEs of the modules: sizes are numbers,
`MaxConcurrentRequests + MaxAbandoned < MaxBlockingThreads` where a theorem names
it, registry slugs are resolvable, addresses are not the markers of the model,
tables are finite, their words are made of `Characters`, and their digests are
lowercase hex and at least as long as the index prefix.

Only model-checked: liveness, that is `EveryClosureEnds`, `ShutdownCompletes` and
the fair half of `ImplementsAdmission` (fairness and ENABLED are beyond the
prover).

## 5. Not modelled

- A second Ctrl+C and SIGKILL: they end the process in any state. What that
  leaves in the database is what `Restart` of `PhpCount` leaves.
- Start-up but for the captcha's check: each other check looks at one thing and
  panics. `init_oracle` loads the tables or panics.
- The lock of the visitor key poisoned by a panic: it needs a failing entropy
  source, after which every hit fails until a restart.
- A wall clock that is set back: the code relies on the operator, and the
  properties about retention are not true of such a clock.
- `br_tags` of `escape_text`: it has no caller.
- Templates and page text (content), metadata of pages that only reaches
  templates, `build.rs` and scripts (build steps), the lookup tables (an
  external crate), logging.

What could be added: the hand-over of a visitor's address from `ClientAddress`
to `PhpCount`.
