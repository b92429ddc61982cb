-------------------------------- MODULE Captcha --------------------------------
(***************************************************************************)
(* The captcha of the home page: the boot check of src/main.rs on two      *)
(* environment variables, the site key src/app_state.rs serves, and what   *)
(* a POST to src/pages/home.rs makes of the verdict src/libs/recaptcha.rs  *)
(* gets from Google.                                                       *)
(*                                                                         *)
(* The site key is chosen at boot; the secret is read from the environment *)
(* at every verification; pages and tokens outlive the process that served *)
(* them.                                                                   *)
(***************************************************************************)
EXTENDS Naturals, Sequences, ClientAddress

CONSTANTS
    Addresses,    \* the addresses that headers can hold
    Visitors,     \* each stands for its own address too
    Challenges,   \* the challenges visitors can solve, by their tokens
    Configs,      \* the environments operators write
    ClientLines,  \* X-Forwarded-For lines that clients send by themselves
    MaxChanges    \* how often the environment changes under a process

SiteKeys == {"production", "test"}

\* A secret is "padded" when white space stands around it; "foreign" is any
\* value that is neither of this site's secrets.
Secrets == [value : {"unset", "empty", "foreign"} \cup SiteKeys, padded : BOOLEAN]

\* USE_DEV_RECAPTCHA_KEY by what it reads as; "other" is neither yes nor no.
Environments == [flag : {"unset", "on", "off", "other"}, secret : Secrets]

ASSUME CaptchaAssumption ==
    /\ Configs \subseteq Environments
    /\ \A lines \in ClientLines : lines \in Seq(Lines(Addresses))
    /\ <<>> \in ClientLines
    /\ Visitors \subseteq Addresses
    /\ Addresses \cap ({"junk"} \cup Peers) = {}
    /\ Challenges \cap {"forged", "absent", "oversized"} = {}
    /\ MaxChanges \in Nat

VARIABLES
    env,       \* the environment the process runs in, or will be started in
    changes,   \* how often it has changed under a running process
    booted,    \* the environment main read
    site_key,  \* AppState::recaptcha_site_key; "none" while nothing runs
    seen,      \* the site key in the page a visitor has in front of it
    solved,    \* the site key a challenge was solved for
    redeemed,  \* the tokens Google takes no more: verified once, or expired
    post,      \* a visitor's POST, or the answer to it
    bought     \* how many lookups a token has bought under the production key

vars == <<env, changes, booted, site_key, seen, solved, redeemed, post, bought>>

\* What a form's g-recaptcha-response holds: a token, something that looks
\* like one, nothing, or more than MAX_TOKEN_LEN bytes.
Fields == Challenges \cup {"forged", "absent", "oversized"}

Answers == [success : BOOLEAN, testkey : BOOLEAN]

NoAnswer == [success |-> FALSE, testkey |-> FALSE]

Outcomes == {"none", "passed", "incorrect", "fault"}

\* "good": when Google judged the token, or when the code gave up before Google
\* had, it was fresh and solved for the site key in use.  "vouched": our proxy's own X-Forwarded-For line is readable.
Posts == [stage : {"idle", "asking", "answered", "told"},
          field : Fields, secret : Secrets, address : Addresses \cup Peers,
          vouched : BOOLEAN, good : BOOLEAN, answer : Answers, outcome : Outcomes]

Idle == [stage |-> "idle", field |-> "absent",
         secret |-> [value |-> "unset", padded |-> FALSE], address |-> "v4",
         vouched |-> FALSE, good |-> FALSE, answer |-> NoAnswer, outcome |-> "none"]

-----------------------------------------------------------------------------
(* Boot *)

parse_dev_recaptcha_flag(flag) == flag = "on"

\* Mutant: the secret is compared as it stands in the environment.
check_captcha_config_Raw(dev, secret) ==
    /\ secret.value # "empty"
    /\ dev = (secret.value = "test" /\ ~secret.padded)

\* The two halves agree once white space is taken off the secret.
check_captcha_config(dev, secret) ==
    /\ secret.value # "empty"
    /\ dev = (secret.value = "test")

site_key_for(dev) == IF dev THEN "test" ELSE "production"

is_test_site_key(key) == key = "test"

Init ==
    /\ env \in Configs /\ booted = env
    /\ changes = 0
    /\ site_key = "none"
    /\ seen = [v \in Visitors |-> "none"]
    /\ solved = [c \in Challenges |-> "none"]
    /\ redeemed = {}
    /\ post = [v \in Visitors |-> Idle]
    /\ bought = [f \in Fields |-> 0]

\* A configuration that fails a check panics, and nothing runs.
Boot ==
    /\ site_key = "none"
    /\ env.secret.value # "unset"
    /\ env.flag # "other"
    /\ check_captcha_config(parse_dev_recaptcha_flag(env.flag), env.secret)
    /\ booted' = env
    /\ site_key' = site_key_for(parse_dev_recaptcha_flag(env.flag))
    /\ UNCHANGED <<env, changes, seen, solved, redeemed, post, bought>>

\* The process ends, and with it every POST under way.
Stop ==
    /\ site_key # "none"
    /\ site_key' = "none"
    /\ post' = [v \in Visitors |-> IF post[v].stage \in {"asking", "answered"} THEN Idle ELSE post[v]]
    /\ UNCHANGED <<env, changes, booted, seen, solved, redeemed, bought>>

\* The operator edits the environment between two runs.
Configure ==
    /\ site_key = "none"
    /\ env' \in Configs
    /\ UNCHANGED <<changes, booted, site_key, seen, solved, redeemed, post, bought>>

\* "The environment can change under a running process" (recaptcha.rs:93).
ChangeEnvironment ==
    /\ site_key # "none"
    /\ changes < MaxChanges
    /\ changes' = changes + 1
    /\ \E c \in Configs : env' = [env EXCEPT !.secret = c.secret]
    /\ UNCHANGED <<booted, site_key, seen, solved, redeemed, post, bought>>

-----------------------------------------------------------------------------
(* A visitor and its browser *)

OpenPage(v) ==
    /\ site_key # "none"
    /\ seen' = [seen EXCEPT ![v] = site_key]
    /\ UNCHANGED <<env, changes, booted, site_key, solved, redeemed, post, bought>>

Solve(v, c) ==
    /\ seen[v] # "none" /\ solved[c] = "none"
    /\ solved' = [solved EXCEPT ![c] = seen[v]]
    /\ UNCHANGED <<env, changes, booted, site_key, seen, redeemed, post, bought>>

\* A token Google has issued is good for two minutes.
Expire(c) ==
    /\ solved[c] # "none"
    /\ redeemed' = redeemed \cup {c}
    /\ UNCHANGED <<env, changes, booted, site_key, seen, solved, post, bought>>

\* The visitor has read the answer; its browser may send the form again.
Return(v) ==
    /\ post[v].stage = "told"
    /\ post' = [post EXCEPT ![v] = Idle]
    /\ UNCHANGED <<env, changes, booted, site_key, seen, solved, redeemed, bought>>

\* How a request can arrive: around the proxy, or through a proxy that adds a
\* line of its own to the client's (or, to none, replaces them), or appends its
\* element to a line of the client's.  A misconfigured proxy writes something
\* else than the visitor's address.
Loopback == Peers \ {"direct"}

Own(element) == [readable |-> TRUE, elements |-> <<element>>]

Joined(line, element) == [line EXCEPT !.elements = Append(@, element)]

Direct(v) == [peer : {v}, lines : ClientLines, vouched : {TRUE}]

Appended(v) ==
    {[peer |-> p, lines |-> Append(lines, Own(written)), vouched |-> written = v] :
       p \in Loopback, lines \in ClientLines, written \in {v, "junk"}}

Merged(v) ==
    {[peer |-> p, lines |-> <<Joined(lines[Len(lines)], v)>>, vouched |-> lines[Len(lines)].readable] :
       p \in Loopback, lines \in ClientLines \ {<<>>}}

Arrivals(v) == Direct(v) \cup Appended(v) \cup Merged(v)

-----------------------------------------------------------------------------
(* Handler::post, up to the verdict *)

is_plausible_token(field) == field \notin {"absent", "oversized"}

\* What a browser can put in the form: any token it has, or anything else.
Submitted(v, f) ==
    /\ site_key # "none"
    /\ post[v].stage = "idle"
    /\ f \in Challenges => solved[f] # "none"

\* An answer that needs no word from Google.
Answer(v, outcome) ==
    /\ post' = [post EXCEPT ![v] = [Idle EXCEPT !.stage = "told", !.outcome = outcome]]
    /\ UNCHANGED <<env, changes, booted, site_key, seen, solved, redeemed, bought>>

\* The request carries the key whose hash the server holds.
Bypass(v, f) == Submitted(v, f) /\ Answer(v, "passed")

\* Nothing worth a round trip: a failed captcha.
RejectToken(v, f) ==
    /\ Submitted(v, f)
    /\ ~is_plausible_token(f)
    /\ Answer(v, "incorrect")

MissSecret(v, f) ==
    /\ Submitted(v, f)
    /\ is_plausible_token(f)
    /\ env.secret.value = "unset"
    /\ Answer(v, "fault")

\* Token, secret and the visitor's address go to Google.
AskGoogle(v, f) ==
    /\ Submitted(v, f)
    /\ is_plausible_token(f)
    /\ env.secret.value # "unset"
    /\ \E a \in Arrivals(v) :
          post' = [post EXCEPT ![v] =
             [stage |-> "asking", field |-> f, secret |-> env.secret,
              address |-> client_ip(a.peer, a.lines), vouched |-> a.vouched,
              good |-> FALSE, answer |-> NoAnswer, outcome |-> "none"]]
    /\ UNCHANGED <<env, changes, booted, site_key, seen, solved, redeemed, bought>>

-----------------------------------------------------------------------------
(* Google *)

IsGood(f) == f \in Challenges /\ f \notin redeemed /\ solved[f] = site_key

\* Its test secret accepts everything; a real one accepts a fresh token for
\* its own site key, once; an unknown one nothing.  Whether it overlooks
\* white space around a secret is not known.
Judge(v) ==
    /\ post[v].stage = "asking"
    /\ \E secret \in IF post[v].secret.padded THEN {post[v].secret.value, "foreign"}
                                              ELSE {post[v].secret.value} :
         LET f == post[v].field
             fresh == secret = "production" /\ f \in Challenges \ redeemed /\ solved[f] = "production"
         IN  /\ post' = [post EXCEPT ![v] =
                  [stage |-> "answered", field |-> f, secret |-> post[v].secret,
                   address |-> Idle.address, vouched |-> FALSE, good |-> IsGood(f),
                   answer |-> [success |-> fresh \/ secret = "test",
                               testkey |-> secret = "test"],
                   outcome |-> "none"]]
             /\ redeemed' = IF fresh THEN redeemed \cup {f} ELSE redeemed
    /\ UNCHANGED <<env, changes, booted, site_key, seen, solved, bought>>

-----------------------------------------------------------------------------
(* Handler::post, with the verdict *)

\* Mutant: the verdict of the test secret is never looked at.
is_bypass_signature_Never(testkey, serves_test_site_key) == FALSE

is_bypass_signature(testkey, serves_test_site_key) == testkey /\ ~serves_test_site_key

verdict(answer) ==
    IF is_bypass_signature(answer.testkey, is_test_site_key(site_key)) THEN "fault"
    ELSE IF answer.success THEN "passed" ELSE "incorrect"

Receive(v) ==
    /\ post[v].stage = "answered"
    /\ post' = [post EXCEPT ![v] = [@ EXCEPT !.stage = "told", !.outcome = verdict(post[v].answer)]]
    /\ bought' = IF verdict(post[v].answer) = "passed" /\ ~is_test_site_key(site_key)
                 THEN [bought EXCEPT ![post[v].field] = @ + 1] ELSE bought
    /\ UNCHANGED <<env, changes, booted, site_key, seen, solved, redeemed>>

\* The answer given when Google's cannot be read; the history of a good token
\* is kept.
NoVerdict(v, outcome) ==
    LET good == IF post[v].stage = "asking" THEN IsGood(post[v].field) ELSE post[v].good
        told == [Idle EXCEPT !.stage = "told", !.outcome = outcome]
    IN  /\ post[v].stage \in {"asking", "answered"}
        /\ post' = [post EXCEPT ![v] =
              IF good THEN [told EXCEPT !.good = TRUE, !.field = post[v].field,
                                        !.secret = post[v].secret]
              ELSE told]
        /\ UNCHANGED <<env, changes, booted, site_key, seen, solved, redeemed, bought>>

\* Mutant: "a clipped body would parse as a failed captcha".
Fail_Incorrect(v) == NoVerdict(v, "incorrect")

\* No connection, VERIFY_TIMEOUT, an answer that is too long or no JSON:
\* Google may have judged the token all the same.
Fail(v) == NoVerdict(v, "fault")

-----------------------------------------------------------------------------
(* Specification *)

Operator == Boot \/ Stop \/ Configure \/ ChangeEnvironment

Browser(v) == OpenPage(v) \/ Return(v) \/ \E c \in Challenges : Solve(v, c)

Handle(v) ==
    \/ \E f \in Fields : Bypass(v, f) \/ RejectToken(v, f) \/ MissSecret(v, f) \/ AskGoogle(v, f)
    \/ Receive(v)
    \/ Fail(v)

Next ==
    \/ Operator
    \/ \E c \in Challenges : Expire(c)
    \/ \E v \in Visitors : Browser(v) \/ Handle(v) \/ Judge(v)

Spec == Init /\ [][Next]_vars

-----------------------------------------------------------------------------
(* Properties *)

\* Each variable has its type.
TypeOK ==
    /\ env \in Environments /\ booted \in Environments
    /\ changes \in 0..MaxChanges
    /\ site_key \in SiteKeys \cup {"none"}
    /\ seen \in [Visitors -> SiteKeys \cup {"none"}]
    /\ solved \in [Challenges -> SiteKeys \cup {"none"}]
    /\ redeemed \subseteq Challenges
    /\ post \in [Visitors -> Posts]
    /\ bought \in [Fields -> Nat]

\* While the production site key is served, every lookup that carries no
\* bypass key is paid for with a challenge solved for that key, and none pays
\* twice: whatever the environment becomes after boot, however POSTs overlap,
\* and whichever page or process a token comes from.
LookupsArePaidFor ==
    \A f \in Fields :
        /\ bought[f] <= 1
        /\ bought[f] = 1 => f \in redeemed /\ solved[f] = "production"

\* A fresh token for the site key in use is never called incorrect, though
\* Google's answer be lost, late or too long, and passes when Google says so, as
\* long as the secret matches that key: in production and in the development
\* setup, which the bypass guard must let through (recaptcha.rs:111-163, :182).
HonestVisitorsGetThrough ==
    \A v \in Visitors :
        /\ post[v].stage = "told" /\ post[v].good
        /\ post[v].secret = [value |-> solved[post[v].field], padded |-> FALSE]
        => /\ post[v].outcome # "incorrect"
           /\ post[v].answer.success => post[v].outcome = "passed"

\* "Startup refuses to boot on that pairing, so seeing it at request time means
\* the secret changed underneath a running process" (recaptcha.rs:178).
BypassMeansSecretChanged ==
    \A v \in Visitors :
        /\ post[v].stage = "answered"
        /\ is_bypass_signature(post[v].answer.testkey, is_test_site_key(site_key))
        => post[v].secret # booted.secret

\* The address given to Google, and hashed by the hit counter, is the
\* visitor's own or the proxy's, and its own whenever the line our proxy
\* wrote can be read: never one the visitor put into the header.
AddressIsVouchedFor ==
    \A v \in Visitors :
        post[v].stage = "asking" =>
            /\ post[v].address \in {v} \cup TrustedProxies
            /\ post[v].vouched => post[v].address = v

\* "Ok(false) when the user failed ...  This distinction prevents
\* misconfiguration or outages from being silently swallowed as bad captcha"
\* (recaptcha.rs:3): nobody is told "Incorrect captcha" about a token that was
\* fresh and solved for the site key in use.
MisconfigurationIsNotABadCaptcha ==
    \A v \in Visitors :
        ~(post[v].stage = "told" /\ post[v].outcome = "incorrect" /\ post[v].good)
===============================================================================
