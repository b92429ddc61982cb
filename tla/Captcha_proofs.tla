---------------------------- MODULE Captcha_proofs ----------------------------
(***************************************************************************)
(* Proofs about Captcha: its types, who pays for lookups, who gets         *)
(* through, what a bypass signature means and whose address is reported.   *)
(***************************************************************************)
EXTENDS Captcha, TLAPS

-----------------------------------------------------------------------------
(* client_ip *)

\* The last line counts if it is readable: its own last element, or the peer.
LEMMA LastLine ==
    ASSUME NEW S, NEW lines \in Seq(S), NEW line \in S, line.readable,
           NEW peer, is_trusted_proxy(peer)
    PROVE  client_ip(peer, Append(lines, line)) =
             IF line.elements[Len(line.elements)] = "junk" THEN to_canonical(peer)
             ELSE line.elements[Len(line.elements)]
<1> DEFINE all == Append(lines, line)
           n == Len(lines) + 1
<1>1. DOMAIN all = 1..n /\ all[n] = line /\ n \in Nat
  OBVIOUS
<1>2. n \in Readable(all) /\ \A j \in Readable(all) : j <= n
  BY <1>1 DEF Readable
<1>3. \A i \in Readable(all) : (\A j \in Readable(all) : j <= i) => i = n
  BY <1>1, <1>2 DEF Readable
<1> HIDE DEF all, n
<1>4. (CHOOSE i \in Readable(all) : \A j \in Readable(all) : j <= i) = n
  BY <1>2, <1>3
<1>5. VouchedElement(all) = line.elements[Len(line.elements)]
  BY <1>1, <1>4 DEF VouchedElement
<1>6. Readable(all) # {}
  BY <1>2
<1> QED
  BY <1>5, <1>6 DEF client_ip, all

LEMMA LoopbackIsTrusted ==
    ASSUME NEW p \in Loopback
    PROVE  is_trusted_proxy(p) /\ to_canonical(p) \in TrustedProxies
BY DEF Loopback, Peers, is_trusted_proxy, to_canonical, TrustedProxies

\* A single line that cannot be read leaves the peer.
LEMMA UnreadableLine ==
    ASSUME NEW line, ~line.readable, NEW peer
    PROVE  client_ip(peer, <<line>>) = to_canonical(peer)
<1>1. Readable(<<line>>) = {}
  BY DEF Readable
<1> QED
  BY <1>1 DEF client_ip

\* However a request arrives, its address is the visitor's or the proxy's, and
\* the visitor's whenever our proxy's line can be read.
LEMMA ArrivalAddress ==
    ASSUME NEW v \in Visitors, NEW a \in Arrivals(v)
    PROVE  /\ client_ip(a.peer, a.lines) \in {v} \cup TrustedProxies
           /\ a.vouched \in BOOLEAN
           /\ a.vouched => client_ip(a.peer, a.lines) = v
<1> USE CaptchaAssumption
<1>v. v # "junk" /\ v \notin Peers /\ v \in Addresses
  OBVIOUS
<1>1. CASE a \in Direct(v)
  <2>1. a.peer = v /\ a.vouched = TRUE
    BY <1>1 DEF Direct
  <2>2. to_canonical(v) = v /\ ~is_trusted_proxy(v)
    BY <1>v DEF to_canonical, is_trusted_proxy, TrustedProxies, Peers
  <2> QED
    BY <2>1, <2>2 DEF client_ip
<1>2. CASE a \in Appended(v)
  <2>1. PICK p \in Loopback, lines \in ClientLines, written \in {v, "junk"} :
              a = [peer |-> p, lines |-> Append(lines, Own(written)), vouched |-> written = v]
    BY <1>2 DEF Appended
  <2>2. a.peer = p /\ a.lines = Append(lines, Own(written)) /\ a.vouched = (written = v)
    BY <2>1
  <2>3. lines \in Seq(Lines(Addresses))
    OBVIOUS
  <2>4. Own(written).readable /\ Own(written).elements[Len(Own(written).elements)] = written
    BY DEF Own
  <2>5. Own(written) \in Lines(Addresses)
    BY <1>v DEF Own, Lines
  <2>6. client_ip(p, Append(lines, Own(written))) =
           IF written = "junk" THEN to_canonical(p) ELSE written
    BY <2>3, <2>4, <2>5, LastLine, LoopbackIsTrusted
  <2> QED
    BY <1>v, <2>2, <2>6, LoopbackIsTrusted
<1>3. CASE a \in Merged(v)
  <2>1. PICK p \in Loopback, lines \in ClientLines \ {<<>>} :
              a = [peer |-> p, lines |-> <<Joined(lines[Len(lines)], v)>>,
                   vouched |-> lines[Len(lines)].readable]
    BY <1>3 DEF Merged
  <2> DEFINE line == lines[Len(lines)]
             joined == Joined(line, v)
  <2>2. a.peer = p /\ a.lines = <<joined>> /\ a.vouched = line.readable
    BY <2>1
  <2>3. line \in Lines(Addresses)
    <3>1. lines \in Seq(Lines(Addresses)) /\ lines # <<>>
      OBVIOUS
    <3> QED
      BY <3>1
  <2>4. line.readable \in BOOLEAN /\ line.elements \in Seq(Addresses \cup {"junk"})
    BY <2>3 DEF Lines
  <2>5. joined.readable = line.readable /\ joined.elements = Append(line.elements, v)
    BY <2>3 DEF Joined, Lines
  <2>6. joined.elements[Len(joined.elements)] = v /\ joined.elements # <<>>
    BY <2>4, <2>5
  <2>7. CASE line.readable
    <3>1. joined \in {joined} /\ <<>> \in Seq({joined}) /\ Append(<<>>, joined) = <<joined>>
      OBVIOUS
    <3> HIDE DEF joined, line
    <3>2. joined.readable /\ is_trusted_proxy(p)
      BY <2>5, <2>7, LoopbackIsTrusted
    <3>3. client_ip(p, Append(<<>>, joined)) =
            IF joined.elements[Len(joined.elements)] = "junk" THEN to_canonical(p)
            ELSE joined.elements[Len(joined.elements)]
      BY <3>1, <3>2, LastLine
    <3> QED
      BY <1>v, <2>2, <2>6, <2>7, <3>1, <3>3
  <2>8. CASE ~line.readable
    <3> HIDE DEF joined, line
    <3> QED
      BY <2>2, <2>4, <2>5, <2>8, UnreadableLine, LoopbackIsTrusted
  <2> QED
    BY <2>4, <2>7, <2>8
<1> QED
  BY <1>1, <1>2, <1>3 DEF Arrivals

-----------------------------------------------------------------------------
(* The inductive invariant *)

\* What runs passed the boot check.
BootOK ==
    site_key # "none" => site_key = "test" <=> booted.secret.value = "test"

\* No POST is under way while nothing runs.
Quiet ==
    site_key = "none" => \A v \in Visitors : post[v].stage \in {"idle", "told"}

\* A success that does not come from the test secret.
Earned(v) ==
    post[v].stage = "answered" /\ post[v].answer.success /\ ~post[v].answer.testkey

\* Such a success has used up its token, for which no lookup was done yet.
EarnedOK ==
    \A v \in Visitors : Earned(v) =>
        /\ post[v].field \in redeemed
        /\ solved[post[v].field] = "production"
        /\ bought[post[v].field] = 0

OneEarner ==
    \A v, w \in Visitors : Earned(v) /\ Earned(w) /\ post[v].field = post[w].field => v = w

\* A visitor whose token was good and whose secret matched it.
Honest(v) ==
    post[v].good /\ post[v].secret = [value |-> solved[post[v].field], padded |-> FALSE]

JudgedOK ==
    \A v \in Visitors :
        /\ post[v].good => post[v].field \in Challenges /\ solved[post[v].field] # "none"
        /\ post[v].stage = "answered" =>
             /\ post[v].answer.testkey => post[v].secret.value = "test"
             /\ Honest(v) => /\ post[v].answer.success
                             /\ post[v].answer.testkey => site_key = "test"

Inv ==
    /\ TypeOK /\ BootOK /\ Quiet /\ EarnedOK /\ OneEarner /\ JudgedOK
    /\ LookupsArePaidFor /\ HonestVisitorsGetThrough /\ AddressIsVouchedFor

-----------------------------------------------------------------------------
(* Types *)

LEMMA IdleTyped == Idle \in Posts
BY DEF Idle, Posts, Fields, Secrets, Peers, NoAnswer, Answers, Outcomes

LEMMA AnswerTyped ==
    ASSUME TypeOK, NEW v \in Visitors, NEW o \in Outcomes, Answer(v, o)
    PROVE  TypeOK'
<1>1. [Idle EXCEPT !.stage = "told", !.outcome = o] \in Posts
  BY IdleTyped DEF Posts
<1>2. post' \in [Visitors -> Posts]
  BY <1>1 DEF TypeOK, Answer
<1> QED
  BY <1>2 DEF TypeOK, Answer

LEMMA FailTyped ==
    ASSUME TypeOK, NEW v \in Visitors, Fail(v)
    PROVE  TypeOK'
<1> DEFINE told == [Idle EXCEPT !.stage = "told", !.outcome = "fault"]
<1>1. post[v].field \in Fields /\ post[v].secret \in Secrets
  BY DEF TypeOK, Posts
<1>2. told \in Posts
  BY IdleTyped DEF Posts, Outcomes
<1>3. [told EXCEPT !.good = TRUE, !.field = post[v].field, !.secret = post[v].secret] \in Posts
  BY <1>1, <1>2 DEF Posts
<1>4. post' \in [Visitors -> Posts]
  BY <1>2, <1>3 DEF TypeOK, Fail, NoVerdict
<1> QED
  BY <1>4 DEF TypeOK, Fail, NoVerdict

LEMMA AskTyped ==
    ASSUME TypeOK, NEW v \in Visitors, NEW f \in Fields, AskGoogle(v, f)
    PROVE  TypeOK'
<1>1. PICK a \in Arrivals(v) :
          post' = [post EXCEPT ![v] =
             [stage |-> "asking", field |-> f, secret |-> env.secret,
              address |-> client_ip(a.peer, a.lines), vouched |-> a.vouched,
              good |-> FALSE, answer |-> NoAnswer, outcome |-> "none"]]
  BY DEF AskGoogle
<1> DEFINE p == [stage |-> "asking", field |-> f, secret |-> env.secret,
              address |-> client_ip(a.peer, a.lines), vouched |-> a.vouched,
              good |-> FALSE, answer |-> NoAnswer, outcome |-> "none"]
<1>2. client_ip(a.peer, a.lines) \in Addresses \cup Peers /\ a.vouched \in BOOLEAN
  BY ArrivalAddress, CaptchaAssumption DEF TrustedProxies, Peers
<1>3. env.secret \in Secrets
  BY DEF TypeOK, Environments
<1>4. NoAnswer \in Answers
  BY DEF NoAnswer, Answers
<1>5. p \in Posts
  BY <1>2, <1>3, <1>4 DEF Posts, Outcomes
<1>6. post' \in [Visitors -> Posts]
  BY <1>1, <1>5 DEF TypeOK
<1> QED
  BY <1>6 DEF TypeOK, AskGoogle

\* What Google answers, for one reading of the secret.
JudgedPost(v, s, fresh) ==
    [stage |-> "answered", field |-> post[v].field, secret |-> post[v].secret,
     address |-> Idle.address, vouched |-> FALSE, good |-> IsGood(post[v].field),
     answer |-> [success |-> fresh \/ s = "test", testkey |-> s = "test"],
     outcome |-> "none"]

Fresh(f, s) == s = "production" /\ f \in Challenges \ redeemed /\ solved[f] = "production"

LEMMA JudgeStep ==
    ASSUME NEW v \in Visitors, Judge(v)
    PROVE  \E s \in {post[v].secret.value, "foreign"} :
             /\ ~post[v].secret.padded => s = post[v].secret.value
             /\ post' = [post EXCEPT ![v] = JudgedPost(v, s, Fresh(post[v].field, s))]
             /\ redeemed' = IF Fresh(post[v].field, s) THEN redeemed \cup {post[v].field} ELSE redeemed
BY DEF Judge, JudgedPost, Fresh

LEMMA JudgeTyped ==
    ASSUME TypeOK, NEW v \in Visitors, Judge(v)
    PROVE  TypeOK'
<1>1. PICK s \in {post[v].secret.value, "foreign"} :
             /\ ~post[v].secret.padded => s = post[v].secret.value
             /\ post' = [post EXCEPT ![v] = JudgedPost(v, s, Fresh(post[v].field, s))]
             /\ redeemed' = IF Fresh(post[v].field, s) THEN redeemed \cup {post[v].field} ELSE redeemed
  BY JudgeStep
<1>2. post[v] \in Posts
  BY DEF TypeOK
<1>3. post[v].field \in Fields /\ post[v].secret \in Secrets
  BY <1>2 DEF Posts
<1>4. IsGood(post[v].field) \in BOOLEAN
  BY DEF IsGood
<1>5. Fresh(post[v].field, s) \in BOOLEAN
  BY DEF Fresh
<1>6. [success |-> Fresh(post[v].field, s) \/ s = "test", testkey |-> s = "test"] \in Answers
  BY <1>5 DEF Answers
<1>7. JudgedPost(v, s, Fresh(post[v].field, s)) \in Posts
  BY <1>3, <1>4, <1>6 DEF JudgedPost, Posts, Outcomes, Idle, Peers
<1>8. post' \in [Visitors -> Posts]
  BY <1>1, <1>7 DEF TypeOK
<1>9. redeemed' \subseteq Challenges
  BY <1>1 DEF TypeOK, Fresh
<1> QED
  BY <1>8, <1>9 DEF TypeOK, Judge

LEMMA ReceiveTyped ==
    ASSUME TypeOK, NEW v \in Visitors, Receive(v)
    PROVE  TypeOK'
<1>1. post[v] \in Posts
  BY DEF TypeOK
<1>2. post[v].field \in Fields /\ verdict(post[v].answer) \in Outcomes
  BY <1>1 DEF Posts, verdict, Outcomes
<1>3. [post[v] EXCEPT !.stage = "told", !.outcome = verdict(post[v].answer)] \in Posts
  BY <1>1, <1>2 DEF Posts
<1>4. post' = [post EXCEPT ![v] = [post[v] EXCEPT !.stage = "told", !.outcome = verdict(post[v].answer)]]
  BY DEF Receive, TypeOK
<1>5. post' \in [Visitors -> Posts]
  BY <1>3, <1>4 DEF TypeOK
<1>6. bought' \in [Fields -> Nat]
  BY <1>2 DEF TypeOK, Receive
<1> QED
  BY <1>5, <1>6 DEF TypeOK, Receive

LEMMA Typing == Init => TypeOK
<1> SUFFICES ASSUME Init PROVE TypeOK
  OBVIOUS
<1>1. env \in Environments /\ booted \in Environments
  BY CaptchaAssumption DEF Init
<1>2. post \in [Visitors -> Posts]
  BY IdleTyped DEF Init
<1> QED
  BY <1>1, <1>2, CaptchaAssumption DEF Init, TypeOK

LEMMA StopTyped == ASSUME TypeOK, Stop PROVE TypeOK'
<1>1. \A v \in Visitors : (IF post[v].stage \in {"asking", "answered"} THEN Idle ELSE post[v]) \in Posts
  BY IdleTyped DEF TypeOK
<1>2. post' \in [Visitors -> Posts]
  BY <1>1 DEF Stop
<1> QED
  BY <1>2 DEF TypeOK, Stop

LEMMA TypeStep == ASSUME TypeOK, [Next]_vars PROVE TypeOK'
<1>1. CASE Boot
  BY <1>1 DEF Boot, TypeOK, site_key_for, SiteKeys
<1>2. CASE Stop
  BY <1>2, StopTyped
<1>3. CASE Configure
  BY <1>3, CaptchaAssumption DEF Configure, TypeOK
<1>4. CASE ChangeEnvironment
  <2>1. PICK c \in Configs : env' = [env EXCEPT !.secret = c.secret]
    BY <1>4 DEF ChangeEnvironment
  <2>2. c \in Environments
    BY CaptchaAssumption
  <2>3. env' \in Environments
    BY <2>1, <2>2 DEF TypeOK, Environments
  <2>4. changes' \in 0..MaxChanges
    BY <1>4, CaptchaAssumption DEF ChangeEnvironment, TypeOK
  <2> QED
    BY <1>4, <2>3, <2>4 DEF ChangeEnvironment, TypeOK
<1>5. ASSUME NEW c \in Challenges, Expire(c) PROVE TypeOK'
  BY <1>5 DEF Expire, TypeOK
<1>6. ASSUME NEW v \in Visitors, Browser(v) PROVE TypeOK'
  <2>1. CASE OpenPage(v)
    BY <2>1 DEF OpenPage, TypeOK
  <2>2. CASE Return(v)
    <3>1. post' \in [Visitors -> Posts]
      BY <2>2, IdleTyped DEF Return, TypeOK
    <3> QED
      BY <2>2, <3>1 DEF Return, TypeOK
  <2>3. ASSUME NEW c \in Challenges, Solve(v, c) PROVE TypeOK'
    BY <2>3 DEF Solve, TypeOK
  <2> QED
    BY <1>6, <2>1, <2>2, <2>3 DEF Browser
<1>7. ASSUME NEW v \in Visitors, Handle(v) PROVE TypeOK'
  <2>1. ASSUME NEW f \in Fields, Bypass(v, f) PROVE TypeOK'
    BY <2>1, AnswerTyped DEF Bypass, Outcomes
  <2>2. ASSUME NEW f \in Fields, RejectToken(v, f) PROVE TypeOK'
    BY <2>2, AnswerTyped DEF RejectToken, Outcomes
  <2>3. ASSUME NEW f \in Fields, MissSecret(v, f) PROVE TypeOK'
    BY <2>3, AnswerTyped DEF MissSecret, Outcomes
  <2>4. ASSUME NEW f \in Fields, AskGoogle(v, f) PROVE TypeOK'
    BY <2>4, AskTyped
  <2>5. CASE Receive(v)
    BY <2>5, ReceiveTyped
  <2>6. CASE Fail(v)
    BY <2>6, FailTyped
  <2> QED
    BY <1>7, <2>1, <2>2, <2>3, <2>4, <2>5, <2>6 DEF Handle
<1>8. ASSUME NEW v \in Visitors, Judge(v) PROVE TypeOK'
  BY <1>8, JudgeTyped
<1>9. CASE UNCHANGED vars
  BY <1>9 DEF vars, TypeOK
<1> QED
  BY <1>1, <1>2, <1>3, <1>4, <1>5, <1>6, <1>7, <1>8, <1>9 DEF Next, Operator

-----------------------------------------------------------------------------
(* What a step does to the rest of the invariant *)

Rest ==
    /\ BootOK /\ Quiet /\ EarnedOK /\ OneEarner /\ JudgedOK
    /\ LookupsArePaidFor /\ HonestVisitorsGetThrough /\ AddressIsVouchedFor

LEMMA Unconcerned ==
    ASSUME Inv, UNCHANGED <<booted, site_key, solved, redeemed, post, bought>>
    PROVE  Rest'
BY DEF Inv, Rest, BootOK, Quiet, EarnedOK, OneEarner, JudgedOK, Earned, Honest,
       LookupsArePaidFor, HonestVisitorsGetThrough, AddressIsVouchedFor

LEMMA BootRest == ASSUME Inv, Boot PROVE Rest'
<1>1. UNCHANGED <<solved, redeemed, post, bought>> /\ site_key = "none"
  BY DEF Boot
<1>2. BootOK' /\ Quiet'
  BY DEF Boot, BootOK, Quiet, site_key_for, parse_dev_recaptcha_flag, check_captcha_config
<1>3. \A v \in Visitors : ~Earned(v)' /\ post'[v].stage # "answered"
  BY <1>1 DEF Inv, Quiet, Earned
<1>4. EarnedOK' /\ OneEarner' /\ JudgedOK'
  BY <1>1, <1>3 DEF Inv, EarnedOK, OneEarner, JudgedOK
<1> QED
  BY <1>1, <1>2, <1>4 DEF Inv, Rest, LookupsArePaidFor, HonestVisitorsGetThrough, AddressIsVouchedFor

LEMMA StopRest == ASSUME Inv, Stop PROVE Rest'
<1>1. UNCHANGED <<solved, redeemed, bought, booted>> /\ site_key' = "none"
  BY DEF Stop
<1>2. \A v \in Visitors :
         \/ post'[v] = Idle
         \/ post'[v] = post[v] /\ post[v].stage \notin {"asking", "answered"}
  BY DEF Stop
<1>3. \A v \in Visitors : post'[v].stage \in {"idle", "told"}
  <2> TAKE v \in Visitors
  <2>1. post[v].stage \in {"idle", "asking", "answered", "told"}
    BY DEF Inv, TypeOK, Posts
  <2> QED
    BY <1>2, <2>1 DEF Idle
<1>4. \A v \in Visitors : ~Earned(v)'
  BY <1>3 DEF Earned
<1>5. JudgedOK'
  BY <1>1, <1>2, <1>3 DEF Inv, JudgedOK, Idle
<1>6. HonestVisitorsGetThrough'
  BY <1>1, <1>2 DEF Inv, HonestVisitorsGetThrough, Idle
<1>7. AddressIsVouchedFor'
  BY <1>3 DEF AddressIsVouchedFor
<1> QED
  BY <1>1, <1>3, <1>4, <1>5, <1>6, <1>7
  DEF Inv, Rest, BootOK, Quiet, EarnedOK, OneEarner, LookupsArePaidFor

LEMMA SolveRest == ASSUME Inv, NEW v \in Visitors, NEW c \in Challenges, Solve(v, c) PROVE Rest'
<1>1. UNCHANGED <<booted, site_key, redeemed, post, bought>>
  BY DEF Solve
<1>2. /\ solved[c] = "none"
      /\ \A d \in Challenges : d # c => solved'[d] = solved[d]
      /\ solved'[c] # "none"
  BY DEF Solve, Inv, TypeOK
<1>3. \A d \in Challenges : solved[d] # "none" => solved'[d] = solved[d]
  BY <1>2
<1>4. \A w \in Visitors : post[w].good => solved'[post[w].field] = solved[post[w].field]
  BY <1>3 DEF Inv, JudgedOK
<1>5. \A f \in Fields : f \in redeemed /\ solved[f] = "production" => solved'[f] = "production"
  BY <1>3 DEF Inv, TypeOK
<1>6. LookupsArePaidFor'
  BY <1>1, <1>5 DEF Inv, LookupsArePaidFor
<1>7. EarnedOK'
  <2>1. \A w \in Visitors : post[w].field \in Fields
    BY DEF Inv, TypeOK, Posts
  <2> QED
    BY <1>1, <1>5, <2>1 DEF Inv, EarnedOK, Earned
<1>8. JudgedOK'
  BY <1>1, <1>4 DEF Inv, JudgedOK, Honest
<1>9. HonestVisitorsGetThrough'
  BY <1>1, <1>4 DEF Inv, HonestVisitorsGetThrough
<1> QED
  BY <1>1, <1>6, <1>7, <1>8, <1>9
  DEF Inv, Rest, BootOK, Quiet, OneEarner, Earned, AddressIsVouchedFor

LEMMA ExpireRest == ASSUME Inv, NEW c \in Challenges, Expire(c) PROVE Rest'
<1>1. UNCHANGED <<booted, site_key, solved, post, bought>> /\ redeemed \subseteq redeemed'
  BY DEF Expire
<1> QED
  BY <1>1 DEF Inv, Rest, BootOK, Quiet, EarnedOK, OneEarner, JudgedOK, Earned, Honest,
       LookupsArePaidFor, HonestVisitorsGetThrough, AddressIsVouchedFor

\* A POST that is set aside: not sent, answered without Google, or given up.
LEMMA SetAside ==
    ASSUME Inv, NEW v \in Visitors,
           post'[v].stage \in {"idle", "told"},
           post'[v].good => /\ post'[v].outcome # "incorrect" /\ ~post'[v].answer.success
                            /\ post'[v].field \in Challenges
                            /\ solved[post'[v].field] # "none",
           \A w \in Visitors : w # v => post'[w] = post[w],
           UNCHANGED <<booted, site_key, solved, redeemed, bought>>
    PROVE  Rest'
<1>1. post'[v].stage \in {"idle", "told"}
  OBVIOUS
<1>2. ~Earned(v)' /\ \A w \in Visitors : w # v => (Earned(w)' <=> Earned(w))
  BY <1>1 DEF Earned
<1>3. EarnedOK' /\ OneEarner'
  BY <1>1, <1>2 DEF Inv, EarnedOK, OneEarner
<1>4. JudgedOK'
  BY <1>1 DEF Inv, JudgedOK, Honest
<1>5. HonestVisitorsGetThrough' /\ AddressIsVouchedFor'
  BY <1>1 DEF Inv, HonestVisitorsGetThrough, AddressIsVouchedFor
<1>6. Quiet'
  BY <1>1 DEF Inv, Quiet
<1> QED
  BY <1>3, <1>4, <1>5, <1>6 DEF Inv, Rest, BootOK, LookupsArePaidFor

LEMMA AnswerRest ==
    ASSUME Inv, NEW v \in Visitors, NEW o, Answer(v, o)
    PROVE  Rest'
<1>1. post'[v].stage = "told" /\ post'[v].good = FALSE
  BY DEF Answer, Idle, Inv, TypeOK
<1>2. \A w \in Visitors : w # v => post'[w] = post[w]
  BY DEF Answer, Inv, TypeOK
<1>3. UNCHANGED <<booted, site_key, solved, redeemed, bought>>
  BY DEF Answer
<1> QED
  BY <1>1, <1>2, <1>3, SetAside

LEMMA FailRest ==
    ASSUME Inv, NEW v \in Visitors, Fail(v)
    PROVE  Rest'
<1>1. /\ post'[v].stage = "told" /\ post'[v].outcome = "fault" /\ ~post'[v].answer.success
      /\ post'[v].good => /\ post'[v].field = post[v].field
                          /\ post[v].stage = "asking" => IsGood(post[v].field)
                          /\ post[v].stage # "asking" => post[v].good
  BY DEF Fail, NoVerdict, Idle, NoAnswer, Inv, TypeOK
<1>2. site_key # "none"
  BY DEF Fail, NoVerdict, Inv, Quiet
<1>3. post'[v].good => post[v].field \in Challenges /\ solved[post[v].field] # "none"
  BY <1>1, <1>2 DEF IsGood, Inv, JudgedOK
<1>4. \A w \in Visitors : w # v => post'[w] = post[w]
  BY DEF Fail, NoVerdict, Inv, TypeOK
<1>5. UNCHANGED <<booted, site_key, solved, redeemed, bought>>
  BY DEF Fail, NoVerdict
<1> QED
  BY <1>1, <1>3, <1>4, <1>5, SetAside

LEMMA ReturnRest ==
    ASSUME Inv, NEW v \in Visitors, Return(v)
    PROVE  Rest'
<1>1. post'[v].stage = "idle" /\ post'[v].good = FALSE
  BY DEF Return, Idle, Inv, TypeOK
<1>2. \A w \in Visitors : w # v => post'[w] = post[w]
  BY DEF Return, Inv, TypeOK
<1>3. UNCHANGED <<booted, site_key, solved, redeemed, bought>>
  BY DEF Return
<1> QED
  BY <1>1, <1>2, <1>3, SetAside

LEMMA AskRest ==
    ASSUME Inv, NEW v \in Visitors, NEW f \in Fields, AskGoogle(v, f)
    PROVE  Rest'
<1>1. PICK a \in Arrivals(v) :
          post' = [post EXCEPT ![v] =
             [stage |-> "asking", field |-> f, secret |-> env.secret,
              address |-> client_ip(a.peer, a.lines), vouched |-> a.vouched,
              good |-> FALSE, answer |-> NoAnswer, outcome |-> "none"]]
  BY DEF AskGoogle
<1>2. /\ post'[v].stage = "asking" /\ post'[v].good = FALSE
      /\ post'[v].address = client_ip(a.peer, a.lines) /\ post'[v].vouched = a.vouched
      /\ \A w \in Visitors : w # v => post'[w] = post[w]
  BY <1>1 DEF Inv, TypeOK
<1>3. site_key # "none" /\ UNCHANGED <<booted, site_key, solved, redeemed, bought>>
  BY DEF AskGoogle, Submitted
<1>4. ~Earned(v)' /\ \A w \in Visitors : w # v => (Earned(w)' <=> Earned(w))
  BY <1>2 DEF Earned
<1>5. EarnedOK' /\ OneEarner'
  BY <1>2, <1>3, <1>4 DEF Inv, EarnedOK, OneEarner
<1>6. JudgedOK' /\ HonestVisitorsGetThrough'
  BY <1>2, <1>3 DEF Inv, JudgedOK, HonestVisitorsGetThrough, Honest
<1>7. AddressIsVouchedFor'
  BY <1>2, ArrivalAddress DEF Inv, AddressIsVouchedFor
<1> QED
  BY <1>3, <1>5, <1>6, <1>7 DEF Inv, Rest, BootOK, Quiet, LookupsArePaidFor

LEMMA JudgeRest == ASSUME Inv, NEW v \in Visitors, Judge(v) PROVE Rest'
<1>1. PICK s \in {post[v].secret.value, "foreign"} :
             /\ ~post[v].secret.padded => s = post[v].secret.value
             /\ post' = [post EXCEPT ![v] = JudgedPost(v, s, Fresh(post[v].field, s))]
             /\ redeemed' = IF Fresh(post[v].field, s) THEN redeemed \cup {post[v].field} ELSE redeemed
  BY JudgeStep
<1> DEFINE f == post[v].field
<1>2. UNCHANGED <<booted, site_key, solved, bought>> /\ post[v].stage = "asking"
  BY DEF Judge
<1>3. /\ post'[v].stage = "answered" /\ post'[v].field = f /\ post'[v].secret = post[v].secret
      /\ post'[v].good = IsGood(f)
      /\ post'[v].answer.success = (Fresh(f, s) \/ s = "test")
      /\ post'[v].answer.testkey = (s = "test")
      /\ \A w \in Visitors : w # v => post'[w] = post[w]
  BY <1>1 DEF Inv, TypeOK, JudgedPost
<1>4. redeemed \subseteq redeemed' /\ (Fresh(f, s) => f \in redeemed')
  BY <1>1
<1>5. post[v].field \in Fields /\ post[v].secret \in Secrets
  BY DEF Inv, TypeOK, Posts
<1>6. Earned(v)' => Fresh(f, s)
  BY <1>3 DEF Earned
<1>7. Fresh(f, s) => bought[f] = 0 /\ solved[f] = "production" /\ f \notin redeemed
  <2>1. bought[f] \in Nat /\ bought[f] <= 1 /\ (bought[f] = 1 => f \in redeemed)
    BY <1>5 DEF Inv, TypeOK, LookupsArePaidFor
  <2> QED
    BY <2>1 DEF Fresh
<1>8. EarnedOK'
  <2> SUFFICES ASSUME NEW w \in Visitors, Earned(w)'
               PROVE  /\ post'[w].field \in redeemed'
                      /\ solved'[post'[w].field] = "production"
                      /\ bought'[post'[w].field] = 0
    BY DEF EarnedOK
  <2>1. CASE w = v
    BY <1>2, <1>3, <1>4, <1>6, <1>7, <2>1
  <2>2. CASE w # v
    <3>1. post'[w] = post[w] /\ Earned(w)
      BY <1>3, <2>2 DEF Earned
    <3> QED
      BY <1>2, <1>4, <3>1 DEF Inv, EarnedOK
  <2> QED
    BY <2>1, <2>2
<1>9. OneEarner'
  <2>1. \A w \in Visitors : w # v /\ Earned(w)' => Earned(w) /\ post'[w] = post[w] /\ post[w].field \in redeemed
    BY <1>3 DEF Inv, EarnedOK, Earned
  <2>2. \A w \in Visitors : w # v /\ Earned(w)' /\ Earned(v)' => post'[w].field # post'[v].field
    BY <1>3, <1>6, <1>7, <2>1
  <2> QED
    BY <2>1, <2>2 DEF Inv, OneEarner
<1>10. JudgedOK'
  <2> SUFFICES ASSUME NEW w \in Visitors
               PROVE  /\ post'[w].good => post'[w].field \in Challenges /\ solved'[post'[w].field] # "none"
                      /\ post'[w].stage = "answered" =>
                           /\ post'[w].answer.testkey => post'[w].secret.value = "test"
                           /\ Honest(w)' => /\ post'[w].answer.success
                                            /\ post'[w].answer.testkey => site_key' = "test"
    BY DEF JudgedOK
  <2>1. CASE w = v
    <3>1. IsGood(f) => f \in Challenges /\ solved[f] # "none" /\ solved[f] = site_key /\ f \notin redeemed
      BY <1>2 DEF Inv, Quiet, IsGood
    <3>2. post'[v].answer.testkey => post'[v].secret.value = "test"
      BY <1>1, <1>3
    <3>3. CASE Honest(v)'
      <4>1. IsGood(f) /\ post[v].secret = [value |-> solved[f], padded |-> FALSE]
        BY <1>2, <1>3, <3>3 DEF Honest
      <4>2. s = site_key /\ site_key \in SiteKeys
        BY <1>1, <3>1, <4>1 DEF Inv, TypeOK, SiteKeys
      <4>3. s = "test" \/ Fresh(f, s)
        BY <3>1, <4>1, <4>2 DEF Fresh, SiteKeys
      <4> QED
        BY <1>2, <1>3, <2>1, <3>1, <3>2, <4>1, <4>2, <4>3
    <3> QED
      BY <1>2, <1>3, <2>1, <3>1, <3>2, <3>3
  <2>2. CASE w # v
    <3>1. post'[w] = post[w]
      BY <1>3, <2>2
    <3> QED
      BY <1>2, <3>1 DEF Inv, JudgedOK, Honest
  <2> QED
    BY <2>1, <2>2
<1>11. LookupsArePaidFor'
  BY <1>2, <1>4 DEF Inv, LookupsArePaidFor
<1>12. HonestVisitorsGetThrough' /\ AddressIsVouchedFor'
  BY <1>2, <1>3 DEF Inv, HonestVisitorsGetThrough, AddressIsVouchedFor
<1>13. BootOK' /\ Quiet'
  BY <1>2, <1>3 DEF Inv, BootOK, Quiet
<1> QED
  BY <1>8, <1>9, <1>10, <1>11, <1>12, <1>13 DEF Rest

LEMMA ReceiveRest == ASSUME Inv, NEW v \in Visitors, Receive(v) PROVE Rest'
<1> DEFINE f == post[v].field
           a == post[v].answer
<1>1. /\ UNCHANGED <<booted, site_key, solved, redeemed>> /\ post[v].stage = "answered"
      /\ bought' = IF verdict(a) = "passed" /\ ~is_test_site_key(site_key)
                   THEN [bought EXCEPT ![f] = @ + 1] ELSE bought
  BY DEF Receive
<1>2. post[v] \in Posts /\ f \in Fields
  BY DEF Inv, TypeOK, Posts
<1>3. /\ post'[v].stage = "told" /\ post'[v].field = f /\ post'[v].secret = post[v].secret
      /\ post'[v].good = post[v].good /\ post'[v].answer = a /\ post'[v].outcome = verdict(a)
      /\ \A w \in Visitors : w # v => post'[w] = post[w]
  BY <1>2 DEF Receive, Inv, TypeOK, Posts
<1>4. ~Earned(v)' /\ \A w \in Visitors : w # v => (Earned(w)' <=> Earned(w))
  BY <1>3 DEF Earned
<1>5. verdict(a) = "passed" /\ ~is_test_site_key(site_key) => Earned(v)
  BY <1>1 DEF verdict, is_bypass_signature, is_test_site_key, Earned
<1>6. ASSUME verdict(a) = "passed" /\ ~is_test_site_key(site_key)
      PROVE  LookupsArePaidFor' /\ EarnedOK' /\ OneEarner'
  <2>1. Earned(v) /\ f \in redeemed /\ solved[f] = "production" /\ bought[f] = 0
    BY <1>5, <1>6 DEF Inv, EarnedOK
  <2>2. bought'[f] = 1 /\ \A g \in Fields : g # f => bought'[g] = bought[g]
    BY <1>1, <1>2, <1>6, <2>1 DEF Inv, TypeOK
  <2>3. LookupsArePaidFor'
    BY <1>1, <2>1, <2>2 DEF Inv, LookupsArePaidFor
  <2>4. \A w \in Visitors : Earned(w)' => Earned(w) /\ post'[w] = post[w] /\ post[w].field # f
    BY <1>3, <1>4, <2>1 DEF Inv, OneEarner
  <2>5. \A w \in Visitors : post[w].field \in Fields
    BY DEF Inv, TypeOK, Posts
  <2>6. EarnedOK' /\ OneEarner'
    BY <1>1, <2>2, <2>4, <2>5 DEF Inv, EarnedOK, OneEarner
  <2> QED
    BY <2>3, <2>6
<1>7. ASSUME ~(verdict(a) = "passed" /\ ~is_test_site_key(site_key))
      PROVE  LookupsArePaidFor' /\ EarnedOK' /\ OneEarner'
  <2>1. bought' = bought
    BY <1>1, <1>7
  <2> QED
    BY <1>1, <1>3, <1>4, <2>1 DEF Inv, EarnedOK, OneEarner, LookupsArePaidFor
<1>8. LookupsArePaidFor' /\ EarnedOK' /\ OneEarner'
  BY <1>6, <1>7
<1>9. Honest(v)' => Honest(v)
  BY <1>1, <1>3 DEF Honest
<1>10. Honest(v) => verdict(a) # "incorrect" /\ (a.success => verdict(a) = "passed")
  BY <1>1 DEF Inv, JudgedOK, verdict, is_bypass_signature, is_test_site_key
<1>11. HonestVisitorsGetThrough'
  BY <1>1, <1>3, <1>9, <1>10 DEF Inv, HonestVisitorsGetThrough, Honest
<1>12. JudgedOK' /\ AddressIsVouchedFor'
  BY <1>1, <1>3 DEF Inv, JudgedOK, AddressIsVouchedFor, Honest
<1>13. BootOK' /\ Quiet'
  BY <1>1, <1>3 DEF Inv, BootOK, Quiet
<1> QED
  BY <1>8, <1>11, <1>12, <1>13 DEF Rest

-----------------------------------------------------------------------------
(* The theorems *)

LEMMA InvInit == Init => Inv
<1> SUFFICES ASSUME Init PROVE Inv
  OBVIOUS
<1>1. \A v \in Visitors : post[v] = Idle
  BY DEF Init
<1> QED
  BY <1>1, Typing DEF Init, Inv, BootOK, Quiet, EarnedOK, OneEarner, Earned, JudgedOK, Idle,
     LookupsArePaidFor, HonestVisitorsGetThrough, AddressIsVouchedFor

LEMMA InvStep == Inv /\ [Next]_vars => Inv'
<1> SUFFICES ASSUME Inv, [Next]_vars PROVE Inv'
  OBVIOUS
<1>1. TypeOK'
  BY TypeStep DEF Inv
<1>2. CASE Boot
  BY <1>1, <1>2, BootRest DEF Inv, Rest
<1>3. CASE Stop
  BY <1>1, <1>3, StopRest DEF Inv, Rest
<1>4. CASE Configure \/ ChangeEnvironment \/ UNCHANGED vars
  <2>1. UNCHANGED <<booted, site_key, solved, redeemed, post, bought>>
    BY <1>4 DEF Configure, ChangeEnvironment, vars
  <2> QED
    BY <1>1, <2>1, Unconcerned DEF Inv, Rest
<1>5. ASSUME NEW c \in Challenges, Expire(c) PROVE Inv'
  BY <1>1, <1>5, ExpireRest DEF Inv, Rest
<1>6. ASSUME NEW v \in Visitors, Browser(v) PROVE Inv'
  <2>1. CASE OpenPage(v)
    <3>1. UNCHANGED <<booted, site_key, solved, redeemed, post, bought>>
      BY <2>1 DEF OpenPage
    <3> QED
      BY <1>1, <3>1, Unconcerned DEF Inv, Rest
  <2>2. CASE Return(v)
    BY <1>1, <2>2, ReturnRest DEF Inv, Rest
  <2>3. ASSUME NEW c \in Challenges, Solve(v, c) PROVE Inv'
    BY <1>1, <2>3, SolveRest DEF Inv, Rest
  <2> QED
    BY <1>6, <2>1, <2>2, <2>3 DEF Browser
<1>7. ASSUME NEW v \in Visitors, Handle(v) PROVE Inv'
  <2>1. CASE \E o \in Outcomes : Answer(v, o)
    BY <1>1, <2>1, AnswerRest DEF Inv, Rest
  <2>2. ASSUME NEW f \in Fields, AskGoogle(v, f) PROVE Inv'
    BY <1>1, <2>2, AskRest DEF Inv, Rest
  <2>3. CASE Receive(v)
    BY <1>1, <2>3, ReceiveRest DEF Inv, Rest
  <2>4. CASE Fail(v)
    BY <1>1, <2>4, FailRest DEF Inv, Rest
  <2> QED
    BY <1>7, <2>1, <2>2, <2>3, <2>4 DEF Handle, Bypass, RejectToken, MissSecret, Outcomes
<1>8. ASSUME NEW v \in Visitors, Judge(v) PROVE Inv'
  BY <1>1, <1>8, JudgeRest DEF Inv, Rest
<1> QED
  BY <1>2, <1>3, <1>4, <1>5, <1>6, <1>7, <1>8 DEF Next, Operator

\* The invariant holds in every reachable state.
THEOREM Invariance == Spec => []Inv
  BY InvInit, InvStep, PTL DEF Spec

\* Every variable of the captcha keeps its type: what is sent to Google as an
\* address is an address (client_ip of src/libs/util.rs).
THEOREM TypesCorrect == Spec => []TypeOK
<1>1. Inv => TypeOK
  BY DEF Inv
<1> QED
  BY <1>1, Invariance, PTL

\* No lookup goes unpaid, and no token pays twice, whatever the secret becomes
\* under the process (is_bypass_signature of src/libs/recaptcha.rs).
THEOREM PaidFor == Spec => []LookupsArePaidFor
<1>1. Inv => LookupsArePaidFor
  BY DEF Inv
<1> QED
  BY <1>1, Invariance, PTL

\* A visitor with a good token and a matching secret is let in, or told that the
\* captcha could not be checked, but never that it was incorrect (verify and
\* read_bounded of src/libs/recaptcha.rs, post of src/pages/home.rs).
THEOREM HonestLetIn == Spec => []HonestVisitorsGetThrough
<1>1. Inv => HonestVisitorsGetThrough
  BY DEF Inv
<1> QED
  BY <1>1, Invariance, PTL

\* The bypass signature shows up only after the secret was changed under the
\* process (check_captcha_config of src/main.rs).
THEOREM SignatureMeansChange == Spec => []BypassMeansSecretChanged
<1>1. Inv => BypassMeansSecretChanged
  <2> SUFFICES ASSUME Inv, NEW v \in Visitors, post[v].stage = "answered",
                      is_bypass_signature(post[v].answer.testkey, is_test_site_key(site_key))
               PROVE  post[v].secret # booted.secret
    BY DEF BypassMeansSecretChanged
  <2>1. post[v].secret.value = "test" /\ site_key # "test"
    BY DEF Inv, JudgedOK, is_bypass_signature, is_test_site_key
  <2>2. site_key # "none"
    BY DEF Inv, Quiet
  <2>3. booted.secret.value # "test"
    BY <2>1, <2>2 DEF Inv, BootOK
  <2> QED
    BY <2>1, <2>3
<1> QED
  BY <1>1, Invariance, PTL

\* The reported address is the visitor's or the proxy's (client_ip of
\* src/libs/util.rs), for any header lines a client sends.
THEOREM VouchedFor == Spec => []AddressIsVouchedFor
<1>1. Inv => AddressIsVouchedFor
  BY DEF Inv
<1> QED
  BY <1>1, Invariance, PTL
===============================================================================
