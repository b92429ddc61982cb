------------------------- MODULE RequestRouting_proofs -------------------------
(***************************************************************************)
(* Theorems about RequestRouting.  RoutingInv is inductive: the types,     *)
(* what each layer may assume of the layers before it, a potential that    *)
(* bounds the redirects still to come, and what redirects have kept.       *)
(***************************************************************************)
EXTENDS RequestRouting, TLAPS

-----------------------------------------------------------------------------
(* The inductive invariant *)

\* The request is on its way in, past UrlCanonicalization.
Beyond == {"buffer", "admit", "route", "dispatch", "page"}

\* What each layer may assume of the request it is handed.
Handed ==
    /\ phase \in Beyond => SettledHost /\ ~canonicalize_url
    /\ phase \in Beyond \ {"buffer"} => (ReadsBody => body)
    /\ phase \in {"dispatch", "page"} => req.method # "OTHER"
    /\ phase = "page" => resolve_path(Path) = "Canonical"
    /\ phase = "page" /\ req.method = "POST" => check_origin
    /\ phase \in (Beyond \ {"page"}) \cup {"idle", "canonicalize"} => ~counted

\* What SecurityHeaders may assume of the answer.
Answered ==
    phase = "answered" =>
        /\ answer.status # 500
        /\ answer.status = 405 =>
              /\ answer.allow # {} /\ req.method \notin answer.allow
              /\ "POST" \in answer.allow => will_consume_a_body(Path)

\* A counted request was served.
Served ==
    phase \in {"answered", "done"} /\ counted =>
        /\ answer.status \in {PageStatus(PageOf(Path)), 500}
        /\ resolve_path(Path) = "Canonical"
        /\ SettledHost
        /\ req.method = "POST" => check_origin

\* The redirects a URL still needs, asked for through the proxy.
SettledUrl(url) ==
    url.host \in DevHosts \/ (url.host.name = Master /\ url.https)

PathNeed(path) ==
    IF resolve_path(path) = "Redirect" \/ path \in DirectoryPaths THEN 1 ELSE 0

UrlNeed(url) == PathNeed(url.path) + (IF SettledUrl(Visited(url)) THEN 0 ELSE 1)

RequestNeed == PathNeed(Path) + (IF SettledHost THEN 0 ELSE 1)

Redirected == phase \in {"answered", "done"} /\ IsRedirect(answer)

Potential ==
    /\ hops <= 2
    /\ phase \notin {"answered", "done"} => hops + RequestNeed <= 2
    /\ Redirected => hops + 1 + UrlNeed(answer.location) <= 2

\* What a URL has in common with the one the visitor typed.
Same(url) ==
    /\ url.query = asked.url.query
    /\ IF resolve_path(asked.url.path) = "NotFound"
       THEN resolve_path(url.path) = "NotFound" /\ url.path.name = asked.url.path.name
       ELSE resolve_path(url.path) # "NotFound" /\ PageOf(url.path) = PageOf(asked.url.path)

OnSite(url) ==
    IF asked.url.host \in DevHosts THEN url.host = asked.url.host
    ELSE url.host.name = Master /\ url.https

Kept ==
    /\ Same(req.url)
    /\ hops = 0 => req.url = asked.url
    /\ hops > 0 => OnSite(req.url)
    /\ Redirected => Same(answer.location) /\ OnSite(answer.location)

RoutingInv ==
    /\ TypeOK
    /\ Handed
    /\ Answered
    /\ Served
    /\ AllowTellsTheTruth
    /\ PagesAreHardened
    /\ Potential
    /\ Kept

-----------------------------------------------------------------------------
(* Facts about the operators *)

\* The canonical path of a page resolves to that page, and is canonical.
LEMMA CanonicalPath ==
    ASSUME NEW path \in Paths, resolve_path(path) # "NotFound"
    PROVE  /\ PageOf(path) \in Pages
           /\ relative_url(PageOf(path)) \in Paths
           /\ resolve_path(relative_url(PageOf(path))) = "Canonical"
           /\ PageOf(relative_url(PageOf(path))) = PageOf(path)
           /\ relative_url(PageOf(path)) \notin DirectoryPaths
<1> DEFINE page == PageOf(path)
<1>1. page \in Pages /\ page \in Slugs /\ page \notin DOMAIN Aliases /\ page \notin OtherNames
  BY RegistryAssumption DEF resolve_path, Found, PageOf, resolve_alias, Slugs
<1>2. relative_url(page) \in Paths /\ relative_url(page).name = page /\ ~relative_url(page).slash
  BY <1>1, RegistryAssumption DEF relative_url, RootPath, Paths, Extensions, Slugs
<1>3. Found(relative_url(page))
  BY <1>1, <1>2 DEF Found, relative_url, RootPath
<1>4. PageOf(relative_url(page)) = page
  BY <1>1, <1>2 DEF PageOf, resolve_alias
<1>5. resolve_path(relative_url(page)) = "Canonical"
  BY <1>3, <1>4 DEF resolve_path
<1>6. relative_url(page) \notin DirectoryPaths
  BY <1>1, <1>2, StaticAssumption
<1> QED
  BY <1>1, <1>2, <1>4, <1>5, <1>6

\* The final slash of a directory: a path that names no page and needs nothing.
LEMMA SlashedPath ==
    ASSUME NEW path \in DirectoryPaths
    PROVE  LET slashed == [path EXCEPT !.slash = TRUE]
           IN /\ slashed \in Paths /\ slashed.name = path.name
              /\ resolve_path(slashed) = "NotFound" /\ resolve_path(path) = "NotFound"
              /\ slashed \notin DirectoryPaths
<1> DEFINE slashed == [path EXCEPT !.slash = TRUE]
<1>1. path \in Paths /\ path.name \in OtherNames
  BY StaticAssumption
<1>2. slashed \in Paths /\ slashed.name = path.name /\ slashed.slash = TRUE
  BY <1>1 DEF Paths
<1>3. ~Found(slashed) /\ ~Found(path)
  BY <1>1, <1>2, RegistryAssumption DEF Found
<1>4. slashed \notin DirectoryPaths
  BY <1>2, StaticAssumption
<1> QED
  BY <1>2, <1>3, <1>4 DEF resolve_path

\* What a browser makes of a URL.
LEMMA VisitedUrl ==
    ASSUME NEW url \in Urls
    PROVE  /\ Visited(url) \in Urls
           /\ Visited(url).https = url.https
           /\ Visited(url).path = url.path
           /\ Visited(url).query = url.query
           /\ Visited(url).host.name = url.host.name
           /\ url.host \in DevHosts => Visited(url).host = url.host
<1>1. url.host \in Hosts
  BY DEF Urls
<1> DEFINE host == [url.host EXCEPT !.user = NoName]
<1>2. host \in Hosts /\ host.name = url.host.name
  BY <1>1 DEF Hosts
<1>3. ASSUME url.host \in DevHosts PROVE host = url.host
  BY <1>3, HostAssumption
<1> QED
  BY <1>2, <1>3 DEF Visited, Urls

LEMMA PlainType ==
    ASSUME TypeOK, NEW status \in Statuses
    PROVE  /\ Plain(status) \in Answers
           /\ Plain(status).status = status /\ Plain(status).allow = {}
BY DEF TypeOK, Requests, Plain, Answers

LEMMA WithAllowType ==
    ASSUME TypeOK, NEW status \in Statuses, NEW methods \in SUBSET {"GET", "HEAD", "POST"}
    PROVE  /\ WithAllow(status, methods) \in Answers
           /\ WithAllow(status, methods).status = status
           /\ WithAllow(status, methods).allow = methods
BY PlainType DEF WithAllow, Answers, Plain

LEMMA RedirectionType ==
    ASSUME TypeOK, NEW status \in Statuses, NEW url \in Urls
    PROVE  /\ Redirection(status, url) \in Answers
           /\ Redirection(status, url).status = status
           /\ Redirection(status, url).location = url
           /\ Redirection(status, url).allow = {}
BY PlainType DEF Redirection, Answers, Plain

LEMMA DressedType ==
    ASSUME NEW x \in Answers, NEW n \in BOOLEAN, NEW h \in BOOLEAN,
           NEW allow \in SUBSET {"GET", "HEAD", "POST"}
    PROVE  [x EXCEPT !.csp = TRUE, !.no_cache = n, !.allow = allow, !.hsts = h] \in Answers
<1>1. [x EXCEPT !.csp = TRUE] \in Answers
  BY DEF Answers
<1>2. \A y \in Answers : [y EXCEPT !.no_cache = n] \in Answers
  BY DEF Answers
<1>3. \A y \in Answers : [y EXCEPT !.allow = allow] \in Answers
  BY DEF Answers
<1>4. \A y \in Answers : [y EXCEPT !.hsts = h] \in Answers
  BY DEF Answers
<1> QED
  BY <1>1, <1>2, <1>3, <1>4

LEMMA BlankTypes ==
    /\ RootUrl \in Urls /\ RootPath \in Paths /\ MasterHost \in Hosts
    /\ BlankTyped \in [method : Methods, url : Urls]
    /\ BlankRequest \in Requests
    /\ BlankAnswer \in Answers
<1>1. RootPath \in Paths
  BY RegistryAssumption DEF RootPath, Paths, Slugs, Extensions
<1>2. MasterHost \in Hosts
  BY HostAssumption DEF MasterHost, Hosts
<1>3. RootUrl \in Urls
  BY <1>1, <1>2 DEF RootUrl, Urls
<1> QED
  BY <1>1, <1>2, <1>3
  DEF BlankTyped, BlankRequest, BlankAnswer, Requests, Answers, Methods, Peers, Statuses

-----------------------------------------------------------------------------
(* Types *)

LEMMA RefuseTypes ==
    ASSUME TypeOK, NEW a \in Answers, Refuse(a)
    PROVE  TypeOK'
BY DEF TypeOK, Refuse, Respond, Phases

\* The URLs that the server redirects to.
LEMMA TargetTypes ==
    ASSUME TypeOK
    PROVE  /\ [req.url EXCEPT !.https = TRUE, !.host = MasterHost] \in Urls
           /\ [req.url EXCEPT
                 !.https = TRUE,
                 !.host = [user |-> NoName, name |-> host_name(req.url.host), port |-> NoPort]]
                \in Urls
           /\ resolve_path(Path) # "NotFound" => CanonicalUrl \in Urls
           /\ Path \in DirectoryPaths =>
                [req.url EXCEPT !.path = [Path EXCEPT !.slash = TRUE]] \in Urls
<1>1. req.url \in Urls /\ req.url.host \in Hosts /\ Path \in Paths /\ req.peer \in Peers
  BY DEF TypeOK, Requests, Urls, Path
<1>2. [req.url EXCEPT !.https = TRUE, !.host = MasterHost] \in Urls
  BY <1>1, BlankTypes DEF Urls
<1>3. [user |-> NoName, name |-> host_name(req.url.host), port |-> NoPort] \in Hosts
  BY <1>1 DEF Hosts, host_name
<1>4. [req.url EXCEPT
         !.https = TRUE,
         !.host = [user |-> NoName, name |-> host_name(req.url.host), port |-> NoPort]] \in Urls
  BY <1>1, <1>3 DEF Urls
<1>5. ASSUME resolve_path(Path) # "NotFound" PROVE CanonicalUrl \in Urls
  <2>1. relative_url(PageOf(Path)) \in Paths
    BY <1>1, <1>5, CanonicalPath
  <2>2. is_https \in BOOLEAN
    BY <1>1 DEF is_https, is_trusted_proxy, Urls
  <2> QED
    BY <1>1, <2>1, <2>2 DEF CanonicalUrl, Urls, Path
<1>6. ASSUME Path \in DirectoryPaths
      PROVE  [req.url EXCEPT !.path = [Path EXCEPT !.slash = TRUE]] \in Urls
  BY <1>1, <1>6, SlashedPath DEF Urls
<1> QED
  BY <1>2, <1>4, <1>5, <1>6

LEMMA AllowedMethods ==
    ASSUME NEW page
    PROVE  /\ allowed_methods(page) \in SUBSET {"GET", "HEAD", "POST"}
           /\ allowed_methods(page) # {}
           /\ "OTHER" \notin allowed_methods(page)
           /\ "POST" \in allowed_methods(page) <=> AcceptsPost(page)
BY DEF allowed_methods

LEMMA NavigateTypes == TypeOK /\ Navigate => TypeOK'
<1> SUFFICES ASSUME TypeOK, Navigate PROVE TypeOK'
  OBVIOUS
<1>1. PICK m \in Methods, s, q \in BOOLEAN, h \in HostHeaders, p \in Links, a \in Peers,
           o, f \in Sites \cup {Absent} :
         LET url == [https |-> s, host |-> h, path |-> p, query |-> q]
         IN /\ m # "POST" => o = Absent /\ f = Absent
            /\ Send([method |-> m, url |-> url, peer |-> a, origin |-> o, referer |-> f])
            /\ asked' = [method |-> m, url |-> url]
            /\ hops' = 0
  BY DEF Navigate
<1> DEFINE url == [https |-> s, host |-> h, path |-> p, query |-> q]
<1>2. url \in Urls
  BY StaticAssumption, HostAssumption DEF Urls
<1>3. o \in Names \cup {Absent} /\ f \in Names \cup {Absent}
  BY HostAssumption
<1> HIDE DEF url
<1>4. [method |-> m, url |-> url, peer |-> a, origin |-> o, referer |-> f] \in Requests
  BY <1>2, <1>3 DEF Requests
<1>5. [method |-> m, url |-> url] \in [method : Methods, url : Urls]
  BY <1>2
<1> QED
  BY <1>1, <1>4, <1>5, BlankTypes DEF TypeOK, Send, Phases, url

LEMMA TypesStep == TypeOK /\ [Next]_vars => TypeOK'
<1> SUFFICES ASSUME TypeOK, [Next]_vars PROVE TypeOK'
  OBVIOUS
<1> USE DEF Statuses
<1>1. CASE Navigate
  BY <1>1, NavigateTypes
<1>2. CASE Follow
  <2>1. PICK m \in MethodsAfter(answer), a \in Peers \ {"direct"} :
           Send([req EXCEPT !.method = m, !.url = Visited(answer.location), !.peer = a])
    BY <1>2 DEF Follow
  <2>2. answer.location \in Urls
    BY DEF TypeOK, Answers
  <2>3. m \in Methods
    BY DEF MethodsAfter, TypeOK, Requests, Methods
  <2>4. [req EXCEPT !.method = m, !.url = Visited(answer.location), !.peer = a] \in Requests
    BY <2>2, <2>3, VisitedUrl DEF TypeOK, Requests
  <2>5. req' \in Requests /\ body' \in BOOLEAN /\ counted' \in BOOLEAN /\ phase' \in Phases
    BY <2>1, <2>4 DEF Send, Phases
  <2>6. answer' \in Answers
    BY <2>1, BlankTypes DEF Send
  <2>7. hops' \in Nat /\ asked' = asked
    BY <1>2 DEF Follow, TypeOK
  <2> QED
    BY <2>5, <2>6, <2>7 DEF TypeOK
<1>3. CASE Leave
  BY <1>3, BlankTypes DEF TypeOK, Leave, Phases
<1>4. CASE RejectHost \/ render_not_found \/ ServeAsset \/ Shed
  BY <1>4, PlainType, RefuseTypes DEF RejectHost, render_not_found, ServeAsset, FileStatuses, Shed
<1>5. CASE RedirectToMaster
  BY <1>5, TargetTypes, RedirectionType, RefuseTypes DEF RedirectToMaster
<1>6. CASE RedirectToHttps
  BY <1>6, TargetTypes, RedirectionType, RefuseTypes DEF RedirectToHttps
<1>7. CASE RedirectToPage
  BY <1>7, TargetTypes, RedirectionType, RefuseTypes DEF RedirectToPage, canonicalize_url, Path
<1>8. CASE PassCanonical \/ PassUnread \/ BufferBody \/ Admit \/ RouteToDispatcher \/ CountHit
  BY <1>8 DEF TypeOK, PassCanonical, PassUnread, BufferBody, Admit, RouteToDispatcher, CountHit,
              PassTo, Phases
<1>9. CASE RefuseBody
  BY <1>9, PlainType, RefuseTypes DEF RefuseBody
<1>10. CASE ServeArchive
  BY <1>10, PlainType, WithAllowType, RefuseTypes DEF ServeArchive, FileStatuses
<1>11. CASE AppendSlash
  BY <1>11, TargetTypes, RedirectionType, RefuseTypes DEF AppendSlash
<1>12. CASE handle_unsupported_method
  BY <1>12, AllowedMethods, WithAllowType, RefuseTypes DEF handle_unsupported_method, RouterMethods
<1>13. CASE RefuseMethod
  BY <1>13, AllowedMethods, WithAllowType, RefuseTypes DEF RefuseMethod
<1>14. CASE RefuseForeignPost
  BY <1>14, PlainType, RefuseTypes DEF RefuseForeignPost
<1>15. CASE RunPage
  BY <1>15, PlainType, RefuseTypes DEF RunPage, PageStatus
<1>16. CASE SecurityHeaders
  <2>1. is_https \in BOOLEAN /\ is_dev_host(req.url.host) \in BOOLEAN /\ check_no_cache(Path) \in BOOLEAN
    BY DEF TypeOK, Requests, Urls, is_https, is_trusted_proxy, is_dev_host, check_no_cache, NoCachePage
  <2>2. (is_https /\ ~is_dev_host(req.url.host)) \in BOOLEAN
    BY <2>1
  <2>3. (IF answer.status = 405 THEN answer.allow ELSE {}) \in SUBSET {"GET", "HEAD", "POST"}
    BY DEF TypeOK, Answers
  <2>4. answer' \in Answers
    <3> DEFINE n == check_no_cache(Path)
               allow == IF answer.status = 405 THEN answer.allow ELSE {}
               h == is_https /\ ~is_dev_host(req.url.host)
    <3>1. answer' = [answer EXCEPT !.csp = TRUE, !.no_cache = n, !.allow = allow, !.hsts = h]
      BY <1>16 DEF SecurityHeaders
    <3>2. n \in BOOLEAN /\ h \in BOOLEAN /\ allow \in SUBSET {"GET", "HEAD", "POST"}
      BY <2>1, <2>2, <2>3
    <3>3. answer \in Answers
      BY DEF TypeOK
    <3> HIDE DEF n, allow, h
    <3> QED
      BY <3>1, <3>2, <3>3, DressedType
  <2> QED
    BY <1>16, <2>4 DEF TypeOK, SecurityHeaders, Phases
<1>17. CASE CatchPanic
  BY <1>17, PlainType DEF TypeOK, CatchPanic, Phases
<1>18. CASE UNCHANGED vars
  BY <1>18 DEF TypeOK, vars
<1> QED
  BY <1>1, <1>2, <1>3, <1>4, <1>5, <1>6, <1>7, <1>8, <1>9, <1>10, <1>11, <1>12, <1>13, <1>14,
     <1>15, <1>16, <1>17, <1>18
  DEF Next, Browser, UrlCanonicalization, Gate, Router, Dispatcher

-----------------------------------------------------------------------------
(* What the layers hand on *)

\* The layers read the same request.
LEMMA SameRequest ==
    ASSUME req' = req
    PROVE  /\ Path' = Path
           /\ SettledHost' <=> SettledHost
           /\ canonicalize_url' <=> canonicalize_url
           /\ ReadsBody' <=> ReadsBody
           /\ check_origin' <=> check_origin
           /\ RequestNeed' = RequestNeed
<1>1. Path' = Path /\ (is_https' <=> is_https)
  BY DEF Path, is_https
<1>2. SettledHost' <=> SettledHost
  BY <1>1 DEF SettledHost
<1>3. (canonicalize_url' <=> canonicalize_url) /\ (ReadsBody' <=> ReadsBody)
  BY DEF canonicalize_url, ReadsBody
<1>4. check_origin' <=> check_origin
  BY DEF check_origin
<1>5. RequestNeed' = RequestNeed
  BY <1>1, <1>2 DEF RequestNeed
<1> QED
  BY <1>1, <1>2, <1>3, <1>4, <1>5

\* Every way out of a layer but a step to the next one.
Answering ==
    \/ RejectHost \/ RedirectToMaster \/ RedirectToHttps \/ RedirectToPage
    \/ RefuseBody \/ Shed
    \/ ServeArchive \/ ServeAsset \/ AppendSlash \/ handle_unsupported_method
    \/ render_not_found \/ RefuseMethod \/ RefuseForeignPost \/ RunPage

LEMMA AnsweringStep ==
    ASSUME Answering
    PROVE  /\ phase \in Beyond \cup {"canonicalize"} /\ phase' = "answered"
           /\ UNCHANGED <<asked, req, body, counted, hops>>
BY DEF Answering, RejectHost, RedirectToMaster, RedirectToHttps, RedirectToPage, RefuseBody, Shed,
       ServeArchive, ServeAsset, AppendSlash, handle_unsupported_method, render_not_found,
       RefuseMethod, RefuseForeignPost, RunPage, Dispatched, Refuse, Respond, Beyond

\* Every step to the next layer.
Passing ==
    PassCanonical \/ PassUnread \/ BufferBody \/ Admit \/ RouteToDispatcher \/ CountHit

LEMMA PassingStep ==
    ASSUME Passing
    PROVE  /\ phase \in Beyond \cup {"canonicalize"} /\ phase' \in Beyond
           /\ UNCHANGED <<asked, req, answer, hops>>
BY DEF Passing, PassCanonical, PassUnread, BufferBody, Admit, RouteToDispatcher, CountHit,
       Dispatched, PassTo, Beyond

\* A request begins: typed, or following a redirect through the proxy.
Beginning == Navigate \/ Follow

LEMMA BeginningStep ==
    ASSUME Beginning
    PROVE  phase' = "canonicalize" /\ counted' = FALSE /\ answer' = BlankAnswer
<1>1. CASE Navigate
  BY <1>1 DEF Navigate, Send
<1>2. CASE Follow
  BY <1>2 DEF Follow, Send
<1> QED
  BY <1>1, <1>2 DEF Beginning

LEMMA NextSteps ==
    [Next]_vars =>
        \/ Beginning \/ Leave \/ Answering \/ Passing \/ SecurityHeaders \/ CatchPanic
        \/ UNCHANGED vars
BY DEF Next, Browser, UrlCanonicalization, Gate, Router, Dispatcher, Beginning, Answering, Passing

LEMMA HandedStep == TypeOK /\ Handed /\ [Next]_vars => Handed'
<1> SUFFICES ASSUME TypeOK, Handed, [Next]_vars PROVE Handed'
  OBVIOUS
<1>1. CASE Beginning
  BY <1>1, BeginningStep DEF Handed, Beyond
<1>2. CASE Leave
  BY <1>2 DEF Leave, Handed, Beyond
<1>3. CASE Answering
  BY <1>3, AnsweringStep DEF Handed, Beyond
<1>4. CASE Passing
  <2>1. req' = req
    BY <1>4, PassingStep
  <2>2. CASE PassCanonical
    BY <2>1, <2>2, SameRequest DEF PassCanonical, PassTo, Handed, Beyond
  <2>3. CASE PassUnread
    BY <2>1, <2>3, SameRequest DEF PassUnread, PassTo, Handed, Beyond
  <2>4. CASE BufferBody
    BY <2>1, <2>4, SameRequest DEF BufferBody, PassTo, Handed, Beyond
  <2>5. CASE Admit
    BY <2>1, <2>5, SameRequest DEF Admit, PassTo, Handed, Beyond
  <2>6. CASE RouteToDispatcher
    <3>1. req.method # "OTHER"
      BY <2>6 DEF RouteToDispatcher, Reads
    <3> QED
      BY <2>1, <2>6, <3>1, SameRequest DEF RouteToDispatcher, PassTo, Handed, Beyond
  <2>7. CASE CountHit
    BY <2>1, <2>7, SameRequest DEF CountHit, Dispatched, PassTo, Handed, Beyond
  <2> QED
    BY <1>4, <2>2, <2>3, <2>4, <2>5, <2>6, <2>7 DEF Passing
<1>5. CASE SecurityHeaders \/ CatchPanic
  BY <1>5 DEF SecurityHeaders, CatchPanic, Handed, Beyond
<1>6. CASE UNCHANGED vars
  <2>1. req' = req /\ phase' = phase /\ body' = body /\ counted' = counted
    BY <1>6 DEF vars
  <2> QED
    BY <2>1, SameRequest DEF Handed
<1> QED
  BY <1>1, <1>2, <1>3, <1>4, <1>5, <1>6, NextSteps

-----------------------------------------------------------------------------
(* Answers *)

LEMMA AnsweredStep ==
    TypeOK /\ Handed /\ Answered /\ AllowTellsTheTruth /\ [Next]_vars
      => Answered' /\ AllowTellsTheTruth'
<1> SUFFICES ASSUME TypeOK, Handed, Answered, AllowTellsTheTruth, [Next]_vars
             PROVE  Answered' /\ AllowTellsTheTruth'
  OBVIOUS
<1> USE DEF Statuses
<1>1. CASE Beginning \/ Leave \/ Passing
  <2>1. phase' \notin {"answered", "done"}
    BY <1>1, BeginningStep, PassingStep DEF Leave, Beyond
  <2> QED
    BY <2>1 DEF Answered, AllowTellsTheTruth
<1>2. CASE Answering
  <2>1. phase' = "answered" /\ req' = req /\ Path' = Path
    BY <1>2, AnsweringStep, SameRequest
  <2> DEFINE Good(a) ==
               /\ a.status # 500
               /\ a.status = 405 =>
                     /\ a.allow # {} /\ req.method \notin a.allow
                     /\ "POST" \in a.allow => will_consume_a_body(Path)
  <2>2. SUFFICES Good(answer')
    BY <2>1 DEF Answered, AllowTellsTheTruth
  <2>3. ASSUME NEW status \in Statuses \ {405, 500}, answer' = Plain(status) PROVE Good(answer')
    BY <2>3, PlainType
  <2>4. ASSUME NEW status \in Statuses \ {405, 500}, NEW url, answer' = Redirection(status, url)
        PROVE  Good(answer')
    BY <2>4 DEF Redirection, Plain
  <2>5. ASSUME NEW allow \in SUBSET {"GET", "HEAD", "POST"},
               answer' = WithAllow(405, allow), allow # {}, req.method \notin allow,
               "POST" \in allow => will_consume_a_body(Path)
        PROVE  Good(answer')
    BY <2>5, WithAllowType
  <2>6. ASSUME NEW allow \in SUBSET {"GET", "HEAD", "POST"}, answer' = WithAllow(404, allow)
        PROVE  Good(answer')
    BY <2>6, WithAllowType
  <2> HIDE DEF Good
  <2>7. CASE RejectHost \/ RefuseBody \/ Shed \/ ServeAsset \/ render_not_found \/ RefuseForeignPost
             \/ RunPage
    <3>1. \E status \in Statuses \ {405, 500} : answer' = Plain(status)
      BY <2>7 DEF RejectHost, RefuseBody, Shed, ServeAsset, FileStatuses, render_not_found, RefuseForeignPost,
                  RunPage, PageStatus, Refuse, Respond
    <3> QED
      BY <2>3, <3>1
  <2>8. CASE RedirectToMaster \/ RedirectToHttps \/ RedirectToPage \/ AppendSlash
    <3>1. \E status \in Statuses \ {405, 500} : \E url : answer' = Redirection(status, url)
      BY <2>8 DEF RedirectToMaster, RedirectToHttps, RedirectToPage, AppendSlash, Refuse, Respond
    <3> QED
      BY <2>4, <3>1
  <2>9. CASE ServeArchive
    <3>1. CASE Reads
      BY <2>3, <2>9, <3>1 DEF ServeArchive, FileStatuses, Refuse, Respond
    <3>2. CASE ~Reads
      BY <2>5, <2>9, <3>2 DEF ServeArchive, Reads, Refuse, Respond
    <3> QED
      BY <3>1, <3>2
  <2>10. CASE handle_unsupported_method
    <3>1. CASE resolve_path(Path) = "Canonical"
      BY <2>5, <2>10, <3>1, AllowedMethods
      DEF handle_unsupported_method, will_consume_a_body, Refuse, Respond
    <3>2. CASE resolve_path(Path) # "Canonical"
      BY <2>6, <2>10, <3>2 DEF handle_unsupported_method, RouterMethods, Refuse, Respond
    <3> QED
      BY <3>1, <3>2
  <2>11. CASE RefuseMethod
    BY <2>5, <2>11, AllowedMethods DEF RefuseMethod, Refuse, Respond
  <2> QED
    BY <1>2, <2>7, <2>8, <2>9, <2>10, <2>11 DEF Answering
<1>3. CASE SecurityHeaders
  <2>1. phase = "answered" /\ phase' = "done" /\ req' = req /\ Path' = Path
    BY <1>3, SameRequest DEF SecurityHeaders
  <2>2. answer'.status = answer.status
        /\ answer'.allow = IF answer.status = 405 THEN answer.allow ELSE {}
    BY <1>3 DEF SecurityHeaders, TypeOK, Answers
  <2> QED
    BY <2>1, <2>2 DEF Answered, AllowTellsTheTruth
<1>4. CASE CatchPanic
  <2>1. phase' = "done" /\ answer'.status = 500 /\ answer'.allow = {}
    BY <1>4, PlainType DEF CatchPanic
  <2> QED
    BY <2>1 DEF Answered, AllowTellsTheTruth
<1>5. CASE UNCHANGED vars
  <2>1. req' = req /\ phase' = phase /\ answer' = answer /\ Path' = Path
    BY <1>5, SameRequest DEF vars
  <2> QED
    BY <2>1 DEF Answered, AllowTellsTheTruth
<1> QED
  BY <1>1, <1>2, <1>3, <1>4, <1>5, NextSteps

\* Of the answers, only the page's own comes with a counted request.
LEMMA CountedAnswer ==
    ASSUME TypeOK, Handed, Answering, counted
    PROVE  /\ phase = "page"
           /\ answer'.status = PageStatus(PageOf(Path))
<1>1. phase = "page"
  BY AnsweringStep DEF Handed, Beyond
<1>2. RunPage
  BY <1>1 DEF Answering, RejectHost, RedirectToMaster, RedirectToHttps, RedirectToPage, RefuseBody,
              Shed, ServeArchive, ServeAsset, AppendSlash, handle_unsupported_method,
              render_not_found, RefuseMethod, RefuseForeignPost, Dispatched
<1>3. PageStatus(PageOf(Path)) \in Statuses
  BY DEF PageStatus, Statuses
<1> QED
  BY <1>1, <1>2, <1>3, PlainType DEF RunPage, Refuse, Respond

LEMMA ServedStep ==
    TypeOK /\ Handed /\ Served /\ PagesAreHardened /\ [Next]_vars => Served' /\ PagesAreHardened'
<1> SUFFICES ASSUME TypeOK, Handed, Served, PagesAreHardened, [Next]_vars
             PROVE  Served' /\ PagesAreHardened'
  OBVIOUS
<1>1. CASE Beginning \/ Leave \/ Passing
  <2>1. phase' \notin {"answered", "done"}
    BY <1>1, BeginningStep, PassingStep DEF Leave, Beyond
  <2> QED
    BY <2>1 DEF Served, PagesAreHardened
<1>2. CASE Answering
  <2>1. phase' = "answered" /\ req' = req /\ counted' = counted
    BY <1>2, AnsweringStep
  <2>2. ASSUME counted
        PROVE  /\ answer'.status = PageStatus(PageOf(Path))
               /\ resolve_path(Path) = "Canonical"
               /\ SettledHost
               /\ req.method = "POST" => check_origin
    BY <1>2, <2>2, CountedAnswer DEF Handed, Beyond
  <2> QED
    BY <2>1, <2>2, SameRequest DEF Served, PagesAreHardened
<1>3. CASE SecurityHeaders
  <2>1. phase = "answered" /\ phase' = "done" /\ req' = req /\ counted' = counted
    BY <1>3 DEF SecurityHeaders
  <2>2. /\ answer'.status = answer.status /\ answer'.csp = TRUE
        /\ answer'.no_cache = check_no_cache(Path)
    BY <1>3 DEF SecurityHeaders, TypeOK, Answers
  <2>3. answer'.hsts = (is_https /\ ~is_dev_host(req.url.host))
    BY <1>3 DEF SecurityHeaders, TypeOK, Answers
  <2>4. Served'
    BY <2>1, <2>2, SameRequest DEF Served
  <2>5. ASSUME counted PROVE PageOf(Path) = Home => answer'.no_cache
    BY <2>1, <2>2, <2>5 DEF Served, check_no_cache, NoCachePage
  <2>6. ASSUME counted PROVE req.url.host \notin DevHosts => answer'.hsts
    BY <2>1, <2>3, <2>6 DEF Served, SettledHost, is_dev_host
  <2> QED
    BY <2>1, <2>2, <2>4, <2>5, <2>6, SameRequest DEF PagesAreHardened
<1>4. CASE CatchPanic
  <2>1. phase = "page" /\ phase' = "done" /\ req' = req /\ answer'.status = 500
    BY <1>4, PlainType DEF CatchPanic, Statuses
  <2> QED
    BY <2>1, SameRequest DEF Served, PagesAreHardened, Handed, Beyond
<1>5. CASE UNCHANGED vars
  <2>1. req' = req /\ phase' = phase /\ answer' = answer /\ counted' = counted
    BY <1>5 DEF vars
  <2> QED
    BY <2>1, SameRequest DEF Served, PagesAreHardened
<1> QED
  BY <1>1, <1>2, <1>3, <1>4, <1>5, NextSteps

-----------------------------------------------------------------------------
(* Redirects *)

\* A redirect the server sends: where it leads, and what it saves.
Saves(url) ==
    /\ url \in Urls
    /\ UrlNeed(url) + 1 <= RequestNeed
    /\ Same(req.url) => Same(url)
    /\ SettledUrl(url)
    /\ req.url.host \in DevHosts => url.host = req.url.host
    /\ req.url.host \notin DevHosts => url.host.name = Master /\ url.https

LEMMA NeedTypes ==
    /\ \A path : PathNeed(path) \in {0, 1}
    /\ \A url : UrlNeed(url) \in 0..2
    /\ RequestNeed \in 0..2
BY DEF PathNeed, UrlNeed, RequestNeed

\* A browser stays where a settled URL leads it.
LEMMA SettledVisit ==
    ASSUME NEW url \in Urls, SettledUrl(url)
    PROVE  SettledUrl(Visited(url)) /\ UrlNeed(url) = PathNeed(url.path)
BY VisitedUrl DEF SettledUrl, UrlNeed, PathNeed

LEMMA MasterRedirectSaves ==
    ASSUME TypeOK, ~SettledHost, ~is_dev_host(req.url.host),
           NEW url \in Urls, url.https = TRUE, url.host.name = Master,
           url.path = Path, url.query = req.url.query
    PROVE  Saves(url)
<1>1. SettledUrl(url)
  BY DEF SettledUrl
<1>2. UrlNeed(url) + 1 <= RequestNeed
  BY <1>1, SettledVisit, NeedTypes DEF RequestNeed
<1>3. Same(req.url) => Same(url)
  BY DEF Same, Path
<1> QED
  BY <1>1, <1>2, <1>3 DEF Saves, is_dev_host

LEMMA PageRedirectSaves ==
    ASSUME TypeOK, SettledHost, canonicalize_url
    PROVE  Saves(CanonicalUrl)
<1>1. Path \in Paths /\ resolve_path(Path) = "Redirect"
  BY DEF canonicalize_url, TypeOK, Requests, Urls, Path
<1> DEFINE to == relative_url(PageOf(Path))
<1>2. /\ resolve_path(to) = "Canonical" /\ PageOf(to) = PageOf(Path)
      /\ to \notin DirectoryPaths
  BY <1>1, CanonicalPath
<1>3. CanonicalUrl \in Urls
  BY <1>1, TargetTypes
<1>4. /\ CanonicalUrl.https = is_https /\ CanonicalUrl.host = req.url.host
      /\ CanonicalUrl.path = to /\ CanonicalUrl.query = req.url.query
  BY DEF CanonicalUrl, Path
<1>5. SettledUrl(CanonicalUrl)
  BY <1>4 DEF SettledUrl, SettledHost, is_dev_host, host_name
<1>6. PathNeed(to) = 0 /\ RequestNeed = 1
  BY <1>1, <1>2 DEF PathNeed, RequestNeed
<1>7. UrlNeed(CanonicalUrl) + 1 <= RequestNeed
  BY <1>3, <1>4, <1>5, <1>6, SettledVisit
<1>8. Same(req.url) => Same(CanonicalUrl)
  BY <1>1, <1>2, <1>4 DEF Same, Path
<1> QED
  BY <1>3, <1>4, <1>5, <1>7, <1>8 DEF Saves, SettledUrl

LEMMA SlashRedirectSaves ==
    ASSUME TypeOK, SettledHost, Path \in DirectoryPaths
    PROVE  Saves([req.url EXCEPT !.path = [Path EXCEPT !.slash = TRUE]])
<1> DEFINE to == [Path EXCEPT !.slash = TRUE]
           url == [req.url EXCEPT !.path = to]
<1>1. url \in Urls
  BY TargetTypes
<1>2. /\ to.name = Path.name /\ to \notin DirectoryPaths
      /\ resolve_path(to) = "NotFound" /\ resolve_path(Path) = "NotFound"
  BY SlashedPath
<1>3. req.url \in Urls
  BY DEF TypeOK, Requests
<1> HIDE DEF to
<1>4. url.https = req.url.https /\ url.host = req.url.host /\ url.path = to
      /\ url.query = req.url.query
  BY <1>3 DEF Urls
<1> HIDE DEF url
<1>5. SettledUrl(url)
  BY <1>4 DEF SettledUrl, SettledHost, is_dev_host, host_name, is_https
<1>6. PathNeed(to) = 0 /\ RequestNeed = 1
  BY <1>2 DEF PathNeed, RequestNeed
<1>7. UrlNeed(url) + 1 <= RequestNeed
  BY <1>1, <1>4, <1>5, <1>6, SettledVisit
<1>8. Same(req.url) => Same(url)
  BY <1>2, <1>4 DEF Same, Path
<1> QED
  BY <1>1, <1>4, <1>5, <1>7, <1>8 DEF Saves, SettledUrl, to, url

LEMMA RedirectSaves ==
    ASSUME TypeOK, Handed, Answering, IsRedirect(answer')
    PROVE  Saves(answer'.location)
<1> USE DEF Statuses
<1>1. CASE RedirectToMaster
  <2> DEFINE url == [req.url EXCEPT !.https = TRUE, !.host = MasterHost]
  <2>1. url \in Urls /\ answer' = Redirection(301, url)
    BY <1>1, TargetTypes DEF RedirectToMaster, Refuse, Respond
  <2>2. url.https = TRUE /\ url.host.name = Master /\ url.path = Path /\ url.query = req.url.query
    BY DEF TypeOK, Requests, Urls, MasterHost, Path
  <2>3. ~SettledHost /\ ~is_dev_host(req.url.host)
    BY <1>1 DEF RedirectToMaster, SettledHost
  <2> HIDE DEF url
  <2>4. answer'.location = url
    BY <2>1, RedirectionType
  <2>5. Saves(url)
    BY <2>1, <2>2, <2>3, MasterRedirectSaves
  <2> QED
    BY <2>4, <2>5
<1>2. CASE RedirectToHttps
  <2> DEFINE host == [user |-> NoName, name |-> host_name(req.url.host), port |-> NoPort]
             url == [req.url EXCEPT !.https = TRUE, !.host = host]
  <2>1. url \in Urls /\ answer' = Redirection(301, url)
    BY <1>2, TargetTypes DEF RedirectToHttps, Refuse, Respond
  <2>2. host.name = Master
    BY <1>2 DEF RedirectToHttps
  <2> HIDE DEF host
  <2>3. url.https = TRUE /\ url.host = host /\ url.path = Path /\ url.query = req.url.query
    BY DEF TypeOK, Requests, Urls, Path
  <2>4. ~SettledHost /\ ~is_dev_host(req.url.host)
    BY <1>2 DEF RedirectToHttps, SettledHost
  <2> HIDE DEF url
  <2>5. answer'.location = url
    BY <2>1, RedirectionType
  <2>6. Saves(url)
    BY <2>1, <2>2, <2>3, <2>4, MasterRedirectSaves
  <2> QED
    BY <2>5, <2>6
<1>3. CASE RedirectToPage
  <2>1. SettledHost /\ canonicalize_url /\ answer' = Redirection(301, CanonicalUrl)
    BY <1>3 DEF RedirectToPage, Refuse, Respond
  <2>2. Saves(CanonicalUrl)
    BY <2>1, PageRedirectSaves
  <2>3. answer'.location = CanonicalUrl
    BY <2>1, <2>2, RedirectionType DEF Saves
  <2> QED
    BY <2>2, <2>3
<1>4. CASE AppendSlash
  <2> DEFINE url == [req.url EXCEPT !.path = [Path EXCEPT !.slash = TRUE]]
  <2>1. SettledHost /\ Path \in DirectoryPaths /\ answer' = Redirection(307, url)
    BY <1>4 DEF AppendSlash, Refuse, Respond, Handed, Beyond
  <2>2. Saves(url)
    BY <2>1, SlashRedirectSaves
  <2> HIDE DEF url
  <2>3. answer'.location = url
    BY <2>1, <2>2, RedirectionType DEF Saves
  <2> QED
    BY <2>2, <2>3
<1>5. ASSUME NEW status \in Statuses \ {301, 307},
             \/ answer' = Plain(status)
             \/ \E allow : answer' = WithAllow(status, allow)
      PROVE  FALSE
  BY <1>5 DEF IsRedirect, WithAllow, Plain
<1>6. CASE RejectHost \/ RefuseBody \/ Shed \/ ServeArchive \/ ServeAsset \/ handle_unsupported_method
           \/ render_not_found \/ RefuseMethod \/ RefuseForeignPost \/ RunPage
  <2>1. \E status \in Statuses \ {301, 307} :
           \/ answer' = Plain(status)
           \/ \E allow : answer' = WithAllow(status, allow)
    BY <1>6 DEF RejectHost, RefuseBody, Shed, ServeArchive, ServeAsset, FileStatuses, handle_unsupported_method,
                render_not_found, RefuseMethod, RefuseForeignPost, RunPage, PageStatus,
                Refuse, Respond
  <2> QED
    BY <1>5, <2>1
<1> QED
  BY <1>1, <1>2, <1>3, <1>4, <1>6 DEF Answering

\* The request that follows a redirect needs what its URL needs.
LEMMA FollowedNeed ==
    ASSUME TypeOK, Follow
    PROVE  /\ req'.url = Visited(answer.location)
           /\ RequestNeed' = UrlNeed(answer.location)
<1>1. PICK m \in MethodsAfter(answer), a \in Peers \ {"direct"} :
         Send([req EXCEPT !.method = m, !.url = Visited(answer.location), !.peer = a])
  BY DEF Follow
<1>2. req'.url = Visited(answer.location) /\ req'.peer = a
  BY <1>1 DEF Send, TypeOK, Requests
<1>3. is_trusted_proxy(a)
  BY DEF Peers, is_trusted_proxy, to_canonical, TrustedProxies
<1>4. SettledHost' <=> SettledUrl(Visited(answer.location))
  BY <1>2, <1>3 DEF SettledHost, SettledUrl, is_dev_host, host_name, is_https
<1>5. answer.location \in Urls
  BY DEF TypeOK, Answers
<1>6. Path' = answer.location.path
  BY <1>2, <1>5, VisitedUrl DEF Path
<1> QED
  BY <1>2, <1>4, <1>6 DEF RequestNeed, UrlNeed

LEMMA PotentialStep == TypeOK /\ Handed /\ Potential /\ [Next]_vars => Potential'
<1> SUFFICES ASSUME TypeOK, Handed, Potential, [Next]_vars PROVE Potential'
  OBVIOUS
<1>0. hops \in Nat /\ RequestNeed \in 0..2 /\ RequestNeed' \in 0..2
  <2>1. RequestNeed' \in 0..2
    BY DEF RequestNeed, PathNeed
  <2> QED
    BY <2>1, NeedTypes DEF TypeOK
<1>1. CASE Navigate
  <2>1. hops' = 0 /\ phase' = "canonicalize"
    BY <1>1, BeginningStep DEF Navigate, Beginning
  <2>2. ~Redirected'
    BY <2>1 DEF Redirected
  <2>3. \A n \in 0..2 : 0 + n <= 2
    OBVIOUS
  <2>4. 0 + RequestNeed' <= 2
    BY <1>0, <2>3
  <2>5. hops' <= 2 /\ hops' + RequestNeed' <= 2
    BY <2>1, <2>4
  <2> QED
    BY <2>2, <2>5 DEF Potential
<1>2. CASE Follow
  <2>1. hops' = hops + 1 /\ phase' = "canonicalize" /\ Redirected
    BY <1>2, BeginningStep DEF Follow, Beginning, Redirected
  <2>2. hops + 1 + UrlNeed(answer.location) <= 2 /\ UrlNeed(answer.location) \in 0..2
    BY <2>1, NeedTypes DEF Potential
  <2>3. RequestNeed' = UrlNeed(answer.location)
    BY <1>2, FollowedNeed
  <2>4. ~Redirected'
    BY <2>1 DEF Redirected
  <2> QED
    BY <1>0, <2>1, <2>2, <2>3, <2>4 DEF Potential
<1>3. CASE Leave
  <2>1. hops' = 0 /\ phase' = "idle"
    BY <1>3 DEF Leave
  <2>2. ~Redirected'
    BY <2>1 DEF Redirected
  <2>3. \A n \in 0..2 : 0 + n <= 2
    OBVIOUS
  <2>4. 0 + RequestNeed' <= 2
    BY <1>0, <2>3
  <2>5. hops' <= 2 /\ hops' + RequestNeed' <= 2
    BY <2>1, <2>4
  <2> QED
    BY <2>2, <2>5 DEF Potential
<1>4. CASE Answering
  <2>1. /\ hops' = hops /\ phase' = "answered"
        /\ hops + RequestNeed <= 2
    BY <1>4, AnsweringStep DEF Potential, Beyond
  <2>2. ASSUME IsRedirect(answer') PROVE hops + 1 + UrlNeed(answer'.location) <= 2
    <3>1. UrlNeed(answer'.location) + 1 <= RequestNeed
      BY <1>4, <2>2, RedirectSaves DEF Saves
    <3>2. UrlNeed(answer'.location) \in 0..2
      BY NeedTypes
    <3> QED
      BY <1>0, <2>1, <3>1, <3>2
  <2>3. UrlNeed(answer.location)' = UrlNeed(answer'.location)
    BY DEF UrlNeed, PathNeed, SettledUrl, Visited
  <2> QED
    BY <1>0, <2>1, <2>2, <2>3 DEF Potential, Redirected, IsRedirect
<1>5. CASE Passing
  <2>1. hops' = hops /\ req' = req /\ phase' \notin {"answered", "done"}
        /\ phase \notin {"answered", "done"}
    BY <1>5, PassingStep DEF Beyond
  <2> QED
    BY <2>1, SameRequest DEF Potential, Redirected
<1>6. CASE SecurityHeaders
  <2>1. /\ hops' = hops /\ phase = "answered" /\ phase' = "done"
        /\ answer'.status = answer.status /\ answer'.location = answer.location
    BY <1>6 DEF SecurityHeaders, TypeOK, Answers
  <2>2. UrlNeed(answer.location)' = UrlNeed(answer'.location)
    BY DEF UrlNeed, PathNeed, SettledUrl, Visited
  <2> QED
    BY <2>1, <2>2 DEF Potential, Redirected, IsRedirect
<1>7. CASE CatchPanic
  <2>1. hops' = hops /\ phase' = "done" /\ answer'.status = 500
    BY <1>7, PlainType DEF CatchPanic, Statuses
  <2> QED
    BY <2>1 DEF Potential, Redirected, IsRedirect
<1>8. CASE UNCHANGED vars
  <2>1. hops' = hops /\ req' = req /\ phase' = phase /\ answer' = answer
    BY <1>8 DEF vars
  <2>2. UrlNeed(answer.location)' = UrlNeed(answer.location)
    BY <2>1 DEF UrlNeed, PathNeed, SettledUrl, Visited
  <2> QED
    BY <2>1, <2>2, SameRequest DEF Potential, Redirected, IsRedirect
<1> QED
  BY <1>1, <1>2, <1>3, <1>4, <1>5, <1>6, <1>7, <1>8, NextSteps DEF Beginning

\* A request as it was typed has everything in common with what was typed.
LEMMA TypedUrl ==
    ASSUME Navigate
    PROVE  req'.url = asked'.url
<1>1. PICK m \in Methods, s, q \in BOOLEAN, h \in HostHeaders, p \in Links, a \in Peers,
           o, f \in Sites \cup {Absent} :
         LET url == [https |-> s, host |-> h, path |-> p, query |-> q]
         IN /\ m # "POST" => o = Absent /\ f = Absent
            /\ Send([method |-> m, url |-> url, peer |-> a, origin |-> o, referer |-> f])
            /\ asked' = [method |-> m, url |-> url]
            /\ hops' = 0
  BY DEF Navigate
<1> DEFINE url == [https |-> s, host |-> h, path |-> p, query |-> q]
<1>2. /\ req' = [method |-> m, url |-> url, peer |-> a, origin |-> o, referer |-> f]
      /\ asked' = [method |-> m, url |-> url]
  BY <1>1 DEF Send
<1> HIDE DEF url
<1> QED
  BY <1>2

\* While the typed URL stays, so does what another URL has in common with it.
LEMMA SameAsked ==
    ASSUME asked' = asked
    PROVE  /\ req'.url = req.url =>
                 /\ Same(req.url)' <=> Same(req.url)
                 /\ OnSite(req.url)' <=> OnSite(req.url)
           /\ answer'.location = answer.location =>
                 /\ Same(answer.location)' <=> Same(answer.location)
                 /\ OnSite(answer.location)' <=> OnSite(answer.location)
           /\ Same(answer'.location) => Same(answer.location)'
           /\ OnSite(answer'.location) => OnSite(answer.location)'
BY DEF Same, OnSite

\* Where a redirect leads is where a browser goes.
LEMMA KeptUrl ==
    ASSUME NEW url \in Urls, Same(url), OnSite(url)
    PROVE  Same(Visited(url)) /\ OnSite(Visited(url))
BY VisitedUrl DEF Same, OnSite

\* A redirect leads where the visitor asked to go.
LEMMA OnSiteRedirect ==
    ASSUME TypeOK, Kept, NEW url, Saves(url)
    PROVE  OnSite(url)
<1>1. CASE asked.url.host \in DevHosts
  <2>1. req.url.host = asked.url.host
    BY <1>1 DEF Kept, OnSite, TypeOK
  <2> QED
    BY <1>1, <2>1 DEF OnSite, Saves
<1>2. CASE asked.url.host \notin DevHosts
  <2>1. req.url.host \notin DevHosts
    <3>1. CASE hops = 0
      BY <1>2, <3>1 DEF Kept
    <3>2. CASE hops > 0
      BY <1>2, <3>2, HostAssumption DEF Kept, OnSite
    <3> QED
      BY <3>1, <3>2 DEF TypeOK
  <2> QED
    BY <1>2, <2>1 DEF OnSite, Saves
<1> QED
  BY <1>1, <1>2

LEMMA KeptStep == TypeOK /\ Handed /\ Kept /\ [Next]_vars => Kept'
<1> SUFFICES ASSUME TypeOK, Handed, Kept, [Next]_vars PROVE Kept'
  OBVIOUS
<1>1. CASE Navigate
  <2>1. req'.url = asked'.url
    BY <1>1, TypedUrl
  <2>2. hops' = 0
    BY <1>1 DEF Navigate
  <2>3. ~Redirected'
    BY <1>1, BeginningStep DEF Beginning, Redirected
  <2>4. Same(req.url)'
    BY <2>1 DEF Same
  <2>5. ~(hops' > 0)
    BY <2>2
  <2> QED
    BY <2>1, <2>3, <2>4, <2>5 DEF Kept
<1>2. CASE Follow
  <2>1. Redirected /\ hops' = hops + 1 /\ asked' = asked
    BY <1>2 DEF Follow, Redirected
  <2>2. req'.url = Visited(answer.location) /\ answer.location \in Urls
    BY <1>2, FollowedNeed DEF TypeOK, Answers
  <2>3. Same(req'.url) /\ OnSite(req'.url)
    BY <2>1, <2>2, KeptUrl DEF Kept
  <2>4. Same(req.url)' /\ OnSite(req.url)'
    BY <2>1, <2>3 DEF Same, OnSite
  <2>5. ~Redirected'
    BY <1>2, BeginningStep DEF Beginning, Redirected
  <2>6. hops' # 0
    BY <2>1 DEF TypeOK
  <2> QED
    BY <2>4, <2>5, <2>6 DEF Kept
<1>3. CASE Leave
  <2>1. req'.url = RootUrl /\ asked'.url = RootUrl /\ hops' = 0 /\ phase' = "idle"
    BY <1>3 DEF Leave, BlankTyped, BlankRequest
  <2>2. Same(req.url)'
    BY <2>1 DEF Same
  <2>3. ~Redirected'
    BY <2>1 DEF Redirected
  <2>4. ~(hops' > 0)
    BY <2>1
  <2> QED
    BY <2>1, <2>2, <2>3, <2>4 DEF Kept
<1>4. CASE Answering
  <2>1. req' = req /\ asked' = asked /\ hops' = hops
    BY <1>4, AnsweringStep
  <2>2. ASSUME IsRedirect(answer') PROVE Same(answer'.location) /\ OnSite(answer'.location)
    <3>1. Saves(answer'.location)
      BY <1>4, <2>2, RedirectSaves
    <3> QED
      BY <3>1, OnSiteRedirect DEF Saves, Kept
  <2>3. Redirected' => Same(answer.location)' /\ OnSite(answer.location)'
    BY <2>1, <2>2, SameAsked DEF Redirected, IsRedirect
  <2> QED
    BY <2>1, <2>3, SameAsked DEF Kept
<1>5. CASE Passing
  <2>1. req' = req /\ asked' = asked /\ hops' = hops
    BY <1>5, PassingStep
  <2>2. ~Redirected'
    BY <1>5, PassingStep DEF Redirected, Beyond
  <2> QED
    BY <2>1, <2>2, SameAsked DEF Kept
<1>6. CASE SecurityHeaders
  <2>1. /\ req' = req /\ asked' = asked /\ hops' = hops
        /\ answer'.status = answer.status /\ answer'.location = answer.location
    BY <1>6 DEF SecurityHeaders, TypeOK, Answers
  <2>2. Redirected' => Redirected
    BY <1>6, <2>1 DEF SecurityHeaders, Redirected, IsRedirect
  <2> QED
    BY <2>1, <2>2, SameAsked DEF Kept
<1>7. CASE CatchPanic
  <2>1. /\ req' = req /\ asked' = asked /\ hops' = hops
        /\ answer'.status = 500
    BY <1>7, PlainType DEF CatchPanic, Statuses
  <2>2. ~Redirected'
    BY <2>1 DEF Redirected, IsRedirect
  <2> QED
    BY <2>1, <2>2, SameAsked DEF Kept
<1>8. CASE UNCHANGED vars
  <2>1. req' = req /\ asked' = asked /\ hops' = hops /\ answer' = answer /\ phase' = phase
    BY <1>8 DEF vars
  <2>2. Redirected' => Redirected
    BY <2>1 DEF Redirected, IsRedirect
  <2> QED
    BY <2>1, <2>2, SameAsked DEF Kept
<1> QED
  BY <1>1, <1>2, <1>3, <1>4, <1>5, <1>6, <1>7, <1>8, NextSteps DEF Beginning

-----------------------------------------------------------------------------
(* The invariant *)

LEMMA InitInv == Init => RoutingInv
<1> SUFFICES ASSUME Init PROVE RoutingInv
  OBVIOUS
<1>1. TypeOK
  BY BlankTypes DEF Init, TypeOK, Phases
<1>2. Handed /\ Answered /\ Served /\ AllowTellsTheTruth /\ PagesAreHardened
  BY DEF Init, Handed, Beyond, Answered, Served, AllowTellsTheTruth, PagesAreHardened
<1>3. Potential
  <2>1. hops = 0 /\ ~Redirected
    BY DEF Init, Redirected
  <2>2. \A n \in 0..2 : 0 + n <= 2
    OBVIOUS
  <2>3. 0 + RequestNeed <= 2
    BY <2>2, NeedTypes
  <2> QED
    BY <2>1, <2>3 DEF Potential
<1>4. Kept
  <2>1. req.url = asked.url /\ hops = 0 /\ ~Redirected
    BY DEF Init, BlankTyped, BlankRequest, Redirected
  <2>2. Same(req.url)
    BY <2>1 DEF Same
  <2>3. ~(hops > 0)
    BY <2>1
  <2> QED
    BY <2>1, <2>2, <2>3 DEF Kept
<1> QED
  BY <1>1, <1>2, <1>3, <1>4 DEF RoutingInv

LEMMA NextInv == RoutingInv /\ [Next]_vars => RoutingInv'
BY TypesStep, HandedStep, AnsweredStep, ServedStep, PotentialStep, KeptStep DEF RoutingInv

\* Every reachable state is well-typed, each layer gets from the layers before
\* it what it relies on, and the redirects still to come are bounded.
THEOREM Invariance == Spec => []RoutingInv
<1>1. Init => RoutingInv
  BY InitInv
<1>2. RoutingInv /\ [Next]_vars => RoutingInv'
  BY NextInv
<1> QED
  BY <1>1, <1>2, PTL DEF Spec

-----------------------------------------------------------------------------
(* What it implies *)

\* Every variable keeps its type, for every registry, set of hosts and static
\* tree: no answer carries a Location that is no URL of the model, and none an
\* Allow with a method the router does not know.
THEOREM TypesCorrect == Spec => []TypeOK
<1>1. RoutingInv => TypeOK
  BY DEF RoutingInv
<1> QED
  BY <1>1, Invariance, PTL

\* UrlCanonicalization and ServeDir never build a redirect loop: whatever the
\* registry's aliases and the Host header, the second redirect is the last.
THEOREM Settle == Spec => []RedirectsSettle
<1>1. RoutingInv => RedirectsSettle
  <2> SUFFICES ASSUME RoutingInv PROVE RedirectsSettle
    OBVIOUS
  <2>1. hops \in Nat /\ hops <= 2
    BY DEF RoutingInv, TypeOK, Potential
  <2>2. CASE phase = "done" /\ IsRedirect(answer)
    <3>1. hops + 1 + UrlNeed(answer.location) <= 2 /\ UrlNeed(answer.location) \in 0..2
      BY <2>2, NeedTypes DEF RoutingInv, Potential, Redirected
    <3>2. hops + 1 <= 2
      BY <2>1, <3>1
    <3> QED
      BY <2>2, <3>2 DEF RedirectsSettle
  <2>3. CASE ~(phase = "done" /\ IsRedirect(answer))
    BY <2>1, <2>3 DEF RedirectsSettle
  <2> QED
    BY <2>2, <2>3
<1> QED
  BY <1>1, Invariance, PTL

\* The dispatcher's debug_assert, unreachable! and expect never fire: the
\* layers before it have resolved the path as it does and buffered the body.
THEOREM AssertionsHold == Spec => []DispatcherAssertionsHold
<1>1. RoutingInv => DispatcherAssertionsHold
  <2> SUFFICES ASSUME RoutingInv, phase \in {"dispatch", "page"}
               PROVE  /\ resolve_path(Path) # "Redirect"
                      /\ req.url.host.name # NoName
                      /\ req.method # "OTHER"
                      /\ (req.method = "POST" /\ resolve_path(Path) = "Canonical"
                            /\ AcceptsPost(PageOf(Path))) => body
    BY DEF DispatcherAssertionsHold
  <2>1. /\ SettledHost /\ ~canonicalize_url
        /\ ReadsBody => body
        /\ req.method # "OTHER"
    BY DEF RoutingInv, Handed, Beyond
  <2>2. resolve_path(Path) # "Redirect"
    BY <2>1 DEF canonicalize_url, Path
  <2>3. req.url.host.name # NoName
    BY <2>1, HostAssumption DEF SettledHost, is_dev_host, host_name
  <2>4. (req.method = "POST" /\ resolve_path(Path) = "Canonical" /\ AcceptsPost(PageOf(Path))) => body
    BY <2>1 DEF ReadsBody, will_consume_a_body, Path
  <2> QED
    BY <2>1, <2>2, <2>3, <2>4
<1> QED
  BY <1>1, Invariance, PTL

\* A page's handler runs for no Host header but a development host's, or the
\* master host's over HTTPS as our own proxy reports it.
THEOREM OnlyOnSite == Spec => []PagesOnlyOnSite
<1>1. RoutingInv => PagesOnlyOnSite
  <2> SUFFICES ASSUME RoutingInv, phase = "page"
               PROVE  \/ req.url.host \in DevHosts
                      \/ req.url.host.name = Master /\ req.url.https /\ req.peer # "direct"
    BY DEF PagesOnlyOnSite
  <2>1. SettledHost
    BY DEF RoutingInv, Handed, Beyond
  <2>2. is_https => req.url.https /\ req.peer # "direct"
    BY DEF is_https, is_trusted_proxy, to_canonical, TrustedProxies
  <2> QED
    BY <2>1, <2>2 DEF SettledHost, is_dev_host, host_name
<1> QED
  BY <1>1, Invariance, PTL

\* However many redirects UrlCanonicalization and ServeDir send, they keep the
\* page, the query string and a development host of what was typed.
THEOREM KeepWhatWasAsked == Spec => []RedirectsKeepWhatWasAsked
<1>1. RoutingInv => RedirectsKeepWhatWasAsked
  BY DEF RoutingInv, Kept, Same, OnSite, RedirectsKeepWhatWasAsked, Path
<1> QED
  BY <1>1, Invariance, PTL

\* The dispatcher counts no hit for a request that is turned away, redirected
\* or posted from another site.
THEOREM OnlyServedCounted == Spec => []CountedOnlyIfServed
<1>1. RoutingInv => CountedOnlyIfServed
  <2> SUFFICES ASSUME RoutingInv, counted, phase = "done"
               PROVE  /\ answer.status \in {PageStatus(PageOf(Path)), 500}
                      /\ resolve_path(Path) = "Canonical"
                      /\ req.method = "POST" =>
                            (IF req.origin # Absent THEN req.origin ELSE req.referer)
                                \in {Master, req.url.host.name}
    BY DEF CountedOnlyIfServed
  <2>1. /\ answer.status \in {PageStatus(PageOf(Path)), 500}
        /\ resolve_path(Path) = "Canonical"
        /\ req.method = "POST" => check_origin
    BY DEF RoutingInv, Served
  <2>2. check_origin => (IF req.origin # Absent THEN req.origin ELSE req.referer)
                            \in {Master, req.url.host.name}
    BY DEF check_origin, hosts_match, host_name
  <2> QED
    BY <2>1, <2>2
<1> QED
  BY <1>1, Invariance, PTL

\* The Allow header that leaves SecurityHeaders, whichever layer wrote it, is
\* a 405's, without the method refused and without a POST that would be.
THEOREM AllowIsTrue == Spec => []AllowTellsTheTruth
<1>1. RoutingInv => AllowTellsTheTruth
  BY DEF RoutingInv
<1> QED
  BY <1>1, Invariance, PTL

\* SecurityHeaders hardens every page it was not kept from by a panic: what it
\* decides about the page and the scheme agrees with the dispatcher.
THEOREM Hardened == Spec => []PagesAreHardened
<1>1. RoutingInv => PagesAreHardened
  BY DEF RoutingInv
<1> QED
  BY <1>1, Invariance, PTL
===============================================================================
