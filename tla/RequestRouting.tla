---------------------------- MODULE RequestRouting ----------------------------
(***************************************************************************)
(* What one request meets between the proxy and a page handler, layer by   *)
(* layer as src/main.rs stacks them: SecurityHeaders, UrlCanonicalization, *)
(* buffer_body, admission, the router, the dispatcher.  A browser types a  *)
(* URL, follows the redirects it gets and types another one.               *)
(*                                                                         *)
(* Every layer resolves the path and reads the Host header by itself: the  *)
(* properties say that their separate answers agree, and that redirects    *)
(* lead somewhere.                                                         *)
(***************************************************************************)
EXTENDS Naturals, FiniteSets, ClientAddress

CONSTANTS
    Pages, Home,       \* the slugs of the registry that are pages, and ""
    Aliases,           \* a function from the other slugs to their targets
    OtherNames,        \* names in paths that are no slug
    AssetPaths,        \* paths of files under static/
    DirectoryPaths,    \* paths of directories under static/, without slash
    ArchivePaths,      \* paths under /files
    Links,             \* the paths visitors ask for
    Names, NoName,     \* host names; NoName also stands for what is missing
    Master,            \* MASTER_HOST
    Ports, NoPort,
    DevHosts,          \* DEV_HOSTS
    HostHeaders,       \* the Host headers clients send
    Sites,             \* the hosts whose pages send forms here
    Absent,            \* a request header that is not there
    MaxHops            \* redirects a browser follows before it gives up

Extensions == {"none", ".htm", ".html", ".php"}

Slugs == Pages \cup DOMAIN Aliases

\* A path after its first slash: [Home, "none"] is "/".  "exact" says that it
\* is spelled in the case of the registry, "slash" that it ends in a slash.
Paths == [name : Slugs \cup OtherNames, ext : Extensions, exact : BOOLEAN, slash : BOOLEAN]

\* [ userinfo "@" ] uri-host [ ":" port ]: the grammar of the Host header.
Hosts == [user : Names \cup {NoName}, name : Names \cup {NoName}, port : Ports \cup {NoPort}]

Urls == [https : BOOLEAN, host : Hosts, path : Paths, query : BOOLEAN]

ASSUME RegistryAssumption ==
    /\ Home \in Pages
    /\ Aliases \in [DOMAIN Aliases -> Pages]
    /\ DOMAIN Aliases \cap Pages = {}
    /\ OtherNames \cap Slugs = {}

ASSUME StaticAssumption ==
    /\ Links \subseteq Paths
    /\ AssetPaths \cup DirectoryPaths \cup ArchivePaths \subseteq Paths
    /\ \A p \in AssetPaths \cup DirectoryPaths \cup ArchivePaths :
          p.name \in OtherNames /\ ~p.slash

ASSUME HostAssumption ==
    /\ Master \in Names /\ NoName \notin Names
    /\ DevHosts \subseteq [user : {NoName}, name : Names \ {Master}, port : Ports \cup {NoPort}]
    /\ HostHeaders \subseteq Hosts
    /\ Sites \subseteq Names

ASSUME HopsAssumption == MaxHops \in Nat

VARIABLES
    asked,    \* what the visitor typed: method and URL
    req,      \* the request under way
    phase,    \* the layer it has reached
    body,     \* a PostBody is in the request's extensions
    counted,  \* the dispatcher has counted a hit for it
    answer,   \* the response
    hops      \* redirects followed since the URL was typed

vars == <<asked, req, phase, body, counted, answer, hops>>

Methods == {"GET", "HEAD", "POST", "OTHER"}

Requests == [method : Methods, url : Urls, peer : Peers,
             origin : Names \cup {Absent}, referer : Names \cup {Absent}]

Statuses == {200, 206, 301, 304, 307, 400, 403, 404, 405, 412, 413, 416, 500, 503}

Answers == [status : Statuses, location : Urls, allow : SUBSET {"GET", "HEAD", "POST"},
            csp : BOOLEAN, hsts : BOOLEAN, no_cache : BOOLEAN]

Phases == {"idle", "canonicalize", "buffer", "admit", "route", "dispatch", "page", "answered", "done"}

-----------------------------------------------------------------------------
(* The registry: src/registry *)

RootPath == [name |-> Home, ext |-> "none", exact |-> TRUE, slash |-> FALSE]

relative_url(page) ==
    IF page = Home THEN RootPath
    ELSE [name |-> page, ext |-> ".htm", exact |-> TRUE, slash |-> FALSE]

\* Aliases lead to pages, so that the recursion of the code ends after a step.
resolve_alias(slug) == IF slug \in DOMAIN Aliases THEN Aliases[slug] ELSE slug

\* "/.htm" names nothing, and a path that ends in a slash is a directory.
Found(path) ==
    /\ path.name \in Slugs
    /\ ~path.slash
    /\ path.name = Home => path.ext = "none"

PageOf(path) == resolve_alias(path.name)

resolve_path(path) ==
    IF ~Found(path) THEN "NotFound"
    ELSE IF path = relative_url(PageOf(path)) THEN "Canonical"
    ELSE "Redirect"

AcceptsPost(page) == page = Home
NoCachePage(page) == page = Home

allowed_methods(page) == {"GET", "HEAD"} \cup (IF AcceptsPost(page) THEN {"POST"} ELSE {})

will_consume_a_body(path) == resolve_path(path) = "Canonical" /\ AcceptsPost(PageOf(path))

\* Mutant: only what a GET returns is kept out of caches.
check_no_cache_GetOnly(path) ==
    /\ req.method = "GET"
    /\ resolve_path(path) = "Canonical" /\ NoCachePage(PageOf(path))

check_no_cache(path) == resolve_path(path) = "Canonical" /\ NoCachePage(PageOf(path))

-----------------------------------------------------------------------------
(* Hosts, the scheme, and the origin of a POST *)

MasterHost == [user |-> NoName, name |-> Master, port |-> NoPort]

\* Mutant: what stands before the first colon.
host_name_Split(host) == IF host.user # NoName THEN host.user ELSE host.name

\* The name behind userinfo and port, in lower case; NoName if there is none.
host_name(host) == host.name

\* The header as it stands, port included, is on the list.
is_dev_host(host) == host \in DevHosts

\* X-Forwarded-Proto, believed from our own proxy only.
is_https == is_trusted_proxy(req.peer) /\ req.url.https

is_accepted_host(host) == host_name(host) = Master \/ is_dev_host(host)

hosts_match(site, host) == is_accepted_host(host) /\ site \in {host_name(host), Master}

\* Origin decides when it is there, Referer otherwise; one of them must be.
check_origin ==
    LET site == IF req.origin # Absent THEN req.origin ELSE req.referer
    IN site # Absent /\ hosts_match(site, req.url.host)

-----------------------------------------------------------------------------
(* Answers *)

\* The URL asked for stands in "location" when there is no Location header.
Plain(status) ==
    [status |-> status, location |-> req.url, allow |-> {},
     csp |-> FALSE, hsts |-> FALSE, no_cache |-> FALSE]

WithAllow(status, methods) == [Plain(status) EXCEPT !.allow = methods]

Redirection(status, url) == [Plain(status) EXCEPT !.location = url]

Respond(a) ==
    /\ answer' = a
    /\ phase' = "answered"
    /\ UNCHANGED <<asked, req, hops>>

Refuse(a) == Respond(a) /\ UNCHANGED <<body, counted>>

\* The request goes on to the next layer.
PassTo(layer) ==
    /\ phase' = layer
    /\ UNCHANGED <<asked, req, answer, hops>>

-----------------------------------------------------------------------------
(* The browser *)

RootUrl == [https |-> TRUE, host |-> MasterHost, path |-> RootPath, query |-> FALSE]

\* Nothing asked, nothing answered.
BlankTyped   == [method |-> "GET", url |-> RootUrl]
BlankRequest == [method |-> "GET", url |-> RootUrl, peer |-> "v4",
                 origin |-> Absent, referer |-> Absent]
BlankAnswer  == [status |-> 200, location |-> RootUrl, allow |-> {},
                 csp |-> FALSE, hsts |-> FALSE, no_cache |-> FALSE]

Init ==
    /\ asked = BlankTyped
    /\ req = BlankRequest
    /\ phase = "idle"
    /\ body = FALSE
    /\ counted = FALSE
    /\ answer = BlankAnswer
    /\ hops = 0

\* A request enters the server, at UrlCanonicalization: SecurityHeaders has
\* only read it so far.
Send(r) ==
    /\ req' = r
    /\ phase' = "canonicalize"
    /\ body' = FALSE /\ counted' = FALSE
    /\ answer' = BlankAnswer

\* The visitor types a URL or sends a form.  Origin and Referer are read for a
\* POST only.
Navigate ==
    /\ phase = "idle"
    /\ \E m \in Methods, s, q \in BOOLEAN, h \in HostHeaders, p \in Links, a \in Peers,
          o, f \in Sites \cup {Absent} :
          LET url == [https |-> s, host |-> h, path |-> p, query |-> q]
          IN /\ m # "POST" => o = Absent /\ f = Absent
             /\ Send([method |-> m, url |-> url, peer |-> a, origin |-> o, referer |-> f])
             /\ asked' = [method |-> m, url |-> url]
             /\ hops' = 0

IsRedirect(a) == a.status \in {301, 307}

\* What a browser makes of a URL: userinfo is not sent in the Host header.
Visited(url) == [url EXCEPT !.host = [url.host EXCEPT !.user = NoName]]

\* A 301 allows a POST to become a GET; a 307 does not.
MethodsAfter(a) ==
    {req.method} \cup (IF a.status = 301 /\ req.method = "POST" THEN {"GET"} ELSE {})

\* The browser follows a redirect, through the proxy.
Follow ==
    /\ phase = "done" /\ IsRedirect(answer)
    /\ hops < MaxHops
    /\ \E m \in MethodsAfter(answer), a \in Peers \ {"direct"} :
          Send([req EXCEPT !.method = m, !.url = Visited(answer.location), !.peer = a])
    /\ hops' = hops + 1
    /\ UNCHANGED asked

\* The visitor has read the answer.
Leave ==
    /\ phase = "done"
    /\ phase' = "idle"
    /\ asked' = BlankTyped /\ req' = BlankRequest
    /\ body' = FALSE /\ counted' = FALSE
    /\ answer' = BlankAnswer
    /\ hops' = 0

-----------------------------------------------------------------------------
(* UrlCanonicalization *)

SettledHost == is_dev_host(req.url.host) \/ (host_name(req.url.host) = Master /\ is_https)

\* 400: no Host header, or one that is no authority.
RejectHost ==
    /\ phase = "canonicalize"
    /\ host_name(req.url.host) = NoName
    /\ Refuse(Plain(400))

RedirectToMaster ==
    /\ phase = "canonicalize"
    /\ host_name(req.url.host) \notin {NoName, Master}
    /\ ~is_dev_host(req.url.host)
    /\ Refuse(Redirection(301, [req.url EXCEPT !.https = TRUE, !.host = MasterHost]))

RedirectToHttps ==
    /\ phase = "canonicalize"
    /\ host_name(req.url.host) = Master
    /\ ~is_https /\ ~is_dev_host(req.url.host)
    /\ Refuse(Redirection(301, [req.url EXCEPT
            !.https = TRUE,
            !.host = [user |-> NoName, name |-> host_name(req.url.host), port |-> NoPort]]))

\* Mutant: a POST is not redirected to the page's canonical path.
canonicalize_url_GetOnly == resolve_path(req.url.path) = "Redirect" /\ req.method # "POST"

\* The path names a page by another spelling or an alias.
canonicalize_url == resolve_path(req.url.path) = "Redirect"

\* Mutant: the query string is not appended to the canonical path.
CanonicalUrlNoQuery ==
    [https |-> is_https, host |-> req.url.host,
     path |-> relative_url(PageOf(req.url.path)), query |-> FALSE]

\* The Host header goes into the Location as it came, and the scheme with it.
CanonicalUrl ==
    [https |-> is_https, host |-> req.url.host,
     path |-> relative_url(PageOf(req.url.path)), query |-> req.url.query]

RedirectToPage ==
    /\ phase = "canonicalize"
    /\ SettledHost /\ canonicalize_url
    /\ Refuse(Redirection(301, CanonicalUrl))

PassCanonical ==
    /\ phase = "canonicalize"
    /\ SettledHost /\ ~canonicalize_url
    /\ PassTo("buffer")
    /\ UNCHANGED <<body, counted>>

-----------------------------------------------------------------------------
(* buffer_body and admission *)

ReadsBody == req.method = "POST" /\ will_consume_a_body(req.url.path)

PassUnread ==
    /\ phase = "buffer"
    /\ ~ReadsBody
    /\ PassTo("admit")
    /\ UNCHANGED <<body, counted>>

\* 413 for a declared length over the cap, 400 for a body that cannot be read.
RefuseBody ==
    /\ phase = "buffer"
    /\ ReadsBody
    /\ \E status \in {400, 413} : Refuse(Plain(status))

BufferBody ==
    /\ phase = "buffer"
    /\ ReadsBody
    /\ body' = TRUE
    /\ PassTo("admit")
    /\ UNCHANGED counted

\* LoadShed: BlockingPool says when.
Shed ==
    /\ phase = "admit"
    /\ Refuse(Plain(503))

Admit ==
    /\ phase = "admit"
    /\ PassTo("route")
    /\ UNCHANGED <<body, counted>>

-----------------------------------------------------------------------------
(* The router *)

Path == req.url.path

Reads == req.method \in {"GET", "HEAD"}

\* What ServeDir answers to a read of a file: the file, or what the request's
\* conditions and ranges make of it.
FileStatuses == {200, 206, 304, 412, 416}

\* ServeDir under /files answers every request itself.  Its directory is taken
\* to hold files only, like the archives main.rs:225 looks for.
ServeArchive ==
    /\ phase = "route" /\ Path \in ArchivePaths
    /\ IF Reads THEN \E status \in FileStatuses \cup {404} : Refuse(Plain(status))
       ELSE Refuse(WithAllow(405, {"GET", "HEAD"}))

ServeAsset ==
    /\ phase = "route" /\ Path \in AssetPaths \ ArchivePaths
    /\ Reads
    /\ \E status \in FileStatuses : Refuse(Plain(status))

\* ServeDir adds the slash of a directory, in a relative Location.
AppendSlash ==
    /\ phase = "route" /\ Path \in DirectoryPaths \ (ArchivePaths \cup AssetPaths)
    /\ Reads
    /\ Refuse(Redirection(307, [req.url EXCEPT !.path = [Path EXCEPT !.slash = TRUE]]))

\* POST goes to the dispatcher, and so do reads that ServeDir has no file for.
RouteToDispatcher ==
    /\ phase = "route" /\ Path \notin ArchivePaths
    /\ \/ req.method = "POST"
       \/ Reads /\ Path \notin AssetPaths \cup DirectoryPaths
    /\ PassTo("dispatch")
    /\ UNCHANGED <<body, counted>>

\* Mutant: the router-wide value names the unsupported methods too.
RouterMethodsAll == Methods

\* What axum's MethodRouter puts into Allow when the fallback left it out.
RouterMethods == {"GET", "HEAD", "POST"}

handle_unsupported_method ==
    /\ phase = "route" /\ Path \notin ArchivePaths
    /\ req.method = "OTHER"
    /\ Refuse(IF resolve_path(Path) = "Canonical"
              THEN WithAllow(405, allowed_methods(PageOf(Path)))
              ELSE WithAllow(404, RouterMethods))

-----------------------------------------------------------------------------
(* The dispatcher *)

Dispatched == phase = "dispatch" /\ resolve_path(Path) = "Canonical"

render_not_found ==
    /\ phase = "dispatch" /\ resolve_path(Path) = "NotFound"
    /\ Refuse(Plain(404))

RefuseMethod ==
    /\ Dispatched
    /\ req.method = "POST" /\ ~AcceptsPost(PageOf(Path))
    /\ Refuse(WithAllow(405, allowed_methods(PageOf(Path))))

\* Mutant: the hit is counted before the origin is checked.
RefuseForeignPostLate ==
    /\ Dispatched
    /\ req.method = "POST" /\ AcceptsPost(PageOf(Path))
    /\ ~check_origin
    /\ Respond(Plain(403))
    /\ counted' = TRUE
    /\ UNCHANGED body

RefuseForeignPost ==
    /\ Dispatched
    /\ req.method = "POST" /\ AcceptsPost(PageOf(Path))
    /\ ~check_origin
    /\ Refuse(Plain(403))

\* The hit is counted (PhpCount says how), then the page's handler runs.
CountHit ==
    /\ Dispatched
    /\ req.method = "POST" => AcceptsPost(PageOf(Path)) /\ check_origin /\ body
    /\ counted' = TRUE
    /\ PassTo("page")
    /\ UNCHANGED body

\* The page named "404" answers with its own name.
PageStatus(page) == IF page = "404" THEN 404 ELSE 200

RunPage ==
    /\ phase = "page"
    /\ Refuse(Plain(PageStatus(PageOf(Path))))

-----------------------------------------------------------------------------
(* On the way out: SecurityHeaders, and CatchPanic outside it *)

\* Mutant: leaves Allow on every answer.
SecurityHeadersKeepAllow ==
    /\ phase = "answered"
    /\ answer' = [answer EXCEPT
            !.csp = TRUE,
            !.no_cache = check_no_cache(Path),
            !.hsts = is_https /\ ~is_dev_host(req.url.host)]
    /\ phase' = "done"
    /\ UNCHANGED <<asked, req, body, counted, hops>>

SecurityHeaders ==
    /\ phase = "answered"
    /\ answer' = [answer EXCEPT
            !.csp = TRUE,
            !.no_cache = check_no_cache(Path),
            !.allow = IF answer.status = 405 THEN answer.allow ELSE {},
            !.hsts = is_https /\ ~is_dev_host(req.url.host)]
    /\ phase' = "done"
    /\ UNCHANGED <<asked, req, body, counted, hops>>

\* A handler panics: the panic unwinds through every layer but CatchPanic,
\* which answers on its own.
CatchPanic ==
    /\ phase = "page"
    /\ answer' = Plain(500)
    /\ phase' = "done"
    /\ UNCHANGED <<asked, req, body, counted, hops>>

-----------------------------------------------------------------------------

Browser == Navigate \/ Follow \/ Leave

UrlCanonicalization ==
    RejectHost \/ RedirectToMaster \/ RedirectToHttps \/ RedirectToPage \/ PassCanonical

Gate == PassUnread \/ RefuseBody \/ BufferBody \/ Shed \/ Admit

Router ==
    ServeArchive \/ ServeAsset \/ AppendSlash \/ RouteToDispatcher \/ handle_unsupported_method

Dispatcher == render_not_found \/ RefuseMethod \/ RefuseForeignPost \/ CountHit \/ RunPage

Next ==
    \/ Browser
    \/ UrlCanonicalization
    \/ Gate
    \/ Router
    \/ Dispatcher
    \/ SecurityHeaders
    \/ CatchPanic

Spec == Init /\ [][Next]_vars

-----------------------------------------------------------------------------
(* Properties *)

\* Every variable keeps its type.  The Allow header names methods the router
\* knows.
TypeOK ==
    /\ asked \in [method : Methods, url : Urls]
    /\ req \in Requests
    /\ phase \in Phases
    /\ body \in BOOLEAN
    /\ counted \in BOOLEAN
    /\ answer \in Answers
    /\ hops \in Nat

\* Redirects settle: whatever was typed, through whichever form of our proxy's
\* address the requests come, the second redirect leads to an answer.  One
\* settles host and scheme, one the path.
RedirectsSettle == hops + (IF phase = "done" /\ IsRedirect(answer) THEN 1 ELSE 0) <= 2

\* The assertions of the dispatcher hold: only a canonical or an unknown path
\* reaches it, and a POST it is going to serve has its body with it.  The
\* layers that see to it resolve the path again, each for itself.
DispatcherAssertionsHold ==
    phase \in {"dispatch", "page"} =>
        /\ resolve_path(Path) # "Redirect"
        /\ req.url.host.name # NoName
        /\ req.method # "OTHER"
        /\ (req.method = "POST" /\ resolve_path(Path) = "Canonical" /\ AcceptsPost(PageOf(Path)))
              => body

\* A page is rendered only for a development host, or for the master host over
\* HTTPS.  The dispatcher does not look at the host: it relies on the
\* canonicalization of a header a client composed.
PagesOnlyOnSite ==
    phase = "page" =>
        \/ req.url.host \in DevHosts
        \/ req.url.host.name = Master /\ req.url.https /\ req.peer # "direct"

\* Redirects neither change what was asked nor where it is: the page, the
\* query string and a development host stay, and everything else ends on the
\* master host, over HTTPS.
RedirectsKeepWhatWasAsked ==
    hops > 0 =>
        /\ req.url.query = asked.url.query
        /\ resolve_path(asked.url.path) # "NotFound" => PageOf(Path) = PageOf(asked.url.path)
        /\ resolve_path(asked.url.path) = "NotFound" => Path.name = asked.url.path.name
        /\ IF asked.url.host \in DevHosts THEN req.url.host = asked.url.host
           ELSE req.url.host.name = Master /\ req.url.https

\* A hit is counted only for a request that a page's handler answers: never for
\* one that is turned away, redirected, or posted from another site.
CountedOnlyIfServed ==
    counted /\ phase = "done" =>
        /\ answer.status \in {PageStatus(PageOf(Path)), 500}
        /\ resolve_path(Path) = "Canonical"
        /\ req.method = "POST" =>
              (IF req.origin # Absent THEN req.origin ELSE req.referer)
                  \in {Master, req.url.host.name}

\* Allow is on a 405 and nowhere else, never names the method it refuses, and
\* names POST only where a POST is not refused.
AllowTellsTheTruth ==
    phase = "done" =>
        /\ answer.allow # {} <=> answer.status = 405
        /\ req.method \notin answer.allow
        /\ "POST" \in answer.allow => will_consume_a_body(Path)

\* The page that shows hashes and passwords reaches its visitor with the
\* headers that keep it out of caches, and every page on the master host with
\* HSTS, unless its handler panicked.  The layer that adds the headers decides
\* on its own which page and which scheme this is.
PagesAreHardened ==
    phase = "done" /\ counted /\ answer.status # 500 =>
        /\ answer.csp
        /\ PageOf(Path) = Home => answer.no_cache
        /\ req.url.host \notin DevHosts => answer.hsts

\* "The Content-Security-Policy sent with every response"
\* (src/middleware/security_headers.rs:31).
EveryResponseHasCSP == phase = "done" => answer.csp
===============================================================================
