----------------------------- MODULE HttpServers -----------------------------
(***************************************************************************)
(* The two local HTTP servers in front of everything else: genie-core      *)
(* (server.rs) and the dashboard's genie-api (genie-api http.rs,           *)
(* routes.rs), which answers some routes itself, asks the governor for     *)
(* others and forwards the rest to genie-core.  Each server takes a slot   *)
(* before it accepts and keeps it until the answer is written.  genie-core *)
(* may be slow or stuck; a peer may send slowly, vanish, send too much, or *)
(* never read its answer (HttpReader says what the reader makes of the     *)
(* bytes).                                                                 *)
(***************************************************************************)
EXTENDS Naturals, FiniteSets

CONSTANTS Clients,
          Menus,        \* [ask, opens]: what clients may send, and how many connections they open
          Slots,        \* server -> max_connections
          MaxOpens,     \* bound on those connections
          MaxFaults,    \* bound on failing accept() calls
          TokenSet,     \* a local_api_token is configured
          OriginTokens, \* origins with a token of their own
          RequireToken  \* [core.origin_auth] require_token

ASSUME HttpServersAssumption ==
    /\ Slots \in [{"api", "core"} -> Nat \ {0}]
    /\ MaxOpens \in Nat /\ MaxFaults \in Nat /\ \A m \in Menus : m.opens \in 0..MaxOpens
    /\ TokenSet \in BOOLEAN /\ RequireToken \in BOOLEAN

\* A request as a peer may send it; "none" is a header that is missing or that
\* names nothing known (RequestOrigin::from_header), "own" a listed Host.
Claims == {"none", "voice", "dashboard", "api", "telegram", "repl", "confirmation"}
Request == [server : {"api", "core"}, method : {"GET", "POST", "OPTIONS"}, path : STRING, query : BOOLEAN,
            token : {"none", "bad", "good"}, host : {"none", "own", "foreign"},
            origin : {"none", "own", "foreign"}, claim : Claims, claimToken : {"none", "bad", "good"},
            lan : BOOLEAN, body : {"none", "junk", "json"}, wire : {"whole", "oversize", "stall", "vanish"},
            reads : BOOLEAN]   \* the peer takes its answer from the connection

ASSUME MenusAssumption == \A m \in Menus : m.ask \subseteq Request

VARIABLES menu,    \* the requests of this behaviour
          conn,    \* <<client, 0>>: its n-th connection; <<client, n>>: the hop of that connection
          pausing, \* servers backing off after a failed accept
          opens, faults,
          effects  \* what handlers did, and for which request
httpVars == <<menu, conn, pausing, opens, faults, effects>>

NoRequest == [server |-> "none"]
NoConn == [stage |-> "idle", server |-> "none", req |-> NoRequest, asked |-> NoRequest,
           n |-> 0, route |-> "none", status |-> 0]

HttpInit ==
    /\ menu \in Menus
    /\ conn = [k \in Clients \X (0..MaxOpens) |-> NoConn]
    /\ pausing = {}
    /\ opens = 0 /\ faults = 0
    /\ effects = {}

-----------------------------------------------------------------------------
(* The shared gate (genie-common http.rs, origin_auth.rs)                  *)

TokenRoutes ==
    {<<"POST", p>> : p \in {"/api/actuation/confirm", "/api/memories/update", "/api/memories/delete",
                            "/api/memories/reorder", "/api/mode", "/api/chat/stream", "/api/chat",
                            "/api/chat/clear", "/api/web-search", "/v1/chat/completions"}}
    \cup {<<"GET", p>> : p \in {"/api/actuation/pending", "/api/actuation/actions", "/api/chat/history",
                                "/api/chat/export", "/api/conversations", "/api/memories"}}

PolicyHit(surface, at) == at \in TokenRoutes \/ (surface = "api" /\ at = <<"GET", "/api/actuation/audit">>)

\* Variant: the query string is left on the path.
RequiresTokenAsSent(surface, r) == ~r.query /\ PolicyHit(surface, <<r.method, r.path>>)

RouteRequiresLocalToken(surface, r) == PolicyHit(surface, <<r.method, r.path>>)

TokenOk(r) == TokenSet => r.token = "good"

\* A missing Host or Origin is let through, a present one must be listed.
CheckRequest(r) == IF r.host = "foreign" THEN "host" ELSE IF r.origin = "foreign" THEN "origin" ELSE "allow"

\* OriginResolver::resolve: the floor is "api"; a configured token decides
\* alone, even on the loopback interface.
Resolve(r) ==
    IF r.claim \in {"none", "api", "confirmation"} THEN "api"
    ELSE IF r.claim \in OriginTokens THEN IF r.claimToken = "good" THEN r.claim ELSE "api"
    ELSE IF ~r.lan /\ ~RequireToken THEN r.claim ELSE "api"

-----------------------------------------------------------------------------
(* Routes.  A path with a query string is no route but the export's.       *)

CoreRoutes ==
    [GET |-> {"/", "/api/chat/history", "/api/conversations", "/api/tools", "/api/runtime/contract",
              "/api/web-search", "/api/health", "/api/connectivity", "/api/actuation/pending",
              "/api/actuation/actions", "/api/memories", "/v1/models", "/api/chat/export"},
     POST |-> {"/api/chat/stream", "/api/chat", "/api/chat/clear", "/api/web-search", "/api/actuation/confirm",
               "/api/memories/update", "/api/memories/delete", "/api/memories/reorder", "/v1/chat/completions"}]

ApiRoutes ==
    [GET |-> {"/", "/dashboard.js", "/api/status", "/api/tegrastats", "/api/services", "/api/security",
              "/api/runtime/contract", "/api/actuation/pending", "/api/actuation/actions",
              "/api/actuation/audit", "/api/memories"},
     POST |-> {"/api/actuation/confirm", "/api/memories/update", "/api/memories/delete",
               "/api/memories/reorder", "/api/mode"}]

\* genie-core takes every path that begins like the export's for the export;
\* one longer path stands for all of them.
Export == "/api/chat/export"
LongerExport == "/api/chat/export/"

ClassifyRoute(server, r) ==
    LET table == IF server = "core" THEN CoreRoutes ELSE ApiRoutes
    IN  IF r.method = "OPTIONS" THEN "options"
        ELSE IF server = "core" /\ r.method = "GET" /\ r.path \in {Export, LongerExport} THEN Export
        ELSE IF r.path \in table[r.method] /\ ~r.query THEN r.path ELSE "not_found"

ChatRoutes == {"/api/chat/stream", "/api/chat", "/v1/chat/completions"}
NeedsBody == {"/api/web-search", "/api/actuation/confirm", "/api/memories/update", "/api/memories/delete",
              "/api/memories/reorder", "/api/mode"} \cup ChatRoutes
BadBody(r, route) == r.method = "POST" /\ route \in NeedsBody /\ r.body # "json"

\* The dashboard refuses a missing body, and checks the JSON of memory
\* writes, before it forwards; the rest is for genie-core to refuse.
ApiRefuses(r, route) ==
    /\ r.method = "POST" /\ route \in NeedsBody
    /\ r.body = "none" \/ (r.body = "junk" /\ route \notin {"/api/actuation/confirm", "/api/mode"})

Proxied(r, route) == /\ route \in CoreRoutes["GET"] \cup CoreRoutes["POST"]
                     /\ route # "/" /\ r.method # "OPTIONS"
GovernorRoutes == {"/api/status", "/api/mode"}

-----------------------------------------------------------------------------
(* Connections                                                             *)

Held(server) == {k \in DOMAIN conn : conn[k].server = server /\ conn[k].stage \in {"reading", "proxying", "handling", "writing"}}
SetConn(k, c) == conn' = [conn EXCEPT ![k] = c]
Answered(k, status) == SetConn(k, [conn[k] EXCEPT !.stage = "writing", !.status = status])
Closed(k) == SetConn(k, [conn[k] EXCEPT !.stage = "done"])

Open(c) ==
    /\ opens < menu.opens
    /\ conn[<<c, 0>>].stage \in {"idle", "done"}
    /\ \E r \in menu.ask : SetConn(<<c, 0>>, [NoConn EXCEPT !.stage = "backlog", !.server = r.server, !.req = r,
                                                  !.asked = r, !.n = opens + 1])
    /\ opens' = opens + 1
    /\ UNCHANGED <<menu, pausing, faults, effects>>

\* A slot first, then accept(): what is beyond the ceiling waits in the
\* backlog of the operating system.
Accept(k) ==
    /\ conn[k].stage = "backlog"
    /\ conn[k].server \notin pausing
    /\ Cardinality(Held(conn[k].server)) < Slots[conn[k].server]
    /\ SetConn(k, [conn[k] EXCEPT !.stage = "reading"])
    /\ UNCHANGED <<menu, pausing, opens, faults, effects>>

\* A failing accept() gives the slot back and waits 50 ms.
AcceptFails(server) ==
    /\ server \notin pausing /\ faults < MaxFaults
    /\ Cardinality(Held(server)) < Slots[server]
    /\ pausing' = pausing \cup {server}
    /\ faults' = faults + 1
    /\ UNCHANGED <<menu, conn, opens, effects>>

Resume(server) ==
    /\ server \in pausing
    /\ pausing' = pausing \ {server}
    /\ UNCHANGED <<menu, conn, opens, faults, effects>>

\* The deadline over the whole request, and a peer that closes: no answer.
ReadTimeout(k) ==
    /\ conn[k].stage = "reading" /\ conn[k].req.wire \in {"stall", "vanish"}
    /\ Closed(k)
    /\ UNCHANGED <<menu, pausing, opens, faults, effects>>

Hop(k) == <<k[1], conn[k].n>>

\* What proxy_core_json sends: the route's own path, the shared token, the
\* server's own address as Host, and no Origin or origin claim.
CoreRequest(r) ==
    [server |-> "core", method |-> r.method, path |-> r.path, query |-> r.query, body |-> r.body,
     token |-> IF TokenSet THEN "good" ELSE "none", host |-> "own", origin |-> "none",
     claim |-> "none", claimToken |-> "none", lan |-> FALSE, wire |-> "whole",
     reads |-> TRUE]

\* Everything between the request and its handler.
ReadRequest(k) ==
    LET c == conn[k]
        r == c.req
        route == ClassifyRoute(c.server, r)
        handling == [c EXCEPT !.stage = "handling", !.route = route]
    IN  /\ c.stage = "reading" /\ r.wire \in {"whole", "oversize"}
        /\ IF r.wire = "oversize" THEN Answered(k, 431)
           ELSE IF CheckRequest(r) # "allow" THEN Answered(k, 403)
           ELSE IF RouteRequiresLocalToken(c.server, r) /\ ~TokenOk(r) THEN Answered(k, 403)
           ELSE IF route = "not_found" THEN Answered(k, 404)
           ELSE IF c.server = "core" THEN SetConn(k, handling)
           ELSE IF ApiRefuses(r, route) THEN Answered(k, 400)
           ELSE IF Proxied(r, route)
           THEN conn' = [conn EXCEPT ![k] = [c EXCEPT !.stage = "proxying", !.route = route],
                                     ![Hop(k)] = [NoConn EXCEPT !.stage = "backlog", !.server = "core",
                                                              !.req = CoreRequest(r), !.asked = c.asked]]
           ELSE SetConn(k, handling)
        /\ UNCHANGED <<menu, pausing, opens, faults, effects>>

\* The handler runs: it refuses the body, or does what the route is for and
\* answers; the chat routes may find the turn gate taken (ChatServer), and
\* the governor may be down (Governor).
Finish(k) ==
    LET c == conn[k]
        did == [route |-> c.route, asked |-> c.asked,
                origin |-> IF c.server = "core" THEN Resolve(c.req) ELSE "api"]
    IN  /\ c.stage = "handling"
        /\ \/ ~BadBody(c.req, c.route) /\ Answered(k, 200) /\ effects' = effects \cup {did}
           \/ BadBody(c.req, c.route) /\ Answered(k, 400) /\ UNCHANGED effects
           \/ c.route \in ChatRoutes /\ Answered(k, 503) /\ UNCHANGED effects
           \/ c.route \in GovernorRoutes /\ Answered(k, 500) /\ UNCHANGED effects
        /\ UNCHANGED <<menu, pausing, opens, faults>>

\* The answer is out, or its peer is gone.  Writing has no deadline: a large
\* answer waits until the peer reads, and keeps its slot.
AnswerWritten(k) ==
    /\ conn[k].stage = "writing"
    /\ Closed(k)
    /\ UNCHANGED <<menu, pausing, opens, faults, effects>>

\* genie-core's status is passed on as it is.
HopAnswered(k) ==
    /\ conn[k].stage = "proxying" /\ conn[Hop(k)].stage = "done"
    /\ Answered(k, conn[Hop(k)].status)
    /\ UNCHANGED <<menu, pausing, opens, faults, effects>>

\* Variant: the connect has no deadline, only the read of the answer has.
TimesOutReading(k) ==
    /\ conn[k].stage = "proxying" /\ conn[Hop(k)].stage \in {"reading", "handling", "writing"}
    /\ Answered(k, 502)
    /\ UNCHANGED <<menu, pausing, opens, faults, effects>>

\* Connect, write and read each have a deadline.  The dashboard answers 502;
\* genie-core still has the request and may carry it out.
HopTimesOut(k) ==
    /\ conn[k].stage = "proxying" /\ conn[Hop(k)].stage # "done"
    /\ Answered(k, 502)
    /\ UNCHANGED <<menu, pausing, opens, faults, effects>>

HttpNext ==
    \/ \E c \in Clients : Open(c)
    \/ \E k \in DOMAIN conn :
          Accept(k) \/ ReadTimeout(k) \/ ReadRequest(k) \/ Finish(k) \/ AnswerWritten(k)
          \/ HopAnswered(k) \/ HopTimesOut(k)
    \/ \E s \in {"api", "core"} : AcceptFails(s) \/ Resume(s)

HttpSpec == HttpInit /\ [][HttpNext]_httpVars

\* The dashboard server's tasks are scheduled and its deadlines fire; no
\* fairness is assumed of genie-core, nor of a peer that does not read.  A
\* governor that listens and never accepts has no deadline on its connect.
OfApi(k) == conn[k].server = "api"
HttpFairness ==
    /\ \A k \in Clients \X (0..MaxOpens) :
          /\ WF_httpVars(OfApi(k) /\ (Accept(k) \/ ReadTimeout(k) \/ ReadRequest(k)))
          /\ WF_httpVars(OfApi(k) /\ (HopAnswered(k) \/ HopTimesOut(k)))
          /\ WF_httpVars(OfApi(k) /\ conn[k].route \notin GovernorRoutes /\ Finish(k))
          /\ WF_httpVars(OfApi(k) /\ conn[k].req.reads /\ AnswerWritten(k))
    /\ WF_httpVars(Resume("api"))

-----------------------------------------------------------------------------
(* Properties                                                              *)

Public == {"/", "/dashboard.js", "options", "/api/status", "/api/tegrastats", "/api/services", "/api/security",
           "/api/tools", "/api/runtime/contract", "/api/health", "/api/connectivity", "/v1/models"}
IsPublic(e) == e.route \in Public \/ (e.route = "/api/web-search" /\ e.asked.method = "GET")

\* genie-core's token check knows the export by its exact path, its routing by
\* a prefix.
ByPrefix(e) == e.route = Export /\ e.asked.path # Export

\* Whatever a server did was asked for by a peer that passed the gate: with
\* a token configured nothing but the public routes is served without it,
\* forwarded or not - save an export that was routed by a path longer than
\* its own, which the token check does not list; nothing at all for a
\* foreign Host or Origin; and the origin an action runs under is the one its
\* own peer proved (http.rs route_requires_local_token and RequestGuard,
\* server.rs classify_route, routes.rs proxy_core_json, origin_auth.rs).
EffectsAuthorised ==
    \A e \in effects :
        /\ e.asked.host # "foreign" /\ e.asked.origin # "foreign"
        /\ TokenSet => e.asked.token = "good" \/ IsPublic(e) \/ ByPrefix(e)
        /\ e.origin # "api" =>
               /\ e.asked.server = "core" /\ e.asked.claim = e.origin
               /\ IF e.origin \in OriginTokens THEN e.asked.claimToken = "good" ELSE ~e.asked.lan /\ ~RequireToken

\* A slot of the dashboard may be kept for ever by a peer that does not read
\* its answer, and by a request to a governor that does not accept.
MayStay(k) == \/ conn[k].stage = "writing" /\ ~conn[k].req.reads
              \/ conn[k].stage = "handling" /\ conn[k].route \in GovernorRoutes

\* Every connection to the dashboard is released, whatever its peer sends,
\* however slowly or too much of it, and even when genie-core has stopped
\* serving, unless some slot is held by one of the two things that have no
\* deadline (genie-api http.rs write_response, routes.rs query_governor): no
\* other path leaks a slot (CORE_PROXY_CONNECT_TIMEOUT and its kin).
DashboardReleased ==
    \A c \in Clients :
        (conn[<<c, 0>>].server = "api" /\ conn[<<c, 0>>].stage # "done")
            ~> (conn[<<c, 0>>].stage = "done" \/ \E k \in Held("api") : MayStay(k))
=============================================================================
