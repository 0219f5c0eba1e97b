--------------------------- MODULE PlatformProofs ---------------------------
(***************************************************************************)
(* Theorems about the platform around genie-core: the gates in front of    *)
(* the two servers, for any clients, requests and tokens; the health       *)
(* monitor and its page, for any services, outages and restarts; the       *)
(* copies an update makes, for any programs and any copies cut off; the    *)
(* governor's transitions, for any managed units and any failures.         *)
(***************************************************************************)
EXTENDS HttpServers, HealthMonitor, Updates, Governor, TLAPS

-----------------------------------------------------------------------------
(* The HTTP servers *)

Routes == CoreRoutes["GET"] \cup CoreRoutes["POST"] \cup ApiRoutes["GET"] \cup ApiRoutes["POST"]
          \cup {"none", "options", "not_found"}
Stages == {"idle", "backlog", "reading", "proxying", "handling", "writing", "done"}
Statuses == {0, 200, 400, 403, 404, 431, 500, 502, 503}
Conn == [stage : Stages, server : {"none", "api", "core"}, req : Request \cup {NoRequest},
         asked : Request \cup {NoRequest}, n : 0..MaxOpens, route : Routes, status : Statuses]

HttpTypeOK ==
  /\ menu \in Menus
  /\ conn \in [Clients \X (0..MaxOpens) -> Conn]
  /\ opens \in Nat

(* The gate of a server lets r through. *)
Passes(server, r) == /\ CheckRequest(r) = "allow"
                     /\ RouteRequiresLocalToken(server, r) => TokenOk(r)

(* A connection of a client carries what its peer sent. *)
FromPeer(c) == c.asked \in Request /\ c.req = c.asked /\ c.server = c.asked.server /\ c.n # 0

(* A hop carries what the dashboard made of a request that passed its gate. *)
Forwarded(c) == /\ c.asked \in Request /\ c.asked.server = "api" /\ Passes("api", c.asked)
                /\ c.req = CoreRequest(c.asked) /\ c.server = "core"

ConnSound(k) ==
  LET c == conn[k] IN
  /\ c.stage # "idle" => IF k[2] = 0 THEN FromPeer(c) ELSE Forwarded(c)
  /\ c.stage = "handling" => /\ Passes(c.server, c.req)
                             /\ c.route = ClassifyRoute(c.server, c.req) /\ c.route # "not_found"

ConnsSound == \A k \in Clients \X (0..MaxOpens) : ConnSound(k)

HttpInv == HttpTypeOK /\ ConnsSound /\ EffectsAuthorised

(* The forwarded request is one that a local peer with the token could send. *)
LEMMA CoreRequestFields ==
  ASSUME NEW r \in Request
  PROVE  LET f == CoreRequest(r)
         IN  /\ f \in Request
             /\ f.method = r.method /\ f.path = r.path /\ f.query = r.query /\ f.body = r.body
             /\ f.server = "core" /\ f.host = "own" /\ f.origin = "none" /\ f.claim = "none"
<1> DEFINE f == CoreRequest(r)
<1>1. f = [server |-> "core", method |-> r.method, path |-> r.path, query |-> r.query, body |-> r.body,
           token |-> IF TokenSet THEN "good" ELSE "none", host |-> "own", origin |-> "none",
           claim |-> "none", claimToken |-> "none", lan |-> FALSE, wire |-> "whole",
           reads |-> TRUE]
  BY DEF CoreRequest
<1>2. /\ r.method \in {"GET", "POST", "OPTIONS"} /\ r.path \in STRING /\ r.query \in BOOLEAN
      /\ r.body \in {"none", "junk", "json"}
  BY DEF Request
<1>3. f \in Request
  BY <1>1, <1>2 DEF Request, Claims
<1> QED
  BY <1>1, <1>3

(* A route that needs no token is a public one, or the export by a longer path. *)
LEMMA OpenRoutesArePublic ==
  ASSUME NEW server \in {"api", "core"}, NEW r \in Request,
         ClassifyRoute(server, r) # "not_found", ~PolicyHit(server, <<r.method, r.path>>)
  PROVE  \/ ClassifyRoute(server, r) \in Public
         \/ ClassifyRoute(server, r) = "/api/web-search" /\ r.method = "GET"
         \/ ClassifyRoute(server, r) = Export /\ r.path # Export
<1>1. CASE r.method = "OPTIONS"
  BY <1>1 DEF ClassifyRoute, Public
<1>2. CASE r.method = "GET"
  <2>1. CASE server = "core"
    BY <1>2, <2>1 DEF ClassifyRoute, CoreRoutes, PolicyHit, TokenRoutes, Public, Export, LongerExport
  <2>2. CASE server = "api"
    BY <1>2, <2>2 DEF ClassifyRoute, ApiRoutes, PolicyHit, TokenRoutes, Public
  <2> QED
    BY <2>1, <2>2
<1>3. CASE r.method = "POST"
  <2>1. CASE server = "core"
    BY <1>3, <2>1 DEF ClassifyRoute, CoreRoutes, PolicyHit, TokenRoutes, Public, Export, LongerExport
  <2>2. CASE server = "api"
    BY <1>3, <2>2 DEF ClassifyRoute, ApiRoutes, PolicyHit, TokenRoutes, Public
  <2> QED
    BY <2>1, <2>2
<1> QED
  BY <1>1, <1>2, <1>3 DEF Request

LEMMA RouteType ==
  ASSUME NEW server \in {"api", "core"}, NEW r \in Request
  PROVE  ClassifyRoute(server, r) \in Routes
<1>1. r.method \in {"GET", "POST", "OPTIONS"}
  BY DEF Request
<1> QED
  BY <1>1 DEF ClassifyRoute, Routes, CoreRoutes, ApiRoutes, Export

(* What a handler does, it does for a peer that passed the gate. *)
LEMMA HandlerAuthorised ==
  ASSUME HttpInv, NEW k \in Clients \X (0..MaxOpens), conn[k].stage = "handling"
  PROVE  LET c == conn[k]
             e == [route |-> c.route, asked |-> c.asked,
                   origin |-> IF c.server = "core" THEN Resolve(c.req) ELSE "api"]
         IN  /\ e.asked.host # "foreign" /\ e.asked.origin # "foreign"
             /\ TokenSet => e.asked.token = "good" \/ IsPublic(e) \/ ByPrefix(e)
             /\ e.origin # "api" =>
                  /\ e.asked.server = "core" /\ e.asked.claim = e.origin
                  /\ IF e.origin \in OriginTokens THEN e.asked.claimToken = "good"
                     ELSE ~e.asked.lan /\ ~RequireToken
<1> DEFINE c == conn[k]
           e == [route |-> c.route, asked |-> c.asked,
                 origin |-> IF c.server = "core" THEN Resolve(c.req) ELSE "api"]
<1>1. /\ IF k[2] = 0 THEN FromPeer(c) ELSE Forwarded(c)
      /\ Passes(c.server, c.req) /\ c.route = ClassifyRoute(c.server, c.req) /\ c.route # "not_found"
  BY DEF HttpInv, ConnsSound, ConnSound
<1>2. CASE FromPeer(c)
  <2>1. c.asked \in Request /\ c.req = c.asked /\ c.server = c.asked.server /\ c.server \in {"api", "core"}
    BY <1>2 DEF FromPeer, Request
  <2>2. c.asked.host # "foreign" /\ c.asked.origin # "foreign"
    BY <1>1, <2>1 DEF Passes, CheckRequest
  <2>3. TokenSet => c.asked.token = "good" \/ IsPublic(e) \/ ByPrefix(e)
    <3>1. CASE PolicyHit(c.server, <<c.asked.method, c.asked.path>>)
      BY <1>1, <2>1, <3>1 DEF Passes, RouteRequiresLocalToken, TokenOk
    <3>2. CASE ~PolicyHit(c.server, <<c.asked.method, c.asked.path>>)
      <4>1. \/ c.route \in Public \/ (c.route = "/api/web-search" /\ c.asked.method = "GET")
            \/ c.route = Export /\ c.asked.path # Export
        BY <1>1, <2>1, <3>2, OpenRoutesArePublic
      <4> QED
        BY <4>1 DEF IsPublic, ByPrefix
    <3> QED
      BY <3>1, <3>2
  <2>4. e.origin # "api" =>
          /\ e.asked.server = "core" /\ e.asked.claim = e.origin
          /\ IF e.origin \in OriginTokens THEN e.asked.claimToken = "good" ELSE ~e.asked.lan /\ ~RequireToken
    BY <2>1 DEF Resolve
  <2> QED
    BY <2>2, <2>3, <2>4
<1>3. CASE Forwarded(c)
  <2>1. /\ c.asked \in Request /\ Passes("api", c.asked) /\ c.req = CoreRequest(c.asked) /\ c.server = "core"
    BY <1>3 DEF Forwarded
  <2>2. /\ c.req \in Request /\ c.req.method = c.asked.method /\ c.req.path = c.asked.path
        /\ c.req.claim = "none"
    BY <2>1, CoreRequestFields
  <2>3. c.asked.host # "foreign" /\ c.asked.origin # "foreign"
    BY <2>1 DEF Passes, CheckRequest
  <2>4. TokenSet => c.asked.token = "good" \/ IsPublic(e) \/ ByPrefix(e)
    <3>1. CASE PolicyHit("core", <<c.asked.method, c.asked.path>>)
      BY <2>1, <3>1 DEF Passes, RouteRequiresLocalToken, TokenOk, PolicyHit
    <3>2. CASE ~PolicyHit("core", <<c.asked.method, c.asked.path>>)
      <4>1. \/ c.route \in Public \/ (c.route = "/api/web-search" /\ c.asked.method = "GET")
            \/ c.route = Export /\ c.asked.path # Export
        BY <1>1, <2>1, <2>2, <3>2, OpenRoutesArePublic
      <4> QED
        BY <4>1 DEF IsPublic, ByPrefix
    <3> QED
      BY <3>1, <3>2
  <2>5. e.origin = "api"
    BY <2>1, <2>2 DEF Resolve
  <2> QED
    BY <2>3, <2>4, <2>5
<1> QED
  BY <1>1, <1>2, <1>3

(* A connection that only moves on keeps what it carries. *)
LEMMA MoveOn ==
  ASSUME HttpInv, NEW k \in Clients \X (0..MaxOpens), NEW st \in Stages \ {"idle", "handling"}, NEW s \in Statuses,
         conn[k].stage # "idle", UNCHANGED <<menu, opens>>,
         \/ conn' = [conn EXCEPT ![k] = [conn[k] EXCEPT !.stage = st, !.status = s]]
         \/ conn' = [conn EXCEPT ![k] = [conn[k] EXCEPT !.stage = st]]
  PROVE  HttpTypeOK' /\ ConnsSound'
<1>1. conn[k] \in Conn
  BY DEF HttpInv, HttpTypeOK
<1>2. PICK d \in Conn : /\ conn' = [conn EXCEPT ![k] = d] /\ d.stage = st /\ d.server = conn[k].server
                        /\ d.req = conn[k].req /\ d.asked = conn[k].asked /\ d.n = conn[k].n
  <2>1. /\ [conn[k] EXCEPT !.stage = st, !.status = s] \in Conn
        /\ [conn[k] EXCEPT !.stage = st] \in Conn
    BY <1>1 DEF Conn
  <2> QED
    BY <1>1, <2>1 DEF Conn
<1>3. HttpTypeOK'
  BY <1>2 DEF HttpInv, HttpTypeOK
<1>4. \A l \in Clients \X (0..MaxOpens) : l # k => conn'[l] = conn[l]
  BY <1>2 DEF HttpInv, HttpTypeOK
<1>5. conn'[k] = d
  BY <1>2 DEF HttpInv, HttpTypeOK
<1>6. ConnSound(k)'
  BY <1>2, <1>5 DEF ConnSound, FromPeer, Forwarded, HttpInv, ConnsSound
<1>7. \A l \in Clients \X (0..MaxOpens) : l # k => ConnSound(l)'
  BY <1>4 DEF ConnSound, HttpInv, ConnsSound
<1> QED
  BY <1>3, <1>6, <1>7 DEF ConnsSound

LEMMA AnswerKeepsConns ==
  ASSUME HttpInv, NEW k \in Clients \X (0..MaxOpens), NEW s \in Statuses, Answered(k, s),
         conn[k].stage # "idle", UNCHANGED <<menu, opens>>
  PROVE  HttpTypeOK' /\ ConnsSound'
<1>1. conn' = [conn EXCEPT ![k] = [conn[k] EXCEPT !.stage = "writing", !.status = s]]
  BY DEF Answered, SetConn
<1>2. "writing" \in Stages \ {"idle", "handling"}
  BY DEF Stages
<1> QED
  BY <1>1, <1>2, MoveOn

LEMMA CloseKeepsConns ==
  ASSUME HttpInv, NEW k \in Clients \X (0..MaxOpens), Closed(k), conn[k].stage # "idle",
         UNCHANGED <<menu, opens>>
  PROVE  HttpTypeOK' /\ ConnsSound'
<1>1. conn' = [conn EXCEPT ![k] = [conn[k] EXCEPT !.stage = "done"]]
  BY DEF Closed, SetConn
<1>2. "done" \in Stages \ {"idle", "handling"} /\ conn[k].status \in Statuses
  BY DEF Stages, HttpInv, HttpTypeOK, Conn
<1> QED
  BY <1>1, <1>2, MoveOn

LEMMA OpenKeepsConns ==
  ASSUME HttpInv, NEW c \in Clients, Open(c)
  PROVE  HttpTypeOK' /\ ConnsSound'
<1> USE HttpServersAssumption
<1>1. PICK r \in menu.ask : conn' = [conn EXCEPT ![<<c, 0>>] =
         [NoConn EXCEPT !.stage = "backlog", !.server = r.server, !.req = r, !.asked = r, !.n = opens + 1]]
  BY DEF Open, SetConn
<1>2. opens \in Nat /\ opens + 1 \in 0..MaxOpens /\ opens' = opens + 1 /\ menu' = menu /\ menu \in Menus
  BY DEF Open, HttpInv, HttpTypeOK
<1>3. r \in Request
  BY <1>1, <1>2, MenusAssumption
<1>4. PICK d : d = [NoConn EXCEPT !.stage = "backlog", !.server = r.server, !.req = r, !.asked = r, !.n = opens + 1]
  OBVIOUS
<1>5. d \in Conn /\ d.stage = "backlog" /\ FromPeer(d)
  <2>1. d = [stage |-> "backlog", server |-> r.server, req |-> r, asked |-> r, n |-> opens + 1,
             route |-> "none", status |-> 0]
    BY <1>4 DEF NoConn
  <2>2. r.server \in {"api", "core"}
    BY <1>3 DEF Request
  <2>3. "none" \in Routes
    BY DEF Routes
  <2> QED
    BY <1>2, <1>3, <2>1, <2>2, <2>3 DEF Conn, Stages, Statuses, FromPeer
<1>6. <<c, 0>> \in Clients \X (0..MaxOpens)
  OBVIOUS
<1>7. conn'[<<c, 0>>] = d /\ \A l \in Clients \X (0..MaxOpens) : l # <<c, 0>> => conn'[l] = conn[l]
  BY <1>1, <1>4, <1>6 DEF HttpInv, HttpTypeOK
<1>8. HttpTypeOK'
  BY <1>1, <1>2, <1>4, <1>5, <1>6 DEF HttpInv, HttpTypeOK
<1>9. ConnSound(<<c, 0>>)'
  BY <1>5, <1>7 DEF ConnSound
<1>10. \A l \in Clients \X (0..MaxOpens) : l # <<c, 0>> => ConnSound(l)'
  BY <1>7 DEF ConnSound, HttpInv, ConnsSound
<1> QED
  BY <1>8, <1>9, <1>10 DEF ConnsSound

(* The request becomes a handler's or a hop only past the gate. *)
LEMMA ReadKeepsConns ==
  ASSUME HttpInv, NEW k \in Clients \X (0..MaxOpens), ReadRequest(k)
  PROVE  HttpTypeOK' /\ ConnsSound'
<1> DEFINE c == conn[k]
           r == c.req
           route == ClassifyRoute(c.server, r)
<1>1. /\ c.stage = "reading" /\ UNCHANGED <<menu, opens>> /\ c \in Conn
      /\ IF k[2] = 0 THEN FromPeer(c) ELSE Forwarded(c)
  BY DEF ReadRequest, HttpInv, HttpTypeOK, ConnsSound, ConnSound
<1>2. r \in Request /\ c.server \in {"api", "core"}
  <2>1. CASE FromPeer(c)
    BY <2>1 DEF FromPeer, Request
  <2>2. CASE Forwarded(c)
    BY <2>2, CoreRequestFields DEF Forwarded
  <2> QED
    BY <1>1, <2>1, <2>2
<1>3. CASE \E s \in Statuses : Answered(k, s)
  BY <1>1, <1>3, AnswerKeepsConns
<1>4. CASE ~(\E s \in Statuses : Answered(k, s))
  <2>1. Passes(c.server, r) /\ route # "not_found"
    BY <1>4 DEF ReadRequest, Passes, Statuses
  <2>2. PICK h : h = [c EXCEPT !.stage = "handling", !.route = route]
    OBVIOUS
  <2>3. /\ h \in Conn /\ h.stage = "handling" /\ h.route = route /\ h.server = c.server /\ h.req = r
        /\ h.asked = c.asked /\ h.n = c.n
    BY <1>1, <1>2, <2>2, RouteType DEF Conn, Stages
  <2>4. CASE SetConn(k, h)
    <3>1. conn'[k] = h /\ \A l \in Clients \X (0..MaxOpens) : l # k => conn'[l] = conn[l]
      BY <2>4 DEF SetConn, HttpInv, HttpTypeOK
    <3>2. HttpTypeOK'
      BY <1>1, <2>3, <2>4 DEF SetConn, HttpInv, HttpTypeOK
    <3>3. ConnSound(k)'
      BY <1>1, <2>1, <2>3, <3>1 DEF ConnSound, FromPeer, Forwarded
    <3>4. \A l \in Clients \X (0..MaxOpens) : l # k => ConnSound(l)'
      BY <3>1 DEF ConnSound, HttpInv, ConnsSound
    <3> QED
      BY <3>2, <3>3, <3>4 DEF ConnsSound
  <2>5. CASE ~SetConn(k, h)
    <3> DEFINE p == [c EXCEPT !.stage = "proxying", !.route = route]
               d == [NoConn EXCEPT !.stage = "backlog", !.server = "core", !.req = CoreRequest(r),
                                   !.asked = c.asked]
    <3>1. c.server # "core" /\ conn' = [conn EXCEPT ![k] = p, ![Hop(k)] = d]
      BY <1>4, <2>2, <2>5 DEF ReadRequest, Statuses
    <3>2. k[2] = 0 /\ FromPeer(c)
      BY <1>1, <3>1 DEF Forwarded
    <3>3. /\ c.server = "api" /\ c.asked = r /\ c.n \in 1..MaxOpens
      BY <1>1, <1>2, <3>1, <3>2, HttpServersAssumption DEF FromPeer, Conn
    <3>4. PICK l \in Clients \X (0..MaxOpens) : l = Hop(k) /\ l # k /\ l[2] # 0
      <4>1. k[1] \in Clients /\ c.n \in 0..MaxOpens /\ c.n # 0
        BY <3>3, HttpServersAssumption
      <4>2. Hop(k) = <<k[1], c.n>>
        BY DEF Hop
      <4>3. Hop(k) \in Clients \X (0..MaxOpens) /\ Hop(k)[2] = c.n
        BY <4>1, <4>2
      <4> QED
        BY <3>2, <4>1, <4>3
    <3>5. PICK q : q = p
      OBVIOUS
    <3>6. q \in Conn /\ q.stage = "proxying" /\ FromPeer(q)
      BY <1>1, <1>2, <3>2, <3>5, RouteType DEF Conn, Stages, FromPeer
    <3>7. PICK g : g = d
      OBVIOUS
    <3>8. g \in Conn /\ g.stage = "backlog" /\ Forwarded(g)
      <4>1. g = [stage |-> "backlog", server |-> "core", req |-> CoreRequest(r), asked |-> r, n |-> 0,
                 route |-> "none", status |-> 0]
        BY <3>3, <3>7 DEF NoConn
      <4>2. CoreRequest(r) \in Request
        BY <1>2, CoreRequestFields
      <4>3. r.server = "api"
        BY <3>2, <3>3 DEF FromPeer
      <4>4. "none" \in Routes /\ 0 \in 0..MaxOpens
        BY <3>3, HttpServersAssumption DEF Routes
      <4>5. g \in Conn
        BY <1>2, <4>1, <4>2, <4>4 DEF Conn, Stages, Statuses
      <4> QED
        BY <1>2, <2>1, <3>3, <4>1, <4>3, <4>5 DEF Forwarded
    <3>9. conn' = [conn EXCEPT ![k] = q, ![l] = g]
      BY <3>1, <3>4, <3>5, <3>7
    <3>10. /\ conn'[k] = q /\ conn'[l] = g
           /\ \A m \in Clients \X (0..MaxOpens) : m # k /\ m # l => conn'[m] = conn[m]
      BY <3>4, <3>9 DEF HttpInv, HttpTypeOK
    <3>11. HttpTypeOK'
      BY <1>1, <3>6, <3>8, <3>9 DEF HttpInv, HttpTypeOK
    <3>12. ConnSound(k)' /\ ConnSound(l)'
      BY <3>2, <3>4, <3>6, <3>8, <3>10 DEF ConnSound
    <3>13. \A m \in Clients \X (0..MaxOpens) : m # k /\ m # l => ConnSound(m)'
      BY <3>10 DEF ConnSound, HttpInv, ConnsSound
    <3> QED
      BY <3>11, <3>12, <3>13 DEF ConnsSound
  <2> QED
    BY <2>4, <2>5
<1> QED
  BY <1>3, <1>4

LEMMA FinishKeepsHttpInv ==
  ASSUME HttpInv, NEW k \in Clients \X (0..MaxOpens), Finish(k)
  PROVE  HttpInv'
<1> DEFINE c == conn[k]
           did == [route |-> c.route, asked |-> c.asked,
                   origin |-> IF c.server = "core" THEN Resolve(c.req) ELSE "api"]
<1>1. PICK s \in Statuses : Answered(k, s)
  BY DEF Finish, Statuses
<1>2. HttpTypeOK' /\ ConnsSound'
  BY <1>1, AnswerKeepsConns DEF Finish
<1>3. effects' = effects \/ effects' = effects \cup {did}
  BY DEF Finish
<1>4. PICK e : e = did
  OBVIOUS
<1>5. /\ e.asked.host # "foreign" /\ e.asked.origin # "foreign"
      /\ TokenSet => e.asked.token = "good" \/ IsPublic(e) \/ ByPrefix(e)
      /\ e.origin # "api" =>
           /\ e.asked.server = "core" /\ e.asked.claim = e.origin
           /\ IF e.origin \in OriginTokens THEN e.asked.claimToken = "good"
              ELSE ~e.asked.lan /\ ~RequireToken
  BY <1>4, HandlerAuthorised DEF Finish
<1>6. EffectsAuthorised'
  BY <1>3, <1>4, <1>5 DEF EffectsAuthorised, HttpInv, IsPublic, ByPrefix
<1> QED
  BY <1>2, <1>6 DEF HttpInv

(***************************************************************************)
(* Nothing is done for a peer that did not pass the gate, on either server *)
(* and across the hop between them, whatever the requests and whatever     *)
(* times out; only an export routed by a longer path passes unasked        *)
(* (RequestGuard, proxy_core_json, classify_route, OriginResolver).        *)
(***************************************************************************)
THEOREM EffectsAlwaysAuthorised == HttpSpec => []EffectsAuthorised
<1>1. HttpInit => HttpInv
  <2> SUFFICES ASSUME HttpInit
               PROVE  HttpInv
    OBVIOUS
  <2>1. NoConn \in Conn /\ NoConn.stage = "idle"
    BY HttpServersAssumption DEF NoConn, Conn, Stages, Statuses, Routes
  <2>2. HttpTypeOK
    BY <2>1 DEF HttpInit, HttpTypeOK
  <2>3. ConnsSound
    BY <2>1 DEF HttpInit, ConnsSound, ConnSound
  <2> QED
    BY <2>2, <2>3 DEF HttpInit, HttpInv, EffectsAuthorised
<1>2. HttpInv /\ [HttpNext]_httpVars => HttpInv'
  <2> SUFFICES ASSUME HttpInv, [HttpNext]_httpVars
               PROVE  HttpInv'
    OBVIOUS
  <2>1. ASSUME NEW c \in Clients, Open(c)
        PROVE  HttpInv'
    BY <2>1, OpenKeepsConns DEF Open, HttpInv, EffectsAuthorised
  <2>2. DOMAIN conn = Clients \X (0..MaxOpens)
    BY DEF HttpInv, HttpTypeOK
  <2>3. ASSUME NEW k \in DOMAIN conn, Accept(k)
        PROVE  HttpInv'
    <3>1. HttpTypeOK' /\ ConnsSound'
      <4>1. "reading" \in Stages \ {"idle", "handling"} /\ 0 \in Statuses
        BY DEF Stages, Statuses
      <4>2. conn' = [conn EXCEPT ![k] = [conn[k] EXCEPT !.stage = "reading"]]
        BY <2>3 DEF Accept, SetConn
      <4>3. conn[k].stage # "idle" /\ UNCHANGED <<menu, opens>>
        BY <2>3 DEF Accept
      <4> QED
        BY <2>2, <4>1, <4>2, <4>3, MoveOn
    <3> QED
      BY <2>3, <3>1 DEF Accept, HttpInv, EffectsAuthorised
  <2>4. ASSUME NEW k \in DOMAIN conn, ReadTimeout(k)
        PROVE  HttpInv'
    <3>1. HttpTypeOK' /\ ConnsSound'
      <4>1. Closed(k) /\ conn[k].stage # "idle" /\ UNCHANGED <<menu, opens>>
        BY <2>4 DEF ReadTimeout
      <4> QED
        BY <2>2, <4>1, CloseKeepsConns
    <3> QED
      BY <2>4, <3>1 DEF ReadTimeout, HttpInv, EffectsAuthorised
  <2>5. ASSUME NEW k \in DOMAIN conn, ReadRequest(k)
        PROVE  HttpInv'
    <3>1. HttpTypeOK' /\ ConnsSound'
      BY <2>2, <2>5, ReadKeepsConns
    <3>2. effects' = effects
      BY <2>5 DEF ReadRequest
    <3> QED
      BY <3>1, <3>2 DEF HttpInv, EffectsAuthorised
  <2>6. ASSUME NEW k \in DOMAIN conn, Finish(k)
        PROVE  HttpInv'
    BY <2>2, <2>6, FinishKeepsHttpInv
  <2>7. ASSUME NEW k \in DOMAIN conn, HopAnswered(k)
        PROVE  HttpInv'
    <3>1. Hop(k) \in DOMAIN conn /\ conn[k].stage = "proxying"
      <4>1. conn[k] \in Conn /\ conn[k].n \in 0..MaxOpens /\ k[1] \in Clients
        BY <2>2 DEF HttpInv, HttpTypeOK, Conn
      <4> QED
        BY <2>2, <2>7, <4>1 DEF Hop, HopAnswered
    <3>2. conn[Hop(k)].status \in Statuses
      BY <2>2, <3>1 DEF HttpInv, HttpTypeOK, Conn
    <3>3. HttpTypeOK' /\ ConnsSound'
      <4>1. Answered(k, conn[Hop(k)].status) /\ conn[k].stage # "idle" /\ UNCHANGED <<menu, opens>>
        BY <2>7 DEF HopAnswered
      <4> QED
        BY <2>2, <3>2, <4>1, AnswerKeepsConns
    <3> QED
      BY <2>7, <3>3 DEF HopAnswered, HttpInv, EffectsAuthorised
  <2>8. ASSUME NEW k \in DOMAIN conn, HopTimesOut(k)
        PROVE  HttpInv'
    <3>1. HttpTypeOK' /\ ConnsSound'
      <4>1. Answered(k, 502) /\ 502 \in Statuses /\ conn[k].stage # "idle" /\ UNCHANGED <<menu, opens>>
        BY <2>8 DEF HopTimesOut, Statuses
      <4> QED
        BY <2>2, <4>1, AnswerKeepsConns
    <3> QED
      BY <2>8, <3>1 DEF HopTimesOut, HttpInv, EffectsAuthorised
  <2>9. ASSUME NEW k \in DOMAIN conn, AnswerWritten(k)
        PROVE  HttpInv'
    <3>1. HttpTypeOK' /\ ConnsSound'
      <4>1. Closed(k) /\ conn[k].stage # "idle" /\ UNCHANGED <<menu, opens>>
        BY <2>9 DEF AnswerWritten
      <4> QED
        BY <2>2, <4>1, CloseKeepsConns
    <3> QED
      BY <2>9, <3>1 DEF AnswerWritten, HttpInv, EffectsAuthorised
  <2>10. ASSUME NEW s \in {"api", "core"}, AcceptFails(s) \/ Resume(s)
        PROVE  HttpInv'
    BY <2>10 DEF AcceptFails, Resume, HttpInv, HttpTypeOK, ConnsSound, ConnSound, EffectsAuthorised
  <2>11. CASE UNCHANGED httpVars
    BY <2>11 DEF httpVars, HttpInv, HttpTypeOK, ConnsSound, ConnSound, EffectsAuthorised
  <2> QED
    BY <2>1, <2>3, <2>4, <2>5, <2>6, <2>7, <2>8, <2>9, <2>10, <2>11 DEF HttpNext
<1>3. HttpInv => EffectsAuthorised
  BY DEF HttpInv
<1> QED
  BY <1>1, <1>2, <1>3, PTL DEF HttpSpec

-----------------------------------------------------------------------------
(* The copies of an update *)

Programs == Range(Binaries)
Elems(s) == {s[i] : i \in DOMAIN s}

(* The programs the running operation has passed. *)
Passed == Programs \ Elems(copying.left)

UpdateTypeOK ==
  /\ bin \in [Programs -> Nat] /\ backup \in [Programs -> Nat]
  /\ copying \in [op : {"idle", "backup", "rollback", "restored"}, left : Seq(Programs)]
  /\ saved # <<>> => saved \in [Programs -> Nat]

(* While a backup runs nothing counts as saved; what it has passed is kept. *)
BackupSound ==
  copying.op = "backup" =>
    saved = <<>> /\ \A b \in Passed : bin[b] # Absent => backup[b] = bin[b]

(* What counts as saved is in the backup. *)
SavedIsKept == saved # <<>> => \A b \in Programs : saved[b] # Absent => backup[b] = saved[b]

(* What a rollback has passed is back. *)
RollbackSound ==
  /\ copying.op \in {"rollback", "restored"} => saved # <<>>
  /\ copying.op = "rollback" => \A b \in Passed : saved[b] # Absent => bin[b] = saved[b]

UpdateInv == UpdateTypeOK /\ BackupSound /\ SavedIsKept /\ RollbackSound /\ RollbackIsWhole

LEMMA HeadOrTail ==
  ASSUME NEW S, NEW s \in Seq(S), s # <<>>
  PROVE  /\ Head(s) \in S /\ Tail(s) \in Seq(S)
         /\ \A x \in S \ Elems(Tail(s)) : x = Head(s) \/ x \in S \ Elems(s)
<1>1. Head(s) \in S /\ Tail(s) \in Seq(S) /\ Len(s) \in Nat /\ Len(s) >= 1 /\ Len(Tail(s)) = Len(s) - 1
  OBVIOUS
<1>2. Head(s) = s[1] /\ \A i \in 1..(Len(s) - 1) : Tail(s)[i] = s[i + 1]
  OBVIOUS
<1>3. ASSUME NEW x \in S, x \notin Elems(Tail(s)), x \in Elems(s) PROVE x = Head(s)
  <2>1. PICK i \in 1..Len(s) : x = s[i]
    BY <1>3 DEF Elems
  <2>2. CASE i = 1
    BY <1>2, <2>1, <2>2
  <2>3. CASE i # 1
    <3>1. i - 1 \in 1..(Len(s) - 1) /\ (i - 1) + 1 = i
      BY <1>1, <2>3
    <3>2. Tail(s)[i - 1] = x /\ i - 1 \in DOMAIN Tail(s)
      BY <1>1, <1>2, <2>1, <3>1
    <3> QED
      BY <1>3, <3>2 DEF Elems
  <2> QED
    BY <2>2, <2>3
<1> QED
  BY <1>1, <1>3

LEMMA CopyOneKeepsUpdateInv ==
  ASSUME UpdateInv, CopyOne
  PROVE  UpdateInv'
<1> USE DEF UpdateInv
<1>1. /\ copying.op \in {"backup", "rollback"} /\ copying.left # <<>> /\ copying.left \in Seq(Programs)
      /\ saved' = saved
  BY DEF CopyOne, UpdateTypeOK
<1>2. PICK b \in Programs, rest \in Seq(Programs) :
        /\ b = Head(copying.left) /\ rest = Tail(copying.left)
        /\ \A x \in Programs \ Elems(rest) : x = b \/ x \in Passed
  <2>1. PICK left \in Seq(Programs) : left = copying.left /\ left # <<>>
    BY <1>1
  <2>2. /\ Head(left) \in Programs /\ Tail(left) \in Seq(Programs)
        /\ \A x \in Programs \ Elems(Tail(left)) : x = Head(left) \/ x \in Programs \ Elems(left)
    BY <2>1, HeadOrTail
  <2> QED
    BY <2>1, <2>2 DEF Passed
<1>3. PICK src \in Nat : src = IF copying.op = "backup" THEN bin[b] ELSE backup[b]
  BY DEF UpdateTypeOK
<1>4. PICK failed \in BOOLEAN :
        /\ copying' = CopyAll(rest, failed)
        /\ src = Absent => ~failed /\ bin' = bin /\ backup' = backup
        /\ src # Absent /\ copying.op = "backup"
             => bin' = bin /\ backup' = [backup EXCEPT ![b] = IF failed THEN Torn ELSE src]
        /\ src # Absent /\ copying.op = "rollback"
             => backup' = backup /\ bin' = [bin EXCEPT ![b] = IF failed THEN Torn ELSE src]
  <2> DEFINE From == IF copying.op = "backup" THEN bin[Head(copying.left)] ELSE backup[Head(copying.left)]
  <2>1. From = src
    BY <1>2, <1>3
  <2>2. PICK failed \in IF From # Absent /\ mishaps < MaxCopyFaults THEN BOOLEAN ELSE {FALSE} :
          /\ copying' = CopyAll(Tail(copying.left), failed)
          /\ IF From = Absent THEN UNCHANGED <<bin, backup>>
             ELSE IF copying.op = "backup"
               THEN backup' = [backup EXCEPT ![Head(copying.left)] = IF failed THEN Torn ELSE From] /\ UNCHANGED bin
               ELSE bin' = [bin EXCEPT ![Head(copying.left)] = IF failed THEN Torn ELSE From] /\ UNCHANGED backup
    BY DEF CopyOne
  <2>3. failed \in BOOLEAN /\ (src = Absent => ~failed)
    BY <2>1, <2>2
  <2> HIDE DEF From
  <2>4. src = Absent => bin' = bin /\ backup' = backup
    BY <2>1, <2>2
  <2>5. src # Absent /\ copying.op = "backup"
          => bin' = bin /\ backup' = [backup EXCEPT ![b] = IF failed THEN Torn ELSE src]
    BY <1>2, <2>1, <2>2
  <2>6. src # Absent /\ copying.op = "rollback"
          => backup' = backup /\ bin' = [bin EXCEPT ![b] = IF failed THEN Torn ELSE src]
    BY <1>2, <2>1, <2>2
  <2>7. copying' = CopyAll(rest, failed)
    BY <1>2, <2>2
  <2> QED
    BY <2>3, <2>4, <2>5, <2>6, <2>7
<1>5. Torn \in Nat /\ <<>> \in Seq(Programs)
  BY DEF Torn
<1>6. CASE failed
  <2>1. copying' = Idle /\ src # Absent
    BY <1>4, <1>6 DEF CopyAll
  <2>2. bin' \in [Programs -> Nat] /\ backup' \in [Programs -> Nat]
    <3>1. (IF failed THEN Torn ELSE src) = Torn
      BY <1>6
    <3>2. \/ bin' = bin /\ backup' = [backup EXCEPT ![b] = Torn]
          \/ backup' = backup /\ bin' = [bin EXCEPT ![b] = Torn]
      BY <1>1, <1>4, <2>1, <3>1
    <3> QED
      BY <1>2, <1>5, <3>2 DEF UpdateTypeOK
  <2>3. UpdateTypeOK'
    BY <1>1, <1>5, <2>1, <2>2 DEF UpdateTypeOK, Idle
  <2>4. SavedIsKept'
    BY <1>1, <1>4, <2>1 DEF SavedIsKept, BackupSound
  <2> QED
    BY <2>1, <2>3, <2>4 DEF Idle, BackupSound, RollbackSound, RollbackIsWhole
<1>7. CASE ~failed
  <2>1. copying' = [op |-> copying.op, left |-> rest]
    BY <1>4, <1>7 DEF CopyAll
  <2>2. bin' \in [Programs -> Nat] /\ backup' \in [Programs -> Nat]
    BY <1>1, <1>2, <1>3, <1>4, <1>7 DEF UpdateTypeOK
  <2>3. UpdateTypeOK'
    BY <1>1, <1>2, <2>1, <2>2 DEF UpdateTypeOK
  <2>4. Passed' = Programs \ Elems(rest)
    BY <2>1 DEF Passed
  <2>5. CASE copying.op = "backup"
    <3>1. \A x \in Passed' : bin'[x] # Absent => backup'[x] = bin'[x]
      BY <1>2, <1>3, <1>4, <1>7, <2>4, <2>5 DEF BackupSound, UpdateTypeOK
    <3> QED
      BY <1>1, <2>1, <2>3, <2>5, <3>1 DEF BackupSound, SavedIsKept, RollbackSound, RollbackIsWhole
  <2>6. CASE copying.op = "rollback"
    <3>1. saved # <<>> /\ backup' = backup
      BY <1>4, <2>6 DEF RollbackSound
    <3>2. \A x \in Passed' : saved[x] # Absent => bin'[x] = saved[x]
      BY <1>2, <1>3, <1>4, <1>7, <2>4, <2>6, <3>1 DEF RollbackSound, SavedIsKept, UpdateTypeOK
    <3> QED
      BY <1>1, <2>1, <2>3, <2>6, <3>1, <3>2 DEF BackupSound, SavedIsKept, RollbackSound, RollbackIsWhole
  <2> QED
    BY <1>1, <2>5, <2>6
<1> QED
  BY <1>6, <1>7

LEMMA OtherCopiesKeepUpdateInv ==
  ASSUME UpdateInv, \/ BeginBackup \/ BeginRollback \/ CopyEnds \/ Replace \/ Forget
                    \/ CheckNext \/ UNCHANGED updateVars
  PROVE  UpdateInv'
<1> USE DEF UpdateInv
<1>1. Binaries \in Seq(Programs) /\ <<>> \in Seq(Programs) /\ Elems(Binaries) = Programs
  BY UpdateAssumption DEF Programs, Range, Elems
<1>2. CASE BeginBackup
  <2>1. /\ copying' = [op |-> "backup", left |-> Binaries] /\ saved' = <<>>
        /\ bin' = bin /\ backup' = backup
    BY <1>2 DEF BeginBackup
  <2>2. Passed' = {}
    BY <1>1, <2>1 DEF Passed
  <2> QED
    BY <1>1, <2>1, <2>2 DEF UpdateTypeOK, BackupSound, SavedIsKept, RollbackSound, RollbackIsWhole
<1>3. CASE BeginRollback
  <2>1. /\ copying' = [op |-> "rollback", left |-> Binaries] /\ saved' = saved /\ saved # <<>>
        /\ bin' = bin /\ backup' = backup
    BY <1>3 DEF BeginRollback
  <2>2. Passed' = {}
    BY <1>1, <2>1 DEF Passed
  <2> QED
    BY <1>1, <2>1, <2>2 DEF UpdateTypeOK, BackupSound, SavedIsKept, RollbackSound, RollbackIsWhole
<1>4. CASE CopyEnds
  <2>1. Passed = Programs
    BY <1>4 DEF CopyEnds, Passed, Elems
  <2>2. CASE copying.op = "backup"
    <3>1. copying' = Idle /\ saved' = bin /\ bin' = bin /\ backup' = backup
      BY <1>4, <2>2 DEF CopyEnds
    <3> QED
      BY <1>1, <2>1, <2>2, <3>1
         DEF Idle, UpdateTypeOK, BackupSound, SavedIsKept, RollbackSound, RollbackIsWhole
  <2>3. CASE copying.op = "rollback"
    <3>1. /\ copying' = [op |-> "restored", left |-> <<>>] /\ saved' = saved
          /\ bin' = bin /\ backup' = backup
      BY <1>4, <2>3 DEF CopyEnds, Idle
    <3>2. RollbackIsWhole'
      BY <2>1, <2>3, <3>1 DEF RollbackSound, RollbackIsWhole, Programs
    <3> QED
      BY <1>1, <2>3, <3>1, <3>2 DEF UpdateTypeOK, BackupSound, SavedIsKept, RollbackSound
  <2> QED
    BY <1>4, <2>2, <2>3 DEF CopyEnds
<1>5. CASE Replace
  <2>1. PICK S \in SUBSET Programs : bin' = [b \in DOMAIN bin |-> IF b \in S THEN 2 ELSE bin[b]]
    BY <1>5 DEF Replace, Programs
  <2>2. bin' \in [Programs -> Nat]
    BY <2>1 DEF UpdateTypeOK
  <2>3. copying = Idle /\ copying' = copying /\ saved' = saved /\ backup' = backup
    BY <1>5 DEF Replace
  <2> QED
    BY <2>2, <2>3 DEF Idle, UpdateTypeOK, BackupSound, SavedIsKept, RollbackSound, RollbackIsWhole
<1>6. CASE Forget
  <2>1. copying' = Idle /\ saved' = saved /\ bin' = bin /\ backup' = backup
    BY <1>6 DEF Forget
  <2> QED
    BY <1>1, <2>1 DEF Idle, UpdateTypeOK, BackupSound, SavedIsKept, RollbackSound, RollbackIsWhole
<1>7. CASE CheckNext \/ UNCHANGED updateVars
  <2>1. copying' = copying /\ saved' = saved /\ bin' = bin /\ backup' = backup
    BY <1>7 DEF CheckNext, CheckUpdate, CmdUpdateCheck, Publish, updateVars
  <2> QED
    BY <2>1 DEF UpdateTypeOK, BackupSound, SavedIsKept, RollbackSound, RollbackIsWhole, Passed
<1> QED
  BY <1>2, <1>3, <1>4, <1>5, <1>6, <1>7

(***************************************************************************)
(* For any programs, any installations in between and any copies cut off   *)
(* half-way and tried again: a rollback that reports success has put back  *)
(* every program of the last whole backup (backup_current, rollback).      *)
(***************************************************************************)
THEOREM RollbacksAlwaysWhole == UpdateSpec => []RollbackIsWhole
<1>1. UpdateInit => UpdateInv
  <2> SUFFICES ASSUME UpdateInit PROVE UpdateInv
    OBVIOUS
  <2>1. /\ bin \in [Programs -> Nat] /\ backup \in [Programs -> Nat] /\ <<>> \in Seq(Programs)
        /\ copying = Idle /\ saved = <<>>
    BY DEF UpdateInit, Absent, Programs
  <2> QED
    BY <2>1 DEF Idle, UpdateInv, UpdateTypeOK, BackupSound, SavedIsKept, RollbackSound, RollbackIsWhole
<1>2. UpdateInv /\ [CheckNext \/ CopyNext]_updateVars => UpdateInv'
  BY CopyOneKeepsUpdateInv, OtherCopiesKeepUpdateInv DEF CopyNext
<1>3. UpdateInv => RollbackIsWhole
  BY DEF UpdateInv
<1> QED
  BY <1>1, <1>2, <1>3, PTL DEF UpdateSpec

-----------------------------------------------------------------------------
(* The health monitor and its page *)

LogRow == [service : Units, at : Nat, healthy : BOOLEAN]
LiveRow == [service : Units, healthy : BOOLEAN]
Page == [stage : {"none", "live", "shown"}, health : SUBSET LogRow, live : SUBSET LiveRow,
         asked : SUBSET Units, active : SUBSET Units, known : SUBSET Units, good : SUBSET Units]

HealthTypeOK ==
  /\ minute \in Nat /\ check \in [at : Nat, todo : Seq(Units), on : BOOLEAN]
  /\ log \subseteq LogRow /\ page \in Page
  /\ failures \in [Units -> Nat] /\ alerts \in [Units -> Nat]
  /\ last \in [Units -> {"none", "up", "down"}]

(* r is the newest row of its service and says what the monitor saw last. *)
NewestRow(rows, seen, r) ==
  /\ \A q \in rows : q.service = r.service => q.at <= r.at
  /\ r.healthy => seen[r.service] = "up"

(* Rows carry the times of rounds that have begun; a service with a row has *)
(* a newest one.                                                            *)
LogSound ==
  /\ \A r \in log : r.at <= check.at
  /\ \A r \in log : \E q \in log : q.service = r.service /\ NewestRow(log, last, q)

(* A service the page knows from the log was up at the monitor's last look, *)
(* or a row says that it was not.                                           *)
PageSound ==
  \A s \in page.known : (\A r \in page.health : r.service = s => r.healthy) => s \in page.good

HealthInv == HealthTypeOK /\ LogSound /\ PageSound /\ HealthReported

(* The next failure takes the quotient up exactly at a multiple. *)
LEMMA NextQuotient ==
  ASSUME NEW n \in Nat, NEW k \in Nat \ {0}
  PROVE  (n + 1) \div k = IF (n + 1) % k = 0 THEN n \div k + 1 ELSE n \div k
<1>1. PICK q \in Nat, r \in Nat : q = n \div k /\ r = n % k /\ n = k * q + r /\ r < k
  OBVIOUS
<1>2. PICK p \in Nat, t \in Nat : p = (n + 1) \div k /\ t = (n + 1) % k /\ n + 1 = k * p + t /\ t < k
  OBVIOUS
<1>3. k * p + t = k * q + r + 1
  BY <1>1, <1>2
<1>4. p <= q + 1
  <2> SUFFICES ASSUME p > q + 1 PROVE FALSE
    OBVIOUS
  <2>1. PICK d \in Nat : p = q + 2 + d
    OBVIOUS
  <2>2. k * p = k * q + 2 * k + k * d /\ k * d \in Nat /\ k * q \in Nat
    BY <2>1
  <2> QED
    BY <1>1, <1>2, <1>3, <2>2
<1>5. p >= q
  <2> SUFFICES ASSUME p < q PROVE FALSE
    OBVIOUS
  <2>1. PICK d \in Nat : q = p + 1 + d
    OBVIOUS
  <2>2. k * q = k * p + k + k * d /\ k * d \in Nat /\ k * p \in Nat
    BY <2>1
  <2> QED
    BY <1>1, <1>2, <1>3, <2>2
<1> QED
  BY <1>1, <1>2, <1>3, <1>4, <1>5

(* The schedule of alerts: the first failure, then every AlertEvery-th. *)
Scheduled(n) == IF n = 0 THEN 0 ELSE IF AlertEvery = 1 THEN n ELSE 1 + n \div AlertEvery

LEMMA NextAlert ==
  ASSUME NEW n \in Nat
  PROVE  /\ Alerts(n + 1) => Scheduled(n + 1) = Scheduled(n) + 1
         /\ ~Alerts(n + 1) => Scheduled(n + 1) = Scheduled(n)
         /\ Scheduled(n) \in Nat
<1>1. AlertEvery \in Nat \ {0}
  BY HealthAssumption
<1>2. n \div AlertEvery \in Nat
  BY <1>1
<1>3. (n + 1) \div AlertEvery = IF (n + 1) % AlertEvery = 0 THEN n \div AlertEvery + 1 ELSE n \div AlertEvery
  BY <1>1, NextQuotient
<1>4. CASE AlertEvery = 1
  BY <1>4 DEF Alerts, Scheduled
<1>5. CASE AlertEvery # 1 /\ n = 0
  <2>1. 1 \div AlertEvery = 0 /\ n + 1 = 1
    BY <1>1, <1>5
  <2> QED
    BY <1>5, <2>1 DEF Alerts, Scheduled
<1>6. CASE AlertEvery # 1 /\ n # 0
  BY <1>2, <1>3, <1>6 DEF Alerts, Scheduled
<1> QED
  BY <1>4, <1>5, <1>6

(* The page is left alone, and so is what it was made from. *)
LEMMA PageKept ==
  ASSUME HealthInv, page' = page, shown' = shown
  PROVE  PageSound' /\ HealthyIsWitnessed'
  BY DEF HealthInv, HealthReported, PageSound, HealthyIsWitnessed

LEMMA WorldKeepsHealthInv ==
  ASSUME HealthInv, Change \/ MinutePasses \/ UNCHANGED healthVars
  PROVE  HealthInv'
<1> USE DEF HealthInv
<1>1. /\ failures' = failures /\ check' = check /\ alerts' = alerts /\ last' = last /\ log' = log
      /\ page' = page /\ shown' = shown
  BY DEF Change, MinutePasses, healthVars, monitorVars, pageVars
<1>2. minute' \in Nat
  BY DEF Change, MinutePasses, healthVars, HealthTypeOK
<1>3. HealthTypeOK' /\ LogSound'
  BY <1>1, <1>2 DEF HealthTypeOK, LogSound
<1> QED
  BY <1>1, <1>3, PageKept DEF HealthReported, OutageAlerted

LEMMA BeginCheckKeepsHealthInv ==
  ASSUME HealthInv, BeginCheck
  PROVE  HealthInv'
<1> USE DEF HealthInv
<1>1. /\ failures' = failures /\ alerts' = alerts /\ last' = last /\ log' = log /\ page' = page
      /\ shown' = shown /\ minute' = minute /\ check.at < minute
      /\ check' = [at |-> minute, todo |-> Endpoints, on |-> TRUE]
  BY DEF BeginCheck, pageVars
<1>2. HealthTypeOK'
  BY <1>1, HealthAssumption DEF HealthTypeOK
<1>3. \A r \in log : r.at <= minute
  BY <1>1 DEF HealthTypeOK, LogSound, LogRow
<1>4. LogSound'
  BY <1>1, <1>3 DEF LogSound
<1> QED
  BY <1>1, <1>2, <1>4, PageKept DEF HealthReported, OutageAlerted

LEMMA CheckOneKeepsHealthInv ==
  ASSUME HealthInv, CheckOne
  PROVE  HealthInv'
<1> USE DEF HealthInv
<1>1. PICK s \in Units, rest \in Seq(Units) :
        s = Head(check.todo) /\ rest = Tail(check.todo)
  <2>1. PICK todo \in Seq(Units) : todo = check.todo /\ todo # <<>>
    BY DEF CheckOne, HealthTypeOK
  <2>2. Head(todo) \in Units /\ Tail(todo) \in Seq(Units)
    BY <2>1, HeadOrTail
  <2> QED
    BY <2>1, <2>2
<1>2. PICK row : row = [service |-> s, at |-> check.at, healthy |-> s \in up]
  OBVIOUS
<1>3. PICK n : n = CountFailures(s, s \in up)
  OBVIOUS
<1>4. /\ \/ /\ log' = log \cup {row}
            /\ last' = [last EXCEPT ![s] = IF s \in up THEN "up" ELSE "down"]
         \/ log' = log /\ last' = last
      /\ failures' = [failures EXCEPT ![s] = n]
      /\ alerts' = [alerts EXCEPT ![s] = IF s \in up THEN 0 ELSE IF Alerts(n) THEN @ + 1 ELSE @]
      /\ check' = [check EXCEPT !.todo = rest]
      /\ page' = page /\ shown' = shown /\ minute' = minute
  BY <1>1, <1>2, <1>3 DEF CheckOne, pageVars
<1>5. check' = [at |-> check.at, todo |-> rest, on |-> check.on] /\ check.at \in Nat
  BY <1>4 DEF HealthTypeOK
<1>6. row \in LogRow /\ row.service = s /\ row.at = check.at /\ (row.healthy <=> s \in up)
  <2>1. CASE s \in up
    <3>1. row = [service |-> s, at |-> check.at, healthy |-> TRUE]
      BY <1>2, <2>1
    <3> QED
      BY <1>5, <2>1, <3>1 DEF LogRow
  <2>2. CASE s \notin up
    <3>1. row = [service |-> s, at |-> check.at, healthy |-> FALSE]
      <4>1. (s \in up) = FALSE
        BY <2>2
      <4> QED
        BY <1>2, <4>1, Zenon
    <3> QED
      BY <1>5, <2>2, <3>1 DEF LogRow
  <2> QED
    BY <2>1, <2>2
<1>7. n \in Nat /\ (s \in up => n = 0) /\ (s \notin up => n = failures[s] + 1)
  BY <1>3 DEF CountFailures, HealthTypeOK
<1>8. /\ alerts'[s] = Scheduled(n) /\ Scheduled(n) \in Nat
      /\ \A x \in Units : x # s => alerts'[x] = alerts[x]
  <2>1. failures[s] \in Nat /\ alerts[s] \in Nat /\ alerts[s] = Scheduled(failures[s])
    BY DEF HealthTypeOK, HealthReported, OutageAlerted, Scheduled
  <2>2. alerts'[s] = IF s \in up THEN 0 ELSE IF Alerts(n) THEN alerts[s] + 1 ELSE alerts[s]
    BY <1>4 DEF HealthTypeOK
  <2>3. alerts'[s] = Scheduled(n)
    <3>1. CASE s \in up
      <4>1. alerts'[s] = 0 /\ n = 0
        BY <1>7, <2>2, <3>1
      <4>2. Scheduled(0) = 0
        BY DEF Scheduled
      <4> QED
        BY <4>1, <4>2
    <3>2. CASE s \notin up
      <4>1. PICK f \in Nat : f = failures[s] /\ n = f + 1
        BY <1>7, <2>1, <3>2
      <4>2. /\ Alerts(f + 1) => Scheduled(f + 1) = Scheduled(f) + 1
            /\ ~Alerts(f + 1) => Scheduled(f + 1) = Scheduled(f)
        BY <4>1, NextAlert
      <4>3. CASE Alerts(n)
        <5>1. alerts'[s] = alerts[s] + 1
          BY <2>2, <3>2, <4>3
        <5> QED
          BY <2>1, <4>1, <4>2, <4>3, <5>1
      <4>4. CASE ~Alerts(n)
        <5>1. alerts'[s] = alerts[s]
          BY <2>2, <3>2, <4>4
        <5> QED
          BY <2>1, <4>1, <4>2, <4>4, <5>1
      <4> QED
        BY <4>3, <4>4
    <3> QED
      BY <3>1, <3>2
  <2>4. \A x \in Units : x # s => alerts'[x] = alerts[x]
    BY <1>4 DEF HealthTypeOK
  <2>5. Scheduled(n) \in Nat
    BY <1>7, NextAlert
  <2> QED
    BY <2>3, <2>4, <2>5
<1>9. HealthTypeOK'
  <2>1. alerts' \in [Units -> Nat]
    <3>1. alerts' = [x \in Units |-> alerts'[x]]
      BY <1>4 DEF HealthTypeOK
    <3>2. \A x \in Units : alerts'[x] \in Nat
      BY <1>8 DEF HealthTypeOK
    <3> QED
      BY <3>1, <3>2
  <2>2. last' \in [Units -> {"none", "up", "down"}] /\ log' \subseteq LogRow
    <3>1. PICK word \in {"none", "up", "down"} : word = IF s \in up THEN "up" ELSE "down"
      OBVIOUS
    <3> QED
      BY <1>4, <1>6, <3>1 DEF HealthTypeOK
  <2>3. failures' \in [Units -> Nat]
    BY <1>4, <1>7 DEF HealthTypeOK
  <2> QED
    BY <1>4, <1>5, <2>1, <2>2, <2>3 DEF HealthTypeOK
<1>10. OutageAlerted'
  <2>1. failures'[s] = n /\ \A x \in Units : x # s => failures'[x] = failures[x]
    BY <1>4 DEF HealthTypeOK
  <2>2. \A x \in Units : alerts[x] = Scheduled(failures[x])
    BY DEF HealthReported, OutageAlerted, Scheduled
  <2>3. \A x \in Units : alerts'[x] = Scheduled(failures'[x])
    BY <1>8, <2>1, <2>2
  <2> QED
    BY <2>3 DEF OutageAlerted, Scheduled
<1>11. LogSound'
  <2>1. CASE log' = log /\ last' = last
    BY <1>5, <2>1 DEF LogSound
  <2>2. CASE /\ log' = log \cup {row}
             /\ last' = [last EXCEPT ![s] = IF s \in up THEN "up" ELSE "down"]
    <3>1. \A r \in log' : r.at <= check'.at
      BY <1>5, <1>6, <2>2 DEF LogSound
    <3>2. last'[s] = IF s \in up THEN "up" ELSE "down"
      BY <2>2 DEF HealthTypeOK
    <3>3. NewestRow(log', last', row)
      BY <1>5, <1>6, <2>2, <3>1, <3>2 DEF NewestRow
    <3>4. ASSUME NEW r \in log, r.service # s
          PROVE  \E q \in log' : q.service = r.service /\ NewestRow(log', last', q)
      <4>1. PICK q \in log : q.service = r.service /\ NewestRow(log, last, q)
        BY DEF LogSound
      <4>2. q.service \in Units /\ q.service # s
        BY <3>4, <4>1 DEF HealthTypeOK, LogRow
      <4>3. last'[q.service] = last[q.service]
        BY <2>2, <4>2 DEF HealthTypeOK
      <4> QED
        BY <1>6, <2>2, <4>1, <4>2, <4>3 DEF NewestRow
    <3> QED
      BY <1>6, <2>2, <3>1, <3>3, <3>4 DEF LogSound
  <2> QED
    BY <1>4, <2>1, <2>2
<1> QED
  BY <1>4, <1>9, <1>10, <1>11, PageKept DEF HealthReported

LEMMA EndCheckKeepsHealthInv ==
  ASSUME HealthInv, EndCheck
  PROVE  HealthInv'
<1> USE DEF HealthInv
<1>1. PICK cutoff \in Nat : log' = {r \in log : r.at >= cutoff}
  <2>1. PICK cutoff : cutoff = IF check.at > Retention THEN check.at - Retention ELSE 0
    OBVIOUS
  <2>2. cutoff \in Nat
    BY <2>1, HealthAssumption DEF HealthTypeOK
  <2> QED
    BY <2>1, <2>2 DEF EndCheck, PruneHealthLog
<1>2. /\ failures' = failures /\ alerts' = alerts /\ last' = last /\ page' = page /\ shown' = shown
      /\ minute' = minute /\ check' = [at |-> check.at, todo |-> check.todo, on |-> FALSE]
  BY DEF EndCheck, pageVars, HealthTypeOK
<1>3. HealthTypeOK'
  BY <1>1, <1>2 DEF HealthTypeOK
<1>4. ASSUME NEW r \in log'
      PROVE  \E q \in log' : q.service = r.service /\ NewestRow(log', last', q)
  <2>1. r \in log /\ r.at >= cutoff
    BY <1>1, <1>4
  <2>2. PICK q \in log : q.service = r.service /\ NewestRow(log, last, q)
    BY <2>1 DEF LogSound
  <2>3. r.at \in Nat /\ q.at \in Nat /\ r.at <= q.at
    BY <2>1, <2>2 DEF NewestRow, HealthTypeOK, LogRow
  <2>4. q \in log'
    BY <1>1, <2>1, <2>3
  <2> QED
    BY <1>1, <1>2, <2>2, <2>4 DEF NewestRow
<1>5. LogSound'
  BY <1>1, <1>2, <1>4 DEF LogSound
<1> QED
  BY <1>2, <1>3, <1>5, PageKept DEF HealthReported, OutageAlerted

LEMMA RestartKeepsHealthInv ==
  ASSUME HealthInv, RestartMonitor
  PROVE  HealthInv'
<1> USE DEF HealthInv
<1>1. /\ failures' = [s \in Units |-> 0] /\ alerts' = [s \in Units |-> 0] /\ last' = last
      /\ page' = page /\ shown' = shown /\ minute' = minute /\ log' = log
      /\ check' = [at |-> check.at, todo |-> <<>>, on |-> FALSE]
  BY DEF RestartMonitor, pageVars, NoCheck
<1>2. HealthTypeOK' /\ LogSound'
  BY <1>1 DEF HealthTypeOK, LogSound
<1>3. OutageAlerted'
  BY <1>1 DEF OutageAlerted
<1> QED
  BY <1>1, <1>2, <1>3, PageKept DEF HealthReported

(* The monitor is left alone. *)
LEMMA MonitorKept ==
  ASSUME HealthInv, UNCHANGED <<minute, monitorVars>>
  PROVE  /\ LogSound' /\ OutageAlerted'
         /\ page' \in Page => HealthTypeOK'
  BY DEF HealthInv, HealthReported, monitorVars, LogSound, OutageAlerted, HealthTypeOK

LEMMA BeginPageKeepsHealthInv ==
  ASSUME HealthInv, BeginPage
  PROVE  HealthInv'
<1> USE DEF HealthInv
<1>1. PICK rows, known, good :
        /\ rows = UNION {Latest(s) : s \in Units}
        /\ known = {s \in Units : \E r \in log : r.service = s}
        /\ good = {s \in Units : last[s] = "up"}
  OBVIOUS
<1>2. page' = [stage |-> "live", health |-> rows, live |-> {}, asked |-> {}, active |-> {},
               known |-> known, good |-> good]
  BY <1>1 DEF BeginPage
<1>3. rows \subseteq LogRow
  BY <1>1 DEF Latest, HealthTypeOK
<1>4. page' \in Page
  BY <1>1, <1>2, <1>3 DEF Page
<1>5. ASSUME NEW s \in known, \A r \in rows : r.service = s => r.healthy PROVE s \in good
  <2>1. PICK r \in log : r.service = s
    BY <1>1
  <2>2. PICK q \in log : q.service = s /\ NewestRow(log, last, q)
    BY <2>1 DEF LogSound
  <2>3. s \in Units /\ q \in Latest(s)
    BY <1>1, <2>2 DEF NewestRow, Latest
  <2>4. q \in rows
    BY <1>1, <2>3
  <2>5. last[s] = "up"
    BY <1>5, <2>2, <2>4 DEF NewestRow
  <2> QED
    BY <1>1, <2>3, <2>5
<1>6. PageSound'
  BY <1>2, <1>5 DEF PageSound
<1>7. HealthyIsWitnessed'
  BY <1>2 DEF HealthyIsWitnessed
<1> QED
  BY <1>4, <1>6, <1>7, MonitorKept DEF BeginPage, HealthReported

(* Two fields of a page at once. *)
LEMMA SetAsked ==
  ASSUME NEW p \in Page, NEW a, NEW b
  PROVE  [p EXCEPT !.asked = a, !.active = b]
           = [stage |-> p.stage, health |-> p.health, live |-> p.live, asked |-> a, active |-> b,
              known |-> p.known, good |-> p.good]
<1>1. PICK q : q = [stage |-> p.stage, health |-> p.health, live |-> p.live, asked |-> a,
                    active |-> p.active, known |-> p.known, good |-> p.good]
  OBVIOUS
<1>2. [p EXCEPT !.asked = a] = q
  BY <1>1 DEF Page
<1>3. [q EXCEPT !.active = b]
        = [stage |-> p.stage, health |-> p.health, live |-> p.live, asked |-> a, active |-> b,
           known |-> p.known, good |-> p.good]
  BY <1>1
<1> QED
  BY <1>2, <1>3

LEMMA PageStepsKeepHealthInv ==
  ASSUME HealthInv, ProbeLatency \/ QuerySystemd
  PROVE  HealthInv'
<1> USE DEF HealthInv
<1>1. PICK p \in Page : p = page
  BY DEF HealthTypeOK
<1>2. PICK live, asked, act :
        /\ live \subseteq LiveRow /\ asked \subseteq Units /\ act \subseteq Units
        /\ page' = [stage |-> p.stage, health |-> p.health, live |-> live, asked |-> asked,
                    active |-> act, known |-> p.known, good |-> p.good]
  <2>1. CASE ProbeLatency
    <3>1. PICK s \in Units : page' = [p EXCEPT !.live = p.live \cup {[service |-> s, healthy |-> s \in up]}]
      BY <1>1, <2>1 DEF ProbeLatency, ToProbe
    <3>2. [service |-> s, healthy |-> s \in up] \in LiveRow
      BY DEF LiveRow
    <3>3. PICK live : live = p.live \cup {[service |-> s, healthy |-> s \in up]}
      OBVIOUS
    <3>4. live \subseteq LiveRow
      BY <3>2, <3>3 DEF Page
    <3>5. page' = [p EXCEPT !.live = live]
      BY <3>1, <3>3
    <3> QED
      BY <1>1, <3>4, <3>5 DEF Page
  <2>2. CASE QuerySystemd
    <3>1. PICK s \in Units, answers \in BOOLEAN :
            page' = [p EXCEPT !.asked = p.asked \cup {s},
                              !.active = IF answers THEN p.active \cup ({s} \cap active) ELSE p.active]
      BY <1>1, <2>2 DEF QuerySystemd, HealthTypeOK, Page
    <3>2. PICK asked, act : /\ asked = p.asked \cup {s}
                            /\ act = IF answers THEN p.active \cup ({s} \cap active) ELSE p.active
      OBVIOUS
    <3>3. asked \subseteq Units /\ act \subseteq Units
      BY <1>1, <3>2 DEF Page
    <3>4. page' = [p EXCEPT !.asked = asked, !.active = act]
      BY <3>1, <3>2
    <3>5. page' = [stage |-> p.stage, health |-> p.health, live |-> p.live, asked |-> asked,
                   active |-> act, known |-> p.known, good |-> p.good]
      BY <3>4, SetAsked
    <3> QED
      BY <1>1, <3>3, <3>5 DEF Page
  <2> QED
    BY <2>1, <2>2
<1>3. page' \in Page
  BY <1>1, <1>2 DEF Page
<1>4. PageSound'
  BY <1>1, <1>2 DEF PageSound
<1>5. page'.stage = "live"
  BY <1>1, <1>2 DEF ProbeLatency, QuerySystemd
<1>6. HealthyIsWitnessed'
  BY <1>5 DEF HealthyIsWitnessed
<1> QED
  BY <1>3, <1>4, <1>6, MonitorKept DEF ProbeLatency, QuerySystemd, HealthReported

LEMMA MergeKeepsHealthInv ==
  ASSUME HealthInv, MergeServiceRows
  PROVE  HealthInv'
<1> USE DEF HealthInv
<1>1. PICK p \in Page : p = page
  BY DEF HealthTypeOK
<1>2. /\ page' = [stage |-> "shown", health |-> p.health, live |-> p.live, asked |-> p.asked,
                   active |-> p.active, known |-> p.known, good |-> p.good]
      /\ shown' = [s \in Units |-> s \in Disabled \/ (s \in p.active /\ EndpointHealthy(p, s))]
      /\ ToProbe = {}
  BY <1>1 DEF MergeServiceRows, Page
<1>3. page' \in Page
  BY <1>1, <1>2 DEF Page
<1>4. PageSound'
  BY <1>1, <1>2 DEF PageSound
<1>5. ASSUME NEW s \in Units, s \notin Disabled, shown'[s]
      PROVE  /\ s \in p.active
             /\ s \in p.known => s \in p.good
             /\ s \notin p.known => s \in Unprobed \/ [service |-> s, healthy |-> TRUE] \in p.live
  <2>1. s \in p.active /\ EndpointHealthy(p, s)
    BY <1>2, <1>5
  <2>2. s \in p.known => s \in p.good
    BY <1>1, <2>1 DEF EndpointHealthy, PageSound
  <2>3. ASSUME s \notin p.known, s \notin Unprobed PROVE [service |-> s, healthy |-> TRUE] \in p.live
    <3>1. PICK l \in p.live : l.service = s
      BY <1>1, <1>2, <1>5, <2>3 DEF ToProbe
    <3>2. l.healthy
      BY <2>1, <2>3, <3>1 DEF EndpointHealthy
    <3>3. l \in LiveRow
      BY <1>1, <3>1 DEF Page
    <3>4. l = [service |-> s, healthy |-> TRUE]
      BY <3>1, <3>2, <3>3 DEF LiveRow
    <3> QED
      BY <3>1, <3>4
  <2> QED
    BY <2>1, <2>2, <2>3
<1>6. HealthyIsWitnessed'
  BY <1>2, <1>5 DEF HealthyIsWitnessed
<1> QED
  BY <1>3, <1>4, <1>6, MonitorKept DEF MergeServiceRows, HealthReported

LEMMA ClosePageKeepsHealthInv ==
  ASSUME HealthInv, ClosePage
  PROVE  HealthInv'
<1>1. page' = NoPage
  BY DEF ClosePage
<1>2. page' \in Page /\ PageSound' /\ HealthyIsWitnessed'
  BY <1>1 DEF NoPage, Page, PageSound, HealthyIsWitnessed
<1> QED
  BY <1>2, MonitorKept DEF ClosePage, HealthInv, HealthReported

(***************************************************************************)
(* For any services, endpoints, alert interval and retention, and whatever *)
(* changes between the steps of the monitor and of the page: a service is  *)
(* shown healthy only on the word of systemd and of the last look at its   *)
(* endpoint, and an outage has been alerted exactly as often as it should  *)
(* be (merge_service_rows, check_all).                                     *)
(***************************************************************************)
THEOREM HealthAlwaysReported == HealthSpec => []HealthReported
<1>1. HealthInit => HealthInv
  <2> SUFFICES ASSUME HealthInit PROVE HealthInv
    OBVIOUS
  <2>1. HealthTypeOK
    BY DEF HealthInit, HealthTypeOK, NoCheck, NoPage, Page
  <2>2. LogSound /\ PageSound /\ HealthyIsWitnessed /\ OutageAlerted
    BY DEF HealthInit, NoPage, LogSound, PageSound, HealthyIsWitnessed, OutageAlerted
  <2> QED
    BY <2>1, <2>2 DEF HealthInv, HealthReported
<1>2. HealthInv /\ [HealthNext]_healthVars => HealthInv'
  BY WorldKeepsHealthInv, BeginCheckKeepsHealthInv, CheckOneKeepsHealthInv, EndCheckKeepsHealthInv,
     RestartKeepsHealthInv, BeginPageKeepsHealthInv, PageStepsKeepHealthInv, MergeKeepsHealthInv,
     ClosePageKeepsHealthInv DEF HealthNext
<1>3. HealthInv => HealthReported
  BY DEF HealthInv
<1> QED
  BY <1>1, <1>2, <1>3, PTL DEF HealthSpec
-----------------------------------------------------------------------------
(***************************************************************************)
(* The governor's services and resident model, for any set of managed      *)
(* units, memory levels, and any number of commands, failing operations    *)
(* and restarts.                                                           *)
(*                                                                         *)
(* The properties speak of a governor at rest.  Their inductive invariants *)
(* say how far a transition, or the rollback of one, has come: what is     *)
(* still to do is in `todo`, what must be put back in `stopped`, and what  *)
(* must be taken down again in `started`.                                  *)
(***************************************************************************)
Pcs == {"rest", "pressure", "stop", "start", "undo_start", "undo_stop"}

Names == {"genie-wakeword", "genie-core", "llm", "genie-mqtt", "homeassistant",
          "nextcloud", "jellyfin"}

Work == [pc : Pcs, from : Modes, target : Modes, todo : Seq(Names),
         stopped : Seq(Names), started : Seq(Names), reading : Int,
         before : SUBSET Managed, faults : Nat]

Moving == work.pc \in {"stop", "start", "undo_start", "undo_stop"}

Undoing == work.pc \in {"undo_start", "undo_stop"}

TypeOK ==
  /\ mode \in Modes /\ work \in Work
  /\ running \subseteq Managed
  /\ lastEnd.sound \in BOOLEAN /\ lastMem \in Int
  /\ Moving => work.from = mode /\ work.target # mode
  /\ Undoing => work.faults # 0

(* Nothing has failed so far in this transition: what the target forbids    *)
(* is down or about to be stopped, what it requires is up or about to be    *)
(* started.                                                                 *)
OnTheWay ==
  Moving /\ ~Undoing /\ work.faults = 0 =>
    /\ UnitSet(StoppedServices(work.target)) \cap running
         \subseteq IF work.pc = "stop" THEN Elems(work.todo) ELSE {}
    /\ work.pc = "start" =>
         /\ UnitSet(RequiredServices(work.target)) \subseteq running \cup Elems(work.todo)
         /\ Elems(work.todo) \subseteq Elems(RequiredServices(work.target))

(* The rollback's last step reloads the model of the old mode. *)
Reloaded ==
  IF ChangesWeights(work.from, work.target) /\ work.from # "media" THEN {"llm"} ELSE {}

(* Before the rollback no operation failed but the one that caused it:      *)
(* whatever of the old mode's services ran before the transition still runs *)
(* or is among the ones to put back.                                        *)
WayBack ==
  /\ work.pc \in {"stop", "start"} /\ work.faults = 0 =>
       work.before \subseteq (running \ Elems(work.started)) \cup Elems(work.stopped)
  /\ work.pc = "undo_start" /\ work.faults = 1 =>
       work.before \cap UnitSet(RequiredServices(work.from))
         \subseteq (running \ Elems(work.started)) \cup Elems(work.stopped) \cup Reloaded
  /\ work.pc = "undo_stop" /\ work.faults = 1 =>
       work.before \cap UnitSet(RequiredServices(work.from))
         \subseteq running \cup (Elems(work.todo) \cap ToRestore(work)) \cup Reloaded

(* The LLM unit's override and, when it runs, the LLM itself have a mode's  *)
(* model.                                                                   *)
ModelOf(m) == override = LlmModel(m) /\ ("llm" \in running => resident = LlmModel(m))

ModelKept ==
  lastEnd.sound =>
    /\ AtRest /\ mode # "media" => ModelOf(mode)
    /\ work.pc = "stop" /\ work.from # "media" => ModelOf(work.from)
    /\ work.pc = "start" /\ work.target # "media" => ModelOf(work.target)
    /\ Undoing /\ work.from # "media" /\ ~ChangesWeights(work.from, work.target)
         => ModelOf(work.from)

GInv == TypeOK /\ OnTheWay /\ WayBack /\ ModelKept /\ ServicesFollowMode

-----------------------------------------------------------------------------
(* Facts about sequences of aliases. *)

LEMMA HeadTail ==
  ASSUME NEW S, NEW s \in Seq(S), s # <<>>
  PROVE  /\ Head(s) \in S /\ Tail(s) \in Seq(S)
         /\ Elems(s) = {Head(s)} \cup Elems(Tail(s))
<1>1. Head(s) = s[1] /\ 1 \in DOMAIN s /\ Head(s) \in S /\ Tail(s) \in Seq(S)
  OBVIOUS
<1>2. Len(s) \in Nat \ {0} /\ DOMAIN s = 1..Len(s) /\ Len(Tail(s)) = Len(s) - 1
      /\ DOMAIN Tail(s) = 1..(Len(s) - 1)
      /\ \A i \in 1..(Len(s) - 1) : Tail(s)[i] = s[i + 1]
  OBVIOUS
<1>3. \A i \in DOMAIN s : i = 1 \/ (i - 1 \in DOMAIN Tail(s) /\ s[i] = Tail(s)[i - 1])
  BY <1>2
<1>4. \A i \in DOMAIN Tail(s) : i + 1 \in DOMAIN s /\ Tail(s)[i] = s[i + 1]
  BY <1>2
<1>5. Elems(s) \subseteq {Head(s)} \cup Elems(Tail(s))
  BY <1>1, <1>3 DEF Elems
<1>6. {Head(s)} \cup Elems(Tail(s)) \subseteq Elems(s)
  BY <1>1, <1>4 DEF Elems
<1> QED
  BY <1>1, <1>5, <1>6

LEMMA AppendElems ==
  ASSUME NEW S, NEW s \in Seq(S), NEW e \in S
  PROVE  /\ Append(s, e) \in Seq(S)
         /\ Elems(Append(s, e)) = Elems(s) \cup {e}
<1>1. Append(s, e) \in Seq(S) /\ Len(s) \in Nat /\ DOMAIN s = 1..Len(s)
  OBVIOUS
<1>2. DOMAIN Append(s, e) = 1..(Len(s) + 1) /\ Append(s, e)[Len(s) + 1] = e
  OBVIOUS
<1>3. \A i \in 1..Len(s) : Append(s, e)[i] = s[i]
  OBVIOUS
<1>4. \A i \in 1..(Len(s) + 1) : i \in 1..Len(s) \/ i = Len(s) + 1
  BY <1>1
<1>5. Elems(Append(s, e)) \subseteq Elems(s) \cup {e}
  BY <1>1, <1>2, <1>3, <1>4 DEF Elems
<1>6. 1..Len(s) \subseteq 1..(Len(s) + 1) /\ Len(s) + 1 \in 1..(Len(s) + 1)
  BY <1>1
<1>7. Elems(s) \cup {e} \subseteq Elems(Append(s, e))
  BY <1>1, <1>2, <1>3, <1>6 DEF Elems
<1> QED
  BY <1>1, <1>5, <1>7

LEMMA PopElems ==
  ASSUME NEW S, NEW s \in Seq(S), s # <<>>
  PROVE  /\ s[Len(s)] \in S /\ SubSeq(s, 1, Len(s) - 1) \in Seq(S)
         /\ s[Len(s)] \in Elems(s) /\ Elems(SubSeq(s, 1, Len(s) - 1)) \subseteq Elems(s)
<1>1. /\ Len(s) \in Nat \ {0} /\ DOMAIN s = 1..Len(s) /\ s[Len(s)] \in S
      /\ SubSeq(s, 1, Len(s) - 1) \in Seq(S)
      /\ DOMAIN SubSeq(s, 1, Len(s) - 1) = 1..(Len(s) - 1)
      /\ \A i \in 1..(Len(s) - 1) : SubSeq(s, 1, Len(s) - 1)[i] = s[i]
  OBVIOUS
<1>2. \A n \in Nat \ {0} : n \in 1..n /\ 1..(n - 1) \subseteq 1..n
  OBVIOUS
<1> QED
  BY <1>1, <1>2 DEF Elems

(* What mode.rs says of the modes. *)

LEMMA ModeLists ==
  /\ \A m \in Modes : RequiredServices(m) \in Seq(Names) /\ StoppedServices(m) \in Seq(Names)
  /\ \A m \in Modes : Elems(RequiredServices(m)) \cap Elems(StoppedServices(m)) = {}
  /\ \A m \in Modes : Elems(RequiredServices(m)) \cap {"nextcloud", "jellyfin"} = {}
  /\ \A m \in Modes : m # "media" => "llm" \notin Elems(StoppedServices(m))
  /\ "llm" \notin Elems(RequiredServices("media"))
<1>2. /\ \A m \in {"day", "night_a"} :
           /\ RequiredServices(m) = <<"genie-wakeword", "genie-core", "llm", "genie-mqtt", "homeassistant">>
           /\ StoppedServices(m) = <<>>
      /\ \A m \in {"night_b", "pressure"} :
           RequiredServices(m) = <<"genie-wakeword", "genie-core", "llm", "genie-mqtt">>
      /\ StoppedServices("night_b") = <<"homeassistant", "nextcloud", "jellyfin">>
      /\ StoppedServices("pressure") = <<"nextcloud", "jellyfin">>
      /\ RequiredServices("media") = <<"genie-wakeword", "genie-core", "genie-mqtt">>
      /\ StoppedServices("media") = <<"llm", "nextcloud", "jellyfin">>
  BY DEF RequiredServices, StoppedServices
<1>3. /\ Elems(<<"genie-wakeword", "genie-core", "llm", "genie-mqtt", "homeassistant">>)
           = {"genie-wakeword", "genie-core", "llm", "genie-mqtt", "homeassistant"}
      /\ Elems(<<"genie-wakeword", "genie-core", "llm", "genie-mqtt">>)
           = {"genie-wakeword", "genie-core", "llm", "genie-mqtt"}
      /\ Elems(<<"genie-wakeword", "genie-core", "genie-mqtt">>)
           = {"genie-wakeword", "genie-core", "genie-mqtt"}
      /\ Elems(<<>>) = {}
      /\ Elems(<<"homeassistant", "nextcloud", "jellyfin">>)
           = {"homeassistant", "nextcloud", "jellyfin"}
      /\ Elems(<<"nextcloud", "jellyfin">>) = {"nextcloud", "jellyfin"}
      /\ Elems(<<"llm", "nextcloud", "jellyfin">>) = {"llm", "nextcloud", "jellyfin"}
  BY DEF Elems
<1>4. /\ <<"genie-wakeword", "genie-core", "llm", "genie-mqtt", "homeassistant">> \in Seq(Names)
      /\ <<"genie-wakeword", "genie-core", "llm", "genie-mqtt">> \in Seq(Names)
      /\ <<"genie-wakeword", "genie-core", "genie-mqtt">> \in Seq(Names)
      /\ <<>> \in Seq(Names)
      /\ <<"homeassistant", "nextcloud", "jellyfin">> \in Seq(Names)
      /\ <<"nextcloud", "jellyfin">> \in Seq(Names)
      /\ <<"llm", "nextcloud", "jellyfin">> \in Seq(Names)
  BY DEF Names
<1>5. Modes = {"day", "night_a"} \cup {"night_b", "pressure"} \cup {"media"}
  BY DEF Modes
<1> QED
  BY <1>2, <1>3, <1>4, <1>5

LEMMA UnitsOf == \A l : UnitSet(l) = Elems(l) \cap Managed
  BY DEF UnitSet, Elems

(* No transition wants "llm" down but the ones to media. *)
LEMMA ModeUnits ==
  /\ \A m \in Modes : UnitSet(RequiredServices(m)) \cap UnitSet(StoppedServices(m)) = {}
  /\ \A m \in Modes : UnitSet(RequiredServices(m)) \cap {"nextcloud", "jellyfin"} = {}
  /\ \A m \in Modes : m # "media" => "llm" \notin UnitSet(StoppedServices(m))
  /\ "llm" \notin UnitSet(RequiredServices("media"))
  BY ModeLists, UnitsOf

LEMMA RestingIsWork == Resting \in Work /\ Resting.pc = "rest"
<1>1. <<>> \in Seq(Names) /\ "day" \in Modes /\ NoReading \in Int
  BY DEF Modes, NoReading
<1> QED
  BY <1>1 DEF Resting, Work, Pcs

-----------------------------------------------------------------------------
(* Steps that end or do not concern a transition. *)

LEMMA GInitOK == Init => GInv
<1> SUFFICES ASSUME Init PROVE GInv
  OBVIOUS
<1>1. mode = "day" /\ work = Resting /\ running = Managed /\ override = Model4B
      /\ resident = Model4B /\ lastMem = NoReading
      /\ lastEnd.how = "none" /\ lastEnd.sound = TRUE
  BY DEF Init
<1>2. "day" \in Modes /\ NoReading \in Int /\ LlmModel("day") = Model4B
  BY DEF Modes, NoReading, LlmModel
<1>3. TypeOK
  BY <1>1, <1>2, RestingIsWork DEF TypeOK, Moving, Undoing
<1>4. OnTheWay /\ WayBack
  BY <1>1, RestingIsWork DEF OnTheWay, WayBack, Moving
<1>5. ModelKept
  BY <1>1, <1>2, RestingIsWork DEF ModelKept, ModelOf, Undoing
<1>6. ServicesFollowMode
  BY <1>1 DEF ServicesFollowMode, CleanTransitionServes, RollbackRestores
<1> QED
  BY <1>3, <1>4, <1>5, <1>6 DEF GInv

(* A transition given up, or a restart. *)
LEMMA GivenUp ==
  ASSUME GInv, work' = Resting, mode' \in Modes, running' \subseteq Managed, lastMem' \in Int,
         lastEnd'.how \notin {"clean", "rolled_back"}, lastEnd'.sound = FALSE
  PROVE  GInv'
<1>1. TypeOK'
  BY RestingIsWork DEF TypeOK, Moving, Undoing
<1>2. OnTheWay' /\ WayBack'
  BY RestingIsWork DEF OnTheWay, WayBack, Moving
<1>3. ModelKept' /\ ServicesFollowMode'
  BY DEF ModelKept, ServicesFollowMode, CleanTransitionServes, RollbackRestores
<1> QED
  BY <1>1, <1>2, <1>3 DEF GInv

(* Between transitions at most the opt-ins are stopped. *)
LEMMA StayAtRest ==
  ASSUME GInv, AtRest, work' \in Work, work'.pc \in {"rest", "pressure"},
         mode' = mode, lastEnd' = lastEnd, override' = override, resident' = resident,
         lastMem' \in Int,
         running' \subseteq running, running \subseteq running' \cup {"nextcloud", "jellyfin"}
  PROVE  GInv'
<1>1. TypeOK'
  BY DEF GInv, TypeOK, Moving, Undoing
<1>2. OnTheWay' /\ WayBack'
  BY DEF OnTheWay, WayBack, Moving
<1>3. ModelKept'
  BY DEF GInv, ModelKept, ModelOf, AtRest, Undoing
<1>4. ServicesFollowMode'
  <2>1. Required' = Required /\ Required \cap {"nextcloud", "jellyfin"} = {}
    BY ModeUnits DEF Required, GInv, TypeOK
  <2>2. CleanTransitionServes'
    BY <2>1 DEF GInv, ServicesFollowMode, CleanTransitionServes, AtRest
  <2>3. RollbackRestores'
    BY <2>1 DEF GInv, ServicesFollowMode, RollbackRestores, AtRest
  <2> QED
    BY <2>2, <2>3 DEF ServicesFollowMode
<1> QED
  BY <1>1, <1>2, <1>3, <1>4 DEF GInv

(* Only the marker, the readings or the environment change. *)
LEMMA Unconcerned ==
  ASSUME GInv, UNCHANGED <<mode, work, running, override, resident, lastEnd>>, lastMem' \in Int
  PROVE  GInv'
<1>1. TypeOK'
  BY DEF GInv, TypeOK, Moving, Undoing
<1>2. OnTheWay'
  BY DEF GInv, OnTheWay, Moving, Undoing
<1>3. WayBack'
  BY DEF GInv, WayBack, Reloaded, ToRestore
<1>4. ModelKept'
  BY DEF GInv, ModelKept, ModelOf, AtRest, Undoing
<1>5. ServicesFollowMode'
  BY DEF GInv, ServicesFollowMode, CleanTransitionServes, RollbackRestores, AtRest, Required
<1> QED
  BY <1>1, <1>2, <1>3, <1>4, <1>5 DEF GInv

LEMMA BeginOK ==
  ASSUME GInv, work.pc = "rest", NEW target \in Modes, NEW reading \in Int,
         Begin(target, reading), lastMem' \in Int,
         UNCHANGED <<mode, running, override, resident, lastEnd>>
  PROVE  GInv'
<1>1. CASE target = mode
  <2>1. work' = AfterTransition(reading)
    BY <1>1 DEF Begin
  <2>2. work' \in Work /\ work'.pc \in {"rest", "pressure"}
    BY <2>1, RestingIsWork DEF AfterTransition, Work, Pcs
  <2> QED
    BY <2>2, StayAtRest DEF AtRest
<1>2. CASE target # mode
  <2> DEFINE w == [Resting EXCEPT !.pc = "stop", !.from = mode, !.target = target,
                                  !.todo = StoppedServices(target),
                                  !.reading = reading, !.before = running]
  <2>1. work' = w
    BY <1>2 DEF Begin
  <2>2. mode \in Modes /\ running \subseteq Managed /\ StoppedServices(target) \in Seq(Names)
    BY ModeLists DEF GInv, TypeOK
  <2>3. /\ w \in Work /\ w.pc = "stop" /\ w.from = mode /\ w.target = target
        /\ w.todo = StoppedServices(target) /\ w.before = running /\ w.started = <<>>
    BY <2>2, RestingIsWork DEF Work, Pcs, Resting
  <2> HIDE DEF w
  <2>4. TypeOK'
    BY <1>2, <2>1, <2>3 DEF GInv, TypeOK, Undoing
  <2>5. OnTheWay'
    BY <2>1, <2>3, UnitsOf DEF OnTheWay
  <2>6. WayBack'
    <3>1. Elems(<<>>) = {}
      BY DEF Elems
    <3> QED
      BY <2>1, <2>3, <3>1 DEF WayBack
  <2>7. ModelKept'
    BY <2>1, <2>3 DEF GInv, ModelKept, ModelOf, AtRest, Undoing
  <2>8. ServicesFollowMode'
    BY <2>1, <2>3 DEF ServicesFollowMode, CleanTransitionServes, RollbackRestores, AtRest
  <2> QED
    BY <2>4, <2>5, <2>6, <2>7, <2>8 DEF GInv
<1> QED
  BY <1>1, <1>2
-----------------------------------------------------------------------------
(* The steps of a transition and of its rollback.  A step that stays in the *)
(* middle leaves the mode and `lastEnd` alone.                                 *)

(* What the steps do to the LLM. *)
LEMMA UnitSteps ==
  /\ \A u : StopUnit(u) /\ UNCHANGED override =>
       /\ running' = running \ {u}
       /\ \A m \in Modes : ModelOf(m) => ModelOf(m)'
  /\ \A u : StartUnit(u) /\ UNCHANGED override =>
       /\ running' = running \cup {u}
       /\ \A m \in Modes : ModelOf(m) => ModelOf(m)'
  /\ UNCHANGED <<running, override, resident>> => \A m \in Modes : ModelOf(m) => ModelOf(m)'
  BY DEF StopUnit, StartUnit, ModelOf

(* A failing operation is counted. *)
LEMMA FaultCounted ==
  ASSUME NEW w \in Work
  PROVE  LET v == [w EXCEPT !.faults = @ + 1] IN
         /\ v \in Work /\ v.faults = w.faults + 1 /\ v.faults # 0
         /\ v.pc = w.pc /\ v.from = w.from /\ v.target = w.target /\ v.todo = w.todo
         /\ v.stopped = w.stopped /\ v.started = w.started /\ v.before = w.before
<1>1. w.faults \in Nat
  BY DEF Work
<1> DEFINE n == w.faults + 1
<1>2. n \in Nat /\ n # 0
  BY <1>1
<1>3. [w EXCEPT !.faults = @ + 1] = [w EXCEPT !.faults = n]
  OBVIOUS
<1> HIDE DEF n
<1>4. LET v == [w EXCEPT !.faults = n] IN
         /\ v \in Work /\ v.faults = n /\ v.faults # 0
         /\ v.pc = w.pc /\ v.from = w.from /\ v.target = w.target /\ v.todo = w.todo
         /\ v.stopped = w.stopped /\ v.started = w.started /\ v.before = w.before
  BY <1>2 DEF Work
<1> QED
  BY <1>3, <1>4 DEF n

LEMMA InTheMiddle ==
  ASSUME work'.pc \in {"stop", "start", "undo_start", "undo_stop"}
  PROVE  ServicesFollowMode'
  BY DEF ServicesFollowMode, CleanTransitionServes, RollbackRestores, AtRest

LEMMA StopNextOK ==
  ASSUME GInv, StopNext
  PROVE  GInv'
<1> DEFINE u    == Head(work.todo)
           rest == [work EXCEPT !.todo = Tail(@)]
           more == [rest EXCEPT !.stopped = Append(@, u)]
           bad  == [rest EXCEPT !.faults = @ + 1]
<1>1. /\ work.pc = "stop" /\ work.todo # <<>> /\ work \in Work
      /\ UNCHANGED <<mode, lastMem, override>>
  BY DEF StopNext, gov, GInv, TypeOK
<1>2. /\ work.from = mode /\ work.target # mode /\ mode \in Modes /\ work.target \in Modes
      /\ running \subseteq Managed /\ lastMem \in Int /\ lastEnd.sound \in BOOLEAN
  BY <1>1 DEF GInv, TypeOK, Moving, Work
<1>3. /\ work.todo \in Seq(Names) /\ work.stopped \in Seq(Names) /\ work.faults \in Nat
  BY <1>1 DEF Work
<1>4. /\ u \in Names /\ Tail(work.todo) \in Seq(Names)
      /\ Elems(work.todo) = {u} \cup Elems(Tail(work.todo))
  BY <1>1, <1>3, HeadTail
<1>5. /\ Append(work.stopped, u) \in Seq(Names)
      /\ Elems(Append(work.stopped, u)) = Elems(work.stopped) \cup {u}
  BY <1>3, <1>4, AppendElems
<1>6. \/ u \notin running /\ work' = rest /\ UNCHANGED <<running, resident>>
      \/ u \in running /\ work' = bad /\ UNCHANGED <<running, resident>>
      \/ u \in running /\ work' = more /\ StopUnit(u)
      \/ work' = Resting /\ running' \subseteq running
  BY DEF StopNext, Fine, Fault, FaultEnd, StopUnit
<1>7. CASE work' = Resting /\ running' \subseteq running
  <2>1. Ended("abandoned")
    BY <1>7, RestingIsWork DEF StopNext
  <2>2. lastEnd'.how = "abandoned" /\ lastEnd'.sound = FALSE
    BY <2>1 DEF Ended
  <2> QED
    BY <1>1, <1>2, <1>7, <2>2, GivenUp
<1>8. CASE work'.pc = "stop"
  <2>1. lastEnd' = lastEnd
    BY <1>8 DEF StopNext
  <2>2. /\ rest \in Work /\ rest.pc = "stop" /\ rest.from = work.from
        /\ rest.target = work.target /\ rest.todo = Tail(work.todo)
        /\ rest.stopped = work.stopped /\ rest.started = work.started
        /\ rest.before = work.before /\ rest.faults = work.faults
    BY <1>1, <1>4 DEF Work
  <2>3. /\ more \in Work /\ more.pc = "stop" /\ more.from = work.from
        /\ more.target = work.target /\ more.todo = Tail(work.todo)
        /\ more.stopped = Append(work.stopped, u) /\ more.started = work.started
        /\ more.before = work.before /\ more.faults = work.faults
    BY <1>1, <1>4, <1>5 DEF Work
  <2>4. /\ bad \in Work /\ bad.pc = "stop" /\ bad.from = work.from
        /\ bad.target = work.target /\ bad.faults # 0
    <3> HIDE DEF rest
    <3> QED
      BY <2>2, FaultCounted
  <2>5. work' = Resting => FALSE
    BY <1>8, RestingIsWork
  <2> HIDE DEF rest, more, bad, u
  <2>6. /\ work' \in Work /\ work'.from = work.from /\ work'.target = work.target
        /\ running' \subseteq running
    BY <1>6, <2>2, <2>3, <2>4, <2>5 DEF StopUnit
  <2>7. TypeOK'
    BY <1>1, <1>2, <1>8, <2>1, <2>6 DEF TypeOK, Undoing
  <2>8. OnTheWay'
    <3> SUFFICES ASSUME work'.faults = 0
                 PROVE  UnitSet(StoppedServices(work.target)) \cap running' \subseteq Elems(work'.todo)
      BY <1>8, <2>6 DEF OnTheWay
    <3>1. UnitSet(StoppedServices(work.target)) \cap running \subseteq Elems(work.todo)
          \/ work.faults # 0
      BY <1>1 DEF GInv, OnTheWay, Moving, Undoing
    <3>2. CASE u \notin running /\ work' = rest /\ UNCHANGED <<running, resident>>
      BY <1>4, <2>2, <3>1, <3>2
    <3>3. CASE work' = more /\ StopUnit(u)
      BY <1>4, <2>3, <3>1, <3>3 DEF StopUnit
    <3> QED
      BY <1>6, <2>4, <2>5, <3>2, <3>3
  <2>9. WayBack'
    <3> SUFFICES ASSUME work'.faults = 0
                 PROVE  work'.before \subseteq (running' \ Elems(work'.started)) \cup Elems(work'.stopped)
      BY <1>8, <2>6 DEF WayBack
    <3>1. work.before \subseteq (running \ Elems(work.started)) \cup Elems(work.stopped)
          \/ work.faults # 0
      BY <1>1 DEF GInv, WayBack
    <3>2. CASE work' = rest /\ UNCHANGED <<running, resident>>
      BY <2>2, <3>1, <3>2
    <3>3. CASE work' = more /\ StopUnit(u)
      BY <1>5, <2>3, <3>1, <3>3 DEF StopUnit
    <3> QED
      BY <1>6, <2>4, <2>5, <3>2, <3>3
  <2>10. ModelKept'
    <3>1. \A m \in Modes : ModelOf(m) => ModelOf(m)'
      BY <1>1, <1>6, <2>5, UnitSteps
    <3>2. lastEnd.sound /\ work.from # "media" => ModelOf(work.from)
      BY <1>1 DEF GInv, ModelKept
    <3> QED
      BY <1>2, <1>8, <2>1, <2>6, <3>1, <3>2 DEF ModelKept, AtRest, Undoing, ModelOf
  <2> QED
    BY <1>8, <2>7, <2>8, <2>9, <2>10, InTheMiddle DEF GInv
<1>9. work'.pc = "stop" \/ (work' = Resting /\ running' \subseteq running)
  BY <1>1, <1>6 DEF Work
<1> QED
  BY <1>7, <1>8, <1>9

LEMMA MovingFields ==
  ASSUME GInv, Moving
  PROVE  /\ work \in Work /\ work.from = mode /\ work.target # mode
         /\ mode \in Modes /\ work.target \in Modes
         /\ running \subseteq Managed /\ lastMem \in Int /\ lastEnd.sound \in BOOLEAN
         /\ work.todo \in Seq(Names) /\ work.stopped \in Seq(Names)
         /\ work.started \in Seq(Names) /\ work.faults \in Nat
  BY DEF GInv, TypeOK, Work

LEMMA Models ==
  /\ \A m \in Modes : LlmModel(m) = NoModel <=> m = "media"
  /\ \A m, n \in Modes : ~ChangesWeights(m, n) /\ m # n => m # "media" /\ n # "media"
  /\ \A m, n \in Modes : ~ChangesWeights(m, n) => LlmModel(m) = LlmModel(n)
<1>1. \A m \in Modes : LlmModel(m) = NoModel <=> m = "media"
  BY DEF Modes, LlmModel, NoModel, Model4B, Model9B
<1> QED
  BY <1>1 DEF ChangesWeights

LEMMA EmptyElems == Elems(<<>>) = {}
  BY DEF Elems

(* The transition goes on to its start list. *)
LEMMA ToStartFields ==
  ASSUME NEW w \in Work
  PROVE  LET v == ToStart(w) IN
         /\ v \in Work /\ v.pc = "start" /\ v.todo = RequiredServices(w.target)
         /\ v.from = w.from /\ v.target = w.target /\ v.faults = w.faults
         /\ v.stopped = w.stopped /\ v.started = w.started /\ v.before = w.before
<1>1. RequiredServices(w.target) \in Seq(Names)
  BY ModeLists DEF Work
<1> QED
  BY <1>1 DEF ToStart, Work, Pcs

LEMMA RollbackFields ==
  ASSUME NEW w \in Work
  PROVE  LET v == Rollback(w) IN
         /\ v \in Work /\ v.pc = "undo_start" /\ v.todo = w.todo
         /\ v.from = w.from /\ v.target = w.target /\ v.faults = w.faults
         /\ v.stopped = w.stopped /\ v.started = w.started /\ v.before = w.before
  BY DEF Rollback, Work, Pcs

(* The stop list is done: what the swap must achieve for the way on. *)
LEMMA OnToStart ==
  ASSUME GInv, work.pc = "stop", work.todo = <<>>,
         NEW w \in Work, work' = w, w.pc = "start", w.todo = RequiredServices(work.target),
         w.from = work.from, w.target = work.target, w.before = work.before,
         w.started = work.started,
         w.faults = 0 => /\ work.faults = 0
                         /\ running \subseteq running' \cup Elems(w.stopped)
                         /\ Elems(work.stopped) \subseteq Elems(w.stopped),
         running' \subseteq Managed,
         running' \subseteq running \cup {"llm"},
         work.target = "media" => running' \subseteq running,
         lastEnd.sound /\ work.target # "media" => ModelOf(work.target)',
         UNCHANGED <<mode, lastMem, lastEnd>>
  PROVE  GInv'
<1>1. Moving
  BY DEF Moving
<1>2. TypeOK'
  BY <1>1, MovingFields DEF TypeOK, Undoing
<1>3. OnTheWay'
  <2> SUFFICES ASSUME w.faults = 0
               PROVE  /\ UnitSet(StoppedServices(work.target)) \cap running' = {}
                      /\ UnitSet(RequiredServices(work.target))
                           \subseteq running' \cup Elems(RequiredServices(work.target))
    BY DEF OnTheWay
  <2>1. UnitSet(StoppedServices(work.target)) \cap running = {}
    BY <1>1, EmptyElems DEF GInv, OnTheWay, Undoing
  <2>2. work.target # "media" => "llm" \notin UnitSet(StoppedServices(work.target))
    BY <1>1, MovingFields, ModeUnits
  <2> QED
    BY <2>1, <2>2, UnitsOf
<1>4. WayBack'
  BY DEF GInv, WayBack
<1>5. ModelKept'
  BY DEF ModelKept, AtRest, Undoing
<1> QED
  BY <1>2, <1>3, <1>4, <1>5, InTheMiddle DEF GInv

(* A failing operation of the way there, and only one that was made worse   *)
(* by "llm" going down where the rollback reloads it.                       *)
LEMMA IntoRollback ==
  ASSUME GInv, work.pc \in {"stop", "start"},
         NEW w \in Work, work' = [Rollback(w) EXCEPT !.faults = @ + 1],
         w.from = work.from, w.target = work.target, w.before = work.before,
         w.started = work.started, w.stopped = work.stopped, w.faults = work.faults,
         running' \subseteq Managed,
         running \subseteq running' \cup {"llm"},
         ~ChangesWeights(work.from, work.target) =>
           /\ running \subseteq running'
           /\ lastEnd.sound => ModelOf(work.from)',
         UNCHANGED <<mode, lastMem, lastEnd>>
  PROVE  GInv'
<1>1. Moving
  BY DEF Moving
<1>2. /\ work' \in Work /\ work'.pc = "undo_start" /\ work'.faults = work.faults + 1
      /\ work'.faults # 0 /\ work'.from = work.from /\ work'.target = work.target
      /\ work'.before = work.before /\ work'.started = work.started
      /\ work'.stopped = work.stopped
  BY RollbackFields, FaultCounted
<1>3. TypeOK'
  BY <1>1, <1>2, MovingFields DEF TypeOK
<1>4. OnTheWay'
  BY <1>2 DEF OnTheWay, Undoing
<1>5. WayBack'
  <2> SUFFICES ASSUME work'.faults = 1
               PROVE  work.before \cap UnitSet(RequiredServices(work.from))
                        \subseteq (running' \ Elems(work.started)) \cup Elems(work.stopped)
                                  \cup Reloaded'
    BY <1>2 DEF WayBack
  <2>1. work.faults = 0
    BY <1>1, <1>2, MovingFields
  <2>2. work.before \subseteq (running \ Elems(work.started)) \cup Elems(work.stopped)
    BY <2>1 DEF GInv, WayBack
  <2>3. \/ running \subseteq running'
        \/ Reloaded' = {"llm"}
        \/ "llm" \notin UnitSet(RequiredServices(work.from))
    BY <1>1, <1>2, ModeUnits DEF Reloaded
  <2> QED
    BY <2>2, <2>3
<1>6. ModelKept'
  BY <1>2 DEF ModelKept, AtRest, Undoing
<1> QED
  BY <1>2, <1>3, <1>4, <1>5, <1>6, InTheMiddle DEF GInv

LEMMA ApplyLlmSwapsOK ==
  ASSUME GInv, ApplyLlmSwaps
  PROVE  GInv'
<1>1. /\ work.pc = "stop" /\ work.todo = <<>> /\ UNCHANGED <<mode, lastMem, lastEnd>>
  BY DEF ApplyLlmSwaps, gov
<1>2. Moving
  BY <1>1 DEF Moving
<1>3. /\ work \in Work /\ work.from \in Modes /\ work.target \in Modes
      /\ work.from # work.target /\ running \subseteq Managed /\ "llm" \in Managed
      /\ work.stopped \in Seq(Names)
  BY <1>2, MovingFields, GovernorAssumption
<1>4. lastEnd.sound /\ work.from # "media" => ModelOf(work.from)
  BY <1>1 DEF GInv, ModelKept
<1>5. "llm" \in Names
  BY DEF Names
<1>6. /\ ToStart(work) \in Work /\ ToStart(work).pc = "start"
      /\ ToStart(work).todo = RequiredServices(work.target)
      /\ ToStart(work).from = work.from /\ ToStart(work).target = work.target
      /\ ToStart(work).faults = work.faults /\ ToStart(work).stopped = work.stopped
      /\ ToStart(work).started = work.started /\ ToStart(work).before = work.before
  BY <1>3, ToStartFields
<1>7. CASE work.target = "media"
  <2>1. ChangesWeights(work.from, work.target)
    BY <1>3, <1>7, Models
  <2>2. CASE work' = ToStart(work) /\ running' = running
    BY <1>1, <1>3, <1>6, <1>7, <2>2, OnToStart
  <2>3. CASE /\ work' = ToStart([work EXCEPT !.stopped = Append(@, "llm")])
             /\ running' = running \ {"llm"}
    <3> DEFINE more == [work EXCEPT !.stopped = Append(@, "llm")]
    <3>1. /\ Append(work.stopped, "llm") \in Seq(Names)
          /\ Elems(Append(work.stopped, "llm")) = Elems(work.stopped) \cup {"llm"}
      BY <1>3, <1>5, AppendElems
    <3>2. /\ more \in Work /\ more.target = work.target /\ more.from = work.from
          /\ more.faults = work.faults /\ more.started = work.started
          /\ more.before = work.before /\ more.stopped = Append(work.stopped, "llm")
      BY <1>3, <3>1 DEF Work
    <3> HIDE DEF more
    <3>3. /\ ToStart(more) \in Work /\ ToStart(more).pc = "start"
          /\ ToStart(more).todo = RequiredServices(work.target)
          /\ ToStart(more).from = work.from /\ ToStart(more).target = work.target
          /\ ToStart(more).faults = work.faults
          /\ ToStart(more).stopped = Append(work.stopped, "llm")
          /\ ToStart(more).started = work.started /\ ToStart(more).before = work.before
      BY <3>2, ToStartFields
    <3>4. work' = ToStart(more)
      BY <2>3 DEF more
    <3> QED
      BY <1>1, <1>3, <1>7, <2>3, <3>1, <3>3, <3>4, OnToStart
  <2>4. CASE work' = [ToStart(work) EXCEPT !.faults = @ + 1] /\ running' = running
    <3> DEFINE w == [ToStart(work) EXCEPT !.faults = @ + 1]
    <3>1. /\ w \in Work /\ w.pc = "start" /\ w.todo = RequiredServices(work.target)
          /\ w.from = work.from /\ w.target = work.target /\ w.faults # 0
          /\ w.started = work.started /\ w.before = work.before
      BY <1>6, FaultCounted
    <3> HIDE DEF w
    <3>2. work' = w
      BY <2>4 DEF w
    <3> QED
      BY <1>1, <1>3, <1>7, <2>4, <3>1, <3>2, OnToStart
  <2>5. CASE /\ work' = [Rollback(work) EXCEPT !.faults = @ + 1]
             /\ running' = running \ {"llm"} \/ running' = running
    BY <1>1, <1>3, <2>1, <2>5, IntoRollback
  <2> QED
    BY <1>7, <2>2, <2>3, <2>4, <2>5 DEF ApplyLlmSwaps, Fine, Fault, StopUnit
<1>8. CASE work.target # "media" /\ ChangesWeights(work.from, work.target)
  <2>1. CASE SwapOk(LlmModel(work.target)) /\ work' = ToStart(work)
    <3>1. running' = running \cup {"llm"} /\ ModelOf(work.target)'
      BY <1>6, <2>1 DEF SwapOk, ModelOf
    <3> QED
      BY <1>1, <1>3, <1>6, <1>8, <2>1, <3>1, OnToStart
  <2>2. CASE /\ SwapFailed(LlmModel(work.target))
             /\ work' = [Rollback(work) EXCEPT !.faults = @ + 1]
    <3>1. running' \subseteq Managed /\ running \subseteq running' \cup {"llm"}
      BY <1>3, <2>2 DEF SwapFailed
    <3> QED
      BY <1>1, <1>3, <1>8, <2>2, <3>1, IntoRollback
  <2> QED
    BY <1>8, <2>1, <2>2 DEF ApplyLlmSwaps, Fine, Fault
<1>9. CASE work.target # "media" /\ ~ChangesWeights(work.from, work.target)
  <2>1. work' = ToStart(work) /\ UNCHANGED <<running, override, resident>>
    BY <1>9 DEF ApplyLlmSwaps, Fine
  <2>2. lastEnd.sound => ModelOf(work.target)'
    <3>1. work.from # "media" /\ LlmModel(work.from) = LlmModel(work.target)
      BY <1>3, <1>9, Models
    <3> QED
      BY <1>4, <1>6, <2>1, <3>1 DEF ModelOf
  <2> QED
    BY <1>1, <1>3, <1>6, <1>9, <2>1, <2>2, OnToStart
<1> QED
  BY <1>7, <1>8, <1>9

LEMMA StartNextOK ==
  ASSUME GInv, StartNext
  PROVE  GInv'
<1> DEFINE u    == Head(work.todo)
           rest == [work EXCEPT !.todo = Tail(@)]
           ran  == [rest EXCEPT !.started = Append(@, u)]
           bad  == [ran EXCEPT !.faults = @ + 1]
<1>1. /\ work.pc = "start" /\ work.todo # <<>> /\ UNCHANGED <<mode, lastMem, override, lastEnd>>
  BY DEF StartNext, gov
<1>2. Moving
  BY <1>1 DEF Moving
<1>3. /\ work \in Work /\ work.from = mode /\ mode \in Modes /\ work.target \in Modes
      /\ work.from # work.target /\ running \subseteq Managed /\ work.todo \in Seq(Names)
      /\ work.started \in Seq(Names)
  BY <1>2, MovingFields
<1>4. /\ u \in Names /\ Tail(work.todo) \in Seq(Names)
      /\ Elems(work.todo) = {u} \cup Elems(Tail(work.todo))
  BY <1>1, <1>3, HeadTail
<1>5. /\ Append(work.started, u) \in Seq(Names)
      /\ Elems(Append(work.started, u)) = Elems(work.started) \cup {u}
  BY <1>3, <1>4, AppendElems
<1>6. /\ rest \in Work /\ rest.pc = "start" /\ rest.from = work.from
      /\ rest.target = work.target /\ rest.todo = Tail(work.todo)
      /\ rest.stopped = work.stopped /\ rest.started = work.started
      /\ rest.before = work.before /\ rest.faults = work.faults
  BY <1>1, <1>3, <1>4 DEF Work
<1>7. /\ ran \in Work /\ ran.pc = "start" /\ ran.from = work.from
      /\ ran.target = work.target /\ ran.todo = Tail(work.todo)
      /\ ran.stopped = work.stopped /\ ran.started = Append(work.started, u)
      /\ ran.before = work.before /\ ran.faults = work.faults
  BY <1>1, <1>3, <1>4, <1>5 DEF Work
<1>8. /\ bad \in Work /\ bad.pc = "start" /\ bad.from = work.from
      /\ bad.target = work.target /\ bad.faults # 0
  <2> HIDE DEF ran
  <2> QED
    BY <1>7, FaultCounted
<1>9. \/ u \notin Managed \ running /\ work' = rest /\ UNCHANGED <<running, resident>>
      \/ work' = bad /\ UNCHANGED <<running, resident>>
      \/ u \in Managed \ running /\ work' = ran /\ StartUnit(u)
      \/ /\ u \in Managed \ running
         /\ work' = [Rollback(rest) EXCEPT !.faults = @ + 1]
         /\ StartUnit(u) \/ UNCHANGED <<running, resident>>
  BY DEF StartNext, Fine, Fault
<1> HIDE DEF u, rest, ran, bad
<1>10. /\ \A m \in Modes : ModelOf(m) => ModelOf(m)'
       /\ running' = running \/ (u \in Managed \ running /\ running' = running \cup {u})
  BY <1>1, <1>9, UnitSteps DEF StartUnit
<1> DEFINE back == [Rollback(rest) EXCEPT !.faults = @ + 1]
<1>b. back.pc = "undo_start" /\ back.from = work.from /\ back.target = work.target
  <2>1. /\ Rollback(rest) \in Work /\ Rollback(rest).pc = "undo_start"
        /\ Rollback(rest).from = work.from /\ Rollback(rest).target = work.target
    BY <1>6, RollbackFields
  <2> QED
    BY <2>1, FaultCounted
<1>t. work'.from = work.from /\ work'.target = work.target
  <2> HIDE DEF back
  <2>1. work' \in {rest, bad, ran, back}
    BY <1>9 DEF back
  <2> QED
    BY <1>6, <1>7, <1>8, <1>b, <2>1
<1>11. lastEnd.sound /\ work.target # "media" => ModelOf(work.target)'
  <2>1. lastEnd.sound /\ work.target # "media" => ModelOf(work.target)
    BY <1>1 DEF GInv, ModelKept
  <2> QED
    BY <1>3, <1>10, <1>t, <2>1 DEF ModelOf
<1>12. CASE work' = [Rollback(rest) EXCEPT !.faults = @ + 1]
  <2>1. ~ChangesWeights(work.from, work.target) =>
          /\ work.target # "media" /\ LlmModel(work.from) = LlmModel(work.target)
    BY <1>3, Models
  <2>2. ~ChangesWeights(work.from, work.target) => (lastEnd.sound => ModelOf(work.from)')
    <3> SUFFICES ASSUME ~ChangesWeights(work.from, work.target), lastEnd.sound
                 PROVE  ModelOf(work.from)'
      OBVIOUS
    <3>1. ModelOf(work.target)
      BY <1>1, <2>1 DEF GInv, ModelKept
    <3>2. ModelOf(work.from)
      BY <2>1, <3>1 DEF ModelOf
    <3>3. work'.from = work.from
      BY <1>t
    <3> QED
      BY <1>3, <1>10, <3>2, <3>3 DEF ModelOf
  <2>3. running' \subseteq Managed /\ running \subseteq running'
    BY <1>3, <1>10
  <2>4. GInv'
    BY <1>1, <1>6, <1>12, <2>2, <2>3, IntoRollback
  <2> QED
    BY <2>4
<1>13. CASE work'.pc = "start"
  <2>1. /\ work' \in Work /\ work'.from = work.from /\ work'.target = work.target
        /\ \/ work'.faults # 0
           \/ /\ work'.faults = work.faults /\ work'.todo = Tail(work.todo)
              /\ work'.before = work.before /\ work'.stopped = work.stopped
              /\ \/ work'.started = work.started /\ running' = running /\ u \notin Managed \ running
                 \/ /\ work'.started = Append(work.started, u) /\ u \in Managed \ running
                    /\ running' = running \cup {u}
    <3>1. work' # [Rollback(rest) EXCEPT !.faults = @ + 1]
      BY <1>13, <1>b
    <3> QED
      BY <1>6, <1>7, <1>8, <1>9, <3>1 DEF StartUnit
  <2>2. TypeOK'
    BY <1>1, <1>2, <1>3, <1>10, <1>13, <2>1, MovingFields DEF TypeOK, Undoing
  <2>3. OnTheWay'
    <3> SUFFICES ASSUME work'.faults = 0
                 PROVE  /\ UnitSet(StoppedServices(work.target)) \cap running' = {}
                        /\ UnitSet(RequiredServices(work.target)) \subseteq running' \cup Elems(work'.todo)
                        /\ Elems(work'.todo) \subseteq Elems(RequiredServices(work.target))
      BY <1>13, <2>1 DEF OnTheWay
    <3>1. /\ UnitSet(StoppedServices(work.target)) \cap running = {}
          /\ UnitSet(RequiredServices(work.target)) \subseteq running \cup Elems(work.todo)
          /\ Elems(work.todo) \subseteq Elems(RequiredServices(work.target))
      BY <1>1, <1>2, <2>1 DEF GInv, OnTheWay, Undoing
    <3>2. Elems(work'.todo) \subseteq Elems(work.todo)
      BY <1>4, <2>1
    <3>3. u \in Elems(RequiredServices(work.target))
      BY <1>4, <3>1
    <3>4. u \notin UnitSet(StoppedServices(work.target))
      BY <1>3, <3>3, ModeLists, UnitsOf
    <3>5. UnitSet(RequiredServices(work.target)) \subseteq running' \cup Elems(work'.todo)
      BY <1>4, <2>1, <3>1, UnitsOf
    <3>6. UnitSet(StoppedServices(work.target)) \cap running' = {}
      BY <1>10, <3>1, <3>4
    <3> QED
      BY <3>1, <3>2, <3>5, <3>6
  <2>4. WayBack'
    <3> SUFFICES ASSUME work'.faults = 0
                 PROVE  work'.before \subseteq (running' \ Elems(work'.started)) \cup Elems(work'.stopped)
      BY <1>13, <2>1 DEF WayBack
    <3>1. work.before \subseteq (running \ Elems(work.started)) \cup Elems(work.stopped)
      BY <1>1, <2>1 DEF GInv, WayBack
    <3> QED
      BY <1>5, <2>1, <3>1
  <2>5. ModelKept'
    <3>1. lastEnd.sound /\ work'.target # "media" => ModelOf(work.target)'
      BY <1>11, <2>1
    <3> QED
      BY <1>1, <1>13, <3>1 DEF ModelKept, AtRest, Undoing
  <2> QED
    BY <1>13, <2>2, <2>3, <2>4, <2>5, InTheMiddle DEF GInv
<1> QED
  BY <1>6, <1>7, <1>8, <1>9, <1>12, <1>13

LEMMA CommitOK ==
  ASSUME GInv, Commit
  PROVE  GInv'
<1>1. /\ work.pc = "start" /\ work.todo = <<>>
      /\ UNCHANGED <<lastMem, running, override, resident>>
  BY DEF Commit, disk
<1>2. Moving
  BY <1>1 DEF Moving
<1>3. /\ work \in Work /\ mode \in Modes /\ work.target \in Modes /\ work.faults \in Nat
      /\ running \subseteq Managed /\ lastMem \in Int /\ lastEnd.sound \in BOOLEAN
  BY <1>2, MovingFields
<1>4. CASE Ended("abandoned") /\ work' = Resting /\ mode' = mode
  <2>1. lastEnd'.how = "abandoned" /\ lastEnd'.sound = FALSE
    BY <1>4 DEF Ended
  <2> QED
    BY <1>1, <1>3, <1>4, <2>1, GivenUp
<1>5. CASE /\ work' = AfterTransition(work.reading) /\ mode' = work.target
           /\ Ended(IF work.faults = 0 THEN "clean" ELSE "patchy")
  <2>1. work' \in Work /\ work'.pc \in {"rest", "pressure"}
    <3>1. work.reading \in Int
      BY <1>3 DEF Work
    <3> QED
      BY <1>5, <3>1, RestingIsWork DEF AfterTransition, Work, Pcs
  <2>2. /\ lastEnd'.how = IF work.faults = 0 THEN "clean" ELSE "patchy"
        /\ lastEnd'.sound \in BOOLEAN /\ (lastEnd'.sound => lastEnd.sound)
    BY <1>3, <1>5 DEF Ended
  <2>3. TypeOK'
    BY <1>1, <1>3, <1>5, <2>1, <2>2 DEF TypeOK, Moving, Undoing
  <2>4. OnTheWay' /\ WayBack'
    BY <2>1 DEF OnTheWay, WayBack, Moving
  <2>5. ModelKept'
    <3>1. lastEnd.sound /\ work.target # "media" => ModelOf(work.target)
      BY <1>1 DEF GInv, ModelKept
    <3> QED
      BY <1>1, <1>5, <2>1, <2>2, <3>1 DEF ModelKept, ModelOf, AtRest, Undoing
  <2>6. ServicesFollowMode'
    <3>1. work.faults = 0 =>
            /\ UnitSet(StoppedServices(work.target)) \cap running = {}
            /\ UnitSet(RequiredServices(work.target)) \subseteq running
      BY <1>1, <1>2, EmptyElems DEF GInv, OnTheWay, Undoing
    <3>2. CleanTransitionServes'
      BY <1>1, <1>5, <2>2, <3>1 DEF CleanTransitionServes, Required
    <3>3. RollbackRestores'
      BY <2>2 DEF RollbackRestores
    <3> QED
      BY <3>2, <3>3 DEF ServicesFollowMode
  <2> QED
    BY <2>3, <2>4, <2>5, <2>6 DEF GInv
<1> QED
  BY <1>4, <1>5 DEF Commit, Fine, FaultEnd

(* A step of the rollback in which nothing fails, or something does. *)
LEMMA InRollback ==
  ASSUME GInv, Undoing, work' \in Work, work'.pc \in {"undo_start", "undo_stop"},
         work'.from = work.from, work'.target = work.target, work'.faults >= work.faults,
         running' \subseteq Managed, UNCHANGED <<mode, lastMem, lastEnd, override>>,
         \A m \in Modes : ModelOf(m) => ModelOf(m)',
         WayBack'
  PROVE  GInv'
<1>1. Moving
  BY DEF Moving, Undoing
<1>2. work.faults \in Nat /\ work'.faults \in Nat /\ work.faults # 0 /\ work.from \in Modes
  BY DEF GInv, TypeOK, Work
<1>3. work'.faults # 0
  BY <1>2
<1>4. TypeOK'
  BY <1>1, <1>3, MovingFields DEF TypeOK
<1>5. OnTheWay'
  BY DEF OnTheWay, Undoing
<1>6. ModelKept'
  BY <1>2 DEF GInv, ModelKept, ModelOf, AtRest, Undoing
<1> QED
  BY <1>4, <1>5, <1>6, InTheMiddle DEF GInv

LEMMA UndoStartOK ==
  ASSUME GInv, UndoStart
  PROVE  GInv'
<1>1. work.pc = "undo_start" /\ UNCHANGED <<mode, lastMem, lastEnd, override>>
  BY DEF UndoStart, gov
<1>2. Moving /\ Undoing
  BY <1>1 DEF Moving, Undoing
<1>3. /\ work \in Work /\ running \subseteq Managed /\ work.started \in Seq(Names)
      /\ work.stopped \in Seq(Names) /\ work.faults \in Nat /\ work.faults # 0
  BY <1>2, MovingFields DEF GInv, TypeOK
<1>4. work.faults = 1 =>
        work.before \cap UnitSet(RequiredServices(work.from))
          \subseteq (running \ Elems(work.started)) \cup Elems(work.stopped) \cup Reloaded
  BY <1>1 DEF GInv, WayBack
<1>5. CASE work.started = <<>>
  <2> DEFINE w == [work EXCEPT !.pc = "undo_stop", !.todo = work.stopped]
  <2>1. work' = w /\ UNCHANGED <<running, resident>>
    BY <1>5 DEF UndoStart, Fine
  <2>2. /\ w \in Work /\ w.pc = "undo_stop" /\ w.todo = work.stopped /\ w.from = work.from
        /\ w.target = work.target /\ w.stopped = work.stopped /\ w.before = work.before
        /\ w.faults = work.faults
    BY <1>3 DEF Work, Pcs
  <2> HIDE DEF w
  <2>3. Reloaded' = Reloaded
    BY <2>1, <2>2 DEF Reloaded
  <2>4. WayBack'
    <3> SUFFICES ASSUME work.faults = 1
                 PROVE  work.before \cap UnitSet(RequiredServices(work.from))
                          \subseteq running' \cup (Elems(work.stopped) \cap ToRestore(w)) \cup Reloaded
      BY <2>1, <2>2, <2>3 DEF WayBack
    <3>1. ToRestore(w) = UnitSet(work.stopped) \cap UnitSet(RequiredServices(work.from))
      BY <2>2 DEF ToRestore
    <3> QED
      BY <1>4, <1>5, <2>1, <3>1, EmptyElems, UnitsOf
  <2>5. \A m \in Modes : ModelOf(m) => ModelOf(m)'
    BY <1>1, <2>1, UnitSteps
  <2>6. work'.faults >= work.faults
    BY <1>3, <2>1, <2>2
  <2> QED
    BY <1>1, <1>2, <1>3, <2>1, <2>2, <2>4, <2>5, <2>6, InRollback
<1>6. CASE work.started # <<>>
  <2> DEFINE u    == work.started[Len(work.started)]
             less == SubSeq(work.started, 1, Len(work.started) - 1)
             rest == [work EXCEPT !.started = less]
             bad  == [rest EXCEPT !.faults = @ + 1]
  <2>1. /\ u \in Names /\ less \in Seq(Names)
        /\ u \in Elems(work.started) /\ Elems(less) \subseteq Elems(work.started)
    BY <1>3, <1>6, PopElems
  <2>2. \/ work' = rest /\ StopUnit(u)
        \/ work' = bad /\ (StopUnit(u) \/ UNCHANGED <<running, resident>>)
    BY <1>6 DEF UndoStart, Fine, Fault
  <2> HIDE DEF u, less
  <2>3. /\ rest \in Work /\ rest.pc = "undo_start" /\ rest.started = less
        /\ rest.from = work.from /\ rest.target = work.target /\ rest.faults = work.faults
        /\ rest.stopped = work.stopped /\ rest.before = work.before
    BY <1>1, <1>3, <2>1 DEF Work
  <2> HIDE DEF rest
  <2>4. /\ bad \in Work /\ bad.pc = "undo_start" /\ bad.from = work.from
        /\ bad.target = work.target /\ bad.faults = work.faults + 1
    BY <2>3, FaultCounted
  <2> HIDE DEF bad
  <2>5. /\ work' \in Work /\ work'.pc = "undo_start" /\ work'.from = work.from
        /\ work'.target = work.target /\ work'.faults >= work.faults
        /\ running' \subseteq running
    BY <1>3, <2>2, <2>3, <2>4 DEF StopUnit
  <2>6. \A m \in Modes : ModelOf(m) => ModelOf(m)'
    BY <1>1, <2>2, UnitSteps
  <2>7. WayBack'
    <3> SUFFICES ASSUME work'.faults = 1
                 PROVE  work'.before \cap UnitSet(RequiredServices(work'.from))
                          \subseteq (running' \ Elems(work'.started)) \cup Elems(work'.stopped)
                                    \cup Reloaded'
      BY <2>5 DEF WayBack
    <3>1. work' = rest /\ StopUnit(u) /\ work.faults = 1
      BY <1>3, <2>2, <2>3, <2>4
    <3>2. Reloaded' = Reloaded
      BY <2>5 DEF Reloaded
    <3>3. /\ running' = running \ {u} /\ work'.started = less /\ work'.before = work.before
          /\ work'.stopped = work.stopped /\ work'.from = work.from
      BY <2>3, <3>1 DEF StopUnit
    <3>4. running \ Elems(work.started) \subseteq running' \ Elems(less)
      BY <2>1, <3>3
    <3> QED
      BY <1>4, <3>1, <3>2, <3>3, <3>4
  <2> QED
    BY <1>1, <1>2, <1>3, <2>5, <2>6, <2>7, InRollback
<1> QED
  BY <1>5, <1>6

LEMMA UndoStopOK ==
  ASSUME GInv, UndoStop
  PROVE  GInv'
<1> DEFINE u    == Head(work.todo)
           rest == [work EXCEPT !.todo = Tail(@)]
           bad  == [rest EXCEPT !.faults = @ + 1]
<1>1. /\ work.pc = "undo_stop" /\ work.todo # <<>> /\ UNCHANGED <<mode, lastMem, lastEnd, override>>
  BY DEF UndoStop, gov
<1>2. Moving /\ Undoing
  BY <1>1 DEF Moving, Undoing
<1>3. /\ work \in Work /\ running \subseteq Managed /\ work.todo \in Seq(Names)
      /\ work.faults \in Nat /\ work.faults # 0
  BY <1>2, MovingFields DEF GInv, TypeOK
<1>4. /\ u \in Names /\ Tail(work.todo) \in Seq(Names)
      /\ Elems(work.todo) = {u} \cup Elems(Tail(work.todo))
  BY <1>1, <1>3, HeadTail
<1>5. \/ u \notin ToRestore(work) /\ work' = rest /\ UNCHANGED <<running, resident>>
      \/ u \in ToRestore(work) /\ work' = rest /\ StartUnit(u)
      \/ /\ u \in ToRestore(work) /\ work' = bad
         /\ StartUnit(u) \/ UNCHANGED <<running, resident>>
  BY DEF UndoStop, Fine, Fault
<1>6. /\ rest \in Work /\ rest.pc = "undo_stop" /\ rest.from = work.from
      /\ rest.target = work.target /\ rest.todo = Tail(work.todo)
      /\ rest.stopped = work.stopped /\ rest.before = work.before
      /\ rest.faults = work.faults
  BY <1>1, <1>3, <1>4 DEF Work
<1> HIDE DEF u, rest
<1>7. /\ bad \in Work /\ bad.pc = "undo_stop" /\ bad.from = work.from
      /\ bad.target = work.target /\ bad.faults = work.faults + 1
  BY <1>6, FaultCounted
<1> HIDE DEF bad
<1>8. /\ work' \in Work /\ work'.pc = "undo_stop" /\ work'.from = work.from
      /\ work'.target = work.target /\ work'.faults >= work.faults
  BY <1>3, <1>5, <1>6, <1>7
<1>9. running' \subseteq Managed /\ \A m \in Modes : ModelOf(m) => ModelOf(m)'
  <2>1. ToRestore(work) \subseteq Managed
    BY UnitsOf DEF ToRestore
  <2> QED
    BY <1>1, <1>3, <1>5, <2>1, UnitSteps DEF StartUnit
<1>10. WayBack'
  <2> SUFFICES ASSUME work'.faults = 1
               PROVE  work'.before \cap UnitSet(RequiredServices(work'.from))
                        \subseteq running' \cup (Elems(work'.todo) \cap ToRestore(work'))
                                  \cup Reloaded'
    BY <1>8 DEF WayBack
  <2>1. /\ work' = rest /\ work.faults = 1
        /\ \/ u \notin ToRestore(work) /\ running' = running
           \/ running' = running \cup {u}
    BY <1>3, <1>5, <1>6, <1>7 DEF StartUnit
  <2>2. work.before \cap UnitSet(RequiredServices(work.from))
          \subseteq running \cup (Elems(work.todo) \cap ToRestore(work)) \cup Reloaded
    BY <1>1, <2>1 DEF GInv, WayBack
  <2>3. Reloaded' = Reloaded /\ ToRestore(rest) = ToRestore(work)
    BY <1>6, <1>8 DEF Reloaded, ToRestore
  <2> QED
    BY <1>4, <1>6, <2>1, <2>2, <2>3
<1> QED
  BY <1>1, <1>2, <1>8, <1>9, <1>10, InRollback

LEMMA UndoLlmOK ==
  ASSUME GInv, UndoLlm
  PROVE  GInv'
<1>1. work.pc = "undo_stop" /\ work.todo = <<>> /\ UNCHANGED <<mode, lastMem>>
  BY DEF UndoLlm, gov
<1>2. Moving /\ Undoing
  BY <1>1 DEF Moving, Undoing
<1>3. /\ work \in Work /\ mode \in Modes /\ work.from = mode /\ work.target \in Modes
      /\ running \subseteq Managed /\ lastMem \in Int /\ lastEnd.sound \in BOOLEAN
      /\ "llm" \in Managed
  BY <1>2, MovingFields, GovernorAssumption
<1>4. running' \subseteq Managed
  BY <1>3 DEF UndoLlm, SwapOk, SwapFailed, StopUnit
<1>5. CASE UndoneBadly
  <2>1. work' = Resting /\ lastEnd'.how = "abandoned" /\ lastEnd'.sound = FALSE
    BY <1>5 DEF UndoneBadly, FaultEnd, Ended
  <2> QED
    BY <1>1, <1>3, <1>4, <2>1, GivenUp
<1>6. CASE /\ UndoneFine
           /\ \/ /\ ~ChangesWeights(work.from, work.target)
                 /\ UNCHANGED <<running, override, resident>>
              \/ /\ ChangesWeights(work.from, work.target) /\ work.from # "media"
                 /\ SwapOk(LlmModel(work.from))
              \/ ChangesWeights(work.from, work.target) /\ work.from = "media"
                 /\ running' = running \ {"llm"}
  <2>1. /\ work' = Resting
        /\ lastEnd'.how = IF work.faults = 1 THEN "rolled_back" ELSE "abandoned"
        /\ lastEnd'.sound \in BOOLEAN /\ (lastEnd'.sound => lastEnd.sound)
        /\ work.faults = 1 => lastEnd'.before = work.before
    BY <1>3, <1>6 DEF UndoneFine, Fine, Ended
  <2>2. TypeOK'
    BY <1>1, <1>3, <1>4, <2>1, RestingIsWork DEF TypeOK, Moving, Undoing
  <2>3. OnTheWay' /\ WayBack'
    BY <2>1, RestingIsWork DEF OnTheWay, WayBack, Moving
  <2>4. ModelKept'
    <3>1. ASSUME lastEnd.sound, mode # "media"
          PROVE  ModelOf(mode)'
      <4>1. CASE ~ChangesWeights(work.from, work.target)
        <5>1. ModelOf(work.from)
          BY <1>2, <1>3, <3>1, <4>1 DEF GInv, ModelKept
        <5> QED
          BY <1>1, <1>3, <1>6, <4>1, <5>1 DEF ModelOf
      <4>2. CASE ChangesWeights(work.from, work.target)
        BY <1>1, <1>3, <1>6, <3>1, <4>2 DEF SwapOk, ModelOf
      <4> QED
        BY <4>1, <4>2
    <3> QED
      BY <1>1, <2>1, <3>1, RestingIsWork DEF ModelKept, AtRest, Undoing
  <2>5. ServicesFollowMode'
    <3>1. CleanTransitionServes'
      BY <2>1 DEF CleanTransitionServes
    <3>2. RollbackRestores'
      <4> SUFFICES ASSUME work.faults = 1
                   PROVE  UnitSet(RequiredServices(mode)) \cap work.before \subseteq running'
        BY <1>1, <2>1 DEF RollbackRestores, Required
      <4>1. UnitSet(RequiredServices(mode)) \cap work.before \subseteq running \cup Reloaded
        BY <1>1, <1>3, EmptyElems DEF GInv, WayBack
      <4>2. work.from = "media" => "llm" \notin UnitSet(RequiredServices(mode))
        BY <1>3, ModeUnits
      <4> QED
        BY <1>6, <4>1, <4>2 DEF Reloaded, SwapOk
    <3> QED
      BY <3>1, <3>2 DEF ServicesFollowMode
  <2> QED
    BY <2>2, <2>3, <2>4, <2>5 DEF GInv
<1> QED
  BY <1>5, <1>6 DEF UndoLlm, StopUnit

LEMMA HandlePressureOK ==
  ASSUME GInv, HandlePressure
  PROVE  GInv'
<1>1. /\ work.pc = "pressure" /\ UNCHANGED <<mode, lastMem, override, resident, lastEnd>>
      /\ work' = Resting
      /\ running' \subseteq running /\ running \subseteq running' \cup {"nextcloud", "jellyfin"}
  BY DEF HandlePressure, Fine, FaultEnd
<1>2. lastMem' \in Int
  BY <1>1 DEF GInv, TypeOK
<1> QED
  BY <1>1, <1>2, RestingIsWork, StayAtRest DEF AtRest

-----------------------------------------------------------------------------
LEMMA ModeChosen ==
  ASSUME GInv
  PROVE  \A reading \in Int :
           DetermineMode(reading) \in Modes /\ DetermineModeAfterMedia(reading) \in Modes
<1>1. TimeBasedMode \in Modes /\ "media" \in Modes /\ "pressure" \in Modes /\ mode \in Modes
  BY DEF TimeBasedMode, Modes, GInv, TypeOK
<1> QED
  BY <1>1 DEF DetermineMode, DetermineModeAfterMedia

LEMMA GNextOK ==
  ASSUME GInv, [Next]_vars
  PROVE  GInv'
<1>0. lastMem \in Int /\ NoReading \in Int /\ Levels \cup {NoReading} \subseteq Int
  BY GovernorAssumption DEF GInv, TypeOK, NoReading
<1>1. CASE Tick
  <2>1. PICK reading \in Levels \cup {NoReading} :
          ReadMem(reading, {}) /\ Begin(DetermineMode(reading), reading)
    BY <1>1 DEF Tick
  <2>2. work.pc = "rest" /\ UNCHANGED <<mode, running, override, resident, lastEnd>>
    BY <1>1 DEF Tick, disk
  <2>3. lastMem' \in Int
    BY <1>0, <2>1 DEF ReadMem
  <2> QED
    BY <1>0, <2>1, <2>2, <2>3, ModeChosen, BeginOK
<1>2. CASE Steps
  BY <1>2, StopNextOK, ApplyLlmSwapsOK, StartNextOK, CommitOK, UndoStartOK, UndoStopOK,
     UndoLlmOK, HandlePressureOK DEF Steps
<1>3. ASSUME NEW m \in Modes, SetMode(m)
      PROVE  GInv'
  <2>1. /\ work.pc = "rest" /\ Begin(m, NoReading)
        /\ UNCHANGED <<mode, lastMem, running, override, resident, lastEnd>>
    BY <1>3 DEF SetMode, gov, disk
  <2> QED
    BY <1>0, <2>1, BeginOK
<1>4. CASE MediaStart
  <2>1. /\ work.pc = "rest" /\ Begin("media", NoReading) /\ "media" \in Modes
        /\ UNCHANGED <<mode, lastMem, running, override, resident, lastEnd>>
    BY <1>4 DEF MediaStart, gov, Modes
  <2> QED
    BY <1>0, <2>1, BeginOK
<1>5. CASE MediaStop
  <2>1. PICK reading \in Levels \cup {NoReading} :
          /\ ReadMem(reading, {"commands"})
          /\ Begin(DetermineModeAfterMedia(reading), NoReading)
    BY <1>5 DEF MediaStop
  <2>2. work.pc = "rest" /\ UNCHANGED <<mode, running, override, resident, lastEnd>>
    BY <1>5 DEF MediaStop
  <2>3. lastMem' \in Int
    BY <1>0, <2>1 DEF ReadMem
  <2> QED
    BY <1>0, <2>1, <2>2, <2>3, ModeChosen, BeginOK
<1>6. CASE Status
  <2>1. UNCHANGED <<mode, work, running, override, resident, lastEnd>>
    BY <1>6 DEF Status, disk
  <2>2. lastMem' \in Int
    BY <1>0, <1>6 DEF Status, ReadMem
  <2> QED
    BY <2>1, <2>2, Unconcerned
<1>7. CASE MarkerFallback
  <2>1. UNCHANGED <<mode, lastMem, work, running, override, resident, lastEnd>>
    BY <1>7 DEF MarkerFallback, gov
  <2> QED
    BY <1>0, <2>1, Unconcerned
<1>8. CASE Shift
  <2>1. UNCHANGED <<mode, lastMem, work, running, override, resident, lastEnd>>
    BY <1>8 DEF Shift, gov, disk
  <2> QED
    BY <1>0, <2>1, Unconcerned
<1>9. CASE Crash
  <2>1. /\ work' = Resting /\ mode' = "day" /\ lastMem' = NoReading /\ running' = running
        /\ lastEnd'.how = "crashed" /\ lastEnd'.sound = FALSE
    BY <1>9 DEF Crash, disk
  <2>2. mode' \in Modes /\ running' \subseteq Managed /\ lastMem' \in Int
    BY <1>0, <2>1 DEF Modes, GInv, TypeOK
  <2> QED
    BY <2>1, <2>2, GivenUp
<1>10. CASE UNCHANGED vars
  BY <1>0, <1>10, Unconcerned DEF vars
<1> QED
  BY <1>1, <1>2, <1>3, <1>4, <1>5, <1>6, <1>7, <1>8, <1>9, <1>10 DEF Next

LEMMA GovernorKeeps == Spec => []GInv
<1>1. Init => GInv
  BY GInitOK
<1>2. GInv /\ [Next]_vars => GInv'
  BY GNextOK
<1> QED
  BY <1>1, <1>2, PTL DEF Spec

(***************************************************************************)
(* ServicesFollowMode holds of every behaviour: for any set of managed     *)
(* units, a transition without a failing operation leaves exactly what     *)
(* mode.rs asks for, and a rollback that succeeds puts back every service  *)
(* of the old mode that ran before it (Governor::transition,               *)
(* rollback_transition).                                                   *)
(***************************************************************************)
THEOREM ServicesAlwaysFollow == Spec => []ServicesFollowMode
<1>1. GInv => ServicesFollowMode
  BY DEF GInv
<1> QED
  BY <1>1, GovernorKeeps, PTL

(***************************************************************************)
(* ResidentModelFits holds of every behaviour: through any sequence of     *)
(* mode changes and rollbacks, no mode but media is left with another      *)
(* mode's model resident (apply_llm_swaps, llm_rollback_action).           *)
(***************************************************************************)
THEOREM ResidentModelAlwaysFits == Spec => []ResidentModelFits
<1>1. GInv => ResidentModelFits
  BY DEF GInv, ModelKept, ModelOf, ResidentModelFits
<1> QED
  BY <1>1, GovernorKeeps, PTL
=============================================================================
