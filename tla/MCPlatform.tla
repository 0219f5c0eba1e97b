----------------------------- MODULE MCPlatform -----------------------------
(***************************************************************************)
(* The platform around genie-core: the two HTTP servers and the hop        *)
(* between them, the readers of their messages, the health monitor with    *)
(* the page that shows its log, the media of the Telegram adapter and the  *)
(* software updates.                                                       *)
(* The five share no state, so a behaviour is one of them: part says       *)
(* which, and the others rest in one of their initial states.              *)
(***************************************************************************)
EXTENDS HttpServers, HttpReader, HealthMonitor, TelegramMedia, Updates

VARIABLE part
parts == <<part, httpVars, readerVars, healthVars, mediaVars, updateVars>>

-----------------------------------------------------------------------------
(* Requests: every route of both servers, each also with what a gate may   *)
(* refuse, one connection at a time; and three connections of two clients  *)
(* that stall, vanish, send too much, do not read their answer or wait for *)
(* a busy genie-core.                                                      *)
Ask(server, method, path) ==
  [server |-> server, method |-> method, path |-> path, query |-> FALSE, token |-> "good",
   host |-> "own", origin |-> "none", claim |-> "none", claimToken |-> "none", lan |-> FALSE,
   body |-> "json", wire |-> "whole", reads |-> TRUE]

Everything ==
  UNION {{Ask("core", m, p) : p \in CoreRoutes[m]} \cup {Ask("api", m, p) : p \in ApiRoutes[m]}
           : m \in {"GET", "POST"}}
  \cup {Ask("api", "GET", "/nothing"), Ask("core", "OPTIONS", "/"),
       Ask("core", "GET", LongerExport), Ask("api", "GET", LongerExport)}

Faulty(r) ==
  {r, [r EXCEPT !.token = "bad"], [r EXCEPT !.host = "foreign"], [r EXCEPT !.origin = "foreign"],
   [r EXCEPT !.query = TRUE, !.token = "none"],
   [r EXCEPT !.claim = "voice", !.lan = TRUE], [r EXCEPT !.claim = "voice"],
   [r EXCEPT !.claim = "telegram", !.claimToken = "good", !.lan = TRUE],
   [r EXCEPT !.claim = "telegram"], [r EXCEPT !.body = "none"], [r EXCEPT !.body = "junk"]}

Wedged == {Ask("core", "POST", "/api/chat"), Ask("api", "POST", "/api/actuation/confirm"),
           [Ask("api", "GET", "/api/services") EXCEPT !.wire = "stall"]}
Slow   == {[Ask("core", "GET", "/api/health") EXCEPT !.wire = "vanish"],
           Ask("api", "GET", "/api/memories"), [Ask("api", "GET", "/") EXCEPT !.wire = "oversize"]}
Deaf   == {[Ask("api", "GET", "/dashboard.js") EXCEPT !.reads = FALSE],
           Ask("api", "POST", "/api/memories/delete")}

MCMenus == {[ask |-> {q}, opens |-> 1] : q \in UNION {Faulty(r) : r \in Everything}}
           \cup {[ask |-> m, opens |-> 3] : m \in {Wedged, Slow, Deaf}}
MCSlots == [api |-> 1, core |-> 1]

-----------------------------------------------------------------------------
(* Messages: heads within and beyond every bound, bodies that are shorter, *)
(* equal and longer than announced, chunkings of every kind, and messages  *)
(* cut anywhere.                                                           *)
L(is, len) == [is |-> is, len |-> len, value |-> None]
CL(n)      == [is |-> "length", len |-> 2, value |-> n]

HeaderLines == {L("named", 2), L("named", 4), L("plain", 3), CL(None), CL(2)}
SomeHeaders ==
  UNION {[1..n -> HeaderLines] : n \in 0..2}
  \cup {<<L("chunked", 2)>>, <<CL(3)>>, <<CL(0)>>, <<CL(10)>>, <<CL(2), L("chunked", 2)>>,
        <<L("plain", 2), L("plain", 2), L("named", 2)>>}

ChunkOf(line, size) == [line |-> line, size |-> size, tail |-> 2]
Trailer(len) == [ChunkOf(1, 0) EXCEPT !.tail = len]
Chunkings == {<<ChunkOf(1, 0)>>, <<ChunkOf(1, 1), ChunkOf(1, 0)>>, <<ChunkOf(2, 3), ChunkOf(1, 0)>>,
              <<ChunkOf(1, None)>>, <<ChunkOf(3, 0)>>, <<ChunkOf(1, 10), ChunkOf(1, 0)>>,
              <<ChunkOf(1, 1), ChunkOf(1, 2), ChunkOf(1, 0)>>, <<ChunkOf(1, 1), Trailer(3)>>,
              <<Trailer(1)>>, <<ChunkOf(1, 2), ChunkOf(1, 1), ChunkOf(1, 0)>>,
              [i \in 1..15 |-> IF i = 15 THEN ChunkOf(1, 0) ELSE ChunkOf(1, 1)]}

Firsts == [read_request  |-> {L("request", 3), L("request", 4), L("short", 1)},
           read_response |-> {L("status", 3), L("status", 4)},
           http_request  |-> {L("status", 3), L("short", 3)}]

Message(by, lines, chunks, bytes) ==
  [by |-> by, lines |-> lines, chunks |-> chunks, sent |-> bytes]
HasChunks(h) == \E i \in DOMAIN h : h[i].is = "chunked"

WholeMessages(by) ==
  UNION {{Message(by, <<f>> \o h \o <<L("blank", 2)>>, c, n) :
            c \in IF HasChunks(h) THEN Chunkings ELSE {<<>>},
            n \in IF HasChunks(h) THEN {0, 1, 4, 5, 7, 13, 57} ELSE {0, 1, 2, 3}} :
         f \in Firsts[by], h \in SomeHeaders}
CutMessages(by) ==
  {Message(by, <<f>> \o h \o cut, <<>>, 0) :
     f \in Firsts[by], h \in SomeHeaders, cut \in {<<>>, <<L("blank", 1)>>}}

MCWires ==
  UNION {WholeMessages(by) \cup {Message(by, <<>>, <<>>, 0)} : by \in DOMAIN Firsts}
  \cup CutMessages("read_request") \cup CutMessages("read_response")
  \cup {Message("http_request", <<L("status", 3), L("named", 2)>>, <<>>, 0)}

MCEndpoints == <<"core">>

(* Replies of the adapter: ones that are spoken, one of several pieces, an *)
(* empty one, and one of which the first piece is.                         *)
W == Letter
MCAnswers == {<<W>>, <<W, W, " ", W, Newline, W, W, W, W, W>>, <<>>, <<" ", W, " ">>,
              <<Newline, Newline, W, W, W, W, W>>}
MCAudio == {[asVoice |-> TRUE, delete |-> TRUE], [asVoice |-> TRUE, delete |-> FALSE],
            [asVoice |-> FALSE, delete |-> TRUE]}

(* Releases and pre-releases of neighbouring versions, with and without build metadata. *)
V(core, pre, build) == [core |-> core, pre |-> pre, build |-> build]
Pres == {<<>>, <<Word(1)>>, <<Word(1), Num(2)>>, <<Word(1), Num(10)>>, <<Word(1), Word(1)>>,
         <<Word(2)>>, <<Num(3)>>}
Builds == {<<>>, <<Num(7)>>, <<Word(1), Sep("-"), Num(2)>>}
MCVersions == {V(<<1, 0, 0>>, p, b) : p \in Pres, b \in Builds}
              \cup {V(c, p, <<>>) : c \in {<<1, 9, 0>>, <<1, 10, 0>>, <<0, 10, 9>>, <<2, 0, 0>>},
                                    p \in {<<>>, <<Word(1), Num(2)>>}}
MCBinaries == <<"genie-core", "genie-ctl", "genie-api">>

-----------------------------------------------------------------------------
AnyMenu == CHOOSE m \in MCMenus : TRUE
AnyWire == CHOOSE w \in MCWires : w.by = "read_request"
AnyVersion == V(<<1, 0, 0>>, <<>>, <<>>)
Pinned(p, f) == part # p => f

Init ==
  /\ part \in {"servers", "reader", "health", "media", "updates", "copies"}
  /\ Pinned("reader", wire = AnyWire) /\ ReaderInit
  /\ Pinned("servers", menu = AnyMenu) /\ HttpInit
  /\ HealthInit
  /\ MediaInit /\ Pinned("media", process.asVoice /\ process.delete)
  /\ Pinned("updates", installed = AnyVersion /\ released = AnyVersion)
  /\ Pinned("copies", bin = [b \in Range(Binaries) |-> 1]) /\ UpdateInit

Next ==
  \/ part = "servers" /\ HttpNext /\ UNCHANGED <<part, readerVars, healthVars, mediaVars, updateVars>>
  \/ part = "reader" /\ ReaderNext /\ UNCHANGED <<part, httpVars, healthVars, mediaVars, updateVars>>
  \/ part = "health" /\ HealthNext /\ UNCHANGED <<part, httpVars, readerVars, mediaVars, updateVars>>
  \/ part = "media" /\ MediaNext /\ UNCHANGED <<part, httpVars, readerVars, healthVars, updateVars>>
  \/ part = "updates" /\ CheckNext /\ UNCHANGED <<part, httpVars, readerVars, healthVars, mediaVars>>
  \/ part = "copies" /\ CopyNext /\ UNCHANGED <<part, httpVars, readerVars, healthVars, mediaVars>>

Spec == Init /\ [][Next]_parts /\ HttpFairness
=============================================================================
