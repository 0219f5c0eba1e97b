------------------------------ MODULE HttpReader ------------------------------
(***************************************************************************)
(* The three hand-written HTTP/1.1 readers, one peer at a time:            *)
(*   read_request   what genie-core and genie-api accept (common http.rs)  *)
(*   read_response  what the outbound clients accept     (common http.rs)  *)
(*   http_request   the probe and proxy client           (common probe.rs) *)
(* A message is its lines and body as lengths; the network delivers it in  *)
(* pieces of any size, may stall, and may close anywhere.  What a reader   *)
(* makes of a message must not depend on the pieces.                       *)
(***************************************************************************)
EXTENDS Integers, Sequences, FiniteSets, FiniteSetsExt

CONSTANTS Wires,          \* the messages peers may send
          MaxLine,        \* max_request_line_bytes, max_status_line_bytes
          MaxHeaderLine,  \* max_header_line_bytes
          MaxHeaders,     \* max_header_count
          MaxHeaderBytes, \* max_header_bytes
          MaxBody,        \* max_body_bytes
          MaxResponse,    \* max_response_bytes of the probe
          MaxChunkLine,   \* MAX_CHUNK_SIZE_LINE_BYTES
          ReadSize        \* the probe's read buffer

\* A message that stops inside its head has no body.
ASSUME HttpReaderAssumption ==
    /\ \A w \in Wires : w.sent > 0 => \E i \in DOMAIN w.lines : w.lines[i].is = "blank" /\ w.lines[i].len = 2
    /\ \A n \in {MaxLine, MaxHeaderLine, MaxHeaderBytes, MaxChunkLine, ReadSize} : n \in Nat \ {0}
    /\ MaxHeaders \in Nat /\ MaxBody \in Nat /\ MaxResponse \in Nat

VARIABLES wire, \* the message: reader, lines [is, len, value], chunks [line, size, tail], sent body bytes
          rd    \* the reader: its place in the message and what it has counted
readerVars == <<wire, rd>>

None == -1 \* no Content-Length, or one that is not a number

ReaderInit ==
    /\ wire \in Wires
    /\ rd = [at |-> 1, got |-> 0, count |-> 0, total |-> 0, length |-> None, lengths |-> 0, chunked |-> FALSE,
             stage |-> IF wire.by = "http_request" THEN "head" ELSE "lines",
             off |-> 0, body |-> 0, result |-> "none"]

Done(result) == rd' = [rd EXCEPT !.result = result, !.stage = "end"]
Line == wire.lines[rd.at]
Bytes(from, to) == MapThenSumSet(LAMBDA i : wire.lines[i].len, from..to)

-----------------------------------------------------------------------------
(* read_line_bounded, read_request_inner, read_response_inner              *)

LineCap == IF rd.at = 1 THEN MaxLine ELSE MaxHeaderLine

\* Checked before each line of the head, the blank one too: MaxHeaders is one
\* more than a message may have.
TooMany(count) == count >= MaxHeaders

\* A request counts the lines with a colon, a response every line.
Counted(l) == IF wire.by = "read_request" THEN l.is # "plain" ELSE TRUE

Header(l, read) ==
    LET total == rd.total + read
        next == [rd EXCEPT !.at = @ + 1, !.got = 0, !.total = total,
                           !.count = IF Counted(l) THEN @ + 1 ELSE @]
    IN  IF total > MaxHeaderBytes THEN Done("too large")
        ELSE IF l.is = "blank" THEN rd' = [rd EXCEPT !.total = total, !.stage = "body"]
        ELSE IF wire.by = "read_response"
        THEN rd' = [next EXCEPT !.length = IF l.is = "length" THEN l.value ELSE @,
                                !.chunked = @ \/ l.is = "chunked"]
        ELSE IF l.is = "chunked" \/ (l.is = "length" /\ (rd.lengths > 0 \/ l.value = None))
        THEN Done("bad request")
        ELSE rd' = [next EXCEPT !.length = IF l.is = "length" THEN l.value ELSE @,
                                !.lengths = IF l.is = "length" THEN @ + 1 ELSE @]

\* The line is complete: at its newline, or at the end of a peer that closed.
FinishLine(read) ==
    IF rd.at > 1 THEN Header(Line, read)
    ELSE IF wire.by = "read_request" /\ Line.is = "short" THEN Done("malformed")
    ELSE rd' = [rd EXCEPT !.at = 2, !.got = 0]

\* One fill_buf: k more bytes of the current line are there.
ReadLineBounded(k) ==
    /\ rd.stage = "lines" /\ rd.at <= Len(wire.lines)
    /\ IF rd.at > 1 /\ rd.got = 0 /\ TooMany(rd.count) THEN Done("too many")
       ELSE IF rd.got + k > LineCap THEN Done("too long")
       ELSE IF rd.got + k = Line.len THEN FinishLine(rd.got + k)
       ELSE rd' = [rd EXCEPT !.got = @ + k]
    /\ UNCHANGED wire

ReadLine == rd.stage = "lines" /\ rd.at <= Len(wire.lines)
            /\ \E k \in 1..(Line.len - rd.got) : ReadLineBounded(k)

ReadClosed ==
    /\ rd.stage = "lines" /\ rd.at > Len(wire.lines)
    /\ Done(IF rd.at > 1 /\ TooMany(rd.count) THEN "too many" ELSE "closed")
    /\ UNCHANGED wire

ReadExact(n) ==
    IF n > MaxBody THEN Done("too large")
    ELSE IF n > wire.sent THEN Done("closed")
    ELSE rd' = [rd EXCEPT !.body = n, !.result = "ok", !.stage = "end"]

ReadToEnd ==
    IF wire.sent > MaxBody THEN Done("too large")
    ELSE rd' = [rd EXCEPT !.body = wire.sent, !.result = "ok", !.stage = "end"]

\* What a bounded line read sees of a line whose peer may have closed.
Seen(len, from) == IF wire.sent < from + len THEN wire.sent - from ELSE len

\* Variant: only the chunk at hand is held against the ceiling.
FitsAlone(size) == size <= MaxBody

FitsBody(size) == rd.body + size <= MaxBody

\* read_chunked_response_body: one size line with its chunk and the two bytes
\* behind it, or the last one with the line behind it (its tail), which is
\* read, bounded and not looked at.  A line the peer cut short is read as far
\* as it goes.
ReadChunk ==
    LET c == wire.chunks[rd.at]
        next == rd.off + c.line + c.size + 2
    IN  IF rd.off = wire.sent THEN Done("malformed")
        ELSE IF Seen(c.line, rd.off) > MaxChunkLine THEN Done("too long")
        ELSE IF c.size = None THEN Done("malformed")
        ELSE IF c.size = 0
        THEN Done(IF Seen(c.tail, rd.off + c.line) > MaxChunkLine THEN "too long" ELSE "ok")
        ELSE IF ~FitsBody(c.size) THEN Done("too large")
        ELSE IF next > wire.sent THEN Done("closed")
        ELSE rd' = [rd EXCEPT !.body = @ + c.size, !.at = @ + 1, !.off = next]

ReadBody ==
    /\ rd.stage = "body"
    /\ IF wire.by = "read_request"
       THEN ReadExact(IF rd.length = None THEN 0 ELSE rd.length)
       ELSE IF rd.chunked THEN rd' = [rd EXCEPT !.stage = "chunks", !.at = 1]
       ELSE IF rd.length # None THEN ReadExact(rd.length)
       ELSE ReadToEnd
    /\ UNCHANGED wire

ReadChunks == rd.stage = "chunks" /\ UNCHANGED wire
              /\ IF rd.at <= Len(wire.chunks) THEN ReadChunk ELSE Done("malformed")

-----------------------------------------------------------------------------
(* http_request: reads of at most ReadSize bytes into a scratch buffer     *)

HeadLen == Bytes(1, Len(wire.lines))
HeadThere == rd.got >= HeadLen /\ wire.lines # <<>> /\ wire.lines[Len(wire.lines)].is = "blank"
Total == HeadLen + wire.sent

\* parse_content_length takes the first header that is a number.
DeclaredLength ==
    LET at == {i \in DOMAIN wire.lines : wire.lines[i].is = "length" /\ wire.lines[i].value # None}
    IN  IF at = {} THEN None ELSE wire.lines[Min(at)].value

IsChunked == \E i \in DOMAIN wire.lines : wire.lines[i].is = "chunked"

Chunk == IF rd.at <= Len(wire.chunks) THEN wire.chunks[rd.at] ELSE [line |-> 1, size |-> None, tail |-> 0]

\* What the loop the reader is in waits for ...
Wants == CASE rd.stage = "head" -> ~HeadThere
           [] rd.stage = "size" -> rd.got < Chunk.line
           [] rd.stage = "data" -> rd.got < Chunk.size + 2
           [] rd.stage = "fixed" -> rd.got < rd.length
           [] rd.stage = "eof" -> TRUE
           [] OTHER -> FALSE

\* ... and the ceiling it checks before each read.
OverCap == rd.got + (IF rd.stage = "data" THEN rd.body ELSE 0) > MaxResponse

ProbeRead(k) ==
    /\ Wants
    /\ IF OverCap THEN Done("too large")
       ELSE IF rd.off < Total THEN rd' = [rd EXCEPT !.got = @ + k, !.off = @ + k]
       ELSE IF rd.stage = "eof" THEN rd' = [rd EXCEPT !.body = rd.got, !.result = "ok", !.stage = "end"]
       ELSE Done("closed")
    /\ UNCHANGED wire

ProbeReads == Wants /\ \E k \in 1..ReadSize : (k <= Total - rd.off \/ rd.off = Total) /\ ProbeRead(k)

ReadHttpResponse ==
    /\ rd.stage = "head" /\ HeadThere
    /\ LET there == [rd EXCEPT !.got = @ - HeadLen]
       IN  IF wire.lines[1].is = "short" THEN Done("malformed")
           ELSE IF IsChunked THEN rd' = [there EXCEPT !.stage = "size"]
           ELSE IF DeclaredLength = None THEN rd' = [there EXCEPT !.stage = "eof"]
           ELSE IF DeclaredLength > MaxResponse THEN Done("too large")
           ELSE rd' = [there EXCEPT !.stage = "fixed", !.length = DeclaredLength]
    /\ UNCHANGED wire

ReadChunkedBody ==
    /\ ~Wants /\ rd.stage \in {"size", "data"}
    /\ IF rd.stage = "data"
       THEN rd' = [rd EXCEPT !.body = @ + Chunk.size, !.got = @ - Chunk.size - 2, !.at = @ + 1, !.stage = "size"]
       ELSE IF Chunk.size = None THEN Done("malformed")
       ELSE IF Chunk.size = 0 THEN Done("ok")
       ELSE IF Chunk.size > MaxResponse THEN Done("too large")
       ELSE rd' = [rd EXCEPT !.got = @ - Chunk.line, !.stage = "data"]
    /\ UNCHANGED wire

ReadFixedBody ==
    /\ rd.stage = "fixed" /\ ~Wants
    /\ rd' = [rd EXCEPT !.body = rd.length, !.result = "ok", !.stage = "end"]
    /\ UNCHANGED wire

\* The peer stops sending: the deadline of the request, or of the read, fires.
ReadTimesOut == rd.result = "none" /\ Done("timeout") /\ UNCHANGED wire

ReaderNext == ReadLine \/ ReadClosed \/ ReadBody \/ ReadChunks
              \/ ProbeReads \/ ReadHttpResponse \/ ReadChunkedBody \/ ReadFixedBody \/ ReadTimesOut

-----------------------------------------------------------------------------
(* What a message is, read whole                                           *)

Blank == LET b == {i \in DOMAIN wire.lines : i > 1 /\ wire.lines[i].is = "blank"} IN IF b = {} THEN 0 ELSE Min(b)
HeadersWith(is) == {i \in 2..(Blank - 1) : wire.lines[i].is = is}
Zero == LET z == {i \in DOMAIN wire.chunks : wire.chunks[i].size = 0} IN IF z = {} THEN 0 ELSE Min(z)
ChunkSum == MapThenSumSet(LAMBDA i : wire.chunks[i].size, 1..(Zero - 1))
ChunkStart(i) == MapThenSumSet(LAMBDA j : wire.chunks[j].line + wire.chunks[j].size + 2, 1..(i - 1))

\* The length that counts: the only one of a request, the last of a
\* response, the first number for the probe.
TheLength ==
    LET at == HeadersWith("length")
        usable == IF wire.by = "http_request" THEN {i \in at : wire.lines[i].value # None} ELSE at
    IN  IF usable = {} THEN None
        ELSE IF wire.by = "http_request" THEN wire.lines[Min(usable)].value ELSE wire.lines[Max(usable)].value

TheBody == IF HeadersWith("chunked") # {} THEN ChunkSum
           ELSE IF TheLength # None THEN TheLength
           ELSE IF wire.by = "read_request" THEN 0 ELSE wire.sent

BodyArrived ==
    IF HeadersWith("chunked") # {}
    THEN /\ Zero > 0 /\ \A i \in 1..(Zero - 1) : wire.chunks[i].size # None
         /\ wire.sent >= ChunkStart(Zero) + (IF wire.by = "http_request" THEN wire.chunks[Zero].line ELSE 1)
    ELSE wire.sent >= TheBody

HeadInBounds ==
    /\ wire.lines[1].len <= MaxLine
    /\ \A i \in 2..Blank : wire.lines[i].len <= MaxHeaderLine
    /\ Bytes(2, Blank) <= MaxHeaderBytes
    /\ Cardinality({i \in 2..(Blank - 1) : Counted(wire.lines[i])}) < MaxHeaders

Acceptable ==
    /\ Blank > 0 /\ HeadInBounds /\ BodyArrived /\ TheBody <= MaxBody
    /\ IF wire.by = "read_request"
       THEN /\ wire.lines[1].is # "short" /\ HeadersWith("chunked") = {}
            /\ Cardinality(HeadersWith("length")) <= 1
            /\ \A i \in HeadersWith("length") : wire.lines[i].value # None
       ELSE HeadersWith("chunked") # {} =>
                /\ \A i \in 1..Zero : Seen(wire.chunks[i].line, ChunkStart(i)) <= MaxChunkLine
                /\ Seen(wire.chunks[Zero].tail, ChunkStart(Zero) + wire.chunks[Zero].line) <= MaxChunkLine

WellFormed == Blank > 0 /\ wire.lines[1].is # "short" /\ BodyArrived

\* Whatever pieces a message arrives in, the two bounded readers accept it
\* exactly when every bound and rule holds of the whole message, and the
\* probe accepts every well-formed one that fits its ceiling; a body is
\* never handed on cut short or with bytes of something else (http.rs
\* read_request_inner, read_response_inner, probe.rs read_http_response).
\* The bounds are the code's: fewer than MaxHeaders headers, where its
\* comments allow MaxHeaders (README section 5), and nothing after the last
\* chunk but one line of at most MaxChunkLine bytes is looked at.
ReadExactly ==
    rd.result \notin {"none", "timeout"} =>
        /\ rd.result = "ok" => BodyArrived /\ rd.body = TheBody
        /\ wire.by # "http_request" => (rd.result = "ok" <=> Acceptable)
        /\ wire.by = "http_request" => /\ rd.result = "ok" => WellFormed
                                       /\ WellFormed /\ Total <= MaxResponse => rd.result = "ok"
=============================================================================
