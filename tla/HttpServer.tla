------------------------------ MODULE HttpServer ------------------------------
(***************************************************************************)
(* net/http: the parser and the server side of one connection.  Bytes      *)
(* arrive in pieces that end anywhere; each piece is one call of           *)
(* OnMessage().  The stream is a sequence of lines; a line is what the     *)
(* parser distinguishes of its text.  Asserts are compiled out.            *)
(***************************************************************************)
EXTENDS Integers, Sequences

CONSTANTS MaxLines,  \* bound: complete lines the peer sends
          Lines      \* the lines it may send

None == "none"

\* A line: its parts between spaces, none if it is empty (the first is method, the
\* third is version), whether the second has a question mark, and field and value
\* around a colon.
EmptyLines == {line \in Lines : line.parts = 0}
HasColon(line) == line.field # None

ASSUME HttpAssumption ==
  /\ MaxLines \in Nat
  /\ Lines \subseteq [method : STRING, parts : Nat, query : BOOLEAN, version : STRING,
                      field : STRING, value : STRING]
  /\ \A line \in EmptyLines : ~HasColon(line)

VARIABLES
  input_buffer,  \* input_buffer_ of the connection: the complete lines in it
  partial,       \* the buffer ends in the middle of a line, or between CR and LF
  context,       \* the HttpContext of the connection
  conn,          \* state_ of the connection: "kConnected" or "kDisconnecting"
  sent,          \* responses given to conn->Send() while connected
  input,         \* history: all complete lines received
  handled        \* history: the requests handed to http_callback_

http_vars == <<input_buffer, partial, context, conn, sent, input, handled>>
-----------------------------------------------------------------------------
(* HttpRequest and HttpContext *)

Fields == {"Connection"} \cup {line.field : line \in Lines}

NewRequest ==
  [method_ |-> "kInvalid", version_ |-> "kUnknown", query_ |-> FALSE,
   remote_addr_ |-> FALSE, headers_ |-> [f \in Fields |-> None]]

NewContext(remote_addr) ==
  [state_ |-> "kExpectRequestLine", request_ |-> [NewRequest EXCEPT !.remote_addr_ = remote_addr]]

ExpectRequestLine(c) == c.state_ = "kExpectRequestLine"
ExpectHeaders(c) == c.state_ = "kExpectHeaders"
GotAll(c) == c.state_ = "kGotAll"
ReceiveRequestLine(c) == [c EXCEPT !.state_ = "kExpectHeaders"]
ReceiveHeaders(c) == [c EXCEPT !.state_ = "kGotAll"]

SwapKeepsHeaders(request, that) == [that EXCEPT !.headers_ = request.headers_]

\* What swap() leaves in the request; version_ is not swapped.
swap(request, that) == [that EXCEPT !.version_ = request.version_]

Reset(c) == [state_ |-> "kExpectRequestLine", request_ |-> swap(c.request_, NewRequest)]

Methods == {"GET", "POST", "HEAD", "PUT", "DELETE"}
set_method(request, m) == [request EXCEPT !.method_ = IF m \in Methods THEN m ELSE "kInvalid"]

AddHeader(request, line) == [request EXCEPT !.headers_[line.field] = line.value]

GetHeader(request, field) == request.headers_[field]
-----------------------------------------------------------------------------
(* The parser: a context after a request line, and after all of a buffer. *)

\* What ProcessRequestLine() leaves in the request, and whether it succeeds.
HasMethod(line) == line.parts >= 2 /\ line.method \in Methods
Succeeds(line) ==
  HasMethod(line) /\ line.parts = 3 /\ line.version \in {"HTTP/1.1", "HTTP/1.0"}

ProcessRequestLine(request, line) ==
  LET m == IF line.parts >= 2 THEN set_method(request, line.method) ELSE request
      p == IF HasMethod(line) /\ line.parts >= 3
           THEN [m EXCEPT !.query_ = @ \/ line.query] ELSE m
  IN IF Succeeds(line) THEN [p EXCEPT !.version_ = line.version] ELSE p

\* ParseRequest() in its loop: the context, the lines retrieved, ok and has_more.
Stage(c, n, ok, has_more) == [c |-> c, n |-> n, ok |-> ok, has_more |-> has_more]

\* One pass of the loop, which finds one more line.  The loop would not end in a
\* state for which there is no case.
Pass(r, line) ==
  CASE ~r.has_more -> r
    [] r.has_more /\ ExpectRequestLine(r.c) ->
         LET d == [r.c EXCEPT !.request_ = ProcessRequestLine(@, line)] IN
         IF Succeeds(line)
         THEN Stage(ReceiveRequestLine(d), r.n + 1, TRUE, TRUE)
         ELSE Stage(d, r.n, FALSE, FALSE)
    [] r.has_more /\ ExpectHeaders(r.c) ->
         IF ~HasColon(line)
         THEN Stage(ReceiveHeaders(r.c), r.n + 1, r.ok, ~GotAll(ReceiveHeaders(r.c)))
         ELSE Stage([r.c EXCEPT !.request_ = AddHeader(@, line)], r.n + 1, r.ok, TRUE)

Passes(c, b) ==
  LET after[n \in 0 .. Len(b)] ==
        IF n = 0 THEN Stage(c, 0, TRUE, TRUE) ELSE Pass(after[n - 1], b[n])
  IN after

\* [c |-> context, b |-> lines left in the buffer, ok |-> what it returns].
ParseRequest(c, b) ==
  LET r == Passes(c, b)[Len(b)]
  IN [c |-> r.c, b |-> SubSeq(b, r.n + 1, Len(b)), ok |-> r.ok]
-----------------------------------------------------------------------------
(* The server *)

\* Headers AppendToBuffer() writes: either the connection closes or the length
\* of the body is given.
AppendToBuffer(status, keepalive) ==
  [status |-> status, close |-> ~keepalive, length |-> keepalive]
BadRequest == [status |-> 400, close |-> FALSE, length |-> FALSE]

\* Send() is ignored unless connected; Shutdown() disconnects.
SendTo(state, out, response) == IF state = "kConnected" THEN Append(out, response) ELSE out
AfterShutdown(state, cond) == IF cond THEN "kDisconnecting" ELSE state

\* RequestDone(): what is sent, and the state of the connection afterwards.
RequestDone(state, out, status, keepalive) ==
  [out |-> SendTo(state, out, AppendToBuffer(status, keepalive)),
   state |-> AfterShutdown(state, ~keepalive)]

CloseWithoutVersion(request) == GetHeader(request, "Connection") = "close"
Close(request) ==
  \/ GetHeader(request, "Connection") = "close"
  \/ request.version_ = "HTTP/1.0" /\ GetHeader(request, "Connection") # "Keep-Alive"

\* The answers http_callback_ may give to a request: DefaultHttpCallback()'s, and
\* those of a user's callback, which may also turn keepalive off.
Answers(request) ==
  {[status |-> 404, keepalive |-> FALSE]}
    \cup [status : {200}, keepalive : {FALSE, ~Close(request)}]

OnRequest(request, state, out) ==
  \E a \in Answers(request) :
    LET done == RequestDone(state, out, a.status, a.keepalive) IN
    /\ sent' = done.out /\ conn' = done.state
    /\ handled' = Append(handled, request)

\* lines more complete lines are in the buffer now; p says whether part of the
\* next one is.
OnMessage(lines, p) ==
  LET r == ParseRequest(context, input_buffer \o lines)
      out == IF r.ok THEN sent ELSE SendTo(conn, sent, BadRequest)
      state == AfterShutdown(conn, ~r.ok)
  IN /\ lines # <<>> \/ p
     /\ partial' = p
     /\ input' = input \o lines
     /\ input_buffer' = r.b
     /\ \/ /\ GotAll(r.c)
           /\ OnRequest(r.c.request_, state, out)
           /\ context' = Reset(r.c)
        \/ /\ ~GotAll(r.c)
           /\ context' = r.c /\ sent' = out /\ conn' = state
           /\ UNCHANGED handled

\* OnConnection() has given the connection its context.
HttpInit ==
  /\ input_buffer = <<>> /\ partial = FALSE /\ input = <<>> /\ handled = <<>> /\ sent = <<>>
  /\ context = NewContext(TRUE)
  /\ conn = "kConnected"

HttpNext ==
  \E n \in 0 .. MaxLines - Len(input) : \E lines \in [1 .. n -> Lines], p \in BOOLEAN :
    OnMessage(lines, p)

HttpSpec == HttpInit /\ [][HttpNext]_http_vars
-----------------------------------------------------------------------------
(* Properties *)

\* The reference: the requests in a stream that is there as a whole.  A request
\* follows place p when line p + 1 is a request line and an empty line ends its
\* headers; its own header lines are those between the two.
HeaderEnds(lines, p) == {i \in p + 2 .. Len(lines) : lines[i] \in EmptyLines}
RequestFollows(lines, p) == HeaderEnds(lines, p) # {} /\ Succeeds(lines[p + 1])
EndOf(lines, p) ==
  CHOOSE i \in HeaderEnds(lines, p) : \A j \in HeaderEnds(lines, p) : i <= j
LastValue(lines, first, last) ==
  LET at == {i \in first .. last : lines[i].field = "Connection"}
  IN IF at = {} THEN None ELSE lines[CHOOSE i \in at : \A j \in at : j <= i].value
RequestIn(lines, p, e) ==
  [method |-> lines[p + 1].method, version |-> lines[p + 1].version,
   query |-> lines[p + 1].query, connection |-> LastValue(lines, p + 2, e - 1)]

\* The k-th request of the stream ends at place Ends(lines)[k].
Ends(lines) ==
  LET ends[k \in 0 .. Len(lines)] ==
        IF k = 0 THEN 0
        ELSE LET p == ends[k - 1]
             IN IF RequestFollows(lines, p) THEN EndOf(lines, p) ELSE p
  IN ends
HasRequest(lines, k) == k <= Len(lines) /\ RequestFollows(lines, Ends(lines)[k - 1])
Request(lines, k) == RequestIn(lines, Ends(lines)[k - 1], Ends(lines)[k])

\* The first n requests have a colon in every header line, as far as it is there.
HeaderLines(lines, p) ==
  {i \in p + 2 .. Len(lines) :
     Succeeds(lines[p + 1]) /\ \A j \in p + 2 .. i : lines[j] \notin EmptyLines}
WellFormed(lines, n) ==
  \A k \in 0 .. n - 1 : \A i \in HeaderLines(lines, Ends(lines)[k]) : HasColon(lines[i])

Described(request) ==
  [method |-> request.method_, version |-> request.version_, query |-> request.query_,
   connection |-> request.headers_["Connection"]]

\* OnMessage() serves the next request of the stream when all of it has arrived,
\* with its own method, version, query and headers, and none otherwise: wherever
\* the pieces end and whatever the previous request on the connection was.  A
\* second request of the same piece waits for the next call.  ParseRequest()
\* says "empty line, end of header" (http_server.cpp:86) but ends the headers at
\* any line without a colon; a stream with such a header line is left out.
ServesNextRequest ==
  [][LET next == Len(handled) + 1
     IN WellFormed(input', next) =>
          IF HasRequest(input', next)
          THEN Len(handled') = next /\ Described(handled'[next]) = Request(input', next)
          ELSE handled' = handled]_http_vars

\* The peer can tell where every response ends: it has a length, or it is the
\* last one and the connection is shut down.  A connection is kept only when the
\* request asked for that (WellFormed: see ServesNextRequest), and the answer to
\* request i is the i-th response.
ResponsesDelimited ==
  /\ \A i \in DOMAIN sent :
       /\ sent[i].length \/ (i = Len(sent) /\ conn = "kDisconnecting")
       /\ sent[i].status # 400 => i <= Len(handled)
       /\ sent[i].length /\ WellFormed(input, i) =>
            LET r == Request(input, i) IN
            r.connection # "close" /\ (r.version = "HTTP/1.0" => r.connection = "Keep-Alive")
  /\ conn = "kDisconnecting" => sent # <<>> /\ ~sent[Len(sent)].length
=============================================================================
