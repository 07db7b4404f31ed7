---------------------------- MODULE MCHttpServer ----------------------------
(***************************************************************************)
(* HttpServer with one line of every kind that the parser tells apart.     *)
(***************************************************************************)
EXTENDS HttpServer

Line(method, parts, query, version, field, value) ==
  [method |-> method, parts |-> parts, query |-> query, version |-> version,
   field |-> field, value |-> value]
RequestLine(method, version) == Line(method, 3, version = "HTTP/1.0", version, None, None)
HeaderLine(field, value) == Line(None, 2, FALSE, None, field, value)
MCLines ==
  { RequestLine("GET", "HTTP/1.1"), RequestLine("POST", "HTTP/1.0"),
    RequestLine("BREW", "HTTP/1.1"), RequestLine("GET", "HTTP/1.7"),
    Line("GET", 2, FALSE, None, None, None),  \* no second space
    HeaderLine("Connection", "close"), HeaderLine("Connection", "Keep-Alive"),
    Line(None, 0, FALSE, None, None, None) }  \* the empty line
=============================================================================
