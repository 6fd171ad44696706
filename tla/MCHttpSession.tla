--------------------------- MODULE MCHttpSession ---------------------------
(* TLC instances of HttpSession: the messages peers send. *)
EXTENDS HttpSession

Slash == <<"/", "a">>
A == <<"a">>
B == <<"b">>
Chunked == <<"chu", "nked">>
TransferEncoding == <<"transfer", "-encoding">>
RequestLine(url, version) == <<"G", "ET", "SP">> \o url \o <<"SP", "HTTP/", version>>

\* Requests written by HttpRequest::dump.
Dumped(r) == [text |-> dumpRequest(r), means |-> Parsed(r)]
GetKeepAlive == Dumped([HttpRequest EXCEPT !.path = Slash, !.close = FALSE])
PostClose ==
    Dumped([HttpRequest EXCEPT !.method = "POST", !.path = Slash, !.query = B, !.fragment = A,
                               !.body = <<"a", "b">>])
PostKeepAlive ==
    Dumped([HttpRequest EXCEPT !.method = "POST", !.body = A, !.close = FALSE])

\* Requests of other clients: chunks with a parameter and a trailer; HTTP/1.0
\* with bare line feeds and an absolute URL; HTTP/0.9 after an empty line;
\* an empty and a folded header.
PostChunked ==
    [text |-> <<"P", "OST", "SP", "/", "SP", "HTTP/", "1.1">> \o Crlf
              \o Line(TransferEncoding, Chunked) \o Crlf
              \o <<"2", ";", "a">> \o Crlf \o <<"a", "b">> \o Crlf
              \o <<"0">> \o Crlf \o Line(A, B) \o Crlf,
     means |-> [HttpRequest EXCEPT !.method = "POST", !.body = <<"a", "b">>,
                !.headers = (TransferEncoding :> Chunked) @@ (A :> B)]]
GetOld ==
    [text |-> RequestLine(<<"a", ":", "/", "/", "b", ":", "1", "/", "a">>, "1.0")
              \o <<"LF", "a", ":", "SP", "b", "LF", "LF">>,
     means |-> [HttpRequest EXCEPT !.version = "1.0", !.path = Slash, !.headers = A :> B]]
GetOldest ==
    [text |-> Crlf \o <<"G", "ET", "SP", "SP", "/">> \o Crlf \o Crlf,
     means |-> [HttpRequest EXCEPT !.version = "0.9"]]
GetFolded ==
    [text |-> RequestLine(<<"/">>, "1.1") \o Crlf \o <<"a", ":">> \o Crlf
              \o <<"b", ":", "b">> \o Crlf \o <<"SP", "a">> \o Crlf \o Crlf,
     means |-> [HttpRequest EXCEPT !.headers = (A :> <<>>) @@ (B :> <<"b", "SP", "a">>)]]

\* Messages that are no request the server takes.
Head1(lines) == [text |-> RequestLine(<<"/">>, "1.1") \o Crlf \o lines \o Crlf, means |-> None]
Rejected == {
    Head1(Line(<<"up", "grade">>, A) \o Line(Connection, <<"up", "grade", ",", "SP", "keep-", "alive">>)),
    Head1(Line(ContentLength, <<"1">>) \o Line(ContentLength, <<"1">>)),
    Head1(Line(ContentLength, <<"2", "2", "2">>)),
    Head1(Line(TransferEncoding, Chunked) \o Line(ContentLength, <<"1">>)),
    Head1(Line(A, <<"b", "BAD">>)),
    [text |-> Head1(Line(TransferEncoding, Chunked)).text \o A, means |-> None],
    Head1(Line(A, B) \o Line(A, B) \o Line(A, B) \o Line(A, B) \o Line(A, B)),
    [text |-> <<"C", "ONNECT", "SP", "b", ":", "1", "SP", "HTTP/", "1.1">> \o Crlf \o Crlf, means |-> None]}

MCRequests == {GetKeepAlive, PostClose, PostKeepAlive, PostChunked, GetOld, GetOldest, GetFolded}
                \cup Rejected
MCLater == {GetKeepAlive, PostClose}

\* Responses written by HttpResponse::dump, and one with chunks and without
\* a reason.
Answer(r) == [text |-> dumpResponse(r),
              means |-> [r EXCEPT !.headers =
                LET h == setHeader(@, Connection, IF r.close THEN Close ELSE KeepAlive)
                IN  IF r.body = <<>> THEN h ELSE setHeader(h, ContentLength, <<"1">>)]]
MCResponses == {
    Answer([HttpResponse("1.1", FALSE) EXCEPT !.body = A]),
    Answer([HttpResponse("1.1", FALSE) EXCEPT !.headers = A :> B]),
    Answer([HttpResponse("1.1", TRUE) EXCEPT !.status = "404", !.body = B]),
    Answer([HttpResponse("1.0", TRUE) EXCEPT !.status = "204"]),
    [text |-> <<"HTTP/", "1.1", "SP", "200">> \o Crlf
              \o Line(TransferEncoding, Chunked) \o Crlf
              \o <<"1">> \o Crlf \o A \o Crlf \o <<"0">> \o Crlf \o Crlf,
     means |-> [HttpResponse("1.1", TRUE) EXCEPT !.body = A, !.headers = TransferEncoding :> Chunked]]}

MCPath == {Slash}
=============================================================================
