------------------------------ MODULE HttpText ------------------------------
(***************************************************************************)
(* The bytes of HTTP messages, the URL grammar of http_parser.cc and the   *)
(* messages of http.cc with the text they are dumped to.                   *)
(*                                                                         *)
(* A symbol is a run of characters that the parser treats alike: a         *)
(* delimiter, a digit, one byte of text ("a", "b"), or a half of a word it *)
(* compares with ("con" and "nection").  Text is a sequence of symbols, so *)
(* a read can end inside every word.  Header names are case-insensitive in *)
(* the code (CaseInsensitiveLess); all symbols are lower case here.        *)
(***************************************************************************)
EXTENDS Naturals, Sequences, SequencesExt, TLC

Digit == [d \in {"0", "1", "2"} |-> CASE d = "0" -> 0 [] d = "1" -> 1 [] d = "2" -> 2]
Version == {"1.0", "1.1"}
Status == {"200", "204", "404"}
\* Runs of letters only, and runs that also hold '-' or '.'.
Word == {"a", "b", "G", "ET", "P", "OST", "C", "ONNECT", "con", "nection",
         "content", "transfer", "up", "grade", "clo", "se", "alive", "chu",
         "nked", "OK"}
Dashed == {"-length", "-encoding", "keep-", "proxy-"} \cup Version
Plain == Word \cup Dashed \cup Status \cup DOMAIN Digit

\* The character classes: IS_ALPHA, TOKEN, IS_URL_CHAR, IS_USERINFO_CHAR,
\* IS_HOST_CHAR and IS_HEADER_CHAR.  "BAD" is a control character.
IS_ALPHA(c) == c \in Word
TOKEN(c) == c \in Plain \cup {"#"}
IS_URL_CHAR(c) == c \in Plain \cup {"/", ":", ",", ";", "@", "[", "]", "HTTP/"}
IS_USERINFO_CHAR(c) == c \in Plain \cup {":", ",", ";"}
IS_HOST_CHAR(c) == c \in Plain
IS_HEADER_CHAR(c) == c # "BAD"

-----------------------------------------------------------------------------
(* URLs. *)

ServerStates == {"s_req_server_start", "s_req_server", "s_req_server_with_at"}

parse_url_char(s, c) ==
    CASE s = "s_req_spaces_before_url" /\ c = "/" -> "s_req_path"
      [] s = "s_req_spaces_before_url" /\ IS_ALPHA(c) -> "s_req_schema"
      [] s = "s_req_schema" /\ IS_ALPHA(c) -> s
      [] s = "s_req_schema" /\ c = ":" -> "s_req_schema_slash"
      [] s = "s_req_schema_slash" /\ c = "/" -> "s_req_schema_slash_slash"
      [] s = "s_req_schema_slash_slash" /\ c = "/" -> "s_req_server_start"
      [] s = "s_req_server_with_at" /\ c = "@" -> "s_dead"
      [] s \in ServerStates /\ c = "/" -> "s_req_path"
      [] s \in ServerStates /\ c = "?" -> "s_req_query_string_start"
      [] s \in ServerStates /\ c = "@" -> "s_req_server_with_at"
      [] s \in ServerStates /\ (IS_USERINFO_CHAR(c) \/ c \in {"[", "]"}) -> "s_req_server"
      [] s = "s_req_path" /\ IS_URL_CHAR(c) -> s
      [] s = "s_req_path" /\ c = "?" -> "s_req_query_string_start"
      [] s \in {"s_req_query_string_start", "s_req_query_string"}
            /\ (IS_URL_CHAR(c) \/ c = "?") -> "s_req_query_string"
      [] s \in {"s_req_path", "s_req_query_string_start", "s_req_query_string",
                "s_req_fragment_start"} /\ c = "#" -> "s_req_fragment_start"
      [] s \in {"s_req_fragment_start", "s_req_fragment"}
            /\ (IS_URL_CHAR(c) \/ c = "?") -> "s_req_fragment"
      [] s = "s_req_fragment" /\ c = "#" -> s
      [] OTHER -> "s_dead"

http_parse_host_char(s, c) ==
    CASE s \in {"s_http_userinfo", "s_http_userinfo_start"} /\ c = "@" -> "s_http_host_start"
      [] s \in {"s_http_userinfo", "s_http_userinfo_start"} /\ IS_USERINFO_CHAR(c) -> "s_http_userinfo"
      [] s = "s_http_host_start" /\ c = "[" -> "s_http_host_v6_start"
      [] s \in {"s_http_host_start", "s_http_host"} /\ IS_HOST_CHAR(c) -> "s_http_host"
      [] s \in {"s_http_host", "s_http_host_v6_end"} /\ c = ":" -> "s_http_host_port_start"
      [] s = "s_http_host_v6" /\ c = "]" -> "s_http_host_v6_end"
      [] s \in {"s_http_host_v6", "s_http_host_v6_start"}
            /\ c \in DOMAIN Digit \cup {"a", "b", ":"} -> "s_http_host_v6"
      [] s \in {"s_http_host_port", "s_http_host_port_start"} /\ c \in DOMAIN Digit -> "s_http_host_port"
      [] OTHER -> "s_http_host_dead"

\* The states an automaton goes through over a text.
Run(delta, start, text) ==
    LET s[i \in 0..Len(text)] == IF i = 0 THEN start ELSE delta[s[i - 1], text[i]]
    IN  s

Symbol == Plain \cup {"CR", "LF", "SP", "BAD", "HTTP/", "/", "?", "#", ":", ",", ";", "@", "[", "]"}
HostState == {"s_http_host_dead", "s_http_userinfo_start", "s_http_userinfo", "s_http_host_start",
              "s_http_host_v6_start", "s_http_host", "s_http_host_v6", "s_http_host_v6_end",
              "s_http_host_port_start", "s_http_host_port"}
UrlState == {"s_dead", "s_req_spaces_before_url", "s_req_schema", "s_req_schema_slash",
             "s_req_schema_slash_slash", "s_req_path", "s_req_query_string_start",
             "s_req_query_string", "s_req_fragment_start", "s_req_fragment"} \cup ServerStates
HostDelta == [s \in HostState, c \in Symbol |-> http_parse_host_char(s, c)]
UrlDelta == [s \in UrlState, c \in Symbol |-> parse_url_char(s, c)]

\* Whether the host part of a URL is well formed.
http_parse_host(host, found_at) ==
    Run(HostDelta, IF found_at THEN "s_http_userinfo_start" ELSE "s_http_host_start",
        host)[Len(host)] \in {"s_http_host", "s_http_host_v6_end", "s_http_host_port"}

UrlPart == {"schema", "host", "path", "query", "fragment"}

\* The component that the character which led to state s belongs to.
UrlPartOf(s) ==
    CASE s = "s_req_schema" -> {"schema"}
      [] s \in {"s_req_server", "s_req_server_with_at"} -> {"host"}
      [] s = "s_req_path" -> {"path"}
      [] s = "s_req_query_string" -> {"query"}
      [] s = "s_req_fragment" -> {"fragment"}
      [] OTHER -> {}

\* The components of a URL, each a range of its text, and whether it is well
\* formed.  The callback of HttpParser.cc always passes is_connect = 0.
http_parser_parse_url(text) ==
    LET s == Run(UrlDelta, "s_req_spaces_before_url", text)
        at(f) == {i \in DOMAIN text : f \in UrlPartOf(s[i])}
        part == [f \in UrlPart |-> IF at(f) = {} THEN <<>> ELSE SubSeq(text, Min(at(f)), Max(at(f)))]
    IN  [part |-> part,
         ok   |-> /\ text # <<>> /\ \A i \in DOMAIN text : s[i] # "s_dead"
                  /\ part["schema"] # <<>> => part["host"] # <<>>
                  /\ part["host"] # <<>> =>
                        http_parse_host(part["host"],
                            \E i \in DOMAIN text : s[i] = "s_req_server_with_at")]

-----------------------------------------------------------------------------
(* HttpRequest and HttpResponse (http.cc).                                 *)

Connection == <<"con", "nection">>
ContentLength == <<"content", "-length">>
KeepAlive == <<"keep-", "alive">>
Close == <<"clo", "se">>
Crlf == <<"CR", "LF">>

\* The default-constructed message; `close` is m_close.
HttpRequest == [method |-> "GET", version |-> "1.1", path |-> <<"/">>, query |-> <<>>,
                fragment |-> <<>>, headers |-> << >>, body |-> <<>>, close |-> TRUE]
HttpResponse(version, close) ==
    [status |-> "200", version |-> version, headers |-> << >>, body |-> <<>>, close |-> close]

\* m_headers: a map from names to values.
setHeader(headers, key, val) == (key :> val) @@ headers
getHeader(headers, key) == IF key \in DOMAIN headers THEN headers[key] ELSE <<>>

\* HttpRequest::init: only a Connection header changes the default.
init(req) ==
    LET conn == getHeader(req.headers, Connection)
    IN  IF conn = <<>> THEN req ELSE [req EXCEPT !.close = conn # KeepAlive]

\* What the two dump functions have in common: a header line, the headers
\* they copy (Connection is theirs) and the end with the length of the body.
Line(key, val) == key \o <<":", "SP">> \o val \o Crlf
Lines(headers, skip) ==
    FoldLeft(LAMBDA t, h : IF h[1] \in skip THEN t ELSE t \o Line(h[1], h[2]), <<>>,
             SetToSeq({<<k, headers[k]>> : k \in DOMAIN headers}))
ConnectionLine(close) == Line(Connection, IF close THEN Close ELSE KeepAlive)
Ending(body) ==
    IF body = <<>> THEN Crlf
    ELSE Line(ContentLength, <<CHOOSE d \in DOMAIN Digit : Digit[d] = Len(body)>>) \o Crlf \o body

MethodText == [GET |-> <<"G", "ET">>, POST |-> <<"P", "OST">>, CONNECT |-> <<"C", "ONNECT">>]

\* HttpRequest::dump.
dumpRequest(r) ==
    MethodText[r.method] \o <<"SP">> \o r.path
    \o (IF r.query = <<>> THEN <<>> ELSE <<"?">> \o r.query)
    \o (IF r.fragment = <<>> THEN <<>> ELSE <<"#">> \o r.fragment)
    \o <<"SP", "HTTP/", r.version>> \o Crlf
    \o ConnectionLine(r.close)
    \o Lines(r.headers, {Connection} \cup (IF r.body = <<>> THEN {} ELSE {ContentLength}))
    \o Ending(r.body)

\* HttpResponse::dump.
dumpResponse(r) ==
    <<"HTTP/", r.version, "SP", r.status, "SP", "OK">> \o Crlf
    \o Lines(r.headers, {Connection}) \o ConnectionLine(r.close) \o Ending(r.body)
=============================================================================
