----------------------------- MODULE HttpParser -----------------------------
(***************************************************************************)
(* http_parser_execute (src/http/http_parser.cc) driving the callbacks of  *)
(* HttpRequestParser and HttpResponseParser (src/http/HttpParser.cc).      *)
(*                                                                         *)
(* A call of execute is the steps between Execute and Return.  One step is *)
(* one pass through the switch of the parser for the symbol at p; a state  *)
(* that only chooses the next state is an operator of its own name, the    *)
(* ones that mark, call back or re-execute are actions.  States that only  *)
(* walk through a word (s_req_http_H, the h_matching states) are passed    *)
(* in one step per symbol.  s_start_req_or_res (HTTP_BOTH), pausing and     *)
(* F_SKIPBODY are not used by HttpParser.cc and are left out.              *)
(***************************************************************************)
EXTENDS HttpText, FiniteSets

CONSTANTS
    HTTP_MAX_HEADER_SIZE,   \* bound of the parser on the head of a message
    ULLONG_MAX              \* "no length"; a small one so that lengths overflow

ASSUME ParserAssumption ==
    /\ HTTP_MAX_HEADER_SIZE \in Nat \ {0}
    /\ ULLONG_MAX \in Nat /\ ULLONG_MAX > 16

VARIABLES
    parser,      \* the struct http_parser
    m_data,      \* the HttpRequest or HttpResponse being filled
    wrapper,     \* m_finished, m_error and m_field of the C++ parser
    executing,   \* a call of execute is under way
    data,        \* the symbols of the buffer from p on
    mark,        \* the mark that is set and the text between it and p
    again,       \* REEXECUTE: the current symbol has been counted
    seen         \* history: how the callbacks of m_data were called

pvars == <<parser, m_data, wrapper, executing, data, mark, again, seen>>

UrlStates == {"s_req_schema", "s_req_schema_slash", "s_req_schema_slash_slash",
              "s_req_path", "s_req_query_string_start", "s_req_query_string",
              "s_req_fragment_start", "s_req_fragment"} \cup ServerStates
\* The states after s_headers_done in the enumeration.
BodyStates == {"s_chunk_data", "s_chunk_data_almost_done", "s_chunk_data_done",
               "s_body_identity", "s_body_identity_eof", "s_message_done"}
StartStates == {"s_dead", "s_start_req", "s_start_res"}
NoMark == [kind |-> "none", text |-> <<>>]

http_parser_init(type) ==
    [type |-> type, state |-> IF type = "HTTP_REQUEST" THEN "s_start_req" ELSE "s_start_res",
     header_state |-> "h_general", flags |-> {}, content_length |-> 0, nread |-> 0,
     method |-> "DELETE", index |-> 0, version |-> "0.0", status_code |-> "0",
     upgrade |-> FALSE, http_errno |-> "HPE_OK"]

\* The constructors of HttpRequestParser and HttpResponseParser.
NewParser(type) ==
    /\ parser' = http_parser_init(type)
    /\ m_data' = IF type = "HTTP_REQUEST" THEN HttpRequest ELSE HttpResponse("1.1", TRUE)
    /\ wrapper' = [finished |-> FALSE, error |-> FALSE, field |-> <<>>]
    /\ executing' = FALSE /\ data' = <<>> /\ mark' = NoMark /\ again' = FALSE

\* Mutant of http_message_needs_eof: the statuses without a body are
\* forgotten.
NeedsEofAlways(q) ==
    q.type = "HTTP_RESPONSE" /\ "F_CHUNKED" \notin q.flags /\ q.content_length = ULLONG_MAX

http_message_needs_eof(q) ==
    /\ q.type = "HTTP_RESPONSE" /\ q.status_code # "204"
    /\ "F_CHUNKED" \notin q.flags /\ q.content_length = ULLONG_MAX

http_should_keep_alive(q) ==
    /\ IF q.version = "1.1" THEN "F_CONNECTION_CLOSE" \notin q.flags
                            ELSE "F_CONNECTION_KEEP_ALIVE" \in q.flags
    /\ ~http_message_needs_eof(q)

NEW_MESSAGE(q) ==
    IF ~http_should_keep_alive(q) THEN "s_dead"
    ELSE IF q.type = "HTTP_REQUEST" THEN "s_start_req" ELSE "s_start_res"

-----------------------------------------------------------------------------
(* The step at the symbol ch with the parser P: header sizes and errors.   *)

ch == Head(data)
PARSING_HEADER == parser.state \notin BodyStates
Counted == IF PARSING_HEADER /\ ~again THEN parser.nread + 1 ELSE parser.nread
P == [parser EXCEPT !.nread = Counted]

Running == executing /\ data # <<>> /\ parser.http_errno = "HPE_OK"
At(states) == Running /\ parser.state \in states /\ Counted <= HTTP_MAX_HEADER_SIZE

To(q, s) == [q EXCEPT !.state = s]
Error(q, e) == [q EXCEPT !.http_errno = e]

Consume == data' = Tail(data) /\ again' = FALSE /\ UNCHANGED executing
Reexecute == data' = data /\ again' = TRUE /\ UNCHANGED executing
MARK(kind) == mark' = [kind |-> kind, text |-> Append(mark.text, ch)]
Silent == UNCHANGED <<m_data, wrapper, seen>>

\* COUNT_HEADER_SIZE at the head of the loop.
HeaderOverflow ==
    /\ Running /\ Counted > HTTP_MAX_HEADER_SIZE
    /\ parser' = Error(P, "HPE_HEADER_OVERFLOW")
    /\ UNCHANGED <<m_data, wrapper, executing, data, mark, again, seen>>

-----------------------------------------------------------------------------
(* The callbacks (CALLBACK_DATA and CALLBACK_NOTIFY).                      *)

\* A URL, a header name or a header value came in more than one piece.
Piecewise(kind) == kind \in {"url", "field", "value"} /\ seen.last = kind

on_url(q, text) ==
    \E u \in {http_parser_parse_url(text)} :
        LET put(old, f) == IF u.part[f] = <<>> THEN old ELSE u.part[f]
        IN  /\ parser' = IF u.ok THEN q ELSE Error(q, "HPE_CB_url")
            /\ m_data' = IF ~u.ok THEN m_data
                         ELSE [m_data EXCEPT !.path = put(@, "path"), !.query = put(@, "query"),
                                             !.fragment = put(@, "fragment")]
            /\ UNCHANGED wrapper

on_header_field(q, text) ==
    parser' = q /\ wrapper' = [wrapper EXCEPT !.field = text] /\ UNCHANGED m_data

on_header_value(q, text) ==
    /\ parser' = q /\ UNCHANGED wrapper
    /\ m_data' = [m_data EXCEPT !.headers = setHeader(@, wrapper.field, text)]

\* Mutant of on_body: setBody(text) instead of appending.
BodyOverwrites(q, text) ==
    parser' = q /\ m_data' = [m_data EXCEPT !.body = text] /\ UNCHANGED wrapper

on_body(q, text) ==
    parser' = q /\ m_data' = [m_data EXCEPT !.body = @ \o text] /\ UNCHANGED wrapper

on_status(q) ==
    parser' = q /\ m_data' = [m_data EXCEPT !.status = q.status_code] /\ UNCHANGED wrapper

\* CALLBACK_DATA: the mark of this kind is set, or none is.
CallbackData(kind, q, text) ==
    /\ mark' = NoMark
    /\ seen' = [seen EXCEPT !.last = IF kind = "none" THEN @ ELSE kind,
                            !.pieces = @ \/ Piecewise(kind)]
    /\ CASE kind = "url"    -> on_url(q, text)
         [] kind = "field"  -> on_header_field(q, text)
         [] kind = "value"  -> on_header_value(q, text)
         [] kind = "body"   -> on_body(q, text)
         [] kind = "status" -> on_status(q)
         [] kind = "none"   -> parser' = q /\ UNCHANGED <<m_data, wrapper>>

\* on_message_complete: setFinished(true).
MessageComplete(q) ==
    /\ parser' = To(q, NEW_MESSAGE(q))
    /\ wrapper' = [wrapper EXCEPT !.finished = TRUE]
    /\ UNCHANGED <<m_data, mark, seen>>

-----------------------------------------------------------------------------
(* States that only choose the next state.                                 *)

s_dead == IF ch \in {"CR", "LF"} THEN P ELSE Error(P, "HPE_CLOSED_CONNECTION")

s_req_method ==
    IF ch = "SP" /\ P.index = 2 THEN To(P, "s_req_spaces_before_url")
    ELSE IF P.index = 1 /\ ch = MethodText[P.method][2] THEN [P EXCEPT !.index = 2]
    ELSE Error(P, "HPE_INVALID_METHOD")

s_req_http_start ==
    IF ch = "SP" THEN P ELSE IF ch = "HTTP/" THEN To(P, "s_req_http_major")
    ELSE Error(P, "HPE_INVALID_CONSTANT")

s_req_http_major ==
    IF ch \in Version THEN [To(P, "s_req_http_end") EXCEPT !.version = ch]
    ELSE Error(P, "HPE_INVALID_VERSION")

s_req_http_end ==
    IF ch = "CR" THEN To(P, "s_req_line_almost_done")
    ELSE IF ch = "LF" THEN To(P, "s_header_field_start") ELSE Error(P, "HPE_INVALID_VERSION")

s_req_line_almost_done ==
    IF ch = "LF" THEN To(P, "s_header_field_start") ELSE Error(P, "HPE_LF_EXPECTED")

s_res_http_major ==
    IF ch \in Version THEN [To(P, "s_res_http_end") EXCEPT !.version = ch]
    ELSE Error(P, "HPE_INVALID_VERSION")

s_res_http_end ==
    IF ch = "SP" THEN To(P, "s_res_first_status_code") ELSE Error(P, "HPE_INVALID_VERSION")

s_res_first_status_code ==
    IF ch = "SP" THEN P
    ELSE IF ch \in Status THEN [To(P, "s_res_status_code") EXCEPT !.status_code = ch]
    ELSE Error(P, "HPE_INVALID_STATUS")

s_res_line_almost_done ==
    IF ch = "LF" THEN To(P, "s_header_field_start") ELSE Error(P, "HPE_STRICT")

s_header_value_discard_ws_almost_done ==
    IF ch = "LF" THEN To(P, "s_header_value_discard_lws") ELSE Error(P, "HPE_STRICT")

s_header_almost_done ==
    IF ch = "LF" THEN To(P, "s_header_value_lws") ELSE Error(P, "HPE_LF_EXPECTED")

\* unhex of the first digit of a chunk's size.
s_chunk_size_start ==
    IF ch \in DOMAIN Digit
    THEN [To(P, "s_chunk_size") EXCEPT !.content_length = Digit[ch]]
    ELSE Error(P, "HPE_INVALID_CHUNK_SIZE")

s_chunk_size ==
    IF ch = "CR" THEN To(P, "s_chunk_size_almost_done")
    ELSE IF ch \in {";", "SP"} THEN To(P, "s_chunk_parameters")
    ELSE IF ch \notin DOMAIN Digit THEN Error(P, "HPE_INVALID_CHUNK_SIZE")
    ELSE IF (ULLONG_MAX - 16) \div 16 < P.content_length
         THEN Error(P, "HPE_INVALID_CONTENT_LENGTH")
         ELSE [P EXCEPT !.content_length = @ * 16 + Digit[ch]]

s_chunk_parameters == IF ch = "CR" THEN To(P, "s_chunk_size_almost_done") ELSE P

s_chunk_size_almost_done ==
    IF ch # "LF" THEN Error(P, "HPE_STRICT")
    ELSE IF P.content_length = 0
    THEN [To(P, "s_header_field_start") EXCEPT !.nread = 0, !.flags = @ \cup {"F_TRAILING"}]
    ELSE [To(P, "s_chunk_data") EXCEPT !.nread = 0]

s_chunk_data_done ==
    IF ch = "LF" THEN [To(P, "s_chunk_size_start") EXCEPT !.nread = 0] ELSE Error(P, "HPE_STRICT")

\* The states above; the chunk callbacks only log.
ControlStep ==
    /\ At({"s_dead", "s_req_method", "s_req_http_start", "s_req_http_major", "s_req_http_end",
           "s_req_line_almost_done", "s_res_http_major", "s_res_http_end",
           "s_res_first_status_code", "s_res_line_almost_done",
           "s_header_value_discard_ws_almost_done", "s_header_almost_done",
           "s_chunk_size_start", "s_chunk_size", "s_chunk_parameters",
           "s_chunk_size_almost_done", "s_chunk_data_done"})
    /\ parser' = CASE P.state = "s_dead" -> s_dead
                   [] P.state = "s_req_method" -> s_req_method
                   [] P.state = "s_req_http_start" -> s_req_http_start
                   [] P.state = "s_req_http_major" -> s_req_http_major
                   [] P.state = "s_req_http_end" -> s_req_http_end
                   [] P.state = "s_req_line_almost_done" -> s_req_line_almost_done
                   [] P.state = "s_res_http_major" -> s_res_http_major
                   [] P.state = "s_res_http_end" -> s_res_http_end
                   [] P.state = "s_res_first_status_code" -> s_res_first_status_code
                   [] P.state = "s_res_line_almost_done" -> s_res_line_almost_done
                   [] P.state = "s_header_value_discard_ws_almost_done" ->
                        s_header_value_discard_ws_almost_done
                   [] P.state = "s_header_almost_done" -> s_header_almost_done
                   [] P.state = "s_chunk_size_start" -> s_chunk_size_start
                   [] P.state = "s_chunk_size" -> s_chunk_size
                   [] P.state = "s_chunk_parameters" -> s_chunk_parameters
                   [] P.state = "s_chunk_size_almost_done" -> s_chunk_size_almost_done
                   [] P.state = "s_chunk_data_done" -> s_chunk_data_done
    /\ Consume /\ Silent /\ UNCHANGED mark

-----------------------------------------------------------------------------
(* The start of a message and the URL.                                     *)

\* A message that begins after another one was completed goes into the same
\* m_data: `merged` remembers it.
MessageBegin(q) ==
    /\ parser' = [q EXCEPT !.flags = {}, !.content_length = ULLONG_MAX]
    /\ seen' = [seen EXCEPT !.merged = @ \/ wrapper.finished, !.last = "begin"]

s_start_req ==
    /\ At({"s_start_req"}) /\ Consume /\ UNCHANGED <<m_data, wrapper, mark>>
    /\ IF ch \in {"CR", "LF"} THEN parser' = P /\ UNCHANGED seen
       ELSE IF \E m \in DOMAIN MethodText : ch = MethodText[m][1]
       THEN MessageBegin([To(P, "s_req_method") EXCEPT !.index = 1,
                          !.method = CHOOSE m \in DOMAIN MethodText : ch = MethodText[m][1]])
       ELSE parser' = Error(P, "HPE_INVALID_METHOD") /\ UNCHANGED seen

s_start_res ==
    /\ At({"s_start_res"}) /\ Consume /\ UNCHANGED <<m_data, wrapper, mark>>
    /\ IF ch \in {"CR", "LF"} THEN parser' = P /\ UNCHANGED seen
       ELSE IF ch = "HTTP/" THEN MessageBegin(To(P, "s_res_http_major"))
       ELSE parser' = Error(P, "HPE_INVALID_CONSTANT") /\ UNCHANGED seen

\* A state after parse_url_char.
UrlStep(s) == IF s = "s_dead" THEN Error(P, "HPE_INVALID_URL") ELSE To(P, s)

s_req_spaces_before_url ==
    /\ At({"s_req_spaces_before_url"}) /\ Consume /\ Silent
    /\ IF ch = "SP" THEN parser' = P /\ UNCHANGED mark
       ELSE /\ MARK("url")
            /\ parser' = UrlStep(parse_url_char(IF P.method = "CONNECT"
                                  THEN "s_req_server_start" ELSE P.state, ch))

\* Inside a URL; before the host no blank may follow.
UrlChar ==
    /\ At(UrlStates) /\ Consume /\ Silent /\ MARK("url")
    /\ ch \in {"SP", "CR", "LF"} =>
           P.state \in {"s_req_schema", "s_req_schema_slash", "s_req_schema_slash_slash",
                       "s_req_server_start"}
    /\ parser' = UrlStep(parse_url_char(P.state, ch))

UrlEnd ==
    /\ At({"s_req_server", "s_req_server_with_at", "s_req_path", "s_req_query_string_start",
           "s_req_query_string", "s_req_fragment_start", "s_req_fragment"})
    /\ ch \in {"SP", "CR", "LF"} /\ Consume
    /\ CallbackData("url", IF ch = "SP" THEN To(P, "s_req_http_start")
                    ELSE [To(P, IF ch = "CR" THEN "s_req_line_almost_done"
                                ELSE "s_header_field_start") EXCEPT !.version = "0.9"],
                    mark.text)

-----------------------------------------------------------------------------
(* The status line of a response.                                          *)

s_res_status_code ==
    /\ At({"s_res_status_code"}) /\ Silent /\ UNCHANGED mark
    /\ IF ch \in {"CR", "LF"} THEN Reexecute ELSE Consume
    /\ parser' = IF ch \in {"SP", "CR", "LF"} THEN To(P, "s_res_status_start")
                 ELSE Error(P, "HPE_INVALID_STATUS")

s_res_status_start ==
    /\ At({"s_res_status_start"}) /\ Silent /\ parser' = To(P, "s_res_status")
    /\ IF ch \in {"CR", "LF"}
       THEN Reexecute /\ mark' = [kind |-> "status", text |-> <<>>]
       ELSE Consume /\ MARK("status")

s_res_status ==
    /\ At({"s_res_status"}) /\ Consume
    /\ IF ch = "CR" THEN CallbackData("status", To(P, "s_res_line_almost_done"), mark.text)
       ELSE IF ch = "LF" THEN CallbackData("status", To(P, "s_header_field_start"), mark.text)
       ELSE parser' = P /\ MARK("status") /\ Silent

-----------------------------------------------------------------------------
(* Header names and values.                                                *)

\* header_state after the first half of a name, and after the next one.
FieldStart ==
    CASE ch = "con" -> "h_CON"
      [] ch = "content" -> "h_matching_content_length"
      [] ch = "proxy-" -> "h_matching_proxy_connection"
      [] ch = "transfer" -> "h_matching_transfer_encoding"
      [] ch = "up" -> "h_matching_upgrade"
      [] OTHER -> "h_general"

FieldNext(h) ==
    CASE h = "h_CON" /\ ch = "nection" -> "h_connection"
      [] h = "h_matching_proxy_connection" /\ ch = "con" -> h
      [] h = "h_matching_proxy_connection" /\ ch = "nection" -> "h_connection"
      [] h = "h_matching_content_length" /\ ch = "-length" -> "h_content_length"
      [] h = "h_matching_transfer_encoding" /\ ch = "-encoding" -> "h_transfer_encoding"
      [] h = "h_matching_upgrade" /\ ch = "grade" -> "h_upgrade"
      [] OTHER -> "h_general"

s_header_field_start ==
    /\ At({"s_header_field_start"}) /\ Silent
    /\ IF ch = "LF" THEN Reexecute ELSE Consume
    /\ IF ch \in {"CR", "LF"} THEN parser' = To(P, "s_headers_almost_done") /\ UNCHANGED mark
       ELSE IF ~TOKEN(ch) THEN parser' = Error(P, "HPE_INVALID_HEADER_TOKEN") /\ UNCHANGED mark
       ELSE /\ parser' = [To(P, "s_header_field") EXCEPT !.header_state = FieldStart]
            /\ MARK("field")

s_header_field ==
    /\ At({"s_header_field"}) /\ Consume
    /\ IF ch = ":" THEN CallbackData("field", To(P, "s_header_value_discard_ws"), mark.text)
       ELSE /\ MARK("field") /\ Silent
            /\ parser' = IF TOKEN(ch) THEN [P EXCEPT !.header_state = FieldNext(@)]
                         ELSE Error(P, "HPE_INVALID_HEADER_TOKEN")

\* The token of a Connection header that starts with this symbol.
ConnectionToken ==
    CASE ch = "keep-" -> "h_matching_connection_keep_alive"
      [] ch = "clo" -> "h_matching_connection_close"
      [] ch = "up" -> "h_matching_connection_upgrade"
      [] OTHER -> "h_matching_connection_token"

\* h_content_length and its digits; the sentinel ULLONG_MAX is never a length.
LengthStart(q) ==
    IF ch \notin DOMAIN Digit THEN Error(q, "HPE_INVALID_CONTENT_LENGTH")
    ELSE IF "F_CONTENTLENGTH" \in q.flags THEN Error(q, "HPE_UNEXPECTED_CONTENT_LENGTH")
    ELSE [q EXCEPT !.flags = @ \cup {"F_CONTENTLENGTH"}, !.content_length = Digit[ch],
                   !.header_state = "h_content_length_num"]

\* Mutant of LengthDigit: the test for overflow is dropped.
LengthUnchecked(q) ==
    IF ch \notin DOMAIN Digit THEN Error(q, "HPE_INVALID_CONTENT_LENGTH")
    ELSE [q EXCEPT !.content_length = @ * 10 + Digit[ch]]

LengthDigit(q) ==
    IF ch \notin DOMAIN Digit \/ (ULLONG_MAX - 10) \div 10 < q.content_length
    THEN Error(q, "HPE_INVALID_CONTENT_LENGTH")
    ELSE [q EXCEPT !.content_length = @ * 10 + Digit[ch]]

\* s_header_value_start: what the first symbol of a value says.
ValueStart(q) ==
    CASE q.header_state = "h_upgrade" ->
            [q EXCEPT !.flags = @ \cup {"F_UPGRADE"}, !.header_state = "h_general"]
      [] q.header_state = "h_transfer_encoding" /\ ch = "chu" ->
            [q EXCEPT !.header_state = "h_matching_transfer_encoding_chunked"]
      [] q.header_state = "h_content_length" -> LengthStart(q)
      [] q.header_state = "h_connection" -> [q EXCEPT !.header_state = ConnectionToken]
      [] q.header_state \in {"h_content_length_ws", "h_matching_connection_token_start"} -> q
      [] OTHER -> [q EXCEPT !.header_state = "h_general"]

\* The flag that a complete value sets.
ValueFlag(h) ==
    CASE h = "h_connection_keep_alive" -> {"F_CONNECTION_KEEP_ALIVE"}
      [] h = "h_connection_close" -> {"F_CONNECTION_CLOSE"}
      [] h = "h_connection_upgrade" -> {"F_CONNECTION_UPGRADE"}
      [] h = "h_transfer_encoding_chunked" -> {"F_CHUNKED"}
      [] OTHER -> {}

\* The switch on h_state in s_header_value.
ValueNext(q) ==
    LET h == q.header_state
        becomes(s) == [q EXCEPT !.header_state = s]
    IN  CASE h = "h_content_length_num" /\ ch = "SP" -> becomes("h_content_length_ws")
          [] h = "h_content_length_num" /\ ch # "SP" -> LengthDigit(q)
          [] h = "h_content_length_ws" /\ ch # "SP" -> Error(q, "HPE_INVALID_CONTENT_LENGTH")
          [] h = "h_matching_transfer_encoding_chunked" ->
                becomes(IF ch = "nked" THEN "h_transfer_encoding_chunked" ELSE "h_general")
          [] h = "h_matching_connection_token_start" /\ ch # "SP" ->
                becomes(IF TOKEN(ch) THEN ConnectionToken ELSE "h_general")
          [] h = "h_matching_connection_keep_alive" ->
                becomes(IF ch = "alive" THEN "h_connection_keep_alive"
                                        ELSE "h_matching_connection_token")
          [] h = "h_matching_connection_close" ->
                becomes(IF ch = "se" THEN "h_connection_close" ELSE "h_matching_connection_token")
          [] h = "h_matching_connection_upgrade" ->
                becomes(IF ch = "grade" THEN "h_connection_upgrade"
                                        ELSE "h_matching_connection_token")
          [] h = "h_matching_connection_token" /\ ch = "," ->
                becomes("h_matching_connection_token_start")
          [] h = "h_transfer_encoding_chunked" /\ ch # "SP" -> becomes("h_general")
          [] h \in {"h_connection_keep_alive", "h_connection_close", "h_connection_upgrade"}
                /\ ch = "," -> [becomes("h_matching_connection_token_start")
                                    EXCEPT !.flags = @ \cup ValueFlag(h)]
          [] h \in {"h_connection_keep_alive", "h_connection_close", "h_connection_upgrade"}
                /\ ch \notin {",", "SP"} -> becomes("h_matching_connection_token")
          [] OTHER -> q

s_header_value_discard_ws ==
    /\ At({"s_header_value_discard_ws"}) /\ ch \in {"SP", "CR", "LF"}
    /\ parser' = CASE ch = "SP" -> P
                   [] ch = "CR" -> To(P, "s_header_value_discard_ws_almost_done")
                   [] ch = "LF" -> To(P, "s_header_value_discard_lws")
    /\ Consume /\ Silent /\ UNCHANGED mark

s_header_value_start ==
    /\ \/ At({"s_header_value_discard_ws"}) /\ ch \notin {"SP", "CR", "LF"}
       \/ At({"s_header_value_start"})
    /\ parser' = ValueStart(To(P, "s_header_value"))
    /\ MARK("value") /\ Consume /\ Silent

s_header_value ==
    /\ At({"s_header_value"}) /\ ch \notin {"CR", "LF"}
    /\ parser' = IF IS_HEADER_CHAR(ch) THEN ValueNext(P) ELSE Error(P, "HPE_INVALID_HEADER_TOKEN")
    /\ MARK("value") /\ Consume /\ Silent

s_header_value_end ==
    /\ At({"s_header_value"}) /\ ch \in {"CR", "LF"}
    /\ CallbackData("value", To(P, "s_header_almost_done"), mark.text)
    /\ IF ch = "LF" THEN Reexecute ELSE Consume

\* The symbol after a header line: a blank continues the value.
s_header_value_lws ==
    /\ At({"s_header_value_lws"}) /\ Reexecute /\ Silent /\ UNCHANGED mark
    /\ parser' = IF ch = "SP"
                 THEN [To(P, "s_header_value_start") EXCEPT !.header_state =
                            IF @ = "h_content_length_num" THEN "h_content_length_ws" ELSE @]
                 ELSE [To(P, "s_header_field_start") EXCEPT !.flags = @ \cup ValueFlag(P.header_state)]

\* The symbol after an empty header line.
s_header_value_discard_lws ==
    /\ At({"s_header_value_discard_lws"})
    /\ IF ch = "SP"
       THEN parser' = To(P, "s_header_value_discard_ws") /\ Consume /\ Silent /\ UNCHANGED mark
       ELSE /\ Reexecute
            /\ IF P.header_state = "h_content_length"
               THEN parser' = Error(P, "HPE_INVALID_CONTENT_LENGTH") /\ Silent /\ UNCHANGED mark
               ELSE CallbackData("value", [To(P, "s_header_field_start") EXCEPT
                                    !.flags = @ \cup ValueFlag(P.header_state)], <<>>)

-----------------------------------------------------------------------------
(* The end of the head, and the body.                                      *)

\* Up to on_headers_complete, which stores the version and the method or
\* the status.
s_headers_almost_done ==
    /\ At({"s_headers_almost_done"}) /\ Reexecute /\ UNCHANGED <<wrapper, mark, seen>>
    /\ IF ch # "LF" THEN parser' = Error(P, "HPE_STRICT") /\ UNCHANGED m_data
       ELSE IF "F_TRAILING" \in P.flags
       THEN parser' = To(P, "s_message_done") /\ UNCHANGED m_data
       ELSE IF {"F_CHUNKED", "F_CONTENTLENGTH"} \subseteq P.flags
       THEN parser' = Error(P, "HPE_UNEXPECTED_CONTENT_LENGTH") /\ UNCHANGED m_data
       ELSE /\ parser' = [To(P, "s_headers_done") EXCEPT !.upgrade =
                    IF {"F_UPGRADE", "F_CONNECTION_UPGRADE"} \subseteq P.flags
                    THEN P.type = "HTTP_REQUEST" ELSE P.method = "CONNECT"]
            /\ m_data' = IF P.type = "HTTP_REQUEST"
                         THEN [m_data EXCEPT !.version = P.version, !.method = P.method]
                         ELSE [m_data EXCEPT !.version = P.version, !.status = P.status_code]

\* RETURN after an upgrade: the rest of the buffer is another protocol.
Stop == data' = <<>> /\ again' = FALSE /\ UNCHANGED executing

s_headers_done ==
    LET q == [P EXCEPT !.nread = 0]
        chunked == "F_CHUNKED" \in q.flags
        hasBody == chunked \/ q.content_length \notin {0, ULLONG_MAX}
        leave == q.upgrade /\ (q.method = "CONNECT" \/ ~hasBody)
    IN  /\ At({"s_headers_done"})
        /\ IF leave THEN Stop ELSE Consume
        /\ IF leave \/ ~(hasBody \/ http_message_needs_eof(q))
           THEN MessageComplete(q)
           ELSE /\ parser' = To(q, IF chunked THEN "s_chunk_size_start"
                                   ELSE IF hasBody THEN "s_body_identity"
                                   ELSE "s_body_identity_eof")
                /\ Silent /\ UNCHANGED mark

\* The symbols of the body that are in the buffer.
BodyRead == IF parser.content_length < Len(data) THEN parser.content_length ELSE Len(data)
BodyText == mark.text \o SubSeq(data, 1, BodyRead)

\* The last byte is seen again by s_message_done.
s_body_identity ==
    /\ At({"s_body_identity"})
    /\ IF P.content_length = BodyRead
       THEN /\ data' = SubSeq(data, BodyRead, Len(data)) /\ again' = TRUE /\ UNCHANGED executing
            /\ CallbackData("body", [To(P, "s_message_done") EXCEPT !.content_length = 0], BodyText)
       ELSE /\ parser' = [P EXCEPT !.content_length = @ - BodyRead]
            /\ mark' = [kind |-> "body", text |-> BodyText]
            /\ Stop /\ Silent

s_body_identity_eof ==
    /\ At({"s_body_identity_eof"}) /\ parser' = P
    /\ mark' = [kind |-> "body", text |-> mark.text \o data]
    /\ Stop /\ Silent

s_message_done ==
    /\ At({"s_message_done"}) /\ MessageComplete(P)
    /\ IF P.upgrade THEN Stop ELSE Consume

s_chunk_data ==
    /\ At({"s_chunk_data"})
    /\ parser' = [To(P, IF P.content_length = BodyRead THEN "s_chunk_data_almost_done"
                        ELSE P.state) EXCEPT !.content_length = @ - BodyRead]
    /\ mark' = [kind |-> "body", text |-> BodyText]
    /\ data' = SubSeq(data, BodyRead + 1, Len(data)) /\ again' = FALSE
    /\ Silent /\ UNCHANGED executing

s_chunk_data_almost_done ==
    /\ At({"s_chunk_data_almost_done"}) /\ Consume
    /\ IF ch = "CR" THEN CallbackData(mark.kind, To(P, "s_chunk_data_done"), mark.text)
       ELSE parser' = Error(P, "HPE_STRICT") /\ Silent /\ UNCHANGED mark

-----------------------------------------------------------------------------
(* A call of execute.                                                      *)

\* The marks that are set again when a call starts inside a token.
Resumed(s) ==
    CASE s = "s_header_field" -> "field"
      [] s = "s_header_value" -> "value"
      [] s \in UrlStates -> "url"
      [] s = "s_res_status" -> "status"
      [] OTHER -> "none"

Execute(buffer) ==
    /\ executing' = TRUE /\ data' = buffer /\ again' = FALSE
    /\ mark' = [kind |-> Resumed(parser.state), text |-> <<>>]
    /\ UNCHANGED <<parser, m_data, wrapper, seen>>

\* execute with len = 0.
ExecuteEof ==
    /\ executing' = TRUE /\ data' = <<>> /\ again' = FALSE /\ mark' = NoMark
    /\ UNCHANGED <<m_data, seen>>
    /\ parser' = IF parser.state \in StartStates \cup {"s_body_identity_eof"} THEN parser
                 ELSE Error(parser, "HPE_INVALID_EOF_STATE")
    /\ wrapper' = [wrapper EXCEPT !.finished = @ \/ parser.state = "s_body_identity_eof"]

\* The callbacks for a mark that is left over at the end of the buffer.
Leftover ==
    /\ executing /\ data = <<>> /\ parser.http_errno = "HPE_OK" /\ mark.kind # "none"
    /\ CallbackData(mark.kind, parser, mark.text)
    /\ UNCHANGED <<executing, data, again>>

\* The rest of HttpRequestParser::execute and HttpResponseParser::execute.
Return ==
    /\ executing
    /\ parser.http_errno # "HPE_OK" \/ (data = <<>> /\ mark.kind = "none")
    /\ executing' = FALSE /\ data' = <<>> /\ mark' = NoMark /\ again' = FALSE
    /\ wrapper' = [wrapper EXCEPT !.error =
            \/ parser.http_errno # "HPE_OK"
            \/ parser.type = "HTTP_REQUEST" /\ parser.upgrade]
    /\ UNCHANGED <<parser, m_data, seen>>

ParserStep ==
    \/ HeaderOverflow \/ ControlStep \/ s_start_req \/ s_start_res
    \/ s_req_spaces_before_url \/ UrlChar \/ UrlEnd
    \/ s_res_status_code \/ s_res_status_start \/ s_res_status
    \/ s_header_field_start \/ s_header_field \/ s_header_value_discard_ws
    \/ s_header_value_start \/ s_header_value \/ s_header_value_end
    \/ s_header_value_lws \/ s_header_value_discard_lws
    \/ s_headers_almost_done \/ s_headers_done
    \/ s_body_identity \/ s_body_identity_eof \/ s_message_done
    \/ s_chunk_data \/ s_chunk_data_almost_done
    \/ Leftover
=============================================================================
