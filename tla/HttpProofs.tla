----------------------------- MODULE HttpProofs -----------------------------
(***************************************************************************)
(* Proofs about HttpParser and HttpSession for any messages, any cuts of   *)
(* them into reads, any buffer size and any limits of the parser.          *)
(***************************************************************************)
EXTENDS HttpSession, SequenceTheorems, WellFoundedInduction, TLAPS

-----------------------------------------------------------------------------
(* The inductive invariant of the parser.                                  *)

StateName ==
    {"s_dead", "s_start_req", "s_start_res", "s_res_http_major", "s_res_http_end",
     "s_res_first_status_code", "s_res_status_code", "s_res_status_start", "s_res_status",
     "s_res_line_almost_done", "s_req_method", "s_req_spaces_before_url", "s_req_http_start",
     "s_req_http_major", "s_req_http_end", "s_req_line_almost_done", "s_header_field_start",
     "s_header_field", "s_header_value_discard_ws", "s_header_value_discard_ws_almost_done",
     "s_header_value_discard_lws", "s_header_value_start", "s_header_value",
     "s_header_value_lws", "s_header_almost_done", "s_chunk_size_start", "s_chunk_size",
     "s_chunk_parameters", "s_chunk_size_almost_done", "s_headers_almost_done",
     "s_headers_done"} \cup UrlStates \cup BodyStates
HeaderName ==
    {"h_general", "h_CON", "h_matching_proxy_connection", "h_matching_content_length",
     "h_matching_transfer_encoding", "h_matching_upgrade", "h_connection", "h_content_length",
     "h_content_length_num", "h_content_length_ws", "h_transfer_encoding", "h_upgrade",
     "h_matching_transfer_encoding_chunked", "h_matching_connection_token_start",
     "h_matching_connection_keep_alive", "h_matching_connection_close",
     "h_matching_connection_upgrade", "h_matching_connection_token",
     "h_transfer_encoding_chunked", "h_connection_keep_alive", "h_connection_close",
     "h_connection_upgrade"}
FlagName ==
    {"F_CHUNKED", "F_CONNECTION_KEEP_ALIVE", "F_CONNECTION_CLOSE", "F_CONNECTION_UPGRADE",
     "F_TRAILING", "F_UPGRADE", "F_CONTENTLENGTH"}
ErrorName ==
    {"HPE_CB_url", "HPE_CLOSED_CONNECTION", "HPE_HEADER_OVERFLOW", "HPE_INVALID_CHUNK_SIZE",
     "HPE_INVALID_CONSTANT", "HPE_INVALID_CONTENT_LENGTH", "HPE_INVALID_EOF_STATE",
     "HPE_INVALID_HEADER_TOKEN", "HPE_INVALID_METHOD", "HPE_INVALID_STATUS", "HPE_INVALID_URL",
     "HPE_INVALID_VERSION", "HPE_LF_EXPECTED", "HPE_STRICT", "HPE_UNEXPECTED_CONTENT_LENGTH"}

\* The struct http_parser.
ParserType ==
    [type : {"HTTP_REQUEST", "HTTP_RESPONSE"}, state : StateName, header_state : HeaderName,
     flags : SUBSET FlagName, content_length : Nat, nread : Nat,
     method : {"DELETE", "GET", "POST", "CONNECT"}, index : Nat,
     version : {"0.0", "0.9"} \cup Version, status_code : {"0"} \cup Status,
     upgrade : BOOLEAN, http_errno : {"HPE_OK"} \cup ErrorName]

\* The states about which the assertions speak.
SizeStates == {"s_chunk_size", "s_chunk_parameters", "s_chunk_size_almost_done"}
ChunkStates == SizeStates \cup {"s_chunk_size_start", "s_chunk_data",
                                "s_chunk_data_almost_done", "s_chunk_data_done"}
Special == ChunkStates \cup {"s_header_value", "s_body_identity"}

\* What the assertions need of a parser q, at any point of a step: also that the
\* size of a chunk is below the sentinel while it is read.
Lengths(q) ==
    /\ q.state = "s_header_value" => q.header_state \notin {"h_connection", "h_transfer_encoding"}
    /\ q.content_length <= ULLONG_MAX
    /\ q.state \in {"s_body_identity", "s_chunk_data"} => q.content_length \notin {0, ULLONG_MAX}
    /\ q.state \in SizeStates => q.content_length < ULLONG_MAX
    /\ q.state = "s_chunk_data_almost_done" => q.content_length = 0
    /\ q.state \in ChunkStates => "F_CHUNKED" \in q.flags

Sound(q) == q \in ParserType /\ Lengths(q)

\* The header count when the size of a chunk is looked for.
Fresh(q) == q.http_errno = "HPE_OK" /\ q.state = "s_chunk_size_start" => q.nread = 0

Kinds == {"none", "url", "field", "value", "body", "status"}

\* Between two calls of execute nothing is left over.
CallInv ==
    /\ mark.kind \in Kinds
    /\ data \in Seq(Symbol) /\ inbox \in Seq(Symbol)
    /\ ~executing => data = <<>> /\ mark = NoMark
    /\ pc # "execute" => ~executing

ParserInv == Sound(parser) /\ Fresh(parser) /\ CallInv

-----------------------------------------------------------------------------
(* The parser record.                                                      *)

\* COUNT_HEADER_SIZE.
LEMMA CountedSound ==
    ASSUME Sound(parser)
    PROVE  /\ Sound(P) /\ P.state = parser.state /\ P.header_state = parser.header_state
           /\ P.content_length = parser.content_length /\ P.flags = parser.flags
           /\ P.http_errno = parser.http_errno
<1>1. Counted \in Nat
  BY DEF Counted, Sound, ParserType
<1> QED BY <1>1 DEF P, Sound, ParserType, Lengths

\* The fields of q with some of them replaced.
Same(q, r, changed) ==
    /\ "state" \in changed \/ q.state = r.state
    /\ "header_state" \in changed \/ q.header_state = r.header_state
    /\ "flags" \in changed \/ q.flags = r.flags
    /\ "content_length" \in changed \/ q.content_length = r.content_length
    /\ "nread" \in changed \/ q.nread = r.nread
    /\ "http_errno" \in changed \/ q.http_errno = r.http_errno

\* What the assignments to one field do.
LEMMA Assigned ==
    ASSUME NEW q \in ParserType
    PROVE  /\ \A s \in StateName : /\ To(q, s) \in ParserType /\ To(q, s).state = s
                                   /\ Same(To(q, s), q, {"state"})
           /\ \A n \in Nat : /\ [q EXCEPT !.nread = n] \in ParserType
                             /\ [q EXCEPT !.nread = n].nread = n
                             /\ Same([q EXCEPT !.nread = n], q, {"nread"})
           /\ \A n \in Nat : /\ [q EXCEPT !.content_length = n] \in ParserType
                             /\ [q EXCEPT !.content_length = n].content_length = n
                             /\ Same([q EXCEPT !.content_length = n], q, {"content_length"})
           /\ \A f \in SUBSET FlagName : /\ [q EXCEPT !.flags = f] \in ParserType
                                         /\ [q EXCEPT !.flags = f].flags = f
                                         /\ Same([q EXCEPT !.flags = f], q, {"flags"})
           /\ \A h \in HeaderName : /\ [q EXCEPT !.header_state = h] \in ParserType
                                    /\ [q EXCEPT !.header_state = h].header_state = h
                                    /\ Same([q EXCEPT !.header_state = h], q, {"header_state"})
           /\ \A v \in Version \cup {"0.0", "0.9"} : /\ [q EXCEPT !.version = v] \in ParserType
                                                    /\ Same([q EXCEPT !.version = v], q, {})
           /\ \A c \in Status : /\ [q EXCEPT !.status_code = c] \in ParserType
                                /\ Same([q EXCEPT !.status_code = c], q, {})
           /\ \A b \in BOOLEAN : /\ [q EXCEPT !.upgrade = b] \in ParserType
                                 /\ Same([q EXCEPT !.upgrade = b], q, {})
           /\ \A n \in Nat : /\ [q EXCEPT !.index = n] \in ParserType
                             /\ Same([q EXCEPT !.index = n], q, {})
           /\ \A m \in {"DELETE", "GET", "POST", "CONNECT"} :
                             /\ [q EXCEPT !.method = m] \in ParserType
                             /\ Same([q EXCEPT !.method = m], q, {})
<1> USE DEF ParserType, Same
<1>1. ASSUME NEW s \in StateName
      PROVE  To(q, s) \in ParserType /\ To(q, s).state = s /\ Same(To(q, s), q, {"state"})
  BY DEF To
<1>2. ASSUME NEW n \in Nat
      PROVE  /\ [q EXCEPT !.nread = n] \in ParserType /\ [q EXCEPT !.nread = n].nread = n
             /\ Same([q EXCEPT !.nread = n], q, {"nread"})
  OBVIOUS
<1>3. ASSUME NEW n \in Nat
      PROVE  /\ [q EXCEPT !.content_length = n] \in ParserType
             /\ [q EXCEPT !.content_length = n].content_length = n
             /\ Same([q EXCEPT !.content_length = n], q, {"content_length"})
  OBVIOUS
<1>4. ASSUME NEW f \in SUBSET FlagName
      PROVE  /\ [q EXCEPT !.flags = f] \in ParserType /\ [q EXCEPT !.flags = f].flags = f
             /\ Same([q EXCEPT !.flags = f], q, {"flags"})
  OBVIOUS
<1>5. ASSUME NEW h \in HeaderName
      PROVE  /\ [q EXCEPT !.header_state = h] \in ParserType
             /\ [q EXCEPT !.header_state = h].header_state = h
             /\ Same([q EXCEPT !.header_state = h], q, {"header_state"})
  OBVIOUS
<1>6. ASSUME NEW v \in Version \cup {"0.0", "0.9"}
      PROVE  [q EXCEPT !.version = v] \in ParserType /\ Same([q EXCEPT !.version = v], q, {})
  OBVIOUS
<1>7. ASSUME NEW c \in Status
      PROVE  [q EXCEPT !.status_code = c] \in ParserType /\ Same([q EXCEPT !.status_code = c], q, {})
  OBVIOUS
<1>8. ASSUME NEW b \in BOOLEAN
      PROVE  [q EXCEPT !.upgrade = b] \in ParserType /\ Same([q EXCEPT !.upgrade = b], q, {})
  OBVIOUS
<1>9. ASSUME NEW n \in Nat
      PROVE  [q EXCEPT !.index = n] \in ParserType /\ Same([q EXCEPT !.index = n], q, {})
  OBVIOUS
<1>10. ASSUME NEW m \in {"DELETE", "GET", "POST", "CONNECT"}
       PROVE  [q EXCEPT !.method = m] \in ParserType /\ Same([q EXCEPT !.method = m], q, {})
  OBVIOUS
<1> HIDE DEF ParserType, Same
<1> QED BY <1>1, <1>2, <1>3, <1>4, <1>5, <1>6, <1>7, <1>8, <1>9, <1>10

\* The same for one assignment, as a record with a name.
LEMMA LengthAssigned ==
    ASSUME NEW q \in ParserType, NEW n \in Nat
    PROVE  \E r \in ParserType : /\ r = [q EXCEPT !.content_length = n] /\ r.content_length = n
                                 /\ Same(r, q, {"content_length"})
BY Assigned

LEMMA HeaderAssigned ==
    ASSUME NEW q \in ParserType, NEW h \in HeaderName
    PROVE  \E r \in ParserType : /\ r = [q EXCEPT !.header_state = h] /\ r.header_state = h
                                 /\ Same(r, q, {"header_state"})
BY Assigned

\* A change to a state about which nothing is asserted.
LEMMA ToSound ==
    ASSUME NEW q, Sound(q), NEW s \in StateName \ Special
    PROVE  Sound(To(q, s)) /\ Fresh(To(q, s))
BY DEF To, Sound, ParserType, Lengths, Fresh, Special, ChunkStates, SizeStates

\* An error leaves the rest of the parser as it is.
LEMMA ErrorSound ==
    ASSUME NEW q, Sound(q), NEW e \in ErrorName
    PROVE  Sound(Error(q, e)) /\ Fresh(Error(q, e))
BY DEF Error, Sound, ParserType, Lengths, Fresh, ErrorName

\* A step that only chooses the next state, at a symbol at which the parser is
\* not in s_chunk_size_start.
LEMMA StaySound ==
    ASSUME Sound(parser), parser.state # "s_chunk_size_start"
    PROVE  Sound(P) /\ Fresh(P)
BY CountedSound DEF Fresh

\* The digits of a length.
LEMMA DigitValue == ASSUME ch \in DOMAIN Digit PROVE Digit[ch] \in Nat /\ Digit[ch] <= 2
BY DEF Digit

\* One more digit keeps a length below the sentinel.
LEMMA LengthBound ==
    ASSUME NEW n \in Nat, NEW d \in Nat, d <= 2, NEW b \in {10, 16},
           ~((ULLONG_MAX - b) \div b < n)
    PROVE  n * b + d \in Nat /\ n * b + d < ULLONG_MAX
<1>1. PICK m \in Nat : m = ULLONG_MAX /\ m > 16
  BY ParserAssumption
<1>2. CASE b = 10
  BY <1>1, <1>2
<1>3. CASE b = 16
  BY <1>1, <1>3
<1> QED BY <1>2, <1>3

\* The states of the request line, the status line and the empty lines.
LEMMA LineSteps ==
    ASSUME Sound(parser), parser.state \notin Special
    PROVE  /\ parser.state = "s_dead" => Sound(s_dead) /\ Fresh(s_dead)
           /\ Sound(s_req_method) /\ Fresh(s_req_method)
           /\ Sound(s_req_http_start) /\ Fresh(s_req_http_start)
           /\ Sound(s_req_http_major) /\ Fresh(s_req_http_major)
           /\ Sound(s_req_http_end) /\ Fresh(s_req_http_end)
           /\ Sound(s_req_line_almost_done) /\ Fresh(s_req_line_almost_done)
           /\ Sound(s_res_http_major) /\ Fresh(s_res_http_major)
           /\ Sound(s_res_http_end) /\ Fresh(s_res_http_end)
           /\ Sound(s_res_first_status_code) /\ Fresh(s_res_first_status_code)
           /\ Sound(s_res_line_almost_done) /\ Fresh(s_res_line_almost_done)
           /\ Sound(s_header_value_discard_ws_almost_done) /\ Fresh(s_header_value_discard_ws_almost_done)
           /\ Sound(s_header_almost_done) /\ Fresh(s_header_almost_done)
<1>1. Sound(P) /\ Fresh(P) /\ P.state \notin Special
  BY CountedSound, StaySound DEF Special, ChunkStates
<1>2. \A e \in ErrorName : Sound(Error(P, e)) /\ Fresh(Error(P, e))
  BY <1>1, ErrorSound
<1>3. \A s \in StateName \ Special : Sound(To(P, s)) /\ Fresh(To(P, s))
  BY <1>1, ToSound
<1>4. ASSUME NEW s \in StateName \ Special, NEW v
      PROVE  /\ v \in Version => /\ Sound([To(P, s) EXCEPT !.version = v])
                                /\ Fresh([To(P, s) EXCEPT !.version = v])
             /\ v \in Status => /\ Sound([To(P, s) EXCEPT !.status_code = v])
                               /\ Fresh([To(P, s) EXCEPT !.status_code = v])
  <2>1. PICK r : r = To(P, s) /\ Sound(r) /\ Fresh(r)
    BY <1>3
  <2>2. /\ v \in Version => /\ [r EXCEPT !.version = v] \in ParserType
                           /\ Same([r EXCEPT !.version = v], r, {})
        /\ v \in Status => /\ [r EXCEPT !.status_code = v] \in ParserType
                          /\ Same([r EXCEPT !.status_code = v], r, {})
    BY <2>1, Assigned DEF Sound
  <2>3. \A x : x \in ParserType /\ Same(x, r, {}) => Sound(x) /\ Fresh(x)
    BY <2>1 DEF Sound, Lengths, Fresh, Same
  <2> QED BY <2>1, <2>2, <2>3
<1>5. Sound([P EXCEPT !.index = 2]) /\ Fresh([P EXCEPT !.index = 2])
  BY <1>1 DEF Sound, ParserType, Lengths, Fresh
<1>7. Sound(s_req_method) /\ Fresh(s_req_method)
  BY <1>2, <1>3, <1>5 DEF s_req_method, StateName, ErrorName, Special, ChunkStates, SizeStates
<1>8. Sound(s_dead) /\ Fresh(s_dead)
  BY <1>1, <1>2 DEF s_dead, StateName, ErrorName
<1>9. Sound(s_req_http_start) /\ Fresh(s_req_http_start)
  BY <1>1, <1>2, <1>3 DEF s_req_http_start, StateName, ErrorName, Special, ChunkStates, SizeStates
<1>10. Sound(s_req_http_major) /\ Fresh(s_req_http_major)
  BY <1>2, <1>4 DEF s_req_http_major, StateName, ErrorName, Special, ChunkStates, SizeStates
<1>11. Sound(s_req_http_end) /\ Fresh(s_req_http_end)
  BY <1>2, <1>3 DEF s_req_http_end, StateName, ErrorName, Special, ChunkStates, SizeStates
<1>12. Sound(s_req_line_almost_done) /\ Fresh(s_req_line_almost_done)
  BY <1>2, <1>3 DEF s_req_line_almost_done, StateName, ErrorName, Special, ChunkStates, SizeStates
<1>13. Sound(s_res_http_major) /\ Fresh(s_res_http_major)
  BY <1>2, <1>4 DEF s_res_http_major, StateName, ErrorName, Special, ChunkStates, SizeStates
<1>14. Sound(s_res_http_end) /\ Fresh(s_res_http_end)
  BY <1>2, <1>3 DEF s_res_http_end, StateName, ErrorName, Special, ChunkStates, SizeStates
<1>15. Sound(s_res_first_status_code) /\ Fresh(s_res_first_status_code)
  BY <1>1, <1>2, <1>4 DEF s_res_first_status_code, StateName, ErrorName, Special, ChunkStates, SizeStates
<1>16. Sound(s_res_line_almost_done) /\ Fresh(s_res_line_almost_done)
  BY <1>2, <1>3 DEF s_res_line_almost_done, StateName, ErrorName, Special, ChunkStates, SizeStates
<1>17. Sound(s_header_value_discard_ws_almost_done) /\ Fresh(s_header_value_discard_ws_almost_done)
  BY <1>2, <1>3 DEF s_header_value_discard_ws_almost_done, StateName, ErrorName, Special, ChunkStates, SizeStates
<1>18. Sound(s_header_almost_done) /\ Fresh(s_header_almost_done)
  BY <1>2, <1>3 DEF s_header_almost_done, StateName, ErrorName, Special, ChunkStates, SizeStates
<1> QED BY <1>7, <1>8, <1>9, <1>10, <1>11, <1>12, <1>13, <1>14, <1>15, <1>16, <1>17, <1>18

\* The states in which the size of a chunk is read, and the one after its data.
LEMMA ChunkSteps ==
    ASSUME Sound(parser)
    PROVE  /\ parser.state = "s_chunk_size_start" => Sound(s_chunk_size_start) /\ Fresh(s_chunk_size_start)
           /\ parser.state = "s_chunk_size" => Sound(s_chunk_size) /\ Fresh(s_chunk_size)
           /\ parser.state = "s_chunk_parameters" => Sound(s_chunk_parameters) /\ Fresh(s_chunk_parameters)
           /\ parser.state = "s_chunk_size_almost_done" =>
                Sound(s_chunk_size_almost_done) /\ Fresh(s_chunk_size_almost_done)
           /\ parser.state = "s_chunk_data_done" => Sound(s_chunk_data_done) /\ Fresh(s_chunk_data_done)
<1>1. /\ Sound(P) /\ P.state = parser.state
      /\ parser.state # "s_chunk_size_start" => Fresh(P)
  BY CountedSound, StaySound
<1>2. \A e \in ErrorName : Sound(Error(P, e)) /\ Fresh(Error(P, e))
  BY <1>1, ErrorSound
<1>3. P \in ParserType /\ P.content_length \in Nat /\ ULLONG_MAX \in Nat /\ ULLONG_MAX > 16
  BY <1>1, ParserAssumption DEF Sound, ParserType
<1>4. ASSUME parser.state = "s_chunk_size_start"
      PROVE  Sound(s_chunk_size_start) /\ Fresh(s_chunk_size_start)
  <2>1. CASE ch \in DOMAIN Digit
    <3>1. PICK d \in Nat : d = Digit[ch] /\ d <= 2
      BY <2>1, DigitValue
    <3>2. s_chunk_size_start = [To(P, "s_chunk_size") EXCEPT !.content_length = d]
      BY <2>1, <3>1 DEF s_chunk_size_start, StateName, ErrorName
    <3>3. "F_CHUNKED" \in P.flags
      BY <1>1, <1>4 DEF Sound, Lengths, ChunkStates
    <3>4. PICK r \in ParserType : /\ r = To(P, "s_chunk_size") /\ r.state = "s_chunk_size"
                                 /\ Same(r, P, {"state"})
      BY <1>3, Assigned DEF StateName
    <3>5. PICK q \in ParserType : /\ q = [r EXCEPT !.content_length = d] /\ q.content_length = d
                                 /\ Same(q, r, {"content_length"})
      BY Assigned
    <3>6. Sound(q) /\ Fresh(q)
      BY <1>3, <3>1, <3>3, <3>4, <3>5 DEF Same, Sound, Lengths, Fresh, SizeStates
    <3> QED BY <3>2, <3>4, <3>5, <3>6
  <2>2. CASE ch \notin DOMAIN Digit
    BY <1>2, <2>2 DEF s_chunk_size_start, StateName, ErrorName
  <2> QED BY <2>1, <2>2
<1>5. ASSUME NEW s \in SizeStates, parser.state \in SizeStates
      PROVE  Sound(To(P, s)) /\ Fresh(To(P, s))
  BY <1>1, <1>5 DEF To, StateName, Sound, ParserType, Lengths, Fresh, SizeStates, ChunkStates
<1>6. ASSUME parser.state = "s_chunk_size"
      PROVE  Sound(s_chunk_size) /\ Fresh(s_chunk_size)
  <2>1. CASE /\ ch \in DOMAIN Digit /\ ch # "CR" /\ ch \notin {";", "SP"}
             /\ ~((ULLONG_MAX - 16) \div 16 < P.content_length)
    <3>1. PICK d \in Nat : d = Digit[ch] /\ d <= 2
      BY <2>1, DigitValue
    <3>2. PICK n \in Nat : n = P.content_length * 16 + d /\ n < ULLONG_MAX
      BY <1>3, <2>1, <3>1, LengthBound
    <3>3. s_chunk_size = [P EXCEPT !.content_length = n]
      BY <2>1, <3>1, <3>2 DEF s_chunk_size, StateName, ErrorName
    <3>4. Sound([P EXCEPT !.content_length = n]) /\ Fresh([P EXCEPT !.content_length = n])
      BY <1>1, <1>3, <1>6, <3>2 DEF Sound, ParserType, Lengths, Fresh
    <3> QED BY <3>3, <3>4
  <2>2. CASE ch = "CR" \/ ch \in {";", "SP"}
    BY <1>5, <1>6, <2>2 DEF s_chunk_size, StateName, ErrorName, SizeStates
  <2>3. CASE /\ ch # "CR" /\ ch \notin {";", "SP"}
             /\ ch \notin DOMAIN Digit \/ (ULLONG_MAX - 16) \div 16 < P.content_length
    BY <1>2, <2>3 DEF s_chunk_size, StateName, ErrorName
  <2> QED BY <2>1, <2>2, <2>3
<1>7. ASSUME parser.state = "s_chunk_parameters"
      PROVE  Sound(s_chunk_parameters) /\ Fresh(s_chunk_parameters)
  BY <1>1, <1>5, <1>7 DEF s_chunk_parameters, StateName, ErrorName, SizeStates
<1>8. ASSUME parser.state = "s_chunk_size_almost_done"
      PROVE  Sound(s_chunk_size_almost_done) /\ Fresh(s_chunk_size_almost_done)
  <2>1. P.content_length < ULLONG_MAX /\ "F_CHUNKED" \in P.flags
    BY <1>1, <1>8 DEF Sound, Lengths, SizeStates, ChunkStates
  <2>2. CASE ch # "LF"
    BY <1>2, <2>2 DEF s_chunk_size_almost_done, StateName, ErrorName
  <2>3. CASE ch = "LF" /\ P.content_length = 0
    <3>1. PICK r \in ParserType : r = To(P, "s_header_field_start") /\ Sound(r)
      BY <1>1, ToSound DEF Sound, StateName, Special, ChunkStates, SizeStates
    <3>2. PICK p \in ParserType : p = [r EXCEPT !.nread = 0] /\ Same(p, r, {"nread"})
      BY Assigned
    <3>3. p.flags \cup {"F_TRAILING"} \in SUBSET FlagName
      BY DEF ParserType, FlagName
    <3>4. PICK q \in ParserType : /\ q = [p EXCEPT !.flags = p.flags \cup {"F_TRAILING"}]
                                 /\ q.flags = p.flags \cup {"F_TRAILING"}
                                 /\ Same(q, p, {"flags"})
      BY <3>3, Assigned
    <3>5. r.state = "s_header_field_start"
      BY <1>3, <3>1, Assigned DEF StateName
    <3>6. Sound(q) /\ Fresh(q)
      BY <3>1, <3>2, <3>4, <3>5 DEF Same, Sound, Lengths, Fresh, ChunkStates, SizeStates
    <3>7. s_chunk_size_almost_done = q
      BY <2>3, <3>1, <3>2, <3>4 DEF s_chunk_size_almost_done
    <3> QED BY <3>6, <3>7
  <2>4. CASE ch = "LF" /\ P.content_length # 0
    <3>1. PICK r \in ParserType : /\ r = To(P, "s_chunk_data") /\ r.state = "s_chunk_data"
                                 /\ Same(r, P, {"state"})
      BY <1>3, Assigned DEF StateName, BodyStates
    <3>2. PICK q \in ParserType : q = [r EXCEPT !.nread = 0] /\ Same(q, r, {"nread"})
      BY Assigned
    <3>3. Sound(q) /\ Fresh(q)
      BY <1>3, <2>1, <2>4, <3>1, <3>2 DEF Same, Sound, Lengths, Fresh, SizeStates
    <3> QED BY <2>4, <3>1, <3>2, <3>3 DEF s_chunk_size_almost_done
  <2> QED BY <2>2, <2>3, <2>4
<1>9. ASSUME parser.state = "s_chunk_data_done"
      PROVE  Sound(s_chunk_data_done) /\ Fresh(s_chunk_data_done)
  <2>1. P.content_length <= ULLONG_MAX /\ "F_CHUNKED" \in P.flags
    BY <1>1, <1>9 DEF Sound, Lengths, ChunkStates
  <2>2. PICK r \in ParserType : /\ r = To(P, "s_chunk_size_start") /\ r.state = "s_chunk_size_start"
                               /\ Same(r, P, {"state"})
    BY <1>3, Assigned DEF StateName
  <2>3. PICK q \in ParserType : q = [r EXCEPT !.nread = 0] /\ q.nread = 0 /\ Same(q, r, {"nread"})
    BY Assigned
  <2>4. Sound(q) /\ Fresh(q)
    BY <1>3, <2>1, <2>2, <2>3 DEF Same, Sound, Lengths, Fresh, SizeStates
  <2> QED BY <1>2, <2>2, <2>3, <2>4 DEF s_chunk_data_done, ErrorName
<1> QED BY <1>4, <1>6, <1>7, <1>8, <1>9

\* The states that only choose the next state.
LEMMA ControlSound ==
    ASSUME Sound(parser), ControlStep
    PROVE  Sound(parser') /\ Fresh(parser')
<1>1. P.state = parser.state
  BY CountedSound
<1>2. CASE parser.state \in {"s_chunk_size_start", "s_chunk_size", "s_chunk_parameters",
                             "s_chunk_size_almost_done", "s_chunk_data_done"}
  BY <1>1, <1>2, ChunkSteps DEF ControlStep
<1>3. CASE parser.state \in {"s_dead", "s_req_method", "s_req_http_start", "s_req_http_major",
           "s_req_http_end", "s_req_line_almost_done", "s_res_http_major", "s_res_http_end",
           "s_res_first_status_code", "s_res_line_almost_done",
           "s_header_value_discard_ws_almost_done", "s_header_almost_done"}
  <2>1. parser.state \notin Special
    BY <1>3 DEF Special, ChunkStates, SizeStates
  <2> QED BY <1>1, <1>3, <2>1, LineSteps DEF ControlStep
<1> QED BY <1>2, <1>3 DEF ControlStep, At

-----------------------------------------------------------------------------
(* The steps that mark, call back or re-execute.                           *)

\* What has to be shown of a parser in a state about which nothing is asserted,
\* and of one inside a header value.
LEMMA PlainSound ==
    ASSUME NEW q \in ParserType, q.state \notin Special, q.content_length <= ULLONG_MAX
    PROVE  Sound(q) /\ Fresh(q)
BY DEF Sound, Lengths, Fresh, Special, ChunkStates, SizeStates

LEMMA ValueSound ==
    ASSUME NEW q \in ParserType, q.state = "s_header_value", q.content_length <= ULLONG_MAX,
           q.header_state \notin {"h_connection", "h_transfer_encoding"}
    PROVE  Sound(q) /\ Fresh(q)
BY DEF Sound, Lengths, Fresh, ChunkStates, SizeStates

\* The parser after To(P, s), for a state about which nothing is asserted, with
\* one more field assigned.
LEMMA ToPlain ==
    ASSUME Sound(parser), NEW s \in StateName \ Special
    PROVE  /\ To(P, s) \in ParserType /\ To(P, s).state = s /\ To(P, s).content_length <= ULLONG_MAX
           /\ Same(To(P, s), P, {"state"}) /\ Sound(To(P, s)) /\ Fresh(To(P, s))
<1>1. P \in ParserType /\ P.content_length <= ULLONG_MAX
  BY CountedSound DEF Sound, Lengths
<1>2. To(P, s) \in ParserType /\ To(P, s).state = s /\ Same(To(P, s), P, {"state"})
  BY <1>1, Assigned
<1>3. To(P, s).content_length <= ULLONG_MAX
  BY <1>1, <1>2 DEF Same
<1> QED BY <1>2, <1>3, PlainSound

\* A callback only changes http_errno, if anything.
LEMMA CallbackSound ==
    ASSUME NEW kind \in Kinds, NEW q, NEW text, Sound(q), Fresh(q), CallbackData(kind, q, text)
    PROVE  Sound(parser') /\ Fresh(parser') /\ mark' = NoMark
<1>1. Sound(Error(q, "HPE_CB_url")) /\ Fresh(Error(q, "HPE_CB_url"))
  BY ErrorSound DEF ErrorName
<1>2. parser' = q \/ parser' = Error(q, "HPE_CB_url")
  <2>1. CASE kind = "url"
    BY <2>1 DEF CallbackData, on_url
  <2>2. CASE kind # "url"
    BY <2>2 DEF CallbackData, on_header_field, on_header_value, on_body, on_status, Kinds
  <2> QED BY <2>1, <2>2
<1>3. mark' = NoMark
  BY DEF CallbackData
<1> QED BY <1>1, <1>2, <1>3

\* The start of a message.
LEMMA BeginSound ==
    ASSUME NEW q \in ParserType, q.state \notin Special, MessageBegin(q)
    PROVE  Sound(parser') /\ Fresh(parser')
<1>0. ULLONG_MAX \in Nat /\ {} \in SUBSET FlagName
  BY ParserAssumption
<1>1. PICK r \in ParserType : r = [q EXCEPT !.flags = {}] /\ Same(r, q, {"flags"})
  BY <1>0, Assigned
<1>2. PICK p \in ParserType : /\ p = [r EXCEPT !.content_length = ULLONG_MAX]
                             /\ p.content_length = ULLONG_MAX /\ Same(p, r, {"content_length"})
  BY <1>0, Assigned
<1>3. p.state \notin Special /\ p.content_length <= ULLONG_MAX
  BY <1>0, <1>1, <1>2 DEF Same
<1>4. parser' = p
  BY <1>1, <1>2 DEF MessageBegin
<1> QED BY <1>3, <1>4, PlainSound

LEMMA StartSound ==
    ASSUME Sound(parser), s_start_req \/ s_start_res
    PROVE  Sound(parser') /\ Fresh(parser')
<1>1. parser.state \in {"s_start_req", "s_start_res"}
  BY DEF s_start_req, s_start_res, At
<1>2. Sound(P) /\ Fresh(P)
  BY <1>1, StaySound
<1>3. \A e \in ErrorName : Sound(Error(P, e)) /\ Fresh(Error(P, e))
  BY <1>2, ErrorSound
<1>4. CASE s_start_res
  <2>1. PICK r \in ParserType : r = To(P, "s_res_http_major") /\ r.state \notin Special
    BY ToPlain DEF StateName, Special, ChunkStates, SizeStates
  <2>2. MessageBegin(r) => Sound(parser') /\ Fresh(parser')
    BY <2>1, BeginSound
  <2> QED BY <1>2, <1>3, <1>4, <2>1, <2>2 DEF s_start_res, ErrorName
<1>5. CASE s_start_req
  <2>1. PICK r \in ParserType : r = To(P, "s_req_method") /\ r.state \notin Special
    BY ToPlain DEF StateName, Special, ChunkStates, SizeStates
  <2>2. CASE ch \in {"CR", "LF"}
    BY <1>2, <1>5, <2>2 DEF s_start_req
  <2>3. CASE ch \notin {"CR", "LF"} /\ ~(\E m \in DOMAIN MethodText : ch = MethodText[m][1])
    BY <1>3, <1>5, <2>3 DEF s_start_req, ErrorName
  <2>4. CASE ch \notin {"CR", "LF"} /\ (\E m \in DOMAIN MethodText : ch = MethodText[m][1])
    <3>1. PICK k \in DOMAIN MethodText : k = CHOOSE m \in DOMAIN MethodText : ch = MethodText[m][1]
      BY <2>4
    <3>2. k \in {"GET", "POST", "CONNECT"}
      BY DEF MethodText
    <3>3. MessageBegin([To(P, "s_req_method") EXCEPT !.index = 1, !.method = k])
      BY <1>5, <2>4, <3>1 DEF s_start_req
    <3>4. PICK p \in ParserType : p = [r EXCEPT !.index = 1] /\ Same(p, r, {})
      BY Assigned
    <3>5. PICK q \in ParserType : q = [p EXCEPT !.method = k] /\ Same(q, p, {})
      BY <3>2, Assigned
    <3>6. MessageBegin(q)
      BY <2>1, <3>3, <3>4, <3>5
    <3>7. q.state \notin Special
      BY <2>1, <3>4, <3>5 DEF Same
    <3> QED BY <3>6, <3>7, BeginSound
  <2> QED BY <2>2, <2>3, <2>4
<1> QED BY <1>4, <1>5

\* parse_url_char stays among its states.
LEMMA UrlStates_Closed ==
    ASSUME NEW s \in UrlState, NEW c
    PROVE  parse_url_char(s, c) \in UrlState
<1> USE DEF UrlState, ServerStates
<1> QED BY DEF parse_url_char

LEMMA UrlSound ==
    ASSUME Sound(parser), mark.kind \in Kinds, s_req_spaces_before_url \/ UrlChar \/ UrlEnd
    PROVE  Sound(parser') /\ Fresh(parser') /\ mark'.kind \in Kinds
<1>1. parser.state \in UrlState \ {"s_dead"} /\ P.state = parser.state
  BY CountedSound DEF s_req_spaces_before_url, UrlChar, UrlEnd, At, UrlState, UrlStates, ServerStates
<1>2. Sound(P) /\ Fresh(P)
  BY <1>1, StaySound DEF UrlState, ServerStates
<1>3. UrlState \subseteq StateName \ Special
  BY DEF UrlState, StateName, UrlStates, ServerStates, Special, ChunkStates, SizeStates
<1>4. \A s \in UrlState : Sound(UrlStep(s)) /\ Fresh(UrlStep(s))
  <2> TAKE s \in UrlState
  <2>1. Sound(To(P, s)) /\ Fresh(To(P, s))
    BY <1>3, ToPlain
  <2>2. Sound(Error(P, "HPE_INVALID_URL")) /\ Fresh(Error(P, "HPE_INVALID_URL"))
    BY <1>2, ErrorSound DEF ErrorName
  <2> QED BY <2>1, <2>2 DEF UrlStep
<1>5. CASE s_req_spaces_before_url
  <2>1. CASE ch = "SP"
    BY <1>2, <1>5, <2>1 DEF s_req_spaces_before_url
  <2>2. CASE ch # "SP"
    <3>1. PICK s \in UrlState : s = IF P.method = "CONNECT" THEN "s_req_server_start" ELSE P.state
      BY <1>1 DEF UrlState, ServerStates
    <3>2. parser' = UrlStep(parse_url_char(s, ch)) /\ mark'.kind = "url"
      BY <1>5, <2>2, <3>1 DEF s_req_spaces_before_url, MARK
    <3> QED BY <1>4, <3>2, UrlStates_Closed DEF Kinds
  <2> QED BY <2>1, <2>2
<1>6. CASE UrlChar
  <2>1. PICK s \in UrlState : s = P.state
    BY <1>1
  <2>2. parser' = UrlStep(parse_url_char(s, ch)) /\ mark'.kind = "url"
    BY <1>6, <2>1 DEF UrlChar, MARK
  <2> QED BY <1>4, <2>2, UrlStates_Closed DEF Kinds
<1>7. CASE UrlEnd
  <2>1. PICK q : /\ q = (IF ch = "SP" THEN To(P, "s_req_http_start")
                    ELSE [To(P, IF ch = "CR" THEN "s_req_line_almost_done"
                                ELSE "s_header_field_start") EXCEPT !.version = "0.9"])
                 /\ CallbackData("url", q, mark.text)
    BY <1>7 DEF UrlEnd
  <2>2. CASE ch = "SP"
    <3>1. Sound(q) /\ Fresh(q)
      BY <2>1, <2>2, ToPlain DEF StateName, Special, ChunkStates, SizeStates
    <3> QED BY <2>1, <3>1, CallbackSound DEF Kinds, NoMark
  <2>3. CASE ch # "SP"
    <3>1. PICK s \in StateName \ Special :
              s = IF ch = "CR" THEN "s_req_line_almost_done" ELSE "s_header_field_start"
      BY DEF StateName, Special, ChunkStates, SizeStates
    <3>2. PICK r \in ParserType : r = To(P, s) /\ r.state = s /\ r.content_length <= ULLONG_MAX
      BY ToPlain
    <3>3. q = [r EXCEPT !.version = "0.9"]
      BY <2>1, <2>3, <3>1, <3>2
    <3>4. q \in ParserType /\ Same(q, r, {})
      BY <3>3, Assigned
    <3>5. Sound(q) /\ Fresh(q)
      BY <3>1, <3>2, <3>4, PlainSound DEF Same
    <3> QED BY <2>1, <3>5, CallbackSound DEF Kinds, NoMark
  <2> QED BY <2>2, <2>3
<1> QED BY <1>5, <1>6, <1>7

\* The status line of a response.
LEMMA StatusSound ==
    ASSUME Sound(parser), mark.kind \in Kinds,
           s_res_status_code \/ s_res_status_start \/ s_res_status
    PROVE  Sound(parser') /\ Fresh(parser') /\ mark'.kind \in Kinds
<1>1. Sound(P) /\ Fresh(P)
  BY StaySound DEF s_res_status_code, s_res_status_start, s_res_status, At
<1>2. Sound(Error(P, "HPE_INVALID_STATUS")) /\ Fresh(Error(P, "HPE_INVALID_STATUS"))
  BY <1>1, ErrorSound DEF ErrorName
<1>3. \A s \in {"s_res_status_start", "s_res_status", "s_res_line_almost_done",
                "s_header_field_start"} : Sound(To(P, s)) /\ Fresh(To(P, s))
  BY ToPlain DEF StateName, Special, ChunkStates, SizeStates
<1>4. CASE s_res_status_code
  BY <1>2, <1>3, <1>4 DEF s_res_status_code
<1>5. CASE s_res_status_start
  BY <1>3, <1>5 DEF s_res_status_start, MARK, Kinds
<1>6. CASE s_res_status
  <2>1. CASE ch = "CR"
    <3>1. PICK q : q = To(P, "s_res_line_almost_done") /\ Sound(q) /\ Fresh(q)
      BY <1>3
    <3>2. CallbackData("status", q, mark.text)
      BY <1>6, <2>1, <3>1 DEF s_res_status
    <3> QED BY <3>1, <3>2, CallbackSound DEF Kinds, NoMark
  <2>2. CASE ch = "LF"
    <3>1. PICK q : q = To(P, "s_header_field_start") /\ Sound(q) /\ Fresh(q)
      BY <1>3
    <3>2. CallbackData("status", q, mark.text)
      BY <1>6, <2>2, <3>1 DEF s_res_status
    <3> QED BY <3>1, <3>2, CallbackSound DEF Kinds, NoMark
  <2>3. CASE ch # "CR" /\ ch # "LF"
    BY <1>1, <1>6, <2>3 DEF s_res_status, MARK, Kinds
  <2> QED BY <2>1, <2>2, <2>3
<1> QED BY <1>4, <1>5, <1>6

-----------------------------------------------------------------------------
(* Header names and values.                                                *)

LEMMA FieldNames ==
    /\ FieldStart \in HeaderName
    /\ \A h \in HeaderName : FieldNext(h) \in HeaderName /\ ValueFlag(h) \in SUBSET FlagName
    /\ ConnectionToken \in HeaderName \ {"h_connection", "h_transfer_encoding"}
<1>1. FieldStart \in HeaderName
  BY DEF FieldStart, HeaderName
<1>2. ASSUME NEW h \in HeaderName
      PROVE  FieldNext(h) \in HeaderName
  BY DEF FieldNext, HeaderName
<1>3. ASSUME NEW h \in HeaderName
      PROVE  ValueFlag(h) \in SUBSET FlagName
  BY DEF ValueFlag, FlagName
<1>4. ConnectionToken \in HeaderName \ {"h_connection", "h_transfer_encoding"}
  BY DEF ConnectionToken, HeaderName
<1> QED BY <1>1, <1>2, <1>3, <1>4

LEMMA FieldSound ==
    ASSUME Sound(parser), mark.kind \in Kinds, s_header_field_start \/ s_header_field
    PROVE  Sound(parser') /\ Fresh(parser') /\ mark'.kind \in Kinds
<1>1. /\ Sound(P) /\ Fresh(P) /\ P.state = parser.state
      /\ parser.state \in {"s_header_field_start", "s_header_field"}
  BY StaySound, CountedSound DEF s_header_field_start, s_header_field, At
<1>2. Sound(Error(P, "HPE_INVALID_HEADER_TOKEN")) /\ Fresh(Error(P, "HPE_INVALID_HEADER_TOKEN"))
  BY <1>1, ErrorSound DEF ErrorName
<1>3. \A s \in {"s_headers_almost_done", "s_header_field", "s_header_value_discard_ws"} :
         To(P, s) \in ParserType /\ To(P, s).state = s /\ To(P, s).content_length <= ULLONG_MAX
         /\ Sound(To(P, s)) /\ Fresh(To(P, s)) /\ s \notin Special
  BY ToPlain DEF StateName, Special, ChunkStates, SizeStates
<1>4. CASE s_header_field_start
  <2>1. PICK r \in ParserType : /\ r = To(P, "s_header_field") /\ r.state \notin Special
                               /\ r.content_length <= ULLONG_MAX
    BY <1>3
  <2>2. PICK h \in HeaderName : h = FieldStart
    BY FieldNames
  <2>3. PICK q \in ParserType : q = [r EXCEPT !.header_state = h] /\ Same(q, r, {"header_state"})
    BY Assigned
  <2>4. Sound(q) /\ Fresh(q)
    BY <2>1, <2>3, PlainSound DEF Same
  <2>5. \/ parser' = To(P, "s_headers_almost_done") /\ mark' = mark
        \/ parser' = Error(P, "HPE_INVALID_HEADER_TOKEN") /\ mark' = mark
        \/ parser' = q /\ mark'.kind = "field"
    BY <1>4, <2>1, <2>2, <2>3 DEF s_header_field_start, MARK
  <2> QED BY <1>2, <1>3, <2>4, <2>5 DEF Kinds
<1>5. CASE s_header_field
  <2>1. CASE ch = ":"
    <3>1. PICK q : q = To(P, "s_header_value_discard_ws") /\ Sound(q) /\ Fresh(q)
      BY <1>3
    <3>2. CallbackData("field", q, mark.text)
      BY <1>5, <2>1, <3>1 DEF s_header_field
    <3> QED BY <3>1, <3>2, CallbackSound DEF Kinds, NoMark
  <2>2. CASE ch # ":"
    <3>1. PICK p \in ParserType : /\ p = P /\ p.state = "s_header_field"
                                 /\ p.content_length <= ULLONG_MAX
      BY <1>1, <1>5 DEF s_header_field, At, Sound, Lengths
    <3>2. PICK h \in HeaderName : h = FieldNext(p.header_state)
      BY FieldNames DEF ParserType
    <3>3. PICK q \in ParserType : q = [p EXCEPT !.header_state = h] /\ Same(q, p, {"header_state"})
      BY Assigned
    <3>4. Sound(q) /\ Fresh(q)
      BY <3>1, <3>3, PlainSound DEF Same, Special, ChunkStates, SizeStates
    <3>5. parser' \in {q, Error(P, "HPE_INVALID_HEADER_TOKEN")} /\ mark'.kind = "field"
      BY <1>5, <2>2, <3>1, <3>2, <3>3 DEF s_header_field, MARK
    <3> QED BY <1>2, <3>4, <3>5 DEF Kinds
  <2> QED BY <2>1, <2>2
<1> QED BY <1>4, <1>5

\* The header states that may be met inside a value.
ValueStates == HeaderName \ {"h_connection", "h_transfer_encoding"}

\* A parser inside a value, q, with another header state, flags or length.
LEMMA InValue ==
    ASSUME NEW q \in ParserType, q.state = "s_header_value", q.content_length <= ULLONG_MAX
    PROVE  \A h \in ValueStates :
              /\ [q EXCEPT !.header_state = h] \in ParserType
              /\ Same([q EXCEPT !.header_state = h], q, {"header_state"})
              /\ Sound([q EXCEPT !.header_state = h]) /\ Fresh([q EXCEPT !.header_state = h])
<1> TAKE h \in ValueStates
<1>1. PICK r \in ParserType : /\ r = [q EXCEPT !.header_state = h] /\ r.header_state = h
                             /\ Same(r, q, {"header_state"})
  BY HeaderAssigned DEF ValueStates
<1>2. Sound(r) /\ Fresh(r)
  BY <1>1, ValueSound DEF Same, ValueStates
<1> QED BY <1>1, <1>2

\* The digits of a Content-Length.
LEMMA LengthStartSound ==
    ASSUME NEW q \in ParserType, q.state = "s_header_value", q.content_length <= ULLONG_MAX,
           q.header_state = "h_content_length"
    PROVE  Sound(LengthStart(q)) /\ Fresh(LengthStart(q))
<1>1. Sound(q) /\ Fresh(q)
  BY ValueSound
<1>2. \A e \in ErrorName : Sound(Error(q, e)) /\ Fresh(Error(q, e))
  BY <1>1, ErrorSound
<1>3. CASE ch \in DOMAIN Digit /\ "F_CONTENTLENGTH" \notin q.flags
  <2>1. PICK d \in Nat : d = Digit[ch] /\ d <= 2
    BY <1>3, DigitValue
  <2>2. PICK f \in SUBSET FlagName : f = q.flags \cup {"F_CONTENTLENGTH"}
    BY DEF ParserType, FlagName
  <2>3. PICK r \in ParserType : r = [q EXCEPT !.flags = f] /\ Same(r, q, {"flags"})
    BY Assigned
  <2>4. PICK p \in ParserType : /\ p = [r EXCEPT !.content_length = d] /\ p.content_length = d
                               /\ Same(p, r, {"content_length"})
    BY Assigned
  <2>5. p.state = "s_header_value" /\ p.content_length <= ULLONG_MAX
    BY <2>1, <2>3, <2>4, ParserAssumption DEF Same
  <2>6. /\ Sound([p EXCEPT !.header_state = "h_content_length_num"])
        /\ Fresh([p EXCEPT !.header_state = "h_content_length_num"])
    BY <2>5, InValue DEF ValueStates, HeaderName
  <2>7. LengthStart(q) = [p EXCEPT !.header_state = "h_content_length_num"]
    BY <1>3, <2>1, <2>2, <2>3, <2>4 DEF LengthStart
  <2> QED BY <2>6, <2>7
<1>4. CASE ch \notin DOMAIN Digit
  BY <1>2, <1>4 DEF LengthStart, ErrorName
<1>5. CASE ch \in DOMAIN Digit /\ "F_CONTENTLENGTH" \in q.flags
  BY <1>2, <1>5 DEF LengthStart, ErrorName
<1> QED BY <1>3, <1>4, <1>5

LEMMA LengthDigitSound ==
    ASSUME NEW q \in ParserType, Sound(q), q.state = "s_header_value"
    PROVE  Sound(LengthDigit(q)) /\ Fresh(LengthDigit(q))
<1>1. CASE ch \notin DOMAIN Digit \/ (ULLONG_MAX - 10) \div 10 < q.content_length
  BY <1>1, ErrorSound DEF LengthDigit, ErrorName
<1>2. CASE ch \in DOMAIN Digit /\ ~((ULLONG_MAX - 10) \div 10 < q.content_length)
  <2>1. PICK d \in Nat : d = Digit[ch] /\ d <= 2
    BY <1>2, DigitValue
  <2>2. q.content_length \in Nat
    BY DEF ParserType
  <2>3. PICK n \in Nat : n = q.content_length * 10 + d /\ n < ULLONG_MAX
    BY <1>2, <2>1, <2>2, LengthBound
  <2>4. PICK r \in ParserType : /\ r = [q EXCEPT !.content_length = n] /\ r.content_length = n
                               /\ Same(r, q, {"content_length"})
    BY LengthAssigned
  <2>5. r.content_length <= ULLONG_MAX
    BY <2>3, <2>4, ParserAssumption
  <2>6. Sound(r) /\ Fresh(r)
    BY <2>4, <2>5, ValueSound DEF Same, Sound, Lengths
  <2>7. LengthDigit(q) = r
    BY <1>2, <2>1, <2>3, <2>4 DEF LengthDigit
  <2> QED BY <2>6, <2>7
<1> QED BY <1>1, <1>2

\* The first symbol of a value.
LEMMA ValueStartSound ==
    ASSUME NEW q \in ParserType, q.state = "s_header_value", q.content_length <= ULLONG_MAX
    PROVE  Sound(ValueStart(q)) /\ Fresh(ValueStart(q))
<1>1. \A h \in ValueStates : Sound([q EXCEPT !.header_state = h]) /\ Fresh([q EXCEPT !.header_state = h])
  BY InValue
<1>2. CASE q.header_state = "h_upgrade"
  <2>1. PICK f \in SUBSET FlagName : f = q.flags \cup {"F_UPGRADE"}
    BY DEF ParserType, FlagName
  <2>2. PICK r \in ParserType : r = [q EXCEPT !.flags = f] /\ Same(r, q, {"flags"})
    BY Assigned
  <2>3. r.state = "s_header_value" /\ r.content_length <= ULLONG_MAX
    BY <2>2 DEF Same
  <2>4. Sound([r EXCEPT !.header_state = "h_general"]) /\ Fresh([r EXCEPT !.header_state = "h_general"])
    BY <2>3, InValue DEF ValueStates, HeaderName
  <2>5. ValueStart(q) = [r EXCEPT !.header_state = "h_general"]
    BY <1>2, <2>1, <2>2 DEF ValueStart
  <2> QED BY <2>4, <2>5
<1>3. CASE q.header_state = "h_content_length"
  <2>1. ValueStart(q) = LengthStart(q)
    BY <1>3 DEF ValueStart
  <2> QED BY <1>3, <2>1, LengthStartSound
<1>4. CASE q.header_state = "h_connection"
  <2>1. ValueStart(q) = [q EXCEPT !.header_state = ConnectionToken]
    BY <1>4 DEF ValueStart
  <2>2. ConnectionToken \in ValueStates
    BY FieldNames DEF ValueStates
  <2> QED BY <1>1, <2>1, <2>2
<1>5. CASE q.header_state \in {"h_content_length_ws", "h_matching_connection_token_start"}
  <2>1. ValueStart(q) = q
    BY <1>5 DEF ValueStart
  <2> QED BY <1>5, <2>1, ValueSound
<1>6. CASE q.header_state \notin {"h_upgrade", "h_content_length", "h_connection",
                                  "h_content_length_ws", "h_matching_connection_token_start"}
  <2>1. ValueStart(q) \in {[q EXCEPT !.header_state = "h_matching_transfer_encoding_chunked"],
                           [q EXCEPT !.header_state = "h_general"]}
    BY <1>6 DEF ValueStart
  <2> QED BY <1>1, <2>1 DEF ValueStates, HeaderName
<1> QED BY <1>2, <1>3, <1>4, <1>5, <1>6

\* The other symbols of a value.
LEMMA ValueNextSound ==
    ASSUME NEW q \in ParserType, Sound(q), Fresh(q), q.state = "s_header_value"
    PROVE  Sound(ValueNext(q)) /\ Fresh(ValueNext(q))
<1>1. q.content_length <= ULLONG_MAX /\ q.header_state \in ValueStates
  BY DEF Sound, Lengths, ParserType, ValueStates
<1>2. \A h \in ValueStates : Sound([q EXCEPT !.header_state = h]) /\ Fresh([q EXCEPT !.header_state = h])
  BY <1>1, InValue
<1>3. Sound(LengthDigit(q)) /\ Fresh(LengthDigit(q))
  BY LengthDigitSound
<1>4. Sound(Error(q, "HPE_INVALID_CONTENT_LENGTH")) /\ Fresh(Error(q, "HPE_INVALID_CONTENT_LENGTH"))
  BY ErrorSound DEF ErrorName
<1>5. ConnectionToken \in ValueStates
  BY FieldNames DEF ValueStates
<1>6. CASE /\ q.header_state \in {"h_connection_keep_alive", "h_connection_close", "h_connection_upgrade"}
           /\ ch = ","
  <2>0. PICK h \in HeaderName : h = "h_matching_connection_token_start"
    BY DEF HeaderName
  <2>1. PICK r \in ParserType : /\ r = [q EXCEPT !.header_state = h] /\ r.header_state = h
                               /\ Same(r, q, {"header_state"})
    BY HeaderAssigned
  <2>2. PICK f \in SUBSET FlagName : f = r.flags \cup ValueFlag(q.header_state)
    BY <1>1, FieldNames DEF ParserType, ValueStates
  <2>3. PICK p \in ParserType : p = [r EXCEPT !.flags = f] /\ Same(p, r, {"flags"})
    BY Assigned
  <2>4. Sound(p) /\ Fresh(p)
    BY <1>1, <2>0, <2>1, <2>3, ValueSound DEF Same
  <2>5. ValueNext(q) = p
    BY <1>6, <2>0, <2>1, <2>2, <2>3 DEF ValueNext
  <2> QED BY <2>4, <2>5
<1>7. CASE q.header_state = "h_content_length_num"
  <2>1. ValueNext(q) \in {[q EXCEPT !.header_state = "h_content_length_ws"], LengthDigit(q)}
    BY <1>7 DEF ValueNext
  <2> QED BY <1>2, <1>3, <2>1 DEF ValueStates, HeaderName
<1>8. CASE q.header_state = "h_content_length_ws"
  <2>1. ValueNext(q) \in {q, Error(q, "HPE_INVALID_CONTENT_LENGTH")}
    BY <1>8 DEF ValueNext
  <2> QED BY <1>4, <2>1
<1>9. CASE /\ q.header_state \notin {"h_content_length_num", "h_content_length_ws"}
           /\ ~(/\ q.header_state \in {"h_connection_keep_alive", "h_connection_close",
                                       "h_connection_upgrade"}
                /\ ch = ",")
  <2> DEFINE Options == {"h_transfer_encoding_chunked", "h_general", "h_connection_keep_alive",
                         "h_matching_connection_token", "h_connection_close",
                         "h_connection_upgrade", "h_matching_connection_token_start",
                         ConnectionToken}
  <2>1. ValueNext(q) = q \/ \E h \in Options : ValueNext(q) = [q EXCEPT !.header_state = h]
    BY <1>9 DEF ValueNext
  <2>2. Options \subseteq ValueStates
    BY <1>5 DEF ValueStates, HeaderName
  <2> QED BY <1>2, <2>1, <2>2
<1> QED BY <1>6, <1>7, <1>8, <1>9

\* The parser after the last symbol of a header line: the flag of a complete
\* value is set.
LEMMA FlagSet ==
    ASSUME Sound(parser)
    PROVE  LET q == [To(P, "s_header_field_start") EXCEPT !.flags = @ \cup ValueFlag(P.header_state)]
           IN  Sound(q) /\ Fresh(q)
<1>1. PICK r \in ParserType : /\ r = To(P, "s_header_field_start") /\ r.state = "s_header_field_start"
                             /\ r.content_length <= ULLONG_MAX
  BY ToPlain DEF StateName, Special, ChunkStates, SizeStates
<1>2. P.header_state \in HeaderName
  BY CountedSound DEF Sound, ParserType
<1>3. PICK f \in SUBSET FlagName : f = r.flags \cup ValueFlag(P.header_state)
  BY <1>2, FieldNames DEF ParserType
<1>4. PICK q \in ParserType : q = [r EXCEPT !.flags = f] /\ Same(q, r, {"flags"})
  BY Assigned
<1>5. Sound(q) /\ Fresh(q)
  BY <1>1, <1>4, PlainSound DEF Same, Special, ChunkStates, SizeStates
<1> QED BY <1>1, <1>3, <1>4, <1>5

LEMMA ValuesSound ==
    ASSUME Sound(parser), mark.kind \in Kinds,
           s_header_value_discard_ws \/ s_header_value_start \/ s_header_value \/ s_header_value_end
    PROVE  Sound(parser') /\ Fresh(parser') /\ mark'.kind \in Kinds
<1>1. Sound(P) /\ Fresh(P) /\ P \in ParserType /\ P.state = parser.state
  BY StaySound, CountedSound DEF s_header_value_discard_ws, s_header_value_start, s_header_value,
       s_header_value_end, At, Sound
<1>2. \A s \in {"s_header_value_discard_ws_almost_done", "s_header_value_discard_lws",
                "s_header_almost_done"} : Sound(To(P, s)) /\ Fresh(To(P, s))
  BY ToPlain DEF StateName, Special, ChunkStates, SizeStates
<1>3. CASE s_header_value_discard_ws
  BY <1>1, <1>2, <1>3 DEF s_header_value_discard_ws
<1>4. CASE s_header_value_start
  <2>1. PICK q \in ParserType : /\ q = To(P, "s_header_value") /\ q.state = "s_header_value"
                               /\ Same(q, P, {"state"})
    BY <1>1, Assigned DEF StateName
  <2>2. q.content_length <= ULLONG_MAX
    BY <1>1, <2>1 DEF Same, Sound, Lengths
  <2>3. Sound(ValueStart(q)) /\ Fresh(ValueStart(q))
    BY <2>1, <2>2, ValueStartSound
  <2>4. parser' = ValueStart(q) /\ mark'.kind = "value"
    BY <1>4, <2>1 DEF s_header_value_start, MARK
  <2> QED BY <2>3, <2>4 DEF Kinds
<1>5. CASE s_header_value
  <2>1. PICK q \in ParserType : q = P /\ Sound(q) /\ Fresh(q) /\ q.state = "s_header_value"
    BY <1>1, <1>5 DEF s_header_value, At
  <2>2. Sound(ValueNext(q)) /\ Fresh(ValueNext(q))
    BY <2>1, ValueNextSound
  <2>3. Sound(Error(q, "HPE_INVALID_HEADER_TOKEN")) /\ Fresh(Error(q, "HPE_INVALID_HEADER_TOKEN"))
    BY <2>1, ErrorSound DEF ErrorName
  <2>4. parser' \in {ValueNext(q), Error(q, "HPE_INVALID_HEADER_TOKEN")} /\ mark'.kind = "value"
    BY <1>5, <2>1 DEF s_header_value, MARK
  <2> QED BY <2>2, <2>3, <2>4 DEF Kinds
<1>6. CASE s_header_value_end
  <2>1. PICK q : q = To(P, "s_header_almost_done") /\ Sound(q) /\ Fresh(q)
    BY <1>2
  <2>2. CallbackData("value", q, mark.text)
    BY <1>6, <2>1 DEF s_header_value_end
  <2> QED BY <2>1, <2>2, CallbackSound DEF Kinds, NoMark
<1> QED BY <1>3, <1>4, <1>5, <1>6

LEMMA AfterValueSound ==
    ASSUME Sound(parser), mark.kind \in Kinds, s_header_value_lws \/ s_header_value_discard_lws
    PROVE  Sound(parser') /\ Fresh(parser') /\ mark'.kind \in Kinds
<1>1. Sound(P) /\ Fresh(P) /\ P \in ParserType
  BY StaySound DEF s_header_value_lws, s_header_value_discard_lws, At, Sound
<1>2. PICK q : /\ q = [To(P, "s_header_field_start") EXCEPT !.flags = @ \cup ValueFlag(P.header_state)]
               /\ Sound(q) /\ Fresh(q)
  BY FlagSet
<1>3. CASE s_header_value_lws
  <2>1. CASE ch = "SP"
    <3>1. PICK r \in ParserType : /\ r = To(P, "s_header_value_start")
                                 /\ r.state = "s_header_value_start" /\ r.content_length <= ULLONG_MAX
      BY ToPlain DEF StateName, Special, ChunkStates, SizeStates
    <3>2. PICK h \in HeaderName : h = IF r.header_state = "h_content_length_num"
                                      THEN "h_content_length_ws" ELSE r.header_state
      BY DEF ParserType, HeaderName
    <3>3. PICK p \in ParserType : p = [r EXCEPT !.header_state = h] /\ Same(p, r, {"header_state"})
      BY Assigned
    <3>4. Sound(p) /\ Fresh(p)
      BY <3>1, <3>3, PlainSound DEF Same, Special, ChunkStates, SizeStates
    <3>5. parser' = p /\ mark' = mark
      BY <1>3, <2>1, <3>1, <3>2, <3>3 DEF s_header_value_lws
    <3> QED BY <3>4, <3>5
  <2>2. CASE ch # "SP"
    BY <1>2, <1>3, <2>2 DEF s_header_value_lws
  <2> QED BY <2>1, <2>2
<1>4. CASE s_header_value_discard_lws
  <2>1. CASE ch = "SP"
    <3>1. Sound(To(P, "s_header_value_discard_ws")) /\ Fresh(To(P, "s_header_value_discard_ws"))
      BY ToPlain DEF StateName, Special, ChunkStates, SizeStates
    <3> QED BY <1>4, <2>1, <3>1 DEF s_header_value_discard_lws
  <2>2. CASE ch # "SP" /\ P.header_state = "h_content_length"
    <3>1. Sound(Error(P, "HPE_INVALID_CONTENT_LENGTH")) /\ Fresh(Error(P, "HPE_INVALID_CONTENT_LENGTH"))
      BY <1>1, ErrorSound DEF ErrorName
    <3> QED BY <1>4, <2>2, <3>1 DEF s_header_value_discard_lws
  <2>3. CASE ch # "SP" /\ P.header_state # "h_content_length"
    <3>1. CallbackData("value", q, <<>>)
      BY <1>2, <1>4, <2>3 DEF s_header_value_discard_lws
    <3> QED BY <1>2, <3>1, CallbackSound DEF Kinds, NoMark
  <2> QED BY <2>1, <2>2, <2>3
<1> QED BY <1>3, <1>4

-----------------------------------------------------------------------------
(* The end of the head, and the body.                                      *)

\* on_message_complete, and the state for the next message.
LEMMA CompleteSound ==
    ASSUME NEW q \in ParserType, q.content_length <= ULLONG_MAX, MessageComplete(q)
    PROVE  Sound(parser') /\ Fresh(parser') /\ mark' = mark
<1>1. PICK s \in StateName \ Special : s = NEW_MESSAGE(q)
  BY DEF NEW_MESSAGE, StateName, Special, ChunkStates, SizeStates
<1>2. PICK r \in ParserType : r = To(q, s) /\ r.state = s /\ Same(r, q, {"state"})
  BY Assigned
<1>3. r.content_length <= ULLONG_MAX
  BY <1>2 DEF Same
<1>4. Sound(r) /\ Fresh(r)
  BY <1>2, <1>3, PlainSound
<1> QED BY <1>1, <1>2, <1>4 DEF MessageComplete

LEMMA HeadersSound ==
    ASSUME Sound(parser), mark.kind \in Kinds, s_headers_almost_done \/ s_headers_done
    PROVE  Sound(parser') /\ Fresh(parser') /\ mark'.kind \in Kinds
<1>1. Sound(P) /\ Fresh(P) /\ P \in ParserType /\ P.content_length \in Nat /\ P.content_length <= ULLONG_MAX
  BY StaySound DEF s_headers_almost_done, s_headers_done, At, Sound, Lengths, ParserType
<1>2. CASE s_headers_almost_done
  <2>1. \A e \in ErrorName : Sound(Error(P, e)) /\ Fresh(Error(P, e))
    BY <1>1, ErrorSound
  <2>2. Sound(To(P, "s_message_done")) /\ Fresh(To(P, "s_message_done"))
    BY ToPlain DEF StateName, BodyStates, Special, ChunkStates, SizeStates
  <2>3. PICK r \in ParserType : /\ r = To(P, "s_headers_done") /\ r.state = "s_headers_done"
                               /\ r.content_length <= ULLONG_MAX
    BY ToPlain DEF StateName, Special, ChunkStates, SizeStates
  <2>4. PICK b \in BOOLEAN : b = IF {"F_UPGRADE", "F_CONNECTION_UPGRADE"} \subseteq P.flags
                                 THEN P.type = "HTTP_REQUEST" ELSE P.method = "CONNECT"
    OBVIOUS
  <2>5. PICK q \in ParserType : q = [r EXCEPT !.upgrade = b] /\ Same(q, r, {})
    BY Assigned
  <2>6. Sound(q) /\ Fresh(q)
    BY <2>3, <2>5, PlainSound DEF Same, Special, ChunkStates, SizeStates
  <2>7. mark' = mark
    BY <1>2 DEF s_headers_almost_done
  <2>8. parser' \in {Error(P, "HPE_STRICT"), Error(P, "HPE_UNEXPECTED_CONTENT_LENGTH"),
                     To(P, "s_message_done"), q}
    BY <1>2, <2>3, <2>4, <2>5 DEF s_headers_almost_done
  <2> QED BY <2>1, <2>2, <2>6, <2>7, <2>8 DEF ErrorName
<1>3. CASE s_headers_done
  <2>1. PICK q \in ParserType : q = [P EXCEPT !.nread = 0] /\ q.nread = 0 /\ Same(q, P, {"nread"})
    BY <1>1, Assigned
  <2>2. q.content_length <= ULLONG_MAX
    BY <1>1, <2>1 DEF Same
  <2>3. CASE MessageComplete(q)
    BY <2>2, <2>3, CompleteSound
  <2>4. CASE ~MessageComplete(q)
    <3> DEFINE chunked == "F_CHUNKED" \in q.flags
               hasBody == chunked \/ q.content_length \notin {0, ULLONG_MAX}
    <3>1. PICK s : s = IF chunked THEN "s_chunk_size_start"
                       ELSE IF hasBody THEN "s_body_identity" ELSE "s_body_identity_eof"
      OBVIOUS
    <3>2. s \in StateName
      BY <3>1 DEF StateName, BodyStates
    <3>3. parser' = To(q, s) /\ mark' = mark
      BY <1>3, <2>1, <2>4, <3>1 DEF s_headers_done
    <3>4. PICK r \in ParserType : r = To(q, s) /\ r.state = s /\ Same(r, q, {"state"})
      BY <3>2, Assigned
    <3>5. r.nread = 0 /\ r.content_length = q.content_length /\ r.flags = q.flags
      BY <2>1, <3>4 DEF Same
    <3>6. CASE chunked
      BY <2>2, <3>1, <3>3, <3>4, <3>5, <3>6 DEF Sound, Lengths, Fresh, SizeStates
    <3>7. CASE ~chunked /\ hasBody
      BY <2>2, <3>1, <3>3, <3>4, <3>5, <3>7 DEF Sound, Lengths, Fresh, SizeStates, ChunkStates
    <3>8. CASE ~chunked /\ ~hasBody
      BY <2>2, <3>1, <3>3, <3>4, <3>5, <3>8 DEF Sound, Lengths, Fresh, SizeStates, ChunkStates
    <3> QED BY <3>6, <3>7, <3>8
  <2> QED BY <2>3, <2>4
<1> QED BY <1>2, <1>3

\* What is read of the body: something, and no more than there is or than the
\* body has.
LEMMA ReadSome ==
    ASSUME Sound(parser), data \in Seq(Symbol), At({"s_body_identity", "s_chunk_data"})
    PROVE  /\ Len(data) \in Nat /\ BodyRead \in 1..Len(data) /\ BodyRead <= P.content_length
           /\ P.content_length \in Nat /\ P.content_length < ULLONG_MAX
<1>1. Len(data) \in Nat /\ Len(data) > 0
  BY EmptySeq DEF At, Running
<1>2. /\ P.content_length = parser.content_length /\ parser.content_length \in Nat
      /\ parser.content_length <= ULLONG_MAX /\ parser.content_length \notin {0, ULLONG_MAX}
  BY CountedSound DEF At, Sound, Lengths, ParserType
<1>3. ULLONG_MAX \in Nat
  BY ParserAssumption
<1> QED BY <1>1, <1>2, <1>3 DEF BodyRead

LEMMA IdentitySound ==
    ASSUME Sound(parser), mark.kind \in Kinds, data \in Seq(Symbol),
           s_body_identity \/ s_body_identity_eof \/ s_message_done
    PROVE  Sound(parser') /\ Fresh(parser') /\ mark'.kind \in Kinds
<1>1. /\ Sound(P) /\ Fresh(P) /\ P \in ParserType /\ P.content_length <= ULLONG_MAX
      /\ P.state = parser.state
  BY StaySound, CountedSound DEF s_body_identity, s_body_identity_eof, s_message_done, At, Sound, Lengths
<1>2. CASE s_body_identity
  <2>1. /\ BodyRead \in Nat \ {0} /\ BodyRead <= P.content_length
        /\ P.content_length \in Nat /\ P.content_length < ULLONG_MAX
    BY <1>2, ReadSome DEF s_body_identity, At
  <2>2. ULLONG_MAX \in Nat
    BY ParserAssumption
  <2>3. CASE P.content_length = BodyRead
    <3>1. PICK r \in ParserType : r = To(P, "s_message_done") /\ r.state = "s_message_done"
      BY ToPlain DEF StateName, BodyStates, Special, ChunkStates, SizeStates
    <3>2. PICK q \in ParserType : /\ q = [r EXCEPT !.content_length = 0] /\ q.content_length = 0
                                 /\ Same(q, r, {"content_length"})
      BY Assigned
    <3>0. q.content_length <= ULLONG_MAX /\ q.state \notin Special
      BY <2>2, <3>1, <3>2 DEF Same, Special, ChunkStates, SizeStates
    <3>3. Sound(q) /\ Fresh(q)
      BY <3>0, PlainSound
    <3>4. PICK text : text = BodyText
      OBVIOUS
    <3>5. CallbackData("body", q, text)
      BY <1>2, <2>3, <3>1, <3>2, <3>4 DEF s_body_identity
    <3> QED BY <3>3, <3>5, CallbackSound DEF Kinds, NoMark
  <2>4. CASE P.content_length # BodyRead
    <3>1. PICK p \in ParserType : p = P /\ p.state = "s_body_identity"
      BY <1>1, <1>2 DEF s_body_identity, At
    <3>2. PICK n \in Nat : n = p.content_length - BodyRead /\ n # 0 /\ n < ULLONG_MAX
      BY <2>1, <2>2, <2>4, <3>1
    <3>3. PICK q \in ParserType : /\ q = [p EXCEPT !.content_length = n] /\ q.content_length = n
                                 /\ Same(q, p, {"content_length"})
      BY Assigned
    <3>4. Sound(q) /\ Fresh(q)
      BY <2>2, <3>1, <3>2, <3>3 DEF Same, Sound, Lengths, Fresh, SizeStates, ChunkStates
    <3>5. parser' = q /\ mark'.kind = "body"
      BY <1>2, <2>4, <3>1, <3>2, <3>3 DEF s_body_identity
    <3> QED BY <3>4, <3>5 DEF Kinds
  <2> QED BY <2>3, <2>4
<1>3. CASE s_body_identity_eof
  BY <1>1, <1>3 DEF s_body_identity_eof, Kinds
<1>4. CASE s_message_done
  <2>1. PICK q \in ParserType : q = P /\ q.content_length <= ULLONG_MAX
    BY <1>1
  <2>2. MessageComplete(q)
    BY <1>4, <2>1 DEF s_message_done
  <2> QED BY <2>1, <2>2, CompleteSound
<1> QED BY <1>2, <1>3, <1>4

LEMMA ChunkSound ==
    ASSUME Sound(parser), mark.kind \in Kinds, data \in Seq(Symbol),
           s_chunk_data \/ s_chunk_data_almost_done
    PROVE  Sound(parser') /\ Fresh(parser') /\ mark'.kind \in Kinds
<1>1. /\ Sound(P) /\ Fresh(P) /\ P \in ParserType /\ P.state = parser.state
      /\ "F_CHUNKED" \in P.flags
  BY StaySound, CountedSound DEF s_chunk_data, s_chunk_data_almost_done, At, Sound, Lengths, ChunkStates
<1>2. CASE s_chunk_data
  <2>1. /\ BodyRead \in Nat \ {0} /\ BodyRead <= P.content_length
        /\ P.content_length \in Nat /\ P.content_length < ULLONG_MAX
    BY <1>2, ReadSome DEF s_chunk_data, At
  <2>2. ULLONG_MAX \in Nat
    BY ParserAssumption
  <2>3. PICK s \in StateName : s = IF P.content_length = BodyRead THEN "s_chunk_data_almost_done"
                                   ELSE "s_chunk_data"
    BY DEF StateName, BodyStates
  <2>4. PICK r \in ParserType : r = To(P, s) /\ r.state = s /\ Same(r, P, {"state"})
    BY <1>1, Assigned
  <2>5. PICK n \in Nat : n = r.content_length - BodyRead /\ n < ULLONG_MAX
                         /\ (n = 0 <=> P.content_length = BodyRead)
    BY <2>1, <2>2, <2>4 DEF Same
  <2>6. PICK q \in ParserType : /\ q = [r EXCEPT !.content_length = n] /\ q.content_length = n
                               /\ Same(q, r, {"content_length"})
    BY Assigned
  <2>7. /\ q.state = s /\ q.flags = P.flags
    BY <2>4, <2>6 DEF Same
  <2>8. Sound(q) /\ Fresh(q)
    BY <1>1, <2>2, <2>3, <2>5, <2>6, <2>7 DEF Sound, Lengths, Fresh, SizeStates, ChunkStates
  <2>9. P.state = "s_chunk_data"
    BY <1>1, <1>2 DEF s_chunk_data, At
  <2>10. parser' = q /\ mark'.kind = "body"
    BY <1>2, <2>3, <2>4, <2>5, <2>6, <2>9 DEF s_chunk_data
  <2> QED BY <2>8, <2>10 DEF Kinds
<1>3. CASE s_chunk_data_almost_done
  <2>1. CASE ch = "CR"
    <3>1. PICK q \in ParserType : /\ q = To(P, "s_chunk_data_done") /\ q.state = "s_chunk_data_done"
                                 /\ Same(q, P, {"state"})
      BY <1>1, Assigned DEF StateName, BodyStates
    <3>2. Sound(q) /\ Fresh(q)
      BY <1>1, <3>1 DEF Same, Sound, Lengths, Fresh, SizeStates, ChunkStates
    <3>3. PICK k \in Kinds : k = mark.kind
      OBVIOUS
    <3>4. PICK text : text = mark.text
      OBVIOUS
    <3>5. CallbackData(k, q, text)
      BY <1>3, <2>1, <3>1, <3>3, <3>4 DEF s_chunk_data_almost_done
    <3> QED BY <3>2, <3>5, CallbackSound DEF Kinds, NoMark
  <2>2. CASE ch # "CR"
    <3>1. Sound(Error(P, "HPE_STRICT")) /\ Fresh(Error(P, "HPE_STRICT"))
      BY <1>1, ErrorSound DEF ErrorName
    <3> QED BY <1>3, <2>2, <3>1 DEF s_chunk_data_almost_done
  <2> QED BY <2>1, <2>2
<1> QED BY <1>2, <1>3

\* A call that ends inside a token, or in a head that is too long.
LEMMA EndSound ==
    ASSUME Sound(parser), Fresh(parser), mark.kind \in Kinds, HeaderOverflow \/ Leftover
    PROVE  Sound(parser') /\ Fresh(parser') /\ mark'.kind \in Kinds
<1>1. CASE HeaderOverflow
  <2>1. Sound(Error(P, "HPE_HEADER_OVERFLOW")) /\ Fresh(Error(P, "HPE_HEADER_OVERFLOW"))
    BY CountedSound, ErrorSound DEF ErrorName
  <2> QED BY <1>1, <2>1 DEF HeaderOverflow
<1>2. CASE Leftover
  <2>1. PICK k \in Kinds : k = mark.kind
    OBVIOUS
  <2>2. PICK q : q = parser /\ Sound(q) /\ Fresh(q)
    OBVIOUS
  <2>3. PICK text : text = mark.text
    OBVIOUS
  <2>4. CallbackData(k, q, text)
    BY <1>2, <2>1, <2>2, <2>3 DEF Leftover
  <2> QED BY <2>2, <2>4, CallbackSound DEF Kinds, NoMark
<1> QED BY <1>1, <1>2

\* One pass through the switch.
LEMMA StepSound ==
    ASSUME Sound(parser), Fresh(parser), mark.kind \in Kinds, data \in Seq(Symbol), ParserStep
    PROVE  Sound(parser') /\ Fresh(parser') /\ mark'.kind \in Kinds
<1>1. CASE ControlStep
  BY <1>1, ControlSound DEF ControlStep
<1>2. CASE s_start_req \/ s_start_res
  BY <1>2, StartSound DEF s_start_req, s_start_res
<1>3. CASE s_req_spaces_before_url \/ UrlChar \/ UrlEnd
  BY <1>3, UrlSound
<1>4. CASE s_res_status_code \/ s_res_status_start \/ s_res_status
  BY <1>4, StatusSound
<1>5. CASE s_header_field_start \/ s_header_field
  BY <1>5, FieldSound
<1>6. CASE s_header_value_discard_ws \/ s_header_value_start \/ s_header_value \/ s_header_value_end
  BY <1>6, ValuesSound
<1>7. CASE s_header_value_lws \/ s_header_value_discard_lws
  BY <1>7, AfterValueSound
<1>8. CASE s_headers_almost_done \/ s_headers_done
  BY <1>8, HeadersSound
<1>9. CASE s_body_identity \/ s_body_identity_eof \/ s_message_done
  BY <1>9, IdentitySound
<1>10. CASE s_chunk_data \/ s_chunk_data_almost_done
  BY <1>10, ChunkSound
<1>11. CASE HeaderOverflow \/ Leftover
  BY <1>11, EndSound
<1> QED BY <1>1, <1>2, <1>3, <1>4, <1>5, <1>6, <1>7, <1>8, <1>9, <1>10, <1>11 DEF ParserStep

-----------------------------------------------------------------------------
(* The buffer of a call, and the calls.                                    *)

\* The rest of a text from its n-th symbol on.
LEMMA RestOf ==
    ASSUME NEW s \in Seq(Symbol), NEW n \in Nat \ {0}
    PROVE  SubSeq(s, n, Len(s)) \in Seq(Symbol)
<1>1. Len(s) \in Nat
  BY LenProperties
<1>2. \A i \in n..Len(s) : s[i] \in Symbol
  BY <1>1, ElementOfSeq
<1> QED BY <1>1, <1>2, SubSeqProperties

LEMMA FirstOf ==
    ASSUME NEW s \in Seq(Symbol), NEW n \in 1..Len(s)
    PROVE  SubSeq(s, 1, n) \in Seq(Symbol)
<1>1. Len(s) \in Nat
  BY LenProperties
<1>2. \A i \in 1..n : s[i] \in Symbol
  BY <1>1, ElementOfSeq
<1> QED BY <1>1, <1>2, SubSeqProperties

\* A step of the parser moves forward in the buffer, or leaves it.
LEMMA StepData ==
    ASSUME Sound(parser), data \in Seq(Symbol), ParserStep
    PROVE  data' \in Seq(Symbol) /\ executing /\ executing'
<1>1. data # <<>> => Tail(data) \in Seq(Symbol)
  BY HeadTailProperties
<1>2. <<>> \in Seq(Symbol)
  BY EmptySeq
<1>3. executing
  BY DEF ParserStep, HeaderOverflow, ControlStep, s_start_req, s_start_res, s_req_spaces_before_url,
       UrlChar, UrlEnd, s_res_status_code, s_res_status_start, s_res_status, s_header_field_start,
       s_header_field, s_header_value_discard_ws, s_header_value_start, s_header_value,
       s_header_value_end, s_header_value_lws, s_header_value_discard_lws, s_headers_almost_done,
       s_headers_done, s_body_identity, s_body_identity_eof, s_message_done, s_chunk_data,
       s_chunk_data_almost_done, Leftover, At, Running
<1>4. CASE s_body_identity
  <2>1. BodyRead \in Nat \ {0}
    BY <1>4, ReadSome DEF s_body_identity, At
  <2>2. PICK n \in Nat \ {0} : n = BodyRead
    BY <2>1
  <2>3. PICK s \in Seq(Symbol) : s = data
    OBVIOUS
  <2>4. SubSeq(s, n, Len(s)) \in Seq(Symbol)
    BY RestOf
  <2> QED BY <1>2, <1>3, <1>4, <2>2, <2>3, <2>4 DEF s_body_identity, Stop
<1>5. CASE s_chunk_data
  <2>1. BodyRead \in Nat \ {0}
    BY <1>5, ReadSome DEF s_chunk_data, At
  <2>2. PICK n \in Nat \ {0} : n = BodyRead + 1
    BY <2>1
  <2>3. PICK s \in Seq(Symbol) : s = data
    OBVIOUS
  <2>4. SubSeq(s, n, Len(s)) \in Seq(Symbol)
    BY RestOf
  <2> QED BY <1>3, <1>5, <2>2, <2>3, <2>4 DEF s_chunk_data
<1>6. CASE ~s_body_identity /\ ~s_chunk_data
  <2>1. \/ data' = data /\ executing' = executing
        \/ data # <<>> /\ data' = Tail(data) /\ executing' = executing
        \/ data' = <<>> /\ executing' = executing
    BY <1>6 DEF ParserStep, HeaderOverflow, ControlStep, s_start_req, s_start_res,
       s_req_spaces_before_url, UrlChar, UrlEnd, s_res_status_code, s_res_status_start, s_res_status,
       s_header_field_start, s_header_field, s_header_value_discard_ws, s_header_value_start,
       s_header_value, s_header_value_end, s_header_value_lws, s_header_value_discard_lws,
       s_headers_almost_done, s_headers_done, s_body_identity_eof, s_message_done,
       s_chunk_data_almost_done, Leftover, At, Running, Consume, Reexecute, Stop
  <2> QED BY <1>1, <1>2, <1>3, <2>1
<1> QED BY <1>4, <1>5, <1>6

\* A new parser.
LEMMA InitSound ==
    ASSUME NEW type \in {"HTTP_REQUEST", "HTTP_RESPONSE"}
    PROVE  Sound(http_parser_init(type)) /\ Fresh(http_parser_init(type))
<1>1. PICK q : q = http_parser_init(type)
  OBVIOUS
<1>2. q \in ParserType
  BY <1>1 DEF http_parser_init, ParserType, StateName, HeaderName
<1>3. q.content_length = 0 /\ q.state \in {"s_start_req", "s_start_res"}
  BY <1>1 DEF http_parser_init
<1>4. q.content_length <= ULLONG_MAX /\ q.state \notin Special
  BY <1>3, ParserAssumption DEF Special, ChunkStates, SizeStates
<1> QED BY <1>1, <1>2, <1>4, PlainSound

\* The invariant of the parser is inductive.
LEMMA ParserInvInit == Init => ParserInv
<1> SUFFICES ASSUME Init PROVE ParserInv
  OBVIOUS
<1>1. Sound(parser) /\ Fresh(parser)
  BY InitSound DEF Init
<1>2. <<>> \in Seq(Symbol)
  BY EmptySeq
<1> QED BY <1>1, <1>2 DEF Init, ParserInv, CallInv, Kinds, NoMark

LEMMA ParserInvNext == ParserInv /\ [Next]_vars => ParserInv'
<1> SUFFICES ASSUME ParserInv, [Next]_vars PROVE ParserInv'
  OBVIOUS
<1> USE DEF ParserInv
<1>0. <<>> \in Seq(Symbol) /\ NoMark.kind \in Kinds
  BY EmptySeq DEF NoMark, Kinds
<1>1. ASSUME NEW m \in Requests \cup Responses, Send(m)
      PROVE  ParserInv'
  <2>1. inbox \o m.text \in Seq(Symbol)
    BY <1>1, MessageAssumption, ConcatProperties DEF CallInv
  <2> QED BY <1>1, <2>1 DEF Send, pvars, CallInv
<1>2. CASE PeerClose \/ ReadTimeout \/ ChangeServlets \/ handleClient \/ WriteSome \/ WriteFails
           \/ UNCHANGED vars
  <2>1. UNCHANGED pvars /\ inbox' = inbox /\ (pc' # "execute" => pc # "execute")
    BY <1>2 DEF PeerClose, ReadTimeout, ChangeServlets, handleClient, WriteSome, WriteFails, vars, svars
  <2> QED BY <2>1 DEF pvars, CallInv
<1>3. CASE Read
  <2>1. PICK n \in 1..Available : /\ Execute(SubSeq(inbox, 1, n))
                                 /\ inbox' = SubSeq(inbox, n + 1, Len(inbox))
    BY <1>3 DEF Read
  <2>2. PICK s \in Seq(Symbol) : s = inbox
    BY DEF CallInv
  <2>3. Len(s) \in Nat
    BY LenProperties
  <2>4. n \in 1..Len(s) /\ n + 1 \in Nat \ {0}
    BY <2>1, <2>2, <2>3, SessionAssumption DEF Available
  <2>5. SubSeq(s, 1, n) \in Seq(Symbol) /\ SubSeq(s, n + 1, Len(s)) \in Seq(Symbol)
    BY <2>4, FirstOf, RestOf
  <2>6. Resumed(parser.state) \in Kinds
    BY DEF Resumed, Kinds
  <2> QED BY <1>3, <2>1, <2>2, <2>5, <2>6 DEF Read, Execute, CallInv
<1>4. CASE ReadEof
  <2>1. CASE IsServer
    BY <1>4, <2>1 DEF ReadEof, pvars, CallInv
  <2>2. CASE ~IsServer
    <3>1. parser' \in {parser, Error(parser, "HPE_INVALID_EOF_STATE")}
      BY <1>4, <2>2 DEF ReadEof, ExecuteEof
    <3>2. Sound(parser') /\ Fresh(parser')
      BY <3>1, ErrorSound DEF ErrorName
    <3> QED BY <1>0, <1>4, <2>2, <3>2 DEF ReadEof, ExecuteEof, CallInv
  <2> QED BY <2>1, <2>2
<1>5. CASE Parse
  <2>1. CASE ParserStep
    <3>1. Sound(parser') /\ Fresh(parser') /\ mark'.kind \in Kinds
      BY <2>1, StepSound DEF CallInv
    <3>2. data' \in Seq(Symbol) /\ executing'
      BY <2>1, StepData DEF CallInv
    <3> QED BY <1>5, <3>1, <3>2 DEF Parse, svars, CallInv
  <2>2. CASE Return
    BY <1>0, <1>5, <2>2 DEF Parse, Return, svars, CallInv
  <2> QED BY <1>5, <2>1, <2>2 DEF Parse
<1>6. CASE recvRequest
  BY <1>6 DEF recvRequest, CallInv
<1>7. CASE AfterResponse
  <2>1. CASE closesAfter
    BY <1>7, <2>1 DEF AfterResponse, pvars, CallInv
  <2>2. CASE ~closesAfter
    <3>1. Sound(parser') /\ Fresh(parser')
      BY <1>7, <2>2, InitSound DEF AfterResponse, NewParser
    <3> QED BY <1>0, <1>7, <2>2, <3>1 DEF AfterResponse, NewParser, CallInv
  <2> QED BY <2>1, <2>2
<1> QED
  BY <1>1, <1>2, <1>3, <1>4, <1>5, <1>6, <1>7, SessionAssumption DEF Next, Step, Closed

\* The fields of the parser, its buffer and its marks stay consistent, for all
\* messages of any length and however they are cut into reads.
THEOREM ParserInvHolds == Spec => []ParserInv
BY ParserInvInit, ParserInvNext, PTL DEF Spec

\* The assertions of http_parser_execute never fail: for every buffer size,
\* every HTTP_MAX_HEADER_SIZE, every sentinel above 16 and all messages.
THEOREM ParserAssertionsHolds == Spec => []ParserAssertions
<1>1. ParserInv => ParserAssertions
  <2> SUFFICES ASSUME ParserInv PROVE ParserAssertions
    OBVIOUS
  <2>1. Lengths(parser) /\ Fresh(parser) /\ CallInv
    BY DEF ParserInv, Sound
  <2> QED BY <2>1 DEF Lengths, Fresh, CallInv, ParserAssertions, HeaderStateOK, SizeStates, ChunkStates
<1> QED BY <1>1, ParserInvHolds, PTL

-----------------------------------------------------------------------------
(* The session: requests, servlets and responses.                          *)

\* A sequence of anything.
Sequence(s) == s \in Seq(Range(s))

\* The table of servlets.
TableInv ==
    /\ \A u \in DOMAIN m_datas : m_datas[u].uri = u
    /\ Sequence(m_globs)

\* The message that is being parsed: nothing but init sets m_close.
DataInv ==
    /\ {"close", "headers"} \subseteq DOMAIN m_data
    /\ pc \in {"recv", "execute"} => m_data.close = TRUE

\* Which request the fiber is at.
PlaceInv ==
    /\ Sequence(served) /\ Sequence(replies)
    /\ pc \in {"recv", "execute"} => Len(served) = Len(replies)
    /\ pc = "handle" => Len(served) = Len(replies) + 1 /\ served[Len(served)].message = m_data
    /\ pc = "send" => /\ Len(served) = Len(replies) /\ Len(replies) > 0
                      /\ replies[Len(replies)].close = closesAfter
    /\ Len(replies) <= Len(served)

\* What a request asked for, and what its response says.
AnswerInv ==
    /\ \A k \in DOMAIN served : \/ served[k].message.close
                                \/ getHeader(served[k].message.headers, Connection) = KeepAlive
    /\ \A k \in DOMAIN replies :
        /\ {"by", "close", "version"} \subseteq DOMAIN replies[k]
        /\ fnmatch(replies[k].by.uri, served[k].message.path)
        /\ replies[k].version = served[k].message.version
        /\ replies[k].close \/ (KeepAliveOn /\ ~served[k].message.close)
        /\ k < Len(replies) \/ pc \notin {"send", "closed"} => ~replies[k].close

SessionInv == TableInv /\ DataInv /\ PlaceInv /\ AnswerInv

\* A sequence whose elements are in a set.
LEMMA SequenceOf ==
    ASSUME NEW S, NEW s \in Seq(S)
    PROVE  Sequence(s)
<1>1. Len(s) \in Nat /\ DOMAIN s = 1..Len(s)
  BY LenProperties
<1>2. \A i \in 1..Len(s) : s[i] \in Range(s)
  BY <1>1 DEF Range
<1>3. SubSeq(s, 1, Len(s)) \in Seq(Range(s))
  BY <1>1, <1>2, SubSeqProperties
<1>4. SubSeq(s, 1, Len(s)) = s
  BY SubSeqFull
<1> QED BY <1>3, <1>4 DEF Sequence

LEMMA Places ==
    ASSUME NEW s, Sequence(s)
    PROVE  Len(s) \in Nat /\ DOMAIN s = 1..Len(s) /\ (s # <<>> => Len(s) > 0)
BY LenProperties, EmptySeq DEF Sequence

LEMMA Appended ==
    ASSUME NEW s, Sequence(s), NEW e
    PROVE  /\ Sequence(Append(s, e)) /\ Len(Append(s, e)) = Len(s) + 1
           /\ DOMAIN Append(s, e) = 1..(Len(s) + 1)
           /\ \A i \in 1..Len(s) : Append(s, e)[i] = s[i]
           /\ Append(s, e)[Len(s) + 1] = e
<1> DEFINE S == Range(s) \cup {e}
<1>1. s \in Seq(Range(s))
  BY DEF Sequence
<1>2. s \in Seq(S)
  BY <1>1, SeqMonotonic
<1>3. e \in S
  OBVIOUS
<1> HIDE DEF S
<1>4. /\ Append(s, e) \in Seq(S) /\ Len(Append(s, e)) = Len(s) + 1
      /\ \A i \in 1..Len(s) : Append(s, e)[i] = s[i]
      /\ Append(s, e)[Len(s) + 1] = e
  BY <1>2, <1>3, AppendProperties
<1>5. DOMAIN Append(s, e) = 1..(Len(s) + 1)
  BY <1>4, LenProperties
<1> QED BY <1>4, <1>5, SequenceOf

LEMMA Removed ==
    ASSUME NEW s, Sequence(s), NEW i \in DOMAIN s
    PROVE  Sequence(RemoveAt(s, i))
<1> DEFINE S == Range(s)
<1>1. s \in Seq(S)
  BY DEF Sequence
<1>2. Len(s) \in Nat /\ i \in 1..Len(s)
  BY Places
<1>3. \A j \in 1..Len(s) : s[j] \in S
  BY <1>1, ElementOfSeq
<1> HIDE DEF S
<1>4. SubSeq(s, 1, i - 1) \in Seq(S)
  <2>1. \A j \in 1..(i - 1) : s[j] \in S
    BY <1>2, <1>3
  <2> QED BY <1>2, <2>1, SubSeqProperties
<1>5. SubSeq(s, i + 1, Len(s)) \in Seq(S)
  <2>1. \A j \in (i + 1)..Len(s) : s[j] \in S
    BY <1>2, <1>3
  <2> QED BY <1>2, <2>1, SubSeqProperties
<1>6. RemoveAt(s, i) \in Seq(S)
  BY <1>4, <1>5, ConcatProperties DEF RemoveAt
<1> QED BY <1>6, SequenceOf

\* The first of some places of a sequence is one of them.
LEMMA FirstPlace ==
    ASSUME NEW T, T \subseteq Nat, T # {}
    PROVE  Min(T) \in T
<1> DEFINE R == OpToRel(<, Nat)
<1>1. IsWellFoundedOn(R, Nat)
  BY NatLessThanWellFounded
<1>2. \A i, j \in Nat : i < j => <<i, j>> \in R
  BY DEF OpToRel
<1> HIDE DEF R
<1>3. PICK k \in T : \A j \in T : ~ (<<j, k>> \in R)
  BY <1>1, WFMin
<1>4. \A j \in T : ~(j < k)
  BY <1>2, <1>3
<1>5. \A j \in T : k <= j
  BY <1>3, <1>4
<1> QED BY <1>3, <1>5 DEF Min

\* A servlet that getMatchedServlet returns matches the path.
LEMMA Matched ==
    ASSUME TableInv, NEW path
    PROVE  fnmatch(getMatchedServlet(path).uri, path)
<1> DEFINE globs == {i \in DOMAIN m_globs : fnmatch(m_globs[i].uri, path)}
<1>1. CASE path \in DOMAIN m_datas
  BY <1>1 DEF TableInv, getMatchedServlet, fnmatch
<1>2. CASE path \notin DOMAIN m_datas /\ globs # {}
  <2>1. globs \subseteq Nat
    BY Places DEF TableInv
  <2>2. Min(globs) \in globs
    <3> HIDE DEF globs
    <3> QED BY <1>2, <2>1, FirstPlace
  <2>3. fnmatch(m_globs[Min(globs)].uri, path)
    BY <2>2
  <2>4. getMatchedServlet(path) = m_globs[Min(globs)]
    BY <1>2 DEF getMatchedServlet
  <2> QED BY <2>3, <2>4
<1>3. CASE path \notin DOMAIN m_datas /\ globs = {}
  <2>1. getMatchedServlet(path) = NotFoundServlet
    BY <1>3 DEF getMatchedServlet
  <2> QED BY <2>1 DEF NotFoundServlet, fnmatch
<1> QED BY <1>1, <1>2, <1>3

\* Changes of the table.
LEMMA ErasedGlob ==
    ASSUME TableInv, NEW uri
    PROVE  Sequence(eraseGlob(uri))
<1> DEFINE at == {i \in DOMAIN m_globs : m_globs[i].uri = uri}
<1>1. CASE at = {}
  BY <1>1 DEF eraseGlob, TableInv
<1>2. CASE at # {}
  <2>1. at \subseteq Nat
    BY Places DEF TableInv
  <2>2. Min(at) \in at
    <3> HIDE DEF at
    <3> QED BY <1>2, <2>1, FirstPlace
  <2>3. PICK i \in DOMAIN m_globs : i = Min(at)
    BY <2>2
  <2>4. PICK s : s = m_globs /\ Sequence(s)
    BY DEF TableInv
  <2>5. Sequence(RemoveAt(s, i))
    BY <2>3, <2>4, Removed
  <2> QED BY <1>2, <2>3, <2>4, <2>5 DEF eraseGlob
<1> QED BY <1>1, <1>2

LEMMA TableNext ==
    ASSUME TableInv, ChangeServlets
    PROVE  TableInv'
<1>1. ASSUME NEW u \in Path, addServlet(u)
      PROVE  TableInv'
  BY <1>1 DEF addServlet, TableInv
<1>2. ASSUME NEW u \in Path, delServlet(u)
      PROVE  TableInv'
  BY <1>2 DEF delServlet, TableInv
<1>3. ASSUME NEW u, addGlobServlet(u)
      PROVE  TableInv'
  <2>1. PICK s : s = eraseGlob(u) /\ Sequence(s)
    BY ErasedGlob
  <2>2. PICK c : c = [uri |-> u, id |-> changes]
    OBVIOUS
  <2>3. Sequence(Append(s, c))
    BY <2>1, Appended
  <2> QED BY <1>3, <2>1, <2>2, <2>3 DEF addGlobServlet, TableInv
<1>4. ASSUME NEW u, delGlobServlet(u)
      PROVE  TableInv'
  <2>1. PICK s : s = eraseGlob(u) /\ Sequence(s)
    BY ErasedGlob
  <2> QED BY <1>4, <2>1 DEF delGlobServlet, TableInv
<1> QED BY <1>1, <1>2, <1>3, <1>4 DEF ChangeServlets

-----------------------------------------------------------------------------
(* The callbacks leave m_close alone.                                      *)

\* An assignment to another field of a message.
LEMMA FieldKept ==
    ASSUME NEW d, {"close", "headers"} \subseteq DOMAIN d, NEW v
    PROVE  /\ {"close", "headers"} \subseteq DOMAIN [d EXCEPT !.path = v]
           /\ [d EXCEPT !.path = v].close = d.close
           /\ {"close", "headers"} \subseteq DOMAIN [d EXCEPT !.query = v]
           /\ [d EXCEPT !.query = v].close = d.close
           /\ {"close", "headers"} \subseteq DOMAIN [d EXCEPT !.fragment = v]
           /\ [d EXCEPT !.fragment = v].close = d.close
           /\ {"close", "headers"} \subseteq DOMAIN [d EXCEPT !.headers = v]
           /\ [d EXCEPT !.headers = v].close = d.close
           /\ {"close", "headers"} \subseteq DOMAIN [d EXCEPT !.body = v]
           /\ [d EXCEPT !.body = v].close = d.close
           /\ {"close", "headers"} \subseteq DOMAIN [d EXCEPT !.status = v]
           /\ [d EXCEPT !.status = v].close = d.close
           /\ {"close", "headers"} \subseteq DOMAIN [d EXCEPT !.version = v]
           /\ [d EXCEPT !.version = v].close = d.close
           /\ {"close", "headers"} \subseteq DOMAIN [d EXCEPT !.method = v]
           /\ [d EXCEPT !.method = v].close = d.close
           /\ {"close", "headers"} \subseteq DOMAIN [d EXCEPT !.close = v]
           /\ [d EXCEPT !.close = v].close = v
           /\ [d EXCEPT !.close = v].headers = d.headers
OBVIOUS

Keeps(d, e) == {"close", "headers"} \subseteq DOMAIN e /\ e.close = d.close

LEMMA CallbackKeeps ==
    ASSUME {"close", "headers"} \subseteq DOMAIN m_data,
           NEW kind \in Kinds, NEW q, NEW text, CallbackData(kind, q, text)
    PROVE  Keeps(m_data, m_data')
<1>0. PICK d : d = m_data /\ {"close", "headers"} \subseteq DOMAIN d
  OBVIOUS
<1>1. CASE kind = "url"
  <2>1. on_url(q, text)
    BY <1>1 DEF CallbackData
  <2>2. PICK u : /\ u = http_parser_parse_url(text)
                 /\ m_data' = IF ~u.ok THEN m_data
                         ELSE [m_data EXCEPT
                                 !.path = IF u.part["path"] = <<>> THEN @ ELSE u.part["path"],
                                 !.query = IF u.part["query"] = <<>> THEN @ ELSE u.part["query"],
                                 !.fragment = IF u.part["fragment"] = <<>> THEN @ ELSE u.part["fragment"]]
    BY <2>1 DEF on_url
  <2>3. PICK x, y, z : /\ x = (IF u.part["path"] = <<>> THEN d.path ELSE u.part["path"])
                       /\ y = (IF u.part["query"] = <<>> THEN d.query ELSE u.part["query"])
                       /\ z = (IF u.part["fragment"] = <<>> THEN d.fragment ELSE u.part["fragment"])
    OBVIOUS
  <2>4. PICK a : a = [d EXCEPT !.path = x]
    OBVIOUS
  <2>5. PICK b : b = [a EXCEPT !.query = y]
    OBVIOUS
  <2>6. PICK c : c = [b EXCEPT !.fragment = z]
    OBVIOUS
  <2>7. m_data' = d \/ m_data' = c
    BY <1>0, <2>2, <2>3, <2>4, <2>5, <2>6
  <2>8. {"close", "headers"} \subseteq DOMAIN a /\ a.close = d.close
    BY <1>0, <2>4, FieldKept
  <2>9. {"close", "headers"} \subseteq DOMAIN b /\ b.close = a.close
    BY <2>5, <2>8, FieldKept
  <2>10. {"close", "headers"} \subseteq DOMAIN c /\ c.close = b.close
    BY <2>6, <2>9, FieldKept
  <2> QED BY <1>0, <2>7, <2>8, <2>9, <2>10 DEF Keeps
<1>2. CASE kind \in {"field", "none"}
  BY <1>2 DEF CallbackData, on_header_field, Keeps
<1>3. CASE kind = "value"
  <2>1. PICK v : v = setHeader(m_data.headers, wrapper.field, text)
    OBVIOUS
  <2>2. m_data' = [d EXCEPT !.headers = v]
    BY <1>0, <1>3, <2>1 DEF CallbackData, on_header_value
  <2> QED BY <1>0, <2>2, FieldKept DEF Keeps
<1>4. CASE kind = "body"
  <2>1. PICK v : v = m_data.body \o text
    OBVIOUS
  <2>2. m_data' = [d EXCEPT !.body = v]
    BY <1>0, <1>4, <2>1 DEF CallbackData, on_body
  <2> QED BY <1>0, <2>2, FieldKept DEF Keeps
<1>5. CASE kind = "status"
  <2>2. m_data' = [d EXCEPT !.status = q.status_code]
    BY <1>0, <1>5 DEF CallbackData, on_status
  <2> QED BY <1>0, <2>2, FieldKept DEF Keeps
<1> QED BY <1>1, <1>2, <1>3, <1>4, <1>5 DEF Kinds

\* The steps at which a callback is called.
LEMMA CallbackSteps ==
    ASSUME mark.kind \in Kinds, ParserStep, ~s_headers_almost_done
    PROVE  \/ m_data' = m_data
           \/ \E kind \in Kinds : \E q, text : CallbackData(kind, q, text)
<1>1. CASE UrlEnd
  BY <1>1 DEF UrlEnd, Kinds
<1>2. CASE s_res_status
  BY <1>2 DEF s_res_status, Silent, Kinds
<1>3. CASE s_header_field
  BY <1>3 DEF s_header_field, Silent, Kinds
<1>4. CASE s_header_value_end
  BY <1>4 DEF s_header_value_end, Kinds
<1>5. CASE s_header_value_discard_lws
  BY <1>5 DEF s_header_value_discard_lws, Silent, Kinds
<1>6. CASE s_body_identity
  BY <1>6 DEF s_body_identity, Silent, Kinds
<1>7. CASE s_chunk_data_almost_done
  BY <1>7 DEF s_chunk_data_almost_done, Silent
<1>8. CASE Leftover
  BY <1>8 DEF Leftover
<1>9. CASE \/ HeaderOverflow \/ ControlStep \/ s_start_req \/ s_start_res
           \/ s_req_spaces_before_url \/ UrlChar \/ s_res_status_code \/ s_res_status_start
           \/ s_header_field_start \/ s_header_value_discard_ws \/ s_header_value_start
           \/ s_header_value \/ s_header_value_lws \/ s_headers_done \/ s_body_identity_eof
           \/ s_message_done \/ s_chunk_data
  <2>1. m_data' = m_data
    BY <1>9 DEF HeaderOverflow, ControlStep, s_start_req, s_start_res, s_req_spaces_before_url,
         UrlChar, s_res_status_code, s_res_status_start, s_header_field_start,
         s_header_value_discard_ws, s_header_value_start, s_header_value, s_header_value_lws,
         s_headers_done, s_body_identity_eof, s_message_done, s_chunk_data, Silent, MessageComplete
  <2> QED BY <2>1
<1> QED BY <1>1, <1>2, <1>3, <1>4, <1>5, <1>6, <1>7, <1>8, <1>9 DEF ParserStep

LEMMA StepKeeps ==
    ASSUME {"close", "headers"} \subseteq DOMAIN m_data, mark.kind \in Kinds, ParserStep
    PROVE  Keeps(m_data, m_data')
<1>1. CASE s_headers_almost_done
  <2>0. PICK d : d = m_data /\ {"close", "headers"} \subseteq DOMAIN d
    OBVIOUS
  <2>1. PICK v, m, c : v = P.version /\ m = P.method /\ c = P.status_code
    OBVIOUS
  <2>2. PICK a : a = [d EXCEPT !.version = v]
    OBVIOUS
  <2>3. {"close", "headers"} \subseteq DOMAIN a /\ a.close = d.close
    BY <2>0, <2>2, FieldKept
  <2>4. m_data' \in {d, [a EXCEPT !.method = m], [a EXCEPT !.status = c]}
    BY <1>1, <2>0, <2>1, <2>2 DEF s_headers_almost_done
  <2> QED BY <2>0, <2>3, <2>4, FieldKept DEF Keeps
<1>2. CASE ~s_headers_almost_done
  <2>1. CASE m_data' = m_data
    BY <2>1 DEF Keeps
  <2>2. CASE \E kind \in Kinds : \E q, text : CallbackData(kind, q, text)
    <3>1. PICK kind \in Kinds : \E q, text : CallbackData(kind, q, text)
      BY <2>2
    <3>2. PICK q, text : CallbackData(kind, q, text)
      BY <3>1
    <3> QED BY <3>2, CallbackKeeps
  <2> QED BY <1>2, <2>1, <2>2, CallbackSteps
<1> QED BY <1>1, <1>2

-----------------------------------------------------------------------------
(* The invariant of the session.                                           *)

\* Steps that touch neither the messages nor the table.
LEMMA SessionStays ==
    ASSUME SessionInv, UNCHANGED <<m_data, served, replies, m_datas, m_globs>>,
           \/ pc' = pc \/ pc' = "closed"
           \/ {pc, pc'} \subseteq {"recv", "execute"}
    PROVE  SessionInv'
<1>1. TableInv'
  BY DEF SessionInv, TableInv
<1>2. DataInv'
  BY DEF SessionInv, DataInv
<1>3. PlaceInv'
  BY DEF SessionInv, PlaceInv, closesAfter
<1>4. AnswerInv'
  BY DEF SessionInv, AnswerInv
<1> QED BY <1>1, <1>2, <1>3, <1>4 DEF SessionInv

\* HttpRequest::init: a request keeps the connection only if it says so.
LEMMA InitMessage ==
    ASSUME NEW d, {"close", "headers"} \subseteq DOMAIN d, d.close = TRUE
    PROVE  /\ {"close", "headers"} \subseteq DOMAIN init(d)
           /\ init(d).close \/ getHeader(init(d).headers, Connection) = KeepAlive
<1>1. PICK c : c = getHeader(d.headers, Connection)
  OBVIOUS
<1>2. CASE c = <<>>
  BY <1>1, <1>2 DEF init
<1>3. CASE c # <<>>
  <2>1. PICK b \in BOOLEAN : b = (c # KeepAlive)
    OBVIOUS
  <2>2. init(d) = [d EXCEPT !.close = b]
    BY <1>1, <1>3, <2>1 DEF init
  <2>3. PICK e : e = [d EXCEPT !.close = b]
    OBVIOUS
  <2>4. {"close", "headers"} \subseteq DOMAIN e /\ e.close = b /\ e.headers = d.headers
    BY <2>3, FieldKept
  <2> QED BY <1>1, <2>1, <2>2, <2>3, <2>4
<1> QED BY <1>2, <1>3

\* A request that recvRequest returns.
LEMMA Received ==
    ASSUME SessionInv, recvRequest, ~wrapper.error, wrapper.finished
    PROVE  SessionInv'
<1>1. pc = "execute" /\ UNCHANGED <<replies, m_datas, m_globs>>
  BY DEF recvRequest, dvars
<1>2. m_data' \in {init(m_data), m_data} /\ pc' \in {"handle", "closed"}
  BY DEF recvRequest
<1>3. /\ {"close", "headers"} \subseteq DOMAIN m_data'
      /\ m_data'.close \/ getHeader(m_data'.headers, Connection) = KeepAlive
  <2>1. PICK d : d = m_data /\ {"close", "headers"} \subseteq DOMAIN d /\ d.close = TRUE
    BY <1>1 DEF SessionInv, DataInv
  <2> QED BY <1>2, <2>1, InitMessage
<1>4. PICK e : e = [message |-> m_data', pieces |-> seen.pieces, torn |-> torn']
  OBVIOUS
<1>5. e.message = m_data'
  BY <1>4
<1>6. served' = Append(served, e)
  BY <1>4 DEF recvRequest
<1>7. PICK s : s = served /\ Sequence(s) /\ Len(s) = Len(replies)
  BY <1>1 DEF SessionInv, PlaceInv
<1>8. /\ Sequence(served') /\ Len(served') = Len(s) + 1 /\ DOMAIN served' = 1..(Len(s) + 1)
      /\ \A i \in 1..Len(s) : served'[i] = s[i]
      /\ served'[Len(s) + 1] = e
  BY <1>6, <1>7, Appended
<1>9. Len(s) \in Nat /\ DOMAIN s = 1..Len(s)
  BY <1>7, Places
<1>10. DOMAIN replies = 1..Len(s)
  BY <1>7, Places DEF SessionInv, PlaceInv
<1>11. TableInv'
  BY <1>1 DEF SessionInv, TableInv
<1>12. DataInv'
  BY <1>2, <1>3 DEF DataInv
<1>13. PlaceInv'
  <2>1. Sequence(replies') /\ Len(replies') = Len(s)
    BY <1>1, <1>7 DEF SessionInv, PlaceInv
  <2>2. Len(served') = Len(replies') + 1 /\ Len(replies') <= Len(served')
    BY <1>8, <1>9, <2>1
  <2>3. served'[Len(served')].message = m_data'
    BY <1>5, <1>8
  <2> QED BY <1>2, <1>8, <2>1, <2>2, <2>3 DEF PlaceInv
<1>14. AnswerInv'
  <2>1. ASSUME NEW k \in DOMAIN served'
        PROVE  \/ served'[k].message.close
               \/ getHeader(served'[k].message.headers, Connection) = KeepAlive
    <3>1. CASE k \in 1..Len(s)
      BY <1>7, <1>8, <1>9, <3>1 DEF SessionInv, AnswerInv
    <3>2. CASE k = Len(s) + 1
      BY <1>3, <1>5, <1>8, <3>2
    <3> QED BY <1>8, <1>9, <3>1, <3>2
  <2>2. ASSUME NEW k \in DOMAIN replies
        PROVE  /\ {"by", "close", "version"} \subseteq DOMAIN replies[k]
               /\ fnmatch(replies[k].by.uri, served'[k].message.path)
               /\ replies[k].version = served'[k].message.version
               /\ replies[k].close \/ (KeepAliveOn /\ ~served'[k].message.close)
               /\ ~replies[k].close
    <3>1. served'[k] = served[k]
      BY <1>7, <1>8, <1>10
    <3> QED BY <1>1, <3>1 DEF SessionInv, AnswerInv
  <2> QED BY <1>1, <2>1, <2>2 DEF AnswerInv
<1> QED BY <1>11, <1>12, <1>13, <1>14 DEF SessionInv

\* The response of a servlet.
LEMMA Handled ==
    ASSUME SessionInv, handleClient
    PROVE  SessionInv'
<1>1. /\ pc = "handle" /\ pc' = "send"
      /\ UNCHANGED <<m_data, served, m_datas, m_globs>>
  BY DEF handleClient, pvars, dvars
<1>2. PICK path, b, by : path = m_data.path /\ b = closesAfter /\ by = getMatchedServlet(path)
  OBVIOUS
<1>3. fnmatch(by.uri, path)
  BY <1>2, Matched DEF SessionInv
<1>4. PICK e : e = [by |-> by, close |-> b, version |-> m_data.version, complete |-> FALSE]
  OBVIOUS
<1>5. /\ e.by = by /\ e.close = b /\ e.version = m_data.version
      /\ {"by", "close", "version"} \subseteq DOMAIN e
  BY <1>4
<1>6. replies' = Append(replies, e)
  BY <1>2, <1>4 DEF handleClient
<1>7. PICK s : s = replies /\ Sequence(s) /\ Len(served) = Len(s) + 1
  BY <1>1 DEF SessionInv, PlaceInv
<1>8. /\ Sequence(replies') /\ Len(replies') = Len(s) + 1 /\ DOMAIN replies' = 1..(Len(s) + 1)
      /\ \A i \in 1..Len(s) : replies'[i] = s[i]
      /\ replies'[Len(s) + 1] = e
  BY <1>6, <1>7, Appended
<1>9. Len(s) \in Nat /\ DOMAIN s = 1..Len(s)
  BY <1>7, Places
<1>10. served[Len(s) + 1].message = m_data
  BY <1>1, <1>7 DEF SessionInv, PlaceInv
<1>11. TableInv' /\ DataInv'
  BY <1>1 DEF SessionInv, TableInv, DataInv
<1>12. closesAfter' = b
  BY <1>1, <1>2 DEF closesAfter
<1>13. PlaceInv'
  BY <1>1, <1>5, <1>7, <1>8, <1>9, <1>12 DEF SessionInv, PlaceInv
<1>14. ASSUME NEW k \in DOMAIN replies'
       PROVE  /\ {"by", "close", "version"} \subseteq DOMAIN replies'[k]
              /\ fnmatch(replies'[k].by.uri, served[k].message.path)
              /\ replies'[k].version = served[k].message.version
              /\ replies'[k].close \/ (KeepAliveOn /\ ~served[k].message.close)
              /\ k < Len(s) + 1 => ~replies'[k].close
  <2>1. CASE k \in 1..Len(s)
    <3>1. replies'[k] = replies[k]
      BY <1>7, <1>8, <2>1
    <3>2. k \in DOMAIN replies
      BY <1>7, <1>9, <2>1
    <3> QED BY <1>1, <3>1, <3>2 DEF SessionInv, AnswerInv
  <2>2. CASE k = Len(s) + 1
    <3>1. replies'[k] = e /\ served[k].message = m_data
      BY <1>8, <1>10, <2>2
    <3>2. b \/ (KeepAliveOn /\ ~m_data.close)
      BY <1>2 DEF closesAfter
    <3>3. ~(k < Len(s) + 1)
      BY <1>9, <2>2
    <3> QED BY <1>2, <1>3, <1>5, <3>1, <3>2, <3>3
  <2> QED BY <1>8, <1>9, <2>1, <2>2
<1>15. AnswerInv'
  <2>1. \A k \in DOMAIN served : \/ served[k].message.close
                                 \/ getHeader(served[k].message.headers, Connection) = KeepAlive
    BY DEF SessionInv, AnswerInv
  <2> QED BY <1>1, <1>8, <1>14, <2>1 DEF AnswerInv
<1> QED BY <1>11, <1>13, <1>15 DEF SessionInv

\* A part of the response is written.
LEMMA Written ==
    ASSUME SessionInv, WriteSome
    PROVE  SessionInv'
<1>1. /\ pc = "send" /\ pc' = "send"
      /\ UNCHANGED <<m_data, served, m_datas, m_globs>>
  BY DEF WriteSome, pvars, dvars
<1>2. PICK s : /\ s = replies /\ Sequence(s) /\ Len(s) = Len(served) /\ Len(s) > 0
               /\ s[Len(s)].close = closesAfter
  BY <1>1 DEF SessionInv, PlaceInv
<1>3. Len(s) \in Nat /\ DOMAIN s = 1..Len(s) /\ Len(s) \in DOMAIN s
  BY <1>2, Places
<1>4. PICK n \in DOMAIN s : n = Len(s)
  BY <1>3
<1>5. PICK b : b = (left' = 0)
  OBVIOUS
<1>6. PICK r : r = s[n]
  OBVIOUS
<1>7. PICK e : e = [r EXCEPT !.complete = b]
  OBVIOUS
<1>8. {"by", "close", "version"} \subseteq DOMAIN r
  BY <1>2, <1>4, <1>6 DEF SessionInv, AnswerInv
<1>9. /\ {"by", "close", "version"} \subseteq DOMAIN e
      /\ e.by = r.by /\ e.close = r.close /\ e.version = r.version
  BY <1>7, <1>8
<1>10. replies' = [s EXCEPT ![n] = e]
  BY <1>2, <1>4, <1>5, <1>6, <1>7 DEF WriteSome
<1>11. /\ Sequence(replies') /\ Len(replies') = Len(s) /\ DOMAIN replies' = DOMAIN s
       /\ \A j \in DOMAIN s : replies'[j] = IF j = n THEN e ELSE s[j]
  <2> DEFINE S == Range(s) \cup {e}
  <2>1. s \in Seq(S)
    BY <1>2, SeqMonotonic DEF Sequence
  <2>2. e \in S /\ n \in 1..Len(s)
    BY <1>3
  <2> HIDE DEF S
  <2>3. replies' \in Seq(S) /\ Len(replies') = Len(s)
    BY <1>10, <2>1, <2>2, ExceptSeq
  <2>4. Sequence(replies')
    BY <2>3, SequenceOf
  <2> QED BY <1>10, <2>3, <2>4
<1>12. ASSUME NEW j \in DOMAIN s
       PROVE  /\ {"by", "close", "version"} \subseteq DOMAIN replies'[j]
              /\ replies'[j].by = s[j].by /\ replies'[j].close = s[j].close
              /\ replies'[j].version = s[j].version
  <2>1. CASE j = n
    BY <1>6, <1>9, <1>11, <2>1
  <2>2. CASE j # n
    BY <1>2, <1>11, <2>2 DEF SessionInv, AnswerInv
  <2> QED BY <2>1, <2>2
<1>13. TableInv' /\ DataInv'
  BY <1>1 DEF SessionInv, TableInv, DataInv
<1>14. closesAfter' = closesAfter
  BY <1>1 DEF closesAfter
<1>15. PlaceInv'
  BY <1>1, <1>2, <1>3, <1>11, <1>12, <1>14 DEF SessionInv, PlaceInv
<1>16. AnswerInv'
  BY <1>1, <1>2, <1>11, <1>12 DEF SessionInv, AnswerInv
<1> QED BY <1>13, <1>15, <1>16 DEF SessionInv

\* The end of the loop in handleClient.
LEMMA LoopEnds ==
    ASSUME SessionInv, AfterResponse
    PROVE  SessionInv'
<1>1. CASE closesAfter
  <2>1. UNCHANGED <<m_data, served, replies, m_datas, m_globs>> /\ pc' = "closed"
    BY <1>1 DEF AfterResponse, pvars, dvars
  <2> QED BY <2>1, SessionStays
<1>2. CASE ~closesAfter
  <2>1. /\ pc = "send" /\ pc' = "recv" /\ UNCHANGED <<served, replies, m_datas, m_globs>>
        /\ m_data' = HttpRequest
    BY <1>2 DEF AfterResponse, NewParser, dvars
  <2>2. TableInv'
    BY <2>1 DEF SessionInv, TableInv
  <2>3. DataInv'
    BY <2>1 DEF DataInv, HttpRequest
  <2>4. PlaceInv'
    BY <2>1 DEF SessionInv, PlaceInv
  <2>5. /\ Len(replies) \in Nat /\ DOMAIN replies = 1..Len(replies)
        /\ ~replies[Len(replies)].close
    BY <1>2, <2>1, Places DEF SessionInv, PlaceInv
  <2>6. \A k \in DOMAIN replies : ~replies[k].close
    BY <2>5 DEF SessionInv, AnswerInv
  <2>7. AnswerInv'
    BY <2>1, <2>6 DEF SessionInv, AnswerInv
  <2> QED BY <2>2, <2>3, <2>4, <2>7 DEF SessionInv
<1> QED BY <1>1, <1>2

LEMMA SessionInvInit == Init => SessionInv
<1> SUFFICES ASSUME Init PROVE SessionInv
  OBVIOUS
<1>1. Sequence(<<>>)
  BY EmptySeq, SequenceOf
<1>2. {"close", "headers"} \subseteq DOMAIN m_data /\ m_data.close = TRUE
  BY DEF Init, HttpRequest, HttpResponse
<1>3. Len(<<>>) = 0
  BY EmptySeq
<1>4. TableInv /\ DataInv
  BY <1>1, <1>2 DEF Init, TableInv, DataInv
<1>5. PlaceInv
  BY <1>1, <1>3 DEF Init, PlaceInv
<1>6. AnswerInv
  BY DEF Init, AnswerInv
<1> QED BY <1>4, <1>5, <1>6 DEF SessionInv

LEMMA SessionInvNext == ParserInv /\ SessionInv /\ [Next]_vars => SessionInv'
<1> SUFFICES ASSUME ParserInv, SessionInv, [Next]_vars PROVE SessionInv'
  OBVIOUS
<1>1. ASSUME \/ \E m \in Requests \cup Responses : Send(m)
             \/ PeerClose \/ ReadTimeout \/ Read \/ WriteFails \/ UNCHANGED vars
      PROVE  SessionInv'
  <2>1. /\ UNCHANGED <<m_data, served, replies, m_datas, m_globs>>
        /\ \/ pc' = pc \/ pc' = "closed" \/ {pc, pc'} \subseteq {"recv", "execute"}
    BY <1>1 DEF Send, PeerClose, ReadTimeout, Read, Execute, WriteFails, vars, pvars, svars, dvars
  <2> QED BY <2>1, SessionStays
<1>2. CASE ReadEof
  <2>1. /\ UNCHANGED <<m_data, served, replies, m_datas, m_globs>>
        /\ \/ pc' = pc \/ pc' = "closed" \/ {pc, pc'} \subseteq {"recv", "execute"}
    BY <1>2 DEF ReadEof, ExecuteEof, pvars, dvars
  <2> QED BY <2>1, SessionStays
<1>3. CASE Parse
  <2>1. UNCHANGED <<pc, served, replies, m_datas, m_globs>> /\ pc = "execute"
    BY <1>3 DEF Parse, svars, dvars
  <2>2. Keeps(m_data, m_data')
    <3>1. CASE ParserStep
      BY <3>1, StepKeeps DEF SessionInv, DataInv, ParserInv, CallInv
    <3>2. CASE Return
      BY <3>2 DEF Return, Keeps, SessionInv, DataInv
    <3> QED BY <1>3, <3>1, <3>2 DEF Parse
  <2>3. DataInv'
    BY <2>1, <2>2 DEF SessionInv, DataInv, Keeps
  <2>4. TableInv' /\ PlaceInv' /\ AnswerInv'
    BY <2>1 DEF SessionInv, TableInv, PlaceInv, AnswerInv
  <2> QED BY <2>3, <2>4 DEF SessionInv
<1>4. CASE recvRequest
  <2>1. CASE ~wrapper.error /\ wrapper.finished
    BY <1>4, <2>1, Received
  <2>2. CASE wrapper.error \/ ~wrapper.finished
    <3>1. /\ UNCHANGED <<m_data, served, replies, m_datas, m_globs>>
          /\ pc' = "closed" \/ {pc, pc'} \subseteq {"recv", "execute"}
      BY <1>4, <2>2 DEF recvRequest, dvars
    <3> QED BY <3>1, SessionStays
  <2> QED BY <2>1, <2>2
<1>5. CASE ChangeServlets
  <2>1. TableInv'
    BY <1>5, TableNext DEF SessionInv
  <2>2. DataInv' /\ PlaceInv' /\ AnswerInv'
    BY <1>5 DEF ChangeServlets, pvars, svars, SessionInv, DataInv, PlaceInv, AnswerInv, closesAfter
  <2> QED BY <2>1, <2>2 DEF SessionInv
<1> QED
  BY <1>1, <1>2, <1>3, <1>4, <1>5, Handled, Written, LoopEnds, SessionAssumption DEF Next, Step, Closed

\* The k-th response belongs to the k-th request, whatever the requests are and
\* however often the table of servlets changes.
THEOREM SessionInvHolds == Spec => []SessionInv
<1>1. Init => ParserInv /\ SessionInv
  BY ParserInvInit, SessionInvInit
<1>2. (ParserInv /\ SessionInv) /\ [Next]_vars => (ParserInv /\ SessionInv)'
  BY ParserInvNext, SessionInvNext
<1> QED BY <1>1, <1>2, PTL DEF Spec

\* Responses and connection agree: only the last response announces the end of
\* the connection, the session reads on after exactly the others, and every
\* response is of a servlet that matches the path of its request.
THEOREM RepliesKeepTheirWordHolds == Spec => []RepliesKeepTheirWord
<1>1. SessionInv => RepliesKeepTheirWord
  <2> SUFFICES ASSUME SessionInv PROVE RepliesKeepTheirWord
    OBVIOUS
  <2>1. /\ Len(replies) \in Nat /\ DOMAIN replies = 1..Len(replies)
        /\ replies # <<>> => Len(replies) > 0
    BY Places DEF SessionInv, PlaceInv
  <2>2. Len(served) \in Nat /\ DOMAIN served = 1..Len(served) /\ Len(replies) <= Len(served)
    BY Places DEF SessionInv, PlaceInv
  <2>3. \A k \in DOMAIN replies : k < Len(replies) => ~replies[k].close
    BY DEF SessionInv, AnswerInv
  <2>4. pc \in {"recv", "execute"} /\ replies # <<>> => ~replies[Len(replies)].close
    BY <2>1 DEF SessionInv, AnswerInv
  <2>5. ASSUME NEW k \in DOMAIN replies
        PROVE  /\ k \in DOMAIN served
               /\ fnmatch(replies[k].by.uri, served[k].message.path)
               /\ replies[k].version = served[k].message.version
               /\ ~replies[k].close =>
                     KeepAliveOn /\ getHeader(served[k].message.headers, Connection) = KeepAlive
    <3>1. k \in DOMAIN served
      BY <2>1, <2>2
    <3> QED BY <3>1 DEF SessionInv, AnswerInv
  <2> QED BY <2>3, <2>4, <2>5 DEF RepliesKeepTheirWord
<1> QED BY <1>1, SessionInvHolds, PTL
=============================================================================
