---------------------------- MODULE HttpSession ----------------------------
(***************************************************************************)
(* One HTTP connection: HttpServer::handleClient, HttpSession::recvRequest *)
(* and sendResponse (src/http/HttpServer.cc, HttpSession.cc), the fixed-   *)
(* size writes of Stream (src/stream/stream.cc) and ServletDispatch        *)
(* (src/http/servlet.cc), on the parser of HttpParser.                     *)
(*                                                                         *)
(* The peer sends whole messages; a read returns any non-empty prefix of   *)
(* what has arrived and not been read.  With type HTTP_RESPONSE the        *)
(* connection is seen from a client that feeds what it reads to an         *)
(* HttpResponseParser, with a last call of length 0 at the end of file.    *)
(***************************************************************************)
EXTENDS HttpParser

CONSTANTS
    Requests,     \* what peers may send: [text, means], means = None if no request
    Later,        \* bound: those that may follow another one
    Responses,    \* the same for the client's side
    Path,         \* the URIs servlets are registered for
    BuffSize,     \* http.request.buffer_size, in symbols
    KeepAliveOn,  \* m_isKeepalive
    MaxMessages,  \* bound: messages on the connection
    MaxSplits,    \* bound: reads that return less than there is
    MaxChanges,   \* bound: changes of the servlet table
    None

ASSUME SessionAssumption ==
    /\ BuffSize \in Nat \ {0} /\ KeepAliveOn \in BOOLEAN
    /\ {MaxMessages, MaxSplits, MaxChanges} \subseteq Nat
    /\ Later \subseteq Requests
ASSUME MessageAssumption == \A m \in Requests \cup Responses : m.text \in Seq(Symbol)

VARIABLES
    sent,        \* the messages the peer has sent
    inbox,       \* the symbols that have arrived and not been read
    eof,         \* the peer has closed its end
    pc,          \* where the fiber of the connection is
    splits,      \* short reads so far
    torn,        \* history: a parser was given bytes of the following message
    served,      \* the requests recvRequest returned
    left,        \* what writeFixSize still has to write of the response
    replies,     \* the responses whose sending has ended
    m_datas, m_globs, changes   \* ServletDispatch, and its changes so far

svars == <<sent, inbox, eof, pc, splits, torn, served, left, replies>>
dvars == <<m_datas, m_globs, changes>>
vars == <<pvars, svars, dvars>>

NothingSeen == [last |-> "none", pieces |-> FALSE, merged |-> FALSE]

Init ==
    /\ parser \in {http_parser_init("HTTP_REQUEST"), http_parser_init("HTTP_RESPONSE")}
    /\ m_data = IF parser.type = "HTTP_REQUEST" THEN HttpRequest ELSE HttpResponse("1.1", TRUE)
    /\ wrapper = [finished |-> FALSE, error |-> FALSE, field |-> <<>>]
    /\ executing = FALSE /\ data = <<>> /\ mark = NoMark /\ again = FALSE
    /\ seen = NothingSeen
    /\ sent = <<>> /\ inbox = <<>> /\ eof = FALSE /\ pc = "recv" /\ splits = 0
    /\ torn = FALSE /\ served = <<>> /\ left = 0 /\ replies = <<>>
    /\ m_datas = [u \in {} |-> None] /\ m_globs = <<>> /\ changes = 0

IsServer == parser.type = "HTTP_REQUEST"

-----------------------------------------------------------------------------
(* The peer.  What arrives between two reads is seen by the next one, so   *)
(* the peer acts while the session is about to read or write.              *)

Send(m) ==
    /\ pc = "recv" /\ ~eof /\ Len(sent) < (IF IsServer THEN MaxMessages ELSE 1)
    /\ \A k \in DOMAIN sent : sent[k].means # None
    /\ sent' = Append(sent, m) /\ inbox' = inbox \o m.text
    /\ UNCHANGED <<pvars, eof, pc, splits, torn, served, left, replies, dvars>>

PeerClose ==
    /\ pc \in {"recv", "send"} /\ ~eof /\ eof' = TRUE
    /\ UNCHANGED <<pvars, sent, inbox, pc, splits, torn, served, left, replies, dvars>>

-----------------------------------------------------------------------------
(* recvRequest.  offset is always 0: execute consumes the whole buffer     *)
(* unless it fails.                                                        *)

Available == IF Len(inbox) < BuffSize THEN Len(inbox) ELSE BuffSize

Read ==
    /\ pc = "recv" /\ inbox # <<>>
    /\ \E n \in 1..Available :
        /\ n < Available => splits < MaxSplits
        /\ splits' = IF n < Available THEN splits + 1 ELSE splits
        /\ Execute(SubSeq(inbox, 1, n))
        /\ inbox' = SubSeq(inbox, n + 1, Len(inbox))
    /\ pc' = "execute"
    /\ UNCHANGED <<sent, eof, torn, served, left, replies, dvars>>

\* read returns 0 at the end of file; recvRequest closes the session.
ReadEof ==
    /\ pc = "recv" /\ inbox = <<>> /\ eof
    /\ IF IsServer THEN pc' = "closed" /\ UNCHANGED pvars
                   ELSE pc' = "execute" /\ ExecuteEof
    /\ UNCHANGED <<sent, inbox, eof, splits, torn, served, left, replies, dvars>>

\* read returns -1 when the receive timeout of the socket expires.
ReadTimeout ==
    /\ pc = "recv" /\ inbox = <<>> /\ IsServer /\ pc' = "closed"
    /\ UNCHANGED <<pvars, sent, inbox, eof, splits, torn, served, left, replies, dvars>>

Parse ==
    /\ pc = "execute" /\ (ParserStep \/ Return)
    /\ UNCHANGED <<svars, dvars>>

\* Mutant of recvRequest: the loop goes on after a finished request.
RecvReadsOn ==
    /\ pc = "execute" /\ ~executing
    /\ torn' = (torn \/ seen.merged)
    /\ pc' = IF wrapper.error \/ (eof /\ inbox = <<>> /\ ~IsServer) THEN "closed" ELSE "recv"
    /\ UNCHANGED <<pvars, sent, inbox, eof, splits, served, left, replies, dvars>>

\* After execute: an error closes the session, a finished request is
\* initialised and returned, otherwise the loop reads on.
recvRequest ==
    /\ pc = "execute" /\ ~executing
    /\ torn' = (torn \/ seen.merged)
    /\ IF wrapper.error THEN pc' = "closed" /\ UNCHANGED <<m_data, served>>
       ELSE IF wrapper.finished
       THEN /\ pc' = IF IsServer THEN "handle" ELSE "closed"
            /\ m_data' = IF IsServer THEN init(m_data) ELSE m_data
            /\ served' = Append(served, [message |-> m_data', pieces |-> seen.pieces,
                                         torn |-> torn'])
       ELSE /\ pc' = IF eof /\ inbox = <<>> /\ ~IsServer THEN "closed" ELSE "recv"
            /\ UNCHANGED <<m_data, served>>
    /\ UNCHANGED <<parser, wrapper, executing, data, mark, again, seen>>
    /\ UNCHANGED <<sent, inbox, eof, splits, left, replies, dvars>>

-----------------------------------------------------------------------------
(* ServletDispatch.  A glob "/" \o "*" matches every path.                 *)

AnyPath == <<"/", "*">>
fnmatch(pattern, path) == pattern \in {path, AnyPath}

\* addServlet and addServletCreator; the servlet is named by its URI and the
\* change that registered it.
addServlet(uri) ==
    /\ m_datas' = [u \in DOMAIN m_datas \cup {uri} |->
                    IF u = uri THEN [uri |-> uri, id |-> changes] ELSE m_datas[u]]
    /\ UNCHANGED m_globs

\* The loop that erases the first entry of a URI from m_globs.
eraseGlob(uri) ==
    LET at == {i \in DOMAIN m_globs : m_globs[i].uri = uri}
    IN  IF at = {} THEN m_globs ELSE RemoveAt(m_globs, Min(at))

\* addGlobServlet and addGlobServletCreator: an old entry of the URI is
\* erased, the new one is the last to be tried.
addGlobServlet(uri) ==
    /\ m_globs' = Append(eraseGlob(uri), [uri |-> uri, id |-> changes])
    /\ UNCHANGED m_datas

delServlet(uri) ==
    /\ uri \in DOMAIN m_datas
    /\ m_datas' = [u \in DOMAIN m_datas \ {uri} |-> m_datas[u]] /\ UNCHANGED m_globs

delGlobServlet(uri) ==
    /\ \E i \in DOMAIN m_globs : m_globs[i].uri = uri
    /\ m_globs' = eraseGlob(uri) /\ UNCHANGED m_datas

NotFoundServlet == [uri |-> AnyPath, id |-> "default"]

getMatchedServlet(uri) ==
    LET globs == {i \in DOMAIN m_globs : fnmatch(m_globs[i].uri, uri)}
    IN  IF uri \in DOMAIN m_datas THEN m_datas[uri]
        ELSE IF globs # {} THEN m_globs[Min(globs)] ELSE NotFoundServlet

\* Another thread changes the table: it matters before a match.
ChangeServlets ==
    /\ pc = "handle"
    /\ changes < MaxChanges /\ changes' = changes + 1
    /\ \/ \E u \in Path : addServlet(u) \/ delServlet(u)
       \/ \E u \in Path \cup {AnyPath} : addGlobServlet(u) \/ delGlobServlet(u)
    /\ UNCHANGED <<pvars, svars>>

-----------------------------------------------------------------------------
(* The rest of handleClient. *)

closesAfter == m_data.close \/ ~KeepAliveOn

\* The response is built, dispatched and dumped; the text is two pieces.
handleClient ==
    /\ pc = "handle" /\ pc' = "send" /\ left' = 2
    /\ replies' = Append(replies, [by |-> getMatchedServlet(m_data.path), close |-> closesAfter,
                                   version |-> m_data.version, complete |-> FALSE])
    /\ UNCHANGED <<pvars, sent, inbox, eof, splits, torn, served, dvars>>

\* writeFixSize: write takes a part of what is left.
WriteSome ==
    /\ pc = "send" /\ left > 0
    /\ \E n \in 1..left : left' = left - n
    /\ replies' = [replies EXCEPT ![Len(replies)].complete = (left' = 0)]
    /\ UNCHANGED <<pvars, sent, inbox, eof, pc, splits, torn, served, dvars>>

\* A write that fails ends writeFixSize; handleClient ignores the result.
WriteFails ==
    /\ pc = "send" /\ left > 0 /\ eof /\ left' = 0
    /\ UNCHANGED <<pvars, sent, inbox, eof, pc, splits, torn, served, replies, dvars>>

\* Mutant of AfterResponse: the request's own Connection header is forgotten.
LoopForever ==
    /\ pc = "send" /\ left = 0
    /\ IF ~KeepAliveOn THEN pc' = "closed" /\ UNCHANGED pvars
       ELSE pc' = "recv" /\ NewParser("HTTP_REQUEST") /\ seen' = NothingSeen
    /\ UNCHANGED <<sent, inbox, eof, splits, torn, served, left, replies, dvars>>

\* The end of the loop in handleClient: close, or a new recvRequest with a
\* new parser.
AfterResponse ==
    /\ pc = "send" /\ left = 0
    /\ IF closesAfter THEN pc' = "closed" /\ UNCHANGED pvars
       ELSE pc' = "recv" /\ NewParser("HTTP_REQUEST") /\ seen' = NothingSeen
    /\ UNCHANGED <<sent, inbox, eof, splits, torn, served, left, replies, dvars>>

Closed == pc = "closed" /\ UNCHANGED vars

Step == Read \/ ReadEof \/ Parse \/ recvRequest \/ handleClient \/ WriteSome \/ WriteFails \/ AfterResponse

Next ==
    \/ \E m \in (IF ~IsServer THEN Responses ELSE IF sent = <<>> THEN Requests ELSE Later) : Send(m)
    \/ PeerClose \/ ReadTimeout \/ ChangeServlets \/ Step \/ Closed

Spec == Init /\ [][Next]_vars

\* The fiber of the connection runs whenever it can.  Neither the peer's
\* closing nor a timeout is assumed.
FairSpec == Spec /\ WF_vars(Step)

-----------------------------------------------------------------------------
(* Properties. *)

\* The headers a dumped request carries, and the request they make.
Parsed(r) ==
    init([r EXCEPT !.headers =
            LET h == setHeader(@, Connection, IF r.close THEN Close ELSE KeepAlive)
            IN  IF r.body = <<>> THEN h
                ELSE setHeader(h, ContentLength,
                               <<CHOOSE d \in DOMAIN Digit : Digit[d] = Len(r.body)>>)])

HeaderStateOK ==
    parser.state = "s_header_value" => parser.header_state \notin {"h_connection", "h_transfer_encoding"}

\* The assertions of http_parser_execute never fail, however the messages
\* are cut into reads and whatever follows them: a chunk's size is looked at
\* with a fresh header count, body states have a length that is neither
\* used up nor the sentinel, and lengths stay below the sentinel.  After an
\* error the parser is not executed again, so only the state it stopped in is
\* left.
ParserAssertions ==
    /\ HeaderStateOK
    /\ parser.content_length <= ULLONG_MAX
    /\ parser.http_errno = "HPE_OK" /\ parser.state = "s_chunk_size_start" => parser.nread = 0
    /\ parser.state \in {"s_body_identity", "s_chunk_data"} =>
            parser.content_length \notin {0, ULLONG_MAX}
    /\ parser.state = "s_chunk_data_almost_done" => parser.content_length = 0
    /\ parser.state \in {"s_chunk_size_start", "s_chunk_size", "s_chunk_parameters",
            "s_chunk_size_almost_done", "s_chunk_data", "s_chunk_data_almost_done",
            "s_chunk_data_done"} => "F_CHUNKED" \in parser.flags
    /\ pc = "recv" => ~executing /\ data = <<>> /\ mark = NoMark

\* A request that recvRequest returns is the one the peer sent.  Method,
\* version and body are, however the reads cut it; URL and headers are when
\* no read ended inside one of them (seen.pieces), because the callbacks of
\* HttpParser.cc keep only the last piece.  Both need that no parser was
\* given bytes of the following request (torn), which it would put into the
\* same HttpRequest.
RequestAsSent ==
    IsServer => \A k \in DOMAIN served :
        LET got == served[k].message
            want == sent[k].means
        IN  ~served[k].torn =>
                /\ want # None
                /\ got.method = want.method /\ got.version = want.version /\ got.body = want.body
                /\ ~served[k].pieces => got = want

\* Responses and connection agree: only the last response may announce
\* "connection: close", and the session reads on after exactly the others.  The
\* k-th response answers the k-th request that recvRequest returned: by a servlet
\* that matches its path although the table may change before the match, in its
\* version, and keeping the connection alive only if that request asked for it.
RepliesKeepTheirWord ==
    /\ \A k \in DOMAIN replies : k < Len(replies) => ~replies[k].close
    /\ pc \in {"recv", "execute"} /\ replies # <<>> => ~replies[Len(replies)].close
    /\ \A k \in DOMAIN replies :
        LET request == served[k].message
        IN  /\ k \in DOMAIN served
            /\ fnmatch(replies[k].by.uri, request.path)
            /\ replies[k].version = request.version
            /\ ~replies[k].close => KeepAliveOn /\ getHeader(request.headers, Connection) = KeepAlive

\* A response that dump wrote is read back by HttpResponseParser as it was,
\* and it is complete before the end of file exactly when it has a body or a
\* status that has none: a response without a body has no content-length, so
\* a client waits for the end of file even if the server keeps the
\* connection alive.
ResponseAsSent ==
    ~IsServer /\ sent # <<>> /\ sent[1].means # None /\ inbox = <<>> /\ pc \in {"recv", "closed"} =>
        LET want == sent[1].means
        IN  /\ ~wrapper.error => m_data.body = want.body /\ m_data.status = want.status
            /\ ~wrapper.error /\ ~seen.pieces => m_data.headers = want.headers
            /\ ~eof => wrapper.finished = (want.body # <<>> \/ want.status = "204")

\* The k-th request, once sent, is answered unless the session ends or its
\* bytes were given to the parser of an earlier request.
EveryRequestAnswered ==
    \A k \in 1..MaxMessages :
        (IsServer /\ Len(sent) >= k /\ sent[Len(sent)].means # None)
            ~> (Len(replies) >= k \/ pc = "closed" \/ torn)
=============================================================================
