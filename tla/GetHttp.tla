------------------------------ MODULE GetHttp ------------------------------
(***************************************************************************)
(* One HTTP transaction of wget: gethttp() in src/src/code_without_proxy.c *)
(* with the helpers it calls that change state: establish_connection,      *)
(* persistent_available_p, the CLOSE_FINISH / CLOSE_INVALIDATE macros,     *)
(* check_auth, skip_short_body, open_output_stream and read_response_body. *)
(*                                                                         *)
(* Data is abstracted to what the properties tell apart: the remote        *)
(* resource is the byte sequence 0, 1, .., ResourceLen-1 (byte i holds its *)
(* own offset), an error page is a byte Err, a file descriptor is a small  *)
(* number, a response is a record of the headers the code branches on.    *)
(* The process talks to one host:port, so the host/port comparisons of     *)
(* persistent_available_p always agree.  The caller of gethttp (http_loop) *)
(* is left open here: any attempt with a resume offset of 0 or the length  *)
(* of the file; HttpLoop.tla replaces it by the real loop.                 *)
(***************************************************************************)
EXTENDS ContentDisposition, ContentRange, RequestHeaders, ResponseHead

CONSTANTS
    MaxFds,       \* descriptors the process may hold open at once
    ResourceLen,  \* length in bytes of the remote resource
    Max1xx,       \* interim 1xx responses the server sends in one call
    Options,      \* option records (the parsed command line) a run starts with
    Codes,        \* final status codes the server may answer with
    Err,          \* a byte of an error page, a model value
    ContentRanges(_), \* Content-Range values a server may send with a 206
                      \* to a range request from the given offset
    AuthHeads     \* heads (status line and headers) a server answers a 401 with

ASSUME MaxFds \in Nat \ {0} /\ ResourceLen \in 1..9 /\ Max1xx \in Nat

VARIABLES
    opt,          \* the options, fixed for the run
    pc,           \* where gethttp is: "Idle" between calls
    sock,         \* gethttp's local sock; NoSocket is the code's -1
    keepAlive,    \* gethttp's keep_alive
    open,         \* descriptors the process has open
    pconn,        \* the persistent-connection record and pconn_active
    basicAuthed,  \* the host is in basic_authed_hosts
    auth,         \* auth_finished and basic_auth_finished of this call
    n1xx,         \* 1xx responses read in this call
    resp,         \* the final response being dispatched
    dt,           \* the dt flags: HEAD_ONLY, IF_MODIFIED_SINCE, RETROKF
    hs,           \* the http_stat fields the loop reads back
    file,         \* contents of the output file
    opened,       \* open_output_stream ran in this call
    retval,       \* what the last call returned
    req           \* the headers of the request being built or sent

vars == <<opt, pc, sock, keepAlive, open, pconn, basicAuthed, auth, n1xx,
          resp, dt, hs, file, opened, retval, req>>

NoSocket == 0
Fds == 1..MaxFds
Resource == [i \in 1..ResourceLen |-> i - 1]
ErrPage == <<Err>>
\* hs->local_file: not yet chosen (NULL), the name url_file_name makes of
\* the URL, or the one it makes of a name from Content-Disposition.
NoFile == [from |-> "none", name |-> <<>>]
UrlFile == [from |-> "url", name |-> <<>>]
NoPconn == [active |-> FALSE, socket |-> NoSocket, authorized |-> FALSE]
NoResp == [code |-> 0, clen |-> FALSE, head |-> <<>>, challenges |-> <<>>,
           location |-> FALSE, stale |-> FALSE, cr |-> NoRange, from |-> 0]
AuthSchemes == {"Basic", "Digest"}
\* A 401 head as gethttp reads it (lines 2702-2706): resp_new, resp_status,
\* and the WWW-Authenticate values check_auth's loop collects.  Other codes
\* carry no head: the facts their branches test are fields of the record.
ParsedAuthHeads ==
    {[head |-> h, code |-> RespStatus(RespNew(h)),
      challenges |-> AuthValues(RespNew(h), 0)] : h \in AuthHeads}
RedirectCodes == {301, 302, 303, 307, 308}

-----------------------------------------------------------------------------
(* Responses a server gives to the request of this call.                   *)

\* The first byte the request asks for: its Range header (bytes=N-), set
\* by initialize_request from hs->restval or by a --header line.  The
\* value is the decimal N, one digit as the resource is shorter than 10.
RangeSent == IF HeaderValue(req, "range") = NoValue THEN 0
             ELSE DigitVal(HeaderValue(req, "range"))

\* Which codes an HTTP server answers the request with: 206 only to a
\* satisfiable range, 416 only to a range past the end, 304 only to a
\* conditional request.
ServerMay(c, rs) ==
    /\ c = 206 => 0 < rs /\ rs < ResourceLen
    /\ c = 416 => rs >= ResourceLen
    /\ c = 304 => HeaderAt(req, "if-modified-since") # 0

\* The final heads: Content-Length is varied only for the codes whose
\* branch uses contlen (for the others it only steers skip_short_body,
\* which Drains lets end either way without it, as a chunked body can).
\* A 206 carries no
\* Content-Range or one of ContentRanges(RangeSent); `cr' is what
\* parse_content_range makes of it, `from' the byte its entity starts at.
FinalResponses ==
    LET rs == RangeSent IN
    UNION {{[code |-> s.code, clen |-> cl, head |-> s.head, challenges |-> s.challenges,
             location |-> l, stale |-> st, cr |-> cr,
             from |-> IF c = 206 THEN rs ELSE 0] :
              cl \in IF c \in {204, 304, 401} \cup RedirectCodes
                     THEN {FALSE} ELSE BOOLEAN,
              s \in IF c = 401 THEN ParsedAuthHeads
                     ELSE {[code |-> c, head |-> <<>>, challenges |-> <<>>]},
              l \in IF c \in RedirectCodes \cup {300} THEN BOOLEAN ELSE {FALSE},
              st \in IF c = 200 /\ dt.condGet THEN BOOLEAN ELSE {FALSE},
              cr \in IF c = 206
                     THEN {ParseContentRange(h) : h \in ContentRanges(rs)} \cup {NoRange}
                     ELSE {NoRange}}
           : c \in {x \in Codes : ServerMay(x, rs)}}

\* The entity a GET receives for response r.
Entity(r) ==
    CASE r.code = 200 -> Resource
      [] r.code = 206 -> SubSeq(Resource, r.from + 1, ResourceLen)
      [] r.code \in {204, 304} -> <<>>
      [] OTHER -> ErrPage

\* contrange and contlen as gethttp derives them from Content-Length
\* (lines 2746-2768) and a Content-Range that parses (2959-2967): the first
\* byte, and last - first + 1; the entity length is not used.
ContRange(r) == IF r.cr.ok THEN r.cr.first ELSE 0
ContLen(r) ==
    IF r.cr.ok THEN r.cr.last - r.cr.first + 1
    ELSE IF r.clen THEN Len(Entity(r)) ELSE -1

IsRedirect(r) == r.code \in RedirectCodes \/ (r.code = 300 /\ r.location)
\* RETROKF after lines 3057 and 3087: 2xx, or 300 without a Location.
Retrokf(r) == r.code \in 200..299 \/ (r.code = 300 /\ ~r.location)

AlreadyRetrieved(r) ==
    \/ r.code = 416
    \/ /\ ~opt.timestamping /\ hs.restval > 0 /\ r.code = 200
       /\ ContRange(r) = 0 /\ ContLen(r) >= 0 /\ hs.restval >= ContLen(r)

\* The misunderstood-range test of lines 3285-3286.
RangeMismatch(r) ==
    \/ ContRange(r) # 0 /\ ContRange(r) # hs.restval
    \/ r.code = 206 /\ ContRange(r) = 0 /\ hs.restval # 0

\* The "no intention of further downloading" test of line 3338.
NoDownload(r) == (~Retrokf(r) /\ ~opt.contentOnError) \/ dt.headOnly \/ opt.spider

\* Mutant: the cond_get 304 branch (line 3167) missing.
StageNo304(r) ==
    CASE r.code = 401 -> "Unauthorized"
      [] r.code = 204 -> "NoContent"
      [] IsRedirect(r) -> "Redirect"
      [] dt.condGet /\ r.code = 200 /\ r.stale -> "IgnoredIMS"
      [] AlreadyRetrieved(r) -> "AlreadyRetrieved"
      [] RangeMismatch(r) -> "RangeError"
      [] NoDownload(r) -> "NoDownload"
      [] OTHER -> "Body"

\* Which branch of gethttp's dispatch a final response takes, in the order
\* the code tests them (lines 2818-3393).
Stage(r) ==
    CASE r.code = 401 -> "Unauthorized"
      [] r.code = 204 -> "NoContent"
      [] IsRedirect(r) -> "Redirect"
      [] dt.condGet /\ r.code = 304 -> "NotModified"
      [] dt.condGet /\ r.code = 200 /\ r.stale -> "IgnoredIMS"
      [] AlreadyRetrieved(r) -> "AlreadyRetrieved"
      [] RangeMismatch(r) -> "RangeError"
      [] NoDownload(r) -> "NoDownload"
      [] OTHER -> "Body"

\* The result of a redirect (lines 3140-3164): 307/308 keep the method;
\* 301/302 keep it when --method is given and is not POST ("none" is the
\* code's opt.method == NULL).
RedirectResult(code) ==
    IF \/ code \in {307, 308}
       \/ code \in {301, 302} /\ opt.method \notin {"none", "POST"}
    THEN "NEWLOCATION_KEEP_POST" ELSE "NEWLOCATION"

\* Mutant: line 3294 without the range start.
TotalLenNoRange(r) == ContLen(r)

\* hs->contlen as set on line 3294: the total length, content length plus
\* the range start, or -1 when unknown.
TotalLen(r) == IF ContLen(r) = -1 THEN -1 ELSE ContLen(r) + ContRange(r)

\* The user/passwd pair is volunteered as Basic credentials only when it is
\* not taken from the URL, unless --auth-no-challenge (line 1884).
SiteWideCreds == opt.creds = "site" \/ (opt.creds = "url" /\ opt.authNoChallenge)

\* maybe_send_basic_creds (lines 392-420) for site-wide credentials: Basic
\* is volunteered with --auth-no-challenge or to a host in basic_authed_hosts.
SendsBasicCreds == SiteWideCreds /\ (opt.authNoChallenge \/ basicAuthed)

\* initialize_request (lines 1777-1932): the headers in the order they are
\* set.  hs->referer is NULL for the URL of a run (a no-op); no caller in
\* these sources sets SEND_NOCACHE; the time-stamp is always convertible
\* in the model; opt.useragent and opt.compression keep their defaults;
\* there is no --body-data, so a POST, PUT or PATCH sends Content-Length 0
\* (also in a HEAD: the test is on opt.method).  The names are distinct and the
\* request starts empty, so each request_set_header appends its header
\* unless the value is NULL.
InitializeRequest(condGet, restval) ==
    LET calls ==
          << <<"host", "host">>, <<"referer", NoValue>>,
             <<"if-modified-since", IF condGet THEN "date" ELSE NoValue>>,
             <<"range", IF restval # 0 THEN DigitChars[restval + 1] ELSE NoValue>>,
             <<"user-agent", "wget">>, <<"accept", "*/*">>,
             <<"accept-encoding", "identity">>,
             <<"authorization", IF SendsBasicCreds THEN "Basic" ELSE NoValue>>,
             <<"connection", IF opt.keepAlive THEN "Keep-Alive" ELSE "Close">>,
             <<"content-length",
               IF opt.method \in {"POST", "PUT", "PATCH"} THEN "0" ELSE NoValue>> >>
        set == SelectSeq(calls, LAMBDA c : c[2] # NoValue)
    IN [i \in DOMAIN set |-> [name |-> set[i][1], value |-> set[i][2]]]

-----------------------------------------------------------------------------
(* The connection helpers.                                                 *)

\* persistent_available_p (lines 1411-1462) for the one host:port: only
\* whether a connection is registered matters.
PersistentAvailable == pconn.active

\* invalidate_persistent (lines 1360-1367): pconn_active cleared, the
\* pooled socket fd_close'd and the record zeroed.
InvalidatePersistent == [open |-> open \ {pconn.socket}, pconn |-> NoPconn]

\* The effect of CLOSE_FINISH / CLOSE_INVALIDATE (lines 1480-1497) on the
\* descriptors, the pool and sock: when `close' holds, the pooled socket is
\* dropped by invalidate_persistent and any other one is fd_close'd, and
\* sock becomes -1; otherwise nothing changes.
Released(close) ==
    LET c == IF close /\ pconn.active /\ pconn.socket = sock THEN InvalidatePersistent
             ELSE [open |-> IF close THEN open \ {sock} ELSE open, pconn |-> pconn]
    IN [open |-> c.open, pconn |-> c.pconn, sock |-> IF close THEN NoSocket ELSE sock]

\* CLOSE_FINISH keeps the socket when the connection is kept alive.
CloseFinish == Released(~keepAlive)
CloseInvalidate == Released(TRUE)

NoAuth == [finished |-> FALSE, basicFinished |-> FALSE]

\* gethttp returns code (goto cleanup): its locals (sock, keep_alive, the
\* auth flags, the parsed response, the request freed at line 3432) end with it, and the release c of the
\* socket is what stays behind in the descriptors and the pool.
Return(c, code) ==
    /\ open' = c.open /\ pconn' = c.pconn
    /\ pc' = "Idle" /\ retval' = code
    /\ sock' = NoSocket /\ keepAlive' = FALSE /\ auth' = NoAuth
    /\ n1xx' = 0 /\ resp' = NoResp /\ req' = <<>>

\* A return before anything was released.
Unreleased == [open |-> open, pconn |-> pconn, sock |-> sock]

\* What read_response_body can report when it only copies a body into the
\* WARC file and fails.
WarcDrainErrors == {"RETRFINISHED", "WARC_ERR", "WARC_TMP_FOPENERR"}

SkipThreshold == 4096

\* skip_short_body (lines 940-1017) as the set of what it can return for a
\* body of contlen bytes (-1: no Content-Length), chunked or not: false
\* above the threshold; for a chunked body true at the last chunk or at EOF
\* where a chunk size is due (line 965), false on a negative size, a
\* failed read or a missing line after a chunk; otherwise true once
\* contlen bytes were read, false at EOF or an error, and true without
\* reading when contlen is 0 or -1 (the loop of line 955 is not entered).
SkipShortBody(contlen, chunked) ==
    CASE contlen > SkipThreshold -> {FALSE}
      [] chunked \/ contlen > 0 -> BOOLEAN
      [] OTHER -> {TRUE}

\* Whether an unwanted body was drained: with WARC, read_response_body's
\* copy to the archive succeeded; without, skip_short_body returned true
\* (the head's Transfer-Encoding is read by nothing else, so chunked is
\* chosen here).
Drains(contlen) ==
    IF opt.warc THEN BOOLEAN
    ELSE UNION {SkipShortBody(contlen, chunked) : chunked \in BOOLEAN}

\* A body wget does not save (lines 2824-2847, 3106-3126): with WARC,
\* read_response_body copies it to the archive and a failure is returned;
\* without, skip_short_body may drain it when canSkip, and the connection
\* is closed unless it was drained.  drained: the drain succeeded.
DiscardBody(canSkip, drained, result) ==
    IF opt.warc
    THEN IF drained THEN Return(CloseFinish, result)
         ELSE \E e \in WarcDrainErrors : Return(CloseInvalidate, e)
    ELSE Return(IF canSkip /\ drained THEN CloseFinish ELSE CloseInvalidate, result)

\* The auth-scheme a WWW-Authenticate value begins with (lines 2209-2211):
\* up to the first blank.
SchemeOf(v) ==
    IF \E i \in DOMAIN v : v[i] \in Blanks
    THEN SubSeq(v, 1, SelectInSeq(v, LAMBDA c : c \in Blanks) - 1) ELSE v

\* The schemes of a 401 known_authentication_scheme_p (lines 4493-4503)
\* accepts: the whole scheme is "Basic" or "Digest" (NTLM is not built).
Offered(r) ==
    {a \in AuthSchemes : \E i \in DOMAIN r.challenges : SchemeOf(r.challenges[i]) = <<a>>}

\* The scheme of the Authorization check_auth makes.  The loop of lines
\* 2185-2239 copies each WWW-Authenticate value into buf (line 2201) and
\* keeps digest and basic pointing into buf at the challenge's start;
\* lines 2258-2263 pick digest before basic.  The next header's memcpy
\* has overwritten buf, so the pointer picked reads the last value, and
\* create_authorization_line dispatches on its first letter.  (A last
\* value of another scheme reaches abort(); the runs' heads avoid it.)
AuthScheme(r) == Last(r.challenges)[1]

\* The loop of digest_authentication_encode (lines 4311-4326) over the
\* value after "Digest": extract_param with separator ',' returns the
\* parameters one by one and false at the first malformed one ("Z"), which
\* ends the loop; a parameter is kept when its name is one of the options
\* ("R" realm, "N" nonce).  The names of the options it set.
DigestParams(v) ==
    LET bad == {i \in DOMAIN v : v[i] = "Z"}
        stop == IF bad = {} THEN Len(v) + 1 ELSE Least(bad)
    IN {v[i] : i \in 2..(stop - 1)} \cap {"R", "N"}

\* digest_authentication_encode (lines 4340-4344) on the value it reads:
\* ATTRMISSING without realm and nonce; the credentials, method and path
\* are always set here.
DigestAttrs(r) == IF DigestParams(Last(r.challenges)) = {"R", "N"} THEN "RETROK" ELSE "ATTRMISSING"

\* create_authorization_line (lines 4513-4543) for Basic and Digest: the
\* header is made and auth finished; the error of the Digest encoding.
CreateAuthorizationLine(r) ==
    [finished |-> TRUE,
     err |-> IF AuthScheme(r) = "Digest" THEN DigestAttrs(r) ELSE "RETROK"]

\* Mutant: an Authorization header that does not finish auth.
CheckAuthUnfinished(r) ==
    LET chosen == AuthScheme(r)
    IN IF \/ auth.finished \/ opt.creds = "none" \/ Offered(r) = {}
          \/ auth.basicFinished /\ "Basic" \in Offered(r)
       THEN {[retry |-> FALSE, err |-> "RETROK", finished |-> auth.finished,
              register |-> FALSE]}
       ELSE {[retry |-> TRUE, err |-> "RETROK", finished |-> auth.finished,
              register |-> chosen = "Basic" /\ opt.creds # "url"]}

\* check_auth (lines 2164-2313) on the challenges of a 401, as the set of
\* its possible results, for the scheme AuthScheme reads; nothing is tried once
\* auth is finished, without credentials, with no known scheme, or when
\* Basic was already sent and the server offers Basic.  A header made by
\* create_authorization_line (lines 4513-4543) finishes auth; Digest fails
\* with ATTRMISSING on a challenge without realm or nonce.  A host that
\* accepted a Basic challenge is registered unless the user came from the URL.
CheckAuth(r) ==
    LET chosen == AuthScheme(r)
    IN IF \/ auth.finished \/ opt.creds = "none" \/ Offered(r) = {}
          \/ auth.basicFinished /\ "Basic" \in Offered(r)
       THEN {[retry |-> FALSE, err |-> "RETROK", finished |-> auth.finished,
              register |-> FALSE]}
       ELSE LET line == CreateAuthorizationLine(r)
            IN {[retry |-> line.err = "RETROK", err |-> line.err, finished |-> line.finished,
                 register |-> line.err = "RETROK" /\ chosen = "Basic" /\ opt.creds # "url"]}

-----------------------------------------------------------------------------
(* The steps of one gethttp call.                                          *)

\* gethttp's prologue (lines 2505-2542) for an attempt of the caller: the
\* http_stat fields it resets, and the request
\* initialize_request builds (line 2534).
\* retval is the call's own local: the previous result went to the caller.
Gethttp(headOnly, condGet, restval) ==
    /\ pc = "Idle"
    /\ pc' = "Connect"
    /\ retval' = "NONE"
    /\ hs' = [hs EXCEPT !.len = 0, !.contlen = -1, !.res = -1,
                        !.restval = restval, !.newloc = FALSE]
    /\ dt' = [dt EXCEPT !.headOnly = headOnly, !.condGet = condGet]
    /\ auth' = [finished |-> FALSE, basicFinished |-> SendsBasicCreds]
    /\ req' = InitializeRequest(condGet, restval)
    /\ opened' = FALSE
    /\ UNCHANGED <<opt, sock, keepAlive, open, pconn, basicAuthed, n1xx, resp,
                   file>>

\* retry_with_auth (lines 2543-2583) and establish_connection (1958-2014):
\* the --header lines are set again on every pass (the cookie jar is
\* empty in the model, so cookie_header gives NULL and Cookie is a no-op);
\* a reused connection that was authorized drops Authorization (1985-1986);
\* with keep-alive the pooled connection is reused, and otherwise a socket
\* kept from the previous round is forgotten (sock = -1) without a close.
\* connect_to_host takes the lowest free descriptor; with none free it
\* fails like a retryable connect error.
EstablishConnection ==
    /\ pc = "Connect"
    /\ LET reused == IF ~opt.keepAlive THEN sock
                     ELSE IF PersistentAvailable THEN pconn.socket ELSE NoSocket
           free == Fds \ open
           built == SetUserHeaders(req, opt.userHeaders)
       IN IF reused # NoSocket
          THEN /\ sock' = reused /\ keepAlive' = opt.keepAlive /\ pc' = "Send"
               /\ req' = IF opt.keepAlive /\ PersistentAvailable /\ pconn.authorized
                         THEN RequestRemoveHeader(built, "authorization") ELSE built
               /\ UNCHANGED <<open, pconn, retval, auth, n1xx, resp>>
          ELSE \E outcome \in {"HOSTERR", "CONERROR", "CONIMPOSSIBLE"}
                              \cup (IF free # {} THEN {"ok"} ELSE {}) :
                 IF outcome = "ok"
                 THEN LET fd == CHOOSE f \in free : \A g \in free : f <= g
                      IN /\ sock' = fd /\ open' = open \cup {fd}
                         /\ keepAlive' = opt.keepAlive /\ pc' = "Send"
                         /\ req' = built
                         /\ UNCHANGED <<pconn, retval, auth, n1xx, resp>>
                 ELSE Return(Unreleased, outcome)
    /\ UNCHANGED <<opt, basicAuthed, dt, hs, file, opened>>

\* The WARC temporary file, request_send with the body, and the WARC
\* request record (lines 2585-2675); a failure closes the socket.
SendRequest ==
    /\ pc = "Send"
    /\ \E outcome \in {"ok", "WRITEFAILED"} \cup
          (IF opt.warc THEN {"WARC_TMP_FOPENERR", "WARC_TMP_FWRITEERR", "WARC_ERR"}
                       ELSE {}) :
         IF outcome = "ok"
         THEN /\ pc' = "ReadHead" /\ dt' = [dt EXCEPT !.retrokf = FALSE]
              /\ UNCHANGED <<open, pconn, sock, retval, keepAlive, auth, n1xx, resp, req>>
         ELSE Return(CloseInvalidate, outcome) /\ UNCHANGED dt
    /\ UNCHANGED <<opt, basicAuthed, hs, file, opened>>

\* Mutant: one interim response more than the bound.
Read1xxOffByOne ==
    /\ pc = "ReadHead" /\ n1xx <= Max1xx
    /\ n1xx' = n1xx + 1
    /\ UNCHANGED <<opt, pc, sock, keepAlive, open, pconn, basicAuthed, auth,
                   resp, dt, hs, file, opened, retval, req>>

\* The 1xx loop (lines 2679-2731): an interim response is dropped and the
\* next head read.
Read1xx ==
    /\ pc = "ReadHead" /\ n1xx < Max1xx
    /\ n1xx' = n1xx + 1
    /\ UNCHANGED <<opt, pc, sock, keepAlive, open, pconn, basicAuthed, auth,
                   resp, dt, hs, file, opened, retval, req>>

\* No head (HEOF on EOF, HERR on a read error) or a malformed status line.
HeadFailed ==
    /\ pc = "ReadHead"
    /\ \E code \in {"HEOF", "HERR"} : Return(CloseInvalidate, code)
    /\ UNCHANGED <<opt, basicAuthed, dt, hs, file, opened>>

\* The header values check_file_output may read: a Content-Disposition
\* header matters only when --content-disposition is on and no name is
\* chosen yet; <<>> is no header.
CDValues(code) ==
    IF opt.contentDisposition /\ hs.localFile = NoFile /\ code # 401
    THEN CDHeaders \cup {<<>>} ELSE {<<>>}

\* Mutant: the fallback to the URL's name is lost.
CheckFileOutputNoFallback(cd) ==
    CASE hs.localFile # NoFile -> hs.localFile
      [] opt.contentDisposition /\ ParseCD(cd).ok -> [from |-> "cd", name |-> ParseCD(cd).name]
      [] OTHER -> hs.localFile

\* check_file_output's choice of hs->local_file (lines 2101-2120): kept
\* when set; else the Content-Disposition name when the option is on and
\* the header parses, else the URL's.
CheckFileOutput(cd) ==
    CASE hs.localFile # NoFile -> hs.localFile
      [] opt.contentDisposition /\ ParseCD(cd).ok -> [from |-> "cd", name |-> ParseCD(cd).name]
      [] OTHER -> UrlFile

\* A final head: "Connection: Close" ends keep-alive (lines 2768-2775);
\* past the 401 branch check_file_output runs (line 2884).
ReadFinalHead ==
    /\ pc = "ReadHead"
    /\ \E r \in FinalResponses : \E cd \in CDValues(r.code) : \E close \in BOOLEAN :
         /\ resp' = r
         /\ keepAlive' = (keepAlive /\ ~close)
         /\ hs' = IF r.code = 401 THEN hs
                  ELSE [hs EXCEPT !.localFile = CheckFileOutput(cd)]
    /\ pc' = "Dispatch"
    /\ UNCHANGED <<opt, sock, open, pconn, basicAuthed, auth, n1xx, dt,
                   file, opened, retval, req>>

\* A 401 (lines 2818-2875): the body is discarded, pconn.authorized cleared,
\* and check_auth either retries at retry_with_auth with the Authorization
\* header it made (line 2279) or gives up.
Unauthorized ==
    /\ pc = "Dispatch" /\ Stage(resp) = "Unauthorized"
    /\ \E drained \in Drains(ContLen(resp)) :
         IF opt.warc /\ ~drained
         THEN /\ \E e \in WarcDrainErrors : Return(CloseInvalidate, e)
              /\ UNCHANGED basicAuthed
         ELSE LET c0 == IF opt.warc \/ (keepAlive /\ ~dt.headOnly /\ drained)
                        THEN CloseFinish ELSE CloseInvalidate
                  c == [c0 EXCEPT !.pconn.authorized = FALSE]
              IN \E a \in CheckAuth(resp) :
                   /\ basicAuthed' = (basicAuthed \/ a.register)
                   /\ IF a.retry
                      THEN /\ open' = c.open /\ pconn' = c.pconn /\ sock' = c.sock
                           /\ auth' = [auth EXCEPT !.finished = a.finished]
                           /\ req' = RequestSetHeader(req, "authorization", AuthScheme(resp))
                           /\ pc' = "Connect"
                           /\ UNCHANGED <<retval, keepAlive, n1xx, resp>>
                      ELSE Return(c, IF a.err = "RETROK" THEN "AUTHFAILED" ELSE a.err)
    /\ UNCHANGED <<opt, dt, hs, file, opened>>

\* 204 (lines 3060-3074): nothing to read, the connection is finished.
NoContent ==
    /\ pc = "Dispatch" /\ Stage(resp) = "NoContent"
    /\ hs' = [hs EXCEPT !.statcode = resp.code, !.len = 0, !.res = 0, !.restval = 0]
    /\ dt' = [dt EXCEPT !.retrokf = TRUE]
    /\ Return(CloseFinish, "RETRFINISHED")
    /\ UNCHANGED <<opt, basicAuthed, file, opened>>

\* A redirect (lines 3076-3165): the body is discarded and the caller is
\* told whether to keep the method; hs->newloc is the Location header
\* (line 2944; only redirect heads carry one here).
Redirect ==
    /\ pc = "Dispatch" /\ Stage(resp) = "Redirect"
    /\ hs' = [hs EXCEPT !.statcode = resp.code, !.len = 0, !.res = 0, !.restval = 0,
                        !.newloc = resp.location]
    /\ dt' = [dt EXCEPT !.retrokf = Retrokf(resp)]
    /\ \E drained \in Drains(ContLen(resp)) :
         DiscardBody(keepAlive /\ ~dt.headOnly, drained, RedirectResult(resp.code))
    /\ UNCHANGED <<opt, basicAuthed, file, opened>>

\* 304 to a conditional request (lines 3167-3179).
NotModified ==
    /\ pc = "Dispatch" /\ Stage(resp) = "NotModified"
    /\ hs' = [hs EXCEPT !.statcode = resp.code]
    /\ dt' = [dt EXCEPT !.retrokf = TRUE]
    /\ Return(CloseFinish, "RETRUNNEEDED")
    /\ UNCHANGED <<opt, basicAuthed, file, opened>>

\* A 200 to a conditional request whose Last-Modified and length show the
\* local file is current: the server ignored If-Modified-Since (3229-3254).
IgnoredIMS ==
    /\ pc = "Dispatch" /\ Stage(resp) = "IgnoredIMS"
    /\ hs' = [hs EXCEPT !.statcode = resp.code]
    /\ dt' = [dt EXCEPT !.retrokf = TRUE]
    /\ Return(CloseInvalidate, "RETRUNNEEDED")
    /\ UNCHANGED <<opt, basicAuthed, file, opened>>

\* 416, or a 200 no longer than what is already there (lines 3257-3284):
\* the file counts as complete and the body is skipped if possible.
AlreadyComplete ==
    /\ pc = "Dispatch" /\ Stage(resp) = "AlreadyRetrieved"
    /\ hs' = [hs EXCEPT !.statcode = resp.code, !.len = ContLen(resp), !.res = 0]
    /\ dt' = [dt EXCEPT !.retrokf = TRUE]
    /\ \E drained \in Drains(ContLen(resp)) :
         Return(IF keepAlive /\ drained THEN CloseFinish ELSE CloseInvalidate,
                "RETRUNNEEDED")
    /\ UNCHANGED <<opt, basicAuthed, file, opened>>

\* The server misunderstood the Range request (lines 3285-3293).
RangeError ==
    /\ pc = "Dispatch" /\ Stage(resp) = "RangeError"
    /\ hs' = [hs EXCEPT !.statcode = resp.code]
    /\ dt' = [dt EXCEPT !.retrokf = Retrokf(resp)]
    /\ Return(CloseInvalidate, "RANGEERR")
    /\ UNCHANGED <<opt, basicAuthed, file, opened>>

\* An error status without --content-on-error, a HEAD, or --spider
\* (lines 3338-3391): the body is not saved.
SkipDownload ==
    /\ pc = "Dispatch" /\ Stage(resp) = "NoDownload"
    /\ hs' = [hs EXCEPT !.statcode = resp.code, !.contlen = TotalLen(resp),
                        !.len = 0, !.res = 0, !.restval = 0]
    /\ dt' = [dt EXCEPT !.retrokf = Retrokf(resp)]
    /\ LET result == IF resp.code = 504 THEN "GATEWAYTIMEOUT" ELSE "RETRFINISHED"
       IN \E drained \in Drains(ContLen(resp)) :
            IF opt.warc THEN DiscardBody(FALSE, drained, result)
            ELSE Return(IF dt.headOnly THEN CloseFinish
                        ELSE IF opt.spider THEN CloseInvalidate
                        ELSE IF keepAlive /\ drained THEN CloseFinish
                        ELSE CloseInvalidate, result)
    /\ UNCHANGED <<opt, basicAuthed, file, opened>>

\* open_output_stream (lines 2316-2403): "ab" when resuming (restval > 0),
\* otherwise "wb", which truncates (count > 0 in every call).
OpenOutputStream ==
    /\ pc = "Dispatch" /\ Stage(resp) = "Body"
    /\ hs' = [hs EXCEPT !.statcode = resp.code, !.contlen = TotalLen(resp)]
    /\ dt' = [dt EXCEPT !.retrokf = Retrokf(resp)]
    /\ \E ok \in BOOLEAN :
         IF ok
         THEN /\ file' = (IF hs.restval > 0 THEN file ELSE <<>>)
              /\ opened' = TRUE /\ pc' = "ReadBody"
              /\ UNCHANGED <<open, pconn, sock, retval, keepAlive, auth, n1xx, resp, req>>
         ELSE Return(CloseInvalidate, "FOPENERR") /\ UNCHANGED <<file, opened>>
    /\ UNCHANGED <<opt, basicAuthed>>

\* How fd_read_body can end after reading k bytes of a body: "done" when all
\* of it arrived, "eof"/"readerr" before that, "writeerr" (-2) writing the
\* file, and with WARC "warctmp" (the temporary file could not be set up,
\* nothing read), "warcwrite" (-3) and "warcrecord" (the record failed).
BodyOutcomes(k, n) ==
    (IF k = n THEN {"done"} ELSE {"eof", "readerr"}) \cup {"writeerr"}
    \cup (IF opt.warc THEN {"warcwrite", "warcrecord"} \cup
                           (IF k = 0 THEN {"warctmp"} ELSE {})
          ELSE {})

\* hs->res and the return value of read_response_body for each outcome.
BodyRes == [done |-> 0, eof |-> 0, readerr |-> -1, writeerr |-> -2,
            warcwrite |-> -3, warcrecord |-> 0, warctmp |-> -1]
BodyRet == [done |-> "RETRFINISHED", eof |-> "RETRFINISHED",
            readerr |-> "RETRFINISHED", writeerr |-> "FWRITEERR",
            warcwrite |-> "WARC_TMP_FWRITEERR", warcrecord |-> "WARC_ERR",
            warctmp |-> "WARC_TMP_FOPENERR"]

SkipBytes(r) == IF hs.restval > 0 /\ ContRange(r) = 0 THEN hs.restval ELSE 0

\* read_response_body and fd_read_body (lines 1597-1707, 3411-3425): when
\* the server ignored the range (contrange 0) the first restval bytes are
\* skipped; what remains is appended and hs->len is restval plus the bytes
\* written.  The socket is finished when res >= 0, invalidated otherwise.
ReadResponseBody ==
    /\ pc = "ReadBody"
    /\ LET body == Entity(resp)
           skip == SkipBytes(resp)
       IN \E k \in 0..Len(body) :
          \E o \in BodyOutcomes(k, Len(body)) :
            LET written == IF o = "warctmp" \/ k <= skip THEN <<>>
                           ELSE SubSeq(body, skip + 1, k)
            IN /\ file' = file \o written
               /\ hs' = IF o = "warctmp" THEN hs
                        ELSE [hs EXCEPT !.len = hs.restval + Len(written),
                                        !.res = BodyRes[o]]
               /\ Return(IF BodyRes[o] >= 0 /\ o # "warctmp"
                         THEN CloseFinish ELSE CloseInvalidate, BodyRet[o])
    /\ UNCHANGED <<opt, basicAuthed, dt, opened>>
\* One gethttp step after the call was made.
Transaction ==
    \/ EstablishConnection \/ SendRequest
    \/ Read1xx \/ HeadFailed \/ ReadFinalHead
    \/ Unauthorized \/ NoContent \/ Redirect \/ NotModified \/ IgnoredIMS
    \/ AlreadyComplete \/ RangeError \/ SkipDownload \/ OpenOutputStream
    \/ ReadResponseBody

-----------------------------------------------------------------------------
(* The call of gethttp by an unspecified caller, and the specification.    *)

Init ==
    /\ opt \in Options
    /\ pc = "Idle"
    /\ sock = NoSocket
    /\ keepAlive = FALSE
    /\ open = {}
    /\ pconn = NoPconn
    /\ basicAuthed = FALSE
    /\ auth = [finished |-> FALSE, basicFinished |-> FALSE]
    /\ n1xx = 0
    /\ resp = NoResp
    /\ dt = [headOnly |-> FALSE, condGet |-> FALSE, retrokf |-> FALSE]
    /\ hs = [len |-> 0, contlen |-> -1, restval |-> 0, res |-> -1, statcode |-> 0,
             newloc |-> FALSE,
             localFile |-> IF opt.contentDisposition THEN NoFile ELSE UrlFile]
    /\ file = <<>>
    /\ opened = FALSE
    /\ retval = "NONE"
    /\ req = <<>>

\* Any attempt: a HEAD or a GET, conditional or not, from the start or
\* resuming at the end of the file.
Call == \E h, c \in BOOLEAN, r \in {0, Len(file)} : Gethttp(h, c, r)

Next == Call \/ Transaction

\* gethttp does not stop between its own steps: every read and write has a
\* timeout, so each step of a started call is taken.
Spec == Init /\ [][Next]_vars /\ WF_vars(Transaction)

-----------------------------------------------------------------------------
(* Properties.                                                             *)

Retvals == {"NONE", "HOSTERR", "CONERROR", "CONIMPOSSIBLE", "WRITEFAILED",
            "WARC_TMP_FOPENERR", "WARC_TMP_FWRITEERR", "WARC_ERR", "HEOF",
            "HERR", "AUTHFAILED", "ATTRMISSING", "RETRFINISHED", "NEWLOCATION",
            "NEWLOCATION_KEEP_POST", "RETRUNNEEDED", "RANGEERR",
            "GATEWAYTIMEOUT", "FOPENERR", "FWRITEERR"}

TypeOK ==
    /\ opt \in Options
    /\ pc \in {"Idle", "Connect", "Send", "ReadHead", "Dispatch", "ReadBody"}
    /\ sock \in Fds \cup {NoSocket}
    /\ keepAlive \in BOOLEAN
    /\ open \subseteq Fds
    /\ pconn \in [active : BOOLEAN, socket : Fds \cup {NoSocket}, authorized : BOOLEAN]
    /\ basicAuthed \in BOOLEAN
    /\ auth \in [finished : BOOLEAN, basicFinished : BOOLEAN]
    /\ n1xx \in 0..Max1xx
    /\ dt \in [headOnly : BOOLEAN, condGet : BOOLEAN, retrokf : BOOLEAN]
    /\ hs.restval \in 0..ResourceLen /\ hs.len \in -1..ResourceLen
    /\ hs.localFile \in {NoFile, UrlFile} \cup
          [from : {"cd"}, name : Seq({"a", "b", "/", "\\", "'", "%2F"})]
    /\ file \in Seq(Nat \cup {Err}) /\ Len(file) <= ResourceLen
    /\ opened \in BOOLEAN
    /\ retval \in Retvals
    /\ req \in Seq([name : STRING, value : STRING])

\* Every descriptor the process holds is either the socket of the call in
\* progress or the registered persistent connection: no socket outlives the
\* gethttp call that opened it unless it was pooled (CLOSE_FINISH with
\* keep-alive, establish_connection's sock = -1).
NoLeakedSocket ==
    open \subseteq (IF pconn.active THEN {pconn.socket} ELSE {})
                   \cup (IF pc = "Idle" THEN {} ELSE {sock})

\* A 304 answer to a conditional request never opens (and so never
\* truncates) the output file: gethttp's cond_get branch returns before
\* open_output_stream, whatever --content-on-error says.
NotModifiedNeverOpensOutput == resp.code = 304 => ~opened

\* The redirect policy the specification prescribes (section 4.10): a
\* 307/308 keeps the method, and a 301/302 keeps it only for a POST; every
\* other redirect is followed with GET.  gethttp's 301/302 branches (lines
\* 3151-3164) keep any --method other than POST and downgrade POST.
RedirectMethodPerSpec ==
    retval \in {"NEWLOCATION", "NEWLOCATION_KEEP_POST"} =>
        (retval = "NEWLOCATION_KEEP_POST" <=>
            \/ hs.statcode \in {307, 308}
            \/ hs.statcode \in {301, 302} /\ opt.method = "POST")

\* The output file is opened only under a chosen name: every branch that
\* reaches open_output_stream passed check_file_output, which falls back
\* to the URL's name when Content-Disposition is off, absent or broken.
LocalFileChosenBeforeOpen == opened => hs.localFile # NoFile

\* parse_content_range agrees with the format of the specification (4.5)
\* on every Content-Range the server may send, and the range gethttp took
\* from the head it is dispatching is one the reference reads.
CRAgrees ==
    \A f \in 0..ResourceLen : \A h \in ContentRanges(f) :
        ParseContentRange(h) = RefContentRange(h)
CRRefRanges ==
    UNION {{RefContentRange(h) : h \in ContentRanges(f)} : f \in 0..ResourceLen}
ContentRangeMatchesReference ==
    /\ CRAgrees
    /\ pc = "Dispatch" /\ resp.cr.ok => resp.cr \in CRRefRanges

\* A 401 head is read as the header line store of the specification (4.1)
\* reads it: resp_new's split with folded continuations, resp_status, and
\* resp_header_locate's case-insensitive search from one index on give the
\* status code and, in order, the WWW-Authenticate values check_auth uses.
RefAuthHeads == [h \in AuthHeads |-> [code |-> RefStatus(h),
                                         challenges |-> RefValues(h, <<"WA">>)]]
ResponseHeadMatchesReference ==
    resp.head # <<>> =>
        [code |-> resp.code, challenges |-> resp.challenges] = RefAuthHeads[resp.head]

\* The user's --header lines win: every request sent carries, for each
\* name a --header line sets, the value of the last such line, also after
\* a 401, when check_auth has set its own Authorization (line 2279) and
\* retry_with_auth sets the --header lines again (2557-2562).
UserHeadersWin ==
    LET L == opt.userHeaders
        Final(i) == L[i].colon /\ \A j \in (i + 1)..Len(L) : ~(L[j].colon /\ L[j].name = L[i].name)
    IN pc = "Send" => \A i \in DOMAIN L : Final(i) => HeaderValue(req, L[i].name) = L[i].value

GethttpReturns == pc # "Idle" ~> pc = "Idle"

=============================================================================
