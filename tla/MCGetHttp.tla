----------------------------- MODULE MCGetHttp -----------------------------
(* Model-checking instance of GetHttp: two descriptors, a two-byte         *)
(* resource, at most one interim response per call, and every combination *)
(* of the options that steer gethttp's control flow.                       *)
EXTENDS GetHttp

MCMaxFds == 2
MCResourceLen == 2
MCMax1xx == 1

\* One code per branch of the dispatch: 2xx full and partial, 204, 300,
\* 301 (method-dependent redirect), 307, 304, 401, 416, an error page and
\* the retried 504.
MCCodes == {200, 204, 206, 300, 301, 307, 304, 401, 404, 416, 504}

\* A --header line "name: value", and one without a ':'.
UserLine(n, v) == [colon |-> TRUE, name |-> n, value |-> v]
NoColonLine == [colon |-> FALSE, name |-> "", value |-> ""]

\* Four command lines that between them take every branch: keep-alive on and
\* off, no credentials, credentials from the URL or site-wide (with and
\* without --auth-no-challenge), --content-on-error, WARC output, -N,
\* --spider, --method=PUT and --content-disposition (POST and no --method behave alike),
\* and --header lines: an extra header with a line that is ignored, a
\* Range from byte 1, and an Authorization of the user's own.
MCOptions ==
    { [keepAlive |-> TRUE, contentOnError |-> FALSE, creds |-> "site",
       authNoChallenge |-> FALSE, method |-> "none", warc |-> FALSE,
       timestamping |-> FALSE, spider |-> FALSE, contentDisposition |-> FALSE,
       userHeaders |-> <<UserLine("x-foo", "bar"), NoColonLine>>],
      [keepAlive |-> FALSE, contentOnError |-> TRUE, creds |-> "url",
       authNoChallenge |-> TRUE, method |-> "PUT", warc |-> FALSE,
       timestamping |-> TRUE, spider |-> FALSE, contentDisposition |-> FALSE,
       userHeaders |-> <<UserLine("range", "1")>>],
      [keepAlive |-> TRUE, contentOnError |-> TRUE, creds |-> "url",
       authNoChallenge |-> FALSE, method |-> "none", warc |-> TRUE,
       timestamping |-> FALSE, spider |-> TRUE, contentDisposition |-> FALSE,
       userHeaders |-> <<UserLine("authorization", "user")>>],
      [keepAlive |-> FALSE, contentOnError |-> FALSE, creds |-> "none",
       authNoChallenge |-> FALSE, method |-> "none", warc |-> TRUE,
       timestamping |-> FALSE, spider |-> FALSE, contentDisposition |-> TRUE,
       userHeaders |-> <<>>] }

\* A Content-Disposition parameter: name, the '*' and digits after it, and
\* the value (given FALSE for a name with no '=').
P(n, sfx, given, text) == [name |-> n, suffix |-> sfx,
                           value |-> [given |-> given, text |-> text]]
Malformed == P("", <<>>, FALSE, <<>>)

\* Headers that between them take every branch of the parse: a path and a
\* parameter without value; two segments filename*0, filename*1; an
\* unencoded name beaten by an encoded filename* with a charset prefix and
\* an escaped '/'; an encoded segment filename*0*; an empty basename and a
\* name after a malformed parameter.
MCCDHeaders ==
    { <<P("attachment", <<>>, FALSE, <<>>), P("filename", <<>>, TRUE, <<"a", "/", "b">>)>>,
      <<P("filename", <<"*", "0">>, TRUE, <<"a">>), P("filename", <<"*", "1">>, TRUE, <<"b">>)>>,
      <<P("filename", <<>>, TRUE, <<"a">>),
        P("filename", <<"*">>, TRUE, <<"'", "b", "%2F", "a">>)>>,
      <<P("filename", <<"*", "0", "*">>, TRUE, <<"'", "\\", "%2F">>)>>,
      <<P("filename", <<>>, TRUE, <<"a", "/">>), Malformed, P("filename", <<>>, TRUE, <<"b">>)>> }
\* Content-Range values for a range from offset f of the resource: the
\* canonical form, JavaWebServer's "bytes:", no unit with an unknown
\* length, a first byte with a leading zero; and values parse_content_range
\* rejects: no length, a length not past the last byte, a last byte before
\* the first, and the unsatisfied form "*/len".  Every accepted range runs
\* to the end of the resource.
MCContentRanges(f) ==
    LET D(n) == DigitChars[n + 1]
        F == D(f)
        L == D(MCResourceLen - 1)
        T == D(MCResourceLen)
    IN { <<"bytes", " ", F, "-", L, "/", T>>,
         <<"bytes", ":", F, "-", L, "/", T>>,
         <<F, "-", L, "/", "*">>,
         <<"bytes", " ", "0", F, "-", L, "/", T>>,
         <<"bytes", " ", F, "-", L>>,
         <<"bytes", " ", F, "-", L, "/", L>>,
         <<"bytes", " ", F, "-", "0", "/", T>>,
         <<"bytes", " ", "*", "/", T>> }
\* 401 heads, as characters ("WA" is the name WWW-Authenticate, "wa" it in
\* lower case, "X" another name; in a challenge "R" is a realm, "N" a
\* nonce and "Z" a parameter extract_param rejects): a Digest then a Basic
\* challenge; HTTP/1.0 and a lower-case name; a status line ended by a
\* bare '\n' and no version, a Digest whose nonce follows a malformed
\* parameter, and a Basic folded into the header before it; no challenge,
\* but a name that only begins with WWW-Authenticate; a Basic then a
\* Digest challenge with nonce before realm.  The last WWW-Authenticate
\* value is Basic or Digest whenever one is offered.
CRLF == <<"\r", "\n">>
StatusLine401 == <<"H", "T", "T", "P", "/", "1", ".", "1", " ", "4", "0", "1", " ", "a">> \o CRLF
MCAuthHeads ==
    { StatusLine401 \o <<"WA", ":", " ", "Digest", " ", "R", ",", " ", "N">> \o CRLF
                  \o <<"WA", ":", " ", "Basic", " ", "R">> \o CRLF \o CRLF,
      <<"H", "T", "T", "P", "/", "1", ".", "0", " ", "4", "0", "1">> \o CRLF
                  \o <<"wa", ":", " ", "Basic", " ", "R">> \o CRLF \o CRLF,
      <<"H", "T", "T", "P", " ", "4", "0", "1", " ", "a", "\n">>
                  \o <<"WA", ":", "\t", "Digest", " ", "R", ",", "Z", ",", "N">> \o CRLF
                  \o <<"X", ":", " ", "a">> \o CRLF
                  \o <<" ", "WA", ":", " ", "Basic">> \o CRLF \o CRLF,
      StatusLine401 \o <<"WA", "a", ":", " ", "Basic">> \o CRLF
                  \o <<"X", ":", " ", "a">> \o CRLF \o CRLF,
      StatusLine401 \o <<"WA", ":", " ", "Basic", " ", "R">> \o CRLF
                  \o <<"WA", ":", " ", "Digest", " ", "N", ",", "R", " ">> \o CRLF \o CRLF }
=============================================================================
