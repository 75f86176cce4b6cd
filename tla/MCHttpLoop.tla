----------------------------- MODULE MCHttpLoop -----------------------------
(* http_loop over gethttp for TLC: two descriptors, a two-byte resource,  *)
(* one interim response per call, three tries.                            *)
EXTENDS HttpLoop

MCMaxFds == 2
MCResourceLen == 2
MCMax1xx == 1
MCNTry == 3

\* 300 is left out: a 300 without Location is saved as a success, which
\* with a changing entity between tries says nothing about wget.
MCCodes == {200, 204, 206, 301, 401, 404, 416, 500, 504}

Opt(ka, coe, cr, anc, m, w, ts, sp, rhe, rho, cd) ==
    [keepAlive |-> ka, contentOnError |-> coe, creds |-> cr,
     authNoChallenge |-> anc, method |-> m, warc |-> w, timestamping |-> ts,
     spider |-> sp, retryOnHttpError |-> rhe, retryOnHostError |-> rho,
     contentDisposition |-> cd, userHeaders |-> <<>>]

\* --retry-on-http-error texts: " 404,x" (atoi skips the blank; "x" reads
\* as 0) and "404".
RetryBlank404 == <<" ", "4", "0", "4", ",", "x">>
Retry404 == <<"4", "0", "4">>

\* A plain download with keep-alive that retries 404 and host errors; a
\* --spider check; -N --content-disposition with WARC and URL credentials.
MCOptions ==
    { Opt(TRUE,  FALSE, "none", FALSE, "none", FALSE, FALSE, FALSE, RetryBlank404, TRUE,  FALSE),
      Opt(FALSE, FALSE, "site", FALSE, "none", FALSE, FALSE, TRUE,  <<>>,  FALSE, FALSE),
      Opt(FALSE, FALSE, "url",  TRUE,  "PUT",  TRUE,  TRUE,  FALSE, <<>>,  FALSE, TRUE) }

\* --content-on-error together with --retry-on-http-error=404.
MCOptionsContentOnError ==
    { Opt(FALSE, TRUE, "none", FALSE, "none", FALSE, FALSE, FALSE, Retry404, FALSE, FALSE) }

\* Two Content-Disposition values for the -N --content-disposition run:
\* a name in two segments, and one that does not parse.
CDParam(n, sfx, text) == [name |-> n, suffix |-> sfx,
                          value |-> [given |-> TRUE, text |-> text]]
MCCDHeaders ==
    { <<CDParam("filename", <<"*", "0">>, <<"a">>), CDParam("filename", <<"*", "1">>, <<"b">>)>>,
      <<CDParam("filename", <<>>, <<"a", "/">>)>> }
\* Content-Range values for a range from offset f of the resource: the
\* canonical form, JavaWebServer's "bytes:", no unit with an unknown
\* length, a first byte with a leading zero; and values parse_content_range
\* rejects: no length, a length not past the last byte, a last byte before
\* the first, and the unsatisfied form "*/len".  Every accepted range runs
\* to the end of the resource.
MCContentRanges(f) ==
    LET D(n) == DigitChars[n + 1]
        F == D(f)
        L == D(MCResourceLen - 1)
        T == D(MCResourceLen)
    IN { <<"bytes", " ", F, "-", L, "/", T>>,
         <<"bytes", ":", F, "-", L, "/", T>>,
         <<F, "-", L, "/", "*">>,
         <<"bytes", " ", "0", F, "-", L, "/", T>>,
         <<"bytes", " ", F, "-", L>>,
         <<"bytes", " ", F, "-", L, "/", L>>,
         <<"bytes", " ", F, "-", "0", "/", T>>,
         <<"bytes", " ", "*", "/", T>> }
\* Two 401 heads ("WA" is WWW-Authenticate, "R" a realm, "N" a nonce): a
\* Digest then a Basic challenge, and a Digest alone.
CRLF == <<"\r", "\n">>
StatusLine401 == <<"H", "T", "T", "P", "/", "1", ".", "1", " ", "4", "0", "1">> \o CRLF
MCAuthHeads ==
    { StatusLine401 \o <<"WA", ":", " ", "Digest", " ", "R", ",", "N">> \o CRLF
                  \o <<"WA", ":", " ", "Basic", " ", "R">> \o CRLF \o CRLF,
      StatusLine401 \o <<"WA", ":", " ", "Digest", " ", "R", ",", "N">> \o CRLF \o CRLF }
=============================================================================
