------------------------------ MODULE HttpLoop ------------------------------
(***************************************************************************)
(* http_loop() of src/src/code_without_proxy.c (lines 3456-4102) driving  *)
(* the gethttp transaction of GetHttp.tla: the attempt counter, the HEAD   *)
(* probe of --spider, the resume offset restval carried from one attempt  *)
(* to the next, the verdict on each result, and the success evaluation     *)
(* that compares the bytes received with the announced length.            *)
(*                                                                         *)
(* There is no local file before the run, so the noclobber exit, the      *)
(* -N / If-Modified-Since decisions and the time-stamping section that    *)
(* need one are not taken; --start-pos and -c are not set, and there is  *)
(* no --recursive.                                                        *)
(***************************************************************************)
EXTENDS GetHttp, SequencesExt

CONSTANT NTry   \* --tries; 0 is "infinite", which the runs do not use

ASSUME NTry \in Nat \ {0}

VARIABLES
    lpc,        \* where http_loop is: "Top" of the loop, "InCall", "Done"
    count,      \* the attempt counter
    gotHead,    \* got_head
    forceFull,  \* force_full_retrieve
    ret         \* what http_loop returns

loopVars == <<lpc, count, gotHead, forceFull, ret>>
allVars == <<vars, loopVars>>

\* send_head_first (lines 3526-3557) when no local file exists and -c is
\* not given: --spider, or -N with --content-disposition, sends a HEAD first.
SendHeadFirst == opt.spider \/ (opt.timestamping /\ opt.contentDisposition)

\* Results that continue the loop (lines 3651-3660, 3668-3676).
Retryable == {"HERR", "HEOF", "CONERROR", "WRITEFAILED", "RANGEERR",
              "GATEWAYTIMEOUT"}

\* The resume offset of attempt cnt (lines 3606-3627): the WARC case takes
\* hstat.len, a later attempt continues where the previous left off.
NextRestval(cnt) ==
    IF forceFull THEN hs.len
    ELSE IF cnt > 1
         THEN IF hs.len < hs.restval THEN hs.restval - hs.len ELSE hs.len
         ELSE 0

LoopInit ==
    /\ Init
    /\ lpc = "Top"
    /\ count = 0
    /\ gotHead = FALSE
    /\ forceFull = opt.warc
    /\ ret = "TRYLIMEXC"

\* The top of the loop (lines 3563-3642): count the attempt, HEAD while
\* the probe is due, choose restval, and call gethttp.
Attempt ==
    /\ lpc = "Top"
    /\ count' = count + 1
    /\ Gethttp(SendHeadFirst /\ ~gotHead, FALSE, NextRestval(count + 1))
    /\ lpc' = "InCall"
    /\ UNCHANGED <<gotHead, forceFull, ret>>

\* atoi (tok): blanks skipped, an optional sign, then the decimal digits up
\* up to the first other character; 0 when there are none.
Atoi(s, i) ==
    LET b == SkipIn(s, i, Len(s), Blanks)
        d == IF Tok(s, b) \in {"+", "-"} THEN b + 1 ELSE b
        n == ReadNum(s, d, 0).num
    IN IF Tok(s, b) = "-" THEN -n ELSE n

\* check_retry_on_http_error (lines 3440-3451) from the token at i of the
\* --retry-on-http-error text s: atoi of each token, the next token after
\* the next ','; FALSE at the end of the text.
RECURSIVE CheckRetryOnHttpError(_, _, _)
CheckRetryOnHttpError(s, i, statcode) ==
    LET commas == {k \in i..Len(s) : s[k] = ","}
    IN /\ Tok(s, i) # "NUL"
       /\ \/ Atoi(s, i) = statcode
          \/ commas # {} /\ CheckRetryOnHttpError(s, Least(commas) + 1, statcode)

\* The verdict on what gethttp returned (lines 3651-4084): the kind of step
\* that follows, "retry" (continue), "probe" (the HEAD of a HEAD-first run
\* succeeded: count is reset, lines 3926-3937), "exit" with a result, or
\* "abort"; and got_head after it.  got_head is set by the HEAD fallback
\* on 500/501 (lines 3779-3785) and by the got_head section (3818-3820),
\* which only a RETROKF result reaches.
Verdict ==
    LET Go(k, r, g) == [kind |-> k, ret |-> r, gotHead |-> g]
        seen == gotHead \/ dt.retrokf
    IN
    CASE retval \in Retryable \/ (retval = "HOSTERR" /\ opt.retryOnHostError)
           -> Go("retry", ret, gotHead)
      [] retval \in {"NEWLOCATION", "NEWLOCATION_KEEP_POST"}
           -> Go("exit", IF hs.newloc THEN retval ELSE "WRONGCODE", gotHead)
      [] retval = "RETRUNNEEDED" -> Go("exit", "RETROK", gotHead)
      [] retval # "RETRFINISHED" -> Go("exit", retval, gotHead)
      [] ~dt.retrokf
           -> CASE dt.headOnly /\ hs.statcode \in {500, 501} -> Go("retry", ret, TRUE)
                [] opt.spider -> Go("exit", "WRONGCODE", gotHead)
                [] CheckRetryOnHttpError(opt.retryOnHttpError, 1, hs.statcode) -> Go("retry", ret, gotHead)
                [] OTHER -> Go("exit", "WRONGCODE", gotHead)
      [] (~gotHead \/ opt.spider) /\ SendHeadFirst
           -> IF opt.spider THEN Go("exit", "RETROK", TRUE)
              ELSE Go("probe", ret, TRUE)
      [] hs.len = hs.contlen -> Go("exit", "RETROK", seen)
      [] hs.res = 0 /\ hs.contlen = -1 -> Go("exit", "RETROK", seen)
      [] hs.res = 0 /\ hs.len < hs.contlen -> Go("retry", ret, seen)
      [] hs.res = 0 /\ hs.len # hs.restval -> Go("abort", ret, seen)
      [] hs.res = 0 -> Go("exit", "RETROK", seen)
      [] OTHER -> Go("retry", ret, seen)

\* Mutant: the loop condition tested with <= instead of <.
AfterLoopTestInclusive(cnt) == IF cnt <= NTry THEN "Top" ELSE "Done"

\* Where `continue' leads: the loop condition (line 4085) with count.
AfterLoopTest(cnt) == IF cnt < NTry THEN "Top" ELSE "Done"

\* gethttp returned: act on the verdict.
AfterCall ==
    /\ lpc = "InCall" /\ pc = "Idle"
    /\ LET v == Verdict
       IN /\ ret' = v.ret
          /\ gotHead' = v.gotHead
          /\ count' = IF v.kind = "probe" THEN 0 ELSE count
          /\ lpc' = CASE v.kind = "retry" -> AfterLoopTest(count)
                      [] v.kind = "probe" -> AfterLoopTest(0)
                      [] v.kind = "exit"  -> "Done"
                      [] v.kind = "abort" -> "Aborted"
    /\ UNCHANGED <<forceFull>>
    /\ UNCHANGED vars

\* A step of the gethttp call in progress.
InCall == Transaction /\ UNCHANGED loopVars

LoopNext == Attempt \/ AfterCall \/ InCall

\* http_loop and gethttp run in one thread that always takes its next
\* step; nothing else runs.
LoopSpec == LoopInit /\ [][LoopNext]_allVars /\ WF_allVars(LoopNext)

-----------------------------------------------------------------------------
(* Properties.                                                             *)

LoopTypeOK ==
    /\ TypeOK
    /\ lpc \in {"Top", "InCall", "Done", "Aborted"}
    /\ count \in 0..NTry
    /\ gotHead \in BOOLEAN /\ forceFull \in BOOLEAN
    /\ ret \in Retvals \cup {"TRYLIMEXC", "RETROK", "WRONGCODE"}

TruncationUndetectable ==
    retval = "RETRFINISHED" /\ hs.contlen = -1 /\ hs.res = 0

\* When http_loop reports success for a download, the file is the whole
\* resource, unless the server never said how long it was.
SuccessMeansWholeFile ==
    (lpc = "Done" /\ ret = "RETROK" /\ ~opt.spider)
        => file = Resource \/ TruncationUndetectable

\* The success evaluation never reaches its abort() (line 4050): a body
\* never runs past the length gethttp recorded in hs->contlen.
NeverAborts == lpc # "Aborted"

\* http_loop returns: retries are bounded by --tries, the HEAD probe runs
\* once, and every gethttp call returns.
LoopTerminates == <>(lpc = "Done")
=============================================================================
