---------------------------- MODULE ResponseHead ----------------------------
(***************************************************************************)
(* The response head store (code_without_proxy.c 589-818): resp_new       *)
(* splits the head into header lines, joining folded continuations;       *)
(* resp_header_locate finds the next header of a name; resp_status reads  *)
(* the status code.                                                        *)
(*                                                                         *)
(* A head is a sequence of characters.  Names are single tokens: "WA" is  *)
(* "WWW-Authenticate" and "wa" the same name in lower case (c_strncasecmp  *)
(* makes them equal), "X" another name.  "Basic" and "Digest" are the     *)
(* schemes; "R", "N" and "Z" are auth-params (a realm, a nonce, one        *)
(* extract_param rejects) and "a" is any other text.  A position past the  *)
(* end reads as NUL.                                                       *)
(***************************************************************************)
EXTENDS ContentRange

\* The least and greatest of a non-empty set of positions.
Least(S) == CHOOSE k \in S : \A j \in S : k <= j
Greatest(S) == CHOOSE k \in S : \A j \in S : k >= j

\* c_isspace.
Blanks == {" ", "\t", "\r", "\n"}

\* c_strncasecmp compares a name token without regard to case.
CaseFold(c) == IF c = "wa" THEN "WA" ELSE c

\* The position of the first character at or after i of d[i .. to] that is
\* not in S, or to + 1 (the `while (p < end && ...) ++p' loops).
SkipIn(d, i, to, S) ==
    LET K == {k \in i..to : d[k] \notin S}
    IN IF K = {} THEN Greatest({i, to + 1}) ELSE Least(K)

\* The position of the last character of d[b .. e] not in S, 0 if none.
LastNotIn(d, b, e, S) ==
    LET K == {k \in b..e : d[k] \notin S}
    IN IF K = {} THEN 0 ELSE Greatest(K)

-----------------------------------------------------------------------------
(* resp_new                                                                *)

\* The inner loop of lines 618-636 for the header starting at i: it ends
\* after its '\n'; a '\n' followed by ' ' or '\t' is a continuation, and it
\* and a '\r' before it become ' '.  [data, next]: the rewritten head and
\* the start of the next header.
RECURSIVE HeaderEnd(_, _)
HeaderEnd(h, i) ==
    LET NL == {k \in i..Len(h) : h[k] = "\n"}
        nl == IF NL = {} THEN 0 ELSE Least(NL)
        folded == [k \in DOMAIN h |->
                     IF k = nl \/ (k = nl - 1 /\ h[k] = "\r") THEN " " ELSE h[k]]
    IN CASE nl = 0 -> [data |-> h, next |-> Len(h) + 1]
         [] Tok(h, nl + 1) \notin {" ", "\t"} -> [data |-> h, next |-> nl + 1]
         [] OTHER -> HeaderEnd(folded, nl + 1)

\* The outer loop of lines 608-637: record the start of a header; stop at
\* the end of the text or at an empty line.
RECURSIVE SplitHeaders(_, _, _)
SplitHeaders(h, i, starts) ==
    IF \/ Tok(h, i) \in {"NUL", "\n"}
       \/ Tok(h, i) = "\r" /\ Tok(h, i + 1) = "\n"
    THEN [data |-> h, headers |-> Append(starts, i)]
    ELSE LET e == HeaderEnd(h, i)
         IN SplitHeaders(e.data, e.next, Append(starts, i))

\* resp_new (lines 589-643): an empty head (HTTP/0.9) has no header index,
\* here headers = <<>>.  headers[k] is the code's headers[k - 1].
RespNew(head) ==
    IF head = <<>> THEN [data |-> head, headers |-> <<>>]
    ELSE SplitHeaders(head, 1, <<>>)

-----------------------------------------------------------------------------
(* resp_header_locate and resp_status                                      *)

\* Mutant: the name is compared with strncmp, case mattering.
NamedAtCaseSensitive(rh, name, k) ==
    LET b == rh.headers[k + 1]
        e == rh.headers[k + 2]
    IN /\ e - b > Len(name)
       /\ Tok(rh.data, b + Len(name)) = ":"
       /\ \A j \in 1..Len(name) : rh.data[b + j - 1] = name[j]

\* The header k (0-based, as in the code) is named name: longer than the
\* name, ':' right after it, equal without regard to case (lines 681-683).
NamedAt(rh, name, k) ==
    LET b == rh.headers[k + 1]
        e == rh.headers[k + 2]
    IN /\ e - b > Len(name)
       /\ Tok(rh.data, b + Len(name)) = ":"
       /\ \A j \in 1..Len(name) : CaseFold(rh.data[b + j - 1]) = CaseFold(name[j])

\* resp_header_locate (lines 661-704): the first header named name at
\* index start or later (the status line, index 0, is never looked at),
\* and its value with the blanks around it cut off; pos -1 when none.
RespHeaderLocate(rh, name, start) ==
    LET found == {k \in (IF start > 0 THEN start ELSE 1)..(Len(rh.headers) - 2) :
                    NamedAt(rh, name, k)}
    IN IF found = {} THEN [pos |-> -1, value |-> <<>>]
       ELSE LET k == Least(found)
                b == SkipIn(rh.data, rh.headers[k + 1] + Len(name) + 1,
                            rh.headers[k + 2] - 1, Blanks)
                e == LastNotIn(rh.data, b, rh.headers[k + 2] - 1, Blanks)
            IN [pos |-> k, value |-> IF e = 0 THEN <<>> ELSE SubSeq(rh.data, b, e)]

\* resp_status (lines 757-818): 200 for HTTP/0.9; else "HTTP", an optional
\* "/digits.digits", blanks, and three digits; -1 when malformed.
RespStatus(rh) ==
    LET H == rh.headers
        d == rh.data
    IN IF H = <<>> THEN 200
       ELSE IF Len(H) < 2 THEN -1
       ELSE LET p == H[1]
                end == H[2]
                At(i) == IF i < end THEN d[i] ELSE "NUL"
                v == IF At(p + 4) = "/"
                     THEN LET a == SkipIn(d, p + 5, end - 1, Digits)
                          IN SkipIn(d, IF At(a) = "." THEN a + 1 ELSE a, end - 1, Digits)
                     ELSE p + 4
                s == SkipIn(d, v, end - 1, Blanks)
            IN IF \/ end - p < 4
                  \/ SubSeq(d, p, p + 3) # <<"H", "T", "T", "P">>
                  \/ end - s < 3
                  \/ \E j \in 0..2 : d[s + j] \notin Digits
               THEN -1
               ELSE 100 * DigitVal(d[s]) + 10 * DigitVal(d[s + 1]) + DigitVal(d[s + 2])

\* check_auth's loop of lines 2185-2188 (NTLM not built): the value of
\* every WWW-Authenticate header, in order.
RECURSIVE AuthValues(_, _)
AuthValues(rh, wapos) ==
    LET l == RespHeaderLocate(rh, <<"WA">>, wapos)
    IN IF l.pos = -1 THEN <<>> ELSE <<l.value>> \o AuthValues(rh, l.pos + 1)

-----------------------------------------------------------------------------
(* The reference definition (the header line store of the specification,  *)
(* 4.1, and the status line of RFC 7230).                                  *)

\* The logical lines of head h: a line begins at the start and after
\* every '\n' not followed by a blank; the head ends at the first empty
\* line.  The status line is the first; in a header line every '\n' of a
\* fold and the '\r' before it read as ' '.  The values of the header
\* lines named name, in order, blanks around them cut off.
RefValues(h, name) ==
    LET Starts == {1} \cup {k + 1 : k \in {j \in DOMAIN h : h[j] = "\n" /\ Tok(h, j + 1) \notin {" ", "\t"}}}
        IsEmpty(t) == Tok(h, t) \in {"NUL", "\n"} \/ (Tok(h, t) = "\r" /\ Tok(h, t + 1) = "\n")
        stop == Least({t \in Starts \cup {Len(h) + 1} : IsEmpty(t)})
        Next(t) == Least({u \in Starts \cup {Len(h) + 1} : u > t})
        IsFold(j, t) == j < Next(t) - 1 /\ (h[j] = "\n" \/ (h[j] = "\r" /\ Tok(h, j + 1) = "\n"))
        Text(t) == [k \in 1..(Next(t) - t) |-> IF IsFold(t + k - 1, t) THEN " " ELSE h[t + k - 1]]
        Named(t) == /\ Len(Text(t)) > Len(name) /\ Text(t)[Len(name) + 1] = ":"
                    /\ \A j \in 1..Len(name) : CaseFold(Text(t)[j]) = CaseFold(name[j])
        N == {t \in Starts : 1 < t /\ t < stop /\ Named(t)}
        Nth(i) == CHOOSE t \in N : Cardinality({u \in N : u < t}) = i - 1
        Trim(v) == LET b == SkipIn(v, 1, Len(v), Blanks)
                       e == LastNotIn(v, 1, Len(v), Blanks)
                   IN IF e = 0 THEN <<>> ELSE SubSeq(v, b, e)
    IN [i \in 1..Cardinality(N) |->
          Trim(SubSeq(Text(Nth(i)), Len(name) + 2, Len(Text(Nth(i)))))]

\* The code of the status line "HTTP[/MAJOR.MINOR] ddd ...": the version
\* is the longest run of '/', digits and at most one '.', then blanks and
\* three digits; -1 if the line is not of this form.
RefStatus(h) ==
    LET IsVersion(t) == /\ t # <<>> /\ t[1] = "/"
                        /\ \A j \in 2..Len(t) : t[j] \in Digits \cup {"."}
                        /\ Cardinality({j \in 2..Len(t) : t[j] = "."}) <= 1
        v == IF Tok(h, 5) = "/"
             THEN Greatest({k \in 5..Len(h) : IsVersion(SubSeq(h, 5, k))}) + 1
             ELSE 5
        s == SkipIn(h, v, Len(h), {" ", "\t"})
    IN IF SubSeq(h, 1, 4) = <<"H", "T", "T", "P">> /\ \A j \in 0..2 : Tok(h, s + j) \in Digits
       THEN 100 * DigitVal(h[s]) + 10 * DigitVal(h[s + 1]) + DigitVal(h[s + 2])
       ELSE -1
=============================================================================
