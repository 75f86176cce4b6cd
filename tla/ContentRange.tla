---------------------------- MODULE ContentRange ----------------------------
(***************************************************************************)
(* parse_content_range (code_without_proxy.c 884-928), the parser of the  *)
(* Content-Range header gethttp applies at lines 2959-2967.                *)
(*                                                                         *)
(* A header value is a sequence of characters, with two abstractions: the *)
(* five letters "bytes" that strncasecmp compares are one token, and " "  *)
(* stands for every character c_isspace accepts.  Digits are "0".."9".    *)
(***************************************************************************)
EXTENDS Integers, Sequences, SequencesExt

DigitChars == <<"0", "1", "2", "3", "4", "5", "6", "7", "8", "9">>
Digits == ToSet(DigitChars)
DigitVal(d) == CHOOSE k \in 0..9 : DigitChars[k + 1] = d

\* The character at i; *hdr is '\0' past the end.
Tok(h, i) == IF i <= Len(h) THEN h[i] ELSE "NUL"

\* The result when the function returns false: contrange and contlen are
\* left as they were.
NoRange == [ok |-> FALSE, first |-> 0, last |-> 0, total |-> 0]

\* while (c_isspace (*hdr)) ++hdr;
RECURSIVE SkipBlanks(_, _)
SkipBlanks(h, i) == IF Tok(h, i) = " " THEN SkipBlanks(h, i + 1) ELSE i

\* Lines 889-900: the unit "bytes", the ':' JavaWebServer sends and the
\* blanks after them are skipped.  (The test for an empty rest at 898 is
\* subsumed by the digit test that follows.)
Start(h) ==
    IF Tok(h, 1) = "bytes"
    THEN SkipBlanks(h, IF Tok(h, 2) = ":" THEN 3 ELSE 2)
    ELSE 1

\* The loops `num = 10 * num + (*hdr - '0')' over a run of digits: the
\* number and the position after the run.
RECURSIVE ReadNum(_, _, _)
ReadNum(h, i, num) ==
    IF Tok(h, i) \in Digits THEN ReadNum(h, i + 1, 10 * num + DigitVal(Tok(h, i)))
    ELSE [num |-> num, at |-> i]

\* Mutant: the test of the entity length against the last byte is lost.
ParseContentRangeNoTotalCheck(h) ==
    LET a == ReadNum(h, Start(h), 0)
        b == ReadNum(h, a.at + 1, 0)
        t == IF Tok(h, b.at + 1) = "*" THEN -1 ELSE ReadNum(h, b.at + 1, 0).num
    IN IF /\ Tok(h, Start(h)) \in Digits
          /\ Tok(h, a.at) = "-" /\ Tok(h, a.at + 1) \in Digits
          /\ Tok(h, b.at) = "/" /\ Tok(h, b.at + 1) \in Digits \cup {"*"}
          /\ b.num >= a.num
       THEN [ok |-> TRUE, first |-> a.num, last |-> b.num, total |-> t]
       ELSE NoRange

\* Lines 901-927: FIRST, '-' and a digit, LAST, '/' and a digit or '*',
\* LAST >= FIRST, then the entity length ('*' is -1), which when known
\* must exceed LAST.  What follows the length is not looked at.
ParseContentRange(h) ==
    LET a == ReadNum(h, Start(h), 0)
        b == ReadNum(h, a.at + 1, 0)
        t == IF Tok(h, b.at + 1) = "*" THEN -1 ELSE ReadNum(h, b.at + 1, 0).num
    IN IF /\ Tok(h, Start(h)) \in Digits
          /\ Tok(h, a.at) = "-" /\ Tok(h, a.at + 1) \in Digits
          /\ Tok(h, b.at) = "/" /\ Tok(h, b.at + 1) \in Digits \cup {"*"}
          /\ b.num >= a.num
          /\ t = -1 \/ t > b.num
       THEN [ok |-> TRUE, first |-> a.num, last |-> b.num, total |-> t]
       ELSE NoRange

-----------------------------------------------------------------------------
(* The reference definition (the format of the specification, 4.5).       *)

\* `bytes', an optional ':', blanks; or nothing.
IsRangePrefix(p) ==
    \/ p = <<>>
    \/ /\ p[1] = "bytes"
       /\ \A k \in 2..Len(p) : p[k] = " " \/ (k = 2 /\ p[k] = ":")

IsNumeral(s) == s # <<>> /\ \A k \in DOMAIN s : s[k] \in Digits
NumeralVal(s) == FoldLeft(LAMBDA acc, d : 10 * acc + DigitVal(d), 0, s)

\* h is PREFIX FIRST-LAST/TOTAL followed by anything that does not extend
\* TOTAL; there is at most one such reading.
RefContentRange(h) ==
    LET Cut(i, j) == SubSeq(h, i, j)
        Readings ==
          {r \in [p : 0..Len(h), f : 0..Len(h), l : 0..Len(h), t : 0..Len(h)] :
             /\ r.p < r.f /\ r.f + 1 < r.l /\ r.l + 1 < r.t
             /\ IsRangePrefix(Cut(1, r.p))
             /\ IsNumeral(Cut(r.p + 1, r.f))
             /\ h[r.f + 1] = "-"
             /\ IsNumeral(Cut(r.f + 2, r.l))
             /\ h[r.l + 1] = "/"
             /\ Cut(r.l + 2, r.t) = <<"*">> \/ IsNumeral(Cut(r.l + 2, r.t))
             /\ r.t = Len(h) \/ h[r.t + 1] \notin Digits \/ h[r.l + 2] = "*"}
        r == CHOOSE x \in Readings : TRUE
        first == NumeralVal(Cut(r.p + 1, r.f))
        last == NumeralVal(Cut(r.f + 2, r.l))
        total == IF h[r.l + 2] = "*" THEN -1 ELSE NumeralVal(Cut(r.l + 2, r.t))
    IN IF Readings # {} /\ last >= first /\ (total = -1 \/ total > last)
       THEN [ok |-> TRUE, first |-> first, last |-> last, total |-> total]
       ELSE NoRange
=============================================================================
