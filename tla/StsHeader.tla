------------------------------ MODULE StsHeader ------------------------------
(***************************************************************************)
(* parse_strict_transport_security (code_without_proxy.c 1270-1318) and    *)
(* its loop over the parameters extract_param (HeaderParams.tla) cuts out. *)
(*                                                                         *)
(* A parameter's name is "max-age", "includeSubDomains" or another, and   *)
(* its value is reduced to what strtol makes of it: a decimal it reads, no *)
(* value at all (a name with no '='), text with no leading digits, or    *)
(* digits beyond the range of a long.                                     *)
(*                                                                         *)
(* long and time_t have the same width, TimeBits.                          *)
(***************************************************************************)
EXTENDS HeaderParams

CONSTANTS
    Headers,    \* Strict-Transport-Security values a server may send
    TimeBits    \* width of long and time_t

LongMax == 2 ^ (TimeBits - 1) - 1
LongMin == -(2 ^ (TimeBits - 1))

\* What strtol (c_max_age, NULL, 10) returns (line 1297): the decimal it
\* reads, LONG_MAX or LONG_MIN when the digits overflow, and 0 when there
\* are no digits.  A name with no value has the zeroed span, which
\* strdupdelim turns into "" (lines 1121-1123).
Strtol(v) ==
    CASE v.kind = "dec"  -> v.n
      [] v.kind = "huge" -> IF v.n > 0 THEN LongMax ELSE LongMin
      [] OTHER           -> 0

\* c_max_age before any max-age parameter: NULL.
Null == [kind |-> "null", n |-> 0]

\* Mutant: the first max-age is kept instead of the last.
RECURSIVE ScanFirstWins(_, _, _)
ScanFirstWins(hdr, i, acc) ==
    IF ~Extracted(hdr, i) THEN acc
    ELSE ScanFirstWins(hdr, i + 1,
           CASE hdr[i].name = "max-age" /\ acc.cMaxAge = Null
                  -> [acc EXCEPT !.cMaxAge = hdr[i].value]
             [] hdr[i].name = "includeSubDomains" -> [acc EXCEPT !.is = TRUE]
             [] OTHER -> acc)

\* The loop of lines 1282-1291 from the i-th parameter on: a max-age
\* replaces c_max_age, includeSubDomains sets `is', other names are
\* ignored; the loop stops where extract_param returns false.
RECURSIVE Scan(_, _, _)
Scan(hdr, i, acc) ==
    IF ~Extracted(hdr, i) THEN acc
    ELSE Scan(hdr, i + 1,
           CASE hdr[i].name = "max-age" -> [acc EXCEPT !.cMaxAge = hdr[i].value]
             [] hdr[i].name = "includeSubDomains" -> [acc EXCEPT !.is = TRUE]
             [] OTHER -> acc)

\* The result: success when some max-age was seen (lines 1293-1316), with
\* the value strtol gives and the flag.  A missing header (NULL) is the
\* empty sequence.
ParseSts(hdr) ==
    LET acc == Scan(hdr, 1, [cMaxAge |-> Null, is |-> FALSE])
    IN [ok |-> acc.cMaxAge # Null,
        maxAge |-> Strtol(acc.cMaxAge),
        incl |-> acc.is]

-----------------------------------------------------------------------------
(* The reference definition.                                               *)

\* The parse by definition: of the parameters before the first malformed
\* one, the last max-age gives the value and any includeSubDomains the
\* flag; without a max-age the parse fails.
RefParse(hdr) ==
    LET bad == {i \in DOMAIN hdr : hdr[i].name = ""}
        end == IF bad = {} THEN Len(hdr) + 1 ELSE CHOOSE i \in bad : \A j \in bad : i <= j
        ms == {i \in 1..end - 1 : hdr[i].name = "max-age"}
        lastMs == CHOOSE i \in ms : \A j \in ms : j <= i
    IN [ok |-> ms # {},
        maxAge |-> IF ms = {} THEN 0 ELSE Strtol(hdr[lastMs].value),
        incl |-> \E i \in 1..end - 1 : hdr[i].name = "includeSubDomains"]
=============================================================================
