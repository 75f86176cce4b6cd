----------------------------- MODULE HeaderParams -----------------------------
(***************************************************************************)
(* The parameter tokenizer of code_without_proxy.c: extract_param (lines  *)
(* 1098-1167) and the RFC 2231 rewriting it applies to what it cut out,   *)
(* modify_param_name (1031-1060) and modify_param_value (1067-1076).      *)
(*                                                                         *)
(* A header value is the sequence of the parameters extract_param cuts    *)
(* out of it with the separator ';'.  A parameter is a record: its `name' *)
(* up to the first '*' (case folded), the `suffix' of '*' and digit       *)
(* characters after it, and its value.  Blanks, quotes and the separator  *)
(* are consumed by extract_param and leave no trace in the record.  A     *)
(* parameter whose name is "" stands for every text on which extract_param *)
(* returns false: an empty name, a name followed by something other than  *)
(* '=' or ';', an unterminated quote, garbage after a closing quote.  The *)
(* end of the header returns false as well, so a caller's loop ends at    *)
(* the first of the two.                                                   *)
(***************************************************************************)
EXTENDS Integers, Sequences, FiniteSets, SequencesExt

\* extract_param returns true for the i-th parameter.
Extracted(hdr, i) == i <= Len(hdr) /\ hdr[i].name # ""

\* The positions of '*' in the suffix of parameter p's name.
Stars(p) == {i \in DOMAIN p.suffix : p.suffix[i] = "*"}

\* modify_param_name: no '*' is a plain name; one '*' ending the name is
\* name* (encoded); one '*' followed by more is name*N (a segment); two or
\* more is name*N* (an encoded segment).  The name is cut at the first '*'.
ParamType(p) ==
    CASE Stars(p) = {} -> "NOT_RFC2231"
      [] Cardinality(Stars(p)) = 1 ->
            IF p.suffix[Len(p.suffix)] = "*" THEN "RFC2231_ENCODING"
            ELSE "RFC2231_NOENCODING"
      [] OTHER -> "RFC2231_ENCODING"

\* The is_url_encoded flag extract_param hands back (lines 1160-1164).
IsUrlEncoded(p) == ParamType(p) = "RFC2231_ENCODING"

\* modify_param_value: an encoded value starts after its last '\'' (the
\* charset'language' prefix).
ModifyParamValue(v, type) ==
    LET q == SelectLastInSeq(v, LAMBDA c : c = "'")
    IN IF type = "RFC2231_ENCODING" /\ q > 0 THEN SubSeq(v, q + 1, Len(v)) ELSE v
=============================================================================
