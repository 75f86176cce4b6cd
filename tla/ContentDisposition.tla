-------------------------- MODULE ContentDisposition --------------------------
(***************************************************************************)
(* parse_content_disposition (code_without_proxy.c 1212-1268) with         *)
(* append_value_to_filename (1177-1187): the loop over the parameters      *)
(* extract_param cuts out of a Content-Disposition value, and the file    *)
(* name it hands back.                                                     *)
(*                                                                         *)
(* A parameter is [name, suffix, value] as in HeaderParams; its value is   *)
(* [given, text], given FALSE for a name with no '=' (value.b is NULL).   *)
(* A text is a sequence of characters from a small alphabet: "a", "b",    *)
(* the separators "/" and "\\", the quote "'" of an RFC 2231 prefix and   *)
(* "%2F", the escape url_unescape turns into "/".                         *)
(***************************************************************************)
EXTENDS HeaderParams

CONSTANT CDHeaders   \* Content-Disposition values a server may send

\* url_unescape (url.c): every %XX escape becomes the byte it encodes.
Unescape(t) == [i \in DOMAIN t |-> IF t[i] = "%2F" THEN "/" ELSE t[i]]

\* The value extract_param hands back: after modify_param_value.
Value(p) == ModifyParamValue(p.value.text, ParamType(p))

\* Lines 1228-1233: the value begins after its last '/' or '\\'.
Basename(t) ==
    SubSeq(t, SelectLastInSeq(t, LAMBDA c : c \in {"/", "\\"}) + 1, Len(t))

\* isEncodedFilename (line 1240): the name was cut at a '*' (name.e points
\* at it) and the character after that '*' is not a digit.
IsEncodedFilename(p) ==
    /\ p.suffix # <<>>
    /\ Len(p.suffix) = 1 \/ p.suffix[2] \notin {"0", "1"}

\* The parameter names a file with a non-empty basename (lines 1222-1235).
Taken(p) ==
    /\ p.name = "filename"
    /\ p.value.given
    /\ Basename(Value(p)) # <<>>

\* What strdupdelim / append_value_to_filename add to the buffer: the
\* basename, unescaped when extract_param reported is_url_encoded.
Piece(p) == IF IsUrlEncoded(p) THEN Unescape(Basename(Value(p)))
            ELSE Basename(Value(p))

\* The buffer a taken parameter goes to.
Buffer(p) == IF IsEncodedFilename(p) THEN "enc" ELSE "unenc"

\* The loop of lines 1219-1252 from the i-th parameter on.  A buffer that
\* is NULL holds <<>>: every piece is non-empty.
RECURSIVE ScanCD(_, _, _)
ScanCD(hdr, i, acc) ==
    IF ~Extracted(hdr, i) THEN acc
    ELSE ScanCD(hdr, i + 1,
           IF Taken(hdr[i]) THEN [acc EXCEPT ![Buffer(hdr[i])] = @ \o Piece(hdr[i])]
           ELSE acc)

\* Lines 1253-1266: the encoded name wins over the unencoded one; the
\* parse succeeds when either is set.
ParseCD(hdr) ==
    LET acc == ScanCD(hdr, 1, [enc |-> <<>>, unenc |-> <<>>])
        name == IF acc.enc # <<>> THEN acc.enc ELSE acc.unenc
    IN [ok |-> name # <<>>, name |-> name]
=============================================================================
