--------------------------- MODULE RequestHeaders ---------------------------
(***************************************************************************)
(* The header list of a request (code_without_proxy.c 204-289):           *)
(* request_set_header, request_set_user_header and request_remove_header. *)
(*                                                                         *)
(* A request is the sequence req->headers[0 .. hcount-1] of records        *)
(* [name, value].  Names are given in one case, so c_strcasecmp is         *)
(* equality; a value is an abstract token.  The capacity doubling of lines *)
(* 235-239 only moves the array and is left out.                           *)
(***************************************************************************)
EXTENDS Integers, Sequences, SequencesExt

\* request_set_header's NULL value.
NoValue == "NULL"

\* The index of the header called name, 0 if there is none (the loops of
\* lines 219-231 and 275-287).
HeaderAt(req, name) == SelectInSeq(req, LAMBDA h : h.name = name)

RequestSetHeader(req, name, value) ==
    LET i == HeaderAt(req, name)
    IN IF value = NoValue THEN req
       ELSE IF i # 0 THEN [req EXCEPT ![i] = [name |-> name, value |-> value]]
       ELSE Append(req, [name |-> name, value |-> value])

\* Mutant: a --header line is appended without looking for its name.
RequestSetUserHeaderAppend(req, line) ==
    IF ~line.colon THEN req ELSE Append(req, [name |-> line.name, value |-> line.value])

\* Lines 252-266: a --header line is [colon, name, value], the name before
\* the first ':' and the value after it without leading blanks; a line
\* with no ':' is ignored.
RequestSetUserHeader(req, line) ==
    IF ~line.colon THEN req ELSE RequestSetHeader(req, line.name, line.value)

\* The loop of lines 2557-2562 over opt.user_headers.
RECURSIVE SetUserHeaders(_, _)
SetUserHeaders(req, lines) ==
    IF lines = <<>> THEN req
    ELSE SetUserHeaders(RequestSetUserHeader(req, Head(lines)), Tail(lines))

\* Lines 272-289: the first header of that name is removed and the rest
\* moved down by one.
RequestRemoveHeader(req, name) ==
    IF HeaderAt(req, name) = 0 THEN req ELSE RemoveAt(req, HeaderAt(req, name))

\* The names of the headers, in order.
Names(req) == [i \in DOMAIN req |-> req[i].name]

\* The value of the header called name as the server reads it, NoValue
\* when the request has none.
HeaderValue(req, name) ==
    IF HeaderAt(req, name) = 0 THEN NoValue ELSE req[HeaderAt(req, name)].value
=============================================================================
