----------------------------- MODULE MCHstsFile -----------------------------
(* Two wget processes sharing one HSTS database.                           *)
EXTENDS HstsFile

CONSTANTS p1, p2

MCProcs == {p1, p2}
MCHosts == {<<"a", "b">>, <<"x", "a", "b">>}
MCIpHosts == {}
MCPorts == {80}
\* max-age 0, 1 and 5, with and without includeSubDomains.
MaxAgeIs(n) == [name |-> "max-age", value |-> [kind |-> "dec", n |-> n]]
IncludeSub == [name |-> "includeSubDomains", value |-> [kind |-> "none", n |-> 0]]
MCHeaders == {<<MaxAgeIs(n)>> : n \in {0, 1, 5}} \cup
             {<<MaxAgeIs(n), IncludeSub>> : n \in {0, 1, 5}}
MCTimeBits == 4
MCStartNow == 2
MCMaxNow == 3
MCMaxLearn == 1
\* No database, or one written a second before the processes start with
\* a policy for the superdomain a.b.
MCStartFiles == {<<[host |-> <<"a", "b">>, port |-> 80, incl |-> FALSE,
                   created |-> 1, maxAge |-> 5]>>}
\* The database at start is private, world-writable or not a regular file; a
\* new one is created under a umask of 022 or of 0.
Mode(r, w) == [reg |-> r, woth |-> w]
MCStartModes == {Mode(TRUE, FALSE), Mode(TRUE, TRUE), Mode(FALSE, FALSE)}
MCCreateModes == {Mode(TRUE, FALSE), Mode(TRUE, TRUE)}
=============================================================================
