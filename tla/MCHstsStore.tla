----------------------------- MODULE MCHstsStore -----------------------------
(* The HSTS store for TLC: a host, its parent and grandparent domain, an   *)
(* IP literal, both default ports, a 4-bit time_t, two seconds and the     *)
(* Strict-Transport-Security values a server may send.                    *)
EXTENDS HstsStore, FiniteSets

MCHosts == {<<"x", "a", "b">>, <<"a", "b">>, <<"w", "x", "a", "b">>}
MCIpHosts == {<<"10", "0", "0", "1">>}
\* The run that checks the refinement leaves the IP literal out: no call
\* on it changes the table, and the transitions it adds double the time.
MCNoIpHosts == {}
MCPorts == {80, 443}
\* Parameters of a Strict-Transport-Security value.
Dec(n) == [kind |-> "dec", n |-> n]
NoValue == [kind |-> "none", n |-> 0]
Junk == [kind |-> "junk", n |-> 0]
TooBig == [kind |-> "huge", n |-> 1]
MaxAgeIs(v) == [name |-> "max-age", value |-> v]
IncludeSub == [name |-> "includeSubDomains", value |-> NoValue]
Malformed == [name |-> "", value |-> NoValue]

\* Headers whose max-age is a valid decimal: short, zero, negative, one
\* that overflows to LONG_MAX, and a repeated max-age.
DecimalHeaders ==
    { <<MaxAgeIs(Dec(1))>>, <<MaxAgeIs(Dec(1)), IncludeSub>>,
      <<MaxAgeIs(TooBig), IncludeSub>>, <<MaxAgeIs(Dec(1)), MaxAgeIs(TooBig)>>,
      <<MaxAgeIs(Dec(-1))>> }
\* Headers that section 4.4 of the specification says do not parse: no
\* max-age at all, a max-age with no value, a max-age that is not a
\* decimal, one cut off by a malformed parameter; and a missing header.
NonDecimalHeaders ==
    { <<IncludeSub>>, <<MaxAgeIs(NoValue)>>,
      <<MaxAgeIs(Junk), Malformed, IncludeSub>>, <<Malformed, MaxAgeIs(Dec(1))>>, <<>> }
\* Without an explicit max-age=0: a zero can only come from a header the
\* specification says fails to parse.
MCHeadersNoZero == DecimalHeaders \cup NonDecimalHeaders
MCHeaders == DecimalHeaders \cup NonDecimalHeaders \cup
             { <<MaxAgeIs(Dec(0)), IncludeSub>> }
MCTimeBits == 4
MCMaxNow == 2

\* At most two hosts known at once.
MCMaxEntries == 2
StoreBound == Cardinality({k \in Keys : store[k] # NoEntry}) <= MCMaxEntries
=============================================================================
