------------------------------ MODULE HstsStore ------------------------------
(***************************************************************************)
(* The in-memory HSTS store of src/src/hsts.c: the table of known hosts   *)
(* keyed by (host, explicit port), its lookup with the superdomain walk   *)
(* (hsts_find_entry), hsts_store_entry, called by gethttp for every       *)
(* Strict-Transport-Security header (code_without_proxy.c 2902-2922),     *)
(* and hsts_match, which rewrites a URL before it is fetched.             *)
(*                                                                         *)
(* A host name is the sequence of its labels (already lower case, as      *)
(* xstrdup_lower makes it); an IP literal is a host of IpHosts.  time_t   *)
(* is a signed integer of TimeBits bits, so created + max_age wraps as    *)
(* the 64-bit sum does; time(NULL) is the clock `now', which only moves   *)
(* forward and never fails (it returns -1 only on an invalid pointer).    *)
(***************************************************************************)
EXTENDS StsHeader

CONSTANTS
    Hosts,      \* host names, as sequences of labels
    IpHosts,    \* IP literals (is_valid_ip_address holds)
    Ports,      \* ports a URL may carry
    MaxNow      \* the last second the clock reaches

ASSUME TimeBits \in Nat \ {0, 1} /\ MaxNow \in Nat

VARIABLES
    store,      \* the hash table: key -> entry, NoEntry when absent
    changed,    \* store->changed
    now,        \* time (NULL)
    last        \* the last call and, for hsts_match, the URL it left

hvars == <<store, changed, now, last>>

Schemes == {"http", "https"}
AllHosts == Hosts \cup IpHosts
ExplicitPorts == Ports \cup {0}
Keys == AllHosts \X ExplicitPorts
NoEntry == [created |-> -1, maxAge |-> 0, incl |-> FALSE]

\* time_t arithmetic: the sum wraps around at 2^(TimeBits-1).
Half == 2 ^ (TimeBits - 1)
Wrap(x) == ((x + Half) % (2 * Half)) - Half

\* The macros of lines 75-83, as written: the scheme hsts.c treats as the
\* one that carries policies and gets rewritten is SCHEME_HTTP.
HostNameValid(h) == h \notin IpHosts
SchemeValid(s) == s = "http"
HostEligible(s, h) == SchemeValid(s) /\ HostNameValid(h)
MakeExplicitPort(s, p) ==
    IF s = "http" THEN (IF p = 443 THEN 0 ELSE p) ELSE (IF p = 80 THEN 0 ELSE p)

Lookup(st, k) == IF k \in DOMAIN st THEN st[k] ELSE NoEntry

-----------------------------------------------------------------------------
(* hsts_find_entry (lines 115-164).                                        *)

\* Mutant: the walk looks at one superdomain only.
WalkOnce(st, h, port) ==
    IF Len(h) >= 3 /\ Lookup(st, <<Tail(h), port>>) # NoEntry
    THEN [match |-> "SUPERDOMAIN", at |-> <<Tail(h), port>>]
    ELSE [match |-> "NO", at |-> <<h, port>>]

\* The superdomain walk: while the host still has three labels or more,
\* drop the first one and look the rest up (the loop of lines 140-148).
RECURSIVE Walk(_, _, _)
Walk(st, h, port) ==
    IF Len(h) >= 3
    THEN IF Lookup(st, <<Tail(h), port>>) # NoEntry
         THEN [match |-> "SUPERDOMAIN", at |-> <<Tail(h), port>>]
         ELSE Walk(st, Tail(h), port)
    ELSE [match |-> "NO", at |-> <<h, port>>]

\* The match, the key whose entry was found (`at') and the entry.  The key
\* the caller gets back in kh is always the host it asked for, with the
\* host pointer restored (line 152), whatever key matched.
FindEntry(st, h, port) ==
    LET w == IF Lookup(st, <<h, port>>) # NoEntry
             THEN [match |-> "CONGRUENT", at |-> <<h, port>>]
             ELSE Walk(st, h, port)
    IN [match |-> w.match, at |-> w.at, info |-> Lookup(st, w.at),
        kh |-> <<h, port>>]

\* The same lookup by definition: the key itself, else the longest proper
\* suffix of at least two labels that is in the store.
ReferenceFind(st, h, port) ==
    LET sup == {n \in 2..Len(h) - 1 :
                  Lookup(st, <<SubSeq(h, Len(h) - n + 1, Len(h)), port>>) # NoEntry}
        n == CHOOSE m \in sup : \A o \in sup : o <= m
    IN IF Lookup(st, <<h, port>>) # NoEntry THEN [match |-> "CONGRUENT", at |-> <<h, port>>]
       ELSE IF sup = {} THEN [match |-> "NO", at |-> <<h, port>>]
       ELSE [match |-> "SUPERDOMAIN", at |-> <<SubSeq(h, Len(h) - n + 1, Len(h)), port>>]

-----------------------------------------------------------------------------
(* The operations.                                                         *)

\* Mutant: the wrap check of line 190 missing.
AddEntryUnchecked(st, t, k, maxAge, incl) ==
    [st EXCEPT ![k] = [created |-> t, maxAge |-> maxAge, incl |-> incl]]

\* hsts_new_entry_internal as hsts_add_entry calls it at time t (lines
\* 167-227): no validity or duplicate check, and an entry whose
\* created + max_age wraps below created is refused.
AddEntry(st, t, k, maxAge, incl) ==
    IF Wrap(t + maxAge) < t THEN st
    ELSE [st EXCEPT ![k] = [created |-> t, maxAge |-> maxAge, incl |-> incl]]

\* The table after hsts_store_entry (lines 440-499) at time t, for a
\* Strict-Transport-Security header received on scheme://host:port.
StoredTable(st, t, scheme, host, port, maxAge, incl) ==
    LET p == MakeExplicitPort(scheme, port)
        f == FindEntry(st, host, p)
    IN IF ~HostEligible(scheme, host) THEN st
       ELSE IF f.match = "CONGRUENT"
       THEN CASE maxAge = 0 -> [st EXCEPT ![f.kh] = NoEntry]
              [] maxAge > 0 /\ t # f.info.created ->
                   [st EXCEPT ![f.kh] = [created |-> t, maxAge |-> maxAge,
                                         incl |-> incl]]
              [] OTHER -> st
       ELSE AddEntry(st, t, <<host, p>>, maxAge, incl)

\* What `last' records of a call of hsts_store_entry.
StoreCall == [op |-> "store", scheme |-> "http", host |-> <<>>, port |-> 0,
              toScheme |-> "http", toPort |-> 0]

\* hsts_store_entry on the store.  Every branch that sets store->changed
\* changes the table (a removal, an update to a new created, an added
\* entry) and no other branch does, so changed is set exactly when the
\* table differs.
StoreEntry(scheme, host, port, maxAge, incl) ==
    /\ store' = StoredTable(store, now, scheme, host, port, maxAge, incl)
    /\ changed' = (changed \/ store' # store)
    /\ last' = StoreCall
    /\ UNCHANGED now

\* gethttp calls hsts_store_entry with the max-age and flag of a
\* Strict-Transport-Security header only when the header parses
\* (code_without_proxy.c 2902-2908): the distinct calls the headers of
\* Headers give.
StsCalls == {r \in {ParseSts(hdr) : hdr \in Headers} : r.ok}

\* The expiry test of line 389, on the wrapping sum.
Live(e) == Wrap(e.created + e.maxAge) >= now

\* Mutant: a superdomain entry applies without includeSubDomains.
AppliesAnySuperdomain(f) == f.match # "NO"

\* The entry found covers the host (lines 391-392): a congruent match, or a
\* superdomain entry that includes subdomains.
Applies(f) == f.match = "CONGRUENT" \/ (f.match = "SUPERDOMAIN" /\ f.info.incl)

\* hsts_match (lines 375-415) on the URL scheme://host:port: an entry still
\* live rewrites the URL, a dead one is removed under the key kh.
Match(scheme, host, port) ==
    /\ LET f == FindEntry(store, host, MakeExplicitPort(scheme, port))
           live == Live(f.info)
           applies == Applies(f)
           rewrite == ~SchemeValid(scheme) /\ f.match # "NO" /\ live /\ applies
       IN /\ IF ~SchemeValid(scheme) /\ f.match # "NO" /\ ~live
             THEN store' = [store EXCEPT ![f.kh] = NoEntry] /\ changed' = TRUE
             ELSE /\ store' = store
                  /\ changed' = (changed \/ rewrite)
          /\ last' = [op |-> "match", scheme |-> scheme, host |-> host, port |-> port,
                      toScheme |-> IF rewrite THEN "http" ELSE scheme,
                      toPort |-> IF rewrite /\ port = 80 THEN 443 ELSE port]
    /\ UNCHANGED now

\* A second passes.
Tick ==
    /\ now < MaxNow
    /\ now' = now + 1
    /\ UNCHANGED <<store, changed, last>>

NoCall == [op |-> "none", scheme |-> "http", host |-> <<>>, port |-> 0,
           toScheme |-> "http", toPort |-> 0]

\* A store just created by hsts_store_open with no database file.
HInit ==
    /\ store = [k \in Keys |-> NoEntry]
    /\ changed = FALSE
    /\ now = 0
    /\ last = NoCall

HNext ==
    \/ \E s \in Schemes, h \in AllHosts, p \in Ports, r \in StsCalls :
          StoreEntry(s, h, p, r.maxAge, r.incl)
    \/ \E s \in Schemes, h \in AllHosts, p \in Ports : Match(s, h, p)
    \/ Tick

HSpec == HInit /\ [][HNext]_hvars

-----------------------------------------------------------------------------
(* Properties.                                                             *)

\* The max-age values a header parses to.
MaxAges == {r.maxAge : r \in StsCalls}

Entries == [created : 0..MaxNow, maxAge : {a \in MaxAges : a >= 0}, incl : BOOLEAN]

HstsTypeOK ==
    /\ store \in [Keys -> Entries \cup {NoEntry}]
    /\ changed \in BOOLEAN
    /\ now \in 0..MaxNow
    /\ last.op \in {"none", "store", "match"}

\* A step that is a call of hsts_match (Tick changes only now).
MatchStep == last'.op = "match" /\ now' = now

\* RFC 6797 time arithmetic, without wrap: the policy is in force up to and
\* including second created + max_age.
InForce(e, t) == e # NoEntry /\ t <= e.created + e.maxAge

\* The host of key k is a Known HSTS Host through entry e: e is k's own
\* entry, or that of a superdomain with includeSubDomains.
Covers(st, t, k) ==
    \/ InForce(Lookup(st, k), t)
    \/ \E n \in 2..Len(k[1]) - 1 :
          LET e == Lookup(st, <<SubSeq(k[1], Len(k[1]) - n + 1, Len(k[1])), k[2]>>)
          IN InForce(e, t) /\ e.incl

\* The superdomain walk of hsts_find_entry finds, for every host and port,
\* the entry of the host itself or else of its longest proper superdomain
\* of two labels or more.
FindEntryIsLongestSuffix ==
    \A h \in AllHosts, p \in ExplicitPorts :
        LET f == FindEntry(store, h, p)
            r == ReferenceFind(store, h, p)
        IN f.match = r.match /\ (f.match # "NO" => f.at = r.at)

\* hsts_match rewrites a URL only when the store holds a policy in force
\* for its host: its own, or a superdomain's that includes subdomains.
\* The expiry test on the wrapped sum never lets a dead policy through.
UpgradeOnlyByLivePolicy ==
    [][ MatchStep /\ last'.toScheme # last'.scheme
        => Covers(store, now, <<last'.host, MakeExplicitPort(last'.scheme, last'.port)>>)
      ]_hvars

ParseAgrees == \A hdr \in Headers : ParseSts(hdr) = RefParse(hdr)
RefResults == {RefParse(hdr) : hdr \in Headers}

\* The loop of parse_strict_transport_security, with its early stop at a
\* malformed parameter and its replacement of c_max_age, computes the
\* reference parse of every header the server may send; so every entry
\* hsts_store_entry leaves in the table holds the max-age and
\* includeSubDomains of a header as the reference reads it.
ParseMatchesReference ==
    /\ ParseAgrees
    /\ \A k \in Keys : store[k] # NoEntry =>
          [ok |-> TRUE, maxAge |-> store[k].maxAge, incl |-> store[k].incl] \in RefResults

\* RFC 6797 and the specification (sections 3, 4.8): there is no entry with
\* max_age 0, which stands for a deletion.  hsts_store_entry's comment
\* "we ignore new entries with max_age == 0" says the same.
NoZeroMaxAgeEntry == \A k \in Keys : store[k] # NoEntry => store[k].maxAge # 0

\* The specification (section 4.8, scenario 5): hsts_match upgrades a
\* plain-text URL whose host has a policy in force to https.
PlainHttpUpgraded ==
    [][ MatchStep /\ last'.scheme = "http"
        /\ Covers(store, now, <<last'.host, MakeExplicitPort("http", last'.port)>>)
        => last'.toScheme = "https" ]_hvars

\* The specification (section 4.8): when hsts_match finds an entry that has
\* expired, the entry is removed.
ExpiredEntryRemoved ==
    [][ MatchStep /\ ~SchemeValid(last'.scheme) =>
        LET f == FindEntry(store, last'.host, MakeExplicitPort(last'.scheme, last'.port))
        IN f.match # "NO" /\ ~InForce(f.info, now) => Lookup(store', f.at) = NoEntry
      ]_hvars

\* hsts_match drops only policies that are no longer in force: the
\* expiry test on the wrapped created + max_age agrees with the time the
\* header gave, whatever max-age hsts_store_entry accepted.
PolicyKeptWhileInForce ==
    [][ MatchStep =>
          \A k \in Keys : InForce(store[k], now) => store'[k] # NoEntry ]_hvars
=============================================================================
