------------------------------ MODULE HstsFile ------------------------------
(***************************************************************************)
(* The HSTS database file of src/src/hsts.c shared by several wget        *)
(* processes: hsts_store_open reads it into a fresh in-memory store        *)
(* (lines 502-550, hsts_read_database with hsts_new_entry); the process   *)
(* then records Strict-Transport-Security headers in its own store         *)
(* (hsts_store_entry, HstsStore.tla); at exit hsts_store_save (553-587)   *)
(* opens the file for append, takes flock(LOCK_EX), re-reads and merges   *)
(* the file (hsts_store_merge) when its mtime has advanced past the one   *)
(* seen at open, truncates it and dumps the whole table.                  *)
(*                                                                         *)
(* The file is the sequence of its entry lines (the comment lines dump    *)
(* writes are skipped by the reader); its mtime has a resolution of one   *)
(* second, the clock `now'.  The stdio stream of the dump is flushed by   *)
(* fclose, so the lines appear in one write at the end of the save, and   *)
(* fclose drops the lock.  hsts_store_open takes no lock.                 *)
(*                                                                         *)
(* The file has a mode: whether it is a regular file and whether it is   *)
(* world-writable.  hsts_store_open only reads a regular, not              *)
(* world-writable file and otherwise runs the process without HSTS; fopen *)
(* never fails.                                                           *)
(***************************************************************************)
EXTENDS Integers, Sequences, SequencesExt

CONSTANTS
    Procs,      \* the wget processes sharing the database
    Hosts, IpHosts, Ports, Headers, TimeBits, MaxNow,
    StartNow,   \* the clock when the processes start
    StartFiles, \* the database files that may exist at that time
    StartModes, \* the modes such a file may have
    CreateModes, \* the modes fopen (filename, "a+") gives a new file (umask)
    MaxLearn    \* headers each process records

ASSUME StartNow \in Nat \ {0} /\ MaxLearn \in Nat

VARIABLES
    pc,         \* per process: "Open", "Stat", "Run", "Save", "Lock",
                \* "Trunc", "Dump", "Done"
    mem,        \* per process: its in-memory store
    lastMtime,  \* per process: store->last_mtime
    learns,     \* per process: headers recorded so far
    file,       \* the lines of the database file
    exists,     \* the database file exists
    mtime,      \* its st_mtime
    fmode,      \* its mode: [reg, woth] (S_ISREG, S_IWOTH)
    lock,       \* the process holding flock(LOCK_EX), or NoProc
    now,        \* time (NULL), in seconds
    seen        \* history: every (key, entry) a header or the start file gave

fvars == <<pc, mem, lastMtime, learns, file, exists, mtime, fmode, lock, now, seen>>

\* The table operations of hsts.c, over an explicit table and time.
H == INSTANCE HstsStore WITH store <- [k \in {} |-> 0], changed <- FALSE,
                             last <- [op |-> "none"]

NoProc == "none"
Keys == H!Keys
NoEntry == H!NoEntry
EmptyStore == [k \in Keys |-> NoEntry]

\* A line of the file: host, port, include_subdomains, created, max_age.
Lines == [host : Hosts \cup IpHosts, port : H!ExplicitPorts, incl : BOOLEAN,
          created : Nat, maxAge : Nat]

-----------------------------------------------------------------------------
(* Reading the database (lines 246-311).                                   *)

\* hsts_new_entry (lines 231-237): hsts_new_entry_internal with every
\* check: a valid host name, no wrap of created + max_age, no entry under
\* the same key yet.
NewEntry(st, l) ==
    LET k == <<l.host, H!MakeExplicitPort("http", l.port)>>
    IN IF ~H!HostNameValid(l.host)
          \/ H!Wrap(l.created + l.maxAge) < l.created
          \/ H!Lookup(st, k) # NoEntry
       THEN st
       ELSE [st EXCEPT ![k] = [created |-> l.created, maxAge |-> l.maxAge,
                               incl |-> l.incl]]

\* Mutant: the merge updates created and max_age but not the flag.
MergeLinePartial(st, l) ==
    LET f == H!FindEntry(st, l.host, H!MakeExplicitPort("http", l.port))
    IN IF f.match = "CONGRUENT" /\ l.created > f.info.created
       THEN [st EXCEPT ![f.kh] = [created |-> l.created, maxAge |-> l.maxAge,
                                  incl |-> f.info.incl]]
       ELSE IF f.match = "NO" THEN NewEntry(st, l) ELSE st

\* hsts_store_merge (lines 246-270): a line replaces the entry of the same
\* key when it was created later; it is added when hsts_find_entry finds
\* nothing; it is dropped when the key, or only a superdomain of it, is
\* already in the store.
MergeLine(st, l) ==
    LET f == H!FindEntry(st, l.host, H!MakeExplicitPort("http", l.port))
    IN IF f.match = "CONGRUENT" /\ l.created > f.info.created
       THEN [st EXCEPT ![f.kh] = [created |-> l.created, maxAge |-> l.maxAge,
                                  incl |-> l.incl]]
       ELSE IF f.match = "NO" THEN NewEntry(st, l) ELSE st

\* hsts_read_database (lines 273-311): every line in file order, through
\* hsts_store_merge or hsts_new_entry.
ReadDatabase(st, lines, merge) ==
    IF merge THEN FoldLeft(MergeLine, st, lines)
    ELSE FoldLeft(NewEntry, st, lines)

-----------------------------------------------------------------------------
(* Writing the database (lines 314-338).                                   *)

\* Mutant: the fprintf of a line with created and max_age swapped.
DumpLineSwapped(k, e) ==
    [host |-> k[1], port |-> k[2], incl |-> e.incl, created |-> e.maxAge,
     maxAge |-> e.created]

\* The line hsts_store_dump writes for the entry e of key k.
DumpLine(k, e) ==
    [host |-> k[1], port |-> k[2], incl |-> e.incl, created |-> e.created,
     maxAge |-> e.maxAge]

\* The lines of a dump: every entry once, in the hash table's iteration
\* order, which the model leaves open.
Dumps(st) ==
    LET ks == {k \in Keys : st[k] # NoEntry}
    IN {[i \in 1..Len(o) |-> DumpLine(o[i], st[o[i]])] : o \in SetToSeqs(ks)}

-----------------------------------------------------------------------------
(* The steps of a process.                                                 *)

\* hsts_file_access_valid (lines 345-362): a regular file, not
\* world-writable.
FileAccessValid(m) == m.reg /\ ~m.woth

\* hsts_store_open (lines 502-550), up to the read: a fresh table, filled
\* from the file when it exists and passes hsts_file_access_valid; without
\* a file last_mtime stays 0.  A file that fails the test makes the store
\* NULL: gethttp then records no header (line 2902) and nothing is saved.
Open(p) ==
    /\ pc[p] = "Open"
    /\ CASE ~exists
              -> mem' = [mem EXCEPT ![p] = EmptyStore] /\ pc' = [pc EXCEPT ![p] = "Run"]
         [] FileAccessValid(fmode)
              -> /\ mem' = [mem EXCEPT ![p] = ReadDatabase(EmptyStore, file, FALSE)]
                 /\ pc' = [pc EXCEPT ![p] = "Stat"]
         [] OTHER
              -> mem' = [mem EXCEPT ![p] = EmptyStore] /\ pc' = [pc EXCEPT ![p] = "Done"]
    /\ UNCHANGED <<lastMtime, learns, file, exists, mtime, fmode, lock, now, seen>>

\* The fstat after the read (lines 530-531): the mtime the file has now.
Stat(p) ==
    /\ pc[p] = "Stat"
    /\ lastMtime' = [lastMtime EXCEPT ![p] = mtime]
    /\ pc' = [pc EXCEPT ![p] = "Run"]
    /\ UNCHANGED <<mem, learns, file, exists, mtime, fmode, lock, now, seen>>

\* A Strict-Transport-Security header on http://h:port (gethttp, lines
\* 2902-2921 of code_without_proxy.c) goes through hsts_store_entry.
Learn(p) ==
    /\ pc[p] = "Run" /\ learns[p] < MaxLearn
    /\ \E h \in Hosts, port \in Ports, r \in H!StsCalls :
         LET st == H!StoredTable(mem[p], now, "http", h, port, r.maxAge, r.incl)
         IN /\ mem' = [mem EXCEPT ![p] = st]
            /\ seen' = seen \cup {<<k, st[k]>> : k \in {k \in Keys : st[k] # NoEntry}}
    /\ learns' = [learns EXCEPT ![p] = learns[p] + 1]
    /\ UNCHANGED <<pc, lastMtime, file, exists, mtime, fmode, lock, now>>

\* hsts_store_save (lines 559-565): nothing is written for an empty table;
\* otherwise fopen (filename, "a+") creates the file if needed, with a
\* mode the umask decides.  (A process reaches here only after finding no
\* file or a valid one, and files are only created regular, so the fopen
\* of a file that is not regular does not occur.)
Save(p) ==
    /\ pc[p] = "Run"
    /\ IF \A k \in Keys : mem[p][k] = NoEntry
       THEN pc' = [pc EXCEPT ![p] = "Done"] /\ UNCHANGED <<exists, mtime, fmode, file>>
       ELSE /\ pc' = [pc EXCEPT ![p] = "Lock"]
            /\ exists' = TRUE
            /\ mtime' = IF exists THEN mtime ELSE now
            /\ fmode' \in IF exists THEN {fmode} ELSE CreateModes
            /\ UNCHANGED file
    /\ UNCHANGED <<mem, lastMtime, learns, lock, now, seen>>

\* flock (fd, LOCK_EX) returns, then the stat and the merge of a file that
\* changed since it was read (lines 566-573).
Lock(p) ==
    /\ pc[p] = "Lock" /\ lock = NoProc
    /\ lock' = p
    /\ mem' = IF lastMtime[p] # 0 /\ mtime > lastMtime[p]
              THEN [mem EXCEPT ![p] = ReadDatabase(mem[p], file, TRUE)]
              ELSE mem
    /\ pc' = [pc EXCEPT ![p] = "Trunc"]
    /\ UNCHANGED <<lastMtime, learns, file, exists, mtime, fmode, now, seen>>

\* ftruncate (fd, 0) (lines 577-578).
Truncate(p) ==
    /\ pc[p] = "Trunc"
    /\ file' = <<>> /\ mtime' = now
    /\ pc' = [pc EXCEPT ![p] = "Dump"]
    /\ UNCHANGED <<mem, lastMtime, learns, exists, fmode, lock, now, seen>>

\* hsts_store_dump and fclose (lines 580-584): the lines reach the file
\* and the lock is dropped.
Dump(p) ==
    /\ pc[p] = "Dump"
    /\ file' \in Dumps(mem[p]) /\ mtime' = now
    /\ lock' = NoProc
    /\ pc' = [pc EXCEPT ![p] = "Done"]
    /\ UNCHANGED <<mem, lastMtime, learns, exists, fmode, now, seen>>

\* A second passes.
Tick ==
    /\ now < MaxNow
    /\ now' = now + 1
    /\ UNCHANGED <<pc, mem, lastMtime, learns, file, exists, mtime, fmode, lock, seen>>

Proc(p) ==
    Open(p) \/ Stat(p) \/ Learn(p) \/ Save(p) \/ Lock(p) \/ Truncate(p) \/ Dump(p)

FInit ==
    /\ pc = [p \in Procs |-> "Open"]
    /\ mem = [p \in Procs |-> EmptyStore]
    /\ lastMtime = [p \in Procs |-> 0]
    /\ learns = [p \in Procs |-> 0]
    /\ \/ exists = FALSE /\ file = <<>>
       \/ exists = TRUE /\ file \in StartFiles
    /\ mtime = IF exists THEN StartNow - 1 ELSE 0
    /\ fmode \in IF exists THEN StartModes ELSE {[reg |-> TRUE, woth |-> FALSE]}
    /\ lock = NoProc
    /\ now = StartNow
    /\ seen = {<<<<l.host, H!MakeExplicitPort("http", l.port)>>, [created |-> l.created, maxAge |-> l.maxAge,
                                      incl |-> l.incl]>> : l \in ToSet(file)}

FNext == (\E p \in Procs : Proc(p)) \/ Tick

\* Every process runs to its exit and flock eventually grants the lock
\* once its holder has closed the file.
FSpec == FInit /\ [][FNext]_fvars /\ \A p \in Procs : WF_fvars(Proc(p))

-----------------------------------------------------------------------------
(* Properties.                                                             *)

Entries == [created : 0..MaxNow, maxAge : {a \in H!MaxAges : a >= 0}, incl : BOOLEAN]

HstsFileTypeOK ==
    /\ pc \in [Procs -> {"Open", "Stat", "Run", "Lock", "Trunc", "Dump", "Done"}]
    /\ mem \in [Procs -> [Keys -> Entries \cup {NoEntry}]]
    /\ lastMtime \in [Procs -> 0..MaxNow]
    /\ learns \in [Procs -> 0..MaxLearn]
    /\ file \in Seq([host : Hosts, port : H!ExplicitPorts, incl : BOOLEAN,
                     created : 0..MaxNow, maxAge : {a \in H!MaxAges : a >= 0}])
    /\ exists \in BOOLEAN /\ mtime \in 0..MaxNow /\ now \in StartNow..MaxNow
    /\ fmode \in [reg : BOOLEAN, woth : BOOLEAN]
    /\ lock \in Procs \cup {NoProc}

\* The key and entry a line of the file stands for.
LineKey(l) == <<l.host, H!MakeExplicitPort("http", l.port)>>
LineEntry(l) == [created |-> l.created, maxAge |-> l.maxAge, incl |-> l.incl]

\* Every policy in a process's store and in the file is one that a
\* Strict-Transport-Security header (or the database at start) gave, field
\* for field: reading, merging and dumping across processes never combine
\* the created, max-age and includeSubDomains of different headers.
PoliciesComeFromHeaders ==
    /\ \A i \in 1..Len(file) : <<LineKey(file[i]), LineEntry(file[i])>> \in seen
    /\ \A p \in Procs, k \in Keys :
          mem[p][k] # NoEntry => <<k, mem[p][k]>> \in seen

\* The specification (section 4.8, persistence): before rewriting the file
\* a save merges what other processes stored, so when every process has
\* saved, every policy with a positive max-age any of them holds is in the
\* file.
NoPolicyLost ==
    (\A p \in Procs : pc[p] = "Done") =>
        \A p \in Procs, k \in Keys :
            mem[p][k] # NoEntry /\ mem[p][k].maxAge > 0 => \E i \in 1..Len(file) : LineKey(file[i]) = k
=============================================================================
