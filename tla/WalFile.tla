-------------------------------- MODULE WalFile -------------------------------
(***************************************************************************)
(* A tenant's log as a file (wal.rs), under the writer that stops on a     *)
(* failed flush (engine/mod.rs) and the rebuild that follows (tenant.rs):  *)
(* header and format upgrade, records written in groups, fsync, torn tails *)
(* and their repair, the swap of a compacted file, crashes at any step.    *)
(*                                                                         *)
(* A file is a sequence of cells.  A record is a length cell and a body    *)
(* cell (payload and CRC); records are numbered in the order they are      *)
(* made, those of the file to start from up to 0.  What was written since  *)
(* the last sync may be on disk after a crash or not, cell by cell: the    *)
(* file may have its length without having the bytes, which then read as   *)
(* zero.  A record's cell that the end of the file cuts short counts as    *)
(* one whose bytes were lost, a header cut short as one that is not there. *)
(* What a record says is Journal's concern.                                *)
(***************************************************************************)
EXTENDS Integers, FiniteSets, SequencesExt

CONSTANTS
    FORMAT_VERSION,     \* the version this binary writes
    Starts,             \* files to start from: [version, records]
    MaxBatch,           \* records in one flush
    MaxRecords, MaxFaults, MaxCrashes, MaxCompactions   \* bounds

NoFile == -1            \* the version of a file that is not there
LEGACY_FORMAT_VERSION == 0

ASSUME WalFileAssumption ==
    /\ FORMAT_VERSION \in Nat \ {0}
    /\ {MaxBatch, MaxRecords, MaxFaults, MaxCrashes, MaxCompactions} \subseteq Nat
    /\ \A s \in Starts : /\ s.version \in NoFile .. FORMAT_VERSION + 1
                         /\ s.records \in 0 .. MaxRecords
                         /\ s.version = NoFile => s.records = 0

VARIABLES
    inodes,     \* files: [data, safe], their cells and those known on disk
    path,       \* which of them the log's name means, 0 when there is none
    named,      \* which one it would mean after a crash
    tmp,        \* the staged file, 0 when there is none
    h,          \* the log's handles: the serving engine's and a stopped one's
    next,       \* the number of the next record
    acked,      \* records whose writers were told of success
    sure,       \* those of them that nothing known to be open endangers
    scars,      \* what crashes did to a file beyond losing its last cell
    left        \* how many more faults, crashes, compactions

vars == <<inodes, path, named, tmp, h, next, acked, sure, scars, left>>
files == <<inodes, path, named, tmp>>

-------------------------------------------------------------------------------
(* Cells and what reading them gives.                                      *)

Cell(kind, n) == [kind |-> kind, n |-> n]
Zero == Cell("zero", 0)

write_header == <<Cell("head", FORMAT_VERSION)>>

\* encode_event, of each of them in turn.
Encoded(records) ==
    [k \in 1 .. 2 * Len(records) |->
        IF k % 2 = 1 THEN Cell("len", records[(k + 1) \div 2])
        ELSE Cell("body", records[k \div 2])]

\* Where the records begin and the version that wrote them; a file without
\* the magic is a legacy one.
HasHeader(data) == data # <<>> /\ data[1].kind = "head"
read_header(data) ==
    IF HasHeader(data) THEN [at |-> 1, version |-> data[1].n]
    ELSE [at |-> 0, version |-> LEGACY_FORMAT_VERSION]

IsRecord(data, p) == /\ p + 1 <= Len(data)
                     /\ data[p].kind = "len" /\ data[p + 1] = Cell("body", data[p].n)

\* How many whole records follow the header without a gap.
Whole(data) ==
    LET from == read_header(data).at
    IN  CHOOSE n \in 0 .. Len(data) :
            /\ ~IsRecord(data, from + 2 * n + 1)
            /\ \A k \in 1 .. n : IsRecord(data, from + 2 * k - 1)

ValidLen(data) == read_header(data).at + 2 * Whole(data)

\* Mutant: a record that stops short is taken for a bad one.
TailNever(data, p) == FALSE

\* The bad record that begins at cell p is the last thing in the file: its
\* bytes end early, or the file ends with them.  A zeroed length reads as an
\* empty record, which ends before its own body does; a zeroed header never
\* ends where a record would.
AtTail(data, p) ==
    \/ p = Len(data) /\ ~(p = 1 /\ data[p] = Zero)
    \/ data[p].kind = "len" /\ p + 1 = Len(data)

\* The records of the valid prefix, its length and its version, or a refusal
\* when a newer binary wrote the file, or when something bad is not the last
\* thing in it.
scan(data) ==
    LET head == read_header(data)
        n    == Whole(data)
        good == head.at + 2 * n
    IN  [events  |-> [k \in 1 .. n |-> data[head.at + 2 * k].n],
         valid   |-> good,
         version |-> head.version,
         refused |-> \/ head.version > FORMAT_VERSION
                     \/ good < Len(data) /\ ~AtTail(data, good + 1)]

\* A file that does not exist is about to be made, at the current version.
Missing == [events |-> <<>>, valid |-> 0, version |-> FORMAT_VERSION,
            refused |-> FALSE]

Scanned == IF path = 0 THEN Missing ELSE scan(inodes[path].data)

-------------------------------------------------------------------------------
(* Handles.                                                                *)

Roles == {"live", "old"}

\* known: the records in the engine's memory; batch: those being flushed;
\* crossed: a stopped engine's handle cut the file during a flush or a swap.
Handle(at, stopped) ==
    [at |-> at, ino |-> 0, valid |-> 0, known |-> <<>>, batch |-> <<>>,
     crossed |-> FALSE, stopped |-> stopped]
Down == Handle("down", TRUE)

Set(e, at) == h' = [h EXCEPT ![e].at = at]

\* Mutant: an older file is used as it is.
NeverOutdated(s) == FALSE

Outdated(s) == s.version < FORMAT_VERSION /\ s.valid > 0

\* Wal::open, and Engine::new's replay before it, up to what it decides.
OpenScan(e) ==
    /\ h[e].at = "scan"
    /\ h' = [h EXCEPT
          ![e].at    = IF Scanned.refused THEN "refused"
                       ELSE IF Outdated(Scanned) THEN "upgrade" ELSE "open",
          ![e].valid = Scanned.valid,
          ![e].known = IF h[e].stopped THEN @ ELSE Scanned.events]
    /\ UNCHANGED <<files, next, acked, sure, scars, left>>

\* write_compact_file: a new temp file, written and synced.
Stage(e, records, at) ==
    LET cells == write_header \o Encoded(records)
    IN  /\ inodes' = Append(inodes, [data |-> cells, safe |-> cells])
        /\ tmp' = Len(inodes) + 1
        /\ Set(e, at)
        /\ UNCHANGED <<path, named>>

\* Mutant: the rename is left to the file system.
Unsynced == named

\* What the directory's sync makes of the name.
SyncedName == path

\* swap_temp_into_place, in open: an older file is rewritten before it can
\* take a record.
StageUpgrade(e) ==
    /\ h[e].at = "upgrade"
    /\ Stage(e, Scanned.events, "upgrade_staged")
    /\ UNCHANGED <<next, acked, sure, scars, left>>

RenameUpgrade(e) ==
    /\ h[e].at = "upgrade_staged"
    /\ path' = tmp /\ tmp' = 0
    /\ Set(e, "upgrade_renamed")
    /\ UNCHANGED <<inodes, named>>
    /\ UNCHANGED <<next, acked, sure, scars, left>>

SyncUpgrade(e) ==
    /\ h[e].at = "upgrade_renamed"
    /\ named' = SyncedName
    /\ h' = [h EXCEPT ![e].at = "open", ![e].valid = Len(inodes[path].data)]
    /\ UNCHANGED <<inodes, path, tmp, next, acked, sure, scars, left>>

\* Mutant: a bad tail is left where it is.
KeepTail(data, valid) == data

\* The tail is cut back to the last good record, and that is synced.
CutBack(data, valid) == IF Len(data) > valid THEN SubSeq(data, 1, valid) ELSE data

NeedsHeader(data) == data = <<>>

\* The file is opened or made, and cut back; an empty one gets its header.
OpenFile(e) ==
    /\ h[e].at = "open"
    /\ LET ino  == IF path = 0 THEN Len(inodes) + 1 ELSE path
           old  == IF path = 0 THEN [data |-> <<>>, safe |-> <<>>] ELSE inodes[path]
           kept == CutBack(old.data, h[e].valid)
           file == IF kept = old.data THEN old ELSE [data |-> kept, safe |-> kept]
       IN  /\ inodes' = IF path = 0 THEN Append(inodes, file)
                        ELSE [inodes EXCEPT ![path] = file]
           /\ path' = ino
           /\ h' = [h EXCEPT ![e].ino = ino,
                             ![e].at = IF NeedsHeader(kept) THEN "empty" ELSE "ready",
                             !["live"].crossed = @ \/ kept # old.data]
    /\ UNCHANGED <<named, tmp, next, acked, sure, scars, left>>

WriteHeader(e) ==
    /\ h[e].at = "empty"
    /\ inodes' = [inodes EXCEPT ![h[e].ino].data = @ \o write_header]
    /\ Set(e, "headed")
    /\ UNCHANGED <<path, named, tmp, next, acked, sure, scars, left>>

SyncHeader(e) ==
    /\ h[e].at = "headed"
    /\ inodes' = [inodes EXCEPT ![h[e].ino].safe = inodes[h[e].ino].data]
    /\ Set(e, "ready")
    /\ UNCHANGED <<path, named, tmp, next, acked, sure, scars, left>>

-------------------------------------------------------------------------------
(* The serving engine: groups of records, and compactions.                 *)

Serving == h["live"].at = "ready" /\ ~h["live"].stopped
Batch(n) == [k \in 1 .. n |-> next + k - 1]
Live(at) == [h EXCEPT !["live"].at = at]

\* Writer::stop: the failure is published, then recover opens the file anew
\* to cut it back; the bytes in the buffer are dropped.
Stopped == [h EXCEPT !["live"].at = "scan", !["live"].stopped = TRUE,
                     !["live"].batch = <<>>]

\* append_buffered for each record of a group, and the flush of the buffer;
\* with cells = the whole of it, or less when the write fails.
Write(n, cells) ==
    /\ Serving /\ next + n - 1 <= MaxRecords
    /\ next' = next + n
    /\ inodes' = [inodes EXCEPT ![h["live"].ino].data = @ \o cells]
    /\ UNCHANGED <<path, named, tmp, acked, sure, scars>>

WriteBatch(n) ==
    /\ Write(n, Encoded(Batch(n)))
    /\ h' = [h EXCEPT !["live"].at = "written", !["live"].batch = Batch(n),
                      !["live"].crossed = FALSE]
    /\ UNCHANGED left

WriteFails(n, k) ==
    /\ left.faults > 0 /\ k < Len(Encoded(Batch(n)))
    /\ Write(n, SubSeq(Encoded(Batch(n)), 1, k))
    /\ h' = Stopped
    /\ left' = [left EXCEPT !.faults = @ - 1]

\* Nothing that is under way endangers what the serving engine has flushed:
\* no stopped engine's handle has measured the file and not cut it yet, the
\* engine writes the file that has the log's name, and the name is durable.
Secure == /\ h["old"].at # "open" /\ ~h["live"].crossed
          /\ h["live"].ino = path /\ named = path

\* flush_sync succeeds and the writers are told.
Sync ==
    /\ h["live"].at = "written"
    /\ inodes' = [inodes EXCEPT ![h["live"].ino].safe = inodes[h["live"].ino].data]
    /\ acked' = acked \cup Range(h["live"].batch)
    /\ sure' = IF Secure THEN sure \cup Range(h["live"].batch) ELSE sure
    /\ h' = [h EXCEPT !["live"].at = "ready", !["live"].batch = <<>>,
                      !["live"].known = @ \o h["live"].batch]
    /\ UNCHANGED <<path, named, tmp, next, scars, left>>

\* The bytes are in the file and nobody knows whether they are on disk.
SyncFails ==
    /\ h["live"].at = "written" /\ left.faults > 0
    /\ h' = Stopped
    /\ left' = [left EXCEPT !.faults = @ - 1]
    /\ UNCHANGED <<files, next, acked, sure, scars>>

\* Writer::compact: what the engine knows goes to a temp file, which takes
\* the log's name.
StageCompact ==
    /\ Serving /\ left.compactions > 0
    /\ Stage("live", h["live"].known, "staged")
    /\ left' = [left EXCEPT !.compactions = @ - 1]
    /\ UNCHANGED <<next, acked, sure, scars>>

RenameCompact ==
    /\ h["live"].at = "staged"
    /\ path' = tmp /\ tmp' = 0
    /\ h' = [h EXCEPT !["live"].at = "renamed", !["live"].crossed = FALSE]
    /\ UNCHANGED <<inodes, named>>
    /\ UNCHANGED <<next, acked, sure, scars, left>>

SyncName ==
    /\ h["live"].at = "renamed"
    /\ named' = SyncedName
    /\ Set("live", "synced")
    /\ UNCHANGED <<inodes, path, tmp, next, acked, sure, scars, left>>

Reopen ==
    /\ h["live"].at = "synced"
    /\ h' = [h EXCEPT !["live"].at = "ready", !["live"].ino = path]
    /\ sure' = IF h["old"].at = "open" \/ h["live"].crossed THEN sure
               ELSE sure \cup (acked \cap Range(h["live"].known))
    /\ UNCHANGED <<files, next, acked, scars, left>>

\* A step of the swap fails: the engine goes on with the file it has open,
\* which after the rename is no longer the log.
CompactFails ==
    /\ h["live"].at \in {"staged", "renamed", "synced"} /\ left.faults > 0
    /\ Set("live", "ready")
    /\ left' = [left EXCEPT !.faults = @ - 1]
    /\ UNCHANGED <<files, next, acked, sure, scars>>

-------------------------------------------------------------------------------
(* Rebuilds and crashes.                                                   *)

Recovering(e) == h[e].at \in {"scan", "open"}

\* Bound: of the engines that were stopped one at a time is not done with its
\* file when the next is built.
OneRecovers == ~(Recovering("live") /\ Recovering("old"))

\* get_or_create on a stopped tenant, which does not ask whether the stopped
\* engine's writer is done with the file.
Rebuild ==
    /\ h["live"].stopped /\ OneRecovers
    /\ h' = [e \in Roles |->
                IF e = "live" THEN Handle("scan", FALSE)
                ELSE IF Recovering("live") THEN h["live"] ELSE h["old"]]
    /\ UNCHANGED <<files, next, acked, sure, scars, left>>

\* What a crash may leave of a file.
Outcomes(file) ==
    LET n == Len(file.safe)
    IN  UNION {{[k \in 1 .. m |-> IF k \in lost THEN Zero ELSE file.data[k]] :
                    lost \in SUBSET (n + 1 .. m)} : m \in n .. Len(file.data)}

\* What a crash can do to a file beyond losing its last cell: lose a cell in
\* front of one that it keeps; or keep the length of a record, or more, of
\* which it keeps nothing, the file's header included.
Hole(data)  == \E i, j \in DOMAIN data : i < j /\ data[i] = Zero /\ data[j] # Zero
Blank(data) == /\ data # <<>> /\ data[Len(data)] = Zero
               /\ Len(data) = 1 \/ data[Len(data) - 1] = Zero
ScarsOf(data) == (IF Hole(data) THEN {"hole"} ELSE {})
                    \cup (IF Blank(data) THEN {"blank"} ELSE {})

Restart(disk) ==
    /\ inodes' = disk
    /\ path' = Len(disk) /\ named' = Len(disk)
    /\ tmp' = 0
    /\ h' = [e \in Roles |-> IF e = "live" THEN Handle("scan", FALSE) ELSE Down]
    /\ scars' = scars \cup UNION {ScarsOf(disk[k].data) : k \in DOMAIN disk}
    /\ left' = [left EXCEPT !.crashes = @ - 1]
    /\ UNCHANGED <<next, acked, sure>>

\* Power is lost: the name means what it meant or what it last became.
Crash ==
    /\ left.crashes > 0
    /\ \E ino \in {path, named} :
          \/ ino = 0 /\ Restart(<<>>)
          \/ ino # 0 /\ \E data \in Outcomes(inodes[ino]) :
                            Restart(<<[data |-> data, safe |-> data]>>)

StartFile(s) ==
    LET records == [k \in 1 .. s.records |-> k - s.records]
    IN  (IF s.version = LEGACY_FORMAT_VERSION THEN <<>>
         ELSE <<Cell("head", s.version)>>) \o Encoded(records)

Init == \E s \in Starts :
    /\ inodes = IF s.version = NoFile THEN <<>>
                ELSE <<[data |-> StartFile(s), safe |-> StartFile(s)]>>
    /\ path = Len(inodes) /\ named = path /\ tmp = 0
    /\ h = [e \in Roles |-> IF e = "live" THEN Handle("scan", FALSE) ELSE Down]
    /\ next = 1
    /\ acked = 1 - s.records .. 0 /\ sure = acked
    /\ scars = {}
    /\ left = [faults |-> MaxFaults, crashes |-> MaxCrashes,
               compactions |-> MaxCompactions]

OpenStep(e) == \/ OpenScan(e) \/ OpenFile(e) \/ WriteHeader(e) \/ SyncHeader(e)
               \/ StageUpgrade(e) \/ RenameUpgrade(e) \/ SyncUpgrade(e)

Next == \/ \E e \in Roles : OpenStep(e)
        \/ \E n \in 1 .. MaxBatch : \/ WriteBatch(n)
                                   \/ \E k \in 0 .. 2 * MaxBatch : WriteFails(n, k)
        \/ Sync \/ SyncFails
        \/ StageCompact \/ RenameCompact \/ SyncName \/ Reopen \/ CompactFails
        \/ Rebuild
        \/ Crash

Spec == Init /\ [][Next]_vars

-------------------------------------------------------------------------------
(* Properties.                                                             *)

\* The records that the file now has: all that are whole when it is refused,
\* since nothing is cut then.
AllWhole(data) ==
    LET at == SelectSeq([p \in DOMAIN data |-> p], LAMBDA p : IsRecord(data, p))
    IN  [k \in DOMAIN at |-> data[at[k]].n]
OnDisk == LET found == Scanned IN
          IF found.refused THEN AllWhole(inodes[path].data) ELSE found.events

\* wal.rs promises what DurableLog says: whatever flushes fail, tails tear,
\* files are swapped or upgraded and crashes come in between, a record that
\* was acknowledged while nothing endangered it is found by every later
\* replay, in its place.
Log == INSTANCE DurableLog WITH log <- OnDisk, sure <- sure
ImplementsDurableLog == Log!Spec

\* open's reason to cut the tail: an engine that serves has a file on which
\* replay reaches the end, so that what it appends will be read.
AppendsAreRead ==
    Serving /\ h["live"].ino = path =>
        LET data == inodes[path].data IN ValidLen(data) = Len(data)

\* open upgrades an older file before it takes a record: no file has both an
\* older version and a record of this binary, in any crash.
NeverMixed ==
    \A k \in DOMAIN inodes :
        LET data == inodes[k].data
        IN  read_header(data).version < FORMAT_VERSION =>
               \A c \in Range(data) : c.n <= 0 \/ c.kind = "head"

\* A record that a crash or a failed write cut short, or whose bytes it lost
\* behind its length, never locks a tenant out: open refuses a newer binary's
\* file, one with a hole, and one that ends in the blank length of a record or
\* more, which scan takes for an empty record with more data behind it.
NewerFile == path # 0 /\ read_header(inodes[path].data).version > FORMAT_VERSION
ShortTailsOpen ==
    (\E e \in Roles : h[e].at = "refused") =>
        NewerFile \/ "hole" \in scars \/ "blank" \in scars
===============================================================================
