-------------------------------- MODULE Journal -------------------------------
(***************************************************************************)
(* How a tenant's changes become durable (engine/mod.rs, the persisting    *)
(* half of engine/mutations.rs, tenant.rs): callers change memory and      *)
(* queue records, one writer task flushes them in groups, a compactor      *)
(* replaces the log by a snapshot while both go on, a failed flush stops   *)
(* the tenant until it is rebuilt, and a crash may come at any time.       *)
(*                                                                         *)
(* What a change does to a timeline is modules Timeline and Calendar; here *)
(* an interval is an id with a value (its span and kind), a resource a     *)
(* shape and its intervals.  An id may be on a list twice, as insert_      *)
(* interval allows: that is how a change applied twice would show.  A      *)
(* record is a sequence of changes: one, or for HoldsCommitted a removal   *)
(* and an addition for each hold.                                          *)
(*                                                                         *)
(* The lists of the entity index and of children are not here, so deleting *)
(* and creating one resource again is left out (NeverAgain).               *)
(***************************************************************************)
EXTENDS Integers, FiniteSets, SequencesExt

CONSTANTS
    Resources, Ids,
    Tasks,            \* callers
    Requests,         \* what they ask: [kind, records]
    InitialStore,     \* the contents the log starts with
    PastIds,          \* intervals the garbage collector may drop
    ReuseIds,         \* whether callers use a removed interval's id again
    QuietTopology,    \* whether creates and deletes keep clear of compactions
    MaxCalls, MaxCompactions, MaxFaults, MaxCrashes  \* bounds

RequestKinds == {"allocate", "commit", "free", "rule", "reshape",
                 "create", "delete"}
ChangeOps    == {"create", "delete", "reshape", "add", "update", "remove"}

ASSUME JournalAssumption ==
    /\ ReuseIds \in BOOLEAN /\ QuietTopology \in BOOLEAN
    /\ {MaxCalls, MaxCompactions, MaxFaults, MaxCrashes} \subseteq Nat
    /\ IsFiniteSet(Resources) /\ IsFiniteSet(Ids)

IsList(s) == s \in Seq(Range(s))

\* A log is a list of records, a record a list of changes.
IsChange(c)    == c.op \in ChangeOps /\ c.res \in Resources
IsRecord(rec)  == IsList(rec) /\ \A n \in DOMAIN rec : IsChange(rec[n])
IsLog(records) == IsList(records) /\ \A k \in DOMAIN records : IsRecord(records[k])

\* A store is a table of resources, each with a list for every id.
IsStore(store) ==
    /\ DOMAIN store \subseteq Resources
    /\ store = [r \in DOMAIN store |-> [shape |-> store[r].shape, iv |-> store[r].iv]]
    /\ \A r \in DOMAIN store : /\ store[r].iv = [i \in Ids |-> store[r].iv[i]]
                               /\ \A i \in Ids : IsList(store[r].iv[i])

ASSUME ContentsAssumption ==
    /\ IsStore(InitialStore)
    /\ \A q \in Requests :
          /\ q.kind \in RequestKinds
          /\ IsLog(q.records) /\ q.records # <<>>
          /\ \A k \in DOMAIN q.records : q.records[k] # <<>>

VARIABLES
    file,       \* the log on disk: a sequence of records
    queue,      \* commands on their way to the writer
    writing,    \* commands whose records the writer is flushing
    recording,  \* what the writer kept since CompactBegin, << >> when not
    window,     \* whether the writer is recording
    failed,     \* a flush failed: the tenant is stopped
    mem,        \* the store: a function from the resources that exist
    calls,      \* calls in flight: a function from busy tasks
    compactor,  \* [at, todo, snap]: where compact_wal is
    spent,      \* ids and resources introduced so far
    left        \* how many more calls, compactions, faults, crashes

vars == <<file, queue, writing, recording, window, failed, mem, calls,
          compactor, spent, left>>

-------------------------------------------------------------------------------
(* Changes, records and what replaying them builds.                        *)

Change(op, r, i, val) == [op |-> op, res |-> r, id |-> i, val |-> val]

NoIntervals == [i \in Ids |-> <<>>]

\* apply_event and the replay loop.  A removal takes the first with the id,
\* an update takes it and inserts the new one, a create starts afresh.
Apply(store, c) ==
    CASE c.op = "create" ->
            [r \in DOMAIN store \cup {c.res} |->
                IF r = c.res THEN [shape |-> c.val, iv |-> NoIntervals]
                ELSE store[r]]
      [] c.op = "delete" -> [r \in DOMAIN store \ {c.res} |-> store[r]]
      [] c.op \in {"reshape", "add", "update", "remove"}
            /\ c.res \notin DOMAIN store -> store
      [] c.op = "reshape" /\ c.res \in DOMAIN store ->
            [store EXCEPT ![c.res].shape = c.val]
      [] c.op = "add" /\ c.res \in DOMAIN store ->
            [store EXCEPT ![c.res].iv[c.id] = Append(@, c.val)]
      [] c.op = "update" /\ c.res \in DOMAIN store ->
            [store EXCEPT ![c.res].iv[c.id] =
                Append(IF @ = <<>> THEN @ ELSE Tail(@), c.val)]
      [] c.op = "remove" /\ c.res \in DOMAIN store ->
            [store EXCEPT ![c.res].iv[c.id] = IF @ = <<>> THEN @ ELSE Tail(@)]

\* The changes of a sequence of records, in order (Event::per_resource).
Changes(records) == FlattenSeq(records)

ApplyRecord(store, record) ==
    LET after[n \in 0 .. Len(record)] ==
            IF n = 0 THEN store ELSE Apply(after[n - 1], record[n])
    IN  after[Len(record)]

ApplyAll(store, records) ==
    LET after[n \in 0 .. Len(records)] ==
            IF n = 0 THEN store ELSE ApplyRecord(after[n - 1], records[n])
    IN  after[Len(records)]

Replay(records) == ApplyAll([r \in {} |-> 0], records)

\* Some order of the intervals.
IdOrder == SetToSeq(Ids)

\* The events compact_wal writes for a snapshot: each resource, then its
\* intervals.
SnapshotRecords(snap) ==
    LET Intervals(r) ==
          FlattenSeq([k \in DOMAIN IdOrder |->
             [n \in DOMAIN snap[r].iv[IdOrder[k]] |->
                <<Change("add", r, IdOrder[k], snap[r].iv[IdOrder[k]][n])>>]])
        rs == SetToSeq(DOMAIN snap)
    IN  FlattenSeq([k \in DOMAIN rs |->
            << <<Change("create", rs[k], rs[k], snap[rs[k]].shape)>> >>
            \o Intervals(rs[k])])

\* added_id: what a change introduces.
Introduces(c) == c.op \in {"create", "add"}
AddedIds(records) == {c.id : c \in {d \in Range(Changes(records)) : Introduces(d)}}

Duplicate(c, snapshot) == Introduces(c) /\ c.id \in AddedIds(snapshot)

\* Mutants: a recorded commit is carried over whole; a record is dropped whole.
MergeUnexpanded(snapshot, recorded) ==
    snapshot \o SelectSeq(recorded, LAMBDA rec :
                    Len(rec) > 1 \/ ~Duplicate(rec[1], snapshot))
MergeWholeRecords(snapshot, recorded) ==
    snapshot \o SelectSeq(recorded, LAMBDA rec :
                    \A k \in DOMAIN rec : ~Duplicate(rec[k], snapshot))

\* Snapshot, then what was recorded, one change a record, less the additions
\* that the snapshot has.
MergeRecorded(snapshot, recorded) ==
    LET all == Changes(recorded)
    IN  snapshot \o FlattenSeq([k \in DOMAIN all |->
            IF Duplicate(all[k], snapshot) THEN <<>> ELSE << <<all[k]>> >>])

-------------------------------------------------------------------------------
(* Calls: a lock, a check, a record in the queue, an apply.                *)

RecordsOf(commands) ==
    FlattenSeq([k \in DOMAIN commands |-> commands[k].records])

ChangesOf(q) == Range(Changes(q.records))
Touches(q)   == {c.res : c \in ChangesOf(q)}

Interval(c) == c.op \in {"add", "update", "remove"}

\* Mutant: nobody waits for the flush.
AlwaysEarly(q) == TRUE

\* place_hold, confirm_booking, their batches and commit_holds.
Takes(q) == q.kind \in {"allocate", "commit"}

\* persist_early is for what only takes time away; everything else waits for
\* its flush with the lock held.
Early(q) == Takes(q)

\* create_resource and delete_resource hold topology_lock, no resource lock.
Topology(q) == q.kind \in {"create", "delete"}

Busy == DOMAIN calls

\* Mutant: the guards go as soon as the record is queued.
LocksUntilQueued(t) ==
    IF Topology(calls[t].req) \/ calls[t].at # "locked" THEN {}
    ELSE Touches(calls[t].req)

Locks(t) == IF Topology(calls[t].req) \/ calls[t].at = "applied" THEN {}
            ELSE Touches(calls[t].req)
Locked(r) == \E t \in Busy : r \in Locks(t)

\* A topology request is one change and the others have none; a request
\* introduces no id that is elsewhere in it (reject_repeats); and no resource
\* has an interval's id: clients draw them as Ulids, nothing compares the two.
ASSUME RequestsAssumption ==
    /\ Ids \cap Resources = {}
    /\ \A q \in Requests :
          /\ Topology(q) => \E c \in ChangesOf(q) : /\ q.records = << <<c>> >>
                                                   /\ c.op = q.kind /\ c.id = c.res
          /\ \A c \in ChangesOf(q) : /\ c.op \in {"create", "delete"} => Topology(q)
                                     /\ Interval(c) => c.id \in Ids
          /\ LET all == Changes(q.records)
             IN  \A k, n \in DOMAIN all :
                    all[k].op = "add" /\ Interval(all[n]) /\ all[n].id = all[k].id
                        => n = k

\* The log starts without an interval on two lists, or twice on one.
ASSUME StartAssumption ==
    \A r, s \in DOMAIN InitialStore, i \in Ids :
        InitialStore[r].iv[i] # <<>> =>
            /\ Len(InitialStore[r].iv[i]) = 1
            /\ InitialStore[s].iv[i] # <<>> => s = r

\* What only takes time away removes an interval for another one with its span,
\* in one record (commit_holds with a hold), and nothing changes a hold's span.
Replaced == {c \in UNION {ChangesOf(q) : q \in {p \in Requests : Takes(p)}} :
                c.op # "add"}
ASSUME ReplacedAssumption ==
    /\ \A c \in Replaced :
          /\ c.op = "remove"
          /\ \A q \in Requests : \A d \in ChangesOf(q) :
                Interval(d) /\ d.id = c.id => d.op # "update" /\ d.val = c.val
          /\ \A r \in DOMAIN InitialStore :
                Range(InitialStore[r].iv[c.id]) \subseteq {c.val}
    /\ \A q \in Requests : Takes(q) =>
          \A rec \in Range(q.records) : \A c \in Range(rec) \cap Replaced :
             \E d \in Range(rec) :
                /\ d.op = "add" /\ d.res = c.res /\ d.val = c.val
                /\ d.id \in PastIds => c.id \in PastIds

Claimed(i) == \E r \in DOMAIN mem : mem[r].iv[i] # <<>>

\* The checks under the lock, on the change's resource and id.
Valid(c) ==
    CASE c.op = "create" -> c.res \notin DOMAIN mem
      [] c.op \in {"delete", "reshape"} -> c.res \in DOMAIN mem
      [] c.op = "add" -> c.res \in DOMAIN mem /\ ~Claimed(c.id)
      [] c.op \in {"update", "remove"} ->
            c.res \in DOMAIN mem /\ mem[c.res].iv[c.id] # <<>>

\* Creates and deletes may be kept apart from compactions, which lose track of
\* one that is under way (CompactionKeepsMeaning does not hold then).
KeepsClear(q) ==
    QuietTopology /\ Topology(q) => compactor.at = "idle"
NoneUnderWay ==
    QuietTopology => \A t \in Busy : ~Topology(calls[t].req)

\* Callers give every resource, and unless ReuseIds every interval, an id
\* that nothing has had before.
NeverAgain(c) ==
    /\ c.op = "create" => c.res \notin spent
    /\ c.op = "add" => ReuseIds \/ c.id \notin spent

Begin(t, q) ==
    /\ t \notin Busy
    /\ left.calls > 0
    /\ \A r \in Touches(q) : ~Locked(r)
    /\ Topology(q) => \A u \in Busy : ~Topology(calls[u].req)
    /\ KeepsClear(q)
    /\ \A c \in ChangesOf(q) : Valid(c) /\ NeverAgain(c)
    /\ calls' = [u \in Busy \cup {t} |->
                    IF u = t THEN [req |-> q, at |-> "locked", answer |-> "none"]
                    ELSE calls[u]]
    /\ spent' = spent \cup {c.id : c \in {d \in ChangesOf(q) : Introduces(d)}}
    /\ left' = [left EXCEPT !.calls = @ - 1]
    /\ UNCHANGED <<file, queue, writing, recording, window, failed, mem,
                   compactor>>

End(t) == calls' = [u \in Busy \ {t} |-> calls[u]]

\* queue: one record joins the group commit, several are flushed by themselves.
Enqueue(t) ==
    /\ t \in Busy /\ calls[t].at = "locked"
    /\ IF failed
       THEN End(t) /\ UNCHANGED queue
       ELSE /\ queue' = Append(queue,
                  [cmd |-> IF Len(calls[t].req.records) = 1 THEN "Append"
                           ELSE "AppendAtomic",
                   records |-> calls[t].req.records, task |-> t])
            /\ calls' = [calls EXCEPT ![t].at = "queued"]
    /\ UNCHANGED <<file, writing, recording, window, failed, mem, compactor,
                   spent, left>>

\* persist_early: apply under the locks, let them go, then wait.
ApplyEarly(t) ==
    /\ t \in Busy /\ calls[t].at = "queued" /\ Early(calls[t].req)
    /\ mem' = ApplyAll(mem, calls[t].req.records)
    /\ calls' = [calls EXCEPT ![t].at = "applied"]
    /\ UNCHANGED <<file, queue, writing, recording, window, failed, compactor,
                   spent, left>>

\* Mutant: nobody waits for the outcome.
AnsweredAnyhow(t) == TRUE

Answered(t) == calls[t].answer # "none"

\* The flush's outcome reaches the caller.  persist_and_apply, create_ and
\* delete_resource apply only now, and only what is durable.
Return(t) ==
    /\ t \in Busy /\ Answered(t)
    /\ \/ /\ calls[t].at = "applied"
          /\ UNCHANGED mem
       \/ /\ calls[t].at = "queued" /\ ~Early(calls[t].req)
          /\ mem' = IF calls[t].answer = "ok"
                    THEN ApplyAll(mem, calls[t].req.records) ELSE mem
    /\ End(t)
    /\ UNCHANGED <<file, queue, writing, recording, window, failed, compactor,
                   spent, left>>

-------------------------------------------------------------------------------
(* The writer task.                                                        *)

\* Mutant: a refused command is dropped with its caller's channel.
AnswerOnlySuccess(commands, outcome) ==
    IF outcome # "ok" THEN UNCHANGED calls
    ELSE calls' = [t \in Busy |->
             IF \E k \in DOMAIN commands : commands[k].task = t
             THEN [calls[t] EXCEPT !.answer = outcome] ELSE calls[t]]

Answer(commands, outcome) ==
    calls' = [t \in Busy |->
        IF \E k \in DOMAIN commands : commands[k].task = t
        THEN [calls[t] EXCEPT !.answer = outcome] ELSE calls[t]]

\* The appends at the head of the queue, or one command of another kind.
BatchLength ==
    IF Head(queue).cmd = "AppendAtomic" THEN 1
    ELSE Max({n \in 1 .. Len(queue) : \A k \in 1 .. n : queue[k].cmd = "Append"})

Writes(command) == command.cmd \in {"Append", "AppendAtomic"}

TakeBatch ==
    /\ writing = <<>> /\ queue # <<>> /\ Writes(Head(queue))
    /\ queue' = SubSeq(queue, BatchLength + 1, Len(queue))
    /\ IF failed
       THEN /\ Answer(SubSeq(queue, 1, BatchLength), "err")
            /\ UNCHANGED writing
       ELSE /\ writing' = SubSeq(queue, 1, BatchLength)
            /\ UNCHANGED calls
    /\ UNCHANGED <<file, recording, window, failed, mem, compactor, spent, left>>

FlushOk ==
    /\ writing # <<>>
    /\ file' = file \o RecordsOf(writing)
    /\ recording' = IF window THEN recording \o RecordsOf(writing) ELSE recording
    /\ Answer(writing, "ok")
    /\ writing' = <<>>
    /\ UNCHANGED <<queue, window, failed, mem, compactor, spent, left>>

\* A write or the fsync fails: the records whose bytes are whole stay, the
\* torn one is cut off (stop, recover), and the callers are told of an error.
FlushFail(kept) ==
    /\ writing # <<>> /\ left.faults > 0
    /\ kept \in Prefixes(RecordsOf(writing))
    /\ file' = file \o kept
    /\ failed' = TRUE
    /\ Answer(writing, "err")
    /\ writing' = <<>>
    /\ left' = [left EXCEPT !.faults = @ - 1]
    /\ UNCHANGED <<queue, recording, window, mem, compactor, spent>>

\* Mutant: a stopped tenant's compactor is left waiting.
ReplyUnlessStopped(at) == IF failed THEN UNCHANGED compactor
                          ELSE compactor' = [compactor EXCEPT !.at = at]

Reply(at) == compactor' = [compactor EXCEPT !.at = at]

HandleBegin ==
    /\ writing = <<>> /\ queue # <<>> /\ Head(queue).cmd = "CompactBegin"
    /\ queue' = Tail(queue)
    /\ recording' = <<>> /\ window' = TRUE
    /\ Reply("listing")
    /\ UNCHANGED <<file, writing, failed, mem, calls, spent, left>>

RefusesCompaction == failed

\* compact: refused once stopped, otherwise the swap or, when writing the new
\* file fails, the old file as it was.
HandleCompact ==
    /\ writing = <<>> /\ queue # <<>> /\ Head(queue).cmd = "Compact"
    /\ queue' = Tail(queue)
    /\ recording' = <<>> /\ window' = FALSE
    /\ Reply("idle")
    /\ \/ /\ RefusesCompaction
          /\ UNCHANGED <<file, left>>
       \/ /\ ~RefusesCompaction
          /\ file' = MergeRecorded(Head(queue).records, recording)
          /\ UNCHANGED left
       \/ /\ ~RefusesCompaction /\ left.faults > 0
          /\ left' = [left EXCEPT !.faults = @ - 1]
          /\ UNCHANGED file
    /\ UNCHANGED <<writing, failed, mem, calls, spent>>

-------------------------------------------------------------------------------
(* The compactor, the collector, and restarts.                             *)

Nothing == [r \in {} |-> 0]

Compactor(at, todo, snap) == [at |-> at, todo |-> todo, snap |-> snap]

StartCompact ==
    /\ compactor.at = "idle" /\ left.compactions > 0
    /\ NoneUnderWay
    /\ queue' = Append(queue, [cmd |-> "CompactBegin", records |-> <<>>, task |-> 0])
    /\ compactor' = Compactor("begun", {}, Nothing)
    /\ left' = [left EXCEPT !.compactions = @ - 1]
    /\ UNCHANGED <<file, writing, recording, window, failed, mem, calls, spent>>

ListResources ==
    /\ compactor.at = "listing"
    /\ compactor' = Compactor("copying", DOMAIN mem, Nothing)
    /\ UNCHANGED <<file, queue, writing, recording, window, failed, mem, calls,
                   spent, left>>

\* One resource under its read lock; one that is gone by now is passed over.
SnapshotOne(r) ==
    /\ compactor.at = "copying" /\ r \in compactor.todo
    /\ ~Locked(r)
    /\ compactor' = Compactor("copying", compactor.todo \ {r},
          [s \in DOMAIN compactor.snap \cup ({r} \cap DOMAIN mem) |->
              IF s = r THEN mem[r] ELSE compactor.snap[s]])
    /\ UNCHANGED <<file, queue, writing, recording, window, failed, mem, calls,
                   spent, left>>

SendCompact ==
    /\ compactor.at = "copying" /\ compactor.todo = {}
    /\ queue' = Append(queue, [cmd |-> "Compact", task |-> 0,
                               records |-> SnapshotRecords(compactor.snap)])
    /\ compactor' = Compactor("sent", {}, Nothing)
    /\ UNCHANGED <<file, writing, recording, window, failed, mem, calls, spent,
                   left>>

\* gc_past_intervals drops intervals from memory and logs nothing.
Gc(r) ==
    /\ r \in DOMAIN mem /\ ~Locked(r)
    /\ mem' = [mem EXCEPT ![r].iv =
                  [i \in Ids |-> IF i \in PastIds THEN <<>> ELSE @[i]]]
    /\ UNCHANGED <<file, queue, writing, recording, window, failed, calls,
                   compactor, spent, left>>

\* A new engine on the log: memory replayed, everything in flight gone.
Restart(log) ==
    /\ file' = log
    /\ mem' = Replay(log)
    /\ queue' = <<>> /\ writing' = <<>>
    /\ recording' = <<>> /\ window' = FALSE
    /\ failed' = FALSE
    /\ calls' = Nothing
    /\ compactor' = Compactor("idle", {}, Nothing)
    /\ UNCHANGED spent

\* A crash keeps what was flushed and any whole records of the flush that
\* was under way.
Crash(kept) ==
    /\ left.crashes > 0
    /\ kept \in Prefixes(RecordsOf(writing))
    /\ Restart(file \o kept)
    /\ left' = [left EXCEPT !.crashes = @ - 1]

\* get_or_create on a stopped tenant; calls still out are answered by the old
\* engine, whose memory is gone with it.
Rebuild ==
    /\ failed
    /\ Restart(file)
    /\ UNCHANGED left

Init == /\ file = SnapshotRecords(InitialStore)
        /\ mem = InitialStore
        /\ queue = <<>> /\ writing = <<>>
        /\ recording = <<>> /\ window = FALSE
        /\ failed = FALSE
        /\ calls = Nothing
        /\ compactor = Compactor("idle", {}, Nothing)
        /\ spent = AddedIds(SnapshotRecords(InitialStore))
        /\ left = [calls |-> MaxCalls, compactions |-> MaxCompactions,
                   faults |-> MaxFaults, crashes |-> MaxCrashes]

TaskStep(t) == Enqueue(t) \/ ApplyEarly(t) \/ Return(t)
WriterStep  == TakeBatch \/ FlushOk \/ HandleBegin \/ HandleCompact
CompactStep == ListResources \/ SendCompact \/ \E r \in Resources : SnapshotOne(r)
FaultStep   == \E kept \in Prefixes(RecordsOf(writing)) : FlushFail(kept) \/ Crash(kept)

Next == \/ \E t \in Tasks : TaskStep(t) \/ \E q \in Requests : Begin(t, q)
        \/ WriterStep
        \/ StartCompact \/ CompactStep
        \/ \E r \in Resources : Gc(r)
        \/ FaultStep
        \/ Rebuild

Spec == Init /\ [][Next]_vars

\* Every call runs on, and the writer and the compactor do.  Nobody has to
\* call, crash, fail, compact or come back to a stopped tenant.
FairSpec == /\ Spec
            /\ \A t \in Tasks : WF_vars(TaskStep(t))
            /\ WF_vars(WriterStep)
            /\ WF_vars(CompactStep)

-------------------------------------------------------------------------------
(* Properties.                                                             *)

Waiting(t) == calls[t].at # "locked" /\ calls[t].answer = "none"

\* The parts of the pipeline are well formed, a call in flight is one of the
\* requests, every write on its way belongs to a call that waits for it, and
\* every call that waits has a write on its way: nobody is answered twice, and
\* nobody waits for nothing.
TypeOK ==
    /\ IsStore(mem) /\ IsStore(compactor.snap)
    /\ window \in BOOLEAN /\ failed \in BOOLEAN
    /\ Busy \subseteq Tasks
    /\ \A t \in Busy : /\ calls[t].req \in Requests
                       /\ calls[t].at \in {"locked", "queued", "applied"}
                       /\ calls[t].answer \in {"none", "ok", "err"}
    /\ LET writes == {n \in DOMAIN (writing \o queue) : Writes((writing \o queue)[n])}
           task(n) == (writing \o queue)[n].task
       IN  /\ \A n \in writes : task(n) \in Busy /\ Waiting(task(n))
           /\ \A t \in Busy : Waiting(t) => \E n \in writes : task(n) = t
    /\ compactor.at \in {"idle", "begun", "listing", "copying", "sent"}
    /\ compactor.todo \subseteq Resources

\* A store without what the garbage collector may have dropped from it.
Live(store) == [r \in DOMAIN store |->
    [store[r] EXCEPT !.iv = [i \in Ids \ PastIds |-> @[i]]]]

Meaning(records) == Live(Replay(records))

Reshaping(r) == \E t \in Busy : Topology(calls[t].req) /\ r \in Touches(calls[t].req)
Settled(r)   == ~Locked(r) /\ ~Reshaping(r)

Written(commands) == FlattenSeq([k \in DOMAIN commands |->
    IF Writes(commands[k]) THEN commands[k].records ELSE <<>>])
Pipeline == Written(writing \o queue)

\* Whatever calls, flushes, compactions, collections and restarts have
\* happened: a resource nobody is changing holds in memory exactly what
\* replaying the log and the records on their way to it would build.
MemoryMatchesLog ==
    ~failed =>
        LET logged == Meaning(file \o Pipeline)
        IN  \A r \in Resources : Settled(r) =>
               /\ r \in DOMAIN mem <=> r \in DOMAIN logged
               /\ r \in DOMAIN mem => Live(mem)[r] = logged[r]

\* CompactBegin's promise: swapping in the snapshot and the recording changes
\* nothing that replay would build.  No acknowledged record is erased, none
\* is applied twice, and nothing that was never flushed gets in.
CompactionKeepsMeaning ==
    [][HandleCompact => Meaning(file') = Meaning(file)]_vars

Slots(store, r) == UNION {Range(store[r].iv[i]) : i \in DOMAIN store[r].iv}

\* persist_and_apply's promise: no reader is shown time as free that a crash
\* would take back.  Time taken on disk is taken in memory, too.
NoTimeFreedEarly ==
    ~failed => \A r \in Resources :
        Settled(r) /\ r \in DOMAIN Meaning(file) =>
            r \in DOMAIN mem /\ Slots(Meaning(file), r) \subseteq Slots(Live(mem), r)

Has(store, c) == c.res \in DOMAIN store /\ store[c.res].iv[c.id] # <<>>

\* All of the request's additions are on disk, and then none of the intervals
\* they replace; or none of them is.
AllOrNone(q) ==
    LET disk == Replay(file)
        adds == {c \in ChangesOf(q) : c.op = "add"}
    IN  \/ \A c \in adds : ~Has(disk, c)
        \/ \A c \in ChangesOf(q) : Has(disk, c) <=> c \in adds

\* AVAIL-18: a commit of several holds is on disk whole or not at all, at
\* every point where a crash or a compaction could come.
CommitsAreAtomic == \A q \in Requests : q.kind = "commit" => AllOrNone(q)

\* Every call is answered: the writer answers what it takes, stopped or not,
\* and no lock is held by anyone who waits for another one.
EveryCallAnswered == \A t \in Tasks : t \in Busy ~> t \notin Busy

\* A compaction that was begun ends, on a stopped tenant as well.
CompactionEnds == compactor.at # "idle" ~> compactor.at = "idle"
===============================================================================
