# A TLA+ model of deltat

deltat keeps calendars: tenants hold a tree of resources, a resource has a
capacity, a turnaround (`buffer_after`), opening and closing rules, holds that
expire and bookings that stay. Clients speak the Postgres wire protocol, the
state lives in memory, and a write-ahead log per tenant makes it durable.

This directory models the parts of it in which a mistake would double-book a
resource, lose an acknowledged write or leave somebody waiting, checks them
with TLC on small instances and proves the central promises with TLAPS. Paths
below are relative to the repository (`src/` is its source directory, written
`src/src/` in PROJECT.json).

## 1. The system

| Component | State | Operations | Interacts with |
|---|---|---|---|
| Timeline of a resource: `model.rs`, `engine/{availability,conflict,queries,offer}.rs` | a list of intervals sorted by start, capacity, buffer | insert, remove, update; overlapping, availability, multi-resource availability, admission checks, counter-offers | reads ancestors' rules |
| Calendar operations: `engine/mutations.rs` | the resources of a tenant, each behind an async RwLock; the entity index | place, release, expire and commit holds; book and cancel; batches of each; add, update, remove rules; update resource; GC | ancestors before the guard, the journal under it, reaper beside it |
| Journal: `engine/mod.rs`, `reaper.rs` | the log file, the writer's queue, the recording of a compaction, `wal_failed` | append, atomic append, group commit, stop on failure, CompactBegin/Compact, replay | every writing operation, the compactor |
| Reaper: `reaper.rs`, `collect_expired_holds` | `earliest_hold_expiry`, `hold_generation` | scan, expire | placements, through relaxed atomics and `try_read` |
| Topology: `engine/store.rs`, `engine/mutations.rs` | resource map of shared states, children lists, entity index, one lock each and `topology_lock` | create, delete, claim an id, walk the ancestors, lock a batch | every operation by id |
| WAL file: `wal.rs` | header, length, payload, CRC; the file's name and what of it is on disk | append, sync, cut back, recover, migrate, swap | journal above, a rebuild beside |
| Tenants: `tenant.rs` | map of engines | get or create, rebuild a stopped one | connections, background tasks |
| Notifications: `notify.rs` | a ring of 256 notices for each resource | subscribe, announce | applied changes, connections |
| SQL adapter: `sql.rs`, `command.rs` | none | from a syntax tree to a command or a refusal | connections |
| Connections: `wire.rs`, `main.rs` | session: tenant, prepared statements, subscriptions | query, parse, describe, execute, LISTEN | SQL, engine, notifications |
| Auth, TLS, metrics | none shared with the calendar | compare, handshake, count | |

### What is hard here

PROJECT.json lists each hazard at its line. The families:

* **State read before a lock and used after it.** An allocation walks its
  ancestors' rules one lock at a time before it takes its own guard (C1); the
  reaper collects a list and expires its entries later; `update_rule` resolves
  an id before the guard.
* **The time between a change and its durability.** Some operations apply
  before their flush (`persist_early`: they only take time away), others after
  it with the guard held. A failed flush stops the tenant; a crash keeps some
  prefix of whole records.
* **Compaction under traffic.** A snapshot is taken resource by resource while
  callers write; what they write is recorded and merged without being lost or
  applied twice. GC drops intervals from memory that the log still has.
* **A lower bound kept by relaxed atomics**, with a generation counter that is
  compared and a bound that is stored in two steps.
* **Boundaries.** Half-open spans, turnaround tails, windows that cut
  intervals, capacity 1's separate path, the interval limit, an expiry equal to
  the clock.
* **What a power loss keeps.** Of everything written since the last sync any part
  may be on disk; a rename is durable only with its directory; open must tell a
  torn tail, which it cuts, from damage, which it refuses.
* **A shared state that outlives its resource.** A call fetches a resource's Arc,
  waits for its lock and may get it after the resource was deleted, or made anew.
* **Locks in a tree.** Batches lock several resources, reads walk the ancestors,
  and the lock is fair: a reader queues behind a waiting writer.
* **Two readings of one statement.** Describe announces columns before the
  parameters have values, Execute reads the statement with them; and every
  conjunct, column and value must be used or refused.
* **Answers ahead of acts.** A LISTEN is answered by the handler and carried out
  later by the connection's loop; meanwhile the resource may be deleted and
  created again, and forwarders of its former life may still be draining.

### What makes each component correct

* Timeline: what the sweeps compute is what one would compute instant by
  instant, in every list a history can build.
* Calendar: never more active allocations at an instant than capacity; holds
  end within the server's ceiling; own rules hold at the moment of admission;
  garbage collection frees nothing that still counts.
* Journal: memory is what replaying the log and the queue gives; compaction
  does not change what replay builds; a commit of several holds is on disk whole
  or not at all; no reader is shown free time that a crash would take back;
  every call is answered.
* Reaper: an expired hold is eventually released.
* WAL file: a record that was acknowledged is found by every later replay, in its
  place; what is appended will be read; a record that a crash cut short never locks
  a tenant out.
* Topology: no resource without its parent, in memory or in the log; an id leads
  to what has it; memory is what a restart would make of the log; every call ends.
* SQL and statements: announced columns are the ones sent, rows are those that the
  WHERE clause asks for, every value of a write reaches its field.
* Notifications: a listener can tell a gap from a quiet stream, an answered
  LISTEN is kept, memory per connection and per tenant is bounded, and every
  notice is told or counted as missed in the end.

## 2. The modules

```
Instants   what an interval does at one instant; shared vocabulary
  Sweep      the code's algorithms on sorted lists, as operators
    Timeline   one resource's list under every history; Sweep against Instants
      MCTimeline
  Calendar   callers, reaper and GC on a hierarchy of resources
    MCCalendar
    CalendarProofs
Journal    callers, writer, compactor, faults, crashes
  MCJournal
  JournalProofs
DurableLog what a log promises
  WalFile    the log as a file, shown to implement it
    MCWalFile
    WalFileProofs
Topology   the tree, the entity index, the locks, states that outlive resources
  MCTopology
  TopologyProofs
    IndexProofs
Reaper     the watermark, one atomic operation a step
  MCReaper
  ReaperProofs
Sql        from statements to commands, as operators
  Statements simple and extended queries on them
    MCStatements
Subscriptions  LISTEN, forwarders, rings, and resources that go and come back
  MCSubscriptions
  SubscriptionsProofs
ListFacts  lemmas about sequences and folds over them, for JournalProofs,
           TopologyProofs and IndexProofs
```

The split follows what has to be atomic where. `Timeline` has data and no
concurrency, `Calendar` has concurrency and states admission per instant,
which `Timeline` justifies; `Journal` has neither spans nor capacities, only
ids with values, and `WalFile` only the numbers of its records; `Topology` has
entities without spans and calls that go lock by lock; `Reaper` has nothing but
holds and two counters; `Subscriptions` numbers notices and forgets what they
say; in `Statements` a write is the call it makes.

### Instants and Sweep

`Instants` says when an interval counts at an instant: rules by their span,
allocations by their span and turnaround (`Buffered`), holds while
`expires_at > now` (`Active`). `LoadAt`, `HasRoom` and `BatchLoadAt` are sums
over instants. `Sweep` translates the code: `InsertPositions` and
`InsertAt` (`insert_interval`'s binary search, which may stop at any of
several equal starts), `Overlapping` (`partition_point`), merging,
subtracting, `availability`, the saturation sweep for capacity above 1,
`check_no_conflict` and its form with an exclusion, the batch checks,
`check_rules_admit`, the rule collection, offers and multi-resource
availability.

### Timeline

The variables are the fields of `ResourceState`, the clock and a setting: which
kinds of intervals there are, which shapes, and a chain of ancestors' lists. The
actions are what `apply_event` does to a list. Nothing is assumed about the
list; that its binary searches keep it sorted and lose nothing is part of what
`ReadMatchesInstants` tests (its mutant appends where the code searches).

### Calendar

The variables: `shape` and `iv` (all intervals, by entity id: the entity index
makes an id unique in a tenant), `now`, `alloc` and `ruling` (calls between
their first await and their guard), `due` (the reaper's list).

| Action | Code |
|---|---|
| `BeginAllocate`, `ReadAncestor`, `Admit`, `Refuse` | `place_hold`, `confirm_booking`, `batch_place_holds`, `batch_confirm_bookings` |
| `BeginRule`, `ReadAboveParent`, `CheckParentCoverage`, `WriteRule` | `add_rule`, `update_rule` |
| `RemoveRule`, `ReleaseHold`, `CancelBooking` | the same |
| `CommitHolds` | `commit_hold`, `commit_holds` |
| `UpdateResource` | `update_resource` |
| `CollectExpiredHolds`, `ExpireHold` | `run_reaper`, `expire_hold` |
| `Gc` | `gc_past_intervals` |

One action spans everything the code does under a write guard, the flush that
some operations wait for included: nobody else can see the resource then. A
batch takes the guards of all its resources in sorted order before the first
check, so it is one action as well. The holds of one batch get one expiry here;
the code lets each have its own, which no property tells apart. The clock never
steps back.

### Journal

`file`, `queue`, `writing` (the batch being flushed), `recording` and `window`
(the writer's state between CompactBegin and Compact), `failed` (`wal_failed`),
`mem`, `calls`, `compactor`, and two bookkeeping variables: `spent` (ids used)
and `left` (what the bounds leave). A record is a sequence of changes: one, or
for `HoldsCommitted` a removal and an addition for each hold. An id may be on a
list twice, because the code's `insert_interval` would put it there twice: that
is how a record applied twice shows.

| Action | Code |
|---|---|
| `Begin`, `Enqueue`, `ApplyEarly`, `Return` | `queue`, `persist_early`, `persist_and_apply`, `create_resource`, `delete_resource` |
| `TakeBatch`, `FlushOk`, `FlushFail` | `wal_writer_loop`, `flush_and_respond`, `stop` |
| `HandleBegin`, `HandleCompact` | the writer's `CompactBegin`, `Compact`; `merge_recorded` |
| `StartCompact`, `ListResources`, `SnapshotOne`, `SendCompact` | `compact_wal` |
| `Gc` | `gc_past_intervals`, which logs nothing |
| `Crash`, `Rebuild` | replay of the log in a new process, and in `get_or_create` |

A failed flush or a crash leaves any prefix of whole records of the batch in
flight: `Wal` cuts torn ones off. So a batch of bookings, which is several
records, can be torn by a crash; a commit, which is one, cannot.

### WalFile and DurableLog

A file is a sequence of cells: the header, and for each record its length and its
body (payload and CRC). `inodes` keeps each file's cells and the ones known to be
on disk, `path` and `named` which file the log's name means now and would mean
after a power loss, `tmp` the staged file, `h` the handles of the serving engine
(`live`) and of a stopped one that is still recovering (`old`).

| Action | Code |
|---|---|
| `OpenScan`, `StageUpgrade`, `RenameUpgrade`, `SyncUpgrade`, `OpenFile`, `WriteHeader`, `SyncHeader` | `Wal::open` with `scan`, `write_compact_file`, `swap_temp_into_place`; also `recover`, which opens again |
| `WriteBatch`, `WriteFails`, `Sync`, `SyncFails` | `append_and_sync`; a failure is `Writer::stop` |
| `StageCompact`, `RenameCompact`, `SyncName`, `Reopen`, `CompactFails` | `Writer::compact`, `swap_compact_file` |
| `Rebuild` | `get_or_create` on a stopped tenant |
| `Crash` | a power loss: unsynced cells are kept, zeroed or cut off, in any combination, and the name may be the former one |

A zeroed cell reads as the code reads zeros: a length of 0 with a CRC of 0, which is
that of an empty payload, and so a record that does not decode and ends eight bytes
on. As the last cell, be it a length or the body of the length in front of it, it is
a torn tail; a zeroed length with a body behind it, zeroed or not, is a bad record
with more data behind it. The ghost `scars` names what a crash did to a file beyond losing its
last cell: a "hole" is a lost cell in front of a kept one, a "blank" an end that has
the length of a record or more, or of the header, and none of the bytes.

`DurableLog` has the records a reader finds (`log`) and those that stay (`sure`):
records become sure; or records are added and some that are not sure vanish, and
the others keep their order (a crash that brings back the file of before a swap adds
and takes away in one step). The refinement maps
`log` to what `scan` makes of the file (all whole records when it is refused, as
nothing is cut then) and `sure` to the acknowledged records that were synced while
`Secure`: the stopped engine's handle has no cut outstanding, the engine writes
the file that has the log's name, and the name is durable. `Secure` is the
exception, and each of its parts stands for something the code does not keep
(findings 7 and 8, and the directory that is not synced when a file is made).

### Topology

`resources` leads to `arcs`, every state there ever was; `children`, `entity` are
the indexes; `topology` and `lock` are the queues of `topology_lock` and of each
state's RwLock (tokio's, fair: `Granted` is the front of the queue, or a run of
readers at it); `call` is where each caller is; `log` the records.

| Action | Code |
|---|---|
| `AskTopology`, `CheckCreate`, `AppendShape`, `InsertResource` | `create_resource` |
| `CheckDelete`, `Unmap`, `AppendShape`, `RemoveResource` | `delete_resource` |
| `StartAdd`, `StartBatch`, `StartRemove`, `StartCommit`, `StartRead` | the entity operations up to their first lock; ids resolved through the index |
| `Visit`, `Visited` | the ancestor walk of `collect_inherited_rules`, one read lock at a time; a read has fetched its own state before it and takes that guard last (`NextToRead`) |
| `Lock`, `Locked` | `lock_resources`, in ascending order |
| `Check`, `QueueRecords`, `ApplyRecords`, `ReadEnds` | checks under the guards, `queue`, `persist_and_apply`, the end of a read |
| `Restart` | a crash at any step and `Engine::with_clock` on the log |

Records are durable once they are queued; lost tails and compactions are
`Journal`'s. Ghosts: `stale` (ids whose record was queued under the guard of a
state that a delete had reached, or that replay left in the index) and `twice` (ids that two calls
claimed at once, or that were given out while the delete that unmapped them was
not durable).

### Sql and Statements

`Sql` starts from the syntax tree that sqlparser makes (external): a statement is
its kind, table, clauses, conditions, columns, rows and assignments; a literal is
its form (string, number, negated number, flag, NULL, placeholder) and what it
spells. `Accepts` is the conjunction of the code's refusals, `parse_sql` the
command. The order of refusals does not show, since all are one error to the client.

| Action | Code |
|---|---|
| `Query` | simple `do_query`, several statements in one text |
| `Parse`, `Describe`, `Execute` | `DeltaTQueryParser`, `do_describe_statement`, extended `do_query` with `substitute_params` |

`schema_for_sql` reads the text with its placeholders, `execute_command` the text
in which bound values have become quoted strings. The scan for placeholders is one
of characters, so those within quoted texts (a literal of the form 'N$N') and within
comments count as parameters too. Bound within a quoted text, NULL is a word and any
other value ends the text with its own quotes, and what it spells is read as SQL
(`CutOff`): a value that spells a condition and begins a comment takes the place of
the conditions behind it, a number or an id leaves a text that does not parse. Values
that spell other SQL, and values bound within a comment that end it, are left out;
a name in quotes with a placeholder in it is no table, column or channel of the
grammar and is refused before and after. Reads of rows are answered from
a fixed database; an availability read is the question it asks.

### Reaper

`watermark`, `generation`, the placements in flight and where the reaper is in
its cycle. Every atomic load, store and `try_read` is a step. `overtaken` is
ghost state: the holds whose lowering of the watermark a scan overwrote between
its second look at the generation and its store. The relaxed operations are
taken to be sequentially consistent on each variable, and in program order; a
weaker order would add to what `overtaken` describes, not take away from it.
A batch placement is a placement for each hold here.

### Subscriptions

`alive` and `topology` are the engine's side (the resources, and the create or
delete between its steps), `channels` and `hub` are `NotifyHub`, `listening` is
the handler's set, `commands`, `joining`, `forwarders` and `outbox` belong to the
connection's loop, `tasks` are the forwarders ever spawned. A notice is its
number on its channel, so a receiver is a position and a hole is a difference.
The broadcast ring and the queue are tokio's, modelled from how they are used.

| Action | Code |
|---|---|
| `Announce`, `PublishTopology` | `publish`, `NotifyHub::send` |
| `CreateInsert`, `DeleteRemove`, `Reclaim` | the ends of `create_resource` and `delete_resource`; `NotifyHub::remove` |
| `Listen`, `Unlisten`, `UnlistenAll` | the statements, answered at once |
| `HandleSubscribe`, `JoinHub`, `HandleUnsubscribe`, `HandleUnsubscribeAll` | the loop's `SubscriptionCommand` arms |
| `Deliver`, `Disconnect` | the loop's notification arm; its end, which aborts the forwarders |
| `Recv`, `Send` | `forward_resource_events` |

`Subscribe` is two actions, because a delete on another thread can fall between
its existence check and `notify.subscribe`. Ghosts: `heard` (what the client can
account for), `acked` (answered LISTENs on the present life of a resource),
`haunted` (some resource came back while the connection still had a command or an
unfinished forwarder for it), `leaked` (channels made for a resource deleted
between those two actions).

## 3. What the runs check

| Run | Checks | Shows |
|---|---|---|
| `timeline` | `ReadMatchesInstants`, `RulesMatchInstants`, `OffersAreAdmissible`, `MultiMatchesInstants`, `AdmissionMatchesInstants`, `BatchMatchesInstants` | reads, rule checks, offers, multi-resource reads, conflict and batch checks decide as the per-instant definitions do, expired holds included |
| `calendar_alloc` | `StepKeepsCapacity`, `GcFreesOnlyThePast`, `HoldExpiryCapped`, `IntervalsBounded`, `TypeOK` | no step takes an instant past capacity while the shape stays, even beside reshaping, reaping and GC |
| `calendar_rules` | `AdmittedByOwnRules`, `NeverDoubleBook` | rules written while an ancestor walk is under way; batches across two resources, commits of single holds |
| `calendar_revive` | `NeverDoubleBook`, violated | finding 1 |
| `journal_commit` | `MemoryMatchesLog`, `NoTimeFreedEarly`, `CommitsAreAtomic`, `CompactionKeepsMeaning`, `TypeOK` | a two-resource commit beside bookings, cancellations, releases and a third resource created, booked on and deleted, with a compaction, a fault and a crash anywhere |
| `journal_rules` | `EveryCallAnswered`, `CompactionEnds` | batches, rules, reshaping and unlogged GC under the same faults: everybody gets an answer |
| `journal_erased` | `CompactionKeepsMeaning`, violated | finding 2 |
| `reaper_watch` | `MissedOnlyWhenOvertaken`, `ExpiredHoldsReaped` | which holds the generation counter protects, and that they are reaped; finding 3 |
| `subscriptions` | `NoSilentGap`, `AckedUnlessHaunted`, `ChannelsReclaimed`, `EveryNoticeAccounted`, `TypeOK` | streams with a ring and a queue of one, while the resource is changed, deleted and created again; finding 4 |
| `statements` | `AnnouncedIsSent`, `ReadsAnswerTheWhere`, `AvailabilityAsksTheWhere`, `WritesKeepEveryValue` | statements of every kind, plain and prepared; findings 5, 6 and 13 |
| `wal_file` | `AppendsAreRead`, `NeverMixed`, `ShortTailsOpen`, `ImplementsDurableLog` | files of every version under faults, rebuilds, compactions and power losses; findings 7 to 9 and 12 |
| `topology` | `NoOrphans`, `IndexIsExact`, `MemoryIsReplay`, `EveryCallEnds`, `TypeOK` | two callers that create, delete, place, remove, commit and read, lock by lock, with a restart anywhere; findings 10 and 11 |

Where the code leaves a gap, the property is stated with the exception that
describes it, and holds everywhere else: `overtaken`, `haunted`, `leaked`,
`Repeats` and `PlainInsert`, the changed `Shapes` of `AnnouncedIsSent`, `Secure`,
`scars`, `stale`, `twice`. Each exception is reached in its run; without it the
property fails. A hazard whose own case is such an exception says so in its note.

### Findings

Findings 1 and 2 are runs that end in a violation. The others are the exceptions
of passing runs.

1. **Two lapsed holds committed together.** `commit_holds` checks each hold with
   only itself left out, and an expired hold counts for nothing. A hold
   lapses, another is placed on its time and lapses too; committing both in one
   call finds the span free twice. INV-01 excludes the result.
2. **A resource created while a compaction begins.** `create_resource` flushes its
   record and then inserts the resource. If the flush ends before the writer
   starts recording and the compactor lists the resources before the insert, the
   swap erases the record.
3. **The reaper's check and store.** A hold placed between the comparison of the
   generation and the store of the watermark is not looked for until another
   hold lowers the watermark.
4. **LISTEN on a resource that came back.** A forwarder ends only once it has
   drained its closed channel. If its resource is deleted, created again and
   listened to again before that, the loop finds the old entry and skips the
   Subscribe; the old task then ends, and the answered LISTEN delivers nothing.
   A Subscribe still queued for the old life can likewise take a slot of the
   limit from a later LISTEN that was answered. `AckedUnlessHaunted` is what
   remains true.
5. **Repeated selectors.** On rules the last of several `resource_id =` counts; on
   bookings and holds the rows of all of them are returned. An availability
   read refuses the same clause. A repeated `min_duration` or `min_available`
   leaves the last.
6. **INSERT INTO resources without an id.** With a column list that does not name
   `id`, the first value is taken for the id as well. Values beyond the known
   columns, and the second of two columns with one name, are passed over.
7. **Stop before cut.** `Writer::stop` publishes the failure and then cuts the
   file. A rebuild in between appends and acknowledges records, which the cut
   then takes away.
8. **A swap that fails after its rename.** The writer keeps the handle of the
   unlinked file and goes on acknowledging.
9. **A group torn out of order.** A power loss before the sync may keep a later
   sector and lose an earlier one; the file is then refused as corrupt, although
   only unacknowledged records were hit.
10. **One id on two resources.** `reject_reused_id` reads an index that spans the
    tenant under the guard of one resource, and a delete unmaps its ids before it
    is durable.
11. **Placements on a deleted resource.** A call that fetched the resource's Arc
    before the delete is acknowledged on the detached state; replay of
    `ResourceDeleted` leaves index rows behind. A removal queued this way takes its id out
    of the replayed index, even where a resource created since then holds it.
12. **A blank end.** A power loss may keep the length of what was not synced and none
    of its bytes. Zeros read as a record of length 0 with the right CRC (that of
    nothing), which does not decode; unless there are eight or fewer, more follow it,
    and the file is refused as corrupt in the middle. It has lost only its torn end, of
    which ENG-12 says that it never errors. A new file's header alone, lost in
    this way, has the same effect.
13. **A placeholder within quotes.** `substitute_params` replaces `$N` in quoted texts
    too, and the quotes it puts around the value end the text there. What the value
    spells becomes part of the statement, which may then have another shape than the
    one described: an availability read announced with three columns sends two.

### Observations without a run

* `update_resource` may shrink capacity below the present load or lengthen the
  turnaround over it; `StepKeepsCapacity` therefore speaks of steps that keep
  the shape.
* An ancestor's rule written after the walk passed that ancestor does not count
  for the call in flight. The code says so (C1); only own rules are claimed.
* `SELECT ... INTO`, a `LIMIT` behind `INSERT ... VALUES`, the further items of a
  DELETE's FROM and the joins of an UPDATE are accepted and ignored (`Unseen` in
  `Sql`).
* INV-11 (`docs/REQUIREMENTS.md:125`) and the head of `wal.rs` say that a mutation is
  durable before it touches memory. That is so of `persist_and_apply`; placements and
  commits go through `persist_early`, which applies them before the flush. The
  comment there gives the reason, and `NoTimeFreedEarly` and `MemoryMatchesLog` are
  what remains true: early changes only take time away, and a failed flush stops
  the tenant before anything is built on them.
* When the bytes of a group are written and only the sync fails, recovery keeps
  its whole records: calls answered with an error come back with the rebuild.
* `MAX_TENANTS` is compared before a stopped tenant's rebuild, so at the limit
  such a tenant does not come back.
* The interval limit is checked once for a batch, so a list can exceed it by the
  batch: `IntervalsBounded` states that bound.
* `expire_hold` releases whatever hold the id names when its turn comes. An id
  freed and used again in between loses its new hold.
* With `ReuseIds = TRUE` (an interval's id used again during one compaction
  window) `CompactionKeepsMeaning` fails: `merge_recorded` drops a recorded
  addition whose id the snapshot has, even when a recorded removal lies between.
  Ids are random in the intended use, and the runs use `ReuseIds = FALSE`.
* Finding 2 has a twin: a delete whose record is flushed before CompactBegin and
  whose resource is still in the map when the compactor lists it comes back at
  the next replay. Therefore the passing journal runs have
  `QuietTopology = TRUE`, which keeps creates and deletes out of compactions
  (and nothing else); `journal_erased` has it FALSE.
* A Subscribe overtaken by a delete between its check and `notify.subscribe`
  leaves a channel that nothing reclaims until the id is created and deleted
  again. `ChannelsReclaimed` allows this one case, by name.
* Notices published between an answered LISTEN and its Subscribe are not
  delivered; `EveryNoticeAccounted` counts from the Subscribe.
* The loop polls its age and idle deadlines only between actions: while a send to
  a client that has stopped reading waits, neither ends the connection.
* PROTO-12 (`docs/REQUIREMENTS.md`) says a lagging listener is "silently
  dropped". The code tells it how many notices it missed and goes on, which is
  what `NoSilentGap` and `EveryNoticeAccounted` state.

### Bounds, and why they are enough

* Timeline: three intervals on four instants, two for a batch. The sweeps
  compare neighbours and running counts; three intervals give every order of
  nested, touching, overlapping and disjoint pairs with a third to saturate
  capacity 2, and turnarounds 0 to 2 reach past the horizon. Ancestor chains: no
  ancestor, a blocking parent below a grandparent with adjoining hours, and a
  parent with overlapping hours that hides the grandparent's but not its closure.
* Calendar: one or two callers, up to four ids, four instants. Races here are
  between one call in flight and one writer; the proofs lift the bounds.
* Journal: two tasks, two or three resources, two or three calls, one
  compaction, one fault, one crash. One snapshot window against calls that begin
  before, in and after it is what compaction can meet; a second one starts from
  the same kind of state.
* Reaper: three ids on two resources, two placements, a clock of three values.
  Expiries equal to, before and after a scan's clock all occur.
* WalFile: no file, files of both older versions, of this one and of the next;
  three records in groups of up to two, two faults, one compaction, two power
  losses. Two losses let the second fall into the recovery from the first, two
  faults a failed write into the file that a rebuild repairs; a group
  of two is torn inside a record, between records and out of order. `OneRecovers`: of
  the engines that were stopped, at most one is not done with its file when the
  next is built, as the model has one place for such an engine (`get_or_create`
  has no such limit).
* Topology: three resources in a chain one deeper than allowed, two callers, five
  calls, one restart. Four calls build a parent, a child and an entity on each;
  the fifth and its neighbour then race. Two opposed batches and a read of the
  child are what a lock cycle needs.
* Statements: conditions are trees of up to three comparisons from a set that has
  every accepted form, its neighbours that are refused, placeholders and NULLs;
  limits of two. Refusals look at one conjunct or count them, so a third conjunct
  adds repetition and a fourth nothing new.
* Subscriptions: a parent and a child, one connection, and one for the ring, the
  queue and the limit (`MaxListen`), so that two
  notices already overflow a ring, a second item blocks a forwarder and a second
  LISTEN meets the limit. Three statements and two topology steps allow
  LISTEN, delete, create and LISTEN again with one more in between. Connections
  share nothing but the hub, which a second one would use in the same way.

`CHECK_DEADLOCK FALSE` is in every cfg because the bounds let every run come
to rest: the clock stops and the calls are used up.

### Fairness

* Journal: weak fairness of each call's own steps, of the writer and of the
  compactor. Each is a tokio task that runs until its next await, and each await
  is on a channel or lock another of them serves. A flush may fail instead of
  succeeding: `FlushOk` is then no longer enabled and fairness asks nothing of it.
  Nobody has to call, crash, fail, compact or come back to a stopped tenant.
* Topology: weak fairness of each caller's steps. The locks are queues, so a
  caller's step is enabled from the moment its turn has come until it is taken,
  and nobody overtakes it. No fairness is asked of new calls or restarts.
* Reaper: weak fairness of the clock, of the reaper's loop and of each
  placement that holds a guard. Callers need not place or end holds.
* Subscriptions: weak fairness of the loop's command and notification arms and of
  each forwarder. `select!` polls its arms in random order, so neither starves the
  other, and forwarders are tasks of their own. Fairness of `Deliver` assumes a
  client that reads.

## 4. What is proved

Each theorem holds for every value of the constants that satisfies the ASSUMEs
of its module, which TLC evaluates on every run of that module. The bounds of
section 3 (numbers of callers, ids, resources, calls, faults, crashes) are
constants as well, so that the theorems lift them. "Run" names the property a
run checks on its instance; a theorem without one is a strengthening that others
rest on, or half of a property.

| Module | Theorem | Run's property |
|---|---|---|
| `CalendarProofs` | `TypeCorrect` | `TypeOK` |
| | `CapacityKept` | `StepKeepsCapacity` |
| | `NoDoubleBooking`, for `SteadySpec` | `NeverDoubleBook` |
| | `HoldsCapped` | `HoldExpiryCapped` |
| | `GcSafe` | `GcFreesOnlyThePast` |
| | `ListsBounded` | `IntervalsBounded` |
| | `OwnRulesObeyed` | `AdmittedByOwnRules` |
| `JournalProofs` | `TypeCorrect` | `TypeOK` |
| | `MemoryAlwaysMatches`, if `QuietTopology` and not `ReuseIds` | `MemoryMatchesLog` |
| | `SwapsKeepMeaning`, under the same two | `CompactionKeepsMeaning` |
| | `NoReaderSeesTimeFreed`, under the same two | `NoTimeFreedEarly` |
| `WalFileProofs` | `FilesKeepShape` | |
| | `ReplayReachesAppends` | `AppendsAreRead` |
| | `RefusalNeedsScar` | `ShortTailsOpen` |
| | `VersionsStayApart` | `NeverMixed` |
| | `SureIsNeverLost` | half of `ImplementsDurableLog` |
| `TopologyProofs` | `TypeCorrect` | `TypeOK` |
| | `TreeHasNoOrphans` | `NoOrphans` |
| | `TreeIsWhatReplayBuilds` | half of `MemoryIsReplay` |
| `IndexProofs` | `MemoryIsWhatReplayBuilds` | `MemoryIsReplay` |
| | `IndexIsAlwaysExact` | `IndexIsExact` |
| `ReaperProofs` | `TypeCorrect` | |
| | `WatermarkSafe` | `MissedOnlyWhenOvertaken` |
| `SubscriptionsProofs` | `TypeCorrect` | `TypeOK` |
| | `HubReclaimed` | `ChannelsReclaimed` |
| | `StreamsHaveNoGap` | `NoSilentGap` |
| | `AnsweredIsKept` | `AckedUnlessHaunted` |

Besides bounds that are naturals, the ASSUMEs say: in `Calendar`, that ids are
finitely many, spans are not empty, batches are within `MaxBatch`, limits are
positive and the instants cover every request's footprint; in `Journal`, that
resources and ids are finitely many, that the first contents and the requests
are stores and nonempty lists of records of the kinds there are, that a topology
request is one change and no other request has a create or a delete in it
(`create_resource`, `update_resource` and `delete_resource` queue one event), that
no resource has an interval's id (all are Ulids that clients draw; the code does
not look, as `reject_reused_id` consults the intervals' index only), that an id a request adds stands nowhere else in it
(`reject_repeats`), that the log starts with each interval on one list, once, and
that what a taking request removes it replaces by an interval of the same span in
the same record, while nothing changes a hold's span (`ReplacedAssumption`:
`commit_holds` books exactly the held span); in `Topology`,
that resources are finitely many naturals above 0 (`None` is 0), that operations
are calls with finitely many members of their kind, a single write with one, and
that no id comes twice in a call (`reject_repeats`); in `Reaper`, that each id has a home and
expiries are times of the clock; in `Subscriptions`, that ring, queue and
`MaxListen` hold at least one.

### Calendar

`TypeOK` is inductive (`TypeStep`, one step for each action). The load at an
instant is the cardinality of a set of occupants (`LoadIsOcc`), so a step that
adds no occupant keeps capacity (`FewerIsWithin`): removals, GC, the clock, which
only lapses holds, and rule writes. Two steps add occupants. An admission
(`AdmitKeepsCapacity`): a single allocation has room at each of its instants, and
for several on one resource the batch check weighs the members together with the
allocations near them, which at an instant of the batch are all that reach it.
A commit (`CommitKeepsCapacity`): each booking replaces its hold's span; if the
hold was active the load stays, and if it had lapsed the check with the hold left
out found room; two lapsed ones at one instant are what `RevivesTwo` excludes.
`NoDoubleBooking` adds that shapes stay; `SteadyStep` shows that only commits have
to be restrained for it. `HoldsCapped` needs a strengthening, `InFlightCapped`:
the expiry was capped when the call began, and it is stored only after a wait for
the guard, during which the clock moves forward. `ListsBounded` counts: the limit
is tested under the guard, before a batch, so what a list can exceed it by is one
batch. `OwnRulesObeyed` is about steps: the rules an admission is judged by
include those of its own resource as they are at that step.

### Journal

`PipelineInv` says that the log, what the writer records and every command's
records are logs (`LogsOK`, `IsLine`), memory and snapshot are stores, and that
the calls that wait for a flush are exactly those with a write in the batch or in
the queue, no one in both and no one twice in the queue (`Matched`, `Once`). The
last two are why it is inductive: a batch is answered, and nobody else is
(`BatchAnswered`), so whoever stays in the queue must not have been in the batch
(`Divides`). That memory stays a store goes through replay (`ApplyKeeps`, then
`ApplyRecordKeeps` and `ApplyAllKeeps`), that the log stays one through snapshot
and merge (`SnapshotIsLogged`, `MergeIsLogged`) and through torn writes
(`FirstOfLog`). The compactor never copies a resource twice: what is to do and
what is copied are disjoint (`CompactorOK`); without that a resource deleted in
between would enter the snapshot with a state it does not have.

`MemoryAlwaysMatches` and `SwapsKeepMeaning` have one inductive invariant,
`JournalInv`, because each needs the other: memory can only be held against the log
if a swap leaves the log's meaning alone, and the snapshot can only stand for the
log if memory matched it when the resource was copied. It has these parts.

* `CallsApart`: whose locks keep whom away. Two calls that have queued and not
  yet applied touch no resource in common, unless one is a delete that has gone
  ahead, and with `QuietTopology` no create or delete is under way in a compaction.
* `IdsKnown`: every id is given to one resource, once (`Known`). All that is in the
  file, in the recording, on the line, in memory and in the snapshot puts an id on
  its owner's list only, and an id that a call is still about to queue is nowhere
  yet (`Heard`). This is where `~ReuseIds` is used.
* `Firsts`: in the log with its line, an addition is the first mention of its id.
* `InMemory`: with `Built` for what replaying the file and the line would give, a
  resource nobody has a record on its way for is as `Built` has it; one that is
  changed is so once any of the calls on their way is applied; one being deleted is
  not in `Built` at all (`InStep`).
* `Compacting`: where the compaction is, told by the command that stands in the
  line (`Cut`). Before CompactBegin is handled, what is behind it leads back to
  `Built` when replayed once more (`Idem`); while the compactor copies, the recording
  is the end of the file and leads back in the same way, and each copied resource
  followed by the recording is as `Built` has it (`Copied`); when Compact is on the
  line, the snapshot with the merged recording builds what the file does, and what
  is behind Compact adds no id that the snapshot has (`Swaps`).

The middle part of the proof is about data: a log whose additions are first mentions
and whose ids are on one list can be replayed on what it has already built, less
the additions that are there already, and lead back (`Idem` and `Rerun`), which is
what `merge_recorded` counts on; and the records of a snapshot build the snapshot
(`SnapshotIs`). TLC checked `JournalInv` on the two passing instances before it was
proved. Neither hypothesis can be dropped: `journal_erased` is the counterexample
without `QuietTopology`, and section 3 has the one without the other (`merge_recorded`
drops a recorded addition although a recorded removal stands before it).

`NoReaderSeesTimeFreed` needs more than `JournalInv`, because that speaks of the file
with all of its line and this theorem of the file alone. `TakingInv` adds two parts.
`Belonging` says that every write on its way holds the records of the call that
waits for it, and that only a taking request (`Takes`) is ever applied ahead of its
flush. So when nobody has a resource locked, all that is on its way for that resource
is of taking requests. `Spans` says that in what the file replays to an interval that
will be replaced has the span it will be replaced with; a swap keeps that because
stores of one meaning have the same spans. Each record of a taking request then
leaves all that was taken before it (`RecordTakes`), so what is taken on disk is
taken in `Built`, which is memory (`TakenInMemory`).

The attempt changed two things in the module. The assumptions on requests and on the
first contents are new; nothing had said so far what the code's checks exclude. And
`Pipeline` strings the records of batch and queue together in place of filtering the
queue, which gives the same records.

### The WAL file

`FilesKeepShape` is the inductive invariant: what is synced is a beginning of each
file (`FilesOK`), cuts fall between records, a serving engine appends behind whole
records only (`ServingOK`), a file on its way to the log's name is clean and
synced (`TmpOK`, `PathOK`), a stopped engine's handle does nothing but reopen
(`StagesOK`). A file without scars has behind its whole records no more than the
length of another and one lost cell (`Short`), and scan takes that for a torn tail
(`TornReads`, `ShortOpens`); a write that fails and a crash that
leaves no scar keep that (`CrashShort`), so a refusal without a scar can only be a
newer binary's file. The three safety properties follow, `VersionsStayApart` with `MixedOK`, which keeps the
record cells of this binary out of files that an older version's header begins.

`SureIsNeverLost` adds `Lasting`: the sure records are in the synced part of each
file the log's name may mean after a crash (`DiskOK`); a cut that is under way
spares them (`SpareOK`); the engine knows them, so that a compaction takes them
along (`KnownOK`, `SwapOK`); what was written and not synced yet is in the file
(`BatchOK`); and while a stopped engine has the file still to cut, the file holds
what the serving engine knows and has written, no more (`LinkOK`). Acknowledging a
group makes it sure only when nothing endangered it (`Secure`), which is where
findings 7 and 8 are excluded.

### Topology

`TreeInv` says: one call at a time is past its check of the tree (`MutexOK`), and
what it found still holds (`IntentOK`); parents exist (`RootedOK`) and know their
children until the child is being deleted (`CoverOK`), which is what a delete
relies on when it looks at its children only; there is a depth function within the
limit (`DepthOK`), which the walk's length equals; and what replay builds of the log
is the tree of memory, save for the one record that is logged and not yet applied
(`LogOK` with `Kept` and `Owed`). `TreeHasNoOrphans` and `TreeIsWhatReplayBuilds`
follow. `TypeCorrect` adds the locks: nobody is in the line for `topology_lock`
twice or without a reason (`LineOK`), and those in a resource's line run and do
not create (`GuardsOK`); without the first, letting go of the lock would leave a
second entry behind whose call is over.

`IndexProofs` goes on in three layers, each the inductive invariant of the one
before and a little more.

1. `GuardInv`, who holds what. A write that has started names no resource that it
   does not have the guard of or is about to ask for (`FitOK`), those in line to read
   are on their way (`ReadersOK`), and a guard that is held is the first in its line
   (`OwnersOK`). So a state has one writer (`OneHolder`), and its readers are not
   writers. That a call covers every resource of its members rests on the lock order
   being a list of all of them (`AscendingCovers`).
2. `ItemsInv`, what is on each resource. What replay builds of a resource is what
   memory has, with the writes that are queued and not applied put on and taken
   off (`ItemsOK` with `Will`): there is at most one such write for each entity and
   resource, since they hold the guard. Its records are queued to states that the
   table leads to, or what they touch is stale (`SteadyOK`); a resource that is not
   there has nothing in the log, so that creating it again starts bare (`BareOK`).
   Between two records nothing is on its way, which is `MemoryIsReplay`.
3. `IndexInv`, the way from an id to its resource, for the ids in neither ghost. What
   a write takes is still where it found it (`FoundOK`); what it places is in no
   index, on no resource and in nobody else's hands (`FreshOK`); the index leads to
   what holds the id, and only a resource whose delete has passed the unmapping
   still holds what the index no longer knows (`ExactOK`); and the index that replay
   would build leads to what the log says (`LogIndexOK`), which is what a restart
   needs, since it throws memory away.

The attempt found the model wrong at one place. `stale` used to be set when a
record was applied; but a record that is queued through a deleted resource's state and
whose caller dies before it applies it is in the log all the same. After seven
calls and a restart (create, place, remove under way, delete, create again elsewhere,
place there, create the first again, the queued removal, crash) replay takes the
id out of the index although another resource holds it. The run's five calls never got
there; the ghost is now set when the record is queued, which is where the code
has committed itself, and finding 11 says so.

### Reaper

`WatchInv`: each hold and each placement that has lowered the watermark is seen
(the watermark is not above its expiry, or it is on the reaper's list) or overtaken
(`NoneMissed`). A scan will store a new watermark, so what it is going to store
must cover them, too: while it reads, each hold is on a resource still to be read,
or gathered, or the generation has moved (`ScanningCovers`); after the second look
at the generation, gathered or among `unseen`, which the store makes `overtaken`
(`StoringCovers`).

### Subscriptions

`Wellformed` is the type invariant with the references between tables. `HubCovered`
gives `HubReclaimed`. For `StreamsHaveNoGap` each task has an account
(`InStep`): how many notices of its channel are told or counted up to each place
in the queue, ending at the receiver's position or at the item the forwarder waits
with. For `AnsweredIsKept` the invariant looks ahead: `Wants(q, k)` says whether
the loop forwards q after the first k queued commands, what is answered is wanted
after all of them, what is wanted then is what the handler has listed, and at no
k is more wanted than `MaxListen` (`Promised`). The last is what shows that the
loop's own limit never refuses what the handler accepted.

### How recursion is treated

`Topology` and `Journal` replay logs with recursive functions. The proofs never
take such a definition at its word: they show that a function with those equations
exists (a least counterexample, `FirstFailure` in `ListFacts`), hence that CHOOSE
finds one, and then what every value of it satisfies, again by least
counterexample. That costs a page each (`RunExists`, `ChangeRunExists`,
`FlatExists`), and needs no induction scheme.

### Left to TLC

* Everything under fairness: `EveryCallAnswered`, `CompactionEnds`,
  `ExpiredHoldsReaped`, `EveryNoticeAccounted`, `EveryCallEnds`.
* What the sweeps compute (`Timeline`'s six properties): they are folds over
  sequences compared with sums over instants. `Sql` and `Statements`, whose
  conditions are recursive.
* `CommitsAreAtomic` of the journal. It is not true of every set of requests: a
  request that cancels one of a commit's bookings alone leaves the other on disk.
  The run's requests have none such.
* The other half of `ImplementsDurableLog`, that what is read is in the order of
  the appends: its abstract log is a `SelectSeq`, which the prover cannot expand.

## 5. What is not modelled

* Authentication, TLS and metrics: no state shared with the calendar.
* sqlparser and the pgwire library; error texts, tags and encodings of rows.
* Bytes: a record's length and body are good or bad cells, and a bad CRC, a record
  that does not decode and a length beyond the limit are one kind of bad.
* The connection loop's startup, timeouts and limits other than LISTEN's; what a
  notice says. The order of notices is not compared with the log's.
* Tenant names and first connections: the map's entry guard makes their creation
  one step.
* Clamping of query bounds and width limits, which only refuse.
* A clock that steps back.

## 6. Plan

The most important behaviour came first: admission (`Instants`, `Sweep`,
`Timeline`, `Calendar`), then durability (`Journal`, `WalFile`), the tree and its
locks (`Topology`), the background (`Reaper`) and the edge (`Subscriptions`, `Sql`,
`Statements`). What remains is proof, in this order:

1. `CommitsAreAtomic`, for requests without a cancellation of part of a commit.
2. The order of the appends in `ImplementsDurableLog`, once its abstract log can do
   without `SelectSeq`.
3. Liveness stays with TLC.
