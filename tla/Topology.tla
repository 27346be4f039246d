------------------------------- MODULE Topology -------------------------------
(***************************************************************************)
(* A tenant's resources and who may touch them (engine/mutations.rs,       *)
(* engine/store.rs): the table of resources, the tree they form, the index *)
(* from an entity (rule, hold, booking) to its resource, the topology lock *)
(* of create and delete, and each resource's own lock.                     *)
(*                                                                         *)
(* The table leads to shared states (Arcs).  A call that has fetched one   *)
(* keeps it, and its lock, while the resource is deleted and perhaps made  *)
(* anew under the same id.  When an entity is and whether it fits is       *)
(* Calendar; groups, failed flushes and compaction are Journal.            *)
(***************************************************************************)
EXTENDS Integers, FiniteSets, SequencesExt

CONSTANTS
    Resources,          \* resource ids, which are ordered
    Entities,           \* ids of rules, holds and bookings
    Callers,            \* connections, and the reaper
    Operations,         \* what they may call, see Call
    MAX_HIERARCHY_DEPTH, MAX_RESOURCES_PER_TENANT,
    MaxCalls, MaxRestarts    \* bounds

ASSUME TopologyAssumption ==
    /\ Resources \subseteq Nat \ {0} /\ IsFiniteSet(Resources)
    /\ {MAX_HIERARCHY_DEPTH, MAX_RESOURCES_PER_TENANT, MaxCalls, MaxRestarts} \subseteq Nat

None == 0

VARIABLES
    arcs,        \* every state there ever was: [id, parent, items]
    resources,   \* the one that an id leads to, or None
    children,    \* the children of an id
    entity,      \* the resource an entity is mapped to, or None
    topology,    \* the topology lock: its holder, then those in line
    lock,        \* each state's lock: [caller, mode] in the order they came
    log,         \* the records, in the order they were queued
    call,        \* what each caller is doing
    stale,       \* entities changed through a state that was being deleted
    twice,       \* entities found free while another call placed them
    left         \* how many more calls and restarts

store == <<arcs, resources, children, entity>>
locks == <<topology, lock>>
vars == <<store, locks, log, call, stale, twice, left>>

-------------------------------------------------------------------------------
(* Calls.  op: create, delete, read, add (add_rule, place_hold,            *)
(* confirm_booking), batch (of holds or bookings), remove (remove_rule,    *)
(* release_hold, cancel_booking, expire_hold), commit.  members are the    *)
(* entities: [id, rid], and [id, rid, becomes] for a commit.               *)

Idle == [op |-> "none", rid |-> None, parent |-> None, members |-> {},
         at |-> "idle", todo |-> <<>>, tolock |-> <<>>, arc |-> None,
         want |-> None, held |-> <<>>]
Call(op, rid, parent, members) ==
    [Idle EXCEPT !.op = op, !.rid = rid, !.parent = parent, !.members = members,
                 !.at = "start"]

Reshaping == {"create", "delete"}

\* A single write has one member; reject_repeats lets no id come twice in a call.
Members(op) == IF op = "commit" THEN [id : Entities, rid : {None}, becomes : Entities]
               ELSE [id : Entities, rid : Resources \cup {None}]

ASSUME OperationsAssumption ==
    \A o \in Operations :
        /\ o = Call(o.op, o.rid, o.parent, o.members) /\ IsFiniteSet(o.members)
        /\ o.op \in Reshaping \cup {"read", "add", "batch", "remove", "commit"}
        /\ o.op \in Reshaping => o.rid \in Resources /\ o.parent \in Resources \cup {None}
        /\ o.members \subseteq Members(o.op)
        /\ o.op \in {"add", "remove"} => \E m \in o.members : o.members = {m}
        /\ \A m, n \in o.members :
              m.id = n.id \/ (o.op = "commit" /\ m.becomes = n.becomes) => m = n

Live == {r \in Resources : resources[r] # None}
Items(r) == arcs[resources[r]].items
get_resource(r) == IF r \in Live THEN resources[r] ELSE None
get_parent(r) == IF resources[r] = None THEN None ELSE arcs[resources[r]].parent

\* The lock-free walk up the parent index, and the ancestors it finds.
Walk(r) ==
    LET chain[n \in 0 .. MAX_HIERARCHY_DEPTH + 1] ==
            IF n = 0 THEN r
            ELSE IF chain[n - 1] = None THEN None ELSE get_parent(chain[n - 1])
    IN  chain
Ancestors(r) ==
    [n \in {k \in 1 .. MAX_HIERARCHY_DEPTH + 1 : Walk(r)[k] # None} |-> Walk(r)[n]]

\* The calls that change the tree.
Shapes(c) == call[c].op \in Reshaping

Becomes(c, changes) == call' = [call EXCEPT ![c] = changes]

\* Locks are given in the order they are asked for, to readers together.
Granted(a, c) ==
    \E n \in DOMAIN lock[a] :
        /\ lock[a][n].caller = c
        /\ \A k \in 1 .. n - 1 : lock[a][k].mode = "read" /\ lock[a][n].mode = "read"
Ask(a, c, mode) == lock' = [lock EXCEPT ![a] = Append(@, [caller |-> c, mode |-> mode])]
Others(line, c) ==
    FlattenSeq([k \in DOMAIN line |-> IF line[k].caller = c THEN <<>> ELSE <<line[k]>>])
Without(c) == [a \in DOMAIN lock |-> Others(lock[a], c)]

\* Mutant: an early return keeps its guards.
Leak(c) == Becomes(c, Idle) /\ UNCHANGED locks

\* What is left of the topology lock's line when c is done.
Past(c) == IF topology # <<>> /\ Head(topology) = c THEN Tail(topology) ELSE topology

\* The call returns, and its guards are dropped.
Return(c) ==
    /\ Becomes(c, Idle)
    /\ lock' = Without(c)
    /\ topology' = Past(c)

-------------------------------------------------------------------------------
(* What every call is made of: resources to read one at a time (todo), and *)
(* resources to lock and keep (tolock).                                    *)

\* A caller calls, or does not at all when what it names is not there.
Begin(c, new) ==
    /\ call[c] = Idle /\ left.calls > 0
    /\ Becomes(c, new)
    /\ left' = [left EXCEPT !.calls = @ - 1]
    /\ UNCHANGED <<store, locks, log, stale, twice>>

Ascending(rids) ==
    [k \in 1 .. Cardinality(rids) |->
        CHOOSE r \in rids : Cardinality({x \in rids : x <= r}) = k]

\* Mutant: in the order of the entities.
AsListed(members) ==
    LET ids == Ascending({m.id : m \in members})
    IN  [k \in DOMAIN ids |-> (CHOOSE m \in members : m.id = ids[k]).rid]

\* lock_resources: each once, in ascending order.
LockOrder(members) == Ascending({m.rid : m \in members})

\* The rules of the ancestors are read before any guard is taken; a single
\* placement has fetched its resource by then, a batch has not.
StartAdd(c) ==
    LET m == CHOOSE x \in call[c].members : TRUE
    IN  /\ call[c].op = "add" /\ call[c].at = "start"
        /\ IF m.rid \notin Live THEN Return(c)
           ELSE /\ Becomes(c, [call[c] EXCEPT !.at = "check", !.arc = resources[m.rid],
                                 !.todo = Ancestors(m.rid), !.tolock = <<m.rid>>])
                /\ UNCHANGED locks
        /\ UNCHANGED <<store, log, stale, twice, left>>

StartBatch(c) ==
    /\ call[c].op = "batch" /\ call[c].at = "start"
    /\ LET order == LockOrder(call[c].members)
       IN  Becomes(c, [call[c] EXCEPT !.at = "check", !.tolock = order,
                         !.todo = FlattenSeq([k \in DOMAIN order |-> Ancestors(order[k])])])
    /\ UNCHANGED <<store, locks, log, stale, twice, left>>

\* resolve_entity_write: entity, resource, state.
StartRemove(c) ==
    LET m == CHOOSE x \in call[c].members : TRUE
        r == entity[m.id]
    IN  /\ call[c].op = "remove" /\ call[c].at = "start"
        /\ IF r = None \/ r \notin Live THEN Return(c)
           ELSE /\ Becomes(c, [call[c] EXCEPT !.at = "check", !.arc = resources[r],
                                 !.members = {[m EXCEPT !.rid = r]}, !.tolock = <<r>>])
                /\ UNCHANGED locks
        /\ UNCHANGED <<store, log, stale, twice, left>>

StartCommit(c) ==
    /\ call[c].op = "commit" /\ call[c].at = "start"
    /\ IF \E m \in call[c].members : entity[m.id] = None THEN Return(c)
       ELSE LET found == {[m EXCEPT !.rid = entity[m.id]] : m \in call[c].members}
            IN  /\ Becomes(c, [call[c] EXCEPT !.at = "check", !.members = found,
                                              !.tolock = LockOrder(found)])
                /\ UNCHANGED locks
    /\ UNCHANGED <<store, log, stale, twice, left>>

\* compute_availability: the resource is fetched, its ancestors are read, and
\* its own guard is taken last.
StartRead(c) ==
    /\ call[c].op = "read" /\ call[c].at = "start"
    /\ IF call[c].rid \notin Live THEN Return(c)
       ELSE /\ Becomes(c, [call[c] EXCEPT !.at = "done", !.arc = resources[call[c].rid],
                                          !.todo = Append(Ancestors(call[c].rid), call[c].rid)])
            /\ UNCHANGED locks
    /\ UNCHANGED <<store, log, stale, twice, left>>

\* The state to read next: an ancestor's is fetched now, a read's own has been.
NextToRead(c) == IF call[c].op = "read" /\ Len(call[c].todo) = 1 THEN call[c].arc
                 ELSE get_resource(Head(call[c].todo))

\* Ask for the read guard of the next resource on the list, or give up when
\* it is gone; with it, move on.
Visit(c) ==
    /\ call[c].todo # <<>> /\ call[c].want = None
    /\ LET a == NextToRead(c)
       IN  IF a = None THEN Return(c)
           ELSE /\ Ask(a, c, "read") /\ UNCHANGED topology
                /\ Becomes(c, [call[c] EXCEPT !.want = a])
    /\ UNCHANGED <<store, log, stale, twice, left>>

Visited(c) ==
    /\ call[c].todo # <<>> /\ call[c].want # None
    /\ Granted(call[c].want, c)
    /\ lock' = Without(c)
    /\ Becomes(c, [call[c] EXCEPT !.todo = Tail(@), !.want = None])
    /\ UNCHANGED <<store, topology, log, stale, twice, left>>

\* No guard is taken while there is an ancestor to read.
Lock(c) ==
    /\ call[c].todo = <<>> /\ call[c].tolock # <<>> /\ call[c].want = None
    /\ LET a == IF call[c].arc # None THEN call[c].arc
                ELSE get_resource(Head(call[c].tolock))
       IN  IF a = None THEN Return(c)
           ELSE /\ Ask(a, c, "write") /\ UNCHANGED topology
                /\ Becomes(c, [call[c] EXCEPT !.want = a])
    /\ UNCHANGED <<store, log, stale, twice, left>>

Locked(c) ==
    /\ call[c].todo = <<>> /\ call[c].tolock # <<>> /\ call[c].want # None
    /\ Granted(call[c].want, c)
    /\ Becomes(c, [call[c] EXCEPT !.tolock = Tail(@), !.want = None,
                                  !.held = Append(@, call[c].want)])
    /\ UNCHANGED <<store, locks, log, stale, twice, left>>

Holding(c, at) == /\ call[c].at = at
                  /\ call[c].todo = <<>> /\ call[c].tolock = <<>> /\ call[c].want = None

ReadEnds(c) == /\ Holding(c, "done")
               /\ Return(c)
               /\ UNCHANGED <<store, log, stale, twice, left>>

\* The guard, of those held, on a resource.
Held(c, r) == CHOOSE a \in Range(call[c].held) : arcs[a].id = r

-------------------------------------------------------------------------------
(* Entities: check, queue the record, apply it, all under the guards.      *)

Record(op, id, rid, parent, moves) ==
    [op |-> op, id |-> id, rid |-> rid, parent |-> parent, moves |-> moves]

\* Mutant: an id that is taken may be taken again.
NeverTaken(id) == FALSE

\* reject_reused_id.
Taken(id) == entity[id] # None

Checks(c) ==
    \A m \in call[c].members :
        CASE call[c].op \in {"add", "batch"} -> ~Taken(m.id)
          [] call[c].op = "remove" -> m.id \in arcs[Held(c, m.rid)].items
          [] call[c].op = "commit" -> /\ m.id \in arcs[Held(c, m.rid)].items
                                      /\ ~Taken(m.becomes)

Touched(c) == {m.id : m \in call[c].members}
    \cup (IF call[c].op = "commit" THEN {m.becomes : m \in call[c].members} ELSE {})
Appears(c) == IF call[c].op = "commit" THEN {m.becomes : m \in call[c].members}
              ELSE IF call[c].op = "remove" THEN {} ELSE {m.id : m \in call[c].members}

\* A delete that has unmapped what the state holds.
Deleting(a) == \E c \in Callers : call[c].op = "delete" /\ call[c].arc = a
                                 /\ call[c].at \in {"append", "drop"}
Current(a) == resources[arcs[a].id] = a /\ ~Deleting(a)

\* The ids that a call is about to place, and those that a delete has unmapped
\* and not dropped yet: neither is in the index.
Contended ==
    (UNION {Appears(c) : c \in {x \in Callers : call[x].at \in {"append", "apply"}}})
    \cup (UNION {Items(r) : r \in {x \in Live : ~Current(resources[x])}})

Check(c) ==
    /\ Holding(c, "check")
    /\ IF Checks(c) THEN /\ Becomes(c, [call[c] EXCEPT !.at = "append"])
                         /\ twice' = twice \cup (Appears(c) \cap Contended)
                         /\ UNCHANGED locks
       ELSE Return(c) /\ UNCHANGED twice
    /\ UNCHANGED <<store, log, stale, left>>

Records(c) ==
    LET ms == SetToSeq(call[c].members)
    IN  CASE call[c].op \in {"add", "batch"} ->
                [k \in DOMAIN ms |-> Record("added", ms[k].id, ms[k].rid, None, {})]
          [] call[c].op = "remove" ->
                [k \in DOMAIN ms |-> Record("removed", ms[k].id, ms[k].rid, None, {})]
          [] call[c].op = "commit" ->
                <<Record("committed", None, None, None, call[c].members)>>

QueueRecords(c) ==
    /\ Holding(c, "append") /\ ~Shapes(c)
    /\ log' = log \o Records(c)
    /\ Becomes(c, [call[c] EXCEPT !.at = "apply"])
    /\ stale' = IF \A a \in Range(call[c].held) : Current(a) THEN stale
                ELSE stale \cup Touched(c)
    /\ UNCHANGED <<store, locks, twice, left>>

\* apply_event, on a resource's items and on the index.
ItemsAfter(items, rec, rid) ==
    CASE rec.op = "added" /\ rec.rid = rid   -> items \cup {rec.id}
      [] rec.op = "removed" /\ rec.rid = rid -> items \ {rec.id}
      [] rec.op = "committed" ->
            LET own == {m \in rec.moves : m.rid = rid}
            IN  (items \ {m.id : m \in own}) \cup {m.becomes : m \in own}
      [] OTHER -> items

\* rids: the resources the record is applied to.
IndexAfter(index, rec, rids) ==
    [e \in Entities |->
        CASE rec.op = "added" /\ rec.id = e /\ rec.rid \in rids -> rec.rid
          [] rec.op = "removed" /\ rec.id = e /\ rec.rid \in rids -> None
          [] rec.op = "committed" /\ \E m \in rec.moves : m.rid \in rids /\ m.becomes = e ->
                (CHOOSE m \in rec.moves : m.rid \in rids /\ m.becomes = e).rid
          [] /\ rec.op = "committed" /\ \E m \in rec.moves : m.rid \in rids /\ m.id = e
             /\ \A m \in rec.moves : m.rid \in rids => m.becomes # e -> None
          [] OTHER -> index[e]]

AllItemsAfter(a, recs) ==
    LET items[n \in 0 .. Len(recs)] ==
            IF n = 0 THEN arcs[a].items ELSE ItemsAfter(items[n - 1], recs[n], arcs[a].id)
    IN  items[Len(recs)]
WholeIndexAfter(rids, recs) ==
    LET index[n \in 0 .. Len(recs)] ==
            IF n = 0 THEN entity ELSE IndexAfter(index[n - 1], recs[n], rids)
    IN  index[Len(recs)]

ApplyRecords(c) ==
    /\ Holding(c, "apply") /\ ~Shapes(c)
    /\ LET recs == Records(c)
       IN  /\ arcs' = [a \in DOMAIN arcs |->
                          IF a \in Range(call[c].held)
                          THEN [arcs[a] EXCEPT !.items = AllItemsAfter(a, recs)] ELSE arcs[a]]
           /\ entity' = WholeIndexAfter({arcs[a].id : a \in Range(call[c].held)}, recs)
    /\ Return(c)
    /\ UNCHANGED <<resources, children, log, stale, twice, left>>

-------------------------------------------------------------------------------
(* Create and delete, one at a time.                                       *)

AskTopology(c) ==
    /\ Shapes(c) /\ call[c].at = "start"
    /\ topology' = Append(topology, c)
    /\ Becomes(c, [call[c] EXCEPT !.at = "shape"])
    /\ UNCHANGED <<store, lock, log, stale, twice, left>>

\* Mutant: create and delete do not wait for each other.
AnyOfThem(c) == c \in Range(topology)

HasTopology(c) == topology # <<>> /\ Head(topology) = c

Creatable(id, parent) ==
    /\ Cardinality(Live) < MAX_RESOURCES_PER_TENANT
    /\ id \notin Live
    /\ parent # None => /\ parent # id /\ parent \in Live
                        /\ 1 + Len(Ancestors(parent)) <= MAX_HIERARCHY_DEPTH

CheckCreate(c) ==
    /\ call[c].op = "create" /\ call[c].at = "shape" /\ HasTopology(c)
    /\ IF Creatable(call[c].rid, call[c].parent)
       THEN Becomes(c, [call[c] EXCEPT !.at = "append"]) /\ UNCHANGED locks
       ELSE Return(c)
    /\ UNCHANGED <<store, log, stale, twice, left>>

\* wal_append of either, which waits until it is durable.
AppendShape(c) ==
    /\ Shapes(c) /\ call[c].at = "append"
    /\ log' = Append(log, Record(call[c].op, None, call[c].rid, call[c].parent, {}))
    /\ Becomes(c, [call[c] EXCEPT !.at = "drop"])
    /\ UNCHANGED <<store, locks, stale, twice, left>>

InsertResource(c) ==
    /\ call[c].op = "create" /\ call[c].at = "drop"
    /\ arcs' = Append(arcs, [id |-> call[c].rid, parent |-> call[c].parent, items |-> {}])
    /\ resources' = [resources EXCEPT ![call[c].rid] = Len(arcs) + 1]
    /\ children' = IF call[c].parent = None THEN children
                   ELSE [children EXCEPT ![call[c].parent] = @ \cup {call[c].rid}]
    /\ call' = [call EXCEPT ![c] = Idle]
    /\ lock' = Append(lock, <<>>)
    /\ topology' = Past(c)
    /\ UNCHANGED <<entity, log, stale, twice, left>>

CheckDelete(c) ==
    /\ call[c].op = "delete" /\ call[c].at = "shape" /\ HasTopology(c)
    /\ IF call[c].rid \notin Live \/ children[call[c].rid] # {} THEN Return(c)
       ELSE LET a == resources[call[c].rid]
            IN  /\ Ask(a, c, "read") /\ UNCHANGED topology
                /\ Becomes(c, [call[c] EXCEPT !.at = "unmap", !.arc = a])
    /\ UNCHANGED <<store, log, stale, twice, left>>

\* What a resource owned can no longer be reached by its id.
Unmapped(a) == [e \in Entities |-> IF e \in arcs[a].items THEN None ELSE entity[e]]

\* Under the read guard: what it holds is unmapped, and it is no child.
Unmap(c) ==
    /\ call[c].op = "delete" /\ call[c].at = "unmap" /\ Granted(call[c].arc, c)
    /\ entity' = Unmapped(call[c].arc)
    /\ LET parent == arcs[call[c].arc].parent
       IN  children' = IF parent = None THEN children
                       ELSE [children EXCEPT ![parent] = @ \ {call[c].rid}]
    /\ lock' = Without(c)
    /\ Becomes(c, [call[c] EXCEPT !.at = "append"])
    /\ UNCHANGED <<arcs, resources, topology, log, stale, twice, left>>

RemoveResource(c) ==
    /\ call[c].op = "delete" /\ call[c].at = "drop"
    /\ resources' = [resources EXCEPT ![call[c].rid] = None]
    /\ Return(c)
    /\ UNCHANGED <<arcs, children, entity, log, stale, twice, left>>

-------------------------------------------------------------------------------
(* Replay.                                                                 *)

Nothing == [states |-> [r \in Resources |-> [there |-> FALSE, parent |-> None, items |-> {}]],
            children |-> [r \in Resources |-> {}],
            entity |-> [e \in Entities |-> None]]

\* replay_on skips a resource that does not exist; a delete leaves the index.
ReplayOne(s, rec) ==
    CASE rec.op = "create" ->
            [states |-> [s.states EXCEPT ![rec.rid] =
                            [there |-> TRUE, parent |-> rec.parent, items |-> {}]],
             children |-> IF rec.parent = None THEN s.children
                          ELSE [s.children EXCEPT ![rec.parent] = @ \cup {rec.rid}],
             entity |-> s.entity]
      [] rec.op = "delete" ->
            [states |-> [s.states EXCEPT ![rec.rid] =
                            [there |-> FALSE, parent |-> None, items |-> {}]],
             children |-> [r \in Resources |-> s.children[r] \ {rec.rid}],
             entity |-> s.entity]
      [] OTHER ->
            LET there == {r \in Resources : s.states[r].there}
            IN  [states |-> [r \in Resources |->
                    IF r \in there
                    THEN [s.states[r] EXCEPT !.items = ItemsAfter(@, rec, r)]
                    ELSE s.states[r]],
                 children |-> s.children,
                 entity |-> IndexAfter(s.entity, rec, there)]

\* The end of with_clock: a child whose parent is gone becomes a root.
Detached(s) ==
    LET gone(r) == s.states[r].parent # None /\ ~s.states[s.states[r].parent].there
    IN  [states |-> [r \in Resources |-> IF gone(r) THEN [s.states[r] EXCEPT !.parent = None]
                                         ELSE s.states[r]],
         children |-> [r \in Resources |-> {k \in s.children[r] : ~gone(k)}],
         entity |-> s.entity]

\* The records, one after the other.
ReplayAll(records) ==
    LET after[n \in 0 .. Len(records)] ==
            IF n = 0 THEN Nothing ELSE ReplayOne(after[n - 1], records[n])
    IN  after[Len(records)]

Replay == Detached(ReplayAll(log))

\* The process stops, at any step, and starts again.
Restart ==
    /\ left.restarts > 0
    /\ LET s == Replay
           there == SetToSeq({r \in Resources : s.states[r].there})
       IN  /\ arcs' = [k \in DOMAIN there |->
                         [id |-> there[k], parent |-> s.states[there[k]].parent,
                          items |-> s.states[there[k]].items]]
           /\ resources' = [r \in Resources |->
                IF s.states[r].there THEN CHOOSE k \in DOMAIN there : there[k] = r ELSE None]
           /\ children' = s.children /\ entity' = s.entity
           /\ lock' = [k \in DOMAIN there |-> <<>>]
           /\ stale' = stale \cup {e \in Entities : /\ s.entity[e] # None
                                                    /\ e \notin s.states[s.entity[e]].items}
    /\ topology' = <<>>
    /\ call' = [c \in Callers |-> Idle]
    /\ left' = [left EXCEPT !.restarts = @ - 1]
    /\ UNCHANGED <<log, twice>>

Init ==
    /\ arcs = <<>> /\ resources = [r \in Resources |-> None]
    /\ children = [r \in Resources |-> {}]
    /\ entity = [e \in Entities |-> None]
    /\ topology = <<>> /\ lock = <<>> /\ log = <<>>
    /\ call = [c \in Callers |-> Idle]
    /\ stale = {} /\ twice = {}
    /\ left = [calls |-> MaxCalls, restarts |-> MaxRestarts]

Start(c) == \/ StartAdd(c) \/ StartBatch(c) \/ StartRemove(c) \/ StartCommit(c)
            \/ StartRead(c) \/ AskTopology(c)
Shape(c) == \/ CheckCreate(c) \/ CheckDelete(c) \/ Unmap(c) \/ AppendShape(c)
            \/ InsertResource(c) \/ RemoveResource(c)
Step(c) == \/ Start(c) \/ Shape(c)
           \/ Visit(c) \/ Visited(c) \/ Lock(c) \/ Locked(c) \/ ReadEnds(c)
           \/ Check(c) \/ QueueRecords(c) \/ ApplyRecords(c)

Next == \/ \E c \in Callers : Step(c)
        \/ \E c \in Callers, new \in Operations : Begin(c, new)
        \/ Restart

\* A task whose locks are given is run.
Spec == Init /\ [][Next]_vars /\ \A c \in Callers : WF_vars(Step(c))

-------------------------------------------------------------------------------
(* Properties.                                                             *)

\* The table and the index name what can exist, and only a call that runs has
\* asked for a lock.
TypeOK ==
    /\ \A r \in Live : arcs[resources[r]].id = r
    /\ \A e \in Entities : entity[e] \in Resources \cup {None}
    /\ Len(lock) = Len(arcs)
    /\ Range(topology) \subseteq {c \in Callers : Shapes(c)}
    /\ \A a \in DOMAIN lock : \A k \in DOMAIN lock[a] : call[lock[a][k].caller] # Idle

\* topology_lock's reason: no resource has a parent that does not exist, in
\* memory or in the log, and none is too deep, whatever creates and deletes
\* run at once.
NoOrphans ==
    /\ \A r \in Live : /\ get_parent(r) \in Live \cup {None}
                       /\ Len(Ancestors(r)) <= MAX_HIERARCHY_DEPTH
    /\ LET s == ReplayAll(log).states
       IN  \A r \in Resources : s[r].there /\ s[r].parent # None => s[s[r].parent].there

\* delete_resource's and reject_reused_id's reason: what a resource holds can
\* be reached by its id, and an id leads to what holds it; save what two calls
\* placed at once, or what was changed while its resource was deleted.
IndexIsExact ==
    \A e \in Entities \ (stale \cup twice) :
        /\ entity[e] # None => entity[e] \in Live /\ e \in Items(entity[e])
        /\ \A r \in Live : Current(resources[r]) /\ e \in Items(r) => entity[e] = r

\* Between two records, memory is what a restart would make of the log, save
\* what was changed while its resource was deleted.
Between == \A c \in Callers : call[c].at \notin {"apply", "drop"}
MemoryIsReplay ==
    Between => LET s == Replay.states IN
        \A r \in Resources :
            /\ s[r].there <=> r \in Live
            /\ r \in Live => /\ s[r].parent = get_parent(r)
                             /\ s[r].items \ stale = Items(r) \ stale

\* The order of the locks: every call comes to an end.
EveryCallEnds == \A c \in Callers : call[c] # Idle ~> call[c] = Idle
===============================================================================
