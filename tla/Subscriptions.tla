---------------------------- MODULE Subscriptions -----------------------------
(***************************************************************************)
(* LISTEN and NOTIFY (notify.rs, wire.rs, publish in engine/mod.rs).       *)
(* Changes are broadcast on a ring for each resource; a connection runs a  *)
(* forwarder task for each resource it listens to, all of them feeding one *)
(* bounded queue to its socket.  Statements are answered before the        *)
(* connection's loop acts on them, resources are deleted and created again *)
(* meanwhile, and a client may read slowly.                                *)
(*                                                                         *)
(* A notice is its number on its channel.  The broadcast ring and the      *)
(* queues are tokio's: modelled from how they are used here.               *)
(***************************************************************************)
EXTENDS Integers, FiniteSets, SequencesExt

CONSTANTS
    Resources,
    Above,          \* Above[r]: the ancestors of r
    Ring,           \* CHANNEL_CAPACITY
    QueueLimit,     \* NOTIFY_QUEUE_PER_CONNECTION
    MaxListen,      \* MAX_SUBSCRIPTIONS_PER_CONNECTION
    MaxStatements, MaxChanges, MaxTopology   \* bounds

ASSUME SubscriptionsAssumption ==
    /\ Above \in [Resources -> SUBSET Resources]
    /\ {Ring, QueueLimit, MaxListen} \subseteq Nat \ {0}
    /\ {MaxStatements, MaxChanges, MaxTopology} \subseteq Nat

VARIABLES
    alive,       \* the resources that exist
    topology,    \* the create or delete under way: [op, res, at]
    channels,    \* every broadcast channel ever made: [sent, open]
    hub,         \* NotifyHub: a function from resources to channels
    connected,   \* whether the connection is up
    listening,   \* the handler's set
    commands,    \* subscription commands on their way to the loop
    joining,     \* the resource the loop is about to subscribe to, as a sequence
    forwarders,  \* the loop's map: a function from resources to tasks
    tasks,       \* every forwarder task ever spawned: [chan, pos, at, pending]
    outbox,      \* the queue to the socket
    heard,       \* heard[f]: the notices the client can account for, told or missed
    acked,       \* LISTENs answered since the resource was made (ghost)
    haunted,     \* a resource came back that the connection had not let go (ghost)
    leaked,      \* channels made for a resource just deleted (ghost)
    left         \* how many more statements, changes, creates and deletes

engine == <<alive, topology>>
bus    == <<channels, hub>>
link   == <<connected, listening, commands, joining, forwarders>>
stream == <<tasks, outbox, heard>>
ghosts == <<acked, haunted, leaked>>
vars   == <<engine, bus, link, stream, ghosts, left>>

Idle == [op |-> "none", res |-> "none", at |-> "idle"]

-------------------------------------------------------------------------------
(* Publishing.                                                             *)

\* recipients: the resource, then every ancestor.
Recipients(r) == {r} \cup Above[r]

\* publish and NotifyHub::send: nobody listens where there is no channel.  The
\* recipients are told one after another; nothing here relates two channels.
Publish(r) ==
    channels' = [k \in DOMAIN channels |->
        IF \E q \in Recipients(r) \cap DOMAIN hub : hub[q] = k
        THEN [channels[k] EXCEPT !.sent = @ + 1] ELSE channels[k]]

\* A change of r's timeline, told by its caller or, for an allocation, by the
\* log writer, which may come to it after the resource was deleted.
Announce(r) ==
    /\ left.changes > 0
    /\ Publish(r)
    /\ left' = [left EXCEPT !.changes = @ - 1]
    /\ UNCHANGED <<engine, hub, link, stream, ghosts>>

\* Mutant: the map is never cleared of tasks that have ended.
NeverPruned == forwarders

\* forwarders.retain(|_, h| !h.is_finished())
Unfinished ==
    [r \in {q \in DOMAIN forwarders : tasks[forwarders[q]].at = "running"} |->
        forwarders[r]]

\* The connection still has a command or an unfinished forwarder for r.
HoldsOn(r) == \/ r \in Range(joining)
              \/ r \in DOMAIN forwarders /\ tasks[forwarders[r]].at = "running"
              \/ \E k \in DOMAIN commands : commands[k].res = r

\* create_resource, after its record: inserted, then published.
CreateInsert(r) ==
    /\ topology = Idle /\ left.topology > 0
    /\ r \notin alive /\ Above[r] \subseteq alive
    /\ alive' = alive \cup {r}
    /\ topology' = [op |-> "create", res |-> r, at |-> "publish"]
    /\ left' = [left EXCEPT !.topology = @ - 1]
    /\ haunted' = (haunted \/ HoldsOn(r))
    /\ UNCHANGED <<bus, link, stream, acked, leaked>>

\* delete_resource, after its record: taken out, published, channel reclaimed.
DeleteRemove(r) ==
    /\ topology = Idle /\ left.topology > 0
    /\ r \in alive /\ \A q \in alive : r \notin Above[q]
    /\ alive' = alive \ {r}
    /\ topology' = [op |-> "delete", res |-> r, at |-> "publish"]
    /\ left' = [left EXCEPT !.topology = @ - 1]
    /\ acked' = acked \ {r}
    /\ UNCHANGED <<bus, link, stream, haunted, leaked>>

PublishTopology ==
    /\ topology.at = "publish"
    /\ Publish(topology.res)
    /\ topology' = IF topology.op = "create" THEN Idle
                   ELSE [topology EXCEPT !.at = "reclaim"]
    /\ UNCHANGED <<alive, hub, link, stream, ghosts, left>>

\* Mutant: the channel stays.
NothingReclaimed(r) == UNCHANGED bus

\* NotifyHub::remove drops the only sender: receivers drain, then end.
Reclaimed(r) ==
    /\ hub' = [q \in DOMAIN hub \ {r} |-> hub[q]]
    /\ channels' = [k \in DOMAIN channels |->
           IF r \in DOMAIN hub /\ hub[r] = k
           THEN [channels[k] EXCEPT !.open = FALSE] ELSE channels[k]]

Reclaim ==
    /\ topology.at = "reclaim"
    /\ Reclaimed(topology.res)
    /\ topology' = Idle
    /\ leaked' = leaked \ {topology.res}
    /\ UNCHANGED <<alive, link, stream, acked, haunted, left>>

-------------------------------------------------------------------------------
(* Statements: answered at once, acted on later.                           *)

Statement ==
    /\ connected /\ joining = <<>>
    /\ left.statements > 0
    /\ left' = [left EXCEPT !.statements = @ - 1]

Command(op, r) == [op |-> op, res |-> r]

\* At the limit, deleted resources are forgotten first.
Kept(r) == IF r \notin listening /\ Cardinality(listening) >= MaxListen
           THEN listening \cap alive ELSE listening

\* One on a resource that does not exist is refused and changes nothing.
Listen(r) ==
    /\ Statement /\ r \in alive
    /\ IF r \notin Kept(r) /\ Cardinality(Kept(r)) >= MaxListen
       THEN /\ listening' = Kept(r)
            /\ UNCHANGED <<commands, acked>>
       ELSE /\ listening' = Kept(r) \cup {r}
            /\ commands' = Append(commands, Command("Subscribe", r))
            /\ acked' = acked \cup {r}
    /\ UNCHANGED <<engine, bus, connected, joining, forwarders, stream,
                   haunted, leaked>>

Unlisten(r) ==
    /\ Statement
    /\ listening' = listening \ {r}
    /\ commands' = Append(commands, Command("Unsubscribe", r))
    /\ acked' = acked \ {r}
    /\ UNCHANGED <<engine, bus, connected, joining, forwarders, stream,
                   haunted, leaked>>

UnlistenAll ==
    /\ Statement
    /\ listening' = {}
    /\ commands' = Append(commands, Command("UnsubscribeAll", "all"))
    /\ acked' = {}
    /\ UNCHANGED <<engine, bus, connected, joining, forwarders, stream,
                   haunted, leaked>>

-------------------------------------------------------------------------------
(* The connection's loop.                                                  *)

Pending(op) == /\ connected /\ joining = <<>>
               /\ commands # <<>> /\ Head(commands).op = op

\* The counted forwarders: of resources that exist.
LiveCount == Cardinality(DOMAIN Unfinished \cap alive)

\* Subscribe, up to the last check: go on to join, or leave it.
HandleSubscribe ==
    /\ Pending("Subscribe")
    /\ commands' = Tail(commands)
    /\ forwarders' = Unfinished
    /\ LET r == Head(commands).res
           known == r \in DOMAIN Unfinished
           wanted == ~known /\ r \in alive /\ LiveCount < MaxListen
       IN  /\ joining' = IF wanted THEN <<r>> ELSE <<>>
           /\ listening' = IF known \/ wanted THEN listening ELSE listening \ {r}
    /\ UNCHANGED <<engine, bus, connected, stream, ghosts, left>>

\* NotifyHub::subscribe makes the channel if there is none; the receiver
\* starts after what was sent before.
JoinHub ==
    /\ connected /\ joining # <<>>
    /\ LET r == Head(joining)
           fresh == r \notin DOMAIN hub
           k == IF fresh THEN Len(channels) + 1 ELSE hub[r]
           sent == IF fresh THEN 0 ELSE channels[k].sent
       IN  /\ channels' = IF fresh THEN Append(channels, [sent |-> 0, open |-> TRUE])
                          ELSE channels
           /\ hub' = [q \in DOMAIN hub \cup {r} |-> IF q = r THEN k ELSE hub[q]]
           /\ tasks' = Append(tasks, [chan |-> k, pos |-> sent,
                                      at |-> "running", pending |-> <<>>])
           /\ heard' = Append(heard, sent)
           /\ forwarders' = [q \in DOMAIN forwarders \cup {r} |->
                  IF q = r THEN Len(tasks) + 1 ELSE forwarders[q]]
           /\ leaked' = IF r \in alive THEN leaked ELSE leaked \cup {r}
    /\ joining' = <<>>
    /\ UNCHANGED <<engine, connected, listening, commands, outbox, acked,
                   haunted, left>>

\* The tasks of F aborted: what they had not passed on is dropped.
Abort(F) ==
    tasks' = [f \in DOMAIN tasks |->
        IF f \in F /\ tasks[f].at = "running"
        THEN [tasks[f] EXCEPT !.at = "aborted", !.pending = <<>>] ELSE tasks[f]]

HandleUnsubscribe ==
    /\ Pending("Unsubscribe")
    /\ commands' = Tail(commands)
    /\ LET r == Head(commands).res
       IN  /\ Abort({forwarders[q] : q \in DOMAIN forwarders \cap {r}})
           /\ forwarders' = [q \in DOMAIN forwarders \ {r} |-> forwarders[q]]
    /\ UNCHANGED <<engine, bus, connected, listening, joining, outbox, heard,
                   ghosts, left>>

NoForwarders == [q \in {} |-> 0]

HandleUnsubscribeAll ==
    /\ Pending("UnsubscribeAll")
    /\ commands' = Tail(commands)
    /\ Abort(Range(forwarders))
    /\ forwarders' = NoForwarders
    /\ UNCHANGED <<engine, bus, connected, listening, joining, outbox, heard,
                   ghosts, left>>

\* What the client can account for once it has read an item.
Accounted(count, item) == count + (IF item.kind = "lagged" THEN item.val ELSE 1)

\* One notification to the socket.
Deliver ==
    /\ connected /\ joining = <<>> /\ outbox # <<>>
    /\ heard' = [heard EXCEPT ![Head(outbox).task] = Accounted(@, Head(outbox))]
    /\ outbox' = Tail(outbox)
    /\ UNCHANGED <<engine, bus, link, tasks, ghosts, left>>

\* The client leaves, its socket fails, or the age or idle limit ends the loop.
Disconnect ==
    /\ connected /\ joining = <<>>
    /\ connected' = FALSE
    /\ Abort(Range(forwarders))
    /\ forwarders' = NoForwarders
    /\ listening' = {} /\ commands' = <<>> /\ outbox' = <<>>
    /\ acked' = {}
    /\ UNCHANGED <<engine, bus, joining, heard, haunted, leaked, left>>

-------------------------------------------------------------------------------
(* forward_resource_events.                                                *)

Item(f, kind, val) == [task |-> f, kind |-> kind, val |-> val]

\* Mutant: a hole in the stream is passed over.
SkipLag(f, missed) ==
    tasks' = [tasks EXCEPT ![f].pos = @ + missed]

\* RecvError::Lagged: the listener is told how much it missed.
TellLag(f, missed) ==
    tasks' = [tasks EXCEPT ![f].pos = @ + missed,
                           ![f].pending = <<Item(f, "lagged", missed)>>]

\* recv: a hole, the next notice, or the end of a closed channel.
Recv(f) ==
    /\ tasks[f].at = "running" /\ tasks[f].pending = <<>>
    /\ LET pos  == tasks[f].pos
           chan == channels[tasks[f].chan]
       IN  \/ /\ chan.sent - pos > Ring
              /\ TellLag(f, chan.sent - Ring - pos)
           \/ /\ pos < chan.sent /\ chan.sent - pos <= Ring
              /\ tasks' = [tasks EXCEPT ![f].pos = pos + 1,
                                        ![f].pending = <<Item(f, "notice", pos + 1)>>]
           \/ /\ pos = chan.sent /\ ~chan.open
              /\ tasks' = [tasks EXCEPT ![f].at = "finished"]
    /\ UNCHANGED <<engine, bus, link, outbox, heard, ghosts, left>>

\* Mutants: the queue to the socket has no limit; one place is never used.
SpaceAlways == TRUE
SpaceForTwo == Len(outbox) + 1 < QueueLimit

Space == Len(outbox) < QueueLimit

\* A full queue makes the forwarder wait, and fall behind the ring.
Send(f) ==
    /\ tasks[f].at = "running" /\ tasks[f].pending # <<>>
    /\ Space
    /\ outbox' = outbox \o tasks[f].pending
    /\ tasks' = [tasks EXCEPT ![f].pending = <<>>]
    /\ UNCHANGED <<engine, bus, link, heard, ghosts, left>>

-------------------------------------------------------------------------------

Init == /\ alive = Resources
        /\ topology = Idle
        /\ channels = <<>> /\ hub = [r \in {} |-> 0]
        /\ connected = TRUE
        /\ listening = {} /\ commands = <<>> /\ joining = <<>>
        /\ forwarders = NoForwarders
        /\ tasks = <<>> /\ outbox = <<>> /\ heard = <<>>
        /\ acked = {} /\ haunted = FALSE /\ leaked = {}
        /\ left = [statements |-> MaxStatements, changes |-> MaxChanges,
                   topology |-> MaxTopology]

TopologyStep == \/ \E r \in Resources : CreateInsert(r) \/ DeleteRemove(r)
                \/ PublishTopology \/ Reclaim

ClientStep == UnlistenAll \/ \E r \in Resources : Listen(r) \/ Unlisten(r)

CommandStep == \/ HandleSubscribe \/ JoinHub
               \/ HandleUnsubscribe \/ HandleUnsubscribeAll

ForwarderStep(f) == f \in DOMAIN tasks /\ (Recv(f) \/ Send(f))

Next == \/ TopologyStep
        \/ \E r \in Resources : Announce(r)
        \/ ClientStep
        \/ CommandStep \/ Deliver \/ Disconnect
        \/ \E f \in DOMAIN tasks : ForwarderStep(f)

Spec == Init /\ [][Next]_vars

\* The loop takes what is ready, fairly (select! picks at random), the client
\* reads, and tasks run on.  Nobody has to speak, change, delete or leave.
FairSpec == /\ Spec
            /\ WF_vars(CommandStep) /\ WF_vars(Deliver)
            /\ \A f \in 1 .. MaxStatements : WF_vars(ForwarderStep(f))

-------------------------------------------------------------------------------
(* Properties.                                                             *)

\* Every reference between the tables is good, and what the server keeps for
\* one connection stays within its limits however slowly the client reads.
TypeOK ==
    /\ alive \subseteq Resources /\ listening \subseteq Resources
    /\ \A r \in DOMAIN hub : hub[r] \in DOMAIN channels
    /\ \A r \in DOMAIN forwarders : forwarders[r] \in DOMAIN tasks
    /\ \A f \in DOMAIN tasks :
          /\ tasks[f].chan \in DOMAIN channels
          /\ tasks[f].pos <= channels[tasks[f].chan].sent
          /\ tasks[f].at \in {"running", "finished", "aborted"}
    /\ DOMAIN heard = DOMAIN tasks
    /\ Len(outbox) <= QueueLimit
    /\ Cardinality(listening) <= MaxListen

\* An item moves the client's account of its stream from one count to the
\* next; a notice must be the very next one.
Follows(item, before, after) ==
    /\ after = Accounted(before, item)
    /\ item.kind = "notice" => item.val = before + 1

\* account[k] is what the client of f can account for after k more items.
Reads(f, account) ==
    /\ account[0] = heard[f]
    /\ \A k \in 1 .. Len(outbox) :
          IF outbox[k].task = f THEN Follows(outbox[k], account[k - 1], account[k])
          ELSE account[k] = account[k - 1]

\* "A listener cannot tell a gap from a quiet stream": what reaches the client
\* is the channel's notices in order, with a Lagged of the exact size wherever
\* some are missing, whatever the ring and the queue have dropped; with the
\* item its forwarder still waits to queue it is where the forwarder is.
NoSilentGap ==
    connected => \A f \in DOMAIN tasks :
        \E account \in [0 .. Len(outbox) -> 0 .. channels[tasks[f].chan].sent] :
            /\ Reads(f, account)
            /\ tasks[f].at # "aborted" =>
                  IF tasks[f].pending = <<>>
                  THEN account[Len(outbox)] = tasks[f].pos
                  ELSE Follows(Head(tasks[f].pending), account[Len(outbox)],
                               tasks[f].pos)

Forwarded(r) == /\ r \in DOMAIN forwarders \cap DOMAIN hub
                /\ tasks[forwarders[r]].at = "running"
                /\ tasks[forwarders[r]].chan = hub[r]

LoopAtRest == connected /\ commands = <<>> /\ joining = <<>>

\* An answered LISTEN is kept: once the loop has caught up, its resource, if
\* it still exists, is forwarded.
AckedIsForwarded == LoopAtRest => \A r \in acked : Forwarded(r)

\* It is kept at least as long as no resource comes back under its id while
\* the connection still has a command or an unfinished forwarder for it.
AckedUnlessHaunted == ~haunted => AckedIsForwarded

\* A tenant does not keep a ring for every resource it ever had: a channel
\* belongs to a resource, but for one made by a Subscribe that a delete
\* overtook between its check and its subscription.
ChannelsReclaimed == topology = Idle => DOMAIN hub \subseteq alive \cup leaked

\* The client of task f is owed news of notice n.
Owed(f, n) ==
    /\ connected
    /\ f \in DOMAIN tasks /\ tasks[f].at # "aborted"
    /\ heard[f] < n /\ n <= channels[tasks[f].chan].sent

\* A slow or bursty stream does not die, and a deleted resource's last notice
\* arrives: every notice of a subscription is told or counted as missed in the
\* end, unless the client stops listening.
EveryNoticeAccounted ==
    \A f \in 1 .. MaxStatements : \A n \in 1 .. (MaxChanges + MaxTopology) :
        Owed(f, n) ~> ~Owed(f, n)
===============================================================================
