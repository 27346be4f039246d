------------------------- MODULE SubscriptionsProofs --------------------------
(* Theorems about Subscriptions, for every value of its constants. *)
EXTENDS Subscriptions, FiniteSetTheorems, SequenceTheorems, TLAPS

-------------------------------------------------------------------------------
(* Type correctness, table by table.                                       *)

Channel == [sent : Nat, open : BOOLEAN]
Items   == [task : Nat, kind : {"notice", "lagged"}, val : Nat]
Task    == [chan : Nat, pos : Nat, at : {"running", "finished", "aborted"},
            pending : Seq(Items)]
Commands == [op : {"Subscribe", "Unsubscribe"}, res : Resources]
                \cup {Command("UnsubscribeAll", "all")}

\* Every resource that has a channel has one of its own, and it is open.
BusOK == /\ channels \in Seq(Channel)
         /\ DOMAIN hub \subseteq Resources
         /\ \A r \in DOMAIN hub : hub[r] \in DOMAIN channels /\ channels[hub[r]].open
         /\ \A q, r \in DOMAIN hub : hub[q] = hub[r] => q = r

EngineOK == /\ alive \subseteq Resources
            /\ \/ topology = Idle
               \/ /\ topology.op = "create" /\ topology.at = "publish"
                  /\ topology.res \in Resources
               \/ /\ topology.op = "delete" /\ topology.at \in {"publish", "reclaim"}
                  /\ topology.res \in Resources \ alive

LinkOK == /\ listening \subseteq Resources /\ IsFiniteSet(listening)
          /\ Cardinality(listening) <= MaxListen
          /\ commands \in Seq(Commands)
          /\ joining = <<>> \/ \E r \in Resources : joining = <<r>>
          /\ DOMAIN forwarders \subseteq Resources

\* No two resources share a forwarder.
ForwardersOK == /\ \A r \in DOMAIN forwarders : forwarders[r] \in DOMAIN tasks
                /\ \A q, r \in DOMAIN forwarders : forwarders[q] = forwarders[r] => q = r

\* A forwarder waits with one item at most.
TaskOK(f) == /\ tasks[f].chan \in DOMAIN channels
             /\ tasks[f].pos <= channels[tasks[f].chan].sent
             /\ \/ tasks[f].pending = <<>>
                \/ /\ tasks[f].at = "running" /\ Len(tasks[f].pending) = 1
                   /\ tasks[f].pending[1].task = f

StreamOK == /\ tasks \in Seq(Task) /\ \A f \in DOMAIN tasks : TaskOK(f)
            /\ heard \in Seq(Nat) /\ Len(heard) = Len(tasks)
            /\ outbox \in Seq(Items) /\ Len(outbox) <= QueueLimit
            /\ \A k \in DOMAIN outbox : outbox[k].task \in DOMAIN tasks

Wellformed == BusOK /\ EngineOK /\ LinkOK /\ ForwardersOK /\ StreamOK

\* What the invariant says implies what the runs check.
LEMMA WellformedIsTyped == Wellformed => TypeOK
  <1> SUFFICES ASSUME Wellformed PROVE TypeOK
    OBVIOUS
  <1>1. \A f \in DOMAIN tasks : tasks[f].at \in {"running", "finished", "aborted"}
    <2>1. tasks \in [1 .. Len(tasks) -> Task]
      BY DEF Wellformed, StreamOK
    <2> QED BY <2>1 DEF Task
  <1>2. DOMAIN heard = DOMAIN tasks
    BY DEF Wellformed, StreamOK
  <1> QED BY <1>1, <1>2
          DEF Wellformed, BusOK, EngineOK, LinkOK, ForwardersOK, StreamOK, TaskOK, TypeOK

-------------------------------------------------------------------------------
(* The helpers that rewrite a whole table.                                 *)

\* A publish only counts notices: no channel opens, closes or goes back.
LEMMA PublishStep ==
    ASSUME channels \in Seq(Channel), NEW r, Publish(r)
    PROVE  /\ channels' \in Seq(Channel) /\ Len(channels') = Len(channels)
           /\ \A k \in DOMAIN channels :
                 /\ channels'[k].open = channels[k].open
                 /\ channels'[k].sent >= channels[k].sent
  <1>1. channels \in [1 .. Len(channels) -> Channel] /\ Len(channels) \in Nat
    OBVIOUS
  <1>2. /\ DOMAIN channels' = 1 .. Len(channels)
        /\ \A k \in 1 .. Len(channels) :
              /\ channels'[k] \in Channel
              /\ channels'[k].open = channels[k].open
              /\ channels'[k].sent >= channels[k].sent
    <2>1. DOMAIN channels' = 1 .. Len(channels)
      BY <1>1 DEF Publish
    <2>2. ASSUME NEW k \in 1 .. Len(channels)
          PROVE  /\ channels'[k] \in Channel
                 /\ channels'[k].open = channels[k].open
                 /\ channels'[k].sent >= channels[k].sent
      <3>1. channels[k] \in Channel
        BY <1>1
      <3>2. \/ channels'[k] = channels[k]
            \/ channels'[k] = [channels[k] EXCEPT !.sent = @ + 1]
        BY <1>1 DEF Publish
      <3> QED BY <3>1, <3>2 DEF Channel
    <2> QED BY <2>1, <2>2
  <1>3. channels' \in [1 .. Len(channels) -> Channel]
    BY <1>1, <1>2 DEF Publish
  <1>4. channels' \in Seq(Channel) /\ Len(channels') = Len(channels)
    BY <1>1, <1>3, SeqDef
  <1> QED BY <1>1, <1>2, <1>4

\* Reclaiming closes the channel of r and no other.
LEMMA ReclaimStep ==
    ASSUME BusOK, NEW r, Reclaimed(r)
    PROVE  /\ BusOK' /\ Len(channels') = Len(channels)
           /\ DOMAIN hub' = DOMAIN hub \ {r}
           /\ \A q \in DOMAIN hub' : hub'[q] = hub[q]
           /\ \A k \in DOMAIN channels : channels'[k].sent = channels[k].sent
  <1>1. channels \in [1 .. Len(channels) -> Channel] /\ Len(channels) \in Nat
    BY DEF BusOK
  <1>2. /\ DOMAIN channels' = 1 .. Len(channels)
        /\ \A k \in 1 .. Len(channels) :
              /\ channels'[k] \in Channel
              /\ channels'[k].sent = channels[k].sent
              /\ channels'[k].open = IF r \in DOMAIN hub /\ hub[r] = k
                                     THEN FALSE ELSE channels[k].open
    BY <1>1 DEF Reclaimed, Channel
  <1>3. channels' \in [1 .. Len(channels) -> Channel]
    BY <1>1, <1>2 DEF Reclaimed
  <1>4. channels' \in Seq(Channel) /\ Len(channels') = Len(channels)
    BY <1>1, <1>3, SeqDef
  <1>5. DOMAIN hub' = DOMAIN hub \ {r} /\ \A q \in DOMAIN hub' : hub'[q] = hub[q]
    BY DEF Reclaimed
  <1>6. BusOK'
    BY <1>1, <1>2, <1>4, <1>5 DEF BusOK
  <1> QED BY <1>1, <1>2, <1>4, <1>5, <1>6

\* Aborting the tasks of F stops them and drops what they had not passed on.
LEMMA AbortStep ==
    ASSUME tasks \in Seq(Task), NEW F, Abort(F)
    PROVE  /\ tasks' \in Seq(Task) /\ Len(tasks') = Len(tasks)
           /\ \A f \in DOMAIN tasks :
                 /\ f \notin F => tasks'[f] = tasks[f]
                 /\ f \in F => tasks'[f].at # "running"
                 /\ tasks'[f].chan = tasks[f].chan /\ tasks'[f].pos = tasks[f].pos
                 /\ tasks'[f].at = "running" => tasks'[f] = tasks[f]
                 /\ tasks'[f] = tasks[f] \/ (tasks'[f].at = "aborted" /\ tasks'[f].pending = <<>>)
  <1>1. tasks \in [1 .. Len(tasks) -> Task] /\ Len(tasks) \in Nat
    OBVIOUS
  <1>2. ASSUME NEW f \in 1 .. Len(tasks)
        PROVE  /\ tasks'[f] \in Task
               /\ f \notin F => tasks'[f] = tasks[f]
               /\ f \in F => tasks'[f].at # "running"
               /\ tasks'[f].chan = tasks[f].chan /\ tasks'[f].pos = tasks[f].pos
               /\ tasks'[f].at = "running" => tasks'[f] = tasks[f]
               /\ tasks'[f] = tasks[f] \/ (tasks'[f].at = "aborted" /\ tasks'[f].pending = <<>>)
    <2>1. tasks[f] \in Task
      BY <1>1
    <2>2. CASE f \in F /\ tasks[f].at = "running"
      <3>1. tasks'[f] = [tasks[f] EXCEPT !.at = "aborted", !.pending = <<>>]
        BY <1>1, <2>2 DEF Abort
      <3>2. <<>> \in Seq(Items)
        OBVIOUS
      <3>3. /\ tasks'[f] \in Task
            /\ tasks'[f].at = "aborted" /\ tasks'[f].pending = <<>>
            /\ tasks'[f].chan = tasks[f].chan /\ tasks'[f].pos = tasks[f].pos
        BY <2>1, <3>1, <3>2 DEF Task
      <3> QED BY <2>2, <3>3
    <2>3. CASE ~(f \in F /\ tasks[f].at = "running")
      <3>1. tasks'[f] = tasks[f]
        BY <1>1, <2>3 DEF Abort
      <3> QED BY <2>1, <2>3, <3>1
    <2> QED BY <2>2, <2>3
  <1>3. DOMAIN tasks' = 1 .. Len(tasks)
    BY <1>1 DEF Abort
  <1>4. tasks' \in [1 .. Len(tasks) -> Task]
    BY <1>1, <1>2, <1>3 DEF Abort
  <1>5. tasks' \in Seq(Task) /\ Len(tasks') = Len(tasks)
    BY <1>1, <1>4, SeqDef
  <1> QED BY <1>1, <1>2, <1>5

-------------------------------------------------------------------------------
(* Every step keeps the tables well formed.                                *)

\* Tasks stay as they are and channels only count on: the streams stay well
\* formed.
LEMMA StreamKept ==
    ASSUME Wellformed, UNCHANGED stream, channels' \in Seq(Channel),
           Len(channels) <= Len(channels'),
           \A k \in DOMAIN channels : channels'[k].sent >= channels[k].sent
    PROVE  StreamOK'
  <1>1. /\ channels \in Seq(Channel) /\ DOMAIN channels = 1 .. Len(channels)
        /\ DOMAIN channels \subseteq DOMAIN channels'
    BY DEF Wellformed, BusOK
  <1>2. tasks' = tasks /\ outbox' = outbox /\ heard' = heard
    BY DEF stream
  <1>3. tasks \in [1 .. Len(tasks) -> Task] /\ DOMAIN tasks = 1 .. Len(tasks)
    BY DEF Wellformed, StreamOK
  <1>4. \A k \in DOMAIN channels : channels[k].sent \in Nat /\ channels'[k].sent \in Nat
    <2>1. channels \in [1 .. Len(channels) -> Channel]
      BY <1>1
    <2>2. channels' \in [1 .. Len(channels') -> Channel]
      OBVIOUS
    <2> QED BY <1>1, <2>1, <2>2 DEF Channel
  <1>5. ASSUME NEW f \in DOMAIN tasks PROVE TaskOK(f)'
    <2>1. TaskOK(f) /\ tasks[f].pos \in Nat
      BY <1>3 DEF Wellformed, StreamOK, Task
    <2> QED BY <1>1, <1>2, <1>4, <2>1 DEF TaskOK
  <1> QED BY <1>2, <1>5 DEF Wellformed, StreamOK

\* One step per action of Next.
LEMMA WellformedStep == Wellformed /\ [Next]_vars => Wellformed'
  <1> SUFFICES ASSUME Wellformed, [Next]_vars PROVE Wellformed'
    OBVIOUS
  <1> USE SubscriptionsAssumption
  <1>0. BusOK /\ EngineOK /\ LinkOK /\ ForwardersOK /\ StreamOK
    BY DEF Wellformed
  <1>a. /\ channels \in Seq(Channel) /\ tasks \in Seq(Task) /\ heard \in Seq(Nat)
        /\ outbox \in Seq(Items) /\ commands \in Seq(Commands)
        /\ DOMAIN channels = 1 .. Len(channels) /\ DOMAIN tasks = 1 .. Len(tasks)
        /\ \A k \in DOMAIN channels : channels[k] \in Channel
        /\ \A f \in DOMAIN tasks : tasks[f] \in Task /\ TaskOK(f)
    BY <1>0 DEF BusOK, StreamOK, LinkOK
  \* What leaves a table alone leaves it well formed.
  <1>b. /\ UNCHANGED <<channels, hub>> => BusOK'
        /\ UNCHANGED engine => EngineOK'
        /\ UNCHANGED <<listening, commands, joining, forwarders>> => LinkOK'
        /\ UNCHANGED <<channels, stream>> => StreamOK'
        /\ forwarders' = forwarders /\ DOMAIN tasks' = DOMAIN tasks => ForwardersOK'
    <2>1. UNCHANGED <<channels, hub>> => BusOK'
      BY <1>0 DEF BusOK
    <2>2. UNCHANGED engine => EngineOK'
      BY <1>0 DEF engine, EngineOK
    <2>3. UNCHANGED <<listening, commands, joining, forwarders>> => LinkOK'
      BY <1>0 DEF LinkOK
    <2>4. UNCHANGED <<channels, stream>> => StreamOK'
      BY <1>0 DEF stream, StreamOK, TaskOK
    <2>5. forwarders' = forwarders /\ DOMAIN tasks' = DOMAIN tasks => ForwardersOK'
      BY <1>0 DEF ForwardersOK
    <2> QED BY <2>1, <2>2, <2>3, <2>4, <2>5
  <1>1. ASSUME NEW r, Publish(r), hub' = hub, UNCHANGED stream PROVE BusOK' /\ StreamOK'
    <2>1. /\ channels' \in Seq(Channel) /\ Len(channels') = Len(channels)
          /\ \A k \in DOMAIN channels : /\ channels'[k].open = channels[k].open
                                        /\ channels'[k].sent >= channels[k].sent
      BY <1>1, <1>a, PublishStep
    <2>2. DOMAIN channels' = DOMAIN channels
      BY <1>a, <2>1
    <2>3. BusOK'
      BY <1>0, <1>1, <2>1, <2>2 DEF BusOK
    <2>4. StreamOK'
      BY <1>1, <1>a, <2>1, StreamKept
    <2> QED BY <2>3, <2>4
  <1>2. ASSUME NEW r \in Resources, Announce(r) PROVE Wellformed'
    BY <1>1, <1>2, <1>b DEF Announce, link, stream, Wellformed
  <1>3. ASSUME NEW r \in Resources, CreateInsert(r) PROVE Wellformed'
    <2>1. EngineOK'
      BY <1>0, <1>3 DEF CreateInsert, EngineOK
    <2> QED BY <1>3, <1>b, <2>1 DEF CreateInsert, bus, link, stream, Wellformed
  <1>4. ASSUME NEW r \in Resources, DeleteRemove(r) PROVE Wellformed'
    <2>1. EngineOK'
      BY <1>0, <1>4 DEF DeleteRemove, EngineOK
    <2> QED BY <1>4, <1>b, <2>1 DEF DeleteRemove, bus, link, stream, Wellformed
  <1>5. CASE PublishTopology
    <2>1. EngineOK'
      BY <1>0, <1>5 DEF PublishTopology, EngineOK, Idle
    <2> QED BY <1>1, <1>5, <1>b, <2>1 DEF PublishTopology, link, stream, Wellformed
  <1>6. CASE Reclaim
    <2>1. EngineOK'
      BY <1>0, <1>6 DEF Reclaim, EngineOK
    <2>2. /\ BusOK' /\ Len(channels') = Len(channels)
          /\ \A k \in DOMAIN channels : channels'[k].sent = channels[k].sent
      BY <1>0, <1>6, ReclaimStep DEF Reclaim
    <2>3. \A k \in DOMAIN channels : channels'[k].sent >= channels[k].sent
      BY <1>a, <2>2 DEF Channel
    <2>4. StreamOK'
      BY <1>6, <1>a, <2>2, <2>3, StreamKept DEF Reclaim, BusOK
    <2> QED BY <1>6, <1>b, <2>1, <2>2, <2>4 DEF Reclaim, link, stream, Wellformed
  <1>7. ASSUME NEW r \in Resources, Listen(r) PROVE Wellformed'
    <2>1. /\ Kept(r) \subseteq listening /\ IsFiniteSet(Kept(r))
          /\ Cardinality(Kept(r)) <= Cardinality(listening)
      BY <1>0, FS_Subset DEF LinkOK, Kept
    <2>2. /\ Cardinality(Kept(r)) \in Nat /\ Cardinality(listening) \in Nat
          /\ MaxListen \in Nat /\ Cardinality(listening) <= MaxListen
      BY <1>0, <2>1, FS_CardinalityType DEF LinkOK
    <2>3. CASE r \notin Kept(r) /\ Cardinality(Kept(r)) >= MaxListen
      <3>1. LinkOK'
        BY <1>0, <1>7, <2>1, <2>2, <2>3 DEF Listen, LinkOK
      <3> QED BY <1>7, <1>b, <3>1 DEF Listen, bus, stream, Wellformed
    <2>4. CASE ~(r \notin Kept(r) /\ Cardinality(Kept(r)) >= MaxListen)
      <3>1. /\ listening' = Kept(r) \cup {r}
            /\ commands' = Append(commands, Command("Subscribe", r))
            /\ UNCHANGED <<joining, forwarders>>
        BY <1>7, <2>4 DEF Listen
      <3>2. /\ IsFiniteSet(Kept(r) \cup {r})
            /\ Cardinality(Kept(r) \cup {r}) =
                  IF r \in Kept(r) THEN Cardinality(Kept(r)) ELSE Cardinality(Kept(r)) + 1
        BY <2>1, FS_AddElement
      <3>3. Cardinality(listening') <= MaxListen
        BY <2>1, <2>2, <2>4, <3>1, <3>2
      <3>4. Command("Subscribe", r) \in Commands
        BY DEF Command, Commands
      <3>5. LinkOK'
        BY <1>0, <2>1, <3>1, <3>2, <3>3, <3>4 DEF LinkOK
      <3> QED BY <1>7, <1>b, <3>5 DEF Listen, bus, stream, Wellformed
    <2> QED BY <2>3, <2>4
  <1>8. ASSUME NEW c \in Commands, NEW L, L \subseteq listening, listening' = L,
               commands' = Append(commands, c),
               UNCHANGED <<engine, bus, connected, joining, forwarders, stream>>
        PROVE  Wellformed'
    <2>1. IsFiniteSet(L) /\ Cardinality(L) <= Cardinality(listening)
      BY <1>0, <1>8, FS_Subset DEF LinkOK
    <2>2. Cardinality(L) \in Nat /\ Cardinality(listening) \in Nat
      BY <1>0, <2>1, FS_CardinalityType DEF LinkOK
    <2>3. LinkOK'
      BY <1>0, <1>8, <2>1, <2>2 DEF LinkOK
    <2> QED BY <1>8, <1>b, <2>3 DEF bus, stream, Wellformed
  <1>9. ASSUME NEW r \in Resources, Unlisten(r) PROVE Wellformed'
    <2>1. Command("Unsubscribe", r) \in Commands
      BY DEF Command, Commands
    <2> QED BY <1>8, <1>9, <2>1 DEF Unlisten
  <1>10. CASE UnlistenAll
    <2>1. Command("UnsubscribeAll", "all") \in Commands
      BY DEF Commands
    <2> QED BY <1>8, <1>10, <2>1 DEF UnlistenAll
  \* The command at the head, once it is taken.
  <1>c. ASSUME NEW op, Pending(op)
        PROVE  /\ Head(commands) \in Commands /\ Tail(commands) \in Seq(Commands)
               /\ op \in {"Subscribe", "Unsubscribe"} => Head(commands).res \in Resources
    <2>1. /\ Head(commands) \in Commands /\ Tail(commands) \in Seq(Commands)
          /\ Head(commands).op = op
      BY <1>a, <1>c DEF Pending
    <2> QED BY <2>1 DEF Commands, Command
  <1>11. CASE HandleSubscribe
    <2>1. /\ Head(commands).res \in Resources /\ Tail(commands) \in Seq(Commands)
          /\ commands' = Tail(commands) /\ forwarders' = Unfinished
          /\ joining' = <<>> \/ joining' = <<Head(commands).res>>
          /\ listening' = listening \/ listening' = listening \ {Head(commands).res}
          /\ UNCHANGED <<engine, bus, stream>>
      BY <1>11, <1>c DEF HandleSubscribe
    <2>2. /\ listening' \subseteq listening /\ IsFiniteSet(listening')
          /\ Cardinality(listening') <= Cardinality(listening)
      BY <1>0, <2>1, FS_Subset DEF LinkOK
    <2>3. Cardinality(listening) \in Nat /\ Cardinality(listening') \in Nat
      BY <1>0, <2>2, FS_CardinalityType DEF LinkOK
    <2>4. LinkOK'
      BY <1>0, <2>1, <2>2, <2>3 DEF LinkOK, Unfinished
    <2>5. ForwardersOK'
      BY <1>0, <2>1 DEF ForwardersOK, Unfinished, stream
    <2> QED BY <1>b, <2>1, <2>4, <2>5 DEF bus, stream, Wellformed
  <1>12. CASE JoinHub
    <2> DEFINE r == Head(joining)
               k == IF r \notin DOMAIN hub THEN Len(channels) + 1 ELSE hub[r]
               sent == IF r \notin DOMAIN hub THEN 0 ELSE channels[k].sent
               t == [chan |-> k, pos |-> sent, at |-> "running", pending |-> <<>>]
    <2>1. /\ channels' = IF r \notin DOMAIN hub
                         THEN Append(channels, [sent |-> 0, open |-> TRUE]) ELSE channels
          /\ hub' = [q \in DOMAIN hub \cup {r} |-> IF q = r THEN k ELSE hub[q]]
          /\ tasks' = Append(tasks, t) /\ heard' = Append(heard, sent)
          /\ forwarders' = [q \in DOMAIN forwarders \cup {r} |->
                               IF q = r THEN Len(tasks) + 1 ELSE forwarders[q]]
          /\ joining' = <<>> /\ joining # <<>>
          /\ UNCHANGED <<engine, listening, commands, outbox>>
      BY <1>12 DEF JoinHub
    <2>2. r \in Resources
      BY <1>0, <2>1 DEF LinkOK
    <2>3. /\ channels' \in Seq(Channel) /\ Len(channels) <= Len(channels')
          /\ Len(channels) \in Nat /\ Len(channels') \in Nat
          /\ \A j \in DOMAIN channels : channels'[j] = channels[j]
          /\ r \notin DOMAIN hub => /\ Len(channels') = Len(channels) + 1
                                   /\ channels'[k] = [sent |-> 0, open |-> TRUE]
          /\ DOMAIN channels' = 1 .. Len(channels')
          /\ DOMAIN channels \subseteq DOMAIN channels'
      <3>1. [sent |-> 0, open |-> TRUE] \in Channel
        BY DEF Channel
      <3>2. /\ channels' \in Seq(Channel) /\ Len(channels) <= Len(channels')
            /\ Len(channels) \in Nat /\ Len(channels') \in Nat
            /\ \A j \in DOMAIN channels : channels'[j] = channels[j]
            /\ r \notin DOMAIN hub => /\ Len(channels') = Len(channels) + 1
                                     /\ channels'[k] = [sent |-> 0, open |-> TRUE]
            /\ DOMAIN channels' = 1 .. Len(channels')
        BY <1>a, <2>1, <3>1
      <3>3. 1 .. Len(channels) \subseteq 1 .. Len(channels')
        <4>1. Len(channels) \in Nat /\ Len(channels') \in Nat /\ Len(channels) <= Len(channels')
          BY <3>2
        <4> QED BY ONLY <4>1
      <3> QED BY <1>a, <3>2, <3>3
    <2>4. /\ k \in DOMAIN channels' /\ channels'[k].open /\ sent = channels'[k].sent
          /\ k \in Nat /\ sent \in Nat
      <3>1. CASE r \in DOMAIN hub
        <4>1. k = hub[r] /\ hub[r] \in DOMAIN channels /\ channels[hub[r]].open
          BY <1>0, <3>1 DEF BusOK
        <4>2. channels[hub[r]] \in Channel /\ hub[r] \in Nat
          BY <1>a, <4>1
        <4>3. sent = channels[hub[r]].sent
          BY <3>1
        <4> HIDE DEF k, sent
        <4> QED BY <2>3, <4>1, <4>2, <4>3 DEF Channel
      <3>2. CASE r \notin DOMAIN hub
        BY <1>a, <2>3, <3>2
      <3> QED BY <3>1, <3>2
    <2>5. BusOK'
      <3>1. DOMAIN hub' = DOMAIN hub \cup {r} /\ hub'[r] = k
        BY <2>1
      <3>2. \A q \in DOMAIN hub : q # r => hub'[q] = hub[q] /\ hub[q] # k
        BY <1>0, <1>a, <2>1, <2>3 DEF BusOK
      <3>3. \A q \in DOMAIN hub : hub[q] \in DOMAIN channels /\ channels'[hub[q]].open
        BY <1>0, <2>3 DEF BusOK
      <3> HIDE DEF k, r
      <3> QED BY <1>0, <2>2, <2>3, <2>4, <3>1, <3>2, <3>3 DEF BusOK
    <2>6. LinkOK'
      BY <1>0, <2>1, <2>2 DEF LinkOK
    <2>7. /\ t \in Task /\ tasks' \in Seq(Task) /\ Len(tasks') = Len(tasks) + 1
          /\ \A f \in DOMAIN tasks : tasks'[f] = tasks[f]
          /\ tasks'[Len(tasks) + 1] = t /\ DOMAIN tasks' = DOMAIN tasks \cup {Len(tasks) + 1}
          /\ Len(tasks) \in Nat
      <3>1. <<>> \in Seq(Items)
        OBVIOUS
      <3>2. t \in Task
        BY <2>4, <3>1 DEF Task
      <3> HIDE DEF t
      <3>3. tasks' \in Seq(Task) /\ Len(tasks') = Len(tasks) + 1 /\ Len(tasks) \in Nat
        BY <1>a, <2>1, <3>2
      <3>4. /\ \A f \in DOMAIN tasks : tasks'[f] = tasks[f]
            /\ tasks'[Len(tasks) + 1] = t
        BY <1>a, <2>1, <3>2
      <3>5. DOMAIN tasks' = 1 .. (Len(tasks) + 1)
        BY <3>3
      <3>6. 1 .. (Len(tasks) + 1) = DOMAIN tasks \cup {Len(tasks) + 1}
        BY <1>a, <3>3
      <3> QED BY <3>2, <3>3, <3>4, <3>5, <3>6
    <2>8. ForwardersOK'
      <3>1. Len(tasks) + 1 \notin DOMAIN tasks
        BY <1>a, <2>7
      <3> HIDE DEF r, t
      <3> QED BY <1>0, <2>1, <2>7, <3>1 DEF ForwardersOK
    <2>9. StreamOK'
      <3>1. ASSUME NEW f \in DOMAIN tasks' PROVE TaskOK(f)'
        <4>1. CASE f = Len(tasks) + 1
          <5>1. /\ tasks'[f].chan = k /\ tasks'[f].pos = sent
                /\ tasks'[f].pending = <<>>
            BY <2>7, <4>1
          <5> HIDE DEF k, sent
          <5> QED BY <2>4, <5>1 DEF TaskOK
        <4>2. CASE f # Len(tasks) + 1
          <5>1. f \in DOMAIN tasks /\ tasks'[f] = tasks[f] /\ TaskOK(f)
            BY <1>a, <2>7, <4>2
          <5>2. tasks[f].chan \in DOMAIN channels'
            BY <1>a, <2>3, <5>1 DEF TaskOK
          <5> QED BY <2>3, <5>1, <5>2 DEF TaskOK
        <4> QED BY <4>1, <4>2
      <3>2. heard' \in Seq(Nat) /\ Len(heard') = Len(tasks')
        <4> HIDE DEF sent, t
        <4> QED BY <1>0, <1>a, <2>1, <2>4, <2>7 DEF StreamOK
      <3>3. outbox' = outbox /\ \A j \in DOMAIN outbox : outbox[j].task \in DOMAIN tasks'
        BY <1>0, <2>1, <2>7 DEF StreamOK
      <3> HIDE DEF t
      <3> QED BY <1>0, <2>7, <3>1, <3>2, <3>3 DEF StreamOK
    <2> QED BY <1>b, <2>1, <2>5, <2>6, <2>8, <2>9 DEF Wellformed
  \* Aborting tasks keeps the streams well formed.
  <1>d. ASSUME NEW F, Abort(F), UNCHANGED <<channels, heard>>,
               outbox' = outbox \/ outbox' = <<>>
        PROVE  StreamOK' /\ DOMAIN tasks' = DOMAIN tasks
    <2>1. /\ tasks' \in Seq(Task) /\ Len(tasks') = Len(tasks)
          /\ \A f \in DOMAIN tasks :
                /\ tasks'[f].chan = tasks[f].chan /\ tasks'[f].pos = tasks[f].pos
                /\ \/ tasks'[f] = tasks[f]
                   \/ tasks'[f].at = "aborted" /\ tasks'[f].pending = <<>>
      BY <1>a, <1>d, AbortStep
    <2>2. DOMAIN tasks' = DOMAIN tasks
      BY <1>a, <2>1
    <2>3. \A f \in DOMAIN tasks' : TaskOK(f)'
      BY <1>a, <1>d, <2>1, <2>2 DEF TaskOK
    <2>4. /\ outbox' \in Seq(Items) /\ Len(outbox') <= QueueLimit
          /\ \A j \in DOMAIN outbox' : outbox'[j].task \in DOMAIN tasks
      <3>1. CASE outbox' = outbox
        BY <1>0, <3>1 DEF StreamOK
      <3>2. CASE outbox' = <<>>
        BY <3>2
      <3> QED BY <1>d, <3>1, <3>2
    <2> QED BY <1>0, <1>d, <2>1, <2>2, <2>3, <2>4 DEF StreamOK
  <1>13. CASE HandleUnsubscribe
    <2>1. /\ StreamOK' /\ DOMAIN tasks' = DOMAIN tasks
      BY <1>13, <1>d DEF HandleUnsubscribe, bus
    <2>2. /\ Tail(commands) \in Seq(Commands) /\ commands' = Tail(commands)
          /\ forwarders' = [q \in DOMAIN forwarders \ {Head(commands).res} |-> forwarders[q]]
          /\ UNCHANGED <<engine, bus, listening, joining>>
      BY <1>13, <1>c DEF HandleUnsubscribe
    <2>3. LinkOK' /\ ForwardersOK'
      BY <1>0, <2>1, <2>2 DEF LinkOK, ForwardersOK
    <2> QED BY <1>b, <2>1, <2>2, <2>3 DEF bus, Wellformed
  <1>14. CASE HandleUnsubscribeAll
    <2>1. /\ StreamOK' /\ DOMAIN tasks' = DOMAIN tasks
      BY <1>14, <1>d DEF HandleUnsubscribeAll, bus
    <2>2. /\ Tail(commands) \in Seq(Commands) /\ commands' = Tail(commands)
          /\ forwarders' = NoForwarders
          /\ UNCHANGED <<engine, bus, listening, joining>>
      BY <1>14, <1>c DEF HandleUnsubscribeAll
    <2>3. LinkOK' /\ ForwardersOK'
      BY <1>0, <2>1, <2>2 DEF LinkOK, ForwardersOK, NoForwarders
    <2> QED BY <1>b, <2>1, <2>2, <2>3 DEF bus, Wellformed
  <1>15. CASE Deliver
    <2>1. /\ Head(outbox) \in Items /\ Tail(outbox) \in Seq(Items) /\ outbox # <<>>
          /\ Len(Tail(outbox)) = Len(outbox) - 1 /\ Len(outbox) \in Nat \ {0}
          /\ \A j \in 1 .. Len(Tail(outbox)) : Tail(outbox)[j] = outbox[j + 1]
          /\ Head(outbox) = outbox[1]
      BY <1>15, <1>a DEF Deliver
    <2>2. Head(outbox).task \in DOMAIN tasks
      BY <1>0, <2>1 DEF StreamOK
    <2>3. /\ outbox' = Tail(outbox) /\ UNCHANGED <<engine, bus, link, tasks>>
          /\ heard' = [heard EXCEPT ![Head(outbox).task] = Accounted(@, Head(outbox))]
      BY <1>15 DEF Deliver
    <2>4. heard' \in Seq(Nat) /\ Len(heard') = Len(tasks)
      <3>1. Head(outbox).task \in 1 .. Len(heard) /\ Len(heard) = Len(tasks)
        BY <1>0, <1>a, <2>2 DEF StreamOK
      <3>2. Accounted(heard[Head(outbox).task], Head(outbox)) \in Nat
        <4>1. heard[Head(outbox).task] \in Nat
          BY <1>a, <3>1, ElementOfSeq
        <4>2. Head(outbox).val \in Nat
          BY <2>1 DEF Items
        <4> QED BY <4>1, <4>2 DEF Accounted
      <3> QED BY <1>a, <2>3, <3>1, <3>2
    <2>5. \A j \in DOMAIN outbox' : outbox'[j].task \in DOMAIN tasks
      <3>1. DOMAIN outbox' = 1 .. (Len(outbox) - 1)
        BY <2>1, <2>3
      <3>2. \A j \in 1 .. (Len(outbox) - 1) : outbox'[j] = outbox[j + 1] /\ j + 1 \in DOMAIN outbox
        BY <1>a, <2>1, <2>3
      <3> QED BY <1>0, <3>1, <3>2 DEF StreamOK
    <2>6. StreamOK'
      BY <1>0, <2>1, <2>3, <2>4, <2>5 DEF StreamOK, bus, TaskOK
    <2> QED BY <1>b, <2>3, <2>6 DEF bus, link, Wellformed
  <1>16. CASE Disconnect
    <2>1. /\ StreamOK' /\ DOMAIN tasks' = DOMAIN tasks
      BY <1>16, <1>d DEF Disconnect, bus
    <2>2. /\ listening' = {} /\ commands' = <<>> /\ forwarders' = NoForwarders
          /\ UNCHANGED <<engine, bus, joining>>
      BY <1>16 DEF Disconnect
    <2>3. LinkOK' /\ ForwardersOK'
      BY <1>0, <2>1, <2>2, FS_EmptySet DEF LinkOK, ForwardersOK, NoForwarders
    <2> QED BY <1>b, <2>1, <2>2, <2>3 DEF bus, Wellformed
  \* A step of one forwarder.
  <1>e. ASSUME NEW f \in DOMAIN tasks, NEW t \in Task, tasks' = [tasks EXCEPT ![f] = t],
               UNCHANGED <<channels, heard>>, TaskOK(f)',
               outbox' \in Seq(Items), Len(outbox') <= QueueLimit,
               \A k \in DOMAIN outbox' : outbox'[k].task \in DOMAIN tasks
        PROVE  StreamOK' /\ DOMAIN tasks' = DOMAIN tasks
    <2>1. tasks' \in Seq(Task) /\ Len(tasks') = Len(tasks) /\ DOMAIN tasks' = DOMAIN tasks
      BY <1>a, <1>e
    <2>2. ASSUME NEW g \in DOMAIN tasks', g # f PROVE TaskOK(g)'
      BY <1>a, <1>e, <2>1, <2>2 DEF TaskOK
    <2> QED BY <1>0, <1>e, <2>1, <2>2 DEF StreamOK
  <1>17. ASSUME NEW f \in DOMAIN tasks, Recv(f) PROVE Wellformed'
    <2> DEFINE chan == channels[tasks[f].chan]
               pos == tasks[f].pos
    <2>1. /\ tasks[f] \in Task /\ chan \in Channel /\ pos \in Nat /\ chan.sent \in Nat
          /\ tasks[f].at = "running" /\ tasks[f].pending = <<>> /\ pos <= chan.sent
          /\ tasks[f].chan \in DOMAIN channels
          /\ UNCHANGED <<engine, bus, link, outbox, heard>>
          /\ Ring \in Nat /\ f \in Nat
      <3>1. tasks[f] \in Task /\ TaskOK(f) /\ f \in Nat
        BY <1>a
      <3>2. chan \in Channel
        BY <1>a, <3>1 DEF TaskOK
      <3>3. pos \in Nat
        BY <3>1 DEF Task
      <3>4. chan.sent \in Nat
        BY <3>2 DEF Channel
      <3> QED BY <1>17, <3>1, <3>2, <3>3, <3>4 DEF Recv, TaskOK
    <2>2. ASSUME NEW n \in Nat, NEW it \in Items, it.task = f, pos + n <= chan.sent,
                 tasks' = [tasks EXCEPT ![f].pos = pos + n, ![f].pending = <<it>>]
          PROVE  StreamOK' /\ DOMAIN tasks' = DOMAIN tasks
      <3> DEFINE t == [tasks[f] EXCEPT !.pos = pos + n, !.pending = <<it>>]
      <3>1. t \in Task /\ t.chan = tasks[f].chan /\ t.pos = pos + n /\ t.at = "running"
            /\ t.pending = <<it>>
        BY <2>1, <2>2 DEF Task
      <3>2. tasks' = [tasks EXCEPT ![f] = t]
        BY <2>1, <2>2 DEF Task
      <3> HIDE DEF t
      <3>3. tasks'[f] = t
        BY <3>2, <1>a
      <3>4. TaskOK(f)'
        <4>1. Len(<<it>>) = 1 /\ <<it>>[1] = it
          OBVIOUS
        <4>2. channels' = channels
          BY <2>1 DEF bus
        <4> QED BY <2>1, <2>2, <3>1, <3>3, <4>1, <4>2 DEF TaskOK
      <3> QED BY <1>0, <1>e, <2>1, <3>1, <3>2, <3>4 DEF StreamOK, bus
    <2>3. CASE tasks' = [tasks EXCEPT ![f].at = "finished"]
      <3> DEFINE t == [tasks[f] EXCEPT !.at = "finished"]
      <3>1. t \in Task /\ t.chan = tasks[f].chan /\ t.pos = pos /\ t.pending = <<>>
        BY <2>1 DEF Task
      <3>2. tasks' = [tasks EXCEPT ![f] = t]
        BY <2>3
      <3> HIDE DEF t
      <3>3. tasks'[f] = t
        BY <3>2, <1>a
      <3>4. TaskOK(f)'
        BY <2>1, <3>1, <3>3 DEF TaskOK, bus
      <3> QED BY <1>0, <1>b, <1>e, <2>1, <3>1, <3>2, <3>4 DEF StreamOK, bus, link, Wellformed
    <2>4. CASE chan.sent - pos > Ring /\ TellLag(f, chan.sent - Ring - pos)
      <3> DEFINE n == chan.sent - Ring - pos
      <3>1. n \in Nat /\ pos + n <= chan.sent /\ Item(f, "lagged", n) \in Items
            /\ Item(f, "lagged", n).task = f
        <4>1. n \in Nat /\ pos + n <= chan.sent
          <5>1. chan.sent \in Nat /\ pos \in Nat /\ Ring \in Nat /\ chan.sent - pos > Ring
            BY <2>1, <2>4
          <5> HIDE DEF chan, pos
          <5> QED BY ONLY <5>1
        <4> HIDE DEF n
        <4> QED BY <2>1, <4>1 DEF Item, Items
      <3>2. tasks' = [tasks EXCEPT ![f].pos = pos + n, ![f].pending = <<Item(f, "lagged", n)>>]
        BY <2>4 DEF TellLag
      <3> HIDE DEF n
      <3> QED BY <1>b, <2>1, <2>2, <3>1, <3>2 DEF bus, link, Wellformed
    <2>5. CASE /\ pos < chan.sent
               /\ tasks' = [tasks EXCEPT ![f].pos = pos + 1,
                                         ![f].pending = <<Item(f, "notice", pos + 1)>>]
      <3>1. pos + 1 <= chan.sent /\ Item(f, "notice", pos + 1) \in Items
            /\ Item(f, "notice", pos + 1).task = f
        BY <2>1, <2>5 DEF Item, Items
      <3> QED BY <1>b, <2>1, <2>2, <2>5, <3>1 DEF bus, link, Wellformed
    <2> QED BY <1>17, <2>3, <2>4, <2>5 DEF Recv
  <1>18. ASSUME NEW f \in DOMAIN tasks, Send(f) PROVE Wellformed'
    <2> DEFINE t == [tasks[f] EXCEPT !.pending = <<>>]
    <2>1. /\ tasks[f] \in Task /\ TaskOK(f) /\ tasks[f].pending # <<>>
          /\ tasks[f].pending \in Seq(Items) /\ Len(outbox) < QueueLimit
          /\ outbox' = outbox \o tasks[f].pending
          /\ tasks' = [tasks EXCEPT ![f].pending = <<>>]
          /\ UNCHANGED <<engine, bus, link, heard>>
      BY <1>a, <1>18 DEF Send, Space, Task
    <2>2. /\ t \in Task /\ t.chan = tasks[f].chan /\ t.pos = tasks[f].pos /\ t.pending = <<>>
          /\ tasks' = [tasks EXCEPT ![f] = t]
      <3>1. <<>> \in Seq(Items)
        OBVIOUS
      <3> QED BY <2>1, <3>1 DEF Task
    <2> HIDE DEF t
    <2>3. tasks'[f] = t
      BY <1>a, <2>2
    <2>4. TaskOK(f)'
      BY <2>1, <2>2, <2>3 DEF TaskOK, bus
    <2>5. Len(tasks[f].pending) = 1 /\ tasks[f].pending[1].task = f
      BY <2>1 DEF TaskOK
    <2>6. /\ outbox' \in Seq(Items) /\ Len(outbox') = Len(outbox) + 1
          /\ \A k \in 1 .. Len(outbox) : outbox'[k] = outbox[k]
          /\ outbox'[Len(outbox) + 1] = tasks[f].pending[1]
          /\ DOMAIN outbox' = 1 .. (Len(outbox) + 1) /\ DOMAIN outbox = 1 .. Len(outbox)
          /\ Len(outbox) \in Nat
      <3> DEFINE p == tasks[f].pending
      <3>1. p \in Seq(Items) /\ Len(p) = 1 /\ outbox' = outbox \o p
        BY <2>1, <2>5
      <3> HIDE DEF p
      <3>2. /\ outbox' \in Seq(Items) /\ Len(outbox') = Len(outbox) + 1
            /\ Len(outbox) \in Nat
        <4>1. outbox \in Seq(Items) /\ Len(outbox) \in Nat
          BY <1>a
        <4>2. outbox \o p \in Seq(Items) /\ Len(outbox \o p) = Len(outbox) + Len(p)
          BY <3>1, <4>1, ConcatProperties
        <4> QED BY ONLY <3>1, <4>1, <4>2
      <3>3. /\ \A k \in 1 .. Len(outbox) : outbox'[k] = outbox[k]
            /\ outbox'[Len(outbox) + 1] = p[1]
        BY <1>a, <3>1, <3>2
      <3>4. DOMAIN outbox' = 1 .. (Len(outbox) + 1) /\ DOMAIN outbox = 1 .. Len(outbox)
        BY <1>a, <3>2
      <3> QED BY <3>2, <3>3, <3>4 DEF p
    <2>7. \A k \in DOMAIN outbox' : outbox'[k].task \in DOMAIN tasks
      <3>1. \A k \in DOMAIN outbox' : k \in 1 .. Len(outbox) \/ k = Len(outbox) + 1
        BY <2>6
      <3> QED BY <1>0, <2>5, <2>6, <3>1 DEF StreamOK
    <2>8. QueueLimit \in Nat
      OBVIOUS
    <2>9. Len(outbox') <= QueueLimit
      BY <2>1, <2>6, <2>8
    <2>10. StreamOK' /\ DOMAIN tasks' = DOMAIN tasks
      BY <1>e, <2>1, <2>2, <2>4, <2>6, <2>7, <2>9 DEF bus
    <2> QED BY <1>b, <2>1, <2>10 DEF bus, link, Wellformed
  <1>19. CASE UNCHANGED vars
    BY <1>b, <1>19 DEF vars, bus, link, stream, Wellformed
  <1> QED BY <1>2, <1>3, <1>4, <1>5, <1>6, <1>7, <1>9, <1>10, <1>11, <1>12, <1>13,
             <1>14, <1>15, <1>16, <1>17, <1>18, <1>19
          DEF Next, TopologyStep, ClientStep, CommandStep, ForwarderStep

\* Before anything happens every table is empty.
LEMMA WellformedInit == Init => Wellformed
  BY FS_EmptySet, SubscriptionsAssumption
     DEF Init, Wellformed, BusOK, EngineOK, LinkOK, ForwardersOK, StreamOK, NoForwarders

\* However slowly the client reads and whatever is deleted meanwhile, every
\* reference between hub, channels, forwarders and tasks is good, no forwarder
\* is ahead of its channel, and the queue and the subscriptions of a
\* connection stay within their limits.
THEOREM TypeCorrect == Spec => []TypeOK
  BY WellformedInit, WellformedStep, WellformedIsTyped, PTL DEF Spec

-------------------------------------------------------------------------------
(* Channels are reclaimed.                                                 *)

\* While a delete is under way its resource is gone and its channel is not.
HubCovered ==
    DOMAIN hub \subseteq alive \cup leaked
                  \cup {r \in Resources : topology.op = "delete" /\ topology.res = r}

\* One step per action that touches the hub, the resources or a delete.
LEMMA HubCoveredStep == Wellformed /\ HubCovered /\ [Next]_vars => HubCovered'
  <1> SUFFICES ASSUME Wellformed, HubCovered, [Next]_vars PROVE HubCovered'
    OBVIOUS
  <1> USE DEF HubCovered
  <1>0. EngineOK /\ BusOK /\ LinkOK
    BY DEF Wellformed
  <1>1. ASSUME UNCHANGED <<engine, hub, leaked>> PROVE HubCovered'
    BY <1>1 DEF engine
  <1>2. ASSUME NEW r \in Resources, CreateInsert(r) PROVE HubCovered'
    BY <1>2 DEF CreateInsert, bus, Idle
  <1>3. ASSUME NEW r \in Resources, DeleteRemove(r) PROVE HubCovered'
    BY <1>3 DEF DeleteRemove, bus, Idle
  <1>4. CASE PublishTopology
    BY <1>0, <1>4 DEF PublishTopology, ghosts, EngineOK, Idle
  <1>5. CASE Reclaim
    <2>1. /\ topology.op = "delete" /\ topology.res \in Resources
          /\ DOMAIN hub' = DOMAIN hub \ {topology.res}
          /\ leaked' = leaked \ {topology.res} /\ alive' = alive
      BY <1>0, <1>5 DEF Reclaim, Reclaimed, EngineOK, Idle
    <2> QED BY <2>1
  <1>6. CASE JoinHub
    <2>1. /\ DOMAIN hub' = DOMAIN hub \cup {Head(joining)}
          /\ leaked' = IF Head(joining) \in alive THEN leaked
                       ELSE leaked \cup {Head(joining)}
          /\ UNCHANGED engine
      BY <1>6 DEF JoinHub
    <2> QED BY <2>1 DEF engine
  <1>7. CASE ClientStep
    BY <1>1, <1>7 DEF ClientStep, Listen, Unlisten, UnlistenAll, bus
  <1>8. CASE HandleSubscribe \/ HandleUnsubscribe \/ HandleUnsubscribeAll
    BY <1>1, <1>8
       DEF HandleSubscribe, HandleUnsubscribe, HandleUnsubscribeAll, bus, ghosts
  <1>9. CASE Deliver \/ Disconnect
    BY <1>1, <1>9 DEF Deliver, Disconnect, bus, ghosts
  <1>10. ASSUME NEW f \in DOMAIN tasks, ForwarderStep(f) PROVE HubCovered'
    BY <1>1, <1>10 DEF ForwarderStep, Recv, Send, bus, ghosts
  <1>11. ASSUME NEW r \in Resources, Announce(r) PROVE HubCovered'
    BY <1>1, <1>11 DEF Announce, ghosts
  <1>12. CASE UNCHANGED vars
    BY <1>1, <1>12 DEF vars, bus, ghosts
  <1> QED BY <1>2, <1>3, <1>4, <1>5, <1>6, <1>7, <1>8, <1>9, <1>10, <1>11, <1>12
          DEF Next, TopologyStep, CommandStep

\* NotifyHub::remove leaves no ring behind, whichever Subscribe, publish or
\* reader a delete runs against: between topology changes every channel is one
\* of a resource that exists, or of one whose delete came between a
\* Subscribe's last check and its subscription.
THEOREM HubReclaimed == Spec => []ChannelsReclaimed
  <1>1. Init => HubCovered
    BY DEF Init, HubCovered
  <1>2. HubCovered => ChannelsReclaimed
    BY DEF HubCovered, ChannelsReclaimed, Idle
  <1> QED BY <1>1, <1>2, WellformedInit, WellformedStep, HubCoveredStep, PTL DEF Spec

-------------------------------------------------------------------------------
(* Streams have no silent gap.                                             *)

\* account is a good account of the stream of f: NoSilentGap asks for one.
InStep(f, account) ==
    /\ account \in [0 .. Len(outbox) -> 0 .. channels[tasks[f].chan].sent]
    /\ Reads(f, account)
    /\ tasks[f].at # "aborted" =>
          IF tasks[f].pending = <<>> THEN account[Len(outbox)] = tasks[f].pos
          ELSE Follows(Head(tasks[f].pending), account[Len(outbox)], tasks[f].pos)

\* An account stays good while the queue, what the client has read and the
\* stream's own task stay as they are, or the task is aborted.
LEMMA AccountKept ==
    ASSUME Wellformed, NEW f \in DOMAIN tasks, NEW account, InStep(f, account),
           outbox' = outbox, heard'[f] = heard[f],
           channels'[tasks[f].chan].sent \in Nat,
           channels'[tasks[f].chan].sent >= channels[tasks[f].chan].sent,
           \/ tasks'[f] = tasks[f]
           \/ tasks'[f].chan = tasks[f].chan /\ tasks'[f].at = "aborted"
    PROVE  InStep(f, account)'
  <1>1. tasks'[f].chan = tasks[f].chan
    OBVIOUS
  <1>2. channels[tasks[f].chan].sent \in Nat
    <2>1. channels \in [1 .. Len(channels) -> Channel] /\ DOMAIN channels = 1 .. Len(channels)
      BY DEF Wellformed, BusOK
    <2>2. tasks[f].chan \in DOMAIN channels
      BY DEF Wellformed, StreamOK, TaskOK
    <2> QED BY <2>1, <2>2 DEF Channel
  <1>3. 0 .. channels[tasks[f].chan].sent \subseteq 0 .. channels'[tasks[f].chan].sent
    BY <1>2
  <1>4. account \in [0 .. Len(outbox) -> 0 .. channels'[tasks[f].chan].sent]
    BY <1>3 DEF InStep
  <1>5. Reads(f, account)'
    BY DEF InStep, Reads
  <1>6. tasks'[f].at # "aborted" => tasks'[f] = tasks[f]
    OBVIOUS
  <1> QED BY <1>1, <1>4, <1>5, <1>6 DEF InStep

\* A forwarder that has just joined owes the client nothing yet.
LEMMA AccountBegins ==
    ASSUME Wellformed, Wellformed', NEW f \in DOMAIN tasks' \ DOMAIN tasks,
           outbox' = outbox, heard'[f] = tasks'[f].pos, tasks'[f].pending = <<>>
    PROVE  \E account : InStep(f, account)'
  <1> DEFINE n == tasks'[f].pos
             still == [k \in 0 .. Len(outbox) |-> n]
  <1>1. n \in Nat /\ n <= channels'[tasks'[f].chan].sent
        /\ channels'[tasks'[f].chan].sent \in Nat
    <2>1. tasks' \in [1 .. Len(tasks') -> Task] /\ DOMAIN tasks' = 1 .. Len(tasks')
          /\ TaskOK(f)'
      BY DEF Wellformed, StreamOK
    <2>2. channels' \in [1 .. Len(channels') -> Channel] /\ DOMAIN channels' = 1 .. Len(channels')
      BY DEF Wellformed, BusOK
    <2> QED BY <2>1, <2>2 DEF Task, TaskOK, Channel
  <1>2. \A k \in 1 .. Len(outbox) : outbox[k].task # f
    <2>1. DOMAIN outbox = 1 .. Len(outbox)
      BY DEF Wellformed, StreamOK
    <2> QED BY <2>1 DEF Wellformed, StreamOK
  <1>3. Len(outbox) \in Nat
    BY DEF Wellformed, StreamOK
  <1>a. PICK account : account = still
    OBVIOUS
  <1>4. \A k \in 0 .. Len(outbox) : account[k] = n
    BY <1>a
  <1>5. account \in [0 .. Len(outbox) -> 0 .. channels'[tasks'[f].chan].sent]
    <2> HIDE DEF n
    <2> QED BY <1>1, <1>a
  <1> HIDE DEF still
  <1>6. Reads(f, account)'
    <2>1. account[0] = n
      BY <1>3, <1>4
    <2>2. \A k \in 1 .. Len(outbox) : account[k] = account[k - 1]
      BY <1>3, <1>4
    <2> QED BY <1>2, <2>1, <2>2 DEF Reads
  <1>7. account[Len(outbox)] = n
    BY <1>3, <1>4
  <1> QED BY <1>5, <1>6, <1>7 DEF InStep

\* Reading the first item of the queue moves every account on by one place.
LEMMA AccountRead ==
    ASSUME Wellformed, Deliver, NEW f \in DOMAIN tasks, NEW account, InStep(f, account)
    PROVE  \E later : InStep(f, later)'
  <1> DEFINE N == Len(outbox)
             shifted == [k \in 0 .. N - 1 |-> account[k + 1]]
             max == channels[tasks[f].chan].sent
  <1>1. /\ N \in Nat /\ N > 0 /\ outbox' = Tail(outbox) /\ Len(outbox') = N - 1
        /\ Head(outbox) = outbox[1]
        /\ \A k \in 1 .. N - 1 : outbox'[k] = outbox[k + 1]
    <2>1. outbox \in Seq(Items) /\ outbox # <<>> /\ outbox' = Tail(outbox)
      BY DEF Wellformed, StreamOK, Deliver
    <2> QED BY <2>1
  <1>2. /\ tasks' = tasks /\ channels' = channels
        /\ heard' = [heard EXCEPT ![Head(outbox).task] = Accounted(@, Head(outbox))]
    BY DEF Deliver, bus
  <1>3. /\ account \in [0 .. N -> 0 .. max] /\ account[0] = heard[f]
        /\ \A k \in 1 .. N :
              IF outbox[k].task = f THEN Follows(outbox[k], account[k - 1], account[k])
              ELSE account[k] = account[k - 1]
    BY DEF InStep, Reads
  <1>4. heard'[f] = account[1]
    <2>1. f \in DOMAIN heard
      BY DEF Wellformed, StreamOK
    <2>2. IF outbox[1].task = f THEN Follows(outbox[1], account[0], account[1])
          ELSE account[1] = account[0]
      BY <1>1, <1>3
    <2> QED BY <1>1, <1>2, <1>3, <2>1, <2>2 DEF Follows
  <1>a. PICK later : later = shifted
    OBVIOUS
  <1>5. \A k \in 0 .. N - 1 : later[k] = account[k + 1]
    BY <1>a
  <1>6. later \in [0 .. N - 1 -> 0 .. max]
    <2>1. \A k \in 0 .. N - 1 : account[k + 1] \in 0 .. max
      <3> HIDE DEF N, max
      <3>1. \A k \in 0 .. N - 1 : k + 1 \in 0 .. N
        BY <1>1
      <3> QED BY <1>3, <3>1
    <2> HIDE DEF N, max
    <2> QED BY <1>a, <2>1
  <1> HIDE DEF shifted, max
  <1>7. later[0] = heard'[f]
    BY <1>1, <1>4, <1>5
  <1>8. ASSUME NEW k \in 1 .. N - 1
        PROVE  IF outbox'[k].task = f THEN Follows(outbox'[k], later[k - 1], later[k])
               ELSE later[k] = later[k - 1]
    <2> HIDE DEF N
    <2>1. k + 1 \in 1 .. N /\ k \in 0 .. N - 1 /\ k - 1 \in 0 .. N - 1 /\ (k + 1) - 1 = k
          /\ (k - 1) + 1 = k
      BY <1>1
    <2>2. later[k] = account[k + 1] /\ later[k - 1] = account[k] /\ outbox'[k] = outbox[k + 1]
      BY <1>1, <1>5, <2>1
    <2>3. IF outbox[k + 1].task = f THEN Follows(outbox[k + 1], account[k], account[k + 1])
          ELSE account[k + 1] = account[k]
      BY <1>3, <2>1
    <2> QED BY <2>2, <2>3
  <1>9. Reads(f, later)'
    <2> HIDE DEF N
    <2> QED BY <1>1, <1>7, <1>8 DEF Reads
  <1>10. later[N - 1] = account[N]
    BY <1>1, <1>5
  <1>11. later \in [0 .. Len(outbox') -> 0 .. channels'[tasks'[f].chan].sent]
    BY <1>1, <1>2, <1>6 DEF max
  <1>12. tasks'[f].at # "aborted" =>
            IF tasks'[f].pending = <<>> THEN later[Len(outbox')] = tasks'[f].pos
            ELSE Follows(Head(tasks'[f].pending), later[Len(outbox')], tasks'[f].pos)
    BY <1>1, <1>2, <1>10 DEF InStep
  <1>13. InStep(f, later)'
    BY <1>9, <1>11, <1>12 DEF InStep
  <1> QED BY <1>13

\* Queueing one item extends every account by one place: to where the
\* forwarder is for its own stream, and by nothing for the others.
LEMMA AccountQueued ==
    ASSUME Wellformed, NEW g \in DOMAIN tasks, Send(g),
           NEW f \in DOMAIN tasks, NEW account, InStep(f, account)
    PROVE  \E later : InStep(f, later)'
  <1> DEFINE N == Len(outbox)
             max == channels[tasks[f].chan].sent
             item == Head(tasks[g].pending)
             last == IF f = g THEN tasks[f].pos ELSE account[N]
             longer == [k \in 0 .. N + 1 |-> IF k = N + 1 THEN last ELSE account[k]]
  <1>1. /\ tasks \in Seq(Task) /\ DOMAIN tasks = 1 .. Len(tasks) /\ outbox \in Seq(Items)
        /\ \A h \in DOMAIN tasks : TaskOK(h) /\ tasks[h] \in Task
        /\ N \in Nat
    BY DEF Wellformed, StreamOK
  <1>2. /\ tasks[g].pending \in Seq(Items) /\ Len(tasks[g].pending) = 1
        /\ tasks[g].at = "running" /\ item.task = g /\ tasks[g].pending # <<>>
        /\ tasks[g].pending[1] = item
    BY <1>1 DEF Send, Task, TaskOK
  <1>3. /\ Len(outbox') = N + 1 /\ outbox'[N + 1] = item
        /\ \A k \in 1 .. N : outbox'[k] = outbox[k]
    <2> DEFINE p == tasks[g].pending
    <2>1. p \in Seq(Items) /\ Len(p) = 1 /\ p[1] = item /\ outbox' = outbox \o p
      BY <1>2 DEF Send
    <2> HIDE DEF p, item
    <2>2. Len(outbox \o p) = N + 1 /\ Len(outbox) + Len(p) = N + 1
      <3>1. Len(outbox \o p) = Len(outbox) + Len(p)
        BY <1>1, <2>1, ConcatProperties
      <3> QED BY ONLY <2>1, <3>1
    <2>3. \A k \in 1 .. N + 1 : (outbox \o p)[k] = IF k <= N THEN outbox[k] ELSE p[k - N]
      BY <1>1, <2>1, <2>2, ConcatProperties
    <2> HIDE DEF N
    <2>4. N + 1 \in 1 .. N + 1 /\ ~(N + 1 <= N) /\ (N + 1) - N = 1
      BY <1>1
    <2>5. \A k \in 1 .. N : k \in 1 .. N + 1 /\ k <= N
      BY <1>1
    <2> QED BY <2>1, <2>2, <2>3, <2>4, <2>5
  <1>4. /\ channels' = channels /\ heard' = heard
        /\ tasks' = [tasks EXCEPT ![g].pending = <<>>]
    BY DEF Send, bus
  <1>5. /\ tasks'[f].chan = tasks[f].chan /\ tasks'[f].pos = tasks[f].pos
        /\ tasks'[f].at = tasks[f].at
        /\ tasks'[f].pending = IF f = g THEN <<>> ELSE tasks[f].pending
    BY <1>1, <1>4 DEF Task
  <1>6. /\ account \in [0 .. N -> 0 .. max] /\ account[0] = heard[f]
        /\ \A k \in 1 .. N :
              IF outbox[k].task = f THEN Follows(outbox[k], account[k - 1], account[k])
              ELSE account[k] = account[k - 1]
        /\ tasks[f].at # "aborted" =>
              IF tasks[f].pending = <<>> THEN account[N] = tasks[f].pos
              ELSE Follows(Head(tasks[f].pending), account[N], tasks[f].pos)
    BY DEF InStep, Reads
  <1>7. last \in 0 .. max
    <2>1. account[N] \in 0 .. max
      BY <1>1, <1>6
    <2>2. tasks[f].pos \in 0 .. max
      <3>1. channels \in [1 .. Len(channels) -> Channel] /\ DOMAIN channels = 1 .. Len(channels)
        BY DEF Wellformed, BusOK
      <3>2. max \in Nat
        BY <1>1, <3>1 DEF TaskOK, Channel
      <3> QED BY <1>1, <3>2 DEF TaskOK, Task
    <2> QED BY <2>1, <2>2
  <1>a. PICK later : later = longer
    OBVIOUS
  <1>8. \A k \in 0 .. N + 1 : later[k] = IF k = N + 1 THEN last ELSE account[k]
    BY <1>a
  <1>9. later \in [0 .. N + 1 -> 0 .. max]
    <2> HIDE DEF N, max, last
    <2>1. \A k \in 0 .. N + 1 : k # N + 1 => k \in 0 .. N
      BY <1>1
    <2>2. \A k \in 0 .. N + 1 : (IF k = N + 1 THEN last ELSE account[k]) \in 0 .. max
      BY <1>6, <1>7, <2>1
    <2> QED BY <1>a, <2>2
  <1>10. IF item.task = f THEN Follows(item, account[N], last) ELSE last = account[N]
    BY <1>2, <1>6
  <1>11. tasks[f].at # "aborted" /\ f # g =>
            IF tasks[f].pending = <<>> THEN last = tasks[f].pos
            ELSE Follows(Head(tasks[f].pending), last, tasks[f].pos)
    BY <1>6
  <1>12. f = g => last = tasks[f].pos
    OBVIOUS
  <1> HIDE DEF longer, max, last, item
  <1>13. ASSUME NEW k \in 1 .. N + 1
         PROVE  IF outbox'[k].task = f THEN Follows(outbox'[k], later[k - 1], later[k])
                ELSE later[k] = later[k - 1]
    <2> HIDE DEF N
    <2>1. k \in 0 .. N + 1 /\ k - 1 \in 0 .. N + 1 /\ k - 1 # N + 1
      BY <1>1
    <2>2. CASE k = N + 1
      <3>1. later[k] = last /\ later[k - 1] = account[N] /\ outbox'[k] = item
        <4>1. k - 1 = N
          BY <1>1, <2>2
        <4> QED BY <1>3, <1>8, <2>1, <2>2, <4>1
      <3> QED BY <1>10, <3>1
    <2>3. CASE k # N + 1
      <3>1. k \in 1 .. N
        BY <1>1, <2>3
      <3>2. later[k] = account[k] /\ later[k - 1] = account[k - 1] /\ outbox'[k] = outbox[k]
        BY <1>3, <1>8, <2>1, <2>3, <3>1
      <3> QED BY <1>6, <3>1, <3>2
    <2> QED BY <2>2, <2>3
  <1>14. later[0] = heard'[f]
    <2> HIDE DEF N
    <2>1. 0 \in 0 .. N + 1 /\ 0 # N + 1
      BY <1>1
    <2> QED BY <1>4, <1>6, <1>8, <2>1
  <1>15. later[N + 1] = last
    BY <1>1, <1>8
  <1>16. Reads(f, later)'
    <2> HIDE DEF N
    <2> QED BY <1>3, <1>13, <1>14 DEF Reads
  <1>17. later \in [0 .. Len(outbox') -> 0 .. channels'[tasks'[f].chan].sent]
    BY <1>3, <1>4, <1>5, <1>9 DEF max
  <1>18. tasks'[f].at # "aborted" =>
            IF tasks'[f].pending = <<>> THEN later[Len(outbox')] = tasks'[f].pos
            ELSE Follows(Head(tasks'[f].pending), later[Len(outbox')], tasks'[f].pos)
    <2> HIDE DEF N
    <2> QED BY <1>3, <1>5, <1>11, <1>12, <1>15
  <1>19. InStep(f, later)'
    BY <1>16, <1>17, <1>18 DEF InStep
  <1> QED BY <1>19

\* One step per action of Next that touches a stream.
LEMMA GapStep == Wellformed /\ Wellformed' /\ NoSilentGap /\ [Next]_vars => NoSilentGap'
  <1> SUFFICES ASSUME Wellformed, Wellformed', NoSilentGap, [Next]_vars, connected',
                      NEW f \in DOMAIN tasks'
               PROVE  \E account : InStep(f, account)'
    BY DEF NoSilentGap, InStep
  <1>0. /\ channels \in Seq(Channel) /\ tasks \in Seq(Task) /\ heard \in Seq(Nat)
        /\ DOMAIN channels = 1 .. Len(channels) /\ DOMAIN tasks = 1 .. Len(tasks)
        /\ \A k \in DOMAIN channels : channels[k] \in Channel
        /\ \A g \in DOMAIN tasks : tasks[g] \in Task /\ TaskOK(g)
    BY DEF Wellformed, BusOK, StreamOK
  <1>a. ASSUME connected, NEW g \in DOMAIN tasks PROVE \E account : InStep(g, account)
    BY <1>a DEF NoSilentGap, InStep
  \* The channels count on, and neither the queue nor the client's reading nor
  \* the task of f moves, unless it is aborted.
  <1>b. ASSUME connected, f \in DOMAIN tasks, outbox' = outbox, heard'[f] = heard[f],
               channels' \in Seq(Channel), Len(channels) <= Len(channels'),
               \A k \in DOMAIN channels : channels'[k].sent >= channels[k].sent,
               \/ tasks'[f] = tasks[f]
               \/ tasks'[f].chan = tasks[f].chan /\ tasks'[f].at = "aborted"
        PROVE  \E account : InStep(f, account)'
    <2>1. PICK account : InStep(f, account)
      BY <1>a, <1>b
    <2>2. tasks[f].chan \in DOMAIN channels
      BY <1>0, <1>b DEF TaskOK
    <2>3. channels'[tasks[f].chan].sent \in Nat
      <3>1. channels' \in [1 .. Len(channels') -> Channel]
        BY <1>b
      <3>2. Len(channels) \in Nat /\ Len(channels') \in Nat
        BY <1>0, <1>b
      <3>3. tasks[f].chan \in 1 .. Len(channels')
        BY <1>0, <1>b, <2>2, <3>2
      <3> QED BY <3>1, <3>3 DEF Channel
    <2> QED BY <1>b, <2>1, <2>2, <2>3, AccountKept
  <1>c. \A k \in DOMAIN channels : channels[k].sent >= channels[k].sent
    BY <1>0 DEF Channel
  <1>1. ASSUME connected, UNCHANGED <<channels, stream>> PROVE \E account : InStep(f, account)'
    BY <1>0, <1>1, <1>b, <1>c DEF stream
  <1>2. ASSUME connected, NEW r, Publish(r), UNCHANGED stream
        PROVE  \E account : InStep(f, account)'
    <2>1. /\ channels' \in Seq(Channel) /\ Len(channels') = Len(channels)
          /\ \A k \in DOMAIN channels : channels'[k].sent >= channels[k].sent
      BY <1>0, <1>2, PublishStep
    <2> QED BY <1>0, <1>2, <1>b, <2>1 DEF stream
  <1>3. CASE Reclaim
    <2>1. /\ channels' \in Seq(Channel) /\ Len(channels') = Len(channels)
          /\ \A k \in DOMAIN channels : channels'[k].sent = channels[k].sent
      BY <1>3, ReclaimStep DEF Reclaim, Wellformed, BusOK
    <2>2. \A k \in DOMAIN channels : channels'[k].sent >= channels[k].sent
      BY <1>0, <2>1 DEF Channel
    <2>3. connected /\ UNCHANGED stream
      BY <1>3 DEF Reclaim, link
    <2> QED BY <1>0, <1>b, <2>1, <2>2, <2>3 DEF stream
  <1>4. CASE JoinHub
    <2>1. /\ connected /\ outbox' = outbox
          /\ \E k, n : /\ tasks' = Append(tasks, [chan |-> k, pos |-> n,
                                                 at |-> "running", pending |-> <<>>])
                       /\ heard' = Append(heard, n)
          /\ \/ channels' = Append(channels, [sent |-> 0, open |-> TRUE])
             \/ channels' = channels
      BY <1>4 DEF JoinHub
    <2>2. PICK k, n : /\ tasks' = Append(tasks, [chan |-> k, pos |-> n,
                                                at |-> "running", pending |-> <<>>])
                      /\ heard' = Append(heard, n)
      BY <2>1
    <2>3. Len(heard) = Len(tasks) /\ Len(tasks) \in Nat
      BY <1>0 DEF Wellformed, StreamOK
    <2>4. CASE f \in DOMAIN tasks
      <3>1. tasks'[f] = tasks[f] /\ heard'[f] = heard[f]
        BY <1>0, <2>2, <2>3, <2>4
      <3>2. /\ channels' \in Seq(Channel) /\ Len(channels) <= Len(channels')
            /\ \A j \in DOMAIN channels : channels'[j] = channels[j]
        <4>1. [sent |-> 0, open |-> TRUE] \in Channel
          BY DEF Channel
        <4>2. channels \in Seq(Channel) /\ Len(channels) \in Nat
          BY <1>0 DEF Wellformed, BusOK
        <4>3. CASE channels' = channels
          BY ONLY <4>2, <4>3
        <4>4. CASE channels' = Append(channels, [sent |-> 0, open |-> TRUE])
          <5> PICK c : c = [sent |-> 0, open |-> TRUE]
            OBVIOUS
          <5>1. c \in Channel /\ channels' = Append(channels, c)
            BY <4>1, <4>4
          <5> QED BY ONLY <4>2, <5>1
        <4> QED BY <2>1, <4>3, <4>4
      <3>3. \A j \in DOMAIN channels : channels'[j].sent >= channels[j].sent
        BY <1>c, <3>2
      <3> QED BY <1>b, <2>1, <2>4, <3>1, <3>2, <3>3
    <2>5. CASE f \notin DOMAIN tasks
      <3> DEFINE t == [chan |-> k, pos |-> n, at |-> "running", pending |-> <<>>]
      <3>1. f = Len(tasks) + 1
        <4>1. DOMAIN tasks' = 1 .. (Len(tasks) + 1)
          <5> HIDE DEF t
          <5> QED BY <1>0, <2>2, <2>3
        <4> QED BY <1>0, <2>3, <2>5, <4>1
      <3>2. tasks'[f] = t /\ heard'[f] = n
        <4> HIDE DEF t
        <4>1. /\ tasks' = Append(tasks, t) /\ heard' = Append(heard, n)
              /\ tasks \in Seq(Task) /\ heard \in Seq(Nat)
          BY <1>0, <2>2 DEF Wellformed, StreamOK, t
        <4>2. tasks'[Len(tasks) + 1] = t /\ heard'[Len(heard) + 1] = n
          BY ONLY <4>1
        <4> QED BY <2>3, <3>1, <4>2
      <3>3. tasks'[f].pos = n /\ tasks'[f].pending = <<>>
        BY <3>2
      <3> QED BY <2>1, <2>5, <3>2, <3>3, AccountBegins
    <2> QED BY <2>4, <2>5
  <1>5. ASSUME connected, NEW F, Abort(F), UNCHANGED <<channels, outbox, heard>>
        PROVE  \E account : InStep(f, account)'
    <2>1. /\ DOMAIN tasks' = DOMAIN tasks
          /\ \A g \in DOMAIN tasks :
                /\ tasks'[g].chan = tasks[g].chan
                /\ tasks'[g] = tasks[g] \/ tasks'[g].at = "aborted"
      BY <1>0, <1>5, AbortStep
    <2> QED BY <1>0, <1>5, <1>b, <1>c, <2>1
  <1>6. CASE Deliver
    <2>1. connected /\ f \in DOMAIN tasks
      BY <1>6 DEF Deliver
    <2> QED BY <1>6, <1>a, <2>1, AccountRead
  <1>7. ASSUME NEW g \in DOMAIN tasks, Recv(g) PROVE \E account : InStep(f, account)'
    <2>1. /\ connected /\ outbox' = outbox /\ heard' = heard /\ channels' = channels
          /\ DOMAIN tasks' = DOMAIN tasks
          /\ f # g => tasks'[f] = tasks[f]
      BY <1>0, <1>7 DEF Recv, TellLag, link, bus
    <2>2. CASE f # g
      BY <1>0, <1>b, <1>c, <2>1, <2>2
    <2>3. CASE f = g
      <3>1. PICK account : InStep(f, account)
        BY <1>a, <2>1
      <3>2. /\ tasks[f] \in Task /\ tasks[f].pending = <<>> /\ tasks[f].at = "running"
            /\ tasks[f].pos \in Nat
        BY <1>0, <1>7, <2>3 DEF Recv, Task
      <3>3. account[Len(outbox)] = tasks[f].pos
        BY <3>1, <3>2 DEF InStep
      <3>4. /\ tasks'[f].chan = tasks[f].chan
            /\ IF tasks'[f].pending = <<>> THEN tasks'[f].pos = tasks[f].pos
               ELSE Follows(Head(tasks'[f].pending), tasks[f].pos, tasks'[f].pos)
        <4> DEFINE pos == tasks[f].pos
                   chan == channels[tasks[f].chan]
        <4>1. CASE tasks' = [tasks EXCEPT ![f].at = "finished"]
          BY <1>0, <2>3, <3>2, <4>1 DEF Task
        <4>2. ASSUME NEW n, NEW it, it.task = f, Follows(it, pos, n),
                     tasks' = [tasks EXCEPT ![f].pos = n, ![f].pending = <<it>>]
              PROVE  /\ tasks'[f].chan = tasks[f].chan
                     /\ tasks'[f].pending = <<it>> /\ tasks'[f].pos = n
          BY <1>0, <2>3, <3>2, <4>2 DEF Task
        <4>3. CASE TellLag(f, chan.sent - Ring - pos)
          <5> DEFINE n == chan.sent - Ring - pos
          <5>1. Follows(Item(f, "lagged", n), pos, pos + n) /\ Item(f, "lagged", n).task = f
            BY DEF Follows, Accounted, Item
          <5>2. tasks' = [tasks EXCEPT ![f].pos = pos + n,
                                       ![f].pending = <<Item(f, "lagged", n)>>]
            BY <4>3 DEF TellLag
          <5> HIDE DEF n, pos
          <5>3. /\ tasks'[f].chan = tasks[f].chan
                /\ tasks'[f].pending = <<Item(f, "lagged", n)>> /\ tasks'[f].pos = pos + n
            BY <4>2, <5>1, <5>2
          <5> QED BY <5>1, <5>3 DEF pos
        <4>4. CASE tasks' = [tasks EXCEPT ![f].pos = pos + 1,
                                          ![f].pending = <<Item(f, "notice", pos + 1)>>]
          <5>1. /\ Follows(Item(f, "notice", pos + 1), pos, pos + 1)
                /\ Item(f, "notice", pos + 1).task = f
            BY DEF Follows, Accounted, Item
          <5> HIDE DEF pos
          <5>2. /\ tasks'[f].chan = tasks[f].chan
                /\ tasks'[f].pending = <<Item(f, "notice", pos + 1)>>
                /\ tasks'[f].pos = pos + 1
            BY <4>2, <4>4, <5>1
          <5> QED BY <5>1, <5>2 DEF pos
        <4> QED BY <1>7, <2>3, <4>1, <4>3, <4>4 DEF Recv
      <3>5. Reads(f, account)'
        BY <2>1, <3>1 DEF InStep, Reads
      <3>6. account \in [0 .. Len(outbox') -> 0 .. channels'[tasks'[f].chan].sent]
        BY <2>1, <3>1, <3>4 DEF InStep
      <3>7. InStep(f, account)'
        BY <2>1, <3>3, <3>4, <3>5, <3>6 DEF InStep
      <3> QED BY <3>7
    <2> QED BY <2>2, <2>3
  <1>8. ASSUME NEW g \in DOMAIN tasks, Send(g) PROVE \E account : InStep(f, account)'
    <2>1. connected /\ DOMAIN tasks' = DOMAIN tasks
      BY <1>0, <1>8 DEF Send, link
    <2> QED BY <1>8, <1>a, <2>1, AccountQueued
  <1>9. CASE TopologyStep
    <2>1. ASSUME NEW r \in Resources, CreateInsert(r) \/ DeleteRemove(r)
          PROVE  \E account : InStep(f, account)'
      BY <1>1, <2>1 DEF CreateInsert, DeleteRemove, bus, link
    <2>2. CASE PublishTopology
      BY <1>2, <2>2 DEF PublishTopology, link
    <2> QED BY <1>3, <1>9, <2>1, <2>2 DEF TopologyStep
  <1>10. ASSUME NEW r \in Resources, Announce(r) PROVE \E account : InStep(f, account)'
    BY <1>2, <1>10 DEF Announce, link
  <1>11. CASE ClientStep
    BY <1>1, <1>11 DEF ClientStep, Listen, Unlisten, UnlistenAll, Statement, bus
  <1>12. CASE CommandStep
    <2>1. CASE HandleSubscribe
      BY <1>1, <2>1 DEF HandleSubscribe, Pending, bus
    <2>2. CASE HandleUnsubscribe
      BY <1>5, <2>2 DEF HandleUnsubscribe, Pending, bus
    <2>3. CASE HandleUnsubscribeAll
      BY <1>5, <2>3 DEF HandleUnsubscribeAll, Pending, bus
    <2> QED BY <1>4, <1>12, <2>1, <2>2, <2>3 DEF CommandStep
  <1>13. CASE Disconnect
    BY <1>13 DEF Disconnect
  <1>14. CASE UNCHANGED vars
    BY <1>1, <1>14 DEF vars, bus, link
  <1> QED BY <1>6, <1>7, <1>8, <1>9, <1>10, <1>11, <1>12, <1>13, <1>14
          DEF Next, ForwarderStep

\* For every ring, queue and speed of the client: what a listener gets is its
\* channel's notices in order, with a Lagged of the exact size in every hole,
\* from the moment it subscribed to the moment its forwarder ends.
THEOREM StreamsHaveNoGap == Spec => []NoSilentGap
  <1>1. Init => NoSilentGap
    BY DEF Init, NoSilentGap
  <1> QED BY <1>1, WellformedInit, WellformedStep, GapStep, PTL DEF Spec

-------------------------------------------------------------------------------
(* An answered LISTEN is kept.  At every place in the line of commands, the  *)
(* resources the loop would be forwarding once it had come so far are few     *)
(* enough; so the loop never has to refuse a Subscribe of one that exists.   *)

Live(q) == q \in DOMAIN forwarders /\ tasks[forwarders[q]].at = "running"
Held(q) == q \in Range(joining) \/ Live(q)

Drops(cmd, q) == cmd.op = "UnsubscribeAll" \/ cmd = Command("Unsubscribe", q)

\* After its first k commands the loop forwards q.
Wants(q, k) ==
    \/ Held(q) /\ \A i \in 1 .. k : ~Drops(commands[i], q)
    \/ \E j \in 1 .. k : /\ commands[j] = Command("Subscribe", q)
                         /\ \A i \in (j + 1) .. k : ~Drops(commands[i], q)

Wanted(k) == {q \in alive : Wants(q, k)}

Few(S) == IsFiniteSet(S) /\ Cardinality(S) <= MaxListen

\* The forwarder of a resource that exists is on its channel of today.
InTouch == \A q \in alive : Live(q) => Forwarded(q)

Promised == /\ InTouch
            /\ acked \subseteq Wanted(Len(commands))
            /\ Wanted(Len(commands)) \subseteq listening
            /\ \A k \in 0 .. Len(commands) : Few(Wanted(k))

Answered == connected /\ ~haunted => Promised

\* No command comes or goes, and q is held as before.
LEMMA WantsKept ==
    ASSUME commands' = commands, NEW q, Held(q)' <=> Held(q), NEW k
    PROVE  Wants(q, k)' <=> Wants(q, k)
  BY DEF Wants

\* A command at the end of the line changes nothing before it.
LEMMA WantsAppend ==
    ASSUME commands \in Seq(Commands), NEW c \in Commands,
           commands' = Append(commands, c), NEW q, Held(q)' <=> Held(q),
           NEW n, n = Len(commands)
    PROVE  /\ \A k \in 0 .. n : Wants(q, k)' <=> Wants(q, k)
           /\ Wants(q, n + 1)' <=> \/ c = Command("Subscribe", q)
                                   \/ Wants(q, n) /\ ~Drops(c, q)
  <1>0. n \in Nat
    OBVIOUS
  <1>1. commands'[n + 1] = c /\ \A i \in 1 .. n : commands'[i] = commands[i]
    BY <1>0
  <1>2. ASSUME NEW k \in 0 .. n PROVE Wants(q, k)' <=> Wants(q, k)
    <2>1. 1 .. k \subseteq 1 .. n /\ \A j \in 1 .. k : (j + 1) .. k \subseteq 1 .. n
      BY <1>0
    <2> QED BY <1>1, <2>1 DEF Wants
  <1>3. Wants(q, n + 1)' <=> \/ c = Command("Subscribe", q)
                             \/ Wants(q, n) /\ ~Drops(c, q)
    <2>1. /\ 1 .. (n + 1) = (1 .. n) \cup {n + 1}
          /\ \A j \in 1 .. n : (j + 1) .. (n + 1) = ((j + 1) .. n) \cup {n + 1}
          /\ ((n + 1) + 1) .. (n + 1) = {}
          /\ \A j \in 1 .. n : (j + 1) .. n \subseteq 1 .. n
      BY <1>0
    <2>2. (\A i \in 1 .. (n + 1) : ~Drops(commands'[i], q))
             <=> (\A i \in 1 .. n : ~Drops(commands[i], q)) /\ ~Drops(c, q)
      BY <1>1, <2>1
    <2>3. ASSUME NEW j \in 1 .. n
          PROVE  (\A i \in (j + 1) .. (n + 1) : ~Drops(commands'[i], q))
             <=> (\A i \in (j + 1) .. n : ~Drops(commands[i], q)) /\ ~Drops(c, q)
      BY <1>1, <2>1
    <2>4. Wants(q, n + 1)' <=>
             \/ Held(q) /\ \A i \in 1 .. (n + 1) : ~Drops(commands'[i], q)
             \/ \E j \in 1 .. n : 
                   /\ commands'[j] = Command("Subscribe", q)
                   /\ \A i \in (j + 1) .. (n + 1) : ~Drops(commands'[i], q)
             \/ c = Command("Subscribe", q)
      <3>1. \A i \in ((n + 1) + 1) .. (n + 1) : ~Drops(commands'[i], q)
        BY <2>1
      <3> QED BY <1>1, <2>1, <3>1 DEF Wants
    <2>5. (\E j \in 1 .. n : /\ commands'[j] = Command("Subscribe", q)
                             /\ \A i \in (j + 1) .. (n + 1) : ~Drops(commands'[i], q))
          <=> /\ \E j \in 1 .. n : /\ commands[j] = Command("Subscribe", q)
                                   /\ \A i \in (j + 1) .. n : ~Drops(commands[i], q)
              /\ ~Drops(c, q)
      BY <1>1, <2>3
    <2>6. Wants(q, n) <=>
             \/ Held(q) /\ \A i \in 1 .. n : ~Drops(commands[i], q)
             \/ \E j \in 1 .. n : /\ commands[j] = Command("Subscribe", q)
                                  /\ \A i \in (j + 1) .. n : ~Drops(commands[i], q)
      BY DEF Wants
    <2> QED BY <2>2, <2>4, <2>5, <2>6
  <1> QED BY <1>2, <1>3

\* The loop takes the first command and acts on it: what lay ahead does not
\* change.
LEMMA WantsShift ==
    ASSUME commands \in Seq(Commands), commands # <<>>, commands' = Tail(commands),
           NEW q, Held(q)' <=> Wants(q, 1),
           NEW k \in Nat, k < Len(commands)
    PROVE  Wants(q, k)' <=> Wants(q, k + 1)
  <1> PICK n : n = Len(commands)
    OBVIOUS
  <1>0. n = Len(commands) /\ n \in Nat /\ n > 0 /\ k \in 0 .. (n - 1)
    OBVIOUS
  <1>1. \A i \in 1 .. (n - 1) : commands'[i] = commands[i + 1]
    BY <1>0
  <1>2. \A i \in 1 .. (n - 1) : Drops(commands'[i], q) <=> Drops(commands[i + 1], q)
    BY <1>1
  <1>3. Held(q)' <=> \/ Held(q) /\ ~Drops(commands[1], q)
                     \/ commands[1] = Command("Subscribe", q)
    <2>1. 1 .. 1 = {1} /\ (1 + 1) .. 1 = {}
      OBVIOUS
    <2> QED BY <2>1 DEF Wants
  <1>4. Wants(q, k)' <=>
           \/ Held(q)' /\ \A i \in 2 .. (k + 1) : ~Drops(commands[i], q)
           \/ \E j \in 2 .. (k + 1) : /\ commands[j] = Command("Subscribe", q)
                                      /\ \A i \in (j + 1) .. (k + 1) : ~Drops(commands[i], q)
    <2>1. (\A i \in 1 .. k : ~Drops(commands'[i], q)) <=> (\A i \in 2 .. (k + 1) : ~Drops(commands[i], q))
      <3>1. \A i \in 1 .. k : i \in 1 .. (n - 1) /\ i + 1 \in 2 .. (k + 1)
        BY <1>0
      <3>2. \A i \in 2 .. (k + 1) : i - 1 \in 1 .. (n - 1) /\ i - 1 \in 1 .. k /\ (i - 1) + 1 = i
        BY <1>0
      <3> QED BY <1>2, <3>1, <3>2
    <2>2. ASSUME NEW j \in 1 .. k
          PROVE  (\A i \in (j + 1) .. k : ~Drops(commands'[i], q))
                    <=> (\A i \in ((j + 1) + 1) .. (k + 1) : ~Drops(commands[i], q))
      <3>1. \A i \in (j + 1) .. k : i \in 1 .. (n - 1) /\ i + 1 \in ((j + 1) + 1) .. (k + 1)
        BY <1>0
      <3>2. \A i \in ((j + 1) + 1) .. (k + 1) :
               i - 1 \in 1 .. (n - 1) /\ i - 1 \in (j + 1) .. k /\ (i - 1) + 1 = i
        BY <1>0
      <3> QED BY <1>2, <3>1, <3>2
    <2>3. \A j \in 1 .. k : j \in 1 .. (n - 1) /\ j + 1 \in 2 .. (k + 1)
      BY <1>0
    <2>4. \A j \in 2 .. (k + 1) : j - 1 \in 1 .. k /\ (j - 1) + 1 = j
      BY <1>0
    <2>5. (\E j \in 1 .. k : /\ commands'[j] = Command("Subscribe", q)
                             /\ \A i \in (j + 1) .. k : ~Drops(commands'[i], q))
          <=> \E j \in 2 .. (k + 1) : /\ commands[j] = Command("Subscribe", q)
                                      /\ \A i \in (j + 1) .. (k + 1) : ~Drops(commands[i], q)
      <3>1. ASSUME NEW j \in 1 .. k, commands'[j] = Command("Subscribe", q),
                   \A i \in (j + 1) .. k : ~Drops(commands'[i], q)
            PROVE  \E l \in 2 .. (k + 1) : /\ commands[l] = Command("Subscribe", q)
                                           /\ \A i \in (l + 1) .. (k + 1) : ~Drops(commands[i], q)
        BY <1>1, <2>2, <2>3, <3>1
      <3>2. ASSUME NEW j \in 2 .. (k + 1), commands[j] = Command("Subscribe", q),
                   \A i \in (j + 1) .. (k + 1) : ~Drops(commands[i], q)
            PROVE  \E l \in 1 .. k : /\ commands'[l] = Command("Subscribe", q)
                                     /\ \A i \in (l + 1) .. k : ~Drops(commands'[i], q)
        <4>1. j - 1 \in 1 .. k /\ (j - 1) + 1 = j
          BY <2>4
        <4> QED BY <1>1, <2>2, <2>3, <3>2, <4>1
      <3> QED BY <3>1, <3>2
    <2>6. Wants(q, k)' <=>
             \/ Held(q)' /\ \A i \in 1 .. k : ~Drops(commands'[i], q)
             \/ \E j \in 1 .. k : /\ commands'[j] = Command("Subscribe", q)
                                  /\ \A i \in (j + 1) .. k : ~Drops(commands'[i], q)
      BY DEF Wants
    <2> QED BY <2>1, <2>5, <2>6
  <1>5. 1 .. (k + 1) = {1} \cup 2 .. (k + 1) /\ (1 + 1) .. (k + 1) = 2 .. (k + 1)
    BY <1>0
  <1>6. Wants(q, k + 1) <=>
           \/ /\ (Held(q) /\ ~Drops(commands[1], q)) \/ commands[1] = Command("Subscribe", q)
              /\ \A i \in 2 .. (k + 1) : ~Drops(commands[i], q)
           \/ \E j \in 2 .. (k + 1) : /\ commands[j] = Command("Subscribe", q)
                                      /\ \A i \in (j + 1) .. (k + 1) : ~Drops(commands[i], q)
    BY <1>5 DEF Wants
  <1> QED BY <1>3, <1>4, <1>6

\* A part of few is few.
LEMMA FewerIsFew == ASSUME NEW S, NEW T, S \subseteq T, Few(T) PROVE Few(S)
  <1>1. /\ IsFiniteSet(S) /\ Cardinality(S) <= Cardinality(T)
        /\ Cardinality(S) \in Nat /\ Cardinality(T) \in Nat
    BY FS_Subset, FS_CardinalityType DEF Few
  <1> QED BY <1>1, SubscriptionsAssumption DEF Few

\* What joining holds.
LEMMA JoiningHolds ==
    /\ joining = <<>> => \A q : q \notin Range(joining)
    /\ \A r : joining = <<r>> => \A q : q \in Range(joining) <=> q = r
  BY DEF Range

\* One step per action of Next.
LEMMA AnsweredStep == Wellformed /\ Wellformed' /\ Answered /\ [Next]_vars => Answered'
  <1> SUFFICES ASSUME Wellformed, Wellformed', Answered, [Next]_vars,
                      connected', ~haunted'
               PROVE  Promised'
    BY DEF Answered
  <1> USE SubscriptionsAssumption
  <1>0. /\ tasks \in Seq(Task) /\ commands \in Seq(Commands)
        /\ DOMAIN tasks = 1 .. Len(tasks) /\ Len(tasks) \in Nat
        /\ \A f \in DOMAIN tasks : tasks[f] \in Task
        /\ \A q \in DOMAIN forwarders : forwarders[q] \in DOMAIN tasks
        /\ \A q, r \in DOMAIN forwarders : forwarders[q] = forwarders[r] => q = r
        /\ joining = <<>> \/ \E r \in Resources : joining = <<r>>
    BY DEF Wellformed, StreamOK, LinkOK, ForwardersOK
  <1>h. connected /\ ~haunted
    <2>0. ASSUME UNCHANGED <<connected, haunted>> PROVE connected /\ ~haunted
      BY <2>0
    <2>1. CASE TopologyStep
      <3>1. ASSUME NEW r \in Resources, CreateInsert(r) PROVE connected /\ ~haunted
        <4>1. (haunted' = (haunted \/ HoldsOn(r))) /\ connected' = connected
          BY <3>1 DEF CreateInsert, link
        <4> QED BY <4>1, Zenon
      <3>2. ASSUME NEW r \in Resources, DeleteRemove(r) PROVE connected /\ ~haunted
        BY <2>0, <3>2 DEF DeleteRemove, link
      <3>3. CASE PublishTopology \/ Reclaim
        BY <2>0, <3>3 DEF PublishTopology, Reclaim, link, ghosts
      <3> QED BY <2>1, <3>1, <3>2, <3>3 DEF TopologyStep
    <2>2. CASE ClientStep \/ \E r \in Resources : Announce(r)
      <3>1. UNCHANGED <<connected, haunted>>
        BY <2>2 DEF ClientStep, Announce, Listen, Unlisten, UnlistenAll, link, ghosts
      <3> QED BY <2>0, <3>1
    <2>3. CASE HandleSubscribe \/ HandleUnsubscribe \/ HandleUnsubscribeAll \/ Deliver
      <3>1. UNCHANGED <<connected, haunted>>
        BY <2>3 DEF HandleSubscribe, HandleUnsubscribe, HandleUnsubscribeAll, Deliver,
                    link, ghosts
      <3> QED BY <2>0, <3>1
    <2>4. CASE JoinHub \/ Disconnect
      <3>1. UNCHANGED haunted /\ connected
        BY <2>4 DEF JoinHub, Disconnect
      <3> QED BY <3>1
    <2>5. CASE \E f \in DOMAIN tasks : ForwarderStep(f)
      <3>1. UNCHANGED <<connected, haunted>>
        BY <2>5 DEF ForwarderStep, Recv, Send, link, ghosts
      <3> QED BY <2>0, <3>1
    <2>6. CASE UNCHANGED vars
      BY <2>0, <2>6 DEF vars, link, ghosts
    <2> QED BY <2>1, <2>2, <2>3, <2>4, <2>5, <2>6 DEF Next, CommandStep
  <1>p. Promised
    BY <1>h DEF Answered
  <1> PICK n : n = Len(commands)
    OBVIOUS
  <1>n. n = Len(commands) /\ n \in Nat
    BY <1>0
  \* The line of commands stays, and what exists is held as before.
  <1>a. ASSUME commands' = commands, acked' = acked, listening' = listening,
               alive' = alive, \A q \in alive : Held(q)' <=> Held(q), InTouch'
        PROVE  Promised'
    <2>1. ASSUME NEW k PROVE Wanted(k)' = Wanted(k)
      BY <1>a, WantsKept DEF Wanted
    <2>2. Wanted(n)' = Wanted(n) /\ n = Len(commands')
      BY <1>a, <1>n, <2>1
    <2>3. acked' \subseteq Wanted(n)' /\ Wanted(n)' \subseteq listening'
      BY <1>a, <1>n, <1>p, <2>2 DEF Promised
    <2>4. \A k \in 0 .. n : Few(Wanted(k)')
      BY <1>n, <1>p, <2>1 DEF Promised
    <2> QED BY <1>a, <2>2, <2>3, <2>4 DEF Promised, Few
  \* No resource, channel or forwarder comes or goes.
  <1>b. ASSUME UNCHANGED <<alive, hub, joining, forwarders>>,
               \A f \in DOMAIN tasks : /\ tasks'[f].at = tasks[f].at
                                       /\ tasks'[f].chan = tasks[f].chan
        PROVE  /\ \A q : (Held(q)' <=> Held(q)) /\ (Live(q)' <=> Live(q))
               /\ InTouch'
    <2>1. \A q : (Held(q)' <=> Held(q)) /\ (Live(q)' <=> Live(q))
      BY <1>0, <1>b DEF Held, Live
    <2> QED BY <1>0, <1>b, <1>p, <2>1 DEF Promised, InTouch, Live, Forwarded
  <1>c. ASSUME UNCHANGED <<alive, hub, link, tasks, acked>> PROVE Promised'
    BY <1>a, <1>b, <1>c DEF link
  \* The loop takes the first command and does as it says.
  <1>d. ASSUME commands # <<>>, commands' = Tail(commands), UNCHANGED <<alive, acked>>,
               \A q \in alive : Held(q)' <=> Wants(q, 1),
               \A q \in alive \cap listening : q \in listening', InTouch'
        PROVE  Promised'
    <2>1. n > 0 /\ Len(commands') = n - 1
      BY <1>0, <1>d, <1>n
    <2>2. ASSUME NEW k \in 0 .. (n - 1) PROVE Wanted(k)' = Wanted(k + 1)
      <3>1. k \in Nat /\ k < Len(commands)
        BY <1>n
      <3>2. \A q \in alive : Wants(q, k)' <=> Wants(q, k + 1)
        BY <1>0, <1>d, <3>1, WantsShift
      <3> QED BY <1>d, <3>2 DEF Wanted
    <2>3. Wanted(n - 1)' = Wanted(n)
      BY <1>n, <2>1, <2>2
    <2>4. acked' \subseteq Wanted(n - 1)' /\ Wanted(n - 1)' \subseteq listening'
      BY <1>d, <1>n, <1>p, <2>3 DEF Promised, Wanted
    <2>5. \A k \in 0 .. (n - 1) : Few(Wanted(k)')
      <3>1. \A k \in 0 .. (n - 1) : k + 1 \in 0 .. n
        BY <1>n
      <3> QED BY <1>n, <1>p, <2>2, <3>1 DEF Promised
    <2> QED BY <1>d, <2>1, <2>4, <2>5 DEF Promised, Few
  \* A statement puts a command at the end of the line.
  <1>e. ASSUME NEW c \in Commands, commands' = Append(commands, c),
               UNCHANGED <<alive, hub, joining, forwarders, tasks>>,
               NEW q0,
               c = Command("Subscribe", q0) =>
                  /\ acked' \subseteq acked \cup {q0} /\ q0 \in alive
                  /\ \A q \in alive \cap listening : q \in listening'
                  /\ q0 \in listening',
               c = Command("Unsubscribe", q0) =>
                  acked' \subseteq acked \ {q0} /\ listening' = listening \ {q0},
               c.op = "UnsubscribeAll" => acked' = {},
               \/ c = Command("Subscribe", q0) \/ c = Command("Unsubscribe", q0)
               \/ c.op = "UnsubscribeAll"
        PROVE  Promised'
    <2>1. (\A q : Held(q)' <=> Held(q)) /\ InTouch'
      BY <1>b, <1>e
    <2>2. Len(commands') = n + 1
      BY <1>0, <1>e, <1>n
    <2>3. ASSUME NEW q
          PROVE  /\ \A k \in 0 .. n : Wants(q, k)' <=> Wants(q, k)
                 /\ Wants(q, n + 1)' <=> \/ c = Command("Subscribe", q)
                                         \/ Wants(q, n) /\ ~Drops(c, q)
      BY <1>0, <1>e, <1>n, <2>1, WantsAppend
    <2>4. \A k \in 0 .. n : Wanted(k)' = Wanted(k)
      BY <1>e, <2>3 DEF Wanted
    <2>5. Wanted(n + 1)' = {q \in alive : \/ c = Command("Subscribe", q)
                                          \/ Wants(q, n) /\ ~Drops(c, q)}
      BY <1>e, <2>3 DEF Wanted
    <2>6. acked \subseteq Wanted(n) /\ Wanted(n) \subseteq listening
      BY <1>n, <1>p DEF Promised
    <2>7. acked' \subseteq Wanted(n + 1)' /\ Wanted(n + 1)' \subseteq listening'
      <3>1. CASE c = Command("Subscribe", q0)
        <4>1. \A q : ~Drops(c, q) /\ (c = Command("Subscribe", q) <=> q = q0)
          BY <3>1 DEF Drops, Command
        <4> QED BY <1>e, <2>5, <2>6, <3>1, <4>1 DEF Wanted
      <3>2. CASE c = Command("Unsubscribe", q0)
        <4>1. \A q : (Drops(c, q) <=> q = q0) /\ c # Command("Subscribe", q)
          BY <3>2 DEF Drops, Command
        <4> QED BY <1>e, <2>5, <2>6, <3>2, <4>1 DEF Wanted
      <3>3. CASE c.op = "UnsubscribeAll"
        <4>1. \A q : Drops(c, q) /\ c # Command("Subscribe", q)
          BY <3>3 DEF Drops, Command
        <4> QED BY <1>e, <2>5, <3>3, <4>1
      <3> QED BY <1>e, <3>1, <3>2, <3>3
    <2>8. Few(Wanted(n + 1)')
      <3>1. Few(listening')
        BY DEF Wellformed, LinkOK, Few
      <3> QED BY <2>7, <3>1, FewerIsFew
    <2>9. \A k \in 0 .. (n + 1) : Few(Wanted(k)')
      <3>1. \A k \in 0 .. (n + 1) : k \in 0 .. n \/ k = n + 1
        BY <1>n
      <3> QED BY <1>n, <1>p, <2>4, <2>8, <3>1 DEF Promised
    <2> QED BY <2>1, <2>2, <2>7, <2>9 DEF Promised, Few
  <1>1. ASSUME NEW r \in Resources, Announce(r) PROVE Promised'
    BY <1>1, <1>c DEF Announce, engine, stream, ghosts
  <1>2. ASSUME NEW r \in Resources, CreateInsert(r) PROVE Promised'
    <2>1. /\ alive' = alive \cup {r} /\ ~HoldsOn(r)
          /\ UNCHANGED <<hub, joining, forwarders, tasks, commands, acked, listening>>
      BY <1>2 DEF CreateInsert, bus, link, stream
    <2>2. ~Held(r) /\ \A k \in 1 .. n : commands[k] # Command("Subscribe", r)
      BY <1>0, <1>n, <2>1 DEF HoldsOn, Held, Live, Command
    <2>3. \A q : Held(q)' <=> Held(q)
      BY <2>1 DEF Held, Live
    <2>4. InTouch'
      BY <1>p, <2>1, <2>2 DEF Promised, InTouch, Held, Live, Forwarded
    <2>5. ASSUME NEW k \in 0 .. n PROVE Wanted(k)' = Wanted(k)
      <3>1. \A q : Wants(q, k)' <=> Wants(q, k)
        BY <2>1, <2>3, WantsKept
      <3>2. ~Wants(r, k)
        <4>1. 1 .. k \subseteq 1 .. n
          BY <1>n
        <4> QED BY <2>2, <4>1 DEF Wants
      <3> QED BY <2>1, <3>1, <3>2 DEF Wanted
    <2>6. n \in 0 .. n /\ Len(commands') = n
      BY <1>n, <2>1
    <2>7. \A k \in 0 .. n : Few(Wanted(k)')
      BY <1>n, <1>p, <2>5 DEF Promised
    <2>8. acked' \subseteq Wanted(n)' /\ Wanted(n)' \subseteq listening'
      BY <1>n, <1>p, <2>1, <2>5, <2>6 DEF Promised
    <2> QED BY <2>4, <2>6, <2>7, <2>8 DEF Promised, Few
  <1>3. ASSUME NEW r \in Resources, DeleteRemove(r) PROVE Promised'
    <2>1. /\ alive' = alive \ {r} /\ acked' = acked \ {r}
          /\ UNCHANGED <<hub, joining, forwarders, tasks, commands, listening>>
      BY <1>3 DEF DeleteRemove, bus, link, stream
    <2>2. \A q : Held(q)' <=> Held(q)
      BY <2>1 DEF Held, Live
    <2>3. InTouch'
      BY <1>p, <2>1 DEF Promised, InTouch, Live, Forwarded
    <2>4. ASSUME NEW k PROVE Wanted(k)' = Wanted(k) \ {r}
      BY <2>1, <2>2, WantsKept DEF Wanted
    <2>5. \A k \in 0 .. n : Few(Wanted(k)')
      BY <1>n, <1>p, <2>4, FewerIsFew DEF Promised
    <2>6. acked' \subseteq Wanted(n)' /\ Wanted(n)' \subseteq listening' /\ Len(commands') = n
      BY <1>n, <1>p, <2>1, <2>4 DEF Promised
    <2> QED BY <2>3, <2>5, <2>6 DEF Promised, Few
  <1>4. CASE PublishTopology
    BY <1>4, <1>c DEF PublishTopology, stream, ghosts
  <1>5. CASE Reclaim
    <2>1. /\ topology.res \notin alive
          /\ \A q \in DOMAIN hub \ {topology.res} : q \in DOMAIN hub' /\ hub'[q] = hub[q]
          /\ UNCHANGED <<alive, joining, forwarders, tasks, commands, acked, listening>>
      BY <1>5 DEF Reclaim, Reclaimed, Wellformed, EngineOK, Idle, link, stream
    <2>2. \A q : Held(q)' <=> Held(q)
      BY <2>1 DEF Held, Live
    <2>3. InTouch'
      BY <1>p, <2>1 DEF Promised, InTouch, Live, Forwarded
    <2> QED BY <1>a, <2>1, <2>2, <2>3
  <1>6. ASSUME NEW r \in Resources, Listen(r) PROVE Promised'
    <2>1. /\ r \in alive
          /\ UNCHANGED <<alive, hub, joining, forwarders, tasks>>
      BY <1>6 DEF Listen, engine, bus, stream
    <2>2. CASE commands' = commands
      <3>1. listening' = Kept(r) /\ acked' = acked
        <4>1. Append(commands, Command("Subscribe", r)) # commands
          <5>1. Command("Subscribe", r) \in Commands
            BY DEF Commands, Command
          <5>2. Len(Append(commands, Command("Subscribe", r))) # Len(commands)
            <6> HIDE DEF Commands
            <6> QED BY <1>0, <5>1
          <5> QED BY <5>2
        <4> QED BY <1>6, <2>2, <4>1 DEF Listen
      <3>2. \A q : Held(q)' <=> Held(q)
        BY <1>b, <2>1
      <3>3. ASSUME NEW k PROVE Wanted(k)' = Wanted(k)
        BY <2>1, <2>2, <3>2, WantsKept DEF Wanted
      <3>4. Wanted(n)' \subseteq listening' /\ acked' \subseteq Wanted(n)' /\ Len(commands') = n
        BY <1>n, <1>p, <2>2, <3>1, <3>3 DEF Promised, Kept, Wanted
      <3>5. \A k \in 0 .. n : Few(Wanted(k)')
        BY <1>n, <1>p, <3>3 DEF Promised
      <3>6. InTouch'
        BY <1>b, <2>1
      <3> QED BY <3>4, <3>5, <3>6 DEF Promised, Few
    <2>3. CASE commands' = Append(commands, Command("Subscribe", r))
      <3>1. Command("Subscribe", r) \in Commands
        BY DEF Commands, Command
      <3>2. commands' # commands
        <4>1. Len(commands') # Len(commands)
          <5> HIDE DEF Commands
          <5> QED BY <1>0, <2>3, <3>1
        <4> QED BY <4>1
      <3>3. listening' = Kept(r) \cup {r} /\ acked' = acked \cup {r}
        BY <1>6, <3>2 DEF Listen
      <3>4. \A q \in alive \cap listening : q \in listening'
        BY <3>3 DEF Kept
      <3>5. Command("Subscribe", r) # Command("Unsubscribe", r)
            /\ Command("Subscribe", r).op # "UnsubscribeAll"
        BY DEF Command
      <3> QED BY <1>e, <2>1, <2>3, <3>1, <3>3, <3>4, <3>5
    <2> QED BY <1>6, <2>2, <2>3 DEF Listen
  <1>7. ASSUME NEW r \in Resources, Unlisten(r) PROVE Promised'
    <2>1. Command("Unsubscribe", r) \in Commands
      BY DEF Commands, Command
    <2>2. Command("Unsubscribe", r) # Command("Subscribe", r)
          /\ Command("Unsubscribe", r).op # "UnsubscribeAll"
      BY DEF Command
    <2>3. /\ commands' = Append(commands, Command("Unsubscribe", r))
          /\ UNCHANGED <<alive, hub, joining, forwarders, tasks>>
          /\ acked' = acked \ {r} /\ listening' = listening \ {r}
      BY <1>7 DEF Unlisten, engine, bus, stream
    <2> QED BY <1>e, <2>1, <2>2, <2>3
  <1>8. CASE UnlistenAll
    <2>1. Command("UnsubscribeAll", "all") \in Commands
      BY DEF Commands
    <2>2. /\ Command("UnsubscribeAll", "all").op = "UnsubscribeAll"
          /\ Command("UnsubscribeAll", "all") # Command("Subscribe", "all")
          /\ Command("UnsubscribeAll", "all") # Command("Unsubscribe", "all")
      BY DEF Command
    <2>3. /\ commands' = Append(commands, Command("UnsubscribeAll", "all"))
          /\ UNCHANGED <<alive, hub, joining, forwarders, tasks>>
          /\ acked' = {}
      BY <1>8 DEF UnlistenAll, engine, bus, stream
    <2> QED BY <1>e, <2>1, <2>2, <2>3
  \* What the loop holds once it has done the first command.
  <1>f. ASSUME commands # <<>>, joining = <<>>, NEW q
        PROVE  /\ commands[1] = Head(commands) /\ commands[1] \in Commands
               /\ Held(q) <=> Live(q)
               /\ Wants(q, 1) <=> \/ commands[1] = Command("Subscribe", q)
                                  \/ Live(q) /\ ~Drops(commands[1], q)
    <2>1. commands[1] = Head(commands) /\ commands[1] \in Commands
      BY <1>0, <1>f
    <2>2. Held(q) <=> Live(q)
      BY <1>f, JoiningHolds DEF Held
    <2>3. 1 .. 1 = {1} /\ (1 + 1) .. 1 = {}
      OBVIOUS
    <2> QED BY <2>1, <2>2, <2>3 DEF Wants
  <1>9. CASE HandleSubscribe
    <2>1. /\ commands # <<>> /\ joining = <<>> /\ commands' = Tail(commands)
          /\ forwarders' = Unfinished /\ Head(commands).op = "Subscribe"
          /\ UNCHANGED <<alive, hub, tasks, acked>>
      BY <1>9 DEF HandleSubscribe, Pending, engine, bus, stream, ghosts
    <2> PICK r : r = Head(commands).res
      OBVIOUS
    <2>2. commands[1] = Command("Subscribe", r) /\ r \in Resources
      BY <1>f, <2>1 DEF Commands, Command
    <2>3. /\ DOMAIN Unfinished = {q \in DOMAIN forwarders : Live(q)}
          /\ \A q : q \in DOMAIN Unfinished => Unfinished[q] = forwarders[q]
      BY DEF Unfinished, Live
    <2>4. \A q : Live(q)' <=> Live(q)
      BY <2>1, <2>3 DEF Live
    <2>5. \A q : ~Drops(commands[1], q) /\ (commands[1] = Command("Subscribe", q) <=> q = r)
      BY <2>2 DEF Drops, Command
    <2>6. \A q : Wants(q, 1) <=> Live(q) \/ q = r
      BY <1>f, <2>1, <2>5
    <2>7. ASSUME r \in alive, ~Live(r) PROVE LiveCount < MaxListen
      <3>1. Few(Wanted(1)) /\ Wanted(1) = {q \in alive : Live(q) \/ q = r}
        <4>1. 1 \in 0 .. Len(commands)
          BY <1>0, <2>1
        <4> QED BY <1>p, <2>6, <4>1 DEF Promised, Wanted
      <3> DEFINE S == DOMAIN Unfinished \cap alive
      <3>2. S \subseteq Wanted(1) /\ r \in Wanted(1) /\ r \notin S
        BY <2>3, <2>7, <3>1
      <3>3. /\ IsFiniteSet(S) /\ IsFiniteSet(Wanted(1))
            /\ Cardinality(S) \in Nat /\ Cardinality(Wanted(1)) \in Nat
            /\ Cardinality(S) <= Cardinality(Wanted(1))
        BY <3>1, <3>2, FS_Subset, FS_CardinalityType DEF Few
      <3>4. Cardinality(S) # Cardinality(Wanted(1))
        BY <3>2, <3>3, FS_Subset
      <3> QED BY <3>1, <3>3, <3>4 DEF LiveCount, Few
    <2>8. r \in alive => \/ Live(r) /\ joining' = <<>> /\ listening' = listening
                         \/ ~Live(r) /\ joining' = <<r>> /\ listening' = listening
      BY <1>9, <2>3, <2>7 DEF HandleSubscribe, Live
    <2>9. r \notin alive => joining' = <<>> /\ listening' \in {listening, listening \ {r}}
      BY <1>9 DEF HandleSubscribe
    <2>10. /\ joining' = <<>> => \A q : q \notin Range(joining)'
           /\ joining' = <<r>> => \A q : q \in Range(joining)' <=> q = r
      BY DEF Range
    <2>11. \A q \in alive : Held(q)' <=> Wants(q, 1)
      BY <2>4, <2>6, <2>8, <2>9, <2>10 DEF Held
    <2>12. InTouch'
      BY <1>p, <2>1, <2>3, <2>4 DEF Promised, InTouch, Live, Forwarded
    <2>13. \A q \in alive \cap listening : q \in listening'
      BY <2>8, <2>9
    <2> QED BY <1>d, <2>1, <2>11, <2>12, <2>13
  <1>10. CASE HandleUnsubscribe
    <2>1. /\ commands # <<>> /\ joining = <<>> /\ commands' = Tail(commands)
          /\ Head(commands).op = "Unsubscribe"
          /\ UNCHANGED <<alive, hub, listening, joining, acked>>
      BY <1>10 DEF HandleUnsubscribe, Pending, engine, bus, ghosts
    <2> PICK r : r = Head(commands).res
      OBVIOUS
    <2>2. commands[1] = Command("Unsubscribe", r)
      <3>1. commands[1] \in Commands /\ commands[1].op = "Unsubscribe" /\ commands[1].res = r
        BY <1>f, <2>1
      <3> QED BY <3>1 DEF Commands, Command
    <2>3. /\ Abort({forwarders[q] : q \in DOMAIN forwarders \cap {r}})
          /\ forwarders' = [q \in DOMAIN forwarders \ {r} |-> forwarders[q]]
      BY <1>10 DEF HandleUnsubscribe
    <2>4. \A q \in DOMAIN forwarders \ {r} : /\ forwarders'[q] = forwarders[q]
                                             /\ tasks'[forwarders[q]] = tasks[forwarders[q]]
      BY <1>0, <2>3, AbortStep
    <2>5. \A q : Live(q)' <=> Live(q) /\ q # r
      BY <2>3, <2>4 DEF Live
    <2>6. \A q : (Drops(commands[1], q) <=> q = r) /\ commands[1] # Command("Subscribe", q)
      BY <2>2 DEF Drops, Command
    <2>7. \A q : Wants(q, 1) <=> Live(q) /\ q # r
      BY <1>f, <2>1, <2>6
    <2>8. \A q : Held(q)' <=> Wants(q, 1)
      BY <2>1, <2>5, <2>7, JoiningHolds DEF Held
    <2>9. InTouch'
      BY <1>p, <2>1, <2>3, <2>4, <2>5 DEF Promised, InTouch, Live, Forwarded
    <2> QED BY <1>d, <2>1, <2>8, <2>9
  <1>11. CASE HandleUnsubscribeAll
    <2>1. /\ commands # <<>> /\ joining = <<>> /\ commands' = Tail(commands)
          /\ Head(commands).op = "UnsubscribeAll" /\ forwarders' = NoForwarders
          /\ UNCHANGED <<alive, hub, listening, joining, acked>>
      BY <1>11 DEF HandleUnsubscribeAll, Pending, engine, bus, ghosts
    <2>2. \A q : Drops(commands[1], q) /\ commands[1] # Command("Subscribe", q)
      <3>1. commands[1].op = "UnsubscribeAll"
        BY <1>f, <2>1
      <3> QED BY <3>1 DEF Drops, Command
    <2>3. \A q : ~Live(q)'
      BY <2>1 DEF Live, NoForwarders
    <2>4. \A q : ~Wants(q, 1)
      BY <1>f, <2>1, <2>2
    <2>5. \A q : ~Held(q)'
      BY <2>1, <2>3, JoiningHolds DEF Held
    <2>6. InTouch'
      BY <2>3 DEF InTouch
    <2> QED BY <1>d, <2>1, <2>4, <2>5, <2>6
  <1>12. CASE JoinHub
    <2>1. PICK r \in Resources : joining = <<r>>
      BY <1>0, <1>12 DEF JoinHub
    <2>2. PICK k, m :
             /\ tasks' = Append(tasks, [chan |-> k, pos |-> m,
                                        at |-> "running", pending |-> <<>>])
             /\ hub' = [q \in DOMAIN hub \cup {r} |-> IF q = r THEN k ELSE hub[q]]
      <3>1. Head(joining) = r
        BY <2>1
      <3>2. \E k, m :
             /\ tasks' = Append(tasks, [chan |-> k, pos |-> m,
                                        at |-> "running", pending |-> <<>>])
             /\ hub' = [q \in DOMAIN hub \cup {Head(joining)} |->
                           IF q = Head(joining) THEN k ELSE hub[q]]
        BY <1>12, Zenon DEF JoinHub
      <3> QED BY <3>1, <3>2
    <2>3. /\ forwarders' = [q \in DOMAIN forwarders \cup {r} |->
                               IF q = r THEN Len(tasks) + 1 ELSE forwarders[q]]
          /\ joining' = <<>>
          /\ UNCHANGED <<alive, commands, listening, acked>>
      BY <1>12, <2>1 DEF JoinHub, engine
    <2>4. /\ \A f \in DOMAIN tasks : tasks'[f] = tasks[f]
          /\ tasks'[Len(tasks) + 1] = [chan |-> k, pos |-> m,
                                       at |-> "running", pending |-> <<>>]
      <3> PICK t : t = [chan |-> k, pos |-> m, at |-> "running", pending |-> <<>>]
        OBVIOUS
      <3>1. tasks' = Append(tasks, t)
        BY <2>2
      <3>2. (\A f \in DOMAIN tasks : tasks'[f] = tasks[f]) /\ tasks'[Len(tasks) + 1] = t
        BY ONLY <1>0, <3>1
      <3> QED BY <3>2
    <2>5. /\ \A q : q # r => (Live(q)' <=> Live(q))
          /\ Live(r)'
      BY <1>0, <2>3, <2>4 DEF Live
    <2>6. \A q : Held(q)' <=> Held(q)
      <3>1. \A q : q \notin Range(joining)'
        BY <2>3 DEF Range
      <3> QED BY <2>1, <2>5, <3>1, JoiningHolds DEF Held
    <2>7. InTouch'
      <3>1. Forwarded(r)'
        BY <2>2, <2>3, <2>4 DEF Forwarded
      <3>2. ASSUME NEW q \in alive, q # r, Live(q)' PROVE Forwarded(q)'
        <4>1. Forwarded(q) /\ q \in DOMAIN forwarders
          BY <1>p, <2>5, <3>2 DEF Promised, InTouch, Live
        <4> QED BY <1>0, <2>2, <2>3, <2>4, <3>2, <4>1 DEF Forwarded
      <3> QED BY <2>3, <3>1, <3>2 DEF InTouch
    <2> QED BY <1>a, <2>3, <2>6, <2>7
  <1>13. CASE Deliver
    BY <1>13, <1>c DEF Deliver, engine, bus, ghosts
  <1>14. ASSUME NEW f \in DOMAIN tasks, Recv(f) PROVE Promised'
    <2>0. UNCHANGED <<alive, hub, channels, link, acked>>
      BY <1>14 DEF Recv, engine, bus, ghosts
    <2>1. CASE tasks' = [tasks EXCEPT ![f].at = "finished"] /\ ~channels[tasks[f].chan].open
      <3>1. ASSUME NEW q \in alive, Live(q) PROVE forwarders[q] # f
        <4>1. Forwarded(q)
          BY <1>p, <3>1 DEF Promised, InTouch
        <4>2. channels[hub[q]].open
          BY <4>1 DEF Wellformed, BusOK, Forwarded
        <4> QED BY <2>1, <4>1, <4>2 DEF Forwarded
      <3>2. /\ \A g \in DOMAIN tasks : g # f => tasks'[g] = tasks[g]
            /\ tasks'[f].at = "finished"
        BY <1>0, <2>1 DEF Task
      <3>3. \A q \in alive : Live(q)' <=> Live(q)
        BY <1>0, <2>0, <3>1, <3>2 DEF Live, link
      <3>4. \A q \in alive : Held(q)' <=> Held(q)
        BY <2>0, <3>3 DEF Held, link
      <3>5. InTouch'
        BY <1>0, <1>p, <2>0, <3>1, <3>2, <3>3 DEF Promised, InTouch, Live, Forwarded, link
      <3> QED BY <1>a, <2>0, <3>4, <3>5 DEF link
    <2>2. CASE \A g \in DOMAIN tasks : /\ tasks'[g].at = tasks[g].at
                                       /\ tasks'[g].chan = tasks[g].chan
      BY <1>a, <1>b, <2>0, <2>2 DEF link
    <2>3. CASE \E m, x : tasks' = [tasks EXCEPT ![f].pos = m, ![f].pending = x]
      <3>1. PICK m, x : tasks' = [tasks EXCEPT ![f].pos = m, ![f].pending = x]
        BY <2>3
      <3>2. \A g \in DOMAIN tasks : /\ tasks'[g].at = tasks[g].at
                                    /\ tasks'[g].chan = tasks[g].chan
        BY <1>0, <3>1 DEF Task
      <3> QED BY <2>2, <3>2
    <2> QED BY <1>14, <2>1, <2>3 DEF Recv, TellLag
  <1>15. ASSUME NEW f \in DOMAIN tasks, Send(f) PROVE Promised'
    <2>1. \A g \in DOMAIN tasks : /\ tasks'[g].at = tasks[g].at
                                  /\ tasks'[g].chan = tasks[g].chan
      BY <1>0, <1>15 DEF Send, Task
    <2> QED BY <1>15, <1>a, <1>b, <2>1 DEF Send, engine, bus, link, ghosts
  <1>16. CASE Disconnect
    BY <1>16 DEF Disconnect
  <1>17. CASE UNCHANGED vars
    BY <1>17, <1>c DEF vars, engine, bus, stream, ghosts
  <1> QED BY <1>1, <1>2, <1>3, <1>4, <1>5, <1>6, <1>7, <1>8, <1>9, <1>10, <1>11, <1>12,
             <1>13, <1>14, <1>15, <1>16, <1>17
          DEF Next, TopologyStep, ClientStep, CommandStep, ForwarderStep

\* A LISTEN the server has answered holds, however the statements, the loop,
\* the forwarders and the topology run against each other: once the loop has
\* caught up, the resource is forwarded if it still exists, provided no
\* resource came back under an id the connection had not let go of.  In
\* particular the loop's own limit never refuses what the handler accepted.
THEOREM AnsweredIsKept == Spec => []AckedUnlessHaunted
  <1>1. Init => Answered
    <2> SUFFICES ASSUME Init PROVE Promised
      BY DEF Answered
    <2>1. /\ commands = <<>> /\ joining = <<>> /\ acked = {} /\ DOMAIN forwarders = {}
          /\ Len(commands) = 0 /\ listening = {}
      BY DEF Init, NoForwarders
    <2>2. \A q : ~Held(q)
      BY <2>1, JoiningHolds DEF Held, Live
    <2>3. Wanted(0) = {}
      BY <2>2 DEF Wanted, Wants
    <2>4. Few({})
      BY FS_EmptySet, SubscriptionsAssumption DEF Few
    <2>5. \A k \in 0 .. 0 : k = 0
      OBVIOUS
    <2> QED BY <2>1, <2>3, <2>4, <2>5 DEF Promised, InTouch, Live
  <1>2. Wellformed /\ Answered => AckedUnlessHaunted
    <2> SUFFICES ASSUME Answered, ~haunted, LoopAtRest, NEW r \in acked PROVE Forwarded(r)
      BY DEF AckedUnlessHaunted, AckedIsForwarded
    <2>1. Promised /\ commands = <<>> /\ joining = <<>> /\ Len(commands) = 0
      BY DEF Answered, LoopAtRest
    <2>2. r \in alive /\ Wants(r, 0)
      BY <2>1 DEF Promised, Wanted
    <2>3. Live(r)
      BY <2>1, <2>2, JoiningHolds DEF Wants, Held
    <2> QED BY <2>1, <2>2, <2>3 DEF Promised, InTouch
  <1> QED BY <1>1, <1>2, WellformedInit, WellformedStep, AnsweredStep, PTL DEF Spec
===============================================================================
