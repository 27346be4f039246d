------------------------------ MODULE Statements ------------------------------
(***************************************************************************)
(* How a connection runs a statement (wire.rs): at once (simple query), or *)
(* parsed, described, bound and executed (extended query), perhaps several *)
(* times with other parameters.  What SQL means here is Sql; what the      *)
(* engine then does is the other modules' concern, so that a write is the  *)
(* call it makes, an availability read the question it asks, and any other *)
(* read a choice of rows of a fixed database.                              *)
(***************************************************************************)
EXTENDS Sql

CONSTANTS
    MAX_PARAMS,     \* the highest $N
    Texts,          \* what clients send: sequences of statements
    Bindings,       \* and bind: sequences of [null, text]
    Db              \* the rows of resources, rules, bookings, holds

ASSUME StatementsAssumption == MAX_PARAMS \in Nat

VARIABLES
    stored,      \* the prepared text, <<>> before there is one
    described,   \* the columns announced for it, "unknown" before that
    ran,         \* the text last run, after substitution
    reply        \* and its reply

vars == <<stored, described, ran, reply>>

-------------------------------------------------------------------------------
(* Parameters.                                                             *)

RECURSIVE LiteralsOf(_)
LiteralsOf(e) == IF e.op \in {"and", "nested"}
                 THEN UNION {LiteralsOf(x) : x \in Range(e.args)} ELSE Range(e.args)

Literals(s) ==
    UNION ({LiteralsOf(e) : e \in Range(s.where)} \cup {Range(r) : r \in Range(s.rows)})
    \cup {a.value : a \in Range(s.sets)} \cup {s.channel}

\* A placeholder among the characters of a quoted text: 'N$N'.
Quotes(v) == v.form = "string" /\ v.text.is = "quote"

\* The scan is of characters, and knows nothing of quotes and comments.
Placeholders(sql) ==
    UNION {s.comment \cup {v.text.v : v \in {w \in Literals(s) : w.form = "param" \/ Quotes(w)}} :
              s \in Range(sql)}

\* The highest placeholder.
count_params(sql) == Max({0} \cup Placeholders(sql))

\* A bound value is quoted, whatever it is, and NULL is a word, also within a
\* quoted text; a placeholder that nothing is bound to stays.
Bound(v, params) ==
    IF (v.form # "param" /\ ~Quotes(v)) \/ v.text.v \notin DOMAIN params THEN v
    ELSE IF Quotes(v) THEN Literal("string", Text("word", 0))
    ELSE IF params[v.text.v].null THEN Literal("null", None)
    ELSE Literal("string", params[v.text.v].text)

RECURSIVE BindCond(_, _)
BindCond(e, params) ==
    [e EXCEPT !.args = [k \in DOMAIN e.args |->
        IF e.op \in {"and", "nested"} THEN BindCond(e.args[k], params)
        ELSE Bound(e.args[k], params)]]

\* A channel is no literal: the quotes of a bound one become part of its name.
BoundChannel(v, params) == IF Bound(v, params) = v THEN v ELSE Literal("other", None)

BoundEach(sql, params) ==
    [n \in DOMAIN sql |->
        [sql[n] EXCEPT
            !.where = [k \in DOMAIN @ |-> BindCond(@[k], params)],
            !.rows  = [k \in DOMAIN @ |-> [c \in DOMAIN @[k] |-> Bound(@[k][c], params)]],
            !.sets  = [k \in DOMAIN @ |-> [@[k] EXCEPT !.value = Bound(@, params)]],
            !.channel = BoundChannel(@, params)]]

\* Within a quoted text the quotes of a bound value end that text, and what
\* the value spells is read as SQL.
Opened(v, params) == Quotes(v) /\ v.text.v \in DOMAIN params /\ ~params[v.text.v].null
Opens(literals, params) == \E v \in literals : Opened(v, params)

RECURSIVE Chain(_)
Chain(e) == IF e.op = "and" THEN Chain(e.args[1]) \o Chain(e.args[2]) ELSE <<e>>
Conjoin(conds) == FoldLeft(LAMBDA a, b : Cond("and", "", <<a, b>>), Head(conds), Tail(conds))

\* What is read then, of a WHERE clause: the text 'N' and, if the value spells
\* another condition and begins a comment, that condition instead of the rest.
\* Any other value, and any other place (a list, parentheses, an assignment, a
\* row), leaves no statement that is accepted.
CutOff(where, params) ==
    LET chain == IF where = <<>> THEN <<>> ELSE Chain(where[1])
        k == SelectInSeq(chain, LAMBDA e : Opens(LiteralsOf(e), params))
        e == chain[k]
        v == e.args[1]
        spelt == params[v.text.v].text
    IN  IF k = 0 \/ e.op \in {"nested", "in", "notin"} \/ spelt.is # "condition" THEN <<>>
        ELSE <<Conjoin(SubSeq(chain, 1, k - 1)
                \o <<[e EXCEPT !.args = <<Literal("string", Text("int", v.text.v))>>],
                     Cond("eq", "min_available", <<Literal("number", Text("int", spelt.v))>>)>>)>>

substitute_params(sql, params) ==
    LET n == SelectInSeq(sql, LAMBDA s : Opens(Literals(s), params))
    IN  IF n = 0 THEN BoundEach(sql, params)
        ELSE LET where == CutOff(sql[n].where, params)
             IN  IF where = <<>> THEN <<>>
                 ELSE BoundEach(Append(SubSeq(sql, 1, n - 1), [sql[n] EXCEPT !.where = where]),
                                params)

-------------------------------------------------------------------------------
(* Describe and execute.                                                   *)

NoColumns == "none"

\* Mutant: a condition in parentheses is not looked into.
SchemaAtTop(sql) ==
    IF sql = <<>> \/ sql[1].kind # "select" THEN NoColumns
    ELSE IF sql[1].table # "availability" THEN sql[1].table
    ELSE LET w == sql[1].where
             top == IF w # <<>> /\ w[1].op = "and" THEN w[1].args ELSE w
         IN  IF /\ Having(top, "in", "resource_id") # <<>>
                /\ Having(top, "eq", "min_available") # <<>>
             THEN "multi_availability" ELSE "availability"

\* Which columns a read is announced to have: the narrow ones for a merged
\* availability, and the table's otherwise.
schema_for_sql(sql) ==
    IF sql = <<>> \/ sql[1].kind # "select" THEN NoColumns
    ELSE IF sql[1].table # "availability" THEN sql[1].table
    ELSE IF availability_shape(sql[1].where) = "Merged" THEN "multi_availability"
    ELSE "availability"

\* SpanFilter::matches.
Matches(f, row) ==
    LET v == IF f.col = "start" THEN row.start ELSE row.end
    IN  CASE f.op = "lt" -> v < f.value
          [] f.op = "le" -> v <= f.value
          [] f.op = "gt" -> v > f.value
          [] f.op = "ge" -> v >= f.value
          [] f.op = "eq" -> v = f.value

\* get_bookings, get_holds, get_rules and their Multi forms: the rows of each
\* id once.
Rows(cmd) ==
    CASE cmd.op \in {"bookings", "holds"} ->
            {r \in Db[cmd.op] : /\ Text("id", r.resource_id) \in Range(cmd.ids)
                                /\ \A k \in DOMAIN cmd.filters : Matches(cmd.filters[k], r)}
      [] cmd.op = "rules" ->
            {r \in Db.rules : Text("id", r.resource_id) \in Range(cmd.ids)}
      [] cmd.op = "resources" ->
            {r \in Db.resources :
                CASE cmd.by = "all"       -> TRUE
                  [] cmd.by = "id"        -> Text("id", r.id) = cmd.id
                  [] cmd.by = "parent_id" ->
                        IF cmd.id = None THEN r.parent_id = 0
                        ELSE Text("id", r.parent_id) = cmd.id}

ReadOps == {"bookings", "holds", "rules", "resources"}

\* The columns of the rows that an executed read sends.
Columns(cmd) ==
    CASE cmd.op \in ReadOps -> cmd.op
      [] cmd.op = "availability" ->
            IF cmd.shape = "Merged" THEN "multi_availability" ELSE "availability"
      [] OTHER -> NoColumns

\* Span::try_new of every row that has a span.
SpansInOrder(cmd) ==
    LET ordered(f) == {"start", "end"} \subseteq DOMAIN f => f["start"].v < f["end"].v
    IN  CASE cmd.op = "insert" -> \A k \in DOMAIN cmd.rows : ordered(cmd.rows[k])
          [] cmd.op = "update" -> ordered(cmd.set)
          [] OTHER             -> TRUE

\* More ids than an IN list may have: two lists can be.
TooMany(cmd) == cmd.op \in {"bookings", "holds", "availability"}
                /\ Len(cmd.ids) > MAX_IN_CLAUSE_IDS

\* The channel is resource_<id>.
BadChannel(cmd) == cmd.op \in {"listen", "unlisten"}
                   /\ ~(cmd.channel.form = "string" /\ cmd.channel.text.is = "id")

Error == [ok |-> FALSE, columns |-> NoColumns, rows |-> {}, call |-> <<>>]

execute_command(cmd) ==
    IF ~SpansInOrder(cmd) \/ TooMany(cmd) \/ BadChannel(cmd) THEN Error
    ELSE [ok |-> TRUE, columns |-> Columns(cmd),
          rows |-> IF cmd.op \in ReadOps THEN Rows(cmd) ELSE {},
          call |-> IF cmd.op \in ReadOps THEN <<>> ELSE <<cmd>>]

run_statement(sql) == IF Accepts(sql) THEN execute_command(parse_sql(sql)) ELSE Error

-------------------------------------------------------------------------------
(* The protocol.                                                           *)

\* A simple query: one text, run as it is.
Query(sql) ==
    /\ ran' = sql /\ reply' = run_statement(sql)
    /\ stored' = <<>> /\ described' = "unknown"

\* Parse: the text is kept, unless it has a placeholder beyond the limit.
Parse(sql) ==
    /\ count_params(sql) <= MAX_PARAMS
    /\ stored' = sql /\ described' = "unknown"
    /\ ran' = <<>> /\ reply' = Error

Describe ==
    /\ stored # <<>>
    /\ described' = schema_for_sql(stored)
    /\ UNCHANGED <<stored, ran, reply>>

Execute(params) ==
    /\ stored # <<>>
    /\ ran' = substitute_params(stored, params)
    /\ reply' = run_statement(ran')
    /\ UNCHANGED <<stored, described>>

Init == stored = <<>> /\ described = "unknown" /\ ran = <<>> /\ reply = Error

Next == \/ stored = <<>> /\ ran = <<>> /\ \E sql \in Texts : Query(sql) \/ Parse(sql)
        \/ Describe
        \/ \E params \in Bindings : Execute(params)

Spec == Init /\ [][Next]_vars

-------------------------------------------------------------------------------
(* Properties.                                                             *)

\* Binding left the conditions of the statement what they are.
RECURSIVE Shape(_)
Shape(e) == IF e.op \in {"and", "nested"} THEN [e EXCEPT !.args = [k \in DOMAIN @ |-> Shape(@[k])]]
            ELSE [e EXCEPT !.args = <<>>]
Shapes(sql) == [n \in DOMAIN sql |-> [k \in DOMAIN sql[n].where |-> Shape(sql[n].where[k])]]

\* schema_for_sql's promise: what was announced for a statement, before its
\* parameters had values, is what every execution of it sends, unless a value
\* bound within a quoted text has made another statement of it.
AnnouncedIsSent ==
    stored # <<>> /\ described # "unknown" /\ reply.ok =>
        \/ reply.columns = described
        \/ Shapes(ran) # Shapes(stored) /\ \E s \in Range(stored) : \E v \in Literals(s) : Quotes(v)

\* What SQL says of a row and a condition.
SaysTrue(e, row) ==
    LET v == row[e.col]
        w == e.args[1].text.v * (IF e.args[1].form = "minus" THEN -1 ELSE 1)
    IN  CASE e.op = "eq" -> v = w
          [] e.op = "lt" -> v < w
          [] e.op = "le" -> v <= w
          [] e.op = "gt" -> v > w
          [] e.op = "ge" -> v >= w
          [] e.op = "ne" -> v # w
          [] e.op = "in" -> v \in {e.args[k].text.v : k \in DOMAIN e.args}
          [] e.op = "notin" -> v \notin {e.args[k].text.v : k \in DOMAIN e.args}
          [] e.op = "isnull" -> v = 0

RECURSIVE Says(_, _)
Says(e, row) == IF e.op \in {"and", "nested"} THEN \A x \in Range(e.args) : Says(x, row)
                ELSE SaysTrue(e, row)

Asked(s) == {r \in Db[s.table] : \A e \in Range(s.where) : Says(e, r)}

\* Conditions on one column of which a read keeps the last, or the union.
Selectors(s, col) ==
    SelectSeq(conjuncts_of(s.where), LAMBDA e : e.col = col /\ e.op \in {"eq", "in"})
Repeats(s) == \E col \in {"resource_id", "min_duration", "min_available"} :
                  Len(Selectors(s, col)) > 1

\* sql.rs: every conjunct is understood or the read is refused.  The rows of a
\* read are those its WHERE clause asks for; where the resource is selected
\* more than once they may be more, and never less.
ReadsAnswerTheWhere ==
    \A s \in Range(ran) : reply.ok /\ s.kind = "select" /\ s.table # "availability" =>
        /\ s.clauses \subseteq Unseen
        /\ Asked(s) \subseteq reply.rows
        /\ ~Repeats(s) => reply.rows = Asked(s)

\* The question an availability read puts to the engine meets every conjunct,
\* and is no narrower than they are; where the set of resources or a parameter
\* is given more than once, the window still is.
AvailabilityAsksTheWhere ==
    \A s \in Range(ran) : reply.ok /\ s.kind = "select" /\ s.table = "availability" =>
        LET q  == reply.call[1]
            of(op, col) == {e.args[1].text.v * (IF e.args[1].form = "minus" THEN -1 ELSE 1) :
                e \in {x \in Range(conjuncts_of(s.where)) : x.op = op /\ x.col = col}}
            ids == {e \in Range(conjuncts_of(s.where)) : e.col = "resource_id"}
        IN  /\ q.start \in of("ge", "start") /\ \A t \in of("ge", "start") : t <= q.start
            /\ q.end \in of("le", "end")     /\ \A t \in of("le", "end") : q.end <= t
            /\ ~Repeats(s) =>
                  /\ Range(q.min_duration) = of("eq", "min_duration")
                  /\ Range(q.min_available) = of("eq", "min_available")
                  /\ \A e \in ids : {a.text : a \in Range(e.args)} = Range(q.ids)

\* The column that a value of an INSERT is for.
ColumnOf(s, k) == IF s.columns = <<>> THEN Positional(InsertKind(s))[k] ELSE s.columns[k]

\* The INSERTs in which no value is passed over and none taken for another:
\* no column is named twice, a resource's id is named when any column is, and
\* unnamed values are no more than the columns.
PlainInsert(s) ==
    /\ IsInjective(s.columns)
    /\ s.columns # <<>> /\ s.table = "resources" => "id" \in Range(s.columns)
    /\ s.columns = <<>> => \A k \in DOMAIN s.rows :
           Len(s.rows[k]) <= Len(Positional(InsertKind(s)))

\* A write that is accepted makes the call it spells out: every value in the
\* field of its column, in each row, and the other fields at their defaults.
WritesKeepEveryValue ==
    \A s \in Range(ran) : reply.ok =>
        /\ s.kind = "insert" /\ PlainInsert(s) =>
              LET made == reply.call[1].rows
              IN  /\ Len(made) = Len(s.rows)
                  /\ \A n \in DOMAIN made :
                        LET k(c) == CHOOSE i \in DOMAIN s.rows[n] : ColumnOf(s, i) = c
                            given == {ColumnOf(s, i) : i \in DOMAIN s.rows[n]}
                        IN  /\ given \subseteq DOMAIN made[n]
                            /\ \A c \in DOMAIN made[n] :
                                  made[n][c] = IF c \in given THEN Stored(c, s.rows[n][k(c)])
                                               ELSE Default(c)
        /\ s.kind = "update" =>
              /\ DOMAIN reply.call[1].set = {a.col : a \in Range(s.sets)}
              /\ \A c \in DOMAIN reply.call[1].set :
                    \E a \in Range(s.sets) : a.col = c /\ reply.call[1].set[c] = Stored(c, a.value)
        /\ s.kind \in {"update", "delete"} =>
              Says(s.where[1], [id |-> reply.call[1].id.v])
===============================================================================
