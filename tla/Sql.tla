---------------------------------- MODULE Sql ---------------------------------
(***************************************************************************)
(* The SQL adapter (sql.rs): from a parsed statement to a Command, or a    *)
(* refusal.  Every refusal is one error to the client (wire.rs, sql_err),  *)
(* so a refusal is the guard of the statement that is false, and the order *)
(* in which the guards are read does not show.                             *)
(*                                                                         *)
(* A literal is its form and what its characters spell; a condition is a   *)
(* tree of comparisons, AND and parentheses.  Names are in lower case.     *)
(***************************************************************************)
EXTENDS Integers, FiniteSets, SequencesExt

CONSTANTS
    MAX_BATCH_SIZE,       \* rows of an INSERT
    MAX_IN_CLAUSE_IDS,    \* ids of an IN list
    MAX_U32               \* the largest capacity

ASSUME SqlAssumption ==
    {MAX_BATCH_SIZE, MAX_IN_CLAUSE_IDS, MAX_U32} \subseteq Nat \ {0}

-------------------------------------------------------------------------------
(* Literals.                                                               *)

\* What characters spell: an id, an integer, a word, an integer N and then $N, a
\* condition on min_available ("id", "int", "word", "quote", "condition", and
\* "none" for NULL).
Text(is, v) == [is |-> is, v |-> v]
None == Text("none", 0)

\* form: string, number, minus (a negated number), bool, null, param (an
\* unbound $N) or other (an expression).
Literal(form, text) == [form |-> form, text |-> text]

parse_i64(v) == Text("int", IF v.form = "minus" THEN -v.text.v ELSE v.text.v)

IsUlid(v) == v.form \in {"string", "number"} /\ v.text.is = "id"
IsI64(v)  == v.form \in {"string", "number", "minus"} /\ v.text.is = "int"
IsU32(v)  == IsI64(v) /\ parse_i64(v).v \in 0 .. MAX_U32
IsBool(v) == \/ v.form \in {"bool", "number"}
             \/ v.form = "string" /\ v.text.is \in {"int", "word"} /\ v.text.v \in {0, 1}
IsNull(v) == v.form = "null"

\* What a literal must be to be stored in a column, and what is stored then.
Fits(column, v) ==
    CASE column \in {"id", "resource_id", "hold_id", "booking_id"} -> IsUlid(v)
      [] column = "parent_id"                    -> IsUlid(v) \/ IsNull(v)
      [] column \in {"start", "end", "expires_at"} -> IsI64(v)
      [] column = "buffer_after"                 -> IsI64(v) \/ IsNull(v)
      [] column = "capacity"                     -> IsU32(v)
      [] column = "blocking"                     -> IsBool(v)
      [] column \in {"name", "label"}            -> IsNull(v) \/ v.form = "string"

Stored(column, v) ==
    CASE IsNull(v)           -> None
      [] column = "blocking" -> Text("bool", IF v.text.v = 0 THEN 0 ELSE 1)
      [] column \in {"start", "end", "expires_at", "buffer_after", "capacity"} -> parse_i64(v)
      [] OTHER               -> v.text

-------------------------------------------------------------------------------
(* Conditions: [op, col, args], where col is "" for what is no column, and *)
(* args are literals, or conditions under "and" and "nested".              *)

Cond(op, col, args) == [op |-> op, col |-> col, args |-> args]

\* The conjuncts, left to right, through AND and parentheses.
RECURSIVE flatten_conjuncts(_)
flatten_conjuncts(e) ==
    CASE e.op = "nested" -> flatten_conjuncts(e.args[1])
      [] e.op = "and"    -> flatten_conjuncts(e.args[1]) \o flatten_conjuncts(e.args[2])
      [] OTHER           -> <<e>>

\* A WHERE clause is a sequence of at most one condition.
conjuncts_of(where) == IF where = <<>> THEN <<>> ELSE flatten_conjuncts(where[1])

Is(e, op, col) == e.op = op /\ e.col = col
Having(conjuncts, op, col) == SelectSeq(conjuncts, LAMBDA e : Is(e, op, col))
Firsts(conds) == [k \in DOMAIN conds |-> conds[k].args[1]]
Numbers(conds) == [k \in DOMAIN conds |-> parse_i64(conds[k].args[1]).v]
InIds(conds) == FlattenSeq([k \in DOMAIN conds |->
                    [n \in DOMAIN conds[k].args |-> conds[k].args[n].text]])

\* resource_id IN (...), no longer than it may be.
IdList(e) == /\ Is(e, "in", "resource_id")
             /\ Len(e.args) <= MAX_IN_CLAUSE_IDS
             /\ \A k \in DOMAIN e.args : IsUlid(e.args[k])
IdEq(e, col) == Is(e, "eq", col) /\ IsUlid(e.args[1])

-------------------------------------------------------------------------------
(* SELECT.                                                                 *)

\* How the rows of an availability read look, from the structure alone.
availability_shape(where) ==
    LET leaves == conjuncts_of(where)
    IN  IF Having(leaves, "in", "resource_id") = <<>> THEN "Single"
        ELSE IF Having(leaves, "eq", "min_available") # <<>> THEN "Merged"
        ELSE "PerResourceMulti"

AvailabilityFilter(e) ==
    \/ IdEq(e, "resource_id")
    \/ IdList(e)
    \/ Is(e, "eq", "min_duration")  /\ IsI64(e.args[1])
    \/ Is(e, "eq", "min_available") /\ IsI64(e.args[1]) /\ parse_i64(e.args[1]).v >= 0
    \/ Is(e, "ge", "start")         /\ IsI64(e.args[1])
    \/ Is(e, "le", "end")           /\ IsI64(e.args[1])

\* An option is a sequence of at most one value; a repeated = leaves the last.
LastOf(values) == IF values = <<>> THEN <<>> ELSE <<Last(values)>>

\* Mutant: the last bound seen stands.
LastSeen(values) == Last(values)

\* Repeated bounds intersect.
Latest(values)   == Max(Range(values))
Earliest(values) == Min(Range(values))

AvailabilityCommand(conjuncts, shape) ==
    [op |-> "availability", shape |-> shape,
     ids |-> IF shape = "Single" THEN <<Having(conjuncts, "eq", "resource_id")[1].args[1].text>>
             ELSE InIds(Having(conjuncts, "in", "resource_id")),
     start |-> Latest(Numbers(Having(conjuncts, "ge", "start"))),
     end |-> Earliest(Numbers(Having(conjuncts, "le", "end"))),
     min_duration |-> LastOf(Numbers(Having(conjuncts, "eq", "min_duration"))),
     min_available |-> LastOf(Numbers(Having(conjuncts, "eq", "min_available")))]

\* One resource or a set of them, a window, and min_available only of a set.
AcceptsAvailability(conjuncts) ==
    LET given(op, col) == Having(conjuncts, op, col)
        ids == InIds(given("in", "resource_id"))
        n   == Numbers(given("eq", "min_available"))
    IN  /\ \A k \in DOMAIN conjuncts : AvailabilityFilter(conjuncts[k])
        /\ given("ge", "start") # <<>> /\ given("le", "end") # <<>>
        /\ Len(given("eq", "resource_id")) + (IF ids = <<>> THEN 0 ELSE 1) = 1
        /\ n # <<>> => ids # <<>> /\ Last(n) \in 1 .. Len(ids)

SpanOps == {"lt", "le", "gt", "ge", "eq"}
SpanColumns == {"start", "end"}

SpanCond(e) == e.op \in SpanOps /\ e.col \in SpanColumns
SpanFilter(e) == SpanCond(e) /\ IsI64(e.args[1])

\* collect_resource_ids, of a bookings or holds read: the ids of every = and
\* IN, one after the other, and the span comparisons.
SelectorIds(e) == IF SpanCond(e) THEN <<>>
                  ELSE [n \in DOMAIN e.args |-> e.args[n].text]
CollectIds(conjuncts) ==
    FlattenSeq([k \in DOMAIN conjuncts |-> SelectorIds(conjuncts[k])])

\* Mutant: NOT IN is read as IN.
NegationLost(e) ==
    \/ IdEq(e, "resource_id") \/ SpanFilter(e)
    \/ IdList([e EXCEPT !.op = IF @ = "notin" THEN "in" ELSE @])

AllocationFilter(e) == IdEq(e, "resource_id") \/ IdList(e) \/ SpanFilter(e)

AcceptsAllocations(conjuncts) ==
    /\ \A k \in DOMAIN conjuncts : AllocationFilter(conjuncts[k])
    /\ CollectIds(conjuncts) # <<>>

AllocationsCommand(table, conjuncts) ==
    [op |-> table, ids |-> CollectIds(conjuncts),
     filters |-> LET spans == SelectSeq(conjuncts, SpanCond)
                 IN  [k \in DOMAIN spans |-> [col |-> spans[k].col, op |-> spans[k].op,
                                             value |-> parse_i64(spans[k].args[1]).v]]]

\* extract_resource_id_filter: a rules read takes resource_id = alone, and
\* the last of several.
AcceptsRules(conjuncts) ==
    conjuncts # <<>> /\ \A k \in DOMAIN conjuncts : IdEq(conjuncts[k], "resource_id")
RulesCommand(conjuncts) == [op |-> "rules", ids |-> <<Last(Firsts(conjuncts)).text>>]

\* extract_resource_filter: nothing, or one condition as it stands.
AcceptsResources(where) ==
    where # <<>> => \/ IdEq(where[1], "parent_id") \/ IdEq(where[1], "id")
                    \/ Is(where[1], "isnull", "parent_id")
ResourcesCommand(where) ==
    [op |-> "resources",
     by |-> IF where = <<>> THEN "all" ELSE where[1].col,
     id |-> IF where = <<>> \/ where[1].op = "isnull" THEN None ELSE where[1].args[1].text]

\* Clauses that are refused, and those that are parsed and not looked at: a
\* DELETE's further FROM items and an UPDATE's joins among them.
ReadClauses  == {"columns", "join", "order_by", "limit", "fetch", "with",
                 "locks", "distinct", "having", "group_by"}
WriteClauses == {"returning", "on_conflict", "from", "or", "using", "order_by",
                 "limit", "tables"}
Unseen       == {"into", "values_limit", "more_from", "update_join"}

AcceptsSelect(s) ==
    LET conjuncts == conjuncts_of(s.where)
    IN  /\ s.clauses \cap ReadClauses = {}
        /\ CASE s.table = "availability"          -> AcceptsAvailability(conjuncts)
             [] s.table \in {"bookings", "holds"} -> AcceptsAllocations(conjuncts)
             [] s.table = "rules"                 -> AcceptsRules(conjuncts)
             [] s.table = "resources"             -> AcceptsResources(s.where)
             [] OTHER                             -> FALSE

parse_select(s) ==
    LET conjuncts == conjuncts_of(s.where)
    IN  CASE s.table = "availability" ->
                AvailabilityCommand(conjuncts, availability_shape(s.where))
          [] s.table \in {"bookings", "holds"} -> AllocationsCommand(s.table, conjuncts)
          [] s.table = "rules"                 -> RulesCommand(conjuncts)
          [] s.table = "resources"             -> ResourcesCommand(s.where)

-------------------------------------------------------------------------------
(* INSERT, UPDATE, DELETE.                                                 *)

\* An INSERT of bookings that names hold_id commits holds.
InsertKind(s) == IF s.table = "bookings" /\ "hold_id" \in Range(s.columns)
                 THEN "commits" ELSE s.table

\* The order of the values when no column is named.
Positional(kind) ==
    CASE kind = "resources" -> <<"id", "parent_id", "capacity", "buffer_after">>
      [] kind = "rules"     -> <<"id", "resource_id", "start", "end", "blocking">>
      [] kind = "holds"     -> <<"id", "resource_id", "start", "end", "expires_at">>
      [] kind = "bookings"  -> <<"id", "resource_id", "start", "end", "label">>
      [] kind = "commits"   -> <<>>

Known(kind) ==
    CASE kind = "commits"   -> {"id", "hold_id", "label"}
      [] kind = "resources" -> Range(Positional(kind)) \cup {"name"}
      [] OTHER              -> Range(Positional(kind))

Required(kind) == IF kind = "resources" THEN {"id"} ELSE Known(kind) \ {"label"}

Default(column) == IF column = "capacity" THEN Text("int", 1) ELSE None

PositionIn(columns, column) ==
    IF column \in Range(columns) THEN SelectInSeq(columns, LAMBDA c : c = column) ELSE 0

\* Mutant: a declared column list is not looked at.
ByPosition(kind, columns, column) == PositionIn(Positional(kind), column)

\* Which value is a column's (col_value, col_idx), 0 for none: by name when
\* columns are named, and by position otherwise; a resource's id is the first
\* value when no column is called so.
ValueIndex(kind, columns, column) ==
    IF columns = <<>> THEN PositionIn(Positional(kind), column)
    ELSE IF kind = "resources" /\ column = "id" /\ "id" \notin Range(columns) THEN 1
    ELSE PositionIn(columns, column)

HasValue(kind, columns, values, column) ==
    ValueIndex(kind, columns, column) \in DOMAIN values

AcceptsRow(kind, columns, values) ==
    /\ values # <<>>
    /\ columns # <<>> => Len(values) = Len(columns)
    /\ Range(columns) \subseteq Known(kind)
    /\ \A c \in Known(kind) :
          IF HasValue(kind, columns, values, c)
          THEN Fits(c, values[ValueIndex(kind, columns, c)])
          ELSE c \notin Required(kind)

ParsedRow(kind, columns, values) ==
    [c \in Known(kind) |->
        IF HasValue(kind, columns, values, c)
        THEN Stored(c, values[ValueIndex(kind, columns, c)]) ELSE Default(c)]

AcceptsInsert(s) ==
    /\ s.clauses \cap WriteClauses = {}
    /\ s.table \in {"resources", "rules", "holds", "bookings"}
    /\ Len(s.rows) \in 1 .. MAX_BATCH_SIZE
    /\ \A k \in DOMAIN s.rows : AcceptsRow(InsertKind(s), s.columns, s.rows[k])

parse_insert(s) ==
    [op |-> "insert", kind |-> InsertKind(s),
     rows |-> [k \in DOMAIN s.rows |-> ParsedRow(InsertKind(s), s.columns, s.rows[k])]]

\* extract_where_id: the one condition a write takes.
WhereId(s) == s.where # <<>> /\ IdEq(s.where[1], "id")

AcceptsDelete(s) == /\ s.clauses \cap WriteClauses = {}
                    /\ s.table \in {"resources", "rules", "holds", "bookings"}
                    /\ WhereId(s)
parse_delete(s) == [op |-> "delete", table |-> s.table, id |-> s.where[1].args[1].text]

Assignable(table) ==
    CASE table = "resources" -> {"name", "capacity", "buffer_after"}
      [] table = "rules"     -> {"start", "end", "blocking"}
      [] table = "holds"     -> {"booking_id", "label"}
      [] OTHER               -> {}
MustAssign(table) ==
    CASE table = "rules" -> {"start", "end", "blocking"}
      [] table = "holds" -> {"booking_id"}
      [] OTHER           -> {}

Assigned(s) == {s.sets[k].col : k \in DOMAIN s.sets}
\* Of several assignments to a column the last.
LastSet(s, c) == Last(SelectSeq(s.sets, LAMBDA a : a.col = c)).value

AcceptsUpdate(s) ==
    /\ s.clauses \cap WriteClauses = {}
    /\ WhereId(s)
    /\ s.table \in {"resources", "rules", "holds"}
    /\ Assigned(s) \subseteq Assignable(s.table)
    /\ MustAssign(s.table) \subseteq Assigned(s)
    /\ \A k \in DOMAIN s.sets : Fits(s.sets[k].col, s.sets[k].value)
parse_update(s) ==
    [op |-> "update", table |-> s.table, id |-> s.where[1].args[1].text,
     set |-> [c \in Assigned(s) |-> Stored(c, LastSet(s, c))]]

-------------------------------------------------------------------------------
(* parse_sql: one statement, of a table that is not in another schema.     *)

Accepts(sql) ==
    /\ Len(sql) = 1
    /\ LET s == sql[1] IN
       \/ s.kind \in {"listen", "unlisten", "unlisten_all"}
       \/ /\ s.schema \in {"", "public"}
          /\ \/ s.kind = "select" /\ AcceptsSelect(s)
             \/ s.kind = "insert" /\ AcceptsInsert(s)
             \/ s.kind = "delete" /\ AcceptsDelete(s)
             \/ s.kind = "update" /\ AcceptsUpdate(s)

parse_sql(sql) ==
    LET s == sql[1]
    IN  CASE s.kind = "select" -> parse_select(s)
          [] s.kind = "insert" -> parse_insert(s)
          [] s.kind = "delete" -> parse_delete(s)
          [] s.kind = "update" -> parse_update(s)
          [] OTHER             -> [op |-> s.kind, channel |-> s.channel]
===============================================================================
