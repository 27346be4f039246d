----------------------------- MODULE MCStatements -----------------------------
(* Instances of Statements for TLC: statements around those that are       *)
(* accepted, each with what may be added, left out, repeated or reordered. *)
EXTENDS Statements

Id(n)    == Literal("string", Text("id", n))
Num(n)   == Literal("number", Text("int", n))
Minus(n) == Literal("minus", Text("int", n))
Str(n)   == Literal("string", Text("word", n))
Null     == Literal("null", None)
Param(n) == Literal("param", Text("int", n))
Quote(n) == Literal("string", Text("quote", n))

Blank == [kind |-> "other", schema |-> "", table |-> "none", clauses |-> {},
          where |-> <<>>, columns |-> <<>>, rows |-> <<>>, sets |-> <<>>,
          channel |-> Null, comment |-> {}]

Eq(col, v) == Cond("eq", col, <<v>>)
And(a, b)  == Cond("and", "", <<a, b>>)
Paren(a)   == Cond("nested", "", <<a>>)
Select(table, where) == [Blank EXCEPT !.kind = "select", !.table = table, !.where = where]

-------------------------------------------------------------------------------
\* Reads of rows.

RowFilters ==
    {Eq("resource_id", v) : v \in {Id(1), Id(2), Param(1), Null}}
    \cup {Cond("in", "resource_id", ids) :
            ids \in {<<Id(1)>>, <<Id(1), Id(2)>>, <<Id(2), Param(2)>>, <<Id(1), Id(2), Id(3)>>}}
    \cup {Cond("ge", "start", <<v>>) : v \in {Num(2), Param(1)}}
    \cup {Cond("le", "end", <<Num(4)>>), Cond("lt", "start", <<Num(2)>>),
          Cond("gt", "end", <<Minus(1)>>), Eq("end", Num(4)), Eq("id", Id(1)),
          Cond("notin", "resource_id", <<Id(1)>>), Cond("ne", "start", <<Num(2)>>),
          Cond("le", "", <<Num(2)>>)}

Trees(Leaves) ==
    {<<>>} \cup {<<a>> : a \in Leaves} \cup {<<Paren(a)>> : a \in Leaves}
    \cup {<<And(a, b)>> : a, b \in Leaves}
    \cup {<<And(a, Paren(And(b, c)))>> : a, b, c \in Leaves}

ResourceFilters == {Eq("id", Id(1)), Eq("parent_id", Id(1)), Eq("parent_id", Param(1)),
                    Cond("isnull", "parent_id", <<>>), Eq("capacity", Num(1))}

RowReads ==
    {Select("bookings", w) : w \in Trees(RowFilters)}
    \cup {Select("holds", <<And(a, Paren(b))>>) : a, b \in RowFilters}
    \cup {Select("rules", <<And(a, Paren(b))>>) : a, b \in RowFilters}
    \cup {Select("rules", <<a>>) : a \in RowFilters}
    \cup {Select("resources", w) : w \in {<<>>} \cup {<<a>> : a \in ResourceFilters}
             \cup {<<And(a, b)>> : a, b \in ResourceFilters}}

-------------------------------------------------------------------------------
\* Reads of availability.

Selectors1 == {Eq("resource_id", Id(1)), Eq("resource_id", Param(1)),
               Cond("in", "resource_id", <<Id(1), Id(2)>>),
               Cond("in", "resource_id", <<Param(1), Id(2)>>)}
Lower(v) == Cond("ge", "start", <<v>>)
Upper(v) == Cond("le", "end", <<v>>)
Extras ==
    {Lower(v) : v \in {Num(0), Num(2), Param(2)}} \cup {Upper(Num(3)), Upper(Num(9))}
    \cup {Eq("min_duration", v) : v \in {Num(1), Num(2), Param(2)}}
    \cup {Eq("min_available", v) : v \in {Num(0), Num(1), Num(2), Num(3), Minus(1), Param(2)}}
    \cup {Cond("gt", "min_duration", <<Num(1)>>), Eq("resource_id", Id(2)),
          Cond("in", "resource_id", <<Id(2)>>)}

Window(s) == And(And(s, Lower(Num(1))), Upper(Num(5)))
AvailabilityReads ==
    UNION {{Select("availability", <<Window(s)>>)}
           \cup {Select("availability", <<And(Window(s), a)>>) : a \in Extras}
           \cup {Select("availability", <<And(Paren(And(a, Window(s))), Paren(b))>>) :
                    a, b \in Extras} : s \in Selectors1}
    \cup {Select("availability", <<And(a, b)>>) : a \in Selectors1, b \in Extras}

\* A placeholder within a quoted text, before, between and after others.
QuotingReads ==
    UNION {{Select("availability", <<And(Window(s), Eq("min_duration", Quote(n)))>>),
            Select("availability", <<And(And(Window(s), Eq("min_duration", Quote(n))),
                                         Eq("min_available", Param(2)))>>),
            Select("availability", <<And(Window(s), Paren(Eq("min_duration", Quote(n))))>>),
            Select("availability", <<And(Window(s), Cond("in", "resource_id", <<Quote(n)>>))>>),
            Select("availability", <<And(And(Window(s), Eq("min_available", Quote(n))), Lower(Num(2)))>>)}
           : s \in Selectors1, n \in 1 .. 3}
    \cup {Select("bookings", <<And(Eq("resource_id", Param(1)), Cond("ge", "start", <<Quote(2)>>))>>)}

-------------------------------------------------------------------------------
\* Writes: a value for each column, all different, and the lists of columns.

ValueFor(col) ==
    CASE col = "id" -> Id(1)        [] col = "resource_id" -> Id(2)
      [] col = "parent_id" -> Id(3) [] col = "hold_id" -> Id(4)
      [] col = "booking_id" -> Id(5)
      [] col = "start" -> Num(1)    [] col = "end" -> Num(2)
      [] col = "expires_at" -> Num(3) [] col = "buffer_after" -> Num(4)
      [] col = "capacity" -> Num(2) [] col = "blocking" -> Literal("bool", Text("word", 1))
      [] OTHER -> Str(7)

Swap(cols, i, j) == [cols EXCEPT ![i] = cols[j], ![j] = cols[i]]
Tables == {"resources", "rules", "holds", "bookings"}
AllColumns(table) ==
    IF table = "resources" THEN <<"id", "parent_id", "name", "capacity", "buffer_after">>
    ELSE Positional(table)
ColumnLists(table) ==
    LET all == AllColumns(table)
    IN  {<<>>, Append(all, "id"), Append(all, "unknown"), Append(all, "hold_id")}
        \cup {Swap(all, i, j) : i, j \in DOMAIN all}
        \cup {RemoveAt(all, i) : i \in DOMAIN all}
        \cup {<<all[i], all[j]>> : i, j \in DOMAIN all}
        \cup IF table # "bookings" THEN {}
             ELSE {<<"hold_id", "id">>, <<"id", "label", "hold_id">>, <<"hold_id">>,
                   <<"hold_id", "id", "start">>}

\* The row for the columns, shorter, longer, or with another value in a place.
RowsFor(table, cols) ==
    LET of == IF cols = <<>> THEN Positional(table) ELSE cols
        row == [k \in DOMAIN of |-> ValueFor(of[k])]
    IN  {row, Append(row, Num(0)), SubSeq(row, 1, Len(row) - 1), SubSeq(row, 1, 1), <<>>}
        \cup {[row EXCEPT ![k] = v] :
                 k \in DOMAIN row, v \in {Null, Param(1), Quote(1), Num(0), Minus(1), Num(9), Str(1)}}

Insert(table, cols, rows) ==
    [Blank EXCEPT !.kind = "insert", !.table = table, !.columns = cols, !.rows = rows]
Inserts ==
    UNION {UNION {{Insert(table, cols, <<r>>) : r \in RowsFor(table, cols)} :
                     cols \in ColumnLists(table)} : table \in Tables}
    \cup {Insert(table, <<>>, rows) : table \in Tables, rows \in {<<>>}}
    \cup UNION {LET row == [k \in DOMAIN Positional(table) |-> ValueFor(Positional(table)[k])]
                IN  {Insert(table, <<>>, <<row, r>>) : r \in RowsFor(table, <<>>)}
                    \cup {Insert(table, <<>>, <<row, row, row>>)} : table \in Tables}

Wheres == {<<>>, <<Eq("id", Id(1))>>, <<Eq("id", Param(1))>>, <<Paren(Eq("id", Id(1)))>>,
           <<Eq("resource_id", Id(1))>>, <<And(Eq("id", Id(1)), Eq("id", Id(2)))>>}
Sets(cols, v) == [k \in DOMAIN cols |-> [col |-> cols[k], value |-> IF k = 1 THEN v ELSE ValueFor(cols[k])]]
SetLists ==
    {<<"name">>, <<"capacity", "name">>, <<"buffer_after", "capacity">>, <<"capacity", "capacity">>,
     <<"start", "end", "blocking">>, <<"blocking", "end", "start">>, <<"start", "end">>,
     <<"booking_id">>, <<"label", "booking_id">>, <<"label">>, <<"start", "name">>}
Updates ==
    {[Blank EXCEPT !.kind = "update", !.table = table, !.where = w,
                   !.sets = Sets(cols, v)] :
        table \in Tables, w \in Wheres, cols \in SetLists,
        v \in {Id(5), Num(0), Num(9), Minus(1), Null, Param(1), Quote(1), Str(1)}}
Deletes == {[Blank EXCEPT !.kind = "delete", !.table = table, !.where = w] :
               table \in Tables \cup {"availability"}, w \in Wheres}

-------------------------------------------------------------------------------
\* Clauses, schemas, several statements, channels.

Sample(kind) ==
    CASE kind = "select" -> Select("bookings", <<Eq("resource_id", Id(1))>>)
      [] kind = "insert" -> Insert("holds", <<>>,
             <<[k \in 1 .. 5 |-> ValueFor(Positional("holds")[k])]>>)
      [] kind = "delete" -> [Blank EXCEPT !.kind = "delete", !.table = "holds",
                                          !.where = <<Eq("id", Id(1))>>]
      [] kind = "update" -> [Blank EXCEPT !.kind = "update", !.table = "resources",
             !.where = <<Eq("id", Id(1))>>, !.sets = Sets(<<"name">>, Str(1))]
Kinds == {"select", "insert", "delete", "update"}
Clauses == [select |-> ReadClauses \cup {"into"},
            insert |-> {"returning", "on_conflict", "values_limit"},
            delete |-> {"returning", "using", "order_by", "limit", "tables", "more_from"},
            update |-> {"returning", "from", "or", "update_join"}]
Odd ==
    UNION {{[Sample(k) EXCEPT !.clauses = {c}] : c \in Clauses[k]}
           \cup {[Sample(k) EXCEPT !.schema = q] : q \in {"public", "elsewhere"}}
           \cup {[Sample(k) EXCEPT !.comment = {n}] : n \in 1 .. 3} : k \in Kinds}
    \cup {[Blank EXCEPT !.kind = k, !.channel = c] :
             k \in {"listen", "unlisten", "unlisten_all"}, c \in {Id(1), Str(1), Param(1)}}
    \cup {Blank, Select("rules", <<Eq("resource_id", Param(3))>>)}

AllTexts ==
    {<<s>> : s \in RowReads \cup AvailabilityReads \cup QuotingReads \cup Inserts \cup Updates \cup Deletes \cup Odd}
    \cup {<<>>, <<Sample("select"), Sample("delete")>>}
    \cup {<<s, Sample("delete")>> : s \in QuotingReads}

B(is, v) == [null |-> FALSE, text |-> Text(is, v)]
AllBindings == {<<>>, <<B("id", 1)>>, <<B("id", 2), B("int", 2)>>, <<B("int", 2), B("id", 1)>>,
                <<B("id", 1), B("condition", 1)>>, <<B("condition", 1), B("int", 1)>>,
                <<[null |-> TRUE, text |-> None], B("int", 1)>>}

SpanRow(i, rid, s, e) == [id |-> i, resource_id |-> rid, start |-> s, end |-> e]
SpanRows == {SpanRow(1, 1, 1, 3), SpanRow(2, 1, 2, 4), SpanRow(3, 2, 2, 4), SpanRow(4, 2, 3, 6)}
SmallDb == [bookings |-> SpanRows, holds |-> SpanRows, rules |-> SpanRows,
            resources |-> {[id |-> 1, parent_id |-> 0], [id |-> 2, parent_id |-> 1]}]
===============================================================================
