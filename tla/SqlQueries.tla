------------------------------ MODULE SqlQueries ------------------------------
(* The queries! macro of sql (sql/src/lib.rs): one read or write query, run  *)
(* with the same arguments on a connection or transaction of each kind.      *)
(* Sqlite gets a prepared statement with named parameters, a write of        *)
(* several rows being executed row by row; the two MySQL clients get one     *)
(* text with all the values in it.  Values cross three representations: that *)
(* of the Rust type, mysql_common's Value, and Sqlite's or RowField.         *)
(*                                                                           *)
(* Every connection has a table of its own, with a key (u64, UNIQUE), data    *)
(* and a generated id; the databases and mysql_common's conversions are      *)
(* modelled by what the code relies on.                                      *)
EXTENDS Integers, Sequences, FiniteSets, SequencesExt

CONSTANTS Keys,         \* keys of rows, u64
          Data,         \* the Rust type of the data column -> its values
          Bits,         \* the width of the wide integers (64)
          MaxValues,    \* rows of a write, members of a list
          MaxQueries

VARIABLES type,         \* the Rust type of the data column
          tables,       \* each connection: the rows, in its own representation
          saved,        \* <<>>, or the tables when the transaction started
          query,        \* the last query
          before,       \* the tables before it
          answers,      \* what each connection answered
          count

vars == <<type, tables, saved, query, before, answers, count>>

Connections == {"Sqlite", "Mysql", "OssMysql"}

-----------------------------------------------------------------------------
(* Values.                                                                   *)

\* `u as i64`
AsI64(n) == IF n >= 2^(Bits - 1) THEN n - 2^Bits ELSE n

\* ToValue::to_value() of mysql_common, for a value of a Rust type.
to_value(t, v) ==
    CASE t = "i64" -> <<"Int", v>>
      [] t = "u64" -> <<"UInt", v>>
      [] t = "bool" -> <<"Int", IF v THEN 1 ELSE 0>>
      [] t \in {"Vec<u8>", "[u8; 1]"} -> <<"Bytes", v>>
      [] t = "f64" -> <<"Double", v>>
      [] t = "NaiveDateTime" -> <<"Date", v>>
      [] t = "Option<i64>" -> IF v = <<>> THEN <<"NULL", 0>> ELSE <<"Int", v[1]>>
      [] t = "Duration" -> <<"Time", v>>

MutantToSql(v) == IF v[1] = "UInt" THEN <<"Integer", v[2] % 2^(Bits - 1)>> ELSE <<v[1], v[2]>>

\* ValueWrapper::to_sql(); there is no Time.
to_sql(v) ==
    CASE v[1] = "NULL" -> <<"Null", 0>>
      [] v[1] = "Bytes" -> <<"Blob", v[2]>>
      [] v[1] = "Int" -> <<"Integer", v[2]>>
      [] v[1] = "UInt" -> <<"Integer", AsI64(v[2])>>
      [] v[1] \in {"Float", "Double"} -> <<"Real", v[2]>>
      [] v[1] = "Date" -> <<"Text", v[2]>>
      [] v[1] = "Time" -> <<"panic", 0>>

\* ValueWrapper::column_result()
column_result(s) ==
    CASE s[1] = "Null" -> <<"NULL", 0>>
      [] s[1] = "Integer" -> <<"Int", s[2]>>
      [] s[1] = "Real" -> <<"Double", s[2]>>
      [] s[1] \in {"Text", "Blob"} -> <<"Bytes", s[2]>>

Got(v) == <<"ok", v>>
NotGot == <<"wrong", 0>>

Fits(t, n) ==
    IF t = "u64" THEN n \in 0..(2^Bits - 1)
    ELSE n \in -(2^(Bits - 1))..(2^(Bits - 1) - 1)

\* FromValue::from_value_opt() of mysql_common; text is parsed.
from_value_opt(t, v) ==
    CASE t \in {"i64", "u64"} /\ v[1] \in {"Int", "UInt", "Bytes"} /\ Fits(t, v[2]) ->
             Got(v[2])
      [] t = "bool" /\ v[1] \in {"Int", "Bytes"} /\ v[2] \in {0, 1} -> Got(v[2] = 1)
      [] t = "Vec<u8>" /\ v[1] = "Bytes" -> Got(v[2])
      [] t = "[u8; 1]" /\ v[1] = "Bytes" /\ Len(v[2]) = 1 -> Got(v[2])
      [] t = "f64" /\ v[1] \in {"Double", "Bytes"} -> Got(v[2])
      [] t = "NaiveDateTime" /\ v[1] \in {"Bytes", "Date"} -> Got(v[2])
      [] t = "Duration" /\ v[1] \in {"Time", "Bytes"} -> Got(v[2])
      [] t = "Option<i64>" /\ v[1] = "NULL" -> Got(<<>>)
      [] t = "Option<i64>" /\ v[1] \in {"Int", "Bytes"} -> Got(<<v[2]>>)
      [] OTHER -> NotGot

\* The rows of mysql_async: text, or NULL.
text_value(v) == IF v[1] = "NULL" THEN v ELSE <<"Bytes", v[2]>>

\* What the client hands over for a column: times and dates as text.
row_field(v) ==
    CASE v[1] = "Int" -> <<"I64", v[2]>>
      [] v[1] = "UInt" -> <<"U64", v[2]>>
      [] v[1] \in {"Bytes", "Date", "Time"} -> <<"Bytes", v[2]>>
      [] v[1] = "Double" -> <<"Double", v[2]>>
      [] v[1] = "NULL" -> <<"Null", 0>>

\* From<RowField> for Value
FieldValue(f) ==
    CASE f[1] = "I64" -> <<"Int", f[2]>>
      [] f[1] = "U64" -> <<"UInt", f[2]>>
      [] f[1] = "Null" -> <<"NULL", 0>>
      [] OTHER -> f

MutantTryFromInt(t, f) == Got(IF t = "u64" THEN f[2] % 2^Bits ELSE AsI64(f[2]))

\* impl_try_from_for_int_types!: try_into() refuses what does not fit.
try_from_int(t, f) ==
    IF f[1] \in {"I64", "U64"} /\ Fits(t, f[2]) THEN Got(f[2]) ELSE NotGot

\* OptionalTryFromRowField::try_from_opt() and, for Option<T>, try_from().
try_from(t, f) ==
    CASE t \in {"i64", "u64"} -> try_from_int(t, f)
      [] t = "Option<i64>" -> IF f[1] = "Null" THEN Got(<<>>)
                              ELSE LET n == try_from_int("i64", f)
                                   IN  IF n = NotGot THEN n ELSE Got(<<n[2]>>)
      [] t = "f64" -> IF f[1] = "Double" THEN Got(f[2]) ELSE NotGot
      [] t = "Vec<u8>" -> IF f[1] = "Bytes" THEN Got(f[2]) ELSE NotGot
      [] t = "[u8; 1]" -> IF f[1] = "Bytes" /\ Len(f[2]) = 1 THEN Got(f[2])
                          ELSE NotGot
      [] t = "bool" -> IF f[1] = "U64" /\ f[2] \in {0, 1} THEN Got(f[2] = 1)
                       ELSE from_value_opt(t, FieldValue(f))
      [] OTHER -> from_value_opt(t, FieldValue(f))

-----------------------------------------------------------------------------
(* The databases.  A statement yields [ok, table, rows]: the rows it changed *)
(* or, for a read, those it found.                                           *)

Unchanged(table) == [ok |-> TRUE, table |-> table, rows |-> <<>>]
Refused(table) == [ok |-> FALSE, table |-> table, rows |-> <<>>]

InsertRow(s, row, ignore) ==
    IF ~s.ok THEN s
    ELSE IF row[1] \notin {r[1] : r \in ToSet(s.table)}
    THEN [s EXCEPT !.table = Append(@, row), !.rows = Append(@, row)]
    ELSE IF ignore THEN s ELSE [s EXCEPT !.ok = FALSE]

\* ... WHERE key = `p' OR key IN `list'
Wanted(row, p, list) == row[1] = p \/ row[1] \in ToSet(list)

Delete(table, p, list) ==
    [ok |-> TRUE, rows |-> SelectSeq(table, LAMBDA r : Wanted(r, p, list)),
     table |-> SelectSeq(table, LAMBDA r : ~Wanted(r, p, list))]

Select(table, p, list) ==
    [ok |-> TRUE, table |-> table,
     rows |-> SelectSeq(table, LAMBDA r : Wanted(r, p, list))]

-----------------------------------------------------------------------------
(* Sqlite.                                                                   *)

\* _prepare_sqlite_params!: the names and the values of the parameters.
prepare_sqlite_params(q) ==
    <<[name |-> <<"p">>, value |-> to_sql(to_value("u64", q.p))]>> \o
    [i \in DOMAIN q.list |->
        [name |-> <<"list", i - 1>>, value |-> to_sql(to_value("u64", q.list[i]))]]

MutantEmitSqliteLnames(n) == [i \in 1..n |-> <<"list", i>>]

\* _emit_sqlite_lnames!: the names in the statement, from the number of values.
emit_sqlite_lnames(n) == [i \in 1..n |-> <<"list", i - 1>>]

Unbound == <<"Null", 0>>

\* Parameters are bound by name; one that is not given is NULL.
Bound(params, name) ==
    LET given == {i \in DOMAIN params : params[i].name = name}
    IN  IF given = {} THEN Unbound
        ELSE params[CHOOSE i \in given : \A j \in given : j <= i].value

\* sqlite_statement(): the arguments that reach the names in the statement.
SqliteArguments(q) ==
    LET params == prepare_sqlite_params(q)
        names == emit_sqlite_lnames(Len(q.list))
    IN  [p |-> Bound(params, <<"p">>),
         list |-> [i \in DOMAIN names |-> Bound(params, names[i])]]

\* sqlite_query() and sqlite_query_with_transaction()
SqliteQuery(table, q) == Select(table, SqliteArguments(q).p, SqliteArguments(q).list)

\* sqlite_exec_query() of a write with a list, and the same in a transaction.
SqliteExec(table, q) == Delete(table, SqliteArguments(q).p, SqliteArguments(q).list)

\* _write_sqlite_query!
write_sqlite_query(q) == IF q.qtype = "insert_or_ignore" THEN "INSERT OR IGNORE" ELSE "INSERT"

\* _sqlite_named_params!: the values of a row, each under its own name.
sqlite_named_params(v) == <<to_sql(to_value("u64", v[1])), to_sql(to_value(type, v[2]))>>

\* sqlite_exec_query() of a write with values: row by row, up to an error.
SqliteInsert(table, q) ==
    FoldLeft(LAMBDA s, v : InsertRow(s, sqlite_named_params(v),
                                     write_sqlite_query(q) = "INSERT OR IGNORE"),
             Unchanged(table), q.values)

\* sqlite_row_to_tuple()
SqliteRow(t, row) ==
    <<from_value_opt("u64", column_result(row[1])),
      from_value_opt(t, column_result(row[2]))>>

-----------------------------------------------------------------------------
(* MySQL.                                                                    *)

Comma == <<",", 0>>

MutantSeparated(vals) == FoldLeft(LAMBDA text, v : Append(text, v) \o <<Comma>>, <<>>, vals)

\* The loops with `first' of mysql_query(), _emit_mysql_lnames! and SqlList.
Separated(vals) ==
    FoldLeft(LAMBDA text, v :
                 IF text = <<>> THEN <<v>> ELSE text \o <<Comma, v>>,
             <<>>, vals)

\* The server's grammar: at least one value, commas between them.
Listed(text) ==
    /\ Len(text) % 2 = 1
    /\ \A i \in DOMAIN text : (text[i] = Comma) <=> (i % 2 = 0)

Members(text) == [i \in 1..((Len(text) + 1) \div 2) |-> text[2 * i - 1]]

\* _emit_mysql_lnames!
emit_mysql_lnames(q) == Separated([i \in DOMAIN q.list |-> to_value("u64", q.list[i])])

\* read_query() of the text from mysql_query().
MysqlQuery(table, q) ==
    LET text == emit_mysql_lnames(q)
    IN  IF Listed(text) THEN Select(table, to_value("u64", q.p), Members(text))
        ELSE Refused(table)

\* write_query() of one with a list, and query_iter() in a transaction.
MysqlExec(table, q) ==
    LET text == emit_mysql_lnames(q)
    IN  IF Listed(text) THEN Delete(table, to_value("u64", q.p), Members(text))
        ELSE Refused(table)

\* _write_mysql_query!
write_mysql_query(q) == IF q.qtype = "insert_or_ignore" THEN "INSERT IGNORE" ELSE "INSERT"

\* _append_to_mysql_values!
append_to_mysql_values(v) == Separated(<<to_value("u64", v[1]), to_value(type, v[2])>>)

\* write_query() of one with values.  A statement that fails leaves the table
\* as it was.
MysqlInsert(table, q) ==
    LET rows == FoldLeft(LAMBDA s, v : InsertRow(s, Members(append_to_mysql_values(v)),
                                                 write_mysql_query(q) = "INSERT IGNORE"),
                         Unchanged(table), q.values)
    IN  IF q.values # <<>> /\ rows.ok THEN rows ELSE Refused(table)

\* The columns of a row of either client: RowField, or the value itself.
MysqlRow(c, t, row) ==
    IF c = "Mysql" THEN <<try_from("u64", row_field(row[1])), try_from(t, row_field(row[2]))>>
    ELSE <<from_value_opt("u64", text_value(row[1])), from_value_opt(t, text_value(row[2]))>>

-----------------------------------------------------------------------------
(* query(), commented_query() and their forms with a transaction.            *)

MutantRun(c, q) ==
    CASE q.kind = "insert" -> IF c = "Sqlite" THEN SqliteInsert(tables[c], q) ELSE MysqlInsert(tables[c], q)
      [] q.kind = "delete" -> IF c = "Sqlite" THEN SqliteExec(tables[c], q) ELSE MysqlExec(tables[c], q)
      [] q.kind = "select" -> IF c = "Sqlite" THEN SqliteQuery(tables[c], q) ELSE MysqlQuery(tables[c], q)

\* query_internal() and query_internal_with_transaction(): a write of no values
\* is answered at once.
Run(c, q) ==
    CASE q.kind = "insert" ->
             IF q.values = <<>> THEN Unchanged(tables[c])
             ELSE IF c = "Sqlite" THEN SqliteInsert(tables[c], q)
             ELSE MysqlInsert(tables[c], q)
      [] q.kind = "delete" ->
             IF c = "Sqlite" THEN SqliteExec(tables[c], q) ELSE MysqlExec(tables[c], q)
      [] q.kind = "select" ->
             IF c = "Sqlite" THEN SqliteQuery(tables[c], q) ELSE MysqlQuery(tables[c], q)

RowOf(c, t, row) == IF c = "Sqlite" THEN SqliteRow(t, row) ELSE MysqlRow(c, t, row)

\* WriteResult: whether there is an id of the last row (for mysql_async in a
\* transaction, whether one was generated) and the number of rows; or the rows
\* as tuples, a value that cannot be parsed being a panic or, in the Mysql
\* client, an error.
Answer(c, q, s) ==
    IF ~s.ok THEN [state |-> "error", rows |-> 0, id |-> FALSE]
    ELSE IF q.kind # "select"
    THEN [state |-> "done", rows |-> Len(s.rows),
          id |-> IF c = "OssMysql" /\ saved # <<>> THEN q.kind = "insert" /\ s.rows # <<>>
                 ELSE q.kind = "delete" \/ q.values # <<>>]
    ELSE LET rows == [i \in DOMAIN s.rows |-> RowOf(c, q.as, s.rows[i])]
         IN  [state |-> IF \E i \in DOMAIN rows, j \in 1..2 : rows[i][j] = NotGot
                        THEN "unparsed" ELSE "done",
              rows |-> [i \in DOMAIN rows |-> <<rows[i][1][2], rows[i][2][2]>>],
              id |-> FALSE]

Lists(S) == UNION {[1..n -> S] : n \in 0..MaxValues}

\* Times cannot be given to Sqlite.
Storable == {v \in Data[type] : to_sql(to_value(type, v))[1] # "panic"}

Queries ==
    [kind : {"insert"}, qtype : {"none", "insert_or_ignore"}, values : Lists(Keys \X Storable)] \cup
    [kind : {"delete"}, p : Keys, list : Lists(Keys)] \cup
    [kind : {"select"}, p : Keys, list : Lists(Keys),
     as : {type} \cup ({"i64", "u64", "bool", "[u8; 1]"} \cap
                       IF type \in {"i64", "u64"} THEN {"i64", "u64", "bool"}
                       ELSE IF type = "Vec<u8>" THEN {"[u8; 1]"} ELSE {})]

NoQuery == [kind |-> "none"]

Failed == \E c \in Connections : answers[c].state # "done"

Init ==
    /\ type \in DOMAIN Data
    /\ tables = [c \in Connections |-> <<>>]
    /\ saved = <<>>
    /\ query = NoQuery /\ before = tables
    /\ answers = [c \in Connections |-> [state |-> "done", rows |-> 0, id |-> FALSE]]
    /\ count = 0

\* A transaction that is not handed back by a failed query ends with it: the
\* MySQL clients roll it back.
Query(q) ==
    /\ ~Failed /\ count < MaxQueries
    /\ LET run == [c \in Connections |-> Run(c, q)]
       IN  /\ answers' = [c \in Connections |-> Answer(c, q, run[c])]
           /\ tables' = [c \in Connections |->
                  IF saved = <<>> \/ c = "Sqlite" \/ answers'[c].state = "done"
                  THEN run[c].table ELSE saved[1][c]]
    /\ query' = q /\ before' = tables /\ count' = count + 1
    /\ UNCHANGED <<type, saved>>

StartTransaction ==
    /\ ~Failed /\ saved = <<>> /\ count < MaxQueries
    /\ saved' = <<tables>>
    /\ UNCHANGED <<type, tables, query, before, answers, count>>

Commit ==
    /\ ~Failed /\ saved # <<>>
    /\ saved' = <<>>
    /\ UNCHANGED <<type, tables, query, before, answers, count>>

\* rollback(), or the transaction is dropped, which is one for Sqlite too.
Rollback ==
    /\ ~Failed /\ saved # <<>>
    /\ saved' = <<>> /\ tables' = saved[1]
    /\ query' = NoQuery /\ before' = tables'
    /\ UNCHANGED <<type, answers, count>>

Next ==
    \/ \E q \in Queries : Query(q)
    \/ StartTransaction \/ Commit \/ Rollback

Spec == Init /\ [][Next]_vars

-----------------------------------------------------------------------------

\* Sqlite's form of a MySQL table.
Stored(table) == [i \in DOMAIN table |-> <<to_sql(table[i][1]), to_sql(table[i][2])>>]

\* Sqlite has no unsigned integers: one that is too large comes back negative.
Wraps(table) ==
    \E i \in DOMAIN table, j \in 1..2 :
        table[i][j][1] = "UInt" /\ table[i][j][2] >= 2^(Bits - 1)

(* A query means the same on every connection: the tables hold the same      *)
(* rows, the answers are the same, and what was written is read back, unless *)
(* a u64 beyond i64 is read from Sqlite.  Only an empty list is refused by   *)
(* MySQL alone; a write that fails does so everywhere, leaves nothing behind *)
(* in MySQL and, outside of a transaction too, the rows before the one at    *)
(* fault in Sqlite.                                                          *)
DialectsAgree ==
    LET mysql == tables["OssMysql"]
        state(c) == answers[c].state
    IN  /\ tables["Mysql"] = mysql
        /\ ~Failed =>
            /\ tables["Sqlite"] = Stored(mysql)
            /\ query.kind # "select" \/ ~Wraps(mysql) =>
                  \A c \in Connections :
                      /\ state(c) = state("OssMysql")
                      /\ answers[c].rows = answers["OssMysql"].rows
            /\ query.kind = "insert" =>
                  /\ answers["Mysql"].rows = Len(mysql) - Len(before["Mysql"])
                  /\ answers["Mysql"].rows > 0 => \A c \in Connections : answers[c].id
        /\ query.kind = "insert" =>
            /\ \A c \in Connections : state(c) = state("OssMysql")
            /\ state("OssMysql") = "error" =>
                  /\ saved = <<>> => mysql = before["OssMysql"]
                  /\ \E p \in Prefixes(query.values) :
                        tables["Sqlite"] =
                            SqliteInsert(before["Sqlite"], [query EXCEPT !.values = p]).table
                  /\ query.qtype = "none"
        /\ query.kind \in {"delete", "select"} =>
            /\ state("Sqlite") # "error"
            /\ state("OssMysql") = "error" <=> query.list = <<>>
        /\ query.kind = "select" /\ query.as = type =>
            /\ \A c \in Connections \ {"Sqlite"} : state(c) # "unparsed"
            /\ state("Sqlite") = "unparsed" => Wraps(before["OssMysql"])
        /\ query.kind = "select" =>
            \A c \in Connections \ {"Sqlite"} : state(c) = "done" =>
                \A i \in DOMAIN answers[c].rows :
                    \E r \in ToSet(mysql) :
                        /\ to_value("u64", answers[c].rows[i][1]) = r[1]
                        /\ query.as # "bool" => to_value(query.as, answers[c].rows[i][2])[2] = r[2][2]
=============================================================================
