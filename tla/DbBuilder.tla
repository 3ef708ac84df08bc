------------------------------- MODULE DbBuilder -------------------------------
(***************************************************************************)
(* The four statement builders side by side: one handle of each driver,    *)
(* all of them given the same calls, as an application does that can be    *)
(* configured for any of the databases.                                    *)
(*                                                                         *)
(* A handle serves one statement after another.  A chain starts with a     *)
(* call that begins a statement; Careful names the mistakes that the       *)
(* application does not make:                                              *)
(*   "union"    it binds nothing behind a union with a builder,            *)
(*   "verb"     it gives joinOn() a value only when the text in front of   *)
(*              the join has no placeholder,                               *)
(*   "literal"  it binds nothing more when the handle holds on to an       *)
(*              array that the caller uses again.                          *)
(***************************************************************************)
EXTENDS Naturals, Sequences, FiniteSets

CONSTANTS
    Absent,
    HistoryMax,
    Applications,   \* [config: the keys of the configuration, production, ready,
                    \*  calls: the calls it makes, length: bound on the calls of a statement]
    Careful,        \* the mistakes it does not make
    Schemas         \* names of attached files

BuilderAssumption ==
    /\ \A a \in Applications : a.length \in Nat \ {0}
    /\ HistoryMax \in Nat \ {0}
    /\ Careful \subseteq {"union", "verb", "literal"}

VARIABLES
    handles,    \* [Drivers -> handle]
    app,        \* the application
    schemas,    \* the files attached to the SQLite connection
    length      \* the calls of the statement so far

builderVars == <<handles, app, schemas, length>>

Mysql == INSTANCE MysqlBuilder
Sqlite == INSTANCE SqliteBuilder
Pgsql == INSTANCE PgsqlBuilder
Mssql == INSTANCE MssqlBuilder
Common == INSTANCE SqlStatement

Drivers == {"mysql", "sqlite", "pgsql", "mssql"}

Apply(d, c) ==
    CASE d = "mysql" -> Mysql!Apply(handles[d], c)
      [] d = "sqlite" -> Sqlite!Apply(handles[d], c)
      [] d = "pgsql" -> Pgsql!Apply(handles[d], c)
      [] d = "mssql" -> Mssql!Apply(handles[d], c)
Assembled(d) ==
    CASE d = "mysql" -> Mysql!Assembled(handles[d])
      [] d = "sqlite" -> Sqlite!Assembled(handles[d])
      [] d = "pgsql" -> Pgsql!Assembled(handles[d])
      [] d = "mssql" -> Mssql!Assembled(handles[d])
Printed(d) ==
    CASE d = "mysql" -> Mysql!Printed(handles[d])
      [] d = "sqlite" -> Sqlite!Printed(handles[d])
      [] d = "pgsql" -> Pgsql!Printed(handles[d])
      [] d = "mssql" -> Mssql!Printed(handles[d])
Open(d) ==
    CASE d = "mysql" -> Mysql!InitPdo(app.config)
      [] d = "sqlite" -> Sqlite!InitPdo(app.config)
      [] d = "pgsql" -> Pgsql!InitPdo(app.config)
      [] d = "mssql" -> Mssql!InitPdo(app.config)
Construct(d, ready) ==
    CASE d = "mysql" -> Mysql!Construct(ready)
      [] d = "sqlite" -> Sqlite!Construct(ready)
      [] d = "pgsql" -> Pgsql!Construct(ready)
      [] d = "mssql" -> Mssql!Construct(ready)
Execute(d) ==
    CASE d = "mysql" -> Mysql!Execute(handles[d], ~app.production)
      [] d = "sqlite" -> Sqlite!Execute(handles[d], ~app.production)
      [] d = "pgsql" -> Pgsql!Execute(handles[d], ~app.production)
      [] d = "mssql" -> Mssql!Execute(handles[d], ~app.production)

-----------------------------------------------------------------------------
Starts == {"reset", "select", "count", "delete", "insert", "insertIgnore", "upsert", "batchInsert",
           "update", "increment", "sql"}

(* The values that a call binds behind those that are bound already.       *)
Binds(c) ==
    c.op = "whereArray" \/ (c.op \in {"where", "in"} /\ c.arg # Common!None)
ValuePredicates(c) == c.op = "joinOn" /\ \E i \in DOMAIN c.predicates : c.predicates[i] = "value"

Sensible(q, c) ==
    /\ "union" \in Careful /\ Binds(c) => Common!Text(q.union) = <<>>
    /\ "verb" \in Careful /\ ValuePredicates(c) => Common!Text(q.sql) = <<>>
    /\ "literal" \in Careful /\ Binds(c) => ~q.borrowed

(* One call on every handle; where it threw, the chain ends.               *)
Call(c) ==
    /\ c.op \in Starts \/ (length \in 1..(app.length - 1) /\ \A d \in Drivers : Sensible(handles[d], c))
    /\ handles' = [d \in Drivers |->
                     IF handles[d].rejected /\ c.op \notin Starts THEN handles[d] ELSE Apply(d, c)]
    /\ length' = IF c.op \in Starts THEN 1 ELSE length + 1
    /\ UNCHANGED <<app, schemas>>

(* execute(), all(), row(), cell(), lastId(), affectedRows(): the statement*)
(* stays on the handle.                                                    *)
Run ==
    /\ length > 0
    /\ handles' = [d \in Drivers |-> IF Open(d) THEN Execute(d) ELSE handles[d]]
    /\ UNCHANGED <<app, schemas, length>>

Attach(path, schema) ==
    /\ length = 0
    /\ schemas' = Sqlite!Attach(schemas, path, schema)
    /\ UNCHANGED <<handles, app, length>>
Detach(schema) ==
    /\ length = 0
    /\ schemas' = Sqlite!Detach(schemas, schema)
    /\ UNCHANGED <<handles, app, length>>

BuilderInit ==
    /\ app \in Applications /\ schemas = {} /\ length = 0
    /\ handles = [d \in Drivers |-> Construct(d, app.ready)]
BuilderNext ==
    \/ \E c \in app.calls : Call(c)
    \/ Run
    \/ \E path \in {"file", "invalid"}, schema \in Schemas : Attach(path, schema)
    \/ \E schema \in Schemas : Detach(schema)
BuilderSpec == BuilderInit /\ [][BuilderNext]_builderVars

-----------------------------------------------------------------------------
BuilderTypeOK ==
    /\ app \in Applications /\ length \in 0..app.length /\ schemas \subseteq Schemas
    /\ \A d \in Drivers : /\ handles[d].history \in 0..HistoryMax
                          /\ \A p \in Common!Parts :
                               handles[d][p] = Absent \/ DOMAIN handles[d][p] = {"current", "marks"}

(* Every placeholder of a statement gets the value it was written for,     *)
(* whatever calls built the statement and in which order: the values of    *)
(* the data stand in the order of the text.                                *)
Aligned == \A d \in Drivers : handles[d].rejected \/ Assembled(d) = Common!Bound(handles[d])

(* Nothing of an earlier statement is left in the next one: the parts of   *)
(* the handle belong to the statement that was begun last.                 *)
NothingLeft ==
    \A d \in Drivers, p \in Common!Parts :
        handles[d][p] = Absent \/ handles[d][p].current

(* What is executed is the statement that was built, with its values.      *)
StatementExact == Aligned /\ NothingLeft

(* The four drivers, which are four copies of one builder, make the same   *)
(* of the same calls, and show what they execute.                          *)
DriversAgree ==
    \A d \in Drivers :
        handles[d].rejected \/
            /\ Printed(d) = Assembled(d)
            /\ \A e \in Drivers : handles[e].rejected \/ Assembled(d) = Assembled(e)
===============================================================================
