---------------------------- MODULE PgsqlBuilder -----------------------------
(***************************************************************************)
(* The statement builder of Gene\Db\Pgsql (db/pgsql.c): one operator per    *)
(* method, from the handle to the handle.  It refuses insertIgnore() and   *)
(* upsert().                                                               *)
(***************************************************************************)
EXTENDS SqlStatement

(* A connection is opened from a configuration that has what PDO needs.    *)
InitPdo(config) == {"dsn", "username", "password"} \subseteq config
Construct(ready) == NewHandle(ready)

ResetSqlParams(q) ==
    [Restarted(q) EXCEPT
        !.sql = Absent, !.join = Absent, !.where = Absent, !.group = Absent, !.having = Absent,
        !.union = Absent, !.order = Absent, !.limit = Absent, !.lock = Absent, !.data = Absent]
Reset(q) == ResetSqlParams(q)

-----------------------------------------------------------------------------
Select(q) == Put(ResetSqlParams(q), "sql", <<>>)
Count(q) == Put(ResetSqlParams(q), "sql", <<>>)
Delete(q) == Put(ResetSqlParams(q), "sql", <<>>)
Insert(q, n) == InsertFieldValue(ResetSqlParams(q), n)
InsertIgnore(q, n) == Rejected(q)
Upsert(q, n, columns) == Rejected(q)
BatchInsert(q, rows) ==
    Put([ResetSqlParams(q) EXCEPT !.data = BatchValues(rows)], "sql", BatchMeant(rows))
Update(q, n) == UpdateFieldValue(ResetSqlParams(q), n)
Arithmetic(q, amount) ==
    IF amount = Absent THEN Rejected(q) ELSE BuildArithmetic(ResetSqlParams(q), amount)
Sql(q, arg) ==
    LET fresh == ResetSqlParams(q)
    IN  Put(Bind(fresh, arg, fresh.ready), "sql", Meant(fresh, arg))

-----------------------------------------------------------------------------
(* where() copies the caller's array, except a literal in a ready worker;  *)
(* in() keeps whatever array it gets, also one in a variable of the caller.*)
InitWhere(q) == Appended(q, "where", <<>>)
WhereText(q, arg) == Appended(Bind(InitWhere(q), arg, q.ready), "where", Meant(q, arg))
WhereArray(q, conditions) == MakeWhere(InitWhere(q), conditions)
In(q, arg) == Appended(Bind(InitWhere(q), arg, TRUE), "where", Meant(q, arg))

Join(q, on, type) == DoJoin(q, on, type)
LeftJoin(q, on) == DoJoin(q, on, "left")
RightJoin(q, on) == DoJoin(q, on, "right")
JoinOn(q, predicates, type) == BuildJoinOn(q, predicates, type)

(* A text, or a builder of the same driver; anything else is reported.     *)
Union(q, kind, sub) ==
    CASE kind = "text" -> Appended(q, "union", <<>>)
      [] kind = "builder" -> Appended(WithData(q, sub), "union", SubText(sub))
      [] kind = "other" -> q

Group(q) == Put(q, "group", <<>>)
Having(q) == Put(q, "having", <<>>)
OrderBy(q, column, direction, allow) == OrderByBuild(q, column, direction, allow)
Order(q) == Put(q, "order", <<>>)
Limit(q) == Put(q, "limit", <<>>)
SetLock(q) == Put(q, "lock", <<>>)
LockForUpdate(q) == SetLock(q)
SharedLock(q) == SetLock(q)

-----------------------------------------------------------------------------
(* The statement as it is executed and as print() shows it.                *)
Assembled(q) ==
    Text(q.sql) \o Text(q.join) \o Text(q.where) \o Text(q.group) \o Text(q.having)
      \o Text(q.union) \o Text(q.order) \o Text(q.limit) \o Text(q.lock)
Printed(q) ==
    Text(q.sql) \o Text(q.join) \o Text(q.where) \o Text(q.group) \o Text(q.having)
      \o Text(q.union) \o Text(q.order) \o Text(q.limit) \o Text(q.lock)
SaveHistory(q) == Remembered(q)
Execute(q, development) == IF development THEN SaveHistory(q) ELSE q

(* The builder that union() gets: a query of the same driver.               *)
Builder(arg) == WhereText([Select(NewHandle(FALSE)) EXCEPT !.next = 100], arg)

Apply(q, c) ==
    CASE c.op = "reset" -> Reset(q)
      [] c.op = "select" -> Select(q)
      [] c.op = "count" -> Count(q)
      [] c.op = "delete" -> Delete(q)
      [] c.op = "insert" -> Insert(q, c.n)
      [] c.op = "insertIgnore" -> InsertIgnore(q, c.n)
      [] c.op = "upsert" -> Upsert(q, c.n, c.columns)
      [] c.op = "batchInsert" -> BatchInsert(q, c.rows)
      [] c.op = "update" -> Update(q, c.n)
      [] c.op = "increment" -> Arithmetic(q, c.amount)
      [] c.op = "sql" -> Sql(q, c.arg)
      [] c.op = "where" -> WhereText(q, c.arg)
      [] c.op = "whereArray" -> WhereArray(q, c.conditions)
      [] c.op = "in" -> In(q, c.arg)
      [] c.op = "join" -> Join(q, c.on, c.type)
      [] c.op = "leftJoin" -> LeftJoin(q, c.on)
      [] c.op = "rightJoin" -> RightJoin(q, c.on)
      [] c.op = "joinOn" -> JoinOn(q, c.predicates, c.type)
      [] c.op = "union" -> Union(q, c.kind, Builder(c.arg))
      [] c.op = "group" -> Group(q)
      [] c.op = "having" -> Having(q)
      [] c.op = "orderBy" -> OrderBy(q, c.column, c.direction, c.allow)
      [] c.op = "order" -> Order(q)
      [] c.op = "limit" -> Limit(q)
      [] c.op = "lockForUpdate" -> LockForUpdate(q)
      [] c.op = "sharedLock" -> SharedLock(q)
===============================================================================
