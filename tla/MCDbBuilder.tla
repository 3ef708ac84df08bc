------------------------------ MODULE MCDbBuilder ------------------------------
(***************************************************************************)
(* Applications for small instances of the statement builders: every       *)
(* method, with the arguments that take different ways through it.         *)
(***************************************************************************)
EXTENDS Naturals, Sequences

CONSTANTS Absent, HistoryMax

Common == INSTANCE SqlStatement

Op(op) == [op |-> op]
Arguments == {Common!None, Common!One, Common!List(2), Common!Constant}
WhereText(arg) == [op |-> "where", arg |-> arg]
WhereArray(conditions) == [op |-> "whereArray", conditions |-> conditions]
Condition(kind, n) == Common!Condition(kind, n)
JoinOn(predicates, type) == [op |-> "joinOn", predicates |-> predicates, type |-> type]
OrderBy(column, direction, allow) ==
    [op |-> "orderBy", column |-> column, direction |-> direction, allow |-> allow]

DialectCalls ==
    {Op("select"), WhereText(Common!One), Op("lockForUpdate"), Op("sharedLock"), Op("limit"),
     [op |-> "insert", n |-> 2], [op |-> "insertIgnore", n |-> 1],
     [op |-> "upsert", n |-> 2, columns |-> {}], [op |-> "upsert", n |-> 2, columns |-> {"c"}],
     [op |-> "upsert", n |-> 2, columns |-> {"c", "invalid"}]}
PortableCalls ==
    {Op("reset"), Op("select"), Op("count"), Op("delete"),
     [op |-> "insert", n |-> 2], [op |-> "update", n |-> 2],
     [op |-> "batchInsert", rows |-> << <<1, 2>>, <<1, 2>>, <<1, 2>> >>],
     [op |-> "increment", amount |-> 0], [op |-> "increment", amount |-> 2],
     [op |-> "increment", amount |-> Absent]}
  \cup {[op |-> "sql", arg |-> arg] : arg \in Arguments}
  \cup {WhereText(arg) : arg \in Arguments}
  \cup {WhereArray(<<Condition("equal", 1)>>),
        WhereArray(<<Condition("in", 2), Condition("parenthesis", 0), Condition("fragment", 2)>>),
        WhereArray(<<Condition("operator", 1), Condition("short", 0), Condition("equal", 1)>>)}
  \cup {[op |-> "in", arg |-> arg] : arg \in Arguments}
  \cup {[op |-> "join", on |-> "columns", type |-> "inner"], [op |-> "join", on |-> "columns", type |-> "invalid"],
        [op |-> "leftJoin", on |-> "text"], [op |-> "rightJoin", on |-> "columns"],
        JoinOn(<<"column", "value">>, "left"), JoinOn(<<"value", "null", "value">>, "left"),
        JoinOn(<<"value", "invalid">>, "left"), JoinOn(<<"value">>, "invalid"), JoinOn(<<>>, "left")}
  \cup {[op |-> "union", kind |-> "builder", arg |-> arg] : arg \in {Common!None, Common!List(2)}}
  \cup {[op |-> "union", kind |-> kind, arg |-> Common!None] : kind \in {"text", "other"}}
  \cup {Op("group"), Op("having"), Op("order"), Op("limit"),
        OrderBy("c", "asc", {}), OrderBy("c", "up", {}), OrderBy("c", "desc", {"d"})}

Server == {"dsn", "username", "password"}
ApplicationChoices ==
    {[config |-> Server, production |-> TRUE, ready |-> TRUE, calls |-> PortableCalls, length |-> 3],
     [config |-> Server, production |-> TRUE, ready |-> FALSE, calls |-> PortableCalls, length |-> 2],
     [config |-> Server, production |-> TRUE, ready |-> FALSE, calls |-> DialectCalls, length |-> 3],
     [config |-> {"dsn"}, production |-> FALSE, ready |-> FALSE,
      calls |-> {Op("select"), WhereText(Common!One)}, length |-> 2]}
=============================================================================
