--------------------------------- MODULE MCOrm ---------------------------------
(***************************************************************************)
(* Applications for small instances of the ORM.  Queries: conditions of    *)
(* every kind in reads and writes; unions, also of unions and of queries   *)
(* without rows; pages on the drivers that count them differently; the     *)
(* clauses that some terminal methods refuse.  Records: objects and static *)
(* methods on rows whose keys the database or the application gives, and   *)
(* tasks that toggle and flip the status of two rows.                      *)
(***************************************************************************)
EXTENDS Naturals, Sequences, TLC

CONSTANTS Absent, q1, q2, q3, Objects, Tasks

Everyone == {q1, q2, q3}

(* The operations of a query.                                              *)
Where(v) == [tag |-> "where", or |-> FALSE, vals |-> <<v>>]
OrWhere(v) == [Where(v) EXCEPT !.or = TRUE]
In(vals) == [tag |-> "in", or |-> FALSE, vals |-> vals]
Blank(v) == [tag |-> "blank", or |-> FALSE, vals |-> <<v>>]
WhereArray(pairs) == [tag |-> "array", pairs |-> pairs]
JoinOn(v) == [tag |-> "join", vals |-> <<v>>]
Join == [tag |-> "join", vals |-> <<>>]
Part(tag) == [tag |-> tag]
Limit(a, b) == [tag |-> "limit", a |-> a, b |-> b]

Alone(calls, length, driver, terminals) ==
    [calls |-> [q \in Everyone |-> IF q = q1 THEN calls ELSE {}], branches |-> [q \in Everyone |-> {}],
     reads |-> {}, terminals |-> terminals, length |-> length, each |-> length, renews |-> TRUE, driver |-> driver, db |-> [q \in Everyone |-> "db"]]

Conditional ==
    Alone({Where(1), OrWhere(2), In(<<3, 4>>), In(<<>>), Blank(5), WhereArray(<< <<"a", 6>> >>),
           WhereArray(<< <<"b", 7>>, <<"a", 8>> >>)}, 4, "mysql", {"all", "count", "update", "delete"})
Clauses(driver) ==
    Alone({Where(1), JoinOn(2), Join, Part("group"), Part("lock"), WhereArray(<< <<"a", 3>> >>)},
          3, driver, {"all", "count", "paginate", "increment", "delete"})
Pages(driver) ==
    Alone({Where(1), Limit(4, Absent), Limit(5, 6), Part("order")}, 3, driver,
          {"all", "first", "count", "paginate", "paginateResult"})
(* The static reads of a model, while a query is built on the same handle. *)
Classes(driver) ==
    LET keys == WhereArray(<< <<"a", 6>>, <<"b", 7>> >>)
        wheres == {<<>>, <<keys>>, <<Where(5)>>}
    IN  [Alone({Where(1), Part("order")}, 2, driver, {"all", "delete"}) EXCEPT
           !.reads = {[method |-> "find", id |-> 5], [method |-> "findMany", ids |-> <<>>],
                      [method |-> "findMany", ids |-> <<5, 6>>]}
                \cup [method : {"findAll"}, where : wheres]
                \cup [method : {"page"}, where : wheres, page : 0..5, perPage : {0, 1, 2, 3}]]

Unions ==
    [calls |-> q1 :> {Where(1)} @@ q2 :> {Where(2)} @@ q3 :> {Where(3), In(<<>>)},
     branches |-> q1 :> {q2, q3} @@ q2 :> {q3} @@ q3 :> {}, renews |-> FALSE, each |-> 2,
     reads |-> {}, terminals |-> {"all", "paginate"}, length |-> 5, driver |-> "pgsql",
     db |-> [q \in Everyone |-> "db"]]

(* Two queries that may each become a branch of the other, and end.        *)
Entwined ==
    [Unions EXCEPT !.branches = q1 :> {q2} @@ q2 :> {q1} @@ q3 :> {},
                   !.calls = q1 :> {Where(1), Part("order"), Part("lock")} @@ q2 :> {Where(2)} @@ q3 :> {},
                   !.terminals = {"all", "count", "update"}, !.renews = TRUE, !.length = 4]

QueryUseChoices ==
    {Conditional, Unions, Entwined} \cup {Classes(d) : d \in {"mysql", "mssql"}}
      \cup {Clauses(d) : d \in {"pgsql", "mssql"}} \cup {Pages(d) : d \in {"mysql", "pgsql"}}

-----------------------------------------------------------------------------
Start(n, last) ==
    [id \in 1..last |-> IF id <= n THEN [a |-> (id - 1) % 2, b |-> 0] ELSE Absent]
Swapped == << <<"b", 1>>, <<"a", 0>> >>
Batches ==
    {<< << <<"a", 0>>, <<"b", 1>> >>, << <<"a", 1>>, <<"b", 0>> >> >>,
     << << <<"a", 0>>, <<"b", 1>> >>, Swapped >>,
     << Swapped, << <<"b", 0>>, <<"a", 1>> >> >>,
     << << <<"b", 1>> >> >>}

Objectively ==
    [auto |-> TRUE, last |-> 2, start |-> Start(1, 2), calls |-> {"object"}, batches |-> {},
     values |-> {1}, objects |-> Objects, tasks |-> Tasks, flips |-> 0]
RecordUseChoices ==
    {Objectively,
     [Objectively EXCEPT !.auto = FALSE, !.last = 3, !.start = Start(1, 3),
                         !.objects = {CHOOSE o \in Objects : TRUE}],
     [Objectively EXCEPT !.last = 3, !.start = Start(1, 3), !.calls = {"static"}, !.batches = Batches,
                         !.values = {0, 1}, !.tasks = {CHOOSE t \in Tasks : TRUE}],
     [Objectively EXCEPT !.start = Start(2, 2), !.calls = {"toggle"}, !.flips = 3]}
================================================================================
