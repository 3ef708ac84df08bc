-------------------------------- MODULE OrmQuery --------------------------------
(***************************************************************************)
(* The chainable query of the ORM (src/orm/query.c).  A builder method     *)
(* only appends an operation to the query; a terminal method replays the   *)
(* operations on the database handle, in the order that the grammar needs, *)
(* executes, and leaves the handle empty for whoever uses it next.         *)
(* Queries of one request share the handle.  A union takes a snapshot of   *)
(* its branch, and a compound statement is compiled on clones.             *)
(*                                                                         *)
(* A condition is known by the values that its placeholders stand for; a   *)
(* row of the table is the set of the conditions that it satisfies.        *)
(*                                                                         *)
(* Careful names what the application does not do:                         *)
(*   "or"  it joins conditions by OR in a query that also has conditions   *)
(*         given as arrays, or an empty in().                              *)
(***************************************************************************)
EXTENDS Naturals, Sequences, SequencesExt, FiniteSets

CONSTANTS
    Queries,       \* query objects
    QueryUses,     \* applications: [calls: for each query the operations, branches: the
                   \*  queries it may take, terminals, reads: calls of the model class,
                   \*  length, each: bounds on the operations of all and of one query,
                   \*  renews: queries end, driver, db: the handle of each query]
    UnionDepth,    \* the depth that a union may not exceed
    LongMax,       \* the largest integer
    QueryCareful,  \* the mistakes that the application does not make
    Absent

QueryAssumption ==
    /\ {UnionDepth, LongMax} \subseteq Nat \ {0} /\ QueryCareful \subseteq {"or"}
    /\ \A u \in QueryUses : u.length \in Nat /\ u.driver \in {"mysql", "pgsql", "mssql"}

VARIABLES
    use,      \* the application
    query,    \* [Queries -> [ops, empty, dirty]]
    db,       \* the statement on the handle that the queries share, or Absent
    last      \* the last terminal: its method, the query then, and what was executed

queryVars == <<use, query, db, last>>

NewQuery == [ops |-> <<>>, empty |-> FALSE, dirty |-> FALSE]

-----------------------------------------------------------------------------
(* An operation has a tag and what it was called with: "where" is also     *)
(* where() with an operator or a primary key, like, and in(text, value);   *)
(* "blank" a text that is empty or only a connector; "array" where() of    *)
(* pairs of a column and a value; the others are the methods of the name.  *)
Where(v) == [tag |-> "where", or |-> FALSE, vals |-> <<v>>]
In(vals) == [tag |-> "in", or |-> FALSE, vals |-> vals]
Limit(a, b) == [tag |-> "limit", a |-> a, b |-> b]
UnionOp(all, child) == [tag |-> "union", all |-> all, child |-> child]

OpsHas(ops, tag) == \E i \in DOMAIN ops : ops[i].tag = tag
Tagged(ops, tags) == SelectSeq(ops, LAMBDA op : op.tag \in tags)
IsEmpty(q) == q.empty /\ ~OpsHas(q.ops, "union")

-----------------------------------------------------------------------------
(* gene_orm_query_apply(): one statement from the operations.              *)

Modifies == {"update", "delete", "increment", "decrement"}

(* The conditions that are given as arrays, merged: a column keeps its     *)
(* first place and takes its last value.                                   *)
Merged(ops) ==
    LET pairs == FlattenSeq([i \in DOMAIN Tagged(ops, {"array"}) |-> Tagged(ops, {"array"})[i].pairs])
        first == {i \in DOMAIN pairs : \A j \in 1..(i-1) : pairs[j][1] # pairs[i][1]}
        LastOf(i) == CHOOSE j \in DOMAIN pairs :
                        /\ pairs[j][1] = pairs[i][1]
                        /\ \A k \in (j+1)..Len(pairs) : pairs[k][1] # pairs[i][1]
        places == SetToSortSeq(first, <)
    IN  [i \in DOMAIN places |-> pairs[LastOf(places[i])][2]]

Condition(or, vals) == [or |-> or, vals |-> vals, never |-> FALSE]
Never == [or |-> FALSE, vals |-> <<>>, never |-> TRUE]

(* The text of the WHERE clause: the arrays in front, then the texts in    *)
(* the order of the calls.  The text of a where() is one condition: one    *)
(* with an OR of its own, which the code splices in without parentheses,   *)
(* is left out.                                                            *)
Conditions(ops) ==
    [i \in DOMAIN Merged(ops) |-> Condition(FALSE, <<Merged(ops)[i]>>)]
      \o [i \in DOMAIN Tagged(ops, {"where", "in", "never"}) |->
            LET op == Tagged(ops, {"where", "in", "never"})[i]
            IN  IF op.tag = "never" THEN Never ELSE Condition(op.or, op.vals)]

JoinValues(ops) ==
    FlattenSeq([i \in DOMAIN Tagged(ops, {"join"}) |-> Tagged(ops, {"join"})[i].vals])
ConditionValues(conds) == FlattenSeq([i \in DOMAIN conds |-> conds[i].vals])

(* gene_orm_db_limit(): MySQL takes (offset, count), the others (count,    *)
(* offset).                                                                *)
DriverLimit(a, b) ==
    IF use.driver = "mysql" THEN [offset |-> a, count |-> b] ELSE [offset |-> b, count |-> a]
DbLimit(offset, count) ==
    IF use.driver = "mysql" THEN DriverLimit(offset, count) ELSE DriverLimit(count, offset)
LimitOf(ops, force) ==
    LET limits == Tagged(ops, {"limit"})
    IN  CASE force # Absent -> DbLimit(force.offset, force.count)
          [] force = Absent /\ limits # <<>> ->
               IF Last(limits).b = Absent THEN [offset |-> 0, count |-> Last(limits).a]
               ELSE DbLimit(Last(limits).a, Last(limits).b)
          [] OTHER -> Absent

(* The statement that the replay builds: its values in the order in which  *)
(* they are bound, and its clauses.                                        *)
Statement(ops, mode, set, force) ==
    LET conds == Conditions(ops)
        select == mode = "select"
    IN  [mode |-> mode, set |-> set, joins |-> JoinValues(ops), conds |-> conds,
         group |-> OpsHas(ops, "group"), order |-> mode # "count" /\ OpsHas(ops, "order"),
         limit |-> IF mode = "count" THEN Absent ELSE LimitOf(ops, force),
         lock |-> select /\ OpsHas(ops, "lock"),
         params |-> set \o JoinValues(ops) \o ConditionValues(conds)]

(* Mutant: only the operations are asked whether there is a condition.     *)
RefusedByTags(ops, mode) ==
    \/ /\ mode \in Modifies
       /\ \/ OpsHas(ops, "union") \/ OpsHas(ops, "lock") \/ OpsHas(ops, "join")
          \/ Tagged(ops, {"where", "in", "blank", "array"}) = <<>>
    \/ mode = "count" /\ OpsHas(ops, "group")
    \/ mode = "select" /\ OpsHas(ops, "lock") /\ use.driver = "mssql"

(* What apply() refuses: unions, locks and joins in a write, a write       *)
(* without a condition, group() in a count, a lock that the driver has     *)
(* not.                                                                    *)
Refused(ops, mode) ==
    \/ /\ mode \in Modifies
       /\ OpsHas(ops, "union") \/ OpsHas(ops, "lock") \/ OpsHas(ops, "join") \/ Conditions(ops) = <<>>
    \/ mode = "count" /\ OpsHas(ops, "group")
    \/ mode = "select" /\ OpsHas(ops, "lock") /\ use.driver = "mssql"

-----------------------------------------------------------------------------
(* gene_orm_query_compile_snapshot(): the compound statement of a query    *)
(* and its unions.  A branch that is a compound itself is wrapped in a     *)
(* select of its own.  Order, limit and lock belong to the whole.          *)

Snapshot(q) == [ops |-> query[q].ops, empty |-> query[q].empty, origin |-> q]
Branch(all, statement) == [all |-> all, statement |-> statement, inner |-> <<>>]
Wrapped(all, terms) == [all |-> all, statement |-> Absent, inner |-> terms]

(* The branches of a snapshot, and those below it, itself included.        *)
Children(snapshot) ==
    {snapshot.ops[i].child : i \in {i \in DOMAIN snapshot.ops : snapshot.ops[i].tag = "union"}}
Level(snapshot) ==
    LET At[n \in 0..UnionDepth] == IF n = 0 THEN {snapshot} ELSE UNION {Children(s) : s \in At[n-1]}
    IN  At
Tree(snapshot) == UNION {Level(snapshot)[n] : n \in 0..UnionDepth}

(* The lists of terms in a list of terms, itself included.                 *)
Lists(terms) ==
    LET At[n \in 0..UnionDepth] ==
            IF n = 0 THEN {terms} ELSE {t.inner : t \in UNION {Range(l) : l \in At[n-1]}}
    IN  UNION {At[n] : n \in 0..UnionDepth}

(* Mutant: a compound branch is put down as it is.                         *)
TermBare(op, terms) == [terms EXCEPT ![1].all = op.all]
Term(op, terms) ==
    IF OpsHas(op.child.ops, "union") THEN <<Wrapped(op.all, terms)>>
    ELSE [terms EXCEPT ![1].all = op.all]
Inner(snapshot, outer) ==
    SelectSeq(snapshot.ops, LAMBDA op : ~(outer /\ op.tag \in {"order", "limit", "lock"}))
      \o IF snapshot.empty THEN << [tag |-> "never"] >> ELSE <<>>
Unions(snapshot) == Tagged(snapshot.ops, {"union"})
Own(snapshot) == Inner(snapshot, Unions(snapshot) # <<>>)
Terms(snapshot) ==
    LET Of[s \in Tree(snapshot)] ==
            <<Branch(FALSE, Statement(Own(s), "select", <<>>, Absent))>>
              \o FlattenSeq([i \in DOMAIN Unions(s) |-> Term(Unions(s)[i], Of[Unions(s)[i].child])])
    IN  Of[snapshot]
TermsParams(terms) ==
    LET Of[l \in Lists(terms)] ==
            FlattenSeq([i \in DOMAIN l |->
                IF l[i].inner # <<>> THEN Of[l[i].inner] ELSE l[i].statement.params])
    IN  Of[terms]
Refuses(snapshot) == \E s \in Tree(snapshot) : Refused(Own(s), "select")

(* What is executed: compiled, or built on the handle.                     *)
Compiled(snapshot, mode, force) ==
    [mode |-> mode, terms |-> Terms(snapshot), params |-> TermsParams(Terms(snapshot)),
     limit |-> IF mode = "count" THEN Absent ELSE LimitOf(snapshot.ops, force)]
Single(ops, mode, set, force) ==
    LET s == Statement(ops, mode, set, force)
    IN  [mode |-> mode, terms |-> <<Branch(FALSE, s)>>, params |-> s.params, limit |-> s.limit]

-----------------------------------------------------------------------------
(* Building.                                                               *)

Nothing == [method |-> Absent, snapshot |-> Absent, force |-> Absent, threw |-> FALSE, ran |-> <<>>]

Calls(q) == Len(query[q].ops) + IF query[q].empty THEN 1 ELSE 0

Sensible(ops, empty) ==
    LET or == \E i \in DOMAIN ops : ops[i].tag = "where" /\ ops[i].or
    IN  "or" \in QueryCareful /\ or => ~empty /\ ~OpsHas(ops, "array")

Push(q, op) ==
    /\ Sensible(Append(query[q].ops, op), query[q].empty)
    /\ query' = [query EXCEPT ![q].ops = Append(@, op)]

(* where(), whereLike(), join(), joinOn(), group(), having(), order(),     *)
(* orderBy(), limit(), fields(), selectSub() with arguments they accept.   *)
Add(q, op) ==
    /\ op.tag \notin {"in", "lock"}
    /\ Push(q, op) /\ last' = Nothing /\ UNCHANGED <<use, db>>

(* in(): an empty list is remembered and nothing else.                     *)
AddIn(q, op) ==
    /\ op.tag = "in"
    /\ IF op.vals = <<>>
         THEN /\ Sensible(query[q].ops, TRUE)
              /\ query' = [query EXCEPT ![q].empty = TRUE]
         ELSE Push(q, op)
    /\ last' = Nothing /\ UNCHANGED <<use, db>>

(* lockForUpdate() and sharedLock(): not with a union.                     *)
AddLock(q, op) ==
    /\ op.tag = "lock" /\ ~OpsHas(query[q].ops, "union")
    /\ Push(q, op) /\ last' = Nothing /\ UNCHANGED <<use, db>>

Within(snapshot, q) == \E s \in Tree(snapshot) : s.origin = q
Depth(snapshot) == Cardinality({n \in 0..UnionDepth : Level(snapshot)[n] # {}})

(* union() and unionAll(): another query on the same handle, without       *)
(* order, limit or lock, no cycle, and not too deep.                       *)
Union(q, other, all) ==
    /\ other # q /\ use.db[q] = use.db[other]
    /\ ~OpsHas(query[q].ops, "lock")
    /\ Tagged(query[other].ops, {"order", "limit", "lock"}) = <<>>
    /\ ~Within(Snapshot(other), q) /\ Depth(Snapshot(other)) < UnionDepth
    /\ Push(q, UnionOp(all, Snapshot(other)))
    /\ last' = Nothing /\ UNCHANGED <<use, db>>

Build ==
    /\ FoldSet(LAMBDA q, n : n + Calls(q), 0, Queries) < use.length
    /\ \E q \in {q \in Queries : Calls(q) < use.each} :
         \/ \E op \in use.calls[q] : Add(q, op) \/ AddIn(q, op) \/ AddLock(q, op)
         \/ \E other \in use.branches[q], all \in BOOLEAN : Union(q, other, all)

-----------------------------------------------------------------------------
(* The terminal methods.                                                   *)

Outcome(q, method, force, threw, ran) ==
    [method |-> method, snapshot |-> Snapshot(q), force |-> force, threw |-> threw, ran |-> ran]

(* Mutant: a query that was refused leaves the handle as it is.            *)
FinishKept(q, built) ==
    /\ db' = built
    /\ query' = [query EXCEPT ![q].dirty = built # Absent]

(* gene_orm_query_finish(): the handle is reset, whatever was built.       *)
Finish(q, built) ==
    /\ db' = Absent
    /\ query' = [query EXCEPT ![q].dirty = FALSE]

(* Statements in turn: one that is refused or that the database fails on   *)
(* ends the method; a refused one has been built on the handle.            *)
Run(q, method, force, refused, statements, fails) ==
    LET ran == IF fails /\ statements # <<>> THEN SubSeq(statements, 1, 1) ELSE statements
    IN  /\ last' = Outcome(q, method, force, refused \/ fails, IF refused THEN <<>> ELSE ran)
        /\ Finish(q, IF refused THEN Statement(query[q].ops, "select", <<>>, Absent) ELSE Absent)
        /\ UNCHANGED use

NoRows(q, method, force) ==
    /\ IsEmpty(query[q])
    /\ last' = Outcome(q, method, force, FALSE, <<>>)
    /\ IF method = "paginateResult" THEN UNCHANGED <<db, query>> ELSE Finish(q, Absent)
    /\ UNCHANGED use

(* all(), row(), cell(), first() and print().                              *)
Read(q, method) ==
    LET force == IF method = "first" THEN [offset |-> 0, count |-> 1] ELSE Absent
        union == OpsHas(query[q].ops, "union")
    IN  \/ NoRows(q, method, force)
        \/ /\ ~IsEmpty(query[q])
           /\ \E fails \in BOOLEAN :
                Run(q, method, force,
                    IF union THEN Refuses(Snapshot(q)) ELSE Refused(query[q].ops, "select"),
                    <<IF union THEN Compiled(Snapshot(q), "select", force)
                      ELSE Single(query[q].ops, "select", <<>>, force)>>, fails)

Count(q) ==
    LET union == OpsHas(query[q].ops, "union")
    IN  \/ NoRows(q, "count", Absent)
        \/ /\ ~IsEmpty(query[q])
           /\ \E fails \in BOOLEAN :
                Run(q, "count", Absent,
                    IF union THEN Refuses(Snapshot(q)) ELSE Refused(query[q].ops, "count"),
                    <<IF union THEN Compiled(Snapshot(q), "count", Absent)
                      ELSE Single(query[q].ops, "count", <<>>, Absent)>>, fails)

(* paginate(): a count and a list of the same query; with a union it is    *)
(* paginateResult(), which compiles both from one snapshot.  A list that   *)
(* is refused although the count is not (a lock that the driver has not)   *)
(* is refused when the count has been executed.                            *)
Paginate(q, method, force) ==
    LET compiled == method = "paginateResult" \/ OpsHas(query[q].ops, "union")
        outer == [Snapshot(q) EXCEPT !.ops = SelectSeq(@, LAMBDA op : op.tag \notin {"order", "limit", "lock"})]
    IN  \/ NoRows(q, method, force)
        \/ /\ ~IsEmpty(query[q])
           /\ \E fails \in BOOLEAN :
                LET count == IF compiled THEN Compiled(outer, "count", Absent)
                             ELSE Single(query[q].ops, "count", <<>>, Absent)
                    list == IF compiled THEN Compiled(outer, "select", force)
                            ELSE Single(query[q].ops, "select", <<>>, force)
                    unlisted == Refused(query[q].ops, "select")
                IN  Run(q, method, force,
                        IF compiled THEN Refuses(outer) ELSE Refused(query[q].ops, "count"),
                        <<count>> \o IF unlisted THEN <<>> ELSE <<list>>, fails \/ unlisted)

(* update(), delete(), increment(), decrement().                           *)
Write(q, method, set) ==
    \/ NoRows(q, method, Absent)
    \/ /\ ~IsEmpty(query[q])
       /\ \E fails \in BOOLEAN :
            Run(q, method, Absent, Refused(query[q].ops, method),
                <<Single(query[q].ops, method, set, Absent)>>, fails)

(* The static reads of a model (src/orm/model.c): one query on the handle, *)
(* reset afterwards, whatever happened.                                    *)
Reading(ops, force, statements) ==
    /\ \E fails \in BOOLEAN :
         last' = [method |-> "model", threw |-> fails, force |-> force,
                  snapshot |-> [ops |-> ops, empty |-> statements = <<>>, origin |-> Absent],
                  ran |-> IF fails /\ statements # <<>> THEN <<Head(statements)>> ELSE statements]
    /\ db' = Absent /\ UNCHANGED <<use, query>>

(* find(), findAll(), findMany(): a key, a condition or nothing, keys.     *)
Find(id) ==
    LET ops == <<Where(id), Limit(1, Absent)>>
    IN  Reading(ops, Absent, <<Single(ops, "select", <<>>, Absent)>>)
FindAll(where) == Reading(where, Absent, <<Single(where, "select", <<>>, Absent)>>)
FindMany(ids) ==
    Reading(<<In(ids)>>, Absent,
            IF ids = <<>> THEN <<>> ELSE <<Single(<<In(ids)>>, "select", <<>>, Absent)>>)

(* paginate() and page(): the first page for a page below it, none when    *)
(* the offset would not fit an integer.                                    *)
ModelPaginate(where, offset, count) ==
    LET force == [offset |-> offset, count |-> count]
    IN  Reading(where, force, <<Single(where, "count", <<>>, Absent), Single(where, "select", <<>>, force)>>)
ModelPage(where, page, perPage) ==
    LET number == IF page < 1 THEN 1 ELSE page
    IN  /\ perPage >= 1 /\ number <= LongMax \div perPage
        /\ ModelPaginate(where, (number - 1) * perPage, perPage)

ModelRead(read) ==
    \/ read.method = "find" /\ Find(read.id)
    \/ read.method = "findAll" /\ FindAll(read.where)
    \/ read.method = "findMany" /\ FindMany(read.ids)
    \/ read.method = "page" /\ ModelPage(read.where, read.page, read.perPage)

(* __destruct() and a new query in its place.                              *)
Destroy(q) ==
    /\ query[q] # NewQuery /\ use.renews
    /\ db' = IF query[q].dirty THEN Absent ELSE db
    /\ query' = [query EXCEPT ![q] = NewQuery]
    /\ last' = Nothing /\ UNCHANGED use

Page == [offset |-> 2, count |-> 3]
Terminal(q) ==
    \/ \E m \in use.terminals \cap {"all", "first"} : Read(q, m)
    \/ "count" \in use.terminals /\ Count(q)
    \/ \E m \in use.terminals \cap {"paginate", "paginateResult"} : Paginate(q, m, Page)
    \/ \E m \in use.terminals \cap {"update", "increment"} : Write(q, m, <<100>>)
    \/ "delete" \in use.terminals /\ Write(q, "delete", <<>>)

QueryInit ==
    /\ use \in QueryUses /\ query = [q \in Queries |-> NewQuery] /\ db = Absent /\ last = Nothing
QueryNext ==
    \/ Build
    \/ last.method = Absent /\ \E q \in Queries : Terminal(q) \/ Destroy(q)
    \/ last.method = Absent /\ \E read \in use.reads : ModelRead(read)
QuerySpec == QueryInit /\ [][QueryNext]_queryVars

-----------------------------------------------------------------------------
QueryTypeOK ==
    /\ use \in QueryUses
    /\ \A q \in Queries : query[q].empty \in BOOLEAN /\ query[q].dirty \in BOOLEAN
    /\ last.threw \in BOOLEAN

(* The rows that a condition list selects: AND binds tighter than OR.      *)
Satisfied(conds, row) ==
    \/ conds = <<>>
    \/ \E s \in DOMAIN conds :
          /\ s = 1 \/ conds[s].or
          /\ \A k \in s..Len(conds) :
                (\A m \in (s+1)..k : ~conds[m].or) => ~conds[k].never /\ conds[k].vals \in row

(* How often a row is in the result of a compound statement; UNION drops   *)
(* the duplicates of everything in front of it, UNION ALL does not.        *)
Combine(n, m, all) == IF all THEN n + m ELSE IF n + m > 0 THEN 1 ELSE 0
Times(b) == IF b THEN 1 ELSE 0
Occurs(terms, row) ==
    LET Of[l \in Lists(terms)] ==
            LET Each(i) == IF l[i].inner # <<>> THEN Of[l[i].inner]
                           ELSE Times(Satisfied(l[i].statement.conds, row))
                UpTo[n \in DOMAIN l] ==
                    IF n = 1 THEN Each(1) ELSE Combine(UpTo[n-1], Each(n), l[n].all)
            IN  IF l = <<>> THEN 0 ELSE UpTo[Len(l)]
    IN  Of[terms]

(* What the developer wrote: the conditions as they were called, the last  *)
(* value for a column, nothing for an empty in(), and the unions in turn.  *)
Written(ops) ==
    LET Kept(i) == {j \in DOMAIN ops[i].pairs :
                        \A k \in (i+1)..Len(ops) : ops[k].tag = "array" =>
                            \A p \in Range(ops[k].pairs) : p[1] # ops[i].pairs[j][1]}
        Of(i) == CASE ops[i].tag \in {"where", "in"} -> <<Condition(ops[i].or, ops[i].vals)>>
                   [] ops[i].tag = "array" ->
                        LET js == SetToSortSeq(Kept(i), <)
                        IN  [n \in DOMAIN js |-> Condition(FALSE, <<ops[i].pairs[js[n]][2]>>)]
                   [] OTHER -> <<>>
    IN  FlattenSeq([i \in DOMAIN ops |-> Of(i)])
Meaning(snapshot, row) ==
    LET Of[s \in Tree(snapshot)] ==
            LET UpTo[n \in 0..Len(Unions(s))] ==
                    IF n = 0 THEN Times(~s.empty /\ Satisfied(Written(s.ops), row))
                    ELSE Combine(UpTo[n-1], Of[Unions(s)[n].child], Unions(s)[n].all)
            IN  UpTo[Len(Unions(s))]
    IN  Of[snapshot]

Names(snapshot) == {c.vals : c \in UNION {Range(Written(s.ops)) : s \in Tree(snapshot)}}
Placeholders(terms) ==
    LET Of[l \in Lists(terms)] ==
            FlattenSeq([i \in DOMAIN l |->
                IF l[i].inner # <<>> THEN Of[l[i].inner]
                ELSE LET s == l[i].statement IN s.set \o s.joins \o ConditionValues(s.conds)])
    IN  Of[terms]
MeantLimit ==
    LET limits == Tagged(last.snapshot.ops, {"limit"})
    IN  CASE last.force # Absent -> last.force
          [] last.force = Absent /\ limits = <<>> -> Absent
          [] OTHER -> IF Last(limits).b = Absent THEN [offset |-> 0, count |-> Last(limits).a]
                      ELSE [offset |-> Last(limits).a, count |-> Last(limits).b]

(* Whatever is executed selects, counts or changes the rows that the calls *)
(* of the query describe, on any driver and with unions of unions: every   *)
(* placeholder gets its value, the page is the one asked for, a query with *)
(* an empty in() executes nothing by itself, and no write goes out without *)
(* a condition.  An operation that was refused leaves nothing behind that  *)
(* the next user of the handle would execute.                              *)
Faithful(e) ==
    /\ e.params = Placeholders(e.terms)
    /\ \A row \in SUBSET Names(last.snapshot) : Occurs(e.terms, row) = Meaning(last.snapshot, row)
    /\ e.mode = "select" => e.limit = MeantLimit
    /\ e.mode = "select" /\ e.limit # Absent => e.limit.offset <= LongMax
    /\ e.mode \in Modifies => e.terms[1].statement.conds # <<>>
QueryExact ==
    /\ db = Absent
    /\ \A i \in DOMAIN last.ran : Faithful(last.ran[i])
    /\ last.method # Absent /\ ~last.threw /\ last.ran = <<>>
         => last.snapshot.empty /\ ~OpsHas(last.snapshot.ops, "union")
=================================================================================
