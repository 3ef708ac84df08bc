----------------------------- MODULE SqlStatement -----------------------------
(***************************************************************************)
(* What the four database drivers share when they build a statement: the   *)
(* parts of the handle, and the helpers of db/pdo.c that add text and      *)
(* bound values to them.                                                   *)
(*                                                                         *)
(* A part of the SQL text is abstracted to its marks, the values that its  *)
(* placeholders stand for, in order: <<4, 5>> is a text with two question  *)
(* marks, meant for the values 4 and 5.  It also remembers whether it was  *)
(* built for the current statement.  The values that will be bound are the *)
(* data of the handle, one array for all the parts.                        *)
(*                                                                         *)
(* An array that a caller passes may be one that the caller uses again: a  *)
(* constant in its source, of which PHP keeps one literal and hands it out *)
(* again on every call, or, for in(), a variable of its own.  Both are the *)
(* literal here.  The handle may come to hold on to it (borrowed).         *)
(***************************************************************************)
EXTENDS Naturals, Sequences, SequencesExt

CONSTANTS
    Absent,         \* NULL
    HistoryMax      \* GENE_DB_HISTORY_MAX

Parts == {"sql", "join", "where", "group", "having", "union", "order", "limit", "lock"}

Text(part) == IF part = Absent THEN <<>> ELSE part.marks
Bound(q) == IF q.data = Absent THEN <<>> ELSE q.data

(* The literal in the caller's source (or its variable), as it is there.   *)
Literal == <<0>>

(* The handle of a worker that is ready (and keeps literals) or not.       *)
NewHandle(ready) ==
    [p \in Parts |-> Absent]
      @@ [data |-> Absent, borrowed |-> FALSE, literal |-> Literal, next |-> 1,
          ready |-> ready, rejected |-> FALSE, history |-> 0]

(* The next statement of the handle: what is there belongs to an earlier   *)
(* one from now on.                                                        *)
Earlier(part) == IF part = Absent THEN Absent ELSE [part EXCEPT !.current = FALSE]
Restarted(q) ==
    [p \in Parts |-> Earlier(q[p])]
      @@ [q EXCEPT !.next = 1, !.borrowed = FALSE, !.rejected = FALSE]

(* A call that throws half-way or that the driver does not have.           *)
Rejected(q) == [q EXCEPT !.rejected = TRUE]

-----------------------------------------------------------------------------
(* Text: a part that is set, and one that accumulates.                     *)

Put(q, part, marks) == [q EXCEPT ![part] = [current |-> TRUE, marks |-> marks]]
Appended(q, part, marks) ==
    [q EXCEPT ![part] = [current |-> @ = Absent \/ @.current, marks |-> Text(@) \o marks]]

-----------------------------------------------------------------------------
(* Arguments: n values computed for this call, or the caller's literal.    *)

None == [kind |-> "none", n |-> 0]
One == [kind |-> "one", n |-> 1]
List(n) == [kind |-> "list", n |-> n]
Constant == [kind |-> "literal", n |-> Len(Literal)]

Fresh(q, n) == [i \in 1..n |-> q.next + i - 1]
Values(q, arg) == IF arg.kind = "literal" THEN q.literal ELSE Fresh(q, arg.n)
(* What the developer meant: the array as the source has it.               *)
Meant(q, arg) == IF arg.kind = "literal" THEN Literal ELSE Fresh(q, arg.n)
Used(q, arg) == IF arg.kind = "literal" THEN q ELSE [q EXCEPT !.next = @ + arg.n]

(* add_next_index_zval() on the data of the handle: in place, also when    *)
(* the array is the caller's.                                              *)
Pushed(q, values) ==
    [q EXCEPT !.data = @ \o values, !.literal = IF q.borrowed THEN q.data \o values ELSE @]

(* The values of an argument join the data or become it; the array itself  *)
(* is kept where keeps says so, and copied otherwise.                      *)
Bind(q, arg, keeps) ==
    IF arg.kind = "none" THEN q
    ELSE Used(IF q.data # Absent THEN Pushed(q, Values(q, arg))
              ELSE [q EXCEPT !.data = Values(q, arg),
                             !.borrowed = arg.kind = "literal" /\ keeps], arg)

-----------------------------------------------------------------------------
(* INSERT and UPDATE: text and values in the order of the array.           *)

InsertFieldValue(q, n) == Put([q EXCEPT !.data = Fresh(q, n), !.next = @ + n], "sql", Fresh(q, n))
UpdateFieldValue(q, n) == Put([q EXCEPT !.data = Fresh(q, n), !.next = @ + n], "sql", Fresh(q, n))

(* A row of a batch is the sequence of its columns.  The first row names   *)
(* the columns, and the values of a row are bound in the order of the row. *)
Cell(row, column) == 10 * row + column
BatchFirst(row) == [j \in DOMAIN row |-> Cell(1, row[j])]
BatchOther(row, i) == [j \in DOMAIN row |-> Cell(i, row[j])]
BatchMeant(rows) ==
    FlattenSeq([i \in DOMAIN rows |-> [j \in DOMAIN rows[1] |-> Cell(i, rows[1][j])]])
BatchValues(rows) ==
    FlattenSeq([i \in DOMAIN rows |-> IF i = 1 THEN BatchFirst(rows[1]) ELSE BatchOther(rows[i], i)])

-----------------------------------------------------------------------------
(* makeWhere(): the conditions of one array, each with the number of its   *)
(* values: an equality, an operator, a list, a fragment of SQL, a          *)
(* parenthesis.  An array without an element 0 ends the loop and drops     *)
(* what follows.                                                           *)

Condition(kind, n) == [kind |-> kind, n |-> n]
Kept(conditions) ==
    LET ends == {i \in DOMAIN conditions : conditions[i].kind = "short"}
    IN  IF ends = {} THEN conditions
        ELSE SubSeq(conditions, 1, (CHOOSE i \in ends : \A j \in ends : i <= j) - 1)
MakeWhere(q, conditions) ==
    LET n == FoldLeft(LAMBDA sum, c : sum + c.n, 0, Kept(conditions))
        bound == IF q.data # Absent THEN Pushed(q, Fresh(q, n)) ELSE [q EXCEPT !.data = Fresh(q, n)]
    IN  [Appended(bound, "where", Fresh(q, n)) EXCEPT !.next = @ + n]

-----------------------------------------------------------------------------
(* joinOn(): a value of a predicate is bound behind the values of the      *)
(* joins that are there, in front of those of the clauses that follow, in  *)
(* a new array.  A predicate that is not allowed takes everything back.    *)

(* Mutant: the value is bound behind all the others.                       *)
InsertBindLast(q, value, position) ==
    [q EXCEPT !.data = Append(Bound(q), value), !.borrowed = FALSE]

InsertBind(q, value, position) ==
    LET data == Bound(q)
        at == IF Len(data) <= position THEN Len(data) ELSE position
    IN  [q EXCEPT !.data = SubSeq(data, 1, at) \o <<value>> \o SubSeq(data, at + 1, Len(data)),
                  !.borrowed = FALSE]
(* A predicate is "column", "value", "null" or "invalid".                  *)
WithPredicate(q, predicate) ==
    IF predicate # "value" THEN q
    ELSE LET bound == InsertBind(q, q.next, Len(Text(q.join)))
         IN  [Appended(bound, "join", <<q.next>>) EXCEPT !.next = @ + 1]
BuildJoinOn(q, predicates, type) ==
    IF predicates = <<>> \/ type = "invalid" \/ "invalid" \in Range(predicates)
      THEN q
      ELSE FoldLeft(WithPredicate, Appended(q, "join", <<>>), predicates)

(* join(): columns on both sides, so no placeholder; a type that is not    *)
(* allowed or a condition that is not a map of columns changes nothing.    *)
DoJoin(q, on, type) ==
    IF type = "invalid" \/ on # "columns" THEN q ELSE Appended(q, "join", <<>>)

(* increment() and decrement(): one value; zero and less are refused.      *)
BuildArithmetic(q, amount) ==
    IF amount <= 0 THEN Rejected(q)
    ELSE Put([q EXCEPT !.data = Fresh(q, 1), !.next = @ + 1], "sql", Fresh(q, 1))

(* orderBy(): a direction and a column that are allowed.                   *)
OrderByBuild(q, column, direction, allow) ==
    IF direction \notin {"asc", "desc"} \/ (allow # {} /\ column \notin allow) \/ column = "invalid"
      THEN q
      ELSE Put(q, "order", <<>>)

-----------------------------------------------------------------------------
(* union(): another builder is put in parentheses, without a union or a    *)
(* lock of its own, and its values are appended to a copy of the data.     *)

SubText(sub) ==
    Text(sub.sql) \o Text(sub.join) \o Text(sub.where) \o Text(sub.group)
      \o Text(sub.having) \o Text(sub.order) \o Text(sub.limit)
WithData(q, sub) ==
    IF Bound(sub) = <<>> THEN q
    ELSE [q EXCEPT !.data = IF @ # Absent THEN @ \o sub.data ELSE sub.data, !.borrowed = FALSE]

(* Mutant: the history of the request keeps every statement.               *)
RememberedAll(q) == [q EXCEPT !.history = @ + 1]

(* The history of the request keeps the last HistoryMax statements.        *)
Remembered(q) == [q EXCEPT !.history = IF @ >= HistoryMax THEN @ ELSE @ + 1]
===============================================================================
