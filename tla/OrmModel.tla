-------------------------------- MODULE OrmModel --------------------------------
(***************************************************************************)
(* The active record of the ORM (src/orm/model.c): objects that stand for  *)
(* rows of a table, the static methods that write rows by a condition, and *)
(* the two ways to change over a status, toggle() (which reads and then    *)
(* compares and swaps) and flip() (one statement).                         *)
(*                                                                         *)
(* The table has the columns id, a and b.  A call is one step, except      *)
(* toggle() and updateOrCreate(), which read and write in two statements.  *)
(* A statement may throw, without effect.                                  *)
(*                                                                         *)
(* Careful names what the application does not do:                         *)
(*   "retry"  it saves an object again whose delete(), or whose insert     *)
(*            into a table with keys of its own, has thrown;               *)
(*   "null"   it toggles a status that is NULL.                            *)
(***************************************************************************)
EXTENDS Naturals, Sequences, SequencesExt, FiniteSets

CONSTANTS
    Objects, Tasks,   \* model objects and coroutines
    RecordUses,       \* applications: [auto: the key is incremented by the database,
                      \*  last: the largest key,
                      \*  start: the rows that there are, calls: methods in use,
                      \*  batches: rows for createMany(), values: what is written,
                      \*  objects and tasks in use, flips: bound on toggles]
    RecordCareful,    \* the mistakes that the application does not make
    Null, Absent

States == {0, 1}
Columns == {"a", "b"}
Row == [Columns -> States \cup {Null}]

(* The database has given the keys of the rows that there are, from 1 on.  *)
RecordAssumption ==
    /\ \A u \in RecordUses :
          /\ {u.last, u.flips} \subseteq Nat /\ u.auto \in BOOLEAN /\ u.values \subseteq States
          /\ u.objects \subseteq Objects /\ u.tasks \subseteq Tasks
          /\ u.batches \subseteq Seq(Seq(Columns \X States))
          /\ u.start \in [1..u.last -> Row \cup {Absent}] /\ Absent \notin 1..u.last
          /\ \E n \in 0..u.last : \A id \in 1..u.last : u.start[id] # Absent <=> id <= n
    /\ RecordCareful \subseteq {"retry", "null"}
    /\ Absent \notin Row \cup States /\ Null \notin States

VARIABLES
    using,    \* the application
    rows,     \* [Ids -> [a, b] or Absent]
    nextId,   \* the next key that the database gives
    obj,      \* [Objects -> [exists, pk, a, b]]: exists and the attributes
    call,     \* [Tasks -> the method between its two statements, or Absent]
    stands,   \* history: the row that an object was loaded from or inserted as
    unsure,   \* history: the objects whose last write threw
    gone,     \* history: the keys of deleted rows
    flips,    \* history: [Ids -> the number of times that a status was changed over]
    wrote     \* history: what the last step was to write, and wrote

recordVars == <<using, rows, nextId, obj, call, stands, unsure, gone, flips, wrote>>
objectVars == <<obj, stands, unsure>>

Ids == 1..using.last
NewObject == [exists |-> FALSE, pk |-> Absent, a |-> Absent, b |-> Absent]
Calls(name) == name \in using.calls

-----------------------------------------------------------------------------
(* Statements.  A row takes the columns that the data has.                 *)

Given(data, column, otherwise) == IF data[column] = Absent THEN otherwise ELSE data[column]
Inserted(data) == [column \in Columns |-> Given(data, column, Null)]
Updated(row, data) == [column \in Columns |-> Given(data, column, row[column])]

(* A condition is a key, a pair of a column and a value, or nothing.       *)
Matches(where, id) ==
    /\ rows[id] # Absent
    /\ CASE where.by = "nothing" -> TRUE
         [] where.by = "id" -> id = where.value
         [] OTHER -> rows[id][where.by] = where.value
Matching(where) == {id \in Ids : Matches(where, id)}

Wrote(op, object, meant, ids) == [op |-> op, object |-> object, meant |-> meant, ids |-> ids]
Silent == Wrote("nothing", Absent, {}, {})

UpdateRows(ids, data) == [id \in Ids |-> IF id \in ids THEN Updated(rows[id], data) ELSE rows[id]]
DeleteRows(ids) ==
    /\ rows' = [id \in Ids |-> IF id \in ids THEN Absent ELSE rows[id]]
    /\ gone' = gone \cup ids
InsertRow(id, data) ==
    /\ rows' = [rows EXCEPT ![id] = Inserted(data)]
    /\ nextId' = IF id < nextId THEN nextId ELSE id + 1

-----------------------------------------------------------------------------
(* An object.                                                              *)

(* new, and __destruct() of the one before.                                *)
New(o) ==
    /\ obj[o] # NewObject
    /\ obj' = [obj EXCEPT ![o] = NewObject]
    /\ stands' = [stands EXCEPT ![o] = Absent] /\ unsure' = unsure \ {o}
    /\ wrote' = Silent /\ UNCHANGED <<using, rows, nextId, call, gone, flips>>

(* find($id, true), and fill(find($id)) on an object that may have         *)
(* attributes: those of the row replace them.  fill() marks the object     *)
(* only when the database increments the key.                              *)
Find(o, id) ==
    /\ rows[id] # Absent
    /\ obj' = [obj EXCEPT ![o] = [exists |-> TRUE, pk |-> id, a |-> rows[id].a, b |-> rows[id].b]]
    /\ stands' = [stands EXCEPT ![o] = id] /\ unsure' = unsure \ {o}
    /\ wrote' = Silent /\ UNCHANGED <<using, rows, nextId, call, gone, flips>>

Hydrated(o, attrs, hydrate) ==
    obj[o].exists \/ (hydrate /\ using.auto /\ attrs.pk # Absent)
(* fill($data, $hydrate): values, and a key of the application's own for a *)
(* new row, on an object that is not marked.                               *)
Fill(o, pk, b, hydrate) ==
    LET attrs == [obj[o] EXCEPT !.pk = IF pk = Absent THEN @ ELSE pk, !.b = b]
    IN  /\ pk # Absent => ~using.auto /\ obj[o].pk = Absent /\ ~obj[o].exists
        /\ obj' = [obj EXCEPT ![o] = [attrs EXCEPT !.exists = Hydrated(o, attrs, hydrate)]]
        /\ wrote' = Silent /\ UNCHANGED <<using, rows, nextId, call, stands, unsure, gone, flips>>

(* setExists(false) of an object that has no row yet.                      *)
SetExists(o) ==
    /\ stands[o] = Absent /\ o \notin unsure /\ obj[o].exists
    /\ obj' = [obj EXCEPT ![o].exists = FALSE]
    /\ wrote' = Silent /\ UNCHANGED <<using, rows, nextId, call, stands, unsure, gone, flips>>

(* __set() of an attribute, and __unset() of the key: the object lets its  *)
(* row go.                                                                 *)
Set(o, a) ==
    /\ obj' = [obj EXCEPT ![o].a = a]
    /\ wrote' = Silent /\ UNCHANGED <<using, rows, nextId, call, stands, unsure, gone, flips>>
Unset(o) ==
    /\ obj[o].pk # Absent
    /\ obj' = [obj EXCEPT ![o].pk = Absent]
    /\ stands' = [stands EXCEPT ![o] = Absent]
    /\ wrote' = Silent /\ UNCHANGED <<using, rows, nextId, call, unsure, gone, flips>>

(* save(): an update of the row of the key, when the object is marked and  *)
(* has one.                                                                *)
SaveUpdate(o, throws) ==
    LET id == obj[o].pk
        ids == IF throws \/ rows[id] = Absent THEN {} ELSE {id}
    IN  /\ obj[o].exists /\ id # Absent
        /\ rows' = UpdateRows(ids, obj[o])
        /\ wrote' = Wrote("save", o, {stands[o]}, ids)
        /\ UNCHANGED <<using, nextId, objectVars, call, gone, flips>>

(* save(): an insert otherwise.  With a key of the object's own it is      *)
(* marked whatever lastId() did; without one it takes the key that the     *)
(* database gave, and is marked also when there is none because it threw.  *)
SaveInsert(o, throws) ==
    LET own == obj[o].pk # Absent
        id == IF own THEN obj[o].pk ELSE nextId
        refused == throws \/ IF own THEN rows[id] # Absent ELSE ~using.auto
    IN  /\ ~(obj[o].exists /\ own) /\ id \in Ids
        /\ IF refused
             THEN /\ UNCHANGED <<rows, nextId, stands>>
                  /\ unsure' = IF using.auto THEN unsure ELSE unsure \cup {o}
             ELSE /\ InsertRow(id, obj[o])
                  /\ stands' = [stands EXCEPT ![o] = id] /\ UNCHANGED unsure
        /\ obj' = [obj EXCEPT ![o].exists = TRUE, ![o].pk = IF refused /\ ~own THEN Absent ELSE id]
        /\ wrote' = Wrote("insert", o, IF own THEN {id} ELSE Ids \ gone, IF refused THEN {} ELSE {id})
        /\ UNCHANGED <<using, call, gone, flips>>

Save(o, throws) ==
    /\ "retry" \in RecordCareful => o \notin unsure
    /\ SaveUpdate(o, throws) \/ SaveInsert(o, throws)

(* Mutant: the object keeps the key.                                       *)
DeleteMarked(o, throws) ==
    LET id == obj[o].pk
        ids == IF throws \/ rows[id] = Absent THEN {} ELSE {id}
    IN  /\ id # Absent
        /\ DeleteRows(ids)
        /\ obj' = [obj EXCEPT ![o].exists = FALSE]
        /\ stands' = IF throws THEN stands ELSE [stands EXCEPT ![o] = Absent]
        /\ unsure' = IF throws THEN unsure \cup {o} ELSE unsure
        /\ wrote' = Wrote("delete", o, {id}, ids)
        /\ UNCHANGED <<using, nextId, call, flips>>

(* delete(): the mark and the key are dropped, also when the statement     *)
(* threw.                                                                  *)
Delete(o, throws) ==
    LET id == obj[o].pk
        ids == IF throws \/ rows[id] = Absent THEN {} ELSE {id}
    IN  /\ id # Absent
        /\ DeleteRows(ids)
        /\ obj' = [obj EXCEPT ![o].exists = FALSE, ![o].pk = Absent]
        /\ stands' = IF throws THEN stands ELSE [stands EXCEPT ![o] = Absent]
        /\ unsure' = IF throws THEN unsure \cup {o} ELSE unsure
        /\ wrote' = Wrote("delete", o, {id}, ids)
        /\ UNCHANGED <<using, nextId, call, flips>>

-----------------------------------------------------------------------------
(* The static methods.                                                     *)

(* create() and insertIgnore(): a key that is taken throws, or is left.    *)
Create(pk, data) ==
    LET id == IF pk = Absent THEN nextId ELSE pk
        taken == id \in Ids /\ rows[id] # Absent
    IN  /\ id \in Ids /\ (pk = Absent <=> using.auto)
        /\ IF taken THEN UNCHANGED <<rows, nextId>> ELSE InsertRow(id, data)
        /\ wrote' = Wrote("insert", Absent, {id}, IF taken THEN {} ELSE {id})
        /\ UNCHANGED <<using, objectVars, call, gone, flips>>

(* createMany(): the columns of the first row, the values of each row in   *)
(* its own order; every row must name the same columns in that order.      *)
KeysOf(pairs) == [i \in DOMAIN pairs |-> pairs[i][1]]
Place(keys, column) == CHOOSE i \in DOMAIN keys : keys[i] = column
Aligned(keys, pairs) ==
    [column \in Columns |-> IF column \in Range(keys) THEN pairs[Place(keys, column)][2] ELSE Null]
Batched(pairs) == Aligned(KeysOf(pairs), pairs)
CreateMany(batch) ==
    /\ batch # <<>> /\ \A i \in DOMAIN batch : batch[i] # <<>> /\ KeysOf(batch[i]) = KeysOf(batch[1])
    /\ nextId + Len(batch) - 1 <= using.last
    /\ rows' = [id \in Ids |->
                  IF id \in nextId..(nextId + Len(batch) - 1)
                    THEN Aligned(KeysOf(batch[1]), batch[id - nextId + 1]) ELSE rows[id]]
    /\ nextId' = nextId + Len(batch)
    /\ wrote' = [Wrote("batch", Absent, {}, nextId..(nextId + Len(batch) - 1))
                   EXCEPT !.meant = {<<nextId + i - 1, Batched(batch[i])>> : i \in DOMAIN batch}]
    /\ UNCHANGED <<using, objectVars, call, gone, flips>>

(* updateBy(): a condition that resolves to nothing is refused before the  *)
(* statement, which is only built, is executed.                            *)
Changed(where, data) ==
    LET ids == IF where.by = "nothing" THEN {} ELSE Matching(where)
    IN  /\ rows' = UpdateRows(ids, data)
        /\ wrote' = Wrote("updateBy", Absent, IF where.by = "nothing" THEN {} ELSE Matching(where), ids)
UpdateBy(where, data) ==
    Changed(where, data) /\ UNCHANGED <<using, nextId, objectVars, call, gone, flips>>

(* destroy($id) and destroyAll($ids).                                      *)
Destroy(ids) ==
    /\ ids # {}
    /\ DeleteRows({id \in ids : rows[id] # Absent})
    /\ wrote' = Wrote("destroy", Absent, ids, {id \in ids : rows[id] # Absent})
    /\ UNCHANGED <<using, nextId, objectVars, call, flips>>

(* updateOrCreate(): the row is looked up, then the rows of the condition  *)
(* are updated, or one is created from the data and the condition.         *)
LookUp(t, where, data) ==
    /\ call[t] = Absent
    /\ call' = [call EXCEPT ![t] = [op |-> "updateOrCreate", where |-> where, data |-> data,
                                    found |-> Matching(where) # {}]]
    /\ wrote' = Silent /\ UNCHANGED <<using, rows, nextId, objectVars, gone, flips>>
Carried(where, data) ==
    IF where.by \in Columns /\ data[where.by] = Absent THEN [data EXCEPT ![where.by] = where.value] ELSE data
UpdateOrCreate(t) ==
    /\ call[t] # Absent /\ call[t].op = "updateOrCreate"
    /\ LET where == call[t].where
           id == IF where.by = "id" THEN where.value ELSE nextId
       IN  \/ /\ call[t].found /\ Changed(where, call[t].data) /\ UNCHANGED nextId
           \/ /\ ~call[t].found /\ id \in Ids
              /\ IF rows[id] # Absent
                   THEN UNCHANGED <<rows, nextId>> ELSE InsertRow(id, Carried(where, call[t].data))
              /\ wrote' = Wrote("insert", Absent, {id}, IF rows[id] # Absent THEN {} ELSE {id})
    /\ call' = [call EXCEPT ![t] = Absent]
    /\ UNCHANGED <<using, objectVars, gone, flips>>

-----------------------------------------------------------------------------
(* Changing a status over.                                                 *)

Other(value) == IF value = 0 THEN 1 ELSE 0
Counted(id) == [flips EXCEPT ![id] = @ + 1]

(* toggle(): the value is read, ...                                        *)
ToggleRead(t, id) ==
    /\ call[t] = Absent
    /\ rows[id] # Absent /\ ("null" \in RecordCareful => rows[id].a # Null)
    /\ call' = [call EXCEPT ![t] = [op |-> "toggle", id |-> id, seen |-> rows[id].a]]
    /\ wrote' = Silent /\ UNCHANGED <<using, rows, nextId, objectVars, gone, flips>>

(* Mutant: the row is updated by its key only.                             *)
WonUnguarded(id, seen) == rows[id] # Absent

(* ... and the row is updated if it still has it.                          *)
Won(id, seen) == rows[id] # Absent /\ (seen # Null => rows[id].a = seen)
ToggleWrite(t) ==
    /\ call[t] # Absent /\ call[t].op = "toggle"
    /\ LET id == call[t].id
           won == Won(id, call[t].seen)
       IN  /\ rows' = IF won THEN [rows EXCEPT ![id].a = Other(call[t].seen)] ELSE rows
           /\ flips' = IF won THEN Counted(id) ELSE flips
           /\ wrote' = Wrote("toggle", Absent, {id}, IF won THEN {id} ELSE {})
    /\ call' = [call EXCEPT ![t] = Absent]
    /\ UNCHANGED <<using, nextId, objectVars, gone>>
Throw(t) ==
    /\ call[t] # Absent
    /\ call' = [call EXCEPT ![t] = Absent]
    /\ wrote' = Silent /\ UNCHANGED <<using, rows, nextId, objectVars, gone, flips>>

(* flip(): one statement, on whatever value the row has.                   *)
Flip(id) ==
    /\ rows[id] # Absent
    /\ rows' = [rows EXCEPT ![id].a = Other(@)]
    /\ flips' = Counted(id)
    /\ wrote' = Wrote("flip", Absent, {id}, {id})
    /\ UNCHANGED <<using, nextId, objectVars, call, gone>>

-----------------------------------------------------------------------------
RecordInit ==
    /\ using \in RecordUses
    /\ rows = using.start /\ nextId = 1 + Cardinality({id \in Ids : using.start[id] # Absent})
    /\ obj = [o \in Objects |-> NewObject] /\ call = [t \in Tasks |-> Absent]
    /\ stands = [o \in Objects |-> Absent] /\ unsure = {} /\ gone = {}
    /\ flips = [id \in Ids |-> 0] /\ wrote = Silent

Data == [a : {Absent}, b : using.values]
Conditions == [by : {"id"}, value : Ids] \cup [by : {"b"}, value : using.values] \cup {[by |-> "nothing", value |-> Absent]}

ObjectNext ==
    \E o \in using.objects :
        \/ New(o) \/ SetExists(o) \/ Unset(o)
        \/ \E id \in Ids : Find(o, id)
        \/ \E pk \in Ids \cup {Absent}, b \in using.values, hydrate \in BOOLEAN : Fill(o, pk, b, hydrate)
        \/ \E a \in using.values : Set(o, a)
        \/ \E throws \in BOOLEAN : Save(o, throws) \/ Delete(o, throws)
StaticNext ==
    \/ \E pk \in Ids \cup {Absent}, data \in Data : Create(pk, data)
    \/ \E batch \in using.batches : CreateMany(batch)
    \/ \E where \in Conditions, data \in Data :
          UpdateBy(where, data) \/ \E t \in using.tasks : LookUp(t, where, data)
    \/ \E t \in Tasks : UpdateOrCreate(t)
ToggleNext ==
    \/ \E t \in using.tasks, id \in Ids : ToggleRead(t, id)
    \/ \E t \in Tasks : ToggleWrite(t)
    \/ \E id \in Ids : flips[id] < using.flips /\ Flip(id)

RecordNext ==
    \/ Calls("object") /\ ObjectNext
    \/ Calls("static") /\ StaticNext
    \/ Calls("toggle") /\ (\A id \in Ids : flips[id] <= using.flips) /\ ToggleNext
    \/ \E t \in Tasks : Throw(t)
    \/ \E ids \in SUBSET Ids : Cardinality(ids) <= 2 /\ Destroy(ids)

RecordSpec == RecordInit /\ [][RecordNext]_recordVars

-----------------------------------------------------------------------------
RecordTypeOK ==
    /\ \A id \in Ids : rows[id] = Absent \/ rows[id] \in [Columns -> States \cup {Null}]
    /\ \A o \in Objects :
          obj[o].exists \in BOOLEAN /\ {obj[o].pk, stands[o]} \subseteq Ids \cup {Absent}
    /\ nextId \in 1..(using.last + 1) /\ unsure \subseteq Objects /\ gone \subseteq Ids

(* An object and its row: an object that was loaded or inserted is marked  *)
(* and has the key of that row, so its save() changes that row and no      *)
(* other, and nothing that was deleted is inserted again under its key.    *)
(* A method that writes by a condition writes the rows of the condition,   *)
(* none when the condition is empty, and a batch stores every value in the *)
(* column that its row named.                                              *)
RecordsKept ==
    /\ \A o \in Objects :
          o \notin unsure /\ stands[o] # Absent => obj[o].exists /\ obj[o].pk = stands[o]
    /\ CASE wrote.op = "batch" -> \A m \in wrote.meant : rows[m[1]] = m[2]
         [] OTHER -> wrote.ids \subseteq wrote.meant

(* Tasks that change the status of a row over at the same time: the row    *)
(* has the status that the number of the calls that reported success says, *)
(* so no two of them undo each other unnoticed.                            *)
TogglesCounted ==
    Calls("toggle") =>
        \A id \in Ids : rows[id] # Absent => rows[id].a = (using.start[id].a + flips[id]) % 2
===============================================================================
