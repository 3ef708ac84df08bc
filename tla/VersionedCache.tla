---------------------------- MODULE VersionedCache ----------------------------
(***************************************************************************)
(* Versioned caching (src/cache/cache.c) of what the ORM writes            *)
(* (src/orm/meta.c, src/orm/model.c).                                      *)
(*                                                                         *)
(* A cached query names the version keys it depends on.  Its entry is      *)
(* stored with the versions those keys had, and is served only while they  *)
(* still have them.  A write through the ORM reads the rows it is about to *)
(* change, changes them, and then increments the version of every key the  *)
(* rows had or get; inside a transaction the increments wait for the       *)
(* commit.                                                                 *)
(*                                                                         *)
(* The callers are requests of any worker: every command to the database   *)
(* or to the cache server is one step, and anything may happen between two *)
(* of them.  A row is reduced to the column that version keys are mapped   *)
(* to and to a stamp of the write that made it.  Version keys are the      *)
(* primary keys (Rows), the values of the column (Vals) and one key of the *)
(* whole table (Table, a version key mapped to no column).                 *)
(*                                                                         *)
(* Not modelled: entries and versions that the server evicts, an           *)
(* unreachable server during the increments, and loads that run inside a   *)
(* transaction of their own.                                               *)
(***************************************************************************)
EXTENDS Integers, Sequences, FiniteSets

CONSTANTS
    Readers,    \* requests that call cachedVersion() and its relatives
    Writers,    \* requests that write through the ORM, each on its connection
    Rows,       \* primary keys
    Vals,       \* values of the mapped column
    Table,      \* the version key of the whole table
    Queries,    \* cached queries, each the set of version keys it names
    FirstKeys,  \* the rows at the beginning: their column values, or Absent
    Where,      \* for each writer, the where clauses of its updates and
                \* deletes: a set of primary keys, or a column value
    ScanLimit,  \* $versionScanLimit, largest row set a where clause is pre-read for
    MaxWrites,  \* bound on the statements that write
    Methods,    \* the write methods of the model class that are used
    Serialised, \* whether writes exclude each other from pre-read to commit
    Transactional,  \* whether every write is in a transaction
    Absent,     \* no such row
    Nothing,    \* no entry, or an answer that is not an array
    Same        \* an update that leaves the mapped column alone

Keys == Rows \cup Vals \cup {Table}

(* The version keys somebody looks at; the others are incremented as well, *)
(* without effect, and are left out.                                       *)
Watched == UNION Queries

(* The write methods with $versionKeys, and two of those without:          *)
(* createMany() stands for insertIgnore() too, updateOrCreate() for toggle(). *)
Publishing == {"create", "updateBy", "destroy", "flip"}
Silent == {"createMany", "updateOrCreate"}

(* The cache server, APCu, or the memory of the process.  A query is cached *)
(* in one of them, and they do not share entries.                          *)
Places == {"shared", "local", "process"}

ASSUME CacheAssumption ==
    /\ Rows \cap Vals = {} /\ Table \notin Rows \cup Vals
    /\ \A v \in Vals : \A S \in SUBSET Rows : v # S
    /\ Queries \subseteq SUBSET Keys
    /\ FirstKeys \in [Rows -> Vals \cup {Absent}]
    /\ Where \in [Writers -> SUBSET ((SUBSET Rows) \cup Vals)]
    /\ ScanLimit \in Nat /\ MaxWrites \in Nat
    /\ Methods \subseteq Publishing \cup Silent
    /\ Serialised \in BOOLEAN /\ Transactional \in BOOLEAN
    /\ Same \notin Vals /\ Readers \cap Writers = {}
    /\ \A v \in Vals, n \in 0..MaxWrites : Absent # [key |-> v, stamp |-> n]

VARIABLES
    table,    \* the committed rows
    history,  \* every committed state of the table, oldest first
    version,  \* the counter under each version key, 0 if there is none
    place,    \* where the cached queries are kept
    entry,    \* the cache entries there
    \* readers
    call,     \* the query of a reader's call
    seen,     \* the versions it fetched
    data,     \* the result it loaded or found
    since,    \* how much of history was published when the call began
    \* writers
    draft,    \* the rows an open transaction has changed
    inTx,     \* whether a transaction is open
    op,       \* the write a writer has pre-read for, and the keys it found
    pending,  \* keys whose increments wait for the commit
    todo,     \* keys still to be incremented
    owed,     \* the commit they are for, 0 if none
    writes,   \* number of writing statements so far
    pc

readerVars == <<call, seen, data, since>>
writerVars == <<draft, inTx, op, pending, todo, owed, writes>>
vars == <<table, history, version, place, entry, readerVars, writerVars, pc>>

-----------------------------------------------------------------------------
(* The result of query q on table t: the rows it depends on.               *)
Depends(q, t, r) == t[r] # Absent /\ (Table \in q \/ r \in q \/ t[r].key \in q)
Result(q, t) == [r \in Rows |-> IF Depends(q, t, r) THEN t[r] ELSE Absent]

(* All commits up to this one have had their increments.                   *)
Published ==
    LET open == {owed[w] : w \in Writers} \ {0}
    IN  IF open = {} THEN Len(history)
        ELSE (CHOOSE i \in open : \A j \in open : i <= j) - 1

(* The multi-get of version keys: keys that do not exist are left out.     *)
Versions(q) == [k \in {k \in q : version[k] > 0} |-> version[k]]

(* checkVersion(): the versions of an entry against those of now.          *)
checkVersion(old, new, strict) ==
    /\ old # Nothing /\ new # Nothing
    /\ strict => /\ Cardinality(DOMAIN new) = Cardinality(DOMAIN old)
                 /\ DOMAIN new # {}
    /\ \A k \in DOMAIN new : k \in DOMAIN old /\ old[k] = new[k]

NoOp == [kind |-> "none"]

Init ==
    /\ table = [r \in Rows |-> IF FirstKeys[r] = Absent THEN Absent
                               ELSE [key |-> FirstKeys[r], stamp |-> 0]]
    /\ history = <<table>>
    /\ version = [k \in Watched |-> 0]
    /\ place \in Places
    /\ entry = [q \in Queries |-> Nothing]
    /\ call = [r \in Readers |-> {}]
    /\ seen = [r \in Readers |-> Nothing]
    /\ data = [r \in Readers |-> Nothing]
    /\ since = [r \in Readers |-> 0]
    /\ draft = [w \in Writers |-> <<>>]
    /\ inTx = [w \in Writers |-> FALSE]
    /\ op = [w \in Writers |-> NoOp]
    /\ pending = [w \in Writers |-> {}]
    /\ todo = [w \in Writers |-> {}]
    /\ owed = [w \in Writers |-> 0]
    /\ writes = 0
    /\ pc = [p \in Readers \cup Writers |-> "ready"]

Goto(p, l) == pc' = [pc EXCEPT ![p] = l]

-----------------------------------------------------------------------------
(* Readers.  cachedVersion() keeps its entries in the cache server and     *)
(* fetches entry and versions in one command.  localCachedVersion() reads  *)
(* its entry from APCu first and the versions then, processCachedVersion() *)
(* the versions first and its entry when the reply is there.  A miss loads *)
(* and stores the result with the versions fetched before the load.        *)

(* The call of r begins with its first look at a cache.                    *)
Begins(r, q) ==
    /\ pc[r] = "ready"
    /\ call' = [call EXCEPT ![r] = q]
    /\ since' = [since EXCEPT ![r] = Published]

(* An entry e is served if its versions are v, those of now; otherwise r   *)
(* will load, and keeps v for the entry it is going to store.  Whether the *)
(* comparison is the strict one is an argument of the call.                *)
Hit(r, e) ==
    /\ data' = [data EXCEPT ![r] = e.data]
    /\ seen' = [seen EXCEPT ![r] = Nothing]
    /\ Goto(r, "answered")

Miss(r, v) ==
    /\ data' = [data EXCEPT ![r] = Nothing]
    /\ seen' = [seen EXCEPT ![r] = v]
    /\ Goto(r, "load")

Serve(r, e, v) ==
    \E strict \in BOOLEAN :
        IF e # Nothing /\ checkVersion(e.version, v, strict) THEN Hit(r, e) ELSE Miss(r, v)

CallShared(r) ==
    /\ place = "shared"
    /\ \E q \in Queries : Begins(r, q) /\ Serve(r, entry[q], Versions(q))
    /\ UNCHANGED <<table, history, version, place, entry, writerVars>>

(* The multi-get answers something that is not an array: a miss, and what  *)
(* will be stored carries no version at all.                               *)
CallSharedFails(r) ==
    /\ place = "shared"
    /\ \E q \in Queries : Begins(r, q)
    /\ seen' = [seen EXCEPT ![r] = <<>>]
    /\ Goto(r, "load")
    /\ UNCHANGED <<table, history, version, place, entry, data, writerVars>>

(* APCu: the entry, and then the versions.  If these cannot be had the     *)
(* answer itself is stored in their stead, which never compares equal.     *)
CallLocal(r) ==
    /\ place = "local"
    /\ \E q \in Queries :
          /\ Begins(r, q)
          /\ data' = [data EXCEPT ![r] = entry[q]]
    /\ Goto(r, "fetch")
    /\ UNCHANGED <<table, history, version, place, entry, seen, writerVars>>

FetchLocal(r) ==
    /\ pc[r] = "fetch"
    /\ \E v \in {Versions(call[r]), Nothing} : Serve(r, data[r], v)
    /\ UNCHANGED <<table, history, version, place, entry, call, since, writerVars>>

(* Process memory: the versions, and then the entry.                       *)
CallProcess(r) ==
    /\ place = "process"
    /\ \E q \in Queries :
          /\ Begins(r, q)
          /\ \E v \in {Versions(q), Nothing} : seen' = [seen EXCEPT ![r] = v]
    /\ Goto(r, "look")
    /\ UNCHANGED <<table, history, version, place, entry, data, writerVars>>

LookProcess(r) ==
    /\ pc[r] = "look"
    /\ Serve(r, entry[call[r]], seen[r])
    /\ UNCHANGED <<table, history, version, place, entry, call, since, writerVars>>

(* The callback runs the query on the committed table...                   *)
Load(r) ==
    /\ pc[r] = "load"
    /\ data' = [data EXCEPT ![r] = Result(call[r], table)]
    /\ Goto(r, "store")
    /\ UNCHANGED <<table, history, version, place, entry, call, seen, since, writerVars>>

Return(r) ==
    /\ Goto(r, "ready")
    /\ call' = [call EXCEPT ![r] = {}]
    /\ seen' = [seen EXCEPT ![r] = Nothing]
    /\ data' = [data EXCEPT ![r] = Nothing]
    /\ since' = [since EXCEPT ![r] = 0]
    /\ UNCHANGED <<table, history, version, place, entry, writerVars>>

(* ... or throws, and nothing is stored.                                   *)
LoadFails(r) == pc[r] = "load" /\ Return(r)

(* Mutant: the versions are fetched when the result is stored.             *)
StoreLateVersions(r) ==
    /\ pc[r] = "store"
    /\ entry' = [entry EXCEPT ![call[r]] = [data |-> data[r], version |-> Versions(call[r])]]
    /\ seen' = [seen EXCEPT ![r] = Nothing]
    /\ Goto(r, "answered")
    /\ UNCHANGED <<table, history, version, place, call, data, since, writerVars>>

(* The result goes into the cache with the versions fetched before it.     *)
Store(r) ==
    /\ pc[r] = "store"
    /\ entry' = [entry EXCEPT ![call[r]] = [data |-> data[r], version |-> seen[r]]]
    /\ seen' = [seen EXCEPT ![r] = Nothing]
    /\ Goto(r, "answered")
    /\ UNCHANGED <<table, history, version, place, call, data, since, writerVars>>

Answer(r) == pc[r] = "answered" /\ Return(r)

-----------------------------------------------------------------------------
(* Writers.                                                                *)

(* The rows as writer w sees them: its own uncommitted ones first.         *)
View(w) == [r \in Rows |-> IF r \in DOMAIN draft[w] THEN draft[w][r] ELSE table[r]]

(* The rows of t a where clause selects.                                   *)
Matching(c, t) ==
    {r \in Rows : t[r] # Absent /\ IF c \in Vals THEN t[r].key = c ELSE r \in c}

(* The row locks of the database: no other open transaction changed them.  *)
Unlocked(w, S) == \A u \in Writers \ {w} : S \cap DOMAIN draft[u] = {}

(* w is between its pre-read and its commit.                               *)
Writing(w) == inTx[w] \/ pc[w] \in {"prefetched", "flipped"}

(* w may begin to write, and may write.                                    *)
MayStart(w) ==
    /\ pc[w] = "ready" /\ writes < MaxWrites
    /\ Serialised => \A u \in Writers \ {w} : ~Writing(u)

MayWrite(w) == MayStart(w) /\ (Transactional => inTx[w])

(* The statement puts the rows of function f in place: at once, or in the  *)
(* open transaction.                                                       *)
Put(w, f) ==
    /\ writes' = writes + 1
    /\ IF inTx[w]
       THEN /\ draft' = [draft EXCEPT ![w] =
                   [r \in DOMAIN f \cup DOMAIN @ |-> IF r \in DOMAIN f THEN f[r] ELSE @[r]]]
            /\ UNCHANGED <<table, history>>
       ELSE /\ table' = [r \in Rows |-> IF r \in DOMAIN f THEN f[r] ELSE table[r]]
            /\ history' = Append(history, table')
            /\ UNCHANGED draft

(* The increments of a write's keys begin, for commit i.                   *)
Flush(w, keys, i) ==
    LET due == keys \cap Watched IN
    /\ todo' = [todo EXCEPT ![w] = due]
    /\ owed' = [owed EXCEPT ![w] = IF due = {} THEN 0 ELSE i]
    /\ Goto(w, IF due = {} THEN "ready" ELSE "publishing")

(* gene_orm_version_publish(): the keys of a write wait for the commit, or *)
(* are incremented now.  Some methods do not publish at all.               *)
Publish(w, keys) ==
    IF inTx[w]
    THEN /\ pending' = [pending EXCEPT ![w] = @ \cup (keys \cap Watched)]
         /\ Goto(w, "ready")
         /\ UNCHANGED <<todo, owed>>
    ELSE /\ Flush(w, keys, Len(history'))
         /\ UNCHANGED pending

NewRow(v) == [key |-> v, stamp |-> writes + 1]

(* updateBy(), save(), destroy(), destroyAll() and delete() read the rows  *)
(* they are about to change, in a statement of its own; updateOrCreate()   *)
(* looks whether there is one.  Only updates select rows by the column.    *)
Prefetch(w) ==
    /\ MayWrite(w)
    /\ \E m \in Methods \ {"create", "createMany", "flip"}, c \in Where[w], v \in Vals \cup {Same} :
          /\ m = "destroy" => c \notin Vals /\ v = Same
          /\ m = "updateOrCreate" => Matching(c, View(w)) # {}
          /\ op' = [op EXCEPT ![w] =
                [kind |-> m, where |-> c, to |-> v,
                 found |-> {<<r, View(w)[r].key>> : r \in Matching(c, View(w))}]]
    /\ Goto(w, "prefetched")
    /\ UNCHANGED <<table, history, version, place, entry, readerVars,
                   draft, inTx, pending, todo, owed, writes>>

(* Mutant: the values the column had are not known, as when a model's      *)
(* modified attributes are taken for the stored row.                       *)
WriteKeysForgetOld(o) ==
    (IF o.where \in Vals THEN {x[1] : x \in o.found} ELSE o.where)
        \cup ({o.to} \cap Vals) \cup {Table}

(* The version keys of a write (gene_orm_version_commit_write): the primary *)
(* keys, what the column held when it was pre-read, what it is set to, and *)
(* the table.  Too many rows behind a where clause: none, and a warning;   *)
(* none either from updateOrCreate() and toggle().                         *)
WriteKeys(o) ==
    LET ids == IF o.where \in Vals THEN {x[1] : x \in o.found} ELSE o.where
        olds == {x[2] : x \in o.found}
    IN  IF o.kind \in Silent \/ (o.where \in Vals /\ Cardinality(o.found) > ScanLimit) THEN {}
        ELSE ids \cup olds \cup ({o.to} \cap Vals) \cup {Table}

(* The writing statement changes the rows its clause selects now; without  *)
(* an affected row nothing is due.                                         *)
Write(w, new) ==
    LET hit == Matching(op[w].where, View(w)) IN
    /\ Unlocked(w, hit)
    /\ op' = [op EXCEPT ![w] = NoOp]
    /\ IF hit = {}
       THEN /\ Goto(w, "ready")
            /\ UNCHANGED <<table, history, draft, pending, todo, owed, writes>>
       ELSE /\ Put(w, [r \in hit |-> new[r]])
            /\ Publish(w, WriteKeys(op[w]))
    /\ UNCHANGED <<version, place, entry, readerVars, inTx>>

UpdateBy(w) ==
    /\ pc[w] = "prefetched" /\ op[w].kind \in {"updateBy", "updateOrCreate"}
    /\ Write(w, [r \in Rows |-> NewRow(IF op[w].to = Same THEN View(w)[r].key ELSE op[w].to)])

Destroy(w) ==
    /\ pc[w] = "prefetched" /\ op[w].kind = "destroy"
    /\ Write(w, [r \in Rows |-> Absent])

(* The statement fails: an exception, no row changed, nothing published.   *)
WriteFails(w) ==
    /\ pc[w] = "prefetched"
    /\ op' = [op EXCEPT ![w] = NoOp]
    /\ Goto(w, "ready")
    /\ UNCHANGED <<table, history, version, place, entry, readerVars,
                   draft, inTx, pending, todo, owed, writes>>

(* create(), and save() of a new model; createMany() and insertIgnore().   *)
Create(w) ==
    /\ MayWrite(w)
    /\ \E m \in Methods \cap {"create", "createMany"}, r \in Rows, v \in Vals :
          /\ {r} \in Where[w]
          /\ View(w)[r] = Absent /\ Unlocked(w, {r})
          /\ Put(w, [x \in {r} |-> NewRow(v)])
          /\ Publish(w, IF m \in Silent THEN {} ELSE {r, v, Table})
    /\ UNCHANGED <<version, place, entry, readerVars, op, inTx>>

(* flip() toggles the column between two values first and reads then: the  *)
(* value it finds is the one the row got, the other is the one it had.     *)
Flip(w) ==
    /\ MayWrite(w) /\ "flip" \in Methods
    /\ \E r \in Rows, v0, v1 \in Vals :
          /\ {r} \in Where[w]
          /\ v0 # v1 /\ View(w)[r] # Absent /\ Unlocked(w, {r})
          /\ Put(w, [x \in {r} |-> NewRow(IF View(w)[r].key = v0 THEN v1 ELSE v0)])
          /\ op' = [op EXCEPT ![w] = [kind |-> "flip", where |-> {r}, v0 |-> v0, v1 |-> v1]]
    /\ owed' = [owed EXCEPT ![w] = IF inTx[w] THEN 0 ELSE Len(history')]
    /\ Goto(w, "flipped")
    /\ UNCHANGED <<version, place, entry, readerVars, inTx, pending, todo>>

FlipPrefetch(w) ==
    LET o == op[w]
        cur == {View(w)[r].key : r \in Matching(o.where, View(w))}
        other == IF o.v0 \in cur THEN o.v1 ELSE o.v0
        keys == o.where \cup {other, Table} \cup cur
    IN
    /\ pc[w] = "flipped"
    /\ op' = [op EXCEPT ![w] = NoOp]
    /\ IF inTx[w]
       THEN /\ pending' = [pending EXCEPT ![w] = @ \cup (keys \cap Watched)] /\ Goto(w, "ready")
            /\ UNCHANGED <<todo, owed>>
       ELSE Flush(w, keys, owed[w]) /\ UNCHANGED pending
    /\ UNCHANGED <<table, history, version, place, entry, readerVars, draft, inTx, writes>>

(* updateVersion() increments one key per command.                         *)
Increment(w) ==
    /\ pc[w] = "publishing"
    /\ \E k \in todo[w] :
          /\ version' = [version EXCEPT ![k] = @ + 1]
          /\ todo' = [todo EXCEPT ![w] = @ \ {k}]
    /\ IF todo'[w] = {}
       THEN owed' = [owed EXCEPT ![w] = 0] /\ Goto(w, "ready")
       ELSE UNCHANGED <<owed, pc>>
    /\ UNCHANGED <<table, history, place, entry, readerVars,
                   draft, inTx, op, pending, writes>>

Begin(w) ==
    /\ MayStart(w) /\ ~inTx[w] /\ pending[w] = {}
    /\ inTx' = [inTx EXCEPT ![w] = TRUE]
    /\ UNCHANGED <<table, history, version, place, entry, readerVars,
                   draft, op, pending, todo, owed, writes, pc>>

(* Mutant: the transaction is over but its rows stay with the connection.  *)
CommitRowsKeepsDraft(w) ==
    /\ inTx[w] /\ pc[w] = "ready"
    /\ inTx' = [inTx EXCEPT ![w] = FALSE]
    /\ table' = View(w)
    /\ history' = IF draft[w] = <<>> THEN history ELSE Append(history, table')
    /\ UNCHANGED draft

(* The transaction's rows become visible to everybody.                     *)
CommitRows(w) ==
    /\ inTx[w] /\ pc[w] = "ready"
    /\ inTx' = [inTx EXCEPT ![w] = FALSE]
    /\ draft' = [draft EXCEPT ![w] = <<>>]
    /\ table' = View(w)
    /\ history' = IF draft[w] = <<>> THEN history ELSE Append(history, table')

(* gene_pdo_commit() flushes what was pending on this connection.          *)
Commit(w) ==
    /\ CommitRows(w)
    /\ Flush(w, pending[w], Len(history'))
    /\ pending' = [pending EXCEPT ![w] = {}]
    /\ UNCHANGED <<version, place, entry, readerVars, op, writes>>

(* gene_pdo_rollback(), also by the clean-up of an abandoned transaction.  *)
Rollback(w) ==
    /\ inTx[w] /\ pc[w] = "ready"
    /\ inTx' = [inTx EXCEPT ![w] = FALSE]
    /\ draft' = [draft EXCEPT ![w] = <<>>]
    /\ pending' = [pending EXCEPT ![w] = {}]
    /\ UNCHANGED <<table, history, version, place, entry, readerVars,
                   op, todo, owed, writes, pc>>

(* A COMMIT sent as plain SQL does not flush; the end of the request finds *)
(* keys pending on a connection that is in no transaction, and flushes     *)
(* them.  The request does not write in between.                           *)
RawCommit(w) ==
    /\ CommitRows(w)
    /\ pending[w] # {}
    /\ owed' = [owed EXCEPT ![w] = Len(history')]
    /\ Goto(w, "leaving")
    /\ UNCHANGED <<version, place, entry, readerVars, op, pending, todo, writes>>

RequestEnd(w) ==
    /\ pc[w] = "leaving"
    /\ Flush(w, pending[w], owed[w])
    /\ pending' = [pending EXCEPT ![w] = {}]
    /\ UNCHANGED <<table, history, version, place, entry, readerVars, draft, inTx, op, writes>>

-----------------------------------------------------------------------------
ReadStep(r) ==
    \/ FetchLocal(r) \/ LookProcess(r) \/ Load(r)
    \/ LoadFails(r) \/ Store(r) \/ Answer(r)
PublishStep(w) ==
    \/ FlipPrefetch(w) \/ Increment(w) \/ RequestEnd(w)
WriteStep(w) ==
    \/ Prefetch(w) \/ UpdateBy(w) \/ Destroy(w) \/ WriteFails(w) \/ Create(w) \/ Flip(w)
    \/ Begin(w) \/ Commit(w) \/ Rollback(w) \/ RawCommit(w)

Next ==
    \/ \E r \in Readers : \/ CallShared(r) \/ CallSharedFails(r) \/ CallLocal(r) \/ CallProcess(r)
                         \/ ReadStep(r)
    \/ \E w \in Writers : WriteStep(w) \/ PublishStep(w)

Spec == Init /\ [][Next]_vars

-----------------------------------------------------------------------------
(* Type invariant.                                                         *)
RowStates == [key : Vals, stamp : 0..MaxWrites] \cup {Absent}
TypeOK ==
    /\ table \in [Rows -> RowStates]
    /\ \A i \in 1..Len(history) : history[i] \in [Rows -> RowStates]
    /\ version \in [Watched -> Nat]
    /\ \A r \in Readers : since[r] \in 0..Len(history)
    /\ \A w \in Writers :
          /\ DOMAIN draft[w] \subseteq Rows
          /\ ~inTx[w] => draft[w] = <<>>
          /\ pending[w] \cup todo[w] \subseteq Watched
          /\ owed[w] \in 0..Len(history)

(* Every answer is the result of the query on some state of the table that *)
(* was not yet outdated when the call began: no earlier than the last      *)
(* commit all of whose increments were done.  "Under-invalidating leaves   *)
(* stale rows" (meta.c:722-731): no interleaving of slow loads, late       *)
(* stores, half-done increments, commits and roll-backs does.              *)
AnswersRegular ==
    \A r \in Readers : pc[r] = "answered" =>
        \E i \in since[r]..Len(history) : data[r] = Result(call[r], history[i])

(* With no increment outstanding and nobody writing, whatever a call would *)
(* be served from the server's entries is what is in the table.            *)
SettledFresh ==
    (\A w \in Writers : owed[w] = 0) =>
        \A q \in Queries :
            LET e == entry[q] IN
            e # Nothing /\ checkVersion(e.version, Versions(q), FALSE)
                => e.data = Result(q, table)
=============================================================================
