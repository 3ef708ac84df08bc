------------------------- MODULE VersionedCacheProofs -------------------------
(***************************************************************************)
(* Proofs about VersionedCache: under the conditions Careful, no reader is *)
(* answered with a result that was outdated when its call began.           *)
(*                                                                         *)
(* VersionInv has two halves.  WriteInv says of the writers that the       *)
(* increments still to come for a commit are those of all keys its rows    *)
(* had or got; ReadInv says of every result that is held or stored that as *)
(* long as its versions are those of now, it is either still the result on *)
(* the table, or a commit that changed it has an increment to come.        *)
(***************************************************************************)
EXTENDS VersionedCache, FiniteSetTheorems, WellFoundedInduction, TLAPS

(* What an application has to keep to (docs/CONFIGURATION.md): it writes   *)
(* with the methods that publish, no two writes overlap between pre-read   *)
(* and commit, a where clause by column value does not select more rows    *)
(* than are pre-read, and flip() is called with the two values there are.  *)
Careful ==
    /\ Serialised /\ Methods \subseteq Publishing
    /\ \A w \in Writers : \A c \in Where[w] \cap Vals :
          IsFiniteSet(Rows) /\ Cardinality(Rows) <= ScanLimit
    /\ "flip" \in Methods => \A v0, v1 \in Vals : v0 # v1 => Vals = {v0, v1}

-----------------------------------------------------------------------------
(* The writers.                                                            *)

(* The types, more exactly than TypeOK states them.                        *)
TableTypes ==
    /\ table \in [Rows -> RowStates]
    /\ history \in Seq([Rows -> RowStates]) /\ history # <<>>
    /\ history[Len(history)] = table
    /\ draft = [w \in Writers |-> draft[w]]
    /\ \A w \in Writers : DOMAIN draft[w] \subseteq Rows /\ draft[w] \in [DOMAIN draft[w] -> RowStates]
    /\ writes \in Nat /\ writes <= MaxWrites
WriterTypes ==
    /\ version \in [Watched -> Nat]
    /\ inTx \in [Writers -> BOOLEAN]
    /\ op = [w \in Writers |-> op[w]]
    /\ pending \in [Writers -> SUBSET Watched]
    /\ todo \in [Writers -> SUBSET Watched]
    /\ owed \in [Writers -> Nat]
    /\ pc = [p \in Readers \cup Writers |-> pc[p]]
Types == TableTypes /\ WriterTypes

(* Where a writer can be, in a transaction and outside; its draft is not   *)
(* empty when keys wait for the commit; a debt is one of a past commit.    *)
Placed(w) ==
    /\ pc[w] \in {"ready", "prefetched", "flipped", "publishing", "leaving"}
    /\ inTx[w] => pc[w] \in {"ready", "prefetched", "flipped"}
    /\ ~inTx[w] => draft[w] = <<>>
    /\ inTx[w] /\ (pending[w] # {} \/ pc[w] = "flipped") => DOMAIN draft[w] # {}
    /\ pc[w] \in {"ready", "prefetched"} \/ inTx[w] => owed[w] = 0
    /\ owed[w] <= Len(history)
    /\ pc[w] = "prefetched" => writes < MaxWrites

(* What a pre-read has found is still there when the statement runs.       *)
PreRead(w) == pc[w] = "prefetched" =>
    /\ op[w].kind \in Methods \cap {"updateBy", "destroy"}
    /\ op[w].where \in Where[w] /\ op[w].to \in Vals \cup {Same}
    /\ op[w].found = {<<r, View(w)[r].key>> : r \in Matching(op[w].where, View(w))}

(* The keys of a flip: the second read will find one of its two values.    *)
FlipKeys(o) == o.where \cup {o.v0, o.v1, Table}
Flipped(w) == pc[w] = "flipped" =>
    /\ op[w].v0 \in Vals /\ op[w].v1 \in Vals
    /\ \E r \in Rows :
          /\ op[w].where = {r} /\ View(w)[r] # Absent
          /\ View(w)[r].key \in {op[w].v0, op[w].v1}

(* The keys of row r when it is x, and what changes between two tables.    *)
KeysOf(r, x) == {r, Table} \cup (IF x = Absent THEN {} ELSE {x.key})
Covers(K, t, u) ==
    \A r \in Rows : t[r] # u[r] => (KeysOf(r, t[r]) \cup KeysOf(r, u[r])) \cap Watched \subseteq K

(* The keys that wait for the commit are those of all rows it will change. *)
Pends(w) == pending[w] \cup (IF pc[w] = "flipped" THEN FlipKeys(op[w]) ELSE {})
DraftCovered(w) == inTx[w] => Covers(Pends(w), table, View(w))

WriterOK(w) == Placed(w) /\ PreRead(w) /\ Flipped(w) /\ DraftCovered(w)
Alone == \A u, w \in Writers : Writing(u) /\ Writing(w) => u = w

WriteInv == Types /\ Alone /\ \A w \in Writers : WriterOK(w)

-----------------------------------------------------------------------------
(* The readers.                                                            *)

(* Commit m will still increment a version of query q.                     *)
Due(w) ==
    IF pc[w] = "publishing" THEN todo[w]
    ELSE IF pc[w] = "leaving" THEN pending[w]
    ELSE IF pc[w] = "flipped" /\ ~inTx[w] THEN FlipKeys(op[w]) ELSE {}
Owes(q, m) == \E w \in Writers : owed[w] = m /\ Due(w) \cap q # {}

(* The versions u are those that the keys of q have now.                   *)
Current(q, u) == \A k \in q : version[k] > 0 => k \in DOMAIN u /\ u[k] = version[k]

(* They were fetched some time ago.                                        *)
Fetched(q, u) == u # Nothing => \A k \in q \cap DOMAIN u : u[k] \in Nat /\ u[k] <= version[k]

(* Result d was loaded, and while its versions are current it still holds, *)
(* up to commits that have an increment to come.                           *)
Holds(q, d, i) ==
    \A j \in i..Len(history) : d = Result(q, history[j]) \/ \E m \in (i + 1)..j : Owes(q, m)
Loaded(q, d, u) ==
    \E i \in 1..Len(history) :
        /\ d = Result(q, history[i])
        /\ u # Nothing /\ Current(q, u) => Holds(q, d, i)

(* Result d is good for a call that began when since commits were out.     *)
Good(q, d, since0) == \E i \in 1..Len(history) : since0 <= i /\ d = Result(q, history[i])

(* A reader with versions in its hand may be served d.                     *)
Suits(q, d, u) ==
    \A r \in Readers :
        pc[r] = "look" /\ call[r] = q /\ checkVersion(u, seen[r], FALSE) => Good(q, d, since[r])

Sound(q, d, u) == Fetched(q, u) /\ Loaded(q, d, u) /\ Suits(q, d, u)

ReadTypes ==
    /\ entry = [q \in Queries |-> entry[q]]
    /\ call = [r \in Readers |-> call[r]] /\ seen = [r \in Readers |-> seen[r]]
    /\ data = [r \in Readers |-> data[r]] /\ since \in [Readers -> Nat]
    /\ \A r \in Readers :
          /\ pc[r] \in {"ready", "fetch", "look", "load", "store", "answered"}
          /\ pc[r] # "ready" => call[r] \in Queries

(* Commits that were out when a call began owe nothing.                    *)
Sinces ==
    \A r \in Readers :
        /\ since[r] <= Len(history)
        /\ \A w \in Writers : owed[w] = 0 \/ since[r] < owed[w]

EntriesSound == \A q \in Queries : entry[q] # Nothing => Sound(q, entry[q].data, entry[q].version)
Held(r) ==
    /\ pc[r] = "fetch" /\ data[r] # Nothing => Sound(call[r], data[r].data, data[r].version)
    /\ pc[r] \in {"look", "load"} => Fetched(call[r], seen[r])
    /\ pc[r] = "store" => Sound(call[r], data[r], seen[r])
    /\ pc[r] \in {"store", "answered"} => Good(call[r], data[r], since[r])

ReadInv == ReadTypes /\ Sinces /\ EntriesSound /\ \A r \in Readers : Held(r)

VersionInv == WriteInv /\ ReadInv
-----------------------------------------------------------------------------
(* Tables, and the keys of what changes in them.                           *)

LEMMA ViewType ==
  ASSUME Types, NEW w \in Writers
  PROVE  View(w) \in [Rows -> RowStates]
BY DEF Types, TableTypes, View

(* An override of rows, and what it covers.                                *)
Over(t, f) == [r \in Rows |-> IF r \in DOMAIN f THEN f[r] ELSE t[r]]

LEMMA OverType ==
  ASSUME NEW t \in [Rows -> RowStates], NEW f, NEW S, f \in [S -> RowStates]
  PROVE  Over(t, f) \in [Rows -> RowStates]
BY DEF Over

LEMMA CoversSame == ASSUME NEW t, NEW K PROVE Covers(K, t, t)
BY DEF Covers

LEMMA CoversMore ==
  ASSUME NEW K, NEW L, NEW t, NEW u, Covers(K, t, u), K \cap Watched \subseteq L
  PROVE  Covers(L, t, u)
BY DEF Covers

LEMMA CoversAdd ==
  ASSUME NEW K, NEW L, NEW t, NEW u, NEW v, Covers(K, t, u), Covers(L, u, v)
  PROVE  Covers(K \cup L, t, v)
<1>1. SUFFICES ASSUME NEW r \in Rows, t[r] # v[r]
      PROVE (KeysOf(r, t[r]) \cup KeysOf(r, v[r])) \cap Watched \subseteq K \cup L
  BY DEF Covers
<1>3. KeysOf(r, t[r]) \cap Watched \subseteq K \cup L
  BY <1>1 DEF Covers
<1>4. KeysOf(r, v[r]) \cap Watched \subseteq K \cup L
  BY <1>1 DEF Covers
<1> QED
  BY <1>3, <1>4

(* A change whose keys a query does not name does not change its result.   *)
LEMMA SameResult ==
  ASSUME NEW q \in Queries, NEW K, NEW t, NEW u, Covers(K, t, u), K \cap q = {}
  PROVE  Result(q, t) = Result(q, u)
<1>1. q \subseteq Watched
  BY DEF Watched
<1>2. ASSUME NEW r \in Rows, t[r] # u[r] PROVE ~Depends(q, t, r) /\ ~Depends(q, u, r)
  BY <1>1, <1>2 DEF Covers, KeysOf, Depends
<1>3. ASSUME NEW r \in Rows, t[r] = u[r] PROVE Depends(q, t, r) <=> Depends(q, u, r)
  BY <1>3 DEF Depends
<1> QED
  BY <1>2, <1>3 DEF Result

-----------------------------------------------------------------------------
(* What a statement and a flush do.                                        *)

LEMMA PutStep ==
  ASSUME WriteInv, NEW w \in Writers, NEW S \in SUBSET Rows, S # {}, NEW f \in [S -> RowStates],
         writes < MaxWrites, Put(w, f)
  PROVE  /\ TableTypes'
         /\ View(w)' = Over(View(w), f)
         /\ \A u \in Writers \ {w} : draft'[u] = draft[u]
         /\ inTx[w] => table' = table /\ history' = history /\ DOMAIN draft'[w] # {}
         /\ ~inTx[w] => table' = Over(table, f) /\ history' = Append(history, table') /\ draft' = draft
                        /\ View(w) = table
<1> USE DEF WriteInv, Types, TableTypes, WriterOK, Placed
<1>1. writes' = writes + 1 /\ writes + 1 <= MaxWrites
  BY CacheAssumption DEF Put
<1>2. CASE inTx[w]
  <2> DEFINE g == [r \in DOMAIN f \cup DOMAIN draft[w] |-> IF r \in DOMAIN f THEN f[r] ELSE draft[w][r]]
  <2>1. draft' = [draft EXCEPT ![w] = g] /\ UNCHANGED <<table, history>>
    BY <1>2 DEF Put
  <2>2. g \in [S \cup DOMAIN draft[w] -> RowStates] /\ DOMAIN g \subseteq Rows /\ DOMAIN g # {}
    OBVIOUS
  <2>3. draft' = [u \in Writers |-> draft'[u]] /\ draft'[w] = g /\ \A u \in Writers \ {w} : draft'[u] = draft[u]
    BY <2>1
  <2>4. \A u \in Writers : DOMAIN draft'[u] \subseteq Rows /\ draft'[u] \in [DOMAIN draft'[u] -> RowStates]
    BY <2>2, <2>3
  <2>5. View(w)' = Over(View(w), f)
    BY <2>1, <2>3 DEF View, Over
  <2> QED
    BY <1>1, <1>2, <2>1, <2>2, <2>3, <2>4, <2>5
<1>3. CASE ~inTx[w]
  <2>1. draft' = draft /\ history' = Append(history, table') /\ table' = Over(table, f)
    BY <1>3 DEF Put, Over
  <2>2. View(w) = table /\ View(w)' = table'
    <3>1. draft[w] = <<>> /\ draft'[w] = <<>>
      BY <1>3, <2>1
    <3>2. table' = [r \in Rows |-> table'[r]]
      BY <2>1 DEF Over
    <3> QED
      BY <3>1, <3>2 DEF View
  <2>3. table' \in [Rows -> RowStates]
    BY <2>1, OverType
  <2>4. history' \in Seq([Rows -> RowStates]) /\ history' # <<>> /\ history'[Len(history')] = table'
    BY <2>1, <2>3
  <2>5. \A u \in Writers : DOMAIN draft'[u] \subseteq Rows /\ draft'[u] \in [DOMAIN draft'[u] -> RowStates]
    BY <2>1
  <2>6. draft' = [u \in Writers |-> draft'[u]]
    BY <2>1
  <2> QED
    BY <1>1, <1>3, <2>1, <2>2, <2>3, <2>4, <2>5, <2>6
<1> QED
  BY <1>2, <1>3

LEMMA FlushStep ==
  ASSUME WriterTypes, NEW w \in Writers, NEW K, NEW i \in Nat, Flush(w, K, i)
  PROVE  /\ todo' \in [Writers -> SUBSET Watched] /\ owed' \in [Writers -> Nat]
         /\ pc' = [p \in Readers \cup Writers |-> pc'[p]]
         /\ \A p \in (Readers \cup Writers) \ {w} : pc'[p] = pc[p]
         /\ \A u \in Writers \ {w} : todo'[u] = todo[u] /\ owed'[u] = owed[u]
         /\ \/ K \cap Watched = {} /\ owed'[w] = 0 /\ pc'[w] = "ready"
            \/ /\ K \cap Watched # {} /\ owed'[w] = i /\ pc'[w] = "publishing"
               /\ todo'[w] = K \cap Watched
BY DEF WriterTypes, Flush, Goto

-----------------------------------------------------------------------------
(* What a step of writer w leaves alone, and what readers see of it.       *)

Alike(u) ==
    /\ pc'[u] = pc[u] /\ inTx'[u] = inTx[u] /\ draft'[u] = draft[u] /\ op'[u] = op[u]
    /\ pending'[u] = pending[u] /\ todo'[u] = todo[u] /\ owed'[u] = owed[u]
Others(w) == \A u \in Writers \ {w} : Alike(u)
Idle(w) == \A u \in Writers \ {w} : ~Writing(u)

(* Readers keep what they have; a commit is added at the end of history,   *)
(* and new debts are debts of this commit.                                 *)
Moves ==
    /\ UNCHANGED <<place, entry, readerVars>>
    /\ \A r \in Readers : pc'[r] = pc[r]
    /\ history' = history \/ (table' \in [Rows -> RowStates] /\ history' = Append(history, table'))
    /\ \A u \in Writers :
          owed'[u] \in {0, owed[u]} \/ (history' = Append(history, table') /\ owed'[u] = Len(history'))

(* Either no debt of a query is forgotten, and a commit that changes its   *)
(* result is in debt; or one version is incremented, and no debt of a      *)
(* query that does not name it is forgotten.                               *)
Carries(q) == \A m \in Nat \ {0} : Owes(q, m) => Owes(q, m)'
Announces ==
    history' = history \/ \A q \in Queries :
        Result(q, table') = Result(q, table) \/ \E u \in Writers : owed'[u] = Len(history') /\ Due(u)' \cap q # {}
Publishes == version' = version /\ Announces /\ \A q \in Queries : Carries(q)
Counts ==
    /\ history' = history
    /\ \E k \in Watched : version' = [version EXCEPT ![k] = @ + 1] /\ \A q \in Queries : k \in q \/ Carries(q)

WriterGoal == WriteInv' /\ Moves /\ (Publishes \/ Counts)

LEMMA OthersOK ==
  ASSUME WriteInv, NEW w \in Writers, Others(w), Len(history) <= Len(history'),
         (table' = table /\ writes' = writes) \/ Idle(w), TableTypes'
  PROVE  \A u \in Writers \ {w} : WriterOK(u)'
<1> SUFFICES ASSUME NEW u \in Writers, u # w PROVE WriterOK(u)'
  OBVIOUS
<1>1. WriterOK(u) /\ Alike(u)
  BY DEF WriteInv, Others
<1>2. Placed(u)'
  <2>1. owed[u] \in Nat /\ Len(history) \in Nat /\ Len(history') \in Nat
    BY DEF WriteInv, Types, TableTypes, WriterTypes
  <2>2. pc'[u] = "prefetched" => writes' < MaxWrites
    BY <1>1 DEF WriterOK, Placed, Alike, Idle, Writing
  <2> QED
    BY <1>1, <2>1, <2>2 DEF WriterOK, Placed, Alike
<1>3. CASE ~Writing(u)
  BY <1>1, <1>2, <1>3 DEF WriterOK, PreRead, Flipped, DraftCovered, Alike, Writing
<1>4. CASE Writing(u)
  <2>1. table' = table
    BY <1>4 DEF Idle
  <2>2. View(u)' = View(u)
    BY <1>1, <2>1 DEF View, Alike
  <2>3. \A c : Matching(c, View(u))' = Matching(c, View(u))
    BY <2>2 DEF Matching
  <2> QED
    BY <1>1, <1>2, <2>1, <2>2, <2>3 DEF WriterOK, PreRead, Flipped, DraftCovered, Alike, Pends
<1> QED
  BY <1>3, <1>4

LEMMA AloneStep ==
  ASSUME WriteInv, NEW w \in Writers, Others(w), Idle(w) \/ (Writing(w)' => Writing(w))
  PROVE  Alone'
<1>1. \A u \in Writers \ {w} : Writing(u)' <=> Writing(u)
  BY DEF Others, Alike, Writing
<1>2. Alone
  BY DEF WriteInv
<1> QED
  BY <1>1, <1>2 DEF Alone, Idle

LEMMA DebtsKept ==
  ASSUME WriteInv, NEW w \in Writers, Others(w), NEW q \in Queries,
         owed[w] # 0 /\ Due(w) \cap q # {} => owed'[w] = owed[w] /\ Due(w)' \cap q # {}
  PROVE  Carries(q)
<1> SUFFICES ASSUME NEW m \in Nat \ {0}, Owes(q, m) PROVE Owes(q, m)'
  BY DEF Carries
<1>1. PICK u \in Writers : owed[u] = m /\ Due(u) \cap q # {}
  BY DEF Owes
<1>2. CASE u = w
  BY <1>1, <1>2 DEF Owes
<1>3. CASE u # w
  <2>1. Alike(u)
    BY <1>3 DEF Others
  <2>2. owed'[u] = m /\ Due(u)' = Due(u)
    BY <1>1, <2>1 DEF Due, Alike
  <2> QED
    BY <1>1, <2>2 DEF Owes
<1> QED
  BY <1>2, <1>3

-----------------------------------------------------------------------------
(* The statements that write.                                              *)

LEMMA StatementStep ==
  ASSUME WriteInv, NEW w \in Writers, Idle(w), pc[w] \in {"ready", "prefetched"},
         NEW S \in SUBSET Rows, S # {}, NEW f \in [S -> RowStates], writes < MaxWrites, Put(w, f),
         NEW K, Covers(K, View(w), Over(View(w), f)), Publish(w, K),
         op' = op \/ op' = [op EXCEPT ![w] = NoOp],
         UNCHANGED <<version, place, entry, readerVars, inTx>>
  PROVE  WriterGoal
<1>0. Types /\ WriterOK(w) /\ w \notin Readers
  BY CacheAssumption DEF WriteInv
<1>1. /\ TableTypes' /\ View(w)' = Over(View(w), f)
      /\ \A u \in Writers \ {w} : draft'[u] = draft[u]
      /\ inTx[w] => table' = table /\ history' = history /\ DOMAIN draft'[w] # {}
      /\ ~inTx[w] => table' = Over(table, f) /\ history' = Append(history, table') /\ draft' = draft
                     /\ View(w) = table
  BY PutStep
<1>2. op' = [u \in Writers |-> op'[u]] /\ \A u \in Writers \ {w} : op'[u] = op[u]
  BY <1>0 DEF Types, WriterTypes
<1>3. table' \in [Rows -> RowStates] /\ history \in Seq([Rows -> RowStates])
  BY <1>0, <1>1 DEF Types, TableTypes
<1>4. Len(history) <= Len(history')
  BY <1>1, <1>3
<1>5. CASE inTx[w]
  <2>1. /\ pending' = [pending EXCEPT ![w] = @ \cup (K \cap Watched)]
        /\ pc' = [pc EXCEPT ![w] = "ready"] /\ UNCHANGED <<todo, owed>>
    BY <1>5 DEF Publish, Goto
  <2>2. WriterTypes'
    BY <1>0, <1>2, <2>1 DEF Types, WriterTypes
  <2>3. Others(w)
    BY <1>0, <1>1, <1>2, <2>1 DEF Others, Alike, Types, WriterTypes
  <2>4. pc'[w] = "ready" /\ inTx'[w] /\ pending'[w] = pending[w] \cup (K \cap Watched) /\ owed'[w] = 0
    BY <1>0, <1>5, <2>1 DEF Types, WriterTypes, WriterOK, Placed
  <2>5. DraftCovered(w)'
    <3>1. Covers(pending[w], table, View(w))
      BY <1>0, <1>5 DEF WriterOK, DraftCovered, Pends
    <3>2. Covers(pending[w] \cup K, table, Over(View(w), f))
      BY <3>1, CoversAdd
    <3>3. Covers(pending'[w], table', View(w)')
      BY <1>1, <1>5, <2>4, <3>2, CoversMore
    <3> QED
      BY <2>4, <3>3 DEF DraftCovered, Pends, Covers
  <2>6. WriterOK(w)'
    BY <1>0, <1>1, <1>3, <1>5, <2>4, <2>5 DEF WriterOK, Placed, PreRead, Flipped
  <2>7. WriteInv'
    BY <1>0, <1>1, <1>4, <2>2, <2>3, <2>6, OthersOK, AloneStep DEF WriteInv, Types
  <2>8. Moves
    BY <1>0, <1>1, <1>5, <2>1 DEF Moves, Types, WriterTypes
  <2>9. Publishes
    <3>1. owed[w] = 0
      BY <1>0, <1>5 DEF WriterOK, Placed
    <3> QED
      BY <1>1, <1>5, <2>3, <3>1, DebtsKept DEF Publishes, Announces
  <2> QED
    BY <2>7, <2>8, <2>9 DEF WriterGoal
<1>6. CASE ~inTx[w]
  <2>1. Flush(w, K, Len(history')) /\ pending' = pending
    BY <1>6 DEF Publish
  <2>2. Len(history') \in Nat /\ WriterTypes
    BY <1>0, <1>1, <1>3 DEF Types, TableTypes
  <2>3. /\ todo' \in [Writers -> SUBSET Watched] /\ owed' \in [Writers -> Nat]
        /\ pc' = [p \in Readers \cup Writers |-> pc'[p]]
        /\ \A p \in (Readers \cup Writers) \ {w} : pc'[p] = pc[p]
        /\ \A u \in Writers \ {w} : todo'[u] = todo[u] /\ owed'[u] = owed[u]
        /\ \/ K \cap Watched = {} /\ owed'[w] = 0 /\ pc'[w] = "ready"
           \/ /\ K \cap Watched # {} /\ owed'[w] = Len(history') /\ pc'[w] = "publishing"
              /\ todo'[w] = K \cap Watched
    BY <2>1, <2>2, FlushStep
  <2>4. WriterTypes'
    BY <1>2, <2>1, <2>2, <2>3 DEF WriterTypes
  <2>5. Others(w)
    BY <1>1, <1>2, <2>1, <2>3 DEF Others, Alike
  <2>6. WriterOK(w)'
    BY <1>0, <1>1, <1>6, <2>2, <2>3 DEF WriterOK, Placed, PreRead, Flipped, DraftCovered
  <2>7. WriteInv'
    BY <1>0, <1>1, <1>4, <2>4, <2>5, <2>6, OthersOK, AloneStep DEF WriteInv, Types
  <2>8. Moves
    BY <1>0, <1>1, <1>3, <1>6, <2>3 DEF Moves
  <2>9. Announces
    <3>1. SUFFICES ASSUME NEW q \in Queries, K \cap q # {}
          PROVE owed'[w] = Len(history') /\ Due(w)' \cap q # {}
      BY <1>1, <1>6, SameResult DEF Announces
    <3>2. (K \cap Watched) \cap q # {}
      BY <3>1 DEF Watched
    <3> QED
      BY <2>3, <3>2 DEF Due
  <2>10. Publishes
    <3>1. owed[w] = 0
      BY <1>0 DEF WriterOK, Placed
    <3> QED
      BY <2>5, <2>9, <3>1, DebtsKept DEF Publishes
  <2> QED
    BY <2>7, <2>8, <2>10 DEF WriterGoal
<1> QED
  BY <1>5, <1>6

LEMMA QuietStep ==
  ASSUME WriteInv, NEW w \in Writers, Others(w), Types', WriterOK(w)',
         UNCHANGED <<table, history, writes, version, place, entry, readerVars, owed>>,
         \A r \in Readers : pc'[r] = pc[r], owed[w] = 0,
         Idle(w) \/ (Writing(w)' => Writing(w))
  PROVE  WriterGoal
<1>1. Len(history) \in Nat
  BY DEF WriteInv, Types, TableTypes
<1>2. WriteInv'
  BY <1>1, OthersOK, AloneStep DEF WriteInv, Types
<1>3. Moves
  BY DEF Moves
<1>4. Publishes
  BY DebtsKept DEF Publishes, Announces
<1> QED
  BY <1>2, <1>3, <1>4 DEF WriterGoal

(* The keys of a pre-read write are those of all rows it may change.       *)
LEMMA PreReadKeys ==
  ASSUME Careful, WriteInv, NEW w \in Writers, pc[w] = "prefetched",
         NEW r \in Matching(op[w].where, View(w))
  PROVE  KeysOf(r, View(w)[r]) \cup ({op[w].to} \cap Vals) \subseteq WriteKeys(op[w])
<1> DEFINE hit == Matching(op[w].where, View(w))
           found == op[w].found
           c == op[w].where
<1>1. PreRead(w)
  BY DEF WriteInv, WriterOK
<1>2. found = {<<x, View(w)[x].key>> : x \in hit}
  BY <1>1 DEF PreRead
<1>3. hit \subseteq Rows /\ View(w)[r] # Absent /\ (c \notin Vals => hit \subseteq c)
  BY DEF Matching
<1>4. op[w].kind \notin Silent
  BY <1>1 DEF PreRead, Silent
<1>5. ~(c \in Vals /\ Cardinality(found) > ScanLimit)
  <2> SUFFICES ASSUME c \in Vals PROVE ~(Cardinality(found) > ScanLimit)
    OBVIOUS
  <2>1. IsFiniteSet(Rows) /\ Cardinality(Rows) <= ScanLimit
    BY <1>1 DEF PreRead, Careful
  <2>2. IsFiniteSet(hit) /\ Cardinality(hit) <= Cardinality(Rows)
    BY <1>3, <2>1, FS_Subset
  <2>3. [x \in hit |-> <<x, View(w)[x].key>>] \in Surjection(hit, found)
    BY <1>2 DEF Surjection
  <2>4. IsFiniteSet(found) /\ Cardinality(found) <= Cardinality(hit)
    BY <2>2, <2>3, FS_Surjection
  <2>5. Cardinality(found) \in Nat /\ Cardinality(hit) \in Nat /\ Cardinality(Rows) \in Nat
    BY <2>1, <2>2, <2>4, FS_CardinalityType
  <2> QED
    BY <2>1, <2>2, <2>4, <2>5, CacheAssumption
<1>6. /\ {x[2] : x \in found} \subseteq WriteKeys(op[w])
      /\ (IF c \in Vals THEN {x[1] : x \in found} ELSE c) \subseteq WriteKeys(op[w])
      /\ ({op[w].to} \cap Vals) \cup {Table} \subseteq WriteKeys(op[w])
  BY <1>4, <1>5 DEF WriteKeys
<1> DEFINE k == View(w)[r].key
<1>9. r \in hit /\ <<r, k>> \in {<<x, View(w)[x].key>> : x \in hit}
  OBVIOUS
<1>10. <<r, k>> \in found
  BY <1>2, <1>9
<1> HIDE DEF found, k
<1>7. k \in {x[2] : x \in found}
  BY <1>10
<1>8. r \in IF c \in Vals THEN {x[1] : x \in found} ELSE c
  <2>1. r \in {x[1] : x \in found}
    BY <1>10
  <2> QED
    BY <2>1, <1>3, <1>9
<1> USE DEF found, k
<1> QED
  BY <1>6, <1>7, <1>8, <1>3 DEF KeysOf

LEMMA MayStartIdle ==
  ASSUME Careful, NEW w \in Writers, MayStart(w)
  PROVE  Idle(w) /\ pc[w] = "ready" /\ writes < MaxWrites
BY DEF Careful, MayStart, Idle

LEMMA WritingIdle ==
  ASSUME WriteInv, NEW w \in Writers, Writing(w)
  PROVE  Idle(w)
BY DEF WriteInv, Alone, Idle

LEMMA Withdrawn ==
  ASSUME WriteInv, NEW w \in Writers, pc[w] = "prefetched", op' = [op EXCEPT ![w] = NoOp], Goto(w, "ready"),
         UNCHANGED <<table, history, version, place, entry, readerVars, draft, inTx, pending, todo, owed, writes>>
  PROVE  WriterGoal
<1>1. Types /\ WriterOK(w) /\ w \notin Readers
  BY CacheAssumption DEF WriteInv
<1>2. pc'[w] = "ready" /\ \A p \in (Readers \cup Writers) \ {w} : pc'[p] = pc[p]
  BY <1>1 DEF Goto, Types, WriterTypes
<1>3. Types'
  BY <1>1 DEF Types, TableTypes, WriterTypes, Goto
<1>4. Others(w)
  BY <1>1, <1>2 DEF Others, Alike, Types, WriterTypes
<1>5. WriterOK(w)'
  BY <1>1, <1>2 DEF WriterOK, Placed, PreRead, Flipped, DraftCovered, Pends, View, Covers
<1> QED
  BY <1>1, <1>2, <1>3, <1>4, <1>5, QuietStep DEF WriterOK, Placed, Writing

LEMMA NewRowType ==
  ASSUME WriteInv, writes < MaxWrites, NEW v \in Vals
  PROVE  NewRow(v) \in RowStates /\ NewRow(v) # Absent /\ NewRow(v).key = v
<1>1. writes + 1 \in 0..MaxWrites /\ writes + 1 \in Nat
  BY CacheAssumption DEF WriteInv, Types, TableTypes
<1>2. NewRow(v) \in [key : Vals, stamp : Nat]
  BY <1>1 DEF NewRow
<1> QED
  BY <1>1, <1>2, CacheAssumption DEF NewRow, RowStates

LEMMA RowKey ==
  ASSUME WriteInv, NEW w \in Writers, NEW r \in Rows, View(w)[r] # Absent
  PROVE  View(w)[r].key \in Vals
BY ViewType DEF WriteInv, RowStates

LEMMA ChangeStep ==
  ASSUME Careful, WriteInv, NEW w \in Writers, pc[w] = "prefetched", NEW new,
         \A r \in Matching(op[w].where, View(w)) :
            /\ new[r] \in RowStates
            /\ new[r] = Absent \/ new[r].key \in {View(w)[r].key} \cup ({op[w].to} \cap Vals),
         Write(w, new)
  PROVE  WriterGoal
<1> DEFINE hit == Matching(op[w].where, View(w))
           f == [r \in hit |-> new[r]]
           K == WriteKeys(op[w])
<1>1. op' = [op EXCEPT ![w] = NoOp] /\ UNCHANGED <<version, place, entry, readerVars, inTx>>
  BY DEF Write
<1>2. CASE hit = {}
  BY <1>1, <1>2, Withdrawn DEF Write
<1>3. CASE hit # {}
  <2>1. Put(w, f) /\ Publish(w, K)
    BY <1>3 DEF Write
  <2>2. hit \in SUBSET Rows /\ f \in [hit -> RowStates]
    BY DEF Matching
  <2>3. Covers(K, View(w), Over(View(w), f))
    <3> SUFFICES ASSUME NEW r \in Rows, View(w)[r] # Over(View(w), f)[r]
                 PROVE  KeysOf(r, View(w)[r]) \cup KeysOf(r, Over(View(w), f)[r]) \subseteq K
      BY DEF Covers
    <3>1. r \in hit /\ Over(View(w), f)[r] = new[r]
      BY DEF Over
    <3>2. KeysOf(r, View(w)[r]) \cup ({op[w].to} \cap Vals) \subseteq K
      BY <3>1, PreReadKeys
    <3>3. View(w)[r] # Absent
      BY <3>1 DEF Matching
    <3> QED
      BY <3>1, <3>2, <3>3 DEF KeysOf
  <2>4. writes < MaxWrites /\ Idle(w)
    BY WritingIdle DEF WriteInv, WriterOK, Placed, Writing
  <2> QED
    BY <1>1, <1>3, <2>1, <2>2, <2>3, <2>4, StatementStep
<1> QED
  BY <1>2, <1>3

LEMMA UpdateStep ==
  ASSUME Careful, WriteInv, NEW w \in Writers, UpdateBy(w)
  PROVE  WriterGoal
<1> DEFINE new == [r \in Rows |-> NewRow(IF op[w].to = Same THEN View(w)[r].key ELSE op[w].to)]
<1>1. pc[w] = "prefetched" /\ Write(w, new)
  BY DEF UpdateBy
<1>2. writes < MaxWrites /\ op[w].to \in Vals \cup {Same}
  BY <1>1 DEF WriteInv, WriterOK, Placed, PreRead
<1>3. ASSUME NEW r \in Matching(op[w].where, View(w))
      PROVE  /\ new[r] \in RowStates
             /\ new[r].key \in {View(w)[r].key} \cup ({op[w].to} \cap Vals)
  <2>1. r \in Rows /\ View(w)[r] # Absent
    BY <1>3 DEF Matching
  <2>2. PICK v \in Vals : new[r] = NewRow(v) /\ v \in {View(w)[r].key} \cup ({op[w].to} \cap Vals)
    BY <1>2, <2>1, RowKey
  <2> QED
    BY <1>2, <2>2, NewRowType
<1> HIDE DEF new
<1> QED
  BY <1>1, <1>3, ChangeStep

LEMMA DestroyStep ==
  ASSUME Careful, WriteInv, NEW w \in Writers, Destroy(w)
  PROVE  WriterGoal
<1> DEFINE new == [r \in Rows |-> Absent]
<1>1. pc[w] = "prefetched" /\ Write(w, new)
  BY DEF Destroy
<1>2. \A r \in Matching(op[w].where, View(w)) : new[r] \in RowStates /\ new[r] = Absent
  BY DEF Matching, RowStates
<1> HIDE DEF new
<1> QED
  BY <1>1, <1>2, ChangeStep

LEMMA CreateStep ==
  ASSUME Careful, WriteInv, NEW w \in Writers, Create(w)
  PROVE  WriterGoal
<1>1. Idle(w) /\ pc[w] = "ready" /\ writes < MaxWrites
  BY MayStartIdle DEF Create, MayWrite
<1>2. PICK m \in Methods \cap {"create", "createMany"}, r \in Rows, v \in Vals :
          /\ View(w)[r] = Absent
          /\ Put(w, [x \in {r} |-> NewRow(v)])
          /\ Publish(w, IF m \in Silent THEN {} ELSE {r, v, Table})
  BY DEF Create
<1> DEFINE f == [x \in {r} |-> NewRow(v)]
           K == {r, v, Table}
<1>3. Publish(w, K)
  BY <1>2 DEF Careful, Publishing, Silent
<1>4. NewRow(v) \in RowStates /\ NewRow(v) # Absent /\ NewRow(v).key = v
  BY <1>1, NewRowType
<1>5. {r} \in SUBSET Rows /\ {r} # {} /\ f \in [{r} -> RowStates]
  BY <1>4
<1>6. Covers(K, View(w), Over(View(w), f))
  BY <1>2, <1>4 DEF Covers, Over, KeysOf
<1>7. op' = op /\ UNCHANGED <<version, place, entry, readerVars, inTx>>
  BY DEF Create
<1> QED
  BY <1>1, <1>2, <1>3, <1>5, <1>6, <1>7, StatementStep

-----------------------------------------------------------------------------
(* The other steps of a writer.                                            *)

LEMMA PrefetchStep ==
  ASSUME Careful, WriteInv, NEW w \in Writers, Prefetch(w)
  PROVE  WriterGoal
<1>1. Types /\ WriterOK(w) /\ w \notin Readers
  BY CacheAssumption DEF WriteInv
<1>2. Idle(w) /\ pc[w] = "ready" /\ writes < MaxWrites
  BY MayStartIdle DEF Prefetch, MayWrite
<1>3. UNCHANGED <<table, history, version, place, entry, readerVars,
                  draft, inTx, pending, todo, owed, writes>>
  BY DEF Prefetch
<1>4. PICK m \in Methods \ {"create", "createMany", "flip"}, c \in Where[w], v \in Vals \cup {Same} :
        op' = [op EXCEPT ![w] = [kind |-> m, where |-> c, to |-> v,
                                 found |-> {<<r, View(w)[r].key>> : r \in Matching(c, View(w))}]]
  BY DEF Prefetch
<1>5. pc'[w] = "prefetched" /\ \A p \in (Readers \cup Writers) \ {w} : pc'[p] = pc[p]
  BY <1>1 DEF Goto, Types, WriterTypes, Prefetch
<1>6. Types'
  BY <1>1, <1>3, <1>4 DEF Types, TableTypes, WriterTypes, Goto, Prefetch
<1>7. Others(w)
  BY <1>1, <1>3, <1>4, <1>5 DEF Others, Alike, Types, WriterTypes
<1>8. View(w)' = View(w)
  BY <1>3 DEF View
<1>9. PreRead(w)'
  <2>1. op'[w] = [kind |-> m, where |-> c, to |-> v,
                  found |-> {<<r, View(w)[r].key>> : r \in Matching(c, View(w))}]
    BY <1>1, <1>4 DEF Types, WriterTypes
  <2>2. m \in {"updateBy", "destroy"}
    BY DEF Careful, Publishing
  <2>3. Matching(c, View(w))' = Matching(c, View(w))
    BY <1>8 DEF Matching
  <2> QED
    BY <1>8, <2>1, <2>2, <2>3 DEF PreRead
<1>10. DraftCovered(w)'
  BY <1>1, <1>2, <1>3, <1>5, <1>8 DEF WriterOK, DraftCovered, Pends, Covers
<1>11. WriterOK(w)'
  BY <1>1, <1>2, <1>3, <1>5, <1>9, <1>10 DEF WriterOK, Placed, Flipped
<1> QED
  BY <1>1, <1>2, <1>3, <1>5, <1>6, <1>7, <1>11, QuietStep DEF WriterOK, Placed

LEMMA BeginStep ==
  ASSUME Careful, WriteInv, NEW w \in Writers, Begin(w)
  PROVE  WriterGoal
<1>1. Types /\ WriterOK(w)
  BY DEF WriteInv
<1>2. Idle(w) /\ pc[w] = "ready" /\ ~inTx[w] /\ pending[w] = {}
  BY MayStartIdle DEF Begin
<1>3. /\ inTx' = [inTx EXCEPT ![w] = TRUE]
      /\ UNCHANGED <<table, history, version, place, entry, readerVars,
                     draft, op, pending, todo, owed, writes, pc>>
  BY DEF Begin
<1>4. Types'
  BY <1>1, <1>3 DEF Types, TableTypes, WriterTypes
<1>5. Others(w)
  BY <1>1, <1>3 DEF Others, Alike, Types, WriterTypes
<1>6. View(w)' = table'
  <2>1. draft'[w] = <<>> /\ table' = [r \in Rows |-> table'[r]]
    BY <1>1, <1>2, <1>3 DEF WriterOK, Placed, Types, TableTypes
  <2> QED
    BY <2>1 DEF View
<1>7. WriterOK(w)'
  BY <1>1, <1>2, <1>3, <1>6 DEF WriterOK, Placed, PreRead, Flipped, DraftCovered, Covers
<1> QED
  BY <1>1, <1>2, <1>3, <1>4, <1>5, <1>7, QuietStep DEF WriterOK, Placed

LEMMA RollbackStep ==
  ASSUME WriteInv, NEW w \in Writers, Rollback(w)
  PROVE  WriterGoal
<1>1. Types /\ WriterOK(w)
  BY DEF WriteInv
<1>2. inTx[w] /\ pc[w] = "ready" /\ Idle(w)
  BY WritingIdle DEF Rollback, Writing
<1>3. /\ inTx' = [inTx EXCEPT ![w] = FALSE]
      /\ draft' = [draft EXCEPT ![w] = <<>>]
      /\ pending' = [pending EXCEPT ![w] = {}]
      /\ UNCHANGED <<table, history, version, place, entry, readerVars,
                     op, todo, owed, writes, pc>>
  BY DEF Rollback
<1>4. draft'[w] = <<>> /\ ~inTx'[w] /\ \A u \in Writers \ {w} : draft'[u] = draft[u]
  BY <1>1, <1>3 DEF Types, TableTypes, WriterTypes
<1>5. <<>> \in [DOMAIN <<>> -> RowStates] /\ DOMAIN <<>> \subseteq Rows
  OBVIOUS
<1>6. TableTypes'
  BY <1>1, <1>3, <1>4, <1>5 DEF Types, TableTypes
<1>7. WriterTypes'
  BY <1>1, <1>3 DEF Types, WriterTypes
<1>8. Others(w)
  BY <1>1, <1>3, <1>4 DEF Others, Alike, Types, WriterTypes
<1>9. WriterOK(w)'
  BY <1>1, <1>2, <1>3, <1>4 DEF WriterOK, Placed, PreRead, Flipped, DraftCovered
<1> QED
  BY <1>1, <1>2, <1>3, <1>6, <1>7, <1>8, <1>9, QuietStep DEF WriterOK, Placed, Types

(* The rows of a transaction become those of the table.                    *)
LEMMA CommitRowsStep ==
  ASSUME WriteInv, NEW w \in Writers, CommitRows(w), writes' = writes
  PROVE  /\ Idle(w) /\ TableTypes' /\ inTx' \in [Writers -> BOOLEAN] /\ draft'[w] = <<>> /\ ~inTx'[w]
         /\ \A u \in Writers \ {w} : draft'[u] = draft[u] /\ inTx'[u] = inTx[u]
         /\ Covers(pending[w], table, table')
         /\ \/ pending[w] = {} /\ table' = table /\ history' = history
            \/ history' = Append(history, table')
<1>1. Types /\ WriterOK(w) /\ inTx[w] /\ pc[w] = "ready"
  BY DEF WriteInv, CommitRows
<1>2. Idle(w)
  BY <1>1, WritingIdle DEF Writing
<1>3. /\ inTx' = [inTx EXCEPT ![w] = FALSE] /\ draft' = [draft EXCEPT ![w] = <<>>]
      /\ table' = View(w) /\ history' = IF draft[w] = <<>> THEN history ELSE Append(history, table')
  BY DEF CommitRows
<1>4. table' \in [Rows -> RowStates]
  BY <1>1, <1>3, ViewType
<1>5. /\ draft'[w] = <<>> /\ ~inTx'[w] /\ inTx' \in [Writers -> BOOLEAN]
      /\ \A u \in Writers \ {w} : draft'[u] = draft[u] /\ inTx'[u] = inTx[u]
  BY <1>1, <1>3 DEF Types, TableTypes, WriterTypes
<1>6. Covers(pending[w], table, table')
  BY <1>1, <1>3 DEF WriterOK, DraftCovered, Pends, Covers
<1>7. CASE draft[w] = <<>>
  <2>1. table = [r \in Rows |-> table[r]]
    BY <1>1 DEF Types, TableTypes
  <2>2. table' = table /\ history' = history
    BY <1>3, <1>7, <2>1 DEF View
  <2>3. pending[w] = {}
    BY <1>1, <1>7 DEF WriterOK, Placed
  <2>4. TableTypes'
    BY <1>1, <1>3, <1>5, <2>2 DEF Types, TableTypes
  <2> QED
    BY <1>2, <1>5, <1>6, <2>2, <2>3, <2>4
<1>8. CASE draft[w] # <<>>
  <2>1. history' = Append(history, table')
    BY <1>3, <1>8
  <2>2. history' \in Seq([Rows -> RowStates]) /\ history' # <<>> /\ history'[Len(history')] = table'
    BY <1>1, <1>4, <2>1 DEF Types, TableTypes
  <2>3. TableTypes'
    BY <1>1, <1>3, <1>4, <1>5, <2>2 DEF Types, TableTypes
  <2> QED
    BY <1>2, <1>5, <1>6, <2>1, <2>3
<1> QED
  BY <1>7, <1>8

LEMMA HistoryGrows ==
  ASSUME TableTypes, TableTypes', history' = history \/ history' = Append(history, table')
  PROVE  /\ Len(history) \in Nat /\ Len(history') \in Nat /\ Len(history) <= Len(history')
         /\ table' \in [Rows -> RowStates]
         /\ history' = Append(history, table') => Len(history') = Len(history) + 1
BY DEF TableTypes

LEMMA CommitStep ==
  ASSUME WriteInv, NEW w \in Writers, Commit(w)
  PROVE  WriterGoal
<1>1. Types /\ WriterOK(w) /\ w \notin Readers /\ inTx[w] /\ pc[w] = "ready"
  BY CacheAssumption DEF WriteInv, Commit, CommitRows
<1>2. /\ CommitRows(w) /\ Flush(w, pending[w], Len(history')) /\ pending' = [pending EXCEPT ![w] = {}]
      /\ UNCHANGED <<version, place, entry, readerVars, op, writes>>
  BY DEF Commit
<1>3. /\ Idle(w) /\ TableTypes' /\ inTx' \in [Writers -> BOOLEAN] /\ draft'[w] = <<>> /\ ~inTx'[w]
      /\ \A u \in Writers \ {w} : draft'[u] = draft[u] /\ inTx'[u] = inTx[u]
      /\ Covers(pending[w], table, table')
      /\ \/ pending[w] = {} /\ table' = table /\ history' = history
         \/ history' = Append(history, table')
  BY <1>2, CommitRowsStep
<1>4. /\ Len(history) \in Nat /\ Len(history') \in Nat /\ Len(history) <= Len(history')
      /\ table' \in [Rows -> RowStates]
  BY <1>1, <1>3, HistoryGrows DEF Types
<1>5. /\ todo' \in [Writers -> SUBSET Watched] /\ owed' \in [Writers -> Nat]
      /\ pc' = [p \in Readers \cup Writers |-> pc'[p]]
      /\ \A p \in (Readers \cup Writers) \ {w} : pc'[p] = pc[p]
      /\ \A u \in Writers \ {w} : todo'[u] = todo[u] /\ owed'[u] = owed[u]
      /\ \/ pending[w] \cap Watched = {} /\ owed'[w] = 0 /\ pc'[w] = "ready"
         \/ /\ pending[w] \cap Watched # {} /\ owed'[w] = Len(history') /\ pc'[w] = "publishing"
            /\ todo'[w] = pending[w] \cap Watched
  BY <1>1, <1>2, <1>4, FlushStep DEF Types
<1>6. WriterTypes'
  BY <1>1, <1>2, <1>3, <1>5 DEF Types, WriterTypes
<1>7. Others(w)
  BY <1>1, <1>2, <1>3, <1>5 DEF Others, Alike, Types, WriterTypes
<1>8. WriterOK(w)'
  BY <1>1, <1>3, <1>4, <1>5 DEF WriterOK, Placed, PreRead, Flipped, DraftCovered
<1>9. WriteInv'
  BY <1>3, <1>4, <1>6, <1>7, <1>8, OthersOK, AloneStep DEF WriteInv, Types
<1>10. Moves
  BY <1>1, <1>2, <1>3, <1>4, <1>5 DEF Moves
<1>11. Announces
  <2>1. SUFFICES ASSUME history' # history, NEW q \in Queries, pending[w] \cap q # {}
        PROVE owed'[w] = Len(history') /\ Due(w)' \cap q # {}
    BY <1>3, SameResult DEF Announces
  <2>2. (pending[w] \cap Watched) \cap q # {}
    BY <2>1 DEF Watched
  <2> QED
    BY <1>5, <2>2 DEF Due
<1>12. owed[w] = 0
  BY <1>1 DEF WriterOK, Placed
<1>13. Publishes
  BY <1>2, <1>7, <1>11, <1>12, DebtsKept DEF Publishes
<1> QED
  BY <1>9, <1>10, <1>13 DEF WriterGoal

LEMMA RawCommitStep ==
  ASSUME WriteInv, NEW w \in Writers, RawCommit(w)
  PROVE  WriterGoal
<1>1. Types /\ WriterOK(w) /\ w \notin Readers /\ inTx[w] /\ pc[w] = "ready"
  BY CacheAssumption DEF WriteInv, RawCommit, CommitRows
<1>2. /\ CommitRows(w) /\ owed' = [owed EXCEPT ![w] = Len(history')] /\ pc' = [pc EXCEPT ![w] = "leaving"]
      /\ UNCHANGED <<version, place, entry, readerVars, op, pending, todo, writes>>
  BY DEF RawCommit, Goto
<1>3. /\ Idle(w) /\ TableTypes' /\ inTx' \in [Writers -> BOOLEAN] /\ draft'[w] = <<>> /\ ~inTx'[w]
      /\ \A u \in Writers \ {w} : draft'[u] = draft[u] /\ inTx'[u] = inTx[u]
      /\ Covers(pending[w], table, table')
      /\ history' = Append(history, table')
  BY <1>2, CommitRowsStep DEF RawCommit
<1>4. /\ Len(history) \in Nat /\ Len(history') \in Nat /\ Len(history) <= Len(history')
      /\ table' \in [Rows -> RowStates]
  BY <1>1, <1>3, HistoryGrows DEF Types
<1>5. /\ owed'[w] = Len(history') /\ pc'[w] = "leaving" /\ pending'[w] = pending[w]
      /\ \A p \in (Readers \cup Writers) \ {w} : pc'[p] = pc[p]
      /\ \A u \in Writers \ {w} : owed'[u] = owed[u]
  BY <1>1, <1>2 DEF Types, WriterTypes
<1>6. WriterTypes'
  BY <1>1, <1>2, <1>3, <1>4 DEF Types, WriterTypes
<1>7. Others(w)
  BY <1>2, <1>3, <1>5 DEF Others, Alike
<1>8. WriterOK(w)'
  BY <1>3, <1>4, <1>5 DEF WriterOK, Placed, PreRead, Flipped, DraftCovered
<1>9. WriteInv'
  BY <1>2, <1>3, <1>4, <1>6, <1>7, <1>8, OthersOK, AloneStep DEF WriteInv, Types
<1>10. Moves
  BY <1>1, <1>2, <1>3, <1>4, <1>5 DEF Moves
<1>11. Announces
  <2>1. SUFFICES ASSUME NEW q \in Queries, pending[w] \cap q # {}
        PROVE owed'[w] = Len(history') /\ Due(w)' \cap q # {}
    BY <1>3, SameResult DEF Announces
  <2> QED
    BY <1>5, <2>1 DEF Due
<1>12. owed[w] = 0
  BY <1>1 DEF WriterOK, Placed
<1>13. Publishes
  BY <1>2, <1>7, <1>11, <1>12, DebtsKept DEF Publishes
<1> QED
  BY <1>9, <1>10, <1>13 DEF WriterGoal

LEMMA RequestEndStep ==
  ASSUME WriteInv, NEW w \in Writers, RequestEnd(w)
  PROVE  WriterGoal
<1>1. Types /\ WriterOK(w) /\ w \notin Readers /\ pc[w] = "leaving" /\ owed[w] \in Nat
  BY CacheAssumption DEF WriteInv, RequestEnd, Types, WriterTypes
<1>2. /\ Flush(w, pending[w], owed[w]) /\ pending' = [pending EXCEPT ![w] = {}]
      /\ UNCHANGED <<table, history, version, place, entry, readerVars, draft, inTx, op, writes>>
  BY DEF RequestEnd
<1>3. TableTypes' /\ Len(history) \in Nat
  BY <1>1, <1>2 DEF Types, TableTypes
<1>5. /\ todo' \in [Writers -> SUBSET Watched] /\ owed' \in [Writers -> Nat]
      /\ pc' = [p \in Readers \cup Writers |-> pc'[p]]
      /\ \A p \in (Readers \cup Writers) \ {w} : pc'[p] = pc[p]
      /\ \A u \in Writers \ {w} : todo'[u] = todo[u] /\ owed'[u] = owed[u]
      /\ \/ pending[w] \cap Watched = {} /\ owed'[w] = 0 /\ pc'[w] = "ready"
         \/ /\ pending[w] \cap Watched # {} /\ owed'[w] = owed[w] /\ pc'[w] = "publishing"
            /\ todo'[w] = pending[w] \cap Watched
  BY <1>1, <1>2, FlushStep DEF Types
<1>6. WriterTypes'
  BY <1>1, <1>2, <1>5 DEF Types, WriterTypes
<1>7. Others(w)
  BY <1>1, <1>2, <1>5 DEF Others, Alike, Types, WriterTypes
<1>8. WriterOK(w)' /\ (Writing(w)' => Writing(w))
  BY <1>1, <1>2, <1>5 DEF WriterOK, Placed, PreRead, Flipped, DraftCovered, Writing
<1>9. WriteInv'
  BY <1>2, <1>3, <1>6, <1>7, <1>8, OthersOK, AloneStep DEF WriteInv, Types
<1>10. Moves
  BY <1>1, <1>2, <1>5 DEF Moves
<1>11. ASSUME NEW q \in Queries PROVE Carries(q)
  <2>1. Due(w) = pending[w] /\ pending[w] \cap Watched = pending[w]
    BY <1>1 DEF Due, Types, WriterTypes
  <2>2. Due(w) \cap q # {} => owed'[w] = owed[w] /\ Due(w)' \cap q # {}
    BY <1>5, <2>1 DEF Due
  <2> QED
    BY <1>7, <2>2, DebtsKept
<1>12. Publishes
  BY <1>2, <1>11 DEF Publishes, Announces
<1> QED
  BY <1>9, <1>10, <1>12 DEF WriterGoal

LEMMA IncrementStep ==
  ASSUME WriteInv, NEW w \in Writers, Increment(w)
  PROVE  WriterGoal
<1>1. Types /\ WriterOK(w) /\ w \notin Readers /\ pc[w] = "publishing"
  BY CacheAssumption DEF WriteInv, Increment
<1>2. PICK k \in todo[w] : version' = [version EXCEPT ![k] = @ + 1] /\ todo' = [todo EXCEPT ![w] = @ \ {k}]
  BY DEF Increment
<1>3. /\ UNCHANGED <<table, history, place, entry, readerVars, draft, inTx, op, pending, writes>>
      /\ \/ todo'[w] = {} /\ owed' = [owed EXCEPT ![w] = 0] /\ pc' = [pc EXCEPT ![w] = "ready"]
         \/ todo'[w] # {} /\ UNCHANGED <<owed, pc>>
  BY DEF Increment, Goto
<1>4. TableTypes' /\ Len(history) \in Nat
  BY <1>1, <1>3 DEF Types, TableTypes
<1>5. /\ todo'[w] = todo[w] \ {k} /\ \A u \in Writers \ {w} : todo'[u] = todo[u] /\ owed'[u] = owed[u]
      /\ \A p \in (Readers \cup Writers) \ {w} : pc'[p] = pc[p]
      /\ \/ todo'[w] = {} /\ owed'[w] = 0 /\ pc'[w] = "ready"
         \/ todo'[w] # {} /\ owed'[w] = owed[w] /\ pc'[w] = "publishing"
  BY <1>1, <1>2, <1>3 DEF Types, WriterTypes
<1>6. WriterTypes'
  BY <1>1, <1>2, <1>3 DEF Types, WriterTypes
<1>7. Others(w)
  BY <1>3, <1>5 DEF Others, Alike
<1>8. WriterOK(w)' /\ (Writing(w)' => Writing(w))
  BY <1>1, <1>3, <1>4, <1>5 DEF WriterOK, Placed, PreRead, Flipped, DraftCovered, Writing
<1>9. WriteInv'
  BY <1>3, <1>4, <1>6, <1>7, <1>8, OthersOK, AloneStep DEF WriteInv, Types
<1>10. Moves
  BY <1>1, <1>3, <1>5 DEF Moves
<1>11. ASSUME NEW q \in Queries, k \notin q PROVE Carries(q)
  <2>1. Due(w) \cap q # {} => owed'[w] = owed[w] /\ Due(w)' \cap q # {}
    BY <1>1, <1>5, <1>11 DEF Due
  <2> QED
    BY <1>7, <2>1, DebtsKept
<1>12. Counts
  BY <1>1, <1>2, <1>3, <1>11 DEF Counts, Types, WriterTypes
<1> QED
  BY <1>9, <1>10, <1>12 DEF WriterGoal

LEMMA FlipStep ==
  ASSUME Careful, WriteInv, NEW w \in Writers, Flip(w)
  PROVE  WriterGoal
<1>1. Types /\ WriterOK(w) /\ w \notin Readers
  BY CacheAssumption DEF WriteInv
<1>2. Idle(w) /\ pc[w] = "ready" /\ writes < MaxWrites /\ "flip" \in Methods
  BY MayStartIdle DEF Flip, MayWrite
<1>3. PICK r \in Rows, v0 \in Vals, v1 \in Vals :
          /\ v0 # v1 /\ View(w)[r] # Absent
          /\ Put(w, [x \in {r} |-> NewRow(IF View(w)[r].key = v0 THEN v1 ELSE v0)])
          /\ op' = [op EXCEPT ![w] = [kind |-> "flip", where |-> {r}, v0 |-> v0, v1 |-> v1]]
  BY DEF Flip
<1> DEFINE v == IF View(w)[r].key = v0 THEN v1 ELSE v0
           f == [x \in {r} |-> NewRow(v)]
           K == {r, v0, v1, Table}
<1>4. /\ owed' = [owed EXCEPT ![w] = IF inTx[w] THEN 0 ELSE Len(history')]
      /\ pc' = [pc EXCEPT ![w] = "flipped"]
      /\ UNCHANGED <<version, place, entry, readerVars, inTx, pending, todo>>
  BY DEF Flip, Goto
<1>5. NewRow(v) \in RowStates /\ NewRow(v) # Absent /\ NewRow(v).key = v
  BY <1>1, <1>2, NewRowType
<1>6. {r} \in SUBSET Rows /\ {r} # {} /\ f \in [{r} -> RowStates]
  BY <1>5
<1>7. Put(w, f)
  BY <1>3
<1>8. Covers(K, View(w), Over(View(w), f))
  <2>1. View(w)[r].key \in {v0, v1}
    BY <1>2, <1>3, RowKey DEF Careful
  <2> QED
    BY <1>5, <2>1 DEF Covers, Over, KeysOf
<1>9. Over(View(w), f)[r] = NewRow(v)
  BY DEF Over
<1> HIDE DEF f
<1>10. /\ TableTypes' /\ View(w)' = Over(View(w), f)
       /\ \A u \in Writers \ {w} : draft'[u] = draft[u]
       /\ inTx[w] => table' = table /\ history' = history /\ DOMAIN draft'[w] # {}
       /\ ~inTx[w] => table' = Over(table, f) /\ history' = Append(history, table') /\ draft' = draft
                      /\ View(w) = table
  BY <1>2, <1>6, <1>7, PutStep
<1>11. /\ Len(history) \in Nat /\ Len(history') \in Nat /\ Len(history) <= Len(history')
       /\ table' \in [Rows -> RowStates]
  BY <1>1, <1>10, HistoryGrows DEF Types
<1>12. /\ pc'[w] = "flipped" /\ owed'[w] = IF inTx[w] THEN 0 ELSE Len(history')
       /\ op'[w] = [kind |-> "flip", where |-> {r}, v0 |-> v0, v1 |-> v1]
       /\ \A p \in (Readers \cup Writers) \ {w} : pc'[p] = pc[p]
       /\ \A u \in Writers \ {w} : op'[u] = op[u] /\ owed'[u] = owed[u]
  BY <1>1, <1>3, <1>4 DEF Types, WriterTypes
<1>13. WriterTypes'
  BY <1>1, <1>3, <1>4, <1>11 DEF Types, WriterTypes
<1>14. Others(w)
  BY <1>4, <1>10, <1>12 DEF Others, Alike
<1>15. FlipKeys(op[w])' = K
  BY <1>12 DEF FlipKeys
<1>16. Flipped(w)'
  BY <1>5, <1>9, <1>10, <1>12 DEF Flipped
<1>17. DraftCovered(w)'
  <2> SUFFICES ASSUME inTx[w] PROVE Covers(pending[w] \cup K, table', View(w)')
    BY <1>4, <1>12, <1>15 DEF DraftCovered, Pends, Covers
  <2>1. Covers(pending[w], table, View(w))
    BY <1>1, <1>2 DEF WriterOK, DraftCovered, Pends
  <2> QED
    BY <1>8, <1>10, <2>1, CoversAdd
<1>18. WriterOK(w)'
  BY <1>1, <1>4, <1>10, <1>11, <1>12, <1>16, <1>17 DEF WriterOK, Placed, PreRead
<1>19. WriteInv'
  BY <1>1, <1>2, <1>10, <1>11, <1>13, <1>14, <1>18, OthersOK, AloneStep DEF WriteInv, Types
<1>20. Moves
  BY <1>1, <1>4, <1>10, <1>11, <1>12 DEF Moves
<1>21. Announces
  <2>1. SUFFICES ASSUME ~inTx[w], NEW q \in Queries, K \cap q # {}
        PROVE owed'[w] = Len(history') /\ Due(w)' \cap q # {}
    BY <1>8, <1>10, SameResult DEF Announces
  <2> QED
    BY <1>4, <1>12, <1>15, <2>1 DEF Due
<1>22. owed[w] = 0
  BY <1>1, <1>2 DEF WriterOK, Placed
<1>23. Publishes
  BY <1>4, <1>14, <1>21, <1>22, DebtsKept DEF Publishes
<1> QED
  BY <1>19, <1>20, <1>23 DEF WriterGoal

LEMMA FlipPrefetchStep ==
  ASSUME WriteInv, NEW w \in Writers, FlipPrefetch(w)
  PROVE  WriterGoal
<1>1. Types /\ WriterOK(w) /\ w \notin Readers /\ pc[w] = "flipped" /\ owed[w] \in Nat /\ Idle(w)
  BY CacheAssumption, WritingIdle DEF WriteInv, FlipPrefetch, Types, WriterTypes, Writing
<1> DEFINE o == op[w]
           cur == {View(w)[r].key : r \in Matching(o.where, View(w))}
           other == IF o.v0 \in cur THEN o.v1 ELSE o.v0
           keys == o.where \cup {other, Table} \cup cur
<1>2. keys = FlipKeys(o)
  <2>1. PICK r \in Rows : o.where = {r} /\ View(w)[r] # Absent /\ View(w)[r].key \in {o.v0, o.v1}
    BY <1>1 DEF WriterOK, Flipped
  <2>2. o.where \notin Vals
    BY <2>1, CacheAssumption
  <2>3. Matching(o.where, View(w)) = {r}
    BY <2>1, <2>2 DEF Matching
  <2>4. cur = {View(w)[r].key}
    BY <2>3
  <2> HIDE DEF cur
  <2> QED
    BY <2>1, <2>4 DEF FlipKeys
<1> HIDE DEF keys
<1>3. /\ op' = [op EXCEPT ![w] = NoOp]
      /\ UNCHANGED <<table, history, version, place, entry, readerVars, draft, inTx, writes>>
      /\ IF inTx[w] THEN /\ pending' = [pending EXCEPT ![w] = @ \cup (keys \cap Watched)]
                         /\ pc' = [pc EXCEPT ![w] = "ready"] /\ UNCHANGED <<todo, owed>>
                    ELSE Flush(w, keys, owed[w]) /\ UNCHANGED pending
  BY DEF FlipPrefetch, keys, Goto
<1>4. TableTypes' /\ Len(history) \in Nat
  BY <1>1, <1>3 DEF Types, TableTypes
<1>5. CASE inTx[w]
  <2>1. /\ pending'[w] = pending[w] \cup (keys \cap Watched) /\ pc'[w] = "ready" /\ owed[w] = 0
        /\ \A p \in (Readers \cup Writers) \ {w} : pc'[p] = pc[p]
        /\ \A u \in Writers \ {w} : op'[u] = op[u] /\ pending'[u] = pending[u]
    BY <1>1, <1>3, <1>5 DEF Types, WriterTypes, WriterOK, Placed
  <2>2. WriterTypes'
    BY <1>1, <1>3, <1>5 DEF Types, WriterTypes
  <2>3. Others(w)
    BY <1>3, <1>5, <2>1 DEF Others, Alike
  <2>4. View(w)' = View(w)
    BY <1>3 DEF View
  <2>5. DraftCovered(w)'
    <3>1. Covers(pending[w] \cup keys, table, View(w))
      BY <1>1, <1>2, <1>5 DEF WriterOK, DraftCovered, Pends
    <3>2. Covers(pending'[w], table, View(w))
      BY <2>1, <3>1, CoversMore
    <3> QED
      BY <1>3, <2>1, <2>4, <3>2 DEF DraftCovered, Pends, Covers
  <2>6. WriterOK(w)'
    BY <1>1, <1>3, <1>4, <1>5, <2>1, <2>5 DEF WriterOK, Placed, PreRead, Flipped
  <2> QED
    BY <1>1, <1>3, <1>4, <1>5, <2>1, <2>2, <2>3, <2>6, QuietStep DEF Types
<1>6. CASE ~inTx[w]
  <2>1. /\ todo' \in [Writers -> SUBSET Watched] /\ owed' \in [Writers -> Nat]
        /\ pc' = [p \in Readers \cup Writers |-> pc'[p]]
        /\ \A p \in (Readers \cup Writers) \ {w} : pc'[p] = pc[p]
        /\ \A u \in Writers \ {w} : todo'[u] = todo[u] /\ owed'[u] = owed[u]
        /\ \/ keys \cap Watched = {} /\ owed'[w] = 0 /\ pc'[w] = "ready"
           \/ /\ keys \cap Watched # {} /\ owed'[w] = owed[w] /\ pc'[w] = "publishing"
              /\ todo'[w] = keys \cap Watched
    BY <1>1, <1>3, <1>6, FlushStep DEF Types
  <2>2. WriterTypes'
    BY <1>1, <1>3, <1>6, <2>1 DEF Types, WriterTypes
  <2>3. Others(w)
    BY <1>1, <1>3, <1>6, <2>1 DEF Others, Alike, Types, WriterTypes
  <2>4. WriterOK(w)'
    BY <1>1, <1>3, <1>4, <1>6, <2>1 DEF WriterOK, Placed, PreRead, Flipped, DraftCovered
  <2>5. WriteInv'
    BY <1>1, <1>3, <1>4, <2>2, <2>3, <2>4, OthersOK, AloneStep DEF WriteInv, Types
  <2>6. Moves
    BY <1>1, <1>3, <2>1 DEF Moves
  <2>7. ASSUME NEW q \in Queries PROVE Carries(q)
    <3>1. Due(w) = keys
      BY <1>1, <1>2, <1>6 DEF Due
    <3>2. q \subseteq Watched
      BY DEF Watched
    <3>3. Due(w) \cap q # {} => owed'[w] = owed[w] /\ Due(w)' \cap q # {}
      BY <2>1, <3>1, <3>2 DEF Due
    <3> QED
      BY <2>3, <3>3, DebtsKept
  <2>8. Publishes
    BY <1>3, <2>7 DEF Publishes, Announces
  <2> QED
    BY <2>5, <2>6, <2>8 DEF WriterGoal
<1> QED
  BY <1>5, <1>6

(* A step of a writer keeps what is true of the writers, and readers see   *)
(* no more of it than a commit in debt or an increment.                    *)
LEMMA WriterSteps ==
  ASSUME Careful, WriteInv, NEW w \in Writers, WriteStep(w) \/ PublishStep(w)
  PROVE  WriterGoal
<1>1. WriteFails(w) => WriterGoal
  BY Withdrawn DEF WriteFails
<1> QED
  BY <1>1, PrefetchStep, UpdateStep, DestroyStep, CreateStep, FlipStep, BeginStep, CommitStep, RollbackStep,
     RawCommitStep, FlipPrefetchStep, IncrementStep, RequestEndStep DEF WriteStep, PublishStep

-----------------------------------------------------------------------------
(* What readers hold, when writers move.                                   *)

LEMMA QueryWatched == ASSUME NEW q \in Queries PROVE q \subseteq Watched
BY DEF Watched

LEMMA FetchedKept ==
  ASSUME WriteInv, Publishes \/ Counts, NEW q \in Queries, NEW u, Fetched(q, u)
  PROVE  Fetched(q, u)'
<1>1. \A k \in Watched : version[k] \in Nat /\ version'[k] \in Nat /\ version[k] <= version'[k]
  BY DEF WriteInv, Types, WriterTypes, Publishes, Counts
<1> QED
  BY <1>1, QueryWatched DEF Fetched

LEMMA PastKept ==
  ASSUME WriteInv, Moves, NEW i \in 1..Len(history)
  PROVE  history'[i] = history[i]
<1>1. history \in Seq([Rows -> RowStates])
  BY DEF WriteInv, Types, TableTypes
<1>2. CASE history' = history
  BY <1>2
<1>3. CASE table' \in [Rows -> RowStates] /\ history' = Append(history, table')
  BY <1>1, <1>3
<1> QED
  BY <1>2, <1>3 DEF Moves

LEMMA GoodKept ==
  ASSUME WriteInv, WriteInv', Moves, NEW q, NEW d, NEW s \in Nat, Good(q, d, s)
  PROVE  Good(q, d, s)'
<1>1. PICK i \in 1..Len(history) : s <= i /\ d = Result(q, history[i])
  BY DEF Good
<1>2. Len(history) \in Nat /\ Len(history') \in Nat /\ Len(history) <= Len(history')
  BY HistoryGrows DEF WriteInv, Types, Moves
<1>3. history'[i] = history[i]
  BY PastKept
<1> QED
  BY <1>1, <1>2, <1>3 DEF Good

LEMMA HoldsKept ==
  ASSUME WriteInv, WriteInv', Moves, Publishes, NEW q \in Queries, NEW d,
         NEW i \in 1..Len(history), Holds(q, d, i)
  PROVE  Holds(q, d, i)'
<1>1. /\ Len(history) \in Nat /\ Len(history') \in Nat /\ Len(history) <= Len(history')
      /\ history' = Append(history, table') => Len(history') = Len(history) + 1
  BY HistoryGrows DEF WriteInv, Types, Moves
<1>2. history \in Seq([Rows -> RowStates]) /\ history[Len(history)] = table
  BY DEF WriteInv, Types, TableTypes
<1> SUFFICES ASSUME NEW j \in i..Len(history')
             PROVE  d = Result(q, history'[j]) \/ \E m \in (i + 1)..j : Owes(q, m)'
  BY DEF Holds
<1>3. ASSUME NEW n \in i..Len(history), n <= j, \E m \in (i + 1)..n : Owes(q, m)
      PROVE  \E m \in (i + 1)..j : Owes(q, m)'
  <2>1. PICK m \in (i + 1)..n : Owes(q, m)
    BY <1>3
  <2>2. m \in Nat \ {0} /\ m \in (i + 1)..j
    BY <1>1, <1>3
  <2> QED
    BY <2>1, <2>2 DEF Publishes, Carries
<1>4. CASE j <= Len(history)
  <2>1. j \in i..Len(history) /\ j \in 1..Len(history)
    BY <1>1, <1>4
  <2>3. history'[j] = history[j]
    BY <2>1, PastKept
  <2>2. d = Result(q, history[j]) \/ \E m \in (i + 1)..j : Owes(q, m)
    BY <2>1 DEF Holds
  <2> QED
    BY <1>3, <2>1, <2>2, <2>3
<1>5. CASE j > Len(history)
  <2>1. history' = Append(history, table') /\ j = Len(history) + 1 /\ j = Len(history')
    BY <1>1, <1>5 DEF Moves
  <2>2. history'[j] = table' /\ history' # history
    BY <1>1, <1>2, <2>1
  <2> DEFINE n == Len(history)
  <2>3. n \in i..Len(history) /\ n <= j
    BY <1>1, <2>1
  <2>4. d = Result(q, table) \/ \E m \in (i + 1)..n : Owes(q, m)
    BY <1>2, <2>3 DEF Holds
  <2>5. CASE \E w \in Writers : owed'[w] = Len(history') /\ Due(w)' \cap q # {}
    <3>1. Owes(q, j)'
      BY <2>1, <2>5 DEF Owes
    <3> QED
      BY <1>1, <2>1, <3>1
  <2>6. CASE Result(q, table') = Result(q, table)
    BY <1>3, <2>2, <2>3, <2>4, <2>6
  <2> QED
    BY <2>2, <2>5, <2>6 DEF Publishes, Announces
<1> QED
  BY <1>1, <1>4, <1>5

LEMMA LoadedKept ==
  ASSUME WriteInv, WriteInv', Moves, Publishes \/ Counts, NEW q \in Queries, NEW d, NEW u,
         Fetched(q, u), Loaded(q, d, u)
  PROVE  Loaded(q, d, u)'
<1>1. PICK i \in 1..Len(history) :
        /\ d = Result(q, history[i])
        /\ u # Nothing /\ Current(q, u) => Holds(q, d, i)
  BY DEF Loaded
<1>2. Len(history) \in Nat /\ Len(history') \in Nat /\ Len(history) <= Len(history')
  BY HistoryGrows DEF WriteInv, Types, Moves
<1>3. history \in Seq([Rows -> RowStates])
  BY DEF WriteInv, Types, TableTypes
<1>4. i \in 1..Len(history') /\ history'[i] = history[i]
  BY <1>2, PastKept
<1>5. ASSUME u # Nothing, Current(q, u)' PROVE Holds(q, d, i)'
  <2>1. CASE Publishes
    <3>1. Current(q, u)
      BY <1>5, <2>1 DEF Current, Publishes
    <3> QED
      BY <1>1, <1>5, <2>1, <3>1, HoldsKept
  <2>2. CASE Counts
    <3>1. PICK k \in Watched : /\ version' = [version EXCEPT ![k] = @ + 1]
                               /\ k \in q \/ Carries(q)
      BY <2>2 DEF Counts
    <3>2. version \in [Watched -> Nat]
      BY DEF WriteInv, Types, WriterTypes
    <3>3. k \notin q
      <4> SUFFICES ASSUME k \in q PROVE FALSE
        OBVIOUS
      <4>1. version'[k] = version[k] + 1 /\ version[k] \in Nat
        BY <3>1, <3>2
      <4>2. k \in DOMAIN u /\ u[k] = version[k] + 1
        BY <1>5, <4>1 DEF Current
      <4>3. u[k] <= version[k]
        BY <1>5, <4>2 DEF Fetched
      <4> QED
        BY <4>1, <4>2, <4>3
    <3>4. \A x \in q : version'[x] = version[x]
      BY <3>1, <3>2, <3>3, QueryWatched
    <3>5. Current(q, u)
      BY <1>5, <3>4 DEF Current
    <3>6. Holds(q, d, i)
      BY <1>1, <1>5, <3>5
    <3>7. history' = history /\ Carries(q)
      BY <2>2, <3>1, <3>3 DEF Counts
    <3> SUFFICES ASSUME NEW j \in i..Len(history)
                 PROVE  d = Result(q, history[j]) \/ \E m \in (i + 1)..j : Owes(q, m)'
      BY <3>7 DEF Holds
    <3>8. d = Result(q, history[j]) \/ \E m \in (i + 1)..j : Owes(q, m)
      BY <3>6 DEF Holds
    <3>9. ASSUME NEW m \in (i + 1)..j, Owes(q, m) PROVE Owes(q, m)'
      BY <1>2, <3>7, <3>9 DEF Carries
    <3> QED
      BY <3>8, <3>9
  <2> QED
    BY <2>1, <2>2
<1> QED
  BY <1>1, <1>4, <1>5 DEF Loaded

LEMMA SoundKept ==
  ASSUME WriteInv, WriteInv', ReadTypes, Moves, Publishes \/ Counts, NEW q \in Queries, NEW d, NEW u,
         Sound(q, d, u)
  PROVE  Sound(q, d, u)'
<1>1. Fetched(q, u)' /\ Loaded(q, d, u)'
  BY FetchedKept, LoadedKept DEF Sound
<1>2. ASSUME NEW r \in Readers, pc'[r] = "look" /\ call'[r] = q /\ checkVersion(u, seen'[r], FALSE)
      PROVE  Good(q, d, since[r])'
  <2>1. Good(q, d, since[r]) /\ since'[r] = since[r] /\ since[r] \in Nat
    BY <1>2 DEF Sound, Suits, Moves, ReadTypes, readerVars, checkVersion
  <2>2. PICK s \in Nat : s = since[r]
    BY <2>1
  <2>3. Good(q, d, s)'
    BY <2>1, <2>2, GoodKept
  <2> QED
    BY <2>1, <2>2, <2>3 DEF Good
<1> QED
  BY <1>1, <1>2 DEF Sound, Suits, checkVersion

LEMMA SincesKept ==
  ASSUME WriteInv, WriteInv', ReadInv, Moves
  PROVE  Sinces'
<1>1. /\ Len(history) \in Nat /\ Len(history') \in Nat /\ Len(history) <= Len(history')
      /\ history' = Append(history, table') => Len(history') = Len(history) + 1
  BY HistoryGrows DEF WriteInv, Types, Moves
<1>2. \A w \in Writers : owed[w] \in Nat
  BY DEF WriteInv, Types, WriterTypes
<1>3. SUFFICES ASSUME NEW r \in Readers
      PROVE  since'[r] <= Len(history') /\ \A w \in Writers : owed'[w] = 0 \/ since'[r] < owed'[w]
  BY DEF Sinces
<1>4. /\ since'[r] = since[r] /\ since[r] \in Nat /\ since[r] <= Len(history)
      /\ \A w \in Writers : owed[w] = 0 \/ since[r] < owed[w]
  BY DEF ReadInv, ReadTypes, Sinces, Moves, readerVars
<1>5. ASSUME NEW w \in Writers PROVE owed'[w] = 0 \/ since'[r] < owed'[w]
  <2>1. \/ owed'[w] \in {0, owed[w]}
        \/ history' = Append(history, table') /\ owed'[w] = Len(history')
    BY DEF Moves
  <2>2. CASE owed'[w] \in {0, owed[w]}
    BY <1>4, <2>2
  <2>3. CASE history' = Append(history, table') /\ owed'[w] = Len(history')
    BY <1>1, <1>4, <2>3
  <2> QED
    BY <2>1, <2>2, <2>3
<1> QED
  BY <1>1, <1>4, <1>5

LEMMA ReadersKept ==
  ASSUME WriteInv, WriteInv', ReadInv, Moves, Publishes \/ Counts
  PROVE  ReadInv'
<1>1. ReadTypes'
  BY DEF ReadInv, ReadTypes, Moves, readerVars
<1>2. EntriesSound'
  <2> SUFFICES ASSUME NEW q \in Queries, entry'[q] # Nothing
               PROVE  Sound(q, entry[q].data, entry[q].version)'
    BY DEF EntriesSound
  <2>1. PICK d, u : d = entry[q].data /\ u = entry[q].version
    OBVIOUS
  <2>2. entry' = entry
    BY DEF Moves
  <2>3. Sound(q, d, u)'
    BY <2>1, <2>2, SoundKept DEF ReadInv, EntriesSound
  <2> QED
    BY <2>1, <2>2, <2>3 DEF Sound, Fetched, Loaded, Current, Holds, Suits
<1>3. ASSUME NEW r \in Readers PROVE Held(r)'
  <2>1. UNCHANGED <<call, seen, data, since>> /\ pc'[r] = pc[r] /\ Held(r)
    BY DEF Moves, readerVars, ReadInv
  <2>2. pc[r] # "ready" => call[r] \in Queries
    BY DEF ReadInv, ReadTypes
  <2>3. since[r] \in Nat
    BY DEF ReadInv, ReadTypes
  <2>4. PICK q, d, u, s : q = call[r] /\ d = data[r] /\ u = seen[r] /\ s = since[r]
    OBVIOUS
  <2>5. pc[r] = "fetch" /\ data[r] # Nothing => Sound(call[r], data[r].data, data[r].version)'
    <3>1. SUFFICES ASSUME pc[r] = "fetch", data[r] # Nothing
                   PROVE  Sound(call[r], data[r].data, data[r].version)'
      OBVIOUS
    <3>2. PICK dd, uu : dd = d.data /\ uu = d.version
      OBVIOUS
    <3>3. Sound(q, dd, uu)
      BY <2>1, <2>4, <3>1, <3>2 DEF Held
    <3>4. Sound(q, dd, uu)'
      BY <2>2, <2>4, <3>1, <3>3, SoundKept DEF ReadInv
    <3> QED
      BY <2>1, <2>4, <3>2, <3>4 DEF Sound, Fetched, Loaded, Current, Holds, Suits
  <2>6. pc[r] \in {"look", "load"} => Fetched(call[r], seen[r])'
    <3>1. pc[r] \in {"look", "load"} => Fetched(q, u)'
      BY <2>1, <2>2, <2>4, FetchedKept DEF Held
    <3> QED
      BY <2>1, <2>4, <3>1 DEF Fetched
  <2>7. pc[r] = "store" => Sound(call[r], data[r], seen[r])'
    <3>1. pc[r] = "store" => Sound(q, d, u)'
      BY <2>1, <2>2, <2>4, SoundKept DEF Held, ReadInv
    <3> QED
      BY <2>1, <2>4, <3>1 DEF Sound, Fetched, Loaded, Current, Holds, Suits
  <2>8. pc[r] \in {"store", "answered"} => Good(call[r], data[r], since[r])'
    <3>1. pc[r] \in {"store", "answered"} => Good(q, d, s)'
      BY <2>1, <2>2, <2>3, <2>4, GoodKept DEF Held
    <3> QED
      BY <2>1, <2>4, <3>1 DEF Good
  <2> QED
    BY <2>1, <2>5, <2>6, <2>7, <2>8 DEF Held
<1> QED
  BY <1>1, <1>2, <1>3, SincesKept DEF ReadInv

-----------------------------------------------------------------------------
(* What the versions a call is given say.                                  *)

(* A call that begins with n commits out: none of them owes anything.      *)
Out(n) ==
    /\ n \in Nat /\ n <= Len(history)
    /\ \A w \in Writers : owed[w] = 0 \/ n < owed[w]

LEMMA PublishedOut ==
  ASSUME WriteInv
  PROVE  Out(Published)
<1> DEFINE open == {owed[w] : w \in Writers} \ {0}
<1>1. /\ Len(history) \in Nat
      /\ \A w \in Writers : owed[w] \in Nat /\ owed[w] <= Len(history)
  BY DEF WriteInv, Types, TableTypes, WriterTypes, WriterOK, Placed
<1>2. CASE open = {}
  <2>1. Published = Len(history)
    BY <1>2 DEF Published
  <2> QED
    BY <1>1, <1>2, <2>1 DEF Out
<1>3. CASE open # {}
  <2>1. open \subseteq Nat
    BY <1>1
  <2>2. PICK i \in open : \A j \in open : <<j, i>> \notin OpToRel(<, Nat)
    <3> HIDE DEF open
    <3> QED
      BY <1>3, <2>1, NatLessThanWellFounded, WFMin
  <2>3. ASSUME NEW j \in open PROVE i <= j
    <3>1. i \in Nat /\ j \in Nat
      BY <2>1
    <3>2. j < i => <<j, i>> \in OpToRel(<, Nat)
      BY <3>1, Zenon DEF OpToRel
    <3>3. ~(j < i)
      BY <2>2, <3>2
    <3> QED
      BY <3>1, <3>3
  <2> DEFINE n == CHOOSE k \in open : \A j \in open : k <= j
  <2>4. n \in open /\ \A j \in open : n <= j
    <3> HIDE DEF open
    <3> QED
      BY <2>3
  <2>5. Published = n - 1
    BY <1>3 DEF Published
  <2> HIDE DEF n
  <2>6. n \in Nat /\ n # 0 /\ n <= Len(history)
    BY <1>1, <2>4
  <2>7. \A w \in Writers : owed[w] = 0 \/ n <= owed[w]
    BY <2>4
  <2> QED
    BY <1>1, <2>5, <2>6, <2>7 DEF Out
<1> QED
  BY <1>2, <1>3

(* What was loaded and is current holds for a call that begins now.        *)
LEMMA CurrentGood ==
  ASSUME WriteInv, NEW q \in Queries, NEW d, NEW u, NEW s, Out(s),
         Loaded(q, d, u), u # Nothing, Current(q, u)
  PROVE  Good(q, d, s)
<1>1. PICK i \in 1..Len(history) : d = Result(q, history[i]) /\ Holds(q, d, i)
  BY DEF Loaded
<1>2. Len(history) \in Nat /\ s \in Nat /\ s <= Len(history)
  BY DEF WriteInv, Types, TableTypes, Out
<1>3. CASE s <= i
  BY <1>1, <1>3 DEF Good
<1>4. CASE i < s
  <2>1. s \in i..Len(history) /\ s \in 1..Len(history)
    BY <1>2, <1>4
  <2>2. d = Result(q, history[s]) \/ \E m \in (i + 1)..s : Owes(q, m)
    BY <1>1, <2>1 DEF Holds
  <2>3. ~\E m \in (i + 1)..s : Owes(q, m)
    BY <1>2 DEF Owes, Out
  <2> QED
    BY <1>2, <2>1, <2>2, <2>3 DEF Good
<1> QED
  BY <1>2, <1>3, <1>4

LEMMA CheckCurrent ==
  ASSUME NEW q, NEW u, NEW strict, checkVersion(u, Versions(q), strict)
  PROVE  u # Nothing /\ Current(q, u)
BY DEF checkVersion, Versions, Current

LEMMA VersionsFetched ==
  ASSUME WriteInv, NEW q \in Queries
  PROVE  Fetched(q, Versions(q)) /\ Fetched(q, Nothing) /\ Fetched(q, <<>>)
<1>1. \A k \in q : version[k] \in Nat
  BY QueryWatched DEF WriteInv, Types, WriterTypes
<1> QED
  BY <1>1 DEF Fetched, Versions

-----------------------------------------------------------------------------
(* The steps of a reader.                                                  *)

Reads(r) ==
    /\ UNCHANGED <<table, history, version, place, writerVars>>
    /\ pc' = [p \in Readers \cup Writers |-> pc'[p]]
    /\ \A p \in (Readers \cup Writers) \ {r} : pc'[p] = pc[p]
    /\ \A x \in Readers \ {r} :
          call'[x] = call[x] /\ seen'[x] = seen[x] /\ data'[x] = data[x] /\ since'[x] = since[x]

LEMMA WritersStay ==
  ASSUME WriteInv, UNCHANGED <<table, history, version, writerVars>>,
         pc' = [p \in Readers \cup Writers |-> pc'[p]], \A w \in Writers : pc'[w] = pc[w]
  PROVE  WriteInv'
<1>1. \A w \in Writers : pc'[w] = pc[w]
  OBVIOUS
<1>2. UNCHANGED <<table, history, version, draft, inTx, op, pending, todo, owed, writes>>
  BY DEF writerVars
<1>3. Types'
  BY <1>2 DEF Types, TableTypes, WriterTypes, WriteInv
<1>4. Alone'
  BY <1>1, <1>2 DEF WriteInv, Alone, Writing
<1>5. ASSUME NEW w \in Writers PROVE WriterOK(w)'
  <2>1. WriterOK(w)
    BY DEF WriteInv
  <2>2. View(w)' = View(w)
    BY <1>2 DEF View
  <2>3. \A c : Matching(c, View(w))' = Matching(c, View(w))
    BY <2>2 DEF Matching
  <2>4. Placed(w)' /\ Flipped(w)'
    BY <1>1, <1>2, <2>1, <2>2 DEF WriterOK, Placed, Flipped
  <2>5. PreRead(w)'
    BY <1>1, <1>2, <2>1, <2>2, <2>3 DEF WriterOK, PreRead
  <2>6. DraftCovered(w)'
    BY <1>1, <1>2, <2>1, <2>2 DEF WriterOK, DraftCovered, Pends
  <2> QED
    BY <2>4, <2>5, <2>6 DEF WriterOK
<1> QED
  BY <1>3, <1>4, <1>5 DEF WriteInv

LEMMA ResultsStay ==
  ASSUME NEW r \in Readers, Reads(r), NEW q, NEW d, NEW u, NEW s
  PROVE  /\ Fetched(q, u) => Fetched(q, u)'
         /\ Loaded(q, d, u) => Loaded(q, d, u)'
         /\ Good(q, d, s) => Good(q, d, s)'
<1>1. UNCHANGED <<history, version, inTx, op, pending, todo, owed>> /\ \A w \in Writers : pc'[w] = pc[w]
  BY CacheAssumption DEF Reads, writerVars
<1>2. \A w \in Writers : Due(w)' = Due(w)
  BY <1>1 DEF Due
<1>3. \A m : Owes(q, m)' <=> Owes(q, m)
  BY <1>1, <1>2 DEF Owes
<1> QED
  BY <1>1, <1>3 DEF Fetched, Loaded, Good, Current, Holds

LEMMA SoundStays ==
  ASSUME NEW r \in Readers, Reads(r), NEW q, NEW d, NEW u, Sound(q, d, u),
         pc'[r] = "look" /\ call'[r] = q /\ checkVersion(u, seen'[r], FALSE) => Good(q, d, since'[r])
  PROVE  Sound(q, d, u)'
<1>1. Fetched(q, u)' /\ Loaded(q, d, u)'
  BY ResultsStay DEF Sound
<1>2. ASSUME NEW x \in Readers, pc'[x] = "look", call'[x] = q, checkVersion(u, seen'[x], FALSE)
      PROVE  Good(q, d, since'[x])
  <2>1. CASE x = r
    BY <1>2, <2>1
  <2>2. CASE x # r
    BY <1>2, <2>2 DEF Reads, Sound, Suits
  <2> QED
    BY <2>1, <2>2
<1>3. history' = history
  BY DEF Reads
<1>4. Suits(q, d, u)'
  BY <1>2, <1>3 DEF Suits, Good, checkVersion
<1> QED
  BY <1>1, <1>4 DEF Sound

(* What reader r holds, by the values it holds.                            *)
Holding(l, q, d, u, s) ==
    /\ l = "fetch" /\ d # Nothing => Sound(q, d.data, d.version)
    /\ l \in {"look", "load"} => Fetched(q, u)
    /\ l = "store" => Sound(q, d, u)
    /\ l \in {"store", "answered"} => Good(q, d, s)

(* A step of reader r: what it holds then is sound, it keeps the entries   *)
(* sound, and if it goes to look it will take none that is outdated.       *)
LEMMA ReaderStep ==
  ASSUME VersionInv, NEW r \in Readers, Reads(r), ReadTypes', Out(since'[r]),
         \A q \in Queries : entry'[q] # Nothing => Sound(q, entry'[q].data, entry'[q].version),
         Holding(pc'[r], call'[r], data'[r], seen'[r], since'[r]),
         pc'[r] = "look" => \A d, u :
             Loaded(call'[r], d, u) /\ checkVersion(u, seen'[r], FALSE) => Good(call'[r], d, since'[r])
  PROVE  VersionInv'
<1>1. WriteInv'
  BY WritersStay, CacheAssumption DEF VersionInv, Reads
<1>2. Sinces'
  BY DEF VersionInv, ReadInv, Sinces, Reads, Out, writerVars
<1>3. ASSUME NEW q, NEW d, NEW u, Sound(q, d, u) PROVE Sound(q, d, u)'
  BY <1>3, SoundStays DEF Sound
<1>4. EntriesSound'
  <2> SUFFICES ASSUME NEW q \in Queries, entry'[q] # Nothing
               PROVE  Sound(q, entry[q].data, entry[q].version)'
    BY DEF EntriesSound
  <2>1. PICK d, u : d = entry'[q].data /\ u = entry'[q].version
    OBVIOUS
  <2>2. Sound(q, d, u)'
    BY <1>3, <2>1
  <2> QED
    BY <2>1, <2>2 DEF Sound, Fetched, Loaded, Current, Holds, Suits
<1>5. ASSUME NEW x \in Readers PROVE Held(x)'
  <2>1. PICK l, q, d, u, s : l = pc'[x] /\ q = call'[x] /\ d = data'[x] /\ u = seen'[x] /\ s = since'[x]
    OBVIOUS
  <2>2. Holding(l, q, d, u, s)
    <3>1. CASE x = r
      BY <2>1, <3>1
    <3>2. CASE x # r
      <4>1. l = pc[x] /\ q = call[x] /\ d = data[x] /\ u = seen[x] /\ s = since[x]
        BY <2>1, <3>2 DEF Reads
      <4> QED
        BY <4>1 DEF VersionInv, ReadInv, Held, Holding
    <3> QED
      BY <3>1, <3>2
  <2>3. l = "fetch" /\ d # Nothing => Sound(call[x], data[x].data, data[x].version)'
    <3>1. PICK dd, uu : dd = d.data /\ uu = d.version
      OBVIOUS
    <3>2. l = "fetch" /\ d # Nothing => Sound(q, dd, uu)'
      BY <1>3, <2>2, <3>1 DEF Holding
    <3> QED
      BY <2>1, <3>1, <3>2 DEF Sound, Fetched, Loaded, Current, Holds, Suits
  <2>4. l \in {"look", "load"} => Fetched(call[x], seen[x])'
    <3>1. l \in {"look", "load"} => Fetched(q, u)'
      BY <2>2, ResultsStay DEF Holding
    <3> QED
      BY <2>1, <3>1 DEF Fetched
  <2>5. l = "store" => Sound(call[x], data[x], seen[x])'
    <3>1. l = "store" => Sound(q, d, u)'
      BY <1>3, <2>2 DEF Holding
    <3> QED
      BY <2>1, <3>1 DEF Sound, Fetched, Loaded, Current, Holds, Suits
  <2>6. l \in {"store", "answered"} => Good(call[x], data[x], since[x])'
    <3>1. l \in {"store", "answered"} => Good(q, d, s)'
      BY <2>2, ResultsStay DEF Holding
    <3> QED
      BY <2>1, <3>1 DEF Good
  <2> QED
    BY <2>1, <2>3, <2>4, <2>5, <2>6 DEF Held
<1> QED
  BY <1>1, <1>2, <1>4, <1>5 DEF VersionInv, ReadInv

-----------------------------------------------------------------------------
(* Each action of a reader.                                                *)

LEMMA Begun ==
  ASSUME VersionInv, NEW r \in Readers, NEW q \in Queries, Begins(r, q)
  PROVE  /\ pc[r] = "ready" /\ call' = [call EXCEPT ![r] = q] /\ call'[r] = q
         /\ since' = [since EXCEPT ![r] = Published] /\ since'[r] = Published /\ Out(since'[r])
         /\ since' \in [Readers -> Nat]
<1>1. Out(Published)
  BY PublishedOut DEF VersionInv
<1> QED
  BY <1>1 DEF Begins, VersionInv, ReadInv, ReadTypes, Out

LEMMA Stays ==
  ASSUME VersionInv, NEW r \in Readers
  PROVE  Out(since[r]) /\ Held(r)
BY DEF VersionInv, ReadInv, ReadTypes, Sinces, Out

(* An entry that is sound is served only when it is good for the call, and *)
(* what is kept for the entry to come was fetched.                         *)
LEMMA Served ==
  ASSUME VersionInv, NEW r \in Readers, NEW q \in Queries, NEW e, NEW v, NEW s, Serve(r, e, v),
         e # Nothing => Sound(q, e.data, e.version), Fetched(q, v),
         e # Nothing /\ checkVersion(e.version, v, FALSE) => Good(q, e.data, s)
  PROVE  /\ Holding(pc'[r], q, data'[r], seen'[r], s)
         /\ pc'[r] \in {"answered", "load"}
         /\ pc' = [p \in Readers \cup Writers |-> pc'[p]]
         /\ seen' = [x \in Readers |-> seen'[x]] /\ data' = [x \in Readers |-> data'[x]]
         /\ \A p \in (Readers \cup Writers) \ {r} : pc'[p] = pc[p]
         /\ \A x \in Readers \ {r} : seen'[x] = seen[x] /\ data'[x] = data[x]
<1>1. PICK strict \in BOOLEAN :
        IF e # Nothing /\ checkVersion(e.version, v, strict) THEN Hit(r, e) ELSE Miss(r, v)
  BY DEF Serve
<1>2. /\ pc = [p \in Readers \cup Writers |-> pc[p]]
      /\ seen = [x \in Readers |-> seen[x]] /\ data = [x \in Readers |-> data[x]]
  BY DEF VersionInv, WriteInv, Types, WriterTypes, ReadInv, ReadTypes
<1>3. CASE e # Nothing /\ checkVersion(e.version, v, strict)
  <2>1. checkVersion(e.version, v, FALSE)
    BY <1>3 DEF checkVersion
  <2>2. /\ data' = [data EXCEPT ![r] = e.data] /\ seen' = [seen EXCEPT ![r] = Nothing]
        /\ pc' = [pc EXCEPT ![r] = "answered"]
    BY <1>1, <1>3 DEF Hit, Goto
  <2>3. data'[r] = e.data /\ pc'[r] = "answered"
    BY <1>2, <2>2
  <2> QED
    BY <1>2, <1>3, <2>1, <2>2, <2>3 DEF Holding
<1>4. CASE ~(e # Nothing /\ checkVersion(e.version, v, strict))
  <2>1. /\ data' = [data EXCEPT ![r] = Nothing] /\ seen' = [seen EXCEPT ![r] = v]
        /\ pc' = [pc EXCEPT ![r] = "load"]
    BY <1>1, <1>4 DEF Miss, Goto
  <2>2. seen'[r] = v /\ pc'[r] = "load"
    BY <1>2, <2>1
  <2> QED
    BY <1>2, <2>1, <2>2 DEF Holding
<1> QED
  BY <1>3, <1>4

(* Entries that a step leaves alone stay sound.                            *)
LEMMA EntriesAlone ==
  ASSUME VersionInv, entry' = entry
  PROVE  \A q \in Queries : entry'[q] # Nothing => Sound(q, entry'[q].data, entry'[q].version)
BY DEF VersionInv, ReadInv, EntriesSound

LEMMA CallSharedStep ==
  ASSUME VersionInv, NEW r \in Readers, CallShared(r)
  PROVE  VersionInv'
<1>1. PICK q \in Queries : Begins(r, q) /\ Serve(r, entry[q], Versions(q))
  BY DEF CallShared
<1>2. UNCHANGED <<table, history, version, place, entry, writerVars>>
  BY DEF CallShared
<1>3. /\ call' = [call EXCEPT ![r] = q] /\ call'[r] = q /\ Out(since'[r])
      /\ since' = [since EXCEPT ![r] = Published] /\ since' \in [Readers -> Nat]
  BY <1>1, Begun
<1>4. PICK s : s = since'[r]
  OBVIOUS
<1>5. entry[q] # Nothing => Sound(q, entry[q].data, entry[q].version)
  BY DEF VersionInv, ReadInv, EntriesSound
<1>6. entry[q] # Nothing /\ checkVersion(entry[q].version, Versions(q), FALSE) => Good(q, entry[q].data, s)
  BY <1>3, <1>4, <1>5, CheckCurrent, CurrentGood DEF Sound, VersionInv
<1>7. Fetched(q, Versions(q))
  BY VersionsFetched DEF VersionInv
<1>8. PICK e, v : e = entry[q] /\ v = Versions(q)
  OBVIOUS
<1>9. /\ Holding(pc'[r], q, data'[r], seen'[r], s)
      /\ pc'[r] \in {"answered", "load"}
      /\ pc' = [p \in Readers \cup Writers |-> pc'[p]]
      /\ seen' = [x \in Readers |-> seen'[x]] /\ data' = [x \in Readers |-> data'[x]]
      /\ \A p \in (Readers \cup Writers) \ {r} : pc'[p] = pc[p]
      /\ \A x \in Readers \ {r} : seen'[x] = seen[x] /\ data'[x] = data[x]
  BY <1>1, <1>5, <1>6, <1>7, <1>8, Served
<1>10. Reads(r)
  BY <1>2, <1>3, <1>9 DEF Reads, VersionInv, ReadInv, ReadTypes
<1>11. ReadTypes'
  BY <1>2, <1>3, <1>9 DEF VersionInv, ReadInv, ReadTypes
<1> QED
  BY <1>2, <1>3, <1>4, <1>9, <1>10, <1>11, EntriesAlone, ReaderStep

LEMMA CallSharedFailsStep ==
  ASSUME VersionInv, NEW r \in Readers, CallSharedFails(r)
  PROVE  VersionInv'
<1>1. PICK q \in Queries : Begins(r, q)
  BY DEF CallSharedFails
<1>2. /\ UNCHANGED <<table, history, version, place, entry, data, writerVars>>
      /\ seen' = [seen EXCEPT ![r] = <<>>] /\ pc' = [pc EXCEPT ![r] = "load"]
  BY DEF CallSharedFails, Goto
<1>3. /\ call' = [call EXCEPT ![r] = q] /\ call'[r] = q /\ Out(since'[r])
      /\ since' = [since EXCEPT ![r] = Published] /\ since' \in [Readers -> Nat]
  BY <1>1, Begun
<1>4. /\ pc = [p \in Readers \cup Writers |-> pc[p]] /\ seen = [x \in Readers |-> seen[x]]
  BY DEF VersionInv, WriteInv, Types, WriterTypes, ReadInv, ReadTypes
<1>5. pc'[r] = "load" /\ seen'[r] = <<>>
  BY <1>2, <1>4
<1>6. Holding(pc'[r], call'[r], data'[r], seen'[r], since'[r])
  BY <1>3, <1>5, VersionsFetched DEF Holding, VersionInv
<1>7. Reads(r)
  BY <1>2, <1>3, <1>4 DEF Reads, VersionInv, ReadInv, ReadTypes
<1>8. ReadTypes'
  BY <1>2, <1>3, <1>4 DEF VersionInv, ReadInv, ReadTypes
<1> QED
  BY <1>2, <1>3, <1>5, <1>6, <1>7, <1>8, EntriesAlone, ReaderStep

LEMMA CallLocalStep ==
  ASSUME VersionInv, NEW r \in Readers, CallLocal(r)
  PROVE  VersionInv'
<1>1. PICK q \in Queries : Begins(r, q) /\ data' = [data EXCEPT ![r] = entry[q]]
  BY DEF CallLocal
<1>2. /\ UNCHANGED <<table, history, version, place, entry, seen, writerVars>>
      /\ pc' = [pc EXCEPT ![r] = "fetch"]
  BY DEF CallLocal, Goto
<1>3. /\ call' = [call EXCEPT ![r] = q] /\ call'[r] = q /\ Out(since'[r])
      /\ since' = [since EXCEPT ![r] = Published] /\ since' \in [Readers -> Nat]
  BY <1>1, Begun
<1>4. /\ pc = [p \in Readers \cup Writers |-> pc[p]] /\ data = [x \in Readers |-> data[x]]
  BY DEF VersionInv, WriteInv, Types, WriterTypes, ReadInv, ReadTypes
<1>5. pc'[r] = "fetch" /\ data'[r] = entry[q]
  BY <1>1, <1>2, <1>4
<1>6. Holding(pc'[r], call'[r], data'[r], seen'[r], since'[r])
  BY <1>3, <1>5 DEF Holding, VersionInv, ReadInv, EntriesSound
<1>7. Reads(r)
  BY <1>1, <1>2, <1>3, <1>4 DEF Reads, VersionInv, ReadInv, ReadTypes
<1>8. ReadTypes'
  BY <1>1, <1>2, <1>3, <1>4 DEF VersionInv, ReadInv, ReadTypes
<1> QED
  BY <1>2, <1>3, <1>5, <1>6, <1>7, <1>8, EntriesAlone, ReaderStep

LEMMA CallProcessStep ==
  ASSUME VersionInv, NEW r \in Readers, CallProcess(r)
  PROVE  VersionInv'
<1>1. PICK q \in Queries : Begins(r, q) /\ \E v \in {Versions(q), Nothing} : seen' = [seen EXCEPT ![r] = v]
  BY DEF CallProcess
<1>2. /\ UNCHANGED <<table, history, version, place, entry, data, writerVars>>
      /\ pc' = [pc EXCEPT ![r] = "look"]
  BY DEF CallProcess, Goto
<1>3. /\ call' = [call EXCEPT ![r] = q] /\ call'[r] = q /\ Out(since'[r])
      /\ since' = [since EXCEPT ![r] = Published] /\ since' \in [Readers -> Nat]
  BY <1>1, Begun
<1>4. /\ pc = [p \in Readers \cup Writers |-> pc[p]] /\ seen = [x \in Readers |-> seen[x]]
  BY DEF VersionInv, WriteInv, Types, WriterTypes, ReadInv, ReadTypes
<1>5. /\ pc'[r] = "look" /\ seen'[r] \in {Versions(q), Nothing}
      /\ seen' = [x \in Readers |-> seen'[x]] /\ \A x \in Readers \ {r} : seen'[x] = seen[x]
  BY <1>1, <1>2, <1>4
<1>6. Holding(pc'[r], call'[r], data'[r], seen'[r], since'[r])
  BY <1>3, <1>5, VersionsFetched DEF Holding, VersionInv
<1>7. Reads(r)
  BY <1>2, <1>3, <1>4, <1>5 DEF Reads, VersionInv, ReadInv, ReadTypes
<1>8. ReadTypes'
  BY <1>2, <1>3, <1>4, <1>5 DEF VersionInv, ReadInv, ReadTypes
<1>9. ASSUME NEW d, NEW u, Loaded(q, d, u), checkVersion(u, seen'[r], FALSE)
      PROVE  Good(q, d, since'[r])
  <2>1. checkVersion(u, Versions(q), FALSE)
    BY <1>5, <1>9 DEF checkVersion
  <2>2. PICK s : s = since'[r]
    OBVIOUS
  <2>3. Good(q, d, s)
    BY <1>3, <1>9, <2>1, <2>2, CheckCurrent, CurrentGood DEF VersionInv
  <2> QED
    BY <2>2, <2>3
<1>10. \A d, u : Loaded(call'[r], d, u) /\ checkVersion(u, seen'[r], FALSE) => Good(call'[r], d, since'[r])
  BY <1>3, <1>9
<1>11. \A x \in Queries : entry'[x] # Nothing => Sound(x, entry'[x].data, entry'[x].version)
  BY <1>2, EntriesAlone
<1> QED
  BY <1>3, <1>6, <1>7, <1>8, <1>10, <1>11, ReaderStep

LEMMA FetchLocalStep ==
  ASSUME VersionInv, NEW r \in Readers, FetchLocal(r)
  PROVE  VersionInv'
<1>1. PICK q, e, s : q = call[r] /\ e = data[r] /\ s = since[r]
  OBVIOUS
<1>2. PICK v \in {Versions(q), Nothing} : Serve(r, e, v)
  BY <1>1 DEF FetchLocal
<1>3. UNCHANGED <<table, history, version, place, entry, call, since, writerVars>> /\ pc[r] = "fetch"
  BY DEF FetchLocal
<1>4. q \in Queries /\ Out(s)
  BY <1>1, <1>3, Stays DEF VersionInv, ReadInv, ReadTypes
<1>5. e # Nothing => Sound(q, e.data, e.version)
  BY <1>1, <1>3, Stays DEF Held
<1>6. e # Nothing /\ checkVersion(e.version, v, FALSE) => Good(q, e.data, s)
  <2>1. checkVersion(e.version, v, FALSE) => checkVersion(e.version, Versions(q), FALSE)
    BY <1>2 DEF checkVersion
  <2> QED
    BY <1>4, <1>5, <2>1, CheckCurrent, CurrentGood DEF Sound, VersionInv
<1>7. Fetched(q, v)
  BY <1>2, <1>4, VersionsFetched DEF VersionInv
<1>8. /\ Holding(pc'[r], q, data'[r], seen'[r], s)
      /\ pc'[r] \in {"answered", "load"}
      /\ pc' = [p \in Readers \cup Writers |-> pc'[p]]
      /\ seen' = [x \in Readers |-> seen'[x]] /\ data' = [x \in Readers |-> data'[x]]
      /\ \A p \in (Readers \cup Writers) \ {r} : pc'[p] = pc[p]
      /\ \A x \in Readers \ {r} : seen'[x] = seen[x] /\ data'[x] = data[x]
  BY <1>2, <1>4, <1>5, <1>6, <1>7, Served
<1>9. Reads(r)
  BY <1>3, <1>8 DEF Reads
<1>10. ReadTypes'
  BY <1>1, <1>3, <1>4, <1>8 DEF VersionInv, ReadInv, ReadTypes
<1> QED
  BY <1>1, <1>3, <1>4, <1>8, <1>9, <1>10, EntriesAlone, ReaderStep

LEMMA LookProcessStep ==
  ASSUME VersionInv, NEW r \in Readers, LookProcess(r)
  PROVE  VersionInv'
<1>1. PICK q, v, s, e : q = call[r] /\ v = seen[r] /\ s = since[r] /\ e = entry[q]
  OBVIOUS
<1>2. /\ UNCHANGED <<table, history, version, place, entry, call, since, writerVars>> /\ pc[r] = "look"
      /\ Serve(r, e, v)
  BY <1>1 DEF LookProcess
<1>3. q \in Queries /\ Out(s) /\ Fetched(q, v)
  BY <1>1, <1>2, Stays DEF VersionInv, ReadInv, ReadTypes, Held
<1>4. e # Nothing => Sound(q, e.data, e.version)
  BY <1>1, <1>3 DEF VersionInv, ReadInv, EntriesSound
<1>5. e # Nothing /\ checkVersion(e.version, v, FALSE) => Good(q, e.data, s)
  BY <1>1, <1>2, <1>4 DEF Sound, Suits
<1>6. /\ Holding(pc'[r], q, data'[r], seen'[r], s)
      /\ pc'[r] \in {"answered", "load"}
      /\ pc' = [p \in Readers \cup Writers |-> pc'[p]]
      /\ seen' = [x \in Readers |-> seen'[x]] /\ data' = [x \in Readers |-> data'[x]]
      /\ \A p \in (Readers \cup Writers) \ {r} : pc'[p] = pc[p]
      /\ \A x \in Readers \ {r} : seen'[x] = seen[x] /\ data'[x] = data[x]
  BY <1>2, <1>3, <1>4, <1>5, Served
<1>7. Reads(r)
  BY <1>2, <1>6 DEF Reads
<1>8. ReadTypes'
  BY <1>1, <1>2, <1>3, <1>6 DEF VersionInv, ReadInv, ReadTypes
<1> QED
  BY <1>1, <1>2, <1>3, <1>6, <1>7, <1>8, EntriesAlone, ReaderStep

LEMMA LoadStep ==
  ASSUME VersionInv, NEW r \in Readers, Load(r)
  PROVE  VersionInv'
<1>1. PICK q, u, s, d : q = call[r] /\ u = seen[r] /\ s = since[r] /\ d = Result(q, table)
  OBVIOUS
<1>2. /\ UNCHANGED <<table, history, version, place, entry, call, seen, since, writerVars>>
      /\ data' = [data EXCEPT ![r] = d] /\ pc' = [pc EXCEPT ![r] = "store"] /\ pc[r] = "load"
  BY <1>1 DEF Load, Goto
<1>3. /\ pc = [p \in Readers \cup Writers |-> pc[p]] /\ data = [x \in Readers |-> data[x]]
      /\ Len(history) \in Nat \ {0} /\ history[Len(history)] = table
  BY DEF VersionInv, WriteInv, Types, WriterTypes, TableTypes, ReadInv, ReadTypes
<1>4. pc'[r] = "store" /\ data'[r] = d
  BY <1>2, <1>3
<1>5. q \in Queries /\ Fetched(q, u)
  BY <1>1, <1>2, Stays DEF VersionInv, ReadInv, ReadTypes, Held
<1>6. ASSUME NEW n, Out(n) PROVE Good(q, d, n)
  BY <1>1, <1>3, <1>6 DEF Good, Out
<1>7. Loaded(q, d, u)
  <2> DEFINE i == Len(history)
  <2>1. i \in 1..Len(history) /\ d = Result(q, history[i])
    BY <1>1, <1>3
  <2>2. Holds(q, d, i)
    BY <1>3, <2>1 DEF Holds
  <2> QED
    BY <2>1, <2>2 DEF Loaded
<1>8. Suits(q, d, u)
  BY <1>6, Stays DEF Suits
<1>9. Holding(pc'[r], q, d, u, s)
  BY <1>1, <1>4, <1>5, <1>6, <1>7, <1>8, Stays DEF Holding, Sound
<1>10. Reads(r)
  BY <1>2, <1>3 DEF Reads
<1>11. ReadTypes'
  BY <1>2, <1>3, <1>5 DEF VersionInv, ReadInv, ReadTypes
<1> QED
  BY <1>1, <1>2, <1>4, <1>9, <1>10, <1>11, Stays, EntriesAlone, ReaderStep

LEMMA ReturnStep ==
  ASSUME VersionInv, NEW r \in Readers, Return(r)
  PROVE  VersionInv'
<1>1. /\ UNCHANGED <<table, history, version, place, entry, writerVars>>
      /\ pc' = [pc EXCEPT ![r] = "ready"] /\ call' = [call EXCEPT ![r] = {}]
      /\ seen' = [seen EXCEPT ![r] = Nothing] /\ data' = [data EXCEPT ![r] = Nothing]
      /\ since' = [since EXCEPT ![r] = 0]
  BY DEF Return, Goto
<1>2. /\ pc = [p \in Readers \cup Writers |-> pc[p]] /\ since \in [Readers -> Nat]
      /\ data = [x \in Readers |-> data[x]] /\ seen = [x \in Readers |-> seen[x]]
      /\ call = [x \in Readers |-> call[x]]
      /\ Len(history) \in Nat /\ \A w \in Writers : owed[w] \in Nat
  BY DEF VersionInv, WriteInv, Types, WriterTypes, TableTypes, ReadInv, ReadTypes
<1>3. pc'[r] = "ready" /\ since'[r] = 0
  BY <1>1, <1>2
<1>4. Out(since'[r]) /\ Holding(pc'[r], call'[r], data'[r], seen'[r], since'[r])
  BY <1>2, <1>3 DEF Out, Holding
<1>5. Reads(r)
  BY <1>1, <1>2 DEF Reads
<1>6. ReadTypes'
  BY <1>1, <1>2 DEF VersionInv, ReadInv, ReadTypes
<1> QED
  BY <1>1, <1>3, <1>4, <1>5, <1>6, EntriesAlone, ReaderStep

LEMMA StoreStep ==
  ASSUME VersionInv, NEW r \in Readers, Store(r)
  PROVE  VersionInv'
<1>1. PICK q, u, s, d : q = call[r] /\ u = seen[r] /\ s = since[r] /\ d = data[r]
  OBVIOUS
<1>2. /\ UNCHANGED <<table, history, version, place, call, data, since, writerVars>>
      /\ entry' = [entry EXCEPT ![q] = [data |-> d, version |-> u]]
      /\ seen' = [seen EXCEPT ![r] = Nothing] /\ pc' = [pc EXCEPT ![r] = "answered"] /\ pc[r] = "store"
  BY <1>1 DEF Store, Goto
<1>3. /\ pc = [p \in Readers \cup Writers |-> pc[p]] /\ seen = [x \in Readers |-> seen[x]]
      /\ entry = [x \in Queries |-> entry[x]]
  BY DEF VersionInv, WriteInv, Types, WriterTypes, ReadInv, ReadTypes
<1>4. q \in Queries /\ Sound(q, d, u) /\ Good(q, d, s) /\ Out(s)
  BY <1>1, <1>2, Stays DEF VersionInv, ReadInv, ReadTypes, Held
<1>5. pc'[r] = "answered"
  BY <1>2, <1>3
<1>6. Holding(pc'[r], q, d, seen'[r], s)
  BY <1>4, <1>5 DEF Holding
<1>7. ASSUME NEW x \in Queries, entry'[x] # Nothing PROVE Sound(x, entry'[x].data, entry'[x].version)
  <2>1. CASE x = q
    <3>1. entry'[x].data = d /\ entry'[x].version = u
      BY <1>2, <1>3, <2>1
    <3> QED
      BY <1>4, <2>1, <3>1
  <2>2. CASE x # q
    <3>1. entry'[x] = entry[x]
      BY <1>2, <1>3, <2>2
    <3> QED
      BY <1>7, <3>1 DEF VersionInv, ReadInv, EntriesSound
  <2> QED
    BY <2>1, <2>2
<1>8. Reads(r)
  BY <1>2, <1>3 DEF Reads
<1>9. ReadTypes'
  BY <1>2, <1>3, <1>4 DEF VersionInv, ReadInv, ReadTypes
<1> QED
  BY <1>1, <1>2, <1>4, <1>5, <1>6, <1>7, <1>8, <1>9, ReaderStep

-----------------------------------------------------------------------------
(* The invariant, and what follows from it.                                *)

LEMMA VersionInit ==
  ASSUME Init
  PROVE  VersionInv
<1>1. Types
  <2>1. table \in [Rows -> RowStates]
    BY CacheAssumption DEF Init, RowStates
  <2>2. history = <<table>> /\ Len(history) = 1 /\ history[1] = table
    BY DEF Init
  <2>3. TableTypes
    BY <2>1, <2>2, CacheAssumption DEF TableTypes, Init
  <2>4. WriterTypes
    BY DEF WriterTypes, Init
  <2> QED
    BY <2>3, <2>4 DEF Types
<1>2. Len(history) = 1
  BY DEF Init
<1>3. Alone
  BY CacheAssumption DEF Init, Alone, Writing
<1>4. \A w \in Writers : WriterOK(w)
  BY <1>2 DEF Init, WriterOK, Placed, PreRead, Flipped, DraftCovered
<1>5. WriteInv
  BY <1>1, <1>3, <1>4 DEF WriteInv
<1>6. ReadInv
  BY <1>2 DEF Init, ReadInv, ReadTypes, Sinces, EntriesSound, Held
<1> QED
  BY <1>5, <1>6 DEF VersionInv

LEMMA VersionNext ==
  ASSUME Careful, VersionInv, [Next]_vars
  PROVE  VersionInv'
<1>1. ASSUME NEW w \in Writers, WriteStep(w) \/ PublishStep(w) PROVE VersionInv'
  <2>1. WriteInv' /\ Moves /\ (Publishes \/ Counts)
    BY <1>1, WriterSteps DEF VersionInv, WriterGoal
  <2> QED
    BY <2>1, ReadersKept DEF VersionInv, ReadInv
<1>2. ASSUME NEW r \in Readers, ReadStep(r) PROVE VersionInv'
  BY <1>2, FetchLocalStep, LookProcessStep, LoadStep, ReturnStep, StoreStep DEF ReadStep, LoadFails, Answer
<1>3. CASE UNCHANGED vars
  <2>1. WriteInv' /\ Moves /\ Publishes
    <3>1. WriteInv'
      BY <1>3, WritersStay DEF VersionInv, WriteInv, Types, WriterTypes, vars
    <3>2. Moves
      BY <1>3 DEF Moves, vars, writerVars, readerVars
    <3>3. Publishes
      BY <1>3 DEF Publishes, Announces, Carries, Owes, Due, vars, writerVars
    <3> QED
      BY <3>1, <3>2, <3>3
  <2> QED
    BY <2>1, ReadersKept DEF VersionInv, ReadInv
<1> QED
  BY <1>1, <1>2, <1>3, CallSharedStep, CallSharedFailsStep, CallLocalStep, CallProcessStep DEF Next

(* The types of versions_fresh, for any number of requests, rows and keys. *)
THEOREM VersionTypes ==
  ASSUME Careful
  PROVE  Spec => []TypeOK
<1>1. VersionInv => TypeOK
  <2> SUFFICES ASSUME VersionInv PROVE TypeOK
    OBVIOUS
  <2>1. \A i \in 1..Len(history) : history[i] \in [Rows -> RowStates]
    BY DEF VersionInv, WriteInv, Types, TableTypes
  <2> QED
    BY <2>1 DEF TypeOK, VersionInv, WriteInv, Types, TableTypes, WriterTypes, WriterOK, Placed,
                ReadInv, ReadTypes, Sinces
<1>2. Init => VersionInv
  BY VersionInit
<1>3. VersionInv /\ [Next]_vars => VersionInv'
  BY VersionNext
<1> QED
  BY <1>1, <1>2, <1>3, PTL DEF Spec

(* A reader that is answered has a result no older than the last commit    *)
(* whose increments were all done when its call began, whatever slow loads, *)
(* late stores, half-done increments, commits and roll-backs interleave    *)
(* with it, if the application is Careful (cache.c, meta.c:722-731).       *)
THEOREM AnswersCorrect ==
  ASSUME Careful
  PROVE  Spec => []AnswersRegular
<1>1. VersionInv => AnswersRegular
  <2> SUFFICES ASSUME VersionInv, NEW r \in Readers, pc[r] = "answered"
               PROVE  \E i \in since[r]..Len(history) : data[r] = Result(call[r], history[i])
    BY DEF AnswersRegular
  <2>1. Good(call[r], data[r], since[r]) /\ since[r] \in Nat /\ Len(history) \in Nat
    BY DEF VersionInv, ReadInv, ReadTypes, Held, WriteInv, Types, TableTypes
  <2>2. PICK i \in 1..Len(history) : since[r] <= i /\ data[r] = Result(call[r], history[i])
    BY <2>1 DEF Good
  <2>3. i \in since[r]..Len(history)
    BY <2>1, <2>2
  <2> QED
    BY <2>2, <2>3
<1>2. Init => VersionInv
  BY VersionInit
<1>3. VersionInv /\ [Next]_vars => VersionInv'
  BY VersionNext
<1> QED
  BY <1>1, <1>2, <1>3, PTL DEF Spec

(* When no increment is outstanding, an entry that would be served is what *)
(* the query gives on the table as it is.                                  *)
THEOREM SettledCorrect ==
  ASSUME Careful
  PROVE  Spec => []SettledFresh
<1>1. VersionInv => SettledFresh
  <2> SUFFICES ASSUME VersionInv, \A w \in Writers : owed[w] = 0, NEW q \in Queries, entry[q] # Nothing,
                      checkVersion(entry[q].version, Versions(q), FALSE)
               PROVE  entry[q].data = Result(q, table)
    BY DEF SettledFresh
  <2>1. Loaded(q, entry[q].data, entry[q].version) /\ entry[q].version # Nothing
        /\ Current(q, entry[q].version)
    BY CheckCurrent DEF VersionInv, ReadInv, EntriesSound, Sound
  <2>2. Len(history) \in Nat /\ history[Len(history)] = table
    BY DEF VersionInv, WriteInv, Types, TableTypes
  <2>3. PICK i \in 1..Len(history) : Holds(q, entry[q].data, i)
    BY <2>1 DEF Loaded
  <2>4. Len(history) \in i..Len(history)
    BY <2>2
  <2>5. \A m \in (i + 1)..Len(history) : ~Owes(q, m)
    BY <2>2 DEF Owes
  <2> QED
    BY <2>2, <2>3, <2>4, <2>5 DEF Holds
<1>2. Init => VersionInv
  BY VersionInit
<1>3. VersionInv /\ [Next]_vars => VersionInv'
  BY VersionNext
<1> QED
  BY <1>1, <1>2, <1>3, PTL DEF Spec
=============================================================================
