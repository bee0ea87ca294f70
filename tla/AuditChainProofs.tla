-------------------------- MODULE AuditChainProofs --------------------------
(***************************************************************************)
(* Proofs about the hash chain for every set of tasks, contents, readers   *)
(* and every number of appends and of damaged rows.                        *)
(***************************************************************************)
EXTENDS AuditChain, SequenceTheorems, TLAPS

(***************************************************************************)
(* Facts about rows and hashes                                             *)
(***************************************************************************)
\* Hashes are sequences of bodies.
LEMMA HashesType ==
    ASSUME TypeOK
    PROVE  Hashes \subseteq Seq(Bodies) /\ Genesis \in Hashes
<1>1. \A t \in Tasks : issued[t] \subseteq Seq(Bodies)
  BY DEF TypeOK
<1>2. Genesis \in Seq(Bodies)
  BY EmptySeq DEF Genesis
<1>3. Genesis \in Hashes
  BY DEF Hashes
<1>4. ASSUME NEW h \in Hashes PROVE h \in Seq(Bodies)
  BY <1>1, <1>2 DEF Hashes
<1> QED
  BY <1>3, <1>4

\* Losing a row leaves a sequence of rows.
LEMMA WithoutType ==
    ASSUME NEW S, NEW rows \in Seq(S), NEW k \in 1..Len(rows)
    PROVE  Without(rows, k) \in Seq(S)
<1>1. SubSeq(rows, 1, k - 1) \in Seq(S)
  <2>1. \A i \in 1..(k - 1) : rows[i] \in S
    BY ElementOfSeq, LenProperties
  <2> QED
    BY <2>1, SubSeqProperties
<1>2. SubSeq(rows, k + 1, Len(rows)) \in Seq(S)
  <2>1. \A i \in (k + 1)..Len(rows) : rows[i] \in S
    BY ElementOfSeq, LenProperties
  <2>2. k + 1 \in Int /\ Len(rows) \in Int
    BY LenProperties
  <2> QED
    BY <2>1, <2>2, SubSeqProperties
<1> QED
  BY <1>1, <1>2, ConcatProperties DEF Without

\* So does putting a row in.
LEMMA WithType ==
    ASSUME NEW S, NEW rows \in Seq(S), NEW k \in 1..(Len(rows) + 1), NEW row \in S
    PROVE  With(rows, k, row) \in Seq(S)
<1>1. SubSeq(rows, 1, k - 1) \in Seq(S)
  <2>1. \A i \in 1..(k - 1) : rows[i] \in S
    BY ElementOfSeq, LenProperties
  <2> QED
    BY <2>1, SubSeqProperties
<1>2. SubSeq(rows, k, Len(rows)) \in Seq(S)
  <2>1. \A i \in k..Len(rows) : rows[i] \in S
    BY ElementOfSeq, LenProperties
  <2>2. k \in Int /\ Len(rows) \in Int
    BY LenProperties
  <2> QED
    BY <2>1, <2>2, SubSeqProperties
<1>3. <<row>> \in Seq(S)
  OBVIOUS
<1>4. SubSeq(rows, 1, k - 1) \o <<row>> \in Seq(S)
  BY <1>1, <1>3, ConcatProperties
<1> QED
  BY <1>2, <1>4, ConcatProperties DEF With

\* The history of n + 1 rows is that of n rows with a body hashed onto it.
LEMMA HistoryGrows ==
    ASSUME NEW t \in Tasks, NEW rows, NEW n \in Nat, \A k \in 1..(n + 1) : rows[k].content \in Contents
    PROVE  /\ History(t, rows, n) \in Seq(Bodies) /\ Len(History(t, rows, n)) = n
           /\ Hash(History(t, rows, n), Body(t, rows[n + 1].content)) = History(t, rows, n + 1)
<1>1. \A k \in 1..(n + 1) : Body(t, rows[k].content) \in Bodies
  BY DEF Body, Bodies
<1>2. History(t, rows, n) \in Seq(Bodies) /\ Len(History(t, rows, n)) = n
  BY <1>1 DEF History
<1>3. History(t, rows, n + 1) \in Seq(Bodies) /\ Len(History(t, rows, n + 1)) = n + 1
  BY <1>1 DEF History
<1> DEFINE longer == Append(History(t, rows, n), Body(t, rows[n + 1].content))
<1>4. longer \in Seq(Bodies) /\ Len(longer) = n + 1
  BY <1>1, <1>2
<1>5. \A k \in 1..(n + 1) : longer[k] = History(t, rows, n + 1)[k]
  BY <1>1, <1>2 DEF History
<1>6. longer = History(t, rows, n + 1)
  <2> HIDE DEF longer
  <2> QED
    BY <1>3, <1>4, <1>5, SeqEqual
<1> QED
  BY <1>2, <1>6 DEF Hash

\* A walk moves on to the next row, ...
LEMMA WalkMoves ==
    ASSUME NEW r \in Calls, NEW h \in Hashes
    PROVE  LET moved == [r EXCEPT !.k = r.k + 1, !.prev = h] IN
           /\ moved \in Calls
           /\ moved.at = r.at /\ moved.task = r.task /\ moved.rows = r.rows /\ moved.k = r.k + 1
           /\ moved.prev = h /\ moved.expected = r.expected /\ moved.intact = r.intact
<1>1. r.k + 1 \in Nat \ {0}
  BY DEF Calls
<1> DEFINE k == r.k + 1
<1> HIDE DEF k
<1>2. [r EXCEPT !.k = k, !.prev = h] \in Calls
  BY <1>1 DEF Calls, k
<1>3. LET moved == [r EXCEPT !.k = k, !.prev = h] IN
           /\ moved.at = r.at /\ moved.task = r.task /\ moved.rows = r.rows /\ moved.k = k
           /\ moved.prev = h /\ moved.expected = r.expected /\ moved.intact = r.intact
  BY DEF Calls
<1> QED
  BY <1>2, <1>3 DEF k

\* ... or ends with a verdict.
LEMMA VerdictMoves ==
    ASSUME NEW r \in Calls, NEW b \in BOOLEAN
    PROVE  LET moved == [r EXCEPT !.at = "verified", !.ok = b] IN
           /\ moved \in Calls
           /\ moved.at = "verified" /\ moved.ok = b /\ moved.task = r.task
           /\ moved.rows = r.rows /\ moved.expected = r.expected /\ moved.intact = r.intact
  BY DEF Calls

\* The other readers are not concerned.
LEMMA ReaderMoves ==
    ASSUME TypeOK, NEW u \in Readers, NEW r, reader' = [reader EXCEPT ![u] = r]
    PROVE  reader'[u] = r /\ \A v \in Readers : v # u => reader'[v] = reader[v]
  BY DEF TypeOK

\* A call that begins or is over.
LEMMA StartMoves ==
    ASSUME TypeOK, NEW u \in Readers, NEW t \in Tasks, NEW n, StartVerify(u, t, n)
    PROVE  /\ reader'[u].at = "walk" /\ reader'[u].task = t /\ reader'[u].expected = n
           /\ reader'[u].rows = table[t] /\ reader'[u].k = 1 /\ reader'[u].prev = Genesis
           /\ reader'[u].intact = (t \notin damaged)
           /\ \A v \in Readers : v # u => reader'[v] = reader[v]
<1> DEFINE r == [Reading EXCEPT !.at = "walk", !.task = t, !.expected = n, !.rows = table[t],
                                !.intact = t \notin damaged]
<1>1. reader'[u] = r /\ \A v \in Readers : v # u => reader'[v] = reader[v]
  BY ReaderMoves DEF StartVerify
<1> QED
  BY <1>1 DEF Reading

(***************************************************************************)
(* Type correctness                                                        *)
(***************************************************************************)
LEMMA InitType == Init => TypeOK
<1> SUFFICES ASSUME Init PROVE TypeOK
  OBVIOUS
<1>1. (CHOOSE t \in Tasks : TRUE) \in Tasks /\ (CHOOSE c \in Contents : TRUE) \in Contents
  BY ChainAssumption
<1>2. Genesis \in Hashes
  BY DEF Hashes
<1>3. Resting \in [at : {"idle", "insert"}, prev : Hashes, content : Contents]
  BY <1>1, <1>2 DEF Resting
<1>4. Reading \in Calls
  BY <1>1, <1>2 DEF Reading, Calls
<1> QED
  BY <1>3, <1>4 DEF Init, TypeOK

\* A computed hash is one more hash, and everything typed by the old ones stays typed.
LEMMA InsertType ==
    ASSUME TypeOK, NEW t \in Tasks, InsertRow(t)
    PROVE  TypeOK' /\ Hashes \subseteq Hashes'
<1> DEFINE w == writer[t]
           hash == Hash(w.prev, Body(t, w.content))
           row == [content |-> w.content, prev |-> w.prev, hash |-> hash]
<1>1. w.prev \in Hashes /\ w.content \in Contents /\ w.prev \in Seq(Bodies)
  BY HashesType DEF TypeOK
<1>2. hash \in Seq(Bodies)
  BY <1>1 DEF Hash, Body, Bodies
<1>3. issued' \in [Tasks -> SUBSET Seq(Bodies)] /\ hash \in issued'[t]
  BY <1>2 DEF TypeOK, InsertRow
<1>4. Hashes \subseteq Hashes' /\ hash \in Hashes'
  <2>1. \A s \in Tasks : issued[s] \subseteq issued'[s]
    BY DEF TypeOK, InsertRow
  <2> QED
    BY <1>3, <2>1 DEF Hashes
<1>5. Row \subseteq Row' /\ row \in Row'
  BY <1>1, <1>4 DEF Row
<1>6. Seq(Row) \subseteq Seq(Row')
  <2>1. \A s \in Seq(Row) : s \in Seq(Row')
    BY <1>5, SeqMonotonic
  <2> QED
    BY <2>1
<1>7. table' \in [Tasks -> Seq(Row')]
  <2>1. table[t] \in Seq(Row')
    BY <1>6 DEF TypeOK
  <2>2. Append(table[t], row) \in Seq(Row')
    BY <1>5, <2>1
  <2>3. table' = [table EXCEPT ![t] = Append(@, row)]
    BY DEF InsertRow
  <2> QED
    BY <1>6, <2>2, <2>3 DEF TypeOK
<1>8. writer' \in [Tasks -> [at : {"idle", "insert"}, prev : Hashes', content : Contents]]
  <2>1. Resting \in [at : {"idle", "insert"}, prev : Hashes', content : Contents]
    BY ChainAssumption DEF Resting, Hashes
  <2>2. [at : {"idle", "insert"}, prev : Hashes, content : Contents]
          \subseteq [at : {"idle", "insert"}, prev : Hashes', content : Contents]
    BY <1>4
  <2> QED
    BY <2>1, <2>2 DEF TypeOK, InsertRow
<1>9. reader' \in [Readers -> Calls']
  <2>1. Calls \subseteq Calls'
    BY <1>4, <1>6 DEF Calls
  <2>2. reader' = reader
    BY DEF InsertRow
  <2> QED
    BY <2>1, <2>2 DEF TypeOK
<1>10. written' \in [Tasks -> Seq(Contents)]
  BY <1>1 DEF TypeOK, InsertRow
<1>11. damage' \in Nat /\ damaged' \subseteq Tasks
  BY DEF TypeOK, InsertRow
<1> QED
  BY <1>3, <1>4, <1>7, <1>8, <1>9, <1>10, <1>11 DEF TypeOK

\* A step that leaves the hashes alone keeps the type when it does so for what it changes.
LEMMA StepType ==
    ASSUME TypeOK, [Next]_vars
    PROVE  TypeOK'
<1> DEFINE WriterSet == [at : {"idle", "insert"}, prev : Hashes, content : Contents]
<1>0. ASSUME UNCHANGED issued, table' \in [Tasks -> Seq(Row)], writer' \in [Tasks -> WriterSet],
             reader' \in [Readers -> Calls], damage' \in Nat, damaged' \subseteq Tasks,
             written' \in [Tasks -> Seq(Contents)]
      PROVE  TypeOK'
  <2>1. Hashes' = Hashes
    BY <1>0 DEF Hashes
  <2>2. Row' = Row
    BY <2>1 DEF Row
  <2>3. Calls' = Calls
    BY <2>1, <2>2 DEF Calls
  <2> QED
    BY <1>0, <2>1, <2>2, <2>3 DEF TypeOK
<1>r. Resting \in WriterSet
  BY ChainAssumption DEF Resting, Hashes
<1>d. Reading \in Calls
  BY ChainAssumption DEF Reading, Hashes, Calls
<1>1. ASSUME NEW t \in Tasks, NEW x \in Contents, ReadPrev(t, x) PROVE TypeOK'
  <2>1. PrevHash(t) \in Hashes
    <3>1. CASE table[t] = <<>>
      BY <3>1 DEF PrevHash, Hashes
    <3>2. CASE table[t] # <<>>
      <4>1. table[t] \in Seq(Row) /\ Len(table[t]) \in 1..Len(table[t])
        BY <3>2, EmptySeq DEF TypeOK
      <4>2. table[t][Len(table[t])] \in Row
        BY <4>1, ElementOfSeq
      <4> QED
        BY <3>2, <4>2 DEF PrevHash, Row
    <3> QED
      BY <3>1, <3>2
  <2>2. [at |-> "insert", prev |-> PrevHash(t), content |-> x] \in WriterSet
    BY <2>1
  <2>3. writer' \in [Tasks -> WriterSet]
    BY <1>1, <2>2 DEF TypeOK, ReadPrev
  <2> QED
    BY <1>0, <1>1, <2>3 DEF TypeOK, ReadPrev
<1>2. ASSUME NEW t \in Tasks, InsertRow(t) PROVE TypeOK'
  BY <1>2, InsertType
<1>3. ASSUME NEW t \in Tasks, InsertRaises(t) PROVE TypeOK'
  <2>1. writer' \in [Tasks -> WriterSet]
    BY <1>3, <1>r DEF TypeOK, InsertRaises
  <2> QED
    BY <1>0, <1>3, <2>1 DEF TypeOK, InsertRaises
<1>4. ASSUME NEW u \in Readers, NEW t \in Tasks, NEW n \in {NoCount, Len(written[t])},
             StartVerify(u, t, n)
      PROVE  TypeOK'
  <2>1. n \in Nat \cup {NoCount} /\ table[t] \in Seq(Row)
    BY LenProperties DEF TypeOK
  <2>2. [Reading EXCEPT !.at = "walk", !.task = t, !.expected = n, !.rows = table[t],
                        !.intact = t \notin damaged] \in Calls
    BY <1>d, <2>1 DEF Calls
  <2>3. reader' \in [Readers -> Calls]
    BY <1>4, <2>2 DEF TypeOK, StartVerify
  <2> QED
    BY <1>0, <1>4, <2>3 DEF TypeOK, StartVerify
<1>5. ASSUME NEW u \in Readers, WalkRow(u) PROVE TypeOK'
  <2>1. reader[u] \in Calls
    BY DEF TypeOK
  <2>2. reader[u].rows[reader[u].k] \in Row
    <3>1. reader[u].rows \in Seq(Row) /\ reader[u].k \in 1..Len(reader[u].rows)
      BY <1>5, <2>1, LenProperties DEF WalkRow, Calls
    <3> QED
      BY <3>1, ElementOfSeq
  <2>3. reader[u].rows[reader[u].k].hash \in Hashes
    BY <2>2 DEF Row
  <2>4. PICK r \in Calls : reader' = [reader EXCEPT ![u] = r]
    <3>1. [reader[u] EXCEPT !.k = reader[u].k + 1, !.prev = reader[u].rows[reader[u].k].hash] \in Calls
      BY <2>1, <2>3, WalkMoves
    <3>2. [reader[u] EXCEPT !.at = "verified", !.ok = FALSE] \in Calls
      BY <2>1, VerdictMoves
    <3> QED
      BY <1>5, <3>1, <3>2 DEF WalkRow
  <2>5. reader' \in [Readers -> Calls]
    BY <2>4 DEF TypeOK
  <2> QED
    BY <1>0, <1>5, <2>5 DEF TypeOK, WalkRow
<1>6. ASSUME NEW u \in Readers, EndWalk(u) PROVE TypeOK'
  <2>1. CountHolds(reader[u].expected, Len(reader[u].rows)) \in BOOLEAN
    BY DEF CountHolds
  <2>2. PICK r \in Calls : reader' = [reader EXCEPT ![u] = r]
    <3>1. reader[u] \in Calls
      BY DEF TypeOK
    <3>2. [reader[u] EXCEPT !.at = "verified",
             !.ok = CountHolds(reader[u].expected, Len(reader[u].rows))] \in Calls
      BY <2>1, <3>1, VerdictMoves
    <3> QED
      BY <1>6, <3>2 DEF EndWalk
  <2>3. reader' \in [Readers -> Calls]
    BY <2>2 DEF TypeOK
  <2> QED
    BY <1>0, <1>6, <2>3 DEF TypeOK, EndWalk
<1>7. ASSUME NEW u \in Readers, Return(u) PROVE TypeOK'
  <2>1. reader' \in [Readers -> Calls]
    BY <1>7, <1>d DEF TypeOK, Return
  <2> QED
    BY <1>0, <1>7, <2>1 DEF TypeOK, Return
<1>8. ASSUME NEW t \in Tasks, NEW rows \in Seq(Row), Change(t, rows) PROVE TypeOK'
  <2>1. table' \in [Tasks -> Seq(Row)] /\ damage' \in Nat /\ damaged' \subseteq Tasks
    BY <1>8 DEF TypeOK, Change
  <2> QED
    BY <1>0, <1>8, <2>1 DEF TypeOK, Change
<1>9. ASSUME NEW t \in Tasks, NEW k \in 1..Len(table[t]), LoseRow(t, k) PROVE TypeOK'
  BY <1>8, <1>9, WithoutType DEF LoseRow, TypeOK
<1>10. ASSUME NEW t \in Tasks, NEW k \in 1..Len(table[t]), NEW x \in Contents,
              NEW prev \in Hashes, NEW hash \in Hashes, EditRow(t, k, x, prev, hash)
       PROVE  TypeOK'
  <2>1. table[t] \in Seq(Row) /\ [content |-> x, prev |-> prev, hash |-> hash] \in Row
    BY DEF TypeOK, Row
  <2>2. [table[t] EXCEPT ![k] = [content |-> x, prev |-> prev, hash |-> hash]] \in Seq(Row)
    BY <2>1, ExceptSeq
  <2> QED
    BY <1>8, <1>10, <2>2 DEF EditRow
<1>11. ASSUME NEW t \in Tasks, NEW k \in 1..(Len(table[t]) + 1), NEW s \in Tasks,
              NEW j \in 1..Len(table[s]), CopyRow(t, k, s, j)
       PROVE  TypeOK'
  <2>1. table[s][j] \in Row
    BY ElementOfSeq DEF TypeOK
  <2> QED
    BY <1>8, <1>11, <2>1, WithType DEF CopyRow, TypeOK
<1>12. CASE UNCHANGED vars
  BY <1>0, <1>12 DEF TypeOK, vars
<1> QED
  BY <1>1, <1>2, <1>3, <1>4, <1>5, <1>6, <1>7, <1>9, <1>10, <1>11, <1>12 DEF Next

\* The rows, calls and histories keep their types: an append only ever stores hashes that an
\* append computed, a reader only holds stored ones.
THEOREM ChainTypeCorrect == Spec => []TypeOK
<1>1. Init => TypeOK
  BY InitType
<1>2. TypeOK /\ [Next]_vars => TypeOK'
  BY StepType
<1> QED
  BY <1>1, <1>2, PTL DEF Spec

(***************************************************************************)
(* What a step can be, for the invariants that follow                      *)
(***************************************************************************)
Rewrites == \E t \in Tasks : \E rows \in Seq(Row) : Change(t, rows)

LEMMA StepCases ==
    ASSUME TypeOK, [Next]_vars
    PROVE  \/ \E t \in Tasks : InsertRow(t)
           \/ \E t \in Tasks, x \in Contents : ReadPrev(t, x)
           \/ \E t \in Tasks : InsertRaises(t)
           \/ \E u \in Readers, t \in Tasks : \E n \in {NoCount, Len(written[t])} : StartVerify(u, t, n)
           \/ \E u \in Readers : WalkRow(u)
           \/ \E u \in Readers : EndWalk(u)
           \/ \E u \in Readers : Return(u)
           \/ Rewrites
           \/ UNCHANGED vars
<1>1. ASSUME NEW t \in Tasks, NEW k \in 1..Len(table[t]), LoseRow(t, k) PROVE Rewrites
  BY <1>1, WithoutType DEF LoseRow, TypeOK, Rewrites
<1>2. ASSUME NEW t \in Tasks, NEW k \in 1..Len(table[t]), NEW x \in Contents,
             NEW prev \in Hashes, NEW hash \in Hashes, EditRow(t, k, x, prev, hash)
      PROVE  Rewrites
  <2>1. table[t] \in Seq(Row) /\ [content |-> x, prev |-> prev, hash |-> hash] \in Row
    BY DEF TypeOK, Row
  <2>2. [table[t] EXCEPT ![k] = [content |-> x, prev |-> prev, hash |-> hash]] \in Seq(Row)
    BY <2>1, ExceptSeq
  <2> QED
    BY <1>2, <2>2 DEF EditRow, Rewrites
<1>3. ASSUME NEW t \in Tasks, NEW k \in 1..(Len(table[t]) + 1), NEW s \in Tasks,
             NEW j \in 1..Len(table[s]), CopyRow(t, k, s, j)
      PROVE  Rewrites
  <2>1. table[s][j] \in Row
    BY ElementOfSeq DEF TypeOK
  <2> QED
    BY <1>3, <2>1, WithType DEF CopyRow, TypeOK, Rewrites
<1> QED
  BY <1>1, <1>2, <1>3 DEF Next

(***************************************************************************)
(* What is accepted has been hashed by an append                           *)
(***************************************************************************)
\* A computed hash ends in a body of the task it was computed for.
IssuedInv == \A t \in Tasks : \A h \in issued[t] : h # <<>> /\ h[Len(h)].task = t

\* The walk holds the hash that stands for the rows it has passed.
WalkInv ==
    \A u \in Readers : LET r == reader[u] IN
        r.at = "walk" => r.k <= Len(r.rows) + 1 /\ r.prev = History(r.task, r.rows, r.k - 1)

Own(t, h) == \A k \in 1..Len(h) : h[k].task = t

\* A hash made of bodies of one task was computed for that task.
LEMMA OwnHash ==
    ASSUME TypeOK, IssuedInv, NEW t \in Tasks, NEW h \in Hashes, Own(t, h)
    PROVE  h = Genesis \/ h \in issued[t]
<1>1. SUFFICES ASSUME NEW s \in Tasks, h \in issued[s] PROVE s = t
  BY DEF Hashes
<1>2. h \in Seq(Bodies) /\ h # <<>> /\ h[Len(h)].task = s
  BY <1>1 DEF IssuedInv, TypeOK
<1>3. Len(h) \in 1..Len(h)
  BY <1>2, EmptySeq
<1> QED
  BY <1>2, <1>3 DEF Own

\* The rows a reader holds have contents, and its history is one of its task.
LEMMA ReaderRows ==
    ASSUME TypeOK, NEW u \in Readers
    PROVE  /\ reader[u].task \in Tasks /\ Len(reader[u].rows) \in Nat
           /\ \A k \in 1..Len(reader[u].rows) : reader[u].rows[k] \in Row
           /\ \A n \in 0..Len(reader[u].rows) :
                /\ History(reader[u].task, reader[u].rows, n) \in Seq(Bodies)
                /\ Len(History(reader[u].task, reader[u].rows, n)) = n
                /\ Own(reader[u].task, History(reader[u].task, reader[u].rows, n))
<1> DEFINE r == reader[u]
<1>1. r.task \in Tasks /\ r.rows \in Seq(Row)
  BY DEF TypeOK, Calls
<1> HIDE DEF r
<1>2. Len(r.rows) \in Nat
  BY <1>1, LenProperties
<1>3. \A k \in 1..Len(r.rows) : r.rows[k] \in Row
  BY <1>1, ElementOfSeq
<1>4. ASSUME NEW n \in 0..Len(r.rows)
      PROVE  /\ History(r.task, r.rows, n) \in Seq(Bodies)
             /\ Len(History(r.task, r.rows, n)) = n
             /\ Own(r.task, History(r.task, r.rows, n))
  <2>1. \A k \in 1..n : Body(r.task, r.rows[k].content) \in Bodies
    BY <1>1, <1>2, <1>3 DEF Body, Bodies, Row
  <2>2. History(r.task, r.rows, n) \in Seq(Bodies) /\ Len(History(r.task, r.rows, n)) = n
    BY <2>1 DEF History
  <2> QED
    BY <2>2 DEF Own, History, Body
<1> QED
  BY <1>1, <1>2, <1>3, <1>4 DEF r

\* A row either moves the walk on or ends it with a rejection.
LEMMA RowMoves ==
    ASSUME TypeOK, NEW u \in Readers, WalkRow(u)
    PROVE  LET r == reader[u]
               n == reader'[u] IN
           /\ r.at = "walk" /\ r.k \in 1..Len(r.rows)
           /\ n.task = r.task /\ n.rows = r.rows /\ n.expected = r.expected /\ n.intact = r.intact
           /\ \/ /\ RowHolds(r.task, r.rows[r.k], r.prev)
                 /\ n.at = "walk" /\ n.k = r.k + 1 /\ n.prev = r.rows[r.k].hash
              \/ ~RowHolds(r.task, r.rows[r.k], r.prev) /\ n.at = "verified" /\ ~n.ok
           /\ \A v \in Readers : v # u => reader'[v] = reader[v]
<1> DEFINE r == reader[u]
           onward == [r EXCEPT !.k = r.k + 1, !.prev = r.rows[r.k].hash]
           rejected == [r EXCEPT !.at = "verified", !.ok = FALSE]
<1>1. r \in Calls /\ r.at = "walk" /\ r.k \in 1..Len(r.rows)
  BY ReaderRows DEF WalkRow, TypeOK, Calls
<1>2. r.rows[r.k].hash \in Hashes
  BY <1>1, ReaderRows DEF Row
<1>3. CASE RowHolds(r.task, r.rows[r.k], r.prev)
  <2>1. reader' = [reader EXCEPT ![u] = onward]
    BY <1>3 DEF WalkRow
  <2>2. /\ onward.at = r.at /\ onward.task = r.task /\ onward.rows = r.rows
        /\ onward.k = r.k + 1 /\ onward.prev = r.rows[r.k].hash
        /\ onward.expected = r.expected /\ onward.intact = r.intact
    <3> HIDE DEF r
    <3> QED
      BY <1>1, <1>2, WalkMoves
  <2> HIDE DEF onward
  <2>3. reader'[u] = onward /\ \A v \in Readers : v # u => reader'[v] = reader[v]
    BY <2>1, ReaderMoves
  <2> QED
    BY <1>1, <1>3, <2>2, <2>3
<1>4. CASE ~RowHolds(r.task, r.rows[r.k], r.prev)
  <2>1. reader' = [reader EXCEPT ![u] = rejected]
    BY <1>4 DEF WalkRow
  <2>2. /\ rejected.at = "verified" /\ ~rejected.ok /\ rejected.task = r.task
        /\ rejected.rows = r.rows /\ rejected.expected = r.expected /\ rejected.intact = r.intact
    <3> HIDE DEF r
    <3> QED
      BY <1>1, VerdictMoves
  <2> HIDE DEF rejected
  <2>3. reader'[u] = rejected /\ \A v \in Readers : v # u => reader'[v] = reader[v]
    BY <2>1, ReaderMoves
  <2> QED
    BY <1>1, <1>4, <2>2, <2>3
<1> QED
  BY <1>3, <1>4

\* At the end of the rows the count decides.
LEMMA EndMoves ==
    ASSUME TypeOK, NEW u \in Readers, EndWalk(u)
    PROVE  LET r == reader[u]
               n == reader'[u] IN
           /\ r.at = "walk" /\ r.k > Len(r.rows)
           /\ n.at = "verified" /\ n.ok = CountHolds(r.expected, Len(r.rows))
           /\ n.task = r.task /\ n.rows = r.rows /\ n.expected = r.expected /\ n.intact = r.intact
           /\ \A v \in Readers : v # u => reader'[v] = reader[v]
<1> DEFINE r == reader[u]
           b == CountHolds(r.expected, Len(r.rows))
           ended == [r EXCEPT !.at = "verified", !.ok = b]
<1>1. r \in Calls /\ b \in BOOLEAN
  BY DEF TypeOK, CountHolds
<1>2. reader' = [reader EXCEPT ![u] = ended]
  BY DEF EndWalk
<1>3. /\ ended.at = "verified" /\ ended.ok = b /\ ended.task = r.task /\ ended.rows = r.rows
      /\ ended.expected = r.expected /\ ended.intact = r.intact
  <2> HIDE DEF r, b
  <2> QED
    BY <1>1, VerdictMoves
<1>4. r.at = "walk" /\ r.k > Len(r.rows)
  BY DEF EndWalk
<1> HIDE DEF ended
<1>5. reader'[u] = ended /\ \A v \in Readers : v # u => reader'[v] = reader[v]
  BY <1>2, ReaderMoves
<1> QED
  BY <1>3, <1>4, <1>5

\* One row further, the walk still holds the hash of what it has passed.
LEMMA WalkStep ==
    ASSUME TypeOK, WalkInv, NEW u \in Readers, WalkRow(u)
    PROVE  WalkInv'
<1> DEFINE r == reader[u]
<1>1. r.at = "walk" /\ r.k \in 1..Len(r.rows) /\ r.prev = History(r.task, r.rows, r.k - 1)
  BY ReaderRows DEF WalkInv, WalkRow, TypeOK, Calls
<1>2. CASE RowHolds(r.task, r.rows[r.k], r.prev)
  <2>2. r.rows[r.k].hash = History(r.task, r.rows, r.k)
    <3>1. \A k \in 1..((r.k - 1) + 1) : r.rows[k].content \in Contents
      BY <1>1, ReaderRows DEF Row
    <3>2. r.task \in Tasks /\ r.k - 1 \in Nat /\ (r.k - 1) + 1 = r.k
      BY <1>1, ReaderRows
    <3> HIDE DEF r
    <3>3. Hash(History(r.task, r.rows, r.k - 1), Body(r.task, r.rows[(r.k - 1) + 1].content))
            = History(r.task, r.rows, (r.k - 1) + 1)
      BY <3>1, <3>2, HistoryGrows
    <3> QED
      BY <1>1, <1>2, <3>2, <3>3 DEF RowHolds
  <2>4. /\ reader'[u].task = r.task /\ reader'[u].rows = r.rows /\ reader'[u].k = r.k + 1
        /\ reader'[u].prev = r.rows[r.k].hash
        /\ \A v \in Readers : v # u => reader'[v] = reader[v]
    BY <1>2, RowMoves
  <2>5. Len(r.rows) \in Nat /\ (r.k + 1) - 1 = r.k
    BY <1>1, ReaderRows
  <2> QED
    <3>1. reader'[u].k <= Len(reader'[u].rows) + 1
      BY <1>1, <2>4, <2>5
    <3>2. reader'[u].prev = History(reader'[u].task, reader'[u].rows, reader'[u].k - 1)
      BY <2>2, <2>4, <2>5
    <3>3. \A v \in Readers : v # u => reader'[v] = reader[v]
      BY <2>4
    <3> HIDE DEF r
    <3> QED
      BY <3>1, <3>2, <3>3 DEF WalkInv
<1>3. CASE ~RowHolds(r.task, r.rows[r.k], r.prev)
  <2>1. reader'[u].at = "verified" /\ \A v \in Readers : v # u => reader'[v] = reader[v]
    BY <1>3, RowMoves
  <2> QED
    BY <2>1 DEF WalkInv
<1> QED
  BY <1>2, <1>3

\* The two invariants are inductive.
LEMMA WalkInductive ==
    ASSUME TypeOK, IssuedInv, WalkInv, [Next]_vars
    PROVE  IssuedInv' /\ WalkInv'
<1>1. ASSUME NEW t \in Tasks, InsertRow(t) PROVE IssuedInv' /\ WalkInv'
  <2> DEFINE h == Hash(writer[t].prev, Body(t, writer[t].content))
  <2>1. writer[t].prev \in Seq(Bodies) /\ Body(t, writer[t].content) \in Bodies
    BY HashesType DEF TypeOK, Body, Bodies
  <2>2. h # <<>> /\ h[Len(h)] = Body(t, writer[t].content)
    BY <2>1 DEF Hash
  <2>3. h[Len(h)].task = t
    BY <2>2 DEF Body
  <2>4. issued' = [issued EXCEPT ![t] = @ \cup {h}] /\ reader' = reader
    BY <1>1 DEF InsertRow
  <2> HIDE DEF h
  <2>5. IssuedInv'
    BY <2>2, <2>3, <2>4 DEF IssuedInv, TypeOK
  <2> QED
    BY <2>4, <2>5 DEF WalkInv
<1>2. ASSUME NEW u \in Readers, NEW t \in Tasks, NEW n \in {NoCount, Len(written[t])},
             StartVerify(u, t, n)
      PROVE  IssuedInv' /\ WalkInv'
  <2>1. /\ reader'[u].k = 1 /\ reader'[u].prev = Genesis /\ reader'[u].rows = table[t]
        /\ \A v \in Readers : v # u => reader'[v] = reader[v]
    BY <1>2, StartMoves
  <2>2. History(reader'[u].task, table[t], 0) = <<>>
    BY DEF History
  <2>3. Len(table[t]) \in Nat /\ 1 - 1 = 0
    BY LenProperties DEF TypeOK
  <2>4. WalkInv'
    BY <2>1, <2>2, <2>3 DEF WalkInv, Genesis
  <2> QED
    BY <1>2, <2>4 DEF StartVerify, IssuedInv
<1>3. ASSUME NEW u \in Readers, WalkRow(u) PROVE IssuedInv' /\ WalkInv'
  BY <1>3, WalkStep DEF IssuedInv, WalkRow
<1>4. ASSUME NEW u \in Readers, EndWalk(u) \/ Return(u) PROVE IssuedInv' /\ WalkInv'
  <2>1. reader'[u].at # "walk" /\ \A v \in Readers : v # u => reader'[v] = reader[v]
    <3>1. CASE EndWalk(u)
      BY <3>1, EndMoves
    <3>2. CASE Return(u)
      BY <3>2, ReaderMoves DEF Return, Reading
    <3> QED
      BY <1>4, <3>1, <3>2
  <2> QED
    BY <1>4, <2>1 DEF WalkInv, IssuedInv, EndWalk, Return
<1>5. CASE UNCHANGED <<reader, issued>>
  BY <1>5 DEF WalkInv, IssuedInv
<1> QED
  BY <1>1, <1>2, <1>3, <1>4, <1>5, StepCases
     DEF ReadPrev, InsertRaises, Rewrites, Change, vars

LEMMA WalkInit == Init => IssuedInv /\ WalkInv
<1>1. Init => IssuedInv
  BY DEF Init, IssuedInv
<1>2. Reading.at = "idle"
  BY DEF Reading
<1> QED
  BY <1>1, <1>2 DEF Init, WalkInv

\* A row alone never makes a chain accepted.
LEMMA WalkNotAccepted ==
    ASSUME TypeOK, NEW u \in Readers, WalkRow(u)
    PROVE  ~Accepted(reader'[u]) /\ \A v \in Readers : v # u => reader'[v] = reader[v]
  BY RowMoves DEF Accepted, Verified

\* A walk that ends accepts a hash of its task, which only an append of that task computes.
LEMMA GenuineStep ==
    ASSUME TypeOK, IssuedInv, WalkInv, AcceptedIsGenuine, [Next]_vars
    PROVE  AcceptedIsGenuine'
<1>1. ASSUME NEW u \in Readers, EndWalk(u) PROVE AcceptedIsGenuine'
  <2> DEFINE r == reader[u]
  <2>1. r.at = "walk" /\ r.k > Len(r.rows)
    BY <1>1 DEF EndWalk
  <2>2. r.k \in Nat /\ Len(r.rows) \in Nat
    BY ReaderRows DEF TypeOK, Calls
  <2>3. r.k - 1 = Len(r.rows) /\ r.prev = History(r.task, r.rows, r.k - 1)
    BY <2>1, <2>2 DEF WalkInv
  <2>4. r.prev \in Hashes
    BY DEF TypeOK, Calls
  <2>5. Own(r.task, r.prev) /\ r.task \in Tasks
    BY <2>2, <2>3, ReaderRows
  <2>6. History(r.task, r.rows, Len(r.rows)) \in issued[r.task] \cup {Genesis}
    <3> HIDE DEF r
    <3> QED
      BY <2>3, <2>4, <2>5, OwnHash
  <2>7. /\ reader'[u].task = r.task /\ reader'[u].rows = r.rows /\ issued' = issued
        /\ \A v \in Readers : v # u => reader'[v] = reader[v]
    BY <1>1, EndMoves DEF EndWalk
  <2> QED
    BY <2>6, <2>7 DEF AcceptedIsGenuine
<1>2. ASSUME NEW t \in Tasks, InsertRow(t) PROVE AcceptedIsGenuine'
  <2>1. reader' = reader /\ \A s \in Tasks : issued[s] \subseteq issued'[s]
    BY <1>2 DEF InsertRow, TypeOK
  <2>2. \A u \in Readers : reader[u].task \in Tasks
    BY DEF TypeOK, Calls
  <2> QED
    BY <2>1, <2>2 DEF AcceptedIsGenuine
<1>3. ASSUME NEW u \in Readers, ~Accepted(reader'[u]), issued' = issued,
             \A v \in Readers : v # u => reader'[v] = reader[v]
      PROVE  AcceptedIsGenuine'
  BY <1>3 DEF AcceptedIsGenuine
<1>4. ASSUME NEW u \in Readers, NEW t \in Tasks, NEW n \in {NoCount, Len(written[t])},
             StartVerify(u, t, n)
      PROVE  AcceptedIsGenuine'
  BY <1>3, <1>4, StartMoves DEF StartVerify, Accepted, Verified
<1>5. ASSUME NEW u \in Readers, WalkRow(u) PROVE AcceptedIsGenuine'
  BY <1>3, <1>5, WalkNotAccepted DEF WalkRow
<1>6. ASSUME NEW u \in Readers, Return(u) PROVE AcceptedIsGenuine'
  <2>1. Reading.at = "idle"
    BY DEF Reading
  <2> QED
    BY <1>3, <1>6, <2>1, ReaderMoves DEF Return, Accepted, Verified
<1>7. CASE UNCHANGED <<reader, issued>>
  BY <1>7 DEF AcceptedIsGenuine
<1> QED
  BY <1>1, <1>2, <1>4, <1>5, <1>6, <1>7, StepCases
     DEF ReadPrev, InsertRaises, Rewrites, Change, vars

\* Whatever happens to the stored rows, verify_chain accepts only a history that an append has
\* hashed.
THEOREM AcceptedChainsAreGenuine == Spec => []AcceptedIsGenuine
<1>1. Init => AcceptedIsGenuine
  BY DEF Init, AcceptedIsGenuine, Reading, Accepted, Verified
<1>2. TypeOK /\ IssuedInv /\ WalkInv /\ AcceptedIsGenuine /\ [Next]_vars
        => TypeOK' /\ IssuedInv' /\ WalkInv' /\ AcceptedIsGenuine'
  BY StepType, WalkInductive, GenuineStep
<1> QED
  BY <1>1, <1>2, InitType, WalkInit, PTL DEF Spec

(***************************************************************************)
(* A fresh count anchors the chain                                         *)
(***************************************************************************)
\* What a list of contents of one task stands for as a hash.
Told(t, cs) == [k \in 1..Len(cs) |-> Body(t, cs[k])]

\* A hash of a task is no longer than the list of its appends, and if it is as long it stands
\* for exactly that list: each append adds one body at most to the longest hash.
GrowthInv ==
    \A t \in Tasks : \A h \in issued[t] :
        Own(t, h) => Len(h) <= Len(written[t]) /\ (Len(h) = Len(written[t]) => h = Told(t, written[t]))

\* A hash as long as the count n stands for the first n appends.
Anchored(t, n, cs, h) == Own(t, h) /\ Len(h) = n => h = Told(t, SubSeq(cs, 1, n))

\* So do all hashes a call with a count can meet.
AnchoredCall(r, cs) ==
    r.expected # NoCount =>
        /\ r.expected \in Nat /\ r.expected <= Len(cs)
        /\ Anchored(r.task, r.expected, cs, r.prev)
        /\ \A k \in 1..Len(r.rows) : Anchored(r.task, r.expected, cs, r.rows[k].hash)

AnchorInv ==
    \A u \in Readers :
        reader[u].at # "idle" => AnchoredCall(reader[u], written[reader[u].task])

\* Told is a sequence of bodies, and one content more is one body more.
LEMMA ToldGrows ==
    ASSUME NEW t \in Tasks, NEW cs \in Seq(Contents), NEW x \in Contents
    PROVE  /\ Told(t, cs) \in Seq(Bodies) /\ Len(Told(t, cs)) = Len(cs)
           /\ Told(t, Append(cs, x)) = Append(Told(t, cs), Body(t, x))
<1>1. \A k \in 1..Len(cs) : Body(t, cs[k]) \in Bodies
  BY ElementOfSeq DEF Body, Bodies
<1>2. Len(cs) \in Nat
  BY LenProperties
<1>3. Told(t, cs) \in Seq(Bodies) /\ Len(Told(t, cs)) = Len(cs)
  BY <1>1, <1>2 DEF Told
<1>4. Append(cs, x) \in Seq(Contents) /\ Len(Append(cs, x)) = Len(cs) + 1
  OBVIOUS
<1>5. \A k \in 1..Len(Append(cs, x)) : Body(t, Append(cs, x)[k]) \in Bodies
  BY <1>4, ElementOfSeq DEF Body, Bodies
<1>6. Told(t, Append(cs, x)) \in Seq(Bodies) /\ Len(Told(t, Append(cs, x))) = Len(cs) + 1
  BY <1>2, <1>4, <1>5 DEF Told
<1>7. Body(t, x) \in Bodies
  BY DEF Body, Bodies
<1> DEFINE longer == Append(Told(t, cs), Body(t, x))
<1>8. longer \in Seq(Bodies) /\ Len(longer) = Len(cs) + 1
  BY <1>3, <1>7
<1>9. \A k \in 1..(Len(cs) + 1) : Told(t, Append(cs, x))[k] = longer[k]
  <2> TAKE k \in 1..(Len(cs) + 1)
  <2>1. Told(t, Append(cs, x))[k] = Body(t, Append(cs, x)[k])
    BY <1>4 DEF Told
  <2>2. CASE k \in 1..Len(cs)
    <3>1. Append(cs, x)[k] = cs[k]
      BY <1>2, <2>2
    <3>2. longer[k] = Told(t, cs)[k]
      BY <1>2, <1>3, <1>7, <2>2
    <3>3. Told(t, cs)[k] = Body(t, cs[k])
      BY <2>2 DEF Told
    <3> QED
      BY <2>1, <3>1, <3>2, <3>3
  <2>3. CASE k = Len(cs) + 1
    <3>1. Append(cs, x)[k] = x
      BY <1>2, <2>3
    <3>2. longer[k] = Body(t, x)
      BY <1>2, <1>3, <1>7, <2>3
    <3> QED
      BY <2>1, <3>1, <3>2
  <2>4. k \in 1..Len(cs) \/ k = Len(cs) + 1
    BY <1>2
  <2> HIDE DEF longer
  <2> QED
    BY <2>2, <2>3, <2>4
<1>10. Told(t, Append(cs, x)) = longer
  <2> HIDE DEF longer
  <2> QED
    BY <1>6, <1>8, <1>9, SeqEqual
<1> QED
  BY <1>3, <1>10

\* An append leaves the first contents as they were.
LEMMA PrefixStays ==
    ASSUME NEW cs \in Seq(Contents), NEW x \in Contents, NEW n \in Nat, n <= Len(cs)
    PROVE  SubSeq(Append(cs, x), 1, n) = SubSeq(cs, 1, n) /\ Len(Append(cs, x)) = Len(cs) + 1
<1>1. Len(cs) \in Nat /\ Append(cs, x) \in Seq(Contents) /\ Len(Append(cs, x)) = Len(cs) + 1
  BY LenProperties
<1>2. \A k \in 1..n : cs[k] \in Contents /\ Append(cs, x)[k] = cs[k]
  BY <1>1, ElementOfSeq
<1>3. /\ SubSeq(cs, 1, n) \in Seq(Contents)
      /\ Len(SubSeq(cs, 1, n)) = IF 1 <= n THEN n - 1 + 1 ELSE 0
      /\ \A k \in 1..(n - 1 + 1) : SubSeq(cs, 1, n)[k] = cs[1 + k - 1]
  BY <1>2, SubSeqProperties
<1>4. /\ SubSeq(Append(cs, x), 1, n) \in Seq(Contents)
      /\ Len(SubSeq(Append(cs, x), 1, n)) = IF 1 <= n THEN n - 1 + 1 ELSE 0
      /\ \A k \in 1..(n - 1 + 1) : SubSeq(Append(cs, x), 1, n)[k] = Append(cs, x)[1 + k - 1]
  BY <1>2, SubSeqProperties
<1>5. \A k \in 1..n : SubSeq(Append(cs, x), 1, n)[k] = SubSeq(cs, 1, n)[k]
  BY <1>2, <1>3, <1>4
<1>6. Len(SubSeq(cs, 1, n)) = n /\ Len(SubSeq(Append(cs, x), 1, n)) = n
  BY <1>3, <1>4
<1>7. SubSeq(Append(cs, x), 1, n) = SubSeq(cs, 1, n)
  BY <1>3, <1>4, <1>5, <1>6, SeqEqual
<1> QED
  BY <1>1, <1>7

LEMMA GrowthStep ==
    ASSUME TypeOK, IssuedInv, GrowthInv, NEW t \in Tasks, InsertRow(t)
    PROVE  GrowthInv'
<1> DEFINE prev == writer[t].prev
           x == writer[t].content
           h == Hash(prev, Body(t, x))
<1>1. prev \in Hashes /\ prev \in Seq(Bodies) /\ x \in Contents
  BY HashesType DEF TypeOK
<1>2. written[t] \in Seq(Contents) /\ Len(written[t]) \in Nat
  BY LenProperties DEF TypeOK
<1>3. issued' = [issued EXCEPT ![t] = @ \cup {h}] /\ written' = [written EXCEPT ![t] = Append(@, x)]
  BY DEF InsertRow
<1> HIDE DEF x, prev
<1>4. Len(Append(written[t], x)) = Len(written[t]) + 1
  BY <1>1, <1>2
<1>5. ASSUME Own(t, h)
      PROVE  /\ Len(h) <= Len(written[t]) + 1
             /\ Len(h) = Len(written[t]) + 1 => h = Told(t, Append(written[t], x))
  <2>1. Len(prev) \in Nat /\ Len(h) = Len(prev) + 1 /\ Own(t, prev)
    BY <1>1, <1>5 DEF Own, Hash
  <2>4. prev = Told(t, written[t]) => h = Told(t, Append(written[t], x))
    BY <1>1, <1>2, ToldGrows DEF Hash
  <2> HIDE DEF h
  <2>2. CASE prev = Genesis
    <3>1. Len(prev) = 0
      BY <2>2 DEF Genesis
    <3>2. Len(written[t]) = 0 => prev = Told(t, written[t])
      BY <2>2, <1>2 DEF Genesis, Told
    <3> QED
      BY <2>1, <2>4, <3>1, <3>2, <1>2
  <2>3. CASE prev \in issued[t]
    <3>1. Len(prev) <= Len(written[t]) /\ (Len(prev) = Len(written[t]) => prev = Told(t, written[t]))
      BY <2>1, <2>3 DEF GrowthInv
    <3> QED
      BY <2>1, <2>4, <3>1, <1>2
  <2> QED
    BY <1>1, <2>1, <2>2, <2>3, OwnHash
<1>6. ASSUME NEW g \in issued[t], Own(t, g)
      PROVE  Len(g) <= Len(written[t]) + 1 /\ Len(g) # Len(written[t]) + 1
  <2>1. g \in Seq(Bodies)
    BY DEF TypeOK
  <2> QED
    BY <1>2, <1>6, <2>1, LenProperties DEF GrowthInv
<1> HIDE DEF h
<1>7. \A g \in issued'[t] : Own(t, g) =>
          Len(g) <= Len(written'[t]) /\ (Len(g) = Len(written'[t]) => g = Told(t, written'[t]))
  <2>1. issued'[t] = issued[t] \cup {h} /\ written'[t] = Append(written[t], x)
    BY <1>3 DEF TypeOK
  <2> QED
    BY <1>4, <1>5, <1>6, <2>1
<1>8. \A s \in Tasks : s # t => issued'[s] = issued[s] /\ written'[s] = written[s]
  BY <1>3 DEF TypeOK
<1> QED
  BY <1>7, <1>8 DEF GrowthInv

\* A hash that is stored when a reader takes its rows is anchored by the count of that moment.
LEMMA AnchoredAtStart ==
    ASSUME TypeOK, IssuedInv, GrowthInv, NEW t \in Tasks, NEW h \in Hashes,
           Own(t, h), Len(h) = Len(written[t])
    PROVE  h = Told(t, SubSeq(written[t], 1, Len(written[t])))
<1>1. written[t] \in Seq(Contents)
  BY DEF TypeOK
<1>2. SubSeq(written[t], 1, Len(written[t])) = written[t]
  BY <1>1, SubSeqFull
<1>3. CASE h = Genesis
  BY <1>2, <1>3, EmptySeq DEF Genesis, Told
<1>4. CASE h \in issued[t]
  BY <1>2, <1>4 DEF GrowthInv
<1> QED
  BY <1>3, <1>4, OwnHash

LEMMA AnchorStep ==
    ASSUME TypeOK, IssuedInv, GrowthInv, AnchorInv, [Next]_vars
    PROVE  GrowthInv' /\ AnchorInv'
<1>1. ASSUME NEW t \in Tasks, InsertRow(t) PROVE AnchorInv'
  <2>1. reader' = reader /\ writer[t].content \in Contents
    BY <1>1 DEF InsertRow, TypeOK
  <2>2. ASSUME NEW u \in Readers, reader[u].at # "idle", reader[u].expected # NoCount
        PROVE  LET w == written[reader[u].task]
                   n == reader[u].expected IN
               n \in Nat /\ n <= Len(w) /\ n <= Len(written'[reader[u].task])
               /\ SubSeq(written'[reader[u].task], 1, n) = SubSeq(w, 1, n)
    <3> DEFINE s == reader[u].task
               n == reader[u].expected
    <3>1. s \in Tasks /\ written[s] \in Seq(Contents)
      BY DEF TypeOK, Calls
    <3>2. n \in Nat /\ n <= Len(written[s])
      BY <2>2 DEF AnchorInv, AnchoredCall
    <3>3. written'[s] = written[s] \/ written'[s] = Append(written[s], writer[t].content)
      BY <1>1, <3>1 DEF InsertRow, TypeOK
    <3> HIDE DEF s, n
    <3>4. n <= Len(written'[s]) /\ SubSeq(written'[s], 1, n) = SubSeq(written[s], 1, n)
      BY <2>1, <3>1, <3>2, <3>3, PrefixStays
    <3> QED
      BY <3>2, <3>4 DEF s, n
  <2>3. ASSUME NEW u \in Readers, reader[u].at # "idle"
        PROVE  AnchoredCall(reader[u], written'[reader[u].task])
    <3>1. AnchoredCall(reader[u], written[reader[u].task])
      BY <2>3 DEF AnchorInv
    <3> QED
      BY <2>2, <2>3, <3>1 DEF AnchoredCall, Anchored
  <2> QED
    BY <2>1, <2>3 DEF AnchorInv
<1>o. ASSUME NEW u \in Readers, AnchoredCall(reader'[u], written[reader'[u].task]), UNCHANGED written,
             \A v \in Readers : v # u => reader'[v] = reader[v]
      PROVE  AnchorInv'
  BY <1>o DEF AnchorInv
<1>2. ASSUME NEW u \in Readers, NEW t \in Tasks, NEW n \in {NoCount, Len(written[t])},
             StartVerify(u, t, n)
      PROVE  AnchorInv'
  <2>1. /\ reader'[u].task = t /\ reader'[u].expected = n /\ reader'[u].rows = table[t]
        /\ reader'[u].prev = Genesis /\ \A v \in Readers : v # u => reader'[v] = reader[v]
    BY <1>2, StartMoves
  <2>2. UNCHANGED written
    BY <1>2 DEF StartVerify
  <2>3. Genesis \in Hashes /\ \A k \in 1..Len(table[t]) : table[t][k].hash \in Hashes
    <3>1. table[t] \in Seq(Row)
      BY DEF TypeOK
    <3>2. \A k \in 1..Len(table[t]) : table[t][k] \in Row
      BY <3>1, ElementOfSeq
    <3> QED
      BY <3>2, HashesType DEF Row
  <2>4. ASSUME n # NoCount, NEW h \in Hashes PROVE Anchored(t, n, written[t], h)
    BY <2>4, AnchoredAtStart DEF Anchored
  <2>5. n # NoCount => n \in Nat /\ n <= Len(written[t])
    BY LenProperties DEF TypeOK
  <2>6. AnchoredCall(reader'[u], written[reader'[u].task])
    BY <2>1, <2>3, <2>4, <2>5 DEF AnchoredCall
  <2> QED
    BY <1>o, <2>1, <2>2, <2>6
<1>3. ASSUME NEW u \in Readers, WalkRow(u) PROVE AnchorInv'
  <2> DEFINE r == reader[u]
  <2>1. /\ r.at = "walk" /\ r.k \in 1..Len(r.rows)
        /\ reader'[u].task = r.task /\ reader'[u].rows = r.rows /\ reader'[u].expected = r.expected
        /\ \A v \in Readers : v # u => reader'[v] = reader[v]
    BY <1>3, RowMoves
  <2>2. reader'[u].prev = r.rows[r.k].hash \/ reader'[u].prev = r.prev
    <3>1. CASE RowHolds(r.task, r.rows[r.k], r.prev)
      BY <1>3, <3>1, RowMoves
    <3>2. CASE ~RowHolds(r.task, r.rows[r.k], r.prev)
      <4>1. reader' = [reader EXCEPT ![u] = [r EXCEPT !.at = "verified", !.ok = FALSE]]
        BY <1>3, <3>2 DEF WalkRow
      <4>2. reader'[u] = [r EXCEPT !.at = "verified", !.ok = FALSE] /\ r \in Calls
        BY <4>1, ReaderMoves DEF TypeOK
      <4> QED
        BY <4>2 DEF Calls
    <3> QED
      BY <3>1, <3>2
  <2>3. UNCHANGED written
    BY <1>3 DEF WalkRow
  <2>4. AnchoredCall(r, written[r.task])
    BY <2>1 DEF AnchorInv
  <2> HIDE DEF r
  <2>5. AnchoredCall(reader'[u], written[reader'[u].task])
    BY <2>1, <2>2, <2>4 DEF AnchoredCall
  <2> QED
    BY <1>o, <2>1, <2>3, <2>5
<1>4. ASSUME NEW u \in Readers, EndWalk(u) PROVE AnchorInv'
  <2> DEFINE r == reader[u]
  <2>1. r.at = "walk" /\ UNCHANGED written
    BY <1>4 DEF EndWalk
  <2>2. reader' = [reader EXCEPT ![u] = [r EXCEPT !.at = "verified", !.ok = CountHolds(r.expected, Len(r.rows))]]
    BY <1>4 DEF EndWalk
  <2>3. /\ reader'[u] = [r EXCEPT !.at = "verified", !.ok = CountHolds(r.expected, Len(r.rows))]
        /\ \A v \in Readers : v # u => reader'[v] = reader[v]
    BY <2>2, ReaderMoves
  <2>4. r \in Calls
    BY DEF TypeOK
  <2>5. /\ reader'[u].task = r.task /\ reader'[u].rows = r.rows /\ reader'[u].expected = r.expected
        /\ reader'[u].prev = r.prev
    BY <2>3, <2>4 DEF Calls
  <2>6. AnchoredCall(r, written[r.task])
    BY <2>1 DEF AnchorInv
  <2> HIDE DEF r
  <2>7. AnchoredCall(reader'[u], written[reader'[u].task])
    BY <2>5, <2>6 DEF AnchoredCall
  <2> QED
    BY <1>o, <2>1, <2>3, <2>7
<1>5. ASSUME NEW u \in Readers, Return(u) PROVE AnchorInv'
  <2>1. reader'[u].at = "idle" /\ written' = written /\ \A v \in Readers : v # u => reader'[v] = reader[v]
    BY <1>5, ReaderMoves DEF Return, Reading
  <2> QED
    BY <2>1 DEF AnchorInv
<1>6. CASE UNCHANGED <<reader, written, issued>>
  BY <1>6 DEF GrowthInv, AnchorInv
<1>7. ASSUME UNCHANGED <<written, issued>> PROVE GrowthInv'
  BY <1>7 DEF GrowthInv
<1> QED
  BY <1>1, <1>2, <1>3, <1>4, <1>5, <1>6, <1>7, StepCases, GrowthStep
     DEF ReadPrev, InsertRaises, Rewrites, Change, vars, StartVerify, WalkRow, EndWalk, Return

\* A walk that ends with as many rows as its count holds the hash of the first appends.
LEMMA CountStep ==
    ASSUME TypeOK, WalkInv, AnchorInv, CountAnchorsChain, [Next]_vars
    PROVE  CountAnchorsChain'
<1>1. ASSUME NEW u \in Readers, EndWalk(u) PROVE CountAnchorsChain'
  <2> DEFINE r == reader[u]
             n == Len(r.rows)
             w == written[r.task]
  <2>1. /\ r.at = "walk" /\ r.k > n /\ reader'[u].ok = CountHolds(r.expected, n)
        /\ reader'[u].task = r.task /\ reader'[u].rows = r.rows /\ reader'[u].expected = r.expected
        /\ \A v \in Readers : v # u => reader'[v] = reader[v]
    BY <1>1, EndMoves
  <2>2. UNCHANGED written
    BY <1>1 DEF EndWalk
  <2>3. r.k \in Nat /\ n \in Nat /\ r.task \in Tasks /\ w \in Seq(Contents)
    BY ReaderRows DEF TypeOK, Calls
  <2>4. r.prev = History(r.task, r.rows, n)
    <3>1. r.k - 1 = n /\ r.prev = History(r.task, r.rows, r.k - 1)
      BY <2>1, <2>3 DEF WalkInv
    <3> QED
      BY <3>1
  <2>5. ASSUME CountHolds(r.expected, n), r.expected # NoCount
        PROVE  Texts(r.rows) = SubSeq(w, 1, r.expected)
    <3>1. r.expected = n /\ n <= Len(w) /\ Anchored(r.task, n, w, r.prev)
      BY <2>1, <2>5 DEF AnchorInv, AnchoredCall, CountHolds
    <3>2. Own(r.task, r.prev) /\ Len(r.prev) = n
      BY <2>3, <2>4, ReaderRows
    <3>3. History(r.task, r.rows, n) = Told(r.task, SubSeq(w, 1, n))
      BY <2>4, <3>1, <3>2 DEF Anchored
    <3>4. \A k \in 1..n : w[k] \in Contents
      BY <2>3, <3>1, ElementOfSeq, LenProperties
    <3> HIDE DEF w
    <3>5. SubSeq(w, 1, n) \in Seq(Contents) /\ Len(SubSeq(w, 1, n)) = n
      BY <2>3, <3>4, SubSeqProperties
    <3>6. \A k \in 1..n : r.rows[k].content \in Contents
      BY ReaderRows DEF Row
    <3> HIDE DEF n, r
    <3>7. Texts(r.rows) \in Seq(Contents) /\ Len(Texts(r.rows)) = n
      BY <2>3, <3>6 DEF Texts, n
    <3>8. \A k \in 1..n : Texts(r.rows)[k] = SubSeq(w, 1, n)[k]
      <4> TAKE k \in 1..n
      <4>1. History(r.task, r.rows, n)[k] = Body(r.task, r.rows[k].content)
        BY DEF History
      <4>2. Told(r.task, SubSeq(w, 1, n))[k] = Body(r.task, SubSeq(w, 1, n)[k])
        BY <3>5 DEF Told
      <4>3. r.rows[k].content = SubSeq(w, 1, n)[k]
        <5>1. Body(r.task, r.rows[k].content) = Body(r.task, SubSeq(w, 1, n)[k])
          BY <3>3, <4>1, <4>2
        <5> QED
          BY <5>1 DEF Body
      <4> QED
        BY <4>3 DEF Texts, n
    <3> QED
      BY <3>1, <3>5, <3>7, <3>8, SeqEqual
  <2>6. Accepted(reader'[u]) /\ reader'[u].expected # NoCount
          => Texts(reader'[u].rows) = SubSeq(written[reader'[u].task], 1, reader'[u].expected)
    <3> HIDE DEF r
    <3> QED
      BY <2>1, <2>5 DEF Accepted, w
  <2> QED
    BY <2>1, <2>2, <2>6 DEF CountAnchorsChain
<1>2. ASSUME NEW t \in Tasks, InsertRow(t) PROVE CountAnchorsChain'
  <2>1. reader' = reader /\ writer[t].content \in Contents
    BY <1>2 DEF InsertRow, TypeOK
  <2>2. ASSUME NEW u \in Readers, Accepted(reader[u]), reader[u].expected # NoCount
        PROVE  SubSeq(written'[reader[u].task], 1, reader[u].expected)
                 = SubSeq(written[reader[u].task], 1, reader[u].expected)
    <3> DEFINE s == reader[u].task
               n == reader[u].expected
    <3>1. s \in Tasks /\ written[s] \in Seq(Contents)
      BY DEF TypeOK, Calls
    <3>2. n \in Nat /\ n <= Len(written[s])
      BY <2>2 DEF AnchorInv, AnchoredCall, Accepted, Verified
    <3>3. written'[s] = written[s] \/ written'[s] = Append(written[s], writer[t].content)
      BY <1>2, <3>1 DEF InsertRow, TypeOK
    <3> HIDE DEF s, n
    <3>4. SubSeq(written'[s], 1, n) = SubSeq(written[s], 1, n)
      BY <2>1, <3>1, <3>2, <3>3, PrefixStays
    <3> QED
      BY <3>4 DEF s, n
  <2> QED
    BY <2>1, <2>2 DEF CountAnchorsChain
<1>3. ASSUME NEW u \in Readers, ~Accepted(reader'[u]), UNCHANGED written,
             \A v \in Readers : v # u => reader'[v] = reader[v]
      PROVE  CountAnchorsChain'
  BY <1>3 DEF CountAnchorsChain
<1>4. ASSUME NEW u \in Readers, NEW t \in Tasks, NEW n \in {NoCount, Len(written[t])},
             StartVerify(u, t, n)
      PROVE  CountAnchorsChain'
  BY <1>3, <1>4, StartMoves DEF StartVerify, Accepted, Verified
<1>5. ASSUME NEW u \in Readers, WalkRow(u) PROVE CountAnchorsChain'
  BY <1>3, <1>5, WalkNotAccepted DEF WalkRow
<1>6. ASSUME NEW u \in Readers, Return(u) PROVE CountAnchorsChain'
  <2>1. Reading.at = "idle"
    BY DEF Reading
  <2> QED
    BY <1>3, <1>6, <2>1, ReaderMoves DEF Return, Accepted, Verified
<1>7. CASE UNCHANGED <<reader, written>>
  BY <1>7 DEF CountAnchorsChain
<1> QED
  BY <1>1, <1>2, <1>4, <1>5, <1>6, <1>7, StepCases
     DEF ReadPrev, InsertRaises, Rewrites, Change, vars

\* With the number of rows appended so far as expected_count, verify_chain accepts exactly what
\* was appended.
THEOREM FreshCountAnchors == Spec => []CountAnchorsChain
<1>1. Init => GrowthInv /\ AnchorInv /\ CountAnchorsChain
  <2>1. Reading.at = "idle"
    BY DEF Reading
  <2> QED
    BY <2>1 DEF Init, GrowthInv, AnchorInv, CountAnchorsChain, Accepted, Verified
<1>2. TypeOK /\ IssuedInv /\ WalkInv /\ GrowthInv /\ AnchorInv /\ CountAnchorsChain /\ [Next]_vars
        => TypeOK' /\ IssuedInv' /\ WalkInv' /\ GrowthInv' /\ AnchorInv' /\ CountAnchorsChain'
  BY StepType, WalkInductive, AnchorStep, CountStep
<1> QED
  BY <1>1, <1>2, InitType, WalkInit, PTL DEF Spec

(***************************************************************************)
(* An undamaged chain verifies                                             *)
(***************************************************************************)
\* Every row carries the hash of the rows before it and its own.
Chained(t, rows) ==
    \A k \in 1..Len(rows) :
        rows[k].prev = History(t, rows, k - 1) /\ rows[k].hash = History(t, rows, k)

\* The rows of a task that nobody changed are chained, and so is the row about to be added.
TableInv ==
    \A t \in Tasks \ damaged :
        /\ Chained(t, table[t]) /\ Len(table[t]) = Len(written[t])
        /\ writer[t].at = "insert" => writer[t].prev = History(t, table[t], Len(table[t]))

IntactInv ==
    \A u \in Readers : LET r == reader[u] IN
        r.at = "walk" /\ r.intact =>
            Chained(r.task, r.rows) /\ r.expected \in {NoCount, Len(r.rows)}

\* A row that carries the right hashes is a row the verification accepts.
LEMMA ChainedRowHolds ==
    ASSUME NEW t \in Tasks, NEW rows, NEW k \in 1..Len(rows), Len(rows) \in Nat,
           \A j \in 1..Len(rows) : rows[j].content \in Contents, Chained(t, rows)
    PROVE  RowHolds(t, rows[k], History(t, rows, k - 1))
<1>1. k - 1 \in Nat /\ (k - 1) + 1 = k
  OBVIOUS
<1>2. Hash(History(t, rows, k - 1), Body(t, rows[(k - 1) + 1].content)) = History(t, rows, (k - 1) + 1)
  BY <1>1, HistoryGrows
<1>3. rows[k].prev = History(t, rows, k - 1) /\ rows[k].hash = History(t, rows, k)
  BY DEF Chained
<1> QED
  BY <1>1, <1>2, <1>3 DEF RowHolds

\* The row an append adds is chained to the rows that are there.
LEMMA ChainedAppend ==
    ASSUME NEW t \in Tasks, NEW rows \in Seq(Row), Chained(t, rows), NEW x \in Contents,
           NEW row, row = [content |-> x, prev |-> History(t, rows, Len(rows)),
                           hash |-> Hash(History(t, rows, Len(rows)), Body(t, x))]
    PROVE  Chained(t, Append(rows, row)) /\ Len(Append(rows, row)) = Len(rows) + 1
<1> DEFINE more == Append(rows, row)
           n == Len(rows)
<1>1. n \in Nat /\ \A k \in 1..n : rows[k].content \in Contents
  <2>1. n \in Nat /\ \A k \in 1..n : rows[k] \in Row
    BY LenProperties, ElementOfSeq
  <2> QED
    BY <2>1 DEF Row
<1>2. Len(more) = n + 1 /\ more[n + 1] = row /\ \A k \in 1..n : more[k] = rows[k]
  BY <1>1
<1> HIDE DEF more
<1>3. \A k \in 0..n : History(t, more, k) = History(t, rows, k)
  BY <1>1, <1>2 DEF History
<1>4. \A k \in 1..(n + 1) : more[k].content \in Contents
  BY <1>1, <1>2
<1>5. Hash(History(t, more, n), Body(t, more[n + 1].content)) = History(t, more, n + 1)
  BY <1>1, <1>4, HistoryGrows
<1>6. ASSUME NEW k \in 1..(n + 1)
      PROVE  more[k].prev = History(t, more, k - 1) /\ more[k].hash = History(t, more, k)
  <2>1. CASE k \in 1..n
    <3>1. k - 1 \in 0..n /\ k \in 0..n
      BY <1>1, <2>1
    <3> QED
      BY <1>2, <1>3, <2>1, <3>1 DEF Chained
  <2>2. CASE k = n + 1
    <3>1. more[k].prev = History(t, rows, n) /\ more[k].content = x
          /\ more[k].hash = Hash(History(t, rows, n), Body(t, x))
      BY <1>2, <2>2
    <3>2. n \in 0..n /\ k - 1 = n
      BY <1>1, <2>2
    <3>3. History(t, more, n) = History(t, rows, n)
      BY <1>3, <3>2
    <3>4. more[n + 1].content = x
      BY <2>2, <3>1
    <3> HIDE DEF n
    <3> QED
      BY <1>5, <2>2, <3>1, <3>2, <3>3, <3>4
  <2> QED
    BY <1>1, <2>1, <2>2
<1> QED
  BY <1>2, <1>6 DEF Chained, more

LEMMA TableStep ==
    ASSUME TypeOK, TableInv, [Next]_vars
    PROVE  TableInv'
<1>1. ASSUME NEW t \in Tasks, InsertRow(t) PROVE TableInv'
  <2> DEFINE x == writer[t].content
             row == [content |-> x, prev |-> writer[t].prev, hash |-> Hash(writer[t].prev, Body(t, x))]
  <2>1. /\ writer[t].at = "insert" /\ x \in Contents /\ table[t] \in Seq(Row)
        /\ written[t] \in Seq(Contents)
    BY <1>1 DEF InsertRow, TypeOK
  <2>2. table'[t] = Append(table[t], row) /\ written'[t] = Append(written[t], x)
    BY <1>1 DEF InsertRow, TypeOK
  <2>3. writer'[t].at = "idle"
    BY <1>1 DEF InsertRow, TypeOK, Resting
  <2>4. \A s \in Tasks : s # t => table'[s] = table[s] /\ written'[s] = written[s] /\ writer'[s] = writer[s]
    BY <1>1 DEF InsertRow, TypeOK
  <2>5. damaged' = damaged
    BY <1>1 DEF InsertRow
  <2>6. ASSUME t \notin damaged PROVE Chained(t, table'[t]) /\ Len(table'[t]) = Len(written'[t])
    <3>1. /\ Chained(t, table[t]) /\ Len(table[t]) = Len(written[t])
          /\ writer[t].prev = History(t, table[t], Len(table[t]))
      BY <2>1, <2>6 DEF TableInv
    <3>2. row = [content |-> x, prev |-> History(t, table[t], Len(table[t])),
                 hash |-> Hash(History(t, table[t], Len(table[t])), Body(t, x))]
      BY <3>1
    <3> HIDE DEF row, x
    <3>3. Chained(t, Append(table[t], row)) /\ Len(Append(table[t], row)) = Len(table[t]) + 1
      BY <2>1, <3>1, <3>2, ChainedAppend
    <3>4. Len(Append(written[t], x)) = Len(written[t]) + 1
      BY <2>1
    <3> QED
      BY <2>2, <3>1, <3>3, <3>4
  <2> QED
    BY <2>3, <2>4, <2>5, <2>6 DEF TableInv
<1>2. ASSUME NEW t \in Tasks, NEW x \in Contents, ReadPrev(t, x) PROVE TableInv'
  <2>1. UNCHANGED <<table, damaged, written>>
    BY <1>2 DEF ReadPrev
  <2>2. writer'[t].prev = PrevHash(t) /\ \A s \in Tasks : s # t => writer'[s] = writer[s]
    BY <1>2 DEF ReadPrev, TypeOK
  <2>3. ASSUME t \notin damaged PROVE PrevHash(t) = History(t, table[t], Len(table[t]))
    <3>1. table[t] \in Seq(Row) /\ Chained(t, table[t])
      BY <2>3 DEF TableInv, TypeOK
    <3>2. CASE table[t] = <<>>
      BY <3>2 DEF PrevHash, History, Genesis
    <3>3. CASE table[t] # <<>>
      <4>1. Len(table[t]) \in 1..Len(table[t])
        BY <3>1, <3>3, EmptySeq
      <4> QED
        BY <3>1, <3>3, <4>1 DEF PrevHash, Chained
    <3> QED
      BY <3>2, <3>3
  <2> QED
    BY <2>1, <2>2, <2>3 DEF TableInv
<1>3. ASSUME NEW t \in Tasks, InsertRaises(t) PROVE TableInv'
  <2>1. writer'[t].at = "idle" /\ \A s \in Tasks : s # t => writer'[s] = writer[s]
    BY <1>3 DEF InsertRaises, TypeOK, Resting
  <2> QED
    BY <1>3, <2>1 DEF TableInv, InsertRaises
<1>4. ASSUME NEW t \in Tasks, NEW rows \in Seq(Row), Change(t, rows) PROVE TableInv'
  <2>1. /\ damaged' = damaged \cup {t} /\ UNCHANGED <<writer, written>>
        /\ \A s \in Tasks : s # t => table'[s] = table[s]
    BY <1>4 DEF Change, TypeOK
  <2> QED
    BY <2>1 DEF TableInv
<1>5. CASE UNCHANGED <<table, writer, damaged, written>>
  BY <1>5 DEF TableInv
<1> QED
  BY <1>1, <1>2, <1>3, <1>4, <1>5, StepCases
     DEF StartVerify, WalkRow, EndWalk, Return, Rewrites, vars

LEMMA IntactStep ==
    ASSUME TypeOK, WalkInv, TableInv, IntactInv, IntactChainVerifies, [Next]_vars
    PROVE  IntactInv' /\ IntactChainVerifies'
<1>1. ASSUME NEW u \in Readers, NEW t \in Tasks, NEW n \in {NoCount, Len(written[t])},
             StartVerify(u, t, n)
      PROVE  IntactInv' /\ IntactChainVerifies'
  <2>1. /\ reader'[u].at = "walk" /\ reader'[u].task = t /\ reader'[u].expected = n
        /\ reader'[u].rows = table[t] /\ reader'[u].intact = (t \notin damaged)
        /\ \A v \in Readers : v # u => reader'[v] = reader[v]
    BY <1>1, StartMoves
  <2>2. t \notin damaged => Chained(t, table[t]) /\ Len(table[t]) = Len(written[t])
    BY DEF TableInv
  <2> QED
    BY <2>1, <2>2 DEF IntactInv, IntactChainVerifies, Verified
<1>2. ASSUME NEW u \in Readers, WalkRow(u) PROVE IntactInv' /\ IntactChainVerifies'
  <2> DEFINE r == reader[u]
  <2>1. r.at = "walk" /\ r.k \in 1..Len(r.rows) /\ r.task \in Tasks /\ Len(r.rows) \in Nat
    BY <1>2, RowMoves, ReaderRows
  <2>2. r.intact => RowHolds(r.task, r.rows[r.k], r.prev)
    <3>1. SUFFICES ASSUME r.intact PROVE RowHolds(r.task, r.rows[r.k], r.prev)
      OBVIOUS
    <3>2. Chained(r.task, r.rows) /\ r.prev = History(r.task, r.rows, r.k - 1)
      BY <2>1, <3>1 DEF IntactInv, WalkInv
    <3>3. \A j \in 1..Len(r.rows) : r.rows[j].content \in Contents
      BY ReaderRows DEF Row
    <3> HIDE DEF r
    <3> QED
      BY <2>1, <3>2, <3>3, ChainedRowHolds
  <2>3. /\ reader'[u].task = r.task /\ reader'[u].rows = r.rows /\ reader'[u].intact = r.intact
        /\ reader'[u].expected = r.expected
        /\ RowHolds(r.task, r.rows[r.k], r.prev) => reader'[u].at = "walk"
        /\ \A v \in Readers : v # u => reader'[v] = reader[v]
    BY <1>2, RowMoves
  <2>4. r.intact => Chained(r.task, r.rows) /\ r.expected \in {NoCount, Len(r.rows)}
    BY <2>1 DEF IntactInv
  <2> HIDE DEF r
  <2> QED
    BY <2>2, <2>3, <2>4 DEF IntactInv, IntactChainVerifies, Verified
<1>3. ASSUME NEW u \in Readers, EndWalk(u) PROVE IntactInv' /\ IntactChainVerifies'
  <2> DEFINE r == reader[u]
  <2>1. /\ r.at = "walk" /\ reader'[u].at = "verified" /\ reader'[u].intact = r.intact
        /\ reader'[u].ok = CountHolds(r.expected, Len(r.rows))
        /\ \A v \in Readers : v # u => reader'[v] = reader[v]
    BY <1>3, EndMoves
  <2>2. r.intact => CountHolds(r.expected, Len(r.rows))
    BY <2>1 DEF IntactInv, CountHolds
  <2> HIDE DEF r
  <2> QED
    BY <2>1, <2>2 DEF IntactInv, IntactChainVerifies, Verified
<1>4. ASSUME NEW u \in Readers, Return(u) PROVE IntactInv' /\ IntactChainVerifies'
  <2>1. reader'[u].at = "idle" /\ \A v \in Readers : v # u => reader'[v] = reader[v]
    BY <1>4, ReaderMoves DEF Return, Reading
  <2> QED
    BY <2>1 DEF IntactInv, IntactChainVerifies, Verified
<1>5. CASE UNCHANGED reader
  BY <1>5 DEF IntactInv, IntactChainVerifies
<1> QED
  BY <1>1, <1>2, <1>3, <1>4, <1>5, StepCases
     DEF InsertRow, ReadPrev, InsertRaises, Rewrites, Change, vars

\* While nobody changes the stored rows of a task, its chain verifies, with and without its
\* count, however the appends of this task and of others interleave with the verification.
THEOREM IntactChainsVerify == Spec => []IntactChainVerifies
<1>1. Init => TableInv /\ IntactInv /\ IntactChainVerifies
  <2>1. Reading.at = "idle" /\ Resting.at = "idle"
    BY DEF Reading, Resting
  <2>2. \A t \in Tasks : Chained(t, <<>>)
    BY DEF Chained
  <2> QED
    BY <2>1, <2>2 DEF Init, TableInv, IntactInv, IntactChainVerifies, Verified
<1>2. TypeOK /\ IssuedInv /\ WalkInv /\ TableInv /\ IntactInv /\ IntactChainVerifies /\ [Next]_vars
        => TypeOK' /\ IssuedInv' /\ WalkInv' /\ TableInv' /\ IntactInv' /\ IntactChainVerifies'
  BY StepType, WalkInductive, TableStep, IntactStep
<1> QED
  BY <1>1, <1>2, InitType, WalkInit, PTL DEF Spec
=============================================================================
