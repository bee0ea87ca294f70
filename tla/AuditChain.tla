----------------------------- MODULE AuditChain -----------------------------
(***************************************************************************)
(* The hash chain over the audit_events of each task.  The run thread of a *)
(* task appends: it reads the hash of the newest row of the task, and      *)
(* inserts a row that carries it and its own hash.  verify_chain walks one *)
(* result of a SELECT row by row; get_audit calls it without a count.      *)
(* Stored rows may be lost, edited or copied to another place or task.     *)
(* Every query names its task, so the rows of each task are kept apart.    *)
(*                                                                         *)
(* SHA-256 is taken as injective: the hash of a row is the sequence of the *)
(* bodies hashed into it, GENESIS is the empty sequence.  A body is its    *)
(* task and its content: the step, type, time and the redacted payload.    *)
(***************************************************************************)
EXTENDS Naturals, Sequences

CONSTANTS
    Tasks, Contents, Readers,
    MaxAppends,   \* the appends of each task
    MaxDamage,    \* changes made to stored rows
    NoCount       \* no expected_count

ASSUME ChainAssumption ==
    /\ Tasks # {} /\ Contents # {}
    /\ MaxAppends \in [Tasks -> Nat] /\ MaxDamage \in Nat /\ NoCount \notin Nat

VARIABLES
    table,    \* the rows of each task in the order of event_id
    writer,   \* the append each run thread is in
    reader,   \* the verify_chain each reader is in
    damage,   \* the changes made so far
    damaged,  \* history: the tasks some row of which was changed
    written,  \* history: the contents appended to each task
    issued    \* history: the hashes append has computed for each task

vars == <<table, writer, reader, damage, damaged, written, issued>>

Genesis == <<>>
Bodies == [task : Tasks, content : Contents]
Body(t, c) == [task |-> t, content |-> c]
Hash(prev, body) == Append(prev, body)
Hashes == {Genesis} \cup UNION {issued[t] : t \in Tasks}

Resting == [at |-> "idle", prev |-> Genesis, content |-> CHOOSE c \in Contents : TRUE]
Reading == [at |-> "idle", task |-> CHOOSE t \in Tasks : TRUE, expected |-> NoCount,
            rows |-> <<>>, k |-> 1, prev |-> Genesis, ok |-> TRUE, intact |-> TRUE]

Init ==
    /\ table = [t \in Tasks |-> <<>>]
    /\ writer = [t \in Tasks |-> Resting]
    /\ reader = [u \in Readers |-> Reading]
    /\ damage = 0 /\ damaged = {}
    /\ written = [t \in Tasks |-> <<>>]
    /\ issued = [t \in Tasks |-> {}]

(***************************************************************************)
(* append                                                                  *)
(***************************************************************************)
\* Mutant: the query forgets DESC.
PrevHash_Oldest(t) == IF table[t] = <<>> THEN Genesis ELSE table[t][1].hash

\* _prev_hash
PrevHash(t) == IF table[t] = <<>> THEN Genesis ELSE table[t][Len(table[t])].hash

ReadPrev(t, c) ==
    /\ writer[t].at = "idle" /\ Len(written[t]) < MaxAppends[t]
    /\ writer' = [writer EXCEPT ![t] = [at |-> "insert", prev |-> PrevHash(t), content |-> c]]
    /\ UNCHANGED <<table, reader, damage, damaged, written, issued>>

InsertRow(t) ==
    LET w == writer[t]
        hash == Hash(w.prev, Body(t, w.content))
    IN /\ w.at = "insert"
       /\ table' = [table EXCEPT ![t] = Append(@, [content |-> w.content, prev |-> w.prev,
                                                  hash |-> hash])]
       /\ written' = [written EXCEPT ![t] = Append(@, w.content)]
       /\ issued' = [issued EXCEPT ![t] = @ \cup {hash}]
       /\ writer' = [writer EXCEPT ![t] = Resting]
       /\ UNCHANGED <<reader, damage, damaged>>

\* The insert raises, and the next append of the run begins anew; or the process dies and
\* there is no next one.
InsertRaises(t) ==
    /\ writer[t].at = "insert"
    /\ writer' = [writer EXCEPT ![t] = Resting]
    /\ UNCHANGED <<table, reader, damage, damaged, written, issued>>

(***************************************************************************)
(* verify_chain                                                            *)
(***************************************************************************)
\* The SELECT sees the rows that are committed when it starts.  A caller that gives a count
\* gives the number of rows appended so far.
StartVerify(u, t, n) ==
    /\ reader[u].at = "idle"
    /\ reader' = [reader EXCEPT ![u] = [Reading EXCEPT !.at = "walk", !.task = t,
                     !.expected = n, !.rows = table[t], !.intact = t \notin damaged]]
    /\ UNCHANGED <<table, writer, damage, damaged, written, issued>>

\* Mutant: only the links are compared, the body is not hashed again.
RowHolds_LinksOnly(t, row, prev) == row.prev = prev

RowHolds(t, row, prev) == row.prev = prev /\ row.hash = Hash(prev, Body(t, row.content))

WalkRow(u) ==
    LET r == reader[u] IN
    /\ r.at = "walk" /\ r.k <= Len(r.rows)
    /\ IF RowHolds(r.task, r.rows[r.k], r.prev)
       THEN reader' = [reader EXCEPT ![u] = [r EXCEPT !.k = r.k + 1, !.prev = r.rows[r.k].hash]]
       ELSE reader' = [reader EXCEPT ![u] = [r EXCEPT !.at = "verified", !.ok = FALSE]]
    /\ UNCHANGED <<table, writer, damage, damaged, written, issued>>

\* Mutant: the count is not compared.
CountHolds_Ignored(n, walked) == TRUE

CountHolds(n, walked) == n = NoCount \/ n = walked

EndWalk(u) ==
    LET r == reader[u] IN
    /\ r.at = "walk" /\ r.k > Len(r.rows)
    /\ reader' = [reader EXCEPT ![u] = [r EXCEPT !.at = "verified",
                                             !.ok = CountHolds(r.expected, Len(r.rows))]]
    /\ UNCHANGED <<table, writer, damage, damaged, written, issued>>

Return(u) ==
    /\ reader[u].at = "verified"
    /\ reader' = [reader EXCEPT ![u] = Reading]
    /\ UNCHANGED <<table, writer, damage, damaged, written, issued>>

(***************************************************************************)
(* Damage to the stored rows                                               *)
(***************************************************************************)
Change(t, rows) ==
    /\ damage < MaxDamage /\ damage' = damage + 1
    /\ table' = [table EXCEPT ![t] = rows]
    /\ damaged' = damaged \cup {t}
    /\ UNCHANGED <<writer, reader, written, issued>>

Without(rows, k) == SubSeq(rows, 1, k - 1) \o SubSeq(rows, k + 1, Len(rows))
With(rows, k, row) == SubSeq(rows, 1, k - 1) \o <<row>> \o SubSeq(rows, k, Len(rows))

LoseRow(t, k) == Change(t, Without(table[t], k))

\* Columns of a row are overwritten, the hash columns with hashes that were once computed.
EditRow(t, k, c, prev, hash) ==
    /\ Change(t, [table[t] EXCEPT ![k] = [content |-> c, prev |-> prev, hash |-> hash]])

\* A row of any task is copied into the rows of this one.
CopyRow(t, k, s, j) ==
    /\ Change(t, With(table[t], k, table[s][j]))

Next ==
    \/ \E t \in Tasks :
         \/ \E c \in Contents : ReadPrev(t, c)
         \/ InsertRow(t) \/ InsertRaises(t)
    \/ \E u \in Readers :
         \/ \E t \in Tasks : \E n \in {NoCount, Len(written[t])} : StartVerify(u, t, n)
         \/ WalkRow(u) \/ EndWalk(u) \/ Return(u)
    \/ \E t \in Tasks :
         \/ \E k \in 1..Len(table[t]) : LoseRow(t, k)
         \/ \E k \in 1..Len(table[t]), c \in Contents, prev \in Hashes, hash \in Hashes :
               EditRow(t, k, c, prev, hash)
         \/ \E k \in 1..(Len(table[t]) + 1), s \in Tasks : \E j \in 1..Len(table[s]) : CopyRow(t, k, s, j)

Spec == Init /\ [][Next]_vars

(***************************************************************************)
(* Properties                                                              *)
(***************************************************************************)
Row == [content : Contents, prev : Hashes, hash : Hashes]
Calls == [at : {"idle", "walk", "verified"}, task : Tasks, expected : Nat \cup {NoCount},
          rows : Seq(Row), k : Nat \ {0}, prev : Hashes, ok : BOOLEAN, intact : BOOLEAN]

\* The rows, calls and histories have their types; every hash that is stored, or held by an
\* append or a reader, is GENESIS or one that an append computed.
TypeOK ==
    /\ table \in [Tasks -> Seq(Row)]
    /\ writer \in [Tasks -> [at : {"idle", "insert"}, prev : Hashes, content : Contents]]
    /\ reader \in [Readers -> Calls]
    /\ damage \in Nat /\ damaged \subseteq Tasks
    /\ written \in [Tasks -> Seq(Contents)]
    /\ issued \in [Tasks -> SUBSET Seq(Bodies)]

Verified(r) == r.at = "verified"
Accepted(r) == Verified(r) /\ r.ok

\* The first n rows, as what their hash stands for.
History(t, rows, n) == [k \in 1..n |-> Body(t, rows[k].content)]
Texts(rows) == [k \in 1..Len(rows) |-> rows[k].content]

\* The chain of a task whose rows were not changed verifies, with and without its count,
\* while the threads of this task and of others append: an append reads and inserts in two
\* statements, and the reader sees the rows of one moment.
IntactChainVerifies ==
    \A u \in Readers : Verified(reader[u]) /\ reader[u].intact => reader[u].ok

\* What verify_chain accepts is a history some append has hashed: no row of it was edited,
\* reordered, taken from another task or left out before a row that was appended on top.
AcceptedIsGenuine ==
    \A u \in Readers : LET r == reader[u] IN
        Accepted(r) => History(r.task, r.rows, Len(r.rows)) \in issued[r.task] \cup {Genesis}

\* With the number of rows appended so far as expected_count, what is accepted is exactly
\* what was appended: the loss of trailing rows is reported too, and so is a loss that later
\* appends have covered.
CountAnchorsChain ==
    \A u \in Readers : LET r == reader[u] IN
        Accepted(r) /\ r.expected # NoCount
            => Texts(r.rows) = SubSeq(written[r.task], 1, r.expected)
=============================================================================
