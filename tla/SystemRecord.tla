---------------------------- MODULE SystemRecord -----------------------------
(***************************************************************************)
(* The system-record database as PostgresActivityStorageAdapter uses it    *)
(* (activity/storage.py, alembic/versions).                                *)
(*                                                                         *)
(* Every write of the adapter is one statement run by itself in its own    *)
(* transaction,                                                            *)
(*   INSERT ... ON CONFLICT (key) DO UPDATE SET key = key WHERE same       *)
(* so a statement here is a table and a row, and executing it either adds  *)
(* the row or leaves the database alone.                                   *)
(*                                                                         *)
(* A definition marked "fault variant" is a defect the code could have; no *)
(* specification uses it (see README.md, Mutants).                         *)
(***************************************************************************)
EXTENDS ActivityChain, FiniteSets

CONSTANT LegacyRows   \* activity rows written before revision 0003 (unchained)

VARIABLES
    db,           \* the rows of each table
    append_only   \* revision 0004 (reject-mutation triggers) is installed

dbVars == <<db, append_only>>

RelatedTables ==
    {"activity_evidence_links", "activity_snapshots", "activity_diffs",
     "retention_applications", "purge_tombstones"}

\* retention_policies is left out: the recorder never writes it.
Tables ==
    RelatedTables \cup {"interaction_records", "activity_records",
                        "system_record_write_failures"}

-----------------------------------------------------------------------------
(***************************************************************************)
(* Rows.  `refs' are the foreign keys, as pairs of a table and a key.      *)
(***************************************************************************)
plain_row(key, compare, refs) ==
    [key |-> key, compare |-> compare, refs |-> refs,
     chain_key |-> None, chain_seq |-> 0,
     prev_record_hash |-> None, record_hash |-> None]

chained_rows(chain_key) ==
    {r \in db["activity_records"] :
        r.chain_seq # 0 /\ r.chain_key = chain_key}

\* No row reads as position 0.
NoHead == [chain_seq |-> 0, record_hash |-> None]

\* SELECT ... ORDER BY chain_seq DESC LIMIT 1.
chain_head_row(chain_key) ==
    CHOOSE r \in chained_rows(chain_key) :
        \A s \in chained_rows(chain_key) : s.chain_seq <= r.chain_seq

get_activity_chain_head(chain_key) ==
    IF chained_rows(chain_key) = {}
    THEN NoHead
    ELSE [chain_seq   |-> chain_head_row(chain_key).chain_seq,
          record_hash |-> chain_head_row(chain_key).record_hash]

\* ORDER BY chain_seq ASC, of rows with a chain_seq.
in_chain_order(rows) ==
    LET rank(r) == Cardinality({s \in rows : s.chain_seq <= r.chain_seq})
    IN  [i \in 1 .. Cardinality(rows) |-> CHOOSE r \in rows : rank(r) = i]

\* SELECT ... WHERE chain_seq IS NOT NULL.
select_chain(chain_key) == in_chain_order(chained_rows(chain_key))

-----------------------------------------------------------------------------
(***************************************************************************)
(* One statement.                                                          *)
(***************************************************************************)
key_taken(stmt)  == \E r \in db[stmt.table] : r.key = stmt.row.key

\* Fault variant of same_row: DO UPDATE without its WHERE.
same_key_only(stmt) == key_taken(stmt)

same_row(stmt) ==
    \E r \in db[stmt.table] :
        r.key = stmt.row.key /\ r.compare = stmt.row.compare

\* Fault variant of chain_seq_taken: revision 0003 without its unique index.
chain_seq_unguarded(stmt) == FALSE

\* The partial unique index of revision 0003 on (chain_key, chain_seq).
chain_seq_taken(stmt) ==
    /\ stmt.row.chain_seq # 0
    /\ \E r \in db[stmt.table] : /\ r.chain_key = stmt.row.chain_key
                                 /\ r.chain_seq = stmt.row.chain_seq

dangling_reference(stmt) ==
    \E ref \in stmt.row.refs : ~ \E r \in db[ref[1]] : r.key = ref[2]

(***************************************************************************)
(* What the database answers.  On a conflict whose WHERE holds, the        *)
(* self-assigning UPDATE runs, and the BEFORE UPDATE trigger of revision   *)
(* 0004 raises; when the WHERE does not hold no row is updated ("INSERT 0  *)
(* 0"), and the adapter raises ActivityStorageConflictError.               *)
(***************************************************************************)
outcome(stmt) ==
    IF same_row(stmt)
    THEN IF append_only THEN "mutation_rejected" ELSE "unchanged"
    ELSE IF key_taken(stmt) THEN "conflict"
    ELSE IF chain_seq_taken(stmt) THEN "unique_violation"
    ELSE IF dangling_reference(stmt) THEN "foreign_key_violation"
    ELSE "created"

\* The outcomes for which _insert returns a StorageWriteResult.
is_written(answer) == answer \in {"created", "unchanged"}

\* Fault variant of execute: DO UPDATE SET overwrites the chain columns.
execute_overwriting(stmt) ==
    db' = CASE outcome(stmt) = "created" ->
                  [db EXCEPT ![stmt.table] = @ \cup {stmt.row}]
            [] outcome(stmt) = "unchanged" ->
                  [db EXCEPT ![stmt.table] =
                      {r \in @ : r.key # stmt.row.key} \cup {stmt.row}]
            [] OTHER -> db

execute(stmt) ==
    db' = IF outcome(stmt) = "created"
          THEN [db EXCEPT ![stmt.table] = @ \cup {stmt.row}]
          ELSE db

-----------------------------------------------------------------------------
\* alembic upgrade 0003 or head, then the services start.
InitSystemRecord ==
    /\ db = [t \in Tables |-> IF t = "activity_records" THEN LegacyRows ELSE {}]
    /\ append_only \in BOOLEAN

\* alembic upgrade from 0003 to 0004, while services keep writing.  What it also
\* does, revoking UPDATE and DELETE from the role that migrates, is left out: the
\* role of the services is one that keeps UPDATE, and the trigger stops every role.
InstallAppendOnly ==
    /\ ~append_only
    /\ append_only' = TRUE
    /\ db' = db
=============================================================================
