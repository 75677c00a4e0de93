---------------------------- MODULE ActivityChain ----------------------------
(***************************************************************************)
(* The hash chain over activity_records (activity/chain.py).               *)
(*                                                                         *)
(* A row of the system-record database carries its idempotency key, the    *)
(* columns a repeated write is compared on, and four chain columns.        *)
(* SHA-256 is taken to be collision free, so a digest is the value that    *)
(* was hashed.  A chain_seq of 0 stands for a NULL chain_seq.              *)
(***************************************************************************)
EXTENDS Integers, Sequences

CONSTANT None   \* Python's None, SQL's NULL

GlobalChainKey == "global"

\* A record without a project scope belongs to the platform-wide chain.
chain_key_for_project(project_id) ==
    IF project_id = None THEN GlobalChainKey ELSE project_id

(***************************************************************************)
(* What is hashed of a record: its identity, its content and the text of   *)
(* its occurred_at.  isoformat() writes the UTC offset the datetime        *)
(* carries, so two datetimes of one instant but different offsets have     *)
(* different digests.                                                      *)
(***************************************************************************)
canonical_payload(activity_id, fields, utc_offset) ==
    [activity_id |-> activity_id, fields |-> fields, utc_offset |-> utc_offset]

compute_activity_record_hash(payload, chain_key, chain_seq, prev_record_hash) ==
    [payload          |-> payload,
     chain_key        |-> chain_key,
     chain_seq        |-> chain_seq,
     prev_record_hash |-> prev_record_hash]

\* A timestamptz column keeps the instant and is read back in UTC.
payload_read_back(row) == canonical_payload(row.key, row.compare, 0)

-----------------------------------------------------------------------------
(***************************************************************************)
(* verify_activity_chain_rows.  The walk stops at the first bad row, so    *)
(* when it reaches row i every earlier row was good: expected_seq is i and *)
(* prev_hash is the record_hash of row i - 1.                              *)
(***************************************************************************)
\* Fault variant of prev_hash: the walk forgets to carry the hash forward.
prev_hash_not_carried(rows, i) == None

prev_hash(rows, i) == IF i = 1 THEN None ELSE rows[i - 1].record_hash

recomputed(rows, chain_key, i) ==
    compute_activity_record_hash(payload_read_back(rows[i]), chain_key,
                                 rows[i].chain_seq, prev_hash(rows, i))

\* Fault variant of row_fault: each row is checked against its own columns only.
row_fault_unlinked(rows, chain_key, i) ==
    IF compute_activity_record_hash(payload_read_back(rows[i]), chain_key,
            rows[i].chain_seq, rows[i].prev_record_hash) # rows[i].record_hash
    THEN "hash_mismatch"
    ELSE "none"

row_fault(rows, chain_key, i) ==
    IF rows[i].chain_seq # i
    THEN "sequence_gap"
    ELSE IF rows[i].prev_record_hash # prev_hash(rows, i)
    THEN "prev_hash_mismatch"
    ELSE IF recomputed(rows, chain_key, i) # rows[i].record_hash
    THEN "hash_mismatch"
    ELSE "none"

faulty_rows(rows, chain_key) ==
    {i \in DOMAIN rows : row_fault(rows, chain_key, i) # "none"}

verify_activity_chain_rows(rows, chain_key) ==
    LET faulty == faulty_rows(rows, chain_key)
        first  == CHOOSE i \in faulty : \A j \in faulty : i <= j
    IN  IF faulty = {}
        THEN [valid |-> TRUE, records_checked |-> Len(rows),
              broken_at_seq |-> None, reason |-> "none"]
        ELSE [valid |-> FALSE, records_checked |-> first - 1,
              broken_at_seq |-> rows[first].chain_seq,
              reason |-> row_fault(rows, chain_key, first)]
=============================================================================
