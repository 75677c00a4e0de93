--------------------------- MODULE ComplianceExport ---------------------------
(***************************************************************************)
(* Signed compliance exports (activity/export.py) built while the services *)
(* of ActivityRecorder keep writing, and their verification by an auditor. *)
(*                                                                         *)
(* An export awaits three reads, each a statement of its own: the records  *)
(* of the window, the whole chain, and the number of failure rows.  The    *)
(* database changes between them.  A retention job that uses the bypass of *)
(* revision 0004 may delete activity rows; the repository does not contain *)
(* it, and it is modelled by the one thing it can do to a chain.           *)
(*                                                                         *)
(* A signature is the key that made it: the export of this module is the   *)
(* one that was signed, field for field.                                   *)
(***************************************************************************)
EXTENDS ActivityRecorder

CONSTANTS
    Exports,          \* the exports that are asked for
    ExportRequests,   \* the ways of giving each export its arguments
    OccurredAt,       \* the occurred_at of each content an activity may have
    MaxPurges         \* bound on the rows the retention job deletes

VARIABLES
    wanted,   \* the arguments of each export
    export,   \* the local state of each export
    purged    \* the activity rows the retention job has deleted

exportVars == <<wanted, export, purged>>

allVars == <<vars, exportVars>>

-----------------------------------------------------------------------------
(***************************************************************************)
(* The arguments of build_signed_compliance_export.  since and until are   *)
(* times or None; signing_key is the key that resolves, None if no secret  *)
(* holds one.                                                              *)
(***************************************************************************)
\* Fault variant of export_chain_key: a project-less export has no chain.
export_chain_key_of_project(w) == w.project_id

export_chain_key(w) == chain_key_for_project(w.project_id)

\* Fault variant of can_sign: an export without a key goes ahead unsigned.
can_sign_regardless(w) == TRUE

can_sign(w) == w.signing_key # None

whole_chain(w) == w.since = None /\ w.until = None

in_window(w, row) ==
    /\ w.since = None \/ OccurredAt[row.compare.content] >= w.since
    /\ w.until = None \/ OccurredAt[row.compare.content] <= w.until

\* Fault variant of fetch_activity_records_for_export: ORDER BY occurred_at.
fetch_in_time_order(w) ==
    LET rows   == {r \in chained_rows(export_chain_key(w)) : in_window(w, r)}
        time(r) == <<OccurredAt[r.compare.content], r.chain_seq>>
        before(r, s) == \/ time(r)[1] < time(s)[1]
                        \/ time(r)[1] = time(s)[1] /\ time(r)[2] <= time(s)[2]
    IN  [i \in 1 .. Cardinality(rows) |->
            CHOOSE r \in rows : Cardinality({s \in rows : before(s, r)}) = i]

fetch_activity_records_for_export(w) ==
    in_chain_order({r \in chained_rows(export_chain_key(w)) : in_window(w, r)})

verify_activity_chain(chain) ==
    verify_activity_chain_rows(select_chain(chain), chain)

count_system_record_write_failures(project_id) ==
    Cardinality({f \in db["system_record_write_failures"] :
                    f.compare.project_id = project_id})

\* Fault variant of next_read: the records are read after the chain.
next_read_verification_first(pc) ==
    CASE pc = "begin"        -> "verification"
      [] pc = "verification" -> "records"
      [] pc = "records"      -> "failures"
      [] pc = "failures"     -> "signed"

next_read(pc) ==
    CASE pc = "begin"        -> "records"
      [] pc = "records"      -> "verification"
      [] pc = "verification" -> "failures"
      [] pc = "failures"     -> "signed"

-----------------------------------------------------------------------------
(***************************************************************************)
(* What had been promised to callers when an export began: the activities  *)
(* of its chain and window some call had been told are recorded, and the   *)
(* failure rows of its project some call had been told are visible.        *)
(* History only.                                                           *)
(***************************************************************************)
accepted_before(w) ==
    {request[c].activity_id :
        c \in {d \in AcceptedActivities :
                 /\ chain_key(request[d]) = chain_key_for_project(w.project_id)
                 /\ in_window(w, [compare |-> activity_fields(request[d])])}}

failures_before(w) ==
    {c \in Calls : /\ call[c].failure_visible
                   /\ request[c].interaction.project_id = w.project_id}

Waiting == [pc |-> "idle", records |-> <<>>, chain_verification |-> None,
            dead_lettered_count |-> 0, due |-> {}, due_failures |-> {},
            signature |-> None]

-----------------------------------------------------------------------------
(***************************************************************************)
(* Actions.                                                                *)
(***************************************************************************)
BecomeExport(e, s) == export' = [export EXCEPT ![e] = s]

\* The key is resolved before anything is read: no key, no export.
BeginExport(e) ==
    /\ export[e].pc = "idle"
    /\ BecomeExport(e,
          IF can_sign(wanted[e])
          THEN [export[e] EXCEPT !.pc           = next_read("begin"),
                                 !.due          = accepted_before(wanted[e]),
                                 !.due_failures = failures_before(wanted[e])]
          ELSE [export[e] EXCEPT !.pc = "refused"])
    /\ UNCHANGED <<vars, wanted, purged>>

FetchRecords(e) ==
    /\ export[e].pc = "records"
    /\ BecomeExport(e, [export[e] EXCEPT
          !.pc      = next_read("records"),
          !.records = fetch_activity_records_for_export(wanted[e])])
    /\ UNCHANGED <<vars, wanted, purged>>

VerifyChain(e) ==
    /\ export[e].pc = "verification"
    /\ BecomeExport(e, [export[e] EXCEPT
          !.pc = next_read("verification"),
          !.chain_verification = verify_activity_chain(export_chain_key(wanted[e]))])
    /\ UNCHANGED <<vars, wanted, purged>>

\* The last read; the package is assembled and signed without another await.
CountFailures(e) ==
    /\ export[e].pc = "failures"
    /\ BecomeExport(e, [export[e] EXCEPT
          !.pc = next_read("failures"),
          !.dead_lettered_count =
              count_system_record_write_failures(wanted[e].project_id),
          !.signature = wanted[e].signing_key])
    /\ UNCHANGED <<vars, wanted, purged>>

\* An error of any read is the caller's: nothing is signed.
LoseExport(e) ==
    /\ export[e].pc \in {"records", "verification", "failures"}
    /\ BecomeExport(e, [export[e] EXCEPT !.pc = "raised"])
    /\ UNCHANGED <<vars, wanted, purged>>

referenced(row) ==
    \E t \in Tables : \E r \in db[t] :
        <<"activity_records", row.key>> \in r.refs

\* DELETE of an activity row in retention mode; foreign keys still hold.
Purge(row) ==
    /\ Cardinality(purged) < MaxPurges
    /\ ~referenced(row)
    /\ db' = [db EXCEPT !["activity_records"] = @ \ {row}]
    /\ purged' = purged \cup {row}
    /\ UNCHANGED <<append_only, request, call, orphans, wanted, export>>

RecorderStep == Next /\ UNCHANGED exportVars

ExportInit ==
    /\ Init
    /\ wanted \in ExportRequests
    /\ export = [e \in Exports |-> Waiting]
    /\ purged = {}

ExportNext ==
    \/ RecorderStep
    \/ \E e \in Exports : BeginExport(e)
    \/ \E e \in Exports : FetchRecords(e)
    \/ \E e \in Exports : VerifyChain(e)
    \/ \E e \in Exports : CountFailures(e)
    \/ \E e \in Exports : LoseExport(e)
    \/ \E row \in AllChained : Purge(row)

ExportSpec == ExportInit /\ [][ExportNext]_allVars

-----------------------------------------------------------------------------
(***************************************************************************)
(* verify_signed_compliance_export.  trusted_public_key is the key the     *)
(* auditor has from elsewhere, None without one; the verdict on the chain  *)
(* is recomputed from the records of the package.                          *)
(***************************************************************************)
verify_signed_compliance_export(e, trusted_public_key) ==
    LET public_key == IF trusted_public_key = None
                      THEN wanted[e].signing_key ELSE trusted_public_key
        recomputed_chain ==
            verify_activity_chain_rows(export[e].records,
                                       export_chain_key(wanted[e]))
        signature_valid == export[e].signature = public_key
    IN  [signature_valid |-> signature_valid,
         chain_valid     |-> recomputed_chain.valid,
         overall_pass    |-> /\ signature_valid
                             /\ recomputed_chain.valid
                             /\ trusted_public_key # None]

-----------------------------------------------------------------------------
(***************************************************************************)
(* Safety.                                                                 *)
(***************************************************************************)
ExportPcs == {"idle", "records", "verification", "failures", "signed",
              "refused", "raised"}

\* The shape of every export, beside the recorder's own type invariant: only
\* a signed package carries a signature, and it carries a verdict on the chain.
ExportTypeOK ==
    /\ TypeOK
    /\ wanted \in ExportRequests
    /\ \A r \in purged :
          StatementTypeOK([table |-> "activity_records", row |-> r])
    /\ \A e \in Exports :
          /\ export[e].pc \in ExportPcs
          /\ export[e].dead_lettered_count \in Nat
          /\ export[e].pc = "signed" <=> export[e].signature # None
          /\ export[e].pc = "signed" => export[e].chain_verification.valid \in BOOLEAN

Signed(e) == export[e].pc = "signed"

AllUtc(records) ==
    \A i \in DOMAIN records : records[i].record_hash.payload.utc_offset = 0

\* A package of a whole chain passes verification under the platform's key,
\* whatever was written while it was built, unless a record of it was hashed
\* with a non-UTC time or the retention job has deleted a row.
WholeChainExportVerifies ==
    \A e \in Exports :
        Signed(e) /\ whole_chain(wanted[e]) /\ purged = {} =>
            (verify_signed_compliance_export(e, wanted[e].signing_key).overall_pass
                <=> AllUtc(export[e].records))

\* The two statements a package makes of its chain fit together although they
\* were read at different times: the verification covers every record in the
\* package, and if it was good the package's own records verify too.
PackageCoherent ==
    \A e \in Exports : Signed(e) /\ whole_chain(wanted[e]) /\ purged = {} =>
        LET stated == export[e].chain_verification
        IN  stated.valid =>
              /\ Len(export[e].records) <= stated.records_checked
              /\ verify_activity_chain_rows(
                    export[e].records, export_chain_key(wanted[e])).valid

RecordIds(e) == {export[e].records[i].key : i \in DOMAIN export[e].records}

\* A package is complete as of the moment it was asked for: it has every
\* activity of the chain and window that a caller had been told is recorded,
\* and counts every failure of the project a caller had been told is visible.
\* Rows older than the chain and rows deleted since are not in it.
CompleteAsOfStart ==
    \A e \in Exports : Signed(e) =>
        /\ export[e].due \subseteq
              RecordIds(e) \cup {r.key : r \in LegacyRows \cup purged}
        /\ Cardinality(export[e].due_failures) <= export[e].dead_lettered_count

\* A deleted row is noticed as long as the row that followed it survives: the
\* chain no longer verifies.  (A deleted last row leaves no trace.)
SurvivorRevealsDeletion ==
    \A p \in purged \ db["activity_records"] : \A r \in AllChained :
        /\ r.chain_key = p.chain_key
        /\ r.chain_seq = p.chain_seq + 1
        /\ r.prev_record_hash = p.record_hash
        => ~verify_activity_chain(p.chain_key).valid

\* What export.py says of every package: it can be verified independently.
EveryExportVerifies ==
    \A e \in Exports :
        Signed(e) /\ purged = {} /\ AllUtc(export[e].records)
            => verify_signed_compliance_export(
                  e, wanted[e].signing_key).overall_pass
=============================================================================
