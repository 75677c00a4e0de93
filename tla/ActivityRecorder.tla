--------------------------- MODULE ActivityRecorder ---------------------------
(***************************************************************************)
(* Concurrent calls of ActivityRecorder (activity/recorder.py) against one *)
(* system-record database.                                                 *)
(*                                                                         *)
(* A call is a coroutine: between two awaits of the storage adapter        *)
(* nothing else of that call happens, so a call is a small state machine   *)
(* with one state per awaited statement.  While a call awaits, other calls *)
(* run, in this process or in another service that shares the database.    *)
(*                                                                         *)
(* An awaited write ends in one of two ways: the database executes it and  *)
(* the answer arrives (Write...), or the caller sees a timeout or a        *)
(* connection error (Lose).  A lost statement may have reached the server: *)
(* it stays among the orphans, from where it may execute at any later time *)
(* or never.  A crash of the process is a call that takes no further step. *)
(***************************************************************************)
EXTENDS SystemRecord

CONSTANTS
    Calls,         \* the calls of the recorder's operations
    Workload,      \* the ways of giving each call its arguments
    MaxAttempts    \* ActivityRecorder(max_attempts=...)

VARIABLES
    request,       \* the arguments of each call
    call,          \* the local state of each call
    orphans        \* statements whose caller has stopped waiting for them

vars == <<db, append_only, request, call, orphans>>

-----------------------------------------------------------------------------
(***************************************************************************)
(* The arguments of a call.  `interaction' is the interaction context in   *)
(* force, its id None when there is none; `related' are the evidence refs, *)
(* then the snapshots, then the diffs of the package, or the one row of    *)
(* record_snapshot, record_diff, record_retention_application or           *)
(* record_purge_tombstone (api "record_related").  A call is admissible    *)
(* when the checks made before the first await accept it; a related item   *)
(* is safe when building its row raises nothing.  An item id of None is a  *)
(* snapshot or diff whose caller supplies no id.                           *)
(***************************************************************************)
Apis == {"record_activity", "record_critical_activity",
         "record_interaction", "record_related"}

ActivityApis == {"record_activity", "record_critical_activity"}

\* The operations that await _write_activity_with_retry or
\* _write_interaction_with_retry and swallow the last error.
RetryingApis == {"record_activity", "record_interaction"}

RequestFields == {"api", "admissible", "activity_id", "content", "utc_offset",
                  "interaction", "related"}

ItemFields == {"table", "id", "payload", "safe"}

package_size(r) == Len(r.related)

IsRequest(r) ==
    /\ DOMAIN r = RequestFields
    /\ r.api \in Apis
    /\ r.admissible \in BOOLEAN
    /\ DOMAIN r.interaction = {"id", "project_id", "payload"}
    /\ DOMAIN r.related = 1 .. package_size(r)
    /\ package_size(r) \in Nat
    /\ \A i \in 1 .. package_size(r) :
          /\ DOMAIN r.related[i] = ItemFields
          /\ r.related[i].table \in RelatedTables
          /\ r.related[i].safe \in BOOLEAN
    /\ r.api = "record_related" => package_size(r) = 1
    /\ r.api = "record_interaction" => package_size(r) = 0

ASSUME MaxAttemptsAssumption == MaxAttempts \in Nat \ {0}

ASSUME WorkloadAssumption ==
    \A w \in Workload : DOMAIN w = Calls /\ \A c \in Calls : IsRequest(w[c])

\* Rows that predate chaining: NULL chain columns, one per activity_id.
ASSUME LegacyAssumption ==
    /\ \A r \in LegacyRows : r = plain_row(r.key, r.compare, r.refs)
    /\ \A r, s \in LegacyRows : r.key = s.key => r = s

-----------------------------------------------------------------------------
(***************************************************************************)
(* The state of a call.  `pc' names what it awaits.                        *)
(***************************************************************************)
Steps == {"idle", "interaction", "chain_head", "activity", "related",
          "visibility", "done"}

Statuses == {"none", "accepted", "failed", "raised"}

Phases == {"none", "interaction_create", "interaction_ensure",
           "activity_write", "package_write"}

IdleCall == [pc |-> "idle", attempt |-> 0, item |-> 0, head |-> NoHead,
             status |-> "none", error |-> "none", phase |-> "none",
             failure_visible |-> FALSE]

has_interaction(r) == r.interaction.id # None

\* The activity belongs to the interaction's project; a call made outside any
\* interaction has no project and lands on the global chain.
chain_key(r) == chain_key_for_project(r.interaction.project_id)

\* Fault variant of first_step: no _ensure_activity_interaction.
first_step_unensured(r) ==
    CASE r.api = "record_related"     -> "related"
      [] r.api = "record_interaction" -> "interaction"
      [] r.api \in ActivityApis       -> "chain_head"

first_step(r) ==
    CASE r.api = "record_related"     -> "related"
      [] r.api = "record_interaction" -> "interaction"
      [] r.api \in ActivityApis       ->
            IF has_interaction(r) THEN "interaction" ELSE "chain_head"

\* Fault variant of begin_attempt: the attempt is not counted.
begin_attempt_uncounted(r, s) ==
    [s EXCEPT !.pc   = first_step(r),
              !.item = IF r.api = "record_related" THEN 1 ELSE 0,
              !.head = NoHead]

\* Fault variant of begin_attempt: the chain head is read once per call.
begin_attempt_stale_head(r, s) ==
    IF s.pc = "activity"
    THEN [s EXCEPT !.attempt = @ + 1]
    ELSE [s EXCEPT !.pc      = first_step(r),
                   !.attempt = @ + 1,
                   !.item    = IF r.api = "record_related" THEN 1 ELSE 0,
                   !.head    = NoHead]

\* A new attempt writes the whole package again.
begin_attempt(r, s) ==
    [s EXCEPT !.pc      = first_step(r),
              !.attempt = @ + 1,
              !.item    = IF r.api = "record_related" THEN 1 ELSE 0,
              !.head    = NoHead]

return(s, status) == [s EXCEPT !.pc = "done", !.status = status]

after_related(r, s) ==
    IF s.item < package_size(r)
    THEN [s EXCEPT !.pc = "related", !.item = @ + 1, !.head = NoHead]
    ELSE return([s EXCEPT !.head = NoHead], "accepted")

\* Fault variant of is_package_error: the activity's own write is taken for one.
is_any_write_error(s, error) ==
    s.pc \in {"activity", "related"} /\ error # "invalid_item"

\* A row that cannot be built raises outside the try: no ActivityPackageWriteError.
is_package_error(s, error) == s.pc = "related" /\ error # "invalid_item"

\* Where the failure is said to have happened.
failure_phase(r, s, error) ==
    IF r.api = "record_interaction" THEN "interaction_create"
    ELSE IF s.pc = "interaction" THEN "interaction_ensure"
    ELSE IF is_package_error(s, error) THEN "package_write"
    ELSE "activity_write"

\* Fault variant of attempts_left: one attempt too many.
attempts_left_inclusive(s) == s.attempt <= MaxAttempts

attempts_left(s) == s.attempt < MaxAttempts

\* What a call does with an exception of its current attempt.
after_failure(r, s, error) ==
    LET t == [s EXCEPT !.error = error, !.head = NoHead]
    IN  IF r.api \notin RetryingApis THEN return(t, "raised")
        ELSE IF attempts_left(s) THEN begin_attempt(r, s)
        ELSE [t EXCEPT !.pc     = "visibility",
                       !.status = "failed",
                       !.phase  = failure_phase(r, s, error)]

-----------------------------------------------------------------------------
(***************************************************************************)
(* The statements a call sends.                                            *)
(***************************************************************************)
interaction_row(r) ==
    plain_row(r.interaction.id,
              [project_id |-> r.interaction.project_id,
               payload    |-> r.interaction.payload], {})

activity_fields(r) ==
    [content        |-> r.content,
     interaction_id |-> r.interaction.id,
     project_id     |-> r.interaction.project_id]

activity_refs(r) ==
    IF has_interaction(r)
    THEN {<<"interaction_records", r.interaction.id>>} ELSE {}

\* _chain_activity_record: the position after the head that was read.
chain_activity_record(r, head) ==
    LET seq == head.chain_seq + 1
    IN  [key              |-> r.activity_id,
         compare          |-> activity_fields(r),
         refs             |-> activity_refs(r),
         chain_key        |-> chain_key(r),
         chain_seq        |-> seq,
         prev_record_hash |-> head.record_hash,
         record_hash      |->
            compute_activity_record_hash(
                canonical_payload(r.activity_id, activity_fields(r), r.utc_offset),
                chain_key(r), seq, head.record_hash)]

\* An evidence link is keyed by its activity and evidence; a snapshot or diff
\* without an id gets a fresh uuid each time its row is built.
related_key(c, r, s, i) ==
    LET item == r.related[i]
    IN  IF item.table = "activity_evidence_links"
        THEN <<r.activity_id, item.id>>
        ELSE IF item.id = None THEN <<"uuid", c, s.attempt, i>>
        ELSE <<"given", item.id>>

related_row(c, r, s, i) ==
    plain_row(related_key(c, r, s, i),
              [activity_id |-> r.activity_id, payload |-> r.related[i].payload],
              {<<"activity_records", r.activity_id>>})

operation_type(r, s) ==
    IF r.api = "record_interaction" THEN "interaction_record"
    ELSE IF s.phase = "package_write" THEN "activity_package"
    ELSE "activity_record"

failure_row(c, r, s) ==
    plain_row(<<"uuid", c>>,
              [activity_id    |-> r.activity_id,
               project_id     |-> r.interaction.project_id,
               operation_type |-> operation_type(r, s),
               failure_phase  |-> s.phase], {})

statement(c) ==
    LET r == request[c]
        s == call[c]
    IN  CASE s.pc = "interaction" ->
                [table |-> "interaction_records", row |-> interaction_row(r)]
          [] s.pc = "activity" ->
                [table |-> "activity_records",
                 row   |-> chain_activity_record(r, s.head)]
          [] s.pc = "related" ->
                [table |-> r.related[s.item].table,
                 row   |-> related_row(c, r, s, s.item)]
          [] s.pc = "visibility" ->
                [table |-> "system_record_write_failures",
                 row   |-> failure_row(c, r, s)]

-----------------------------------------------------------------------------
(***************************************************************************)
(* Actions.                                                                *)
(***************************************************************************)
\* Set the local state of call c.
Become(c, s) == call' = [call EXCEPT ![c] = s]

\* A call with arguments the checks refuse raises before it awaits anything.
Invoke(c) ==
    /\ call[c].pc = "idle"
    /\ Become(c, IF request[c].admissible
                 THEN begin_attempt(request[c], call[c])
                 ELSE return([call[c] EXCEPT !.error = "inadmissible"], "raised"))
    /\ UNCHANGED <<db, append_only, request, orphans>>

\* The interaction row: record_interaction's own, or the one that
\* _ensure_activity_interaction writes in front of every attempt.
WriteInteraction(c) ==
    LET answer == outcome(statement(c))
    IN  /\ call[c].pc = "interaction"
        /\ execute(statement(c))
        /\ Become(c, IF ~is_written(answer)
                     THEN after_failure(request[c], call[c], answer)
                     ELSE IF request[c].api = "record_interaction"
                     THEN return(call[c], "accepted")
                     ELSE [call[c] EXCEPT !.pc = "chain_head"])
        /\ UNCHANGED <<append_only, request, orphans>>

ReadChainHead(c) ==
    /\ call[c].pc = "chain_head"
    /\ Become(c, [call[c] EXCEPT
                    !.pc   = "activity",
                    !.head = get_activity_chain_head(chain_key(request[c]))])
    /\ UNCHANGED <<db, append_only, request, orphans>>

WriteActivity(c) ==
    LET answer == outcome(statement(c))
    IN  /\ call[c].pc = "activity"
        /\ execute(statement(c))
        /\ Become(c, IF is_written(answer)
                     THEN after_related(request[c], call[c])
                     ELSE after_failure(request[c], call[c], answer))
        /\ UNCHANGED <<append_only, request, orphans>>

current_item(c) == request[c].related[call[c].item]

WriteRelated(c) ==
    LET answer == outcome(statement(c))
    IN  /\ call[c].pc = "related"
        /\ current_item(c).safe
        /\ execute(statement(c))
        /\ Become(c, IF is_written(answer)
                     THEN after_related(request[c], call[c])
                     ELSE after_failure(request[c], call[c], answer))
        /\ UNCHANGED <<append_only, request, orphans>>

\* Building the row raises: raw payload keys, or no project for the scope.
RejectRelated(c) ==
    /\ call[c].pc = "related"
    /\ ~current_item(c).safe
    /\ Become(c, after_failure(request[c], call[c], "invalid_item"))
    /\ UNCHANGED <<db, append_only, request, orphans>>

\* _write_system_record_write_failure: one try, whose own error is swallowed.
WriteFailureRow(c) ==
    /\ call[c].pc = "visibility"
    /\ execute(statement(c))
    /\ Become(c, [return(call[c], "failed") EXCEPT
                    !.failure_visible = is_written(outcome(statement(c)))])
    /\ UNCHANGED <<append_only, request, orphans>>

\* A timeout (asyncio.wait_for) or an error of the connection.  Reading the
\* head and writing the failure row have no timeout and fail only by an error.
Lose(c) ==
    /\ call[c].pc \in {"interaction", "chain_head", "activity", "related",
                       "visibility"}
    /\ call[c].pc = "related" => current_item(c).safe
    /\ orphans' = IF call[c].pc = "chain_head" THEN orphans
                  ELSE orphans \cup {statement(c)}
    /\ Become(c, IF call[c].pc = "visibility"
                 THEN return(call[c], "failed")
                 ELSE after_failure(request[c], call[c], "lost"))
    /\ UNCHANGED <<db, append_only, request>>

\* The server executes a statement nobody waits for any more.
ExecuteOrphan(stmt) ==
    /\ execute(stmt)
    /\ orphans' = orphans \ {stmt}
    /\ UNCHANGED <<append_only, request, call>>

Migrate == InstallAppendOnly /\ UNCHANGED <<request, call, orphans>>

-----------------------------------------------------------------------------
Init ==
    /\ InitSystemRecord
    /\ request \in Workload
    /\ call = [c \in Calls |-> IdleCall]
    /\ orphans = {}

\* What a call does when the database answers.
Answered(c) ==
    \/ WriteInteraction(c)
    \/ ReadChainHead(c)
    \/ WriteActivity(c)
    \/ WriteRelated(c)
    \/ RejectRelated(c)
    \/ WriteFailureRow(c)

Next ==
    \/ \E c \in Calls : Invoke(c)
    \/ \E c \in Calls : WriteInteraction(c)
    \/ \E c \in Calls : ReadChainHead(c)
    \/ \E c \in Calls : WriteActivity(c)
    \/ \E c \in Calls : WriteRelated(c)
    \/ \E c \in Calls : RejectRelated(c)
    \/ \E c \in Calls : WriteFailureRow(c)
    \/ \E c \in Calls : Lose(c)
    \/ \E stmt \in orphans : ExecuteOrphan(stmt)
    \/ Migrate

Spec == Init /\ [][Next]_vars

(***************************************************************************)
(* Fairness.  The event loop resumes a coroutine whose await has ended,    *)
(* and asyncio.wait_for ends these awaits after write_timeout_seconds,     *)
(* with or without an answer.  The reads of the chain head and the write   *)
(* of the failure row are awaited without a timeout.                       *)
(***************************************************************************)
TimedStep(c) ==
    /\ call[c].pc \in {"interaction", "activity", "related"}
    /\ Answered(c) \/ Lose(c)

UntimedStep(c) == call[c].pc \in {"chain_head", "visibility"} /\ Answered(c)

\* No statement is lost and the schema stays as it is: every await is answered.
FaultFreeNext == \E c \in Calls : Invoke(c) \/ Answered(c)

FaultFreeSpec == Init /\ [][FaultFreeNext]_vars

-----------------------------------------------------------------------------
(***************************************************************************)
(* Safety.                                                                 *)
(***************************************************************************)
StatementTypeOK(stmt) ==
    /\ stmt.table \in Tables
    /\ stmt.row.chain_seq \in Nat
    /\ stmt.table # "activity_records" => stmt.row.chain_seq = 0

CallTypeOK(r, s) ==
    /\ DOMAIN s = DOMAIN IdleCall
    /\ s.pc \in Steps
    /\ s.attempt \in 0 .. MaxAttempts
    /\ s.pc = "idle" => s.attempt = 0
    /\ s.item \in 0 .. package_size(r)
    /\ s.pc = "related" => s.item # 0
    /\ s.head.chain_seq \in Nat
    /\ s.status \in Statuses
    /\ s.phase \in Phases
    /\ s.failure_visible \in BOOLEAN

\* The shape of every variable: tables hold rows, a call's counters stay
\* within its attempts and its package.
TypeOK ==
    /\ DOMAIN db = Tables
    /\ \A t \in Tables : \A r \in db[t] :
          StatementTypeOK([table |-> t, row |-> r])
    /\ append_only \in BOOLEAN
    /\ request \in Workload
    /\ DOMAIN call = Calls
    /\ \A c \in Calls : CallTypeOK(request[c], call[c])
    /\ \A stmt \in orphans : StatementTypeOK(stmt)

AllChained == {r \in db["activity_records"] : r.chain_seq # 0}

\* r occupies a position whose predecessor is committed and is the row r's
\* prev_record_hash names.
FollowsCommittedRow(r) ==
    IF r.chain_seq = 1
    THEN r.prev_record_hash = None
    ELSE \E p \in AllChained : /\ p.chain_key = r.chain_key
                               /\ p.chain_seq = r.chain_seq - 1
                               /\ p.record_hash = r.prev_record_hash

\* However calls interleave, retry, are lost or execute late, each chain is a
\* gapless sequence of positions 1, 2, ..., no two rows share a position, no
\* activity has two rows, and each row holds the hash of the row before it.
ChainIntact ==
    /\ \A r, s \in db["activity_records"] : r.key = s.key => r = s
    /\ \A r, s \in AllChained :
          r.chain_key = s.chain_key /\ r.chain_seq = s.chain_seq => r = s
    /\ \A r \in AllChained : FollowsCommittedRow(r)

\* verify_activity_chain, run at any moment against live writers, reports a
\* chain valid exactly when every row was hashed with a UTC occurred_at, and
\* otherwise points at the first row that was not.
VerifierAgrees ==
    \A k \in {r.chain_key : r \in AllChained} :
        LET rows   == select_chain(k)
            offUtc == {i \in DOMAIN rows :
                          rows[i].record_hash.payload.utc_offset # 0}
            answer == verify_activity_chain_rows(rows, k)
        IN  /\ answer.valid <=> offUtc = {}
            /\ ~answer.valid =>
                  /\ answer.reason = "hash_mismatch"
                  /\ answer.broken_at_seq \in offUtc
                  /\ \A i \in offUtc : answer.broken_at_seq <= i

InTable(table, row) ==
    \E r \in db[table] : r.key = row.key /\ r.compare = row.compare

InteractionDurable(c) ==
    InTable("interaction_records", interaction_row(request[c]))

ActivityDurable(c) ==
    InTable("activity_records",
            [key     |-> request[c].activity_id,
             compare |-> activity_fields(request[c])])

RelatedDurable(c, n) ==
    \A i \in 1 .. n :
        InTable(request[c].related[i].table,
                related_row(c, request[c], call[c], i))

\* accepted=True is never a lie: the activity row with this call's content,
\* the interaction it names and every row of its package are committed.
AcceptedIsDurable ==
    \A c \in Calls : call[c].status = "accepted" =>
        /\ request[c].api = "record_interaction" => InteractionDurable(c)
        /\ request[c].api \in ActivityApis =>
              /\ ActivityDurable(c)
              /\ has_interaction(request[c]) => InteractionDurable(c)
        /\ RelatedDurable(c, package_size(request[c]))

\* What a failed result and its failure row say is so: a package failure means
\* the activity and the items before the failing one are committed, and
\* failure_visible=True means the failure row is.
FailureReportTruthful ==
    \A c \in Calls :
        /\ call[c].phase = "package_write" =>
              ActivityDurable(c) /\ RelatedDurable(c, call[c].item - 1)
        /\ call[c].failure_visible =>
              InTable("system_record_write_failures",
                      failure_row(c, request[c], call[c]))

\* The order of a package's writes never trips a foreign key: no activity call
\* ends on one, and no late statement of theirs would.
NoForeignKeyViolation ==
    /\ \A c \in Calls : request[c].api \in ActivityApis =>
          call[c].error # "foreign_key_violation"
    /\ \A stmt \in orphans :
          stmt.table = "activity_records" => ~dangling_reference(stmt)

\* No row of any table goes or changes, and an activity row that arrives takes
\* the place after the row that was last in its chain.
GrowsAtHead ==
    /\ \A t \in Tables : db[t] \subseteq db'[t]
    /\ \A r \in db'["activity_records"] \ db["activity_records"] :
          LET head == get_activity_chain_head(r.chain_key)
          IN  /\ r.chain_seq = head.chain_seq + 1
              /\ r.prev_record_hash = head.record_hash

\* A chain is an append-only log: a step that commits an activity row commits
\* it at the end of its chain, linked to the row that was last, and no step
\* changes or removes a committed row of any table.
ChainGrowsAtHead == [][GrowsAtHead]_vars

-----------------------------------------------------------------------------
(***************************************************************************)
(* The recorder implements ActivityLog.                                    *)
(***************************************************************************)
entry(id, content) == [id |-> id, content |-> content]

PlacedRow(r) ==
    [entry    |-> entry(r.key, r.compare),
     chain    |-> r.chain_key,
     position |-> r.chain_seq]

AcceptedActivities ==
    {c \in Calls : request[c].api \in ActivityApis /\ call[c].status = "accepted"}

LegacyEntries == {entry(r.key, r.compare) : r \in LegacyRows}

PlacedEntries == {PlacedRow(r) : r \in AllChained}

AcceptedEntries ==
    {entry(request[c].activity_id, activity_fields(request[c])) :
        c \in AcceptedActivities}

Abstract ==
    INSTANCE ActivityLog WITH
        Unlogged <- LegacyEntries, log <- PlacedEntries, acked <- AcceptedEntries

\* Whatever calls, losses and late statements do, callers see an append-only
\* log: an accepted record_activity or record_critical_activity is an entry of
\* its chain, once, at a place nothing else ever has.
ImplementsActivityLog == Abstract!LogSpec

-----------------------------------------------------------------------------
(***************************************************************************)
(* Progress.                                                               *)
(***************************************************************************)
\* With no assumption on the database but its answers' timeouts, a call can
\* stay unfinished only at one of the two awaits that have no timeout.
HangsOnlyUntimed ==
    \A c \in Calls :
        <>[](call[c].pc \in {"idle", "chain_head", "visibility", "done"})

\* When the database answers the awaits that have no timeout, every call
\* returns, whatever it loses and however often it retries.
EveryCallReturns ==
    (\A c \in Calls : WF_vars(UntimedStep(c)))
        => \A c \in Calls : call[c].pc # "idle" ~> call[c].pc = "done"

Rivals(c) ==
    {r \in AllChained : /\ r.chain_key = chain_key(request[c])
                        /\ r.key # request[c].activity_id}

\* A repeated interaction row is no obstacle: none, or revision 0004 is absent.
Rewritable(c) == has_interaction(request[c]) => ~append_only

Writers == {c \in Calls : request[c].admissible /\ request[c].api \in ActivityApis}

\* The keys the i-th row of c's package may get.
related_keys(c, i) ==
    {<<request[c].related[i].table, related_key(c, request[c], [attempt |-> a], i)>> :
        a \in 1 .. MaxAttempts}

\* The calls write different things: no two activities share an id, an
\* interaction id has one content, no two related rows share a key, and the
\* rows of record_activity can be built.
Undisturbed ==
    /\ \A c, d \in Writers :
          c # d => request[c].activity_id # request[d].activity_id
    /\ \A c \in Writers : \A r \in LegacyRows : r.key # request[c].activity_id
    /\ \A c, d \in Calls :
          has_interaction(request[c]) /\ request[c].interaction.id = request[d].interaction.id
          => request[c].interaction = request[d].interaction
    /\ \A c, d \in Calls :
          \A i \in DOMAIN request[c].related, j \in DOMAIN request[d].related :
             <<c, i>> # <<d, j>> => related_keys(c, i) \cap related_keys(d, j) = {}
    /\ \A c \in Calls : request[c].api = "record_activity" =>
          \A i \in DOMAIN request[c].related : request[c].related[i].safe

\* The retries of record_activity cover contention exactly: without losses and
\* without repeated ids every extra attempt was forced by another writer's
\* commit on the same chain, so a call fails only against MaxAttempts rivals.
ContentionBound ==
    Undisturbed => \A c \in Calls : request[c].api = "record_activity" /\ Rewritable(c) =>
        /\ call[c].attempt <= 1 + Cardinality(Rivals(c))
        /\ call[c].status = "failed" => MaxAttempts <= Cardinality(Rivals(c))

-----------------------------------------------------------------------------
(***************************************************************************)
(* What storage.py says of its writes, and the code does not do.           *)
(***************************************************************************)
\* storage.py says a retry of an activity_id, and a repeated interaction row,
\* is idempotent; at revision 0004 the conflict's self-assigning UPDATE is
\* rejected by the append-only trigger.
RepeatedWriteIsIdempotent ==
    \A c \in Calls : call[c].error # "mutation_rejected"
=============================================================================
