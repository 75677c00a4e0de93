------------------------ MODULE AuditedRequests_proofs ------------------------
(***************************************************************************)
(* Proofs about AuditedRequests: where an event is recorded, beside which  *)
(* interaction row, and what the drain leaves behind, for any requests,    *)
(* jobs, events and projects.                                              *)
(*                                                                         *)
(* An event's interaction is fixed when its task is scheduled.  AuditInv   *)
(* follows it from there through the arguments of the recorder's call to   *)
(* every statement that call has sent, also those nobody waits for.        *)
(***************************************************************************)
EXTENDS AuditedRequests, ActivityRecorder_proofs

InteractionOf(e) == IF task[e].context = NoContext THEN e ELSE Owner[e]

\* An activity row is of an event that was published, in its interaction.
RowOK(row) ==
    /\ row.key \in Events
    /\ task[row.key].state # "none"
    /\ row.compare.interaction_id = InteractionOf(row.key)

StatementOK(stmt) ==
    /\ StatementInv(stmt)
    /\ stmt.table = "activity_records" => RowOK(stmt.row)

\* The calls a service makes carry no package.
PlainCall(r, s) ==
    /\ IsRequest(r)
    /\ CallTypeOK(r, s)
    /\ r.related = << >>
    /\ r.api \in RetryingApis
    /\ s.pc = "idle" => s.head = NoHead
    /\ s.pc \in {"interaction", "visibility", "done", "idle"}
          \cup IF r.api = "record_activity" THEN {"chain_head", "activity"} ELSE {}

EventCallOK(e) ==
    call[e].pc # "idle" =>
        /\ request[e].api = "record_activity"
        /\ request[e].activity_id = e
        /\ request[e].interaction.id = InteractionOf(e)
        /\ task[e].state \in {"running", "cancelled"}

RequestCallOK(q) ==
    call[q].pc # "idle" =>
        request[q].api = "record_interaction" /\ handler[q] # "expected"

CallsOK ==
    /\ DOMAIN call = Calls /\ DOMAIN request = Calls
    /\ \A c \in Calls : PlainCall(request[c], call[c])
    /\ HeadsCommitted
    /\ \A e \in Events : EventCallOK(e)
    /\ \A q \in Requests : RequestCallOK(q)

RowsOK ==
    /\ DbInv
    /\ \A stmt \in orphans : StatementOK(stmt)
    /\ \A r \in db["activity_records"] \ LegacyRows : RowOK(r)

\* Once the drain has begun no request publishes, and every event of a request
\* has ended or is waited for.
DrainOK ==
    /\ process # "serving" =>
          \A q \in Requests : handler[q] \notin {"entering", "running"}
    /\ process = "draining" =>
          \A e \in Events : Owner[e] \in Requests =>
              task[e].state = "none" \/ ended(e) \/ e \in draining
    /\ process # "stopped" => \A e \in Events : task[e].state # "cancelled"
    /\ DrainLosesNothing

TaskFields == {"state", "context", "tenant", "performed_by"}

ServiceOK ==
    /\ AuditTypeOK
    /\ DOMAIN bound = Sources
    /\ \A e \in Events : DOMAIN task[e] = TaskFields

AuditInv == ServiceOK /\ CallsOK /\ RowsOK /\ DrainOK

-----------------------------------------------------------------------------
(***************************************************************************)
(* Contexts and the calls made from them.                                  *)
(***************************************************************************)
LEMMA BoundContext ==
    ASSUME NEW q, NEW context \in ContextOf(q)
    PROVE  /\ DOMAIN context = {"id", "project_id", "record_scope", "caller"}
           /\ context = NoContext \/ context.id = q
           /\ context.caller \in {None, "principal"}
  BY DEF ContextOf, ingress_contexts, NoContext, Context

LEMMA ContextForEvent ==
    ASSUME NEW e, NEW q, NEW context \in ContextOf(q), NEW tenant, NEW performer
    PROVE  interaction_context_for_event(e, context, tenant, performer).id =
              IF context = NoContext THEN e ELSE q
<1>1. CASE context = NoContext
  BY <1>1 DEF interaction_context_for_event, Context
<1>2. CASE context # NoContext
  <2> DEFINE given == [context EXCEPT !.project_id = tenant]
  <2>1. context.id = q /\ given.id = q
    BY <1>2, BoundContext
  <2> QED
    BY <1>2, <2>1 DEF interaction_context_for_event
<1> QED
  BY <1>1, <1>2

LEMMA MadeRequests ==
    ASSUME NEW e, NEW context, NEW performer
    PROVE  /\ LET r == activity_request(e, context, performer)
              IN  /\ IsRequest(r) /\ r.related = << >> /\ r.api = "record_activity"
                  /\ r.activity_id = e /\ r.interaction.id = context.id
           /\ LET r == interaction_request(context)
              IN  IsRequest(r) /\ r.related = << >> /\ r.api = "record_interaction"
  BY DEF activity_request, interaction_request, recorder_interaction, IsRequest,
         RequestFields, Apis, package_size, scope_is_valid

LEMMA BegunCall ==
    ASSUME NEW r, IsRequest(r), r.related = << >>, r.api \in RetryingApis,
           NEW s, CallTypeOK(r, s), s.attempt < MaxAttempts
    PROVE  /\ PlainCall(r, begin_attempt(r, s))
           /\ begin_attempt(r, s).pc \notin {"idle", "done"}
           /\ begin_attempt(r, s).head = NoHead
<1>1. CallTypeOK(r, begin_attempt(r, s)) /\ begin_attempt(r, s).head = NoHead
  BY BeginAttemptType
<1>2. begin_attempt(r, s).pc = first_step(r)
  <2>1. DOMAIN s = DOMAIN IdleCall
    BY DEF CallTypeOK
  <2> QED
    BY <2>1 DEF begin_attempt, IdleCall
<1>3. /\ r.api = "record_interaction" => first_step(r) = "interaction"
      /\ r.api = "record_activity" => first_step(r) \in {"interaction", "chain_head"}
  BY DEF first_step, ActivityApis
<1> QED
  BY <1>1, <1>2, <1>3 DEF PlainCall, RetryingApis

LEMMA ReturnedCall ==
    ASSUME NEW r, NEW s, PlainCall(r, s), NEW status \in Statuses
    PROVE  /\ PlainCall(r, return(s, status))
           /\ return(s, status).pc = "done" /\ return(s, status).head = s.head
<1>1. CallTypeOK(r, return(s, status)) /\ return(s, status).head = s.head
  BY ReturnType DEF PlainCall
<1>2. return(s, status).pc = "done"
  BY DEF return, PlainCall, CallTypeOK, IdleCall
<1> QED
  BY <1>1, <1>2 DEF PlainCall

LEMMA FailedCall ==
    ASSUME NEW r, NEW s, PlainCall(r, s), NEW error
    PROVE  /\ PlainCall(r, after_failure(r, s, error))
           /\ after_failure(r, s, error).pc # "idle"
           /\ after_failure(r, s, error).head = NoHead
<1>1. CallTypeOK(r, after_failure(r, s, error)) /\ after_failure(r, s, error).head = NoHead
  BY AfterFailureType DEF PlainCall
<1>2. CASE attempts_left(s)
  <2>1. after_failure(r, s, error) = begin_attempt(r, s)
    BY <1>2 DEF after_failure, PlainCall
  <2> QED
    BY <1>2, <2>1, BegunCall DEF PlainCall, attempts_left
<1>3. CASE ~attempts_left(s)
  <2>1. after_failure(r, s, error).pc = "visibility"
    BY <1>3 DEF after_failure, PlainCall, CallTypeOK, IdleCall
  <2> QED
    BY <1>1, <2>1 DEF PlainCall
<1> QED
  BY <1>2, <1>3

LEMMA CompletedCall ==
    ASSUME NEW r, NEW s, PlainCall(r, s)
    PROVE  /\ PlainCall(r, after_related(r, s))
           /\ after_related(r, s).pc # "idle"
           /\ after_related(r, s).head = NoHead
<1>1. CallTypeOK(r, after_related(r, s)) /\ after_related(r, s).head = NoHead
  BY AfterRelatedType DEF PlainCall
<1>2. ~ s.item < package_size(r)
  BY DEF PlainCall, CallTypeOK, package_size
<1>3. after_related(r, s).pc = "done"
  BY <1>2 DEF after_related, return, PlainCall, CallTypeOK, IdleCall
<1> QED
  BY <1>1, <1>3 DEF PlainCall

-----------------------------------------------------------------------------
(***************************************************************************)
(* A step of the recorder.                                                 *)
(***************************************************************************)
Writing == {"interaction", "activity", "visibility"}

\* The statement of a call: an activity row only of an event, in its interaction.
LEMMA StatementOfService ==
    ASSUME AuditInv, NEW c \in Calls, call[c].pc \in Writing
    PROVE  StatementOK(statement(c))
<1> DEFINE r == request[c]
           s == call[c]
<1>0. PlainCall(r, s) /\ HeadCommitted(chain_key(r), s.head)
  BY DEF AuditInv, CallsOK, HeadsCommitted
<1>1. CASE s.pc = "interaction"
  BY <1>1 DEF statement, interaction_row, plain_row, StatementOK, StatementInv,
              StatementTypeOK, Tables
<1>2. CASE s.pc = "visibility"
  BY <1>2 DEF statement, failure_row, plain_row, StatementOK, StatementInv,
              StatementTypeOK, Tables
<1>3. CASE s.pc = "activity"
  <2> DEFINE row == chain_activity_record(r, s.head)
  <2>1. statement(c) = [table |-> "activity_records", row |-> row]
    BY <1>3 DEF statement
  <2>2. /\ row.key = r.activity_id
        /\ row.compare.interaction_id = r.interaction.id
        /\ row.chain_key = chain_key(r)
        /\ row.chain_seq = s.head.chain_seq + 1
        /\ row.prev_record_hash = s.head.record_hash
    BY DEF chain_activity_record, activity_fields
  <2>3. s.head.chain_seq \in Nat
    BY <1>0 DEF PlainCall, CallTypeOK
  <2>4. r.api = "record_activity"
    BY <1>0, <1>3 DEF PlainCall
  <2>5. c \in Events /\ EventCallOK(c)
    BY <1>3, <2>4, AuditAssumption DEF AuditInv, CallsOK, RequestCallOK
  <2> HIDE DEF row
  <2>6. RowOK(row)
    BY <1>3, <2>2, <2>5 DEF EventCallOK, RowOK
  <2>7. row.chain_seq \in Nat /\ row.chain_seq # 0 /\ FollowsCommittedRow(row)
    BY <1>0, <2>2, <2>3 DEF HeadCommitted, FollowsCommittedRow
  <2> QED
    BY <2>1, <2>6, <2>7 DEF StatementOK, StatementInv, StatementTypeOK, Tables
<1> QED
  BY <1>1, <1>2, <1>3 DEF Writing

\* A call at an await moves on, and the database executes its statement, now or
\* perhaps later, if the await is a write.
LEMMA RecordMoves ==
    ASSUME AuditInv, NEW c \in Calls, Answered(c) \/ Lose(c)
    PROVE  \E s :
            /\ PlainCall(request[c], s) /\ s.pc # "idle"
            /\ s.head = NoHead \/ HeadCommitted(chain_key(request[c]), s.head)
            /\ call[c].pc \notin {"idle", "done"}
            /\ Become(c, s)
            /\ UNCHANGED request
            /\ \A stmt \in orphans' : StatementOK(stmt)
            /\ UNCHANGED db \/ \E stmt : StatementOK(stmt) /\ execute(stmt)
<1> DEFINE r == request[c]
           s0 == call[c]
<1>0. PlainCall(r, s0) /\ HeadCommitted(chain_key(r), s0.head)
  BY DEF AuditInv, CallsOK, HeadsCommitted
<1>1. \A stmt \in orphans : StatementOK(stmt)
  BY DEF AuditInv, RowsOK
<1>2. s0.pc # "related" /\ (s0.pc \in Writing => StatementOK(statement(c)))
  BY <1>0, StatementOfService DEF PlainCall
<1>3. DOMAIN s0 = DOMAIN IdleCall
  BY <1>0 DEF PlainCall, CallTypeOK
<1>4. CASE WriteInteraction(c)
  <2> DEFINE t == IF ~is_written(outcome(statement(c)))
                  THEN after_failure(r, s0, outcome(statement(c)))
                  ELSE IF r.api = "record_interaction"
                  THEN return(s0, "accepted")
                  ELSE [s0 EXCEPT !.pc = "chain_head"]
  <2>1. /\ s0.pc = "interaction" /\ Become(c, t) /\ execute(statement(c))
        /\ UNCHANGED <<request, orphans>>
    BY <1>4 DEF WriteInteraction
  <2>2. /\ PlainCall(r, return(s0, "accepted"))
        /\ return(s0, "accepted").pc # "idle" /\ return(s0, "accepted").head = s0.head
    BY <1>0, ReturnedCall DEF Statuses
  <2>3. ASSUME r.api # "record_interaction", NEW u, u = [s0 EXCEPT !.pc = "chain_head"]
        PROVE  PlainCall(r, u) /\ u.pc # "idle" /\ u.head = s0.head
    <3>1. CallTypeOK(r, u)
      BY <1>0, <2>3, MoveType DEF PlainCall, Steps
    <3>2. u.pc = "chain_head" /\ u.head = s0.head
      BY <1>3, <2>3 DEF IdleCall
    <3> QED
      BY <1>0, <2>3, <3>1, <3>2 DEF PlainCall, RetryingApis
  <2>4. PlainCall(r, t) /\ t.pc # "idle" /\ t.head \in {NoHead, s0.head}
    BY <1>0, <2>2, <2>3, FailedCall
  <2> HIDE DEF t
  <2> QED
    BY <1>0, <1>1, <1>2, <2>1, <2>4 DEF Writing
<1>5. CASE ReadChainHead(c)
  <2> DEFINE head == get_activity_chain_head(chain_key(r))
             t == [s0 EXCEPT !.pc = "activity", !.head = head]
  <2>1. /\ s0.pc = "chain_head" /\ Become(c, t) /\ UNCHANGED <<db, request, orphans>>
    BY <1>5 DEF ReadChainHead
  <2>2. head.chain_seq \in Nat /\ HeadCommitted(chain_key(r), head)
    BY HeadIsLast DEF AuditInv, RowsOK
  <2>3. CallTypeOK(r, t)
    <3> HIDE DEF head
    <3>1. CallTypeOK(r, s0) /\ "activity" \in Steps \ {"idle", "related"}
      BY <1>0 DEF PlainCall, Steps
    <3>2. \E h : h.chain_seq \in Nat /\ t = [s0 EXCEPT !.pc = "activity", !.head = h]
      BY <2>2
    <3> HIDE DEF t
    <3> QED
      BY <3>1, <3>2, MoveType
  <2>4. t.pc = "activity" /\ t.head = head
    BY <1>3 DEF IdleCall
  <2>5. PlainCall(r, t)
    BY <1>0, <2>1, <2>3, <2>4 DEF PlainCall
  <2> HIDE DEF t, head
  <2> QED
    BY <1>1, <2>1, <2>2, <2>4, <2>5
<1>6. CASE WriteActivity(c)
  <2> DEFINE t == IF is_written(outcome(statement(c)))
                  THEN after_related(r, s0)
                  ELSE after_failure(r, s0, outcome(statement(c)))
  <2>1. /\ s0.pc = "activity" /\ Become(c, t) /\ execute(statement(c))
        /\ UNCHANGED <<request, orphans>>
    BY <1>6 DEF WriteActivity
  <2>2. PlainCall(r, t) /\ t.pc # "idle" /\ t.head = NoHead
    BY <1>0, FailedCall, CompletedCall
  <2> HIDE DEF t
  <2> QED
    BY <1>1, <1>2, <2>1, <2>2 DEF Writing
<1>7. CASE WriteRelated(c) \/ RejectRelated(c)
  BY <1>2, <1>7 DEF WriteRelated, RejectRelated
<1>8. CASE WriteFailureRow(c)
  <2> DEFINE done == return(s0, "failed")
             t == [done EXCEPT !.failure_visible = is_written(outcome(statement(c)))]
  <2>1. /\ s0.pc = "visibility" /\ Become(c, t) /\ execute(statement(c))
        /\ UNCHANGED <<request, orphans>>
    BY <1>8 DEF WriteFailureRow
  <2>2. PlainCall(r, done) /\ done.pc = "done" /\ done.head = s0.head
    BY <1>0, ReturnedCall DEF Statuses
  <2>3. is_written(outcome(statement(c))) \in BOOLEAN
    BY DEF is_written
  <2> HIDE DEF done
  <2>4. CallTypeOK(r, t)
    BY <2>2, <2>3, MarkType DEF PlainCall
  <2>5. t.pc = "done" /\ t.head = s0.head
    BY <2>2 DEF PlainCall, CallTypeOK, IdleCall
  <2>6. PlainCall(r, t)
    BY <2>2, <2>4, <2>5 DEF PlainCall
  <2> HIDE DEF t
  <2> QED
    BY <1>0, <1>1, <1>2, <2>1, <2>5, <2>6 DEF Writing
<1>9. CASE Lose(c)
  <2> DEFINE t == IF s0.pc = "visibility" THEN return(s0, "failed")
                  ELSE after_failure(r, s0, "lost")
  <2>1. /\ s0.pc \notin {"idle", "done"} /\ Become(c, t) /\ UNCHANGED <<db, request>>
        /\ orphans' = IF s0.pc = "chain_head" THEN orphans
                      ELSE orphans \cup {statement(c)}
        /\ s0.pc \in {"interaction", "chain_head", "activity", "related", "visibility"}
    BY <1>9 DEF Lose
  <2>2. PlainCall(r, t) /\ t.pc # "idle" /\ t.head \in {NoHead, s0.head}
    BY <1>0, FailedCall, ReturnedCall DEF Statuses
  <2>3. \A stmt \in orphans' : StatementOK(stmt)
    BY <1>1, <1>2, <2>1 DEF Writing
  <2> HIDE DEF t
  <2> QED
    BY <1>0, <2>1, <2>2, <2>3
<1> QED
  BY <1>4, <1>5, <1>6, <1>7, <1>8, <1>9 DEF Answered

-----------------------------------------------------------------------------
(***************************************************************************)
(* What a step leaves as it is.                                            *)
(***************************************************************************)
\* What is published stays published, in the same interaction.
TasksStay ==
    \A e \in Events : task[e].state # "none" =>
        /\ task'[e].state # "none"
        /\ task'[e].context = task[e].context
        /\ task[e].state \in {"running", "cancelled"} =>
              task'[e].state \in {"running", "cancelled"}

LEMMA RowsStay ==
    ASSUME RowsOK, TasksStay, \A stmt \in orphans' : StatementOK(stmt),
           UNCHANGED db \/ \E stmt : StatementOK(stmt) /\ execute(stmt)
    PROVE  RowsOK' /\ AllChained \subseteq AllChained'
<1>1. \A row : RowOK(row) => RowOK(row)'
  BY DEF RowOK, InteractionOf, TasksStay
<1>2. /\ DbInv' /\ AllChained \subseteq AllChained'
      /\ \A r \in db'["activity_records"] \ LegacyRows : RowOK(r)
  <2>1. CASE UNCHANGED db
    <3>1. DbTypeOK' /\ Activities' = Activities
      BY <2>1 DEF RowsOK, DbInv, DbTypeOK, StatementTypeOK, Activities
    <3> QED
      BY <2>1, <3>1, OtherTables DEF RowsOK
  <2>2. ASSUME NEW stmt, StatementOK(stmt), execute(stmt)
        PROVE  /\ DbInv' /\ AllChained \subseteq AllChained'
               /\ \A r \in db'["activity_records"] \ LegacyRows : RowOK(r)
    <3>1. DbInv' /\ AllChained \subseteq AllChained'
      BY <2>2, ExecuteStep DEF RowsOK, StatementOK
    <3>2. "activity_records" \in Tables
      BY DEF Tables
    <3>3. \A r \in db'["activity_records"] :
             \/ r \in db["activity_records"]
             \/ stmt.table = "activity_records" /\ r = stmt.row
      <4>1. DbTypeOK /\ StatementTypeOK(stmt)
        BY <2>2 DEF RowsOK, DbInv, StatementOK, StatementInv
      <4>2. /\ outcome(stmt) # "created" => db' = db
            /\ outcome(stmt) = "created" =>
                  \A t \in Tables :
                     db'[t] = IF t = stmt.table THEN db[t] \cup {stmt.row} ELSE db[t]
        BY <2>2, <4>1, ExecuteType
      <4>3. outcome(stmt) = "created" =>
               db'["activity_records"] = IF "activity_records" = stmt.table
                                         THEN db["activity_records"] \cup {stmt.row}
                                         ELSE db["activity_records"]
        BY <3>2, <4>2
      <4> QED
        BY <4>2, <4>3
    <3> QED
      BY <2>2, <3>1, <3>3 DEF RowsOK, StatementOK
  <2> QED
    BY <2>1, <2>2
<1>3. \A stmt \in orphans' : StatementOK(stmt)'
  BY <1>1, <1>2, StatementStays DEF StatementOK
<1> QED
  BY <1>1, <1>2, <1>3 DEF RowsOK

LEMMA CallsStay ==
    ASSUME CallsOK, TasksStay, UNCHANGED <<request, call>>,
           AllChained \subseteq AllChained',
           \A q \in Requests : handler[q] # "expected" => handler'[q] # "expected"
    PROVE  CallsOK'
<1>1. \A c \in Calls : PlainCall(request[c], call[c])'
  BY DEF CallsOK, PlainCall, CallTypeOK
<1>2. HeadsCommitted'
  BY DEF CallsOK, HeadsCommitted, HeadCommitted
<1>3. \A e \in Events : EventCallOK(e)'
  BY DEF CallsOK, EventCallOK, InteractionOf, TasksStay
<1>4. \A q \in Requests : RequestCallOK(q)'
  BY DEF CallsOK, RequestCallOK
<1> QED
  BY <1>1, <1>2, <1>3, <1>4 DEF CallsOK

\* A call is made: its arguments are set and it runs to its first await.
LEMMA CallMade ==
    ASSUME NEW c, PlainCall(request[c], call[c]), call[c].pc = "idle",
           NEW r, IsRequest(r), r.related = << >>, r.api \in RetryingApis, Call(c, r)
    PROVE  \E s : /\ PlainCall(r, s) /\ s.pc # "idle" /\ s.head = NoHead
                  /\ Become(c, s)
                  /\ request' = [request EXCEPT ![c] = r]
                  /\ UNCHANGED <<db, append_only, orphans>>
<1> DEFINE s0 == call[c]
           marked == [s0 EXCEPT !.error = "inadmissible"]
<1>1. /\ request' = [request EXCEPT ![c] = r] /\ UNCHANGED <<db, append_only, orphans>>
      /\ Become(c, IF r.admissible THEN begin_attempt(r, s0) ELSE return(marked, "raised"))
  BY DEF Call
<1>2. CallTypeOK(r, s0) /\ s0.head = NoHead /\ s0.attempt < MaxAttempts
  <2>1. s0.attempt = 0 /\ s0.item = 0
    BY DEF PlainCall, CallTypeOK, package_size
  <2> QED
    BY <2>1, MaxAttemptsAssumption DEF PlainCall, CallTypeOK, package_size, IsRequest
<1>3. PlainCall(r, s0)
  BY <1>2 DEF PlainCall
<1>4. PlainCall(r, begin_attempt(r, s0)) /\ begin_attempt(r, s0).pc # "idle"
      /\ begin_attempt(r, s0).head = NoHead
  BY <1>2, BegunCall
<1>5. PlainCall(r, marked) /\ marked.head = NoHead
  <2>1. CallTypeOK(r, marked) /\ marked.head = NoHead
    BY <1>2, MarkType
  <2>2. marked.pc = "idle"
    BY <1>2 DEF CallTypeOK, IdleCall
  <2> HIDE DEF marked
  <2> QED
    BY <1>3, <2>1, <2>2 DEF PlainCall
<1> HIDE DEF marked
<1>6. PlainCall(r, return(marked, "raised")) /\ return(marked, "raised").pc # "idle"
      /\ return(marked, "raised").head = NoHead
  BY <1>5, ReturnedCall DEF Statuses
<1> QED
  BY <1>1, <1>4, <1>6

\* A service's own step: no statement, no call.
LEMMA ServiceStepKeeps ==
    ASSUME AuditInv, UNCHANGED vars, TasksStay,
           \A q \in Requests : handler[q] # "expected" => handler'[q] # "expected"
    PROVE  CallsOK' /\ RowsOK'
<1>1. RowsOK' /\ AllChained \subseteq AllChained'
  BY RowsStay DEF AuditInv, RowsOK, vars
<1> QED
  BY <1>1, CallsStay DEF AuditInv, vars

LEMMA EndedStays ==
    ASSUME NEW e \in Events, ended(e), UNCHANGED <<task[e], call[e]>>
    PROVE  ended(e)'
  BY DEF ended

-----------------------------------------------------------------------------
(***************************************************************************)
(* The invariant.                                                          *)
(***************************************************************************)
LEMMA AuditInitInv == AuditInit => AuditInv
<1> SUFFICES ASSUME AuditInit PROVE AuditInv
  OBVIOUS
<1>1. \A c \in Calls : request[c] = NoRequest /\ call[c] = IdleCall
  BY DEF AuditInit
<1>2. IsRequest(NoRequest) /\ NoRequest.related = << >> /\ NoRequest.api \in RetryingApis
  BY DEF NoRequest, activity_request, recorder_interaction, IsRequest, RequestFields,
         Apis, package_size, scope_is_valid, RetryingApis
<1>3. PlainCall(NoRequest, IdleCall)
  <2>1. CallTypeOK(NoRequest, IdleCall)
    BY <1>2, MaxAttemptsAssumption
    DEF CallTypeOK, IdleCall, Steps, Statuses, Phases, NoHead, package_size
  <2> QED
    BY <1>2, <2>1 DEF PlainCall, IdleCall
<1>4. ServiceOK
  <2>1. \A c \in Calls : IsRequest(request[c]) /\ CallTypeOK(request[c], call[c])
    BY <1>1, <1>3 DEF PlainCall
  <2> QED
    BY <2>1 DEF AuditInit, ServiceOK, AuditTypeOK, NoTask, TaskFields, ContextOf
<1>5. CallsOK
  <2>1. HeadsCommitted
    BY <1>1 DEF HeadsCommitted, HeadCommitted, IdleCall, NoHead
  <2>2. Requests \subseteq Calls /\ Events \subseteq Calls
    BY AuditAssumption
  <2> QED
    BY <1>1, <1>3, <2>1, <2>2 DEF CallsOK, EventCallOK, RequestCallOK, IdleCall, AuditInit
<1>6. RowsOK
  <2>1. /\ db = [t \in Tables |-> IF t = "activity_records" THEN LegacyRows ELSE {}]
        /\ Activities = LegacyRows /\ orphans = {}
    BY DEF AuditInit, InitSystemRecord, Activities, Tables
  <2>2. \A r \in LegacyRows : r.chain_seq = 0
    BY LegacyAssumption DEF plain_row
  <2>3. DbTypeOK
    BY <2>1, <2>2 DEF DbTypeOK, StatementTypeOK
  <2>4. AllChained = {}
    BY <2>1, <2>2 DEF AllChained, Activities
  <2>5. DbInv
    BY <2>1, <2>3, <2>4, LegacyAssumption
    DEF DbInv, KeysUnique, PlacesUnique, Linked, Contiguous, HasLast, UnchainedIsLegacy
  <2> QED
    BY <2>1, <2>5 DEF RowsOK, Activities
<1>7. DrainOK
  BY DEF AuditInit, DrainOK, DrainLosesNothing, NoTask
<1> QED
  BY <1>4, <1>5, <1>6, <1>7 DEF AuditInv

LEMMA RecordKeeps ==
    ASSUME AuditInv, NEW c \in Calls, Record(c)
    PROVE  AuditInv'
<1>1. PICK s :
        /\ PlainCall(request[c], s) /\ s.pc # "idle"
        /\ s.head = NoHead \/ HeadCommitted(chain_key(request[c]), s.head)
        /\ call[c].pc \notin {"idle", "done"}
        /\ Become(c, s)
        /\ UNCHANGED request
        /\ \A stmt \in orphans' : StatementOK(stmt)
        /\ UNCHANGED db \/ \E stmt : StatementOK(stmt) /\ execute(stmt)
  BY RecordMoves DEF Record
<1>2. /\ DOMAIN call' = Calls
      /\ \A d \in Calls : call'[d] = IF d = c THEN s ELSE call[d]
  BY <1>1 DEF AuditInv, CallsOK, Become
<1>3. UNCHANGED <<configured, handler, bound, task, process, draining>>
  BY DEF Record, serviceVars
<1>4. RowsOK' /\ AllChained \subseteq AllChained'
  <2>1. TasksStay
    BY <1>3 DEF TasksStay
  <2> QED
    BY <1>1, <2>1, RowsStay DEF AuditInv
<1>5. \A d \in Calls : PlainCall(request[d], call[d])'
  BY <1>1, <1>2 DEF AuditInv, CallsOK, PlainCall, CallTypeOK
<1>6. CallsOK'
  <2>1. HeadsCommitted'
    BY <1>1, <1>2, <1>4 DEF AuditInv, CallsOK, HeadsCommitted, HeadCommitted, NoHead
  <2>2. \A e \in Events : EventCallOK(e)'
    BY <1>1, <1>2, <1>3, AuditAssumption DEF AuditInv, CallsOK, EventCallOK, InteractionOf
  <2>3. \A q \in Requests : RequestCallOK(q)'
    BY <1>1, <1>2, <1>3, AuditAssumption DEF AuditInv, CallsOK, RequestCallOK
  <2> QED
    BY <1>1, <1>2, <1>5, <2>1, <2>2, <2>3 DEF AuditInv, CallsOK
<1>7. ServiceOK'
  <2>1. \A d \in Calls : IsRequest(request[d])' /\ CallTypeOK(request[d], call[d])'
    BY <1>5 DEF PlainCall
  <2> QED
    BY <1>3, <2>1 DEF AuditInv, ServiceOK, AuditTypeOK, ContextOf
<1>8. \A e \in Events : ended(e) => ended(e)'
  BY <1>1, <1>2, <1>3, AuditAssumption DEF ended
<1>9. DrainOK'
  BY <1>3, <1>8 DEF AuditInv, DrainOK, DrainLosesNothing
<1> QED
  BY <1>4, <1>6, <1>7, <1>9 DEF AuditInv

\* A call of the service is made; its arguments fit what it is for.
LEMMA CallKeeps ==
    ASSUME AuditInv, NEW c \in Calls, call[c].pc = "idle",
           NEW r, IsRequest(r), r.related = << >>, r.api \in RetryingApis, Call(c, r),
           TasksStay,
           \A q \in Requests : handler[q] # "expected" => handler'[q] # "expected",
           c \in Requests => r.api = "record_interaction" /\ handler'[c] # "expected",
           c \in Events => /\ r.api = "record_activity" /\ r.activity_id = c
                          /\ r.interaction.id = InteractionOf(c)'
                          /\ task'[c].state = "running"
    PROVE  /\ CallsOK' /\ RowsOK'
           /\ \A d \in Calls : d # c => call'[d] = call[d]
<1>1. PICK s : /\ PlainCall(r, s) /\ s.pc # "idle" /\ s.head = NoHead
               /\ Become(c, s)
               /\ request' = [request EXCEPT ![c] = r]
               /\ UNCHANGED <<db, append_only, orphans>>
  BY CallMade DEF AuditInv, CallsOK
<1>2. /\ DOMAIN call' = Calls /\ DOMAIN request' = Calls
      /\ \A d \in Calls : call'[d] = IF d = c THEN s ELSE call[d]
      /\ \A d \in Calls : request'[d] = IF d = c THEN r ELSE request[d]
  BY <1>1 DEF AuditInv, CallsOK, Become
<1>3. RowsOK' /\ AllChained \subseteq AllChained'
  BY <1>1, RowsStay DEF AuditInv, RowsOK
<1>4. \A d \in Calls : PlainCall(request[d], call[d])'
  BY <1>1, <1>2 DEF AuditInv, CallsOK, PlainCall, CallTypeOK
<1>5. HeadsCommitted'
  BY <1>1, <1>2, <1>3 DEF AuditInv, CallsOK, HeadsCommitted, HeadCommitted, NoHead
<1>6. \A e \in Events : EventCallOK(e)'
  BY <1>1, <1>2, AuditAssumption DEF AuditInv, CallsOK, EventCallOK, InteractionOf, TasksStay
<1>7. \A q \in Requests : RequestCallOK(q)'
  BY <1>1, <1>2, AuditAssumption DEF AuditInv, CallsOK, RequestCallOK
<1> QED
  BY <1>2, <1>3, <1>4, <1>5, <1>6, <1>7 DEF CallsOK

LEMMA EnterKeeps ==
    ASSUME AuditInv, NEW q \in Requests, Enter(q)
    PROVE  AuditInv'
<1>0. q \in Calls /\ q \in Sources /\ q \notin Events
  BY AuditAssumption DEF Sources
<1>1. /\ handler[q] = "expected" /\ process = "serving"
      /\ UNCHANGED <<configured, task, process, draining>>
  BY DEF Enter
<1>2. PICK context \in ingress_contexts(q) :
          /\ bound' = [bound EXCEPT ![q] = context]
          /\ IF configured
             THEN /\ Call(q, interaction_request(context))
                  /\ handler' = [handler EXCEPT ![q] = "entering"]
             ELSE /\ handler' = [handler EXCEPT ![q] = "running"]
                  /\ UNCHANGED vars
  BY DEF Enter
<1>3. TasksStay
  BY <1>1 DEF TasksStay
<1>4. /\ handler' \in [Sources -> {"expected", "entering", "running", "answered"}]
      /\ handler'[q] \in {"entering", "running"}
      /\ \A p \in Sources : p # q => handler'[p] = handler[p]
  <2>1. handler \in [Sources -> {"expected", "entering", "running", "answered"}]
    BY DEF AuditInv, ServiceOK, AuditTypeOK
  <2>2. PICK h \in {"entering", "running"} : handler' = [handler EXCEPT ![q] = h]
    BY <1>2
  <2> QED
    BY <1>0, <2>1, <2>2
<1>5. \A p \in Requests : handler[p] # "expected" => handler'[p] # "expected"
  BY <1>4 DEF Sources
<1>6. CallsOK' /\ RowsOK' /\ \A d \in Calls : d # q => call'[d] = call[d]
  <2>1. CASE configured
    <3> DEFINE r == interaction_request(context)
    <3>1. IsRequest(r) /\ r.related = << >> /\ r.api = "record_interaction"
      BY MadeRequests
    <3>2. call[q].pc = "idle"
      BY <1>1 DEF AuditInv, CallsOK, RequestCallOK
    <3>3. Call(q, r)
      BY <1>2, <2>1
    <3> HIDE DEF r
    <3> QED
      BY <1>0, <1>3, <1>4, <1>5, <3>1, <3>2, <3>3, CallKeeps DEF RetryingApis
  <2>2. CASE ~configured
    BY <1>2, <1>3, <1>5, <2>2, ServiceStepKeeps DEF vars
  <2> QED
    BY <2>1, <2>2
<1>7. ServiceOK'
  <2>1. \A d \in Calls : IsRequest(request[d])' /\ CallTypeOK(request[d], call[d])'
    BY <1>6 DEF CallsOK, PlainCall
  <2>2. \A p \in Sources : /\ bound'[p] \in ContextOf(p)
                           /\ handler'[p] \in {"expected", "answered"} => bound'[p] = NoContext
    <3>1. \A p \in Sources : bound'[p] = IF p = q THEN context ELSE bound[p]
      BY <1>0, <1>2 DEF AuditInv, ServiceOK
    <3> QED
      BY <1>4, <3>1 DEF AuditInv, ServiceOK, AuditTypeOK, ContextOf
  <2>3. /\ DOMAIN task = Events
        /\ \A e \in Events :
              /\ task[e].state \in {"none", "scheduled", "running", "cancelled"}
              /\ task[e].context \in ContextOf(Owner[e])
              /\ task[e].performed_by \in {None, "given", "principal"}
              /\ DOMAIN task[e] = TaskFields
        /\ configured \in BOOLEAN /\ draining \subseteq Events
    BY DEF AuditInv, ServiceOK, AuditTypeOK
  <2>4. /\ \A e \in Events : ContextOf(Owner[e])' = ContextOf(Owner[e])
        /\ \A p \in Sources : ContextOf(p)' = ContextOf(p)
    BY DEF ContextOf, ingress_contexts
  <2>5. DOMAIN bound' = Sources
    BY <1>2 DEF AuditInv, ServiceOK
  <2> QED
    BY <1>1, <1>4, <2>1, <2>2, <2>3, <2>4, <2>5 DEF ServiceOK, AuditTypeOK
<1>8. \A e \in Events : ended(e) => ended(e)'
  BY <1>0, <1>1, <1>6, AuditAssumption DEF ended
<1>9. DrainOK'
  BY <1>1 DEF AuditInv, DrainOK, DrainLosesNothing
<1> QED
  BY <1>6, <1>7, <1>9 DEF AuditInv

LEMMA StartTaskKeeps ==
    ASSUME AuditInv, NEW e \in Events, StartTask(e)
    PROVE  AuditInv'
<1> DEFINE t       == task[e]
           context == interaction_context_for_event(e, t.context, t.tenant, t.performed_by)
           r       == activity_request(e, context, t.performed_by)
<1>0. e \in Calls /\ e \notin Requests
  BY AuditAssumption DEF Sources
<1>1. /\ t.state = "scheduled" /\ process # "stopped" /\ Call(e, r)
      /\ task' = [task EXCEPT ![e].state = "running"]
      /\ UNCHANGED <<configured, handler, bound, process, draining>>
  BY DEF StartTask, task_context
<1>2. t.context \in ContextOf(Owner[e]) /\ DOMAIN t = TaskFields /\ DOMAIN task = Events
  BY DEF AuditInv, ServiceOK, AuditTypeOK
<1>3. /\ DOMAIN task' = Events
      /\ \A d \in Events : d # e => task'[d] = task[d]
      /\ DOMAIN task'[e] = TaskFields /\ task'[e].state = "running"
      /\ task'[e].context = t.context /\ task'[e].performed_by = t.performed_by
  BY <1>1, <1>2 DEF TaskFields
<1>4. TasksStay
  BY <1>3 DEF TasksStay
<1>5. /\ IsRequest(r) /\ r.related = << >> /\ r.api = "record_activity"
      /\ r.activity_id = e /\ r.interaction.id = context.id
  BY MadeRequests
<1>6. context.id = InteractionOf(e)'
  BY <1>2, <1>3, ContextForEvent DEF InteractionOf
<1>7. call[e].pc = "idle"
  BY <1>1 DEF AuditInv, CallsOK, EventCallOK
<1>8. CallsOK' /\ RowsOK' /\ \A d \in Calls : d # e => call'[d] = call[d]
  <2> HIDE DEF r, context
  <2> QED
    BY <1>0, <1>1, <1>3, <1>4, <1>5, <1>6, <1>7, CallKeeps DEF RetryingApis
<1>9. ServiceOK'
  <2>1. \A d \in Calls : IsRequest(request[d])' /\ CallTypeOK(request[d], call[d])'
    BY <1>8 DEF CallsOK, PlainCall
  <2> QED
    BY <1>1, <1>3, <2>1 DEF AuditInv, ServiceOK, AuditTypeOK, ContextOf
<1>10. \A d \in Events : ended(d) => ended(d)'
  BY <1>1, <1>3, <1>8, AuditAssumption DEF ended
<1>11. DrainOK'
  <2>1. \A d \in Events : task'[d].state = "none" <=> task[d].state = "none"
    BY <1>1, <1>3
  <2>2. DrainLosesNothing'
    BY <1>1, <1>7, <1>10, <2>1 DEF AuditInv, DrainOK, DrainLosesNothing, ended
  <2> QED
    BY <1>1, <1>10, <2>1, <2>2 DEF AuditInv, DrainOK
<1> QED
  BY <1>8, <1>9, <1>11 DEF AuditInv

\* A request or job moves on; when it has been answered its context is unbound.
LEMMA HandlerKeeps ==
    ASSUME AuditInv, NEW q \in Sources, NEW h \in {"running", "answered"},
           handler' = [handler EXCEPT ![q] = h],
           \/ bound' = bound /\ h = "running"
           \/ bound' = [bound EXCEPT ![q] = NoContext],
           q \in Requests /\ h = "running" => process = "serving",
           UNCHANGED <<vars, configured, task, process, draining>>
    PROVE  AuditInv'
<1>1. /\ handler' \in [Sources -> {"expected", "entering", "running", "answered"}]
      /\ \A p \in Sources : handler'[p] = IF p = q THEN h ELSE handler[p]
  BY DEF AuditInv, ServiceOK, AuditTypeOK
<1>2. /\ DOMAIN bound' = Sources
      /\ \A p \in Sources :
            \/ bound'[p] = bound[p] /\ (p = q => h = "running")
            \/ bound'[p] = NoContext
  BY DEF AuditInv, ServiceOK
<1>3. Requests \subseteq Sources
  BY DEF Sources
<1>4. CallsOK' /\ RowsOK'
  <2>1. TasksStay
    BY DEF TasksStay
  <2> QED
    BY <1>1, <1>3, <2>1, ServiceStepKeeps
<1>5. ServiceOK'
  <2>1. \A p \in Sources : /\ bound'[p] \in ContextOf(p)
                           /\ handler'[p] \in {"expected", "answered"} => bound'[p] = NoContext
    BY <1>1, <1>2 DEF AuditInv, ServiceOK, AuditTypeOK, ContextOf
  <2>2. \A p : ContextOf(p)' = ContextOf(p)
    BY DEF ContextOf, ingress_contexts
  <2>3. \A c \in Calls : IsRequest(request[c])' /\ CallTypeOK(request[c], call[c])'
    BY <1>4 DEF CallsOK, PlainCall
  <2> QED
    BY <1>1, <1>2, <2>1, <2>2, <2>3 DEF AuditInv, ServiceOK, AuditTypeOK
<1>6. \A e \in Events : ended(e)' <=> ended(e)
  BY DEF ended, vars
<1>7. DrainOK'
  BY <1>1, <1>3, <1>6 DEF AuditInv, DrainOK, DrainLosesNothing
<1> QED
  BY <1>4, <1>5, <1>7 DEF AuditInv

LEMMA PublishKeeps ==
    ASSUME AuditInv, NEW e \in Events, Publish(e)
    PROVE  AuditInv'
<1> DEFINE context == bound[Owner[e]]
<1>0. Owner[e] \in Sources /\ context \in ContextOf(Owner[e])
  BY AuditAssumption DEF AuditInv, ServiceOK, AuditTypeOK
<1>1. PICK tenant \in Projects :
          task' = [task EXCEPT ![e] =
                     [state        |-> "scheduled",
                      context      |-> context,
                      tenant       |-> tenant,
                      performed_by |-> resolve_performed_by(context, "given")]]
  BY DEF Publish
<1>2. /\ handler[Owner[e]] = "running" /\ task[e].state = "none"
      /\ UNCHANGED <<vars, configured, handler, bound, process, draining>>
  BY DEF Publish
<1>3. resolve_performed_by(context, "given") \in {"given", "principal"}
  BY <1>0, BoundContext DEF resolve_performed_by
<1>4. /\ DOMAIN task' = Events
      /\ \A d \in Events : d # e => task'[d] = task[d]
      /\ DOMAIN task'[e] = TaskFields /\ task'[e].state = "scheduled"
      /\ task'[e].context = context /\ task'[e].performed_by \in {"given", "principal"}
  BY <1>1, <1>3 DEF AuditInv, ServiceOK, AuditTypeOK, TaskFields
<1>5. CallsOK' /\ RowsOK'
  <2>1. TasksStay
    BY <1>2, <1>4 DEF TasksStay
  <2> QED
    BY <1>2, <2>1, ServiceStepKeeps
<1>6. ServiceOK'
  <2>1. \A p : ContextOf(p)' = ContextOf(p)
    BY DEF ContextOf, ingress_contexts
  <2>2. \A c \in Calls : IsRequest(request[c])' /\ CallTypeOK(request[c], call[c])'
    BY <1>5 DEF CallsOK, PlainCall
  <2> HIDE DEF context
  <2> QED
    BY <1>0, <1>2, <1>4, <2>1, <2>2 DEF AuditInv, ServiceOK, AuditTypeOK
<1>7. \A d \in Events : ended(d) => ended(d)'
  BY <1>2, <1>4 DEF ended, vars
<1>8. DrainOK'
  <2>1. process # "serving" => Owner[e] \notin Requests
    BY <1>2 DEF AuditInv, DrainOK
  <2>2. \A d \in Events : d # e => task'[d] = task[d]
    BY <1>4
  <2>3. task'[e].state = "scheduled" /\ UNCHANGED <<process, draining, handler>>
    BY <1>2, <1>4
  <2>4. DrainLosesNothing'
    BY <1>7, <2>1, <2>2, <2>3 DEF AuditInv, DrainOK, DrainLosesNothing
  <2>5. process = "draining" =>
            \A d \in Events : Owner[d] \in Requests =>
                (task[d].state = "none" \/ ended(d))' \/ d \in draining
    BY <1>7, <2>1, <2>2 DEF AuditInv, DrainOK
  <2> QED
    BY <2>2, <2>3, <2>4, <2>5 DEF AuditInv, DrainOK
<1> QED
  BY <1>5, <1>6, <1>8 DEF AuditInv

LEMMA StopKeeps ==
    ASSUME AuditInv, StopProcess
    PROVE  AuditInv'
<1> DEFINE cut     == {e \in Events : task[e].state = "scheduled" \/
                                     (task[e].state = "running" /\ ~ended(e))}
           writing == {e \in cut : call[e].pc \in {"interaction", "activity", "visibility"}}
<1>1. /\ process = "closed" /\ process' = "stopped"
      /\ task' = [e \in Events |-> IF e \in cut THEN [task[e] EXCEPT !.state = "cancelled"]
                                   ELSE task[e]]
      /\ orphans' = orphans \cup {statement(e) : e \in writing}
      /\ UNCHANGED <<db, append_only, request, call, configured, handler, bound, draining>>
  BY DEF StopProcess
<1>2. /\ DOMAIN task' = Events
      /\ \A e \in Events \ cut : task'[e] = task[e]
      /\ \A e \in cut : /\ DOMAIN task'[e] = TaskFields /\ task'[e].state = "cancelled"
                        /\ task'[e].context = task[e].context
                        /\ task'[e].performed_by = task[e].performed_by
  BY <1>1 DEF AuditInv, ServiceOK, AuditTypeOK, TaskFields
<1>3. TasksStay
  BY <1>2 DEF TasksStay
<1>4. \A stmt \in orphans' : StatementOK(stmt)
  <2>1. \A e \in writing : StatementOK(statement(e))
    BY StatementOfService, AuditAssumption DEF Writing
  <2> QED
    BY <1>1, <2>1 DEF AuditInv, RowsOK
<1>5. RowsOK' /\ AllChained \subseteq AllChained'
  BY <1>1, <1>3, <1>4, RowsStay DEF AuditInv
<1>6. CallsOK'
  BY <1>1, <1>3, <1>5, CallsStay DEF AuditInv
<1>7. ServiceOK'
  <2>1. \A p : ContextOf(p)' = ContextOf(p)
    BY DEF ContextOf, ingress_contexts
  <2>2. \A c \in Calls : IsRequest(request[c])' /\ CallTypeOK(request[c], call[c])'
    BY <1>6 DEF CallsOK, PlainCall
  <2> HIDE DEF cut
  <2> QED
    BY <1>1, <1>2, <2>1, <2>2 DEF AuditInv, ServiceOK, AuditTypeOK
<1>8. DrainOK'
  <2>1. \A e \in Events : task[e].state = "none" \/ ended(e) => e \notin cut
    BY DEF ended
  <2>2. \A e \in Events : ended(e) => ended(e)'
    BY <1>1, <1>2, <2>1 DEF ended
  <2> HIDE DEF cut
  <2> QED
    BY <1>1, <1>2, <2>1, <2>2 DEF AuditInv, DrainOK, DrainLosesNothing
<1> QED
  BY <1>5, <1>6, <1>7, <1>8 DEF AuditInv

\* The drain begins, ends or gives up.
LEMMA CloseKeeps ==
    ASSUME AuditInv, BeginClose \/ FinishClose \/ StopWaiting
    PROVE  AuditInv'
<1>1. /\ UNCHANGED <<vars, configured, handler, bound, task>>
      /\ process' \in {"draining", "closed"} /\ draining' \subseteq Events
  BY DEF BeginClose, FinishClose, StopWaiting, pending_tasks, AuditInv, ServiceOK, AuditTypeOK
<1>2. CallsOK' /\ RowsOK'
  <2>1. TasksStay
    BY <1>1 DEF TasksStay
  <2> QED
    BY <1>1, <2>1, ServiceStepKeeps
<1>3. ServiceOK'
  <2>1. \A p : ContextOf(p)' = ContextOf(p)
    BY DEF ContextOf, ingress_contexts
  <2>2. \A c \in Calls : IsRequest(request[c])' /\ CallTypeOK(request[c], call[c])'
    BY <1>2 DEF CallsOK, PlainCall
  <2> QED
    BY <1>1, <2>1, <2>2 DEF AuditInv, ServiceOK, AuditTypeOK
<1>4. \A e \in Events : ended(e)' <=> ended(e)
  BY <1>1 DEF ended, vars
<1>5. DrainOK'
  <2>1. CASE BeginClose
    <3>1. process = "serving" /\ process' = "draining" /\ draining' = pending_tasks
          /\ \A q \in Requests : handler[q] \notin {"entering", "running"}
      BY <2>1 DEF BeginClose
    <3>2. \A e \in Events : task[e].state = "none" \/ ended(e) \/ e \in pending_tasks
      BY <3>1 DEF pending_tasks, AuditInv, ServiceOK, AuditTypeOK, DrainOK
    <3> QED
      BY <1>1, <1>4, <3>1, <3>2 DEF AuditInv, DrainOK, DrainLosesNothing
  <2>2. CASE FinishClose
    BY <1>1, <1>4, <2>2 DEF FinishClose, AuditInv, DrainOK, DrainLosesNothing
  <2>3. CASE StopWaiting
    BY <1>1, <1>4, <2>3 DEF StopWaiting, AuditInv, DrainOK, DrainLosesNothing
  <2> QED
    BY <2>1, <2>2, <2>3
<1> QED
  BY <1>2, <1>3, <1>5 DEF AuditInv

LEMMA OrphanKeeps ==
    ASSUME AuditInv, NEW stmt \in orphans, ExecuteOrphan(stmt), UNCHANGED serviceVars
    PROVE  AuditInv'
<1>1. /\ execute(stmt) /\ orphans' \subseteq orphans /\ UNCHANGED <<append_only, request, call>>
      /\ UNCHANGED <<configured, handler, bound, task, process, draining>>
  BY DEF ExecuteOrphan, serviceVars
<1>2. TasksStay
  BY <1>1 DEF TasksStay
<1>3. RowsOK' /\ AllChained \subseteq AllChained'
  BY <1>1, <1>2, RowsStay DEF AuditInv, RowsOK
<1>4. CallsOK'
  BY <1>1, <1>2, <1>3, CallsStay DEF AuditInv
<1>5. ServiceOK'
  <2>1. \A p : ContextOf(p)' = ContextOf(p)
    BY DEF ContextOf, ingress_contexts
  <2>2. \A c \in Calls : IsRequest(request[c])' /\ CallTypeOK(request[c], call[c])'
    BY <1>4 DEF CallsOK, PlainCall
  <2> QED
    BY <1>1, <2>1, <2>2 DEF AuditInv, ServiceOK, AuditTypeOK
<1>6. DrainOK'
  BY <1>1 DEF AuditInv, DrainOK, DrainLosesNothing, ended
<1> QED
  BY <1>3, <1>4, <1>5, <1>6 DEF AuditInv

LEMMA AuditNextInv == AuditInv /\ [AuditNext]_allVars => AuditInv'
<1> SUFFICES ASSUME AuditInv, [AuditNext]_allVars PROVE AuditInv'
  OBVIOUS
<1>0. Requests \subseteq Sources /\ Jobs \subseteq Sources /\ Jobs \cap Requests = {}
      /\ \A e \in Events : Owner[e] \in Sources
  BY AuditAssumption DEF Sources
<1>1. ASSUME NEW q \in Requests, Enter(q) PROVE AuditInv'
  BY <1>1, EnterKeeps
<1>2. ASSUME NEW q \in Requests, FailToBind(q) PROVE AuditInv'
  BY <1>0, <1>2, HandlerKeeps DEF FailToBind
<1>3. ASSUME NEW q \in Requests, CallNext(q) PROVE AuditInv'
  <2>1. process = "serving"
    BY <1>3 DEF CallNext, AuditInv, DrainOK
  <2> QED
    BY <1>0, <1>3, <2>1, HandlerKeeps DEF CallNext
<1>4. ASSUME NEW j \in Jobs, StartJob(j) PROVE AuditInv'
  BY <1>0, <1>4, HandlerKeeps DEF StartJob
<1>5. ASSUME NEW q \in Sources, Answer(q) PROVE AuditInv'
  BY <1>5, HandlerKeeps DEF Answer, leave
<1>6. ASSUME NEW e \in Events, Publish(e) PROVE AuditInv'
  BY <1>6, PublishKeeps
<1>7. ASSUME NEW e \in Events, RefuseToPublish(e) PROVE AuditInv'
  BY <1>0, <1>7, HandlerKeeps DEF RefuseToPublish, leave
<1>8. ASSUME NEW e \in Events, StartTask(e) PROVE AuditInv'
  BY <1>8, StartTaskKeeps
<1>9. ASSUME NEW c \in Calls, Record(c) PROVE AuditInv'
  BY <1>9, RecordKeeps
<1>10. ASSUME NEW stmt \in orphans, ExecuteOrphan(stmt), UNCHANGED serviceVars PROVE AuditInv'
  BY <1>10, OrphanKeeps
<1>11. CASE BeginClose \/ FinishClose \/ StopWaiting
  BY <1>11, CloseKeeps
<1>12. CASE StopProcess
  BY <1>12, StopKeeps
<1>13. CASE UNCHANGED allVars
  <2>1. UNCHANGED <<db, append_only, request, call, orphans,
                    configured, handler, bound, task, process, draining>>
    BY <1>13 DEF allVars, vars, serviceVars
  <2>2. TasksStay
    BY <2>1 DEF TasksStay
  <2>3. CallsOK' /\ RowsOK'
    BY <2>1, <2>2, ServiceStepKeeps DEF vars
  <2>4. ServiceOK'
    <3>1. \A p : ContextOf(p)' = ContextOf(p)
      BY DEF ContextOf, ingress_contexts
    <3>2. \A c \in Calls : IsRequest(request[c])' /\ CallTypeOK(request[c], call[c])'
      BY <2>3 DEF CallsOK, PlainCall
    <3> QED
      BY <2>1, <3>1, <3>2 DEF AuditInv, ServiceOK, AuditTypeOK
  <2>5. DrainOK'
    BY <2>1 DEF AuditInv, DrainOK, DrainLosesNothing, ended
  <2> QED
    BY <2>3, <2>4, <2>5 DEF AuditInv
<1> QED
  BY <1>1, <1>2, <1>3, <1>4, <1>5, <1>6, <1>7, <1>8, <1>9, <1>10, <1>11, <1>12, <1>13
  DEF AuditNext

-----------------------------------------------------------------------------
(***************************************************************************)
(* Interaction rows.  The statements of different calls that write the row *)
(* of one interaction are the same: a context is bound once, an event's    *)
(* task has a copy of it, and the check of the scope refuses an event that *)
(* would put its tenant for the project the context has not.  So the row   *)
(* of an interaction is the one its id's own call would write.             *)
(***************************************************************************)
\* The context is the one request q's call of the recorder was made with.
Given(q, context) ==
    /\ q \in Requests
    /\ call[q].pc # "idle"
    /\ request[q].interaction = recorder_interaction(context)

ContextsStand ==
    /\ \A q \in Sources : configured /\ bound[q] # NoContext => Given(q, bound[q])
    /\ \A e \in Events :
          /\ task[e].context # NoContext => Given(Owner[e], task[e].context)
          /\ task[e].state # "none" => task[e].tenant \in Projects

\* The interaction of r is that of the call its id names.
Agreed(r) ==
    /\ r.interaction.id \in Calls
    /\ call[r.interaction.id].pc # "idle"
    /\ request[r.interaction.id].interaction = r.interaction

CallStands(c) ==
    /\ call[c].pc \notin {"idle", "done"} => Agreed(request[c])
    /\ call[c].pc \in {"chain_head", "activity"} => InteractionDurable(c)
    /\ call[c].error # "conflict"

\* A row of an interaction or of an activity is the one its id's call writes,
\* and an activity's interaction is committed.
RowStands(table, row) ==
    /\ table = "interaction_records" =>
          /\ row.key \in Calls /\ call[row.key].pc # "idle"
          /\ row.compare = interaction_row(request[row.key]).compare
    /\ table = "activity_records" =>
          /\ row.key \in Events /\ call[row.key].pc # "idle"
          /\ row.compare = activity_fields(request[row.key])
          /\ \E i \in db["interaction_records"] :
                i.key = row.compare.interaction_id /\ i.compare.project_id = row.compare.project_id

RowsStand ==
    /\ \A i \in db["interaction_records"] : RowStands("interaction_records", i)
    /\ \A r \in db["activity_records"] \ LegacyRows : RowStands("activity_records", r)
    /\ \A stmt \in orphans : RowStands(stmt.table, stmt.row)

StandInv == ContextsStand /\ RowsStand /\ \A c \in Calls : CallStands(c)

\* What holds of a call that was made goes on holding.
CallsAdvance ==
    /\ \A c \in Calls : call[c].pc # "idle" => call'[c].pc # "idle" /\ request'[c] = request[c]
    /\ db["interaction_records"] \subseteq db'["interaction_records"]

LEMMA GivenStays ==
    ASSUME CallsAdvance, NEW q, NEW context, Given(q, context)
    PROVE  Given(q, context)'
  BY AuditAssumption DEF Given, CallsAdvance, recorder_interaction

LEMMA AgreedStays ==
    ASSUME CallsAdvance, NEW r, Agreed(r)
    PROVE  Agreed(r)'
  BY DEF Agreed, CallsAdvance

LEMMA RowStandsStill ==
    ASSUME CallsAdvance, NEW table, NEW row, RowStands(table, row)
    PROVE  RowStands(table, row)'
<1>1. CASE table = "interaction_records"
  BY <1>1, AuditAssumption DEF RowStands, CallsAdvance, interaction_row, plain_row
<1>2. CASE table = "activity_records"
  BY <1>2, AuditAssumption DEF RowStands, CallsAdvance, activity_fields
<1> QED
  BY <1>1, <1>2 DEF RowStands

LEMMA CallStandsStill ==
    ASSUME CallsAdvance, NEW c, CallStands(c), UNCHANGED <<request[c], call[c]>>
    PROVE  CallStands(c)'
<1>1. Agreed(request[c]) => Agreed(request[c])'
  BY DEF Agreed, CallsAdvance
<1>2. InteractionDurable(c) => InteractionDurable(c)'
  BY DEF InteractionDurable, InTable, CallsAdvance, interaction_row, plain_row
<1> QED
  BY <1>1, <1>2 DEF CallStands

\* What a call has under way fits the rows that are there.
LEMMA StatementStands ==
    ASSUME AuditInv, StandInv, NEW c \in Calls, call[c].pc \in Writing
    PROVE  RowStands(statement(c).table, statement(c).row)
<1> DEFINE r == request[c]
<1>1. Agreed(r)
  BY DEF StandInv, CallStands, Writing
<1>2. CASE call[c].pc = "interaction"
  <2>1. PICK row : row = interaction_row(r)
    OBVIOUS
  <2>2. statement(c) = [table |-> "interaction_records", row |-> row]
    BY <1>2, <2>1 DEF statement
  <2>3. /\ row.key = r.interaction.id
        /\ row.compare = interaction_row(request[r.interaction.id]).compare
    BY <1>1, <2>1 DEF Agreed, interaction_row, plain_row
  <2> QED
    BY <1>1, <2>2, <2>3 DEF RowStands, Agreed
<1>3. CASE call[c].pc = "activity"
  <2>1. PICK row : row = chain_activity_record(r, call[c].head)
    OBVIOUS
  <2>2. statement(c) = [table |-> "activity_records", row |-> row]
    BY <1>3, <2>1 DEF statement
  <2>3. r.api = "record_activity"
    BY <1>3 DEF AuditInv, CallsOK, PlainCall
  <2>4. c \in Events /\ EventCallOK(c)
    BY <1>3, <2>3, AuditAssumption DEF AuditInv, CallsOK, RequestCallOK
  <2>5. row.key = c /\ row.compare = activity_fields(r)
    BY <1>3, <2>1, <2>4 DEF chain_activity_record, EventCallOK
  <2>6. PICK i \in db["interaction_records"] :
           i.key = interaction_row(r).key /\ i.compare = interaction_row(r).compare
    BY <1>3 DEF StandInv, CallStands, InteractionDurable, InTable
  <2>7. /\ i.key = row.compare.interaction_id
        /\ i.compare.project_id = row.compare.project_id
    BY <2>5, <2>6 DEF interaction_row, plain_row, activity_fields
  <2> QED
    BY <1>3, <2>2, <2>4, <2>5, <2>7 DEF RowStands
<1>4. CASE call[c].pc = "visibility"
  BY <1>4 DEF statement, RowStands
<1> QED
  BY <1>2, <1>3, <1>4 DEF Writing

\* A row with the key of such a statement is the same row.
LEMMA NeverConflicts ==
    ASSUME RowsStand, NEW stmt, RowStands(stmt.table, stmt.row),
           stmt.table \in {"interaction_records", "activity_records"}
    PROVE  outcome(stmt) # "conflict"
<1>1. ASSUME NEW r \in db[stmt.table], r.key = stmt.row.key PROVE r.compare = stmt.row.compare
  <2>1. CASE stmt.table = "interaction_records"
    BY <1>1, <2>1 DEF RowsStand, RowStands
  <2>2. CASE stmt.table = "activity_records"
    BY <1>1, <2>2, AuditAssumption DEF RowsStand, RowStands
  <2> QED
    BY <2>1, <2>2
<1> QED
  BY <1>1 DEF outcome, key_taken, same_row

LEMMA FailureStands ==
    ASSUME NEW r, NEW s, PlainCall(r, s), has_interaction(r), NEW error,
           error # "conflict", s.error # "conflict"
    PROVE  /\ after_failure(r, s, error).error # "conflict"
           /\ after_failure(r, s, error).pc \in {"interaction", "visibility"}
<1>1. DOMAIN s = DOMAIN IdleCall /\ r.api \in RetryingApis
  BY DEF PlainCall, CallTypeOK
<1>2. first_step(r) = "interaction"
  BY <1>1 DEF first_step, RetryingApis, ActivityApis
<1> QED
  BY <1>1, <1>2 DEF after_failure, begin_attempt, IdleCall

\* A step of a call: what it then awaits it may await, and no answer to its
\* statements is a conflict.
LEMMA RecordStands ==
    ASSUME AuditInv, StandInv, NEW c \in Calls, Answered(c) \/ Lose(c)
    PROVE  /\ \E s : /\ Become(c, s)
                     /\ s.error # "conflict"
                     /\ s.pc \in {"chain_head", "activity"} => InteractionDurable(c)'
           /\ Agreed(request[c])
           /\ \A stmt \in orphans' : RowStands(stmt.table, stmt.row)
<1> DEFINE r == request[c]
           s0 == call[c]
<1>0. PlainCall(r, s0) /\ s0.error # "conflict" /\ s0.pc \notin {"idle", "done", "related"}
  BY DEF AuditInv, CallsOK, StandInv, CallStands, PlainCall, Answered, WriteInteraction,
         ReadChainHead, WriteActivity, WriteRelated, RejectRelated, WriteFailureRow, Lose
<1>1. Agreed(r) /\ has_interaction(r)
  BY <1>0, AuditAssumption DEF StandInv, CallStands, Agreed, has_interaction
<1>2. \A stmt \in orphans : RowStands(stmt.table, stmt.row)
  BY DEF StandInv, RowsStand
<1>3. DOMAIN s0 = DOMAIN IdleCall
  BY <1>0 DEF PlainCall, CallTypeOK
<1>4. s0.pc \in {"interaction", "activity"} => outcome(statement(c)) # "conflict"
  <2>1. s0.pc \in {"interaction", "activity"} =>
           statement(c).table \in {"interaction_records", "activity_records"}
    BY DEF statement
  <2> QED
    BY <2>1, StatementStands, NeverConflicts DEF StandInv, Writing
<1>5. \A status : return(s0, status).error = s0.error /\ return(s0, status).pc = "done"
  BY <1>3 DEF return, IdleCall
<1>6. CASE WriteInteraction(c)
  <2>1. s0.pc = "interaction" /\ execute(statement(c)) /\ UNCHANGED <<request, orphans>>
    BY <1>6 DEF WriteInteraction
  <2>2. CASE ~is_written(outcome(statement(c)))
    BY <1>0, <1>1, <1>2, <1>4, <1>6, <2>1, <2>2, FailureStands DEF WriteInteraction
  <2>3. CASE is_written(outcome(statement(c)))
    <3>1. PICK row : row = interaction_row(r)
      OBVIOUS
    <3>2. statement(c) = [table |-> "interaction_records", row |-> row]
      BY <2>1, <3>1 DEF statement
    <3>3. DbTypeOK /\ StatementTypeOK(statement(c))
      BY <2>1, StatementOfService DEF AuditInv, RowsOK, DbInv, StatementOK, StatementInv, Writing
    <3>4. PICK stmt : stmt = statement(c)
      OBVIOUS
    <3>5. InTable(stmt.table, stmt.row)'
      BY <2>1, <2>3, <3>3, <3>4, WrittenIsInTable
    <3>6. stmt.table = "interaction_records" /\ stmt.row = interaction_row(r)'
      BY <2>1, <3>1, <3>2, <3>4 DEF interaction_row, plain_row
    <3>7. InteractionDurable(c)'
      BY <3>5, <3>6 DEF InteractionDurable, InTable
    <3>8. CASE r.api = "record_interaction"
      BY <1>0, <1>1, <1>2, <1>5, <1>6, <2>1, <2>3, <3>8 DEF WriteInteraction
    <3>9. CASE r.api # "record_interaction"
      <4>1. [s0 EXCEPT !.pc = "chain_head"].error = s0.error
        BY <1>3 DEF IdleCall
      <4> QED
        BY <1>0, <1>1, <1>2, <1>6, <2>1, <2>3, <3>7, <3>9, <4>1 DEF WriteInteraction
    <3> QED
      BY <3>8, <3>9
  <2> QED
    BY <2>2, <2>3
<1>7. CASE ReadChainHead(c)
  <2>1. PICK t : /\ t = [s0 EXCEPT !.pc   = "activity",
                                   !.head = get_activity_chain_head(chain_key(r))]
                 /\ Become(c, t)
    BY <1>7 DEF ReadChainHead
  <2>2. /\ s0.pc = "chain_head" /\ UNCHANGED <<db, request, orphans>>
        /\ t.error = s0.error
    BY <1>3, <1>7, <2>1 DEF ReadChainHead, IdleCall
  <2>3. InteractionDurable(c)'
    BY <2>2 DEF StandInv, CallStands, InteractionDurable, InTable, interaction_row, plain_row
  <2> QED
    BY <1>0, <1>1, <1>2, <2>1, <2>2, <2>3
<1>8. CASE WriteActivity(c)
  <2>1. s0.pc = "activity" /\ UNCHANGED <<request, orphans>>
    BY <1>8 DEF WriteActivity
  <2>2. ~ s0.item < package_size(r)
    BY <1>0 DEF PlainCall, CallTypeOK, package_size
  <2>3. after_related(r, s0).error = s0.error /\ after_related(r, s0).pc = "done"
    BY <1>3, <2>2 DEF after_related, return, IdleCall
  <2>4. CASE is_written(outcome(statement(c)))
    BY <1>0, <1>1, <1>2, <1>8, <2>1, <2>3, <2>4 DEF WriteActivity
  <2>5. CASE ~is_written(outcome(statement(c)))
    BY <1>0, <1>1, <1>2, <1>4, <1>8, <2>1, <2>5, FailureStands DEF WriteActivity
  <2> QED
    BY <2>4, <2>5
<1>9. CASE WriteRelated(c) \/ RejectRelated(c)
  BY <1>0, <1>9 DEF WriteRelated, RejectRelated
<1>10. CASE WriteFailureRow(c)
  <2>1. PICK t : /\ t = [return(s0, "failed") EXCEPT
                           !.failure_visible = is_written(outcome(statement(c)))]
                 /\ Become(c, t)
    BY <1>10 DEF WriteFailureRow
  <2>2. t.error = s0.error /\ t.pc = "done"
    BY <1>3, <2>1 DEF return, IdleCall
  <2> QED
    BY <1>0, <1>1, <1>2, <1>10, <2>1, <2>2 DEF WriteFailureRow
<1>11. CASE Lose(c)
  <2>1. /\ UNCHANGED <<db, request>>
        /\ orphans' = IF s0.pc = "chain_head" THEN orphans
                      ELSE orphans \cup {statement(c)}
        /\ s0.pc \in {"interaction", "chain_head", "activity", "related", "visibility"}
        /\ Become(c, IF s0.pc = "visibility" THEN return(s0, "failed")
                     ELSE after_failure(r, s0, "lost"))
    BY <1>11 DEF Lose
  <2>2. \A stmt \in orphans' : RowStands(stmt.table, stmt.row)
    BY <1>0, <1>2, <2>1, StatementStands DEF Writing
  <2>3. CASE s0.pc = "visibility"
    BY <1>0, <1>1, <1>5, <2>1, <2>2, <2>3
  <2>4. CASE s0.pc # "visibility"
    BY <1>0, <1>1, <2>1, <2>2, <2>4, FailureStands
  <2> QED
    BY <2>3, <2>4
<1> QED
  BY <1>6, <1>7, <1>8, <1>9, <1>10, <1>11 DEF Answered

\* Statements that stand leave rows that stand.
LEMMA RowsStandStill ==
    ASSUME AuditInv, RowsStand, CallsAdvance,
           UNCHANGED db \/ \E stmt : /\ RowStands(stmt.table, stmt.row)
                                     /\ StatementTypeOK(stmt) /\ execute(stmt),
           \A stmt \in orphans' : RowStands(stmt.table, stmt.row)
    PROVE  RowsStand'
<1>1. \A t \in {"interaction_records", "activity_records"} :
         \A r \in db'[t] : r \in db[t] \/ RowStands(t, r)
  <2>1. ASSUME NEW stmt, RowStands(stmt.table, stmt.row), StatementTypeOK(stmt), execute(stmt),
               NEW t \in Tables, NEW r \in db'[t]
        PROVE  r \in db[t] \/ RowStands(t, r)
    <3>1. DbTypeOK
      BY DEF AuditInv, RowsOK, DbInv
    <3>2. /\ outcome(stmt) # "created" => db' = db
          /\ outcome(stmt) = "created" =>
                db'[t] = IF t = stmt.table THEN db[t] \cup {stmt.row} ELSE db[t]
      BY <2>1, <3>1, ExecuteType
    <3>3. CASE outcome(stmt) = "created"
      BY <2>1, <3>2, <3>3
    <3>4. CASE outcome(stmt) # "created"
      BY <2>1, <3>2, <3>4
    <3> QED
      BY <3>3, <3>4
  <2> QED
    BY <2>1 DEF Tables
<1>2. /\ \A i \in db'["interaction_records"] : RowStands("interaction_records", i)
      /\ \A r \in db'["activity_records"] \ LegacyRows : RowStands("activity_records", r)
  BY <1>1 DEF RowsStand
<1> QED
  BY <1>2, RowStandsStill DEF RowsStand

\* A call is made: it awaits its interaction's row, or was refused.
LEMMA CallStarts ==
    ASSUME NEW c \in Calls, DOMAIN call = Calls, DOMAIN request = Calls,
           CallTypeOK(request[c], call[c]), call[c].error # "conflict",
           NEW r, r.api \in RetryingApis, has_interaction(r), Call(c, r)
    PROVE  /\ call'[c].pc = IF r.admissible THEN "interaction" ELSE "done"
           /\ call'[c].error # "conflict"
           /\ request'[c] = r
           /\ \A d \in Calls : d # c => UNCHANGED <<request[d], call[d]>>
           /\ UNCHANGED <<db, orphans>>
<1>1. DOMAIN call[c] = DOMAIN IdleCall
  BY DEF CallTypeOK
<1>2. first_step(r) = "interaction"
  BY DEF first_step, RetryingApis, ActivityApis
<1>3. PICK s : /\ s = IF r.admissible THEN begin_attempt(r, call[c])
                      ELSE return([call[c] EXCEPT !.error = "inadmissible"], "raised")
               /\ call' = [call EXCEPT ![c] = s]
  BY DEF Call, Become
<1>4. /\ s.pc = IF r.admissible THEN "interaction" ELSE "done"
      /\ s.error # "conflict"
  BY <1>1, <1>2, <1>3 DEF begin_attempt, return, IdleCall
<1> QED
  BY <1>3, <1>4 DEF Call

\* A service's own step: contexts are bound, copied and unbound.
LEMMA ServiceStepStands ==
    ASSUME AuditInv, StandInv, UNCHANGED <<vars, configured>>,
           \A q \in Sources : bound'[q] \in {bound[q], NoContext},
           \A e \in Events :
              \/ task'[e].context = task[e].context /\ task'[e].tenant = task[e].tenant
                    /\ (task'[e].state # "none" => task[e].state # "none")
              \/ /\ configured /\ task'[e].context = bound[Owner[e]]
                 /\ task'[e].tenant \in Projects
    PROVE  StandInv'
<1>1. CallsAdvance
  BY DEF CallsAdvance, vars
<1>2. \A c \in Calls : CallStands(c)'
  BY <1>1, CallStandsStill DEF StandInv, vars
<1>3. RowsStand'
  BY <1>1, RowsStandStill DEF StandInv, RowsStand, vars
<1>4. ContextsStand'
  <2>1. \A e \in Events : Owner[e] \in Sources
    BY AuditAssumption
  <2>2. \A q, context : Given(q, context) => Given(q, context)'
    BY <1>1, GivenStays
  <2>3. \A q \in Sources : configured' /\ bound'[q] # NoContext => Given(q, bound'[q])
    BY DEF StandInv, ContextsStand
  <2>4. \A e \in Events : /\ task'[e].context # NoContext => Given(Owner[e], task'[e].context)
                          /\ task'[e].state # "none" => task'[e].tenant \in Projects
    BY <2>1 DEF StandInv, ContextsStand
  <2> QED
    BY <2>2, <2>3, <2>4 DEF ContextsStand
<1> QED
  BY <1>2, <1>3, <1>4 DEF StandInv

\* The calls and the database move; contexts do not.
LEMMA CallStepStands ==
    ASSUME AuditInv, StandInv, CallsAdvance, \A c \in Calls : CallStands(c)',
           UNCHANGED <<configured, bound>>,
           \A e \in Events :
              /\ task'[e].context = task[e].context /\ task'[e].tenant = task[e].tenant
              /\ task'[e].state # "none" => task[e].state # "none",
           UNCHANGED db \/ \E stmt : /\ RowStands(stmt.table, stmt.row)
                                     /\ StatementTypeOK(stmt) /\ execute(stmt),
           \A stmt \in orphans' : RowStands(stmt.table, stmt.row)
    PROVE  StandInv'
<1>1. RowsStand'
  BY RowsStandStill DEF StandInv
<1>2. \A q, context : Given(q, context) => Given(q, context)'
  BY GivenStays
<1>3. ContextsStand'
  BY <1>2 DEF StandInv, ContextsStand
<1> QED
  BY <1>1, <1>3 DEF StandInv

LEMMA EnterStands ==
    ASSUME AuditInv, StandInv, NEW q \in Requests, Enter(q)
    PROVE  StandInv'
<1>0. q \in Calls /\ q \in Sources /\ q \notin Events /\ q # None
  BY AuditAssumption DEF Sources
<1>1. handler[q] = "expected" /\ UNCHANGED <<configured, task>>
  BY DEF Enter
<1>2. PICK context \in ingress_contexts(q) :
          /\ bound' = [bound EXCEPT ![q] = context]
          /\ IF configured THEN Call(q, interaction_request(context)) ELSE UNCHANGED vars
  BY DEF Enter
<1>3. \A p \in Sources : bound'[p] = IF p = q THEN context ELSE bound[p]
  BY <1>0, <1>2 DEF AuditInv, ServiceOK
<1>4. CASE ~configured
  <2>1. CallsAdvance
    BY <1>2, <1>4 DEF CallsAdvance, vars
  <2>2. \A c \in Calls : CallStands(c)'
    BY <1>2, <1>4, <2>1, CallStandsStill DEF StandInv, vars
  <2>3. RowsStand'
    BY <1>2, <1>4, <2>1, RowsStandStill DEF StandInv, RowsStand, vars
  <2>4. \A p, given : Given(p, given) => Given(p, given)'
    BY <2>1, GivenStays
  <2>5. ContextsStand'
    BY <1>1, <1>4, <2>4 DEF StandInv, ContextsStand
  <2> QED
    BY <2>2, <2>3, <2>5 DEF StandInv
<1>5. CASE configured
  <2>1. PICK r : r = interaction_request(context)
    OBVIOUS
  <2>2. /\ r.api \in RetryingApis /\ r.interaction = recorder_interaction(context)
        /\ context.id = q /\ r.interaction.id = q /\ has_interaction(r)
    BY <1>0, <2>1
    DEF interaction_request, recorder_interaction, RetryingApis, has_interaction,
        ingress_contexts, Context
  <2>3. call[q].pc = "idle" /\ Call(q, r)
    BY <1>1, <1>2, <1>5, <2>1 DEF AuditInv, CallsOK, RequestCallOK
  <2>4. /\ call'[q].pc \in {"interaction", "done"} /\ call'[q].error # "conflict"
        /\ request'[q] = r
        /\ \A d \in Calls : d # q => UNCHANGED <<request[d], call[d]>>
        /\ UNCHANGED <<db, orphans>>
    BY <1>0, <2>2, <2>3, CallStarts
    DEF AuditInv, CallsOK, PlainCall, StandInv, CallStands
  <2>5. CallsAdvance
    BY <2>3, <2>4 DEF CallsAdvance
  <2>6. \A c \in Calls : CallStands(c)'
    <3>1. CallStands(q)'
      BY <1>0, <2>2, <2>4 DEF CallStands, Agreed
    <3>2. \A c \in Calls : c # q => CallStands(c)'
      BY <2>4, <2>5, CallStandsStill DEF StandInv
    <3> QED
      BY <3>1, <3>2
  <2>7. RowsStand'
    BY <2>4, <2>5, RowsStandStill DEF StandInv, RowsStand
  <2>8. Given(q, context)'
    BY <2>2, <2>4 DEF Given, recorder_interaction
  <2>9. \A p, given : Given(p, given) => Given(p, given)'
    BY <2>5, GivenStays
  <2>10. ContextsStand'
    BY <1>1, <1>3, <2>8, <2>9 DEF StandInv, ContextsStand
  <2> QED
    BY <2>6, <2>7, <2>10 DEF StandInv
<1> QED
  BY <1>4, <1>5

\* What an event's task asks the recorder for, if the check of the scope lets
\* it pass: the interaction of its context, or one of its own.
LEMMA EventAgrees ==
    ASSUME NEW e, NEW q, NEW context \in ContextOf(q), NEW tenant \in Projects, NEW performer,
           NEW given, given = interaction_context_for_event(e, context, tenant, performer),
           scope_is_valid(given)
    PROVE  IF context = NoContext THEN given.id = e ELSE given = context /\ given.id = q
<1>1. CASE context = NoContext
  BY <1>1 DEF interaction_context_for_event, Context
<1>2. CASE context # NoContext
  <2>1. /\ context.record_scope = infer_record_scope(context.project_id)
        /\ DOMAIN context = {"id", "project_id", "record_scope", "caller"} /\ context.id = q
    BY <1>2, BoundContext DEF ContextOf, ingress_contexts, Context
  <2>2. CASE context.project_id = None
    <3>1. given = [context EXCEPT !.project_id = tenant]
      BY <1>2, <2>2 DEF interaction_context_for_event
    <3>2. given.project_id # None /\ given.record_scope = "system"
      BY <2>1, <2>2, <3>1, AuditAssumption DEF infer_record_scope
    <3> QED
      BY <3>2 DEF scope_is_valid, infer_record_scope
  <2>3. CASE context.project_id # None
    BY <1>2, <2>1, <2>3 DEF interaction_context_for_event
  <2> QED
    BY <2>2, <2>3
<1> QED
  BY <1>1, <1>2

LEMMA StartTaskStands ==
    ASSUME AuditInv, StandInv, NEW e \in Events, StartTask(e)
    PROVE  StandInv'
<1> DEFINE t == task[e]
<1>0. e \in Calls /\ e \notin Requests /\ e # None
  BY AuditAssumption DEF Sources
<1>1. PICK context :
          context = interaction_context_for_event(e, t.context, t.tenant, t.performed_by)
  OBVIOUS
<1>2. PICK r : r = activity_request(e, context, t.performed_by)
  OBVIOUS
<1>3. /\ t.state = "scheduled" /\ Call(e, r)
      /\ task' = [task EXCEPT ![e].state = "running"]
      /\ UNCHANGED <<configured, bound>>
  BY <1>1, <1>2 DEF StartTask, task_context
<1>4. /\ t.context \in ContextOf(Owner[e]) /\ DOMAIN t = TaskFields /\ DOMAIN task = Events
      /\ t.tenant \in Projects /\ (t.context # NoContext => Given(Owner[e], t.context))
  BY <1>3 DEF AuditInv, ServiceOK, AuditTypeOK, StandInv, ContextsStand
<1>5. \A d \in Events :
         /\ task'[d].context = task[d].context /\ task'[d].tenant = task[d].tenant
         /\ task'[d].state # "none" => task[d].state # "none"
  BY <1>3, <1>4 DEF TaskFields
<1>6. /\ r.api \in RetryingApis /\ r.interaction = recorder_interaction(context)
      /\ r.interaction.id = context.id /\ (r.admissible <=> scope_is_valid(context))
  BY <1>2 DEF activity_request, recorder_interaction, RetryingApis
<1>7. scope_is_valid(context) =>
         IF t.context = NoContext THEN context.id = e
         ELSE context = t.context /\ context.id = Owner[e]
  BY <1>1, <1>4, EventAgrees
<1>8. has_interaction(r)
  <2>1. context.id = IF t.context = NoContext THEN e ELSE Owner[e]
    BY <1>1, <1>4, ContextForEvent
  <2>2. t.context # NoContext => Owner[e] \in Requests
    BY <1>4 DEF Given
  <2> QED
    BY <1>0, <1>6, <2>1, <2>2, AuditAssumption DEF has_interaction
<1>9. call[e].pc = "idle"
  BY <1>3 DEF AuditInv, CallsOK, EventCallOK
<1>10. /\ call'[e].pc = IF r.admissible THEN "interaction" ELSE "done"
       /\ call'[e].error # "conflict"
       /\ request'[e] = r
       /\ \A d \in Calls : d # e => UNCHANGED <<request[d], call[d]>>
       /\ UNCHANGED <<db, orphans>>
  BY <1>0, <1>3, <1>6, <1>8, CallStarts
  DEF AuditInv, CallsOK, PlainCall, StandInv, CallStands
<1>11. CallsAdvance
  BY <1>9, <1>10 DEF CallsAdvance
<1>12. CallStands(e)'
  <2>1. CASE ~r.admissible
    BY <1>10, <2>1 DEF CallStands
  <2>2. CASE r.admissible /\ t.context = NoContext
    BY <1>0, <1>6, <1>7, <1>10, <2>2 DEF CallStands, Agreed
  <2>3. CASE r.admissible /\ t.context # NoContext
    <3>1. Given(Owner[e], context)' /\ context.id = Owner[e]
      BY <1>4, <1>6, <1>7, <1>11, <2>3, GivenStays
    <3>2. Agreed(request[e])'
      BY <1>6, <1>10, <3>1, AuditAssumption DEF Agreed, Given, recorder_interaction
    <3> QED
      BY <1>10, <2>3, <3>2 DEF CallStands
  <2> QED
    BY <2>1, <2>2, <2>3
<1>13. \A c \in Calls : CallStands(c)'
  BY <1>10, <1>11, <1>12, CallStandsStill DEF StandInv
<1> QED
  BY <1>3, <1>5, <1>10, <1>11, <1>13, CallStepStands DEF StandInv, RowsStand

LEMMA RecordStepStands ==
    ASSUME AuditInv, StandInv, NEW c \in Calls, Record(c)
    PROVE  StandInv'
<1>1. PICK s : /\ Become(c, s)
               /\ s.error # "conflict"
               /\ s.pc \in {"chain_head", "activity"} => InteractionDurable(c)'
  BY RecordStands DEF Record
<1>2. Agreed(request[c]) /\ \A stmt \in orphans' : RowStands(stmt.table, stmt.row)
  BY RecordStands DEF Record
<1>3. UNCHANGED <<configured, bound, task>>
  BY DEF Record, serviceVars
<1>4. PICK u : /\ u.pc # "idle" /\ Become(c, u) /\ UNCHANGED request
  BY RecordMoves DEF Record
<1>5. DOMAIN call = Calls
  BY DEF AuditInv, CallsOK
<1>6. call'[c] = s /\ call'[c].pc # "idle" /\ \A d \in Calls : d # c => call'[d] = call[d]
  BY <1>1, <1>4, <1>5 DEF Become
<1>7. UNCHANGED db \/ \E stmt : /\ RowStands(stmt.table, stmt.row)
                                /\ StatementTypeOK(stmt) /\ execute(stmt)
  <2>1. CASE ReadChainHead(c) \/ RejectRelated(c) \/ Lose(c)
    BY <2>1 DEF ReadChainHead, RejectRelated, Lose
  <2>2. CASE WriteInteraction(c) \/ WriteActivity(c) \/ WriteFailureRow(c)
    <3>1. call[c].pc \in Writing /\ execute(statement(c))
      BY <2>2 DEF WriteInteraction, WriteActivity, WriteFailureRow, Writing
    <3>2. StatementTypeOK(statement(c)) /\ RowStands(statement(c).table, statement(c).row)
      BY <3>1, StatementStands, StatementOfService DEF StatementOK, StatementInv
    <3> QED
      BY <3>1, <3>2
  <2>3. ~WriteRelated(c)
    BY DEF WriteRelated, AuditInv, CallsOK, PlainCall
  <2> QED
    BY <2>1, <2>2, <2>3 DEF Record, Answered
<1>8. CallsAdvance
  <2>1. \A t \in Tables : db[t] \subseteq db'[t]
    BY <1>7, ExecuteType DEF AuditInv, RowsOK, DbInv
  <2> QED
    BY <1>4, <1>6, <2>1 DEF CallsAdvance, Tables
<1>9. CallStands(c)'
  BY <1>1, <1>2, <1>4, <1>6, <1>8, AgreedStays DEF CallStands, Agreed
<1>10. \A d \in Calls : CallStands(d)'
  BY <1>4, <1>6, <1>8, <1>9, CallStandsStill DEF StandInv
<1> QED
  BY <1>2, <1>3, <1>7, <1>8, <1>10, CallStepStands

LEMMA StandInitInv == AuditInit => StandInv
<1> SUFFICES ASSUME AuditInit PROVE StandInv
  OBVIOUS
<1>1. ContextsStand
  BY DEF AuditInit, ContextsStand, NoTask
<1>2. \A c \in Calls : CallStands(c)
  BY DEF AuditInit, CallStands, IdleCall
<1>3. RowsStand
  BY DEF AuditInit, InitSystemRecord, RowsStand, Tables
<1> QED
  BY <1>1, <1>2, <1>3 DEF StandInv

LEMMA StandNextInv == AuditInv /\ StandInv /\ [AuditNext]_allVars => StandInv'
<1> SUFFICES ASSUME AuditInv, StandInv, [AuditNext]_allVars PROVE StandInv'
  OBVIOUS
<1>0. \A q \in Sources : \A p \in Sources : [bound EXCEPT ![q] = NoContext][p]
                                               \in {bound[p], NoContext}
  BY DEF AuditInv, ServiceOK
<1>1. ASSUME NEW q \in Requests, Enter(q) PROVE StandInv'
  BY <1>1, EnterStands
<1>2. CASE \/ \E q \in Requests : FailToBind(q) \/ CallNext(q)
           \/ \E j \in Jobs : StartJob(j)
           \/ BeginClose \/ FinishClose \/ StopWaiting
           \/ UNCHANGED allVars
  <2>1. UNCHANGED <<vars, configured, bound, task>>
    BY <1>2 DEF FailToBind, CallNext, StartJob, BeginClose, FinishClose, StopWaiting,
                allVars, serviceVars
  <2> QED
    BY <2>1, ServiceStepStands
<1>3. ASSUME NEW q \in Sources, leave(q), UNCHANGED <<vars, configured, task>> PROVE StandInv'
  <2>1. \A p \in Sources : bound'[p] \in {bound[p], NoContext}
    BY <1>0, <1>3 DEF leave
  <2> QED
    BY <1>3, <2>1, ServiceStepStands
<1>4. ASSUME NEW q \in Sources, Answer(q) PROVE StandInv'
  BY <1>3, <1>4 DEF Answer
<1>5. ASSUME NEW e \in Events, RefuseToPublish(e) PROVE StandInv'
  BY <1>3, <1>5, AuditAssumption DEF RefuseToPublish
<1>6. ASSUME NEW e \in Events, Publish(e) PROVE StandInv'
  <2>1. PICK tenant \in Projects :
           task' = [task EXCEPT ![e] =
                      [state        |-> "scheduled",
                       context      |-> bound[Owner[e]],
                       tenant       |-> tenant,
                       performed_by |-> resolve_performed_by(bound[Owner[e]], "given")]]
    BY <1>6 DEF Publish
  <2>2. configured /\ UNCHANGED <<vars, configured, bound>>
    BY <1>6 DEF Publish
  <2>3. \A d \in Events : task'[d] = IF d # e THEN task[d] ELSE
                      [state        |-> "scheduled",
                       context      |-> bound[Owner[e]],
                       tenant       |-> tenant,
                       performed_by |-> resolve_performed_by(bound[Owner[e]], "given")]
    BY <2>1 DEF AuditInv, ServiceOK, AuditTypeOK
  <2>4. \A d \in Events : d # e => task'[d] = task[d]
    BY <2>3
  <2>5. task'[e].context = bound[Owner[e]] /\ task'[e].tenant \in Projects
    BY <2>3
  <2> QED
    BY <2>2, <2>4, <2>5, ServiceStepStands
<1>7. ASSUME NEW e \in Events, StartTask(e) PROVE StandInv'
  BY <1>7, StartTaskStands
<1>8. ASSUME NEW c \in Calls, Record(c) PROVE StandInv'
  BY <1>8, RecordStepStands
<1>9. ASSUME NEW stmt \in orphans, ExecuteOrphan(stmt), UNCHANGED serviceVars PROVE StandInv'
  <2>1. execute(stmt) /\ UNCHANGED <<request, call>> /\ orphans' \subseteq orphans
    BY <1>9 DEF ExecuteOrphan
  <2>2. StatementTypeOK(stmt) /\ \A s \in orphans : RowStands(s.table, s.row)
    BY DEF AuditInv, RowsOK, StatementOK, StatementInv, StandInv, RowsStand
  <2>3. CallsAdvance
    <3>1. \A t \in Tables : db[t] \subseteq db'[t]
      BY <2>1, <2>2, ExecuteType DEF AuditInv, RowsOK, DbInv
    <3> QED
      BY <2>1, <3>1 DEF CallsAdvance, Tables
  <2>4. \A c \in Calls : CallStands(c)'
    BY <2>1, <2>3, CallStandsStill DEF StandInv
  <2> QED
    BY <1>9, <2>1, <2>2, <2>3, <2>4, CallStepStands DEF serviceVars
<1>10. CASE StopProcess
  <2> DEFINE cut == {e \in Events : task[e].state = "scheduled" \/
                                   (task[e].state = "running" /\ ~ended(e))}
  <2>1. /\ task' = [e \in Events |-> IF e \in cut THEN [task[e] EXCEPT !.state = "cancelled"]
                                     ELSE task[e]]
        /\ orphans' = orphans \cup
              {statement(e) : e \in {d \in cut : call[d].pc \in Writing}}
        /\ UNCHANGED <<db, request, call, configured, bound>>
        /\ cut \subseteq Events /\ \A e \in cut : task[e].state # "none"
    BY <1>10 DEF StopProcess, Writing
  <2> HIDE DEF cut
  <2>2. \A stmt \in orphans' : RowStands(stmt.table, stmt.row)
    BY <2>1, StatementStands, AuditAssumption DEF StandInv, RowsStand
  <2>3. \A e \in Events :
           /\ task'[e].context = task[e].context /\ task'[e].tenant = task[e].tenant
           /\ task'[e].state # "none" => task[e].state # "none"
    BY <2>1 DEF AuditInv, ServiceOK, TaskFields
  <2>4. CallsAdvance
    BY <2>1 DEF CallsAdvance
  <2>5. \A c \in Calls : CallStands(c)'
    BY <2>1, <2>4, CallStandsStill DEF StandInv
  <2> QED
    BY <2>1, <2>2, <2>3, <2>4, <2>5, CallStepStands
<1> QED
  BY <1>1, <1>2, <1>4, <1>5, <1>6, <1>7, <1>8, <1>9, <1>10 DEF AuditNext

-----------------------------------------------------------------------------
(***************************************************************************)
(* Theorems.                                                               *)
(***************************************************************************)
THEOREM AuditInvariance == AuditSpec => []AuditInv
  BY AuditInitInv, AuditNextInv, PTL DEF AuditSpec

\* The shape of the service's state and of its recorder's calls.
THEOREM AuditTypeCorrect == AuditSpec => []AuditTypeOK
<1>1. AuditInv => AuditTypeOK
  BY DEF AuditInv, ServiceOK
<1> QED
  BY <1>1, AuditInvariance, PTL

\* However late an event's task runs, and whatever is lost, retried or executed
\* after the process has stopped, the event is recorded in the interaction that
\* was in force where it was published, or in its own.
THEOREM EventsKeepTheirInteraction == AuditSpec => []EventKeepsItsInteraction
<1>1. AuditInv => EventKeepsItsInteraction
  BY DEF AuditInv, RowsOK, RowOK, InteractionOf, EventKeepsItsInteraction
<1> QED
  BY <1>1, AuditInvariance, PTL

\* A drain that was not cut short leaves no event of a request unfinished.
THEOREM DrainsLoseNothing == AuditSpec => []DrainLosesNothing
<1>1. AuditInv => DrainLosesNothing
  BY DEF AuditInv, DrainOK
<1> QED
  BY <1>1, AuditInvariance, PTL

\* No event, whatever its tenant and however late it is written, puts another
\* project into the row of an interaction, or is recorded under a project that
\* is not its interaction's.
THEOREM InteractionRowsStand == AuditSpec => []InteractionRowStands
<1>1. AuditInv /\ StandInv => InteractionRowStands
  BY AuditAssumption DEF StandInv, CallStands, RowsStand, RowStands, InteractionRowStands
<1> QED
  BY <1>1, AuditInitInv, AuditNextInv, StandInitInv, StandNextInv, PTL DEF AuditSpec

\* The chains stay intact below a service that fills in the calls' arguments as
\* it makes them and cancels them when it stops.
THEOREM ServiceKeepsChains == AuditSpec => []ChainIntact
<1>1. AuditInv => ChainIntact
  BY DEF AuditInv, RowsOK, DbInv, ChainIntact, KeysUnique, PlacesUnique, Linked, Activities
<1> QED
  BY <1>1, AuditInvariance, PTL
=============================================================================
