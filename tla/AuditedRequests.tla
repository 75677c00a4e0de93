--------------------------- MODULE AuditedRequests ----------------------------
(***************************************************************************)
(* A service that installs the interaction middleware (activity/ingress.py)*)
(* and publishes legacy audit events (audit/publisher.py) through the      *)
(* activity adapter (audit/activity_adapter.py), composed with the         *)
(* recorder of ActivityRecorder.                                           *)
(*                                                                         *)
(* The middleware binds an interaction to the request, awaits its record,  *)
(* and runs the handler.  The handler publishes events: each becomes an    *)
(* asyncio task, which runs record_activity later, also after the request  *)
(* was answered.  At shutdown the service drains the tasks for a bounded   *)
(* time, and the end of the event loop cancels the rest.                   *)
(*                                                                         *)
(* The calls of the recorder are the requests, for record_interaction, and *)
(* the events, for record_activity; their arguments are filled in when the *)
(* call is made.                                                           *)
(***************************************************************************)
EXTENDS ActivityRecorder

CONSTANTS
    Requests,   \* HTTP requests to the service
    Jobs,       \* background work that publishes outside any request
    Events,     \* audit events
    Owner,      \* the request or job that publishes each event
    Projects    \* project ids, of contexts and of events' tenants

VARIABLES
    configured, \* an activity recorder is configured in the process
    handler,    \* how far each request or job is
    bound,      \* the interaction context of each request's own task
    task,       \* the task that publishes each event
    process,    \* the life of the process
    draining    \* the tasks close_audit_pool waits for

serviceVars == <<configured, handler, bound, task, process, draining>>
allVars     == <<vars, serviceVars>>

Sources == Requests \cup Jobs

\* The ids of interactions and activities are fresh: an event's is none's else,
\* no earlier row's either.
ASSUME AuditAssumption ==
    /\ Calls = Requests \cup Events
    /\ Requests \cap Jobs = {} /\ Sources \cap Events = {}
    /\ Owner \in [Events -> Sources]
    /\ None \notin Projects /\ None \notin Calls
    /\ \A r \in LegacyRows : r.key \notin Events

-----------------------------------------------------------------------------
(***************************************************************************)
(* Interaction contexts.                                                   *)
(***************************************************************************)
Context(id, project_id, scope, caller) ==
    [id |-> id, project_id |-> project_id, record_scope |-> scope, caller |-> caller]

NoContext == Context(None, None, None, None)

\* _infer_record_scope.
infer_record_scope(project_id) ==
    IF project_id = None THEN "system" ELSE "project"

\* What the middleware binds: a fresh id, the project the resolver or the
\* token gives, and a caller only when an internal token was verified.
ingress_contexts(q) ==
    {Context(q, p, infer_record_scope(p), c) :
        p \in Projects \cup {None}, c \in {None, "principal"}}

\* validate_record_project_scope.
scope_is_valid(context) ==
    context.record_scope = infer_record_scope(context.project_id)

\* An actor is taken from the ambient context only if it was verified.
resolve_performed_by(context, performed_by) ==
    IF context.caller # None THEN context.caller ELSE performed_by

\* Fault variant of interaction_context_for_event: the scope follows the project.
interaction_context_rescoped(e, context, tenant, performer) ==
    IF context = NoContext THEN Context(e, tenant, "project", performer)
    ELSE IF context.project_id = None
    THEN [context EXCEPT !.project_id = tenant, !.record_scope = "project"]
    ELSE context

\* The interaction an event is recorded in: the one in force, with the event's
\* tenant when it has no project (its scope stays), or one made for the event.
interaction_context_for_event(e, context, tenant, performer) ==
    IF context = NoContext THEN Context(e, tenant, "project", performer)
    ELSE IF context.project_id = None
    THEN [context EXCEPT !.project_id = tenant]
    ELSE context

-----------------------------------------------------------------------------
(***************************************************************************)
(* Calls of the recorder.                                                  *)
(***************************************************************************)
recorder_interaction(context) ==
    [id         |-> context.id,
     project_id |-> context.project_id,
     payload    |-> [record_scope |-> context.record_scope,
                     caller       |-> context.caller]]

interaction_request(context) ==
    [api         |-> "record_interaction",
     admissible  |-> scope_is_valid(context),
     activity_id |-> None,
     content     |-> None,
     utc_offset  |-> 0,
     interaction |-> recorder_interaction(context),
     related     |-> <<>>]

\* record_activity with a fresh activity id.
activity_request(e, context, performer) ==
    [api         |-> "record_activity",
     admissible  |-> scope_is_valid(context),
     activity_id |-> e,
     content     |-> [event |-> e, performed_by |-> performer],
     utc_offset  |-> 0,
     interaction |-> recorder_interaction(context),
     related     |-> <<>>]

\* The call is made: it runs to its first await, or raises before it.
Call(c, r) ==
    /\ request' = [request EXCEPT ![c] = r]
    /\ Become(c, IF r.admissible
                 THEN begin_attempt(r, call[c])
                 ELSE return([call[c] EXCEPT !.error = "inadmissible"], "raised"))
    /\ UNCHANGED <<db, append_only, orphans>>

NoRequest == [activity_request(None, NoContext, None) EXCEPT !.admissible = FALSE]

-----------------------------------------------------------------------------
(***************************************************************************)
(* Requests and jobs.                                                      *)
(***************************************************************************)
\* Fault variant of task_context: the variable of the request itself.
task_context_shared(e) == bound[Owner[e]]

\* create_task copied the context variables of the publisher.
task_context(e) == task[e].context

\* The middleware binds a context and records it, if there is a recorder.
Enter(q) ==
    /\ handler[q] = "expected"
    /\ process = "serving"
    /\ \E context \in ingress_contexts(q) :
          /\ bound' = [bound EXCEPT ![q] = context]
          /\ IF configured
             THEN /\ Call(q, interaction_request(context))
                  /\ handler' = [handler EXCEPT ![q] = "entering"]
             ELSE /\ handler' = [handler EXCEPT ![q] = "running"]
                  /\ UNCHANGED vars
    /\ UNCHANGED <<configured, task, process, draining>>

\* Building the context raises (the project resolver): the request proceeds.
FailToBind(q) ==
    /\ handler[q] = "expected"
    /\ process = "serving"
    /\ handler' = [handler EXCEPT ![q] = "running"]
    /\ UNCHANGED <<vars, configured, bound, task, process, draining>>

\* record_interaction returned, accepted or not.
CallNext(q) ==
    /\ handler[q] = "entering"
    /\ call[q].pc = "done"
    /\ handler' = [handler EXCEPT ![q] = "running"]
    /\ UNCHANGED <<vars, configured, bound, task, process, draining>>

StartJob(j) ==
    /\ handler[j] = "expected"
    /\ process # "stopped"
    /\ handler' = [handler EXCEPT ![j] = "running"]
    /\ UNCHANGED <<vars, configured, bound, task, process, draining>>

\* Fault variant of leave: the token is not reset.
leave_bound(q) ==
    /\ handler' = [handler EXCEPT ![q] = "answered"]
    /\ bound' = bound

\* The end of the handler: the finally clause unbinds the context.
leave(q) ==
    /\ handler' = [handler EXCEPT ![q] = "answered"]
    /\ bound' = [bound EXCEPT ![q] = NoContext]

Answer(q) ==
    /\ handler[q] = "running"
    /\ process # "stopped"
    /\ leave(q)
    /\ UNCHANGED <<vars, configured, task, process, draining>>

-----------------------------------------------------------------------------
(***************************************************************************)
(* Events.                                                                 *)
(***************************************************************************)
NoTask == [state |-> "none", context |-> NoContext, tenant |-> None,
           performed_by |-> None]

\* publish_audit_event: the event is built and its task scheduled.
Publish(e) ==
    LET context == bound[Owner[e]]
    IN  /\ handler[Owner[e]] = "running"
        /\ process # "stopped"
        /\ configured
        /\ task[e].state = "none"
        /\ \E tenant \in Projects :
              task' = [task EXCEPT ![e] =
                         [state        |-> "scheduled",
                          context      |-> context,
                          tenant       |-> tenant,
                          performed_by |-> resolve_performed_by(context, "given")]]
        /\ UNCHANGED <<vars, configured, handler, bound, process, draining>>

\* AuditPublisherNotConfigured reaches the handler and ends it.
RefuseToPublish(e) ==
    /\ handler[Owner[e]] = "running"
    /\ process # "stopped"
    /\ ~configured
    /\ leave(Owner[e])
    /\ UNCHANGED <<vars, configured, task, process, draining>>

\* ActivityAuditPublisher.publish runs up to the first await of the recorder.
StartTask(e) ==
    LET t       == task[e]
        context == interaction_context_for_event(e, task_context(e), t.tenant,
                                                 t.performed_by)
    IN  /\ t.state = "scheduled"
        /\ process # "stopped"
        /\ Call(e, activity_request(e, context, t.performed_by))
        /\ task' = [task EXCEPT ![e].state = "running"]
        /\ UNCHANGED <<configured, handler, bound, process, draining>>

\* The recorder's coroutines, while the event loop runs.
Record(c) ==
    /\ process # "stopped"
    /\ Answered(c) \/ Lose(c)
    /\ UNCHANGED serviceVars

-----------------------------------------------------------------------------
(***************************************************************************)
(* Shutdown.                                                               *)
(***************************************************************************)
ended(e) == task[e].state = "running" /\ call[e].pc = "done"

\* Fault variant of pending_tasks: tasks that have not run yet are missed.
pending_tasks_started == {e \in Events : task[e].state = "running" /\ ~ended(e)}

pending_tasks ==
    {e \in Events : task[e].state \in {"scheduled", "running"} /\ ~ended(e)}

\* close_audit_pool, once the server has answered its requests.
BeginClose ==
    /\ process = "serving"
    /\ \A q \in Requests : handler[q] \notin {"entering", "running"}
    /\ process' = "draining"
    /\ draining' = pending_tasks
    /\ UNCHANGED <<vars, configured, handler, bound, task>>

FinishClose ==
    /\ process = "draining"
    /\ \A e \in draining : ended(e)
    /\ process' = "closed"
    /\ draining' = {}
    /\ UNCHANGED <<vars, configured, handler, bound, task>>

\* Five seconds have passed.
StopWaiting ==
    /\ process = "draining"
    /\ \E e \in draining : ~ended(e)
    /\ process' = "closed"
    /\ UNCHANGED <<vars, configured, handler, bound, task, draining>>

\* The event loop ends and cancels what is left; a statement that is under way
\* may still reach the database.
StopProcess ==
    LET cut     == {e \in Events : task[e].state = "scheduled" \/
                                   (task[e].state = "running" /\ ~ended(e))}
        writing == {e \in cut : call[e].pc \in {"interaction", "activity", "visibility"}}
    IN  /\ process = "closed"
        /\ process' = "stopped"
        /\ task' = [e \in Events |-> IF e \in cut THEN [task[e] EXCEPT !.state = "cancelled"]
                                     ELSE task[e]]
        /\ orphans' = orphans \cup {statement(e) : e \in writing}
        /\ UNCHANGED <<db, append_only, request, call,
                       configured, handler, bound, draining>>

-----------------------------------------------------------------------------
AuditInit ==
    /\ InitSystemRecord
    /\ request = [c \in Calls |-> NoRequest]
    /\ call = [c \in Calls |-> IdleCall]
    /\ orphans = {}
    /\ configured \in BOOLEAN
    /\ handler = [q \in Sources |-> "expected"]
    /\ bound = [q \in Sources |-> NoContext]
    /\ task = [e \in Events |-> NoTask]
    /\ process = "serving"
    /\ draining = {}

AuditNext ==
    \/ \E q \in Requests : Enter(q)
    \/ \E q \in Requests : FailToBind(q)
    \/ \E q \in Requests : CallNext(q)
    \/ \E j \in Jobs : StartJob(j)
    \/ \E q \in Sources : Answer(q)
    \/ \E e \in Events : Publish(e)
    \/ \E e \in Events : RefuseToPublish(e)
    \/ \E e \in Events : StartTask(e)
    \/ \E c \in Calls : Record(c)
    \/ \E stmt \in orphans : ExecuteOrphan(stmt) /\ UNCHANGED serviceVars
    \/ BeginClose
    \/ FinishClose
    \/ StopWaiting
    \/ StopProcess

\* The event loop runs what is ready, and the timed awaits of the recorder end.
AuditSpec ==
    /\ AuditInit
    /\ [][AuditNext]_allVars
    /\ \A q \in Requests : WF_allVars(CallNext(q))
    /\ \A c \in Calls : WF_allVars(process # "stopped" /\ TimedStep(c)
                                   /\ UNCHANGED serviceVars)

-----------------------------------------------------------------------------
(***************************************************************************)
(* Properties.                                                             *)
(***************************************************************************)
ContextOf(q) == ingress_contexts(q) \cup {NoContext}

\* The shape of every variable; a context is bound only inside its request.
AuditTypeOK ==
    /\ \A c \in Calls : IsRequest(request[c]) /\ CallTypeOK(request[c], call[c])
    /\ configured \in BOOLEAN
    /\ handler \in [Sources -> {"expected", "entering", "running", "answered"}]
    /\ \A q \in Sources :
          /\ bound[q] \in ContextOf(q)
          /\ handler[q] \in {"expected", "answered"} => bound[q] = NoContext
    /\ DOMAIN task = Events
    /\ \A e \in Events :
          /\ task[e].state \in {"none", "scheduled", "running", "cancelled"}
          /\ task[e].context \in ContextOf(Owner[e])
          /\ task[e].performed_by \in {None, "given", "principal"}
    /\ process \in {"serving", "draining", "closed", "stopped"}
    /\ draining \subseteq Events

\* An event recorded by a task that ran late, after its request was answered
\* and its context unbound, or while other requests ran, is recorded in the
\* interaction in force where it was published; an event published outside any
\* interaction is in none but its own.
EventKeepsItsInteraction ==
    \A r \in db["activity_records"] \ LegacyRows :
        r.compare.interaction_id =
            IF task[r.key].context = NoContext THEN r.key ELSE Owner[r.key]

\* The project and the scope of an interaction are what its request's ingress
\* said: no event, whatever its tenant, is recorded under another project than
\* its interaction or meets an interaction row that contradicts its own.
InteractionRowStands ==
    /\ \A e \in Events : call[e].error # "conflict"
    /\ \A r \in db["activity_records"] \ LegacyRows : \E i \in db["interaction_records"] :
          i.key = r.compare.interaction_id /\ i.compare.project_id = r.compare.project_id

\* When close_audit_pool returns without having stopped waiting, no event that
\* a request had published is left unfinished: the end of the loop cancels only
\* events of background jobs, and those only if published after the snapshot.
DrainLosesNothing ==
    process \in {"closed", "stopped"} /\ draining = {} =>
        \A e \in Events : Owner[e] \in Requests =>
            task[e].state = "none" \/ ended(e)

\* With nothing assumed of the database but the timeouts the recorder sets, a
\* request stays in the middleware only at the write of the failure row, the
\* one await of record_interaction that has no timeout.
RequestWaitsOnlyOnFailureRow ==
    \A q \in Requests :
        <>[](handler[q] = "entering" => call[q].pc = "visibility")

\* publisher.py says audit failures are swallowed with a warning log, and a
\* test that an event's tenant is used when the context has no project; in an
\* interaction the middleware bound without a project, the event's task raises
\* before it writes anything.
AuditFailuresReported ==
    \A e \in Events : ended(e) => call[e].status \in {"accepted", "failed"}
=============================================================================
