-------------------------- MODULE MCAuditedRequests ---------------------------
(***************************************************************************)
(* One request and one background job, each with an event.                 *)
(***************************************************************************)
EXTENDS AuditedRequests

MCRequests == {"q"}
MCJobs     == {"job"}
MCEvents   == {"e", "f"}
MCOwner    == [e |-> "q", f |-> "job"]
MCCalls    == MCRequests \cup MCEvents
MCProjects == {"p1"}
=============================================================================
