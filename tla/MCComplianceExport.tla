-------------------------- MODULE MCComplianceExport --------------------------
(***************************************************************************)
(* Small instances of ComplianceExport: two writers of a chain, one        *)
(* export, one deletion.                                                   *)
(***************************************************************************)
EXTENDS MCActivityRecorder, ComplianceExport

MCOccurredAt == [content \in {"-", "x", "y"} |-> IF content = "y" THEN 1 ELSE 2]

Export(project, since, until, key) ==
    [e |-> [project_id |-> project, since |-> since, until |-> until,
            signing_key |-> key]]

MCExportRequests ==
    {Export(None, None, None, "platform"), Export(None, 2, None, "platform"),
     Export(None, None, 1, "platform"), Export("global", None, None, "platform"),
     Export(None, None, None, None)}

\* Two writers of the global chain with occurred_at in or against the order of
\* the chain, one perhaps not UTC; a writer beside a repeated legacy activity.
MCExportWorkload ==
    {Pair([Activity("u", "x") EXCEPT !.utc_offset = offset], Activity("v", "y")) :
        offset \in {0, 2}}
    \cup {Pair(Activity("old", "x"), Activity("v", "y"))}

WindowRequests == {Export(None, 2, None, "platform")}

TwoWriters == {Pair(Activity("u", "y"), Activity("v", "x"))}
=============================================================================
