-------------------------- MODULE MCActivityRecorder --------------------------
(***************************************************************************)
(* Small instances of ActivityRecorder: three calls, and the ways of       *)
(* giving them arguments that make them meet.                              *)
(***************************************************************************)
EXTENDS ActivityRecorder

MCCalls == {"a", "b", "c"}

NoContext == [id |-> None, project_id |-> None, payload |-> "-"]

InProject(id, project, payload) ==
    [id |-> id, project_id |-> project, payload |-> payload]

\* An activity written by record_activity, outside any interaction, with UTC
\* timestamps and nothing related.
Activity(id, content) ==
    [api |-> "record_activity", admissible |-> TRUE, activity_id |-> id,
     content |-> content, utc_offset |-> 0, interaction |-> NoContext,
     related |-> <<>>]

Critical(r) == [r EXCEPT !.api = "record_critical_activity"]

Within(r, interaction) == [r EXCEPT !.interaction = interaction]

With(r, items) == [r EXCEPT !.related = items]

Interaction(interaction) ==
    [Activity("-", "-") EXCEPT !.api = "record_interaction",
                               !.interaction = interaction]

Alone(id, item) ==
    [Activity(id, "-") EXCEPT !.api = "record_related", !.related = <<item>>]

Refused(r) == [r EXCEPT !.admissible = FALSE]

Item(table, id) == [table |-> table, id |-> id, payload |-> "x", safe |-> TRUE]

Assign(ra, rb, rc) == [a |-> ra, b |-> rb, c |-> rc]

Unused == Refused(Activity("-", "-"))

I1 == InProject("i1", "p1", "x")
I2 == InProject("i2", "global", "x")

\* Three writers of one chain, one of them critical.
Contention ==
    {Assign(Activity("u", "x"), Activity("v", "x"), Critical(Activity("w", "x")))}

\* One interaction recorded and used twice, with packages.
SharedInteraction ==
    {Assign(With(Within(Activity("u", "x"), I1),
                 <<Item("activity_evidence_links", "e"),
                   Item("activity_snapshots", None)>>),
            Within(Critical(Activity("v", "x")), I1),
            Interaction(I1))}

\* One activity id written by two calls, with equal or different content, and
\* a row added to it by record_snapshot or record_purge_tombstone.
SharedActivity ==
    {Assign(Activity("u", "x"),
            With(Activity("u", content), <<Item("activity_diffs", "d")>>),
            Alone("u", Item("purge_tombstones", "t"))) : content \in {"x", "y"}}

\* A project called "global", a non-UTC datetime, an interaction id reused
\* with another payload, an item that cannot be built, a legacy activity.
OddInputs ==
    {Assign([Within(Activity("u", "x"), I2) EXCEPT !.utc_offset = offset],
            [With(Activity("v", "x"), <<Item("activity_snapshots", "s")>>)
                EXCEPT !.related[1].safe = FALSE],
            Interaction([I2 EXCEPT !.payload = "y"])) : offset \in {0, 2}}
    \cup {Assign(Activity("old", content), Activity("v", "x"), Unused) :
            content \in {"x", "y"}}

MCLegacyRows ==
    {plain_row("old", activity_fields(Activity("old", "x")), {})}

\* Four writers of one chain, some inside an interaction of their own.
FourCalls == {"a", "b", "c", "d"}

Racing(ia, ib, project) ==
    [a |-> Within(Activity("u", "x"), InProject(ia, project, "x")),
     b |-> With(Within(Activity("v", "x"), InProject(ib, project, "x")),
                <<Item("activity_evidence_links", "e")>>),
     c |-> Within(Activity("w", "x"), InProject(None, project, "-")),
     d |-> Within(Critical(Activity("z", "x")), InProject(None, project, "-"))]

RaceWorkload == {Racing(None, None, None), Racing("i1", "i2", "p1")}

\* Two calls that meet in every way, for the runs with losses.
TwoCalls == {"a", "b"}

Pair(ra, rb) ==
    [c \in Calls |-> CASE c = "a" -> ra [] c = "b" -> rb [] OTHER -> Unused]

PairWorkload ==
    {Pair(Within(Activity("u", "x"), I1),
          With(Within(Activity("u", content), I1),
               <<Item("activity_snapshots", None)>>)) : content \in {"x", "y"}}
    \cup {Pair(Interaction(I1), Alone("u", Item("activity_diffs", None)))}

\* Races without losses, and pairs with losses and a migration.
ProgressWorkload == RaceWorkload \cup PairWorkload

ProgressNext ==
    \/ request \in RaceWorkload /\ FaultFreeNext
    \/ /\ request \in PairWorkload /\ Next
       /\ \A c \in Calls \ TwoCalls : call'[c] = call[c]

ProgressSpec ==
    Init /\ [][ProgressNext]_vars /\ \A c \in Calls : WF_vars(TimedStep(c))

MCWorkload == Contention \cup SharedInteraction \cup SharedActivity \cup OddInputs
=============================================================================
