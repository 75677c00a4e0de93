----------------------------- MODULE ActivityLog ------------------------------
(***************************************************************************)
(* What the activity system of record promises, without databases,         *)
(* retries or hashes: every chain is an append-only log without gaps, an   *)
(* activity enters it at most once, and only activities that are in it are *)
(* acknowledged to a caller.                                               *)
(***************************************************************************)
EXTENDS Integers

CONSTANT Unlogged   \* entries recorded before there were chains

VARIABLES
    log,   \* entries with their places: [entry, chain, position]
    acked  \* the entries some caller was told are recorded

Recorded == Unlogged \cup {l.entry : l \in log}

Ids == {e.id : e \in Recorded}

\* The place is the next free one of its chain.
NextPlace(chain, position) ==
    /\ \A l \in log : l.chain = chain => l.position < position
    /\ \/ position = 1
       \/ \E l \in log : l.chain = chain /\ l.position = position - 1

\* Append an entry whose id is new, acknowledging it at once or not.
Append(entry, chain, position) ==
    /\ entry.id \notin Ids
    /\ NextPlace(chain, position)
    /\ log' = log \cup {[entry |-> entry, chain |-> chain, position |-> position]}
    /\ acked' \in {acked, acked \cup {entry}}

Acknowledge(entry) ==
    /\ entry \in Recorded
    /\ acked' = acked \cup {entry}
    /\ log' = log

LogInit == log = {} /\ acked = {}

\* The new place, and with it the entry, is whatever the step adds to the log;
\* an acknowledgement is whatever it adds to acked.
LogNext ==
    \/ \E l \in log' \ log : Append(l.entry, l.chain, l.position)
    \/ \E e \in acked' : Acknowledge(e)

LogSpec == LogInit /\ [][LogNext]_<<log, acked>>
=============================================================================
