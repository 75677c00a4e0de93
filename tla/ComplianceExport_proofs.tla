------------------------ MODULE ComplianceExport_proofs ------------------------
(***************************************************************************)
(* Theorems about ComplianceExport, for any number of exports, windows and *)
(* keys, any recorder workload and any number of deletions.                *)
(*                                                                         *)
(* A deletion breaks the chain it takes a row from, and what IInv says of  *)
(* the heads and statements that named the row.  So the invariant has two  *)
(* parts: KeptInv, which every step keeps, deletions included (places and  *)
(* keys stay unique, every row is well hashed, and what a caller was told  *)
(* is in the database or among the deleted rows), and IInv as long as      *)
(* nothing has been deleted.                                               *)
(***************************************************************************)
EXTENDS ComplianceExport, ActivityRecorder_durability

FailureTable == db["system_record_write_failures"]

Seen == Activities \cup purged

\* The activity of call c has a row, or had one that was deleted.
ActivitySeen(c) ==
    \E r \in Seen : /\ r.key = request[c].activity_id
                    /\ r.compare = activity_fields(request[c])

\* A failure row of call c, of project p.
FailureOf(c, p) ==
    \E f \in FailureTable : f.key = <<"uuid", c>> /\ f.compare.project_id = p

\* Once an activity call is past its activity row, the row has been seen.
Kept(c) ==
    /\ call[c].pc = "related" /\ request[c].api \in ActivityApis => ActivitySeen(c)
    /\ call[c].status = "accepted" =>
          /\ call[c].pc = "done"
          /\ request[c].api \in ActivityApis => ActivitySeen(c)
    /\ call[c].failure_visible =>
          call[c].pc = "done" /\ FailureOf(c, request[c].interaction.project_id)

ChainedStatement(stmt) ==
    /\ StatementTypeOK(stmt)
    /\ stmt.table = "activity_records" => stmt.row.chain_seq # 0

TablesOK ==
    /\ KeysUnique
    /\ PlacesUnique
    /\ UnchainedIsLegacy
    /\ IsFiniteSet(FailureTable)

KeptInv ==
    /\ TypeOK
    /\ TablesOK
    /\ HashInv
    /\ \A stmt \in orphans : ChainedStatement(stmt)
    /\ \A r \in purged :
          /\ ChainedStatement([table |-> "activity_records", row |-> r])
          /\ WellHashed(r)
    /\ \A c \in Calls : Kept(c)

-----------------------------------------------------------------------------
(***************************************************************************)
(* Exports.                                                                *)
(***************************************************************************)
Begun == {"records", "verification", "failures", "signed"}

ExportShape(e) ==
    /\ DOMAIN export[e] = DOMAIN Waiting
    /\ export[e].pc \in ExportPcs
    /\ export[e].dead_lettered_count \in Nat
    /\ export[e].signature =
          IF export[e].pc = "signed" THEN wanted[e].signing_key ELSE None
    /\ export[e].pc \in Begun => can_sign(wanted[e])
    /\ export[e].pc \in {"failures", "signed"} =>
          export[e].chain_verification.valid \in BOOLEAN

\* The records an export of a whole chain holds are the first rows of it.
HoldsPrefix(e) ==
    LET k == export_chain_key(wanted[e])
    IN  \E n : /\ ChainPrefix(export[e].records, k, n)
               /\ \A i \in 1 .. n : export[e].records[i] \in chained_rows(k)

\* A good verdict on the chain is one on the records, too.
VerdictCovers(e) ==
    export[e].chain_verification.valid =>
        /\ Len(export[e].records) <= export[e].chain_verification.records_checked
        /\ verify_activity_chain_rows(
              export[e].records, export_chain_key(wanted[e])).valid

WholeChainOK(e) ==
    whole_chain(wanted[e]) =>
        /\ export[e].pc \in {"verification", "failures", "signed"} => HoldsPrefix(e)
        /\ export[e].pc \in {"failures", "signed"} => VerdictCovers(e)

\* An activity that was due is of the chain and window, unless it is legacy.
DueRow(w, r) ==
    \/ r \in LegacyRows
    \/ r.chain_key = export_chain_key(w) /\ r.chain_seq # 0 /\ in_window(w, r)

DueOK(e) ==
    /\ export[e].pc = "records" =>
          \A id \in export[e].due : \E r \in Seen : r.key = id /\ DueRow(wanted[e], r)
    /\ export[e].pc \in {"verification", "failures", "signed"} =>
          export[e].due \subseteq
              RecordIds(e) \cup {r.key : r \in LegacyRows \cup purged}
    /\ export[e].pc \in {"records", "verification", "failures"} =>
          \A c \in export[e].due_failures : FailureOf(c, wanted[e].project_id)
    /\ export[e].pc = "signed" =>
          Cardinality(export[e].due_failures) <= export[e].dead_lettered_count

ExportInv ==
    /\ KeptInv
    /\ purged = {} => IInv
    /\ wanted \in ExportRequests
    /\ DOMAIN export = Exports
    /\ \A e \in Exports :
          /\ ExportShape(e)
          /\ purged = {} => WholeChainOK(e)
          /\ DueOK(e)

-----------------------------------------------------------------------------
(***************************************************************************)
(* The recorder's steps keep KeptInv, also after a deletion.               *)
(***************************************************************************)
LEMMA HeadsAreTyped ==
    ASSUME DbTypeOK, PlacesUnique, IsFiniteSet(AllChained)
    PROVE  HeadsTyped
<1> SUFFICES ASSUME NEW k PROVE get_activity_chain_head(k).chain_seq \in Nat
  BY DEF HeadsTyped
<1> DEFINE rows == chained_rows(k)
<1>1. rows \in SUBSET AllChained /\ \A r \in rows : r.chain_key = k
  BY DEF chained_rows, AllChained
<1>2. Placed(rows)
  <2>1. IsFiniteSet(rows)
    BY <1>1, FS_Subset
  <2>2. \A r \in AllChained : r.chain_seq \in Nat
    BY DEF AllChained, DbTypeOK, StatementTypeOK, Tables
  <2> QED
    BY <1>1, <2>1, <2>2 DEF Placed, PlacesUnique
<1>3. CASE rows = {}
  BY <1>3 DEF get_activity_chain_head, NoHead
<1>4. CASE rows # {}
  <2>1. \E r \in rows : \A s \in rows : s.chain_seq <= r.chain_seq
    BY <1>2, <1>4, LastRow
  <2>2. chain_head_row(k) \in rows
    BY <2>1 DEF chain_head_row
  <2> QED
    BY <1>2, <1>4, <2>2 DEF get_activity_chain_head, Placed
<1> QED
  BY <1>3, <1>4

LEMMA ExecuteKeeps ==
    ASSUME DbTypeOK, TablesOK, NEW stmt, ChainedStatement(stmt), execute(stmt)
    PROVE  /\ DbTypeOK' /\ TablesOK'
           /\ \A t \in Tables : db[t] \subseteq db'[t]
<1>1. /\ DbTypeOK'
      /\ \A t \in Tables : db[t] \subseteq db'[t]
      /\ outcome(stmt) # "created" => db' = db
      /\ outcome(stmt) = "created" =>
            \A t \in Tables :
               db'[t] = IF t = stmt.table THEN db[t] \cup {stmt.row} ELSE db[t]
  BY ExecuteType DEF ChainedStatement
<1>2. {"activity_records", "system_record_write_failures"} \subseteq Tables
  BY DEF Tables
<1>3. IsFiniteSet(FailureTable)'
  <2>1. FailureTable' = FailureTable \/ FailureTable' = FailureTable \cup {stmt.row}
    BY <1>1, <1>2 DEF FailureTable
  <2> QED
    BY <2>1, FS_AddElement DEF TablesOK
<1>4. CASE outcome(stmt) # "created" \/ stmt.table # "activity_records"
  <2>1. Activities' = Activities
    BY <1>1, <1>2, <1>4 DEF Activities
  <2>2. AllChained' = AllChained
    BY <2>1 DEF AllChained, Activities
  <2> QED
    BY <1>1, <1>3, <2>1, <2>2 DEF TablesOK, KeysUnique, PlacesUnique, UnchainedIsLegacy
<1>5. CASE outcome(stmt) = "created" /\ stmt.table = "activity_records"
  <2>1. Activities' = Activities \cup {stmt.row} /\ stmt.row.chain_seq # 0
    BY <1>1, <1>2, <1>5 DEF Activities, ChainedStatement
  <2>2. /\ \A r \in Activities : r.key # stmt.row.key
        /\ \A r \in Activities :
              ~(r.chain_key = stmt.row.chain_key /\ r.chain_seq = stmt.row.chain_seq)
    BY <1>5, <2>1 DEF outcome, key_taken, chain_seq_taken, Activities
  <2>3. AllChained' = AllChained \cup {stmt.row} /\ AllChained \subseteq Activities
    BY <2>1 DEF AllChained, Activities
  <2>4. KeysUnique' /\ UnchainedIsLegacy'
    BY <2>1, <2>2 DEF TablesOK, KeysUnique, UnchainedIsLegacy
  <2>5. PlacesUnique'
    BY <2>2, <2>3 DEF TablesOK, PlacesUnique
  <2> QED
    BY <1>1, <1>3, <2>4, <2>5 DEF TablesOK
<1> QED
  BY <1>4, <1>5

\* The statement of a call, whatever the database holds.
LEMMA CallStatement ==
    ASSUME TypeOK, NEW c \in Calls, call[c].pc \in Sending
    PROVE  ChainedStatement(statement(c))
<1>1. StatementTypeOK(statement(c))
  BY StatementHashed
<1>2. ASSUME statement(c).table = "activity_records" PROVE statement(c).row.chain_seq # 0
  <2>1. IsRequest(request[c]) /\ CallTypeOK(request[c], call[c])
    BY RequestsAreTyped
  <2>2. call[c].pc = "activity"
    <3>1. CASE call[c].pc = "related"
      <4>1. call[c].item \in 1 .. package_size(request[c])
        BY <2>1, <3>1 DEF CallTypeOK, IsRequest
      <4> QED
        BY <1>2, <2>1, <3>1, <4>1 DEF statement, IsRequest, RelatedTables
    <3>2. CASE call[c].pc = "interaction"
      BY <1>2, <3>2 DEF statement
    <3>3. CASE call[c].pc = "visibility"
      BY <1>2, <3>3 DEF statement
    <3> QED
      BY <3>1, <3>2, <3>3 DEF Sending
  <2>3. statement(c).row.chain_seq = call[c].head.chain_seq + 1
    BY <2>2 DEF statement, chain_activity_record
  <2> QED
    BY <2>1, <2>3 DEF CallTypeOK
<1> QED
  BY <1>1, <1>2 DEF ChainedStatement

\* Types, tables, hashes and statements: what does not depend on the calls' plans.
LEMMA NextTables ==
    ASSUME TypeOK, TablesOK, HashInv, \A stmt \in orphans : ChainedStatement(stmt),
           [Next]_vars
    PROVE  /\ TypeOK' /\ TablesOK' /\ HashInv'
           /\ \A stmt \in orphans' : ChainedStatement(stmt)
           /\ RowsStay
<1> DbTypeOK
  BY DEF TypeOK, DbTypeOK
<1>1. HeadsTyped
  BY HeadsAreTyped DEF TablesOK, HashInv
<1>2. HashInv'
  BY <1>1, NextHashInv
<1>3. ASSUME UNCHANGED db
      PROVE  DbTypeOK' /\ TablesOK' /\ \A t \in Tables : db[t] \subseteq db'[t]
  BY <1>3 DEF DbTypeOK, StatementTypeOK, TablesOK, KeysUnique, PlacesUnique,
              UnchainedIsLegacy, Activities, AllChained, FailureTable
<1>4. ASSUME NEW c \in Calls, NEW s, MovesTo(c, s)
      PROVE  /\ TypeOK' /\ TablesOK' /\ RowsStay
             /\ \A stmt \in orphans' : ChainedStatement(stmt)
  <2>1. call[c].pc \in Sending => ChainedStatement(statement(c))
    BY CallStatement
  <2>2. DbTypeOK' /\ TablesOK' /\ \A t \in Tables : db[t] \subseteq db'[t]
    BY <1>3, <1>4, <2>1, ExecuteKeeps DEF MovesTo
  <2>3. \A stmt \in orphans' : ChainedStatement(stmt)
    BY <1>4, <2>1 DEF MovesTo
  <2>4. /\ DOMAIN call' = Calls
        /\ \A d \in Calls : call'[d] = IF d = c THEN s ELSE call[d]
    BY <1>4 DEF TypeOK, MovesTo, Become
  <2>5. \A d \in Calls : CallTypeOK(request[d], call'[d])
    BY <1>4, <2>4 DEF MovesTo, NextCall, TypeOK
  <2>6. append_only' = append_only /\ request' = request
    BY <1>4 DEF MovesTo
  <2>7. TypeOK'
    BY <2>2, <2>3, <2>4, <2>5, <2>6
    DEF TypeOK, DbTypeOK, CallTypeOK, StatementTypeOK, ChainedStatement
  <2> QED
    BY <2>2, <2>3, <2>6, <2>7 DEF RowsStay
<1>5. ASSUME DatabaseMoves
      PROVE  /\ TypeOK' /\ TablesOK' /\ RowsStay
             /\ \A stmt \in orphans' : ChainedStatement(stmt)
  <2>1. DbTypeOK' /\ TablesOK' /\ \A t \in Tables : db[t] \subseteq db'[t]
    BY <1>3, <1>5, ExecuteKeeps DEF DatabaseMoves
  <2>2. \A stmt \in orphans' : ChainedStatement(stmt)
    BY <1>5 DEF DatabaseMoves
  <2>3. append_only' \in BOOLEAN /\ request' = request /\ call' = call
    BY <1>5 DEF DatabaseMoves, TypeOK
  <2>4. TypeOK'
    BY <2>1, <2>2, <2>3
    DEF TypeOK, DbTypeOK, CallTypeOK, StatementTypeOK, ChainedStatement
  <2> QED
    BY <2>1, <2>2, <2>3, <2>4 DEF RowsStay
<1> QED
  BY <1>1, <1>2, <1>4, <1>5, StepForms

\* Where a failed attempt leads: never to success, and the failure row's fate
\* stays open.
LEMMA FailureKeeps ==
    ASSUME NEW r, NEW s, CallTypeOK(r, s), NEW error
    PROVE  /\ Restarted(r, s, after_failure(r, s, error))
           /\ after_failure(r, s, error).failure_visible = s.failure_visible
<1>1. after_failure(r, s, error).failure_visible = s.failure_visible
  BY DEF CallTypeOK, IdleCall, after_failure, begin_attempt, return
<1> QED
  BY <1>1, FailureRestarts

\* An activity call gets past its activity row only by writing it, and reports
\* a failure as visible only after writing the failure row.
LEMMA MoveOfCall ==
    ASSUME TypeOK, [Next]_vars, NEW c \in Calls, call'[c] # call[c],
           call[c].status = "accepted" => call[c].pc = "done",
           call[c].failure_visible => call[c].pc = "done"
    PROVE  LET wrote == execute(statement(c)) /\ is_written(outcome(statement(c)))
           IN  /\ request[c].api \in ActivityApis
                     /\ (call'[c].pc = "related" \/ call'[c].status = "accepted")
                  => call[c].pc = "related" \/ (call[c].pc = "activity" /\ wrote)
               /\ call'[c].status = "accepted" => call'[c].pc = "done"
               /\ call'[c].failure_visible =>
                     call'[c].pc = "done" /\ call[c].pc = "visibility" /\ wrote
<1> DEFINE r == request[c]
           s == call[c]
           t == call'[c]
           wrote == execute(statement(c)) /\ is_written(outcome(statement(c)))
           Goal == /\ r.api \in ActivityApis /\ (t.pc = "related" \/ t.status = "accepted")
                      => s.pc = "related" \/ (s.pc = "activity" /\ wrote)
                   /\ t.status = "accepted" => t.pc = "done"
                   /\ t.failure_visible => t.pc = "done" /\ s.pc = "visibility" /\ wrote
<1>1. IsRequest(r) /\ CallTypeOK(r, s) /\ DOMAIN call = Calls
  BY RequestsAreTyped DEF TypeOK
<1>2. /\ r.api \in ActivityApis => first_step(r) # "related"
      /\ first_step(r) # "done"
  BY <1>1 DEF first_step, IsRequest, Apis, ActivityApis
<1>3. ASSUME s.pc # "done", Restarted(r, s, t), t.failure_visible = s.failure_visible
      PROVE  Goal
  BY <1>2, <1>3 DEF Restarted
<1>4. CASE Invoke(c)
  <2>1. CASE r.admissible
    <3>1. t = begin_attempt(r, s)
      BY <1>1, <1>4, <2>1 DEF Invoke, Become
    <3>2. t.failure_visible = s.failure_visible
      BY <1>1, <3>1 DEF begin_attempt, CallTypeOK, IdleCall
    <3> QED
      BY <1>1, <1>3, <1>4, <3>1, <3>2, BeginRestarts DEF Invoke
  <2>2. CASE ~r.admissible
    <3>1. t.pc = "done" /\ t.status = "raised" /\ t.failure_visible = s.failure_visible
      BY <1>1, <1>4, <2>2 DEF Invoke, Become, return, CallTypeOK, IdleCall
    <3> QED
      BY <1>4, <3>1 DEF Invoke
  <2> QED
    BY <2>1, <2>2
<1>5. CASE WriteInteraction(c)
  <2>1. CASE ~is_written(outcome(statement(c)))
    <3>1. t = after_failure(r, s, outcome(statement(c))) /\ s.pc = "interaction"
      BY <1>1, <1>5, <2>1 DEF WriteInteraction, Become
    <3> QED
      BY <1>1, <1>3, <3>1, FailureKeeps
  <2>2. CASE is_written(outcome(statement(c))) /\ r.api = "record_interaction"
    <3>1. t.pc = "done" /\ t.status = "accepted" /\ t.failure_visible = s.failure_visible
      BY <1>1, <1>5, <2>2 DEF WriteInteraction, Become, return, CallTypeOK, IdleCall
    <3> QED
      BY <1>5, <2>2, <3>1 DEF WriteInteraction, ActivityApis
  <2>3. CASE is_written(outcome(statement(c))) /\ r.api # "record_interaction"
    <3>1. /\ t.pc = "chain_head" /\ t.status = s.status
          /\ t.failure_visible = s.failure_visible
      BY <1>1, <1>5, <2>3 DEF WriteInteraction, Become, CallTypeOK, IdleCall
    <3> QED
      BY <1>5, <3>1 DEF WriteInteraction
  <2> QED
    BY <2>1, <2>2, <2>3
<1>6. CASE ReadChainHead(c)
  <2>1. /\ t.pc = "activity" /\ t.status = s.status
        /\ t.failure_visible = s.failure_visible
    BY <1>1, <1>6 DEF ReadChainHead, Become, CallTypeOK, IdleCall
  <2> QED
    BY <1>6, <2>1 DEF ReadChainHead
<1>7. CASE WriteActivity(c) \/ WriteRelated(c)
  <2>1. s.pc \in {"activity", "related"} /\ execute(statement(c))
    BY <1>7 DEF WriteActivity, WriteRelated
  <2>2. CASE ~is_written(outcome(statement(c)))
    <3>1. t = after_failure(r, s, outcome(statement(c)))
      BY <1>1, <1>7, <2>2 DEF WriteActivity, WriteRelated, Become
    <3> QED
      BY <1>1, <1>3, <2>1, <3>1, FailureKeeps
  <2>3. CASE is_written(outcome(statement(c)))
    <3>1. t = after_related(r, s)
      BY <1>1, <1>7, <2>3 DEF WriteActivity, WriteRelated, Become
    <3>2. /\ t.failure_visible = s.failure_visible
          /\ t.status = s.status \/ t.pc = "done"
      BY <1>1, <3>1 DEF after_related, return, CallTypeOK, IdleCall
    <3> QED
      BY <2>1, <2>3, <3>2
  <2> QED
    BY <2>2, <2>3
<1>8. CASE RejectRelated(c)
  <2>1. t = after_failure(r, s, "invalid_item") /\ s.pc = "related"
    BY <1>1, <1>8 DEF RejectRelated, Become
  <2> QED
    BY <1>1, <1>3, <2>1, FailureKeeps
<1>9. CASE WriteFailureRow(c)
  <2>1. /\ t.pc = "done" /\ t.status = "failed" /\ s.pc = "visibility"
        /\ execute(statement(c))
        /\ t.failure_visible = is_written(outcome(statement(c)))
    BY <1>1, <1>9 DEF WriteFailureRow, Become, return, CallTypeOK, IdleCall
  <2> QED
    BY <2>1
<1>10. CASE Lose(c)
  <2>1. CASE s.pc = "visibility"
    <3>1. t.pc = "done" /\ t.status = "failed" /\ t.failure_visible = s.failure_visible
      BY <1>1, <1>10, <2>1 DEF Lose, Become, return, CallTypeOK, IdleCall
    <3> QED
      BY <2>1, <3>1
  <2>2. CASE s.pc # "visibility"
    <3>1. t = after_failure(r, s, "lost") /\ s.pc # "done"
      BY <1>1, <1>10, <2>2 DEF Lose, Become
    <3> QED
      BY <1>1, <1>3, <3>1, FailureKeeps
  <2> QED
    BY <2>1, <2>2
<1>11. ASSUME NEW d \in Calls, d # c,
              \/ Invoke(d) \/ WriteInteraction(d) \/ ReadChainHead(d) \/ WriteActivity(d)
              \/ WriteRelated(d) \/ RejectRelated(d) \/ WriteFailureRow(d) \/ Lose(d)
       PROVE  FALSE
  BY <1>1, <1>11 DEF Invoke, WriteInteraction, ReadChainHead, WriteActivity,
         WriteRelated, RejectRelated, WriteFailureRow, Lose, Become
<1>12. ~(Migrate \/ (\E stmt \in orphans : ExecuteOrphan(stmt)) \/ UNCHANGED vars)
  BY DEF Migrate, ExecuteOrphan, vars
<1> QED
  BY <1>4, <1>5, <1>6, <1>7, <1>8, <1>9, <1>10, <1>11, <1>12 DEF Next

LEMMA SeenStays ==
    ASSUME NEW c, ActivitySeen(c), Seen \subseteq Seen', request' = request
    PROVE  ActivitySeen(c)'
  BY DEF ActivitySeen

LEMMA FailureStays ==
    ASSUME NEW c, NEW p, FailureOf(c, p), FailureTable \subseteq FailureTable'
    PROVE  FailureOf(c, p)'
  BY DEF FailureOf

LEMMA RecorderKeeps ==
    ASSUME KeptInv, [Next]_vars, purged' = purged
    PROVE  KeptInv' /\ RowsStay /\ Seen \subseteq Seen'
<1>1. /\ TypeOK' /\ TablesOK' /\ HashInv'
      /\ \A stmt \in orphans' : ChainedStatement(stmt)
      /\ RowsStay
  BY NextTables DEF KeptInv
<1>2. Seen \subseteq Seen' /\ FailureTable \subseteq FailureTable' /\ request' = request
  BY <1>1 DEF RowsStay, Seen, Activities, FailureTable, Tables
<1>3. ASSUME NEW c \in Calls PROVE Kept(c)'
  <2>1. Kept(c) /\ TypeOK /\ DbTypeOK
    BY DEF KeptInv, TypeOK, DbTypeOK
  <2>2. CASE call'[c] = call[c]
    BY <1>2, <2>1, <2>2, SeenStays, FailureStays DEF Kept
  <2>3. CASE call'[c] # call[c]
    <3> DEFINE wrote == execute(statement(c)) /\ is_written(outcome(statement(c)))
    <3>1. /\ request[c].api \in ActivityApis
                /\ (call'[c].pc = "related" \/ call'[c].status = "accepted")
             => call[c].pc = "related" \/ (call[c].pc = "activity" /\ wrote)
          /\ call'[c].status = "accepted" => call'[c].pc = "done"
          /\ call'[c].failure_visible =>
                call'[c].pc = "done" /\ call[c].pc = "visibility" /\ wrote
      BY <2>1, <2>3, MoveOfCall DEF Kept
    <3>2. ASSUME call[c].pc = "activity", wrote PROVE ActivitySeen(c)'
      <4>1. PICK o : o = statement(c)
        OBVIOUS
      <4>2. /\ o.table = "activity_records" /\ o.row.key = request[c].activity_id
            /\ o.row.compare = activity_fields(request[c])
        BY <3>2, <4>1 DEF statement, chain_activity_record
      <4>3. StatementTypeOK(o)
        BY <2>1, <3>2, <4>1, StatementHashed DEF Sending
      <4>4. InTable(o.table, o.row)'
        BY <2>1, <3>2, <4>1, <4>3, WrittenIsInTable
      <4> QED
        BY <1>2, <4>2, <4>4 DEF InTable, ActivitySeen, Seen, Activities
    <3>3. ASSUME call[c].pc = "visibility", wrote
          PROVE  FailureOf(c, request[c].interaction.project_id)'
      <4>1. PICK o : o = statement(c)
        OBVIOUS
      <4>2. /\ o.table = "system_record_write_failures" /\ o.row.key = <<"uuid", c>>
            /\ o.row.compare.project_id = request[c].interaction.project_id
        BY <3>3, <4>1 DEF statement, failure_row, plain_row
      <4>3. StatementTypeOK(o)
        BY <2>1, <3>3, <4>1, StatementHashed DEF Sending
      <4>4. InTable(o.table, o.row)'
        BY <2>1, <3>3, <4>1, <4>3, WrittenIsInTable
      <4> QED
        BY <1>2, <4>2, <4>4 DEF InTable, FailureOf, FailureTable
    <3>4. ASSUME call[c].pc = "related", request[c].api \in ActivityApis
          PROVE  ActivitySeen(c)'
      BY <1>2, <2>1, <3>4, SeenStays DEF Kept
    <3> HIDE DEF wrote
    <3> QED
      BY <1>2, <3>1, <3>2, <3>3, <3>4 DEF Kept
  <2> QED
    BY <2>2, <2>3
<1>4. \A r \in purged' : /\ ChainedStatement([table |-> "activity_records", row |-> r])
                         /\ WellHashed(r)
  BY DEF KeptInv
<1> QED
  BY <1>1, <1>2, <1>3, <1>4 DEF KeptInv, ChainedStatement, StatementTypeOK, WellHashed

LEMMA PurgeKeeps ==
    ASSUME KeptInv, NEW row \in AllChained, Purge(row)
    PROVE  /\ KeptInv' /\ Seen \subseteq Seen' /\ FailureTable \subseteq FailureTable'
           /\ request' = request /\ purged \subseteq purged' /\ purged' # {}
<1>1. /\ db' = [db EXCEPT !["activity_records"] = @ \ {row}]
      /\ purged' = purged \cup {row}
      /\ UNCHANGED <<append_only, request, call, orphans>>
  BY DEF Purge
<1>2. /\ DOMAIN db = Tables /\ "activity_records" \in Tables
      /\ "system_record_write_failures" \in Tables
  BY DEF KeptInv, TypeOK, Tables
<1>3. /\ DOMAIN db' = Tables
      /\ \A t \in Tables :
            db'[t] = IF t = "activity_records" THEN db[t] \ {row} ELSE db[t]
  BY <1>1, <1>2
<1>4. /\ Activities' = Activities \ {row} /\ AllChained' = AllChained \ {row}
      /\ FailureTable' = FailureTable /\ row \in Activities
      /\ row.chain_seq # 0
  BY <1>2, <1>3 DEF Activities, AllChained, FailureTable
<1>5. Seen' = Seen
  BY <1>1, <1>4 DEF Seen
<1>6. TypeOK'
  BY <1>1, <1>3 DEF KeptInv, TypeOK, CallTypeOK, StatementTypeOK
<1>7. row \notin LegacyRows
  <2>1. \A r \in LegacyRows : r.chain_seq = 0
    BY LegacyAssumption DEF plain_row
  <2> QED
    BY <1>4, <2>1
<1>8. TablesOK'
  BY <1>4, <1>7 DEF KeptInv, TablesOK, KeysUnique, PlacesUnique, UnchainedIsLegacy
<1>9. HashInv'
  <2>1. IsFiniteSet(AllChained \ {row})
    BY FS_RemoveElement DEF KeptInv, HashInv
  <2> QED
    BY <1>1, <1>4, <2>1 DEF KeptInv, HashInv, RowHashed, WellHashed
<1>10. \A stmt \in orphans' : ChainedStatement(stmt)
  BY <1>1 DEF KeptInv
<1>11. /\ WellHashed(row)
       /\ ChainedStatement([table |-> "activity_records", row |-> row])
  BY <1>2, <1>4 DEF KeptInv, HashInv, TypeOK, ChainedStatement, Activities
<1>12. \A r \in purged' : /\ ChainedStatement([table |-> "activity_records", row |-> r])
                          /\ WellHashed(r)
  BY <1>1, <1>11 DEF KeptInv
<1>13. \A c \in Calls : Kept(c)'
  BY <1>1, <1>4, <1>5, SeenStays, FailureStays DEF KeptInv, Kept
<1> QED
  BY <1>1, <1>4, <1>5, <1>6, <1>8, <1>9, <1>10, <1>12, <1>13
  DEF KeptInv, ChainedStatement, StatementTypeOK, WellHashed

-----------------------------------------------------------------------------
(***************************************************************************)
(* What an export reads.                                                   *)
(***************************************************************************)
\* A well hashed row is of the chain of its project.
LEMMA ChainOfRow ==
    ASSUME NEW r, WellHashed(r)
    PROVE  r.chain_key = chain_key_for_project(r.compare.project_id)
  BY DEF WellHashed

LEMMA PlacedRows ==
    ASSUME KeptInv, NEW k, NEW rows, rows \subseteq chained_rows(k)
    PROVE  Placed(rows)
<1>1. rows \in SUBSET AllChained /\ \A r \in rows : r.chain_key = k
  BY DEF chained_rows, AllChained
<1>2. IsFiniteSet(rows)
  BY <1>1, FS_Subset DEF KeptInv, HashInv
<1>3. \A r \in AllChained : r.chain_seq \in Nat
  BY DEF AllChained, KeptInv, TypeOK, StatementTypeOK, Tables
<1> QED
  BY <1>1, <1>2, <1>3 DEF Placed, KeptInv, TablesOK, PlacesUnique

\* The window of the records read holds every row of it once.
LEMMA FetchedRecords ==
    ASSUME KeptInv, NEW w, NEW records, records = fetch_activity_records_for_export(w)
    PROVE  \A r \in chained_rows(export_chain_key(w)) : in_window(w, r) =>
              \E i \in DOMAIN records : records[i] = r
<1> DEFINE rows == {r \in chained_rows(export_chain_key(w)) : in_window(w, r)}
<1>1. Placed(rows)
  BY PlacedRows
<1>2. records = in_chain_order(rows)
  BY DEF fetch_activity_records_for_export
<1> HIDE DEF rows
<1>3. \A r \in rows : \E i \in DOMAIN records : records[i] = r
  BY <1>1, <1>2, InChainOrder
<1> QED
  BY <1>3 DEF rows

LEMMA FetchedWhole ==
    ASSUME KeptInv, IInv, NEW w, whole_chain(w), NEW records,
           records = fetch_activity_records_for_export(w)
    PROVE  \E n : /\ ChainPrefix(records, export_chain_key(w), n)
                  /\ \A i \in 1 .. n : records[i] \in chained_rows(export_chain_key(w))
<1>1. {r \in chained_rows(export_chain_key(w)) : in_window(w, r)}
         = chained_rows(export_chain_key(w))
  BY DEF whole_chain, in_window
<1>2. records = select_chain(export_chain_key(w))
  BY <1>1 DEF fetch_activity_records_for_export, select_chain
<1> QED
  BY <1>2, ChainOfDatabase DEF KeptInv, HashInv, IInv

\* The rows read before are the first of those read now.
LEMMA PrefixOfChain ==
    ASSUME KeptInv, IInv, NEW k, NEW records, NEW n, ChainPrefix(records, k, n),
           \A i \in 1 .. n : records[i] \in chained_rows(k),
           NEW rows, rows = select_chain(k)
    PROVE  \E N : /\ ChainPrefix(rows, k, N) /\ n <= N
                  /\ \A i \in 1 .. n : rows[i] = records[i]
<1> DEFINE N == Cardinality(chained_rows(k))
<1>1. /\ ChainPrefix(rows, k, N)
      /\ \A r \in chained_rows(k) : \E i \in 1 .. N : rows[i] = r
  BY ChainOfDatabase DEF KeptInv, HashInv, IInv
<1> HIDE DEF N
<1>2. ASSUME NEW i \in 1 .. n PROVE i \in 1 .. N /\ rows[i] = records[i]
  <2>1. PICK j \in 1 .. N : rows[j] = records[i]
    BY <1>1
  <2>2. rows[j].chain_seq = j /\ records[i].chain_seq = i
    BY <1>1 DEF ChainPrefix
  <2> QED
    BY <2>1, <2>2
<1>3. n <= N
  <2>1. n \in Nat /\ N \in Nat
    BY <1>1 DEF ChainPrefix
  <2>2. n # 0 => n \in 1 .. N
    BY <1>2, <2>1
  <2> QED
    BY <2>1, <2>2
<1> QED
  BY <1>1, <1>2, <1>3

LEMMA VerdictCoversPrefix ==
    ASSUME NEW k, NEW records, NEW n, ChainPrefix(records, k, n),
           NEW rows, NEW N, ChainPrefix(rows, k, N), n <= N,
           \A i \in 1 .. n : rows[i] = records[i],
           NEW answer, answer = verify_activity_chain_rows(rows, k), answer.valid
    PROVE  /\ Len(records) <= answer.records_checked
           /\ verify_activity_chain_rows(records, k).valid
<1>1. NotUtc(rows) = {}
  BY VerdictOfPrefix
<1>2. n \in Nat /\ N \in Nat /\ DOMAIN records = 1 .. n /\ DOMAIN rows = 1 .. N
  BY DEF ChainPrefix
<1>3. NotUtc(records) = {}
  BY <1>1, <1>2 DEF NotUtc
<1>4. verify_activity_chain_rows(records, k).valid
  BY <1>3, VerdictOfPrefix
<1>5. Len(records) = n /\ Len(rows) = N
  BY <1>2
<1>6. answer.records_checked = Len(rows)
  <2>1. faulty_rows(rows, k) = {}
    BY <1>1, FaultOfPrefix DEF faulty_rows, NotUtc, ChainPrefix
  <2> QED
    BY <2>1 DEF verify_activity_chain_rows
<1> QED
  BY <1>4, <1>5, <1>6

\* Different calls have different failure rows: the count cannot be short.
LEMMA FailuresCounted ==
    ASSUME KeptInv, NEW due, NEW p, \A c \in due : FailureOf(c, p)
    PROVE  /\ count_system_record_write_failures(p) \in Nat
           /\ Cardinality(due) <= count_system_record_write_failures(p)
<1> DEFINE rows == {f \in FailureTable : f.compare.project_id = p}
           row_of == [c \in due |-> CHOOSE f \in rows : f.key = <<"uuid", c>>]
<1>1. IsFiniteSet(rows)
  <2>1. rows \in SUBSET FailureTable
    OBVIOUS
  <2> QED
    BY <2>1, FS_Subset DEF KeptInv, TablesOK
<1>2. \A c \in due : row_of[c] \in rows /\ row_of[c].key = <<"uuid", c>>
  BY DEF FailureOf
<1>3. row_of \in Injection(due, rows)
  <2>1. row_of \in [due -> rows]
    BY <1>2
  <2>2. ASSUME NEW c \in due, NEW d \in due, row_of[c] = row_of[d] PROVE c = d
    <3>1. <<"uuid", c>> = <<"uuid", d>>
      BY <1>2, <2>2
    <3> QED
      BY <3>1
  <2>3. DOMAIN row_of = due
    OBVIOUS
  <2>4. IsInjective(row_of)
    BY <2>2, <2>3 DEF IsInjective
  <2> QED
    BY <2>1, <2>4 DEF Injection
<1> HIDE DEF row_of
<1>4. Cardinality(due) <= Cardinality(rows) /\ Cardinality(rows) \in Nat
  BY <1>1, <1>3, FS_Injection, FS_CardinalityType
<1> QED
  BY <1>4 DEF count_system_record_write_failures, FailureTable

-----------------------------------------------------------------------------
(***************************************************************************)
(* The steps.                                                              *)
(***************************************************************************)
ExportOK(e) ==
    /\ ExportShape(e)
    /\ purged = {} => WholeChainOK(e)
    /\ DueOK(e)

\* What an export holds is judged by its records alone.
LEMMA PrefixHeld ==
    ASSUME NEW e, NEW records, NEW k, NEW n, ChainPrefix(records, k, n),
           export'[e].records = records, export_chain_key(wanted'[e]) = k,
           \A i \in 1 .. n : records[i] \in chained_rows(k)'
    PROVE  HoldsPrefix(e)'
<1>1. PICK found : found = export[e].records'
  OBVIOUS
<1>2. PICK key : key = export_chain_key(wanted[e])'
  OBVIOUS
<1>3. ChainPrefix(found, key, n) /\ \A i \in 1 .. n : found[i] \in chained_rows(key)'
  BY <1>1, <1>2
<1> QED
  BY <1>1, <1>2, <1>3 DEF HoldsPrefix

\* An export that does not move: what it holds was read and stays read.
LEMMA ExportStays ==
    ASSUME NEW e, ExportOK(e), export'[e] = export[e], wanted' = wanted,
           Seen \subseteq Seen', FailureTable \subseteq FailureTable',
           purged \subseteq purged',
           purged' = {} => purged = {} /\ AllChained \subseteq AllChained'
    PROVE  ExportOK(e)'
<1>1. ExportShape(e)'
  BY DEF ExportOK, ExportShape
<1>2. ASSUME purged' = {} PROVE WholeChainOK(e)'
  <2>1. \A k : chained_rows(k) \subseteq chained_rows(k)'
    BY <1>2 DEF chained_rows, AllChained
  <2>2. HoldsPrefix(e) => HoldsPrefix(e)'
    BY <2>1, PrefixHeld DEF HoldsPrefix
  <2> QED
    BY <1>2, <2>2 DEF ExportOK, WholeChainOK, VerdictCovers
<1>3. DueOK(e)'
  <2>1. \A c, p : FailureOf(c, p) => FailureOf(c, p)'
    BY FailureStays
  <2> QED
    BY <2>1 DEF ExportOK, DueOK, DueRow, in_window, RecordIds
<1> QED
  BY <1>1, <1>2, <1>3 DEF ExportOK

LEMMA ExportInitInv == ExportInit => ExportInv
<1> SUFFICES ASSUME ExportInit PROVE ExportInv
  OBVIOUS
<1>1. IInv /\ HashInv /\ Init
  BY InitIInv, InitHashInv DEF ExportInit
<1>2. FailureTable = {} /\ orphans = {} /\ purged = {}
  BY <1>1 DEF Init, InitSystemRecord, FailureTable, Tables, ExportInit
<1>3. \A c \in Calls : Kept(c)
  BY <1>1 DEF Init, IdleCall, Kept
<1>4. KeptInv
  BY <1>1, <1>2, <1>3, FS_EmptySet DEF KeptInv, IInv, TablesOK, DbInv
<1>5. ASSUME NEW e \in Exports PROVE ExportOK(e)
  <2>1. export[e] = Waiting
    BY DEF ExportInit
  <2>2. ExportShape(e)
    BY <2>1 DEF ExportShape, Waiting, ExportPcs, Begun
  <2>3. WholeChainOK(e) /\ DueOK(e)
    BY <2>1 DEF WholeChainOK, DueOK, Waiting
  <2> QED
    BY <2>2, <2>3 DEF ExportOK
<1> QED
  BY <1>1, <1>4, <1>5 DEF ExportInv, ExportInit, ExportOK

\* What an export that begins is due: a row of every accepted activity of its
\* chain and window has been seen, of that chain unless it is legacy.
LEMMA DueAtBegin ==
    ASSUME KeptInv, NEW w, NEW id \in accepted_before(w)
    PROVE  \E r \in Seen : r.key = id /\ DueRow(w, r)
<1>1. PICK c \in AcceptedActivities :
         /\ chain_key(request[c]) = chain_key_for_project(w.project_id)
         /\ in_window(w, [compare |-> activity_fields(request[c])])
         /\ id = request[c].activity_id
  BY DEF accepted_before
<1>2. PICK r \in Seen : r.key = id /\ r.compare = activity_fields(request[c])
  BY <1>1 DEF AcceptedActivities, KeptInv, Kept, ActivitySeen
<1>3. in_window(w, r)
  BY <1>1, <1>2 DEF in_window
<1>4. CASE r \in LegacyRows
  BY <1>2, <1>4 DEF DueRow
<1>5. CASE r \notin LegacyRows
  <2>1. r.chain_seq # 0 /\ WellHashed(r)
    BY <1>5 DEF Seen, KeptInv, TablesOK, UnchainedIsLegacy, HashInv, AllChained,
                Activities, ChainedStatement
  <2>2. r.chain_key = chain_key_for_project(request[c].interaction.project_id)
    BY <1>2, <2>1, ChainOfRow DEF activity_fields
  <2>3. r.chain_key = export_chain_key(w)
    BY <1>1, <2>2 DEF chain_key, export_chain_key
  <2> QED
    BY <1>2, <1>3, <2>1, <2>3 DEF DueRow
<1> QED
  BY <1>4, <1>5

LEMMA BeginStep ==
    ASSUME ExportInv, NEW e \in Exports, BeginExport(e)
    PROVE  ExportOK(e)'
<1>1. export[e].pc = "idle" /\ ExportOK(e) /\ DOMAIN export[e] = DOMAIN Waiting
  BY DEF BeginExport, ExportInv, ExportOK, ExportShape
<1>2. UNCHANGED <<vars, wanted, purged>> /\ DOMAIN export = Exports
  BY DEF BeginExport, ExportInv
<1>3. CASE can_sign(wanted[e])
  <2>1. export'[e] = [export[e] EXCEPT !.pc           = "records",
                                       !.due          = accepted_before(wanted[e]),
                                       !.due_failures = failures_before(wanted[e])]
    BY <1>2, <1>3 DEF BeginExport, BecomeExport, next_read
  <2>2. /\ DOMAIN export'[e] = DOMAIN Waiting
        /\ export'[e].pc = "records"
        /\ export'[e].due = accepted_before(wanted[e])
        /\ export'[e].due_failures = failures_before(wanted[e])
        /\ export'[e].dead_lettered_count = export[e].dead_lettered_count
        /\ export'[e].signature = export[e].signature
    BY <1>1, <2>1 DEF Waiting
  <2>3. ExportShape(e)'
    BY <1>1, <1>2, <1>3, <2>2 DEF ExportOK, ExportShape, ExportPcs, Begun
  <2>4. WholeChainOK(e)'
    BY <2>2 DEF WholeChainOK
  <2>5. \A id \in accepted_before(wanted[e]) : \E r \in Seen : r.key = id /\ DueRow(wanted[e], r)
    BY DueAtBegin DEF ExportInv
  <2>6. \A c \in failures_before(wanted[e]) : FailureOf(c, wanted[e].project_id)
    BY DEF failures_before, ExportInv, KeptInv, Kept
  <2>7. Seen' = Seen /\ FailureTable' = FailureTable
    BY <1>2 DEF vars, Seen, Activities, FailureTable
  <2>8. DueOK(e)'
    BY <1>2, <2>2, <2>5, <2>6, <2>7 DEF DueOK, DueRow, in_window, FailureOf
  <2> QED
    BY <2>3, <2>4, <2>8 DEF ExportOK
<1>4. CASE ~can_sign(wanted[e])
  <2>1. export'[e] = [export[e] EXCEPT !.pc = "refused"]
    BY <1>2, <1>4 DEF BeginExport, BecomeExport
  <2>2. /\ DOMAIN export'[e] = DOMAIN Waiting /\ export'[e].pc = "refused"
        /\ export'[e].dead_lettered_count = export[e].dead_lettered_count
        /\ export'[e].signature = export[e].signature
    BY <1>1, <2>1 DEF Waiting
  <2>3. ExportShape(e)'
    BY <1>1, <1>2, <2>2 DEF ExportOK, ExportShape, ExportPcs, Begun
  <2> QED
    BY <2>2, <2>3 DEF ExportOK, WholeChainOK, DueOK
<1> QED
  BY <1>3, <1>4

LEMMA FetchStep ==
    ASSUME ExportInv, NEW e \in Exports, FetchRecords(e)
    PROVE  ExportOK(e)'
<1> DEFINE w == wanted[e]
           records == fetch_activity_records_for_export(w)
<1>1. export[e].pc = "records" /\ ExportOK(e) /\ DOMAIN export[e] = DOMAIN Waiting
  BY DEF FetchRecords, ExportInv, ExportOK, ExportShape
<1>2. UNCHANGED <<vars, wanted, purged>> /\ DOMAIN export = Exports
  BY DEF FetchRecords, ExportInv
<1>3. export'[e] = [export[e] EXCEPT !.pc = "verification", !.records = records]
  BY <1>2 DEF FetchRecords, BecomeExport, next_read
<1>4. /\ DOMAIN export'[e] = DOMAIN Waiting
      /\ export'[e].pc = "verification"
      /\ export'[e].records = records
      /\ export'[e].due = export[e].due
      /\ export'[e].due_failures = export[e].due_failures
      /\ export'[e].dead_lettered_count = export[e].dead_lettered_count
      /\ export'[e].signature = export[e].signature
  BY <1>1, <1>3 DEF Waiting
<1>5. PICK found : found = records
  OBVIOUS
<1>6. ExportShape(e)'
  BY <1>1, <1>2, <1>4 DEF ExportOK, ExportShape, ExportPcs, Begun
<1>7. ASSUME purged' = {} PROVE WholeChainOK(e)'
  <2>1. ASSUME whole_chain(w)
        PROVE  \E n : /\ ChainPrefix(found, export_chain_key(w), n)
                      /\ \A i \in 1 .. n : found[i] \in chained_rows(export_chain_key(w))
    BY <1>2, <1>5, <1>7, <2>1, FetchedWhole DEF ExportInv
  <2>2. \A k : chained_rows(k)' = chained_rows(k)
    BY <1>2 DEF chained_rows, vars
  <2>3. whole_chain(w) => HoldsPrefix(e)'
    BY <1>2, <1>4, <1>5, <2>1, <2>2, PrefixHeld
  <2> QED
    BY <1>2, <1>4, <2>3 DEF WholeChainOK
<1>8. DueOK(e)'
  <2>1. ASSUME NEW id \in export[e].due
        PROVE  \/ \E i \in DOMAIN found : found[i].key = id
               \/ \E r \in LegacyRows \cup purged : r.key = id
    <3>1. PICK r \in Seen : r.key = id /\ DueRow(w, r)
      BY <1>1 DEF ExportOK, DueOK
    <3>2. CASE r \in LegacyRows \cup purged
      BY <3>1, <3>2
    <3>3. CASE r \notin LegacyRows \cup purged
      <4>1. r \in chained_rows(export_chain_key(w)) /\ in_window(w, r)
        BY <3>1, <3>3 DEF DueRow, Seen, Activities, chained_rows
      <4>2. \E i \in DOMAIN found : found[i] = r
        BY <1>5, <4>1, FetchedRecords DEF ExportInv
      <4> QED
        BY <3>1, <4>2
    <3> QED
      BY <3>2, <3>3
  <2>2. export[e].due \subseteq
           {found[i].key : i \in DOMAIN found} \cup {r.key : r \in LegacyRows \cup purged}
    BY <2>1
  <2>3. \A c \in export[e].due_failures : FailureOf(c, w.project_id)
    BY <1>1 DEF ExportOK, DueOK
  <2> QED
    BY <1>2, <1>4, <1>5, <2>2, <2>3 DEF DueOK, RecordIds, FailureOf, FailureTable, vars
<1> QED
  BY <1>6, <1>7, <1>8 DEF ExportOK

LEMMA VerifyStep ==
    ASSUME ExportInv, NEW e \in Exports, VerifyChain(e)
    PROVE  ExportOK(e)'
<1> DEFINE w == wanted[e]
           k == export_chain_key(w)
<1>1. export[e].pc = "verification" /\ ExportOK(e) /\ DOMAIN export[e] = DOMAIN Waiting
  BY DEF VerifyChain, ExportInv, ExportOK, ExportShape
<1>2. UNCHANGED <<vars, wanted, purged>> /\ DOMAIN export = Exports
  BY DEF VerifyChain, ExportInv
<1>3. PICK rows, answer : rows = select_chain(k) /\ answer = verify_activity_chain_rows(rows, k)
  OBVIOUS
<1>4. export'[e] = [export[e] EXCEPT !.pc = "failures", !.chain_verification = answer]
  BY <1>2, <1>3 DEF VerifyChain, BecomeExport, next_read, verify_activity_chain
<1>5. /\ DOMAIN export'[e] = DOMAIN Waiting
      /\ export'[e].pc = "failures"
      /\ export'[e].chain_verification = answer
      /\ export'[e].records = export[e].records
      /\ export'[e].due = export[e].due
      /\ export'[e].due_failures = export[e].due_failures
      /\ export'[e].dead_lettered_count = export[e].dead_lettered_count
      /\ export'[e].signature = export[e].signature
  BY <1>1, <1>4 DEF Waiting
<1>6. answer.valid \in BOOLEAN
  BY <1>3 DEF verify_activity_chain_rows
<1>7. ExportShape(e)'
  BY <1>1, <1>2, <1>5, <1>6 DEF ExportOK, ExportShape, ExportPcs, Begun
<1>8. ASSUME purged' = {} PROVE WholeChainOK(e)'
  <2>1. SUFFICES ASSUME whole_chain(w) PROVE HoldsPrefix(e)' /\ VerdictCovers(e)'
    BY <1>2 DEF WholeChainOK
  <2>2. PICK n : /\ ChainPrefix(export[e].records, k, n)
                 /\ \A i \in 1 .. n : export[e].records[i] \in chained_rows(k)
    BY <1>1, <1>2, <1>8, <2>1 DEF ExportOK, WholeChainOK, HoldsPrefix
  <2>3. HoldsPrefix(e)'
    <3>1. chained_rows(k)' = chained_rows(k)
      BY <1>2 DEF chained_rows, vars
    <3> QED
      BY <1>2, <1>5, <2>2, <3>1, PrefixHeld
  <2>4. PICK N : /\ ChainPrefix(rows, k, N) /\ n <= N
                 /\ \A i \in 1 .. n : rows[i] = export[e].records[i]
    BY <1>2, <1>3, <1>8, <2>2, PrefixOfChain DEF ExportInv
  <2>5. PICK records : records = export[e].records
    OBVIOUS
  <2>6. answer.valid => /\ Len(records) <= answer.records_checked
                        /\ verify_activity_chain_rows(records, k).valid
    BY <1>3, <2>2, <2>4, <2>5, VerdictCoversPrefix
  <2>7. VerdictCovers(e)'
    BY <1>2, <1>5, <2>5, <2>6 DEF VerdictCovers
  <2> QED
    BY <2>3, <2>7
<1>9. DueOK(e)'
  <2>1. FailureTable' = FailureTable /\ RecordIds(e)' = RecordIds(e)
    BY <1>2, <1>5 DEF FailureTable, RecordIds, vars
  <2>2. \A c, p : FailureOf(c, p)' = FailureOf(c, p)
    BY <2>1 DEF FailureOf
  <2> QED
    BY <1>1, <1>2, <1>5, <2>1, <2>2 DEF ExportOK, DueOK
<1> QED
  BY <1>7, <1>8, <1>9 DEF ExportOK

LEMMA CountStep ==
    ASSUME ExportInv, NEW e \in Exports, CountFailures(e)
    PROVE  ExportOK(e)'
<1>1. export[e].pc = "failures" /\ ExportOK(e) /\ DOMAIN export[e] = DOMAIN Waiting
  BY DEF CountFailures, ExportInv, ExportOK, ExportShape
<1>2. UNCHANGED <<vars, wanted, purged>> /\ DOMAIN export = Exports
  BY DEF CountFailures, ExportInv
<1>3. PICK count : count = count_system_record_write_failures(wanted[e].project_id)
  OBVIOUS
<1>4. export'[e] = [export[e] EXCEPT !.pc = "signed", !.dead_lettered_count = count,
                                     !.signature = wanted[e].signing_key]
  BY <1>2, <1>3 DEF CountFailures, BecomeExport, next_read
<1>5. /\ DOMAIN export'[e] = DOMAIN Waiting
      /\ export'[e].pc = "signed"
      /\ export'[e].chain_verification = export[e].chain_verification
      /\ export'[e].records = export[e].records
      /\ export'[e].due = export[e].due
      /\ export'[e].due_failures = export[e].due_failures
      /\ export'[e].dead_lettered_count = count
      /\ export'[e].signature = wanted[e].signing_key
  BY <1>1, <1>4 DEF Waiting
<1>6. count \in Nat /\ Cardinality(export[e].due_failures) <= count
  BY <1>1, <1>3, FailuresCounted DEF ExportInv, ExportOK, DueOK
<1>7. ExportShape(e)'
  BY <1>1, <1>2, <1>5, <1>6 DEF ExportOK, ExportShape, ExportPcs, Begun
<1>8. ASSUME purged' = {} PROVE WholeChainOK(e)'
  <2>1. HoldsPrefix(e) => HoldsPrefix(e)'
    <3>1. \A k : chained_rows(k)' = chained_rows(k)
      BY <1>2 DEF chained_rows, vars
    <3> QED
      BY <1>2, <1>5, <3>1, PrefixHeld DEF HoldsPrefix
  <2>2. VerdictCovers(e) => VerdictCovers(e)'
    BY <1>2, <1>5 DEF VerdictCovers
  <2> QED
    BY <1>1, <1>2, <1>8, <2>1, <2>2 DEF ExportOK, WholeChainOK
<1>9. DueOK(e)'
  BY <1>1, <1>2, <1>5, <1>6 DEF ExportOK, DueOK, RecordIds
<1> QED
  BY <1>7, <1>8, <1>9 DEF ExportOK

LEMMA LoseStep ==
    ASSUME ExportInv, NEW e \in Exports, LoseExport(e)
    PROVE  ExportOK(e)'
<1>1. ExportOK(e) /\ DOMAIN export[e] = DOMAIN Waiting
      /\ export[e].pc \in {"records", "verification", "failures"}
  BY DEF LoseExport, ExportInv, ExportOK, ExportShape
<1>2. export'[e] = [export[e] EXCEPT !.pc = "raised"] /\ wanted' = wanted
  BY DEF LoseExport, BecomeExport, ExportInv
<1>3. /\ DOMAIN export'[e] = DOMAIN Waiting /\ export'[e].pc = "raised"
      /\ export'[e].dead_lettered_count = export[e].dead_lettered_count
      /\ export'[e].signature = export[e].signature
  BY <1>1, <1>2 DEF Waiting
<1>4. ExportShape(e)'
  BY <1>1, <1>2, <1>3 DEF ExportOK, ExportShape, ExportPcs, Begun
<1> QED
  BY <1>3, <1>4 DEF ExportOK, WholeChainOK, DueOK

\* Reading leaves everything but the export alone.
LEMMA ExportMoves ==
    ASSUME ExportInv, UNCHANGED <<vars, wanted, purged>>
    PROVE  /\ KeptInv' /\ (purged' = {} => IInv') /\ wanted' \in ExportRequests
           /\ Seen' = Seen /\ FailureTable' = FailureTable /\ AllChained' = AllChained
<1>1. Seen' = Seen /\ FailureTable' = FailureTable /\ AllChained' = AllChained
  BY DEF vars, Seen, Activities, FailureTable, AllChained
<1>2. KeptInv'
  BY RecorderKeeps DEF ExportInv
<1>3. purged' = {} => IInv'
  BY NextIInv DEF ExportInv
<1> QED
  BY <1>1, <1>2, <1>3 DEF ExportInv

LEMMA ExportNextInv == ExportInv /\ [ExportNext]_allVars => ExportInv'
<1> SUFFICES ASSUME ExportInv, [ExportNext]_allVars PROVE ExportInv'
  OBVIOUS
<1>1. CASE RecorderStep \/ UNCHANGED allVars
  <2>1. [Next]_vars /\ UNCHANGED exportVars
    BY <1>1 DEF RecorderStep, allVars
  <2>2. UNCHANGED <<wanted, export, purged>>
    BY <2>1 DEF exportVars
  <2>3. KeptInv' /\ RowsStay /\ Seen \subseteq Seen'
    BY <2>1, <2>2, RecorderKeeps DEF ExportInv
  <2>4. purged' = {} => IInv'
    BY <2>1, <2>2, NextIInv DEF ExportInv
  <2>5. FailureTable \subseteq FailureTable' /\ AllChained \subseteq AllChained'
    BY <2>3 DEF RowsStay, FailureTable, AllChained, Tables
  <2>6. \A e \in Exports : ExportOK(e)'
    BY <2>2, <2>3, <2>5, ExportStays DEF ExportInv, ExportOK
  <2> QED
    BY <2>2, <2>3, <2>4, <2>6 DEF ExportInv, ExportOK
<1>2. ASSUME NEW e \in Exports,
             \/ BeginExport(e) \/ FetchRecords(e) \/ VerifyChain(e)
             \/ CountFailures(e) \/ LoseExport(e)
      PROVE  ExportInv'
  <2>1. UNCHANGED <<vars, wanted, purged>> /\ \E s : BecomeExport(e, s)
    BY <1>2 DEF BeginExport, FetchRecords, VerifyChain, CountFailures, LoseExport
  <2>2. /\ KeptInv' /\ (purged' = {} => IInv') /\ wanted' \in ExportRequests
        /\ Seen' = Seen /\ FailureTable' = FailureTable /\ AllChained' = AllChained
    BY <2>1, ExportMoves
  <2>3. ExportOK(e)'
    BY <1>2, BeginStep, FetchStep, VerifyStep, CountStep, LoseStep
  <2>4. DOMAIN export' = Exports /\ \A d \in Exports : d # e => export'[d] = export[d]
    BY <2>1 DEF BecomeExport, ExportInv
  <2>5. \A d \in Exports : d # e => ExportOK(d)'
    BY <2>1, <2>2, <2>4, ExportStays DEF ExportInv, ExportOK
  <2> QED
    BY <2>2, <2>3, <2>4, <2>5 DEF ExportInv, ExportOK
<1>3. ASSUME NEW row \in AllChained, Purge(row) PROVE ExportInv'
  <2>1. /\ KeptInv' /\ Seen \subseteq Seen' /\ FailureTable \subseteq FailureTable'
        /\ purged \subseteq purged' /\ purged' # {}
    BY <1>3, PurgeKeeps DEF ExportInv
  <2>2. wanted' = wanted /\ export' = export
    BY <1>3 DEF Purge
  <2>3. \A e \in Exports : ExportOK(e)'
    BY <2>1, <2>2, ExportStays DEF ExportInv, ExportOK
  <2> QED
    BY <2>1, <2>2, <2>3 DEF ExportInv, ExportOK
<1> QED
  BY <1>1, <1>2, <1>3 DEF ExportNext

-----------------------------------------------------------------------------
(***************************************************************************)
(* Theorems.                                                               *)
(***************************************************************************)
THEOREM ExportInvariance == ExportSpec => []ExportInv
  BY ExportInitInv, ExportNextInv, PTL DEF ExportSpec

\* The recorder keeps its shape beside exports and deletions; only a signed
\* package carries a signature, made by a key that was there.
THEOREM ExportTypeCorrect == ExportSpec => []ExportTypeOK
<1>1. ExportInv => ExportTypeOK
  BY DEF ExportInv, ExportTypeOK, KeptInv, ChainedStatement, ExportShape, can_sign, Begun
<1> QED
  BY <1>1, ExportInvariance, PTL

\* A package of a whole chain verifies exactly when its records were hashed in
\* UTC, for chains of any length and any writers, as long as nothing is deleted.
THEOREM WholeChainsVerify == ExportSpec => []WholeChainExportVerifies
<1>1. ExportInv => WholeChainExportVerifies
  <2> SUFFICES ASSUME ExportInv, NEW e \in Exports, Signed(e), whole_chain(wanted[e]),
                      purged = {}
               PROVE  verify_signed_compliance_export(e, wanted[e].signing_key).overall_pass
                         <=> AllUtc(export[e].records)
    BY DEF WholeChainExportVerifies
  <2>1. /\ export[e].signature = wanted[e].signing_key
        /\ wanted[e].signing_key # None
    BY DEF ExportInv, ExportShape, Signed, Begun, can_sign
  <2>2. PICK n : ChainPrefix(export[e].records, export_chain_key(wanted[e]), n)
    BY DEF ExportInv, WholeChainOK, HoldsPrefix, Signed
  <2>3. verify_activity_chain_rows(export[e].records, export_chain_key(wanted[e])).valid
           <=> AllUtc(export[e].records)
    BY <2>2, VerdictOfPrefix DEF NotUtc, AllUtc
  <2> QED
    BY <2>1, <2>3 DEF verify_signed_compliance_export
<1> QED
  BY <1>1, ExportInvariance, PTL

\* The verdict a package states covers its records, although the chain was read
\* after them and grew in between.
THEOREM PackagesCohere == ExportSpec => []PackageCoherent
<1>1. ExportInv => PackageCoherent
  BY DEF ExportInv, PackageCoherent, WholeChainOK, VerdictCovers, Signed
<1> QED
  BY <1>1, ExportInvariance, PTL

\* A package holds every activity, and counts every failure, that a caller had
\* been told of when it was asked for, whatever is written, lost or deleted
\* while it is built.
THEOREM PackagesAreComplete == ExportSpec => []CompleteAsOfStart
<1>1. ExportInv => CompleteAsOfStart
  BY DEF ExportInv, CompleteAsOfStart, DueOK, Signed
<1> QED
  BY <1>1, ExportInvariance, PTL

\* Whatever else is deleted or written, a deleted row whose successor is still
\* there makes its chain invalid.
THEOREM DeletionsShow == ExportSpec => []SurvivorRevealsDeletion
<1>1. ExportInv => SurvivorRevealsDeletion
  <2> SUFFICES ASSUME ExportInv, NEW p \in purged \ Activities, NEW r \in AllChained,
                      r.chain_key = p.chain_key, r.chain_seq = p.chain_seq + 1,
                      r.prev_record_hash = p.record_hash,
                      verify_activity_chain(p.chain_key).valid
               PROVE  FALSE
    BY DEF SurvivorRevealsDeletion, Activities
  <2> DEFINE k == p.chain_key
             N == Cardinality(chained_rows(k))
  <2>1. PICK rows : rows = select_chain(k) /\ rows = in_chain_order(chained_rows(k))
    BY DEF select_chain
  <2>2. Placed(chained_rows(k)) /\ KeptInv
    BY PlacedRows DEF ExportInv
  <2>3. /\ N \in Nat /\ DOMAIN rows = 1 .. N
        /\ \A i \in 1 .. N : rows[i] \in chained_rows(k)
        /\ \A s \in chained_rows(k) : \E i \in 1 .. N : rows[i] = s
    BY <2>1, <2>2, InChainOrder
  <2>4. verify_activity_chain_rows(rows, k).valid
    BY <2>1 DEF verify_activity_chain
  <2>5. faulty_rows(rows, k) = {}
    BY <2>4 DEF verify_activity_chain_rows
  <2> HIDE DEF N
  <2>6. \A i \in 1 .. N : /\ rows[i].chain_seq = i
                          /\ rows[i].prev_record_hash = prev_hash(rows, i)
    BY <2>3, <2>5 DEF faulty_rows, row_fault
  <2>7. PICK i \in 1 .. N : rows[i] = r
    BY <2>3 DEF chained_rows, AllChained
  <2>8. p.chain_seq \in Nat /\ p.chain_seq # 0 /\ WellHashed(p)
    BY <2>2 DEF KeptInv, ChainedStatement, StatementTypeOK
  <2>9. i = p.chain_seq + 1 /\ i # 1 /\ i - 1 \in 1 .. N
    BY <2>3, <2>6, <2>7, <2>8
  <2>10. rows[i - 1].record_hash = p.record_hash
    BY <2>6, <2>7, <2>9 DEF prev_hash
  <2>11. rows[i - 1] \in AllChained
    BY <2>3, <2>9 DEF chained_rows, AllChained
  <2>12. rows[i - 1] = p
    BY <2>2, <2>8, <2>10, <2>11, HashDeterminesRow DEF KeptInv, HashInv
  <2> QED
    BY <2>11, <2>12 DEF AllChained, Activities
<1> QED
  BY <1>1, ExportInvariance, PTL
=============================================================================
