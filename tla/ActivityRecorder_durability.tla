---------------------- MODULE ActivityRecorder_durability ----------------------
(***************************************************************************)
(* What a caller is told is in the database, the recorder implements       *)
(* ActivityLog, and what a failed call reports is so: all from an          *)
(* invariant that says, of every place a call can be in its package, which *)
(* of its rows are committed.  Last, what a retry costs: without losses,   *)
(* every attempt after the first is owed to a rival's commit.              *)
(***************************************************************************)
EXTENDS ActivityRecorder_proofs

\* What an accepted result of call c stands for.
Delivered(c) ==
    /\ request[c].api = "record_interaction" => InteractionDurable(c)
    /\ request[c].api \in ActivityApis =>
          /\ ActivityDurable(c)
          /\ has_interaction(request[c]) => InteractionDurable(c)
    /\ RelatedDurable(c, package_size(request[c]))

\* What is committed when call c is where it is.
Durable(c) ==
    /\ /\ request[c].api \in ActivityApis /\ has_interaction(request[c])
       /\ call[c].pc \in {"chain_head", "activity", "related"}
       => InteractionDurable(c)
    /\ request[c].api \in ActivityApis /\ call[c].pc = "related" => ActivityDurable(c)
    /\ call[c].pc = "related" => RelatedDurable(c, call[c].item - 1)
    /\ call[c].pc \in {"chain_head", "activity"} => request[c].api \in ActivityApis
    /\ call[c].pc \in {"interaction", "chain_head", "activity"} =>
          request[c].api # "record_related" /\ call[c].item = 0
    /\ request[c].api = "record_interaction" => call[c].pc # "related"
    /\ call[c].status = "accepted" => call[c].pc = "done" /\ Delivered(c)

DInv == IInv /\ \A c \in Calls : Durable(c)

RowsStay == request' = request /\ \A t \in Tables : db[t] \subseteq db'[t]

-----------------------------------------------------------------------------
(***************************************************************************)
(* Committed rows stay committed.                                          *)
(***************************************************************************)
LEMMA InteractionStays ==
    ASSUME NEW c, InteractionDurable(c), RowsStay
    PROVE  InteractionDurable(c)'
  BY DEF InteractionDurable, InTable, RowsStay, Tables

LEMMA ActivityStays ==
    ASSUME NEW c, ActivityDurable(c), RowsStay
    PROVE  ActivityDurable(c)'
  BY DEF ActivityDurable, InTable, RowsStay, Tables

LEMMA SameAttemptSameRow ==
    ASSUME NEW c, NEW r, NEW s, NEW t, t.attempt = s.attempt, NEW i
    PROVE  related_row(c, r, s, i) = related_row(c, r, t, i)
  BY DEF related_row, related_key

LEMMA RelatedStays ==
    ASSUME NEW c, IsRequest(request[c]), NEW n, \A i \in 1 .. n : i \in 1 .. package_size(request[c]),
           RelatedDurable(c, n), RowsStay, call'[c].attempt = call[c].attempt
    PROVE  RelatedDurable(c, n)'
<1> SUFFICES ASSUME NEW i \in 1 .. n
             PROVE  InTable(request[c].related[i].table,
                            related_row(c, request[c], call[c], i))'
  BY DEF RelatedDurable
<1>1. request[c].related[i].table \in Tables
  BY DEF IsRequest, Tables
<1>2. InTable(request[c].related[i].table, related_row(c, request[c], call[c], i))
  BY DEF RelatedDurable
<1>3. related_row(c, request'[c], call'[c], i) = related_row(c, request[c], call[c], i)
  BY SameAttemptSameRow DEF RowsStay
<1> QED
  BY <1>1, <1>2, <1>3 DEF InTable, RowsStay

-----------------------------------------------------------------------------
(***************************************************************************)
(* Where a call goes.                                                      *)
(***************************************************************************)
\* A call that (re)starts its package, or ends without success.
Restarted(r, s, t) ==
    \/ t.pc = first_step(r) /\ t.status = s.status
       /\ t.item = IF r.api = "record_related" THEN 1 ELSE 0
    \/ t.pc \in {"done", "visibility"} /\ t.status \in {"raised", "failed"}

LEMMA BeginRestarts ==
    ASSUME NEW r, NEW s, CallTypeOK(r, s)
    PROVE  Restarted(r, s, begin_attempt(r, s))
  BY DEF CallTypeOK, IdleCall, begin_attempt, Restarted

LEMMA FailureRestarts ==
    ASSUME NEW r, NEW s, CallTypeOK(r, s), NEW error
    PROVE  Restarted(r, s, after_failure(r, s, error))
<1>1. CASE r.api \in RetryingApis /\ attempts_left(s)
  BY <1>1, BeginRestarts DEF after_failure
<1>2. CASE ~(r.api \in RetryingApis /\ attempts_left(s))
  BY <1>2 DEF CallTypeOK, IdleCall, after_failure, return, Restarted
<1> QED
  BY <1>1, <1>2

LEMMA RestartedIsDurable ==
    ASSUME NEW c, IsRequest(request[c]), call[c].status # "accepted",
           Restarted(request[c], call[c], call'[c]), request' = request
    PROVE  Durable(c)'
<1>1. /\ first_step(request[c]) \in {"chain_head", "interaction", "related"}
      /\ first_step(request[c]) = "chain_head" =>
            request[c].api \in ActivityApis /\ ~has_interaction(request[c])
      /\ first_step(request[c]) = "related" <=> request[c].api = "record_related"
  BY DEF IsRequest, Apis, ActivityApis, first_step
<1>2. request[c].api = "record_related" => request[c].api \notin ActivityApis
  BY DEF ActivityApis
<1>3. CASE call'[c].pc = first_step(request[c]) /\ call'[c].status = call[c].status
           /\ call'[c].item = IF request[c].api = "record_related" THEN 1 ELSE 0
  <2>1. call'[c].pc = "related" => RelatedDurable(c, call[c].item - 1)'
    BY <1>1, <1>3 DEF RelatedDurable
  <2> QED
    BY <1>1, <1>2, <1>3, <2>1 DEF Durable
<1>4. CASE call'[c].pc \in {"done", "visibility"} /\ call'[c].status \in {"raised", "failed"}
  BY <1>4 DEF Durable
<1> QED
  BY <1>3, <1>4 DEF Restarted

\* Of a package, everything up to the row just written is committed.
LEMMA AfterRelatedDurable ==
    ASSUME NEW c, IsRequest(request[c]), CallTypeOK(request[c], call[c]),
           call[c].status # "accepted", RowsStay,
           call'[c] = after_related(request[c], call[c]),
           request[c].api # "record_interaction",
           request[c].api \in ActivityApis =>
              /\ ActivityDurable(c)'
              /\ has_interaction(request[c]) => InteractionDurable(c)',
           NEW n, n = call[c].item, RelatedDurable(c, n)'
    PROVE  Durable(c)'
<1> DEFINE r == request[c]
           s == call[c]
<1>1. s.item \in Nat /\ package_size(r) \in Nat /\ s.item <= package_size(r)
  BY DEF CallTypeOK, IsRequest
<1>2. CASE s.item < package_size(r)
  <2>1. /\ call'[c].pc = "related" /\ call'[c].item = s.item + 1
        /\ call'[c].status = s.status
    BY <1>2 DEF after_related, CallTypeOK, IdleCall
  <2>2. RelatedDurable(c, call[c].item - 1)'
    BY <1>1, <2>1 DEF RelatedDurable
  <2> QED
    BY <2>1, <2>2 DEF Durable, RowsStay
<1>3. CASE ~ s.item < package_size(r)
  <2>1. call'[c].pc = "done" /\ s.item = package_size(r)
    BY <1>1, <1>3 DEF after_related, return, CallTypeOK, IdleCall
  <2>2. RelatedDurable(c, package_size(request[c]))'
    BY <2>1 DEF RelatedDurable, RowsStay
  <2> QED
    BY <2>1, <2>2 DEF Durable, Delivered, RowsStay
<1> QED
  BY <1>2, <1>3

\* A call that does not move keeps what it has.
LEMMA StillDurable ==
    ASSUME NEW c \in Calls, DInv, RowsStay, call'[c] = call[c]
    PROVE  Durable(c)'
<1>1. /\ Durable(c) /\ IsRequest(request[c]) /\ CallTypeOK(request[c], call[c])
      /\ request' = request
  BY RequestsAreTyped DEF DInv, IInv, RowsStay
<1>2. call[c].pc = "related" => RelatedDurable(c, call[c].item - 1)'
  <2> SUFFICES ASSUME call[c].pc = "related" PROVE RelatedDurable(c, call[c].item - 1)'
    OBVIOUS
  <2>1. PICK n : n = call[c].item - 1
    OBVIOUS
  <2>2. \A i \in 1 .. n : i \in 1 .. package_size(request[c])
    BY <1>1, <2>1 DEF CallTypeOK, IsRequest
  <2>3. RelatedDurable(c, n)
    BY <1>1, <2>1 DEF Durable
  <2>4. RelatedDurable(c, n)'
    BY <1>1, <2>2, <2>3, RelatedStays
  <2> QED
    BY <2>1, <2>4 DEF RelatedDurable
<1>3. RelatedDurable(c, package_size(request[c])) => RelatedDurable(c, package_size(request[c]))'
  <2> SUFFICES ASSUME RelatedDurable(c, package_size(request[c]))
               PROVE  RelatedDurable(c, package_size(request[c]))'
    OBVIOUS
  <2>1. PICK n : n = package_size(request[c])
    OBVIOUS
  <2>2. RelatedDurable(c, n)'
    BY <1>1, <2>1, RelatedStays
  <2> QED
    BY <1>1, <2>1, <2>2 DEF RelatedDurable
<1>4. Delivered(c) => Delivered(c)'
  BY <1>1, <1>3, InteractionStays, ActivityStays DEF Delivered
<1> QED
  BY <1>1, <1>2, <1>4, InteractionStays, ActivityStays DEF Durable

LEMMA InitDInv == Init => DInv
<1> SUFFICES ASSUME Init PROVE DInv
  OBVIOUS
<1>1. \A c \in Calls : Durable(c)
  BY DEF Init, IdleCall, Durable
<1> QED
  BY <1>1, InitIInv DEF DInv

LEMMA NextDInv == DInv /\ [Next]_vars => DInv'
<1> SUFFICES ASSUME DInv, [Next]_vars PROVE DInv'
  OBVIOUS
<1>1. IInv /\ IInv' /\ GrowsAtHead
  BY NextIInv DEF DInv
<1>2. RowsStay
  BY <1>1 DEF RowsStay, GrowsAtHead, Next, vars, Invoke, WriteInteraction, ReadChainHead,
         WriteActivity, WriteRelated, RejectRelated, WriteFailureRow, Lose, ExecuteOrphan,
         Migrate
<1>3. SUFFICES ASSUME NEW c \in Calls, call'[c] # call[c] PROVE Durable(c)'
  BY <1>1, <1>2, StillDurable DEF DInv
<1>4. /\ IsRequest(request[c]) /\ CallTypeOK(request[c], call[c]) /\ Durable(c)
      /\ request' = request /\ DOMAIN call = Calls /\ DbTypeOK
  BY <1>1, <1>2, RequestsAreTyped DEF DInv, IInv, TypeOK, RowsStay, DbInv
<1>5. call[c].pc # "done" => call[c].status # "accepted"
  BY <1>4 DEF Durable
<1>7. CASE Invoke(c)
  <2>1. call[c].pc = "idle"
    BY <1>7 DEF Invoke
  <2>2. Restarted(request[c], call[c], call'[c])
    BY <1>4, <1>7, BeginRestarts DEF Invoke, Become, return, Restarted, CallTypeOK, IdleCall
  <2> QED
    BY <1>4, <1>5, <2>1, <2>2, RestartedIsDurable
<1>8. CASE WriteInteraction(c)
  <2> DEFINE stmt == statement(c)
  <2>1. /\ call[c].pc = "interaction" /\ execute(stmt)
        /\ stmt = [table |-> "interaction_records", row |-> interaction_row(request[c])]
    BY <1>8 DEF WriteInteraction, statement
  <2>2. CASE is_written(outcome(stmt))
    <3>1. StatementTypeOK(stmt)
      BY <1>1, <2>1, StatementOfCall DEF StatementInv
    <3>2. PICK o : o = stmt
      OBVIOUS
    <3>3. InTable(o.table, o.row)'
      BY <1>4, <2>1, <2>2, <3>1, <3>2, WrittenIsInTable
    <3>4. InteractionDurable(c)'
      BY <1>4, <2>1, <3>2, <3>3 DEF InTable, InteractionDurable
    <3>5. CASE request[c].api = "record_interaction"
      <4>1. call'[c] = return(call[c], "accepted")
        BY <1>4, <1>8, <2>2, <3>5 DEF WriteInteraction, Become
      <4>2. call'[c].pc = "done" /\ request[c].api \notin ActivityApis
        BY <1>4, <3>5, <4>1 DEF return, CallTypeOK, IdleCall, ActivityApis
      <4>3. RelatedDurable(c, package_size(request[c]))'
        BY <1>4, <3>5 DEF RelatedDurable, IsRequest
      <4> QED
        BY <1>4, <3>4, <4>2, <4>3 DEF Durable, Delivered
    <3>6. CASE request[c].api # "record_interaction"
      <4>1. call'[c] = [call[c] EXCEPT !.pc = "chain_head"]
        BY <1>4, <1>8, <2>2, <3>6 DEF WriteInteraction, Become
      <4>2. call'[c].pc = "chain_head" /\ call'[c].status = call[c].status
        BY <1>4, <4>1 DEF CallTypeOK, IdleCall
      <4>3. request[c].api \in ActivityApis
        BY <1>4, <2>1, <3>6 DEF Durable, IsRequest, Apis, ActivityApis
      <4>4. call'[c].item = call[c].item
        BY <1>4, <4>1 DEF CallTypeOK, IdleCall
      <4> QED
        BY <1>4, <1>5, <2>1, <3>4, <4>2, <4>3, <4>4 DEF Durable, ActivityApis
    <3> QED
      BY <3>5, <3>6
  <2>3. CASE ~is_written(outcome(stmt))
    <3>1. call'[c] = after_failure(request[c], call[c], outcome(stmt))
      BY <1>4, <1>8, <2>3 DEF WriteInteraction, Become
    <3> QED
      BY <1>4, <1>5, <2>1, <3>1, FailureRestarts, RestartedIsDurable
  <2> QED
    BY <2>2, <2>3
<1>9. CASE ReadChainHead(c)
  <2>1. /\ call[c].pc = "chain_head" /\ call'[c].pc = "activity"
        /\ call'[c].status = call[c].status /\ call'[c].item = call[c].item
    BY <1>4, <1>9 DEF ReadChainHead, Become, CallTypeOK, IdleCall
  <2> QED
    BY <1>2, <1>4, <1>5, <2>1, InteractionStays DEF Durable
<1>10. CASE WriteActivity(c)
  <2> DEFINE stmt == statement(c)
  <2>1. /\ call[c].pc = "activity" /\ execute(stmt)
        /\ stmt = [table |-> "activity_records",
                   row   |-> chain_activity_record(request[c], call[c].head)]
    BY <1>10 DEF WriteActivity, statement
  <2>2. CASE is_written(outcome(stmt))
    <3>1. StatementTypeOK(stmt)
      BY <1>1, <2>1, StatementOfCall DEF StatementInv
    <3>2. PICK o : o = stmt
      OBVIOUS
    <3>3. InTable(o.table, o.row)'
      BY <1>4, <2>1, <2>2, <3>1, <3>2, WrittenIsInTable
    <3>4. /\ o.table = "activity_records" /\ o.row.key = request[c].activity_id
          /\ o.row.compare = activity_fields(request[c])
      BY <2>1, <3>2 DEF chain_activity_record
    <3>5. ActivityDurable(c)'
      BY <1>4, <3>3, <3>4 DEF InTable, ActivityDurable
    <3>6. call'[c] = after_related(request[c], call[c])
      BY <1>4, <1>10, <2>2 DEF WriteActivity, Become
    <3>7. request[c].api \in ActivityApis /\ request[c].api # "record_interaction"
      BY <1>4, <2>1 DEF Durable, ActivityApis
    <3>8. has_interaction(request[c]) => InteractionDurable(c)'
      BY <1>2, <1>4, <2>1, <3>7, InteractionStays DEF Durable
    <3>9. PICK n : n = call[c].item
      OBVIOUS
    <3>10. RelatedDurable(c, n)'
      BY <1>4, <2>1, <3>9 DEF Durable, RelatedDurable
    <3> QED
      BY <1>2, <1>4, <1>5, <2>1, <3>5, <3>6, <3>7, <3>8, <3>9, <3>10, AfterRelatedDurable
  <2>3. CASE ~is_written(outcome(stmt))
    <3>1. call'[c] = after_failure(request[c], call[c], outcome(stmt))
      BY <1>4, <1>10, <2>3 DEF WriteActivity, Become
    <3> QED
      BY <1>4, <1>5, <2>1, <3>1, FailureRestarts, RestartedIsDurable
  <2> QED
    BY <2>2, <2>3
<1>11. CASE WriteRelated(c)
  <2> DEFINE stmt == statement(c)
  <2>1. /\ call[c].pc = "related" /\ execute(stmt)
        /\ stmt = [table |-> request[c].related[call[c].item].table,
                   row   |-> related_row(c, request[c], call[c], call[c].item)]
    BY <1>11 DEF WriteRelated, statement
  <2>2. CASE is_written(outcome(stmt))
    <3>1. StatementTypeOK(stmt)
      BY <1>1, <2>1, StatementOfCall DEF StatementInv
    <3>2. PICK o : o = stmt
      OBVIOUS
    <3>3. InTable(o.table, o.row)'
      BY <1>4, <2>1, <2>2, <3>1, <3>2, WrittenIsInTable
    <3>4. call'[c] = after_related(request[c], call[c])
      BY <1>4, <1>11, <2>2 DEF WriteRelated, Become
    <3>5. call'[c].attempt = call[c].attempt
      BY <1>4, <3>4 DEF after_related, return, CallTypeOK, IdleCall
    <3>6. PICK n : n = call[c].item
      OBVIOUS
    <3>7. n \in 1 .. package_size(request[c])
      BY <1>4, <2>1, <3>6 DEF CallTypeOK, IsRequest
    <3>8. RelatedDurable(c, n - 1)'
      <4>1. RelatedDurable(c, n - 1)
        BY <1>4, <2>1, <3>6 DEF Durable
      <4>2. \A i \in 1 .. n - 1 : i \in 1 .. package_size(request[c])
        BY <1>4, <3>7 DEF IsRequest
      <4>3. PICK m : m = n - 1
        OBVIOUS
      <4>4. RelatedDurable(c, m)'
        BY <1>2, <1>4, <3>5, <4>1, <4>2, <4>3, RelatedStays
      <4> QED
        BY <4>3, <4>4
    <3>9. InTable(request[c].related[n].table, related_row(c, request[c], call[c], n))'
      <4>1. related_row(c, request'[c], call'[c], n) = o.row
        BY <1>4, <2>1, <3>2, <3>5, <3>6, SameAttemptSameRow
      <4>2. request'[c].related[n].table = o.table
        BY <1>4, <2>1, <3>2, <3>6
      <4> QED
        BY <3>3, <4>1, <4>2 DEF InTable
    <3>10. RelatedDurable(c, n)'
      <4>1. \A i \in 1 .. n : i \in 1 .. n - 1 \/ i = n
        BY <1>4, <3>7 DEF IsRequest
      <4> QED
        BY <3>8, <3>9, <4>1 DEF RelatedDurable
    <3>11. request[c].api # "record_interaction"
      BY <1>4, <2>1 DEF Durable
    <3>12. request[c].api \in ActivityApis =>
             /\ ActivityDurable(c)'
             /\ has_interaction(request[c]) => InteractionDurable(c)'
      BY <1>2, <1>4, <2>1, InteractionStays, ActivityStays DEF Durable
    <3> QED
      BY <1>2, <1>4, <1>5, <2>1, <3>4, <3>6, <3>10, <3>11, <3>12, AfterRelatedDurable
  <2>3. CASE ~is_written(outcome(stmt))
    <3>1. call'[c] = after_failure(request[c], call[c], outcome(stmt))
      BY <1>4, <1>11, <2>3 DEF WriteRelated, Become
    <3> QED
      BY <1>4, <1>5, <2>1, <3>1, FailureRestarts, RestartedIsDurable
  <2> QED
    BY <2>2, <2>3
<1>12. CASE RejectRelated(c)
  <2>1. /\ call[c].pc = "related"
        /\ call'[c] = after_failure(request[c], call[c], "invalid_item")
    BY <1>4, <1>12 DEF RejectRelated, Become
  <2> QED
    BY <1>4, <1>5, <2>1, FailureRestarts, RestartedIsDurable
<1>13. CASE WriteFailureRow(c)
  <2>1. /\ call[c].pc = "visibility" /\ call'[c].pc = "done"
        /\ call'[c].status = "failed"
    BY <1>4, <1>13 DEF WriteFailureRow, Become, return, CallTypeOK, IdleCall
  <2> QED
    BY <2>1 DEF Durable
<1>14. CASE Lose(c)
  <2>1. CASE call[c].pc = "visibility"
    <3>1. call'[c].pc = "done" /\ call'[c].status = "failed"
      BY <1>4, <1>14, <2>1 DEF Lose, Become, return, CallTypeOK, IdleCall
    <3> QED
      BY <3>1 DEF Durable
  <2>2. CASE call[c].pc # "visibility"
    <3>1. call[c].pc # "done" /\ call'[c] = after_failure(request[c], call[c], "lost")
      BY <1>4, <1>14, <2>2 DEF Lose, Become
    <3> QED
      BY <1>4, <1>5, <3>1, FailureRestarts, RestartedIsDurable
  <2> QED
    BY <2>1, <2>2
<1>15. ASSUME NEW d \in Calls, d # c,
              \/ Invoke(d) \/ WriteInteraction(d) \/ ReadChainHead(d) \/ WriteActivity(d)
              \/ WriteRelated(d) \/ RejectRelated(d) \/ WriteFailureRow(d) \/ Lose(d)
       PROVE  FALSE
  BY <1>3, <1>4, <1>15 DEF Invoke, WriteInteraction, ReadChainHead, WriteActivity,
         WriteRelated, RejectRelated, WriteFailureRow, Lose, Become
<1>16. ~(Migrate \/ (\E stmt \in orphans : ExecuteOrphan(stmt)) \/ UNCHANGED vars)
  BY <1>3 DEF Migrate, ExecuteOrphan, vars
<1> QED
  BY <1>7, <1>8, <1>9, <1>10, <1>11, <1>12, <1>13, <1>14, <1>15, <1>16 DEF Next

-----------------------------------------------------------------------------
(***************************************************************************)
(* The refinement.                                                         *)
(***************************************************************************)
\* A committed activity row is an entry of the log or a legacy entry.
LEMMA ActivityIsRecorded ==
    ASSUME DbInv, NEW r \in Activities
    PROVE  entry(r.key, r.compare) \in Abstract!Recorded
<1>1. CASE r \in AllChained
  <2>1. PlacedRow(r) \in PlacedEntries /\ PlacedRow(r).entry = entry(r.key, r.compare)
    BY <1>1 DEF PlacedEntries, PlacedRow
  <2> QED
    BY <2>1 DEF Abstract!Recorded
<1>2. CASE r \notin AllChained
  <2>1. r \in LegacyRows
    BY <1>2 DEF DbInv, UnchainedIsLegacy, AllChained, Activities
  <2> QED
    BY <2>1 DEF Abstract!Recorded, LegacyEntries
<1> QED
  BY <1>1, <1>2

LEMMA RecordedIsActivity ==
    ASSUME DbInv, NEW e \in Abstract!Recorded
    PROVE  \E r \in Activities : e = entry(r.key, r.compare)
<1>1. CASE e \in LegacyEntries
  BY <1>1 DEF LegacyEntries, DbInv, UnchainedIsLegacy
<1>2. CASE e \in {l.entry : l \in PlacedEntries}
  BY <1>2 DEF PlacedEntries, PlacedRow, AllChained, Activities
<1> QED
  BY <1>1, <1>2 DEF Abstract!Recorded

\* The place of a new row is the next one of its chain.
LEMMA NewRowIsNext ==
    ASSUME DbInv, NEW k, NEW n, n = get_activity_chain_head(k).chain_seq + 1
    PROVE  Abstract!NextPlace(k, n)
<1> DEFINE head == get_activity_chain_head(k)
<1>1. /\ head.chain_seq \in Nat
      /\ HeadCommitted(k, head)
      /\ \A r \in AllChained : r.chain_key = k => r.chain_seq <= head.chain_seq
  BY HeadIsLast
<1>2. \A r \in AllChained : r.chain_seq \in Nat
  BY DEF AllChained, DbInv, DbTypeOK, StatementTypeOK, Tables
<1>3. n = head.chain_seq + 1
  OBVIOUS
<1> HIDE DEF head
<1>4. \A l \in PlacedEntries : l.chain = k => l.position < n
  BY <1>1, <1>2, <1>3 DEF PlacedEntries, PlacedRow
<1>5. n = 1 \/ \E l \in PlacedEntries : l.chain = k /\ l.position = n - 1
  <2>1. CASE head.chain_seq = 0
    BY <1>3, <2>1
  <2>2. CASE head.chain_seq # 0
    <3>1. PICK p \in AllChained : p.chain_key = k /\ p.chain_seq = head.chain_seq
      BY <1>1, <2>2 DEF HeadCommitted
    <3>2. PlacedRow(p) \in PlacedEntries /\ PlacedRow(p).chain = k
          /\ PlacedRow(p).position = n - 1
      BY <1>1, <1>3, <3>1 DEF PlacedEntries, PlacedRow
    <3> QED
      BY <3>2
  <2> QED
    BY <2>1, <2>2
<1> QED
  BY <1>4, <1>5 DEF Abstract!NextPlace

entry_of(c) == entry(request[c].activity_id, activity_fields(request[c]))

\* A step adds at most one row, with a new id, to activity_records.
LEMMA OneRowAtMost ==
    ASSUME DInv, [Next]_vars
    PROVE  \/ Activities' = Activities
           \/ \E row : /\ Activities' = Activities \cup {row}
                       /\ row \notin Activities
                       /\ \A r \in Activities : r.key # row.key
<1> DEFINE Goal == \/ Activities' = Activities
                   \/ \E row : /\ Activities' = Activities \cup {row}
                               /\ row \notin Activities
                               /\ \A r \in Activities : r.key # row.key
<1>1. ASSUME NEW stmt, StatementInv(stmt), execute(stmt) PROVE Goal
  <2>1. /\ outcome(stmt) # "created" => db' = db
        /\ outcome(stmt) = "created" =>
              \A t \in Tables :
                 db'[t] = IF t = stmt.table THEN db[t] \cup {stmt.row} ELSE db[t]
    BY <1>1, ExecuteType DEF DInv, IInv, DbInv, StatementInv
  <2>2. CASE outcome(stmt) # "created" \/ stmt.table # "activity_records"
    BY <2>1, <2>2 DEF Activities, Tables
  <2>3. CASE outcome(stmt) = "created" /\ stmt.table = "activity_records"
    <3>1. Activities' = Activities \cup {stmt.row}
      BY <2>1, <2>3 DEF Activities, Tables
    <3>2. \A r \in Activities : r.key # stmt.row.key
      BY <2>3 DEF outcome, key_taken, Activities
    <3> QED
      BY <3>1, <3>2
  <2> QED
    BY <2>2, <2>3
<1>2. CASE UNCHANGED db
  BY <1>2 DEF Activities
<1>3. ASSUME NEW c \in Calls,
             WriteInteraction(c) \/ WriteActivity(c) \/ WriteRelated(c) \/ WriteFailureRow(c)
      PROVE  Goal
  <2>1. StatementInv(statement(c)) /\ execute(statement(c))
    BY <1>3, StatementOfCall
    DEF DInv, WriteInteraction, WriteActivity, WriteRelated, WriteFailureRow
  <2> QED
    BY <1>1, <2>1
<1>4. ASSUME NEW stmt \in orphans, ExecuteOrphan(stmt) PROVE Goal
  BY <1>1, <1>4 DEF ExecuteOrphan, DInv, IInv
<1>5. \/ UNCHANGED db
      \/ \E c \in Calls : \/ WriteInteraction(c) \/ WriteActivity(c)
                          \/ WriteRelated(c) \/ WriteFailureRow(c)
      \/ \E stmt \in orphans : ExecuteOrphan(stmt)
  BY DEF Next, Invoke, ReadChainHead, RejectRelated, Lose, Migrate, InstallAppendOnly, vars
<1> QED
  BY <1>2, <1>3, <1>4, <1>5

\* One call moves at a time, and never one that has returned.
LEMMA OneCallMoves ==
    ASSUME DInv, [Next]_vars
    PROVE  \/ call' = call
           \/ \E c \in Calls : /\ \A d \in Calls : d # c => call'[d] = call[d]
                               /\ call[c].pc # "done"
<1>1. DOMAIN call = Calls
  BY DEF DInv, IInv, TypeOK
<1> QED
  BY <1>1 DEF Next, Invoke, WriteInteraction, ReadChainHead, WriteActivity, WriteRelated,
         RejectRelated, WriteFailureRow, Lose, ExecuteOrphan, Migrate, Become, vars

\* A step acknowledges at most one activity, and takes no acknowledgement back.
LEMMA OneAckAtMost ==
    ASSUME DInv, [Next]_vars
    PROVE  \/ AcceptedEntries' = AcceptedEntries
           \/ \E c \in Calls : /\ AcceptedEntries' = AcceptedEntries \cup {entry_of(c)}
                               /\ c \in AcceptedActivities' \ AcceptedActivities
<1>1. request' = request
  BY NextIInv DEF DInv, Next, vars, Invoke, WriteInteraction, ReadChainHead, WriteActivity,
         WriteRelated, RejectRelated, WriteFailureRow, Lose, ExecuteOrphan, Migrate
<1>2. CASE call' = call
  BY <1>1, <1>2 DEF AcceptedEntries, AcceptedActivities
<1>3. ASSUME NEW c \in Calls, \A d \in Calls : d # c => call'[d] = call[d],
             call[c].pc # "done"
      PROVE  \/ AcceptedEntries' = AcceptedEntries
             \/ /\ AcceptedEntries' = AcceptedEntries \cup {entry_of(c)}
                /\ c \in AcceptedActivities' \ AcceptedActivities
  <2>1. c \notin AcceptedActivities
    BY <1>3 DEF DInv, Durable, AcceptedActivities
  <2>2. \A d \in Calls : d # c =>
           (d \in AcceptedActivities' <=> d \in AcceptedActivities)
    BY <1>1, <1>3 DEF AcceptedActivities
  <2>3. \A d : d \in AcceptedActivities \/ d \in AcceptedActivities' => d \in Calls
    BY DEF AcceptedActivities
  <2>4. CASE c \in AcceptedActivities'
    <3>1. AcceptedActivities' = AcceptedActivities \cup {c}
      BY <2>2, <2>3, <2>4
    <3>2. AcceptedEntries' = AcceptedEntries \cup {entry_of(c)}
      BY <1>1, <3>1 DEF AcceptedEntries, entry_of
    <3> QED
      BY <2>1, <2>4, <3>2
  <2>5. CASE c \notin AcceptedActivities'
    <3>1. AcceptedActivities' = AcceptedActivities
      BY <2>1, <2>2, <2>3, <2>5
    <3> QED
      BY <1>1, <3>1 DEF AcceptedEntries
  <2> QED
    BY <2>4, <2>5
<1> QED
  BY <1>2, <1>3, OneCallMoves

\* A call that is acknowledged as a row is committed wrote that row.
LEMMA AckIsOfNewRow ==
    ASSUME DInv, [Next]_vars, NEW c \in AcceptedActivities' \ AcceptedActivities,
           NEW row, Activities' = Activities \cup {row}, row \notin Activities
    PROVE  entry_of(c) = entry(row.key, row.compare)
<1>1. c \in Calls /\ request' = request /\ call'[c] # call[c] /\ DOMAIN call = Calls
  BY DEF AcceptedActivities, DInv, IInv, TypeOK, Next, vars, Invoke, WriteInteraction,
         ReadChainHead, WriteActivity, WriteRelated, RejectRelated, WriteFailureRow, Lose,
         ExecuteOrphan, Migrate
<1>2. db' # db /\ Activities' # Activities
  BY DEF Activities
<1>3. \/ WriteInteraction(c) \/ WriteActivity(c) \/ WriteRelated(c) \/ WriteFailureRow(c)
  BY <1>1, <1>2 DEF Next, vars, Invoke, ReadChainHead, RejectRelated, Lose, ExecuteOrphan,
         Migrate, InstallAppendOnly, WriteInteraction, WriteActivity, WriteRelated,
         WriteFailureRow, Become
<1>4. StatementInv(statement(c)) /\ execute(statement(c))
  BY <1>1, <1>3, StatementOfCall
  DEF DInv, WriteInteraction, WriteActivity, WriteRelated, WriteFailureRow
<1>5. PICK stmt : stmt = statement(c)
  OBVIOUS
<1>6. stmt.table = "activity_records" /\ Activities' = Activities \cup {stmt.row}
  <2>1. DbTypeOK /\ StatementTypeOK(stmt) /\ execute(stmt)
    BY <1>4, <1>5 DEF DInv, IInv, DbInv, StatementInv
  <2>2. /\ outcome(stmt) # "created" => db' = db
        /\ outcome(stmt) = "created" =>
              \A t \in Tables :
                 db'[t] = IF t = stmt.table THEN db[t] \cup {stmt.row} ELSE db[t]
    BY <2>1, ExecuteType
  <2> QED
    BY <1>2, <2>2 DEF Activities, Tables
<1>7. row = stmt.row
  BY <1>2, <1>6
<1>8. CASE call[c].pc = "activity"
  BY <1>5, <1>7, <1>8 DEF statement, chain_activity_record, entry_of, entry
<1>9. CASE call[c].pc # "activity"
  <2>1. stmt.table \in RelatedTables \cup {"interaction_records", "system_record_write_failures"}
    <3>1. IsRequest(request[c]) /\ CallTypeOK(request[c], call[c])
      BY <1>1, RequestsAreTyped DEF DInv, IInv
    <3>2. CASE call[c].pc = "related"
      <4>1. call[c].item \in 1 .. package_size(request[c])
        BY <3>1, <3>2 DEF CallTypeOK, IsRequest
      <4> QED
        BY <1>5, <3>1, <3>2, <4>1 DEF statement, IsRequest
    <3>3. CASE call[c].pc = "interaction"
      BY <1>5, <3>3 DEF statement
    <3>4. CASE call[c].pc = "visibility"
      BY <1>5, <3>4 DEF statement
    <3> QED
      BY <1>3, <1>9, <3>2, <3>3, <3>4
      DEF WriteInteraction, WriteActivity, WriteRelated, WriteFailureRow
  <2> QED
    BY <1>6, <2>1 DEF RelatedTables
<1> QED
  BY <1>8, <1>9

LEMMA InitRefines == Init => Abstract!LogInit
<1> SUFFICES ASSUME Init PROVE Abstract!LogInit
  OBVIOUS
<1>1. AllChained = {}
  BY LegacyAssumption DEF Init, InitSystemRecord, AllChained, plain_row, Tables
<1>2. AcceptedActivities = {}
  BY DEF Init, IdleCall, AcceptedActivities
<1> QED
  BY <1>1, <1>2 DEF Abstract!LogInit, PlacedEntries, AcceptedEntries

LEMMA NextRefines ==
    DInv /\ [Next]_vars => [Abstract!LogNext]_<<PlacedEntries, AcceptedEntries>>
<1> SUFFICES ASSUME DInv, [Next]_vars
             PROVE  [Abstract!LogNext]_<<PlacedEntries, AcceptedEntries>>
  OBVIOUS
<1>1. DInv' /\ DbInv /\ GrowsAtHead
  BY NextDInv, NextIInv DEF DInv, IInv
<1>2. CASE Activities' = Activities
  <2>1. PlacedEntries' = PlacedEntries
    BY <1>2 DEF PlacedEntries, AllChained, Activities
  <2>2. CASE AcceptedEntries' = AcceptedEntries
    BY <2>1, <2>2
  <2>3. ASSUME NEW c \in Calls, AcceptedEntries' = AcceptedEntries \cup {entry_of(c)},
               c \in AcceptedActivities'
        PROVE  Abstract!LogNext
    <3>1. ActivityDurable(c)' /\ request' = request
      BY <1>1, <2>3 DEF DInv, Durable, Delivered, AcceptedActivities, GrowsAtHead, Next, vars,
             Invoke, WriteInteraction, ReadChainHead, WriteActivity, WriteRelated,
             RejectRelated, WriteFailureRow, Lose, ExecuteOrphan, Migrate
    <3>2. \E r \in Activities : entry_of(c) = entry(r.key, r.compare)
      BY <1>2, <3>1 DEF ActivityDurable, InTable, Activities, entry_of
    <3>3. entry_of(c) \in Abstract!Recorded
      BY <1>1, <3>2, ActivityIsRecorded
    <3>4. Abstract!Acknowledge(entry_of(c))
      BY <2>1, <2>3, <3>3 DEF Abstract!Acknowledge
    <3> QED
      BY <2>3, <3>4 DEF Abstract!LogNext
  <2> QED
    BY <2>2, <2>3, OneAckAtMost
<1>3. ASSUME NEW row, Activities' = Activities \cup {row}, row \notin Activities,
             \A r \in Activities : r.key # row.key
      PROVE  Abstract!LogNext
  <2> DEFINE l == PlacedRow(row)
  <2>1. /\ row.chain_seq = get_activity_chain_head(row.chain_key).chain_seq + 1
        /\ row.chain_seq # 0
    <3>1. get_activity_chain_head(row.chain_key).chain_seq \in Nat
      BY <1>1, HeadIsLast
    <3> QED
      BY <1>1, <1>3, <3>1 DEF GrowsAtHead, Activities
  <2>2. PlacedEntries' = PlacedEntries \cup {l}
    BY <1>3, <2>1 DEF PlacedEntries, AllChained, Activities
  <2>3. entry(row.key, row.compare).id \notin Abstract!Ids
    <3> SUFFICES ASSUME NEW e \in Abstract!Recorded, e.id = row.key PROVE FALSE
      BY DEF Abstract!Ids, entry
    <3> QED
      BY <1>1, <1>3, RecordedIsActivity DEF entry
  <2>4. l \notin PlacedEntries
    BY <2>3 DEF Abstract!Ids, Abstract!Recorded, PlacedRow
  <2>5. Abstract!NextPlace(row.chain_key, row.chain_seq)
    BY <1>1, <2>1, NewRowIsNext
  <2>6. AcceptedEntries' \in {AcceptedEntries,
                             AcceptedEntries \cup {entry(row.key, row.compare)}}
    BY <1>3, OneAckAtMost, AckIsOfNewRow
  <2>7. Abstract!Append(l.entry, l.chain, l.position)
    BY <2>2, <2>3, <2>5, <2>6 DEF Abstract!Append, PlacedRow
  <2> QED
    BY <2>2, <2>4, <2>7 DEF Abstract!LogNext
<1> QED
  BY <1>2, <1>3, OneRowAtMost

-----------------------------------------------------------------------------
(***************************************************************************)
(* Theorems.                                                               *)
(***************************************************************************)
THEOREM DurabilityInvariance == Spec => []DInv
  BY InitDInv, NextDInv, PTL DEF Spec

\* accepted=True is never a lie, for any number of calls, attempts, losses and
\* late statements.
THEOREM AcceptedMeansDurable == Spec => []AcceptedIsDurable
<1>1. DInv => AcceptedIsDurable
  BY DEF DInv, Durable, Delivered, AcceptedIsDurable
<1> QED
  BY <1>1, DurabilityInvariance, PTL

\* The recorder implements the abstract log.
THEOREM RecorderImplementsLog == Spec => ImplementsActivityLog
  BY InitRefines, NextRefines, DurabilityInvariance, PTL
  DEF Spec, ImplementsActivityLog, Abstract!LogSpec

-----------------------------------------------------------------------------
(***************************************************************************)
(* What a failed call reports is so, and no write of an activity's package *)
(* runs into a foreign key: both rest on what DInv says is committed.      *)
(***************************************************************************)
\* What call c reports of a failure, before and after it returns.
Reported(c) ==
    /\ call[c].phase # "none" => call[c].pc \in {"visibility", "done"}
    /\ call[c].phase = "package_write" =>
          ActivityDurable(c) /\ RelatedDurable(c, call[c].item - 1)
    /\ call[c].failure_visible =>
          /\ call[c].pc = "done"
          /\ InTable("system_record_write_failures", failure_row(c, request[c], call[c]))
    /\ request[c].api \in ActivityApis => call[c].error # "foreign_key_violation"

\* Every row the statement refers to is committed.
Anchored(stmt) ==
    \A ref \in stmt.row.refs :
        ref[1] \in Tables /\ \E r \in db[ref[1]] : r.key = ref[2]

FInv ==
    /\ DInv
    /\ \A c \in Calls : Reported(c)
    /\ \A stmt \in orphans : stmt.table = "activity_records" => Anchored(stmt)

-----------------------------------------------------------------------------
(***************************************************************************)
(* Foreign keys.                                                           *)
(***************************************************************************)
LEMMA AnchoredStays ==
    ASSUME NEW stmt, Anchored(stmt), RowsStay
    PROVE  Anchored(stmt)'
  BY DEF Anchored, RowsStay

LEMMA AnchoredAnswer ==
    ASSUME NEW stmt, Anchored(stmt)
    PROVE  ~dangling_reference(stmt) /\ outcome(stmt) # "foreign_key_violation"
<1>1. ~dangling_reference(stmt)
  BY DEF Anchored, dangling_reference
<1> QED
  BY <1>1 DEF outcome

\* The statements of a call whose failures count: the interaction refers to
\* nothing, the activity to an interaction that is committed by then, the rest
\* of the package to the activity.
LEMMA StatementAnchored ==
    ASSUME DInv, NEW c \in Calls,
           \/ call[c].pc \in {"interaction", "activity"}
           \/ call[c].pc = "related" /\ request[c].api \in ActivityApis
    PROVE  Anchored(statement(c))
<1>1. Durable(c)
  BY DEF DInv
<1>2. CASE call[c].pc = "interaction"
  <2>1. statement(c).row.refs = {}
    BY <1>2 DEF statement, interaction_row, plain_row
  <2> QED
    BY <2>1 DEF Anchored
<1>3. CASE call[c].pc = "activity"
  <2>1. statement(c).row.refs = activity_refs(request[c])
    BY <1>3 DEF statement, chain_activity_record
  <2>2. CASE has_interaction(request[c])
    <3>1. \E r \in db["interaction_records"] : r.key = request[c].interaction.id
      BY <1>1, <1>3, <2>2 DEF Durable, InteractionDurable, InTable, interaction_row, plain_row
    <3> QED
      BY <2>1, <2>2, <3>1 DEF Anchored, activity_refs, Tables
  <2>3. CASE ~has_interaction(request[c])
    BY <2>1, <2>3 DEF Anchored, activity_refs
  <2> QED
    BY <2>2, <2>3
<1>4. CASE call[c].pc = "related" /\ request[c].api \in ActivityApis
  <2>1. statement(c).row.refs = {<<"activity_records", request[c].activity_id>>}
    BY <1>4 DEF statement, related_row, plain_row
  <2>2. \E r \in db["activity_records"] : r.key = request[c].activity_id
    BY <1>1, <1>4 DEF Durable, ActivityDurable, InTable
  <2> QED
    BY <2>1, <2>2 DEF Anchored, Tables
<1> QED
  BY <1>2, <1>3, <1>4

-----------------------------------------------------------------------------
(***************************************************************************)
(* Reports.                                                                *)
(***************************************************************************)
\* What a package failure says stays true while item and attempt stay.
LEMMA PackageStays ==
    ASSUME DInv, RowsStay, NEW c \in Calls, ActivityDurable(c),
           RelatedDurable(c, call[c].item - 1),
           call'[c].item = call[c].item, call'[c].attempt = call[c].attempt
    PROVE  ActivityDurable(c)' /\ RelatedDurable(c, call[c].item - 1)'
<1>1. IsRequest(request[c]) /\ CallTypeOK(request[c], call[c]) /\ request' = request
  BY RequestsAreTyped DEF DInv, IInv, RowsStay
<1>2. PICK n : n = call[c].item - 1
  OBVIOUS
<1>3. \A i \in 1 .. n : i \in 1 .. package_size(request[c])
  BY <1>1, <1>2 DEF CallTypeOK, IsRequest
<1>4. RelatedDurable(c, n)'
  BY <1>1, <1>2, <1>3, RelatedStays
<1>5. RelatedDurable(c, call[c].item - 1)'
  BY <1>2, <1>4 DEF RelatedDurable
<1> QED
  BY <1>5, ActivityStays

\* A call that has not failed and goes on reports nothing.
LEMMA GoesOn ==
    ASSUME FInv, RowsStay, NEW c \in Calls, call[c].pc \notin {"visibility", "done"},
           call'[c].phase = call[c].phase, call'[c].error = call[c].error,
           call'[c].failure_visible = call[c].failure_visible
    PROVE  Reported(c)'
  BY DEF FInv, Reported, RowsStay

LEMMA StillReported ==
    ASSUME FInv, RowsStay, NEW c \in Calls, call'[c] = call[c]
    PROVE  Reported(c)'
<1>1. Reported(c) /\ DInv /\ request' = request
  BY DEF FInv, RowsStay
<1>2. call[c].phase = "package_write" =>
         ActivityDurable(c)' /\ RelatedDurable(c, call[c].item - 1)'
  BY <1>1, PackageStays DEF Reported
<1>3. call[c].failure_visible =>
         InTable("system_record_write_failures", failure_row(c, request[c], call[c]))'
  BY <1>1 DEF Reported, InTable, RowsStay, Tables
<1> QED
  BY <1>1, <1>2, <1>3 DEF Reported, RelatedDurable

\* An attempt that fails starts again, or its failure is reported.
LEMMA FailureReported ==
    ASSUME FInv, RowsStay, NEW c \in Calls, NEW error,
           call[c].pc \notin {"visibility", "done"},
           call'[c] = after_failure(request[c], call[c], error),
           request[c].api \in ActivityApis => error # "foreign_key_violation"
    PROVE  Reported(c)'
<1> DEFINE r == request[c]
           s == call[c]
           t == call'[c]
<1>1. /\ Reported(c) /\ DInv /\ Durable(c) /\ CallTypeOK(r, s) /\ request' = request
      /\ s.phase = "none" /\ ~s.failure_visible
  BY RequestsAreTyped DEF FInv, DInv, IInv, RowsStay, Reported
<1>2. CASE r.api \in RetryingApis /\ attempts_left(s)
  <2>1. t = begin_attempt(r, s)
    BY <1>2 DEF after_failure
  <2>2. /\ t.phase = s.phase /\ t.error = s.error
        /\ t.failure_visible = s.failure_visible
    BY <1>1, <2>1 DEF begin_attempt, CallTypeOK, IdleCall
  <2> QED
    BY <2>2, GoesOn
<1>3. CASE r.api \notin RetryingApis
  <2>1. /\ t.phase = s.phase /\ t.error = error
        /\ t.failure_visible = s.failure_visible
    BY <1>1, <1>3 DEF after_failure, return, CallTypeOK, IdleCall
  <2> QED
    BY <1>1, <2>1 DEF Reported
<1>4. CASE r.api \in RetryingApis /\ ~attempts_left(s)
  <2>1. /\ t.pc = "visibility" /\ t.phase = failure_phase(r, s, error) /\ t.error = error
        /\ t.failure_visible = s.failure_visible
        /\ t.item = s.item /\ t.attempt = s.attempt
    BY <1>1, <1>4 DEF after_failure, CallTypeOK, IdleCall
  <2>2. ASSUME t.phase = "package_write"
        PROVE  ActivityDurable(c)' /\ RelatedDurable(c, s.item - 1)'
    <3>1. s.pc = "related" /\ r.api \in ActivityApis
      BY <1>4, <2>1, <2>2 DEF failure_phase, is_package_error, RetryingApis, ActivityApis
    <3>2. ActivityDurable(c) /\ RelatedDurable(c, s.item - 1)
      BY <1>1, <3>1 DEF Durable
    <3> QED
      BY <1>1, <2>1, <3>2, PackageStays
  <2> QED
    BY <1>1, <2>1, <2>2 DEF Reported, RelatedDurable
<1> QED
  BY <1>2, <1>3, <1>4

\* The write of the failure row, and its loss, keep the rest of the report.
LEMMA VisibilityReported ==
    ASSUME FInv, RowsStay, NEW c \in Calls, call[c].pc = "visibility",
           call'[c].pc = "done", call'[c].phase = call[c].phase,
           call'[c].error = call[c].error,
           call'[c].item = call[c].item, call'[c].attempt = call[c].attempt,
           call'[c].failure_visible =>
              InTable("system_record_write_failures", failure_row(c, request[c], call[c]))'
    PROVE  Reported(c)'
<1>1. Reported(c) /\ DInv /\ request' = request
  BY DEF FInv, RowsStay
<1>2. call[c].phase = "package_write" =>
         ActivityDurable(c)' /\ RelatedDurable(c, call[c].item - 1)'
  BY <1>1, PackageStays DEF Reported
<1> QED
  BY <1>1, <1>2 DEF Reported

LEMMA InitFInv == Init => FInv
<1> SUFFICES ASSUME Init PROVE FInv
  OBVIOUS
<1>1. \A c \in Calls : Reported(c)
  BY DEF Init, IdleCall, Reported
<1> QED
  BY <1>1, InitDInv DEF Init, FInv

\* The orphans that write activities: those there were, and one that is lost.
LEMMA OrphansAnchored ==
    ASSUME FInv, [Next]_vars, RowsStay, NEW stmt \in orphans',
           stmt.table = "activity_records"
    PROVE  Anchored(stmt)'
<1>1. CASE stmt \in orphans
  BY <1>1, AnchoredStays DEF FInv
<1>2. CASE stmt \notin orphans
  <2>1. PICK c \in Calls : /\ stmt = statement(c)
                           /\ call[c].pc \in {"interaction", "activity", "related", "visibility"}
    BY <1>2 DEF Next, Invoke, WriteInteraction, ReadChainHead, WriteActivity, WriteRelated,
           RejectRelated, WriteFailureRow, Lose, ExecuteOrphan, Migrate, vars
  <2>2. IsRequest(request[c]) /\ CallTypeOK(request[c], call[c])
    BY RequestsAreTyped DEF FInv, DInv, IInv
  <2>3. CASE call[c].pc = "activity"
    <3>1. Anchored(statement(c))
      BY <2>3, StatementAnchored DEF FInv
    <3> QED
      BY <2>1, <3>1, AnchoredStays
  <2>4. CASE call[c].pc = "interaction"
    BY <2>1, <2>4 DEF statement
  <2>5. CASE call[c].pc = "visibility"
    BY <2>1, <2>5 DEF statement
  <2>6. CASE call[c].pc = "related"
    <3>1. call[c].item \in 1 .. package_size(request[c])
      BY <2>2, <2>6 DEF CallTypeOK, IsRequest
    <3>2. request[c].related[call[c].item].table \in RelatedTables
      BY <2>2, <3>1 DEF IsRequest
    <3>3. stmt.table = request[c].related[call[c].item].table
      BY <2>1, <2>6 DEF statement
    <3> QED
      BY <3>2, <3>3 DEF RelatedTables
  <2> QED
    BY <2>1, <2>3, <2>4, <2>5, <2>6
<1> QED
  BY <1>1, <1>2

LEMMA NextFInv == FInv /\ [Next]_vars => FInv'
<1> SUFFICES ASSUME FInv, [Next]_vars PROVE FInv'
  OBVIOUS
<1>1. DInv /\ DInv' /\ IInv /\ IInv' /\ GrowsAtHead
  BY NextDInv, NextIInv DEF FInv, DInv
<1>2. RowsStay
  BY <1>1 DEF RowsStay, GrowsAtHead, Next, vars, Invoke, WriteInteraction, ReadChainHead,
         WriteActivity, WriteRelated, RejectRelated, WriteFailureRow, Lose, ExecuteOrphan,
         Migrate
<1>3. SUFFICES ASSUME NEW c \in Calls, call'[c] # call[c] PROVE Reported(c)'
  BY <1>1, <1>2, StillReported, OrphansAnchored DEF FInv
<1>4. /\ IsRequest(request[c]) /\ CallTypeOK(request[c], call[c]) /\ Durable(c) /\ Reported(c)
      /\ request' = request /\ DOMAIN call = Calls /\ DbTypeOK
  BY <1>1, <1>2, RequestsAreTyped DEF FInv, DInv, IInv, TypeOK, RowsStay, DbInv
<1>5. CASE Invoke(c)
  <2>1. call[c].pc = "idle" /\ call[c].phase = "none" /\ ~call[c].failure_visible
    BY <1>4, <1>5 DEF Invoke, Reported
  <2>2. CASE request[c].admissible
    <3>1. call'[c] = begin_attempt(request[c], call[c])
      BY <1>4, <1>5, <2>2 DEF Invoke, Become
    <3>2. /\ call'[c].phase = call[c].phase /\ call'[c].error = call[c].error
          /\ call'[c].failure_visible = call[c].failure_visible
      BY <1>4, <3>1 DEF begin_attempt, CallTypeOK, IdleCall
    <3> QED
      BY <1>2, <2>1, <3>2, GoesOn
  <2>3. CASE ~request[c].admissible
    <3>1. call'[c] = return([call[c] EXCEPT !.error = "inadmissible"], "raised")
      BY <1>4, <1>5, <2>3 DEF Invoke, Become
    <3>2. /\ call'[c].phase = call[c].phase /\ call'[c].error = "inadmissible"
          /\ call'[c].failure_visible = call[c].failure_visible
      BY <1>4, <3>1 DEF return, CallTypeOK, IdleCall
    <3> QED
      BY <2>1, <3>2 DEF Reported
  <2> QED
    BY <2>2, <2>3
<1>6. ASSUME call[c].pc \in {"interaction", "activity", "related"},
             \/ call'[c] = after_related(request[c], call[c])
             \/ call'[c] = return(call[c], "accepted")
             \/ call'[c] = [call[c] EXCEPT !.pc = "chain_head"]
      PROVE  Reported(c)'
  <2>1. /\ call'[c].phase = call[c].phase /\ call'[c].error = call[c].error
        /\ call'[c].failure_visible = call[c].failure_visible
    BY <1>4, <1>6 DEF after_related, return, CallTypeOK, IdleCall
  <2> QED
    BY <1>2, <1>6, <2>1, GoesOn
<1>7. ASSUME call[c].pc \in {"interaction", "activity", "related"},
             call'[c] = after_failure(request[c], call[c], outcome(statement(c)))
      PROVE  Reported(c)'
  <2>1. request[c].api \in ActivityApis => Anchored(statement(c))
    BY <1>1, <1>7, StatementAnchored
  <2>2. request[c].api \in ActivityApis => outcome(statement(c)) # "foreign_key_violation"
    BY <2>1, AnchoredAnswer
  <2> QED
    BY <1>2, <1>7, <2>2, FailureReported
<1>8. CASE WriteInteraction(c)
  <2>1. /\ call[c].pc = "interaction"
        /\ \/ call'[c] = after_failure(request[c], call[c], outcome(statement(c)))
           \/ call'[c] = return(call[c], "accepted")
           \/ call'[c] = [call[c] EXCEPT !.pc = "chain_head"]
    BY <1>4, <1>8 DEF WriteInteraction, Become
  <2> QED
    BY <1>6, <1>7, <2>1
<1>9. CASE ReadChainHead(c)
  <2>1. /\ call[c].pc = "chain_head"
        /\ call'[c].phase = call[c].phase /\ call'[c].error = call[c].error
        /\ call'[c].failure_visible = call[c].failure_visible
    BY <1>4, <1>9 DEF ReadChainHead, Become, CallTypeOK, IdleCall
  <2> QED
    BY <1>2, <2>1, GoesOn
<1>10. CASE WriteActivity(c) \/ WriteRelated(c)
  <2>1. /\ call[c].pc \in {"activity", "related"}
        /\ \/ call'[c] = after_failure(request[c], call[c], outcome(statement(c)))
           \/ call'[c] = after_related(request[c], call[c])
    BY <1>4, <1>10 DEF WriteActivity, WriteRelated, Become
  <2> QED
    BY <1>6, <1>7, <2>1
<1>11. CASE RejectRelated(c)
  <2>1. /\ call[c].pc = "related"
        /\ call'[c] = after_failure(request[c], call[c], "invalid_item")
    BY <1>4, <1>11 DEF RejectRelated, Become
  <2> QED
    BY <1>2, <2>1, FailureReported
<1>12. CASE WriteFailureRow(c)
  <2> DEFINE stmt == statement(c)
             back == return(call[c], "failed")
  <2>1. /\ call[c].pc = "visibility" /\ execute(stmt)
        /\ stmt = [table |-> "system_record_write_failures",
                   row   |-> failure_row(c, request[c], call[c])]
        /\ call'[c] = [back EXCEPT !.failure_visible = is_written(outcome(stmt))]
    BY <1>4, <1>12 DEF WriteFailureRow, Become, statement
  <2>2. PICK visible : visible = is_written(outcome(stmt))
    OBVIOUS
  <2>3. /\ call'[c].pc = "done" /\ call'[c].phase = call[c].phase
        /\ call'[c].error = call[c].error
        /\ call'[c].item = call[c].item /\ call'[c].attempt = call[c].attempt
        /\ call'[c].failure_visible = visible
    BY <1>4, <2>1, <2>2 DEF return, CallTypeOK, IdleCall
  <2>4. ASSUME visible
        PROVE  InTable("system_record_write_failures", failure_row(c, request[c], call[c]))'
    <3>1. StatementTypeOK(stmt)
      BY <1>1, <2>1, StatementOfCall DEF StatementInv
    <3>2. PICK o : o = stmt
      OBVIOUS
    <3>3. InTable(o.table, o.row)'
      BY <1>4, <2>1, <2>2, <2>4, <3>1, <3>2, WrittenIsInTable
    <3>4. failure_row(c, request'[c], call'[c]) = failure_row(c, request[c], call[c])
      BY <1>4, <2>3 DEF failure_row, operation_type
    <3> QED
      BY <2>1, <3>2, <3>3, <3>4 DEF InTable
  <2> QED
    BY <1>2, <2>1, <2>3, <2>4, VisibilityReported
<1>13. CASE Lose(c)
  <2>1. CASE call[c].pc = "visibility"
    <3>1. call'[c] = return(call[c], "failed")
      BY <1>4, <1>13, <2>1 DEF Lose, Become
    <3>2. /\ call'[c].pc = "done" /\ call'[c].phase = call[c].phase
          /\ call'[c].error = call[c].error
          /\ call'[c].item = call[c].item /\ call'[c].attempt = call[c].attempt
          /\ call'[c].failure_visible = call[c].failure_visible
      BY <1>4, <3>1 DEF return, CallTypeOK, IdleCall
    <3>3. ~call[c].failure_visible
      BY <1>4, <2>1 DEF Reported
    <3> QED
      BY <1>2, <2>1, <3>2, <3>3, VisibilityReported
  <2>2. CASE call[c].pc # "visibility"
    <3>1. /\ call[c].pc \notin {"visibility", "done"}
          /\ call'[c] = after_failure(request[c], call[c], "lost")
      BY <1>4, <1>13, <2>2 DEF Lose, Become
    <3> QED
      BY <1>2, <3>1, FailureReported
  <2> QED
    BY <2>1, <2>2
<1>14. ASSUME NEW d \in Calls, d # c,
              \/ Invoke(d) \/ WriteInteraction(d) \/ ReadChainHead(d) \/ WriteActivity(d)
              \/ WriteRelated(d) \/ RejectRelated(d) \/ WriteFailureRow(d) \/ Lose(d)
       PROVE  FALSE
  BY <1>3, <1>4, <1>14 DEF Invoke, WriteInteraction, ReadChainHead, WriteActivity,
         WriteRelated, RejectRelated, WriteFailureRow, Lose, Become
<1>15. ~(Migrate \/ (\E stmt \in orphans : ExecuteOrphan(stmt)) \/ UNCHANGED vars)
  BY <1>3 DEF Migrate, ExecuteOrphan, vars
<1> QED
  BY <1>5, <1>8, <1>9, <1>10, <1>11, <1>12, <1>13, <1>14, <1>15 DEF Next

-----------------------------------------------------------------------------
(***************************************************************************)
(* Theorems.                                                               *)
(***************************************************************************)
THEOREM FailureInvariance == Spec => []FInv
  BY InitFInv, NextFInv, PTL DEF Spec

\* A failed result and its failure row say what is so, whatever was lost,
\* retried or executed late.
THEOREM FailuresAreReportedTruly == Spec => []FailureReportTruthful
<1>1. FInv => FailureReportTruthful
  BY DEF FInv, Reported, FailureReportTruthful
<1> QED
  BY <1>1, FailureInvariance, PTL

\* The order of a package's writes meets the foreign keys, for any package,
\* retries and late statements.
THEOREM ForeignKeysHold == Spec => []NoForeignKeyViolation
<1>1. FInv => NoForeignKeyViolation
  BY AnchoredAnswer DEF FInv, Reported, NoForeignKeyViolation
<1> QED
  BY <1>1, FailureInvariance, PTL
-----------------------------------------------------------------------------
(***************************************************************************)
(* Contention.  When nothing is lost and the calls write different things, *)
(* the only obstacle to record_activity is a row that took the place after *)
(* its head: each attempt finds the chain longer than the last one did.    *)
(***************************************************************************)
\* Chain k has a row at position n, or n is 0.
Reached(k, n) ==
    n = 0 \/ \E r \in AllChained : r.chain_key = k /\ r.chain_seq = n

\* Call c has not written its activity row, and item i of its package neither.
Unwritten(c) ==
    \/ call[c].pc \in {"idle", "interaction", "chain_head", "activity"}
    \/ call[c].status = "failed"

ItemUnwritten(c, i) ==
    /\ call[c].pc \notin {"visibility", "done"}
    /\ call[c].pc = "related" => call[c].item <= i

\* What call c has not written is not there: nobody else writes it.
KeysFree(c) ==
    /\ call[c].pc \notin {"idle", "done"} => request[c].admissible /\ call[c].attempt # 0
    /\ call[c].status = "failed" => call[c].pc \in {"visibility", "done"}
    /\ call[c].pc = "visibility" => call[c].status = "failed"
    /\ c \in Writers /\ Unwritten(c) =>
          \A r \in Activities : r.key # request[c].activity_id
    /\ c \in Writers =>
          \A i \in DOMAIN request[c].related : ItemUnwritten(c, i) =>
             \A r \in db[request[c].related[i].table] :
                <<request[c].related[i].table, r.key>> \notin related_keys(c, i)

\* An interaction row is the one that every call with its id would write.
InteractionsAgree ==
    \A r \in db["interaction_records"] : \A c \in Calls :
        has_interaction(request[c]) /\ r.key = request[c].interaction.id =>
            r.compare = interaction_row(request[c]).compare

\* The chain was as long as call c's lost attempts when this attempt began.
AttemptsForced(c) ==
    /\ call[c].pc = "interaction" => has_interaction(request[c])
    /\ call[c].attempt # 0 =>
          request[c].admissible /\ Reached(chain_key(request[c]), call[c].attempt - 1)
    /\ call[c].pc = "activity" => call[c].attempt - 1 <= call[c].head.chain_seq
    /\ \A r \in AllChained :
          r.key = request[c].activity_id => call[c].attempt <= r.chain_seq
    /\ call[c].status = "failed" =>
          /\ request[c].admissible /\ call[c].attempt # 0
          /\ Reached(chain_key(request[c]), MaxAttempts)

Races(c) == request[c].api = "record_activity" /\ Rewritable(c)

Apart ==
    /\ DInv
    /\ Undisturbed
    /\ InteractionsAgree
    /\ \A c \in Calls : KeysFree(c)
    /\ \A c \in Calls : Races(c) => AttemptsForced(c)

RaceInv == DInv /\ (Undisturbed => Apart)

\* The rivals of a call are finitely many: they have places up to the last one's.
LEMMA RivalsFinite ==
    ASSUME DbInv, NEW c \in Calls
    PROVE  /\ IsFiniteSet(Rivals(c)) /\ Cardinality(Rivals(c)) \in Nat
           /\ \A r \in Rivals(c) : r.chain_seq \in Nat /\ r.chain_seq # 0
           /\ \A r, s \in Rivals(c) : r.chain_seq = s.chain_seq => r = s
<1> DEFINE k == chain_key(request[c])
           rows == Rivals(c)
           top == get_activity_chain_head(k).chain_seq
           place == [r \in rows |-> r.chain_seq]
<1>1. top \in Nat /\ \A r \in AllChained : r.chain_key = k => r.chain_seq <= top
  BY HeadIsLast
<1>2. \A r \in rows : r \in AllChained /\ r.chain_key = k /\ r.chain_seq \in Nat /\ r.chain_seq # 0
  BY DEF Rivals, AllChained, DbInv, DbTypeOK, StatementTypeOK, Tables
<1>3. \A r, s \in rows : r.chain_seq = s.chain_seq => r = s
  BY <1>2 DEF DbInv, PlacesUnique
<1> HIDE DEF top, rows
<1>4. \A r \in rows : r.chain_seq \in 1 .. top
  BY <1>1, <1>2
<1>5. place \in Injection(rows, 1 .. top)
  BY <1>3, <1>4 DEF Injection, IsInjective
<1>6. IsFiniteSet(1 .. top)
  BY <1>1, FS_Interval
<1>7. IsFiniteSet(rows)
  BY <1>5, <1>6, FS_Injection
<1> QED
  BY <1>2, <1>3, <1>7, FS_CardinalityType DEF rows

\* The rows before those of call c itself are rivals'.
LEMMA ReachedByRivals ==
    ASSUME DbInv, NEW c \in Calls, NEW n \in Nat, Reached(chain_key(request[c]), n),
           \A r \in AllChained : r.key = request[c].activity_id => n < r.chain_seq
    PROVE  n <= Cardinality(Rivals(c))
<1> DEFINE k == chain_key(request[c])
           rows == Rivals(c)
           first == {r \in rows : r.chain_seq <= n}
           place_of_first == [r \in first |-> r.chain_seq]
<1>1. /\ IsFiniteSet(rows)
      /\ \A r \in rows : r.chain_seq \in Nat /\ r.chain_seq # 0
      /\ \A r, s \in rows : r.chain_seq = s.chain_seq => r = s
  BY RivalsFinite
<1>2. ASSUME NEW m \in 1 .. n PROVE \E r \in first : r.chain_seq = m
  <2>1. n # 0 /\ m \in Nat /\ 1 <= m /\ m <= n
    OBVIOUS
  <2>2. PICK l \in AllChained : l.chain_key = k /\ l.chain_seq = n
    BY <2>1 DEF Reached
  <2>3. PICK p \in AllChained : p.chain_key = k /\ p.chain_seq = m
    BY <2>1, <2>2 DEF DbInv, Contiguous
  <2>4. p.key # request[c].activity_id
    BY <2>1, <2>3
  <2> QED
    BY <2>1, <2>3, <2>4 DEF Rivals
<1> HIDE DEF rows
<1>3. first \in SUBSET rows /\ IsFiniteSet(first) /\ Cardinality(first) <= Cardinality(rows)
  <2>1. first \in SUBSET rows
    OBVIOUS
  <2> QED
    BY <1>1, <2>1, FS_Subset
<1>4. place_of_first \in Bijection(first, 1 .. n)
  <2>1. place_of_first \in [first -> 1 .. n]
    BY <1>1
  <2>2. IsInjective(place_of_first)
    BY <1>1 DEF IsInjective
  <2>3. \A m \in 1 .. n : \E r \in first : place_of_first[r] = m
    BY <1>2
  <2> QED
    BY <2>1, <2>2, <2>3 DEF Bijection, Injection, Surjection
<1>5. Cardinality(first) = n
  <2>1. Cardinality(first) = Cardinality(1 .. n)
    BY <1>3, <1>4, FS_Bijection DEF ExistsBijection
  <2> QED
    BY <2>1, FS_Interval
<1> QED
  BY <1>3, <1>5 DEF rows

LEMMA ApartIsBounded == Apart => ContentionBound
<1> SUFFICES ASSUME Apart, NEW c \in Calls, Races(c)
             PROVE  /\ call[c].attempt <= 1 + Cardinality(Rivals(c))
                    /\ call[c].status = "failed" => MaxAttempts <= Cardinality(Rivals(c))
  BY DEF ContentionBound, Races
<1>1. /\ DbInv /\ CallTypeOK(request[c], call[c]) /\ AttemptsForced(c) /\ KeysFree(c)
      /\ request[c].api \in ActivityApis
  BY RequestsAreTyped DEF Apart, DInv, IInv, Races, ActivityApis
<1>2. call[c].attempt \in Nat /\ MaxAttempts \in Nat
  BY <1>1, MaxAttemptsAssumption DEF CallTypeOK
<1>3. Cardinality(Rivals(c)) \in Nat
  BY <1>1, RivalsFinite
<1>4. \A r \in AllChained : r.chain_seq \in Nat
  BY <1>1 DEF AllChained, DbInv, DbTypeOK, StatementTypeOK, Tables
<1>5. CASE call[c].attempt = 0
  <2>1. call[c].attempt <= 1 + Cardinality(Rivals(c))
    BY <1>3, <1>5
  <2>2. call[c].status # "failed"
    BY <1>1, <1>5 DEF AttemptsForced
  <2> QED
    BY <2>1, <2>2
<1>6. CASE call[c].attempt # 0
  <2>1. PICK n \in Nat : call[c].attempt = n + 1
    <3>1. call[c].attempt - 1 \in Nat /\ call[c].attempt = call[c].attempt - 1 + 1
      BY <1>2, <1>6
    <3> QED
      BY <3>1
  <2>2. Reached(chain_key(request[c]), n)
    <3>1. n = call[c].attempt - 1
      BY <2>1
    <3> QED
      BY <1>1, <1>6, <3>1 DEF AttemptsForced
  <2>3. \A r \in AllChained : r.key = request[c].activity_id => n < r.chain_seq
    BY <1>1, <1>4, <2>1 DEF AttemptsForced
  <2>4. n <= Cardinality(Rivals(c))
    BY <1>1, <2>2, <2>3, ReachedByRivals
  <2>5. ASSUME call[c].status = "failed" PROVE MaxAttempts <= Cardinality(Rivals(c))
    <3>1. Reached(chain_key(request[c]), MaxAttempts) /\ c \in Writers /\ Unwritten(c)
      BY <1>1, <2>5 DEF AttemptsForced, Writers, Unwritten
    <3>2. \A r \in AllChained : r.key # request[c].activity_id
      BY <1>1, <3>1 DEF KeysFree, AllChained, Activities
    <3> QED
      BY <1>1, <1>2, <3>1, <3>2, ReachedByRivals
  <2> QED
    BY <1>3, <2>1, <2>4, <2>5
<1> QED
  BY <1>5, <1>6


-----------------------------------------------------------------------------
(***************************************************************************)
(* Who writes a row.                                                       *)
(***************************************************************************)
\* Call d writes row r of table t in this step.
Wrote(d, t, r) ==
    \/ /\ t = "interaction_records" /\ call[d].pc = "interaction"
       /\ r = interaction_row(request[d])
    \/ /\ t = "activity_records" /\ call[d].pc = "activity"
       /\ r = chain_activity_record(request[d], call[d].head)
       /\ call'[d] = after_related(request[d], call[d])
    \/ /\ t = request[d].related[call[d].item].table /\ call[d].pc = "related"
       /\ call[d].item \in DOMAIN request[d].related
       /\ r = related_row(d, request[d], call[d], call[d].item)
       /\ call'[d] = after_related(request[d], call[d])
    \/ t = "system_record_write_failures"

LEMMA NewRowOfCall ==
    ASSUME IInv, FaultFreeNext, NEW t \in Tables, NEW r \in db'[t] \ db[t]
    PROVE  \E d \in Calls : Wrote(d, t, r)
<1>1. DOMAIN db = Tables /\ DOMAIN call = Calls
  BY DEF IInv, TypeOK
<1>2. ASSUME NEW stmt, execute(stmt), stmt.table \in Tables
      PROVE  t = stmt.table /\ r = stmt.row /\ outcome(stmt) = "created"
  BY <1>1, <1>2 DEF execute
<1>3. PICK d \in Calls : Invoke(d) \/ Answered(d)
  BY DEF FaultFreeNext
<1>4. /\ IsRequest(request[d]) /\ CallTypeOK(request[d], call[d])
      /\ call[d].pc \in Sending => statement(d).table \in Tables
  <2>1. call[d].pc \in Sending => StatementInv(statement(d))
    BY StatementOfCall DEF Sending
  <2> QED
    BY <2>1, RequestsAreTyped DEF IInv, StatementInv, StatementTypeOK
<1>5. CASE WriteInteraction(d)
  <2>1. t = statement(d).table /\ r = statement(d).row
    BY <1>2, <1>4, <1>5 DEF WriteInteraction, Sending
  <2> QED
    BY <1>5, <2>1 DEF WriteInteraction, statement, Wrote
<1>6. CASE WriteActivity(d)
  <2>1. /\ t = statement(d).table /\ r = statement(d).row
        /\ outcome(statement(d)) = "created"
    BY <1>2, <1>4, <1>6 DEF WriteActivity, Sending
  <2>2. call'[d] = after_related(request[d], call[d])
    BY <1>1, <1>6, <2>1 DEF WriteActivity, Become, is_written
  <2> QED
    BY <1>6, <2>1, <2>2 DEF WriteActivity, statement, Wrote
<1>7. CASE WriteRelated(d)
  <2>1. /\ t = statement(d).table /\ r = statement(d).row
        /\ outcome(statement(d)) = "created"
    BY <1>2, <1>4, <1>7 DEF WriteRelated, Sending
  <2>2. call'[d] = after_related(request[d], call[d])
    BY <1>1, <1>7, <2>1 DEF WriteRelated, Become, is_written
  <2>3. call[d].item \in DOMAIN request[d].related
    BY <1>4, <1>7 DEF WriteRelated, CallTypeOK, IsRequest
  <2>4. /\ statement(d).table = request[d].related[call[d].item].table
        /\ statement(d).row = related_row(d, request[d], call[d], call[d].item)
        /\ call[d].pc = "related"
    BY <1>7 DEF WriteRelated, statement
  <2> QED
    BY <2>1, <2>2, <2>3, <2>4 DEF Wrote
<1>8. CASE WriteFailureRow(d)
  <2>1. t = statement(d).table
    BY <1>2, <1>4, <1>8 DEF WriteFailureRow, Sending
  <2> QED
    BY <1>8, <2>1 DEF WriteFailureRow, statement, Wrote
<1>9. CASE Invoke(d) \/ ReadChainHead(d) \/ RejectRelated(d)
  BY <1>9 DEF Invoke, ReadChainHead, RejectRelated
<1> QED
  BY <1>3, <1>5, <1>6, <1>7, <1>8, <1>9 DEF Answered

\* A row of a table names the statement that wrote it.
LEMMA WroteWhat ==
    ASSUME IInv, NEW d \in Calls, NEW t \in Tables, NEW r, Wrote(d, t, r)
    PROVE  /\ t = "interaction_records" => r = interaction_row(request[d])
           /\ t = "activity_records" =>
                 /\ call[d].pc = "activity"
                 /\ r = chain_activity_record(request[d], call[d].head)
                 /\ call'[d] = after_related(request[d], call[d])
           /\ t \in RelatedTables =>
                 /\ call[d].pc = "related"
                 /\ call[d].item \in DOMAIN request[d].related
                 /\ t = request[d].related[call[d].item].table
                 /\ r = related_row(d, request[d], call[d], call[d].item)
                 /\ call'[d] = after_related(request[d], call[d])
<1>1. IsRequest(request[d])
  BY RequestsAreTyped DEF IInv
<1>2. call[d].item \in DOMAIN request[d].related =>
         request[d].related[call[d].item].table \in RelatedTables
  BY <1>1 DEF IsRequest
<1>3. /\ "interaction_records" \notin RelatedTables
      /\ "activity_records" \notin RelatedTables
      /\ "system_record_write_failures" \notin RelatedTables
  BY DEF RelatedTables
<1> QED
  BY <1>2, <1>3 DEF Wrote

\* A call that has just written its activity or an item is past it.
LEMMA PastWhatWasWritten ==
    ASSUME NEW r, IsRequest(r), NEW s, CallTypeOK(r, s), NEW t, t = after_related(r, s)
    PROVE  /\ t.pc \in {"related", "done"}
           /\ t.pc = "related" => t.item = s.item + 1
           /\ t.status \in {s.status, "accepted"}
           /\ t.attempt = s.attempt
  BY DEF after_related, return, CallTypeOK, IdleCall, IsRequest

\* The key an item gets is one of its keys.
LEMMA KeyOfItem ==
    ASSUME NEW c, NEW s, s.attempt \in 1 .. MaxAttempts, NEW i
    PROVE  <<request[c].related[i].table, related_row(c, request[c], s, i).key>>
              \in related_keys(c, i)
<1>1. related_row(c, request[c], s, i).key = related_key(c, request[c], s, i)
  BY DEF related_row, plain_row
<1>2. related_key(c, request[c], s, i)
         = related_key(c, request[c], [attempt |-> s.attempt], i)
  BY DEF related_key
<1> QED
  BY <1>1, <1>2 DEF related_keys


-----------------------------------------------------------------------------
(***************************************************************************)
(* What is there stays apart.                                              *)
(***************************************************************************)
\* Call c goes on, and comes back to nothing it has written.
GoesForward(c) ==
    /\ call'[c].pc \notin {"idle", "done"} => request[c].admissible /\ call'[c].attempt # 0
    /\ call'[c].status = "failed" => call'[c].pc \in {"visibility", "done"}
    /\ call'[c].pc = "visibility" => call'[c].status = "failed"
    /\ c \in Writers =>
          /\ Unwritten(c)' => Unwritten(c)
          /\ \A i \in DOMAIN request[c].related : ItemUnwritten(c, i)' => ItemUnwritten(c, i)

LEMMA AgreeStays ==
    ASSUME Apart, FaultFreeNext, RowsStay
    PROVE  InteractionsAgree'
<1> SUFFICES ASSUME NEW r \in db'["interaction_records"], NEW c \in Calls,
                    has_interaction(request[c]), r.key = request[c].interaction.id
             PROVE  r.compare = interaction_row(request[c]).compare
  BY DEF InteractionsAgree, RowsStay
<1>1. CASE r \in db["interaction_records"]
  BY <1>1 DEF Apart, InteractionsAgree
<1>2. CASE r \notin db["interaction_records"]
  <2>1. "interaction_records" \in Tables
    BY DEF Tables
  <2>2. PICK d \in Calls : r = interaction_row(request[d])
    BY <1>2, <2>1, NewRowOfCall, WroteWhat DEF Apart, DInv
  <2>3. r.key = request[d].interaction.id
    BY <2>2 DEF interaction_row, plain_row
  <2>4. request[c].interaction = request[d].interaction
    BY <2>3 DEF Apart, Undisturbed
  <2> QED
    BY <2>2, <2>4 DEF interaction_row, plain_row
<1> QED
  BY <1>1, <1>2

\* An activity row that arrives is of a call that may write it, its own.
LEMMA NewActivityOfCall ==
    ASSUME Apart, FaultFreeNext, NEW r \in db'["activity_records"] \ db["activity_records"],
           NEW c \in Writers, r.key = request[c].activity_id
    PROVE  /\ call[c].pc = "activity"
           /\ r.chain_seq = call[c].head.chain_seq + 1
           /\ call'[c] = after_related(request[c], call[c])
<1>1. "activity_records" \in Tables
  BY DEF Tables
<1>2. PICK d \in Calls : /\ call[d].pc = "activity"
                         /\ r = chain_activity_record(request[d], call[d].head)
                         /\ call'[d] = after_related(request[d], call[d])
  BY <1>1, NewRowOfCall, WroteWhat DEF Apart, DInv
<1>3. r.key = request[d].activity_id /\ r.chain_seq = call[d].head.chain_seq + 1
  BY <1>2 DEF chain_activity_record
<1>4. d \in Writers
  <2>1. KeysFree(d) /\ Durable(d)
    BY DEF Apart, DInv
  <2> QED
    BY <1>2, <2>1 DEF KeysFree, Durable, Writers
<1>5. d = c
  BY <1>3, <1>4 DEF Apart, Undisturbed
<1> QED
  BY <1>2, <1>3, <1>5

LEMMA KeysStay ==
    ASSUME Apart, FaultFreeNext, RowsStay, NEW c \in Calls, GoesForward(c)
    PROVE  KeysFree(c)'
<1>1. /\ KeysFree(c) /\ IsRequest(request[c]) /\ CallTypeOK(request[c], call[c])
      /\ request' = request /\ DInv /\ IInv /\ Undisturbed
  BY RequestsAreTyped DEF Apart, DInv, IInv, RowsStay
<1>2. Writers' = Writers
  BY <1>1 DEF Writers
<1>3. ASSUME c \in Writers, Unwritten(c)', NEW r \in db'["activity_records"]
      PROVE  r.key # request[c].activity_id
  <2>1. CASE r \in db["activity_records"]
    BY <1>1, <1>3, <2>1 DEF GoesForward, KeysFree, Activities
  <2>2. CASE r \notin db["activity_records"]
    <3> SUFFICES ASSUME r.key = request[c].activity_id PROVE FALSE
      OBVIOUS
    <3>1. call[c].pc = "activity" /\ call'[c] = after_related(request[c], call[c])
      BY <1>3, <2>2, NewActivityOfCall
    <3>2. call[c].status # "failed"
      BY <1>1, <3>1 DEF KeysFree
    <3>3. call'[c].pc \in {"related", "done"} /\ call'[c].status \in {call[c].status, "accepted"}
      BY <1>1, <3>1, PastWhatWasWritten
    <3> QED
      BY <1>3, <3>2, <3>3 DEF Unwritten
  <2> QED
    BY <2>1, <2>2
<1>4. ASSUME c \in Writers, NEW i \in DOMAIN request[c].related, ItemUnwritten(c, i)',
             NEW t, t = request[c].related[i].table, NEW r \in db'[t]
      PROVE  <<t, r.key>> \notin related_keys(c, i)
  <2>1. CASE r \in db[t]
    BY <1>1, <1>4, <2>1 DEF GoesForward, KeysFree
  <2>2. CASE r \notin db[t]
    <3>1. t \in RelatedTables /\ t \in Tables
      BY <1>1, <1>4 DEF IsRequest, Tables
    <3>2. PICK d \in Calls :
             /\ call[d].pc = "related"
             /\ call[d].item \in DOMAIN request[d].related
             /\ t = request[d].related[call[d].item].table
             /\ r = related_row(d, request[d], call[d], call[d].item)
             /\ call'[d] = after_related(request[d], call[d])
      BY <1>1, <2>2, <3>1, NewRowOfCall, WroteWhat
    <3>3. KeysFree(d) /\ CallTypeOK(request[d], call[d]) /\ IsRequest(request[d])
      BY <1>1, RequestsAreTyped DEF Apart, IInv
    <3>4. call[d].attempt \in 1 .. MaxAttempts
      <4>1. call[d].attempt \in 0 .. MaxAttempts
        BY <3>3 DEF CallTypeOK
      <4>2. call[d].attempt # 0
        BY <3>2, <3>3 DEF KeysFree
      <4> QED
        BY <4>1, <4>2, MaxAttemptsAssumption
    <3>5. <<t, r.key>> \in related_keys(d, call[d].item)
      BY <3>2, <3>4, KeyOfItem
    <3>6. CASE <<c, i>> # <<d, call[d].item>>
      <4>1. related_keys(c, i) \cap related_keys(d, call[d].item) = {}
        BY <1>1, <1>4, <3>2, <3>6 DEF Undisturbed
      <4> QED
        BY <3>5, <4>1
    <3>7. CASE <<c, i>> = <<d, call[d].item>>
      <4>1. c = d /\ i = call[d].item
        BY <3>7
      <4>2. /\ call'[c].pc \in {"related", "done"}
            /\ call'[c].pc = "related" => call'[c].item = call[c].item + 1
        BY <3>2, <3>3, <4>1, PastWhatWasWritten
      <4>3. call[c].item \in Nat
        BY <1>1 DEF CallTypeOK, IsRequest
      <4> QED
        BY <1>4, <4>1, <4>2, <4>3 DEF ItemUnwritten
    <3> QED
      BY <3>6, <3>7
  <2> QED
    BY <2>1, <2>2
<1>5. c \in Writers' /\ Unwritten(c)' =>
         \A r \in Activities' : r.key # request'[c].activity_id
  BY <1>1, <1>2, <1>3 DEF Activities
<1>6. c \in Writers' =>
         \A i \in DOMAIN request'[c].related : ItemUnwritten(c, i)' =>
            \A r \in db'[request'[c].related[i].table] :
               <<request'[c].related[i].table, r.key>> \notin related_keys(c, i)'
  <2>1. ASSUME NEW i PROVE related_keys(c, i)' = related_keys(c, i)
    BY <1>1 DEF related_keys, related_key
  <2> QED
    BY <1>1, <1>2, <1>4, <2>1
<1> QED
  BY <1>1, <1>5, <1>6 DEF GoesForward, KeysFree


-----------------------------------------------------------------------------
(***************************************************************************)
(* What the database answers, and where the calls go.                      *)
(***************************************************************************)
LEMMA InteractionAnswered ==
    ASSUME Apart, NEW c \in Calls, Races(c), call[c].pc = "interaction"
    PROVE  is_written(outcome(statement(c)))
<1> DEFINE stmt == statement(c)
<1>1. has_interaction(request[c]) /\ ~append_only
  BY DEF Apart, AttemptsForced, Races, Rewritable
<1>2. stmt = [table |-> "interaction_records", row |-> interaction_row(request[c])]
  BY DEF statement
<1>3. stmt.row.key = request[c].interaction.id /\ stmt.row.chain_seq = 0
  BY <1>2 DEF interaction_row, plain_row
<1>4. key_taken(stmt) => same_row(stmt)
  BY <1>1, <1>2, <1>3 DEF key_taken, same_row, Apart, InteractionsAgree
<1>5. ~chain_seq_taken(stmt)
  BY <1>3 DEF chain_seq_taken
<1>6. ~dangling_reference(stmt)
  BY StatementAnchored, AnchoredAnswer DEF Apart
<1> HIDE DEF stmt
<1> QED
  BY <1>1, <1>4, <1>5, <1>6 DEF outcome, is_written, stmt

LEMMA ActivityAnswered ==
    ASSUME Apart, NEW c \in Writers, call[c].pc = "activity"
    PROVE  \/ outcome(statement(c)) = "created"
           \/ /\ outcome(statement(c)) = "unique_violation"
              /\ Reached(chain_key(request[c]), call[c].head.chain_seq + 1)
<1> DEFINE stmt == statement(c)
<1>1. c \in Calls /\ KeysFree(c) /\ DInv
  BY DEF Writers, Apart
<1>2. stmt = [table |-> "activity_records",
              row   |-> chain_activity_record(request[c], call[c].head)]
  BY DEF statement
<1>3. /\ stmt.row.key = request[c].activity_id
      /\ stmt.row.chain_key = chain_key(request[c])
      /\ stmt.row.chain_seq = call[c].head.chain_seq + 1
  BY <1>2 DEF chain_activity_record
<1>4. ~key_taken(stmt)
  BY <1>1, <1>2, <1>3 DEF key_taken, KeysFree, Unwritten, Activities
<1>5. ~same_row(stmt)
  BY <1>4 DEF same_row, key_taken
<1>6. ~dangling_reference(stmt)
  BY <1>1, StatementAnchored, AnchoredAnswer
<1>7. chain_seq_taken(stmt) => Reached(chain_key(request[c]), call[c].head.chain_seq + 1)
  BY <1>2, <1>3 DEF chain_seq_taken, Reached, AllChained
<1> HIDE DEF stmt
<1> QED
  BY <1>4, <1>5, <1>6, <1>7 DEF outcome, stmt

LEMMA ItemAnswered ==
    ASSUME Apart, NEW c \in Writers, call[c].pc = "related"
    PROVE  is_written(outcome(statement(c)))
<1> DEFINE stmt == statement(c)
           i == call[c].item
<1>1. /\ c \in Calls /\ KeysFree(c) /\ DInv /\ request[c].api \in ActivityApis
      /\ IsRequest(request[c]) /\ CallTypeOK(request[c], call[c])
  BY RequestsAreTyped DEF Writers, Apart, DInv, IInv
<1>2. stmt = [table |-> request[c].related[i].table,
              row   |-> related_row(c, request[c], call[c], i)]
  BY DEF statement
<1>3. i \in DOMAIN request[c].related /\ i \in Nat
  BY <1>1 DEF CallTypeOK, IsRequest
<1>4. <<stmt.table, stmt.row.key>> \in related_keys(c, i)
  <2>1. call[c].attempt \in 1 .. MaxAttempts
    BY <1>1, MaxAttemptsAssumption DEF CallTypeOK, KeysFree
  <2> QED
    BY <1>2, <2>1, KeyOfItem
<1>5. ItemUnwritten(c, i)
  BY <1>3 DEF ItemUnwritten
<1>6. ~key_taken(stmt)
  <2>1. stmt.table = request[c].related[i].table
    BY <1>2
  <2> QED
    BY <1>1, <1>3, <1>4, <1>5, <2>1 DEF key_taken, KeysFree
<1>7. ~same_row(stmt)
  BY <1>6 DEF same_row, key_taken
<1>8. ~chain_seq_taken(stmt)
  BY <1>2 DEF chain_seq_taken, related_row, plain_row
<1>9. ~dangling_reference(stmt)
  BY <1>1, StatementAnchored, AnchoredAnswer
<1> HIDE DEF stmt
<1> QED
  BY <1>6, <1>7, <1>8, <1>9 DEF outcome, is_written, stmt

\* A first attempt, or a next one.
LEMMA BeginsAttempt ==
    ASSUME NEW r, IsRequest(r), NEW s, CallTypeOK(r, s), NEW t, t = begin_attempt(r, s)
    PROVE  /\ t.pc = first_step(r) /\ t.attempt = s.attempt + 1 /\ t.attempt # 0
           /\ t.status = s.status
           /\ t.pc \in {"interaction", "chain_head", "related"}
           /\ t.pc = "related" => r.api = "record_related"
           /\ t.pc = "interaction" /\ r.api \in ActivityApis => has_interaction(r)
<1>1. /\ t.pc = first_step(r) /\ t.attempt = s.attempt + 1 /\ t.status = s.status
  BY DEF begin_attempt, CallTypeOK, IdleCall
<1>2. /\ first_step(r) \in {"interaction", "chain_head", "related"}
      /\ first_step(r) = "related" => r.api = "record_related"
      /\ first_step(r) = "interaction" /\ r.api \in ActivityApis => has_interaction(r)
  BY DEF first_step, IsRequest, Apis, ActivityApis
<1> QED
  BY <1>1, <1>2 DEF CallTypeOK

LEMMA FailureGoesForward ==
    ASSUME Apart, NEW c \in Calls, NEW error,
           call[c].pc \in {"interaction", "chain_head", "activity", "related"},
           call'[c] = after_failure(request[c], call[c], error),
           c \in Writers /\ call[c].pc = "related" => request[c].api \notin RetryingApis
    PROVE  GoesForward(c)
<1> DEFINE r == request[c]
           s == call[c]
           t == call'[c]
<1>1. IsRequest(r) /\ CallTypeOK(r, s) /\ KeysFree(c)
  BY RequestsAreTyped DEF Apart, DInv, IInv
<1>2. c \in Writers => r.api # "record_related"
  BY DEF Writers, ActivityApis
<1>3. r.admissible /\ s.attempt # 0 /\ s.status # "failed"
  BY <1>1 DEF KeysFree
<1>4. CASE r.api \notin RetryingApis
  <2>1. t.pc = "done" /\ t.status = "raised"
    BY <1>1, <1>4 DEF after_failure, return, CallTypeOK, IdleCall
  <2> QED
    BY <2>1 DEF GoesForward, Unwritten, ItemUnwritten
<1>5. CASE r.api \in RetryingApis /\ attempts_left(s)
  <2>1. t = begin_attempt(r, s)
    BY <1>5 DEF after_failure
  <2>2. /\ t.attempt # 0 /\ t.status = s.status
        /\ t.pc \in {"interaction", "chain_head", "related"}
        /\ t.pc = "related" => r.api = "record_related"
    BY <1>1, <2>1, BeginsAttempt
  <2> QED
    BY <1>2, <1>3, <1>5, <2>2 DEF GoesForward, Unwritten, ItemUnwritten
<1>6. CASE r.api \in RetryingApis /\ ~attempts_left(s)
  <2>1. t.pc = "visibility" /\ t.status = "failed" /\ t.attempt = s.attempt
    BY <1>1, <1>6 DEF after_failure, CallTypeOK, IdleCall
  <2> QED
    BY <1>3, <1>6, <2>1 DEF GoesForward, Unwritten, ItemUnwritten
<1> QED
  BY <1>4, <1>5, <1>6


\* Call c stays where it is, or passes what it has just written.
LEMMA PassingGoesForward ==
    ASSUME Apart, NEW c \in Calls,
           \/ call'[c] = call[c]
           \/ /\ call[c].pc \in {"activity", "related"}
              /\ call'[c] = after_related(request[c], call[c])
    PROVE  GoesForward(c)
<1> DEFINE r == request[c]
           s == call[c]
           t == call'[c]
<1>1. IsRequest(r) /\ CallTypeOK(r, s) /\ KeysFree(c)
  BY RequestsAreTyped DEF Apart, DInv, IInv
<1>2. CASE t = s
  BY <1>1, <1>2 DEF GoesForward, KeysFree, Unwritten, ItemUnwritten
<1>3. CASE s.pc \in {"activity", "related"} /\ t = after_related(r, s)
  <2>1. /\ t.pc \in {"related", "done"}
        /\ t.pc = "related" => t.item = s.item + 1
        /\ t.status \in {s.status, "accepted"}
        /\ t.attempt = s.attempt
    BY <1>1, <1>3, PastWhatWasWritten
  <2>2. r.admissible /\ s.attempt # 0 /\ s.status # "failed"
    BY <1>1, <1>3 DEF KeysFree
  <2>3. s.item \in Nat /\ \A i \in DOMAIN r.related : i \in Nat
    BY <1>1 DEF CallTypeOK, IsRequest
  <2> QED
    BY <1>3, <2>1, <2>2, <2>3 DEF GoesForward, Unwritten, ItemUnwritten
<1> QED
  BY <1>2, <1>3

LEMMA CallsGoForward ==
    ASSUME Apart, FaultFreeNext, NEW c \in Calls
    PROVE  GoesForward(c)
<1> DEFINE r == request[c]
           s == call[c]
           t == call'[c]
<1>1. /\ IsRequest(r) /\ CallTypeOK(r, s) /\ KeysFree(c) /\ DOMAIN call = Calls
      /\ Undisturbed
  BY RequestsAreTyped DEF Apart, DInv, IInv, TypeOK
<1>2. PICK d \in Calls : Invoke(d) \/ Answered(d)
  BY DEF FaultFreeNext
<1>3. CASE d # c
  <2>1. t = s
    BY <1>1, <1>2, <1>3 DEF Answered, Invoke, WriteInteraction, ReadChainHead, WriteActivity,
           WriteRelated, RejectRelated, WriteFailureRow, Become
  <2> QED
    BY <2>1, PassingGoesForward
<1>4. CASE Invoke(c)
  <2>1. s.pc = "idle"
    BY <1>4 DEF Invoke
  <2>2. s.status # "failed"
    BY <1>1, <2>1 DEF KeysFree
  <2>3. CASE r.admissible
    <3>1. t = begin_attempt(r, s)
      BY <1>1, <1>4, <2>3 DEF Invoke, Become
    <3>2. /\ t.attempt # 0 /\ t.status = s.status
          /\ t.pc \in {"interaction", "chain_head", "related"}
          /\ t.pc = "related" => r.api = "record_related"
      BY <1>1, <3>1, BeginsAttempt
    <3>3. c \in Writers => r.api # "record_related"
      BY DEF Writers, ActivityApis
    <3> QED
      BY <2>1, <2>2, <2>3, <3>2, <3>3 DEF GoesForward, Unwritten, ItemUnwritten
  <2>4. CASE ~r.admissible
    <3>1. t = return([s EXCEPT !.error = "inadmissible"], "raised")
      BY <1>1, <1>4, <2>4 DEF Invoke, Become
    <3>2. t.pc = "done" /\ t.status = "raised"
      BY <1>1, <3>1 DEF return, CallTypeOK, IdleCall
    <3> QED
      BY <3>2 DEF GoesForward, Unwritten, ItemUnwritten
  <2> QED
    BY <2>3, <2>4
<1>5. CASE WriteInteraction(c)
  <2>1. /\ s.pc = "interaction"
        /\ \/ t = after_failure(r, s, outcome(statement(c)))
           \/ t = return(s, "accepted") /\ r.api = "record_interaction"
           \/ t = [s EXCEPT !.pc = "chain_head"]
    BY <1>1, <1>5 DEF WriteInteraction, Become
  <2>2. CASE t = after_failure(r, s, outcome(statement(c)))
    BY <2>1, <2>2, FailureGoesForward
  <2>3. CASE t = return(s, "accepted") /\ r.api = "record_interaction"
    <3>1. t.pc = "done" /\ t.status = "accepted"
      BY <1>1, <2>3 DEF return, CallTypeOK, IdleCall
    <3> QED
      BY <3>1 DEF GoesForward, Unwritten, ItemUnwritten
  <2>4. CASE t = [s EXCEPT !.pc = "chain_head"]
    <3>1. t.pc = "chain_head" /\ t.status = s.status /\ t.attempt = s.attempt
      BY <1>1, <2>4 DEF CallTypeOK, IdleCall
    <3> QED
      BY <1>1, <2>1, <3>1 DEF GoesForward, KeysFree, Unwritten, ItemUnwritten
  <2> QED
    BY <2>1, <2>2, <2>3, <2>4
<1>6. CASE ReadChainHead(c)
  <2>1. /\ s.pc = "chain_head" /\ t.pc = "activity"
        /\ t.status = s.status /\ t.attempt = s.attempt
    BY <1>1, <1>6 DEF ReadChainHead, Become, CallTypeOK, IdleCall
  <2> QED
    BY <1>1, <2>1 DEF GoesForward, KeysFree, Unwritten, ItemUnwritten
<1>7. CASE WriteActivity(c)
  <2>1. /\ s.pc = "activity"
        /\ \/ t = after_failure(r, s, outcome(statement(c)))
           \/ t = after_related(r, s)
    BY <1>1, <1>7 DEF WriteActivity, Become
  <2> QED
    BY <2>1, FailureGoesForward, PassingGoesForward
<1>8. CASE WriteRelated(c)
  <2>1. /\ s.pc = "related"
        /\ \/ t = after_failure(r, s, outcome(statement(c))) /\ ~is_written(outcome(statement(c)))
           \/ t = after_related(r, s)
    BY <1>1, <1>8 DEF WriteRelated, Become
  <2>2. CASE t = after_related(r, s)
    BY <2>1, <2>2, PassingGoesForward
  <2>3. CASE t = after_failure(r, s, outcome(statement(c))) /\ ~is_written(outcome(statement(c)))
    <3>1. c \notin Writers
      BY <2>1, <2>3, ItemAnswered
    <3> QED
      BY <2>1, <2>3, <3>1, FailureGoesForward
  <2> QED
    BY <2>1, <2>2, <2>3
<1>9. CASE RejectRelated(c)
  <2>1. s.pc = "related" /\ t = after_failure(r, s, "invalid_item") /\ ~current_item(c).safe
    BY <1>1, <1>9 DEF RejectRelated, Become
  <2>2. s.item \in DOMAIN r.related
    BY <1>1, <2>1 DEF CallTypeOK, IsRequest
  <2>3. r.api # "record_activity"
    BY <1>1, <2>1, <2>2 DEF Undisturbed, current_item
  <2>4. c \in Writers => r.api \notin RetryingApis
    BY <2>3 DEF Writers, ActivityApis, RetryingApis
  <2> QED
    BY <2>1, <2>4, FailureGoesForward
<1>10. CASE WriteFailureRow(c)
  <2>1. s.pc = "visibility" /\ t.pc = "done" /\ t.status = "failed"
    BY <1>1, <1>10 DEF WriteFailureRow, Become, return, CallTypeOK, IdleCall
  <2> QED
    BY <1>1, <2>1 DEF GoesForward, KeysFree, Unwritten, ItemUnwritten
<1> QED
  BY <1>2, <1>3, <1>4, <1>5, <1>6, <1>7, <1>8, <1>9, <1>10 DEF Answered


-----------------------------------------------------------------------------
(***************************************************************************)
(* Attempts are forced.                                                    *)
(***************************************************************************)
LEMMA ReachedStays ==
    ASSUME RowsStay, NEW k, NEW n, Reached(k, n)
    PROVE  Reached(k, n)'
<1>1. AllChained \subseteq AllChained'
  BY DEF RowsStay, AllChained, Tables
<1> QED
  BY <1>1 DEF Reached

\* Reaching a position is reaching those before it.
LEMMA ReachedBefore ==
    ASSUME DbInv, NEW k, NEW n \in Nat, Reached(k, n), NEW m \in Nat, m <= n
    PROVE  Reached(k, m)
<1>1. CASE m = 0
  BY <1>1 DEF Reached
<1>2. CASE m # 0
  <2>1. n # 0 /\ 1 <= m
    BY <1>2
  <2>2. PICK l \in AllChained : l.chain_key = k /\ l.chain_seq = n
    BY <2>1 DEF Reached
  <2> QED
    BY <2>1, <2>2 DEF DbInv, Contiguous, Reached
<1> QED
  BY <1>1, <1>2

\* The rows with call c's id, if this step leaves its attempt as it is.
LEMMA OwnRowAfter ==
    ASSUME Apart, FaultFreeNext, NEW c \in Writers, Races(c), NEW r \in AllChained',
           r.key = request[c].activity_id, call'[c].attempt = call[c].attempt
    PROVE  call'[c].attempt <= r.chain_seq
<1>1. /\ c \in Calls /\ AttemptsForced(c) /\ CallTypeOK(request[c], call[c])
  BY RequestsAreTyped DEF Writers, Apart, DInv, IInv
<1>2. CASE r \in db["activity_records"]
  BY <1>1, <1>2 DEF AttemptsForced, AllChained
<1>3. CASE r \notin db["activity_records"]
  <2>1. /\ call[c].pc = "activity"
        /\ r.chain_seq = call[c].head.chain_seq + 1
    BY <1>3, NewActivityOfCall DEF AllChained
  <2>2. call[c].attempt - 1 <= call[c].head.chain_seq
    BY <1>1, <2>1 DEF AttemptsForced
  <2>3. call[c].attempt \in Nat /\ call[c].head.chain_seq \in Nat
    BY <1>1, MaxAttemptsAssumption DEF CallTypeOK
  <2> QED
    BY <2>1, <2>2, <2>3
<1> QED
  BY <1>2, <1>3

\* A step that begins no attempt, reads no head and reports no failure.
LEMMA ForcedKept ==
    ASSUME Apart, FaultFreeNext, RowsStay, NEW c \in Writers, Races(c),
           call'[c].attempt = call[c].attempt,
           call'[c].pc = "interaction" => call[c].pc = "interaction",
           call'[c].pc = "activity" =>
              call[c].pc = "activity" /\ call'[c].head = call[c].head,
           call'[c].status = "failed" => call[c].status = "failed"
    PROVE  AttemptsForced(c)'
<1>1. c \in Calls /\ AttemptsForced(c) /\ request' = request
  BY DEF Writers, Apart, RowsStay
<1>2. \A n : Reached(chain_key(request[c]), n) => Reached(chain_key(request[c]), n)'
  <2> SUFFICES ASSUME NEW n, Reached(chain_key(request[c]), n)
               PROVE  Reached(chain_key(request[c]), n)'
    OBVIOUS
  <2>1. PICK k : k = chain_key(request[c])
    OBVIOUS
  <2>2. Reached(k, n)'
    BY <2>1, ReachedStays
  <2> QED
    BY <1>1, <2>1, <2>2 DEF Reached
<1>3. \A r \in AllChained' : r.key = request[c].activity_id => call'[c].attempt <= r.chain_seq
  BY OwnRowAfter
<1>4. call'[c].attempt # 0 =>
         request'[c].admissible /\ Reached(chain_key(request[c]), call[c].attempt - 1)'
  BY <1>1, <1>2 DEF AttemptsForced
<1>5. call'[c].status = "failed" =>
         /\ request'[c].admissible /\ call'[c].attempt # 0
         /\ Reached(chain_key(request[c]), MaxAttempts)'
  BY <1>1, <1>2 DEF AttemptsForced
<1> QED
  BY <1>1, <1>3, <1>4, <1>5 DEF AttemptsForced, Reached


\* A new attempt begins when the chain is as long as the lost ones, and no row
\* of the call's own is there.
LEMMA ForcedBegins ==
    ASSUME Apart, NEW c \in Writers, Races(c), Unwritten(c), call[c].status # "failed",
           Reached(chain_key(request[c]), call[c].attempt),
           call'[c] = begin_attempt(request[c], call[c]), request' = request, db' = db
    PROVE  AttemptsForced(c)'
<1> DEFINE r == request[c]
           s == call[c]
           t == call'[c]
<1>1. /\ c \in Calls /\ IsRequest(r) /\ CallTypeOK(r, s) /\ KeysFree(c)
      /\ r.admissible /\ r.api \in ActivityApis
  BY RequestsAreTyped DEF Writers, Apart, DInv, IInv
<1>2. /\ t.attempt = s.attempt + 1 /\ t.attempt # 0
      /\ t.status = s.status
      /\ t.pc \in {"interaction", "chain_head", "related"}
      /\ t.pc = "interaction" => has_interaction(r)
  BY <1>1, BeginsAttempt
<1>3. t.attempt - 1 = s.attempt
  BY <1>1, <1>2 DEF CallTypeOK
<1>4. \A x \in AllChained' : x.key # r.activity_id
  BY <1>1 DEF KeysFree, AllChained, Activities
<1>5. Reached(chain_key(r), s.attempt - 1)'
  BY <1>3 DEF Reached, AllChained
<1> QED
  BY <1>1, <1>2, <1>4, <1>5 DEF AttemptsForced

LEMMA ForcedStays ==
    ASSUME Apart, FaultFreeNext, RowsStay, NEW c \in Calls, Races(c)
    PROVE  AttemptsForced(c)'
<1> DEFINE r == request[c]
           s == call[c]
           t == call'[c]
           k == chain_key(r)
<1>1. /\ IsRequest(r) /\ CallTypeOK(r, s) /\ KeysFree(c) /\ AttemptsForced(c)
      /\ DOMAIN call = Calls /\ DOMAIN db = Tables /\ Undisturbed /\ DbInv /\ HeadsCommitted
      /\ request' = request /\ r.api \in ActivityApis /\ r.api \in RetryingApis
  BY RequestsAreTyped
  DEF Apart, DInv, IInv, TypeOK, RowsStay, Races, ActivityApis, RetryingApis
<1>2. PICK d \in Calls : Invoke(d) \/ Answered(d)
  BY DEF FaultFreeNext
<1>3. CASE c \notin Writers
  <2>1. ~r.admissible /\ s.attempt = 0 /\ s.status # "failed" /\ s.pc \in {"idle", "done"}
    BY <1>1, <1>3 DEF Writers, AttemptsForced, KeysFree
  <2>2. t.attempt = 0 /\ t.status # "failed" /\ t.pc \in {"idle", "done"}
    <3>1. CASE Invoke(c)
      <4>1. t = return([s EXCEPT !.error = "inadmissible"], "raised")
        BY <1>1, <2>1, <3>1 DEF Invoke, Become
      <4> QED
        BY <1>1, <2>1, <4>1 DEF return, CallTypeOK, IdleCall
    <3>2. CASE ~Invoke(c)
      <4>1. t = s
        BY <1>1, <1>2, <2>1, <3>2 DEF Answered, Invoke, WriteInteraction, ReadChainHead,
               WriteActivity, WriteRelated, RejectRelated, WriteFailureRow, Become
      <4> QED
        BY <2>1, <4>1
    <3> QED
      BY <3>1, <3>2
  <2>3. \A x \in AllChained' : x.chain_seq \in Nat
    <3>1. FaultFreeNext => Next
      BY DEF FaultFreeNext, Answered, Next
    <3>2. DInv'
      BY <3>1, NextDInv DEF Apart
    <3> QED
      BY <3>2 DEF DInv, IInv, DbInv, DbTypeOK, StatementTypeOK, AllChained, Tables
  <2>4. \A x \in AllChained' : t.attempt <= x.chain_seq
    BY <2>2, <2>3
  <2> QED
    BY <2>2, <2>4 DEF AttemptsForced
<1>4. CASE c \in Writers /\ d # c
  <2>1. t = s
    BY <1>1, <1>2, <1>4 DEF Answered, Invoke, WriteInteraction, ReadChainHead, WriteActivity,
           WriteRelated, RejectRelated, WriteFailureRow, Become
  <2> QED
    BY <1>4, <2>1, ForcedKept
<1>5. CASE c \in Writers /\ Invoke(c)
  <2>1. /\ s.pc = "idle" /\ s.attempt = 0 /\ db' = db
        /\ t = begin_attempt(r, s)
    BY <1>1, <1>5 DEF Invoke, Become, CallTypeOK, Writers
  <2>2. Unwritten(c) /\ s.status # "failed" /\ Reached(k, s.attempt)
    BY <1>1, <2>1 DEF Unwritten, KeysFree, Reached
  <2> QED
    BY <1>1, <1>5, <2>1, <2>2, ForcedBegins
<1>6. CASE c \in Writers /\ WriteInteraction(c)
  <2>1. s.pc = "interaction" /\ is_written(outcome(statement(c)))
    BY <1>6, InteractionAnswered DEF WriteInteraction
  <2>2. t = [s EXCEPT !.pc = "chain_head"]
    BY <1>1, <1>6, <2>1 DEF WriteInteraction, Become, ActivityApis
  <2>3. t.pc = "chain_head" /\ t.attempt = s.attempt /\ t.status = s.status
    BY <1>1, <2>2 DEF CallTypeOK, IdleCall
  <2> QED
    BY <1>6, <2>3, ForcedKept
<1>7. CASE c \in Writers /\ ReadChainHead(c)
  <2> DEFINE head == get_activity_chain_head(k)
  <2>1. /\ s.pc = "chain_head" /\ t.pc = "activity" /\ t.head = head
        /\ t.attempt = s.attempt /\ t.status = s.status /\ db' = db
    BY <1>1, <1>7 DEF ReadChainHead, Become, CallTypeOK, IdleCall
  <2>2. /\ head.chain_seq \in Nat
        /\ \A x \in AllChained : x.chain_key = k => x.chain_seq <= head.chain_seq
    BY <1>1, HeadIsLast
  <2>3. s.attempt # 0 /\ s.attempt \in Nat
    BY <1>1, <2>1 DEF KeysFree, CallTypeOK
  <2>4. Reached(k, s.attempt - 1)
    BY <1>1, <2>3 DEF AttemptsForced
  <2>5. Reached(k, s.attempt - 1)'
    BY <1>1, <2>1, <2>4 DEF Reached, AllChained
  <2> HIDE DEF head, k
  <2>6. s.attempt - 1 <= head.chain_seq
    BY <2>2, <2>3, <2>4 DEF Reached
  <2>7. \A x \in AllChained' : x.key = r.activity_id => t.attempt <= x.chain_seq
    BY <1>7, <2>1, OwnRowAfter
  <2>8. s.status # "failed" /\ r.admissible
    BY <1>1, <1>7, <2>1 DEF KeysFree
  <2> QED
    BY <1>1, <2>1, <2>5, <2>6, <2>7, <2>8 DEF AttemptsForced, k
<1>8. CASE c \in Writers /\ WriteActivity(c)
  <2> DEFINE stmt == statement(c)
  <2>1. s.pc = "activity" /\ execute(stmt)
    BY <1>8 DEF WriteActivity
  <2>2. s.status # "failed" /\ s.attempt # 0 /\ s.attempt \in Nat /\ s.head.chain_seq \in Nat
    BY <1>1, <2>1 DEF KeysFree, CallTypeOK
  <2>3. CASE outcome(stmt) = "created"
    <3>1. t = after_related(r, s)
      BY <1>1, <1>8, <2>3 DEF WriteActivity, Become, is_written
    <3>2. /\ t.pc \in {"related", "done"} /\ t.attempt = s.attempt
          /\ t.status \in {s.status, "accepted"}
      BY <1>1, <3>1, PastWhatWasWritten
    <3> QED
      BY <1>8, <2>2, <3>2, ForcedKept
  <2>4. CASE /\ outcome(stmt) = "unique_violation"
             /\ Reached(k, s.head.chain_seq + 1)
    <3>1. t = after_failure(r, s, outcome(stmt)) /\ db' = db
      BY <1>1, <1>8, <2>1, <2>4 DEF WriteActivity, Become, is_written, execute
    <3>2. s.attempt - 1 <= s.head.chain_seq
      BY <1>1, <2>1 DEF AttemptsForced
    <3>3. Reached(k, s.attempt)
      <4>1. s.head.chain_seq + 1 \in Nat /\ s.attempt <= s.head.chain_seq + 1
        BY <2>2, <3>2
      <4> QED
        BY <1>1, <2>2, <2>4, <4>1, ReachedBefore
    <3>4. CASE attempts_left(s)
      <4>1. t = begin_attempt(r, s)
        BY <1>1, <3>1, <3>4 DEF after_failure
      <4>2. Unwritten(c)
        BY <2>1 DEF Unwritten
      <4> QED
        BY <1>1, <1>8, <2>2, <3>1, <3>3, <4>1, <4>2, ForcedBegins
    <3>5. CASE ~attempts_left(s)
      <4>1. s.attempt = MaxAttempts
        BY <1>1, <3>5, MaxAttemptsAssumption DEF attempts_left, CallTypeOK
      <4>2. t.pc = "visibility" /\ t.attempt = s.attempt
        BY <1>1, <3>1, <3>5 DEF after_failure, CallTypeOK, IdleCall
      <4>3. Reached(k, s.attempt - 1)' /\ Reached(k, MaxAttempts)'
        BY <1>1, <2>2, <3>1, <3>3, <4>1, <4>2 DEF AttemptsForced, Reached, AllChained
      <4>4. \A x \in AllChained' : x.key = r.activity_id => t.attempt <= x.chain_seq
        BY <1>8, <4>2, OwnRowAfter
      <4>5. r.admissible
        BY <1>8 DEF Writers
      <4> QED
        BY <1>1, <2>2, <4>2, <4>3, <4>4, <4>5 DEF AttemptsForced
    <3> QED
      BY <3>4, <3>5
  <2> QED
    BY <1>8, <2>1, <2>3, <2>4, ActivityAnswered
<1>9. CASE c \in Writers /\ WriteRelated(c)
  <2>1. s.pc = "related" /\ is_written(outcome(statement(c)))
    BY <1>9, ItemAnswered DEF WriteRelated
  <2>2. t = after_related(r, s)
    BY <1>1, <1>9, <2>1 DEF WriteRelated, Become
  <2>3. /\ t.pc \in {"related", "done"} /\ t.attempt = s.attempt
        /\ t.status \in {s.status, "accepted"}
    BY <1>1, <2>2, PastWhatWasWritten
  <2> QED
    BY <1>9, <2>3, ForcedKept
<1>10. ~(c \in Writers /\ RejectRelated(c))
  <2> SUFFICES ASSUME RejectRelated(c) PROVE FALSE
    OBVIOUS
  <2>1. s.pc = "related" /\ ~current_item(c).safe
    BY DEF RejectRelated
  <2>2. s.item \in DOMAIN r.related
    BY <1>1, <2>1 DEF CallTypeOK, IsRequest
  <2> QED
    BY <1>1, <2>1, <2>2 DEF Undisturbed, current_item, Races
<1>11. CASE c \in Writers /\ WriteFailureRow(c)
  <2>1. s.pc = "visibility" /\ t.pc = "done" /\ t.attempt = s.attempt
    BY <1>1, <1>11 DEF WriteFailureRow, Become, return, CallTypeOK, IdleCall
  <2>2. s.status = "failed"
    BY <1>1, <2>1 DEF KeysFree
  <2> QED
    BY <1>11, <2>1, <2>2, ForcedKept
<1> QED
  BY <1>2, <1>3, <1>4, <1>5, <1>6, <1>7, <1>8, <1>9, <1>10, <1>11 DEF Answered

LEMMA InitRaceInv == Init => RaceInv
<1> SUFFICES ASSUME Init, Undisturbed PROVE Apart
  BY InitDInv DEF RaceInv
<1>1. AllChained = {}
  BY LegacyAssumption DEF Init, InitSystemRecord, AllChained, plain_row, Tables
<1>2. /\ Activities = LegacyRows
      /\ \A t \in Tables : t # "activity_records" => db[t] = {}
      /\ \A c \in Calls : call[c] = IdleCall
  BY DEF Init, InitSystemRecord, Activities, Tables
<1>3. InteractionsAgree
  BY <1>2 DEF InteractionsAgree, Tables
<1>4. ASSUME NEW c \in Calls PROVE KeysFree(c) /\ AttemptsForced(c)
  <2>1. IsRequest(request[c])
    BY WorkloadAssumption DEF Init
  <2>2. \A i \in DOMAIN request[c].related : request[c].related[i].table \in RelatedTables
    BY <2>1 DEF IsRequest
  <2>3. \A t \in RelatedTables : db[t] = {}
    BY <1>2 DEF RelatedTables, Tables
  <2>4. c \in Writers => \A r \in Activities : r.key # request[c].activity_id
    BY <1>2 DEF Undisturbed
  <2>5. KeysFree(c)
    BY <1>2, <2>2, <2>3, <2>4 DEF KeysFree, IdleCall
  <2> QED
    BY <1>1, <1>2, <2>5 DEF AttemptsForced, IdleCall
<1> QED
  BY <1>3, <1>4, InitDInv DEF Apart

LEMMA NextRaceInv == RaceInv /\ [FaultFreeNext]_vars => RaceInv'
<1> SUFFICES ASSUME RaceInv, [FaultFreeNext]_vars PROVE RaceInv'
  OBVIOUS
<1>1. [Next]_vars
  BY DEF FaultFreeNext, Answered, Next
<1>2. DInv' /\ GrowsAtHead /\ DInv
  BY <1>1, NextDInv, NextIInv DEF RaceInv, DInv
<1>3. RowsStay /\ append_only' = append_only
  BY <1>2 DEF RowsStay, GrowsAtHead, FaultFreeNext, Answered, vars, Invoke, WriteInteraction,
         ReadChainHead, WriteActivity, WriteRelated, RejectRelated, WriteFailureRow
<1>4. Undisturbed' = Undisturbed /\ \A c : Races(c)' = Races(c)
  BY <1>3 DEF RowsStay, Undisturbed, Writers, related_keys, related_key, Races, Rewritable
<1>5. SUFFICES ASSUME Apart PROVE Apart'
  BY <1>2, <1>4 DEF RaceInv
<1>6. CASE FaultFreeNext
  <2>1. InteractionsAgree'
    BY <1>3, <1>5, <1>6, AgreeStays
  <2>2. \A c \in Calls : KeysFree(c)'
    BY <1>3, <1>5, <1>6, CallsGoForward, KeysStay
  <2>3. \A c \in Calls : Races(c) => AttemptsForced(c)'
    BY <1>3, <1>5, <1>6, ForcedStays
  <2> QED
    BY <1>2, <1>4, <1>5, <2>1, <2>2, <2>3 DEF Apart
<1>7. CASE UNCHANGED vars
  <2>1. InteractionsAgree'
    BY <1>5, <1>7 DEF Apart, InteractionsAgree, vars
  <2>2. ASSUME NEW c \in Calls PROVE KeysFree(c)'
    BY <1>5, <1>7 DEF Apart, KeysFree, Unwritten, ItemUnwritten, Writers, Activities,
           related_keys, related_key, vars
  <2>3. ASSUME NEW c \in Calls, Races(c) PROVE AttemptsForced(c)'
    BY <1>5, <1>7, <2>3 DEF Apart, AttemptsForced, Reached, AllChained, vars
  <2> QED
    BY <1>2, <1>4, <1>5, <2>1, <2>2, <2>3 DEF Apart
<1> QED
  BY <1>6, <1>7

\* Without losses, and when the calls write different things, each attempt of
\* record_activity is forced by a rival's commit on its chain: for any number of
\* writers, packages and attempts.
THEOREM RetriesCoverContention == FaultFreeSpec => []ContentionBound
<1>1. RaceInv => ContentionBound
  BY ApartIsBounded DEF RaceInv, ContentionBound
<1> QED
  BY <1>1, InitRaceInv, NextRaceInv, PTL DEF FaultFreeSpec
=============================================================================
