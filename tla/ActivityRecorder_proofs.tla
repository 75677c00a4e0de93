----------------------- MODULE ActivityRecorder_proofs ------------------------
(***************************************************************************)
(* Theorems about ActivityRecorder, for any number of calls, any workload, *)
(* any number of attempts and any legacy rows.                             *)
(*                                                                         *)
(* The inductive invariant IInv says of the database that the chains are   *)
(* well formed (DbInv), and of every head a call holds and every statement *)
(* nobody waits for that it still names a committed row: rows are never    *)
(* changed or removed, so what was read once stays true.                   *)
(***************************************************************************)
EXTENDS ActivityRecorder, FiniteSetTheorems, TLAPS

Activities == db["activity_records"]

DbTypeOK ==
    /\ DOMAIN db = Tables
    /\ \A t \in Tables : \A r \in db[t] :
          StatementTypeOK([table |-> t, row |-> r])

KeysUnique == \A r, s \in Activities : r.key = s.key => r = s

PlacesUnique ==
    \A r, s \in AllChained :
        r.chain_key = s.chain_key /\ r.chain_seq = s.chain_seq => r = s

Linked == \A r \in AllChained : FollowsCommittedRow(r)

\* Every position up to that of a committed row is taken.
Contiguous ==
    \A r \in AllChained : \A n \in Nat :
        1 <= n /\ n <= r.chain_seq =>
            \E p \in AllChained : p.chain_key = r.chain_key /\ p.chain_seq = n

\* Every chain has a last row.
HasLast ==
    \A r \in AllChained : \E t \in AllChained :
        /\ t.chain_key = r.chain_key
        /\ \A s \in AllChained :
              s.chain_key = r.chain_key => s.chain_seq <= t.chain_seq

\* Every unchained row was there before the chains.
UnchainedIsLegacy ==
    /\ LegacyRows \subseteq Activities
    /\ \A r \in Activities : r.chain_seq = 0 => r \in LegacyRows

DbInv ==
    /\ DbTypeOK
    /\ KeysUnique
    /\ PlacesUnique
    /\ Linked
    /\ Contiguous
    /\ HasLast
    /\ UnchainedIsLegacy

\* A head some call holds is a committed row of chain k, or no row.
HeadCommitted(k, head) ==
    IF head.chain_seq = 0
    THEN head.record_hash = None
    ELSE \E p \in AllChained : /\ p.chain_key = k
                               /\ p.chain_seq = head.chain_seq
                               /\ p.record_hash = head.record_hash

\* What a statement must satisfy to be executed at any later time.
StatementInv(stmt) ==
    /\ StatementTypeOK(stmt)
    /\ stmt.table = "activity_records" =>
          stmt.row.chain_seq # 0 /\ FollowsCommittedRow(stmt.row)

HeadsCommitted ==
    \A c \in Calls : HeadCommitted(chain_key(request[c]), call[c].head)

IInv ==
    /\ TypeOK
    /\ DbInv
    /\ HeadsCommitted
    /\ \A stmt \in orphans : StatementInv(stmt)

-----------------------------------------------------------------------------
(***************************************************************************)
(* The local state of a call.                                              *)
(***************************************************************************)
LEMMA BeginAttemptType ==
    ASSUME NEW r, IsRequest(r), NEW s, CallTypeOK(r, s), s.attempt < MaxAttempts
    PROVE  CallTypeOK(r, begin_attempt(r, s)) /\ begin_attempt(r, s).head = NoHead
<1> DEFINE t == begin_attempt(r, s)
<1>1. DOMAIN s = {"pc", "attempt", "item", "head", "status", "error", "phase",
                  "failure_visible"}
  BY DEF CallTypeOK, IdleCall
<1>2. /\ DOMAIN t = DOMAIN s
      /\ t.pc = first_step(r)
      /\ t.attempt = s.attempt + 1
      /\ t.item = IF r.api = "record_related" THEN 1 ELSE 0
      /\ t.head = NoHead
      /\ t.status = s.status
      /\ t.phase = s.phase
      /\ t.failure_visible = s.failure_visible
  BY <1>1 DEF begin_attempt
<1>3. /\ first_step(r) \in Steps
      /\ first_step(r) # "idle"
      /\ first_step(r) = "related" => r.api = "record_related"
  BY DEF first_step, Steps, IsRequest, Apis, ActivityApis
<1>4. t.attempt \in 0 .. MaxAttempts
  BY <1>2, MaxAttemptsAssumption DEF CallTypeOK
<1>5. t.item \in 0 .. package_size(r)
  BY <1>2 DEF IsRequest
<1> QED
  BY <1>2, <1>3, <1>4, <1>5 DEF CallTypeOK, NoHead

LEMMA ReturnType ==
    ASSUME NEW r, NEW s, CallTypeOK(r, s), NEW status \in Statuses
    PROVE  CallTypeOK(r, return(s, status)) /\ return(s, status).head = s.head
<1> DEFINE t == return(s, status)
<1>1. DOMAIN s = {"pc", "attempt", "item", "head", "status", "error", "phase",
                  "failure_visible"}
  BY DEF CallTypeOK, IdleCall
<1>2. /\ DOMAIN t = DOMAIN s
      /\ t.pc = "done" /\ t.status = status
      /\ t.attempt = s.attempt /\ t.item = s.item /\ t.head = s.head
      /\ t.phase = s.phase /\ t.failure_visible = s.failure_visible
  BY <1>1 DEF return
<1> QED
  BY <1>2 DEF CallTypeOK, Steps

LEMMA MoveType ==
    ASSUME NEW r, NEW s, CallTypeOK(r, s), NEW pc \in Steps \ {"idle", "related"}, NEW t,
           \/ t = [s EXCEPT !.pc = pc]
           \/ \E head : /\ head.chain_seq \in Nat
                        /\ t = [s EXCEPT !.pc = pc, !.head = head]
    PROVE  CallTypeOK(r, t)
<1>1. DOMAIN s = {"pc", "attempt", "item", "head", "status", "error", "phase",
                  "failure_visible"}
  BY DEF CallTypeOK, IdleCall
<1>2. /\ DOMAIN t = DOMAIN s
      /\ t.pc = pc /\ t.status = s.status
      /\ t.attempt = s.attempt /\ t.item = s.item /\ t.head.chain_seq \in Nat
      /\ t.phase = s.phase /\ t.failure_visible = s.failure_visible
  BY <1>1 DEF CallTypeOK
<1> QED
  BY <1>2 DEF CallTypeOK, Steps

\* A field no proof about control looks at, and the failure row's fate.
LEMMA MarkType ==
    ASSUME NEW r, NEW s, CallTypeOK(r, s), NEW t,
           \/ \E error : t = [s EXCEPT !.error = error]
           \/ \E b \in BOOLEAN : t = [s EXCEPT !.failure_visible = b]
    PROVE  CallTypeOK(r, t) /\ t.head = s.head
<1>1. DOMAIN s = {"pc", "attempt", "item", "head", "status", "error", "phase",
                  "failure_visible"}
  BY DEF CallTypeOK, IdleCall
<1>2. /\ DOMAIN t = DOMAIN s
      /\ t.pc = s.pc /\ t.status = s.status
      /\ t.attempt = s.attempt /\ t.item = s.item /\ t.head = s.head
      /\ t.phase = s.phase /\ t.failure_visible \in BOOLEAN
  BY <1>1 DEF CallTypeOK
<1> QED
  BY <1>2 DEF CallTypeOK

LEMMA AfterRelatedType ==
    ASSUME NEW r, IsRequest(r), NEW s, CallTypeOK(r, s)
    PROVE  /\ CallTypeOK(r, after_related(r, s))
           /\ after_related(r, s).head = NoHead
<1> DEFINE t == [s EXCEPT !.pc = "related", !.item = @ + 1, !.head = NoHead]
           u == [s EXCEPT !.head = NoHead]
<1>1. DOMAIN s = {"pc", "attempt", "item", "head", "status", "error", "phase",
                  "failure_visible"}
  BY DEF CallTypeOK, IdleCall
<1>2. CASE s.item < package_size(r)
  <2>1. /\ DOMAIN t = DOMAIN s
        /\ t.pc = "related" /\ t.status = s.status
        /\ t.attempt = s.attempt /\ t.item = s.item + 1 /\ t.head = NoHead
        /\ t.phase = s.phase /\ t.failure_visible = s.failure_visible
    BY <1>1
  <2>2. t.item \in 0 .. package_size(r) /\ t.item # 0
    BY <1>2, <2>1 DEF IsRequest, CallTypeOK
  <2>3. CallTypeOK(r, t)
    BY <2>1, <2>2 DEF CallTypeOK, Steps, NoHead
  <2> QED
    BY <1>2, <2>1, <2>3 DEF after_related
<1>3. CASE ~ s.item < package_size(r)
  <2>1. /\ DOMAIN u = DOMAIN s
        /\ u.pc = s.pc /\ u.status = s.status
        /\ u.attempt = s.attempt /\ u.item = s.item /\ u.head = NoHead
        /\ u.phase = s.phase /\ u.failure_visible = s.failure_visible
    BY <1>1
  <2>2. CallTypeOK(r, u)
    BY <2>1 DEF CallTypeOK, NoHead
  <2>3. "accepted" \in Statuses
    BY DEF Statuses
  <2>4. /\ CallTypeOK(r, return(u, "accepted"))
        /\ return(u, "accepted").head = u.head
    BY <2>2, <2>3, ReturnType
  <2> QED
    BY <1>3, <2>1, <2>4 DEF after_related
<1> QED
  BY <1>2, <1>3

LEMMA AfterFailureType ==
    ASSUME NEW r, IsRequest(r), NEW s, CallTypeOK(r, s), NEW error
    PROVE  /\ CallTypeOK(r, after_failure(r, s, error))
           /\ after_failure(r, s, error).head = NoHead
<1> DEFINE t == [s EXCEPT !.error = error, !.head = NoHead]
           u == [t EXCEPT !.pc     = "visibility",
                          !.status = "failed",
                          !.phase  = failure_phase(r, s, error)]
<1>1. DOMAIN s = {"pc", "attempt", "item", "head", "status", "error", "phase",
                  "failure_visible"}
  BY DEF CallTypeOK, IdleCall
<1>2. /\ DOMAIN t = DOMAIN s
      /\ t.pc = s.pc /\ t.status = s.status
      /\ t.attempt = s.attempt /\ t.item = s.item /\ t.head = NoHead
      /\ t.phase = s.phase /\ t.failure_visible = s.failure_visible
  BY <1>1
<1>3. CallTypeOK(r, t)
  BY <1>2 DEF CallTypeOK, NoHead
<1>4. CASE r.api \notin RetryingApis
  <2>1. "raised" \in Statuses
    BY DEF Statuses
  <2>2. CallTypeOK(r, return(t, "raised")) /\ return(t, "raised").head = t.head
    BY <1>3, <2>1, ReturnType
  <2> QED
    BY <1>2, <1>4, <2>2 DEF after_failure
<1>5. CASE r.api \in RetryingApis /\ attempts_left(s)
  <2>1. CallTypeOK(r, begin_attempt(r, s)) /\ begin_attempt(r, s).head = NoHead
    BY <1>5, BeginAttemptType DEF attempts_left
  <2> QED
    BY <1>5, <2>1 DEF after_failure
<1>6. CASE r.api \in RetryingApis /\ ~attempts_left(s)
  <2>1. /\ DOMAIN u = DOMAIN s
        /\ u.pc = "visibility" /\ u.status = "failed"
        /\ u.attempt = s.attempt /\ u.item = s.item /\ u.head = NoHead
        /\ u.phase = failure_phase(r, s, error)
        /\ u.failure_visible = s.failure_visible
    BY <1>1, <1>2
  <2>2. failure_phase(r, s, error) \in Phases
    BY DEF failure_phase, Phases
  <2>3. CallTypeOK(r, u)
    BY <2>1, <2>2 DEF CallTypeOK, Steps, Statuses, NoHead
  <2> QED
    BY <1>6, <2>1, <2>3 DEF after_failure
<1> QED
  BY <1>4, <1>5, <1>6

-----------------------------------------------------------------------------
(***************************************************************************)
(* The database.                                                           *)
(***************************************************************************)
\* The head that is read is a committed row, and the last one of its chain.
LEMMA HeadIsLast ==
    ASSUME DbInv, NEW k
    PROVE  LET head == get_activity_chain_head(k)
           IN  /\ head.chain_seq \in Nat
               /\ HeadCommitted(k, head)
               /\ \A r \in AllChained : r.chain_key = k => r.chain_seq <= head.chain_seq
<1>1. chained_rows(k) = {r \in AllChained : r.chain_key = k}
  BY DEF chained_rows, AllChained
<1>2. CASE chained_rows(k) = {}
  BY <1>1, <1>2 DEF get_activity_chain_head, NoHead, HeadCommitted
<1>3. CASE chained_rows(k) # {}
  <2>1. \E r \in chained_rows(k) : \A s \in chained_rows(k) : s.chain_seq <= r.chain_seq
    BY <1>1, <1>3 DEF DbInv, HasLast
  <2> DEFINE top == chain_head_row(k)
  <2>2. /\ top \in chained_rows(k)
        /\ \A s \in chained_rows(k) : s.chain_seq <= top.chain_seq
    BY <2>1 DEF chain_head_row
  <2>3. top \in AllChained /\ top.chain_key = k
    BY <1>1, <2>2
  <2>4. top.chain_seq \in Nat /\ top.chain_seq # 0
    BY <2>3 DEF AllChained, DbInv, DbTypeOK, StatementTypeOK, Tables
  <2>5. /\ get_activity_chain_head(k).chain_seq = top.chain_seq
        /\ get_activity_chain_head(k).record_hash = top.record_hash
    BY <1>3 DEF get_activity_chain_head
  <2> HIDE DEF top
  <2> QED
    BY <1>1, <2>2, <2>3, <2>4, <2>5 DEF HeadCommitted
<1> QED
  BY <1>2, <1>3

\* Committed rows stay, so what a row, a head or a statement follows stays.
LEMMA FollowsStays ==
    ASSUME NEW r, FollowsCommittedRow(r), AllChained \subseteq AllChained'
    PROVE  FollowsCommittedRow(r)'
  BY DEF FollowsCommittedRow

LEMMA StatementStays ==
    ASSUME NEW stmt, StatementInv(stmt), AllChained \subseteq AllChained'
    PROVE  StatementInv(stmt)'
  BY FollowsStays DEF StatementInv, StatementTypeOK

\* Statements on the other tables leave the chains alone.
LEMMA OtherTables ==
    ASSUME DbInv, DbTypeOK', Activities' = Activities
    PROVE  DbInv' /\ AllChained' = AllChained
<1>1. AllChained' = AllChained
  BY DEF AllChained, Activities
<1>2. KeysUnique' /\ UnchainedIsLegacy'
  BY DEF DbInv, KeysUnique, UnchainedIsLegacy
<1>3. PlacesUnique' /\ Contiguous' /\ HasLast'
  BY <1>1 DEF DbInv, PlacesUnique, Contiguous, HasLast
<1>4. Linked'
  BY <1>1, FollowsStays DEF DbInv, Linked
<1> QED
  BY <1>1, <1>2, <1>3, <1>4 DEF DbInv

LEMMA ExecuteType ==
    ASSUME DbTypeOK, NEW stmt, StatementTypeOK(stmt), execute(stmt)
    PROVE  /\ DbTypeOK'
           /\ \A t \in Tables : db[t] \subseteq db'[t]
           /\ outcome(stmt) # "created" => db' = db
           /\ outcome(stmt) = "created" =>
                 \A t \in Tables :
                    db'[t] = IF t = stmt.table THEN db[t] \cup {stmt.row} ELSE db[t]
<1>1. CASE outcome(stmt) # "created"
  BY <1>1 DEF execute, DbTypeOK, StatementTypeOK
<1>2. CASE outcome(stmt) = "created"
  <2>1. db' = [db EXCEPT ![stmt.table] = @ \cup {stmt.row}]
    BY <1>2 DEF execute
  <2>2. /\ DOMAIN db' = Tables
        /\ \A t \in Tables :
              db'[t] = IF t = stmt.table THEN db[t] \cup {stmt.row} ELSE db[t]
    BY <2>1 DEF DbTypeOK
  <2>3. DbTypeOK'
    BY <2>2 DEF DbTypeOK, StatementTypeOK
  <2> QED
    BY <1>2, <2>2, <2>3
<1> QED
  BY <1>1, <1>2

\* A statement that is answered with success is in its table.
LEMMA WrittenIsInTable ==
    ASSUME DbTypeOK, NEW stmt, StatementTypeOK(stmt), execute(stmt), is_written(outcome(stmt))
    PROVE  InTable(stmt.table, stmt.row)'
<1>1. stmt.table \in Tables
  BY DEF StatementTypeOK
<1>2. CASE outcome(stmt) = "created"
  BY <1>1, <1>2, ExecuteType DEF InTable
<1>3. CASE outcome(stmt) = "unchanged"
  <2>1. same_row(stmt) /\ db' = db
    BY <1>3 DEF outcome, execute
  <2> QED
    BY <2>1 DEF same_row, InTable
<1> QED
  BY <1>2, <1>3 DEF is_written

\* The chains stay well formed whatever statement is executed, now or late,
\* as long as the row it follows is committed.
LEMMA ExecuteStep ==
    ASSUME DbInv, NEW stmt, StatementInv(stmt), execute(stmt)
    PROVE  DbInv' /\ AllChained \subseteq AllChained' /\ GrowsAtHead
<1> DEFINE row == stmt.row
<1>1. /\ DbTypeOK'
      /\ \A t \in Tables : db[t] \subseteq db'[t]
      /\ outcome(stmt) # "created" => db' = db
      /\ outcome(stmt) = "created" =>
            \A t \in Tables :
               db'[t] = IF t = stmt.table THEN db[t] \cup {row} ELSE db[t]
  BY ExecuteType DEF DbInv, StatementInv
<1>2. "activity_records" \in Tables
  BY DEF Tables
<1>3. CASE outcome(stmt) # "created" \/ stmt.table # "activity_records"
  <2>1. Activities' = Activities
    BY <1>1, <1>2, <1>3 DEF Activities
  <2>2. DbInv' /\ AllChained' = AllChained
    BY <1>1, <2>1, OtherTables
  <2>3. GrowsAtHead
    BY <1>1, <2>1 DEF GrowsAtHead, Activities
  <2> QED
    BY <2>2, <2>3
<1>4. CASE outcome(stmt) = "created" /\ stmt.table = "activity_records"
  <2>1. /\ Activities' = Activities \cup {row}
        /\ row.chain_seq \in Nat /\ row.chain_seq # 0
        /\ FollowsCommittedRow(row)
    BY <1>1, <1>2, <1>4 DEF Activities, StatementInv, StatementTypeOK
  <2>2. /\ \A r \in Activities : r.key # row.key
        /\ \A r \in Activities : ~(r.chain_key = row.chain_key /\ r.chain_seq = row.chain_seq)
    BY <1>4, <2>1 DEF outcome, key_taken, chain_seq_taken, Activities
  <2>3. AllChained' = AllChained \cup {row} /\ AllChained \subseteq Activities
    BY <2>1 DEF AllChained, Activities
  <2>4. \A r \in AllChained : r.chain_seq \in Nat /\ r.chain_seq # 0
    BY <1>2 DEF AllChained, DbInv, DbTypeOK, StatementTypeOK
  <2>5. \A r \in AllChained : r.chain_key = row.chain_key => r.chain_seq < row.chain_seq
    <3> SUFFICES ASSUME NEW r \in AllChained, r.chain_key = row.chain_key,
                        r.chain_seq >= row.chain_seq
                 PROVE  FALSE
      BY <2>1, <2>4
    <3>1. \E p \in AllChained : p.chain_key = r.chain_key /\ p.chain_seq = row.chain_seq
      BY <2>1, <2>4 DEF DbInv, Contiguous
    <3> QED
      BY <2>2, <2>3, <3>1
  <2>6. KeysUnique' /\ UnchainedIsLegacy'
    BY <2>1, <2>2 DEF DbInv, KeysUnique, UnchainedIsLegacy
  <2>7. PlacesUnique'
    BY <2>2, <2>3 DEF DbInv, PlacesUnique
  <2>8. Linked'
    BY <2>1, <2>3, FollowsStays DEF DbInv, Linked
  <2>9. Contiguous'
    <3> SUFFICES ASSUME NEW r \in AllChained', NEW n \in Nat, 1 <= n, n <= r.chain_seq
                 PROVE  \E p \in AllChained' :
                           p.chain_key = r.chain_key /\ p.chain_seq = n
      BY DEF Contiguous
    <3>1. CASE r \in AllChained
      BY <2>3, <3>1 DEF DbInv, Contiguous
    <3>2. CASE r = row /\ n = row.chain_seq
      BY <2>3, <3>2
    <3>3. CASE r = row /\ n # row.chain_seq
      <4>1. row.chain_seq # 1 /\ n <= row.chain_seq - 1
        BY <2>1, <3>3
      <4>2. PICK q \in AllChained : q.chain_key = row.chain_key /\ q.chain_seq = row.chain_seq - 1
        BY <2>1, <4>1 DEF FollowsCommittedRow
      <4> QED
        BY <2>3, <3>3, <4>1, <4>2 DEF DbInv, Contiguous
    <3> QED
      BY <2>3, <3>1, <3>2, <3>3
  <2>10. HasLast'
    <3> SUFFICES ASSUME NEW r \in AllChained'
                 PROVE  \E t \in AllChained' :
                           /\ t.chain_key = r.chain_key
                           /\ \A s \in AllChained' :
                                 s.chain_key = r.chain_key => s.chain_seq <= t.chain_seq
      BY DEF HasLast
    <3>1. CASE r.chain_key = row.chain_key
      <4>1. \A s \in AllChained' : s.chain_key = row.chain_key => s.chain_seq <= row.chain_seq
        BY <2>1, <2>3, <2>4, <2>5
      <4> QED
        BY <2>3, <3>1, <4>1
    <3>2. CASE r.chain_key # row.chain_key
      BY <2>3, <3>2 DEF DbInv, HasLast
    <3> QED
      BY <3>1, <3>2
  <2>11. row.chain_seq = get_activity_chain_head(row.chain_key).chain_seq + 1
         /\ row.prev_record_hash = get_activity_chain_head(row.chain_key).record_hash
    <3> DEFINE head == get_activity_chain_head(row.chain_key)
    <3>1. /\ head.chain_seq \in Nat
          /\ HeadCommitted(row.chain_key, head)
          /\ \A r \in AllChained : r.chain_key = row.chain_key => r.chain_seq <= head.chain_seq
      BY HeadIsLast
    <3> SUFFICES row.chain_seq = head.chain_seq + 1 /\ row.prev_record_hash = head.record_hash
      OBVIOUS
    <3> HIDE DEF head
    <3>2. CASE head.chain_seq = 0
      <4>1. row.chain_seq = 1
        BY <2>1, <2>4, <3>1, <3>2 DEF FollowsCommittedRow
      <4> QED
        BY <2>1, <3>1, <3>2, <4>1 DEF FollowsCommittedRow, HeadCommitted
    <3>3. CASE head.chain_seq # 0
      <4>1. PICK q \in AllChained : /\ q.chain_key = row.chain_key
                                    /\ q.chain_seq = head.chain_seq
                                    /\ q.record_hash = head.record_hash
        BY <3>1, <3>3 DEF HeadCommitted
      <4>2. row.chain_seq # 1 /\ head.chain_seq < row.chain_seq
        BY <2>1, <2>4, <2>5, <3>1, <3>3, <4>1
      <4>3. PICK p \in AllChained : /\ p.chain_key = row.chain_key
                                    /\ p.chain_seq = row.chain_seq - 1
                                    /\ p.record_hash = row.prev_record_hash
        BY <2>1, <4>2 DEF FollowsCommittedRow
      <4>4. p.chain_seq = q.chain_seq
        BY <2>1, <3>1, <4>1, <4>2, <4>3
      <4>5. p = q
        BY <4>1, <4>3, <4>4 DEF DbInv, PlacesUnique
      <4> QED
        BY <2>1, <3>1, <4>1, <4>3, <4>4, <4>5
    <3> QED
      BY <3>2, <3>3
  <2>12. GrowsAtHead
    BY <1>1, <2>1, <2>11 DEF GrowsAtHead, Activities
  <2> QED
    BY <1>1, <2>3, <2>6, <2>7, <2>8, <2>9, <2>10, <2>12 DEF DbInv
<1> QED
  BY <1>3, <1>4

-----------------------------------------------------------------------------
(***************************************************************************)
(* Steps.                                                                  *)
(***************************************************************************)
LEMMA RequestsAreTyped ==
    ASSUME TypeOK, NEW c \in Calls
    PROVE  IsRequest(request[c]) /\ CallTypeOK(request[c], call[c])
  BY WorkloadAssumption DEF TypeOK

Sending == {"interaction", "activity", "related", "visibility"}

\* The local state a call may move to.
NextCall(c, s) ==
    /\ CallTypeOK(request[c], s)
    /\ s.head \in {NoHead, call[c].head, get_activity_chain_head(chain_key(request[c]))}

\* A call moves: its statement is executed, or the database is left alone and
\* its statement may be left behind.
MovesTo(c, s) ==
    /\ NextCall(c, s)
    /\ Become(c, s)
    /\ UNCHANGED <<append_only, request>>
    /\ \/ /\ call[c].pc \in Sending
          /\ execute(statement(c))
          /\ UNCHANGED orphans
       \/ /\ UNCHANGED db
          /\ \A stmt \in orphans' :
                \/ stmt \in orphans
                \/ stmt = statement(c) /\ call[c].pc \in Sending

\* No call moves.
DatabaseMoves ==
    \/ /\ \E stmt \in orphans : execute(stmt)
       /\ orphans' \subseteq orphans
       /\ UNCHANGED <<append_only, request, call>>
    \/ append_only' \in BOOLEAN /\ UNCHANGED <<db, request, call, orphans>>

HeadsTyped == \A k : get_activity_chain_head(k).chain_seq \in Nat

\* The forms a step can have.
LEMMA StepForms ==
    ASSUME TypeOK, HeadsTyped, [Next]_vars
    PROVE  (\E c \in Calls : \E s : MovesTo(c, s)) \/ DatabaseMoves
<1>1. ASSUME NEW c \in Calls PROVE /\ IsRequest(request[c])
                                   /\ CallTypeOK(request[c], call[c])
  BY RequestsAreTyped
<1>2. ASSUME NEW c \in Calls, Invoke(c) PROVE \E s : MovesTo(c, s)
  <2> DEFINE t == [call[c] EXCEPT !.error = "inadmissible"]
             s == IF request[c].admissible
                  THEN begin_attempt(request[c], call[c]) ELSE return(t, "raised")
  <2>1. Become(c, s) /\ UNCHANGED <<db, append_only, request, orphans>>
    BY <1>2 DEF Invoke
  <2>2. CallTypeOK(request[c], begin_attempt(request[c], call[c]))
        /\ begin_attempt(request[c], call[c]).head = NoHead
    <3>1. call[c].attempt < MaxAttempts
      BY <1>1, <1>2, MaxAttemptsAssumption DEF Invoke, CallTypeOK
    <3> QED
      BY <1>1, <3>1, BeginAttemptType
  <2>3. CallTypeOK(request[c], return(t, "raised"))
        /\ return(t, "raised").head = call[c].head
    <3>1. CallTypeOK(request[c], t) /\ t.head = call[c].head
      BY <1>1, MarkType
    <3>2. "raised" \in Statuses
      BY DEF Statuses
    <3> HIDE DEF t
    <3> QED
      BY <3>1, <3>2, ReturnType
  <2>4. NextCall(c, s)
    BY <1>1, <2>2, <2>3 DEF NextCall
  <2> HIDE DEF s
  <2> QED
    BY <2>1, <2>4 DEF MovesTo
<1>3. ASSUME NEW c \in Calls, WriteInteraction(c) PROVE \E s : MovesTo(c, s)
  <2> DEFINE answer == outcome(statement(c))
             s == IF ~is_written(answer)
                  THEN after_failure(request[c], call[c], answer)
                  ELSE IF request[c].api = "record_interaction"
                  THEN return(call[c], "accepted")
                  ELSE [call[c] EXCEPT !.pc = "chain_head"]
  <2>1. /\ execute(statement(c)) /\ Become(c, s)
        /\ UNCHANGED <<append_only, request, orphans>>
    BY <1>3 DEF WriteInteraction
  <2>3. ASSUME ~is_written(answer) PROVE NextCall(c, s)
    BY <1>1, <2>3, AfterFailureType DEF NextCall
  <2>4. ASSUME is_written(answer), request[c].api = "record_interaction"
        PROVE  NextCall(c, s)
    <3>1. "accepted" \in Statuses
      BY DEF Statuses
    <3> QED
      BY <1>1, <2>4, <3>1, ReturnType DEF NextCall
  <2>5. ASSUME is_written(answer), request[c].api # "record_interaction"
        PROVE  NextCall(c, s)
    <3>1. s = [call[c] EXCEPT !.pc = "chain_head"]
      BY <2>5
    <3> HIDE DEF s
    <3>2. "chain_head" \in Steps \ {"idle", "related"}
      BY DEF Steps
    <3>3. CallTypeOK(request[c], s)
      BY <1>1, <3>1, <3>2, MoveType
    <3>4. s.head = call[c].head
      BY <1>1, <3>1 DEF CallTypeOK, IdleCall
    <3> QED
      BY <1>1, <3>3, <3>4 DEF NextCall
  <2>6. NextCall(c, s)
    BY <2>3, <2>4, <2>5
  <2> HIDE DEF s, answer
  <2> QED
    BY <1>3, <2>1, <2>6 DEF MovesTo, Sending, WriteInteraction
<1>4. ASSUME NEW c \in Calls, ReadChainHead(c) PROVE \E s : MovesTo(c, s)
  <2> DEFINE head == get_activity_chain_head(chain_key(request[c]))
             s == [call[c] EXCEPT !.pc = "activity", !.head = head]
  <2>1. Become(c, s) /\ UNCHANGED <<db, append_only, request, orphans>>
    BY <1>4 DEF ReadChainHead
  <2>2. head.chain_seq \in Nat
    BY DEF HeadsTyped
  <2>3. "activity" \in Steps \ {"idle", "related"}
    BY DEF Steps
  <2> HIDE DEF head
  <2>4. s = [call[c] EXCEPT !.pc = "activity", !.head = head]
    OBVIOUS
  <2> HIDE DEF s
  <2>5. CallTypeOK(request[c], s)
    <3>1. \E h : h.chain_seq \in Nat /\ s = [call[c] EXCEPT !.pc = "activity", !.head = h]
      BY <2>2, <2>4
    <3> QED
      BY <1>1, <2>3, <3>1, MoveType
  <2>6. s.head = head
    BY <1>1, <2>4 DEF CallTypeOK, IdleCall
  <2>7. NextCall(c, s)
    BY <2>5, <2>6 DEF NextCall, head
  <2> QED
    BY <2>1, <2>7 DEF MovesTo
<1>5. ASSUME NEW c \in Calls, WriteActivity(c) \/ WriteRelated(c)
      PROVE  \E s : MovesTo(c, s)
  <2> DEFINE answer == outcome(statement(c))
             s == IF is_written(answer)
                  THEN after_related(request[c], call[c])
                  ELSE after_failure(request[c], call[c], answer)
  <2>1. /\ execute(statement(c)) /\ Become(c, s)
        /\ UNCHANGED <<append_only, request, orphans>>
    BY <1>5 DEF WriteActivity, WriteRelated
  <2>3. NextCall(c, s)
    BY <1>1, AfterRelatedType, AfterFailureType DEF NextCall
  <2> HIDE DEF s, answer
  <2> QED
    BY <1>5, <2>1, <2>3 DEF MovesTo, Sending, WriteActivity, WriteRelated
<1>6. ASSUME NEW c \in Calls, RejectRelated(c) PROVE \E s : MovesTo(c, s)
  <2> DEFINE s == after_failure(request[c], call[c], "invalid_item")
  <2>1. Become(c, s) /\ UNCHANGED <<db, append_only, request, orphans>>
    BY <1>6 DEF RejectRelated
  <2>2. NextCall(c, s)
    BY <1>1, AfterFailureType DEF NextCall
  <2> HIDE DEF s
  <2> QED
    BY <2>1, <2>2 DEF MovesTo
<1>7. ASSUME NEW c \in Calls, WriteFailureRow(c) PROVE \E s : MovesTo(c, s)
  <2> DEFINE b == is_written(outcome(statement(c)))
             t == return(call[c], "failed")
             s == [t EXCEPT !.failure_visible = b]
  <2>1. /\ execute(statement(c)) /\ Become(c, s)
        /\ UNCHANGED <<append_only, request, orphans>>
    BY <1>7 DEF WriteFailureRow
  <2>3. "failed" \in Statuses /\ b \in BOOLEAN
    BY DEF Statuses, is_written
  <2>4. CallTypeOK(request[c], t) /\ t.head = call[c].head
    BY <1>1, <2>3, ReturnType
  <2> HIDE DEF t, b
  <2>5. s = [t EXCEPT !.failure_visible = b]
    OBVIOUS
  <2> HIDE DEF s
  <2>6. CallTypeOK(request[c], s) /\ s.head = t.head
    BY <2>3, <2>4, <2>5, MarkType
  <2>7. NextCall(c, s)
    BY <1>1, <2>4, <2>6 DEF NextCall
  <2> QED
    BY <1>7, <2>1, <2>7 DEF MovesTo, Sending, WriteFailureRow
<1>8. ASSUME NEW c \in Calls, Lose(c) PROVE \E s : MovesTo(c, s)
  <2> DEFINE s == IF call[c].pc = "visibility"
                  THEN return(call[c], "failed")
                  ELSE after_failure(request[c], call[c], "lost")
  <2>1. /\ Become(c, s) /\ UNCHANGED <<db, append_only, request>>
        /\ orphans' = IF call[c].pc = "chain_head" THEN orphans
                      ELSE orphans \cup {statement(c)}
    BY <1>8 DEF Lose
  <2>3. "failed" \in Statuses
    BY DEF Statuses
  <2>4. NextCall(c, s)
    BY <1>1, <2>3, ReturnType, AfterFailureType DEF NextCall
  <2> HIDE DEF s
  <2> QED
    BY <1>8, <2>1, <2>4 DEF MovesTo, Sending, Lose
<1>9. ASSUME NEW stmt \in orphans, ExecuteOrphan(stmt) PROVE DatabaseMoves
  BY <1>9 DEF ExecuteOrphan, DatabaseMoves
<1>10. ASSUME Migrate PROVE DatabaseMoves
  BY <1>10 DEF Migrate, InstallAppendOnly, DatabaseMoves
<1>11. ASSUME UNCHANGED vars PROVE DatabaseMoves
  BY <1>11 DEF vars, TypeOK, DatabaseMoves
<1> QED
  BY <1>2, <1>3, <1>4, <1>5, <1>6, <1>7, <1>8, <1>9, <1>10, <1>11 DEF Next

LEMMA StatementOfCall ==
    ASSUME IInv, NEW c \in Calls,
           call[c].pc \in {"interaction", "activity", "related", "visibility"}
    PROVE  StatementInv(statement(c))
<1> DEFINE r == request[c]
           s == call[c]
<1>1. IsRequest(r) /\ CallTypeOK(r, s)
  BY RequestsAreTyped DEF IInv
<1>2. CASE s.pc = "interaction"
  BY <1>2 DEF statement, interaction_row, plain_row, StatementInv, StatementTypeOK, Tables
<1>3. CASE s.pc = "visibility"
  BY <1>3 DEF statement, failure_row, plain_row, StatementInv, StatementTypeOK, Tables
<1>4. CASE s.pc = "related"
  <2>1. s.item \in 1 .. package_size(r)
    BY <1>1, <1>4 DEF CallTypeOK, IsRequest
  <2>2. r.related[s.item].table \in RelatedTables
    BY <1>1, <2>1 DEF IsRequest
  <2>3. statement(c) = [table |-> r.related[s.item].table, row |-> related_row(c, r, s, s.item)]
    BY <1>4 DEF statement
  <2>4. related_row(c, r, s, s.item).chain_seq = 0
    BY DEF related_row, plain_row
  <2> QED
    BY <2>2, <2>3, <2>4 DEF StatementInv, StatementTypeOK, Tables, RelatedTables
<1>5. CASE s.pc = "activity"
  <2> DEFINE row == chain_activity_record(r, s.head)
  <2>1. statement(c) = [table |-> "activity_records", row |-> row]
    BY <1>5 DEF statement
  <2>2. /\ row.chain_key = chain_key(r)
        /\ row.chain_seq = s.head.chain_seq + 1
        /\ row.prev_record_hash = s.head.record_hash
    BY DEF chain_activity_record
  <2>3. s.head.chain_seq \in Nat /\ HeadCommitted(chain_key(r), s.head)
    BY <1>1 DEF CallTypeOK, IInv, HeadsCommitted
  <2> HIDE DEF row
  <2>4. row.chain_seq \in Nat /\ row.chain_seq # 0 /\ FollowsCommittedRow(row)
    BY <2>2, <2>3 DEF HeadCommitted, FollowsCommittedRow
  <2> QED
    BY <2>1, <2>4 DEF StatementInv, StatementTypeOK, Tables
<1> QED
  BY <1>2, <1>3, <1>4, <1>5

\* One call moves and the database executes nothing.
LEMMA CallMoves ==
    ASSUME IInv, NEW c \in Calls, NEW s, CallTypeOK(request[c], s), Become(c, s),
           s.head = NoHead \/ HeadCommitted(chain_key(request[c]), s.head),
           \A stmt \in orphans' : stmt \in orphans \/ StatementInv(stmt),
           UNCHANGED <<db, append_only, request>>
    PROVE  IInv'
<1>1. /\ DOMAIN call' = Calls
      /\ \A d \in Calls : call'[d] = IF d = c THEN s ELSE call[d]
  BY DEF IInv, TypeOK, Become
<1>2. AllChained' = AllChained /\ Activities' = Activities
  BY DEF AllChained, Activities
<1>3. \A d \in Calls : CallTypeOK(request[d], call[d])'
  BY <1>1 DEF IInv, TypeOK, CallTypeOK
<1>4. \A stmt \in orphans' : StatementInv(stmt)'
  BY <1>2, StatementStays DEF IInv
<1>5. TypeOK'
  BY <1>1, <1>3, <1>4 DEF IInv, TypeOK, StatementTypeOK, StatementInv
<1>6. DbInv'
  BY <1>2, OtherTables DEF IInv, DbInv, DbTypeOK, StatementTypeOK
<1>7. HeadsCommitted'
  BY <1>1, <1>2 DEF IInv, HeadsCommitted, HeadCommitted, NoHead
<1> QED
  BY <1>4, <1>5, <1>6, <1>7 DEF IInv

\* One call moves as the database executes its statement.
LEMMA CallWrites ==
    ASSUME IInv, NEW c \in Calls, NEW s, CallTypeOK(request[c], s), Become(c, s),
           s.head = NoHead \/ HeadCommitted(chain_key(request[c]), s.head),
           NEW stmt, StatementInv(stmt), execute(stmt),
           UNCHANGED <<append_only, request, orphans>>
    PROVE  IInv' /\ GrowsAtHead
<1>1. /\ DOMAIN call' = Calls
      /\ \A d \in Calls : call'[d] = IF d = c THEN s ELSE call[d]
  BY DEF IInv, TypeOK, Become
<1>2. DbInv' /\ AllChained \subseteq AllChained' /\ GrowsAtHead
  BY ExecuteStep DEF IInv
<1>3. \A d \in Calls : CallTypeOK(request[d], call[d])'
  BY <1>1 DEF IInv, TypeOK, CallTypeOK
<1>4. \A o \in orphans' : StatementInv(o)'
  BY <1>2, StatementStays DEF IInv
<1>5. TypeOK'
  BY <1>1, <1>2, <1>3, <1>4
  DEF IInv, TypeOK, StatementInv, StatementTypeOK, DbInv, DbTypeOK
<1>6. HeadsCommitted'
  BY <1>1, <1>2 DEF IInv, HeadsCommitted, HeadCommitted, NoHead
<1> QED
  BY <1>2, <1>4, <1>5, <1>6 DEF IInv

\* The database executes a statement nobody waits for.
LEMMA OrphanWrites ==
    ASSUME IInv, NEW stmt, StatementInv(stmt), execute(stmt),
           orphans' \subseteq orphans, UNCHANGED <<append_only, request, call>>
    PROVE  IInv' /\ GrowsAtHead
<1>1. DbInv' /\ AllChained \subseteq AllChained' /\ GrowsAtHead
  BY ExecuteStep DEF IInv
<1>2. \A o \in orphans' : StatementInv(o)'
  BY <1>1, StatementStays DEF IInv
<1>3. TypeOK'
  BY <1>1, <1>2
  DEF IInv, TypeOK, CallTypeOK, StatementInv, StatementTypeOK, DbInv, DbTypeOK
<1>4. HeadsCommitted'
  BY <1>1 DEF IInv, HeadsCommitted, HeadCommitted
<1> QED
  BY <1>1, <1>2, <1>3, <1>4 DEF IInv

LEMMA InitIInv == Init => IInv
<1> SUFFICES ASSUME Init PROVE IInv
  OBVIOUS
<1>1. /\ db = [t \in Tables |-> IF t = "activity_records" THEN LegacyRows ELSE {}]
      /\ Activities = LegacyRows
  BY DEF Init, InitSystemRecord, Activities, Tables
<1>2. \A r \in LegacyRows : r.chain_seq = 0
  BY LegacyAssumption DEF plain_row
<1>3. DbTypeOK
  BY <1>1, <1>2 DEF DbTypeOK, StatementTypeOK
<1>4. AllChained = {}
  BY <1>1, <1>2 DEF AllChained, Activities
<1>5. DbInv
  BY <1>1, <1>3, <1>4, LegacyAssumption
  DEF DbInv, KeysUnique, PlacesUnique, Linked, Contiguous, HasLast, UnchainedIsLegacy
<1>6. ASSUME NEW c \in Calls PROVE CallTypeOK(request[c], call[c])
  <2>1. call[c] = IdleCall /\ IsRequest(request[c])
    BY WorkloadAssumption DEF Init
  <2> QED
    BY <2>1, MaxAttemptsAssumption
    DEF CallTypeOK, IdleCall, Steps, Statuses, Phases, NoHead, IsRequest
<1>7. TypeOK
  BY <1>3, <1>6 DEF TypeOK, DbTypeOK, Init, InitSystemRecord
<1>8. HeadsCommitted
  BY DEF HeadsCommitted, HeadCommitted, Init, IdleCall, NoHead
<1> QED
  BY <1>5, <1>7, <1>8 DEF IInv, Init

\* Every step keeps the invariant and the chains' growth at their heads.
LEMMA NextIInv == IInv /\ [Next]_vars => IInv' /\ GrowsAtHead
<1> SUFFICES ASSUME IInv, [Next]_vars PROVE IInv' /\ GrowsAtHead
  OBVIOUS
<1>1. ASSUME UNCHANGED db PROVE GrowsAtHead
  BY <1>1 DEF GrowsAtHead
<1>2. ASSUME NEW c \in Calls, NEW s, MovesTo(c, s) PROVE IInv' /\ GrowsAtHead
  <2>1. /\ CallTypeOK(request[c], s) /\ Become(c, s)
        /\ UNCHANGED <<append_only, request>>
        /\ s.head = NoHead \/ HeadCommitted(chain_key(request[c]), s.head)
    BY <1>2, HeadIsLast DEF MovesTo, NextCall, IInv, HeadsCommitted
  <2>2. call[c].pc \in Sending => StatementInv(statement(c))
    BY StatementOfCall DEF Sending
  <2>3. CASE call[c].pc \in Sending /\ execute(statement(c)) /\ UNCHANGED orphans
    BY <2>1, <2>2, <2>3, CallWrites
  <2>4. CASE /\ UNCHANGED db
             /\ \A stmt \in orphans' :
                   stmt \in orphans \/ (stmt = statement(c) /\ call[c].pc \in Sending)
    BY <1>1, <2>1, <2>2, <2>4, CallMoves
  <2> QED
    BY <1>2, <2>3, <2>4 DEF MovesTo
<1>3. ASSUME NEW stmt \in orphans, execute(stmt), orphans' \subseteq orphans,
             UNCHANGED <<append_only, request, call>>
      PROVE  IInv' /\ GrowsAtHead
  BY <1>3, OrphanWrites DEF IInv
<1>4. ASSUME UNCHANGED <<db, request, call, orphans>>, append_only' \in BOOLEAN
      PROVE  IInv' /\ GrowsAtHead
  <2>1. AllChained' = AllChained /\ Activities' = Activities
    BY <1>4 DEF AllChained, Activities
  <2>2. DbInv'
    BY <1>4, <2>1, OtherTables DEF IInv, DbInv, DbTypeOK, StatementTypeOK
  <2>3. TypeOK'
    BY <1>4 DEF IInv, TypeOK, CallTypeOK, StatementTypeOK
  <2>4. HeadsCommitted'
    BY <1>4, <2>1 DEF IInv, HeadsCommitted, HeadCommitted
  <2>5. \A o \in orphans' : StatementInv(o)'
    BY <1>4, <2>1, StatementStays DEF IInv
  <2> QED
    BY <1>1, <1>4, <2>2, <2>3, <2>4, <2>5 DEF IInv
<1>5. HeadsTyped
  BY HeadIsLast DEF IInv, HeadsTyped
<1> QED
  BY <1>2, <1>3, <1>4, <1>5, StepForms DEF IInv, DatabaseMoves

-----------------------------------------------------------------------------
(***************************************************************************)
(* ORDER BY chain_seq.                                                     *)
(***************************************************************************)
\* Rows of one chain: each has a place, and no two share one.
Placed(rows) ==
    /\ IsFiniteSet(rows)
    /\ \A r \in rows : r.chain_seq \in Nat
    /\ \A r, s \in rows : r.chain_seq = s.chain_seq => r = s

UpTo(rows, r) == {s \in rows : s.chain_seq <= r.chain_seq}

rank_of(rows) == [r \in rows |-> Cardinality(UpTo(rows, r))]

\* A row of a finite set has a rank of its own, and every rank is taken.
LEMMA RankBijective ==
    ASSUME NEW rows, Placed(rows)
    PROVE  /\ Cardinality(rows) \in Nat
           /\ rank_of(rows) \in Bijection(rows, 1 .. Cardinality(rows))
<1> DEFINE N == Cardinality(rows)
           rank == rank_of(rows)
<1>1. N \in Nat
  BY FS_CardinalityType DEF Placed
<1>2. ASSUME NEW r \in rows
      PROVE  /\ UpTo(rows, r) \in SUBSET rows /\ IsFiniteSet(UpTo(rows, r))
             /\ Cardinality(UpTo(rows, r)) \in 1 .. N
  <2>1. UpTo(rows, r) \in SUBSET rows
    BY DEF UpTo
  <2>2. IsFiniteSet(UpTo(rows, r)) /\ Cardinality(UpTo(rows, r)) <= N
    BY <2>1, FS_Subset DEF Placed
  <2>3. r \in UpTo(rows, r)
    BY DEF UpTo, Placed
  <2>4. Cardinality(UpTo(rows, r)) \in Nat /\ Cardinality(UpTo(rows, r)) # 0
    BY <2>2, <2>3, FS_CardinalityType, FS_EmptySet
  <2> QED
    BY <1>1, <2>1, <2>2, <2>4
<1>3. ASSUME NEW r \in rows, NEW s \in rows, r.chain_seq < s.chain_seq
      PROVE  rank[r] # rank[s]
  <2>1. UpTo(rows, r) \in SUBSET UpTo(rows, s)
    BY <1>3 DEF UpTo, Placed
  <2>2. s \in UpTo(rows, s) /\ s \notin UpTo(rows, r)
    BY <1>3 DEF UpTo, Placed
  <2>3. Cardinality(UpTo(rows, r)) # Cardinality(UpTo(rows, s))
    BY <1>2, <2>1, <2>2, FS_Subset
  <2> QED
    BY <2>3 DEF rank_of
<1>4. rank \in [rows -> 1 .. N]
  BY <1>2 DEF rank_of
<1>5. IsInjective(rank)
  <2> SUFFICES ASSUME NEW r \in rows, NEW s \in rows, rank[r] = rank[s] PROVE r = s
    BY <1>4 DEF IsInjective
  <2>1. ~(r.chain_seq < s.chain_seq) /\ ~(s.chain_seq < r.chain_seq)
    BY <1>3
  <2> QED
    BY <2>1 DEF Placed
<1>6. rank \in Injection(rows, 1 .. N)
  BY <1>4, <1>5 DEF Injection
<1>7. IsFiniteSet(1 .. N) /\ Cardinality(1 .. N) = N
  BY <1>1, FS_Interval
<1>8. rank \in Surjection(rows, 1 .. N)
  BY <1>6, <1>7, FS_Injection
<1> QED
  BY <1>1, <1>6, <1>8 DEF Bijection

\* ORDER BY lists every row of the set once, each at its rank.
LEMMA InChainOrder ==
    ASSUME NEW rows, Placed(rows), NEW o, o = in_chain_order(rows)
    PROVE  /\ Cardinality(rows) \in Nat
           /\ DOMAIN o = 1 .. Cardinality(rows)
           /\ \A i \in 1 .. Cardinality(rows) :
                 o[i] \in rows /\ Cardinality(UpTo(rows, o[i])) = i
           /\ \A r \in rows : \E i \in 1 .. Cardinality(rows) : o[i] = r
<1> DEFINE N == Cardinality(rows)
           rank == rank_of(rows)
<1>1. N \in Nat /\ rank \in Bijection(rows, 1 .. N)
  BY RankBijective
<1>2. o = [i \in 1 .. N |-> CHOOSE r \in rows : Cardinality(UpTo(rows, r)) = i]
  BY DEF in_chain_order, UpTo
<1>3. /\ \A i \in 1 .. N : \E r \in rows : Cardinality(UpTo(rows, r)) = i
      /\ \A r \in rows : Cardinality(UpTo(rows, r)) \in 1 .. N
      /\ \A r, s \in rows :
            Cardinality(UpTo(rows, r)) = Cardinality(UpTo(rows, s)) => r = s
  BY <1>1 DEF Bijection, Injection, Surjection, IsInjective, rank_of
<1>4. \A i \in 1 .. N : o[i] \in rows /\ Cardinality(UpTo(rows, o[i])) = i
  BY <1>2, <1>3
<1>5. ASSUME NEW r \in rows PROVE \E i \in 1 .. N : o[i] = r
  BY <1>3, <1>4
<1> QED
  BY <1>1, <1>2, <1>4, <1>5

\* A finite set of rows has a last one.
LEMMA LastRow ==
    ASSUME NEW rows, Placed(rows), rows # {}
    PROVE  \E t \in rows : \A s \in rows : s.chain_seq <= t.chain_seq
<1> DEFINE N == Cardinality(rows)
<1>1. PICK o : o = in_chain_order(rows)
  OBVIOUS
<1>2. N \in Nat /\ N # 0
  BY InChainOrder, <1>1, FS_EmptySet DEF Placed
<1>3. o[N] \in rows /\ Cardinality(UpTo(rows, o[N])) = N
  BY <1>1, <1>2, InChainOrder
<1>4. UpTo(rows, o[N]) \in SUBSET rows
  BY DEF UpTo
<1>5. UpTo(rows, o[N]) = rows
  BY <1>3, <1>4, FS_Subset DEF Placed
<1> QED
  BY <1>3, <1>5 DEF UpTo

\* Without gaps, a row's rank is its chain_seq.
LEMMA GaplessOrder ==
    ASSUME NEW rows, Placed(rows),
           \A r \in rows : r.chain_seq # 0,
           \A r \in rows : \A n \in Nat :
              1 <= n /\ n <= r.chain_seq => \E p \in rows : p.chain_seq = n,
           NEW o, o = in_chain_order(rows), NEW i \in DOMAIN o
    PROVE  o[i].chain_seq = i
<1>1. o[i] \in rows /\ Cardinality(UpTo(rows, o[i])) = i
  BY InChainOrder
<1> DEFINE n == o[i].chain_seq
           below == UpTo(rows, o[i])
           place == [r \in below |-> r.chain_seq]
<1>2. n \in Nat
  BY <1>1 DEF Placed
<1>3. below \in SUBSET rows /\ IsFiniteSet(below)
  <2>1. below \in SUBSET rows
    BY DEF UpTo
  <2> QED
    BY <2>1, FS_Subset DEF Placed
<1>4. \A r \in below : r.chain_seq \in 1 .. n
  BY <1>2, <1>3 DEF UpTo, Placed
<1>5. \A m \in 1 .. n : \E r \in below : r.chain_seq = m
  BY <1>1, <1>2 DEF UpTo, Placed
<1>6. \A r, s \in below : r.chain_seq = s.chain_seq => r = s
  BY <1>3 DEF Placed
<1>7. place \in Bijection(below, 1 .. n)
  <2>1. place \in [below -> 1 .. n]
    BY <1>4
  <2>2. IsInjective(place)
    BY <1>6 DEF IsInjective
  <2>3. \A m \in 1 .. n : \E r \in below : place[r] = m
    BY <1>5
  <2> QED
    BY <2>1, <2>2, <2>3 DEF Bijection, Injection, Surjection
<1>8. Cardinality(1 .. n) = Cardinality(below)
  BY <1>3, <1>7, FS_Bijection DEF ExistsBijection
<1>9. Cardinality(1 .. n) = n
  BY <1>2, FS_Interval
<1> QED
  BY <1>1, <1>8, <1>9

\* ... and a first one.
LEMMA FirstRow ==
    ASSUME NEW rows, Placed(rows), rows # {}
    PROVE  \E t \in rows : \A s \in rows : t.chain_seq <= s.chain_seq
<1>1. PICK o : o = in_chain_order(rows)
  OBVIOUS
<1>2. Cardinality(rows) \in Nat /\ Cardinality(rows) # 0
  BY InChainOrder, <1>1, FS_EmptySet DEF Placed
<1>3. o[1] \in rows /\ Cardinality(UpTo(rows, o[1])) = 1
  BY <1>1, <1>2, InChainOrder
<1>4. IsFiniteSet(UpTo(rows, o[1]))
  <2>1. UpTo(rows, o[1]) \in SUBSET rows
    BY DEF UpTo
  <2> QED
    BY <2>1, FS_Subset DEF Placed
<1>5. PICK r : UpTo(rows, o[1]) = {r}
  BY <1>3, <1>4, FS_Singleton
<1>6. o[1] \in UpTo(rows, o[1])
  BY <1>3 DEF UpTo, Placed
<1>7. \A s \in rows : s.chain_seq <= o[1].chain_seq => s = o[1]
  BY <1>5, <1>6 DEF UpTo
<1> QED
  BY <1>3, <1>7 DEF Placed

-----------------------------------------------------------------------------
(***************************************************************************)
(* The verifier.                                                           *)
(***************************************************************************)
\* The row holds what chain_activity_record computes of its own columns, for
\* some text of its occurred_at.
WellHashed(row) ==
    LET key  == chain_key_for_project(row.compare.project_id)
        text == row.record_hash.payload.utc_offset
    IN  row = [key              |-> row.key,
               compare          |-> row.compare,
               refs             |-> IF row.compare.interaction_id # None
                                    THEN {<<"interaction_records", row.compare.interaction_id>>}
                                    ELSE {},
               chain_key        |-> key,
               chain_seq        |-> row.chain_seq,
               prev_record_hash |-> row.prev_record_hash,
               record_hash      |->
                  compute_activity_record_hash(
                      canonical_payload(row.key, row.compare, text),
                      key, row.chain_seq, row.prev_record_hash)]

\* rows are the rows 1, 2, ..., n of chain k, each linked to the one before.
ChainPrefix(rows, k, n) ==
    /\ n \in Nat /\ DOMAIN rows = 1 .. n
    /\ \A i \in 1 .. n : /\ WellHashed(rows[i])
                          /\ rows[i].chain_key = k
                          /\ rows[i].chain_seq = i
                          /\ rows[i].prev_record_hash = prev_hash(rows, i)

LEMMA HashDeterminesRow ==
    ASSUME NEW r, NEW s, WellHashed(r), WellHashed(s), r.record_hash = s.record_hash
    PROVE  r = s
<1>1. /\ r.record_hash.payload = s.record_hash.payload
      /\ r.record_hash.prev_record_hash = s.record_hash.prev_record_hash
      /\ r.record_hash.chain_seq = s.record_hash.chain_seq
  OBVIOUS
<1>2. /\ r.key = s.key /\ r.compare = s.compare /\ r.chain_seq = s.chain_seq
      /\ r.prev_record_hash = s.prev_record_hash
  BY <1>1 DEF WellHashed, compute_activity_record_hash, canonical_payload
<1> QED
  BY <1>2 DEF WellHashed

\* In a whole prefix of a chain the walk objects to nothing but a text of
\* occurred_at that reads back differently.
LEMMA FaultOfPrefix ==
    ASSUME NEW rows, NEW k, NEW n, ChainPrefix(rows, k, n), NEW i \in 1 .. n
    PROVE  row_fault(rows, k, i) =
              IF rows[i].record_hash.payload.utc_offset = 0 THEN "none" ELSE "hash_mismatch"
<1>1. /\ WellHashed(rows[i]) /\ rows[i].chain_key = k /\ rows[i].chain_seq = i
      /\ rows[i].prev_record_hash = prev_hash(rows, i)
  BY DEF ChainPrefix
<1> DEFINE row == rows[i]
           text == row.record_hash.payload.utc_offset
<1>2. row.record_hash = compute_activity_record_hash(
                            canonical_payload(row.key, row.compare, text),
                            k, i, row.prev_record_hash)
  BY <1>1 DEF WellHashed
<1>3. recomputed(rows, k, i) = compute_activity_record_hash(
                                   canonical_payload(row.key, row.compare, 0),
                                   k, i, row.prev_record_hash)
  BY <1>1 DEF recomputed, payload_read_back
<1>4. recomputed(rows, k, i) = row.record_hash <=> text = 0
  <2>1. ASSUME recomputed(rows, k, i) = row.record_hash PROVE text = 0
    <3>1. recomputed(rows, k, i).payload.utc_offset = 0
      BY <1>3 DEF compute_activity_record_hash, canonical_payload
    <3> QED
      BY <2>1, <3>1
  <2>2. ASSUME text = 0 PROVE recomputed(rows, k, i) = row.record_hash
    BY <1>2, <1>3, <2>2
  <2> QED
    BY <2>1, <2>2
<1> QED
  BY <1>1, <1>4 DEF row_fault

NotUtc(rows) == {i \in DOMAIN rows : rows[i].record_hash.payload.utc_offset # 0}

LEMMA VerdictOfPrefix ==
    ASSUME NEW rows, NEW k, NEW n, ChainPrefix(rows, k, n)
    PROVE  LET answer == verify_activity_chain_rows(rows, k)
           IN  /\ answer.valid <=> NotUtc(rows) = {}
               /\ ~answer.valid =>
                     /\ answer.reason = "hash_mismatch"
                     /\ answer.broken_at_seq \in NotUtc(rows)
                     /\ \A i \in NotUtc(rows) : answer.broken_at_seq <= i
<1>1. faulty_rows(rows, k) = NotUtc(rows)
  BY FaultOfPrefix DEF faulty_rows, NotUtc, ChainPrefix
<1>2. CASE NotUtc(rows) = {}
  BY <1>1, <1>2 DEF verify_activity_chain_rows
<1>3. CASE NotUtc(rows) # {}
  <2> DEFINE bad == NotUtc(rows)
             first == CHOOSE i \in bad : \A j \in bad : i <= j
             marked == {[chain_seq |-> i] : i \in bad}
  <2>1. bad \subseteq 1 .. n /\ n \in Nat
    BY DEF NotUtc, ChainPrefix
  <2>2. Placed(marked)
    <3>1. IsFiniteSet(bad)
      BY <2>1, FS_Interval, FS_Subset
    <3>2. [i \in bad |-> [chain_seq |-> i]] \in Surjection(bad, marked)
      BY DEF Surjection
    <3>3. IsFiniteSet(marked)
      BY <3>1, <3>2, FS_Surjection
    <3> QED
      BY <2>1, <3>3 DEF Placed
  <2>3. \E i \in bad : \A j \in bad : i <= j
    <3>1. marked # {}
      BY <1>3
    <3>2. PICK t \in marked : \A s \in marked : t.chain_seq <= s.chain_seq
      BY <2>2, <3>1, FirstRow
    <3>3. PICK i \in bad : t = [chain_seq |-> i]
      OBVIOUS
    <3>4. ASSUME NEW j \in bad PROVE i <= j
      <4>1. [chain_seq |-> j] \in marked
        OBVIOUS
      <4>2. t.chain_seq <= [chain_seq |-> j].chain_seq
        BY <3>2, <4>1
      <4> QED
        BY <3>3, <4>2
    <3> QED
      BY <3>4
  <2>4. first \in bad /\ \A j \in bad : first <= j
    BY <2>3
  <2>5. rows[first].chain_seq = first /\ row_fault(rows, k, first) = "hash_mismatch"
    <3>1. first \in 1 .. n
      BY <2>1, <2>4
    <3>2. rows[first].record_hash.payload.utc_offset # 0
      BY <2>4 DEF NotUtc
    <3> HIDE DEF first
    <3> QED
      BY <3>1, <3>2, FaultOfPrefix DEF ChainPrefix
  <2>6. verify_activity_chain_rows(rows, k) =
           [valid |-> FALSE, records_checked |-> first - 1,
            broken_at_seq |-> rows[first].chain_seq, reason |-> row_fault(rows, k, first)]
    BY <1>1, <1>3 DEF verify_activity_chain_rows
  <2> HIDE DEF first
  <2> QED
    BY <1>3, <2>4, <2>5, <2>6
<1> QED
  BY <1>2, <1>3

\* A chain that is well formed and well hashed is read as such a prefix.
LEMMA ChainOfDatabase ==
    ASSUME DbInv, IsFiniteSet(AllChained), \A r \in AllChained : WellHashed(r), NEW k
    PROVE  /\ ChainPrefix(select_chain(k), k, Cardinality(chained_rows(k)))
           /\ \A r \in chained_rows(k) : \E i \in 1 .. Cardinality(chained_rows(k)) :
                 select_chain(k)[i] = r
           /\ \A i \in 1 .. Cardinality(chained_rows(k)) :
                 select_chain(k)[i] \in chained_rows(k)
<1> DEFINE rows == chained_rows(k)
           N == Cardinality(rows)
<1>1. rows = {r \in AllChained : r.chain_key = k}
  BY DEF chained_rows, AllChained
<1>2. Placed(rows)
  <2>1. rows \in SUBSET AllChained
    BY <1>1
  <2>2. IsFiniteSet(rows)
    BY <2>1, FS_Subset
  <2>3. \A r \in AllChained : r.chain_seq \in Nat
    BY DEF AllChained, DbInv, DbTypeOK, StatementTypeOK, Tables
  <2> QED
    BY <1>1, <2>2, <2>3 DEF Placed, DbInv, PlacesUnique
<1>3. /\ \A r \in rows : r.chain_seq # 0
      /\ \A r \in rows : \A m \in Nat :
            1 <= m /\ m <= r.chain_seq => \E p \in rows : p.chain_seq = m
  BY <1>1 DEF DbInv, Contiguous, AllChained
<1>4. PICK o : o = select_chain(k) /\ o = in_chain_order(rows)
  BY DEF select_chain
<1>5. /\ N \in Nat /\ DOMAIN o = 1 .. N
      /\ \A i \in 1 .. N : o[i] \in rows
      /\ \A r \in rows : \E i \in 1 .. N : o[i] = r
  BY <1>2, <1>4, InChainOrder
<1>6. \A i \in 1 .. N : o[i].chain_seq = i
  BY <1>2, <1>3, <1>4, <1>5, GaplessOrder
<1>7. ASSUME NEW i \in 1 .. N PROVE o[i].prev_record_hash = prev_hash(o, i)
  <2>1. o[i] \in AllChained /\ o[i].chain_key = k /\ FollowsCommittedRow(o[i])
    BY <1>1, <1>5, <1>7 DEF DbInv, Linked
  <2>2. CASE i = 1
    BY <1>6, <2>1, <2>2 DEF FollowsCommittedRow, prev_hash
  <2>3. CASE i # 1
    <3>1. PICK p \in AllChained : /\ p.chain_key = k /\ p.chain_seq = i - 1
                                  /\ p.record_hash = o[i].prev_record_hash
      BY <1>6, <2>1, <2>3 DEF FollowsCommittedRow
    <3>2. i - 1 \in 1 .. N /\ o[i - 1] \in AllChained /\ o[i - 1].chain_key = k
          /\ o[i - 1].chain_seq = i - 1
      BY <1>1, <1>5, <1>6, <2>3
    <3>3. p = o[i - 1]
      BY <3>1, <3>2 DEF DbInv, PlacesUnique
    <3> QED
      BY <2>3, <3>1, <3>3 DEF prev_hash
  <2> QED
    BY <2>2, <2>3
<1> QED
  BY <1>1, <1>4, <1>5, <1>6, <1>7 DEF ChainPrefix

-----------------------------------------------------------------------------
(***************************************************************************)
(* Every committed row is well hashed.                                     *)
(***************************************************************************)
RowHashed(stmt) == stmt.table = "activity_records" => WellHashed(stmt.row)

HashInv ==
    /\ IsFiniteSet(AllChained)
    /\ \A r \in AllChained : WellHashed(r)
    /\ \A stmt \in orphans : RowHashed(stmt)

\* The statement of a call, whatever the database holds.
LEMMA StatementHashed ==
    ASSUME TypeOK, NEW c \in Calls, call[c].pc \in Sending
    PROVE  StatementTypeOK(statement(c)) /\ RowHashed(statement(c))
<1> DEFINE r == request[c]
           s == call[c]
<1>1. IsRequest(r) /\ CallTypeOK(r, s)
  BY RequestsAreTyped
<1>2. CASE s.pc = "interaction"
  BY <1>2 DEF statement, interaction_row, plain_row, StatementTypeOK, Tables, RowHashed
<1>3. CASE s.pc = "visibility"
  BY <1>3 DEF statement, failure_row, plain_row, StatementTypeOK, Tables, RowHashed
<1>4. CASE s.pc = "related"
  <2>1. s.item \in 1 .. package_size(r)
    BY <1>1, <1>4 DEF CallTypeOK, IsRequest
  <2>2. r.related[s.item].table \in RelatedTables
    BY <1>1, <2>1 DEF IsRequest
  <2>3. statement(c) = [table |-> r.related[s.item].table, row |-> related_row(c, r, s, s.item)]
    BY <1>4 DEF statement
  <2>4. related_row(c, r, s, s.item).chain_seq = 0
    BY DEF related_row, plain_row
  <2> QED
    BY <2>2, <2>3, <2>4 DEF StatementTypeOK, Tables, RelatedTables, RowHashed
<1>5. CASE s.pc = "activity"
  <2> DEFINE row == chain_activity_record(r, s.head)
  <2>1. statement(c) = [table |-> "activity_records", row |-> row]
    BY <1>5 DEF statement
  <2>2. row.chain_seq = s.head.chain_seq + 1 /\ s.head.chain_seq \in Nat
    BY <1>1 DEF chain_activity_record, CallTypeOK
  <2>3. /\ row.compare.project_id = r.interaction.project_id
        /\ row.compare.interaction_id = r.interaction.id
        /\ row.record_hash.payload.utc_offset = r.utc_offset
    BY DEF chain_activity_record, activity_fields, compute_activity_record_hash,
           canonical_payload
  <2>4. WellHashed(row)
    BY <2>3 DEF WellHashed, chain_activity_record, activity_refs, has_interaction,
                chain_key
  <2> HIDE DEF row
  <2> QED
    BY <2>1, <2>2, <2>4 DEF StatementTypeOK, Tables, RowHashed
<1> QED
  BY <1>2, <1>3, <1>4, <1>5 DEF Sending

LEMMA ExecuteHashed ==
    ASSUME DbTypeOK, HashInv, NEW stmt, StatementTypeOK(stmt), RowHashed(stmt), execute(stmt)
    PROVE  IsFiniteSet(AllChained)' /\ \A r \in AllChained' : WellHashed(r)
<1>1. /\ outcome(stmt) # "created" => db' = db
      /\ outcome(stmt) = "created" =>
            \A t \in Tables :
               db'[t] = IF t = stmt.table THEN db[t] \cup {stmt.row} ELSE db[t]
  BY ExecuteType
<1>2. \/ AllChained' = AllChained
      \/ AllChained' = AllChained \cup {stmt.row} /\ stmt.table = "activity_records"
  BY <1>1 DEF AllChained, Tables
<1>3. IsFiniteSet(AllChained')
  BY <1>2, FS_AddElement DEF HashInv
<1> QED
  BY <1>2, <1>3 DEF HashInv, RowHashed

LEMMA NextHashInv ==
    ASSUME TypeOK, HeadsTyped, HashInv, [Next]_vars
    PROVE  HashInv'
<1> DbTypeOK
  BY DEF TypeOK, DbTypeOK
<1>1. ASSUME UNCHANGED db
      PROVE  IsFiniteSet(AllChained)' /\ \A r \in AllChained' : WellHashed(r)
  BY <1>1 DEF HashInv, AllChained
<1>2. ASSUME NEW c \in Calls, NEW s, MovesTo(c, s) PROVE HashInv'
  <2>1. call[c].pc \in Sending => StatementTypeOK(statement(c)) /\ RowHashed(statement(c))
    BY StatementHashed
  <2>2. IsFiniteSet(AllChained)' /\ \A r \in AllChained' : WellHashed(r)
    BY <1>1, <1>2, <2>1, ExecuteHashed DEF MovesTo
  <2>3. \A stmt \in orphans' : RowHashed(stmt)
    BY <1>2, <2>1 DEF MovesTo, HashInv
  <2> QED
    BY <2>2, <2>3 DEF HashInv, RowHashed, WellHashed
<1>3. ASSUME DatabaseMoves PROVE HashInv'
  <2>1. IsFiniteSet(AllChained)' /\ \A r \in AllChained' : WellHashed(r)
    BY <1>1, <1>3, ExecuteHashed DEF DatabaseMoves, HashInv, TypeOK
  <2>2. \A stmt \in orphans' : RowHashed(stmt)
    BY <1>3 DEF DatabaseMoves, HashInv
  <2> QED
    BY <2>1, <2>2 DEF HashInv, RowHashed, WellHashed
<1> QED
  BY <1>2, <1>3, StepForms

LEMMA InitHashInv == Init => HashInv
<1> SUFFICES ASSUME Init PROVE HashInv
  OBVIOUS
<1>1. AllChained = {}
  BY LegacyAssumption DEF Init, InitSystemRecord, AllChained, plain_row, Tables
<1> QED
  BY <1>1, FS_EmptySet DEF Init, HashInv

-----------------------------------------------------------------------------
(***************************************************************************)
(* Theorems.                                                               *)
(***************************************************************************)
THEOREM Invariance == Spec => []IInv
  BY InitIInv, NextIInv, PTL DEF Spec

\* Every variable keeps its shape: the attempts of a call stay within
\* max_attempts and its items within its package.
THEOREM TypeCorrect == Spec => []TypeOK
<1>1. IInv => TypeOK
  BY DEF IInv
<1> QED
  BY <1>1, Invariance, PTL

\* The chains of activity_records have no gap, no fork, no second row of an
\* activity and no broken link, for any number of concurrent, retrying, lost
\* and late writers.
THEOREM ChainsIntact == Spec => []ChainIntact
<1>1. IInv => ChainIntact
  BY DEF IInv, DbInv, KeysUnique, PlacesUnique, Linked, ChainIntact, Activities
<1> QED
  BY <1>1, Invariance, PTL

\* No step changes or removes a committed row, and an activity row is always
\* committed at the end of its chain.
THEOREM ChainsGrowAtHead == Spec => ChainGrowsAtHead
<1>1. IInv /\ [Next]_vars => [GrowsAtHead]_vars
  BY NextIInv
<1> QED
  BY <1>1, Invariance, PTL DEF Spec, ChainGrowsAtHead

\* verify_activity_chain agrees with what was hashed, for chains of any length
\* and any number of live writers: it calls a chain valid exactly when every
\* row was hashed with a UTC occurred_at, and otherwise names the first other.
THEOREM VerifierIsRight == Spec => []VerifierAgrees
<1>1. Init => IInv /\ HashInv
  BY InitIInv, InitHashInv
<1>2. (IInv /\ HashInv) /\ [Next]_vars => (IInv /\ HashInv)'
  <2>1. IInv => TypeOK /\ HeadsTyped
    BY HeadIsLast DEF IInv, HeadsTyped
  <2> QED
    BY <2>1, NextIInv, NextHashInv
<1>3. IInv /\ HashInv => VerifierAgrees
  <2> SUFFICES ASSUME IInv, HashInv, NEW k PROVE
         LET rows   == select_chain(k)
             answer == verify_activity_chain_rows(rows, k)
         IN  /\ answer.valid <=> NotUtc(rows) = {}
             /\ ~answer.valid =>
                   /\ answer.reason = "hash_mismatch"
                   /\ answer.broken_at_seq \in NotUtc(rows)
                   /\ \A i \in NotUtc(rows) : answer.broken_at_seq <= i
    BY DEF VerifierAgrees, NotUtc
  <2>1. PICK n : ChainPrefix(select_chain(k), k, n)
    BY ChainOfDatabase DEF IInv, HashInv
  <2> QED
    BY <2>1, VerdictOfPrefix
<1> QED
  BY <1>1, <1>2, <1>3, PTL DEF Spec
=============================================================================
