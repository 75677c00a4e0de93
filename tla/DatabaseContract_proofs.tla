------------------------ MODULE DatabaseContract_proofs ------------------------
(***************************************************************************)
(* Proofs about DatabaseContract, for any contracts, tables, sessions and  *)
(* environments: what a completed bootstrap establishes and what stays.    *)
(***************************************************************************)
EXTENDS DatabaseContract, SequenceTheorems, TLAPS

SchemasOf == Range(contract.schemas)

-----------------------------------------------------------------------------
(***************************************************************************)
(* What the statements of a script leave behind.                           *)
(***************************************************************************)
before(k) == {script[i] : i \in 1 .. k - 1}

\* What a session has executed.
Past(s) == before(at[s])

Owned(sc) == db.schema_owner[sc.name] = Ddl

Closed(sc) == <<Public, sc.name>> \notin db.creators

Ruled(sc) == <<App, sc.name>> \in db.creators <=> sc.app_can_create

Placed(sc) ==
    \A t \in ExistingIn(sc.name) :
        db.owner[t] = Ddl \/ (sc.app_can_create /\ db.owner[t] = App)

NoneOfApp(sc) == ~sc.app_can_create => OwnedBy(App) \cap TablesIn(sc.name) = {}

Within(sc) == \A t \in TablesIn(sc.name) \ OwnedBy(App) : held(App, t) \subseteq declared(t)

Promised(sc) ==
    \A p \in sc.app_table_privileges : <<Ddl, sc.name, App, p>> \in db.defaults

Granted(sc) ==
    established \/ (~contract.shared /\ DdlJobsVerify) =>
        \A t \in TablesIn(sc.name) \cap OwnedBy(Ddl) : sc.app_table_privileges \subseteq held(App, t)

Retired(sc) == \A p \in Privileges : <<Admin, sc.name, App, p>> \notin db.defaults

Joined == needs_app_membership => <<Ddl, App>> \in db.members

\* The readers of the shared database.
ReaderPromised(sc) == <<Ddl, sc.name, Reader, "SELECT">> \in db.defaults

ReaderSees(sc) ==
    established => \A t \in TablesIn(sc.name) \cap OwnedBy(Ddl) : "SELECT" \in held(Reader, t)

\* Statements of the shared bootstrap that belong to no schema's block.
UpdateGrant == OnTables("grant_tables", App, contract.writer_update_tables, {"UPDATE"})

ReaderGrant(sc) == OnTables("grant_tables", Reader, TablesIn(sc.name), {"SELECT"})

ReaderDefaults(sc) == Defaults(Reader, sc.name, {"SELECT"})

-----------------------------------------------------------------------------
(***************************************************************************)
(* The inductive invariant.                                                *)
(***************************************************************************)
LockInv ==
    /\ \A s \in Sessions : at[s] > 1 => holder = s
    /\ holder # None => holder \in Sessions /\ at[holder] > 1

CatalogInv ==
    /\ \A n \in Schemas : db.schema_owner[n] \in {None, Admin, Ddl}
    /\ db.creators \subseteq ({App, Public} \X Schemas) \cup {<<Ddl, Database>>}
    /\ db.members \subseteq {<<Admin, Ddl>>, <<Ddl, App>>}
    /\ \A d \in db.defaults :
          \/ d[1] = Ddl
          \/ ~contract.shared /\ d[1] = Admin /\ d[3] = App
    /\ \A sc \in SchemasOf : \A p \in Privileges :
          <<Ddl, sc.name, App, p>> \in db.defaults =>
              p \in sc.app_table_privileges /\ Promised(sc)

\* What statement m of the block of sc leaves behind.
Fact(sc, m) ==
    /\ m = 1 => db.schema_owner[sc.name] # None
    /\ m \in 2 .. 5 => Owned(sc)
    /\ m \in 3 .. 5 => Closed(sc)
    /\ m \in 4 .. 5 => Ruled(sc)
    /\ m = 5 => Placed(sc)
    /\ m = 6 => Within(sc)
    /\ m = 7 => Granted(sc)
    /\ m = 8 => Promised(sc)
    /\ m = 9 => Retired(sc)

\* A session past a statement finds what it left behind.
RunInv(s, sc) ==
    /\ \A m \in 1 .. 9 : schema_grants(sc)[m] \in Past(s) => Fact(sc, m)
    /\ contract.shared /\ ReaderGrant(sc) \in Past(s) => ReaderSees(sc)
    /\ contract.shared /\ ReaderDefaults(sc) \in Past(s) => ReaderPromised(sc)

\* The memberships and rights the bootstrap works with.
AdminInv(s) ==
    /\ On("join_app", Ddl, Database) \in Past(s) => <<Ddl, App>> \in db.members
    /\ On("grant_create", Ddl, Database) \in Past(s) => <<Ddl, Database>> \in db.creators
    /\ /\ On("grant_membership", Ddl, Database) \in Past(s)
       /\ On("revoke_membership", Ddl, Database) \notin Past(s)
       => superuser \/ <<Admin, Ddl>> \in db.members
    /\ /\ On("revoke_membership", Ddl, Database) \in Past(s)
       /\ ~contract.shared
       => <<Admin, Ddl>> \notin db.members

LastingInv ==
    established =>
        /\ Joined
        /\ \A sc \in SchemasOf :
              /\ Owned(sc) /\ Closed(sc) /\ Ruled(sc) /\ NoneOfApp(sc)
              /\ Within(sc) /\ Promised(sc) /\ Retired(sc)
              /\ contract.shared => ReaderPromised(sc)

ContractInv ==
    /\ ContractTypeOK
    /\ LockInv
    /\ CatalogInv
    /\ \A s \in Sessions : AdminInv(s) /\ \A sc \in SchemasOf : RunInv(s, sc)
    /\ LastingInv

-----------------------------------------------------------------------------
(***************************************************************************)
(* The scripts: which statements they have, and in which order.            *)
(***************************************************************************)
LEMMA ContractFacts ==
  ASSUME contract \in Contracts
  PROVE  /\ contract.shared \in BOOLEAN
         /\ contract.tables \subseteq Tables
         /\ contract.schemas \in Seq(SchemaContract)
         /\ SchemasOf = {contract.schemas[j] : j \in 1 .. Len(contract.schemas)}
         /\ SchemasOf \subseteq SchemaContract
         /\ \A sc, sd \in SchemasOf : sc.name = sd.name => sc = sd
         /\ \A t \in contract.tables : \E sc \in SchemasOf : sc.name = SchemaOf[t]
         /\ \A sc \in SchemasOf : sc.app_can_create <=> sc.app_owned_like # {}
         /\ contract.shared =>
              /\ Len(contract.schemas) = 1
              /\ SchemasOf = {contract.schemas[1]}
              /\ ~contract.schemas[1].app_can_create
              /\ contract.schemas[1].app_table_privileges = {"SELECT", "INSERT"}
              /\ contract.writer_update_tables \subseteq contract.tables
<1>1. DOMAIN contract.schemas = 1 .. Len(contract.schemas) /\ Len(contract.schemas) \in Nat
  BY ContractAssumption
<1>2. SchemasOf = {contract.schemas[j] : j \in 1 .. Len(contract.schemas)}
  BY <1>1 DEF SchemasOf, Range
<1>3. \A sc, sd \in SchemasOf : sc.name = sd.name => sc = sd
  BY <1>1, <1>2, ContractAssumption
<1>4. SchemasOf \subseteq SchemaContract
  BY <1>1, <1>2, ContractAssumption
<1>5. contract.shared => SchemasOf = {contract.schemas[1]}
  BY <1>1, <1>2, ContractAssumption
<1> QED
  BY <1>2, <1>3, <1>4, <1>5, ContractAssumption DEF SchemasOf

LEMMA SchemaFacts ==
  ASSUME NEW sc \in SchemaContract
  PROVE  /\ sc.name \in Schemas
         /\ sc.app_table_privileges \subseteq Privileges
         /\ sc.app_can_create \in BOOLEAN
         /\ sc.app_owned_like \subseteq Tables
  BY DEF SchemaContract

\* What tells the statements of a block apart.
LEMMA BlockFields ==
  ASSUME NEW sc
  PROVE  /\ schema_grants(sc)[1].op = "create_schema" /\ schema_grants(sc)[1].scope = sc.name
         /\ schema_grants(sc)[2].op = "own_schema" /\ schema_grants(sc)[2].scope = sc.name
         /\ schema_grants(sc)[3].op = "revoke_create" /\ schema_grants(sc)[3].scope = sc.name
         /\ schema_grants(sc)[3].role = Public
         /\ schema_grants(sc)[4].op =
              IF sc.app_can_create THEN "grant_create" ELSE "revoke_create"
         /\ schema_grants(sc)[4].scope = sc.name /\ schema_grants(sc)[4].role = App
         /\ schema_grants(sc)[5].op = "reassign" /\ schema_grants(sc)[5].scope = sc.name
         /\ schema_grants(sc)[6].op = "revoke_tables" /\ schema_grants(sc)[6].role = App
         /\ schema_grants(sc)[6].tables = TablesIn(sc.name)
         /\ schema_grants(sc)[7].op = "grant_tables" /\ schema_grants(sc)[7].role = App
         /\ schema_grants(sc)[7].tables = TablesIn(sc.name)
         /\ schema_grants(sc)[7].privileges = sc.app_table_privileges
         /\ schema_grants(sc)[8].op = "default_privileges"
         /\ schema_grants(sc)[8].scope = sc.name /\ schema_grants(sc)[8].role = App
         /\ schema_grants(sc)[8].privileges = sc.app_table_privileges
         /\ schema_grants(sc)[9].op = "retire_defaults"
         /\ schema_grants(sc)[9].scope = sc.name
  BY DEF schema_grants, On, OnTables, Defaults

\* The statements of a block that name the tables of a schema without any.
AboutNothing(sc, m) == m \in {6, 7} /\ TablesIn(sc.name) = {}

\* Two statements of schemas' blocks are the same only at the same place, and
\* of the same schema unless they name its tables and it has none.
LEMMA BlocksDiffer ==
  ASSUME contract \in Contracts,
         NEW sc \in SchemasOf, NEW sd \in SchemasOf,
         NEW m \in 1 .. 9, NEW l \in 1 .. 9,
         schema_grants(sc)[m] = schema_grants(sd)[l]
  PROVE  m = l /\ (sc = sd \/ AboutNothing(sc, m))
<1> DEFINE op(se, n) == schema_grants(se)[n].op
<1>1. op(sc, m) = op(sd, l)
  OBVIOUS
<1>2. \A se \in {sc, sd} :
        /\ op(se, 1) = "create_schema" /\ op(se, 2) = "own_schema"
        /\ op(se, 3) = "revoke_create" /\ op(se, 4) \in {"grant_create", "revoke_create"}
        /\ op(se, 5) = "reassign" /\ op(se, 6) = "revoke_tables"
        /\ op(se, 7) = "grant_tables" /\ op(se, 8) = "default_privileges"
        /\ op(se, 9) = "retire_defaults"
  <2> TAKE se \in {sc, sd}
  <2>1. op(se, 4) = IF se.app_can_create THEN "grant_create" ELSE "revoke_create"
    BY Zenon, BlockFields
  <2>2. /\ op(se, 1) = "create_schema" /\ op(se, 2) = "own_schema"
        /\ op(se, 3) = "revoke_create" /\ op(se, 5) = "reassign"
        /\ op(se, 6) = "revoke_tables" /\ op(se, 7) = "grant_tables"
        /\ op(se, 8) = "default_privileges" /\ op(se, 9) = "retire_defaults"
    BY Zenon, BlockFields
  <2> HIDE DEF op
  <2> QED
    BY <2>1, <2>2
<1> HIDE DEF op
<1>3. m = l \/ {m, l} = {3, 4}
  BY <1>1, <1>2
<1>4. ASSUME {m, l} = {3, 4} PROVE FALSE
  <2>1. CASE m = 3 /\ l = 4
    BY ZenonT(60), <2>1, BlockFields DEF App, Public
  <2>2. CASE m = 4 /\ l = 3
    BY ZenonT(60), <2>2, BlockFields DEF App, Public
  <2> QED
    BY <1>4, <2>1, <2>2
<1>5. m = l
  BY <1>3, <1>4
<1>6. m \notin {6, 7} => sc.name = sd.name
  <2> DEFINE scope(se, n) == schema_grants(se)[n].scope
  <2>1. scope(sc, m) = scope(sd, m)
    BY <1>5
  <2>2. \A se \in {sc, sd} : \A n \in {1, 2, 3, 4, 5, 8, 9} : scope(se, n) = se.name
    BY BlockFields
  <2> HIDE DEF scope
  <2> QED
    BY <2>1, <2>2
<1>7. m \in {6, 7} => TablesIn(sc.name) = TablesIn(sd.name)
  <2> DEFINE tables(se, n) == schema_grants(se)[n].tables
  <2>1. tables(sc, m) = tables(sd, m)
    BY <1>5
  <2>2. \A se \in {sc, sd} : \A n \in {6, 7} : tables(se, n) = TablesIn(se.name)
    BY BlockFields
  <2> HIDE DEF tables
  <2> QED
    BY <2>1, <2>2
<1>8. sc.name = sd.name => sc = sd
  BY ContractFacts
<1>9. TablesIn(sc.name) = TablesIn(sd.name) /\ TablesIn(sc.name) # {} => sc.name = sd.name
  BY DEF TablesIn
<1> QED
  BY <1>5, <1>6, <1>7, <1>8, <1>9 DEF AboutNothing

\* Statement m of the j-th schema's block, and the place of every statement.
LEMMA BlockPlaces ==
  ASSUME contract \in Contracts
  PROVE  /\ Len(contract.schemas) \in Nat
         /\ Len(schemas_grants) = 9 * Len(contract.schemas)
         /\ DOMAIN schemas_grants = 1 .. 9 * Len(contract.schemas)
         /\ \A j \in 1 .. Len(contract.schemas) : \A m \in 1 .. 9 :
              schemas_grants[9 * (j - 1) + m] = schema_grants(contract.schemas[j])[m]
         /\ \A k \in DOMAIN schemas_grants :
              \E j \in 1 .. Len(contract.schemas) : \E m \in 1 .. 9 :
                 /\ k = 9 * (j - 1) + m
                 /\ schemas_grants[k] = schema_grants(contract.schemas[j])[m]
<1> DEFINE n == Len(contract.schemas)
<1>1. n \in Nat
  BY ContractFacts
<1>2. /\ DOMAIN schemas_grants = 1 .. 9 * n
      /\ Len(schemas_grants) = 9 * n
      /\ \A k \in 1 .. 9 * n :
           schemas_grants[k] = schema_grants(contract.schemas[(k - 1) \div 9 + 1])[((k - 1) % 9) + 1]
  BY <1>1 DEF schemas_grants
<1>3. \A j \in 1 .. n : \A m \in 1 .. 9 :
        LET k == 9 * (j - 1) + m
        IN  k \in 1 .. 9 * n /\ (k - 1) \div 9 + 1 = j /\ ((k - 1) % 9) + 1 = m
  BY <1>1
<1>4. \A k \in 1 .. 9 * n :
        LET j == (k - 1) \div 9 + 1
            m == ((k - 1) % 9) + 1
        IN  j \in 1 .. n /\ m \in 1 .. 9 /\ k = 9 * (j - 1) + m
  BY <1>1
<1>5. ASSUME NEW j \in 1 .. n, NEW m \in 1 .. 9
      PROVE  schemas_grants[9 * (j - 1) + m] = schema_grants(contract.schemas[j])[m]
  BY ZenonT(60), <1>2, <1>3
<1>6. ASSUME NEW k \in DOMAIN schemas_grants
      PROVE  \E j \in 1 .. n : \E m \in 1 .. 9 :
               /\ k = 9 * (j - 1) + m
               /\ schemas_grants[k] = schema_grants(contract.schemas[j])[m]
  BY <1>2, <1>4
<1> QED
  BY <1>1, <1>2, <1>5, <1>6

LEMMA ScriptParts ==
  /\ Len(opening) = 6 /\ DOMAIN opening = 1 .. 6
  /\ Len(closing) = 3 /\ DOMAIN closing = 1 .. 3
  /\ Len(shared_grants) = 12 /\ DOMAIN shared_grants = 1 .. 12
  /\ needs_app_membership =>
       Len(joining) = 1 /\ joining[1] = On("join_app", Ddl, Database)
  /\ ~needs_app_membership => joining = <<>>
  BY DEF opening, closing, shared_grants, joining

LEMMA Concat3 ==
  ASSUME NEW S, NEW a \in Seq(S), NEW b \in Seq(S), NEW c \in Seq(S)
  PROVE  /\ Len(a \o b \o c) = Len(a) + Len(b) + Len(c)
         /\ DOMAIN (a \o b \o c) = 1 .. Len(a) + Len(b) + Len(c)
         /\ \A k \in 1 .. Len(a) : (a \o b \o c)[k] = a[k]
         /\ \A k \in 1 .. Len(b) : (a \o b \o c)[Len(a) + k] = b[k]
         /\ \A k \in 1 .. Len(c) : (a \o b \o c)[Len(a) + Len(b) + k] = c[k]
<1>1. /\ a \o b \in Seq(S) /\ Len(a \o b) = Len(a) + Len(b)
      /\ \A k \in 1 .. Len(a) + Len(b) :
            (a \o b)[k] = IF k <= Len(a) THEN a[k] ELSE b[k - Len(a)]
  BY ConcatProperties
<1>2. /\ Len(a) \in Nat /\ Len(b) \in Nat /\ Len(c) \in Nat
  OBVIOUS
<1> DEFINE ab == a \o b
<1> HIDE DEF ab
<1>3. ab \in Seq(S)
  BY <1>1 DEF ab
<1>4. /\ ab \o c \in Seq(S) /\ Len(ab \o c) = Len(ab) + Len(c)
      /\ \A k \in 1 .. Len(ab) + Len(c) :
            (ab \o c)[k] = IF k <= Len(ab) THEN ab[k] ELSE c[k - Len(ab)]
  BY <1>3, ConcatProperties
<1>5. Len(ab) = Len(a) + Len(b)
  BY <1>1 DEF ab
<1>6. \A k \in 1 .. Len(a) + Len(b) : ab[k] = IF k <= Len(a) THEN a[k] ELSE b[k - Len(a)]
  BY <1>1 DEF ab
<1>7. DOMAIN (ab \o c) = 1 .. Len(a) + Len(b) + Len(c)
  BY <1>4, <1>5
<1>8. \A k \in 1 .. Len(a) : (ab \o c)[k] = a[k]
  BY <1>2, <1>4, <1>5, <1>6
<1>9. \A k \in 1 .. Len(b) : (ab \o c)[Len(a) + k] = b[k]
  BY <1>2, <1>4, <1>5, <1>6
<1>10. \A k \in 1 .. Len(c) : (ab \o c)[Len(a) + Len(b) + k] = c[k]
  BY <1>2, <1>4, <1>5
<1> QED
  BY <1>4, <1>5, <1>7, <1>8, <1>9, <1>10 DEF ab

middle == IF contract.shared THEN shared_grants ELSE schemas_grants \o joining

\* Sequences are sequences over what they hold.
LEMMA OverItsElements ==
  ASSUME NEW S, NEW n \in Nat, NEW f, f = [i \in 1 .. n |-> f[i]], \A i \in 1 .. n : f[i] \in S
  PROVE  f \in Seq(S) /\ Len(f) = n
<1>1. f \in [1 .. n -> S]
  OBVIOUS
<1>2. f \in Seq(S)
  BY <1>1, SeqDef
<1> QED
  BY <1>1, <1>2, LenProperties

LEMMA Parts ==
  ASSUME contract \in Contracts
  PROVE  \E S : /\ opening \in Seq(S) /\ closing \in Seq(S)
                /\ schemas_grants \in Seq(S) /\ joining \in Seq(S) /\ shared_grants \in Seq(S)
<1> DEFINE n == Len(contract.schemas)
           S == {opening[i] : i \in 1 .. 6} \cup {closing[i] : i \in 1 .. 3}
                  \cup {schemas_grants[i] : i \in 1 .. 9 * n} \cup {On("join_app", Ddl, Database)}
                  \cup {shared_grants[i] : i \in 1 .. 12}
<1>1. n \in Nat
  BY ContractFacts
<1>2. opening = [i \in 1 .. 6 |-> opening[i]]
  BY DEF opening
<1>3. closing = [i \in 1 .. 3 |-> closing[i]]
  BY DEF closing
<1>4. shared_grants = [i \in 1 .. 12 |-> shared_grants[i]]
  BY DEF shared_grants
<1>5. schemas_grants = [i \in 1 .. 9 * n |-> schemas_grants[i]]
  BY DEF schemas_grants
<1>6. joining \in Seq(S)
  <2>1. On("join_app", Ddl, Database) \in S
    OBVIOUS
  <2> HIDE DEF S
  <2> QED
    BY <2>1 DEF joining
<1>7. /\ \A i \in 1 .. 6 : opening[i] \in S
      /\ \A i \in 1 .. 3 : closing[i] \in S
      /\ \A i \in 1 .. 12 : shared_grants[i] \in S
      /\ \A i \in 1 .. 9 * n : schemas_grants[i] \in S
  OBVIOUS
<1> HIDE DEF S
<1>8. opening \in Seq(S)
  BY <1>2, <1>7, OverItsElements
<1>9. closing \in Seq(S)
  BY <1>3, <1>7, OverItsElements
<1>10. shared_grants \in Seq(S)
  BY <1>4, <1>7, OverItsElements
<1>11. schemas_grants \in Seq(S)
  <2>1. 9 * n \in Nat
    BY <1>1
  <2> QED
    BY <1>5, <1>7, <2>1, OverItsElements
<1> QED
  BY <1>6, <1>8, <1>9, <1>10, <1>11

\* The statements of a script: six, those between, three.
LEMMA Script ==
  ASSUME contract \in Contracts
  PROVE  /\ Len(middle) \in Nat /\ DOMAIN middle = 1 .. Len(middle)
         /\ Len(script) = Len(middle) + 9
         /\ DOMAIN script = 1 .. Len(middle) + 9
         /\ \A k \in 1 .. 6 : script[k] = opening[k]
         /\ \A k \in 1 .. Len(middle) : script[6 + k] = middle[k]
         /\ \A k \in 1 .. 3 : script[6 + Len(middle) + k] = closing[k]
<1>1. PICK S : /\ opening \in Seq(S) /\ closing \in Seq(S)
               /\ schemas_grants \in Seq(S) /\ joining \in Seq(S) /\ shared_grants \in Seq(S)
  BY Parts
<1>2. middle \in Seq(S)
  BY <1>1, ConcatProperties DEF middle
<1>3. script = opening \o middle \o closing
  <2>1. CASE contract.shared
    BY <2>1 DEF script, middle, shared_bootstrap
  <2>2. CASE ~contract.shared
    <3>1. opening \o schemas_grants \o joining = opening \o (schemas_grants \o joining)
      BY SMTT(30), <1>1, ConcatAssociative
    <3> QED
      BY <2>2, <3>1 DEF script, middle, service_bootstrap
  <2> QED
    BY <2>1, <2>2
<1>4. Len(middle) \in Nat /\ DOMAIN middle = 1 .. Len(middle)
  BY <1>2
<1>5. Len(opening) = 6 /\ Len(closing) = 3
  BY ScriptParts
<1> HIDE DEF middle
<1>6. LET parts == opening \o middle \o closing
      IN  /\ Len(parts) = Len(opening) + Len(middle) + Len(closing)
          /\ DOMAIN parts = 1 .. Len(opening) + Len(middle) + Len(closing)
          /\ \A k \in 1 .. Len(opening) : parts[k] = opening[k]
          /\ \A k \in 1 .. Len(middle) : parts[Len(opening) + k] = middle[k]
          /\ \A k \in 1 .. Len(closing) : parts[Len(opening) + Len(middle) + k] = closing[k]
  BY <1>1, <1>2, Concat3
<1>7. /\ Len(script) = 6 + Len(middle) + 3
      /\ DOMAIN script = 1 .. 6 + Len(middle) + 3
      /\ \A k \in 1 .. 6 : script[k] = opening[k]
      /\ \A k \in 1 .. Len(middle) : script[6 + k] = middle[k]
      /\ \A k \in 1 .. 3 : script[6 + Len(middle) + k] = closing[k]
  BY <1>3, <1>5, <1>6
<1> QED
  BY <1>4, <1>7

LEMMA OtherBlocks ==
  ASSUME contract \in Contracts
  PROVE  \A sc, sd \in SchemasOf : \A m, l \in 1 .. 9 :
           schema_grants(sc)[m] = schema_grants(sd)[l] =>
             m = l /\ (sc = sd \/ AboutNothing(sc, m))
<1>1. ASSUME NEW sc \in SchemasOf, NEW sd \in SchemasOf, NEW m \in 1 .. 9, NEW l \in 1 .. 9,
             schema_grants(sc)[m] = schema_grants(sd)[l]
      PROVE  m = l /\ (sc = sd \/ AboutNothing(sc, m))
  <2>1. m = l
    BY <1>1, BlocksDiffer
  <2>2. sc = sd \/ AboutNothing(sc, m)
    BY <1>1, BlocksDiffer
  <2> QED
    BY <2>1, <2>2
<1> QED
  BY <1>1

\* Between them a service has its schemas' blocks, and at the end the statement
\* that joins its roles where they need it.
LEMMA ServiceMiddle ==
  ASSUME contract \in Contracts, ~contract.shared
  PROVE  LET n == Len(contract.schemas)
         IN  /\ n \in Nat
             /\ Len(middle) = 9 * n + (IF needs_app_membership THEN 1 ELSE 0)
             /\ \A j \in 1 .. n : \A m \in 1 .. 9 :
                  /\ 9 * (j - 1) + m \in 1 .. Len(middle)
                  /\ middle[9 * (j - 1) + m] = schema_grants(contract.schemas[j])[m]
             /\ needs_app_membership => middle[9 * n + 1] = On("join_app", Ddl, Database)
             /\ \A k \in 1 .. Len(middle) :
                  \/ \E j \in 1 .. n : \E m \in 1 .. 9 :
                        /\ k = 9 * (j - 1) + m
                        /\ middle[k] = schema_grants(contract.schemas[j])[m]
                  \/ needs_app_membership /\ k = 9 * n + 1
<1> DEFINE n == Len(contract.schemas)
<1>1. PICK S : schemas_grants \in Seq(S) /\ joining \in Seq(S)
  BY Parts
<1>2. /\ n \in Nat
      /\ Len(schemas_grants) = 9 * n /\ DOMAIN schemas_grants = 1 .. 9 * n
      /\ \A j \in 1 .. n : \A m \in 1 .. 9 :
           schemas_grants[9 * (j - 1) + m] = schema_grants(contract.schemas[j])[m]
      /\ \A k \in 1 .. 9 * n :
           \E j \in 1 .. n : \E m \in 1 .. 9 :
              /\ k = 9 * (j - 1) + m
              /\ schemas_grants[k] = schema_grants(contract.schemas[j])[m]
  BY BlockPlaces
<1>3. /\ needs_app_membership => Len(joining) = 1
      /\ ~needs_app_membership => Len(joining) = 0
  BY ScriptParts
<1>4. /\ Len(middle) = 9 * n + Len(joining)
      /\ \A k \in 1 .. 9 * n + Len(joining) :
           middle[k] = IF k <= 9 * n THEN schemas_grants[k] ELSE joining[k - 9 * n]
  <2>1. LET both == schemas_grants \o joining
        IN  /\ Len(both) = Len(schemas_grants) + Len(joining)
            /\ \A k \in 1 .. Len(schemas_grants) + Len(joining) :
                 both[k] = IF k <= Len(schemas_grants) THEN schemas_grants[k]
                           ELSE joining[k - Len(schemas_grants)]
    BY <1>1, ConcatProperties
  <2>2. middle = schemas_grants \o joining
    BY DEF middle
  <2>3. Len(schemas_grants) = 9 * n
    BY <1>2
  <2> QED
    BY <2>1, <2>2, <2>3
<1>5. \A j \in 1 .. n : \A m \in 1 .. 9 : 9 * (j - 1) + m \in 1 .. 9 * n
  BY <1>2
<1>6. \A k \in 1 .. 9 * n : middle[k] = schemas_grants[k] /\ k \in 1 .. Len(middle)
  <2>1. 9 * n \in Nat /\ Len(joining) \in Nat
    BY <1>2, <1>3
  <2> QED
    BY <1>4, <2>1
<1>7. \A j \in 1 .. n : \A m \in 1 .. 9 :
        /\ 9 * (j - 1) + m \in 1 .. Len(middle)
        /\ middle[9 * (j - 1) + m] = schema_grants(contract.schemas[j])[m]
  BY <1>2, <1>5, <1>6
<1>8. needs_app_membership => middle[9 * n + 1] = On("join_app", Ddl, Database)
  <2> SUFFICES ASSUME needs_app_membership
               PROVE  middle[9 * n + 1] = On("join_app", Ddl, Database)
    OBVIOUS
  <2>1. Len(joining) = 1 /\ joining[1] = On("join_app", Ddl, Database)
    BY ScriptParts
  <2>2. /\ 9 * n + 1 \in 1 .. 9 * n + Len(joining)
        /\ ~(9 * n + 1 <= 9 * n)
        /\ (9 * n + 1) - 9 * n = 1
    BY <1>2, <2>1
  <2> QED
    BY <1>4, <2>1, <2>2
<1>9. ASSUME NEW k \in 1 .. Len(middle)
      PROVE  \/ \E j \in 1 .. n : \E m \in 1 .. 9 :
                   /\ k = 9 * (j - 1) + m
                   /\ middle[k] = schema_grants(contract.schemas[j])[m]
             \/ needs_app_membership /\ k = 9 * n + 1
  <2>1. CASE k <= 9 * n
    BY SMTT(30), <1>2, <1>6, <2>1
  <2>2. CASE ~(k <= 9 * n)
    <3> DEFINE N == 9 * n
               L == Len(middle)
    <3>1. N \in Nat
      BY <1>2
    <3>2. /\ needs_app_membership => L = N + 1
          /\ ~needs_app_membership => L = N
      <4>1. L = N + Len(joining)
        BY <1>4
      <4>2. ASSUME needs_app_membership PROVE L = N + 1
        BY <1>3, <4>1, <4>2
      <4>3. ASSUME ~needs_app_membership PROVE L = N
        BY <1>3, <3>1, <4>1, <4>3
      <4> QED
        BY <4>2, <4>3
    <3>3. k \in Nat /\ k <= L /\ ~(k <= N) /\ L \in Nat
      BY <2>2, <3>1, <3>2
    <3>4. needs_app_membership /\ k = N + 1
      <4> HIDE DEF N, L
      <4>1. needs_app_membership
        BY <3>1, <3>2, <3>3
      <4> QED
        BY <3>1, <3>2, <3>3, <4>1
    <3> QED
      BY <3>4
  <2> QED
    BY <2>1, <2>2
<1> HIDE DEF n
<1>10. Len(middle) = 9 * n + (IF needs_app_membership THEN 1 ELSE 0)
  BY <1>3, <1>4
<1> QED
  BY <1>2, <1>7, <1>8, <1>9, <1>10 DEF n

LEMMA SharedMiddle ==
  ASSUME contract \in Contracts, contract.shared
  PROVE  LET sc == contract.schemas[1]
         IN  /\ SchemasOf = {sc}
             /\ Len(middle) = 12
             /\ \A m \in 1 .. 8 : middle[m] = schema_grants(sc)[m]
             /\ middle[9] =
                  OnTables("grant_tables", App, contract.writer_update_tables, {"UPDATE"})
             /\ middle[10] = On("ensure_role", Reader, Database)
             /\ middle[11] = OnTables("grant_tables", Reader, TablesIn(sc.name), {"SELECT"})
             /\ middle[12] = Defaults(Reader, sc.name, {"SELECT"})
<1> DEFINE sc == contract.schemas[1]
<1>1. SchemasOf = {sc} /\ ~sc.app_can_create
  BY ContractFacts
<1>2. middle = shared_grants
  BY DEF middle
<1>3. \A m \in 1 .. 8 : shared_grants[m] = schema_grants(sc)[m]
  BY <1>1 DEF shared_grants, schema_grants
<1> QED
  BY <1>1, <1>2, <1>3, ScriptParts DEF shared_grants

\* The statements that belong to no schema's block.
LEMMA FrameFields ==
  /\ opening[1].op = "lock"
  /\ opening[2].op = "ensure_role" /\ opening[2].role = Ddl
  /\ opening[3].op = "ensure_role" /\ opening[3].role = App
  /\ opening[4] = On("grant_membership", Ddl, Database)
  /\ opening[4].op = "grant_membership" /\ opening[4].role = Ddl
  /\ opening[5] = On("grant_create", Ddl, Database)
  /\ opening[5].op = "grant_create" /\ opening[5].role = Ddl /\ opening[5].scope = Database
  /\ opening[6].op = "revoke_create" /\ opening[6].role = App /\ opening[6].scope = Database
  /\ closing[1].op = "revoke_membership" /\ closing[1].role = App
  /\ closing[2] = On("revoke_membership", Ddl, Database)
  /\ closing[2].op = "revoke_membership" /\ closing[2].role = Ddl
  /\ closing[3].op = "unlock"
  /\ On("join_app", Ddl, Database).op = "join_app"
  BY DEF opening, closing, On

LEMMA SharedFields ==
  ASSUME NEW sc
  PROVE  /\ UpdateGrant.op = "grant_tables" /\ UpdateGrant.role = App
         /\ UpdateGrant.tables = contract.writer_update_tables
         /\ UpdateGrant.privileges = {"UPDATE"}
         /\ On("ensure_role", Reader, Database).op = "ensure_role"
         /\ On("ensure_role", Reader, Database).role = Reader
         /\ ReaderGrant(sc).op = "grant_tables" /\ ReaderGrant(sc).role = Reader
         /\ ReaderGrant(sc).tables = TablesIn(sc.name)
         /\ ReaderGrant(sc).privileges = {"SELECT"}
         /\ ReaderDefaults(sc).op = "default_privileges" /\ ReaderDefaults(sc).role = Reader
         /\ ReaderDefaults(sc).scope = sc.name /\ ReaderDefaults(sc).privileges = {"SELECT"}
  BY DEF UpdateGrant, ReaderGrant, ReaderDefaults, On, OnTables, Defaults

\* Statement m of the block of sc, where the script has it.
InBlock(st, sc, m) == st = schema_grants(sc)[m] /\ (m = 9 => ~contract.shared)

\* Statement k is one of the first six, of a block, of the last three, the one
\* that joins the roles, or one of the shared database's own.
LEMMA Kinds ==
  ASSUME contract \in Contracts, NEW k \in DOMAIN script
  PROVE  LET n == Len(script)
         IN  \/ k \in 1 .. 6 /\ script[k] = opening[k]
             \/ k \in 7 .. n - 3 /\ \E sc \in SchemasOf : \E m \in 1 .. 9 : InBlock(script[k], sc, m)
             \/ /\ k \in 7 .. n - 3 /\ ~contract.shared /\ needs_app_membership
                /\ script[k] = On("join_app", Ddl, Database)
             \/ /\ contract.shared /\ k = 15 /\ script[k] = UpdateGrant
             \/ /\ contract.shared /\ k = 16 /\ script[k] = On("ensure_role", Reader, Database)
             \/ /\ contract.shared /\ k = 17
                /\ \A sc \in SchemasOf : script[k] = ReaderGrant(sc)
             \/ /\ contract.shared /\ k = 18
                /\ \A sc \in SchemasOf : script[k] = ReaderDefaults(sc)
             \/ k = n - 2 /\ script[k] = closing[1]
             \/ k = n - 1 /\ script[k] = closing[2]
             \/ k = n /\ script[k] = closing[3]
<1> DEFINE n == Len(script)
           M == Len(middle)
<1>1. /\ M \in Nat /\ n = M + 9 /\ DOMAIN script = 1 .. M + 9
      /\ \A i \in 1 .. 6 : script[i] = opening[i]
      /\ \A i \in 1 .. M : script[6 + i] = middle[i]
      /\ \A i \in 1 .. 3 : script[6 + M + i] = closing[i]
  BY Script
<1>2. CASE k \in 1 .. 6
  BY <1>1, <1>2
<1>3. CASE k > 6 + M
  <2>1. k = n - 2 \/ k = n - 1 \/ k = n
    BY <1>1, <1>3
  <2>2. 6 + M + 1 = n - 2 /\ 6 + M + 2 = n - 1 /\ 6 + M + 3 = n
    BY <1>1
  <2>3. script[n - 2] = closing[1] /\ script[n - 1] = closing[2] /\ script[n] = closing[3]
    BY <1>1, <2>2
  <2> QED
    BY <2>1, <2>3
<1>4. CASE k > 6 /\ k <= 6 + M
  <2> DEFINE i == k - 6
  <2>1. i \in 1 .. M /\ 6 + i = k /\ k \in 7 .. n - 3
    BY <1>1, <1>4
  <2>2. script[k] = middle[i]
    BY <1>1, <2>1
  <2>3. CASE ~contract.shared
    <3>1. \/ \E j \in 1 .. Len(contract.schemas) : \E m \in 1 .. 9 :
                middle[i] = schema_grants(contract.schemas[j])[m]
          \/ needs_app_membership /\ i = 9 * Len(contract.schemas) + 1
      BY ZenonT(60), <2>1, <2>3, ServiceMiddle
    <3>2. CASE \E j \in 1 .. Len(contract.schemas) : \E m \in 1 .. 9 :
                  middle[i] = schema_grants(contract.schemas[j])[m]
      <4>1. PICK j \in 1 .. Len(contract.schemas) : \E m \in 1 .. 9 :
                  middle[i] = schema_grants(contract.schemas[j])[m]
        BY <3>2
      <4>2. contract.schemas[j] \in SchemasOf
        BY ContractFacts
      <4>3. PICK m \in 1 .. 9 : middle[i] = schema_grants(contract.schemas[j])[m]
        BY <4>1
      <4>4. InBlock(script[k], contract.schemas[j], m)
        BY <2>2, <2>3, <4>3 DEF InBlock
      <4> QED
        BY <2>1, <4>2, <4>4
    <3>3. CASE needs_app_membership /\ i = 9 * Len(contract.schemas) + 1
      BY <2>1, <2>2, <2>3, <3>3, ServiceMiddle
    <3> QED
      BY <3>1, <3>2, <3>3
  <2>4. CASE contract.shared
    <3>1. i \in 1 .. 12
      BY <2>1, <2>4, SharedMiddle
    <3>2. CASE i \in 1 .. 8
      <4>1. middle[i] = schema_grants(contract.schemas[1])[i] /\ contract.schemas[1] \in SchemasOf
        BY <2>4, <3>2, SharedMiddle
      <4>2. i \in 1 .. 9 /\ i # 9
        BY <3>2
      <4> QED
        BY <2>1, <2>2, <4>1, <4>2 DEF InBlock
    <3>3. CASE i = 9
      BY <2>1, <2>2, <2>4, <3>3, SharedMiddle DEF UpdateGrant
    <3>4. CASE i = 10
      BY <2>1, <2>2, <2>4, <3>4, SharedMiddle
    <3>5. CASE i = 11
      BY <2>1, <2>2, <2>4, <3>5, SharedMiddle DEF ReaderGrant
    <3>6. CASE i = 12
      BY <2>1, <2>2, <2>4, <3>6, SharedMiddle DEF ReaderDefaults
    <3> QED
      BY <3>1, <3>2, <3>3, <3>4, <3>5, <3>6
  <2> QED
    BY <2>3, <2>4
<1> QED
  BY <1>1, <1>2, <1>3, <1>4

LEMMA BlockOps ==
  ASSUME NEW sc \in SchemaContract, NEW m \in 1 .. 9
  PROVE  LET op == schema_grants(sc)[m].op
         IN  /\ op \notin {"lock", "unlock", "ensure_role", "grant_membership",
                           "revoke_membership", "join_app"}
             /\ op = "create_schema" => m = 1
             /\ op = "own_schema" => m = 2
             /\ op = "grant_create" => m = 4 /\ sc.app_can_create
             /\ op = "revoke_create" => m = 3 \/ (m = 4 /\ ~sc.app_can_create)
             /\ op = "reassign" => m = 5
             /\ op = "revoke_tables" => m = 6
             /\ op = "grant_tables" => m = 7
             /\ op = "default_privileges" => m = 8
             /\ op = "retire_defaults" => m = 9
<1> DEFINE op(n) == schema_grants(sc)[n].op
<1>1. /\ op(1) = "create_schema" /\ op(2) = "own_schema" /\ op(3) = "revoke_create"
      /\ op(4) = IF sc.app_can_create THEN "grant_create" ELSE "revoke_create"
      /\ op(5) = "reassign" /\ op(6) = "revoke_tables" /\ op(7) = "grant_tables"
      /\ op(8) = "default_privileges" /\ op(9) = "retire_defaults"
  BY BlockFields
<1>2. sc.app_can_create => op(4) = "grant_create"
  BY <1>1
<1>3. ~sc.app_can_create => op(4) = "revoke_create"
  BY <1>1
<1> HIDE DEF op
<1>4. \A n \in {1, 2, 3, 5, 6, 7, 8, 9} :
        op(n) = CASE n = 1 -> "create_schema" [] n = 2 -> "own_schema" [] n = 3 -> "revoke_create"
                  [] n = 5 -> "reassign" [] n = 6 -> "revoke_tables" [] n = 7 -> "grant_tables"
                  [] n = 8 -> "default_privileges" [] n = 9 -> "retire_defaults"
  BY <1>1
<1>5. CASE m # 4
  BY <1>4, <1>5 DEF op
<1>6. CASE m = 4 /\ sc.app_can_create
  <2>1. op(m) = "grant_create"
    BY <1>2, <1>6
  <2> QED
    BY <1>6, <2>1 DEF op
<1>7. CASE m = 4 /\ ~sc.app_can_create
  <2>1. op(m) = "revoke_create"
    BY <1>3, <1>7
  <2> QED
    BY <1>7, <2>1 DEF op
<1> QED
  BY <1>5, <1>6, <1>7

\* What a statement of each kind is about.
Form(st, k) ==
    /\ st.op = "lock" => k = 1
    /\ st.op = "ensure_role" => st.role \in {Ddl, App, Reader}
    /\ st.op = "grant_membership" => st.role = Ddl
    /\ st.op = "revoke_membership" => st.role \in {Ddl, App}
    /\ st.op = "join_app" => needs_app_membership
    /\ st.op = "create_schema" => \E sc \in SchemasOf : st = schema_grants(sc)[1]
    /\ st.op = "own_schema" => \E sc \in SchemasOf : st = schema_grants(sc)[2]
    /\ st.op = "grant_create" =>
         \/ st = On("grant_create", Ddl, Database)
         \/ \E sc \in SchemasOf : sc.app_can_create /\ st = schema_grants(sc)[4]
    /\ st.op = "revoke_create" =>
         \/ st.role = App /\ st.scope = Database
         \/ \E sc \in SchemasOf : \/ st = schema_grants(sc)[3]
                                  \/ ~sc.app_can_create /\ st = schema_grants(sc)[4]
    /\ st.op = "reassign" => \E sc \in SchemasOf : st = schema_grants(sc)[5]
    /\ st.op = "revoke_tables" => \E sc \in SchemasOf : st = schema_grants(sc)[6]
    /\ st.op = "grant_tables" =>
         \/ \E sc \in SchemasOf : st = schema_grants(sc)[7]
         \/ contract.shared /\ st = UpdateGrant
         \/ contract.shared /\ \A sc \in SchemasOf : st = ReaderGrant(sc)
    /\ st.op = "default_privileges" =>
         \/ \E sc \in SchemasOf : st = schema_grants(sc)[8]
         \/ contract.shared /\ \A sc \in SchemasOf : st = ReaderDefaults(sc)
    /\ st.op = "retire_defaults" =>
         ~contract.shared /\ \E sc \in SchemasOf : st = schema_grants(sc)[9]
    /\ st.op = "unlock" <=> k = Len(script)

LEMMA Forms ==
  ASSUME contract \in Contracts, NEW k \in DOMAIN script
  PROVE  Form(script[k], k)
<1> DEFINE n == Len(script)
           st == script[k]
<1>1. n \in Nat /\ n >= 9 /\ k \in 1 .. n
  BY Script
<1>2. CASE k \in 1 .. 6 /\ st = opening[k]
  <2>1. k # n
    BY <1>1, <1>2
  <2>2. CASE k = 1
    BY <1>2, <2>1, <2>2, FrameFields DEF Form
  <2>3. CASE k = 2
    BY <1>2, <2>1, <2>3, FrameFields DEF Form
  <2>4. CASE k = 3
    BY <1>2, <2>1, <2>4, FrameFields DEF Form
  <2>5. CASE k = 4
    BY <1>2, <2>1, <2>5, FrameFields DEF Form
  <2>6. CASE k = 5
    BY <1>2, <2>1, <2>6, FrameFields DEF Form
  <2>7. CASE k = 6
    BY <1>2, <2>1, <2>7, FrameFields DEF Form
  <2> QED
    BY <1>2, <2>2, <2>3, <2>4, <2>5, <2>6, <2>7
<1>3. ASSUME k \in 7 .. n - 3, NEW sc \in SchemasOf, NEW m \in 1 .. 9, InBlock(st, sc, m)
      PROVE  Form(st, k)
  <2>1. k # n
    BY <1>1, <1>3
  <2>2. sc \in SchemaContract
    BY ContractFacts
  <2>3. st = schema_grants(sc)[m] /\ (m = 9 => ~contract.shared)
    BY <1>3 DEF InBlock
  <2> DEFINE op == st.op
  <2>4. /\ op \notin {"lock", "unlock", "ensure_role", "grant_membership",
                      "revoke_membership", "join_app"}
        /\ op = "create_schema" => m = 1
        /\ op = "own_schema" => m = 2
        /\ op = "grant_create" => m = 4 /\ sc.app_can_create
        /\ op = "revoke_create" => m = 3 \/ (m = 4 /\ ~sc.app_can_create)
        /\ op = "reassign" => m = 5
        /\ op = "revoke_tables" => m = 6
        /\ op = "grant_tables" => m = 7
        /\ op = "default_privileges" => m = 8
        /\ op = "retire_defaults" => m = 9
    BY <2>2, <2>3, BlockOps
  <2> HIDE DEF op, st
  <2>5. /\ op = "lock" => k = 1
        /\ op = "ensure_role" => st.role \in {Ddl, App, Reader}
        /\ op = "grant_membership" => st.role = Ddl
        /\ op = "revoke_membership" => st.role \in {Ddl, App}
        /\ op = "join_app" => needs_app_membership
        /\ op = "unlock" <=> k = n
    BY <2>1, <2>4
  <2>6. /\ op = "create_schema" => st = schema_grants(sc)[1]
        /\ op = "own_schema" => st = schema_grants(sc)[2]
        /\ op = "grant_create" => sc.app_can_create /\ st = schema_grants(sc)[4]
        /\ op = "revoke_create" => \/ st = schema_grants(sc)[3]
                                   \/ ~sc.app_can_create /\ st = schema_grants(sc)[4]
        /\ op = "reassign" => st = schema_grants(sc)[5]
        /\ op = "revoke_tables" => st = schema_grants(sc)[6]
        /\ op = "grant_tables" => st = schema_grants(sc)[7]
        /\ op = "default_privileges" => st = schema_grants(sc)[8]
        /\ op = "retire_defaults" => ~contract.shared /\ st = schema_grants(sc)[9]
    BY <2>3, <2>4
  <2> QED
    BY <2>5, <2>6 DEF Form, op
<1>4. CASE /\ k \in 7 .. n - 3 /\ needs_app_membership
           /\ st = On("join_app", Ddl, Database)
  <2>1. k # n
    BY <1>1, <1>4
  <2> QED
    BY <1>4, <2>1, FrameFields DEF Form
<1>5. CASE contract.shared /\ k \in 15 .. 18
  <2>1. n = 21 /\ k # n
    <3>1. Len(middle) = 12
      BY <1>5, SharedMiddle
    <3>2. n = 21
      BY <3>1, Script
    <3> QED
      BY <1>5, <3>2
  <2>2. SchemasOf # {}
    BY <1>5, SharedMiddle
  <2>3. CASE st = UpdateGrant
    BY <1>5, <2>1, <2>3, SharedFields DEF Form
  <2>4. CASE st = On("ensure_role", Reader, Database)
    BY <1>5, <2>1, <2>4, SharedFields DEF Form
  <2>5. CASE \A sc \in SchemasOf : st = ReaderGrant(sc)
    BY ZenonT(60), <1>5, <2>1, <2>2, <2>5, SharedFields DEF Form
  <2>6. CASE \A sc \in SchemasOf : st = ReaderDefaults(sc)
    BY ZenonT(60), <1>5, <2>1, <2>2, <2>6, SharedFields DEF Form
  <2>7. \/ k \in 1 .. 6 \/ k \in n - 2 .. n
        \/ k \in 7 .. n - 3 /\ \E sc \in SchemasOf : \E m \in 1 .. 9 : InBlock(st, sc, m)
        \/ st = UpdateGrant \/ st = On("ensure_role", Reader, Database)
        \/ \A sc \in SchemasOf : st = ReaderGrant(sc)
        \/ \A sc \in SchemasOf : st = ReaderDefaults(sc)
    BY SMTT(30), <1>1, <1>5, Kinds
  <2>8. k \notin 1 .. 6 /\ k \notin n - 2 .. n
    BY <1>5, <2>1
  <2> QED
    BY <1>3, <2>3, <2>4, <2>5, <2>6, <2>7, <2>8
<1>6. CASE k = n - 2 /\ st = closing[1]
  <2>1. k # n
    BY <1>1, <1>6
  <2> QED
    BY <1>6, <2>1, FrameFields DEF Form
<1>7. CASE k = n - 1 /\ st = closing[2]
  <2>1. k # n
    BY <1>1, <1>7
  <2> QED
    BY <1>7, <2>1, FrameFields DEF Form
<1>8. CASE k = n /\ st = closing[3]
  BY <1>8, FrameFields DEF Form
<1> HIDE DEF st
<1>9. \/ k \in 1 .. 6 /\ st = opening[k]
      \/ k \in 7 .. n - 3 /\ \E sc \in SchemasOf : \E m \in 1 .. 9 : InBlock(st, sc, m)
      \/ /\ k \in 7 .. n - 3 /\ needs_app_membership
         /\ st = On("join_app", Ddl, Database)
      \/ contract.shared /\ k \in 15 .. 18
      \/ k = n - 2 /\ st = closing[1]
      \/ k = n - 1 /\ st = closing[2]
      \/ k = n /\ st = closing[3]
  BY <1>1, Kinds DEF st
<1> QED
  BY <1>2, <1>3, <1>4, <1>5, <1>6, <1>7, <1>8, <1>9 DEF st

\* No statement of a block is one the shared database has beside its block.
LEMMA NotOfShared ==
  ASSUME NEW sc \in SchemaContract, NEW m \in 1 .. 9, NEW sd
  PROVE  LET st == schema_grants(sc)[m]
         IN  /\ st # On("ensure_role", Reader, Database)
             /\ st # ReaderGrant(sd)
             /\ st # ReaderDefaults(sd)
             /\ sc.app_table_privileges = {"SELECT", "INSERT"} => st # UpdateGrant
<1> DEFINE st == schema_grants(sc)[m]
<1>1. /\ st.op # "ensure_role"
      /\ st.op = "grant_tables" => m = 7
      /\ st.op = "default_privileges" => m = 8
  BY BlockOps
<1>2. m = 7 => st.role = App /\ st.privileges = sc.app_table_privileges
  BY BlockFields
<1>3. m = 8 => st.role = App
  BY BlockFields
<1> HIDE DEF st
<1>4. st # On("ensure_role", Reader, Database)
  BY <1>1, SharedFields
<1>5. st # ReaderGrant(sd)
  <2>1. ReaderGrant(sd).op = "grant_tables" /\ ReaderGrant(sd).role = Reader
    BY SharedFields
  <2> QED
    BY <1>1, <1>2, <2>1 DEF App, Reader
<1>6. st # ReaderDefaults(sd)
  <2>1. ReaderDefaults(sd).op = "default_privileges" /\ ReaderDefaults(sd).role = Reader
    BY SharedFields
  <2> QED
    BY <1>1, <1>3, <2>1 DEF App, Reader
<1>7. sc.app_table_privileges = {"SELECT", "INSERT"} => st # UpdateGrant
  <2>1. UpdateGrant.op = "grant_tables" /\ UpdateGrant.privileges = {"UPDATE"}
    BY SharedFields
  <2> QED
    BY <1>1, <1>2, <2>1
<1> QED
  BY <1>4, <1>5, <1>6, <1>7 DEF st

\* A statement of a block stands nowhere outside the blocks.
LEMMA OnlyInBlocks ==
  ASSUME contract \in Contracts, NEW k \in DOMAIN script,
         NEW sc \in SchemasOf, NEW m \in 1 .. 9, script[k] = schema_grants(sc)[m]
  PROVE  /\ k \in 7 .. Len(script) - 3
         /\ \E sd \in SchemasOf : \E l \in 1 .. 9 : InBlock(script[k], sd, l)
<1> DEFINE st == script[k]
<1>1. sc \in SchemaContract /\ sc.name # Database
  <2>1. sc \in SchemaContract
    BY ContractFacts
  <2> QED
    BY <2>1, SchemaFacts, ContractAssumption
<1>2. st = schema_grants(sc)[m]
  OBVIOUS
<1> HIDE DEF st
<1>3. /\ st.op \notin {"lock", "unlock", "ensure_role", "grant_membership",
                       "revoke_membership", "join_app"}
      /\ st.op = "grant_create" => m = 4
      /\ st.op = "revoke_create" => m \in {3, 4}
      /\ st.op = "grant_tables" => m = 7
      /\ st.op = "default_privileges" => m = 8
  BY <1>1, <1>2, BlockOps
<1>4. /\ m = 3 => st.role = Public
      /\ m = 4 => st.role = App /\ st.scope = sc.name
      /\ m = 7 => st.role = App /\ st.privileges = sc.app_table_privileges
      /\ m = 8 => st.role = App
  <2>1. CASE m = 3
    BY <1>2, <2>1, BlockFields
  <2>2. CASE m = 4
    BY <1>2, <2>2, BlockFields
  <2>3. CASE m = 7
    BY <1>2, <2>3, BlockFields
  <2>4. CASE m = 8
    BY <1>2, <2>4, BlockFields
  <2> QED
    BY <2>1, <2>2, <2>3, <2>4
<1>5. \A i \in 1 .. 6 : st # opening[i]
  <2>1. st # opening[1] /\ st # opening[2] /\ st # opening[3] /\ st # opening[4]
    BY <1>3, FrameFields
  <2>2. st # opening[5]
    BY <1>3, <1>4, FrameFields DEF App, Ddl
  <2>3. st # opening[6]
    BY <1>1, <1>3, <1>4, FrameFields DEF App, Public
  <2> QED
    BY <2>1, <2>2, <2>3
<1>6. \A i \in 1 .. 3 : st # closing[i]
  BY <1>3, FrameFields
<1>7. st # On("join_app", Ddl, Database)
  BY <1>3, FrameFields
<1>8. contract.shared => st # UpdateGrant
  <2>1. contract.shared => sc.app_table_privileges = {"SELECT", "INSERT"}
    BY ContractFacts
  <2> QED
    BY <1>1, <1>2, <2>1, NotOfShared
<1>9. /\ st # On("ensure_role", Reader, Database)
      /\ st # ReaderGrant(sc) /\ st # ReaderDefaults(sc)
  BY <1>1, <1>2, NotOfShared
<1> QED
  BY <1>5, <1>6, <1>7, <1>8, <1>9, Kinds DEF st

\* The block of a schema begins after statement b.
Place(sc, b) ==
    /\ b \in Nat /\ 6 <= b /\ b + 8 <= Len(script) - 3
    /\ ~contract.shared => b + 9 <= Len(script) - 3
    /\ \A m \in 1 .. 9 : (m = 9 => ~contract.shared) => script[b + m] = schema_grants(sc)[m]
    /\ \A k \in DOMAIN script : \A m \in 1 .. 9 :
          script[k] = schema_grants(sc)[m] =>
              k = b + m \/ AboutNothing(sc, m)

LEMMA BlockPlace ==
  ASSUME contract \in Contracts, NEW sc \in SchemasOf
  PROVE  \E b : Place(sc, b) /\ (contract.shared => b = 6 /\ Len(script) = 21)
<1> DEFINE n == Len(contract.schemas)
           M == Len(middle)
           L == Len(script)
<1>1. /\ M \in Nat /\ L = M + 9 /\ DOMAIN script = 1 .. L
      /\ \A i \in 1 .. M : script[6 + i] = middle[i]
  BY Script
<1>2. CASE ~contract.shared
  <2>1. PICK j \in 1 .. n : sc = contract.schemas[j]
    BY ContractFacts
  <2>2. n \in Nat
    BY ServiceMiddle, <1>2
  <2> DEFINE b == 6 + 9 * (j - 1)
  <2>3. \A m \in 1 .. 9 : 9 * (j - 1) + m \in 1 .. M /\ middle[9 * (j - 1) + m] = schema_grants(sc)[m]
    BY <1>2, <2>1, ServiceMiddle
  <2>4. \A m \in 1 .. 9 : script[6 + (9 * (j - 1) + m)] = schema_grants(sc)[m]
    BY <1>1, <2>3
  <2>5. \A m \in 1 .. 9 : script[b + m] = schema_grants(sc)[m]
    <3> SUFFICES ASSUME NEW m \in 1 .. 9
                 PROVE  script[b + m] = schema_grants(sc)[m]
      OBVIOUS
    <3>1. b + m = 6 + (9 * (j - 1) + m)
      BY <2>1, <2>2
    <3> HIDE DEF b
    <3> QED
      BY <2>4, <3>1
  <2>6. b \in Nat /\ 6 <= b /\ b + 9 <= L - 3 /\ b + 8 <= L - 3
    <3>1. 9 * (j - 1) + 9 \in 1 .. M
      BY <2>3
    <3> QED
      BY <1>1, <2>1, <2>2, <3>1
  <2>7. ASSUME NEW k \in DOMAIN script, NEW m \in 1 .. 9, script[k] = schema_grants(sc)[m]
        PROVE  k = b + m \/ AboutNothing(sc, m)
    <3> DEFINE i == k - 6
    <3>1. k \in 7 .. L - 3
      BY <2>7, OnlyInBlocks
    <3>2. i \in 1 .. M /\ 6 + i = k
      BY <1>1, <3>1
    <3>3. script[k] = middle[i]
      BY <1>1, <3>2
    <3>4. ~(needs_app_membership /\ i = 9 * n + 1)
      <4>1. schema_grants(sc)[m] # On("join_app", Ddl, Database)
        <5>1. sc \in SchemaContract
          BY ContractFacts
        <5> QED
          BY <5>1, BlockOps, FrameFields
      <4> QED
        BY <1>2, <2>7, <3>3, <4>1, ServiceMiddle
    <3>5. PICK h \in 1 .. n : \E l \in 1 .. 9 :
             i = 9 * (h - 1) + l /\ middle[i] = schema_grants(contract.schemas[h])[l]
      BY <1>2, <3>2, <3>4, ServiceMiddle
    <3>6. PICK l \in 1 .. 9 :
             i = 9 * (h - 1) + l /\ middle[i] = schema_grants(contract.schemas[h])[l]
      BY <3>5
    <3>7. contract.schemas[h] \in SchemasOf
      BY ContractFacts
    <3>8. schema_grants(sc)[m] = schema_grants(contract.schemas[h])[l]
      BY <2>7, <3>3, <3>6
    <3> DEFINE sd == contract.schemas[h]
    <3> HIDE DEF sd, i, b, n, L, M
    <3>9. sd \in SchemasOf /\ schema_grants(sc)[m] = schema_grants(sd)[l]
      BY <3>7, <3>8 DEF sd
    <3>10. m = l
      BY <3>9, OtherBlocks
    <3>11. sc = sd \/ AboutNothing(sc, m)
      BY <3>9, OtherBlocks
    <3>12. sc = sd => h = j
      <4>1. h \in DOMAIN contract.schemas /\ j \in DOMAIN contract.schemas
        BY <2>1, <3>5, ContractFacts DEF n
      <4> QED
        BY <2>1, <4>1, ContractAssumption DEF sd
    <3>13. h = j => k = b + m
      BY <2>1, <2>2, <3>2, <3>6, <3>10 DEF i, b
    <3> QED
      BY <3>11, <3>12, <3>13
  <2> HIDE DEF b
  <2>8. Place(sc, b)
    BY <2>5, <2>6, <2>7 DEF Place
  <2> QED
    BY <1>2, <2>8
<1>3. CASE contract.shared
  <2>1. /\ SchemasOf = {contract.schemas[1]} /\ M = 12 /\ sc = contract.schemas[1]
        /\ \A m \in 1 .. 8 : middle[m] = schema_grants(sc)[m]
    BY <1>3, SharedMiddle
  <2>2. \A m \in 1 .. 8 : script[6 + m] = schema_grants(sc)[m]
    BY <1>1, <2>1
  <2>3. L = 21
    BY <1>1, <2>1
  <2>4. ASSUME NEW k \in DOMAIN script, NEW m \in 1 .. 9, script[k] = schema_grants(sc)[m]
        PROVE  k = 6 + m \/ AboutNothing(sc, m)
    <3> DEFINE i == k - 6
    <3>1. k \in 7 .. L - 3
      BY <2>4, OnlyInBlocks
    <3>2. i \in 1 .. 12 /\ 6 + i = k
      BY <2>3, <3>1
    <3>3. CASE i \in 1 .. 8
      <4>1. script[k] = schema_grants(sc)[i] /\ i \in 1 .. 9
        BY <2>2, <3>2, <3>3
      <4> HIDE DEF i
      <4>2. schema_grants(sc)[m] = schema_grants(sc)[i]
        BY <2>4, <4>1
      <4>3. m = i
        BY <4>1, <4>2, BlocksDiffer
      <4> QED
        BY <3>2, <4>3
    <3>4. CASE i \in 9 .. 12
      <4>1. sc \in SchemaContract /\ sc.app_table_privileges = {"SELECT", "INSERT"}
        BY <1>3, <2>1, ContractFacts
      <4>2. /\ schema_grants(sc)[m] # On("ensure_role", Reader, Database)
            /\ schema_grants(sc)[m] # UpdateGrant
            /\ schema_grants(sc)[m] # ReaderGrant(sc)
            /\ schema_grants(sc)[m] # ReaderDefaults(sc)
        BY <4>1, NotOfShared
      <4>3. script[k] = middle[i]
        BY <1>1, <2>1, <3>2
      <4>4. i = 9 \/ i = 10 \/ i = 11 \/ i = 12
        BY <3>4
      <4>5. /\ middle[9] = UpdateGrant /\ middle[10] = On("ensure_role", Reader, Database)
            /\ middle[11] = ReaderGrant(sc) /\ middle[12] = ReaderDefaults(sc)
        BY <1>3, <2>1, SharedMiddle DEF UpdateGrant, ReaderGrant, ReaderDefaults
      <4> HIDE DEF i
      <4> QED
        BY <2>4, <4>2, <4>3, <4>4, <4>5
    <3> QED
      BY <3>2, <3>3, <3>4
  <2>5. \A m \in 1 .. 9 : (m = 9 => ~contract.shared) => script[6 + m] = schema_grants(sc)[m]
    BY <1>3, <2>2
  <2>6. Place(sc, 6)
    BY <1>3, <2>3, <2>4, <2>5 DEF Place
  <2> QED
    BY <2>3, <2>6
<1> QED
  BY <1>2, <1>3

-----------------------------------------------------------------------------
(***************************************************************************)
(* In which order a script has its statements.                             *)
(***************************************************************************)
LEMMA EarlierOfBlock ==
  ASSUME contract \in Contracts, NEW k \in DOMAIN script, NEW sc \in SchemasOf,
         NEW m \in 1 .. 9, script[k] = schema_grants(sc)[m], ~AboutNothing(sc, m),
         NEW l \in 1 .. m - 1
  PROVE  schema_grants(sc)[l] \in before(k)
<1>1. PICK b : Place(sc, b)
  BY BlockPlace
<1>2. k = b + m /\ b \in Nat
  BY <1>1 DEF Place
<1>3. l \in 1 .. 9 /\ l # 9
  OBVIOUS
<1>4. script[b + l] = schema_grants(sc)[l]
  BY <1>1, <1>3 DEF Place
<1>5. b + l \in 1 .. k - 1
  BY <1>2
<1> QED
  BY <1>4, <1>5 DEF before

LEMMA LaterOfBlock ==
  ASSUME contract \in Contracts, NEW k \in DOMAIN script, NEW sc \in SchemasOf,
         NEW m \in 1 .. 9, script[k] = schema_grants(sc)[m], ~AboutNothing(sc, m),
         NEW l \in m .. 9, ~AboutNothing(sc, l)
  PROVE  schema_grants(sc)[l] \notin before(k)
<1>1. PICK b : Place(sc, b)
  BY BlockPlace
<1>2. k = b + m /\ b \in Nat
  BY <1>1 DEF Place
<1>3. ASSUME NEW i \in 1 .. k - 1, script[i] = schema_grants(sc)[l]
      PROVE  FALSE
  <2>1. i \in DOMAIN script
    BY Script
  <2>2. l \in 1 .. 9
    OBVIOUS
  <2>3. i = b + l
    BY <1>1, <1>3, <2>1, <2>2 DEF Place
  <2> QED
    BY <1>2, <2>3
<1> QED
  BY <1>3 DEF before

\* The readers' grants come after the tables have their owners.
LEMMA ReadersLast ==
  ASSUME contract \in Contracts, contract.shared, NEW k \in DOMAIN script,
         NEW sc \in SchemasOf, script[k] = schema_grants(sc)[5]
  PROVE  ReaderGrant(sc) \notin before(k)
<1>1. PICK b : Place(sc, b) /\ b = 6 /\ Len(script) = 21
  BY BlockPlace
<1>2. k = 11
  BY <1>1 DEF Place, AboutNothing
<1>3. ASSUME NEW i \in 1 .. 10, script[i] = ReaderGrant(sc)
      PROVE  FALSE
  <2>1. ReaderGrant(sc).op = "grant_tables"
    BY SharedFields
  <2>2. i \in DOMAIN script
    BY <1>1, Script
  <2>3. CASE i \in 1 .. 6
    <3>1. script[i] = opening[i]
      BY <2>3, Script
    <3>2. i = 1 \/ i = 2 \/ i = 3 \/ i = 4 \/ i = 5 \/ i = 6
      BY <2>3
    <3> QED
      BY <1>3, <2>1, <3>1, <3>2, FrameFields
  <2>4. CASE i \in 7 .. 10
    <3>1. i - 6 \in 1 .. 9 /\ script[i] = schema_grants(sc)[i - 6]
      <4>1. i - 6 \in 1 .. 8 /\ 6 + (i - 6) = i
        BY <2>4
      <4> QED
        BY <1>1, <4>1 DEF Place
    <3>2. sc \in SchemaContract
      BY ContractFacts
    <3> QED
      BY <1>3, <3>1, <3>2, NotOfShared
  <2> QED
    BY <2>3, <2>4
<1> QED
  BY <1>2, <1>3 DEF before

\* When the lock is given back everything has been done.
LEMMA AllBeforeUnlock ==
  ASSUME contract \in Contracts, NEW k \in DOMAIN script, k = Len(script)
  PROVE  /\ \A sc \in SchemasOf : \A m \in 1 .. 9 :
              (m = 9 => ~contract.shared) => schema_grants(sc)[m] \in before(k)
         /\ contract.shared => \A sc \in SchemasOf :
              ReaderGrant(sc) \in before(k) /\ ReaderDefaults(sc) \in before(k)
         /\ ~contract.shared /\ needs_app_membership => On("join_app", Ddl, Database) \in before(k)
         /\ On("revoke_membership", Ddl, Database) \in before(k)
         /\ contract.shared => ~needs_app_membership
<1>1. ASSUME NEW sc \in SchemasOf, NEW m \in 1 .. 9, m = 9 => ~contract.shared
      PROVE  schema_grants(sc)[m] \in before(k)
  <2>1. PICK b : Place(sc, b)
    BY BlockPlace
  <2>2. script[b + m] = schema_grants(sc)[m] /\ b \in Nat /\ Len(script) \in Nat
    BY SMTT(30), <1>1, <2>1, Script DEF Place
  <2>3. b + 8 <= Len(script) - 3 /\ (~contract.shared => b + 9 <= Len(script) - 3)
    BY <2>1 DEF Place
  <2>4. b + m \in 1 .. k - 1
    BY <1>1, <2>2, <2>3
  <2> QED
    BY <2>2, <2>4 DEF before
<1>2. ASSUME contract.shared, NEW sc \in SchemasOf
      PROVE  ReaderGrant(sc) \in before(k) /\ ReaderDefaults(sc) \in before(k)
  <2>1. /\ middle[11] = ReaderGrant(sc) /\ middle[12] = ReaderDefaults(sc)
        /\ Len(middle) = 12
    BY <1>2, SharedMiddle DEF ReaderGrant, ReaderDefaults
  <2>2. script[6 + 11] = middle[11] /\ script[6 + 12] = middle[12] /\ k = 21
    <3>1. \A i \in 1 .. Len(middle) : script[6 + i] = middle[i]
      BY Script
    <3>2. \A i \in 1 .. 12 : script[6 + i] = middle[i]
      BY <2>1, <3>1
    <3>3. Len(script) = Len(middle) + 9
      BY Script
    <3> QED
      BY <2>1, <3>2, <3>3
  <2>3. script[17] = ReaderGrant(sc) /\ script[18] = ReaderDefaults(sc)
    BY <2>1, <2>2
  <2> QED
    BY <2>2, <2>3 DEF before
<1>3. ASSUME ~contract.shared, needs_app_membership
      PROVE  On("join_app", Ddl, Database) \in before(k)
  <2> DEFINE i == 9 * Len(contract.schemas) + 1
             M == Len(middle)
  <2>1. M = 9 * Len(contract.schemas) + 1 /\ Len(contract.schemas) \in Nat
    BY <1>3, ServiceMiddle
  <2>2. i = M /\ i \in 1 .. M /\ M \in Nat
    BY <2>1
  <2>3. middle[i] = On("join_app", Ddl, Database)
    BY <1>3, ServiceMiddle
  <2> HIDE DEF i, M
  <2>4. script[6 + i] = On("join_app", Ddl, Database) /\ k = M + 9
    BY <2>2, <2>3, Script DEF M
  <2>5. 6 + i \in 1 .. k - 1
    BY <2>2, <2>4
  <2> QED
    BY <2>4, <2>5 DEF before
<1>4. On("revoke_membership", Ddl, Database) \in before(k)
  <2> DEFINE M == Len(middle)
  <2>1. M \in Nat /\ k = M + 9 /\ script[6 + M + 2] = closing[2]
    BY Script
  <2>2. closing[2] = On("revoke_membership", Ddl, Database)
    BY FrameFields
  <2> HIDE DEF M
  <2>3. 6 + M + 2 \in 1 .. k - 1
    BY <2>1
  <2> QED
    BY <2>1, <2>2, <2>3 DEF before
<1>5. contract.shared => ~needs_app_membership
  BY ContractFacts DEF needs_app_membership, SchemasOf
<1> QED
  BY <1>1, <1>2, <1>3, <1>4, <1>5

\* The admin's membership is granted before the statements that need it, and
\* given back after them.
LEMMA GrantBeforeRevoke ==
  ASSUME contract \in Contracts, NEW k \in DOMAIN script
  PROVE  /\ k > 4 => On("grant_membership", Ddl, Database) \in before(k)
         /\ k > 5 => On("grant_create", Ddl, Database) \in before(k)
         /\ k < Len(script) => On("revoke_membership", Ddl, Database) \notin before(k)
         /\ script[k].op = "grant_membership" => k = 4
         /\ script[k].op = "revoke_membership" /\ script[k].role = Ddl =>
              script[k] = On("revoke_membership", Ddl, Database)
<1> DEFINE n == Len(script)
<1>1. /\ n \in Nat /\ DOMAIN script = 1 .. n
      /\ \A i \in 1 .. 6 : script[i] = opening[i]
  <2>1. /\ Len(middle) \in Nat /\ Len(script) = Len(middle) + 9
        /\ DOMAIN script = 1 .. Len(middle) + 9 /\ \A i \in 1 .. 6 : script[i] = opening[i]
    BY Script
  <2> QED
    BY <2>1
<1>2. ASSUME NEW i \in DOMAIN script
      PROVE  /\ script[i].op = "grant_membership" => i = 4
             /\ script[i].op = "revoke_membership" =>
                  \/ i = n - 2 /\ script[i] = closing[1]
                  \/ i = n - 1 /\ script[i] = closing[2]
  <2> DEFINE st == script[i]
             These == {"grant_membership", "revoke_membership"}
  <2>1. CASE i \in 1 .. 6
    <3>1. st = opening[i]
      BY <1>1, <2>1
    <3>2. i = 1 \/ i = 2 \/ i = 3 \/ i = 4 \/ i = 5 \/ i = 6
      BY <2>1
    <3> HIDE DEF st
    <3>3. i # 4 => st.op \notin These
      BY <3>1, <3>2, FrameFields
    <3>4. i = 4 => st.op # "revoke_membership"
      BY <3>1, FrameFields
    <3> QED
      BY <3>3, <3>4 DEF st
  <2>2. CASE \E sc \in SchemasOf : \E m \in 1 .. 9 : InBlock(st, sc, m)
    <3>1. PICK sc \in SchemasOf : \E m \in 1 .. 9 : InBlock(st, sc, m)
      BY <2>2
    <3>2. PICK m \in 1 .. 9 : InBlock(st, sc, m)
      BY <3>1
    <3>3. sc \in SchemaContract
      BY ContractFacts
    <3>4. st.op \notin These
      BY <3>2, <3>3, BlockOps DEF InBlock
    <3> QED
      BY <3>4
  <2>3. CASE st = On("join_app", Ddl, Database)
    BY <2>3, FrameFields
  <2>4. CASE contract.shared /\ i \in 15 .. 18
    <3>1. PICK sc \in SchemasOf : TRUE
      BY <2>4, SharedMiddle
    <3>2. Len(middle) = 12
      BY <2>4, SharedMiddle
    <3>3. n = 21
      BY <3>2, Script
    <3>4. i \notin 1 .. 6 /\ i # n - 2 /\ i # n - 1 /\ i # n
      BY <2>4, <3>3
    <3>5. \/ \E sd \in SchemasOf : \E m \in 1 .. 9 : InBlock(st, sd, m)
          \/ st = On("join_app", Ddl, Database)
          \/ st = UpdateGrant \/ st = On("ensure_role", Reader, Database)
          \/ st = ReaderGrant(sc) \/ st = ReaderDefaults(sc)
      BY <3>1, <3>4, Kinds
    <3> HIDE DEF st
    <3>6. CASE st = UpdateGrant \/ st = On("ensure_role", Reader, Database)
                 \/ st = ReaderGrant(sc) \/ st = ReaderDefaults(sc)
      <4>1. st.op \notin These
        BY <3>6, SharedFields
      <4> QED
        BY <4>1 DEF st
    <3> QED
      BY <2>2, <2>3, <3>5, <3>6
  <2>5. CASE i = n - 2 /\ st = closing[1]
    BY <2>5, FrameFields
  <2>6. CASE i = n - 1 /\ st = closing[2]
    BY <2>6, FrameFields
  <2>7. CASE i = n /\ st = closing[3]
    BY <2>7, FrameFields
  <2> HIDE DEF st
  <2>8. \/ i \in 1 .. 6
        \/ \E sc \in SchemasOf : \E m \in 1 .. 9 : InBlock(st, sc, m)
        \/ st = On("join_app", Ddl, Database)
        \/ contract.shared /\ i \in 15 .. 18
        \/ i = n - 2 /\ st = closing[1]
        \/ i = n - 1 /\ st = closing[2]
        \/ i = n /\ st = closing[3]
    BY Kinds DEF st
  <2> QED
    BY <2>1, <2>2, <2>3, <2>4, <2>5, <2>6, <2>7, <2>8
<1>3. k > 4 => On("grant_membership", Ddl, Database) \in before(k)
  BY <1>1, FrameFields DEF before
<1>4. k > 5 => On("grant_create", Ddl, Database) \in before(k)
  BY <1>1, FrameFields DEF before
<1>5. ASSUME k < n, NEW i \in 1 .. k - 1, script[i] = On("revoke_membership", Ddl, Database)
      PROVE  FALSE
  <2>1. i \in DOMAIN script
    BY <1>1, <1>5
  <2>2. On("revoke_membership", Ddl, Database).op = "revoke_membership"
        /\ On("revoke_membership", Ddl, Database).role = Ddl
    BY FrameFields
  <2>3. \/ i = n - 2 /\ script[i] = closing[1]
        \/ i = n - 1
    BY <1>2, <1>5, <2>1, <2>2
  <2>4. script[i] # closing[1]
    BY <1>5, <2>2, FrameFields DEF Ddl, App
  <2>5. i = n - 1 /\ k \in 1 .. n
    BY <1>1, <2>3, <2>4
  <2> HIDE DEF n
  <2> QED
    BY <1>1, <1>5, <2>5
<1>6. k < n => On("revoke_membership", Ddl, Database) \notin before(k)
  BY <1>5 DEF before
<1>7. script[k].op = "revoke_membership" /\ script[k].role = Ddl =>
        script[k] = On("revoke_membership", Ddl, Database)
  BY <1>2, FrameFields DEF Ddl, App
<1> HIDE DEF n
<1> QED
  BY <1>2, <1>3, <1>4, <1>6, <1>7 DEF n

-----------------------------------------------------------------------------
(***************************************************************************)
(* What every step keeps.                                                  *)
(***************************************************************************)
LEMMA ContractStays ==
  ASSUME contract' = contract
  PROVE  /\ SchemasOf' = SchemasOf
         /\ script' = script
         /\ needs_app_membership' = needs_app_membership
         /\ \A n : TablesIn(n)' = TablesIn(n)
         /\ \A t : declared(t)' = declared(t)
         /\ \A t : target(t)' = target(t)
         /\ \A sc : ReaderGrant(sc)' = ReaderGrant(sc) /\ ReaderDefaults(sc)' = ReaderDefaults(sc)
         /\ \A sc : schema_grants(sc)' = schema_grants(sc)
<1>1. SchemasOf' = SchemasOf /\ needs_app_membership' = needs_app_membership
  BY DEF SchemasOf, needs_app_membership
<1>2. \A n : TablesIn(n)' = TablesIn(n)
  BY DEF TablesIn
<1>3. \A t : declared(t)' = declared(t) /\ target(t)' = target(t)
  BY DEF declared, target, schema_contract
<1>4. \A sc : ReaderGrant(sc)' = ReaderGrant(sc) /\ ReaderDefaults(sc)' = ReaderDefaults(sc)
  BY DEF ReaderGrant, ReaderDefaults, TablesIn
<1>5. \A sc : schema_grants(sc)' = schema_grants(sc)
  BY DEF schema_grants, TablesIn
<1>6. script' = script
  BY DEF script, service_bootstrap, shared_bootstrap, schemas_grants, joining, shared_grants,
         needs_app_membership, schema_grants, TablesIn
<1> QED
  BY <1>1, <1>2, <1>3, <1>4, <1>5, <1>6

\* The contract of the schema a table is in.
LEMMA ContractOf ==
  ASSUME contract \in Contracts, NEW sc \in SchemasOf, NEW t \in TablesIn(sc.name)
  PROVE  schema_contract(SchemaOf[t]) = sc
<1>1. sc \in Range(contract.schemas) /\ sc.name = SchemaOf[t]
  BY DEF SchemasOf, TablesIn
<1>2. \A sd \in Range(contract.schemas) : sd.name = SchemaOf[t] => sd = sc
  BY <1>1, ContractFacts DEF SchemasOf
<1> QED
  BY <1>1, <1>2 DEF schema_contract

SomeRuns == \E s \in Sessions : Running(s)

\* No step takes back what a statement left behind.
Kept(sc) ==
    /\ db.schema_owner[sc.name] # None => db'.schema_owner[sc.name] # None
    /\ Owned(sc) => Owned(sc)'
    /\ Closed(sc) => Closed(sc)'
    /\ Ruled(sc) => Ruled(sc)'
    /\ Promised(sc) => Promised(sc)'
    /\ Retired(sc) => Retired(sc)'
    /\ ReaderPromised(sc) => ReaderPromised(sc)'
    /\ Joined => Joined'

Steady(sc) ==
    /\ Kept(sc)
    /\ Within(sc) /\ (SomeRuns \/ Retired(sc)) => Within(sc)'
    /\ Owned(sc) /\ Closed(sc) /\ Ruled(sc) /\ NoneOfApp(sc) => NoneOfApp(sc)'
    /\ Owned(sc) /\ Closed(sc) /\ Ruled(sc) /\ Placed(sc) /\ SomeRuns => Placed(sc)'

\* Its tables stay granted to those who see them.
Granting(sc) ==
    /\ Granted(sc) /\ (established => Promised(sc)) => Granted(sc)'
    /\ contract.shared /\ ReaderSees(sc) /\ (established => ReaderPromised(sc)) => ReaderSees(sc)'

\* A step that leaves the tables and the grants on them alone.
LEMMA TablesStay ==
  ASSUME contract' = contract, established' = established,
         db'.owner = db.owner, db'.granted = db.granted
  PROVE  \A sc : /\ Within(sc) => Within(sc)'
                 /\ NoneOfApp(sc) => NoneOfApp(sc)'
                 /\ Placed(sc) => Placed(sc)'
                 /\ Granting(sc)
<1>1. \A t : declared(t)' = declared(t)
  BY ContractStays
<1>2. \A n : TablesIn(n)' = TablesIn(n)
  BY ContractStays
<1>3. /\ \A role : OwnedBy(role)' = OwnedBy(role)
      /\ \A role, t : held(role, t)' = held(role, t)
  BY DEF OwnedBy, held
<1>4. \A sc : ExistingIn(sc.name)' = ExistingIn(sc.name)
  BY <1>2 DEF ExistingIn
<1>5. DdlJobsVerify' = DdlJobsVerify
  BY DEF DdlJobsVerify
<1> SUFFICES ASSUME NEW sc
             PROVE  /\ Within(sc) => Within(sc)'
                    /\ NoneOfApp(sc) => NoneOfApp(sc)'
                    /\ Placed(sc) => Placed(sc)'
                    /\ Granting(sc)
  OBVIOUS
<1>6. Within(sc) => Within(sc)'
  BY <1>1, <1>2, <1>3 DEF Within
<1>7. NoneOfApp(sc) => NoneOfApp(sc)'
  BY <1>2, <1>3 DEF NoneOfApp
<1>8. Placed(sc) => Placed(sc)'
  BY <1>4 DEF Placed
<1>9. (Granted(sc) => Granted(sc)') /\ (ReaderSees(sc) => ReaderSees(sc)')
  BY <1>2, <1>3, <1>5 DEF Granted, ReaderSees
<1> QED
  BY <1>6, <1>7, <1>8, <1>9 DEF Granting

LEMMA TypedFacts ==
  ASSUME ContractTypeOK
  PROVE  /\ contract \in Contracts /\ contract.tables \subseteq Tables
         /\ superuser \in BOOLEAN /\ established \in BOOLEAN
         /\ db \in Catalog
         /\ at \in [Sessions -> 0 .. Len(script)]
         /\ Len(script) \in Nat /\ DOMAIN script = 1 .. Len(script) /\ Len(script) >= 9
         /\ \A s \in Sessions : Running(s) => at[s] \in DOMAIN script
         /\ \A sc \in SchemasOf : sc \in SchemaContract /\ sc.name \in Schemas
<1>1. contract \in Contracts
  BY DEF ContractTypeOK
<1>2. Len(script) \in Nat /\ DOMAIN script = 1 .. Len(script) /\ Len(script) >= 9
  <2>1. /\ Len(middle) \in Nat /\ Len(script) = Len(middle) + 9
        /\ DOMAIN script = 1 .. Len(middle) + 9
    BY <1>1, Script
  <2> QED
    BY <2>1
<1>3. \A sc \in SchemasOf : sc \in SchemaContract /\ sc.name \in Schemas
  BY <1>1, ContractFacts, SchemaFacts
<1> QED
  BY <1>1, <1>2, <1>3, ContractFacts DEF ContractTypeOK, Running

\* The session at the lock or past it has executed what is before its statement.
LEMMA Advances ==
  ASSUME ContractTypeOK, NEW s \in Sessions, NEW op, Executes(s, op), contract' = contract,
         op # "unlock"
  PROVE  /\ at[s] \in DOMAIN script /\ Statement(s) = script[at[s]]
         /\ at[s] < Len(script)
         /\ Form(Statement(s), at[s]) /\ Statement(s).op = op
         /\ Past(s)' = Past(s) \cup {Statement(s)}
         /\ at'[s] = at[s] + 1
         /\ at' \in [Sessions -> 0 .. Len(script)']
         /\ \A r \in Sessions \ {s} : at'[r] = at[r] /\ Past(r)' = Past(r)
<1>1. /\ at \in [Sessions -> 0 .. Len(script)] /\ contract \in Contracts
      /\ Len(script) \in Nat /\ at[s] \in DOMAIN script /\ DOMAIN script = 1 .. Len(script)
  BY TypedFacts DEF Executes
<1>2. Form(Statement(s), at[s]) /\ Statement(s).op = op
  BY <1>1, Forms DEF Executes, Statement
<1>3. at[s] # Len(script)
  BY <1>2 DEF Form
<1>4. /\ at'[s] = at[s] + 1
      /\ \A r \in Sessions \ {s} : at'[r] = at[r]
      /\ at' \in [Sessions -> 0 .. Len(script)]
  BY <1>1, <1>3 DEF Executes
<1>5. script' = script
  BY ContractStays
<1>6. \A r \in Sessions : Past(r) = {script[i] : i \in 1 .. at[r] - 1}
                          /\ Past(r)' = {script[i] : i \in 1 .. at'[r] - 1}
  BY <1>5 DEF Past, before
<1>7. Past(s)' = Past(s) \cup {script[at[s]]}
  <2>1. 1 .. at'[s] - 1 = (1 .. at[s] - 1) \cup {at[s]}
    BY <1>1, <1>4
  <2> QED
    BY <1>6, <2>1
<1>8. \A r \in Sessions \ {s} : Past(r)' = Past(r)
  BY <1>4, <1>6
<1>9. at[s] < Len(script) /\ at' \in [Sessions -> 0 .. Len(script)']
  BY <1>1, <1>3, <1>4, <1>5
<1>10. Statement(s) = script[at[s]]
  BY DEF Statement
<1> QED
  BY <1>1, <1>2, <1>4, <1>7, <1>8, <1>9, <1>10

\* What a completed bootstrap leaves lasts.
LEMMA LastingStays ==
  ASSUME ContractInv, contract' = contract, established' = established,
         \A sc \in SchemasOf : Steady(sc)
  PROVE  LastingInv'
<1> SUFFICES ASSUME established
             PROVE  LastingInv'
  BY DEF LastingInv
<1>1. SchemasOf' = SchemasOf
  BY ContractStays
<1>2. LastingInv
  BY DEF ContractInv
<1>3. Joined'
  <2>1. Joined
    BY <1>2 DEF LastingInv
  <2>2. CASE SchemasOf = {}
    BY <2>2 DEF Joined, needs_app_membership, SchemasOf
  <2>3. CASE SchemasOf # {}
    BY <2>1, <2>3 DEF Steady, Kept
  <2> QED
    BY <2>2, <2>3
<1>4. ASSUME NEW sc \in SchemasOf
      PROVE  /\ Owned(sc)' /\ Closed(sc)' /\ Ruled(sc)' /\ NoneOfApp(sc)'
             /\ Within(sc)' /\ Promised(sc)' /\ Retired(sc)'
             /\ contract.shared => ReaderPromised(sc)'
  <2>1. /\ Owned(sc) /\ Closed(sc) /\ Ruled(sc) /\ NoneOfApp(sc)
        /\ Within(sc) /\ Promised(sc) /\ Retired(sc)
        /\ contract.shared => ReaderPromised(sc)
    BY <1>2 DEF LastingInv
  <2>2. Steady(sc)
    OBVIOUS
  <2>3. Owned(sc)' /\ Closed(sc)' /\ Ruled(sc)' /\ Promised(sc)' /\ Retired(sc)'
    BY <2>1, <2>2 DEF Steady, Kept
  <2>4. Within(sc)' /\ NoneOfApp(sc)'
    BY <2>1, <2>2 DEF Steady, Kept
  <2>5. contract.shared => ReaderPromised(sc)'
    BY <2>1, <2>2 DEF Steady, Kept
  <2> QED
    BY <2>3, <2>4, <2>5
<1> QED
  BY <1>1, <1>3, <1>4 DEF LastingInv

LEMMA FirstLocks ==
  ASSUME contract \in Contracts
  PROVE  1 \in DOMAIN script /\ script[1].op = "lock"
BY Script, FrameFields

\* Nobody else is past the lock of a session that executes its statements.
LEMMA HolderAlone ==
  ASSUME ContractTypeOK, LockInv, NEW s \in Sessions, NEW r \in Sessions \ {s}, at[s] > 1
  PROVE  holder = s /\ at[r] <= 1 /\ Past(r) = {}
<1>1. holder = s
  BY DEF LockInv
<1>2. at[r] \in 0 .. Len(script) /\ Len(script) \in Nat
  BY TypedFacts
<1>3. at[r] <= 1
  BY <1>1, <1>2 DEF LockInv
<1> QED
  BY <1>1, <1>2, <1>3 DEF Past, before

\* One statement of a script: what it adds holds, what was there before stays.
LEMMA StatementKeeps ==
  ASSUME ContractInv, NEW s \in Sessions, NEW op, Executes(s, op), op \notin {"lock", "unlock"},
         UNCHANGED <<contract, superuser, holder, runs, established>>,
         db' \in Catalog,
         CatalogInv', AdminInv(s)',
         \A sc \in SchemasOf :
            /\ Steady(sc)
            /\ \A m \in 1 .. 9 : Statement(s) = schema_grants(sc)[m] => Fact(sc, m)'
            /\ schema_grants(sc)[7] \in Past(s) /\ Granted(sc) => Granted(sc)'
            /\ contract.shared =>
                 /\ ReaderGrant(sc) \in Past(s) /\ ReaderSees(sc) => ReaderSees(sc)'
                 /\ Statement(s) = ReaderGrant(sc) => ReaderSees(sc)'
                 /\ Statement(s) = ReaderDefaults(sc) => ReaderPromised(sc)'
  PROVE  ContractInv'
<1>1. ContractTypeOK /\ LockInv /\ contract \in Contracts
  BY TypedFacts DEF ContractInv
<1>2. /\ at[s] \in DOMAIN script /\ Statement(s) = script[at[s]] /\ at[s] < Len(script)
      /\ Statement(s).op = op
      /\ Past(s)' = Past(s) \cup {Statement(s)}
      /\ at'[s] = at[s] + 1
      /\ at' \in [Sessions -> 0 .. Len(script)']
      /\ \A r \in Sessions \ {s} : at'[r] = at[r] /\ Past(r)' = Past(r)
  BY <1>1, Advances
<1>3. at[s] > 1 /\ at[s] \in Nat /\ DOMAIN script = 1 .. Len(script) /\ Len(script) \in Nat
  <2>1. at[s] # 1
    BY <1>1, <1>2, FirstLocks
  <2> QED
    BY <1>1, <1>2, <2>1, TypedFacts
<1>4. holder = s /\ \A r \in Sessions \ {s} : at[r] <= 1 /\ Past(r) = {}
  BY <1>1, <1>3, HolderAlone DEF LockInv
<1>5. ContractTypeOK'
  <2>1. holder' # None => holder' \in Sessions /\ Running(holder)'
    <3>1. Running(s)'
      BY <1>2, <1>3 DEF Running
    <3> QED
      BY <1>4, <3>1 DEF Running
  <2> QED
    BY <1>1, <1>2, <2>1 DEF ContractTypeOK
<1>6. LockInv'
  <2>1. \A r \in Sessions : at'[r] > 1 => holder' = r
    <3>1. \A r \in Sessions \ {s} : ~(at'[r] > 1)
      <4> SUFFICES ASSUME NEW r \in Sessions \ {s} PROVE ~(at'[r] > 1)
        OBVIOUS
      <4>1. at[r] \in 0 .. Len(script)
        BY <1>1, TypedFacts
      <4> QED
        BY <1>2, <1>3, <1>4, <4>1
    <3> QED
      BY <1>4, <3>1
  <2> QED
    BY <1>2, <1>3, <1>4, <2>1 DEF LockInv
<1>7. SomeRuns
  BY DEF SomeRuns, Executes
<1>8. SchemasOf' = SchemasOf /\ \A sc : schema_grants(sc)' = schema_grants(sc)
  BY ContractStays
<1>9. ASSUME NEW sc \in SchemasOf
      PROVE  RunInv(s, sc)'
  <2>1. ASSUME NEW m \in 1 .. 9, schema_grants(sc)[m] \in Past(s)
        PROVE  Fact(sc, m)'
    <3>1. Fact(sc, m)
      BY <2>1 DEF ContractInv, RunInv
    <3>2. m = 7 => Granted(sc)'
      BY <2>1, <3>1 DEF Fact
    <3>3. m # 7 => Fact(sc, m)'
      BY <1>7, <3>1 DEF Fact, Steady, Kept
    <3> QED
      BY <3>2, <3>3 DEF Fact
  <2>2. \A m \in 1 .. 9 : Statement(s) = schema_grants(sc)[m] => Fact(sc, m)'
    OBVIOUS
  <2>3. \A m \in 1 .. 9 : schema_grants(sc)[m]' \in Past(s)' => Fact(sc, m)'
    BY <1>2, <1>8, <2>1, <2>2
  <2>4. contract.shared => (ReaderGrant(sc)' \in Past(s)' => ReaderSees(sc)')
    <3>1. contract.shared /\ ReaderGrant(sc) \in Past(s) => ReaderSees(sc)
      BY DEF ContractInv, RunInv
    <3> QED
      BY <1>2, <3>1, ContractStays
  <2>5. contract.shared => (ReaderDefaults(sc)' \in Past(s)' => ReaderPromised(sc)')
    <3>1. contract.shared /\ ReaderDefaults(sc) \in Past(s) => ReaderPromised(sc)
      BY DEF ContractInv, RunInv
    <3> QED
      BY <1>2, <3>1, ContractStays DEF Steady, Kept
  <2> QED
    BY <2>3, <2>4, <2>5 DEF RunInv
<1>10. ASSUME NEW r \in Sessions \ {s}
       PROVE  AdminInv(r)' /\ \A sc \in SchemasOf : RunInv(r, sc)'
  <2>1. Past(r)' = {}
    BY <1>2, <1>4
  <2> QED
    BY <2>1 DEF AdminInv, RunInv
<1>11. LastingInv'
  BY <1>8, LastingStays
<1> QED
  BY <1>5, <1>6, <1>8, <1>9, <1>10, <1>11 DEF ContractInv

\* A statement about the catalogs of roles, schemas and default privileges.
LEMMA CatalogStatement ==
  ASSUME ContractInv, NEW s \in Sessions, NEW op, Executes(s, op),
         op \notin {"lock", "unlock", "grant_tables"},
         UNCHANGED <<contract, superuser, holder, runs, established>>,
         db' \in Catalog,
         db'.owner = db.owner, db'.granted = db.granted,
         CatalogInv', AdminInv(s)',
         \A sc \in SchemasOf :
            /\ Kept(sc)
            /\ \A m \in 1 .. 9 : Statement(s) = schema_grants(sc)[m] =>
                  m \notin {5, 6, 7} /\ Fact(sc, m)'
            /\ contract.shared /\ Statement(s) = ReaderDefaults(sc) => ReaderPromised(sc)'
  PROVE  ContractInv'
<1>1. ASSUME NEW sc \in SchemasOf
      PROVE  /\ Steady(sc)
             /\ schema_grants(sc)[7] \in Past(s) /\ Granted(sc) => Granted(sc)'
             /\ contract.shared =>
                  /\ ReaderGrant(sc) \in Past(s) /\ ReaderSees(sc) => ReaderSees(sc)'
                  /\ Statement(s) = ReaderGrant(sc) => ReaderSees(sc)'
  <2>1. /\ Within(sc) => Within(sc)'
        /\ NoneOfApp(sc) => NoneOfApp(sc)'
        /\ Placed(sc) => Placed(sc)'
        /\ Granting(sc)
    BY TablesStay
  <2>2. Steady(sc)
    BY <2>1 DEF Steady
  <2>3. established => Promised(sc) /\ (contract.shared => ReaderPromised(sc))
    BY DEF ContractInv, LastingInv
  <2>4. Statement(s) # ReaderGrant(sc)
    BY SharedFields DEF Executes
  <2> QED
    BY <2>1, <2>2, <2>3, <2>4 DEF Granting
<1>2. \A sc \in SchemasOf : \A m \in 1 .. 9 : Statement(s) = schema_grants(sc)[m] => Fact(sc, m)'
  OBVIOUS
<1> QED
  BY <1>1, <1>2, StatementKeeps

\* A statement that is none of those about the memberships the script works with.
LEMMA AdminStays ==
  ASSUME ContractInv, NEW s \in Sessions, NEW op, Executes(s, op), contract' = contract,
         superuser' = superuser,
         op \notin {"unlock", "join_app", "grant_membership", "revoke_membership"},
         op = "grant_create" => Statement(s) # On("grant_create", Ddl, Database),
         db'.members = db.members,
         <<Ddl, Database>> \in db.creators => <<Ddl, Database>> \in db'.creators
  PROVE  AdminInv(s)'
<1>1. ContractTypeOK /\ AdminInv(s)
  BY DEF ContractInv
<1>2. Past(s)' = Past(s) \cup {Statement(s)} /\ Statement(s).op = op
  BY <1>1, Advances
<1>3. /\ Statement(s) # On("join_app", Ddl, Database)
      /\ Statement(s) # On("grant_membership", Ddl, Database)
      /\ Statement(s) # On("revoke_membership", Ddl, Database)
      /\ Statement(s) # On("grant_create", Ddl, Database)
  BY <1>2, FrameFields
<1> QED
  BY <1>1, <1>2, <1>3 DEF AdminInv

LEMMA BlockStatement ==
  ASSUME ContractTypeOK, NEW s \in Sessions, NEW op, Executes(s, op),
         NEW sc \in SchemasOf, NEW m \in 1 .. 9, Statement(s) = schema_grants(sc)[m]
  PROVE  /\ op \notin {"lock", "unlock", "ensure_role", "grant_membership",
                       "revoke_membership", "join_app"}
         /\ op = "create_schema" => m = 1
         /\ op = "own_schema" => m = 2
         /\ op = "grant_create" => m = 4 /\ sc.app_can_create
         /\ op = "revoke_create" => m = 3 \/ (m = 4 /\ ~sc.app_can_create)
         /\ op = "reassign" => m = 5
         /\ op = "revoke_tables" => m = 6
         /\ op = "grant_tables" => m = 7
         /\ op = "default_privileges" => m = 8
         /\ op = "retire_defaults" => m = 9
<1>1. sc \in SchemaContract /\ Statement(s).op = op
  BY TypedFacts DEF Executes
<1> QED
  BY <1>1, BlockOps

-----------------------------------------------------------------------------
(***************************************************************************)
(* The statements, one by one.                                             *)
(***************************************************************************)
LEMMA EnsuringKeeps ==
  ASSUME ContractInv, NEW s \in Sessions, ensure_role(s)
  PROVE  ContractInv'
<1>1. ContractTypeOK /\ Executes(s, "ensure_role") /\ CatalogInv
  BY DEF ensure_role, ContractInv
<1>2. UNCHANGED <<contract, superuser, holder, runs, established>>
  BY DEF ensure_role, Catalogs
<1>3. Statement(s).role \in Roles
  BY <1>1, <1>2, Advances DEF Form, Roles, Ddl, App, Reader
<1>4. /\ db' \in Catalog
      /\ db'.members = db.members /\ db'.schema_owner = db.schema_owner
      /\ db'.creators = db.creators /\ db'.owner = db.owner
      /\ db'.granted = db.granted /\ db'.defaults = db.defaults
  BY <1>1, <1>3, TypedFacts DEF ensure_role, Catalogs, Catalog
<1>5. CatalogInv'
  BY <1>1, <1>2, <1>4, ContractStays DEF CatalogInv, Promised
<1>6. AdminInv(s)'
  BY <1>1, <1>2, <1>4, AdminStays
<1>7. \A sc \in SchemasOf : Kept(sc)
  BY <1>2, <1>4, ContractStays DEF Kept, Owned, Closed, Ruled, Promised, Retired, ReaderPromised, Joined
<1>8. \A sc \in SchemasOf : /\ \A m \in 1 .. 9 : Statement(s) # schema_grants(sc)[m]
                            /\ Statement(s) # ReaderDefaults(sc)
  BY ZenonT(60), <1>1, BlockStatement, SharedFields DEF Executes
<1> QED
  BY <1>1, <1>2, <1>4, <1>5, <1>6, <1>7, <1>8, CatalogStatement

LEMMA GrantingMembershipKeeps ==
  ASSUME ContractInv, NEW s \in Sessions, grant_membership_to_current_user(s)
  PROVE  ContractInv'
<1>1. ContractTypeOK /\ Executes(s, "grant_membership") /\ CatalogInv /\ AdminInv(s)
  BY DEF grant_membership_to_current_user, ContractInv
<1>2. UNCHANGED <<contract, superuser, holder, runs, established>>
  BY DEF grant_membership_to_current_user, Catalogs
<1>3. /\ Statement(s).role = Ddl /\ Statement(s).op = "grant_membership"
      /\ at[s] \in DOMAIN script /\ Statement(s) = script[at[s]] /\ contract \in Contracts
      /\ Past(s)' = Past(s) \cup {Statement(s)}
  BY <1>1, <1>2, Advances, TypedFacts DEF Form
<1>4. /\ db' \in Catalog
      /\ db'.members = IF superuser THEN db.members ELSE db.members \cup {<<Admin, Ddl>>}
      /\ db'.schema_owner = db.schema_owner
      /\ db'.creators = db.creators /\ db'.owner = db.owner
      /\ db'.granted = db.granted /\ db'.defaults = db.defaults
  <2> DEFINE new == IF superuser THEN db.members ELSE db.members \cup {<<Admin, Ddl>>}
  <2>1. db \in Catalog /\ db' = [db EXCEPT !.members = new]
    BY <1>1, <1>3, TypedFacts DEF grant_membership_to_current_user, Catalogs
  <2>2. new \in SUBSET (Roles \X Roles)
    BY <2>1 DEF Catalog, Roles
  <2> HIDE DEF new
  <2>3. /\ db' \in Catalog /\ db'.members = new
        /\ db'.schema_owner = db.schema_owner
        /\ db'.creators = db.creators /\ db'.owner = db.owner
        /\ db'.granted = db.granted /\ db'.defaults = db.defaults
    BY <2>1, <2>2 DEF Catalog
  <2> QED
    BY <2>3 DEF new
<1>5. CatalogInv'
  BY <1>1, <1>2, <1>4, ContractStays DEF CatalogInv, Promised
<1>6. AdminInv(s)'
  <2>1. /\ at[s] = 4 /\ 4 < Len(script)
        /\ On("revoke_membership", Ddl, Database) \notin Past(s)
    BY <1>1, <1>3, GrantBeforeRevoke, TypedFacts DEF Past
  <2>2. /\ Statement(s) # On("revoke_membership", Ddl, Database)
        /\ Statement(s) # On("join_app", Ddl, Database)
        /\ Statement(s) # On("grant_create", Ddl, Database)
    BY <1>3, FrameFields
  <2>3. superuser \/ <<Admin, Ddl>> \in db'.members
    BY <1>4
  <2> QED
    BY <1>1, <1>2, <1>3, <1>4, <2>1, <2>2, <2>3 DEF AdminInv
<1>7. \A sc \in SchemasOf : Kept(sc)
  BY <1>2, <1>4, ContractStays DEF Kept, Owned, Closed, Ruled, Promised, Retired, ReaderPromised, Joined
<1>8. \A sc \in SchemasOf : /\ \A m \in 1 .. 9 : Statement(s) # schema_grants(sc)[m]
                            /\ Statement(s) # ReaderDefaults(sc)
  BY ZenonT(60), <1>1, BlockStatement, SharedFields DEF Executes
<1> QED
  BY <1>1, <1>2, <1>4, <1>5, <1>6, <1>7, <1>8, CatalogStatement

LEMMA RevokingMembershipKeeps ==
  ASSUME ContractInv, NEW s \in Sessions, revoke_membership_from_current_user(s)
  PROVE  ContractInv'
<1>1. ContractTypeOK /\ Executes(s, "revoke_membership") /\ CatalogInv /\ AdminInv(s)
  BY DEF revoke_membership_from_current_user, ContractInv
<1>2. UNCHANGED <<contract, superuser, holder, runs, established>>
  BY DEF revoke_membership_from_current_user, Catalogs
<1>3. /\ Statement(s).op = "revoke_membership"
      /\ at[s] \in DOMAIN script /\ Statement(s) = script[at[s]] /\ contract \in Contracts
      /\ Past(s)' = Past(s) \cup {Statement(s)}
  BY <1>1, <1>2, Advances, TypedFacts
<1>4. /\ db' \in Catalog
      /\ db'.members = db.members \ {<<Admin, Statement(s).role>>}
      /\ db'.schema_owner = db.schema_owner
      /\ db'.creators = db.creators /\ db'.owner = db.owner
      /\ db'.granted = db.granted /\ db'.defaults = db.defaults
  BY <1>1, <1>3, TypedFacts DEF revoke_membership_from_current_user, Catalogs, Catalog
<1>5. CatalogInv'
  BY <1>1, <1>2, <1>4, ContractStays DEF CatalogInv, Promised
<1>6. <<Ddl, App>> \in db.members => <<Ddl, App>> \in db'.members
  BY <1>4 DEF Admin, Ddl
<1>7. AdminInv(s)'
  <2>1. /\ Statement(s) # On("grant_membership", Ddl, Database)
        /\ Statement(s) # On("join_app", Ddl, Database)
        /\ Statement(s) # On("grant_create", Ddl, Database)
    BY <1>3, FrameFields
  <2>2. Statement(s).role = Ddl <=> Statement(s) = On("revoke_membership", Ddl, Database)
    BY <1>3, GrantBeforeRevoke, FrameFields
  <2>3. Statement(s).role # Ddl => <<Admin, Ddl>> \in db'.members <=> <<Admin, Ddl>> \in db.members
    BY <1>4
  <2>4. Statement(s).role = Ddl => <<Admin, Ddl>> \notin db'.members
    BY <1>4
  <2> QED
    BY <1>1, <1>2, <1>3, <1>4, <1>6, <2>1, <2>2, <2>3, <2>4 DEF AdminInv
<1>8. \A sc \in SchemasOf : Kept(sc)
  BY <1>2, <1>4, <1>6, ContractStays
  DEF Kept, Owned, Closed, Ruled, Promised, Retired, ReaderPromised, Joined
<1>9. \A sc \in SchemasOf : /\ \A m \in 1 .. 9 : Statement(s) # schema_grants(sc)[m]
                            /\ Statement(s) # ReaderDefaults(sc)
  BY ZenonT(60), <1>1, BlockStatement, SharedFields DEF Executes
<1> QED
  BY <1>1, <1>2, <1>4, <1>5, <1>7, <1>8, <1>9, CatalogStatement

LEMMA JoiningKeeps ==
  ASSUME ContractInv, NEW s \in Sessions, GrantAppToDdl(s)
  PROVE  ContractInv'
<1>1. ContractTypeOK /\ Executes(s, "join_app") /\ CatalogInv /\ AdminInv(s)
  BY DEF GrantAppToDdl, ContractInv
<1>2. UNCHANGED <<contract, superuser, holder, runs, established>>
  BY DEF GrantAppToDdl, Catalogs
<1>3. /\ Statement(s).op = "join_app" /\ Past(s)' = Past(s) \cup {Statement(s)}
  BY <1>1, <1>2, Advances
<1>4. /\ db' \in Catalog
      /\ db'.members = db.members \cup {<<Ddl, App>>}
      /\ db'.schema_owner = db.schema_owner
      /\ db'.creators = db.creators /\ db'.owner = db.owner
      /\ db'.granted = db.granted /\ db'.defaults = db.defaults
  <2> DEFINE joined == db.members \cup {<<Ddl, App>>}
  <2>1. db \in Catalog /\ db' = [db EXCEPT !.members = joined]
    BY <1>1, TypedFacts DEF GrantAppToDdl, Catalogs
  <2>2. <<Ddl, App>> \in Roles \X Roles
    BY DEF Roles
  <2>3. joined \in SUBSET (Roles \X Roles)
    BY <2>1, <2>2 DEF Catalog
  <2> HIDE DEF joined
  <2>4. /\ db' \in Catalog /\ db'.members = joined
        /\ db'.schema_owner = db.schema_owner
        /\ db'.creators = db.creators /\ db'.owner = db.owner
        /\ db'.granted = db.granted /\ db'.defaults = db.defaults
    BY <2>1, <2>3 DEF Catalog
  <2> QED
    BY <2>4 DEF joined
<1>5. CatalogInv'
  BY <1>1, <1>2, <1>4, ContractStays DEF CatalogInv, Promised
<1>6. AdminInv(s)'
  <2>1. /\ Statement(s) # On("grant_membership", Ddl, Database)
        /\ Statement(s) # On("revoke_membership", Ddl, Database)
        /\ Statement(s) # On("grant_create", Ddl, Database)
    BY <1>3, FrameFields
  <2>2. <<Admin, Ddl>> \in db'.members <=> <<Admin, Ddl>> \in db.members
    BY <1>4 DEF Admin, Ddl
  <2> QED
    BY <1>1, <1>2, <1>3, <1>4, <2>1, <2>2 DEF AdminInv
<1>7. \A sc \in SchemasOf : Kept(sc)
  BY <1>2, <1>4, ContractStays DEF Kept, Owned, Closed, Ruled, Promised, Retired, ReaderPromised, Joined
<1>8. \A sc \in SchemasOf : /\ \A m \in 1 .. 9 : Statement(s) # schema_grants(sc)[m]
                            /\ Statement(s) # ReaderDefaults(sc)
  BY ZenonT(60), <1>1, BlockStatement, SharedFields DEF Executes
<1> QED
  BY <1>1, <1>2, <1>4, <1>5, <1>6, <1>7, <1>8, CatalogStatement

LEMMA CreatingSchemaKeeps ==
  ASSUME ContractInv, NEW s \in Sessions, CreateSchema(s)
  PROVE  ContractInv'
<1>1. ContractTypeOK /\ Executes(s, "create_schema") /\ CatalogInv
  BY DEF CreateSchema, ContractInv
<1>2. UNCHANGED <<contract, superuser, holder, runs, established>>
  BY DEF CreateSchema, Catalogs
<1>3. PICK se \in SchemasOf : Statement(s) = schema_grants(se)[1]
  BY <1>1, <1>2, Advances DEF Form
<1>4. se.name \in Schemas /\ Statement(s).scope = se.name
  BY <1>1, <1>3, TypedFacts, BlockFields
<1>5. /\ db' \in Catalog
      /\ db'.schema_owner = [db.schema_owner EXCEPT ![se.name] = IF @ = None THEN Admin ELSE @]
      /\ db'.members = db.members
      /\ db'.creators = db.creators /\ db'.owner = db.owner
      /\ db'.granted = db.granted /\ db'.defaults = db.defaults
  BY <1>1, <1>4, TypedFacts DEF CreateSchema, Catalogs, Catalog, Roles
<1>6. /\ db.schema_owner \in [Schemas -> Roles \cup {None}]
      /\ \A n \in Schemas \ {se.name} : db'.schema_owner[n] = db.schema_owner[n]
      /\ db.schema_owner[se.name] # None => db'.schema_owner[se.name] = db.schema_owner[se.name]
      /\ db.schema_owner[se.name] = None => db'.schema_owner[se.name] = Admin
  BY <1>1, <1>4, <1>5, TypedFacts DEF Catalog
<1>7. Ddl # None /\ Admin # None
  BY ContractAssumption DEF Roles
<1>8. CatalogInv'
  <2>1. \A n \in Schemas : db'.schema_owner[n] \in {None, Admin, Ddl}
    BY <1>1, <1>6 DEF CatalogInv
  <2> QED
    BY <1>1, <1>2, <1>5, <2>1, ContractStays DEF CatalogInv, Promised
<1>9. AdminInv(s)'
  BY <1>1, <1>2, <1>5, AdminStays
<1>10. ASSUME NEW sc \in SchemasOf
       PROVE  Kept(sc)
  <2>1. sc.name \in Schemas
    BY <1>1, TypedFacts
  <2>2. db.schema_owner[sc.name] # None => db'.schema_owner[sc.name] = db.schema_owner[sc.name]
    BY <1>6, <2>1
  <2> QED
    BY <1>2, <1>5, <1>7, <2>2, ContractStays
    DEF Kept, Owned, Closed, Ruled, Promised, Retired, ReaderPromised, Joined
<1>11. ASSUME NEW sc \in SchemasOf, NEW m \in 1 .. 9, Statement(s) = schema_grants(sc)[m]
       PROVE  m \notin {5, 6, 7} /\ Fact(sc, m)'
  <2>1. m = 1
    BY <1>1, <1>11, BlockStatement
  <2>2. sc.name = se.name
    BY <1>4, <1>11, <2>1, BlockFields
  <2>3. db'.schema_owner[sc.name] # None
    BY <1>6, <1>7, <2>2
  <2> QED
    BY <2>1, <2>3 DEF Fact
<1>12. \A sc \in SchemasOf : Statement(s) # ReaderDefaults(sc)
  BY <1>1, SharedFields DEF Executes
<1> QED
  BY <1>1, <1>2, <1>5, <1>8, <1>9, <1>10, <1>11, <1>12, CatalogStatement

LEMMA OwningSchemaKeeps ==
  ASSUME ContractInv, NEW s \in Sessions, AlterSchemaOwner(s)
  PROVE  ContractInv'
<1>1. ContractTypeOK /\ Executes(s, "own_schema") /\ CatalogInv
  BY DEF AlterSchemaOwner, ContractInv
<1>2. UNCHANGED <<contract, superuser, holder, runs, established>>
  BY DEF AlterSchemaOwner, Catalogs
<1>3. PICK se \in SchemasOf : Statement(s) = schema_grants(se)[2]
  BY <1>1, <1>2, Advances DEF Form
<1>4. se.name \in Schemas /\ Statement(s).scope = se.name
  BY <1>1, <1>3, TypedFacts, BlockFields
<1>5. /\ db' \in Catalog
      /\ db'.schema_owner = [db.schema_owner EXCEPT ![se.name] = Ddl]
      /\ db'.members = db.members
      /\ db'.creators = db.creators /\ db'.owner = db.owner
      /\ db'.granted = db.granted /\ db'.defaults = db.defaults
  BY <1>1, <1>4, TypedFacts DEF AlterSchemaOwner, Catalogs, Catalog, Roles
<1>6. \A n \in Schemas :
         db'.schema_owner[n] = IF n = se.name THEN Ddl ELSE db.schema_owner[n]
  BY <1>1, <1>4, <1>5, TypedFacts DEF Catalog
<1>7. Ddl # None /\ Admin # None
  BY ContractAssumption DEF Roles
<1>8. CatalogInv'
  <2>1. \A n \in Schemas : db'.schema_owner[n] \in {None, Admin, Ddl}
    BY <1>1, <1>6 DEF CatalogInv
  <2> QED
    BY <1>1, <1>2, <1>5, <2>1, ContractStays DEF CatalogInv, Promised
<1>9. AdminInv(s)'
  BY <1>1, <1>2, <1>5, AdminStays
<1>10. ASSUME NEW sc \in SchemasOf
       PROVE  Kept(sc)
  <2>1. sc.name \in Schemas
    BY <1>1, TypedFacts
  <2>2. db'.schema_owner[sc.name] \in {Ddl, db.schema_owner[sc.name]}
    BY <1>6, <2>1
  <2> QED
    BY <1>2, <1>5, <1>7, <2>2, ContractStays
    DEF Kept, Owned, Closed, Ruled, Promised, Retired, ReaderPromised, Joined
<1>11. ASSUME NEW sc \in SchemasOf, NEW m \in 1 .. 9, Statement(s) = schema_grants(sc)[m]
       PROVE  m \notin {5, 6, 7} /\ Fact(sc, m)'
  <2>1. m = 2
    BY <1>1, <1>11, BlockStatement
  <2>2. sc.name = se.name
    BY <1>4, <1>11, <2>1, BlockFields
  <2>3. Owned(sc)'
    BY <1>4, <1>6, <2>2 DEF Owned
  <2> QED
    BY <2>1, <2>3 DEF Fact
<1>12. \A sc \in SchemasOf : Statement(s) # ReaderDefaults(sc)
  BY <1>1, SharedFields DEF Executes
<1> QED
  BY <1>1, <1>2, <1>5, <1>8, <1>9, <1>10, <1>11, <1>12, CatalogStatement

\* What has been established when a statement of a block is reached.
LEMMA BlockSoFar ==
  ASSUME ContractInv, NEW s \in Sessions, NEW op, Executes(s, op),
         NEW sc \in SchemasOf, NEW m \in 3 .. 5, Statement(s) = schema_grants(sc)[m]
  PROVE  Fact(sc, m - 1)
<1>1. ContractTypeOK /\ contract \in Contracts /\ at[s] \in DOMAIN script
  BY TypedFacts DEF ContractInv, Executes
<1>2. m \in 1 .. 9 /\ m - 1 \in 1 .. m - 1 /\ m - 1 \in 1 .. 9 /\ ~AboutNothing(sc, m)
  BY DEF AboutNothing
<1>3. schema_grants(sc)[m - 1] \in Past(s)
  BY <1>1, <1>2, EarlierOfBlock DEF Past, Statement
<1> QED
  BY <1>2, <1>3 DEF ContractInv, RunInv

LEMMA GrantingCreateKeeps ==
  ASSUME ContractInv, NEW s \in Sessions, GrantCreate(s)
  PROVE  ContractInv'
<1>1. ContractTypeOK /\ Executes(s, "grant_create") /\ CatalogInv /\ AdminInv(s)
  BY DEF GrantCreate, ContractInv
<1>2. UNCHANGED <<contract, superuser, holder, runs, established>>
  BY DEF GrantCreate, Catalogs
<1> DEFINE role == Statement(s).role
           scope == Statement(s).scope
<1>3. \/ Statement(s) = On("grant_create", Ddl, Database) /\ role = Ddl /\ scope = Database
      \/ \E se \in SchemasOf :
            /\ se.app_can_create /\ Statement(s) = schema_grants(se)[4]
            /\ role = App /\ scope = se.name /\ scope \in Schemas
  <2>1. \/ Statement(s) = On("grant_create", Ddl, Database)
        \/ \E se \in SchemasOf : se.app_can_create /\ Statement(s) = schema_grants(se)[4]
    BY <1>1, <1>2, Advances DEF Form
  <2>2. \A se \in SchemasOf : Statement(s) = schema_grants(se)[4] =>
            role = App /\ scope = se.name /\ scope \in Schemas
    BY <1>1, TypedFacts, BlockFields
  <2> QED
    BY <2>1, <2>2, FrameFields
<1>4. /\ db' \in Catalog
      /\ db'.creators = db.creators \cup {<<role, scope>>}
      /\ db'.members = db.members /\ db'.schema_owner = db.schema_owner
      /\ db'.owner = db.owner /\ db'.granted = db.granted /\ db'.defaults = db.defaults
  <2>1. db \in Catalog /\ db' = [db EXCEPT !.creators = @ \cup {<<role, scope>>}]
    BY <1>1, TypedFacts DEF GrantCreate, Catalogs
  <2>2. <<role, scope>> \in (Roles \cup {Public}) \X (Schemas \cup {Database})
    BY <1>3 DEF Roles
  <2> HIDE DEF role, scope
  <2> QED
    BY <2>1, <2>2 DEF Catalog
<1>5. <<role, scope>> \in ({App, Public} \X Schemas) \cup {<<Ddl, Database>>}
  BY <1>3
<1>6. CatalogInv'
  BY <1>1, <1>2, <1>4, <1>5, ContractStays DEF CatalogInv, Promised
<1>7. AdminInv(s)'
  <2>1. Past(s)' = Past(s) \cup {Statement(s)} /\ Statement(s).op = "grant_create"
    BY <1>1, <1>2, Advances
  <2>2. /\ Statement(s) # On("join_app", Ddl, Database)
        /\ Statement(s) # On("grant_membership", Ddl, Database)
        /\ Statement(s) # On("revoke_membership", Ddl, Database)
    BY <2>1, FrameFields
  <2>3. Statement(s) = On("grant_create", Ddl, Database) => role = Ddl /\ scope = Database
    BY FrameFields
  <2> QED
    BY <1>1, <1>2, <1>4, <2>1, <2>2, <2>3 DEF AdminInv
<1>8. ASSUME NEW sc \in SchemasOf
      PROVE  Closed(sc) => Closed(sc)'
  BY <1>3, <1>4 DEF Closed, App, Ddl, Public
<1>9. ASSUME NEW sc \in SchemasOf
      PROVE  Ruled(sc) => Ruled(sc)'
  <2>1. <<role, scope>> = <<App, sc.name>> => sc.app_can_create
    <3> SUFFICES ASSUME role = App, scope = sc.name PROVE sc.app_can_create
      OBVIOUS
    <3>1. App # Ddl
      BY DEF App, Ddl
    <3>2. PICK se \in SchemasOf : se.app_can_create /\ scope = se.name
      BY <1>3, <3>1
    <3>3. se = sc
      BY <1>1, <3>2, TypedFacts, ContractFacts
    <3> QED
      BY <3>2, <3>3
  <2> QED
    BY <1>4, <2>1 DEF Ruled
<1>10. \A sc \in SchemasOf : Kept(sc)
  BY <1>2, <1>4, <1>8, <1>9, ContractStays
  DEF Kept, Owned, Promised, Retired, ReaderPromised, Joined
<1>11. ASSUME NEW sc \in SchemasOf, NEW m \in 1 .. 9, Statement(s) = schema_grants(sc)[m]
       PROVE  m \notin {5, 6, 7} /\ Fact(sc, m)'
  <2>1. m = 4 /\ sc.app_can_create
    BY <1>1, <1>11, BlockStatement
  <2>2. role = App /\ scope = sc.name
    BY <1>11, <2>1, BlockFields
  <2>3. Fact(sc, 3)
    BY <1>1, <1>11, <2>1, BlockSoFar
  <2>4. Owned(sc)' /\ Closed(sc)'
    BY <1>8, <1>10, <2>3 DEF Fact, Kept
  <2>5. Ruled(sc)'
    BY <1>4, <2>1, <2>2 DEF Ruled
  <2> QED
    BY <2>1, <2>4, <2>5 DEF Fact
<1>12. \A sc \in SchemasOf : Statement(s) # ReaderDefaults(sc)
  BY <1>1, SharedFields DEF Executes
<1> QED
  BY <1>1, <1>2, <1>4, <1>6, <1>7, <1>10, <1>11, <1>12, CatalogStatement

LEMMA RevokingCreateKeeps ==
  ASSUME ContractInv, NEW s \in Sessions, RevokeCreate(s)
  PROVE  ContractInv'
<1>1. ContractTypeOK /\ Executes(s, "revoke_create") /\ CatalogInv
  BY DEF RevokeCreate, ContractInv
<1>2. UNCHANGED <<contract, superuser, holder, runs, established>>
  BY DEF RevokeCreate, Catalogs
<1> DEFINE role == Statement(s).role
           scope == Statement(s).scope
<1>3. \/ role = App /\ scope = Database
      \/ \E se \in SchemasOf : role = Public /\ scope = se.name
      \/ \E se \in SchemasOf : ~se.app_can_create /\ role = App /\ scope = se.name
  <2>1. \/ role = App /\ scope = Database
        \/ \E se \in SchemasOf : \/ Statement(s) = schema_grants(se)[3]
                                 \/ ~se.app_can_create /\ Statement(s) = schema_grants(se)[4]
    BY <1>1, <1>2, Advances DEF Form
  <2> QED
    BY <2>1, BlockFields
<1>4. /\ db' \in Catalog
      /\ db'.creators = db.creators \ {<<role, scope>>}
      /\ db'.members = db.members /\ db'.schema_owner = db.schema_owner
      /\ db'.owner = db.owner /\ db'.granted = db.granted /\ db'.defaults = db.defaults
  BY <1>1, TypedFacts DEF RevokeCreate, Catalogs, Catalog
<1>5. role # Ddl
  BY <1>3 DEF App, Ddl, Public
<1>6. CatalogInv'
  BY <1>1, <1>2, <1>4, ContractStays DEF CatalogInv, Promised
<1>7. AdminInv(s)'
  <2>1. <<Ddl, Database>> \in db.creators => <<Ddl, Database>> \in db'.creators
    BY <1>4, <1>5
  <2> QED
    BY <1>1, <1>2, <1>4, <2>1, AdminStays
<1>8. ASSUME NEW sc \in SchemasOf
      PROVE  Ruled(sc) => Ruled(sc)'
  <2>1. <<role, scope>> = <<App, sc.name>> => ~sc.app_can_create
    <3> SUFFICES ASSUME role = App, scope = sc.name PROVE ~sc.app_can_create
      OBVIOUS
    <3>1. App # Public
      BY DEF App, Public
    <3>2. scope # Database
      BY <1>1, TypedFacts, ContractAssumption
    <3>3. PICK se \in SchemasOf : ~se.app_can_create /\ scope = se.name
      BY <1>3, <3>1, <3>2
    <3>4. se = sc
      BY <1>1, <3>3, TypedFacts, ContractFacts
    <3> QED
      BY <3>3, <3>4
  <2> QED
    BY <1>4, <2>1 DEF Ruled
<1>9. \A sc \in SchemasOf : Kept(sc)
  BY <1>2, <1>4, <1>8, ContractStays
  DEF Kept, Owned, Closed, Promised, Retired, ReaderPromised, Joined
<1>10. ASSUME NEW sc \in SchemasOf, NEW m \in 1 .. 9, Statement(s) = schema_grants(sc)[m]
       PROVE  m \notin {5, 6, 7} /\ Fact(sc, m)'
  <2>1. m = 3 \/ (m = 4 /\ ~sc.app_can_create)
    BY <1>1, <1>10, BlockStatement
  <2>2. CASE m = 3
    <3>1. role = Public /\ scope = sc.name
      BY <1>10, <2>2, BlockFields
    <3>2. Fact(sc, 2)
      BY <1>1, <1>10, <2>2, BlockSoFar
    <3>3. Owned(sc)'
      BY <1>9, <3>2 DEF Fact, Kept
    <3>4. Closed(sc)'
      BY <1>4, <3>1 DEF Closed
    <3> QED
      BY <2>2, <3>3, <3>4 DEF Fact
  <2>3. CASE m = 4 /\ ~sc.app_can_create
    <3>1. role = App /\ scope = sc.name
      BY <1>10, <2>3, BlockFields
    <3>2. Fact(sc, 3)
      BY <1>1, <1>10, <2>3, BlockSoFar
    <3>3. Owned(sc)' /\ Closed(sc)'
      BY <1>9, <3>2 DEF Fact, Kept
    <3>4. Ruled(sc)'
      BY <1>4, <2>3, <3>1 DEF Ruled
    <3> QED
      BY <2>3, <3>3, <3>4 DEF Fact
  <2> QED
    BY <2>1, <2>2, <2>3
<1>11. \A sc \in SchemasOf : Statement(s) # ReaderDefaults(sc)
  BY <1>1, SharedFields DEF Executes
<1> QED
  BY <1>1, <1>2, <1>4, <1>6, <1>7, <1>9, <1>10, <1>11, CatalogStatement

LEMMA DefaultingKeeps ==
  ASSUME ContractInv, NEW s \in Sessions, AlterDefaultPrivileges(s)
  PROVE  ContractInv'
<1>1. ContractTypeOK /\ Executes(s, "default_privileges") /\ CatalogInv
  BY DEF AlterDefaultPrivileges, ContractInv
<1>2. UNCHANGED <<contract, superuser, holder, runs, established>>
  BY DEF AlterDefaultPrivileges, Catalogs
<1> DEFINE st == Statement(s)
           added == {Ddl} \X {st.scope} \X {st.role} \X st.privileges
<1>3. \/ \E se \in SchemasOf : /\ st = schema_grants(se)[8]
                               /\ st.scope = se.name /\ st.role = App
                               /\ st.privileges = se.app_table_privileges
      \/ contract.shared /\ \A se \in SchemasOf : /\ st = ReaderDefaults(se)
                                                  /\ st.scope = se.name /\ st.role = Reader
                                                  /\ st.privileges = {"SELECT"}
  <2>1. \/ \E se \in SchemasOf : st = schema_grants(se)[8]
        \/ contract.shared /\ \A se \in SchemasOf : st = ReaderDefaults(se)
    BY <1>1, <1>2, Advances DEF Form
  <2>2. \A se \in SchemasOf : st = schema_grants(se)[8] =>
          st.scope = se.name /\ st.role = App /\ st.privileges = se.app_table_privileges
    BY BlockFields
  <2>3. \A se \in SchemasOf : st = ReaderDefaults(se) =>
          st.scope = se.name /\ st.role = Reader /\ st.privileges = {"SELECT"}
    BY SharedFields
  <2> HIDE DEF st
  <2> QED
    BY <2>1, <2>2, <2>3
<1>4. contract.shared => \E se \in SchemasOf : TRUE
  BY <1>1, TypedFacts, SharedMiddle
<1>5. st.scope \in Schemas /\ st.role \in {App, Reader} /\ st.privileges \subseteq Privileges
  <2>1. \A se \in SchemasOf : se.name \in Schemas /\ se.app_table_privileges \subseteq Privileges
    BY <1>1, TypedFacts, SchemaFacts
  <2>2. {"SELECT"} \subseteq Privileges
    BY DEF Privileges
  <2> QED
    BY <1>3, <1>4, <2>1, <2>2
<1>6. /\ db' \in Catalog
      /\ db'.defaults = db.defaults \cup added
      /\ db'.members = db.members /\ db'.schema_owner = db.schema_owner
      /\ db'.creators = db.creators /\ db'.owner = db.owner /\ db'.granted = db.granted
  BY <1>1, <1>5, TypedFacts
  DEF AlterDefaultPrivileges, Catalogs, Catalog, Roles, Ddl, App, Reader
<1>7. Ddl # Admin /\ App # Reader
  BY DEF Ddl, Admin, App, Reader
<1>8. \A d \in added : d[1] = Ddl
  OBVIOUS
<1> HIDE DEF added
<1>9. CatalogInv'
  <2>1. ASSUME NEW sc \in SchemasOf, NEW p \in Privileges,
               <<Ddl, sc.name, App, p>> \in db'.defaults
        PROVE  p \in sc.app_table_privileges /\ Promised(sc)'
    <3>1. CASE <<Ddl, sc.name, App, p>> \in db.defaults
      BY <1>1, <1>6, <3>1 DEF CatalogInv, Promised
    <3>2. CASE <<Ddl, sc.name, App, p>> \in added
      <4>1. st.role = App /\ st.scope = sc.name /\ p \in st.privileges
        BY <3>2 DEF added
      <4>2. PICK se \in SchemasOf : /\ st.scope = se.name
                                    /\ st.privileges = se.app_table_privileges
        BY <1>3, <1>4, <1>7, <4>1
      <4>3. se = sc
        BY <1>1, <4>1, <4>2, TypedFacts, ContractFacts
      <4>4. Promised(sc)'
        BY <1>6, <4>1, <4>2, <4>3 DEF Promised, added
      <4> QED
        BY <4>1, <4>2, <4>3, <4>4
    <3> QED
      BY <1>6, <2>1, <3>1, <3>2
  <2>2. ASSUME NEW d \in db'.defaults
        PROVE  d[1] = Ddl \/ (~contract.shared /\ d[1] = Admin /\ d[3] = App)
    <3>1. d \in db.defaults \/ d \in added
      BY <1>6
    <3> QED
      BY <1>1, <1>8, <3>1 DEF CatalogInv
  <2> QED
    BY <1>1, <1>2, <1>6, <2>1, <2>2, ContractStays DEF CatalogInv
<1>10. AdminInv(s)'
  BY <1>1, <1>2, <1>6, AdminStays
<1>11. \A sc \in SchemasOf : Retired(sc) => Retired(sc)'
  BY <1>6, <1>7, <1>8 DEF Retired
<1>12. \A sc \in SchemasOf : Kept(sc)
  BY <1>2, <1>6, <1>11, ContractStays
  DEF Kept, Owned, Closed, Ruled, Promised, ReaderPromised, Joined
<1>13. ASSUME NEW sc \in SchemasOf, NEW m \in 1 .. 9, Statement(s) = schema_grants(sc)[m]
       PROVE  m \notin {5, 6, 7} /\ Fact(sc, m)'
  <2>1. m = 8
    BY <1>1, <1>13, BlockStatement
  <2>2. st.scope = sc.name /\ st.role = App /\ st.privileges = sc.app_table_privileges
    BY <1>13, <2>1, BlockFields
  <2>3. Promised(sc)'
    BY <1>6, <2>2 DEF Promised, added
  <2> QED
    BY <2>1, <2>3 DEF Fact
<1>14. ASSUME NEW sc \in SchemasOf, st = ReaderDefaults(sc)
       PROVE  ReaderPromised(sc)'
  <2>1. st.scope = sc.name /\ st.role = Reader /\ st.privileges = {"SELECT"}
    BY <1>14, SharedFields
  <2>2. <<Ddl, sc.name, Reader, "SELECT">> \in added
    BY <2>1 DEF added
  <2> QED
    BY <1>6, <2>2 DEF ReaderPromised
<1> QED
  BY <1>1, <1>2, <1>6, <1>9, <1>10, <1>12, <1>13, <1>14, CatalogStatement

LEMMA RetiringKeeps ==
  ASSUME ContractInv, NEW s \in Sessions, RetireLegacyDefaults(s)
  PROVE  ContractInv'
<1>1. ContractTypeOK /\ Executes(s, "retire_defaults") /\ CatalogInv
  BY DEF RetireLegacyDefaults, ContractInv
<1>2. UNCHANGED <<contract, superuser, holder, runs, established>>
  BY DEF RetireLegacyDefaults, Catalogs
<1> DEFINE retired == {Admin} \X {Statement(s).scope} \X {App} \X Privileges
<1>3. /\ db' \in Catalog
      /\ db'.defaults = db.defaults \ retired
      /\ db'.members = db.members /\ db'.schema_owner = db.schema_owner
      /\ db'.creators = db.creators /\ db'.owner = db.owner /\ db'.granted = db.granted
  BY <1>1, TypedFacts DEF RetireLegacyDefaults, Catalogs, Catalog
<1>4. Ddl # Admin
  BY DEF Ddl, Admin
<1>5. \A n, r, p : <<Ddl, n, r, p>> \in db'.defaults <=> <<Ddl, n, r, p>> \in db.defaults
  BY <1>3, <1>4
<1>6. \A sc \in SchemasOf : /\ Promised(sc)' <=> Promised(sc)
                            /\ ReaderPromised(sc)' <=> ReaderPromised(sc)
  BY <1>5 DEF Promised, ReaderPromised
<1>7. CatalogInv'
  BY <1>1, <1>2, <1>3, <1>5, <1>6, ContractStays DEF CatalogInv
<1>8. AdminInv(s)'
  BY <1>1, <1>2, <1>3, AdminStays
<1>9. \A sc \in SchemasOf : Kept(sc)
  BY <1>2, <1>3, <1>6, ContractStays DEF Kept, Owned, Closed, Ruled, Retired, Joined
<1>10. ASSUME NEW sc \in SchemasOf, NEW m \in 1 .. 9, Statement(s) = schema_grants(sc)[m]
       PROVE  m \notin {5, 6, 7} /\ Fact(sc, m)'
  <2>1. m = 9
    BY <1>1, <1>10, BlockStatement
  <2>2. Statement(s).scope = sc.name
    BY <1>10, <2>1, BlockFields
  <2>3. Retired(sc)'
    BY <1>3, <2>2 DEF Retired
  <2> QED
    BY <2>1, <2>3 DEF Fact
<1>11. \A sc \in SchemasOf : Statement(s) # ReaderDefaults(sc)
  BY <1>1, SharedFields DEF Executes
<1> QED
  BY <1>1, <1>2, <1>3, <1>7, <1>8, <1>9, <1>10, <1>11, CatalogStatement

\* A table is in one schema.
LEMMA TablesApart ==
  ASSUME contract \in Contracts, NEW sc \in SchemasOf, NEW sd \in SchemasOf,
         NEW t \in TablesIn(sc.name), t \in TablesIn(sd.name)
  PROVE  sc = sd
BY ContractFacts DEF TablesIn

LEMMA Targets ==
  ASSUME contract \in Contracts, NEW sc \in SchemasOf, NEW t \in TablesIn(sc.name)
  PROVE  /\ target(t) \in {App, Ddl}
         /\ ~sc.app_can_create => target(t) = Ddl
         /\ App \notin {None, Ddl} /\ Ddl # None
<1>1. schema_contract(SchemaOf[t]) = sc
  BY ContractOf
<1>2. ~sc.app_can_create => sc.app_owned_like = {}
  BY ContractFacts
<1> QED
  BY <1>1, <1>2, ContractAssumption DEF target, App, Ddl, Roles

LEMMA ReassigningKeeps ==
  ASSUME ContractInv, NEW s \in Sessions, reassign_schema_objects(s)
  PROVE  ContractInv'
<1>1. ContractTypeOK /\ Executes(s, "reassign") /\ CatalogInv /\ contract \in Contracts
  BY TypedFacts DEF reassign_schema_objects, ContractInv
<1>2. UNCHANGED <<contract, superuser, holder, runs, established>>
  BY DEF reassign_schema_objects, Catalogs
<1>3. PICK se \in SchemasOf : Statement(s) = schema_grants(se)[5]
  BY <1>1, <1>2, Advances DEF Form
<1>4. Statement(s).scope = se.name
  BY <1>3, BlockFields
<1> DEFINE moved == misplaced(se.name)
<1>5. moved = {t \in TablesIn(se.name) : db.owner[t] # None /\ db.owner[t] # target(t)}
  BY DEF misplaced, ExistingIn
<1>6. /\ moved \subseteq TablesIn(se.name) /\ moved \subseteq contract.tables /\ moved \subseteq Tables
      /\ \A t \in moved : target(t) \in {App, Ddl} /\ db.owner[t] # None
  BY <1>1, <1>5, Targets, TypedFacts DEF TablesIn
<1>7. db' = [db EXCEPT
               !.owner   = [t \in Tables |-> IF t \in moved THEN target(t) ELSE @[t]],
               !.granted = handed_over(moved),
               !.members = (@ \cup borrowed(moved)) \ borrowed(moved)]
  BY <1>4 DEF reassign_schema_objects, Catalogs
<1>8. db \in Catalog
  BY <1>1, TypedFacts
<1>9. (db.members \cup borrowed(moved)) \ borrowed(moved) = db.members
  BY DEF borrowed, controls
<1> HIDE DEF moved
<1>10. handed_over(moved) \subseteq Roles \X Tables \X Privileges
  <2>1. \A g \in db.granted : /\ g = <<g[1], g[2], g[3]>>
                              /\ g[1] \in Roles /\ g[2] \in Tables /\ g[3] \in Privileges
    BY <1>8 DEF Catalog
  <2>2. \A t \in moved : target(t) \in Roles
    BY <1>6 DEF Roles
  <2> QED
    BY <2>1, <2>2 DEF handed_over
<1>11. [t \in Tables |-> IF t \in moved THEN target(t) ELSE db.owner[t]] \in [Tables -> Roles \cup {None}]
  BY <1>6, <1>8 DEF Catalog, Roles
<1>12. /\ db' \in Catalog
       /\ db'.owner = [t \in Tables |-> IF t \in moved THEN target(t) ELSE db.owner[t]]
       /\ db'.granted = handed_over(moved)
       /\ db'.members = db.members /\ db'.schema_owner = db.schema_owner
       /\ db'.creators = db.creators /\ db'.defaults = db.defaults
  BY <1>7, <1>8, <1>9, <1>10, <1>11 DEF Catalog
<1>13. CatalogInv'
  BY <1>1, <1>2, <1>12, ContractStays DEF CatalogInv, Promised
<1>14. AdminInv(s)'
  BY <1>1, <1>2, <1>12, AdminStays
<1>15. \A sc \in SchemasOf : Kept(sc)
  BY <1>2, <1>12, ContractStays
  DEF Kept, Owned, Closed, Ruled, Promised, Retired, ReaderPromised, Joined
<1>16. \A t \in contract.tables :
         db'.owner[t] = IF t \in moved THEN target(t) ELSE db.owner[t]
  BY <1>1, <1>12, TypedFacts
\* What a role holds on a table changes only where the table is moved, and the
\* old owner's is then the new owner's.
<1>17. ASSUME NEW role, NEW t
       PROVE  /\ t \notin moved => held(role, t)' = held(role, t)
              /\ t \in moved /\ target(t) # role =>
                   held(role, t)' \subseteq held(role, t) /\ (db.owner[t] = role => held(role, t)' = {})
  <2>1. \A p : <<role, t, p>> \in db'.granted <=>
          \E g \in db.granted :
             <<role, t, p>> = IF g[2] \in moved /\ g[1] = db.owner[g[2]]
                              THEN <<target(g[2]), g[2], g[3]>> ELSE g
    BY <1>12 DEF handed_over
  <2>2. \A g \in db.granted : g = <<g[1], g[2], g[3]>>
    BY <1>8 DEF Catalog
  <2>3. ASSUME NEW p, <<role, t, p>> \in db'.granted
        PROVE  \/ t \in moved /\ role = target(t)
               \/ <<role, t, p>> \in db.granted /\ (t \in moved => role # db.owner[t])
    <3>1. PICK g \in db.granted :
             <<role, t, p>> = IF g[2] \in moved /\ g[1] = db.owner[g[2]]
                              THEN <<target(g[2]), g[2], g[3]>> ELSE g
      BY <2>1, <2>3
    <3>2. CASE g[2] \in moved /\ g[1] = db.owner[g[2]]
      <4>1. <<role, t, p>> = <<target(g[2]), g[2], g[3]>>
        BY <3>1, <3>2
      <4> QED
        BY <3>2, <4>1
    <3>3. CASE ~(g[2] \in moved /\ g[1] = db.owner[g[2]])
      <4>1. <<role, t, p>> = g
        BY <3>1, <3>3
      <4>2. g[1] = role /\ g[2] = t
        BY <4>1
      <4> QED
        BY <3>3, <4>1, <4>2
    <3> QED
      BY <3>2, <3>3
  <2>4. ASSUME NEW p, <<role, t, p>> \in db.granted, t \notin moved
        PROVE  <<role, t, p>> \in db'.granted
    <3> DEFINE g == <<role, t, p>>
    <3>1. g \in db.granted /\ ~(g[2] \in moved /\ g[1] = db.owner[g[2]])
      BY <2>4
    <3> HIDE DEF g
    <3>2. g = IF g[2] \in moved /\ g[1] = db.owner[g[2]] THEN <<target(g[2]), g[2], g[3]>> ELSE g
      BY <3>1
    <3> QED
      BY <2>1, <3>1, <3>2 DEF g
  <2> QED
    BY <2>3, <2>4 DEF held
<1>18. ASSUME NEW sc \in SchemasOf
       PROVE  Steady(sc)
  <2>1. \A t \in TablesIn(sc.name) : /\ target(t) \in {App, Ddl}
                                     /\ ~sc.app_can_create => target(t) = Ddl
                                     /\ t \in contract.tables
    BY <1>1, Targets DEF TablesIn
  <2>2. App \notin {None, Ddl} /\ Ddl # None
    BY ContractAssumption DEF App, Ddl, Roles
  <2>3. TablesIn(sc.name)' = TablesIn(sc.name) /\ \A t : declared(t)' = declared(t)
    BY <1>2, ContractStays
  <2>4. ASSUME Within(sc)
        PROVE  Within(sc)'
    <3> SUFFICES ASSUME NEW t \in TablesIn(sc.name), db'.owner[t] # App
                 PROVE  held(App, t)' \subseteq declared(t)
      BY <1>2, <2>1, <2>3 DEF Within, OwnedBy
    <3>1. CASE t \notin moved
      <4>1. db.owner[t] # App /\ held(App, t)' = held(App, t)
        BY <1>16, <1>17, <2>1, <3>1
      <4> QED
        BY <2>1, <2>4, <4>1 DEF Within, OwnedBy
    <3>2. CASE t \in moved
      <4>1. target(t) # App
        BY <1>16, <2>1, <3>2
      <4>2. held(App, t)' \subseteq held(App, t) /\ (db.owner[t] = App => held(App, t)' = {})
        BY <1>17, <3>2, <4>1
      <4>3. db.owner[t] # App => held(App, t) \subseteq declared(t)
        BY <2>4 DEF Within, OwnedBy
      <4> QED
        BY <4>2, <4>3
    <3> QED
      BY <3>1, <3>2
  <2>5. NoneOfApp(sc) => NoneOfApp(sc)'
    BY <1>2, <1>16, <2>1, <2>2, <2>3 DEF NoneOfApp, OwnedBy
  <2>6. Placed(sc) => Placed(sc)'
    <3>1. \A t \in TablesIn(sc.name) : db'.owner[t] # None => db.owner[t] # None
      BY <1>6, <1>16, <2>1
    <3>2. ExistingIn(sc.name)' \subseteq ExistingIn(sc.name)
      BY <2>3, <3>1 DEF ExistingIn
    <3> QED
      BY <1>16, <2>1, <3>2 DEF Placed, ExistingIn
  <2> QED
    BY <1>15, <2>4, <2>5, <2>6 DEF Steady
<1>19. ASSUME NEW sc \in SchemasOf, NEW m \in 1 .. 9, Statement(s) = schema_grants(sc)[m]
       PROVE  Fact(sc, m)'
  <2>1. m = 5
    BY <1>1, <1>19, BlockStatement
  <2>2. sc.name = se.name
    BY <1>4, <1>19, <2>1, BlockFields
  <2>3. Fact(sc, 4)
    BY <1>1, <1>19, <2>1, BlockSoFar
  <2>4. Owned(sc)' /\ Closed(sc)' /\ Ruled(sc)'
    BY <1>15, <2>3 DEF Fact, Kept
  <2>5. Placed(sc)'
    <3> SUFFICES ASSUME NEW t \in TablesIn(sc.name), db'.owner[t] # None
                 PROVE  db'.owner[t] = Ddl \/ (sc.app_can_create /\ db'.owner[t] = App)
      BY <1>2, ContractStays DEF Placed, ExistingIn
    <3>1. target(t) = Ddl \/ (sc.app_can_create /\ target(t) = App)
      BY <1>1, Targets
    <3>2. t \in contract.tables
      BY DEF TablesIn
    <3>3. db'.owner[t] = target(t)
      BY <1>5, <1>16, <2>2, <3>2 DEF moved
    <3> QED
      BY <3>1, <3>3
  <2> QED
    BY <2>1, <2>4, <2>5 DEF Fact
<1>20. ASSUME NEW sc \in SchemasOf, schema_grants(sc)[7] \in Past(s), Granted(sc)
       PROVE  Granted(sc)'
  <2>1. sc = se => TablesIn(sc.name) = {}
    <3> SUFFICES ASSUME sc = se, TablesIn(sc.name) # {} PROVE FALSE
      OBVIOUS
    <3>1. ~AboutNothing(sc, 5) /\ ~AboutNothing(sc, 7) /\ 5 \in 1 .. 9 /\ 7 \in 5 .. 9
      BY DEF AboutNothing
    <3>2. at[s] \in DOMAIN script /\ script[at[s]] = schema_grants(sc)[5]
      BY <1>1, <1>3, TypedFacts DEF Executes, Statement
    <3>3. schema_grants(sc)[7] \notin Past(s)
      BY <1>1, <3>1, <3>2, LaterOfBlock DEF Past
    <3> QED
      BY <1>20, <3>3
  <2>2. \A t \in TablesIn(sc.name) : t \notin moved /\ t \in contract.tables
    BY <1>1, <1>6, <2>1, TablesApart DEF TablesIn
  <2>3. \A t \in TablesIn(sc.name) : db'.owner[t] = db.owner[t] /\ held(App, t)' = held(App, t)
    BY <1>16, <1>17, <2>2
  <2>4. TablesIn(sc.name)' = TablesIn(sc.name) /\ DdlJobsVerify' = DdlJobsVerify
    BY <1>2, ContractStays DEF DdlJobsVerify
  <2> QED
    BY <1>2, <1>20, <2>3, <2>4 DEF Granted, OwnedBy
<1>21. ASSUME NEW sc \in SchemasOf, contract.shared
       PROVE  /\ ReaderGrant(sc) \notin Past(s)
              /\ Statement(s) # ReaderGrant(sc) /\ Statement(s) # ReaderDefaults(sc)
  <2>1. se = sc
    BY <1>1, <1>21, ContractFacts
  <2>2. at[s] \in DOMAIN script /\ script[at[s]] = schema_grants(sc)[5]
    BY <1>1, <1>3, <2>1, TypedFacts DEF Executes, Statement
  <2>3. ReaderGrant(sc) \notin Past(s)
    BY <1>1, <1>21, <2>2, ReadersLast DEF Past
  <2> QED
    BY <1>1, <2>3, SharedFields DEF Executes
<1> QED
  BY <1>1, <1>2, <1>12, <1>13, <1>14, <1>18, <1>19, <1>20, <1>21, StatementKeeps

LEMMA RevokingTablesKeeps ==
  ASSUME ContractInv, NEW s \in Sessions, RevokeOnTables(s)
  PROVE  ContractInv'
<1>1. ContractTypeOK /\ Executes(s, "revoke_tables") /\ CatalogInv /\ contract \in Contracts
  BY TypedFacts DEF RevokeOnTables, ContractInv
<1>2. UNCHANGED <<contract, superuser, holder, runs, established>>
  BY DEF RevokeOnTables, Catalogs
<1>3. PICK se \in SchemasOf : Statement(s) = schema_grants(se)[6]
  BY <1>1, <1>2, Advances DEF Form
<1>4. Statement(s).role = App /\ Statement(s).tables = TablesIn(se.name)
  BY <1>3, BlockFields
<1>5. /\ db' \in Catalog
      /\ db'.granted = db.granted \ ({App} \X TablesIn(se.name) \X Privileges)
      /\ db'.members = db.members /\ db'.schema_owner = db.schema_owner
      /\ db'.creators = db.creators /\ db'.owner = db.owner /\ db'.defaults = db.defaults
  BY <1>1, <1>4, TypedFacts DEF RevokeOnTables, Catalogs, Catalog
<1>6. CatalogInv'
  BY <1>1, <1>2, <1>5, ContractStays DEF CatalogInv, Promised
<1>7. AdminInv(s)'
  BY <1>1, <1>2, <1>5, AdminStays
<1>8. \A sc \in SchemasOf : Kept(sc)
  BY <1>2, <1>5, ContractStays
  DEF Kept, Owned, Closed, Ruled, Promised, Retired, ReaderPromised, Joined
<1>9. /\ \A role, t : held(role, t)' \subseteq held(role, t)
      /\ \A role, t : role # App \/ t \notin TablesIn(se.name) => held(role, t)' = held(role, t)
      /\ \A t \in TablesIn(se.name) : held(App, t)' = {}
  BY <1>5 DEF held
<1>10. /\ \A n : TablesIn(n)' = TablesIn(n)
       /\ \A t : declared(t)' = declared(t)
       /\ \A role : OwnedBy(role)' = OwnedBy(role)
       /\ DdlJobsVerify' = DdlJobsVerify
  BY <1>2, <1>5, ContractStays DEF OwnedBy, DdlJobsVerify
<1>11. ASSUME NEW sc \in SchemasOf
       PROVE  Steady(sc)
  <2>1. Within(sc) => Within(sc)'
    BY <1>9, <1>10 DEF Within
  <2>2. NoneOfApp(sc) => NoneOfApp(sc)'
    BY <1>10 DEF NoneOfApp
  <2>3. Placed(sc) => Placed(sc)'
    BY <1>5, <1>10 DEF Placed, ExistingIn
  <2> QED
    BY <1>8, <2>1, <2>2, <2>3 DEF Steady
<1>12. ASSUME NEW sc \in SchemasOf, NEW m \in 1 .. 9, Statement(s) = schema_grants(sc)[m]
       PROVE  Fact(sc, m)'
  <2>1. m = 6
    BY <1>1, <1>12, BlockStatement
  <2>2. TablesIn(sc.name) = TablesIn(se.name)
    BY <1>4, <1>12, <2>1, BlockFields
  <2>3. Within(sc)'
    BY <1>9, <1>10, <2>2 DEF Within
  <2> QED
    BY <2>1, <2>3 DEF Fact
<1>13. ASSUME NEW sc \in SchemasOf, schema_grants(sc)[7] \in Past(s), Granted(sc)
       PROVE  Granted(sc)'
  <2>1. sc = se => TablesIn(sc.name) = {}
    <3> SUFFICES ASSUME sc = se, TablesIn(sc.name) # {} PROVE FALSE
      OBVIOUS
    <3>1. ~AboutNothing(sc, 6) /\ ~AboutNothing(sc, 7) /\ 6 \in 1 .. 9 /\ 7 \in 6 .. 9
      BY DEF AboutNothing
    <3>2. at[s] \in DOMAIN script /\ script[at[s]] = schema_grants(sc)[6]
      BY <1>1, <1>3, TypedFacts DEF Executes, Statement
    <3>3. schema_grants(sc)[7] \notin Past(s)
      BY <1>1, <3>1, <3>2, LaterOfBlock DEF Past
    <3> QED
      BY <1>13, <3>3
  <2>2. \A t \in TablesIn(sc.name) : t \notin TablesIn(se.name)
    BY <1>1, <2>1, TablesApart
  <2>3. \A t \in TablesIn(sc.name) : held(App, t)' = held(App, t)
    BY <1>9, <2>2
  <2> QED
    BY <1>2, <1>10, <1>13, <2>3 DEF Granted
<1>14. ASSUME NEW sc \in SchemasOf
       PROVE  /\ ReaderSees(sc) => ReaderSees(sc)'
              /\ Statement(s) # ReaderGrant(sc) /\ Statement(s) # ReaderDefaults(sc)
  <2>1. \A t : held(Reader, t)' = held(Reader, t)
    BY <1>9 DEF App, Reader
  <2>2. ReaderSees(sc) => ReaderSees(sc)'
    BY <1>2, <1>10, <2>1 DEF ReaderSees
  <2> QED
    BY <1>1, <2>2, SharedFields DEF Executes
<1> QED
  BY <1>1, <1>2, <1>5, <1>6, <1>7, <1>11, <1>12, <1>13, <1>14, StatementKeeps

LEMMA GrantingTablesKeeps ==
  ASSUME ContractInv, NEW s \in Sessions, GrantOnTables(s)
  PROVE  ContractInv'
<1>1. ContractTypeOK /\ Executes(s, "grant_tables") /\ CatalogInv /\ contract \in Contracts
  BY TypedFacts DEF GrantOnTables, ContractInv
<1>2. UNCHANGED <<contract, superuser, holder, runs, established>>
  BY DEF GrantOnTables, Catalogs
<1> DEFINE st == Statement(s)
           added == {st.role} \X existing(st.tables) \X st.privileges
<1>3. \/ \E se \in SchemasOf : /\ st = schema_grants(se)[7]
                               /\ st.role = App /\ st.tables = TablesIn(se.name)
                               /\ st.privileges = se.app_table_privileges
      \/ /\ contract.shared /\ st.role = App /\ st.tables = contract.writer_update_tables
         /\ st.privileges = {"UPDATE"}
      \/ contract.shared /\ \A se \in SchemasOf :
            /\ st.role = Reader /\ st.tables = TablesIn(se.name) /\ st.privileges = {"SELECT"}
  <2>1. \/ \E se \in SchemasOf : st = schema_grants(se)[7]
        \/ contract.shared /\ st = UpdateGrant
        \/ contract.shared /\ \A se \in SchemasOf : st = ReaderGrant(se)
    BY <1>1, <1>2, Advances DEF Form
  <2>2. \A se : st = schema_grants(se)[7] =>
          /\ st.role = App /\ st.tables = TablesIn(se.name)
          /\ st.privileges = se.app_table_privileges
    BY BlockFields
  <2>3. \A se : st = ReaderGrant(se) =>
          st.role = Reader /\ st.tables = TablesIn(se.name) /\ st.privileges = {"SELECT"}
    BY SharedFields
  <2>4. st = UpdateGrant => /\ st.role = App /\ st.tables = contract.writer_update_tables
                            /\ st.privileges = {"UPDATE"}
    BY SharedFields
  <2> HIDE DEF st
  <2> QED
    BY <2>1, <2>2, <2>3, <2>4
<1>4. contract.shared => \E se \in SchemasOf : TRUE
  BY <1>1, SharedMiddle
<1>5. st.role \in Roles /\ st.tables \subseteq contract.tables /\ st.privileges \subseteq Privileges
  <2>1. \A se \in SchemasOf : se.app_table_privileges \subseteq Privileges
                              /\ TablesIn(se.name) \subseteq contract.tables
    BY <1>1, TypedFacts, SchemaFacts DEF TablesIn
  <2>2. {"SELECT"} \subseteq Privileges /\ {"UPDATE"} \subseteq Privileges
        /\ App \in Roles /\ Reader \in Roles
    BY DEF Privileges, Roles
  <2>3. contract.shared => contract.writer_update_tables \subseteq contract.tables
    BY <1>1, ContractFacts
  <2> QED
    BY <1>3, <1>4, <2>1, <2>2, <2>3
<1>6. /\ db' \in Catalog
      /\ db'.granted = db.granted \cup added
      /\ db'.members = db.members /\ db'.schema_owner = db.schema_owner
      /\ db'.creators = db.creators /\ db'.owner = db.owner /\ db'.defaults = db.defaults
  <2>1. contract.tables \subseteq Tables
    BY <1>1, TypedFacts
  <2>2. added \subseteq Roles \X Tables \X Privileges
    BY <1>5, <2>1 DEF existing
  <2>3. db \in Catalog /\ db' = [db EXCEPT !.granted = @ \cup added]
    BY <1>1, TypedFacts DEF GrantOnTables, Catalogs
  <2> HIDE DEF added
  <2> QED
    BY <2>2, <2>3 DEF Catalog
<1>7. CatalogInv'
  BY <1>1, <1>2, <1>6, ContractStays DEF CatalogInv, Promised
<1>8. AdminInv(s)'
  BY <1>1, <1>2, <1>6, AdminStays
<1>9. \A sc \in SchemasOf : Kept(sc)
  BY <1>2, <1>6, ContractStays
  DEF Kept, Owned, Closed, Ruled, Promised, Retired, ReaderPromised, Joined
<1>10. /\ \A n : TablesIn(n)' = TablesIn(n)
       /\ \A t : declared(t)' = declared(t)
       /\ \A role : OwnedBy(role)' = OwnedBy(role)
       /\ DdlJobsVerify' = DdlJobsVerify
  BY <1>2, <1>6, ContractStays DEF OwnedBy, DdlJobsVerify
<1>11. \A role, t : held(role, t) \subseteq held(role, t)'
  BY <1>6 DEF held
<1>12. \A role, t, p : p \in held(role, t)' =>
         p \in held(role, t) \/ (role = st.role /\ t \in st.tables /\ p \in st.privileges)
  BY <1>6 DEF held, existing
<1>13. ASSUME NEW role, role = st.role, NEW t \in st.tables, db.owner[t] # None
       PROVE  st.privileges \subseteq held(role, t)'
  <2>1. \A p \in st.privileges : <<role, t, p>> \in added
    BY <1>13 DEF existing
  <2> HIDE DEF added
  <2>2. \A p \in st.privileges : <<role, t, p>> \in db'.granted /\ p \in Privileges
    BY <1>5, <1>6, <2>1
  <2> QED
    BY <2>2 DEF held
<1>14. Ddl # None /\ App # Reader
  BY ContractAssumption DEF Roles, App, Reader
<1> HIDE DEF st, added
<1>15. ASSUME NEW sc \in SchemasOf, Within(sc)
       PROVE  Within(sc)'
  <2> SUFFICES ASSUME NEW t \in TablesIn(sc.name) \ OwnedBy(App), NEW p \in held(App, t)',
                      p \notin held(App, t)
               PROVE  p \in declared(t)
    BY <1>10, <1>15 DEF Within
  <2>1. st.role = App /\ t \in st.tables /\ p \in st.privileges
    BY <1>12
  <2>2. schema_contract(SchemaOf[t]) = sc
    BY <1>1, ContractOf
  <2>3. CASE \E se \in SchemasOf : st.tables = TablesIn(se.name) /\ st.privileges = se.app_table_privileges
    <3>1. PICK se \in SchemasOf :
             st.tables = TablesIn(se.name) /\ st.privileges = se.app_table_privileges
      BY <2>3
    <3>2. se = sc
      BY <1>1, <2>1, <3>1, TablesApart
    <3> QED
      BY <2>1, <2>2, <3>1, <3>2 DEF declared
  <2>4. CASE /\ contract.shared /\ st.tables = contract.writer_update_tables
             /\ st.privileges = {"UPDATE"}
    BY <2>1, <2>4 DEF declared
  <2> QED
    BY <1>3, <1>14, <2>1, <2>3, <2>4
<1>16. ASSUME NEW sc \in SchemasOf
       PROVE  Steady(sc)
  <2>1. NoneOfApp(sc) => NoneOfApp(sc)'
    BY <1>10 DEF NoneOfApp
  <2>2. Placed(sc) => Placed(sc)'
    BY <1>6, <1>10 DEF Placed, ExistingIn
  <2> QED
    BY <1>9, <1>15, <2>1, <2>2 DEF Steady
<1>17. ASSUME NEW sc \in SchemasOf
       PROVE  /\ Granted(sc) => Granted(sc)'
              /\ ReaderSees(sc) => ReaderSees(sc)'
  <2>1. Granted(sc) => Granted(sc)'
    BY <1>2, <1>10, <1>11 DEF Granted
  <2>2. ReaderSees(sc) => ReaderSees(sc)'
    BY <1>2, <1>10, <1>11 DEF ReaderSees
  <2> QED
    BY <2>1, <2>2
<1>18. \A sc : \A t \in TablesIn(sc.name) \cap OwnedBy(Ddl) : db.owner[t] # None
  BY <1>14 DEF OwnedBy
<1>19. ASSUME NEW sc \in SchemasOf, NEW m \in 1 .. 9, st = schema_grants(sc)[m]
       PROVE  Fact(sc, m)'
  <2>1. m = 7
    BY <1>1, <1>19, BlockStatement DEF st
  <2>2. /\ st.role = App /\ st.tables = TablesIn(sc.name)
        /\ st.privileges = sc.app_table_privileges
    BY <1>19, <2>1, BlockFields
  <2>3. \A t \in TablesIn(sc.name) \cap OwnedBy(Ddl) : sc.app_table_privileges \subseteq held(App, t)'
    BY <1>13, <1>18, <2>2
  <2>4. Granted(sc)'
    BY <1>10, <2>3 DEF Granted
  <2> QED
    BY <2>1, <2>4 DEF Fact
<1>20. ASSUME NEW sc \in SchemasOf
       PROVE  /\ st = ReaderGrant(sc) => ReaderSees(sc)'
              /\ st # ReaderDefaults(sc)
  <2>1. ASSUME st = ReaderGrant(sc) PROVE ReaderSees(sc)'
    <3>1. st.role = Reader /\ st.tables = TablesIn(sc.name) /\ st.privileges = {"SELECT"}
      BY <2>1, SharedFields
    <3>2. \A t \in TablesIn(sc.name) \cap OwnedBy(Ddl) : {"SELECT"} \subseteq held(Reader, t)'
      BY <1>13, <1>18, <3>1
    <3> QED
      BY <1>10, <3>2 DEF ReaderSees
  <2>2. st # ReaderDefaults(sc)
    BY <1>1, SharedFields DEF Executes, st
  <2> QED
    BY <2>1, <2>2
<1> QED
  BY <1>1, <1>2, <1>6, <1>7, <1>8, <1>16, <1>17, <1>19, <1>20, StatementKeeps DEF st

-----------------------------------------------------------------------------
(***************************************************************************)
(* Sessions.                                                               *)
(***************************************************************************)
\* The catalogs stay, and a session is where it was or has executed nothing.
LEMMA SessionsKeep ==
  ASSUME ContractInv, UNCHANGED <<contract, superuser, db, established>>,
         at' \in [Sessions -> 0 .. Len(script)],
         \A r \in Sessions : at'[r] = at[r] \/ at'[r] <= 1,
         holder' # None => holder' \in Sessions /\ at'[holder'] > 1,
         \A r \in Sessions : at'[r] > 1 => holder' = r,
         runs' \in 0 .. MaxRuns
  PROVE  ContractInv'
<1>1. ContractTypeOK /\ contract \in Contracts /\ at \in [Sessions -> 0 .. Len(script)]
      /\ Len(script) \in Nat /\ CatalogInv
  BY TypedFacts DEF ContractInv
<1>2. script' = script /\ SchemasOf' = SchemasOf /\ \A n : TablesIn(n)' = TablesIn(n)
  BY ContractStays
<1>3. \A r \in Sessions : Past(r)' = Past(r) \/ Past(r)' = {}
  <2> SUFFICES ASSUME NEW r \in Sessions PROVE Past(r)' = Past(r) \/ Past(r)' = {}
    OBVIOUS
  <2>1. Past(r)' = {script[i] : i \in 1 .. at'[r] - 1} /\ Past(r) = {script[i] : i \in 1 .. at[r] - 1}
    BY <1>2 DEF Past, before
  <2>2. at'[r] <= 1 => 1 .. at'[r] - 1 = {}
    BY <1>1
  <2> QED
    BY <2>1, <2>2
<1>4. ContractTypeOK'
  <2>1. holder' # None => holder' \in Sessions /\ Running(holder)'
    BY DEF Running
  <2>2. at' \in [Sessions -> 0 .. Len(script)']
    BY <1>2
  <2> QED
    BY <1>1, <2>1, <2>2 DEF ContractTypeOK
<1>5. LockInv'
  BY DEF LockInv
<1>6. CatalogInv'
  BY <1>1, <1>2 DEF CatalogInv, Promised
<1>7. \A sc : /\ (Within(sc) <=> Within(sc)') /\ (Granted(sc) <=> Granted(sc)')
              /\ (Placed(sc) <=> Placed(sc)') /\ (ReaderSees(sc) <=> ReaderSees(sc)')
              /\ (NoneOfApp(sc) <=> NoneOfApp(sc)')
  <2>1. /\ \A t : declared(t)' = declared(t)
        /\ \A role : OwnedBy(role)' = OwnedBy(role)
        /\ \A role, t : held(role, t)' = held(role, t)
        /\ \A sc : ExistingIn(sc.name)' = ExistingIn(sc.name)
        /\ DdlJobsVerify' = DdlJobsVerify
    BY <1>2, ContractStays DEF OwnedBy, held, ExistingIn, DdlJobsVerify
  <2> QED
    BY <1>2, <2>1 DEF Within, Granted, Placed, ReaderSees, NoneOfApp
<1>8. \A sc : /\ Owned(sc)' = Owned(sc) /\ Closed(sc)' = Closed(sc) /\ Ruled(sc)' = Ruled(sc)
              /\ Promised(sc)' = Promised(sc) /\ Retired(sc)' = Retired(sc)
              /\ ReaderPromised(sc)' = ReaderPromised(sc)
  BY DEF Owned, Closed, Ruled, Promised, Retired, ReaderPromised
<1>9. ASSUME NEW r \in Sessions
      PROVE  AdminInv(r)' /\ \A sc \in SchemasOf : RunInv(r, sc)'
  <2>1. AdminInv(r)'
    <3>1. AdminInv(r)
      BY DEF ContractInv
    <3>2. CASE Past(r)' = Past(r)
      BY <3>1, <3>2 DEF AdminInv
    <3>3. CASE Past(r)' = {}
      BY <3>3 DEF AdminInv
    <3> QED
      BY <1>3, <3>2, <3>3
  <2>2. ASSUME NEW sc \in SchemasOf
        PROVE  RunInv(r, sc)'
    <3>1. RunInv(r, sc)
      BY DEF ContractInv
    <3>2. \A m \in 1 .. 9 : Fact(sc, m) => Fact(sc, m)'
      BY <1>7, <1>8 DEF Fact
    <3>3. CASE Past(r)' = Past(r)
      BY <1>7, <1>8, <3>1, <3>2, <3>3, ContractStays DEF RunInv
    <3>4. CASE Past(r)' = {}
      BY <3>4 DEF RunInv
    <3> QED
      BY <1>3, <3>3, <3>4
  <2> QED
    BY <2>1, <2>2
<1>10. LastingInv'
  BY <1>2, <1>7, <1>8, ContractStays DEF ContractInv, LastingInv, Joined
<1> QED
  BY <1>2, <1>4, <1>5, <1>6, <1>9, <1>10 DEF ContractInv

LEMMA StartingKeeps ==
  ASSUME ContractInv, NEW s \in Sessions, Start(s)
  PROVE  ContractInv'
<1>1. /\ at \in [Sessions -> 0 .. Len(script)] /\ Len(script) \in Nat /\ Len(script) >= 9
      /\ runs \in 0 .. MaxRuns /\ MaxRuns \in Nat /\ LockInv
  BY TypedFacts, ContractAssumption DEF ContractInv, ContractTypeOK
<1>2. /\ at' \in [Sessions -> 0 .. Len(script)] /\ at'[s] = 1 /\ at[s] = 0
      /\ \A r \in Sessions \ {s} : at'[r] = at[r]
      /\ holder' = holder
  BY <1>1 DEF Start, Running
<1>3. holder' # None => holder' \in Sessions /\ at'[holder'] > 1
  BY <1>1, <1>2 DEF LockInv
<1>4. \A r \in Sessions : at'[r] > 1 => holder' = r
  BY <1>1, <1>2 DEF LockInv
<1>5. runs' \in 0 .. MaxRuns
  BY <1>1 DEF Start
<1> QED
  BY <1>2, <1>3, <1>4, <1>5, SessionsKeep DEF Start

LEMMA EndingKeeps ==
  ASSUME ContractInv, NEW s \in Sessions, end_session(s)
  PROVE  ContractInv'
<1>1. /\ at \in [Sessions -> 0 .. Len(script)] /\ Len(script) \in Nat
      /\ runs \in 0 .. MaxRuns /\ LockInv
  BY TypedFacts DEF ContractInv, ContractTypeOK
<1>2. /\ at' \in [Sessions -> 0 .. Len(script)] /\ at'[s] = 0
      /\ \A r \in Sessions \ {s} : at'[r] = at[r]
      /\ holder' = IF holder = s THEN None ELSE holder
  BY <1>1 DEF end_session
<1>3. holder' # None => holder' \in Sessions /\ at'[holder'] > 1
  BY <1>1, <1>2 DEF LockInv
<1>4. \A r \in Sessions : at'[r] > 1 => holder' = r
  BY <1>1, <1>2 DEF LockInv
<1> QED
  BY <1>1, <1>2, <1>3, <1>4, SessionsKeep DEF end_session

LEMMA LockingKeeps ==
  ASSUME ContractInv, NEW s \in Sessions, AdvisoryLock(s)
  PROVE  ContractInv'
<1>1. /\ ContractTypeOK /\ LockInv /\ CatalogInv /\ Executes(s, "lock") /\ holder = None
      /\ contract \in Contracts
  BY TypedFacts DEF ContractInv, AdvisoryLock
<1>2. holder' = s /\ UNCHANGED <<contract, superuser, db, runs, established>>
  BY DEF AdvisoryLock
<1>3. /\ at[s] \in DOMAIN script /\ Form(Statement(s), at[s]) /\ Statement(s).op = "lock"
      /\ Past(s)' = Past(s) \cup {Statement(s)} /\ at'[s] = at[s] + 1
      /\ at' \in [Sessions -> 0 .. Len(script)']
      /\ \A r \in Sessions \ {s} : at'[r] = at[r] /\ Past(r)' = Past(r)
  BY <1>1, <1>2, Advances
<1>4. at[s] = 1
  BY <1>3 DEF Form
<1>5. \A r \in Sessions : at[r] <= 1 /\ Past(r) = {}
  <2> SUFFICES ASSUME NEW r \in Sessions PROVE at[r] <= 1 /\ Past(r) = {}
    OBVIOUS
  <2>1. None \notin Sessions
    BY ContractAssumption
  <2>2. at[r] \in 0 .. Len(script) /\ Len(script) \in Nat
    BY <1>1, TypedFacts
  <2>3. at[r] <= 1
    BY <1>1, <2>1, <2>2 DEF LockInv
  <2> QED
    BY <2>2, <2>3 DEF Past, before
<1>6. Past(s)' = {Statement(s)} /\ \A r \in Sessions \ {s} : Past(r)' = {}
  BY <1>3, <1>5
<1>7. ContractTypeOK'
  BY <1>1, <1>2, <1>3, <1>4 DEF ContractTypeOK, Running
<1>8. LockInv'
  <2>1. at'[s] = 2
    BY <1>3, <1>4
  <2>2. \A r \in Sessions \ {s} : ~(at'[r] > 1)
    <3> SUFFICES ASSUME NEW r \in Sessions \ {s} PROVE ~(at'[r] > 1)
      OBVIOUS
    <3>1. at[r] \in 0 .. Len(script) /\ Len(script) \in Nat /\ at'[r] = at[r] /\ at[r] <= 1
      BY <1>1, <1>3, <1>5, TypedFacts
    <3> QED
      BY <3>1
  <2> QED
    BY <1>2, <2>1, <2>2 DEF LockInv
<1>9. CatalogInv'
  BY <1>1, <1>2, ContractStays DEF CatalogInv, Promised
<1>10. ASSUME NEW r \in Sessions
       PROVE  AdminInv(r)' /\ \A sc \in SchemasOf : RunInv(r, sc)'
  <2>1. \A st \in Past(r)' : st.op = "lock"
    BY <1>3, <1>6
  <2>2. AdminInv(r)'
    BY <2>1, FrameFields DEF AdminInv
  <2>3. ASSUME NEW sc \in SchemasOf
        PROVE  RunInv(r, sc)'
    <3>1. \A m \in 1 .. 9 : schema_grants(sc)[m] \notin Past(r)'
      <4>1. sc \in SchemaContract
        BY <1>1, TypedFacts
      <4> QED
        BY <2>1, <4>1, BlockOps
    <3>2. ReaderGrant(sc) \notin Past(r)' /\ ReaderDefaults(sc) \notin Past(r)'
      BY <2>1, SharedFields
    <3> QED
      BY <1>2, <3>1, <3>2, ContractStays DEF RunInv
  <2> QED
    BY <2>2, <2>3
<1>11. LastingInv'
  <2>1. \A sc \in SchemasOf : Kept(sc)
    BY <1>2, ContractStays
    DEF Kept, Owned, Closed, Ruled, Promised, Retired, ReaderPromised, Joined
  <2>2. \A sc \in SchemasOf : Steady(sc)
    BY <1>2, <2>1, TablesStay DEF Steady
  <2> QED
    BY <1>2, <2>2, LastingStays
<1>12. SchemasOf' = SchemasOf
  BY <1>2, ContractStays
<1> QED
  BY <1>7, <1>8, <1>9, <1>10, <1>11, <1>12 DEF ContractInv

\* A session at the end of its script has established all of it.
LEMMA AtUnlock ==
  ASSUME ContractInv, NEW s \in Sessions, Unlock(s)
  PROVE  /\ at[s] = Len(script) /\ at[s] \in DOMAIN script /\ at[s] > 1 /\ holder = s
         /\ Joined
         /\ \A sc \in SchemasOf :
              /\ Owned(sc) /\ Closed(sc) /\ Ruled(sc) /\ Placed(sc) /\ NoneOfApp(sc)
              /\ Within(sc) /\ Granted(sc) /\ Promised(sc) /\ Retired(sc)
              /\ contract.shared => ReaderSees(sc) /\ ReaderPromised(sc)
         /\ ~contract.shared => <<Admin, Ddl>> \notin db.members
<1>1. ContractTypeOK /\ contract \in Contracts /\ LockInv /\ CatalogInv /\ AdminInv(s)
  BY TypedFacts DEF ContractInv
<1>2. /\ at[s] = Len(script) /\ at[s] \in DOMAIN script /\ at[s] > 1
  <2>1. at[s] \in DOMAIN script /\ Len(script) >= 9
    BY <1>1, TypedFacts DEF Unlock
  <2>2. Form(Statement(s), at[s])
    BY <1>1, <2>1, Forms DEF Statement
  <2> QED
    BY <2>1, <2>2 DEF Form, Unlock
<1>3. holder = s
  BY <1>1, <1>2 DEF LockInv
<1>4. /\ \A sc \in SchemasOf : \A m \in 1 .. 9 :
           (m = 9 => ~contract.shared) => schema_grants(sc)[m] \in Past(s)
      /\ contract.shared => \A sc \in SchemasOf :
           ReaderGrant(sc) \in Past(s) /\ ReaderDefaults(sc) \in Past(s)
      /\ ~contract.shared /\ needs_app_membership => On("join_app", Ddl, Database) \in Past(s)
      /\ On("revoke_membership", Ddl, Database) \in Past(s)
      /\ contract.shared => ~needs_app_membership
  BY <1>1, <1>2, AllBeforeUnlock DEF Past
<1>5. Joined
  BY <1>1, <1>4 DEF Joined, AdminInv
<1>6. ASSUME NEW sc \in SchemasOf
      PROVE  /\ Owned(sc) /\ Closed(sc) /\ Ruled(sc) /\ Placed(sc) /\ NoneOfApp(sc)
             /\ Within(sc) /\ Granted(sc) /\ Promised(sc) /\ Retired(sc)
             /\ contract.shared => ReaderSees(sc) /\ ReaderPromised(sc)
  <2>1. RunInv(s, sc)
    BY DEF ContractInv
  <2>2. Fact(sc, 5) /\ Fact(sc, 6) /\ Fact(sc, 7) /\ Fact(sc, 8)
    BY <1>4, <2>1 DEF RunInv
  <2>3. Owned(sc) /\ Closed(sc) /\ Ruled(sc) /\ Placed(sc) /\ Within(sc) /\ Granted(sc) /\ Promised(sc)
    BY <2>2 DEF Fact
  <2>4. Retired(sc)
    <3>1. CASE ~contract.shared
      <4>1. Fact(sc, 9)
        BY <1>4, <2>1, <3>1 DEF RunInv
      <4> QED
        BY <4>1 DEF Fact
    <3>2. CASE contract.shared
      BY <1>1, <3>2 DEF Retired, CatalogInv, Admin, Ddl
    <3> QED
      BY <3>1, <3>2
  <2>5. NoneOfApp(sc)
    <3>1. App # None /\ App # Ddl
      BY ContractAssumption DEF Roles, App, Ddl
    <3> QED
      BY <2>3, <3>1 DEF NoneOfApp, Placed, OwnedBy, ExistingIn
  <2>6. contract.shared => ReaderSees(sc) /\ ReaderPromised(sc)
    BY <1>4, <2>1 DEF RunInv
  <2> QED
    BY <2>3, <2>4, <2>5, <2>6
<1>7. ~contract.shared => <<Admin, Ddl>> \notin db.members
  BY <1>1, <1>4 DEF AdminInv
<1> QED
  BY <1>2, <1>3, <1>5, <1>6, <1>7

LEMMA UnlockingKeeps ==
  ASSUME ContractInv, NEW s \in Sessions, Unlock(s)
  PROVE  ContractInv'
<1>1. ContractTypeOK /\ contract \in Contracts /\ LockInv /\ CatalogInv
  BY TypedFacts DEF ContractInv
<1>2. /\ at[s] > 1 /\ Joined
      /\ \A sc \in SchemasOf :
           /\ Owned(sc) /\ Closed(sc) /\ Ruled(sc) /\ NoneOfApp(sc)
           /\ Within(sc) /\ Promised(sc) /\ Retired(sc)
           /\ contract.shared => ReaderPromised(sc)
  BY AtUnlock
<1>3. /\ at' = [at EXCEPT ![s] = 0] /\ holder' = None /\ established' = TRUE
      /\ UNCHANGED <<contract, superuser, db, runs>>
  BY DEF Unlock
<1>4. at' \in [Sessions -> 0 .. Len(script)] /\ at'[s] = 0
      /\ \A r \in Sessions \ {s} : at'[r] = at[r] /\ at[r] <= 1 /\ at[r] \in Nat
  BY <1>1, <1>2, <1>3, TypedFacts, HolderAlone
<1>5. script' = script /\ SchemasOf' = SchemasOf /\ \A n : TablesIn(n)' = TablesIn(n)
  BY <1>3, ContractStays
<1>6. \A r \in Sessions : at'[r] \in Nat /\ at'[r] <= 1
  BY <1>4
<1>7. \A r \in Sessions : Past(r)' = {}
  <2> SUFFICES ASSUME NEW r \in Sessions PROVE Past(r)' = {}
    OBVIOUS
  <2>1. 1 .. at'[r] - 1 = {}
    BY <1>6
  <2> QED
    BY <2>1 DEF Past, before
<1>8. ContractTypeOK'
  BY <1>1, <1>3, <1>4, <1>5 DEF ContractTypeOK
<1>9. LockInv'
  BY <1>3, <1>6 DEF LockInv
<1>10. CatalogInv'
  BY <1>1, <1>3, <1>5 DEF CatalogInv, Promised
<1>11. \A r \in Sessions : AdminInv(r)' /\ \A sc \in SchemasOf : RunInv(r, sc)'
  BY <1>7 DEF AdminInv, RunInv
<1>12. LastingInv'
  <2>1. Joined'
    BY <1>2, <1>3, ContractStays DEF Joined
  <2>2. \A sc : /\ Owned(sc)' = Owned(sc) /\ Closed(sc)' = Closed(sc) /\ Ruled(sc)' = Ruled(sc)
                /\ Promised(sc)' = Promised(sc) /\ Retired(sc)' = Retired(sc)
                /\ ReaderPromised(sc)' = ReaderPromised(sc)
    BY <1>3 DEF Owned, Closed, Ruled, Promised, Retired, ReaderPromised
  <2>3. /\ \A t : declared(t)' = declared(t)
        /\ \A role : OwnedBy(role)' = OwnedBy(role)
        /\ \A role, t : held(role, t)' = held(role, t)
    BY <1>3, ContractStays DEF OwnedBy, held
  <2>4. \A sc : (Within(sc) => Within(sc)') /\ (NoneOfApp(sc) => NoneOfApp(sc)')
    BY <1>5, <2>3 DEF Within, NoneOfApp
  <2> QED
    BY <1>2, <1>3, <1>5, <2>1, <2>2, <2>4 DEF LastingInv
<1> QED
  BY <1>5, <1>8, <1>9, <1>10, <1>11, <1>12 DEF ContractInv

-----------------------------------------------------------------------------
(***************************************************************************)
(* Tables are created.                                                     *)
(***************************************************************************)
LEMMA CreatingKeeps ==
  ASSUME ContractInv, NEW t \in contract.tables, NEW role \in {Ddl, App, Admin}, NEW members,
         db.owner[t] = None,
         UNCHANGED <<contract, superuser, at, holder, runs, established>>,
         db' = [created(t, role) EXCEPT !.members = members],
         members = db.members \/ (contract.shared /\ members = db.members \cup {<<Admin, Ddl>>}),
         role # Admin \/ SomeRuns => may_create(role, SchemaOf[t]),
         role = Admin => contract.shared \/ ~SomeRuns,
         role = Ddl /\ ~contract.shared /\ DdlJobsVerify => Verified
  PROVE  ContractInv'
<1>1. ContractTypeOK /\ contract \in Contracts /\ LockInv /\ CatalogInv /\ db \in Catalog
      /\ t \in Tables
  BY TypedFacts DEF ContractInv
<1>2. PICK se \in SchemasOf : se.name = SchemaOf[t]
  BY <1>1, ContractFacts
<1>3. t \in TablesIn(se.name) /\ se \in SchemaContract
  BY <1>1, <1>2, TypedFacts DEF TablesIn
<1>4. /\ Ddl # Admin /\ App # Admin /\ App # Ddl /\ App # Public /\ Admin # Public
      /\ {Admin, Ddl, App} \subseteq Roles /\ None \notin {Admin, Ddl, App}
  BY ContractAssumption DEF Ddl, Admin, App, Public, Roles
<1> DEFINE granted == {d \in db.defaults : d[1] = role /\ d[2] = SchemaOf[t]}
           new == ({role} \X {t} \X Privileges) \cup {<<d[3], t, d[4]>> : d \in granted}
<1>5. db' = [db EXCEPT !.owner[t] = role, !.granted = @ \cup ({role} \X {t} \X Privileges)
                            \cup {<<d[3], t, d[4]>> : d \in granted}, !.members = members]
  BY <1>1 DEF created, Catalog
<1>6. new \subseteq Roles \X Tables \X Privileges
  <2>1. \A d \in granted : d[3] \in Roles /\ d[4] \in Privileges
    BY <1>1 DEF Catalog
  <2> HIDE DEF granted
  <2> QED
    BY <1>1, <1>4, <2>1
<1>7. db.granted \cup ({role} \X {t} \X Privileges) \cup {<<d[3], t, d[4]>> : d \in granted}
        = db.granted \cup new
  OBVIOUS
<1>8. \A r, p : <<r, t, p>> \in new <=>
         p \in Privileges /\ (r = role \/ <<role, SchemaOf[t], r, p>> \in db.defaults)
  <2>1. \A d \in db.defaults : d = <<d[1], d[2], d[3], d[4]>> /\ d[4] \in Privileges
    BY <1>1 DEF Catalog
  <2>2. ASSUME NEW r, NEW p, <<role, SchemaOf[t], r, p>> \in db.defaults
        PROVE  p \in Privileges /\ <<r, t, p>> \in new
    <3> DEFINE d == <<role, SchemaOf[t], r, p>>
    <3>1. d \in granted /\ d[3] = r /\ d[4] = p /\ p \in Privileges
      BY <2>1, <2>2
    <3> HIDE DEF d, granted
    <3> QED
      BY <3>1
  <2>3. ASSUME NEW r, NEW p, <<r, t, p>> \in new, r # role
        PROVE  p \in Privileges /\ <<role, SchemaOf[t], r, p>> \in db.defaults
    <3>1. PICK d \in granted : <<r, t, p>> = <<d[3], t, d[4]>>
      BY <2>3
    <3>2. d = <<d[1], d[2], d[3], d[4]>> /\ d[4] \in Privileges /\ d[1] = role /\ d[2] = SchemaOf[t]
          /\ d \in db.defaults
      BY <2>1
    <3> QED
      BY <3>1, <3>2
  <2>4. \A r, p : r = role => (<<r, t, p>> \in new <=> p \in Privileges)
    <3>1. \A d \in granted : d[4] \in Privileges
      BY <2>1
    <3> HIDE DEF granted
    <3> QED
      BY <3>1
  <2> HIDE DEF new
  <2> QED
    BY <2>2, <2>3, <2>4
<1>9. \A g \in new : g[2] = t
  OBVIOUS
<1>10. members \subseteq Roles \X Roles
  BY <1>1, <1>4 DEF Catalog
<1> HIDE DEF new, granted
<1>11. db' = [db EXCEPT !.owner[t] = role, !.granted = db.granted \cup new, !.members = members]
  BY <1>1, <1>5, <1>7 DEF Catalog
<1>12. /\ db' \in Catalog
       /\ db'.owner = [db.owner EXCEPT ![t] = role]
       /\ db'.granted = db.granted \cup new
       /\ db'.members = members /\ db'.schema_owner = db.schema_owner
       /\ db'.creators = db.creators /\ db'.defaults = db.defaults
  <2> DEFINE owner == [db.owner EXCEPT ![t] = role]
             all == db.granted \cup new
  <2>1. owner \in [Tables -> Roles \cup {None}]
    BY <1>1, <1>4 DEF Catalog
  <2>2. all \subseteq Roles \X Tables \X Privileges
    BY <1>1, <1>6 DEF Catalog
  <2>3. db' = [db EXCEPT !.owner = owner, !.granted = all, !.members = members]
    BY <1>1, <1>11 DEF Catalog
  <2>4. db \in Catalog
    BY <1>1
  <2> HIDE DEF owner, all
  <2>5. /\ db'.owner = owner /\ db'.granted = all /\ db'.members = members
        /\ db'.roles = db.roles /\ db'.schema_owner = db.schema_owner
        /\ db'.creators = db.creators /\ db'.defaults = db.defaults
    BY <2>3, <2>4 DEF Catalog
  <2>6. db' = [roles |-> db'.roles, members |-> db'.members, schema_owner |-> db'.schema_owner,
               creators |-> db'.creators, owner |-> db'.owner, granted |-> db'.granted,
               defaults |-> db'.defaults]
    BY <2>3, <2>4 DEF Catalog
  <2>7. db' \in Catalog
    BY <1>10, <2>1, <2>2, <2>4, <2>5, <2>6 DEF Catalog
  <2> QED
    BY <2>5, <2>7 DEF owner, all
<1>13. /\ db'.owner[t] = role
       /\ \A u \in contract.tables \ {t} : db'.owner[u] = db.owner[u]
  BY <1>1, <1>12, TypedFacts DEF Catalog
<1>14. /\ \A r, u : u # t => held(r, u)' = held(r, u)
       /\ \A r, p : p \in held(r, t)' <=>
            p \in Privileges /\ (p \in held(r, t) \/ r = role
                                 \/ <<role, SchemaOf[t], r, p>> \in db.defaults)
  <2>1. \A r, u, p : u # t => (<<r, u, p>> \in db'.granted <=> <<r, u, p>> \in db.granted)
    BY <1>9, <1>12
  <2>2. \A r, p : <<r, t, p>> \in db'.granted <=> <<r, t, p>> \in db.granted \/ <<r, t, p>> \in new
    BY <1>12
  <2> QED
    BY <1>8, <2>1, <2>2 DEF held
<1>15. /\ script' = script /\ SchemasOf' = SchemasOf /\ \A n : TablesIn(n)' = TablesIn(n)
       /\ \A u : declared(u)' = declared(u)
       /\ DdlJobsVerify' = DdlJobsVerify
  BY ContractStays DEF DdlJobsVerify
<1>16. CatalogInv'
  <2>1. members \subseteq {<<Admin, Ddl>>, <<Ddl, App>>}
    BY <1>1 DEF CatalogInv
  <2> QED
    BY <1>1, <1>12, <1>15, <2>1 DEF CatalogInv, Promised
<1>17. \A r \in Sessions : Past(r)' = Past(r)
  BY <1>15 DEF Past, before
<1>18. \A r \in Sessions : AdminInv(r)'
  BY <1>12, <1>17 DEF ContractInv, AdminInv
\* The service may create only where it has been left the right to.
<1>19. ASSUME NEW sc \in SchemasOf, Owned(sc), Closed(sc), Ruled(sc), t \in TablesIn(sc.name),
              may_create(role, SchemaOf[t])
       PROVE  role = Ddl \/ (role = App /\ sc.app_can_create)
  <2>1. SchemaOf[t] = sc.name
    BY <1>19 DEF TablesIn
  <2>2. <<Public, sc.name>> \notin db.creators /\ db.schema_owner[sc.name] = Ddl
    BY <1>19 DEF Owned, Closed
  <2>3. role = Ddl \/ <<role, sc.name>> \in db.creators
    BY <1>19, <2>1, <2>2 DEF may_create
  <2>4. <<Admin, sc.name>> \notin db.creators
    BY <1>1, <1>4 DEF CatalogInv
  <2> QED
    BY <1>19, <2>3, <2>4 DEF Ruled
<1>20. ASSUME NEW sc \in SchemasOf
       PROVE  /\ Kept(sc) /\ Granting(sc) /\ Steady(sc)
  <2>1. Kept(sc)
    <3>1. Joined => Joined'
      BY <1>12, ContractStays DEF Joined
    <3> QED
      BY <1>12, <3>1 DEF Kept, Owned, Closed, Ruled, Promised, Retired, ReaderPromised
  <2>2. \A u \in TablesIn(sc.name) : u \in contract.tables
    BY DEF TablesIn
  <2>3. ASSUME Within(sc), SomeRuns \/ Retired(sc)
        PROVE  Within(sc)'
    <3> SUFFICES ASSUME NEW u \in TablesIn(sc.name), db'.owner[u] # App
                 PROVE  held(App, u)' \subseteq declared(u)
      BY <1>15, <2>2 DEF Within, OwnedBy
    <3>1. CASE u # t
      BY <1>13, <1>14, <2>2, <2>3, <3>1 DEF Within, OwnedBy
    <3>2. CASE u = t
      <4>1. role # App /\ held(App, t) \subseteq declared(t)
        BY <1>4, <1>13, <2>3, <3>2 DEF Within, OwnedBy
      <4>2. sc = se /\ schema_contract(SchemaOf[t]) = se
        BY <1>1, <1>2, <1>3, <3>2, TablesApart, ContractOf
      <4>3. ASSUME NEW p \in Privileges, <<role, SchemaOf[t], App, p>> \in db.defaults
            PROVE  p \in declared(t)
        <5>1. CASE role = Ddl
          BY <1>1, <1>2, <4>2, <4>3, <5>1 DEF CatalogInv, declared
        <5>2. CASE role = Admin
          <6>1. ~contract.shared
            BY <1>1, <1>4, <4>3, <5>2 DEF CatalogInv
          <6>2. Retired(sc)
            BY <2>3, <5>2, <6>1
          <6> QED
            BY <1>2, <4>2, <4>3, <5>2, <6>2 DEF Retired
        <5> QED
          BY <4>1, <5>1, <5>2
      <4> QED
        BY <1>14, <3>2, <4>1, <4>3
    <3> QED
      BY <3>1, <3>2
  <2>4. ASSUME Owned(sc), Closed(sc), Ruled(sc), NoneOfApp(sc)
        PROVE  NoneOfApp(sc)'
    <3> SUFFICES ASSUME ~sc.app_can_create, NEW u \in TablesIn(sc.name), db'.owner[u] = App
                 PROVE  FALSE
      BY <1>15, <2>2 DEF NoneOfApp, OwnedBy
    <3>1. u = t /\ role = App
      BY <1>13, <2>2, <2>4 DEF NoneOfApp, OwnedBy
    <3> QED
      BY <1>4, <1>19, <2>4, <3>1
  <2>5. ASSUME Owned(sc), Closed(sc), Ruled(sc), Placed(sc), SomeRuns
        PROVE  Placed(sc)'
    <3> SUFFICES ASSUME NEW u \in TablesIn(sc.name), db'.owner[u] # None
                 PROVE  db'.owner[u] = Ddl \/ (sc.app_can_create /\ db'.owner[u] = App)
      BY <1>15 DEF Placed, ExistingIn
    <3>1. CASE u # t
      BY <1>13, <2>2, <2>5, <3>1 DEF Placed, ExistingIn
    <3>2. CASE u = t
      BY <1>13, <1>19, <2>5, <3>2
    <3> QED
      BY <3>1, <3>2
  <2>6. ASSUME Granted(sc)
        PROVE  Granted(sc)'
    <3> SUFFICES ASSUME established \/ (~contract.shared /\ DdlJobsVerify),
                        NEW u \in TablesIn(sc.name), db'.owner[u] = Ddl
                 PROVE  sc.app_table_privileges \subseteq held(App, u)'
      BY <1>15, <2>2 DEF Granted, OwnedBy
    <3>1. CASE u # t
      BY <1>13, <1>14, <2>2, <2>6, <3>1 DEF Granted, OwnedBy
    <3>2. CASE u = t
      <4>1. role = Ddl /\ sc = se
        BY <1>1, <1>3, <1>13, <3>2, TablesApart
      <4>2. Promised(sc)
        <5>1. CASE established
          BY <5>1 DEF ContractInv, LastingInv
        <5>2. CASE ~established
          <6>1. defaults_grant_app(sc)
            BY <4>1, <5>2 DEF Verified, service_verify, SchemasOf
          <6> QED
            BY <1>1, <6>1 DEF defaults_grant_app, CatalogInv, Privileges
        <5> QED
          BY <5>1, <5>2
      <4>3. sc.app_table_privileges \subseteq Privileges
        BY <1>3, <4>1, SchemaFacts
      <4> QED
        BY <1>2, <1>14, <3>2, <4>1, <4>2, <4>3 DEF Promised
    <3> QED
      BY <3>1, <3>2
  <2>7. ASSUME contract.shared, ReaderSees(sc)
        PROVE  ReaderSees(sc)'
    <3> SUFFICES ASSUME established, NEW u \in TablesIn(sc.name), db'.owner[u] = Ddl
                 PROVE  "SELECT" \in held(Reader, u)'
      BY <1>15, <2>2 DEF ReaderSees, OwnedBy
    <3>1. CASE u # t
      BY <1>13, <1>14, <2>2, <2>7, <3>1 DEF ReaderSees, OwnedBy
    <3>2. CASE u = t
      <4>1. role = Ddl /\ sc = se
        BY <1>1, <1>3, <1>13, <3>2, TablesApart
      <4>2. ReaderPromised(sc)
        BY <2>7 DEF ContractInv, LastingInv
      <4> QED
        BY <1>2, <1>14, <3>2, <4>1, <4>2 DEF ReaderPromised, Privileges
    <3> QED
      BY <3>1, <3>2
  <2>8. Steady(sc)
    BY <2>1, <2>3, <2>4, <2>5 DEF Steady
  <2> QED
    BY <2>1, <2>6, <2>7, <2>8 DEF Granting
<1>21. ASSUME NEW r \in Sessions, NEW sc \in SchemasOf
       PROVE  RunInv(r, sc)'
  <2>1. RunInv(r, sc)
    BY DEF ContractInv
  <2>2. Past(r) # {} => SomeRuns
    <3>1. at[r] = 0 => Past(r) = {}
      BY DEF Past, before
    <3> QED
      BY <3>1 DEF SomeRuns, Running
  <2>3. established => Promised(sc) /\ (contract.shared => ReaderPromised(sc))
    BY DEF ContractInv, LastingInv
  <2>4. ASSUME NEW m \in 1 .. 9, schema_grants(sc)[m] \in Past(r)
        PROVE  Fact(sc, m)'
    <3>1. Fact(sc, m) /\ SomeRuns /\ Steady(sc) /\ Granting(sc)
      BY <1>20, <2>1, <2>2, <2>4 DEF RunInv
    <3>2. m = 7 => Granted(sc)'
      BY <2>3, <3>1 DEF Fact, Granting
    <3>3. m # 7 => Fact(sc, m)'
      BY <3>1 DEF Fact, Steady, Kept
    <3> QED
      BY <3>2, <3>3 DEF Fact
  <2>5. contract.shared /\ ReaderGrant(sc) \in Past(r) => ReaderSees(sc)'
    BY <1>20, <2>1, <2>3 DEF RunInv, Granting
  <2>6. contract.shared /\ ReaderDefaults(sc) \in Past(r) => ReaderPromised(sc)'
    BY <1>20, <2>1 DEF RunInv, Kept
  <2> QED
    BY <1>17, <2>4, <2>5, <2>6, ContractStays DEF RunInv
<1>22. LastingInv'
  BY <1>20, LastingStays
<1>23. ContractTypeOK' /\ LockInv'
  BY <1>1, <1>12, <1>15 DEF ContractTypeOK, LockInv, Running
<1> QED
  BY <1>15, <1>16, <1>18, <1>21, <1>22, <1>23 DEF ContractInv

LEMMA MigratingKeeps ==
  ASSUME ContractInv, NEW env \in Environments, NEW t \in contract.tables, Migrate(env, t)
  PROVE  ContractInv'
<1>1. db \in Catalog
  BY TypedFacts DEF ContractInv
<1>2. PICK role : role = migration_role(env)
  OBVIOUS
<1>3. role \in {Ddl, App, Admin} /\ (role = Admin => contract.shared)
  BY <1>2 DEF migration_role, Ddl, App, Admin
<1>4. role = Ddl /\ ~contract.shared /\ DdlJobsVerify => Verified
  BY <1>2 DEF migration_role, database_secret_purpose, DdlJobsVerify, Migrate, App, Ddl
<1>5. /\ db.owner[t] = None /\ may_create(role, SchemaOf[t])
      /\ UNCHANGED <<contract, superuser, at, holder, runs, established>>
  BY <1>2 DEF Migrate
<1>6. PICK members : /\ members = db.members \/ (contract.shared /\ members = db.members \cup {<<Admin, Ddl>>})
                     /\ db' = [created(t, role) EXCEPT !.members = members]
  <2>1. created(t, role).members = db.members
        /\ created(t, role) = [created(t, role) EXCEPT !.members = created(t, role).members]
    BY <1>1 DEF created, Catalog
  <2>2. \/ db' = created(t, role)
        \/ contract.shared /\ db' = [created(t, role) EXCEPT !.members = @ \cup {<<Admin, Ddl>>}]
    BY <1>2 DEF Migrate
  <2>3. CASE db' = created(t, role)
    BY <2>1, <2>3
  <2>4. CASE contract.shared /\ db' = [created(t, role) EXCEPT !.members = @ \cup {<<Admin, Ddl>>}]
    BY <2>1, <2>4
  <2> QED
    BY <2>2, <2>3, <2>4
<1> QED
  BY <1>3, <1>4, <1>5, <1>6, CreatingKeeps

LEMMA RuntimeCreatingKeeps ==
  ASSUME ContractInv, NEW t \in contract.tables, RuntimeCreates(t)
  PROVE  ContractInv'
<1>1. db \in Catalog
  BY TypedFacts DEF ContractInv
<1>2. PICK members : members = db.members /\ db' = [created(t, App) EXCEPT !.members = members]
  BY ZenonT(60), <1>1 DEF RuntimeCreates, created, Catalog
<1>3. App # Admin /\ App # Ddl
  BY DEF App, Admin, Ddl
<1> QED
  BY <1>2, <1>3, CreatingKeeps DEF RuntimeCreates

LEMMA AdminCreatingKeeps ==
  ASSUME ContractInv, NEW t \in contract.tables, AdminCreates(t)
  PROVE  ContractInv'
<1>1. db \in Catalog
  BY TypedFacts DEF ContractInv
<1>2. PICK members : members = db.members /\ db' = [created(t, Admin) EXCEPT !.members = members]
  BY ZenonT(60), <1>1 DEF AdminCreates, created, Catalog
<1>3. Admin # Ddl /\ ~SomeRuns
  BY DEF Admin, Ddl, AdminCreates, SomeRuns
<1> QED
  BY <1>2, <1>3, CreatingKeeps DEF AdminCreates

-----------------------------------------------------------------------------
(***************************************************************************)
(* The invariant.                                                          *)
(***************************************************************************)
LEMMA ContractInitInv == Init => ContractInv
<1> SUFFICES ASSUME Init PROVE ContractInv
  OBVIOUS
<1>1. contract \in Contracts /\ contract.schemas \in Seq(SchemaContract)
      /\ contract.tables \subseteq Tables /\ contract.shared \in BOOLEAN
  BY ContractFacts DEF Init
<1>2. {Admin, Legacy, App, Ddl} \subseteq Roles /\ Admin # Ddl
  BY DEF Roles, Admin, Ddl
<1>3. \/ db = NewDatabase
      \/ \E t \in contract.tables : db = LegacyDatabase(t)
  BY DEF Init
<1>4. \A t \in contract.tables : SchemaOf[t] \in Schemas
  BY <1>1 DEF Schemas
<1>5. db \in Catalog
  <2>1. CASE db = NewDatabase
    BY <1>2, <2>1 DEF NewDatabase, Catalog
  <2>2. CASE \E t \in contract.tables : db = LegacyDatabase(t)
    <3>1. PICK t \in contract.tables : db = LegacyDatabase(t)
      BY <2>2
    <3> DEFINE apps == IF contract.shared THEN {} ELSE {App}
               schemas == {SchemaOf[u] : u \in contract.tables}
               creators == ({Public} \cup apps) \X schemas
               granted == ({Legacy} \cup apps) \X {t} \X Privileges
               defaults == {Admin} \X schemas \X apps \X Privileges
    <3>2. apps \subseteq Roles /\ schemas \subseteq Schemas
      BY <1>2, <1>4
    <3> HIDE DEF apps, schemas
    <3>3. /\ creators \subseteq (Roles \cup {Public}) \X (Schemas \cup {Database})
          /\ granted \subseteq Roles \X Tables \X Privileges
          /\ defaults \subseteq Roles \X Schemas \X Roles \X Privileges
      BY <1>1, <1>2, <3>2
    <3>4. {Admin, Legacy} \cup apps \subseteq Roles
      BY <1>2, <3>2
    <3>5. db = [roles |-> {Admin, Legacy} \cup apps, members |-> {}, creators |-> creators,
                schema_owner |-> [s \in Schemas |-> Admin],
                owner |-> [u \in Tables |-> IF u = t THEN Legacy ELSE None],
                granted |-> granted, defaults |-> defaults]
      BY <3>1 DEF LegacyDatabase, apps, schemas
    <3>6. /\ [s \in Schemas |-> Admin] \in [Schemas -> Roles \cup {None}]
          /\ [u \in Tables |-> IF u = t THEN Legacy ELSE None] \in [Tables -> Roles \cup {None}]
      BY <1>2
    <3> HIDE DEF creators, granted, defaults
    <3> QED
      BY <3>3, <3>4, <3>5, <3>6 DEF Catalog
  <2> QED
    BY <1>3, <2>1, <2>2
<1>6. /\ at = [s \in Sessions |-> 0] /\ holder = None /\ runs = 0 /\ established = FALSE
      /\ superuser \in BOOLEAN
  BY DEF Init
<1>7. Len(script) \in Nat
  <2>1. Len(middle) \in Nat /\ Len(script) = Len(middle) + 9
    BY <1>1, Script
  <2> QED
    BY <2>1
<1>8. ContractTypeOK
  <2>1. runs \in 0 .. MaxRuns
    BY <1>6, ContractAssumption
  <2>2. at \in [Sessions -> 0 .. Len(script)]
    BY <1>6, <1>7
  <2> QED
    BY <1>1, <1>5, <1>6, <2>1, <2>2 DEF ContractTypeOK
<1>9. LockInv
  BY <1>6 DEF LockInv
<1>10. CatalogInv
  <2>1. \A n \in Schemas : db.schema_owner[n] \in {None, Admin, Ddl}
    BY <1>3 DEF NewDatabase, LegacyDatabase
  <2>2. db.creators \subseteq {App, Public} \X Schemas
    BY <1>3, <1>4 DEF NewDatabase, LegacyDatabase
  <2>3. db.members = {}
    BY <1>3 DEF NewDatabase, LegacyDatabase
  <2>4. \A d \in db.defaults : ~contract.shared /\ d[1] = Admin /\ d[3] = App
    BY <1>3 DEF NewDatabase, LegacyDatabase
  <2> QED
    BY <1>2, <2>1, <2>2, <2>3, <2>4 DEF CatalogInv
<1>11. \A s \in Sessions : Past(s) = {}
  BY <1>6 DEF Past, before
<1>12. \A s \in Sessions : AdminInv(s) /\ \A sc \in SchemasOf : RunInv(s, sc)
  BY <1>11 DEF AdminInv, RunInv
<1>13. LastingInv
  BY <1>6 DEF LastingInv
<1> QED
  BY <1>8, <1>9, <1>10, <1>12, <1>13 DEF ContractInv

LEMMA ContractNextInv == ContractInv /\ [Next]_vars => ContractInv'
<1> SUFFICES ASSUME ContractInv, [Next]_vars PROVE ContractInv'
  OBVIOUS
<1>1. CASE \E s \in Sessions : Start(s)
  BY <1>1, StartingKeeps
<1>2. ASSUME NEW s \in Sessions, Execute(s) PROVE ContractInv'
  <2>1. CASE AdvisoryLock(s)
    BY <2>1, LockingKeeps
  <2>2. CASE ensure_role(s)
    BY <2>2, EnsuringKeeps
  <2>3. CASE grant_membership_to_current_user(s)
    BY <2>3, GrantingMembershipKeeps
  <2>4. CASE revoke_membership_from_current_user(s)
    BY <2>4, RevokingMembershipKeeps
  <2>5. CASE GrantAppToDdl(s)
    BY <2>5, JoiningKeeps
  <2>6. CASE CreateSchema(s)
    BY <2>6, CreatingSchemaKeeps
  <2>7. CASE AlterSchemaOwner(s)
    BY <2>7, OwningSchemaKeeps
  <2>8. CASE GrantCreate(s)
    BY <2>8, GrantingCreateKeeps
  <2>9. CASE RevokeCreate(s)
    BY <2>9, RevokingCreateKeeps
  <2>10. CASE reassign_schema_objects(s)
    BY <2>10, ReassigningKeeps
  <2>11. CASE RevokeOnTables(s)
    BY <2>11, RevokingTablesKeeps
  <2>12. CASE GrantOnTables(s)
    BY <2>12, GrantingTablesKeeps
  <2>13. CASE AlterDefaultPrivileges(s)
    BY <2>13, DefaultingKeeps
  <2>14. CASE RetireLegacyDefaults(s)
    BY <2>14, RetiringKeeps
  <2>15. CASE Unlock(s)
    BY <2>15, UnlockingKeeps
  <2> QED
    BY <1>2, <2>1, <2>2, <2>3, <2>4, <2>5, <2>6, <2>7, <2>8, <2>9, <2>10, <2>11, <2>12,
       <2>13, <2>14, <2>15 DEF Execute
<1>3. CASE \E s \in Sessions : Interrupt(s) \/ Refuse(s)
  BY <1>3, EndingKeeps DEF Interrupt, Refuse
<1>4. CASE \E env \in Environments, t \in contract.tables : Migrate(env, t)
  BY <1>4, MigratingKeeps
<1>5. CASE \E t \in contract.tables : RuntimeCreates(t)
  BY <1>5, RuntimeCreatingKeeps
<1>6. CASE \E t \in contract.tables : AdminCreates(t)
  BY <1>6, AdminCreatingKeeps
<1>7. CASE UNCHANGED vars
  <2>1. ContractTypeOK /\ LockInv
    BY DEF ContractInv
  <2> QED
    BY <1>7, <2>1, SessionsKeep DEF vars, ContractTypeOK, LockInv
<1> QED
  BY <1>1, <1>2, <1>3, <1>4, <1>5, <1>6, <1>7 DEF Next

THEOREM ContractInvariance == ContractSpec => []ContractInv
  BY ContractInitInv, ContractNextInv, PTL DEF ContractSpec

\* The catalogs name known roles, schemas and tables, and the lock is held by a
\* session that runs a bootstrap.
THEOREM ContractTypeCorrect == ContractSpec => []ContractTypeOK
<1>1. ContractInv => ContractTypeOK
  BY DEF ContractInv
<1> QED
  BY <1>1, ContractInvariance, PTL

\* Once a bootstrap has completed the service holds no more than the contract
\* gives it, in no window of a repeated run and on no table made since.
THEOREM AppStaysToDml == ContractSpec => []AppStaysDml
<1>1. ContractInv => AppStaysDml
  <2> SUFFICES ASSUME ContractInv, established, NEW sc \in Range(contract.schemas)
               PROVE  /\ may_create(App, sc.name) => sc.app_can_create
                      /\ \A t \in TablesIn(sc.name) \ OwnedBy(App) : held(App, t) \subseteq declared(t)
                      /\ ~sc.app_can_create => OwnedBy(App) \cap TablesIn(sc.name) = {}
    BY DEF AppStaysDml
  <2>1. Owned(sc) /\ Closed(sc) /\ Ruled(sc) /\ NoneOfApp(sc) /\ Within(sc)
    BY DEF ContractInv, LastingInv, SchemasOf
  <2>2. App # Ddl
    BY DEF App, Ddl
  <2>3. may_create(App, sc.name) => sc.app_can_create
    BY <2>1, <2>2 DEF may_create, Owned, Closed, Ruled
  <2> QED
    BY <2>1, <2>3 DEF NoneOfApp, Within
<1> QED
  BY <1>1, ContractInvariance, PTL

\* A migration that has verified the contract of an established database can
\* alter every table, the service's own too.
THEOREM VerifiedTablesAlterable == ContractSpec => []VerifiedIsAlterable
<1>1. ContractInv => VerifiedIsAlterable
  <2> SUFFICES ASSUME ContractInv, established, Verified,
                      NEW t \in contract.tables, db.owner[t] # None
               PROVE  CanAlter(Ddl, t)
    BY DEF VerifiedIsAlterable
  <2>1. contract \in Contracts
    BY TypedFacts DEF ContractInv
  <2>2. PICK sc \in SchemasOf : sc.name = SchemaOf[t]
    BY <2>1, ContractFacts
  <2>3. owners_allowed(sc)
    <3>1. CASE contract.shared
      BY <2>1, <3>1, ContractFacts DEF Verified, shared_verify
    <3>2. CASE ~contract.shared
      BY <3>2 DEF Verified, service_verify, SchemasOf
    <3> QED
      BY <3>1, <3>2
  <2>4. db.owner[t] = Ddl \/ (db.owner[t] = App /\ sc.app_owned_like # {})
    BY <2>2, <2>3 DEF owners_allowed, ExistingIn, TablesIn
  <2>5. sc.app_owned_like # {} => <<Ddl, App>> \in db.members
    BY DEF ContractInv, LastingInv, Joined, needs_app_membership, SchemasOf
  <2> QED
    BY <2>4, <2>5 DEF CanAlter
<1> QED
  BY <1>1, ContractInvariance, PTL

\* A bootstrap that reaches its end has established the contract, whatever was
\* there before, wherever earlier runs stopped, and whatever the service and its
\* migrations did meanwhile.
THEOREM CompletedRunsConform == ContractSpec => CompletedRunConforms
<1>1. ASSUME ContractInv, NEW s \in Sessions, Unlock(s)
      PROVE  /\ Conforms
             /\ AdminMemberships \subseteq (IF contract.shared THEN {<<Admin, Ddl>>} ELSE {})
  <2>1. contract \in Contracts /\ CatalogInv
    BY <1>1, TypedFacts DEF ContractInv
  <2>2. /\ Joined
        /\ \A sc \in SchemasOf :
             /\ Owned(sc) /\ Closed(sc) /\ Ruled(sc) /\ Placed(sc) /\ NoneOfApp(sc)
             /\ Within(sc) /\ Granted(sc)
             /\ contract.shared => ReaderSees(sc)
        /\ ~contract.shared => <<Admin, Ddl>> \notin db.members
    BY <1>1, AtUnlock
  <2>3. App # Ddl /\ Admin # Ddl /\ None \notin {App, Ddl}
    BY ContractAssumption DEF App, Ddl, Admin, Roles
  <2>4. ASSUME NEW sc \in Range(contract.schemas)
        PROVE  /\ schema_owned(sc.name) /\ create_as_declared(sc)
               /\ owners_allowed([sc EXCEPT !.app_owned_like =
                      IF sc.app_can_create THEN TablesIn(sc.name) ELSE @])
    <3>1. sc \in SchemasOf /\ sc \in SchemaContract
      BY <2>1, ContractFacts DEF SchemasOf
    <3>2. Owned(sc) /\ Closed(sc) /\ Ruled(sc) /\ Placed(sc)
      BY <2>2, <3>1
    <3>3. create_as_declared(sc)
      BY <2>3, <3>2 DEF create_as_declared, may_create, Owned, Closed, Ruled
    <3> DEFINE widened == [sc EXCEPT !.app_owned_like =
                              IF sc.app_can_create THEN TablesIn(sc.name) ELSE @]
    <3>4. /\ widened.name = sc.name
          /\ sc.app_can_create => widened.app_owned_like = TablesIn(sc.name)
      BY <3>1 DEF SchemaContract
    <3> HIDE DEF widened
    <3>5. owners_allowed(widened)
      BY <3>2, <3>4 DEF owners_allowed, Placed, ExistingIn
    <3> QED
      BY <3>2, <3>3, <3>5 DEF schema_owned, Owned, widened
  <2>5. \A t \in contract.tables : \E sc \in SchemasOf : t \in TablesIn(sc.name)
    BY <2>1, ContractFacts DEF TablesIn
  <2>6. ASSUME NEW t \in OwnedBy(Ddl)
        PROVE  /\ held(App, t) \subseteq declared(t)
               /\ established \/ (~contract.shared /\ DdlJobsVerify) =>
                     /\ schema_contract(SchemaOf[t]).app_table_privileges \subseteq held(App, t)
                     /\ contract.shared => "SELECT" \in held(Reader, t)
    <3>1. PICK sc \in SchemasOf : t \in TablesIn(sc.name)
      BY <2>5 DEF OwnedBy
    <3>2. schema_contract(SchemaOf[t]) = sc
      BY <2>1, <3>1, ContractOf
    <3>3. Within(sc) /\ Granted(sc) /\ (contract.shared => ReaderSees(sc))
      BY <2>2
    <3>4. t \notin OwnedBy(App)
      BY <2>3 DEF OwnedBy
    <3> QED
      BY <3>1, <3>2, <3>3, <3>4 DEF Within, Granted, ReaderSees
  <2>7. ASSUME NEW t \in OwnedBy(App)
        PROVE  CanAlter(Ddl, t)
    <3>1. PICK sc \in SchemasOf : t \in TablesIn(sc.name)
      BY <2>5 DEF OwnedBy
    <3>2. sc.app_can_create
      BY <2>2, <2>3, <3>1 DEF Placed, ExistingIn, OwnedBy
    <3>3. needs_app_membership
      BY <2>1, <3>2, ContractFacts DEF needs_app_membership, SchemasOf
    <3> QED
      BY <2>2, <3>3 DEF Joined, CanAlter, OwnedBy
  <2>8. Conforms
    BY <2>4, <2>6, <2>7 DEF Conforms
  <2>9. AdminMemberships \subseteq {<<Admin, Ddl>>} \cap db.members
    BY <2>1, <2>3 DEF AdminMemberships, CatalogInv
  <2> QED
    BY <2>2, <2>8, <2>9
<1>2. ContractInv => [\A s \in Sessions : Unlock(s) =>
                          /\ Conforms
                          /\ AdminMemberships \subseteq
                                (IF contract.shared THEN {<<Admin, Ddl>>} ELSE {})]_vars
  BY <1>1
<1> QED
  BY <1>2, ContractInvariance, PTL DEF CompletedRunConforms

-----------------------------------------------------------------------------
(***************************************************************************)
(* What PostgreSQL refuses.                                                *)
(***************************************************************************)
\* The shared bootstrap grants on tables when they have their owners.
LEMMA SharedGrantsLast ==
  ASSUME contract \in Contracts, contract.shared, NEW sc \in SchemasOf,
         NEW k \in DOMAIN script, script[k] = UpdateGrant \/ script[k] = ReaderGrant(sc)
  PROVE  schema_grants(sc)[5] \in before(k) /\ k > 6
<1>1. PICK b : Place(sc, b) /\ b = 6 /\ Len(script) = 21
  BY BlockPlace
<1>2. script[k].op = "grant_tables" /\ k \in 1 .. 21
  <2>1. k \in 1 .. 21
    <3>1. /\ Len(middle) \in Nat /\ Len(script) = Len(middle) + 9
          /\ DOMAIN script = 1 .. Len(middle) + 9
      BY Script
    <3> QED
      BY <1>1, <3>1
  <2>2. CASE script[k] = UpdateGrant
    <3>1. script[k].op = "grant_tables"
      BY <2>2, SharedFields
    <3> QED
      BY <3>1, <2>1
  <2>3. CASE script[k] = ReaderGrant(sc)
    <3>1. script[k].op = "grant_tables"
      BY <2>3, SharedFields
    <3> QED
      BY <3>1, <2>1
  <2> QED
    BY <2>2, <2>3
<1>3. script[11] = schema_grants(sc)[5]
  BY <1>1 DEF Place
<1>4. k \notin 1 .. 6
  <2> SUFFICES ASSUME k \in 1 .. 6 PROVE FALSE
    OBVIOUS
  <2>1. script[k] = opening[k]
    BY Script
  <2>2. k = 1 \/ k = 2 \/ k = 3 \/ k = 4 \/ k = 5 \/ k = 6
    OBVIOUS
  <2> QED
    BY <1>2, <2>1, <2>2, FrameFields
<1>5. k \notin 7 .. 11
  <2> SUFFICES ASSUME k \in 7 .. 11 PROVE FALSE
    OBVIOUS
  <2>1. k - 6 \in 1 .. 5 /\ k - 6 \in 1 .. 9 /\ 6 + (k - 6) = k /\ k - 6 # 9
    OBVIOUS
  <2>2. script[k] = schema_grants(sc)[k - 6]
    BY <1>1, <2>1 DEF Place
  <2>3. sc \in SchemaContract
    BY ContractFacts
  <2>4. k - 6 = 7
    BY <1>2, <2>1, <2>2, <2>3, BlockOps
  <2> QED
    BY <2>1, <2>4
<1>6. k > 11
  BY <1>2, <1>4, <1>5
<1> QED
  BY <1>2, <1>3, <1>6 DEF before

\* Between the grant of the admin's membership and its revocation.
LEMMA AdminAtWork ==
  ASSUME ContractInv, NEW s \in Sessions, Running(s), at[s] > 6, at[s] < Len(script), ~superuser
  PROVE  /\ controls(Ddl) /\ controls(Admin)
         /\ \E role \in Roles : controls(role) /\ may_create(role, Database)
         /\ ~controls(App) => <<Ddl, App>> \notin db.members
<1>1. contract \in Contracts /\ at[s] \in DOMAIN script
  BY TypedFacts DEF ContractInv
<1>2. /\ On("grant_membership", Ddl, Database) \in Past(s)
      /\ On("grant_create", Ddl, Database) \in Past(s)
      /\ On("revoke_membership", Ddl, Database) \notin Past(s)
  BY <1>1, GrantBeforeRevoke DEF Past
<1>3. AdminInv(s)
  BY DEF ContractInv
<1>4. <<Admin, Ddl>> \in db.members /\ <<Ddl, Database>> \in db.creators
  BY <1>2, <1>3 DEF AdminInv
<1>5. controls(Ddl) /\ controls(Admin) /\ (~controls(App) => <<Ddl, App>> \notin db.members)
  BY <1>4 DEF controls, Roles
<1>6. may_create(Ddl, Database) /\ Ddl \in Roles
  BY <1>4 DEF may_create, Roles
<1> QED
  BY <1>5, <1>6

\* No statement about owners, schemas or rights to create is refused, and one
\* about tables only where the service owns one.
LEMMA RefusedTables ==
  ASSUME ContractInv, NEW s \in Sessions, Refuse(s)
  PROVE  needs_app_membership /\ OwnedBy(App) # {} /\ <<Ddl, App>> \notin db.members
<1>1. /\ ContractTypeOK /\ contract \in Contracts /\ CatalogInv
      /\ at[s] \in DOMAIN script /\ Running(s)
      /\ ~superuser /\ ~permitted(Statement(s))
  BY TypedFacts DEF ContractInv, Refuse
<1> DEFINE st == Statement(s)
           k == at[s]
<1>2. script[k] = st /\ Form(st, k) /\ k \in Nat
  BY <1>1, Forms, TypedFacts DEF Statement
<1>3. \/ st.op = "own_schema"
      \/ st.op \in {"grant_create", "revoke_create"} /\ st.scope # Database
      \/ st.op = "reassign"
      \/ st.op \in {"grant_tables", "revoke_tables"}
      \/ st.op = "default_privileges"
  BY <1>1 DEF permitted
<1>4. ASSUME NEW sc \in SchemasOf, NEW m \in 1 .. 9, st = schema_grants(sc)[m]
      PROVE  k > 6 /\ k < Len(script) /\ Past(s) = before(k)
  <2>1. k \in 7 .. Len(script) - 3
    BY <1>1, <1>2, <1>4, OnlyInBlocks
  <2> QED
    BY <1>1, <2>1, TypedFacts DEF Past
<1>5. ASSUME NEW sc \in SchemasOf, NEW m \in 1 .. 9, st = schema_grants(sc)[m], ~AboutNothing(sc, m),
             NEW l \in 1 .. m - 1
      PROVE  Fact(sc, l)
  <2>1. schema_grants(sc)[l] \in before(k)
    BY <1>1, <1>2, <1>5, EarlierOfBlock
  <2>2. l \in 1 .. 9
    OBVIOUS
  <2> QED
    BY <1>4, <1>5, <2>1, <2>2 DEF ContractInv, RunInv
<1>6. \A n \in Schemas : db.schema_owner[n] \in {None, Admin, Ddl}
  BY <1>1 DEF CatalogInv
<1>7. \A sc \in SchemasOf : sc.name \in Schemas
  BY <1>1, TypedFacts
<1>8. None \notin {Ddl, App, Admin} /\ App # Ddl
  BY ContractAssumption DEF Roles, Ddl, App
<1>9. CASE st.op = "own_schema"
  <2>1. PICK sc \in SchemasOf : st = schema_grants(sc)[2]
    BY <1>2, <1>9 DEF Form
  <2>2. st.scope = sc.name
    BY <2>1, BlockFields
  <2>3. Fact(sc, 1)
    BY <1>5, <2>1 DEF AboutNothing
  <2>4. db.schema_owner[st.scope] \in {Admin, Ddl}
    BY <1>6, <1>7, <2>2, <2>3 DEF Fact
  <2>5. /\ controls(Ddl) /\ controls(Admin)
        /\ \E role \in Roles : controls(role) /\ may_create(role, Database)
    BY <1>1, <1>4, <2>1, AdminAtWork
  <2>6. permitted(st)
    BY <1>9, <2>4, <2>5 DEF permitted
  <2> QED
    BY <1>1, <2>6
<1>10. CASE st.op \in {"grant_create", "revoke_create"} /\ st.scope # Database
  <2>1. PICK sc \in SchemasOf : st = schema_grants(sc)[3] \/ st = schema_grants(sc)[4]
    BY <1>2, <1>10, FrameFields DEF Form
  <2>2. st.scope = sc.name
    BY <2>1, BlockFields
  <2>3. Fact(sc, 2) /\ k > 6 /\ k < Len(script)
    <3>1. CASE st = schema_grants(sc)[3]
      BY <1>4, <1>5, <3>1 DEF AboutNothing
    <3>2. CASE st = schema_grants(sc)[4]
      BY <1>4, <1>5, <3>2 DEF AboutNothing
    <3> QED
      BY <2>1, <3>1, <3>2
  <2>4. db.schema_owner[st.scope] = Ddl
    BY <2>2, <2>3 DEF Fact, Owned
  <2>5. controls(Ddl)
    BY <1>1, <2>3, AdminAtWork
  <2>6. permitted(st)
    BY <1>10, <2>4, <2>5 DEF permitted
  <2> QED
    BY <1>1, <2>6
<1>11. CASE st.op = "reassign"
  <2>1. PICK sc \in SchemasOf : st = schema_grants(sc)[5]
    BY <1>2, <1>11 DEF Form
  <2>2. st.scope = sc.name
    BY <2>1, BlockFields
  <2>3. Fact(sc, 4)
    BY <1>5, <2>1 DEF AboutNothing
  <2>4. Owned(sc) /\ Ruled(sc)
    BY <2>3 DEF Fact
  <2>5. ASSUME NEW t \in misplaced(st.scope)
        PROVE  may_create(target(t), st.scope)
    <3>1. t \in TablesIn(sc.name)
      BY <2>2 DEF misplaced, ExistingIn
    <3>2. target(t) = Ddl \/ (target(t) = App /\ sc.app_can_create)
      BY <1>1, <3>1, Targets
    <3>3. CASE target(t) = Ddl
      BY <1>7, <2>2, <2>4, <3>3 DEF may_create, Owned
    <3>4. CASE target(t) = App /\ sc.app_can_create
      BY <2>2, <2>4, <3>4 DEF may_create, Ruled
    <3> QED
      BY <3>2, <3>3, <3>4
  <2>6. permitted(st)
    BY <1>11, <2>5 DEF permitted
  <2> QED
    BY <1>1, <2>6
<1>12. CASE st.op = "default_privileges"
  <2>1. k > 6 /\ k < Len(script)
    <3>1. CASE \E sc \in SchemasOf : st = schema_grants(sc)[8]
      BY <1>4, <3>1
    <3>2. CASE contract.shared /\ \A sc \in SchemasOf : st = ReaderDefaults(sc)
      <4>1. PICK sc \in SchemasOf : TRUE
        BY <1>1, <3>2, SharedMiddle
      <4>2. k \notin 1 .. 6
        <5> SUFFICES ASSUME k \in 1 .. 6 PROVE FALSE
          OBVIOUS
        <5>1. st = opening[k]
          BY <1>1, <1>2, Script
        <5>2. k = 1 \/ k = 2 \/ k = 3 \/ k = 4 \/ k = 5 \/ k = 6
          OBVIOUS
        <5> HIDE DEF st, k
        <5> QED
          BY <1>12, <5>1, <5>2, FrameFields
      <4>3. k # Len(script)
        BY <1>2, <1>12 DEF Form
      <4> QED
        BY <1>1, <1>2, <4>2, <4>3, TypedFacts
    <3> QED
      BY <1>2, <1>12, <3>1, <3>2 DEF Form
  <2>2. controls(Ddl)
    BY <1>1, <2>1, AdminAtWork
  <2>3. permitted(st)
    BY <1>12, <2>2 DEF permitted
  <2> QED
    BY <1>1, <2>3
<1>13. CASE st.op \in {"grant_tables", "revoke_tables"}
  <2>1. PICK t \in st.tables : db.owner[t] # None /\ ~controls(db.owner[t])
    BY <1>1, <1>13 DEF permitted
  <2>2. \E sc \in SchemasOf : t \in TablesIn(sc.name) /\ Placed(sc) /\ k > 6 /\ k < Len(script)
    <3>1. CASE \E sc \in SchemasOf : \E m \in {6, 7} : st = schema_grants(sc)[m]
      <4>1. PICK sc \in SchemasOf : \E m \in {6, 7} : st = schema_grants(sc)[m]
        BY <3>1
      <4>2. PICK m \in {6, 7} : st = schema_grants(sc)[m]
        BY <4>1
      <4>3. st.tables = TablesIn(sc.name)
        BY <4>2, BlockFields
      <4>4. t \in TablesIn(sc.name) /\ ~AboutNothing(sc, m)
        BY <2>1, <4>3 DEF AboutNothing
      <4>5. Fact(sc, 5) /\ k > 6 /\ k < Len(script)
        <5>1. m \in 1 .. 9 /\ 5 \in 1 .. m - 1
          BY <4>2
        <5> QED
          BY <1>4, <1>5, <4>2, <4>4, <5>1
      <4> QED
        BY <4>4, <4>5 DEF Fact
    <3>2. CASE contract.shared /\ (st = UpdateGrant \/ \A sc \in SchemasOf : st = ReaderGrant(sc))
      <4>1. PICK sc \in SchemasOf : SchemasOf = {sc}
        BY <1>1, <3>2, ContractFacts
      <4>2. schema_grants(sc)[5] \in before(k) /\ k > 6
        BY <1>1, <1>2, <3>2, <4>1, SharedGrantsLast
      <4>3. Fact(sc, 5)
        BY <4>2 DEF ContractInv, RunInv, Past
      <4>4. k < Len(script)
        <5>1. k # Len(script)
          BY <1>2, <1>13 DEF Form
        <5> QED
          BY <1>1, <5>1, TypedFacts
      <4>5. t \in contract.tables
        <5>1. UpdateGrant.tables = contract.writer_update_tables /\ ReaderGrant(sc).tables = TablesIn(sc.name)
          BY SharedFields
        <5>2. contract.writer_update_tables \subseteq contract.tables
          BY <1>1, <3>2, ContractFacts
        <5> QED
          BY <2>1, <3>2, <4>1, <5>1, <5>2 DEF TablesIn
      <4>6. t \in TablesIn(sc.name)
        BY <1>1, <4>1, <4>5, ContractFacts DEF TablesIn
      <4> QED
        BY <4>2, <4>3, <4>4, <4>6 DEF Fact
    <3> QED
      BY <1>2, <1>13, <3>1, <3>2 DEF Form
  <2>3. PICK sc \in SchemasOf : t \in TablesIn(sc.name) /\ Placed(sc) /\ k > 6 /\ k < Len(script)
    BY <2>2
  <2>4. controls(Ddl) /\ (~controls(App) => <<Ddl, App>> \notin db.members)
    BY <1>1, <2>3, AdminAtWork
  <2>5. db.owner[t] = App /\ sc.app_can_create
    BY <2>1, <2>3, <2>4 DEF Placed, ExistingIn
  <2>6. needs_app_membership
    BY <1>1, <2>5, ContractFacts DEF needs_app_membership, SchemasOf
  <2>7. t \in OwnedBy(App)
    BY <2>3, <2>5 DEF OwnedBy, TablesIn
  <2> QED
    BY <2>1, <2>4, <2>5, <2>6, <2>7
<1> HIDE DEF st
<1> QED
  BY <1>3, <1>9, <1>10, <1>11, <1>12, <1>13

\* A statement of a bootstrap is refused only where a service that may own tables
\* owns one before the DDL role has joined the service's role; never because
\* another bootstrap gave back the memberships this one uses.
THEOREM RefusalsAreForeseen == ContractSpec => RefusedOnlyAtRuntimeTables
<1>1. ContractInv => [\A s \in Sessions :
                          Refuse(s) => /\ needs_app_membership /\ OwnedBy(App) # {}
                                       /\ <<Ddl, App>> \notin db.members]_vars
  BY RefusedTables
<1> QED
  BY <1>1, ContractInvariance, PTL DEF RefusedOnlyAtRuntimeTables
=============================================================================
