--------------------------- MODULE DatabaseContract ---------------------------
(***************************************************************************)
(* db_contract.py: the bootstrap scripts that give a service's database,   *)
(* or the shared system_record database, its owner role and its app role,  *)
(* and the verify scripts that migrations run first.  The scripts are      *)
(* lists of SQL statements, each committed on its own; a script may stop   *)
(* after any of them and be run again, by two operators at once, while the *)
(* service runs and migrates.                                              *)
(*                                                                         *)
(* An object is a table; sequences and functions are treated alike by the  *)
(* scripts and left out, as are USAGE, CONNECT, passwords, search_path and *)
(* the members of extensions.  A membership is one with SET and INHERIT;   *)
(* the CREATEROLE admin keeps the ADMIN OPTION of every role it grants to  *)
(* itself.  What PostgreSQL permits is modelled from how the scripts       *)
(* prepare for it.                                                         *)
(***************************************************************************)
EXTENDS Integers, Sequences, SequencesExt, FiniteSets

CONSTANTS
    None,
    Tables,         \* the names tables may have
    SchemaOf,       \* the schema each is in
    Contracts,      \* the contracts to establish
    Sessions,       \* sessions that run a bootstrap, all as the admin
    Environments,   \* environments of migration jobs
    MaxRuns         \* bound: bootstraps begun

Admin == "admin"
Ddl == "ddl"
App == "app"        \* app_role, or writer_role of the shared database
Reader == "reader"
Legacy == "legacy"  \* an owner from before the contract
Public == "PUBLIC"

Roles == {Admin, Ddl, App, Reader, Legacy}
Privileges == {"SELECT", "INSERT", "UPDATE", "DELETE"}
Schemas == {SchemaOf[t] : t \in Tables}
Database == "database"

VARIABLES
    contract,       \* which contract, of Contracts
    superuser,      \* is the admin a superuser, or a CREATEROLE admin?
    db,             \* the catalogs
    at,             \* the statement each session is at, 0 if it runs none
    holder,         \* the session that holds the advisory lock
    runs,           \* how many bootstraps have begun
    established     \* has one run to its end?

vars == <<contract, superuser, db, at, holder, runs, established>>

SchemaContract ==
    [name : Schemas, app_table_privileges : SUBSET Privileges,
     app_can_create : BOOLEAN, app_owned_like : SUBSET Tables]

\* What the catalogs say of roles, schemas, tables and default privileges.
Catalog ==
    [roles : SUBSET Roles,
     members : SUBSET (Roles \X Roles),
     schema_owner : [Schemas -> Roles \cup {None}],
     creators : SUBSET ((Roles \cup {Public}) \X (Schemas \cup {Database})),
     owner : [Tables -> Roles \cup {None}],
     granted : SUBSET (Roles \X Tables \X Privileges),
     defaults : SUBSET (Roles \X Schemas \X Roles \X Privileges)]

\* The contracts of db_contract.py: a schema has one set of rules, the service
\* owns tables where it may create them and nowhere else, and the shared
\* database has one schema, in which it may not and is given SELECT and INSERT.
ASSUME ContractAssumption ==
    /\ MaxRuns \in Nat
    /\ None \notin Sessions \cup Roles
    /\ Database \notin Schemas
    /\ \A c \in Contracts :
          /\ c.shared \in BOOLEAN
          /\ c.tables \subseteq Tables
          /\ c.schemas \in Seq(SchemaContract)
          /\ \A i, j \in DOMAIN c.schemas : c.schemas[i].name = c.schemas[j].name => i = j
          /\ \A t \in c.tables : \E sc \in Range(c.schemas) : sc.name = SchemaOf[t]
          /\ \A sc \in Range(c.schemas) : sc.app_can_create <=> sc.app_owned_like # {}
          /\ c.shared => /\ Len(c.schemas) = 1 /\ ~c.schemas[1].app_can_create
                         /\ c.schemas[1].app_table_privileges = {"SELECT", "INSERT"}
                         /\ c.writer_update_tables \subseteq c.tables

schema_contract(schema) ==
    CHOOSE sc \in Range(contract.schemas) : sc.name = schema

\* Fault variant of needs_app_membership: the DDL role never joins the app role.
needs_app_membership_never == FALSE

needs_app_membership ==
    \E sc \in Range(contract.schemas) : sc.app_owned_like # {}

TablesIn(schema) == {t \in contract.tables : SchemaOf[t] = schema}

ExistingIn(schema) == {t \in TablesIn(schema) : db.owner[t] # None}

-----------------------------------------------------------------------------
(***************************************************************************)
(* The bootstrap scripts.                                                  *)
(***************************************************************************)
On(op, role, scope) == [op |-> op, role |-> role, scope |-> scope]

OnTables(op, role, tables, privileges) ==
    [op |-> op, role |-> role, tables |-> tables, privileges |-> privileges]

Defaults(role, schema, privileges) ==
    [op |-> "default_privileges", role |-> role, scope |-> schema,
     privileges |-> privileges]

\* Fault variant of schema_grants: ownership is reconciled before the rights to
\* create new tables are taken away.
schema_grants_reassign_first(sc) ==
    <<On("create_schema", Admin, sc.name),
      On("own_schema", Ddl, sc.name),
      On("reassign", Ddl, sc.name),
      On("revoke_create", Public, sc.name),
      On(IF sc.app_can_create THEN "grant_create" ELSE "revoke_create", App, sc.name),
      OnTables("revoke_tables", App, TablesIn(sc.name), Privileges),
      OnTables("grant_tables", App, TablesIn(sc.name), sc.app_table_privileges),
      Defaults(App, sc.name, sc.app_table_privileges),
      On("retire_defaults", App, sc.name)>>

schema_grants(sc) ==
    <<On("create_schema", Admin, sc.name),
      On("own_schema", Ddl, sc.name),
      On("revoke_create", Public, sc.name),
      On(IF sc.app_can_create THEN "grant_create" ELSE "revoke_create", App, sc.name),
      On("reassign", Ddl, sc.name),
      OnTables("revoke_tables", App, TablesIn(sc.name), Privileges),
      OnTables("grant_tables", App, TablesIn(sc.name), sc.app_table_privileges),
      Defaults(App, sc.name, sc.app_table_privileges),
      On("retire_defaults", App, sc.name)>>

\* Nine statements for each schema, one schema after the other.
schemas_grants ==
    [i \in 1 .. 9 * Len(contract.schemas) |->
        schema_grants(contract.schemas[(i - 1) \div 9 + 1])[((i - 1) % 9) + 1]]

\* How both scripts begin, and how they end.
opening ==
    <<On("lock", Admin, Database),
      On("ensure_role", Ddl, Database),
      On("ensure_role", App, Database),
      On("grant_membership", Ddl, Database),
      On("grant_create", Ddl, Database),
      On("revoke_create", App, Database)>>

closing ==
    <<On("revoke_membership", App, Database),
      On("revoke_membership", Ddl, Database),
      On("unlock", Admin, Database)>>

joining == IF needs_app_membership THEN <<On("join_app", Ddl, Database)>> ELSE <<>>

service_bootstrap == opening \o schemas_grants \o joining \o closing

\* The one schema of the shared database: the statements of any schema but the
\* last, there being no defaults to retire; what the writer may update; and what
\* the readers see.
shared_grants ==
    LET sc == contract.schemas[1]
        all == TablesIn(sc.name)
    IN  <<On("create_schema", Admin, sc.name),
          On("own_schema", Ddl, sc.name),
          On("revoke_create", Public, sc.name),
          On("revoke_create", App, sc.name),
          On("reassign", Ddl, sc.name),
          OnTables("revoke_tables", App, all, Privileges),
          OnTables("grant_tables", App, all, sc.app_table_privileges),
          Defaults(App, sc.name, sc.app_table_privileges),
          OnTables("grant_tables", App, contract.writer_update_tables, {"UPDATE"}),
          On("ensure_role", Reader, Database),
          OnTables("grant_tables", Reader, all, {"SELECT"}),
          Defaults(Reader, sc.name, {"SELECT"})>>

shared_bootstrap == opening \o shared_grants \o closing

script == IF contract.shared THEN shared_bootstrap ELSE service_bootstrap

-----------------------------------------------------------------------------
(***************************************************************************)
(* What PostgreSQL permits.  A superuser may do everything; another admin  *)
(* must be, or be a member of, the owner of what a statement changes.      *)
(***************************************************************************)
controls(role) ==
    \/ superuser \/ role = Admin \/ <<Admin, role>> \in db.members
    \/ \E via \in Roles : {<<Admin, via>>, <<via, role>>} \subseteq db.members

may_create(role, scope) ==
    \/ <<role, scope>> \in db.creators \/ <<Public, scope>> \in db.creators
    \/ scope \in Schemas /\ db.schema_owner[scope] = role

\* Retrieval-S's runtime tables stay with the app role, all else is the owner's.
target(t) ==
    IF t \in schema_contract(SchemaOf[t]).app_owned_like THEN App ELSE Ddl

misplaced(schema) == {t \in ExistingIn(schema) : db.owner[t] # target(t)}

\* Who gives a schema to another role must be able to create schemas, itself or
\* as a member of a role that is.
permitted(stmt) ==
    CASE stmt.op = "own_schema" ->
            /\ controls(db.schema_owner[stmt.scope]) /\ controls(Ddl)
            /\ \E role \in Roles : controls(role) /\ may_create(role, Database)
      [] stmt.op \in {"grant_create", "revoke_create"} /\ stmt.scope # Database ->
            controls(db.schema_owner[stmt.scope])
      [] stmt.op = "reassign" ->
            \A t \in misplaced(stmt.scope) : may_create(target(t), stmt.scope)
      [] stmt.op \in {"grant_tables", "revoke_tables"} ->
            \A t \in stmt.tables : db.owner[t] # None => controls(db.owner[t])
      [] stmt.op = "default_privileges" -> controls(Ddl)
      [] OTHER -> TRUE

Running(s) == at[s] # 0

Statement(s) == script[at[s]]

\* Session s is at a statement of this kind, and PostgreSQL will execute it.
Executes(s, op) ==
    /\ Running(s) /\ Statement(s).op = op
    /\ superuser \/ permitted(Statement(s))
    /\ at' = [at EXCEPT ![s] = @ + 1]

\* The statement changes the catalogs, and nothing else.
Catalogs(new) ==
    db' = new /\ UNCHANGED <<contract, superuser, holder, runs, established>>

-----------------------------------------------------------------------------
(***************************************************************************)
(* One action per kind of statement.                                       *)
(***************************************************************************)
Start(s) ==
    /\ ~Running(s) /\ runs < MaxRuns
    /\ at' = [at EXCEPT ![s] = 1]
    /\ runs' = runs + 1
    /\ UNCHANGED <<contract, superuser, db, holder, established>>

\* Fault variant of AdvisoryLock: the lock does not exclude another session.
LockInVain(s) ==
    /\ Executes(s, "lock")
    /\ holder' = s
    /\ UNCHANGED <<contract, superuser, db, runs, established>>

\* pg_advisory_lock waits until no other session holds the lock.
AdvisoryLock(s) ==
    /\ holder = None /\ Executes(s, "lock")
    /\ holder' = s
    /\ UNCHANGED <<contract, superuser, db, runs, established>>

ensure_role(s) ==
    /\ Executes(s, "ensure_role")
    /\ Catalogs([db EXCEPT !.roles = @ \cup {Statement(s).role}])

\* Nothing to grant to a superuser, who has the abilities of every role.
grant_membership_to_current_user(s) ==
    /\ Executes(s, "grant_membership")
    /\ Catalogs([db EXCEPT !.members =
            IF superuser THEN @ ELSE @ \cup {<<Admin, Statement(s).role>>}])

revoke_membership_from_current_user(s) ==
    /\ Executes(s, "revoke_membership")
    /\ Catalogs([db EXCEPT !.members = @ \ {<<Admin, Statement(s).role>>}])

GrantAppToDdl(s) ==
    /\ Executes(s, "join_app")
    /\ Catalogs([db EXCEPT !.members = @ \cup {<<Ddl, App>>}])

CreateSchema(s) ==
    /\ Executes(s, "create_schema")
    /\ Catalogs([db EXCEPT !.schema_owner[Statement(s).scope] =
            IF @ = None THEN Admin ELSE @])

AlterSchemaOwner(s) ==
    /\ Executes(s, "own_schema")
    /\ Catalogs([db EXCEPT !.schema_owner[Statement(s).scope] = Ddl])

GrantCreate(s) ==
    /\ Executes(s, "grant_create")
    /\ Catalogs([db EXCEPT !.creators =
            @ \cup {<<Statement(s).role, Statement(s).scope>>}])

RevokeCreate(s) ==
    /\ Executes(s, "revoke_create")
    /\ Catalogs([db EXCEPT !.creators =
            @ \ {<<Statement(s).role, Statement(s).scope>>}])

\* The memberships reassign takes in owners and targets the admin does not
\* control, and gives back at its end.
borrowed(moved) ==
    {<<Admin, r>> : r \in {r \in {db.owner[t] : t \in moved} \cup {target(t) : t \in moved} :
                             ~controls(r)}}

\* ALTER TABLE OWNER TO: what the old owner held the new one holds.
handed_over(moved) ==
    {IF g[2] \in moved /\ g[1] = db.owner[g[2]] THEN <<target(g[2]), g[2], g[3]>> ELSE g :
        g \in db.granted}

\* One DO block, executed whole.
reassign_schema_objects(s) ==
    /\ Executes(s, "reassign")
    /\ LET moved == misplaced(Statement(s).scope)
       IN  Catalogs([db EXCEPT
               !.owner   = [t \in Tables |-> IF t \in moved THEN target(t) ELSE @[t]],
               !.granted = handed_over(moved),
               !.members = (@ \cup borrowed(moved)) \ borrowed(moved)])

existing(tables) == {t \in tables : db.owner[t] # None}

RevokeOnTables(s) ==
    /\ Executes(s, "revoke_tables")
    /\ Catalogs([db EXCEPT !.granted =
            @ \ ({Statement(s).role} \X Statement(s).tables \X Privileges)])

GrantOnTables(s) ==
    /\ Executes(s, "grant_tables")
    /\ Catalogs([db EXCEPT !.granted =
            @ \cup ({Statement(s).role} \X existing(Statement(s).tables)
                     \X Statement(s).privileges)])

\* Tables the DDL role creates from now on carry these grants.
AlterDefaultPrivileges(s) ==
    /\ Executes(s, "default_privileges")
    /\ Catalogs([db EXCEPT !.defaults =
            @ \cup ({Ddl} \X {Statement(s).scope} \X {Statement(s).role}
                     \X Statement(s).privileges)])

\* Fault variant of RetireLegacyDefaults: only the first of ALL is revoked.
RetireLegacySelect(s) ==
    /\ Executes(s, "retire_defaults")
    /\ Catalogs([db EXCEPT !.defaults =
            @ \ ({Admin} \X {Statement(s).scope} \X {App} \X {"SELECT"})])

\* The defaults of the admin itself, from before the contract, granted ALL.
RetireLegacyDefaults(s) ==
    /\ Executes(s, "retire_defaults")
    /\ Catalogs([db EXCEPT !.defaults =
            @ \ ({Admin} \X {Statement(s).scope} \X {App} \X Privileges)])

Unlock(s) ==
    /\ Running(s) /\ Statement(s).op = "unlock"
    /\ at' = [at EXCEPT ![s] = 0]
    /\ holder' = None
    /\ established' = TRUE
    /\ UNCHANGED <<contract, superuser, db, runs>>

\* Fault variant of end_session: the lock outlives its session.
end_session_holding(s) ==
    /\ at' = [at EXCEPT ![s] = 0]
    /\ UNCHANGED <<contract, superuser, db, holder, runs, established>>

\* A session ends: the server releases its advisory lock, its statements stay.
end_session(s) ==
    /\ at' = [at EXCEPT ![s] = 0]
    /\ holder' = IF holder = s THEN None ELSE holder
    /\ UNCHANGED <<contract, superuser, db, runs, established>>

Interrupt(s) == Running(s) /\ end_session(s)

\* A statement PostgreSQL refuses raises to the operator, who stops there.
Refuse(s) ==
    /\ Running(s) /\ ~superuser /\ ~permitted(Statement(s))
    /\ end_session(s)

-----------------------------------------------------------------------------
(***************************************************************************)
(* Verification, and the migrations it guards.                             *)
(***************************************************************************)
schema_owned(schema) == db.schema_owner[schema] = Ddl

owners_allowed(sc) ==
    \A t \in ExistingIn(sc.name) :
        db.owner[t] = Ddl \/ (db.owner[t] = App /\ t \in sc.app_owned_like)

defaults_grant_app(sc) == <<Ddl, sc.name, App, "INSERT">> \in db.defaults

create_as_declared(sc) == may_create(App, sc.name) <=> sc.app_can_create

service_verify ==
    \A sc \in Range(contract.schemas) :
        /\ schema_owned(sc.name)
        /\ owners_allowed(sc)
        /\ defaults_grant_app(sc)
        /\ create_as_declared(sc)

writer_appends_only(schema) ==
    \A t \in ExistingIn(schema) \ contract.writer_update_tables :
        \A p \in {"UPDATE", "DELETE"} : <<App, t, p>> \notin db.granted

shared_verify ==
    LET sc == contract.schemas[1]
    IN  schema_owned(sc.name) /\ owners_allowed(sc) /\ writer_appends_only(sc.name)

Verified == IF contract.shared THEN shared_verify ELSE service_verify

should_enforce_contract(env) ==
    \/ env.enforce = "yes"
    \/ env.enforce = None /\ env.provider \notin {None, "local"}

\* Which credential bundle a job loads, hence the role it connects as.
database_secret_purpose(env) == IF env.use_ddl_credentials THEN "db-ddl" ELSE "db"

\* The role a migration runs as: a service's connects as it, the shared one's
\* admin assumes it.
migration_role(env) ==
    CASE contract.shared -> IF should_enforce_contract(env) THEN Ddl ELSE Admin
      [] database_secret_purpose(env) = "db-ddl" -> Ddl
      [] OTHER -> App

\* A role creates a table: its own privileges, and those its defaults grant.
created(t, role) ==
    [db EXCEPT
        !.owner[t] = role,
        !.granted  = @ \cup ({role} \X {t} \X Privileges)
                       \cup {<<d[3], t, d[4]>> : d \in
                              {d \in db.defaults : d[1] = role /\ d[2] = SchemaOf[t]}}]

\* A migration is one transaction: verification first, if this environment
\* enforces it.  The grant that lets the admin assume the owner role of the
\* shared database is committed with it.
Migrate(env, t) ==
    LET role == migration_role(env)
    IN  /\ db.owner[t] = None
        /\ role \in db.roles /\ may_create(role, SchemaOf[t])
        /\ should_enforce_contract(env) => Verified /\ role = Ddl
        /\ db' = IF contract.shared /\ should_enforce_contract(env) /\ ~superuser
                 THEN [created(t, role) EXCEPT !.members = @ \cup {<<Admin, Ddl>>}]
                 ELSE created(t, role)
        /\ UNCHANGED <<contract, superuser, at, holder, runs, established>>

\* The service creates a table, where it has been left the right to.
RuntimeCreates(t) ==
    /\ db.owner[t] = None /\ App \in db.roles /\ may_create(App, SchemaOf[t])
    /\ db' = created(t, App)
    /\ UNCHANGED <<contract, superuser, at, holder, runs, established>>

\* An operator creates one by hand, but not while a bootstrap runs.
AdminCreates(t) ==
    /\ db.owner[t] = None /\ \A s \in Sessions : ~Running(s)
    /\ db.schema_owner[SchemaOf[t]] # None /\ controls(db.schema_owner[SchemaOf[t]])
    /\ db' = created(t, Admin)
    /\ UNCHANGED <<contract, superuser, at, holder, runs, established>>

-----------------------------------------------------------------------------
\* A database nobody has prepared.
NewDatabase ==
    [roles |-> {Admin}, members |-> {}, creators |-> {},
     schema_owner |-> [s \in Schemas |-> IF s = "public" THEN Admin ELSE None],
     owner |-> [t \in Tables |-> None], granted |-> {}, defaults |-> {}]

\* One from before the contract: a table of a legacy owner in schemas open to
\* everyone; a service's role exists, with ALL on it and on what the admin
\* creates, while the writer of the shared database is new.
LegacyDatabase(t) ==
    LET apps == IF contract.shared THEN {} ELSE {App}
        schemas == {SchemaOf[u] : u \in contract.tables}
    IN  [roles |-> {Admin, Legacy} \cup apps, members |-> {},
         creators |-> ({Public} \cup apps) \X schemas,
         schema_owner |-> [s \in Schemas |-> Admin],
         owner |-> [u \in Tables |-> IF u = t THEN Legacy ELSE None],
         granted |-> ({Legacy} \cup apps) \X {t} \X Privileges,
         defaults |-> {Admin} \X schemas \X apps \X Privileges]

Init ==
    /\ contract \in Contracts
    /\ superuser \in BOOLEAN
    /\ db \in {NewDatabase} \cup {LegacyDatabase(t) : t \in contract.tables}
    /\ at = [s \in Sessions |-> 0]
    /\ holder = None
    /\ runs = 0
    /\ established = FALSE

Execute(s) ==
    \/ AdvisoryLock(s)
    \/ ensure_role(s)
    \/ grant_membership_to_current_user(s)
    \/ revoke_membership_from_current_user(s)
    \/ GrantAppToDdl(s)
    \/ CreateSchema(s)
    \/ AlterSchemaOwner(s)
    \/ GrantCreate(s)
    \/ RevokeCreate(s)
    \/ reassign_schema_objects(s)
    \/ RevokeOnTables(s)
    \/ GrantOnTables(s)
    \/ AlterDefaultPrivileges(s)
    \/ RetireLegacyDefaults(s)
    \/ Unlock(s)

Next ==
    \/ \E s \in Sessions : Start(s)
    \/ \E s \in Sessions : Execute(s)
    \/ \E s \in Sessions : Interrupt(s)
    \/ \E s \in Sessions : Refuse(s)
    \/ \E env \in Environments, t \in contract.tables : Migrate(env, t)
    \/ \E t \in contract.tables : RuntimeCreates(t)
    \/ \E t \in contract.tables : AdminCreates(t)

ContractSpec == Init /\ [][Next]_vars

-----------------------------------------------------------------------------
\* The contract is a contract, the catalogs name known roles, and the lock is
\* held by a session that runs a bootstrap.
ContractTypeOK ==
    /\ contract \in Contracts /\ superuser \in BOOLEAN /\ established \in BOOLEAN
    /\ contract.schemas \in Seq(SchemaContract)
    /\ db \in Catalog
    /\ at \in [Sessions -> 0 .. Len(script)]
    /\ holder # None => holder \in Sessions /\ Running(holder)
    /\ runs \in 0 .. MaxRuns

\* The privileges the contract gives the app role on a table.
declared(t) ==
    schema_contract(SchemaOf[t]).app_table_privileges
    \cup (IF contract.shared /\ t \in contract.writer_update_tables THEN {"UPDATE"} ELSE {})

held(role, t) == {p \in Privileges : <<role, t, p>> \in db.granted}

OwnedBy(role) == {t \in contract.tables : db.owner[t] = role}

AdminMemberships == {m \in db.members : m[1] = Admin}

CanAlter(role, t) == db.owner[t] = role \/ <<role, db.owner[t]>> \in db.members

\* No job of a service has the DDL credentials and skips verification: one might
\* create a table after the grants on all tables and before the default ones.
DdlJobsVerify ==
    \A env \in Environments : env.use_ddl_credentials => should_enforce_contract(env)

\* Where the service may create tables, it may have made any since they were
\* reassigned.
Conforms ==
    /\ \A sc \in Range(contract.schemas) :
          /\ schema_owned(sc.name) /\ create_as_declared(sc)
          /\ owners_allowed([sc EXCEPT !.app_owned_like =
                IF sc.app_can_create THEN TablesIn(sc.name) ELSE @])
    /\ \A t \in OwnedBy(Ddl) :
          /\ held(App, t) \subseteq declared(t)
          /\ established \/ (~contract.shared /\ DdlJobsVerify) =>
                /\ schema_contract(SchemaOf[t]).app_table_privileges \subseteq held(App, t)
                /\ contract.shared => "SELECT" \in held(Reader, t)
    /\ \A t \in OwnedBy(App) : CanAlter(Ddl, t)

\* A bootstrap that reaches its end has established the contract, whatever was
\* there before, wherever earlier runs stopped, and whatever the service and its
\* migrations did meanwhile: every table has its owner and the app role exactly
\* the declared privileges (all of them from the second completed run on where a
\* job that does not verify, as the shared database's verification ignores the
\* default privileges, may create a table between the two kinds of grant).  It
\* leaves the admin no membership but one a migration of the shared database took.
CompletedRunConforms ==
    [][\A s \in Sessions : Unlock(s) =>
            /\ Conforms
            /\ AdminMemberships \subseteq
                  (IF contract.shared THEN {<<Admin, Ddl>>} ELSE {})]_vars

\* Once a bootstrap has completed the service never again holds more than the
\* contract gives it, in no window of a repeated run and on no table made since.
AppStaysDml ==
    established =>
        \A sc \in Range(contract.schemas) :
            /\ may_create(App, sc.name) => sc.app_can_create
            /\ \A t \in TablesIn(sc.name) \ OwnedBy(App) : held(App, t) \subseteq declared(t)
            /\ ~sc.app_can_create => OwnedBy(App) \cap TablesIn(sc.name) = {}

\* A statement of a bootstrap is refused only where a service that may own tables
\* owns one before the DDL role, and through it the admin, has joined the service's role;
\* never because another bootstrap gave back the memberships this one uses.
RefusedOnlyAtRuntimeTables ==
    [][\A s \in Sessions :
          Refuse(s) => /\ needs_app_membership /\ OwnedBy(App) # {}
                       /\ <<Ddl, App>> \notin db.members]_vars

\* Once a bootstrap has completed, a migration whose verification passes can
\* alter every table of its schemas.
VerifiedIsAlterable ==
    established /\ Verified =>
        \A t \in contract.tables : db.owner[t] # None => CanAlter(Ddl, t)

\* db_contract.py says the verify script asserts the contract fail-closed; it
\* passes where the app role has lost its privileges.
VerifyFailsClosed ==
    Verified => \A t \in OwnedBy(Ddl) : held(App, t) = declared(t)
=============================================================================
