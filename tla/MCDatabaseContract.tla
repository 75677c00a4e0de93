-------------------------- MODULE MCDatabaseContract --------------------------
(***************************************************************************)
(* Small instances of DatabaseContract: contracts of each shape over a     *)
(* few table names.                                                        *)
(***************************************************************************)
EXTENDS DatabaseContract

MCTables ==
    {"catalog", "docs_vector_store", "audit_events", "activity_records", "retention_policies"}

MCSchemaOf ==
    [t \in MCTables |-> IF t = "audit_events" THEN "audit" ELSE "public"]

Schema(name, privileges) ==
    [name |-> name, app_table_privileges |-> privileges,
     app_can_create |-> FALSE, app_owned_like |-> {}]

Contract(shared, tables, schemas, updatable) ==
    [shared |-> shared, tables |-> tables, schemas |-> schemas,
     writer_update_tables |-> updatable]

FrontDb ==
    Contract(FALSE, {"catalog", "audit_events"},
             <<Schema("public", Privileges), Schema("audit", {"SELECT", "INSERT"})>>, {})

RetrievalDb ==
    Contract(FALSE, {"catalog", "docs_vector_store"},
             <<[Schema("public", Privileges) EXCEPT
                  !.app_can_create = TRUE, !.app_owned_like = {"docs_vector_store"}]>>, {})

SystemRecordDb ==
    Contract(TRUE, {"activity_records", "retention_policies"},
             <<Schema("public", {"SELECT", "INSERT"})>>, {"retention_policies"})

MCContracts == {FrontDb, RetrievalDb, SystemRecordDb}

ServiceContracts == {FrontDb, RetrievalDb}

SessionSymmetry == Permutations(Sessions)

Job(enforce, provider, ddl) ==
    [enforce |-> enforce, provider |-> provider, use_ddl_credentials |-> ddl]

MCEnvironments == {Job(None, "aws", TRUE), Job(None, "aws", FALSE), Job("yes", None, TRUE)}
=============================================================================
