--------------------------- MODULE RuntimeSecrets ---------------------------
(***************************************************************************)
(* taproot_common/secrets.py and the configuration step of                 *)
(* taproot_common/db_auth.py, as operators.                                *)
(*                                                                         *)
(* A variable of the environment is a pair <<prefix, suffix>>; an          *)
(* environment is the set of variables with a non-blank value.  The        *)
(* identifier a variable holds is named by the variable itself, so that    *)
(* the object a lookup ends at tells which variable decided.               *)
(*                                                                         *)
(* What a secret manager stores is a record: a text, or a JSON object      *)
(* whose fields hold texts and, in angle brackets, values that are not     *)
(* JSON strings.  A loader's None, whatever the reason (not found, access  *)
(* denied, no client library, an outage), is Absent.                       *)
(***************************************************************************)
EXTENDS Naturals, Sequences, FiniteSets

Unset == <<>>

Absent == [kind |-> "absent", text |-> "", fields |-> <<>>]
Text(t) == [kind |-> "text", text |-> t, fields |-> <<>>]
Object(f) == [kind |-> "object", text |-> "", fields |-> f]
Odd(v) == [kind |-> "odd", text |-> v, fields |-> <<>>]

IsText(v) == v \notin {"<null>", "<0>", "<5432>", "<true>", "<list>"}
Blank(v) == v \in {"", " "}

\* Python's truth value of what a loader returned.
truthy(p) ==
  \/ p.kind = "text" /\ p.text # ""
  \/ p.kind = "object"
  \/ p.kind = "odd" /\ p.text \notin {"<null>", "<0>"}

\* The first element of a sequence that is one of a set, or the default.
first_of(seq, wanted, default) ==
  LET hits == {i \in DOMAIN seq : seq[i] \in wanted}
  IN  IF hits = {} THEN default
      ELSE seq[CHOOSE i \in hits : \A j \in hits : i <= j]

(***************************************************************************)
(* Which secret object: resolve_secret_identifier.                         *)
(***************************************************************************)
Suffixes == [aws |-> "SECRET_ARN", azure |-> "SECRET_URI", gcp |-> "SECRET_RESOURCE"]

provider_specific_env_var(prefix, provider) ==
  IF provider \in DOMAIN Suffixes THEN << <<prefix, Suffixes[provider]>> >> ELSE <<>>

\* The prefixes by their places in the declaration, without blank and repeated ones.
env_prefix_candidates(req) ==
  LET all == <<req.env_prefix>> \o req.env_alias_prefixes
  IN  [i \in {i \in DOMAIN all : all[i] # "" /\ \A j \in 1 .. i - 1 : all[j] # all[i]}
         |-> all[i]]

\* Fault variant: the neutral name is looked at first.
prefix_env_vars_neutral_first(req, prefix, provider) ==
  << <<prefix, "SECRET_NAME">> >> \o provider_specific_env_var(prefix, provider)

\* The variables of one prefix in the order they are looked at.
prefix_env_vars(req, prefix, provider) ==
  provider_specific_env_var(prefix, provider)
    \o (IF req.env_alias_prefixes = <<>> THEN <<>>
        ELSE << <<prefix, Suffixes.aws>>, <<prefix, Suffixes.azure>>, <<prefix, Suffixes.gcp>> >>)
    \o << <<prefix, "SECRET_NAME">> >>

resolve_secret_identifier(req, provider, env) ==
  LET prefixes == env_prefix_candidates(req)
      default == <<"default", req.logical_id>>
      neutral == IF req.name_env_var # Unset THEN <<req.name_env_var>>
                 ELSE [i \in DOMAIN prefixes |-> <<prefixes[i], "SECRET_NAME">>]
      own == SelectSeq(req.provider_env_vars, LAMBDA p : p[1] = provider)
      declared == [i \in DOMAIN own |-> own[i][2]]
      of_prefix(prefix) ==
        first_of(prefix_env_vars(req, prefix, provider), env, Unset)
      set == {i \in DOMAIN prefixes : of_prefix(prefixes[i]) # Unset}
      deciding == first_of(prefixes, {prefixes[i] : i \in set}, "")
  IN  IF req.provider_env_vars # <<>> \/ req.name_env_var # Unset
      THEN first_of(declared, env, first_of(neutral, env, default))
      ELSE IF deciding = "" THEN default ELSE of_prefix(deciding)

(***************************************************************************)
(* Its value: the loaders.  AWS alone unwraps an object of one field.      *)
(***************************************************************************)
load_secret_from_aws(p) ==
  IF p.kind = "object" /\ Cardinality(DOMAIN p.fields) = 1
  THEN LET v == p.fields[CHOOSE f \in DOMAIN p.fields : TRUE]
       IN  IF IsText(v) THEN Text(v) ELSE Odd(v)
  ELSE p

stored(vault, id) == IF id \in DOMAIN vault THEN vault[id] ELSE Absent

load_raw_secret_value(vault, id, provider) ==
  IF provider \in {"aws", "azure", "gcp"} THEN stored(vault, id) ELSE Absent

load_secret_value(vault, id, provider) ==
  LET p == load_raw_secret_value(vault, id, provider)
  IN  IF provider = "aws" THEN load_secret_from_aws(p) ELSE p

extract_secret_json_field(p, field) ==
  IF p.kind = "object" /\ field \in DOMAIN p.fields /\ IsText(p.fields[field])
  THEN Text(p.fields[field]) ELSE Absent

is_runtime_secret_required(req, required, production) ==
  CASE required = "yes" -> TRUE
    [] required = "no"  -> FALSE
    [] OTHER -> req.required \/ (req.required_in_production /\ production)

\* What load_runtime_secret reads, before it decides whether None may stand.
runtime_secret_value(req, vault, id, provider) ==
  IF req.json_field = "" THEN load_secret_value(vault, id, provider)
  ELSE extract_secret_json_field(load_raw_secret_value(vault, id, provider), req.json_field)

(***************************************************************************)
(* The database bundle.  A URL is the sequence of the parts it is made of; *)
(* Malformed stands for the RequiredSecretError of every rejected shape.   *)
(***************************************************************************)
Malformed == <<>>
IsPostgresUrl(v) == v \in {"postgresql://", "postgresql+asyncpg://", "postgresql+psycopg2://"}
IsPort(v) == v \in {"5432", "<5432>"}
IsHost(v) == v \notin {"a b", "u@h"}

payload_text_field(f, names) ==
  LET usable == {n \in DOMAIN f : IsText(f[n]) /\ ~Blank(f[n])}
      name == first_of(names, usable, "")
  IN  IF name = "" THEN "" ELSE f[name]

\* The first of the names that is neither missing, null nor blank must be a string.
payload_optional_text_field_ok(f, names) ==
  LET present == {n \in DOMAIN f : f[n] # "<null>" /\ ~Blank(f[n])}
      name == first_of(names, present, "")
  IN  name = "" \/ IsText(f[name])

service_database_url_from_components(f) ==
  LET parts == << payload_text_field(f, <<"host">>),
                  IF "port" \in DOMAIN f THEN f["port"] ELSE "",
                  payload_text_field(f, <<"database", "dbname">>),
                  payload_text_field(f, <<"username", "user">>),
                  payload_text_field(f, <<"password">>) >>
  IN  IF /\ \A i \in DOMAIN parts : parts[i] # ""
         /\ IsHost(parts[1])
         /\ IsPort(parts[2])
         /\ payload_optional_text_field_ok(f, <<"sslmode", "ssl_mode">>)
      THEN parts ELSE Malformed

parse_service_database_secret_payload(p) ==
  CASE p.kind # "object" -> Malformed
    [] p.kind = "object" /\ "url" \in DOMAIN p.fields ->
         IF IsPostgresUrl(p.fields["url"]) THEN <<p.fields["url"]>> ELSE Malformed
    [] OTHER -> service_database_url_from_components(p.fields)

service_database ==
  [logical_id |-> "service-database-credentials", env_prefix |-> "DATABASE",
   env_alias_prefixes |-> <<"SERVICE_DATABASE">>, json_field |-> "",
   required |-> FALSE, required_in_production |-> TRUE,
   provider_env_vars |-> <<>>, name_env_var |-> Unset]

(***************************************************************************)
(* load_db_auth_config: d maps the suffixes of <PREFIX>_* that are set to  *)
(* their values, and "$" and a name for a variable without prefix.  The    *)
(* answer is the sequence of parts of the connection, Malformed for every  *)
(* error.  The fallback to the bundle reads the real environment and the   *)
(* cloud of the secrets, not d.                                            *)
(***************************************************************************)
db_env(d, suffix) == IF suffix \in DOMAIN d THEN d[suffix] ELSE ""

\* The region is the service's, or else the cloud's own.
aws_region_known(d) ==
  \E name \in {"AWS_REGION", "$AWS_REGION", "$AWS_DEFAULT_REGION"} : db_env(d, name) # ""

identity_fields_ok(d) ==
  /\ \A s \in {"HOST", "NAME", "USER"} : db_env(d, s) # ""
  /\ db_env(d, "PORT") = "5432"
  /\ db_env(d, "PROVIDER") = "aws" => aws_region_known(d)
  /\ db_env(d, "PROVIDER") = "gcp" => db_env(d, "GCP_INSTANCE_CONNECTION_NAME") # ""

db_auth_mode(d) ==
  CASE db_env(d, "AUTH_MODE") # "" -> d["AUTH_MODE"]
    [] db_env(d, "AUTH_MODE") = "" /\ db_env(d, "URL") # "" -> "secret"
    [] OTHER -> "identity"

load_db_auth_config(prefix, d, vault, id, provider) ==
  LET raw == load_raw_secret_value(vault, id, provider)
      explicit == db_env(d, "URL")
  IN  CASE db_auth_mode(d) = "secret" /\ explicit # "" -> <<explicit>>
        [] /\ db_auth_mode(d) = "secret" /\ explicit = ""
           /\ prefix = "DATABASE" /\ truthy(raw) ->
             parse_service_database_secret_payload(raw)
        [] /\ db_auth_mode(d) = "identity"
           /\ db_env(d, "PROVIDER") \in {"aws", "azure", "gcp"}
           /\ identity_fields_ok(d) ->
             <<d["HOST"], d["PORT"], d["NAME"], d["USER"]>>
        [] OTHER -> Malformed
=============================================================================
