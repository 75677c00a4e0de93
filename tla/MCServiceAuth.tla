--------------------------- MODULE MCServiceAuth ---------------------------
(* Model values for ServiceAuth: deployments that vary one thing each.     *)
EXTENDS ServiceAuth, TLC

Plain(logical_id, prefix) ==
  [logical_id |-> logical_id, env_prefix |-> prefix, env_alias_prefixes |-> <<>>,
   json_field |-> "", required |-> FALSE, required_in_production |-> TRUE,
   provider_env_vars |-> <<>>, name_env_var |-> Unset, raw |-> FALSE]

Writer == [Plain("system-record-writer", "SYSTEM_RECORD_WRITER") EXCEPT !.json_field = "url"]
Token == Plain("internal-service-auth", "INTERNAL_SERVICE_AUTH")
Openai == [Plain("provider-openai-api-key", "OPENAI_API_KEY")
             EXCEPT !.required_in_production = FALSE]
RawName == [Plain("raw-name", "") EXCEPT !.raw = TRUE]
Declared == [Plain("declared", "DECLARED")
               EXCEPT !.provider_env_vars = << <<"aws", <<"own", "ARN">> >> >>,
                      !.required = TRUE]
Named == [Plain("named", "NAMED") EXCEPT !.name_env_var = <<"own", "NAME">>]
Database == service_database @@ [raw |-> FALSE]

AllSuffixes == {"SECRET_ARN", "SECRET_URI", "SECRET_RESOURCE", "SECRET_NAME"}
Variables(prefixes) == prefixes \X AllSuffixes

Bundle == [host |-> "db", port |-> "<5432>", dbname |-> "app", user |-> "front",
           password |-> "pw"]
Identity == [PROVIDER |-> "aws", HOST |-> "db", PORT |-> "5432", NAME |-> "app",
             USER |-> "front", AWS_REGION |-> "r"]

Url(u) == Object([url |-> u])

(* Every object the variables name, and the defaults, hold a usable secret. *)
Holding(ids) ==
  [id \in ids |->
     CASE id[1] \in {"DATABASE", "SERVICE_DATABASE"} -> Object(Bundle)
       [] id[1] = "SYSTEM_RECORD_WRITER" \/ id = <<"default", "system-record-writer">> ->
            Url("postgresql://")
       [] OTHER -> Text("s")]
Defaults(reqs) == {<<"default", reqs[i].logical_id>> : i \in DOMAIN reqs}
Gateway(payload) == <<"gateway", "dev">> :> payload
DatabaseSecret(payload) == <<"default", "service-database-credentials">> :> payload

NoHeaders == [secret |-> "", key_id |-> "", raw_key |-> "", userinfo |-> ""]
NoCall == [op |-> "none", headers |-> NoHeaders]
Auth(secret, key) ==
  [op |-> "auth", headers |-> [NoHeaders EXCEPT !.secret = secret, !.key_id = key]]
Ask(key) == [op |-> "store_id", headers |-> [NoHeaders EXCEPT !.key_id = key]]

K1 == <<"id", "k1">>
Base ==
  [cloud |-> [taproot |-> "aws", retrieval |-> ""],
   environment |-> [taproot |-> "", other |-> "production"],
   env |-> {}, reqs |-> <<>>, required |-> "policy", prefix |-> "DATABASE",
   database |-> Identity, mode |-> "off", ttl |-> 0,
   calls |-> [r \in Requests |-> NoCall], rotations |-> {}, vault |-> <<>>,
   store |-> (K1 :> "s1"), items |-> {}]

(* Which object: every set of the variables a requirement looks at. *)
Resolve(cloud, env, reqs) ==
  [Base EXCEPT !.cloud = cloud, !.env = env, !.reqs = reqs,
               !.vault = Holding(env \cup Defaults(reqs))]
Resolving ==
  {Resolve([taproot |-> c, retrieval |-> ""], e, <<Database>>) :
     c \in {"aws", "azure"}, e \in SUBSET Variables({"DATABASE", "SERVICE_DATABASE"})}
  \cup
  {Resolve([taproot |-> c, retrieval |-> "gcp"], e, <<Declared, Writer, Named>>) :
     c \in {"", "aws"},
     e \in SUBSET (Variables({"SYSTEM_RECORD_WRITER"})
                     \cup {<<"own", "ARN">>, <<"own", "NAME">>, <<"DECLARED", "SECRET_NAME">>})}

(* What the object holds: every policy, and a secret that changes while the *)
(* others are read.                                                         *)
SecretPayloads ==
  {Absent, Text(""), Text("s"), Object(<<>>), Object([url |-> "u", other |-> "<5432>"])}
    \cup {Url(v) : v \in {"u", "", "<0>", "<5432>", "<null>"}}
Loading ==
  {[Base EXCEPT !.cloud.taproot = c, !.environment.other = e, !.required = p, !.reqs = <<q>>,
                !.vault = <<"default", q.logical_id>> :> payload] :
     c \in {"aws", "gcp", "local"}, e \in {"production", "staging"}, p \in {"policy", "yes", "no"},
     q \in {Writer, Token, Openai, RawName}, payload \in SecretPayloads}
  \cup
  {[Resolve(Base.cloud, {}, <<Writer, Token>>) EXCEPT
      !.rotations = [id : Defaults(<<Writer, Token>>), payload : {p}]] :
     p \in {Absent, Url("")}}

Without(f, names) == [n \in DOMAIN f \ names |-> f[n]]
DatabasePayloads ==
  {Absent, Text(""), Text("postgresql://"), Object(<<>>)}
    \cup {Url(v) : v \in {"postgresql://", "postgresql+asyncpg://", "mysql://", "", "<null>"}}
    \cup {Object(Without(Bundle, {n})) : n \in DOMAIN Bundle}
    \cup {Object([Bundle EXCEPT ![n] = v]) :
            n \in DOMAIN Bundle, v \in {"", " ", "<null>", "<5432>", "5432", "u@h"}}
    \cup {Object([sslmode |-> v, ssl_mode |-> w] @@ Bundle) :
            v \in {"require", " ", "<null>", "<true>"}, w \in {"require", "<true>"}}
    \cup {Object([database |-> v, username |-> v] @@ Bundle) : v \in {"other", "", "<null>"}}
Connecting ==
  {[Base EXCEPT !.database = [AUTH_MODE |-> "secret"], !.prefix = p,
                !.vault = DatabaseSecret(b)] :
     p \in {"DATABASE", "FRONT"}, b \in DatabasePayloads}
  \cup
  {[Base EXCEPT !.database = d] :
     d \in {<<>>, [AUTH_MODE |-> "bogus"], [URL |-> "postgresql://"],
            [AUTH_MODE |-> "identity", URL |-> "postgresql://"],
            [Identity EXCEPT !.PROVIDER = "gcp"], [Identity EXCEPT !.PROVIDER = "other"],
            [Identity EXCEPT !.PORT = "0"]}
          \cup {Without(Identity, {n}) : n \in DOMAIN Identity}
          \cup {Without(Identity, {"AWS_REGION"}) @@ [n \in {name} |-> "r"] :
                  name \in {"$AWS_REGION", "$AWS_DEFAULT_REGION"}}}

(* The proof: every mode, a secret that is rotated, lost, found or odd. *)
GatewayChanges ==
  [id : {<<"gateway", "dev">>}, payload : {Absent, Text(""), Text("g2"), Url("<5432>")}]
Proving ==
  {[Base EXCEPT !.mode = m, !.rotations = GatewayChanges, !.vault = Gateway(p),
                !.calls = <<Auth("g1", ""), Auth(second, ""), Auth(third, "k1")>>] :
     m \in {"off", "observe", "enforce", "bogus"}, p \in {Absent, Text("g1"), Url("g1")},
     second \in {"g1", "g2"}, third \in {"g1", ""}}

(* The key: every cloud, every header. *)
Keying ==
  {[Base EXCEPT !.cloud = c, !.mode = "enforce", !.vault = Gateway(Text("g1")),
                !.calls[1] = [op |-> "auth",
                              headers |-> [secret |-> "g1", key_id |-> i, raw_key |-> k,
                                           userinfo |-> u]]] :
     c \in [taproot : {"", "aws", "gcp"}, retrieval : {"azure"}],
     i \in {"", "k1"}, k \in {"", "k1"}, u \in {"", "k1"}}

(* The cache: lookups of both kinds that overlap with changes of the item. *)
Caching ==
  {[Base EXCEPT !.ttl = t, !.items = {"absent", "s2", "bare"},
                !.calls = <<Auth("", "k1"), Auth("", "k1"), c>>] :
     t \in {0, 2}, c \in {Auth("", "k1"), Ask("k1")}}

MCDeployments ==
  Resolving \cup Loading \cup Connecting \cup Proving \cup Keying \cup Caching
=============================================================================
