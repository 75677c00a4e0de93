----------------------------- MODULE ServiceAuth -----------------------------
(***************************************************************************)
(* One service process: it reads its secrets and its database              *)
(* configuration at startup (taproot_common/secrets.py, db_auth.py), then  *)
(* admits requests: the proof that they came through the gateway           *)
(* (auth/gateway_proof.py), the key they carry (auth/provider.py) and what *)
(* is known about the key, read through a cache (auth/metadata.py,         *)
(* auth/middleware.py).                                                    *)
(*                                                                         *)
(* The secret manager and the metadata store are shared with operators who *)
(* rotate secrets and revoke keys at any time.  The process may be         *)
(* restarted at any time; what it holds is in memory only.                 *)
(*                                                                         *)
(* get_auth_context is a coroutine: it runs without interruption up to the *)
(* await of the metadata store, the load of the gateway secret included    *)
(* (it is a blocking call under a lock), and again after the answer.       *)
(***************************************************************************)
EXTENDS RuntimeSecrets

CONSTANTS Deployments,     \* configurations of the process and its surroundings
          Requests,        \* identities of the requests
          MaxClock,        \* bound on the clock, in ticks
          MaxRotations,    \* bound on the changes of stored secrets
          MaxStoreChanges, \* bound on the changes of key metadata
          MaxRestarts      \* bound on the restarts of the process

ASSUME BoundsAssumption ==
  {MaxClock, MaxRotations, MaxStoreChanges, MaxRestarts} \subseteq Nat

IsPayload(p) ==
  /\ DOMAIN p = {"kind", "text", "fields"}
  /\ p.kind \in {"absent", "text", "object", "odd"}
  /\ p.kind # "object" => p.fields = <<>>

\* A logical id names one requirement, a raw name has no field of its own, and
\* the environment's values are strings, those that are blank left out.
ASSUME DeploymentAssumption ==
  \A d \in Deployments :
    /\ d.reqs \in Seq({d.reqs[i] : i \in DOMAIN d.reqs})
    /\ \A i, j \in DOMAIN d.reqs :
         d.reqs[i].logical_id = d.reqs[j].logical_id => d.reqs[i] = d.reqs[j]
    /\ \A i \in DOMAIN d.reqs :
         /\ d.reqs[i].raw \in BOOLEAN
         /\ d.reqs[i].raw => d.reqs[i].json_field = ""
         /\ LET aliases == d.reqs[i].env_alias_prefixes
            IN  aliases \in Seq({aliases[j] : j \in DOMAIN aliases})
    /\ \A suffix \in DOMAIN d.database :
         IsText(d.database[suffix]) /\ ~Blank(d.database[suffix])
    /\ \A v \in d.env : v = <<v[1], v[2]>>
    /\ \A id \in DOMAIN d.vault : IsPayload(d.vault[id])
    /\ \A change \in d.rotations : IsPayload(change.payload)

VARIABLES deployment,  \* the configuration, fixed
          vault,       \* the secret manager: identifier -> payload
          process,     \* the startup of the current life, and what it loaded
          gateway,     \* _secret_loaded and _expected_secret
          store,       \* the metadata store: key -> item
          cache,       \* CachedMetadataStore._cache
          now,         \* time.monotonic()
          req,         \* the requests
          held,        \* history: what each secret was worth in this life
          spent        \* history: rotations and store changes made

vars == <<deployment, vault, process, gateway, store, cache, now, req, held, spent>>

-----------------------------------------------------------------------------
(* Configuration *)

get_cloud_provider ==
  LET c == deployment.cloud
  IN  IF c.taproot # "" THEN c.taproot
      ELSE IF c.retrieval # "" THEN c.retrieval ELSE "local"

\* TaprootSettings reads the TAPROOT_ variables only.
settings_cloud_provider ==
  IF deployment.cloud.taproot # "" THEN deployment.cloud.taproot ELSE "local"
settings_environment ==
  IF deployment.environment.taproot # "" THEN deployment.environment.taproot ELSE "dev"

is_production_environment ==
  LET e == deployment.environment
  IN  (IF e.taproot # "" THEN e.taproot ELSE e.other) \in {"prod", "production"}

gateway_secret_name == <<"gateway", settings_environment>>
current_gateway_secret ==
  load_secret_value(vault, gateway_secret_name, get_cloud_provider)

gateway_proof_mode ==
  IF deployment.mode \in {"off", "observe", "enforce"} THEN deployment.mode ELSE "observe"

-----------------------------------------------------------------------------
(* Startup *)

\* A dictionary with an entry set.
with(f, key, value) == [k \in DOMAIN f \cup {key} |-> IF k = key THEN value ELSE f[k]]

Down(life) == [phase |-> "starting", life |-> life, next |-> 1,
               bundle |-> <<>>, chosen |-> <<>>, database |-> Malformed]
NotLoaded == [loaded |-> FALSE, expected |-> Absent]

requirement_identifier(q) ==
  IF q.raw THEN <<"default", q.logical_id>>
  ELSE resolve_secret_identifier(q, get_cloud_provider, deployment.env)

requirement_value(q) ==
  IF q.raw THEN load_secret_value(vault, requirement_identifier(q), get_cloud_provider)
  ELSE runtime_secret_value(q, vault, requirement_identifier(q), get_cloud_provider)

requirement_is_required(q) ==
  IF q.raw THEN deployment.required # "no"
  ELSE is_runtime_secret_required(q, deployment.required, is_production_environment)

\* One pass of the loop of load_startup_secrets.
load_startup_secret ==
  /\ process.phase = "starting"
  /\ process.next \in DOMAIN deployment.reqs
  /\ LET q == deployment.reqs[process.next]
         value == requirement_value(q)
     IN  \/ /\ truthy(value)
            /\ process' = [process EXCEPT !.next = @ + 1,
                              !.bundle = with(@, q.logical_id, value),
                              !.chosen = with(@, q.logical_id, requirement_identifier(q))]
         \/ /\ ~truthy(value) /\ requirement_is_required(q)
            /\ process' = [process EXCEPT !.phase = "failed"]
         \/ /\ ~truthy(value) /\ ~requirement_is_required(q)
            /\ process' = [process EXCEPT !.next = @ + 1]
  /\ UNCHANGED <<deployment, vault, gateway, store, cache, now, req, held, spent>>

database_identifier ==
  resolve_secret_identifier(service_database, get_cloud_provider, deployment.env)

open_database ==
  /\ process.phase = "starting"
  /\ process.next = Len(deployment.reqs) + 1
  /\ LET parts == load_db_auth_config(deployment.prefix, deployment.database, vault,
                                      database_identifier, get_cloud_provider)
     IN  process' = [process EXCEPT !.phase = IF parts = Malformed THEN "failed" ELSE "serving",
                                    !.database = parts]
  /\ UNCHANGED <<deployment, vault, gateway, store, cache, now, req, held, spent>>

-----------------------------------------------------------------------------
(* The gateway proof *)

\* Fault variant: an empty secret is kept as a value.
get_expected_secret_empty ==
  IF gateway.loaded THEN gateway
  ELSE [loaded |-> TRUE, expected |-> current_gateway_secret]

\* Fault variant: a failed load is tried again by the next request.
get_expected_secret_retried ==
  IF gateway.loaded /\ gateway.expected.kind # "absent" THEN gateway
  ELSE [loaded |-> TRUE,
        expected |-> IF truthy(current_gateway_secret) THEN current_gateway_secret
                     ELSE Absent]

get_expected_secret ==
  IF gateway.loaded THEN gateway
  ELSE [loaded |-> TRUE,
        expected |-> IF truthy(current_gateway_secret) THEN current_gateway_secret
                     ELSE Absent]

\* "pass", or the status the request is answered with.  A secret that is not a
\* string has no encode().
proof_outcome(expected, presented) ==
  IF expected.kind = "absent" THEN IF gateway_proof_mode = "enforce" THEN "503" ELSE "pass"
  ELSE IF expected.kind = "odd" THEN "500"
  ELSE IF gateway_proof_mode = "observe" \/ expected = Text(presented) THEN "pass" ELSE "401"

-----------------------------------------------------------------------------
(* The key a request carries *)

NoKey == <<>>

extract_key_id(headers) ==
  LET cloud == settings_cloud_provider
      named(id) == IF id = "" THEN NoKey ELSE <<"id", id>>
  IN  CASE cloud \in {"aws", "azure"} -> named(headers.key_id)
        [] cloud = "gcp" ->
             IF headers.raw_key # "" THEN <<"sha256", headers.raw_key>>
             ELSE named(headers.userinfo)
        [] OTHER -> named(IF headers.key_id = "" THEN "local-dev-key" ELSE headers.key_id)

-----------------------------------------------------------------------------
(* The metadata store and its cache *)

NoAnswer == "none"

item_of(key) == IF key \in DOMAIN store THEN store[key] ELSE "absent"

\* What the inner store returns for an item; an item may lack a store_id.
answer(op, item) ==
  IF item = "absent" \/ (op = "store_id" /\ item = "bare") THEN NoAnswer ELSE item

cache_key(op, key) == <<op, key>>

\* Fault variant: an entry is still served at its expiry.
get_cached_late(ckey) ==
  IF ckey \in DOMAIN cache /\ now <= cache[ckey].expiry THEN cache[ckey].value ELSE NoAnswer

get_cached(ckey) ==
  IF ckey \in DOMAIN cache /\ now < cache[ckey].expiry THEN cache[ckey].value ELSE NoAnswer

without_expired(ckey) ==
  IF ckey \in DOMAIN cache /\ ~(now < cache[ckey].expiry)
  THEN [k \in DOMAIN cache \ {ckey} |-> cache[k]] ELSE cache

set_cached(ckey, value, possible) ==
  with(cache, ckey, [value |-> value, expiry |-> now + deployment.ttl,
                     filled |-> now, possible |-> possible])

caching == deployment.ttl > 0

-----------------------------------------------------------------------------
(* Requests *)

NewRequest == [pc |-> "new", life |-> 0, op |-> "metadata", key |-> NoKey, status |-> "",
               proof |-> "", genuine |-> TRUE, got |-> NoAnswer, possible |-> {},
               filled |-> 0, at |-> 0]

\* get_metadata and get_store_id up to the await.
look_up(r, entry) ==
  LET ckey == cache_key(entry.op, entry.key)
      cached == get_cached(ckey)
  IN  IF caching /\ cached # NoAnswer
      THEN /\ req' = [req EXCEPT ![r] =
                [entry EXCEPT !.pc = "done", !.status = "ok", !.got = cached,
                              !.possible = cache[ckey].possible,
                              !.filled = cache[ckey].filled, !.at = now]]
           /\ UNCHANGED cache
      ELSE /\ req' = [req EXCEPT ![r] =
                [entry EXCEPT !.pc = "asking",
                              !.possible = {answer(entry.op, item_of(entry.key))}]]
           /\ cache' = IF caching THEN without_expired(ckey) ELSE cache

get_auth_context(r) ==
  LET call == deployment.calls[r]
      proving == gateway_proof_mode # "off"
      loaded == IF proving THEN get_expected_secret ELSE gateway
      outcome == IF proving THEN proof_outcome(loaded.expected, call.headers.secret) ELSE "pass"
      key == extract_key_id(call.headers)
      \* history: the manager held the presented text as the secret in this life
      genuine == call.headers.secret # "" /\ Text(call.headers.secret) \in held
      entry == [NewRequest EXCEPT !.life = process.life, !.key = key, !.proof = outcome,
                                  !.genuine = genuine, !.at = now]
      refused(status) == /\ req' = [req EXCEPT ![r] = [entry EXCEPT !.pc = "done", !.status = status]]
                         /\ UNCHANGED cache
  IN  /\ process.phase = "serving"
      /\ req[r].pc = "new"
      /\ call.op = "auth"
      /\ gateway' = loaded
      /\ \/ outcome # "pass" /\ refused(outcome)
         \/ outcome = "pass" /\ key = NoKey /\ refused("401")
         \/ outcome = "pass" /\ key # NoKey /\ look_up(r, entry)
      /\ UNCHANGED <<deployment, vault, process, store, now, held, spent>>

\* A service asks the store itself for the store of a key.
get_store_id(r) ==
  LET call == deployment.calls[r]
  IN  /\ process.phase = "serving"
      /\ req[r].pc = "new"
      /\ call.op = "store_id"
      /\ look_up(r, [NewRequest EXCEPT !.life = process.life, !.op = "store_id",
                                       !.key = <<"id", call.headers.key_id>>])
      /\ UNCHANGED <<deployment, vault, process, gateway, store, now, held, spent>>

InnerAnswers(r) ==
  /\ req[r].pc = "asking"
  /\ req' = [req EXCEPT ![r].pc = "answered",
                        ![r].got = answer(req[r].op, item_of(req[r].key))]
  /\ UNCHANGED <<deployment, vault, process, gateway, store, cache, now, held, spent>>

\* The store raises; so do get_metadata and get_auth_context.
InnerFails(r) ==
  /\ req[r].pc = "asking"
  /\ req' = [req EXCEPT ![r].pc = "done", ![r].status = "500"]
  /\ UNCHANGED <<deployment, vault, process, gateway, store, cache, now, held, spent>>

\* Fault variant: an unknown key is cached like a known one.
finish_lookup_negative(r) ==
  /\ req[r].pc = "answered"
  /\ cache' = IF caching
              THEN set_cached(cache_key(req[r].op, req[r].key), req[r].got, req[r].possible)
              ELSE cache
  /\ req' = [req EXCEPT ![r].pc = "done", ![r].status = "ok",
                        ![r].filled = now, ![r].at = now]
  /\ UNCHANGED <<deployment, vault, process, gateway, store, now, held, spent>>

\* get_metadata and get_store_id after the await.
finish_lookup(r) ==
  /\ req[r].pc = "answered"
  /\ cache' = IF caching /\ req[r].got # NoAnswer
              THEN set_cached(cache_key(req[r].op, req[r].key), req[r].got, req[r].possible)
              ELSE cache
  /\ req' = [req EXCEPT ![r].pc = "done", ![r].status = "ok",
                        ![r].filled = now, ![r].at = now]
  /\ UNCHANGED <<deployment, vault, process, gateway, store, now, held, spent>>

-----------------------------------------------------------------------------
(* The surroundings *)

Tick ==
  /\ now < MaxClock
  /\ caching
  /\ process.phase = "serving"
  /\ \E r \in Requests : req[r].pc # "new"
  /\ now' = now + 1
  /\ UNCHANGED <<deployment, vault, process, gateway, store, cache, req, held, spent>>

RotateSecret ==
  /\ spent.rotations < MaxRotations
  /\ \E change \in deployment.rotations :
       /\ stored(vault, change.id) # change.payload
       /\ vault' = with(vault, change.id, change.payload)
  /\ held' = held \cup {load_secret_value(vault', gateway_secret_name, get_cloud_provider)}
  /\ spent' = [spent EXCEPT !.rotations = @ + 1]
  /\ UNCHANGED <<deployment, process, gateway, store, cache, now, req>>

ChangeMetadata ==
  /\ spent.changes < MaxStoreChanges
  /\ process.phase = "serving"
  /\ \E key \in DOMAIN store, item \in deployment.items :
       /\ item # store[key]
       /\ store' = [store EXCEPT ![key] = item]
       /\ req' = [r \in Requests |->
                    IF req[r].pc = "asking" /\ req[r].key = key
                    THEN [req[r] EXCEPT !.possible = @ \cup {answer(req[r].op, item)}]
                    ELSE req[r]]
  /\ spent' = [spent EXCEPT !.changes = @ + 1]
  /\ UNCHANGED <<deployment, vault, process, gateway, cache, now, held>>

\* The process dies with its requests, wherever they are, and starts again.
Restart ==
  /\ process.life < MaxRestarts
  /\ process' = Down(process.life + 1)
  /\ gateway' = NotLoaded
  /\ cache' = <<>>
  /\ held' = {current_gateway_secret}
  /\ req' = [r \in Requests |->
               IF req[r].pc \in {"asking", "answered"}
               THEN [req[r] EXCEPT !.pc = "done", !.status = "lost"] ELSE req[r]]
  /\ UNCHANGED <<deployment, vault, store, now, spent>>

-----------------------------------------------------------------------------
Init ==
  /\ deployment \in Deployments
  /\ vault = deployment.vault
  /\ process = Down(0)
  /\ gateway = NotLoaded
  /\ store = deployment.store
  /\ cache = <<>>
  /\ now = 0
  /\ req = [r \in Requests |-> NewRequest]
  /\ held = {current_gateway_secret}
  /\ spent = [rotations |-> 0, changes |-> 0]

Next ==
  \/ load_startup_secret
  \/ open_database
  \/ \E r \in Requests : \/ get_auth_context(r)
                         \/ get_store_id(r)
                         \/ InnerAnswers(r)
                         \/ InnerFails(r)
                         \/ finish_lookup(r)
  \/ Tick
  \/ RotateSecret
  \/ ChangeMetadata
  \/ Restart

Spec == Init /\ [][Next]_vars

-----------------------------------------------------------------------------
(* Properties *)

\* Shape of the state: a cached entry always has a value and was filled no more
\* than a TTL before it expires, what was loaded belongs to a process that has
\* not failed, and only requests of the current life are in flight
\* (metadata.py:115-130, gateway_proof.py:33-36, secrets.py:345).
AuthTypeOK ==
  /\ \A id \in DOMAIN vault : IsPayload(vault[id])
  /\ IsPayload(gateway.expected)
  /\ gateway.loaded => process.phase = "serving"
  /\ ~gateway.loaded => gateway.expected = Absent
  /\ process.phase \in {"starting", "serving", "failed"}
  /\ process.next \in 1..(Len(deployment.reqs) + 1)
  /\ DOMAIN process.bundle = DOMAIN process.chosen
  /\ now \in 0..MaxClock
  /\ \A k \in DOMAIN cache : /\ cache[k].value # NoAnswer
                             /\ cache[k].filled <= now
                             /\ cache[k].expiry = cache[k].filled + deployment.ttl
  /\ \A r \in Requests :
       /\ req[r].pc \in {"new", "asking", "answered", "done"}
       /\ req[r].pc \in {"asking", "answered"} =>
            req[r].life = process.life /\ process.phase = "serving"

\* What a caller is told about a key, that it is unknown included, was true of
\* that key, and of the question asked, at some moment of the lookup that fetched
\* it, and that lookup ended less than a TTL before: a revoked key is refused a
\* TTL after the last lookup that was under way when it was revoked, whatever
\* lookups overtake each other (metadata.py:143-152: the cache is read before
\* the await and written after it).
AnswerWasTrue ==
  \A r \in Requests :
    req[r].pc = "done" /\ req[r].status = "ok" =>
      /\ req[r].got \in req[r].possible
      /\ req[r].at = req[r].filled \/ req[r].at < req[r].filled + deployment.ttl

\* In enforce mode a request passes the proof only with a non-empty text that
\* the secret manager held as the gateway secret during this life of the
\* process: not with an empty header when the secret is empty, nor with anything
\* when it could not be loaded (gateway_proof.py:54, 99-124).
AdmittedHadProof ==
  gateway_proof_mode = "enforce" =>
    \A r \in Requests :
      req[r].pc # "new" /\ deployment.calls[r].op = "auth" /\ req[r].proof = "pass" =>
        req[r].genuine

\* Two requests that present the same proof to one life of the process are
\* decided alike, however the secret is rotated, lost or found between them:
\* the value is loaded once, a failed load included (gateway_proof.py:59-63).
DecisionsPinned ==
  \A r, s \in Requests :
    /\ req[r].pc # "new" /\ deployment.calls[r].op = "auth"
    /\ req[s].pc # "new" /\ deployment.calls[s].op = "auth"
    /\ req[r].life = req[s].life
    /\ deployment.calls[r].headers.secret = deployment.calls[s].headers.secret
    => req[r].proof = req[s].proof

\* The order in the docstring of resolve_secret_identifier (secrets.py:638-648):
\* canonical variables before those of an alias; under one prefix that of the
\* active cloud, then those of other clouds, then the neutral name.
precedence(q, v) ==
  LET prefixes == env_prefix_candidates(q)
      p == CHOOSE i \in DOMAIN prefixes : prefixes[i] = v[1]
      own == provider_specific_env_var(v[1], get_cloud_provider)
  IN  4 * p + (IF <<v>> = own THEN 0 ELSE IF v[2] = "SECRET_NAME" THEN 2 ELSE 1)

\* The variables the code looks at: without aliases no other cloud's.
candidates(q) ==
  LET prefixes == env_prefix_candidates(q)
  IN  {v \in deployment.env :
         /\ \E i \in DOMAIN prefixes : prefixes[i] = v[1]
         /\ \/ q.env_alias_prefixes # <<>> /\ \E c \in DOMAIN Suffixes : v[2] = Suffixes[c]
            \/ v[2] = "SECRET_NAME"
            \/ <<v>> = provider_specific_env_var(v[1], get_cloud_provider)}

ByPrecedence(q, id) ==
  IF candidates(q) = {} THEN id = <<"default", q.logical_id>>
  ELSE /\ id \in candidates(q)
       /\ \A v \in candidates(q) : precedence(q, id) <= precedence(q, v)

RequiredSecretsLoaded ==
  \A i \in DOMAIN deployment.reqs :
    LET q == deployment.reqs[i]
    IN  requirement_is_required(q) =>
          /\ q.logical_id \in DOMAIN process.bundle
          /\ truthy(process.bundle[q.logical_id])
          /\ q.json_field # "" => process.bundle[q.logical_id].kind = "text"

\* A process that serves has every secret it requires, a JSON field as a
\* non-empty string, and a connection none of whose parts is missing or blank;
\* and each secret was read from the object the documented order of the
\* environment picks: whatever is set, missing or malformed, and whatever changes
\* between two reads, startup otherwise fails (secrets.py:627-697, 913-1003,
\* 1267-1390; db_auth.py:42-90).
StartupFailsClosed ==
  process.phase = "serving" =>
    /\ RequiredSecretsLoaded
    /\ process.database # Malformed
    /\ \A i \in DOMAIN process.database :
         IsText(process.database[i]) \/ IsPort(process.database[i])
    /\ \A i \in DOMAIN process.database : ~Blank(process.database[i])
    /\ \A i \in DOMAIN deployment.reqs :
         LET q == deployment.reqs[i]
         IN  ~q.raw /\ q.name_env_var = Unset /\ q.provider_env_vars = <<>>
               /\ q.logical_id \in DOMAIN process.chosen
             => ByPrecedence(q, process.chosen[q.logical_id])
=============================================================================
