-------------------------- MODULE ServiceAuth_proofs --------------------------
(***************************************************************************)
(* Proofs about ServiceAuth: how requests are decided, what they are told, *)
(* and what startup establishes before there are any, for any deployments, *)
(* any number of requests and any bounds.                                  *)
(*                                                                         *)
(* Decisions, lookups and startup do not depend on each other: each has an *)
(* inductive invariant of its own.  Lookups and startup rest on the shape  *)
(* of the state that the first establishes, the types on all of it.        *)
(***************************************************************************)
EXTENDS ServiceAuth, WellFoundedInduction, TLAPS

\* The requests are records of one shape, and none is of a life to come.
ShapeOK ==
  /\ process.life \in Nat
  /\ DOMAIN process = DOMAIN Down(0)
  /\ DOMAIN req = Requests
  /\ \A r \in Requests : DOMAIN req[r] = DOMAIN NewRequest
  /\ \A r \in Requests :
       req[r].pc # "new" => req[r].life \in Nat /\ req[r].life <= process.life

\* What the process compares with is what the manager held in this life.
GatewayOK ==
  /\ current_gateway_secret \in held
  /\ gateway.expected # Absent => truthy(gateway.expected) /\ gateway.expected \in held

IsAuth(r) == req[r].pc # "new" /\ deployment.calls[r].op = "auth"

\* How a request that presents a text is decided with a loaded secret.
decision(expected, presented) ==
  IF gateway_proof_mode = "off" THEN "pass" ELSE proof_outcome(expected, presented)

\* A request of this life was decided with the secret that is loaded now.
DecidedByLoaded ==
  \A r \in Requests : IsAuth(r) /\ req[r].life = process.life =>
    /\ gateway_proof_mode # "off" => gateway.loaded
    /\ req[r].proof = decision(gateway.expected, deployment.calls[r].headers.secret)

DecisionInv ==
  /\ ShapeOK
  /\ GatewayOK
  /\ DecidedByLoaded
  /\ DecisionsPinned
  /\ AdmittedHadProof

\* A cache entry holds what its lookup could truly have been told.
CacheOK ==
  \A k \in DOMAIN cache : /\ cache[k].value \in cache[k].possible
                          /\ cache[k].expiry = cache[k].filled + deployment.ttl

item_in(items, key) == IF key \in DOMAIN items THEN items[key] ELSE "absent"

\* What the store would answer now is among what a lookup under way may be told.
LookupOK(q, items, ttl) ==
  /\ q.pc = "asking" => answer(q.op, item_in(items, q.key)) \in q.possible
  /\ q.pc = "answered" => q.got \in q.possible
  /\ q.pc = "done" /\ q.status = "ok" =>
       /\ q.got \in q.possible
       /\ q.at = q.filled \/ q.at < q.filled + ttl

LookupInv ==
  /\ CacheOK
  /\ \A r \in Requests : LookupOK(req[r], store, deployment.ttl)

-----------------------------------------------------------------------------
(* Steps *)

\* The configuration of a process is fixed.
LEMMA DeploymentFixed ==
  ASSUME [Next]_vars
  PROVE  deployment' = deployment
<1>1. CASE UNCHANGED vars
  BY <1>1 DEF vars
<1>2. CASE load_startup_secret
  BY <1>2 DEF load_startup_secret
<1>3. CASE open_database
  BY <1>3 DEF open_database
<1>4. ASSUME NEW r \in Requests, get_auth_context(r) PROVE deployment' = deployment
  BY <1>4 DEF get_auth_context
<1>5. ASSUME NEW r \in Requests, get_store_id(r) PROVE deployment' = deployment
  BY <1>5 DEF get_store_id
<1>6. ASSUME NEW r \in Requests, InnerAnswers(r) \/ InnerFails(r) \/ finish_lookup(r)
      PROVE  deployment' = deployment
  BY <1>6 DEF InnerAnswers, InnerFails, finish_lookup
<1>7. CASE Tick \/ RotateSecret \/ ChangeMetadata \/ Restart
  BY <1>7 DEF Tick, RotateSecret, ChangeMetadata, Restart
<1> QED BY <1>1, <1>2, <1>3, <1>4, <1>5, <1>6, <1>7 DEF Next

\* So are the operators that read nothing else.
LEMMA ConfigurationFixed ==
  ASSUME deployment' = deployment
  PROVE  /\ gateway_proof_mode' = gateway_proof_mode
         /\ gateway_secret_name' = gateway_secret_name
         /\ get_cloud_provider' = get_cloud_provider
         /\ \A e, p : decision(e, p)' = decision(e, p)
<1>1. gateway_proof_mode' = gateway_proof_mode
  BY DEF gateway_proof_mode
<1>2. gateway_secret_name' = gateway_secret_name
  BY DEF gateway_secret_name, settings_environment
<1>3. get_cloud_provider' = get_cloud_provider
  BY DEF get_cloud_provider
<1>4. \A e, p : decision(e, p)' = decision(e, p)
  BY <1>1 DEF decision, proof_outcome
<1> QED BY <1>1, <1>2, <1>3, <1>4

\* An unchanged vault has an unchanged gateway secret.
LEMMA SecretUnchanged ==
  ASSUME deployment' = deployment, vault' = vault
  PROVE  current_gateway_secret' = current_gateway_secret
BY ConfigurationFixed DEF current_gateway_secret

\* One request becomes another record of the same shape; the others stay.
Becomes(r, q) ==
  /\ DOMAIN req' = Requests
  /\ req'[r] = q
  /\ DOMAIN q = DOMAIN NewRequest
  /\ \A s \in Requests \ {r} : req'[s] = req[s]

\* A live cache entry ends a request at once.
FromCache(q) ==
  /\ q.pc = "done"
  /\ UNCHANGED cache
  /\ \E k \in DOMAIN cache :
       /\ q.got = cache[k].value /\ q.possible = cache[k].possible
       /\ q.filled = cache[k].filled /\ q.at = now /\ now < cache[k].expiry

\* The store is asked; entries may leave the cache.
FromStore(q) ==
  /\ q.pc = "asking"
  /\ q.possible = {answer(q.op, item_of(q.key))}
  /\ \A k \in DOMAIN cache' : k \in DOMAIN cache /\ cache'[k] = cache[k]

Refused(q) == q.pc = "done" /\ q.status # "ok" /\ UNCHANGED cache

\* A lookup keeps the identity of the request it was called for.
LEMMA LookUpBegins ==
  ASSUME ShapeOK, NEW r \in Requests, NEW entry,
         DOMAIN entry = DOMAIN NewRequest, look_up(r, entry)
  PROVE  \E q : /\ Becomes(r, q)
                /\ q.life = entry.life /\ q.proof = entry.proof /\ q.genuine = entry.genuine
                /\ FromCache(q) \/ FromStore(q)
<1> DEFINE ckey == cache_key(entry.op, entry.key)
           hit == [entry EXCEPT !.pc = "done", !.status = "ok", !.got = get_cached(ckey),
                                !.possible = cache[ckey].possible,
                                !.filled = cache[ckey].filled, !.at = now]
           miss == [entry EXCEPT !.pc = "asking",
                                 !.possible = {answer(entry.op, item_of(entry.key))}]
<1>1. CASE caching /\ get_cached(ckey) # NoAnswer
  <2>1. req' = [req EXCEPT ![r] = hit] /\ UNCHANGED cache
    BY <1>1 DEF look_up
  <2>2. /\ ckey \in DOMAIN cache /\ now < cache[ckey].expiry
        /\ get_cached(ckey) = cache[ckey].value
    BY <1>1 DEF get_cached
  <2> HIDE DEF ckey
  <2>3. /\ DOMAIN hit = DOMAIN NewRequest /\ hit.pc = "done"
        /\ hit.life = entry.life /\ hit.proof = entry.proof /\ hit.genuine = entry.genuine
        /\ hit.got = get_cached(ckey) /\ hit.possible = cache[ckey].possible
        /\ hit.filled = cache[ckey].filled /\ hit.at = now
    BY DEF NewRequest
  <2> HIDE DEF hit
  <2>4. Becomes(r, hit)
    BY <2>1, <2>3 DEF Becomes, ShapeOK
  <2> QED BY <2>1, <2>2, <2>3, <2>4 DEF FromCache
<1>2. CASE ~(caching /\ get_cached(ckey) # NoAnswer)
  <2>1. /\ req' = [req EXCEPT ![r] = miss]
        /\ cache' = IF caching THEN without_expired(ckey) ELSE cache
    BY <1>2 DEF look_up
  <2>2. \A k \in DOMAIN cache' : k \in DOMAIN cache /\ cache'[k] = cache[k]
    BY <2>1 DEF without_expired
  <2> HIDE DEF ckey
  <2>3. /\ DOMAIN miss = DOMAIN NewRequest /\ miss.pc = "asking"
        /\ miss.life = entry.life /\ miss.proof = entry.proof /\ miss.genuine = entry.genuine
        /\ miss.op = entry.op /\ miss.key = entry.key
        /\ miss.possible = {answer(entry.op, item_of(entry.key))}
    BY DEF NewRequest
  <2> HIDE DEF miss
  <2>4. Becomes(r, miss)
    BY <2>1, <2>3 DEF Becomes, ShapeOK
  <2> QED BY <2>2, <2>3, <2>4 DEF FromStore
<1> QED BY <1>1, <1>2

\* What get_auth_context does to its request and to the loaded secret.
LEMMA AuthBegins ==
  ASSUME ShapeOK, NEW r \in Requests, get_auth_context(r)
  PROVE  LET secret == deployment.calls[r].headers.secret
         IN  /\ gateway' = IF gateway_proof_mode = "off" THEN gateway ELSE get_expected_secret
             /\ UNCHANGED <<deployment, vault, process, store, now, held>>
             /\ \E q : /\ Becomes(r, q)
                       /\ q.life = process.life
                       /\ q.proof = decision(gateway'.expected, secret)
                       /\ q.genuine = (secret # "" /\ Text(secret) \in held)
                       /\ FromCache(q) \/ FromStore(q) \/ Refused(q)
<1> DEFINE secret == deployment.calls[r].headers.secret
           loaded == IF gateway_proof_mode = "off" THEN gateway ELSE get_expected_secret
           outcome == decision(loaded.expected, secret)
           key == extract_key_id(deployment.calls[r].headers)
           entry == [NewRequest EXCEPT !.life = process.life, !.key = key, !.proof = outcome,
                                       !.genuine = secret # "" /\ Text(secret) \in held,
                                       !.at = now]
           refusal(status) == [entry EXCEPT !.pc = "done", !.status = status]
<1>1. /\ gateway' = loaded
      /\ UNCHANGED <<deployment, vault, process, store, now, held>>
      /\ \/ outcome # "pass" /\ req' = [req EXCEPT ![r] = refusal(outcome)] /\ UNCHANGED cache
         \/ req' = [req EXCEPT ![r] = refusal("401")] /\ UNCHANGED cache
         \/ look_up(r, entry)
  BY DEF get_auth_context, decision
<1>2. outcome \in {"pass", "401", "500", "503"}
  BY DEF decision, proof_outcome
<1>3. /\ DOMAIN entry = DOMAIN NewRequest
      /\ entry.life = process.life /\ entry.proof = outcome
      /\ entry.genuine = (secret # "" /\ Text(secret) \in held)
  <2> HIDE DEF outcome, key, secret
  <2> QED BY DEF NewRequest
<1>4. \A status : /\ DOMAIN refusal(status) = DOMAIN NewRequest
                  /\ refusal(status).pc = "done" /\ refusal(status).status = status
                  /\ refusal(status).life = entry.life
                  /\ refusal(status).proof = entry.proof
                  /\ refusal(status).genuine = entry.genuine
  <2> HIDE DEF entry
  <2> QED BY <1>3 DEF NewRequest
<1> HIDE DEF entry, refusal, loaded, outcome
<1>5. \A status : req' = [req EXCEPT ![r] = refusal(status)] => Becomes(r, refusal(status))
  BY <1>4 DEF Becomes, ShapeOK
<1>6. \E q : /\ Becomes(r, q)
             /\ q.life = entry.life /\ q.proof = entry.proof /\ q.genuine = entry.genuine
             /\ FromCache(q) \/ FromStore(q) \/ Refused(q)
  <2>1. CASE outcome # "pass" /\ req' = [req EXCEPT ![r] = refusal(outcome)] /\ UNCHANGED cache
    <3>1. Refused(refusal(outcome))
      BY <2>1, <1>2, <1>4 DEF Refused
    <3> QED BY <2>1, <3>1, <1>4, <1>5
  <2>2. CASE req' = [req EXCEPT ![r] = refusal("401")] /\ UNCHANGED cache
    <3>1. Refused(refusal("401"))
      BY <2>2, <1>4 DEF Refused
    <3> QED BY <2>2, <3>1, <1>4, <1>5
  <2>3. CASE look_up(r, entry)
    BY <2>3, <1>3, LookUpBegins
  <2> QED BY <1>1, <2>1, <2>2, <2>3
<1>7. gateway'.expected = loaded.expected
  BY <1>1
<1>8. decision(gateway'.expected, secret) = outcome
  BY <1>7 DEF outcome
<1>9. gateway' = IF gateway_proof_mode = "off" THEN gateway ELSE get_expected_secret
  BY <1>1 DEF loaded
<1> QED BY <1>1, <1>3, <1>6, <1>8, <1>9

\* What a service's own question does.
LEMMA StoreIdBegins ==
  ASSUME ShapeOK, NEW r \in Requests, get_store_id(r)
  PROVE  /\ UNCHANGED <<deployment, vault, process, gateway, store, now, held>>
         /\ deployment.calls[r].op = "store_id"
         /\ \E q : /\ Becomes(r, q)
                   /\ q.life = process.life
                   /\ FromCache(q) \/ FromStore(q)
<1> DEFINE entry == [NewRequest EXCEPT !.life = process.life, !.op = "store_id",
                                       !.key = <<"id", deployment.calls[r].headers.key_id>>]
<1>1. /\ UNCHANGED <<deployment, vault, process, gateway, store, now, held>>
      /\ deployment.calls[r].op = "store_id"
      /\ look_up(r, entry)
  BY DEF get_store_id
<1>2. DOMAIN entry = DOMAIN NewRequest /\ entry.life = process.life
  BY DEF NewRequest
<1> HIDE DEF entry
<1> QED BY <1>1, <1>2, LookUpBegins

\* The other steps keep what was decided about every request.
Keeps(r) ==
  /\ DOMAIN req'[r] = DOMAIN req[r]
  /\ req'[r].pc = "new" <=> req[r].pc = "new"
  /\ req'[r].life = req[r].life
  /\ req'[r].proof = req[r].proof
  /\ req'[r].genuine = req[r].genuine

LEMMA UnchangedKeeps ==
  ASSUME ShapeOK, UNCHANGED req
  PROVE  DOMAIN req' = Requests /\ \A r \in Requests : Keeps(r)
BY DEF ShapeOK, Keeps

LEMMA LookupKeeps ==
  ASSUME ShapeOK, NEW r \in Requests,
         InnerAnswers(r) \/ InnerFails(r) \/ finish_lookup(r)
  PROVE  DOMAIN req' = Requests /\ \A s \in Requests : Keeps(s)
<1>1. DOMAIN req[r] = DOMAIN NewRequest /\ DOMAIN req = Requests
  BY DEF ShapeOK
<1>2. DOMAIN req' = Requests /\ \A s \in Requests \ {r} : req'[s] = req[s]
  BY <1>1 DEF InnerAnswers, InnerFails, finish_lookup
<1>3. CASE InnerAnswers(r)
  <2>1. Keeps(r)
    BY <1>1, <1>3 DEF InnerAnswers, Keeps, NewRequest
  <2> QED BY <1>2, <2>1 DEF Keeps
<1>4. CASE InnerFails(r)
  <2>1. Keeps(r)
    BY <1>1, <1>4 DEF InnerFails, Keeps, NewRequest
  <2> QED BY <1>2, <2>1 DEF Keeps
<1>5. CASE finish_lookup(r)
  <2>1. Keeps(r)
    BY <1>1, <1>5 DEF finish_lookup, Keeps, NewRequest
  <2> QED BY <1>2, <2>1 DEF Keeps
<1> QED BY <1>3, <1>4, <1>5

LEMMA SurroundingsKeep ==
  ASSUME ShapeOK, ChangeMetadata \/ Restart
  PROVE  DOMAIN req' = Requests /\ \A s \in Requests : Keeps(s)
<1>1. \A s \in Requests : DOMAIN req[s] = DOMAIN NewRequest
  BY DEF ShapeOK
<1>2. CASE ChangeMetadata
  BY <1>1, <1>2 DEF ChangeMetadata, Keeps, NewRequest
<1>3. CASE Restart
  BY <1>1, <1>3 DEF Restart, Keeps, NewRequest
<1> QED BY <1>2, <1>3
-----------------------------------------------------------------------------
(* Decisions *)

\* A step in which the process lives on keeps the shape of the state.
LEMMA ShapeKept ==
  ASSUME ShapeOK, DOMAIN req' = Requests, \A s \in Requests : Keeps(s),
         DOMAIN process' = DOMAIN process, process'.life \in Nat,
         process'.life >= process.life
  PROVE  ShapeOK'
BY DEF ShapeOK, Keeps

\* A step that keeps every decision, the loaded secret and the life, and
\* forgets no secret of that life.
LEMMA DecisionsKept ==
  ASSUME DecisionInv, deployment' = deployment, DOMAIN req' = Requests,
         \A s \in Requests : Keeps(s),
         DOMAIN process' = DOMAIN process, process'.life = process.life,
         gateway' = gateway, held \subseteq held', current_gateway_secret' \in held'
  PROVE  DecisionInv'
<1>1. ShapeOK'
  BY ShapeKept DEF DecisionInv, ShapeOK
<1>2. GatewayOK'
  BY DEF DecisionInv, GatewayOK
<1>3. \A r \in Requests : IsAuth(r)' <=> IsAuth(r)
  BY DEF IsAuth, Keeps
<1>4. DecidedByLoaded'
  BY <1>3, ConfigurationFixed DEF DecisionInv, DecidedByLoaded, Keeps
<1>5. DecisionsPinned'
  BY DEF DecisionInv, DecisionsPinned, Keeps
<1>6. AdmittedHadProof'
  BY ConfigurationFixed DEF DecisionInv, AdmittedHadProof, Keeps
<1> QED BY <1>1, <1>2, <1>4, <1>5, <1>6 DEF DecisionInv

\* The request is decided with the secret that is loaded after the step.
DecidedAs(r, q) ==
  /\ gateway' = IF gateway_proof_mode = "off" THEN gateway ELSE get_expected_secret
  /\ q.proof = decision(gateway'.expected, deployment.calls[r].headers.secret)
  /\ q.genuine = (/\ deployment.calls[r].headers.secret # ""
                  /\ Text(deployment.calls[r].headers.secret) \in held)

\* A step of one request that begins: the secret it was decided with is loaded
\* now, and was before it if another request of this life was decided.
LEMMA DecisionBegun ==
  ASSUME DecisionInv, NEW r \in Requests, NEW q, Becomes(r, q), q.pc # "new",
         UNCHANGED <<deployment, vault, process, held>>,
         q.life = process.life,
         deployment.calls[r].op = "auth" => DecidedAs(r, q),
         deployment.calls[r].op # "auth" => gateway' = gateway
  PROVE  DecisionInv'
<1> DEFINE text(s) == deployment.calls[s].headers.secret
<1>0. /\ ShapeOK /\ GatewayOK /\ DecidedByLoaded /\ DecisionsPinned /\ AdmittedHadProof
      /\ DOMAIN req' = Requests /\ req'[r] = q /\ DOMAIN q = DOMAIN NewRequest
      /\ \A s \in Requests \ {r} : req'[s] = req[s]
  BY DEF DecisionInv, Becomes
<1>1. ShapeOK'
  BY <1>0 DEF ShapeOK
<1>2. \/ gateway' = gateway
      \/ /\ ~gateway.loaded /\ gateway_proof_mode # "off"
         /\ gateway'.loaded
         /\ \/ gateway'.expected = Absent
            \/ truthy(gateway'.expected) /\ gateway'.expected = current_gateway_secret
  <2>1. CASE deployment.calls[r].op # "auth"
    BY <2>1
  <2>2. CASE /\ deployment.calls[r].op = "auth"
             /\ gateway_proof_mode = "off" \/ gateway.loaded
    <3>1. gateway' = gateway
      BY <2>2 DEF DecidedAs, get_expected_secret
    <3> QED BY <3>1
  <2>3. CASE /\ deployment.calls[r].op = "auth"
             /\ gateway_proof_mode # "off" /\ ~gateway.loaded
    <3> DEFINE value == IF truthy(current_gateway_secret) THEN current_gateway_secret
                        ELSE Absent
    <3>1. gateway' = [loaded |-> TRUE, expected |-> value]
      BY <2>3 DEF DecidedAs, get_expected_secret
    <3>2. value = Absent \/ (truthy(value) /\ value = current_gateway_secret)
      OBVIOUS
    <3> HIDE DEF value
    <3>3. gateway'.loaded /\ gateway'.expected = value
      BY <3>1
    <3> QED BY <2>3, <3>2, <3>3
  <2> QED BY <2>1, <2>2, <2>3
<1>3. GatewayOK'
  BY <1>0, <1>2, SecretUnchanged DEF GatewayOK
<1>4. gateway_proof_mode # "off" /\ deployment.calls[r].op = "auth" => gateway'.loaded
  <2> SUFFICES ASSUME gateway_proof_mode # "off", deployment.calls[r].op = "auth",
                      gateway' = gateway
               PROVE  gateway.loaded
    BY <1>2
  <2>1. gateway' = get_expected_secret
    BY DEF DecidedAs
  <2>2. ~gateway.loaded => gateway'.loaded
    <3> DEFINE value == IF truthy(current_gateway_secret) THEN current_gateway_secret
                        ELSE Absent
    <3>1. ~gateway.loaded => gateway' = [loaded |-> TRUE, expected |-> value]
      BY <2>1 DEF get_expected_secret
    <3> HIDE DEF value
    <3> QED BY <3>1
  <2> QED BY <2>2
<1>5. \A s \in Requests \ {r} : IsAuth(s)' <=> IsAuth(s)
  BY <1>0 DEF IsAuth
<1>6. IsAuth(r)' => q.proof = decision(gateway'.expected, text(r))
  BY DEF IsAuth, DecidedAs
<1>7. DecidedByLoaded'
  <2> SUFFICES ASSUME NEW s \in Requests, IsAuth(s)', req'[s].life = process'.life
               PROVE  /\ gateway_proof_mode # "off" => gateway'.loaded
                      /\ req'[s].proof = decision(gateway'.expected, text(s))
    BY ConfigurationFixed DEF DecidedByLoaded
  <2>1. CASE s = r
    BY <2>1, <1>0, <1>4, <1>6 DEF IsAuth
  <2>2. CASE s # r
    <3>1. /\ gateway_proof_mode # "off" => gateway.loaded
          /\ req[s].proof = decision(gateway.expected, text(s))
          /\ req'[s] = req[s]
      BY <2>2, <1>0, <1>5 DEF DecidedByLoaded
    <3>2. gateway' = gateway
      BY <3>1, <1>2 DEF get_expected_secret
    <3> QED BY <3>1, <3>2
  <2> QED BY <2>1, <2>2
<1>8. DecisionsPinned'
  <2> SUFFICES ASSUME NEW s \in Requests, NEW t \in Requests, IsAuth(s)', IsAuth(t)',
                      req'[s].life = req'[t].life, text(s) = text(t)
               PROVE  req'[s].proof = req'[t].proof
    BY DEF DecisionsPinned, IsAuth
  <2>1. CASE s # r /\ t # r
    BY <2>1, <1>0, <1>5 DEF DecisionsPinned, IsAuth
  <2>2. CASE s = r \/ t = r
    <3>1. req'[s].life = process'.life /\ req'[t].life = process'.life
      BY <2>2, <1>0
    <3>2. /\ req'[s].proof = decision(gateway'.expected, text(s))
          /\ req'[t].proof = decision(gateway'.expected, text(t))
      BY <3>1, <1>7, ConfigurationFixed DEF DecidedByLoaded
    <3> QED BY <3>2
  <2> QED BY <2>1, <2>2
<1>9. AdmittedHadProof'
  <2> SUFFICES ASSUME gateway_proof_mode = "enforce", NEW s \in Requests, IsAuth(s)',
                      req'[s].proof = "pass"
               PROVE  req'[s].genuine
    BY ConfigurationFixed DEF AdmittedHadProof, IsAuth
  <2>1. CASE s # r
    BY <2>1, <1>0, <1>5 DEF AdmittedHadProof, IsAuth
  <2>2. CASE s = r
    <3>1. decision(gateway'.expected, text(r)) = "pass"
      BY <2>2, <1>0, <1>6
    <3>2. gateway'.expected = Text(text(r)) /\ gateway'.expected.kind # "absent"
      BY <3>1 DEF decision, proof_outcome
    <3>3. truthy(Text(text(r))) /\ Text(text(r)) \in held
      <4>0. Absent.kind = "absent"
        BY DEF Absent
      <4>1. gateway'.expected # Absent
        BY <3>2, <4>0
      <4>2. truthy(gateway'.expected) /\ gateway'.expected \in held
        BY <4>1, <1>3 DEF GatewayOK
      <4> QED BY <4>2, <3>2
    <3>4. text(r) # ""
      BY <3>3 DEF truthy, Text
    <3>5. q.genuine = (text(r) # "" /\ Text(text(r)) \in held)
      BY <2>2 DEF IsAuth, DecidedAs
    <3> QED BY <3>3, <3>4, <3>5, <2>2, <1>0
  <2> QED BY <2>1, <2>2
<1> QED BY <1>1, <1>3, <1>7, <1>8, <1>9 DEF DecisionInv

LEMMA DecisionInit == Init => DecisionInv
<1> SUFFICES ASSUME Init PROVE DecisionInv
  OBVIOUS
<1>1. \A r \in Requests : req[r] = NewRequest /\ req[r].pc = "new"
  BY DEF Init, NewRequest
<1>2. ShapeOK
  BY <1>1 DEF Init, ShapeOK, Down
<1>3. GatewayOK
  BY DEF Init, GatewayOK, NotLoaded
<1> QED BY <1>1, <1>2, <1>3 DEF DecisionInv, DecidedByLoaded, DecisionsPinned,
                               AdmittedHadProof, IsAuth

LEMMA DecisionNext == DecisionInv /\ [Next]_vars => DecisionInv'
<1> SUFFICES ASSUME DecisionInv, [Next]_vars PROVE DecisionInv'
  OBVIOUS
<1>0. /\ ShapeOK /\ deployment' = deployment
      /\ current_gateway_secret \in held
      /\ vault' = vault => current_gateway_secret' = current_gateway_secret
  BY DeploymentFixed, SecretUnchanged DEF DecisionInv, GatewayOK
<1>1. CASE UNCHANGED vars
  BY <1>0, <1>1, UnchangedKeeps, DecisionsKept DEF vars
<1>2. CASE load_startup_secret \/ open_database
  <2>1. /\ DOMAIN process' = DOMAIN process /\ process'.life = process.life
        /\ UNCHANGED <<vault, gateway, req, held>>
    BY <1>0, <1>2 DEF load_startup_secret, open_database, ShapeOK, Down
  <2> QED BY <1>0, <2>1, UnchangedKeeps, DecisionsKept
<1>3. ASSUME NEW r \in Requests, get_auth_context(r) PROVE DecisionInv'
  <2>1. PICK q : /\ Becomes(r, q) /\ q.life = process.life
                 /\ q.proof = decision(gateway'.expected, deployment.calls[r].headers.secret)
                 /\ q.genuine = (/\ deployment.calls[r].headers.secret # ""
                                 /\ Text(deployment.calls[r].headers.secret) \in held)
                 /\ FromCache(q) \/ FromStore(q) \/ Refused(q)
    BY <1>0, <1>3, AuthBegins
  <2>2. q.pc # "new"
    BY <2>1 DEF FromCache, FromStore, Refused
  <2>3. /\ gateway' = IF gateway_proof_mode = "off" THEN gateway ELSE get_expected_secret
        /\ UNCHANGED <<deployment, vault, process, held>>
        /\ deployment.calls[r].op = "auth"
    BY <1>0, <1>3, AuthBegins DEF get_auth_context
  <2>4. DecidedAs(r, q)
    BY <2>1, <2>3 DEF DecidedAs
  <2> QED BY <2>1, <2>2, <2>3, <2>4, DecisionBegun
<1>4. ASSUME NEW r \in Requests, get_store_id(r) PROVE DecisionInv'
  <2>1. PICK q : Becomes(r, q) /\ q.life = process.life /\ (FromCache(q) \/ FromStore(q))
    BY <1>0, <1>4, StoreIdBegins
  <2>2. q.pc # "new"
    BY <2>1 DEF FromCache, FromStore
  <2>3. /\ UNCHANGED <<deployment, vault, process, gateway, held>>
        /\ deployment.calls[r].op # "auth"
    BY <1>0, <1>4, StoreIdBegins
  <2> QED BY <2>1, <2>2, <2>3, DecisionBegun
<1>5. ASSUME NEW r \in Requests, InnerAnswers(r) \/ InnerFails(r) \/ finish_lookup(r)
      PROVE  DecisionInv'
  <2>1. UNCHANGED <<vault, process, gateway, held>>
    BY <1>5 DEF InnerAnswers, InnerFails, finish_lookup
  <2>2. DOMAIN req' = Requests /\ \A s \in Requests : Keeps(s)
    BY <1>0, <1>5, LookupKeeps
  <2> QED BY <1>0, <2>1, <2>2, DecisionsKept
<1>6. CASE Tick
  <2>1. UNCHANGED <<vault, process, gateway, req, held>>
    BY <1>6 DEF Tick
  <2> QED BY <1>0, <2>1, UnchangedKeeps, DecisionsKept
<1>7. CASE RotateSecret
  <2>1. /\ UNCHANGED <<process, gateway, req>>
        /\ held' = held \cup {load_secret_value(vault', gateway_secret_name, get_cloud_provider)}
    BY <1>7 DEF RotateSecret
  <2>2. current_gateway_secret' \in held'
    BY <1>0, <2>1, ConfigurationFixed DEF current_gateway_secret
  <2> QED BY <1>0, <2>1, <2>2, UnchangedKeeps, DecisionsKept
<1>8. CASE ChangeMetadata
  <2>1. UNCHANGED <<vault, process, gateway, held>>
    BY <1>8 DEF ChangeMetadata
  <2> QED BY <1>0, <1>8, <2>1, SurroundingsKeep, DecisionsKept
<1>9. CASE Restart
  <2>1. /\ process' = Down(process.life + 1) /\ gateway' = NotLoaded
        /\ held' = {current_gateway_secret} /\ vault' = vault
    BY <1>9 DEF Restart
  <2>2. DOMAIN req' = Requests /\ \A s \in Requests : Keeps(s)
    BY <1>0, <1>9, SurroundingsKeep
  <2>3. process'.life = process.life + 1 /\ DOMAIN process' = DOMAIN process
    BY <1>0, <2>1 DEF Down, ShapeOK
  <2>4. ShapeOK'
    BY <1>0, <2>2, <2>3, ShapeKept DEF ShapeOK
  <2>5. GatewayOK'
    BY <1>0, <2>1 DEF GatewayOK, NotLoaded
  <2>6. \A r \in Requests : ~(IsAuth(r)' /\ req'[r].life = process'.life)
    BY <1>0, <2>2, <2>3 DEF ShapeOK, IsAuth, Keeps
  <2>7. DecidedByLoaded'
    BY <2>6 DEF DecidedByLoaded
  <2>8. DecisionsPinned'
    BY <1>0, <2>2 DEF DecisionInv, DecisionsPinned, Keeps
  <2>9. AdmittedHadProof'
    BY <1>0, <2>2, ConfigurationFixed DEF DecisionInv, AdmittedHadProof, Keeps
  <2> QED BY <2>4, <2>5, <2>7, <2>8, <2>9 DEF DecisionInv
<1> QED BY <1>1, <1>2, <1>3, <1>4, <1>5, <1>6, <1>7, <1>8, <1>9 DEF Next

\* The state of the decisions is always as DecisionInv says.
THEOREM DecisionsInvariant == Spec => []DecisionInv
BY DecisionInit, DecisionNext, PTL DEF Spec

\* Two requests that present the same proof to one life of the process are
\* decided alike, whatever happens to the secret between them.
THEOREM DecisionsArePinned == Spec => []DecisionsPinned
<1>1. DecisionInv => DecisionsPinned
  BY DEF DecisionInv
<1> QED BY <1>1, DecisionsInvariant, PTL

\* In enforce mode a request passes the proof only with a non-empty text that
\* was the gateway secret during this life.
THEOREM AdmissionNeedsProof == Spec => []AdmittedHadProof
<1>1. DecisionInv => AdmittedHadProof
  BY DEF DecisionInv
<1> QED BY <1>1, DecisionsInvariant, PTL
-----------------------------------------------------------------------------
(* Answers *)

\* A request that begins is told what a live entry holds, or may be told what
\* the store holds now.
LEMMA LookupBegun ==
  ASSUME LookupInv, NEW r \in Requests, NEW q, Becomes(r, q),
         FromCache(q) \/ FromStore(q) \/ Refused(q),
         UNCHANGED <<deployment, store, now>>
  PROVE  LookupInv'
<1>1. CacheOK'
  BY DEF LookupInv, CacheOK, FromCache, FromStore, Refused
<1>2. LookupOK(q, store, deployment.ttl)
  <2>1. CASE FromCache(q)
    BY <2>1 DEF FromCache, LookupInv, CacheOK, LookupOK
  <2>2. CASE FromStore(q)
    BY <2>2 DEF FromStore, LookupOK, item_of, item_in
  <2>3. CASE Refused(q)
    BY <2>3 DEF Refused, LookupOK
  <2> QED BY <2>1, <2>2, <2>3
<1>3. \A s \in Requests : LookupOK(req'[s], store, deployment.ttl)
  BY <1>2 DEF Becomes, LookupInv
<1> QED BY <1>1, <1>3 DEF LookupInv

LEMMA LookupInit == Init => LookupInv
<1> SUFFICES ASSUME Init PROVE LookupInv
  OBVIOUS
<1>1. CacheOK
  BY DEF Init, CacheOK
<1>2. \A r \in Requests : req[r].pc = "new"
  BY DEF Init, NewRequest
<1> QED BY <1>1, <1>2 DEF LookupInv, LookupOK

LEMMA LookupNext == ShapeOK /\ LookupInv /\ [Next]_vars => LookupInv'
<1> SUFFICES ASSUME ShapeOK, LookupInv, [Next]_vars PROVE LookupInv'
  OBVIOUS
<1>0. /\ deployment' = deployment
      /\ CacheOK /\ \A r \in Requests : LookupOK(req[r], store, deployment.ttl)
      /\ DOMAIN req = Requests
      /\ \A r \in Requests : DOMAIN req[r] = DOMAIN NewRequest
  BY DeploymentFixed DEF LookupInv, ShapeOK
<1>1. ASSUME UNCHANGED <<store, cache, req>> PROVE LookupInv'
  BY <1>0, <1>1 DEF LookupInv, CacheOK
<1>2. ASSUME UNCHANGED <<store, cache>>, DOMAIN req' = Requests,
             \A s \in Requests : LookupOK(req'[s], store, deployment.ttl)
      PROVE  LookupInv'
  BY <1>0, <1>2 DEF LookupInv, CacheOK
<1>3. CASE UNCHANGED vars
  BY <1>1, <1>3 DEF vars
<1>4. CASE load_startup_secret \/ open_database \/ Tick \/ RotateSecret
  BY <1>1, <1>4 DEF load_startup_secret, open_database, Tick, RotateSecret
<1>5. ASSUME NEW r \in Requests, get_auth_context(r) PROVE LookupInv'
  <2>1. UNCHANGED <<deployment, store, now>>
    BY <1>5, AuthBegins
  <2>2. \E q : Becomes(r, q) /\ (FromCache(q) \/ FromStore(q) \/ Refused(q))
    BY <1>5, AuthBegins
  <2> QED BY <2>1, <2>2, LookupBegun
<1>6. ASSUME NEW r \in Requests, get_store_id(r) PROVE LookupInv'
  <2>1. UNCHANGED <<deployment, store, now>>
    BY <1>6, StoreIdBegins
  <2>2. \E q : Becomes(r, q) /\ (FromCache(q) \/ FromStore(q))
    BY <1>6, StoreIdBegins
  <2> QED BY <2>1, <2>2, LookupBegun
<1>7. ASSUME NEW r \in Requests, InnerAnswers(r) PROVE LookupInv'
  <2>1. /\ UNCHANGED <<store, cache>>
        /\ DOMAIN req' = Requests /\ \A s \in Requests \ {r} : req'[s] = req[s]
        /\ req[r].pc = "asking"
        /\ req'[r].pc = "answered" /\ req'[r].possible = req[r].possible
        /\ req'[r].got = answer(req[r].op, item_in(store, req[r].key))
    BY <1>0, <1>7 DEF InnerAnswers, NewRequest, item_of, item_in
  <2>2. LookupOK(req'[r], store, deployment.ttl)
    BY <1>0, <2>1 DEF LookupOK
  <2> QED BY <1>0, <1>2, <2>1, <2>2
<1>8. ASSUME NEW r \in Requests, InnerFails(r) PROVE LookupInv'
  <2>1. /\ UNCHANGED <<store, cache>>
        /\ DOMAIN req' = Requests /\ \A s \in Requests \ {r} : req'[s] = req[s]
        /\ req'[r].pc = "done" /\ req'[r].status = "500"
    BY <1>0, <1>8 DEF InnerFails, NewRequest
  <2>2. LookupOK(req'[r], store, deployment.ttl)
    BY <2>1 DEF LookupOK
  <2> QED BY <1>0, <1>2, <2>1, <2>2
<1>9. ASSUME NEW r \in Requests, finish_lookup(r) PROVE LookupInv'
  <2>1. /\ store' = store
        /\ DOMAIN req' = Requests /\ \A s \in Requests \ {r} : req'[s] = req[s]
        /\ req[r].pc = "answered"
        /\ req'[r].pc = "done" /\ req'[r].got = req[r].got
        /\ req'[r].possible = req[r].possible
        /\ req'[r].at = now /\ req'[r].filled = now
    BY <1>0, <1>9 DEF finish_lookup, NewRequest
  <2>2. req[r].got \in req[r].possible
    BY <1>0, <2>1 DEF LookupOK
  <2>3. LookupOK(req'[r], store, deployment.ttl)
    BY <2>1, <2>2 DEF LookupOK
  <2>4. \A s \in Requests : LookupOK(req'[s], store, deployment.ttl)
    BY <1>0, <2>1, <2>3
  <2>5. CacheOK'
    <3> DEFINE ckey == cache_key(req[r].op, req[r].key)
               filling == [value |-> req[r].got, expiry |-> now + deployment.ttl,
                           filled |-> now, possible |-> req[r].possible]
    <3>1. \/ cache' = [k \in DOMAIN cache \cup {ckey} |-> IF k = ckey THEN filling ELSE cache[k]]
          \/ cache' = cache
      BY <1>9 DEF finish_lookup, set_cached, with
    <3>2. CASE cache' = cache
      BY <1>0, <3>2 DEF CacheOK
    <3>3. CASE cache' = [k \in DOMAIN cache \cup {ckey} |-> IF k = ckey THEN filling ELSE cache[k]]
      <4> HIDE DEF ckey, filling
      <4>1. \A k \in DOMAIN cache' : \/ cache'[k] = filling
                                     \/ k \in DOMAIN cache /\ cache'[k] = cache[k]
        BY <3>3
      <4>2. /\ filling.value \in filling.possible
            /\ filling.expiry = filling.filled + deployment.ttl
        BY <2>2 DEF filling
      <4> QED BY <1>0, <4>1, <4>2 DEF CacheOK
    <3> QED BY <3>1, <3>2, <3>3
  <2> QED BY <1>0, <2>1, <2>4, <2>5 DEF LookupInv
<1>10. CASE ChangeMetadata
  <2>1. PICK key \in DOMAIN store, item \in deployment.items :
          /\ store' = [store EXCEPT ![key] = item]
          /\ req' = [r \in Requests |->
                       IF req[r].pc = "asking" /\ req[r].key = key
                       THEN [req[r] EXCEPT !.possible = @ \cup {answer(req[r].op, item)}]
                       ELSE req[r]]
    BY <1>10 DEF ChangeMetadata
  <2>2. CacheOK'
    BY <1>0, <1>10 DEF ChangeMetadata, CacheOK
  <2>3. /\ item_in(store', key) = item
        /\ \A k : k # key => item_in(store', k) = item_in(store, k)
    BY <2>1 DEF item_in
  <2>4. ASSUME NEW r \in Requests PROVE LookupOK(req'[r], store', deployment.ttl)
    <3>1. CASE req[r].pc = "asking" /\ req[r].key = key
      <4>1. /\ req'[r].pc = "asking" /\ req'[r].key = key /\ req'[r].op = req[r].op
            /\ req'[r].possible = req[r].possible \cup {answer(req[r].op, item)}
        BY <1>0, <2>1, <3>1 DEF NewRequest
      <4> QED BY <2>3, <4>1 DEF LookupOK
    <3>2. CASE req[r].pc = "asking" /\ req[r].key # key
      <4>1. req'[r] = req[r] /\ item_in(store', req[r].key) = item_in(store, req[r].key)
        BY <2>1, <2>3, <3>2
      <4> QED BY <1>0, <3>2, <4>1 DEF LookupOK
    <3>3. CASE req[r].pc # "asking"
      <4>1. req'[r] = req[r]
        BY <2>1, <3>3
      <4> QED BY <1>0, <3>3, <4>1 DEF LookupOK
    <3> QED BY <3>1, <3>2, <3>3
  <2> QED BY <1>0, <2>2, <2>4 DEF LookupInv
<1>11. CASE Restart
  <2>1. /\ store' = store /\ cache' = <<>>
        /\ req' = [r \in Requests |->
                     IF req[r].pc \in {"asking", "answered"}
                     THEN [req[r] EXCEPT !.pc = "done", !.status = "lost"] ELSE req[r]]
    BY <1>11 DEF Restart
  <2>2. CacheOK'
    <3>1. cache' = <<>>
      BY <1>11 DEF Restart
    <3>2. DOMAIN cache' = {}
      BY <3>1
    <3> QED BY <3>2 DEF CacheOK
  <2>3. \A r \in Requests : LookupOK(req'[r], store, deployment.ttl)
    <3> TAKE r \in Requests
    <3>1. CASE req[r].pc \in {"asking", "answered"}
      <4>1. req'[r].pc = "done" /\ req'[r].status = "lost"
        BY <1>0, <2>1, <3>1 DEF NewRequest
      <4> QED BY <4>1 DEF LookupOK
    <3>2. CASE req[r].pc \notin {"asking", "answered"}
      BY <1>0, <2>1, <3>2
    <3> QED BY <3>1, <3>2
  <2> QED BY <1>0, <2>1, <2>2, <2>3 DEF LookupInv
<1> QED BY <1>3, <1>4, <1>5, <1>6, <1>7, <1>8, <1>9, <1>10, <1>11 DEF Next

\* What a caller is told about a key was true of it at some moment of the
\* lookup that fetched it, which ended less than a TTL before.
THEOREM AnswersWereTrue == Spec => []AnswerWasTrue
<1>1. DecisionInv => ShapeOK
  BY DEF DecisionInv
<1>2. LookupInv => AnswerWasTrue
  BY DEF LookupInv, LookupOK, AnswerWasTrue
<1>3. Spec => []LookupInv
  BY <1>1, LookupInit, LookupNext, DecisionsInvariant, PTL DEF Spec
<1> QED BY <1>2, <1>3, PTL
-----------------------------------------------------------------------------
(* Which object a secret is read from *)

\* A set of natural numbers has a least element.
LEMMA LeastOf ==
  ASSUME NEW T, T \subseteq Nat, T # {}
  PROVE  \E x \in T : \A y \in T : x <= y
<1> DEFINE Below == OpToRel(<, Nat)
<1>1. IsWellFoundedOn(Below, Nat)
  BY NatLessThanWellFounded
<1>2. \A x, y \in Nat : <<y, x>> \in Below <=> y < x
  BY DEF OpToRel
<1> HIDE DEF Below
<1>3. PICK x \in T : \A y \in T : ~(<<y, x>> \in Below)
  BY <1>1, WFMin
<1>4. \A y \in T : x <= y
  <2> TAKE y \in T
  <2>1. x \in Nat /\ y \in Nat /\ ~(y < x)
    BY <1>2, <1>3
  <2> QED BY <2>1
<1> QED BY <1>4

\* first_of finds the wanted element that comes first.
LEMMA FirstOf ==
  ASSUME NEW seq, DOMAIN seq \subseteq Nat, NEW wanted, NEW default
  PROVE  LET first == first_of(seq, wanted, default)
         IN  \/ first = default /\ \A i \in DOMAIN seq : seq[i] \notin wanted
             \/ /\ first \in wanted
                /\ \E i \in DOMAIN seq :
                     first = seq[i] /\ \A j \in DOMAIN seq : seq[j] \in wanted => i <= j
<1> DEFINE hits == {i \in DOMAIN seq : seq[i] \in wanted}
<1>1. CASE hits = {}
  BY <1>1 DEF first_of
<1>2. CASE hits # {}
  <2> DEFINE least == CHOOSE i \in hits : \A j \in hits : i <= j
  <2>1. least \in hits /\ \A j \in hits : least <= j
    BY <1>2, LeastOf
  <2>2. first_of(seq, wanted, default) = seq[least]
    BY <1>2 DEF first_of
  <2> QED BY <2>1, <2>2
<1> QED BY <1>1, <1>2

\* A variable's place among those of its prefix.
rank(v, provider) ==
  IF <<v>> = provider_specific_env_var(v[1], provider) THEN 0
  ELSE IF v[2] = "SECRET_NAME" THEN 2 ELSE 1

\* Is v one of the variables of a prefix that are looked at?
LooksAt(q, prefix, provider, v) ==
  /\ v = <<prefix, v[2]>>
  /\ \/ q.env_alias_prefixes # <<>> /\ \E c \in DOMAIN Suffixes : v[2] = Suffixes[c]
     \/ v[2] = "SECRET_NAME"
     \/ <<v>> = provider_specific_env_var(prefix, provider)

LEMMA SuffixFacts ==
  /\ DOMAIN Suffixes = {"aws", "azure", "gcp"}
  /\ Suffixes.aws = "SECRET_ARN" /\ Suffixes.azure = "SECRET_URI"
  /\ Suffixes.gcp = "SECRET_RESOURCE"
  /\ \A provider \in DOMAIN Suffixes :
       Suffixes[provider] \in {"SECRET_ARN", "SECRET_URI", "SECRET_RESOURCE"}
<1>1. /\ DOMAIN Suffixes = {"aws", "azure", "gcp"}
      /\ Suffixes.aws = "SECRET_ARN" /\ Suffixes.azure = "SECRET_URI"
      /\ Suffixes.gcp = "SECRET_RESOURCE"
  BY DEF Suffixes
<1> QED BY <1>1

\* The places of sequences put one after the other.
LEMMA TwoParts ==
  ASSUME NEW S, NEW a \in Seq(S), NEW b \in Seq(S)
  PROVE  /\ a \o b \in Seq(S) /\ Len(a \o b) = Len(a) + Len(b)
         /\ \A i \in 1 .. Len(a) : (a \o b)[i] = a[i]
         /\ \A i \in 1 .. Len(b) : (a \o b)[Len(a) + i] = b[i]
OBVIOUS
LEMMA ThreeParts ==
  ASSUME NEW S, NEW a \in Seq(S), NEW b \in Seq(S), NEW c \in Seq(S)
  PROVE  LET m == Len(a)
             n == Len(b)
         IN  /\ a \o b \o c \in Seq(S) /\ Len(a \o b \o c) = m + n + Len(c)
             /\ \A i \in 1 .. m : (a \o b \o c)[i] = a[i]
             /\ \A i \in 1 .. n : (a \o b \o c)[m + i] = b[i]
             /\ \A i \in 1 .. Len(c) : (a \o b \o c)[m + n + i] = c[i]
<1>1. PICK front \in Seq(S) : front = a \o b
  BY TwoParts
<1>2. /\ Len(front) = Len(a) + Len(b)
      /\ \A i \in 1 .. Len(a) : front[i] = a[i]
      /\ \A i \in 1 .. Len(b) : front[Len(a) + i] = b[i]
  BY <1>1, TwoParts
<1>3. PICK whole : whole = front \o c
  OBVIOUS
<1>4. /\ whole \in Seq(S) /\ Len(whole) = Len(front) + Len(c)
      /\ \A i \in 1 .. Len(front) : whole[i] = front[i]
      /\ \A i \in 1 .. Len(c) : whole[Len(front) + i] = c[i]
  BY <1>3, TwoParts
<1>5. Len(a) \in Nat /\ Len(b) \in Nat /\ Len(c) \in Nat
  OBVIOUS
<1>6. whole = a \o b \o c
  BY <1>1, <1>3
<1>7. \A i \in 1 .. Len(a) : whole[i] = a[i]
  BY <1>2, <1>4, <1>5
<1>8. \A i \in 1 .. Len(b) : whole[Len(a) + i] = b[i]
  BY <1>2, <1>4, <1>5
<1>9. \A i \in 1 .. Len(c) : whole[Len(a) + Len(b) + i] = c[i]
  BY <1>2, <1>4, <1>5
<1> QED BY <1>2, <1>4, <1>6, <1>7, <1>8, <1>9

\* They are the active cloud's, those of all clouds if there are aliases, and the
\* neutral one, in this order.
LEMMA VariablesListed ==
  ASSUME NEW q, NEW prefix, NEW provider
  PROVE  LET own    == provider_specific_env_var(prefix, provider)
             clouds == IF q.env_alias_prefixes = <<>> THEN <<>>
                       ELSE << <<prefix, Suffixes.aws>>, <<prefix, Suffixes.azure>>,
                               <<prefix, Suffixes.gcp>> >>
             m == Len(own)
             n == Len(clouds)
             listed == prefix_env_vars(q, prefix, provider)
         IN  /\ m \in 0 .. 1 /\ (m = 0 <=> own = <<>>)
             /\ (q.env_alias_prefixes = <<>> /\ n = 0) \/ (q.env_alias_prefixes # <<>> /\ n = 3)
             /\ DOMAIN listed = 1 .. m + n + 1
             /\ \A i \in 1 .. m : listed[i] = own[1] /\ own = <<own[1]>>
             /\ \A i \in 1 .. n : listed[m + i] = clouds[i]
             /\ listed[m + n + 1] = <<prefix, "SECRET_NAME">>
<1> DEFINE own    == provider_specific_env_var(prefix, provider)
           clouds == IF q.env_alias_prefixes = <<>> THEN <<>>
                     ELSE << <<prefix, Suffixes.aws>>, <<prefix, Suffixes.azure>>,
                             <<prefix, Suffixes.gcp>> >>
           neutral == << <<prefix, "SECRET_NAME">> >>
           Names == {"SECRET_ARN", "SECRET_URI", "SECRET_RESOURCE", "SECRET_NAME"}
           Pairs == {<<prefix, s>> : s \in Names}
           m == Len(own)
           n == Len(clouds)
<1>1. /\ own \in Seq(Pairs) /\ m \in 0 .. 1 /\ (m = 0 <=> own = <<>>)
      /\ m = 1 => own = <<own[1]>>
  <2>1. CASE provider \in DOMAIN Suffixes
    <3>1. PICK v \in Pairs : own = <<v>>
      BY <2>1, SuffixFacts DEF provider_specific_env_var
    <3> HIDE DEF own, Pairs, Names
    <3> QED BY <3>1
  <2>2. CASE provider \notin DOMAIN Suffixes
    BY <2>2 DEF provider_specific_env_var
  <2> QED BY <2>1, <2>2
<1>2. /\ clouds \in Seq(Pairs)
      /\ (q.env_alias_prefixes = <<>> /\ n = 0) \/ (q.env_alias_prefixes # <<>> /\ n = 3)
  <2>1. <<prefix, Suffixes.aws>> \in Pairs /\ <<prefix, Suffixes.azure>> \in Pairs
        /\ <<prefix, Suffixes.gcp>> \in Pairs
    BY SuffixFacts
  <2> HIDE DEF Pairs
  <2> QED BY <2>1
<1>3. neutral \in Seq(Pairs) /\ Len(neutral) = 1 /\ neutral[1] = <<prefix, "SECRET_NAME">>
  <2> DEFINE v == <<prefix, "SECRET_NAME">>
  <2>1. v \in Pairs
    OBVIOUS
  <2> HIDE DEF v, Pairs
  <2>2. <<v>> \in Seq(Pairs) /\ Len(<<v>>) = 1 /\ <<v>>[1] = v
    BY <2>1
  <2> QED BY <2>2 DEF v
<1>4. prefix_env_vars(q, prefix, provider) = own \o clouds \o neutral
  BY DEF prefix_env_vars
<1> HIDE DEF own, clouds, neutral, Pairs
<1>5. m \in Nat /\ n \in Nat
  BY <1>1, <1>2
<1>6. PICK listed : listed = own \o clouds \o neutral
  OBVIOUS
<1>7. /\ listed \in Seq(Pairs) /\ Len(listed) = m + n + 1
      /\ \A i \in 1 .. m : listed[i] = own[i]
      /\ \A i \in 1 .. n : listed[m + i] = clouds[i]
      /\ \A i \in 1 .. 1 : listed[m + n + i] = neutral[i]
  <2>0. own \in Seq(Pairs) /\ clouds \in Seq(Pairs) /\ neutral \in Seq(Pairs)
    BY <1>1, <1>2, <1>3
  <2>1. /\ own \o clouds \o neutral \in Seq(Pairs)
        /\ Len(own \o clouds \o neutral) = Len(own) + Len(clouds) + Len(neutral)
        /\ \A i \in 1 .. Len(own) : (own \o clouds \o neutral)[i] = own[i]
        /\ \A i \in 1 .. Len(clouds) : (own \o clouds \o neutral)[Len(own) + i] = clouds[i]
        /\ \A i \in 1 .. Len(neutral) :
             (own \o clouds \o neutral)[Len(own) + Len(clouds) + i] = neutral[i]
    BY <2>0, ThreeParts
  <2> QED BY <1>3, <1>6, <2>1
<1>8. \A i \in 1 .. m : listed[i] = own[1] /\ own = <<own[1]>>
  BY <1>1, <1>7
<1>9. listed[m + n + 1] = <<prefix, "SECRET_NAME">>
  BY <1>3, <1>5, <1>7
<1>10. DOMAIN listed = 1 .. m + n + 1
  BY <1>7
<1>11. listed = prefix_env_vars(q, prefix, provider)
  BY <1>4, <1>6
<1> QED BY <1>1, <1>2, <1>7, <1>8, <1>9, <1>10, <1>11 DEF own, clouds

\* Where a variable stands tells its rank.
LEMMA PlacesByRank ==
  ASSUME NEW q, NEW prefix, NEW provider
  PROVE  LET listed == prefix_env_vars(q, prefix, provider)
         IN  /\ DOMAIN listed \subseteq Nat \ {0}
             /\ \E last \in Nat :
                  /\ \A i \in DOMAIN listed : /\ LooksAt(q, prefix, provider, listed[i])
                                              /\ rank(listed[i], provider) \in 0 .. 2
                                              /\ i < last => rank(listed[i], provider) <= 1
                  /\ \A v : LooksAt(q, prefix, provider, v) =>
                       \E i \in DOMAIN listed :
                         /\ listed[i] = v
                         /\ rank(v, provider) = 0 => i = 1
                         /\ rank(v, provider) = 1 => i < last
<1> DEFINE own == provider_specific_env_var(prefix, provider)
           arn == <<prefix, "SECRET_ARN">>
           uri == <<prefix, "SECRET_URI">>
           resource == <<prefix, "SECRET_RESOURCE">>
           clouds == IF q.env_alias_prefixes = <<>> THEN <<>> ELSE <<arn, uri, resource>>
           neutral == <<prefix, "SECRET_NAME">>
           m == Len(own)
           n == Len(clouds)
           listed == prefix_env_vars(q, prefix, provider)
<1>1. /\ m \in 0 .. 1 /\ (m = 0 <=> own = <<>>)
      /\ (q.env_alias_prefixes = <<>> /\ n = 0) \/ (q.env_alias_prefixes # <<>> /\ n = 3)
      /\ DOMAIN listed = 1 .. m + n + 1
      /\ \A i \in 1 .. m : listed[i] = own[1] /\ own = <<own[1]>>
      /\ \A i \in 1 .. n : listed[m + i] = clouds[i]
      /\ listed[m + n + 1] = neutral
  BY VariablesListed, SuffixFacts
<1>2. \A i \in 1 .. n : /\ clouds = <<arn, uri, resource>> /\ q.env_alias_prefixes # <<>>
                        /\ i \in {1, 2, 3}
  BY <1>1
<1>3. \A s : /\ <<prefix, s>>[1] = prefix /\ <<prefix, s>>[2] = s
             /\ LooksAt(q, prefix, provider, <<prefix, s>>) <=>
                  \/ q.env_alias_prefixes # <<>> /\ \E c \in DOMAIN Suffixes : s = Suffixes[c]
                  \/ s = "SECRET_NAME"
                  \/ <<<<prefix, s>>>> = own
             /\ rank(<<prefix, s>>, provider) =
                  IF <<<<prefix, s>>>> = own THEN 0 ELSE IF s = "SECRET_NAME" THEN 2 ELSE 1
  BY DEF LooksAt, rank
<1>4. own = <<>> \/ \E c \in DOMAIN Suffixes : own = <<<<prefix, Suffixes[c]>>>>
  BY DEF provider_specific_env_var
<1>5. <<neutral>> # own
  <2>1. CASE own = <<>>
    BY <2>1
  <2>2. ASSUME NEW c \in DOMAIN Suffixes, own = <<<<prefix, Suffixes[c]>>>> PROVE <<neutral>> # own
    <3>1. Suffixes[c] # "SECRET_NAME"
      BY SuffixFacts
    <3>2. <<<<prefix, Suffixes[c]>>>>[1][2] = Suffixes[c] /\ <<neutral>>[1][2] = "SECRET_NAME"
      OBVIOUS
    <3> QED BY <2>2, <3>1, <3>2
  <2> QED BY <1>4, <2>1, <2>2
<1>6. \A c \in DOMAIN Suffixes : Suffixes[c] # "SECRET_NAME"
  BY SuffixFacts
<1>7. /\ \E c \in DOMAIN Suffixes : "SECRET_ARN" = Suffixes[c]
      /\ \E c \in DOMAIN Suffixes : "SECRET_URI" = Suffixes[c]
      /\ \E c \in DOMAIN Suffixes : "SECRET_RESOURCE" = Suffixes[c]
  BY SuffixFacts
<1>8. q.env_alias_prefixes # <<>> =>
        \A v \in {arn, uri, resource} : /\ LooksAt(q, prefix, provider, v)
                                        /\ rank(v, provider) \in 0 .. 1
  BY <1>3, <1>7
<1>9. /\ LooksAt(q, prefix, provider, neutral) /\ rank(neutral, provider) = 2
  BY <1>3, <1>5
<1>10. m = 1 => /\ LooksAt(q, prefix, provider, own[1]) /\ rank(own[1], provider) = 0
  <2> SUFFICES ASSUME m = 1
               PROVE  LooksAt(q, prefix, provider, own[1]) /\ rank(own[1], provider) = 0
    OBVIOUS
  <2>1. PICK c \in DOMAIN Suffixes : own = <<<<prefix, Suffixes[c]>>>>
    BY <1>1, <1>4
  <2>2. own[1] = <<prefix, Suffixes[c]>>
    BY <2>1
  <2> QED BY <1>3, <2>1, <2>2
<1> HIDE DEF own, arn, uri, resource, neutral, m
<1>11. \A i \in 1 .. n : clouds[i] \in {arn, uri, resource}
  BY <1>2
<1>12. {clouds[i] : i \in 1 .. n} = IF q.env_alias_prefixes = <<>> THEN {} ELSE {arn, uri, resource}
  <2>1. CASE q.env_alias_prefixes = <<>>
    BY <1>1, <2>1
  <2>2. CASE q.env_alias_prefixes # <<>>
    <3>1. 1 .. n = {1, 2, 3} /\ clouds[1] = arn /\ clouds[2] = uri /\ clouds[3] = resource
      BY <1>1, <2>2
    <3> QED BY <2>2, <3>1
  <2> QED BY <2>1, <2>2
<1>13. n \in Nat /\ m \in 0 .. 1
  BY <1>1
<1> HIDE DEF clouds, n, listed
<1>14. ASSUME NEW i \in DOMAIN listed
       PROVE  /\ LooksAt(q, prefix, provider, listed[i])
              /\ rank(listed[i], provider) \in 0 .. 2
              /\ i < m + n + 1 => rank(listed[i], provider) <= 1
  <2>1. CASE i \in 1 .. m
    BY <1>1, <1>10, <1>13, <2>1
  <2>2. CASE i \in m + 1 .. m + n
    <3>1. i - m \in 1 .. n /\ listed[m + (i - m)] = clouds[i - m] /\ m + (i - m) = i
      BY <1>1, <1>13, <2>2
    <3>2. listed[i] \in {arn, uri, resource} /\ q.env_alias_prefixes # <<>>
      BY <1>2, <1>11, <3>1
    <3>3. LooksAt(q, prefix, provider, listed[i]) /\ rank(listed[i], provider) \in 0 .. 1
      BY <1>8, <3>2
    <3> QED BY <3>3
  <2>3. CASE i = m + n + 1
    BY <1>1, <1>9, <1>13, <2>3
  <2> QED BY <1>1, <1>13, <2>1, <2>2, <2>3
<1>15. ASSUME NEW v, LooksAt(q, prefix, provider, v)
       PROVE  \E i \in DOMAIN listed : /\ listed[i] = v
                                       /\ rank(v, provider) = 0 => i = 1
                                       /\ rank(v, provider) = 1 => i < m + n + 1
  <2>1. v = <<prefix, v[2]>>
    BY <1>15 DEF LooksAt
  <2>2. CASE <<v>> = own
    <3>0. own # <<>>
      BY <2>2
    <3>1. m = 1
      BY <1>1, <1>13, <3>0
    <3>2. own[1] = v
      BY <2>2
    <3> QED BY <1>1, <1>10, <1>13, <3>1, <3>2
  <2>3. CASE <<v>> # own /\ v[2] = "SECRET_NAME"
    <3>1. v = neutral
      BY <2>1, <2>3 DEF neutral
    <3> QED BY <1>1, <1>9, <1>13, <3>1
  <2>4. CASE <<v>> # own /\ v[2] # "SECRET_NAME"
    <3>1. PICK c \in DOMAIN Suffixes : v[2] = Suffixes[c]
      BY <1>3, <1>15, <2>1, <2>4
    <3>2. v \in {arn, uri, resource} /\ q.env_alias_prefixes # <<>>
      BY <1>3, <1>15, <2>1, <2>4, <3>1, SuffixFacts DEF arn, uri, resource
    <3>3. rank(v, provider) = 1
      BY <1>3, <2>1, <2>4
    <3>4. PICK j \in 1 .. n : clouds[j] = v
      BY <1>12, <3>2
    <3>5. m + j \in DOMAIN listed /\ listed[m + j] = v /\ m + j < m + n + 1
      BY <1>1, <1>13, <3>4
    <3> QED BY <3>3, <3>5
  <2> QED BY <2>2, <2>3, <2>4
<1>16. m + n + 1 \in Nat /\ DOMAIN listed \subseteq Nat \ {0}
  BY <1>1, <1>13
<1> QED BY <1>14, <1>15, <1>16 DEF listed

\* The first variable of a prefix that is set has the least rank.
LEMMA VariableOfPrefix ==
  ASSUME NEW q, NEW prefix, NEW provider, NEW env
  PROVE  LET v == first_of(prefix_env_vars(q, prefix, provider), env, Unset)
         IN  \/ v = Unset /\ \A w \in env : ~LooksAt(q, prefix, provider, w)
             \/ /\ v \in env /\ LooksAt(q, prefix, provider, v)
                /\ rank(v, provider) \in 0 .. 2
                /\ \A w \in env : LooksAt(q, prefix, provider, w) =>
                     /\ rank(w, provider) \in 0 .. 2
                     /\ rank(v, provider) <= rank(w, provider)
<1> DEFINE listed == prefix_env_vars(q, prefix, provider)
           v == first_of(listed, env, Unset)
           looks(w) == LooksAt(q, prefix, provider, w)
           r(w) == rank(w, provider)
<1>1. PICK last \in Nat :
        /\ DOMAIN listed \subseteq Nat \ {0}
        /\ \A i \in DOMAIN listed : /\ looks(listed[i]) /\ r(listed[i]) \in 0 .. 2
                                    /\ i < last => r(listed[i]) <= 1
        /\ \A w : looks(w) => \E i \in DOMAIN listed : /\ listed[i] = w
                                                       /\ r(w) = 0 => i = 1
                                                       /\ r(w) = 1 => i < last
  BY PlacesByRank
<1> HIDE DEF listed, looks, r
<1>2. \/ v = Unset /\ \A i \in DOMAIN listed : listed[i] \notin env
      \/ /\ v \in env
         /\ \E i \in DOMAIN listed :
              v = listed[i] /\ \A j \in DOMAIN listed : listed[j] \in env => i <= j
  BY <1>1, FirstOf
<1> HIDE DEF v
<1>3. ASSUME v = Unset, \A i \in DOMAIN listed : listed[i] \notin env
      PROVE  v = Unset /\ \A w \in env : ~looks(w)
  BY <1>1, <1>3
<1>4. ASSUME v \in env, NEW i \in DOMAIN listed, v = listed[i],
             \A j \in DOMAIN listed : listed[j] \in env => i <= j
      PROVE  /\ v \in env /\ looks(v) /\ r(v) \in 0 .. 2
             /\ \A w \in env : looks(w) => r(w) \in 0 .. 2 /\ r(v) <= r(w)
  <2>1. looks(v) /\ r(v) \in 0 .. 2 /\ (i < last => r(v) <= 1)
    BY <1>1, <1>4
  <2>2. ASSUME NEW w \in env, looks(w) PROVE r(w) \in 0 .. 2 /\ r(v) <= r(w)
    <3>1. PICK j \in DOMAIN listed : /\ listed[j] = w
                                     /\ r(w) = 0 => j = 1
                                     /\ r(w) = 1 => j < last
      BY <1>1, <2>2
    <3>2. i <= j /\ i \in Nat \ {0} /\ j \in Nat \ {0} /\ r(w) \in 0 .. 2
      BY <1>1, <1>4, <2>2, <3>1
    <3>3. CASE r(w) = 0
      <4>1. i = j
        BY <3>1, <3>2, <3>3
      <4> QED BY <1>4, <3>1, <3>2, <3>3, <4>1
    <3>4. CASE r(w) = 1
      BY <2>1, <3>1, <3>2, <3>4
    <3>5. CASE r(w) = 2
      BY <2>1, <3>2, <3>5
    <3> QED BY <3>2, <3>3, <3>4, <3>5
  <2> QED BY <1>4, <2>1, <2>2
<1>5. \/ v = Unset /\ \A w \in env : ~looks(w)
      \/ /\ v \in env /\ looks(v) /\ r(v) \in 0 .. 2
         /\ \A w \in env : looks(w) => r(w) \in 0 .. 2 /\ r(v) <= r(w)
  <2>1. CASE v = Unset /\ \A i \in DOMAIN listed : listed[i] \notin env
    BY <1>3, <2>1
  <2>2. CASE v \in env /\ \E i \in DOMAIN listed :
               v = listed[i] /\ \A j \in DOMAIN listed : listed[j] \in env => i <= j
    BY <1>4, <2>2
  <2> QED BY <1>2, <2>1, <2>2
<1> QED BY <1>5 DEF v, looks, r, listed

\* The prefixes are numbered and differ, and none is blank.
LEMMA PrefixesDiffer ==
  ASSUME NEW q, q.env_alias_prefixes \in Seq({q.env_alias_prefixes[j] :
                                                j \in DOMAIN q.env_alias_prefixes})
  PROVE  LET prefixes == env_prefix_candidates(q)
         IN  /\ DOMAIN prefixes \subseteq Nat
             /\ \A i \in DOMAIN prefixes : prefixes[i] # ""
             /\ \A i, j \in DOMAIN prefixes : prefixes[i] = prefixes[j] => i = j
<1> DEFINE all == <<q.env_prefix>> \o q.env_alias_prefixes
           aliases == q.env_alias_prefixes
           S == {q.env_prefix} \cup {aliases[j] : j \in DOMAIN aliases}
           prefixes == env_prefix_candidates(q)
<1>1. <<q.env_prefix>> \in Seq(S) /\ aliases \in Seq(S)
  OBVIOUS
<1>2. PICK n \in Nat : DOMAIN all = 1 .. n
  BY <1>1, TwoParts
<1> HIDE DEF all
<1>3. /\ DOMAIN prefixes =
           {i \in DOMAIN all : all[i] # "" /\ \A j \in 1 .. i - 1 : all[j] # all[i]}
      /\ \A i \in DOMAIN prefixes : prefixes[i] = all[i]
  BY DEF env_prefix_candidates, all
<1> HIDE DEF prefixes
<1>4. /\ DOMAIN prefixes \subseteq Nat
      /\ \A i \in DOMAIN prefixes : prefixes[i] # ""
      /\ \A j \in DOMAIN prefixes : /\ j \in 1 .. n
                                    /\ \A i \in 1 .. j - 1 : all[i] # all[j]
  <2>1. \A j \in DOMAIN prefixes : j \in DOMAIN all /\ all[j] # ""
    BY <1>3
  <2>2. \A j \in DOMAIN prefixes : \A i \in 1 .. j - 1 : all[i] # all[j]
    BY <1>3
  <2>3. ASSUME NEW j \in DOMAIN prefixes PROVE j \in 1 .. n /\ j \in Nat
    <3>1. j \in 1 .. n
      BY <1>2, <2>1
    <3> QED BY <3>1
  <2>4. \A i \in DOMAIN prefixes : prefixes[i] # ""
    BY <1>3, <2>1
  <2> QED BY <2>2, <2>3, <2>4
<1>5. \A i, j \in DOMAIN prefixes : i < j => prefixes[i] # prefixes[j]
  <2> SUFFICES ASSUME NEW i \in DOMAIN prefixes, NEW j \in DOMAIN prefixes, i < j
               PROVE  all[i] # all[j]
    BY <1>3
  <2>0. i \in 1 .. n /\ j \in 1 .. n
    BY <1>4
  <2>1. i \in 1 .. j - 1
    BY <2>0
  <2> QED BY <1>4, <2>1
<1>6. \A i, j \in DOMAIN prefixes : prefixes[i] = prefixes[j] => i = j
  <2> SUFFICES ASSUME NEW i \in DOMAIN prefixes, NEW j \in DOMAIN prefixes,
                      prefixes[i] = prefixes[j]
               PROVE  i = j
    OBVIOUS
  <2>1. ~(i < j) /\ ~(j < i) /\ i \in Nat /\ j \in Nat
    BY <1>4, <1>5
  <2> QED BY <2>1
<1> QED BY <1>4, <1>6 DEF prefixes

\* resolve_secret_identifier returns the variable that comes first in the
\* documented order, of those that are looked at, and the default if none is set.
LEMMA ResolvesInOrder ==
  ASSUME NEW q, q.env_alias_prefixes \in Seq({q.env_alias_prefixes[j] :
                                                j \in DOMAIN q.env_alias_prefixes}),
         q.provider_env_vars = <<>>, q.name_env_var = Unset,
         \A v \in deployment.env : v = <<v[1], v[2]>>
  PROVE  ByPrecedence(q, resolve_secret_identifier(q, get_cloud_provider, deployment.env))
<1> DEFINE cloud == get_cloud_provider
           env == deployment.env
           prefixes == env_prefix_candidates(q)
           of_prefix(prefix) == first_of(prefix_env_vars(q, prefix, cloud), env, Unset)
           set == {i \in DOMAIN prefixes : of_prefix(prefixes[i]) # Unset}
           deciding == first_of(prefixes, {prefixes[i] : i \in set}, "")
           id == resolve_secret_identifier(q, cloud, env)
           looks(i, v) == LooksAt(q, prefixes[i], cloud, v)
<1>1. id = IF deciding = "" THEN <<"default", q.logical_id>> ELSE of_prefix(deciding)
  BY DEF resolve_secret_identifier
<1>2. /\ DOMAIN prefixes \subseteq Nat
      /\ \A i \in DOMAIN prefixes : prefixes[i] # ""
      /\ \A i, j \in DOMAIN prefixes : prefixes[i] = prefixes[j] => i = j
  BY PrefixesDiffer
<1>3. \A v \in env : v # Unset
  <2> TAKE v \in env
  <2>1. v = <<v[1], v[2]>>
    OBVIOUS
  <2> QED BY <2>1 DEF Unset
<1>4. \A i \in DOMAIN prefixes :
        \/ i \notin set /\ \A w \in env : ~looks(i, w)
        \/ /\ i \in set
           /\ of_prefix(prefixes[i]) \in env /\ looks(i, of_prefix(prefixes[i]))
           /\ rank(of_prefix(prefixes[i]), cloud) \in 0 .. 2
           /\ \A w \in env : looks(i, w) =>
                /\ rank(w, cloud) \in 0 .. 2
                /\ rank(of_prefix(prefixes[i]), cloud) <= rank(w, cloud)
  <2> TAKE i \in DOMAIN prefixes
  <2>1. \/ of_prefix(prefixes[i]) = Unset /\ \A w \in env : ~looks(i, w)
        \/ /\ of_prefix(prefixes[i]) \in env /\ looks(i, of_prefix(prefixes[i]))
           /\ rank(of_prefix(prefixes[i]), cloud) \in 0 .. 2
           /\ \A w \in env : looks(i, w) =>
                /\ rank(w, cloud) \in 0 .. 2
                /\ rank(of_prefix(prefixes[i]), cloud) <= rank(w, cloud)
    BY VariableOfPrefix
  <2> HIDE DEF of_prefix, looks
  <2> QED BY <1>3, <2>1
<1>5. \A v : v \in candidates(q) <=> v \in env /\ \E i \in DOMAIN prefixes : looks(i, v)
  <2> TAKE v
  <2>1. v \in env => v = <<v[1], v[2]>>
    OBVIOUS
  <2>2. ASSUME v \in env, NEW i \in DOMAIN prefixes
        PROVE  looks(i, v) <=>
                 /\ prefixes[i] = v[1]
                 /\ \/ q.env_alias_prefixes # <<>> /\ \E c \in DOMAIN Suffixes : v[2] = Suffixes[c]
                    \/ v[2] = "SECRET_NAME"
                    \/ <<v>> = provider_specific_env_var(v[1], cloud)
    BY <2>1, <2>2 DEF LooksAt
  <2> QED BY <2>2 DEF candidates
<1>6. \A i \in DOMAIN prefixes : \A v \in env :
        looks(i, v) => precedence(q, v) = 4 * i + rank(v, cloud)
  <2> TAKE i \in DOMAIN prefixes
  <2> TAKE v \in env
  <2> HAVE looks(i, v)
  <2>1. v[1] = prefixes[i]
    BY DEF LooksAt
  <2>2. (CHOOSE j \in DOMAIN prefixes : prefixes[j] = v[1]) = i
    BY <1>2, <2>1
  <2> QED BY <2>2 DEF precedence, rank
<1>7. \/ deciding = "" /\ set = {}
      \/ \E i \in set : deciding = prefixes[i] /\ \A j \in set : i <= j
  <2> DEFINE wanted == {prefixes[i] : i \in set}
  <2>1. \/ deciding = "" /\ \A i \in DOMAIN prefixes : prefixes[i] \notin wanted
        \/ /\ deciding \in wanted
           /\ \E i \in DOMAIN prefixes :
                deciding = prefixes[i] /\ \A j \in DOMAIN prefixes : prefixes[j] \in wanted => i <= j
    BY <1>2, FirstOf
  <2>2. \A i \in DOMAIN prefixes : prefixes[i] \in wanted <=> i \in set
    BY <1>2
  <2>3. set \subseteq DOMAIN prefixes
    OBVIOUS
  <2> HIDE DEF wanted, set, deciding
  <2> QED BY <2>1, <2>2, <2>3
<1> HIDE DEF set, deciding, of_prefix, looks, id, prefixes, cloud, env
<1>8. CASE deciding = "" /\ set = {}
  BY <1>1, <1>4, <1>5, <1>8 DEF ByPrecedence, id, cloud, env
<1>9. ASSUME NEW i \in set, deciding = prefixes[i], \A j \in set : i <= j
      PROVE  ByPrecedence(q, id)
  <2>0. i \in DOMAIN prefixes /\ i \in Nat
    BY <1>2 DEF set
  <2>1. id = of_prefix(prefixes[i])
    BY <1>1, <1>2, <1>9, <2>0
  <2>2. /\ id \in env /\ looks(i, id) /\ rank(id, cloud) \in 0 .. 2
        /\ \A w \in env : looks(i, w) =>
             rank(w, cloud) \in 0 .. 2 /\ rank(id, cloud) <= rank(w, cloud)
    BY <1>4, <1>9, <2>0, <2>1
  <2>3. id \in candidates(q)
    BY <1>5, <2>0, <2>2
  <2>4. ASSUME NEW w \in candidates(q) PROVE precedence(q, id) <= precedence(q, w)
    <3>1. PICK j \in DOMAIN prefixes : looks(j, w) /\ w \in env
      BY <1>5
    <3>2. j \in set /\ j \in Nat /\ rank(w, cloud) \in 0 .. 2
      BY <1>2, <1>4, <3>1
    <3>3. /\ precedence(q, id) = 4 * i + rank(id, cloud)
          /\ precedence(q, w) = 4 * j + rank(w, cloud)
      BY <1>6, <2>0, <2>2, <3>1
    <3>4. i = j \/ i < j
      BY <1>9, <2>0, <3>2
    <3>5. CASE i = j
      BY <2>0, <2>2, <3>1, <3>2, <3>3, <3>5
    <3>6. CASE i < j
      BY <2>0, <2>2, <3>2, <3>3, <3>6
    <3> QED BY <3>4, <3>5, <3>6
  <2> QED BY <2>3, <2>4 DEF ByPrecedence
<1> QED BY <1>7, <1>8, <1>9 DEF id, cloud, env
-----------------------------------------------------------------------------
(* What a secret and a connection look like *)

LEMMA PayloadsMade ==
  /\ IsPayload(Absent)
  /\ \A t : IsPayload(Text(t)) /\ IsPayload(Odd(t))
  /\ \A t : Text(t).kind = "text"
  /\ ~truthy(Absent)
BY DEF IsPayload, Absent, Text, Odd, truthy

\* A loader returns a payload if the manager holds payloads.
LEMMA LoadersReturnPayloads ==
  ASSUME NEW secrets, \A id \in DOMAIN secrets : IsPayload(secrets[id]), NEW id, NEW provider
  PROVE  IsPayload(load_secret_value(secrets, id, provider))
<1>1. IsPayload(load_raw_secret_value(secrets, id, provider))
  BY PayloadsMade DEF load_raw_secret_value, stored
<1>2. \A p : IsPayload(p) => IsPayload(load_secret_from_aws(p))
  BY PayloadsMade DEF load_secret_from_aws
<1> QED BY <1>1, <1>2 DEF load_secret_value

\* A JSON field that is read and not empty is a text.
LEMMA FieldsAreTexts ==
  ASSUME NEW q, q.json_field # "", NEW secrets, NEW id, NEW provider,
         truthy(runtime_secret_value(q, secrets, id, provider))
  PROVE  runtime_secret_value(q, secrets, id, provider).kind = "text"
<1> DEFINE raw == load_raw_secret_value(secrets, id, provider)
<1>1. runtime_secret_value(q, secrets, id, provider) = extract_secret_json_field(raw, q.json_field)
  BY DEF runtime_secret_value
<1>2. \/ extract_secret_json_field(raw, q.json_field) = Absent
      \/ \E t : extract_secret_json_field(raw, q.json_field) = Text(t)
  BY DEF extract_secret_json_field
<1> QED BY <1>1, <1>2, PayloadsMade

\* Every part is there: a text or the port, and not blank.
Complete(parts) ==
  /\ \A i \in DOMAIN parts : IsText(parts[i]) \/ IsPort(parts[i])
  /\ \A i \in DOMAIN parts : ~Blank(parts[i])

LEMMA TextFields ==
  ASSUME NEW f, NEW names, DOMAIN names \subseteq Nat, payload_text_field(f, names) # ""
  PROVE  IsText(payload_text_field(f, names)) /\ ~Blank(payload_text_field(f, names))
<1> DEFINE usable == {n \in DOMAIN f : IsText(f[n]) /\ ~Blank(f[n])}
           name == first_of(names, usable, "")
<1>1. payload_text_field(f, names) = IF name = "" THEN "" ELSE f[name]
  BY DEF payload_text_field
<1>2. name = "" \/ name \in usable
  BY FirstOf
<1> QED BY <1>1, <1>2

LEMMA ComponentsComplete ==
  ASSUME NEW f, service_database_url_from_components(f) # Malformed
  PROVE  Complete(service_database_url_from_components(f))
<1> DEFINE host == payload_text_field(f, <<"host">>)
           port == IF "port" \in DOMAIN f THEN f["port"] ELSE ""
           database == payload_text_field(f, <<"database", "dbname">>)
           user == payload_text_field(f, <<"username", "user">>)
           password == payload_text_field(f, <<"password">>)
           parts == <<host, port, database, user, password>>
<1>1. \A a, b : DOMAIN <<a>> \subseteq Nat /\ DOMAIN <<a, b>> \subseteq Nat
  OBVIOUS
<1>2. /\ host # "" => IsText(host) /\ ~Blank(host)
      /\ database # "" => IsText(database) /\ ~Blank(database)
      /\ user # "" => IsText(user) /\ ~Blank(user)
      /\ password # "" => IsText(password) /\ ~Blank(password)
  BY <1>1, TextFields
<1>3. IsPort(port) => ~Blank(port)
  BY DEF IsPort, Blank
<1>4. /\ service_database_url_from_components(f) = parts
      /\ \A i \in DOMAIN parts : parts[i] # ""
      /\ IsPort(parts[2])
  BY DEF service_database_url_from_components
<1> HIDE DEF host, port, database, user, password
<1>5. /\ DOMAIN parts = 1 .. 5
      /\ parts[1] = host /\ parts[2] = port /\ parts[3] = database
      /\ parts[4] = user /\ parts[5] = password
  OBVIOUS
<1> HIDE DEF parts
<1>6. \A i \in DOMAIN parts : (IsText(parts[i]) \/ IsPort(parts[i])) /\ ~Blank(parts[i])
  <2> TAKE i \in DOMAIN parts
  <2>1. i \in {1, 2, 3, 4, 5}
    BY <1>5
  <2> QED BY <1>2, <1>3, <1>4, <1>5, <2>1
<1> QED BY <1>4, <1>6 DEF Complete

LEMMA BundlesComplete ==
  ASSUME NEW p, parse_service_database_secret_payload(p) # Malformed
  PROVE  Complete(parse_service_database_secret_payload(p))
<1>1. CASE p.kind # "object"
  BY <1>1 DEF parse_service_database_secret_payload
<1>2. CASE p.kind = "object" /\ "url" \in DOMAIN p.fields
  <2> DEFINE url == p.fields["url"]
  <2>1. parse_service_database_secret_payload(p) = <<url>> /\ IsPostgresUrl(url)
    BY <1>2 DEF parse_service_database_secret_payload
  <2>2. IsText(url) /\ ~Blank(url)
    BY <2>1 DEF IsPostgresUrl, IsText, Blank
  <2> QED BY <2>1, <2>2 DEF Complete
<1>3. CASE p.kind = "object" /\ "url" \notin DOMAIN p.fields
  <2>1. parse_service_database_secret_payload(p) =
          service_database_url_from_components(p.fields)
    BY <1>3 DEF parse_service_database_secret_payload
  <2> QED BY <2>1, ComponentsComplete
<1> QED BY <1>1, <1>2, <1>3

LEMMA ConnectionsComplete ==
  ASSUME NEW prefix, NEW d, \A s \in DOMAIN d : IsText(d[s]) /\ ~Blank(d[s]),
         NEW secrets, NEW id, NEW provider,
         load_db_auth_config(prefix, d, secrets, id, provider) # Malformed
  PROVE  Complete(load_db_auth_config(prefix, d, secrets, id, provider))
<1> DEFINE raw == load_raw_secret_value(secrets, id, provider)
           explicit == db_env(d, "URL")
           config == load_db_auth_config(prefix, d, secrets, id, provider)
           identity == /\ db_auth_mode(d) = "identity"
                       /\ db_env(d, "PROVIDER") \in {"aws", "azure", "gcp"}
                       /\ identity_fields_ok(d)
<1>1. \A s : db_env(d, s) # "" => /\ db_env(d, s) = d[s]
                                  /\ IsText(db_env(d, s)) /\ ~Blank(db_env(d, s))
  BY DEF db_env
<1>2. CASE db_auth_mode(d) = "secret" /\ explicit # ""
  <2>1. config = <<explicit>>
    BY <1>2 DEF load_db_auth_config
  <2>2. IsText(explicit) /\ ~Blank(explicit)
    BY <1>1, <1>2
  <2> HIDE DEF explicit
  <2> QED BY <2>1, <2>2 DEF Complete
<1>3. CASE db_auth_mode(d) = "secret" /\ explicit = "" /\ prefix = "DATABASE" /\ truthy(raw)
  <2>1. config = parse_service_database_secret_payload(raw)
    BY <1>3 DEF load_db_auth_config
  <2> QED BY <2>1, BundlesComplete
<1>4. CASE identity
  <2>1. config = <<d["HOST"], d["PORT"], d["NAME"], d["USER"]>>
    BY <1>4 DEF load_db_auth_config
  <2>2. \A s \in {"HOST", "PORT", "NAME", "USER"} : IsText(d[s]) /\ ~Blank(d[s])
    BY <1>1, <1>4 DEF identity_fields_ok
  <2> DEFINE parts == <<d["HOST"], d["PORT"], d["NAME"], d["USER"]>>
  <2>3. \A i \in DOMAIN parts : parts[i] \in {d[s] : s \in {"HOST", "PORT", "NAME", "USER"}}
    OBVIOUS
  <2> HIDE DEF parts
  <2>4. Complete(parts)
    BY <2>2, <2>3 DEF Complete
  <2> QED BY <2>1, <2>4 DEF parts
<1>5. CASE /\ ~(db_auth_mode(d) = "secret" /\ explicit # "")
           /\ ~(db_auth_mode(d) = "secret" /\ explicit = "" /\ prefix = "DATABASE" /\ truthy(raw))
           /\ ~identity
  BY <1>5 DEF load_db_auth_config
<1> QED BY <1>2, <1>3, <1>4, <1>5
-----------------------------------------------------------------------------
(* Startup *)

\* What startup has established when it is at its next requirement.  What is
\* loaded was read from the object the environment picked, and it suffices.
StartInv ==
  /\ deployment \in Deployments
  /\ process.phase \in {"starting", "serving", "failed"}
  /\ process.next \in 1 .. Len(deployment.reqs) + 1
  /\ DOMAIN process.bundle = DOMAIN process.chosen
  /\ \A i \in DOMAIN deployment.reqs :
       i < process.next /\ requirement_is_required(deployment.reqs[i]) =>
         deployment.reqs[i].logical_id \in DOMAIN process.bundle
  /\ \A i \in DOMAIN deployment.reqs :
       LET q == deployment.reqs[i]
       IN  q.logical_id \in DOMAIN process.bundle =>
             /\ truthy(process.bundle[q.logical_id])
             /\ q.json_field # "" => process.bundle[q.logical_id].kind = "text"
             /\ process.chosen[q.logical_id] = requirement_identifier(q)
  /\ process.phase = "serving" =>
       /\ process.next = Len(deployment.reqs) + 1
       /\ process.database # Malformed /\ Complete(process.database)

\* What the assumption says of the deployment in use.
LEMMA RequirementsDeclared ==
  ASSUME deployment \in Deployments
  PROVE  /\ Len(deployment.reqs) \in Nat
         /\ DOMAIN deployment.reqs = 1 .. Len(deployment.reqs)
         /\ \A i, j \in DOMAIN deployment.reqs :
              deployment.reqs[i].logical_id = deployment.reqs[j].logical_id =>
                deployment.reqs[i] = deployment.reqs[j]
         /\ \A i \in DOMAIN deployment.reqs :
              deployment.reqs[i].raw \in BOOLEAN
                /\ (deployment.reqs[i].raw => deployment.reqs[i].json_field = "")
<1>1. deployment.reqs \in Seq({deployment.reqs[i] : i \in DOMAIN deployment.reqs})
  BY DeploymentAssumption
<1>2. Len(deployment.reqs) \in Nat /\ DOMAIN deployment.reqs = 1 .. Len(deployment.reqs)
  BY <1>1
<1> QED BY <1>2, DeploymentAssumption

LEMMA RequirementsFixed ==
  ASSUME deployment' = deployment
  PROVE  \A q : /\ requirement_identifier(q)' = requirement_identifier(q)
                /\ requirement_is_required(q)' = requirement_is_required(q)
<1>1. get_cloud_provider' = get_cloud_provider
  BY ConfigurationFixed
<1>2. is_production_environment' = is_production_environment
  BY DEF is_production_environment
<1> QED BY <1>1, <1>2 DEF requirement_identifier, requirement_is_required

\* A value that is loaded suffices.
LEMMA ValuesSuffice ==
  ASSUME deployment \in Deployments, NEW i \in DOMAIN deployment.reqs,
         truthy(requirement_value(deployment.reqs[i])),
         deployment.reqs[i].json_field # ""
  PROVE  requirement_value(deployment.reqs[i]).kind = "text"
<1> DEFINE q == deployment.reqs[i]
<1>1. ~q.raw
  BY RequirementsDeclared
<1>2. requirement_value(q) =
        runtime_secret_value(q, vault, requirement_identifier(q), get_cloud_provider)
  BY <1>1 DEF requirement_value
<1> QED BY <1>2, FieldsAreTexts

LEMMA StartInit == Init => StartInv
<1> SUFFICES ASSUME Init PROVE StartInv
  OBVIOUS
<1>1. /\ deployment \in Deployments /\ process.phase = "starting" /\ process.next = 1
      /\ process.bundle = <<>> /\ process.chosen = <<>>
  BY DEF Init, Down
<1>2. DOMAIN process.bundle = {} /\ DOMAIN process.chosen = {}
  BY <1>1
<1>0. PICK n \in Nat : n = Len(deployment.reqs) /\ DOMAIN deployment.reqs = 1 .. n
  BY <1>1, RequirementsDeclared
<1>3. \A i \in DOMAIN deployment.reqs : ~(i < process.next)
  BY <1>0, <1>1
<1>4. process.next \in 1 .. Len(deployment.reqs) + 1
  BY <1>0, <1>1
<1> QED BY <1>1, <1>2, <1>3, <1>4 DEF StartInv

LEMMA StartKept ==
  ASSUME StartInv, deployment' = deployment, process' = process
  PROVE  StartInv'
BY RequirementsFixed DEF StartInv, Complete

LEMMA SecretsLoadedInOrder ==
  ASSUME ShapeOK, StartInv, load_startup_secret
  PROVE  StartInv'
<1> DEFINE reqs == deployment.reqs
           q == reqs[process.next]
           id == requirement_identifier(q)
           value == requirement_value(q)
<1>1. /\ deployment' = deployment /\ process.phase = "starting"
      /\ process.next \in DOMAIN reqs
      /\ \/ /\ truthy(value)
            /\ process' = [process EXCEPT !.next = @ + 1,
                              !.bundle = with(@, q.logical_id, value),
                              !.chosen = with(@, q.logical_id, id)]
         \/ /\ ~truthy(value) /\ requirement_is_required(q)
            /\ process' = [process EXCEPT !.phase = "failed"]
         \/ /\ ~truthy(value) /\ ~requirement_is_required(q)
            /\ process' = [process EXCEPT !.next = @ + 1]
  BY DEF load_startup_secret
<1>2. DOMAIN process = DOMAIN Down(0)
  BY DEF ShapeOK
<1>3. PICK n \in Nat :
      /\ Len(reqs) = n /\ DOMAIN reqs = 1 .. n
      /\ \A i, j \in DOMAIN reqs : reqs[i].logical_id = reqs[j].logical_id => reqs[i] = reqs[j]
  BY RequirementsDeclared DEF StartInv
<1>4. CASE truthy(value) /\ process' = [process EXCEPT !.next = @ + 1,
                              !.bundle = with(@, q.logical_id, value),
                              !.chosen = with(@, q.logical_id, id)]
  <2>1. /\ process'.phase = "starting" /\ process'.next = process.next + 1
        /\ process'.bundle = with(process.bundle, q.logical_id, value)
        /\ process'.chosen = with(process.chosen, q.logical_id, id)
    BY <1>1, <1>2, <1>4 DEF Down
  <2>2. q.json_field # "" => value.kind = "text"
    BY <1>1, <1>4, ValuesSuffice DEF StartInv
  <2>3. /\ DOMAIN process'.bundle = DOMAIN process.bundle \cup {q.logical_id}
        /\ DOMAIN process'.chosen = DOMAIN process.chosen \cup {q.logical_id}
        /\ process'.bundle[q.logical_id] = value /\ process'.chosen[q.logical_id] = id
        /\ \A k \in DOMAIN process.bundle \ {q.logical_id} :
             process'.bundle[k] = process.bundle[k]
        /\ \A k \in DOMAIN process.chosen \ {q.logical_id} :
             process'.chosen[k] = process.chosen[k]
    BY <2>1 DEF with
  <2>4. process'.next \in 1 .. Len(reqs) + 1
    BY <1>1, <1>3, <2>1
  <2>5. \A i \in DOMAIN reqs : i < process'.next => i < process.next \/ i = process.next
    BY <1>1, <1>3, <2>1
  <2> HIDE DEF value
  <2>6. ASSUME NEW i \in DOMAIN reqs, reqs[i].logical_id \in DOMAIN process'.bundle
        PROVE  LET k == reqs[i].logical_id
               IN  /\ truthy(process'.bundle[k])
                   /\ reqs[i].json_field # "" => process'.bundle[k].kind = "text"
                   /\ process'.chosen[k] = requirement_identifier(reqs[i])
    <3> DEFINE k == reqs[i].logical_id
    <3>1. CASE k = q.logical_id
      <4>1. reqs[i] = q
        BY <1>1, <1>3, <3>1
      <4> QED BY <1>4, <2>2, <2>3, <4>1
    <3>2. CASE k # q.logical_id
      <4>1. k \in DOMAIN process.bundle /\ k \in DOMAIN process.chosen
        BY <2>3, <2>6, <3>2 DEF StartInv
      <4>2. process'.bundle[k] = process.bundle[k] /\ process'.chosen[k] = process.chosen[k]
        BY <2>3, <3>2, <4>1
      <4> QED BY <4>1, <4>2 DEF StartInv
    <3> QED BY <3>1, <3>2
  <2>7. ASSUME NEW i \in DOMAIN reqs, i < process'.next, requirement_is_required(reqs[i])
        PROVE  reqs[i].logical_id \in DOMAIN process'.bundle
    BY <2>3, <2>5, <2>7 DEF StartInv
  <2>8. DOMAIN process'.bundle = DOMAIN process'.chosen
    BY <2>3 DEF StartInv
  <2> QED BY <1>1, <2>1, <2>4, <2>6, <2>7, <2>8, RequirementsFixed DEF StartInv
<1>5. CASE process' = [process EXCEPT !.phase = "failed"]
  <2>1. /\ process'.phase = "failed" /\ process'.next = process.next
        /\ process'.bundle = process.bundle /\ process'.chosen = process.chosen
    BY <1>2, <1>5 DEF Down
  <2> QED BY <1>1, <2>1, RequirementsFixed DEF StartInv
<1>6. CASE ~requirement_is_required(q) /\ process' = [process EXCEPT !.next = @ + 1]
  <2>1. /\ process'.phase = "starting" /\ process'.next = process.next + 1
        /\ process'.bundle = process.bundle /\ process'.chosen = process.chosen
    BY <1>1, <1>2, <1>6 DEF Down
  <2>2. process'.next \in 1 .. Len(reqs) + 1
    BY <1>1, <1>3, <2>1
  <2>3. \A i \in DOMAIN reqs : i < process'.next => i < process.next \/ i = process.next
    BY <1>1, <1>3, <2>1
  <2> QED BY <1>1, <1>6, <2>1, <2>2, <2>3, RequirementsFixed DEF StartInv
<1> QED BY <1>1, <1>4, <1>5, <1>6

LEMMA StartNext == ShapeOK /\ StartInv /\ [Next]_vars => StartInv'
<1> SUFFICES ASSUME ShapeOK, StartInv, [Next]_vars PROVE StartInv'
  OBVIOUS
<1>1. deployment' = deployment /\ DOMAIN process = DOMAIN Down(0)
  BY DeploymentFixed DEF ShapeOK
<1>2. CASE process' = process
  BY <1>1, <1>2, StartKept
<1>3. CASE load_startup_secret
  BY <1>3, SecretsLoadedInOrder
<1>4. CASE open_database
  <2> DEFINE parts == load_db_auth_config(deployment.prefix, deployment.database, vault,
                                          database_identifier, get_cloud_provider)
  <2>1. /\ process.next = Len(deployment.reqs) + 1
        /\ process' = [process EXCEPT
                         !.phase = IF parts = Malformed THEN "failed" ELSE "serving",
                         !.database = parts]
    BY <1>4 DEF open_database
  <2>2. parts # Malformed => Complete(parts)
    BY ConnectionsComplete, DeploymentAssumption DEF StartInv
  <2> HIDE DEF parts
  <2>3. /\ process'.next = process.next /\ process'.bundle = process.bundle
        /\ process'.chosen = process.chosen /\ process'.database = parts
        /\ process'.phase = IF parts = Malformed THEN "failed" ELSE "serving"
    BY <1>1, <2>1 DEF Down
  <2>4. process'.phase = "serving" =>
          /\ process'.next = Len(deployment.reqs) + 1
          /\ process'.database # Malformed /\ Complete(process'.database)
    BY <2>1, <2>2, <2>3
  <2> HIDE DEF Complete
  <2> QED BY <1>1, <2>3, <2>4, RequirementsFixed DEF StartInv, Complete
<1>5. CASE Restart
  <2>1. /\ process'.phase = "starting" /\ process'.next = 1
        /\ process'.bundle = <<>> /\ process'.chosen = <<>>
    BY <1>5 DEF Restart, Down
  <2>2. PICK n \in Nat : n = Len(deployment.reqs) /\ DOMAIN deployment.reqs = 1 .. n
    BY RequirementsDeclared DEF StartInv
  <2>3. \A i \in DOMAIN deployment.reqs : ~(i < process'.next)
    BY <2>1, <2>2
  <2>4. process'.next \in 1 .. Len(deployment.reqs) + 1
    BY <2>1, <2>2
  <2>5. DOMAIN process'.bundle = {} /\ DOMAIN process'.chosen = {}
    BY <2>1
  <2> QED BY <1>1, <2>1, <2>3, <2>4, <2>5 DEF StartInv
<1>6. ASSUME NEW r \in Requests,
             \/ get_auth_context(r) \/ get_store_id(r)
             \/ InnerAnswers(r) \/ InnerFails(r) \/ finish_lookup(r)
      PROVE  process' = process
  BY <1>6 DEF get_auth_context, get_store_id, InnerAnswers, InnerFails, finish_lookup
<1>7. CASE Tick \/ RotateSecret \/ ChangeMetadata \/ UNCHANGED vars
  BY <1>2, <1>7 DEF Tick, RotateSecret, ChangeMetadata, vars
<1> QED BY <1>2, <1>3, <1>4, <1>5, <1>6, <1>7 DEF Next

LEMMA StartInvariant == Spec => []StartInv
<1>1. DecisionInv => ShapeOK
  BY DEF DecisionInv
<1> QED BY <1>1, StartInit, StartNext, DecisionsInvariant, PTL DEF Spec

\* A process that serves has every secret it requires, read from the object the
\* documented order picks, and a connection that is complete.
THEOREM StartupsFailClosed == Spec => []StartupFailsClosed
<1>1. StartInv => StartupFailsClosed
  <2> SUFFICES ASSUME StartInv, process.phase = "serving" PROVE StartupFailsClosed
    BY DEF StartupFailsClosed
  <2>1. PICK n \in Nat : n = Len(deployment.reqs) /\ DOMAIN deployment.reqs = 1 .. n
    BY RequirementsDeclared DEF StartInv
  <2>2. \A i \in DOMAIN deployment.reqs : i < process.next
    <3>1. process.next = n + 1
      BY <2>1 DEF StartInv
    <3> QED BY <2>1, <3>1
  <2>3. RequiredSecretsLoaded
    BY <2>2 DEF RequiredSecretsLoaded, StartInv
  <2>4. process.database # Malformed /\ Complete(process.database)
    BY DEF StartInv
  <2>5. ASSUME NEW i \in DOMAIN deployment.reqs,
               ~deployment.reqs[i].raw, deployment.reqs[i].name_env_var = Unset,
               deployment.reqs[i].provider_env_vars = <<>>,
               deployment.reqs[i].logical_id \in DOMAIN process.chosen
        PROVE  ByPrecedence(deployment.reqs[i],
                            process.chosen[deployment.reqs[i].logical_id])
    <3> DEFINE q == deployment.reqs[i]
    <3>1. process.chosen[q.logical_id] =
            resolve_secret_identifier(q, get_cloud_provider, deployment.env)
      BY <2>5 DEF StartInv, requirement_identifier
    <3>2. /\ q.env_alias_prefixes \in Seq({q.env_alias_prefixes[j] :
                                             j \in DOMAIN q.env_alias_prefixes})
          /\ \A v \in deployment.env : v = <<v[1], v[2]>>
      BY DeploymentAssumption DEF StartInv
    <3> HIDE DEF q
    <3>3. ByPrecedence(q, resolve_secret_identifier(q, get_cloud_provider, deployment.env))
      BY <2>5, <3>2, ResolvesInOrder DEF q
    <3> QED BY <3>1, <3>3 DEF q
  <2> QED BY <2>3, <2>4, <2>5 DEF StartupFailsClosed, Complete
<1> QED BY <1>1, StartInvariant, PTL
-----------------------------------------------------------------------------
(* The shape of the state *)

\* The clock is a number, and so is the moment an entry was filled.
AuthInv ==
  /\ AuthTypeOK
  /\ \A k \in DOMAIN cache : cache[k].filled \in Nat

\* The parts of AuthTypeOK, for the steps that disturb one of them.
SecretsOK ==
  /\ \A id \in DOMAIN vault : IsPayload(vault[id])
  /\ IsPayload(gateway.expected)
  /\ gateway.loaded => process.phase = "serving"
  /\ ~gateway.loaded => gateway.expected = Absent

EntriesOK ==
  /\ now \in 0 .. MaxClock
  /\ \A k \in DOMAIN cache : /\ cache[k].value # NoAnswer
                             /\ cache[k].filled \in Nat /\ cache[k].filled <= now
                             /\ cache[k].expiry = cache[k].filled + deployment.ttl

InFlight(q) ==
  /\ q.pc \in {"new", "asking", "answered", "done"}
  /\ q.pc \in {"asking", "answered"} => q.life = process.life /\ process.phase = "serving"

LEMMA AuthParts ==
  ASSUME StartInv
  PROVE  AuthInv <=> SecretsOK /\ EntriesOK /\ \A r \in Requests : InFlight(req[r])
BY DEF StartInv, AuthInv, AuthTypeOK, SecretsOK, EntriesOK, InFlight

LEMMA AuthInit == Init => SecretsOK /\ EntriesOK /\ \A r \in Requests : InFlight(req[r])
<1> SUFFICES ASSUME Init
             PROVE  SecretsOK /\ EntriesOK /\ \A r \in Requests : InFlight(req[r])
  OBVIOUS
<1>1. SecretsOK
  <2>1. /\ vault = deployment.vault /\ deployment \in Deployments
        /\ gateway.loaded = FALSE /\ gateway.expected = Absent
    BY DEF Init, NotLoaded
  <2> QED BY <2>1, DeploymentAssumption, PayloadsMade DEF SecretsOK
<1>2. EntriesOK
  <2>1. cache = <<>> /\ now = 0
    BY DEF Init
  <2>2. DOMAIN cache = {} /\ now \in 0 .. MaxClock
    BY <2>1, BoundsAssumption
  <2> QED BY <2>2 DEF EntriesOK
<1>3. \A r \in Requests : InFlight(req[r])
  BY DEF Init, NewRequest, InFlight
<1> QED BY <1>1, <1>2, <1>3

\* A request that begins.
LEMMA InFlightBegun ==
  ASSUME EntriesOK, \A r \in Requests : InFlight(req[r]), process.phase = "serving",
         NEW r \in Requests, NEW q, Becomes(r, q), q.life = process.life,
         FromCache(q) \/ FromStore(q) \/ Refused(q),
         UNCHANGED <<deployment, process, now>>
  PROVE  EntriesOK' /\ \A s \in Requests : InFlight(req[s])'
<1>1. EntriesOK'
  BY DEF EntriesOK, FromCache, FromStore, Refused
<1>2. req'[r].pc \in {"asking", "done"} /\ req'[r].life = process.life
  BY DEF Becomes, FromCache, FromStore, Refused
<1>3. \A s \in Requests \ {r} : req'[s] = req[s]
  BY DEF Becomes
<1>4. \A s \in Requests : InFlight(req[s])'
  BY <1>2, <1>3 DEF InFlight
<1> QED BY <1>1, <1>4


LEMMA AuthNext ==
  ShapeOK /\ StartInv /\ AuthInv /\ [Next]_vars => AuthInv'
<1> SUFFICES ASSUME ShapeOK, StartInv, AuthInv, [Next]_vars PROVE AuthInv'
  OBVIOUS
<1>0. /\ SecretsOK /\ EntriesOK /\ \A r \in Requests : InFlight(req[r])
      /\ deployment' = deployment /\ DOMAIN process = DOMAIN Down(0)
      /\ DOMAIN req = Requests
      /\ \A r \in Requests : DOMAIN req[r] = DOMAIN NewRequest
  BY AuthParts, DeploymentFixed DEF ShapeOK
<1>1. StartInv'
  BY StartNext
<1>2. SecretsOK' /\ EntriesOK' /\ (\A r \in Requests : InFlight(req[r])') => AuthInv'
  BY <1>1 DEF StartInv, AuthInv, AuthTypeOK, SecretsOK, EntriesOK, InFlight
<1>3. ASSUME UNCHANGED <<cache, now>> PROVE EntriesOK'
  BY <1>0, <1>3 DEF EntriesOK
<1>4. ASSUME UNCHANGED <<vault, gateway>>, process'.phase = process.phase PROVE SecretsOK'
  BY <1>0, <1>4 DEF SecretsOK
<1>5. ASSUME UNCHANGED <<req, process>> PROVE \A r \in Requests : InFlight(req[r])'
  BY <1>0, <1>5 DEF InFlight
<1>6. CASE UNCHANGED vars
  BY <1>2, <1>3, <1>4, <1>5, <1>6 DEF vars
<1>7. CASE load_startup_secret \/ open_database
  <2>1. /\ UNCHANGED <<vault, gateway, cache, now, req>> /\ process.phase = "starting"
    BY <1>7 DEF load_startup_secret, open_database
  <2>2. process'.life = process.life
    BY <1>0, <1>7 DEF load_startup_secret, open_database, Down
  <2>3. SecretsOK'
    BY <1>0, <2>1 DEF SecretsOK
  <2>4. \A r \in Requests : InFlight(req[r])'
    BY <1>0, <2>1, <2>2 DEF InFlight
  <2> QED BY <1>2, <1>3, <2>1, <2>3, <2>4
<1>8. ASSUME NEW r \in Requests, get_auth_context(r) PROVE AuthInv'
  <2>1. /\ gateway' = IF gateway_proof_mode = "off" THEN gateway ELSE get_expected_secret
        /\ UNCHANGED <<deployment, vault, process, now>>
        /\ \E q : /\ Becomes(r, q) /\ q.life = process.life
                  /\ FromCache(q) \/ FromStore(q) \/ Refused(q)
    BY <1>8, AuthBegins
  <2>2. process.phase = "serving"
    BY <1>8 DEF get_auth_context
  <2>3. IsPayload(current_gateway_secret)
    BY <1>0, LoadersReturnPayloads DEF SecretsOK, current_gateway_secret
  <2>4. SecretsOK'
    <3> DEFINE value == IF truthy(current_gateway_secret) THEN current_gateway_secret ELSE Absent
    <3>1. IsPayload(value)
      BY <2>3, PayloadsMade
    <3>2. gateway' = gateway \/ gateway' = [loaded |-> TRUE, expected |-> value]
      BY <2>1 DEF get_expected_secret
    <3> HIDE DEF value
    <3> QED BY <1>0, <2>1, <2>2, <3>1, <3>2 DEF SecretsOK
  <2>5. EntriesOK' /\ \A s \in Requests : InFlight(req[s])'
    BY <1>0, <2>1, <2>2, InFlightBegun
  <2> QED BY <1>2, <2>4, <2>5
<1>9. ASSUME NEW r \in Requests, get_store_id(r) PROVE AuthInv'
  <2>1. /\ UNCHANGED <<deployment, vault, process, gateway, now>>
        /\ \E q : Becomes(r, q) /\ q.life = process.life /\ (FromCache(q) \/ FromStore(q))
    BY <1>9, StoreIdBegins
  <2>2. process.phase = "serving"
    BY <1>9 DEF get_store_id
  <2>3. EntriesOK' /\ \A s \in Requests : InFlight(req[s])'
    BY <1>0, <2>1, <2>2, InFlightBegun
  <2> QED BY <1>2, <1>4, <2>1, <2>3
<1>10. ASSUME NEW r \in Requests, InnerAnswers(r) \/ InnerFails(r) \/ finish_lookup(r)
       PROVE  AuthInv'
  <2>1. /\ UNCHANGED <<vault, process, gateway, now>>
        /\ req[r].pc \in {"asking", "answered"}
    BY <1>10 DEF InnerAnswers, InnerFails, finish_lookup
  <2>2. /\ req'[r].pc \in {"answered", "done"} /\ req'[r].life = req[r].life
        /\ \A s \in Requests \ {r} : req'[s] = req[s]
    BY <1>0, <1>10 DEF InnerAnswers, InnerFails, finish_lookup, NewRequest
  <2>3. \A s \in Requests : InFlight(req[s])'
    BY <1>0, <2>1, <2>2 DEF InFlight
  <2>4. EntriesOK'
    <3>1. CASE cache' = cache
      BY <1>3, <2>1, <3>1
    <3>2. CASE finish_lookup(r) /\ cache' # cache
      <4> DEFINE ckey == cache_key(req[r].op, req[r].key)
                 filling == [value |-> req[r].got, expiry |-> now + deployment.ttl,
                             filled |-> now, possible |-> req[r].possible]
      <4>1. /\ cache' = with(cache, ckey, filling) /\ req[r].got # NoAnswer
        BY <3>2 DEF finish_lookup, set_cached
      <4>2. /\ filling.value # NoAnswer /\ filling.filled = now
            /\ filling.expiry = filling.filled + deployment.ttl
        BY <4>1
      <4> HIDE DEF ckey, filling
      <4>3. \A k \in DOMAIN cache' : \/ cache'[k] = filling
                                     \/ k \in DOMAIN cache /\ cache'[k] = cache[k]
        BY <4>1 DEF with
      <4>4. now \in Nat
        BY <1>0, BoundsAssumption DEF EntriesOK
      <4> QED BY <1>0, <2>1, <4>2, <4>3, <4>4 DEF EntriesOK
    <3>3. CASE InnerAnswers(r) \/ InnerFails(r)
      BY <1>3, <2>1, <3>3 DEF InnerAnswers, InnerFails
    <3> QED BY <1>10, <3>1, <3>2, <3>3
  <2> QED BY <1>2, <1>4, <2>1, <2>3, <2>4
<1>11. CASE Tick
  <2>1. now < MaxClock /\ now' = now + 1
        /\ UNCHANGED <<deployment, vault, process, gateway, cache, req>>
    BY <1>11 DEF Tick
  <2>2. EntriesOK'
    <3>1. now' \in 0 .. MaxClock /\ now < now'
      BY <1>0, <2>1, BoundsAssumption DEF EntriesOK
    <3>2. \A k \in DOMAIN cache : cache[k].filled <= now'
      BY <1>0, <2>1, BoundsAssumption DEF EntriesOK
    <3> QED BY <1>0, <2>1, <3>1, <3>2 DEF EntriesOK
  <2> QED BY <1>2, <1>4, <1>5, <2>1, <2>2
<1>12. CASE RotateSecret
  <2>1. PICK change \in deployment.rotations : vault' = with(vault, change.id, change.payload)
    BY <1>12 DEF RotateSecret
  <2>2. UNCHANGED <<deployment, process, gateway, cache, now, req>>
    BY <1>12 DEF RotateSecret
  <2>3. IsPayload(change.payload)
    BY DeploymentAssumption DEF StartInv
  <2>4. SecretsOK'
    BY <1>0, <2>1, <2>2, <2>3 DEF SecretsOK, with
  <2> QED BY <1>2, <1>3, <1>5, <2>2, <2>4
<1>13. CASE ChangeMetadata
  <2>1. /\ UNCHANGED <<deployment, vault, process, gateway, cache, now>>
    BY <1>13 DEF ChangeMetadata
  <2>2. \A r \in Requests : req'[r].pc = req[r].pc /\ req'[r].life = req[r].life
    BY <1>0, <1>13 DEF ChangeMetadata, NewRequest
  <2>3. \A r \in Requests : InFlight(req[r])'
    BY <1>0, <2>1, <2>2 DEF InFlight
  <2> QED BY <1>2, <1>3, <1>4, <2>1, <2>3
<1>14. CASE Restart
  <2>1. /\ vault' = vault /\ now' = now /\ process'.phase = "starting"
        /\ gateway'.loaded = FALSE /\ gateway'.expected = Absent /\ cache' = <<>>
    BY <1>14 DEF Restart, Down, NotLoaded
  <2>2. SecretsOK'
    BY <1>0, <2>1, PayloadsMade DEF SecretsOK
  <2>3. DOMAIN cache' = {}
    BY <2>1
  <2>4. EntriesOK'
    BY <1>0, <2>1, <2>3 DEF EntriesOK
  <2>5. \A r \in Requests : req'[r].pc \in {"new", "done"}
    BY <1>0, <1>14 DEF Restart, NewRequest, InFlight
  <2>6. \A r \in Requests : InFlight(req[r])'
    BY <2>5 DEF InFlight
  <2> QED BY <1>2, <2>2, <2>4, <2>6
<1> QED BY <1>6, <1>7, <1>8, <1>9, <1>10, <1>11, <1>12, <1>13, <1>14 DEF Next

\* The state keeps its shape.
THEOREM AuthTypeCorrect == Spec => []AuthTypeOK
<1>1. DecisionInv => ShapeOK
  BY DEF DecisionInv
<1>2. Init => AuthInv
  BY StartInit, AuthInit, AuthParts
<1>3. Spec => []AuthInv
  BY <1>1, <1>2, AuthNext, StartInvariant, DecisionsInvariant, PTL DEF Spec
<1>4. AuthInv => AuthTypeOK
  BY DEF AuthInv
<1> QED BY <1>3, <1>4, PTL
=============================================================================
