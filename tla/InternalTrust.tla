----------------------------- MODULE InternalTrust ----------------------------
(***************************************************************************)
(* Internal bearer tokens (trust/tokens.py, trust/headers.py), interaction *)
(* contexts and the headers that carry them (activity/context.py,          *)
(* activity/ingress.py, http.py), as operators.                            *)
(*                                                                         *)
(* A token is its claims and the secret it was signed with.  Correlation   *)
(* and trace ids, which every caller may set, are left out.                *)
(***************************************************************************)
EXTENDS Integers

CONSTANTS
    None,
    MaxDelegatedTtl   \* MAX_DELEGATED_ACTOR_TTL_SECONDS

-----------------------------------------------------------------------------
(***************************************************************************)
(* Tokens.                                                                 *)
(***************************************************************************)
DelegatedActorScope == "actor.delegate"

mint_internal_token(secret, audience, subject, extra, now, ttl) ==
    [secret         |-> secret,
     sub            |-> subject,
     aud            |-> audience,
     iat            |-> now,
     exp            |-> now + ttl,
     principal_type |-> extra.principal_type,
     actor          |-> extra.actor,
     scopes         |-> extra.scopes,
     project_id     |-> extra.project_id]

\* The claims of a service that speaks for itself.
service_claims(project_id) ==
    [principal_type |-> "service", actor |-> None, scopes |-> {},
     project_id |-> project_id]

\* Fault variant of can_mint_delegated: the bound is not checked.
can_mint_delegated_any(actor, ttl) == actor # None /\ ttl > 0

\* What mint_delegated_actor_token refuses to sign.
can_mint_delegated(actor, ttl) ==
    actor # None /\ ttl > 0 /\ ttl <= MaxDelegatedTtl

mint_delegated_actor_token(secret, audience, subject, actor, project_id, now, ttl) ==
    mint_internal_token(secret, audience, subject,
        [principal_type |-> "delegated", actor |-> actor,
         scopes |-> {DelegatedActorScope}, project_id |-> project_id], now, ttl)

\* Fault variant of verify_internal_token: the audience is not compared.
verify_any_audience(token, secret, audience, now) ==
    token # None /\ token.secret = secret /\ token.exp > now

verify_internal_token(token, secret, audience, now) ==
    /\ token # None
    /\ token.secret = secret
    /\ token.aud = audience
    /\ token.exp > now

(***************************************************************************)
(* The answer of a route guarded by verify_delegated_actor_from_request.   *)
(* An allowed_subjects of {} allows every subject.                         *)
(***************************************************************************)
delegated_claims_hold(token, allowed_subjects, required_scopes) ==
    /\ token.principal_type = "delegated"
    /\ token.actor # None
    /\ allowed_subjects = {} \/ token.sub \in allowed_subjects
    /\ required_scopes \subseteq token.scopes

project_mismatch(token, expected_project_id) ==
    /\ token.project_id # None
    /\ expected_project_id # None
    /\ token.project_id # expected_project_id

delegated_actor_status(token, secret, audience, subjects, project_id, now) ==
    IF secret = None THEN 503
    ELSE IF ~verify_internal_token(token, secret, audience, now) THEN 401
    ELSE IF ~delegated_claims_hold(token, subjects, {DelegatedActorScope})
    THEN 401
    ELSE IF project_mismatch(token, project_id) THEN 403
    ELSE 200

-----------------------------------------------------------------------------
(***************************************************************************)
(* Headers: a function from names to values, None when absent.  `agents'   *)
(* stands for the source and root agent ids, `caller' for id and type.     *)
(***************************************************************************)
ContextHeaders == {"interaction", "interaction_type", "caller", "agents",
                   "parent_interaction", "parent_activity"}

HeaderNames == ContextHeaders \cup {"authorization"}

NoHeaders == [h \in HeaderNames |-> None]

authorized(headers, token) ==
    IF token = None THEN headers ELSE [headers EXCEPT !["authorization"] = token]

without(headers, names) ==
    [h \in HeaderNames |-> IF h \in names THEN None ELSE headers[h]]

overlay(headers, generated) ==
    [h \in HeaderNames |-> IF generated[h] # None THEN generated[h] ELSE headers[h]]

-----------------------------------------------------------------------------
(***************************************************************************)
(* Interaction contexts.                                                   *)
(***************************************************************************)
\* Fault variant of with_parents: neither parent field is derived.
with_parents_as_given(context) == context

\* __post_init__: either parent field stands in for a missing other.
with_parents(context) ==
    [context EXCEPT
        !.parent_interaction = IF @ = None THEN context.parent_activity ELSE @,
        !.parent_activity    = IF @ = None THEN context.parent_interaction ELSE @]

NoContext == [id |-> None, interaction_type |-> None, caller |-> None,
              agents |-> None, parent_interaction |-> None,
              parent_activity |-> None, project_id |-> None, trust |-> "none"]

\* Fault variant of public_interaction_context_from_headers: the identity
\* headers are taken at their word, as the legacy helper does.
public_context_from_identity_headers(headers, id, default_type, project_id) ==
    with_parents(
        [id                 |-> id,
         interaction_type   |-> default_type,
         caller             |-> headers["caller"],
         agents             |-> headers["agents"],
         parent_interaction |-> headers["parent_interaction"],
         parent_activity    |-> headers["parent_activity"],
         project_id         |-> project_id,
         trust              |-> "observed"])

public_interaction_context_from_headers(headers, id, default_type, project_id) ==
    [NoContext EXCEPT !.id = id, !.interaction_type = default_type,
                      !.project_id = project_id, !.trust = "observed"]

\* A delegated principal acts as its user, any other as the service.
actor_from_principal(token) ==
    [actor |-> IF token.principal_type = "delegated" THEN token.actor ELSE token.sub,
     delegated_by |-> token.sub]

first_of(a, b) == IF a # None THEN a ELSE b

internal_interaction_context_from_headers(headers, id, default_type, project_id) ==
    LET token == headers["authorization"]
    IN  with_parents(
            [id                 |-> id,
             interaction_type   |-> first_of(headers["interaction_type"], default_type),
             caller             |-> actor_from_principal(token),
             agents             |-> headers["agents"],
             parent_interaction |-> first_of(headers["parent_interaction"],
                                             headers["interaction"]),
             parent_activity    |-> headers["parent_activity"],
             project_id         |-> first_of(project_id, token.project_id),
             trust              |-> "internal"])

\* An interaction type the receiver does not know raises, as a bad token does.
internal_context_raises(headers, secret, audience, known_types, now) ==
    \/ ~verify_internal_token(headers["authorization"], secret, audience, now)
    \/ headers["interaction_type"] \notin known_types \cup {None}

\* The middleware's _build_context: what raises is downgraded, never refused.
build_context(headers, secret, audience, default_type, known_types, project_id, id, now) ==
    IF \/ secret = None
       \/ headers["authorization"] = None
       \/ internal_context_raises(headers, secret, audience, known_types, now)
    THEN public_interaction_context_from_headers(headers, id, default_type, project_id)
    ELSE internal_interaction_context_from_headers(headers, id, default_type, project_id)

-----------------------------------------------------------------------------
(***************************************************************************)
(* Outbound headers.                                                       *)
(***************************************************************************)
propagation_headers(context) ==
    IF context = NoContext THEN NoHeaders
    ELSE [NoHeaders EXCEPT !["interaction"]        = context.id,
                           !["interaction_type"]   = context.interaction_type,
                           !["caller"]             = context.caller,
                           !["agents"]             = context.agents,
                           !["parent_interaction"] = context.id,
                           !["parent_activity"]    = context.parent_activity]

\* Fault variant of merge_taproot_context: the caller's own values are kept.
merge_propagation_headers(headers, context) ==
    overlay(propagation_headers(context), headers)

\* ServiceHttpClient: the caller's context headers are dropped, the deprecated
\* caller header is not sent, other headers (authorization) are preserved.
merge_taproot_context(headers, context) ==
    overlay(without(headers, ContextHeaders),
            without(propagation_headers(context), {"caller"}))

\* safe_service_headers: credentials are dropped too.
merge_safe_propagation_headers(headers, context) ==
    overlay(without(headers, HeaderNames), propagation_headers(context))
=============================================================================
