----------------------- MODULE InteractionLineage_proofs -----------------------
(***************************************************************************)
(* Proofs about InteractionLineage: whose child an interaction is, who it  *)
(* acts for and where its values come from, for any services, secrets,     *)
(* versions, tokens and requests.                                          *)
(*                                                                         *)
(* All of it follows from what a request carries, wherever it is: on the   *)
(* network, or received, when a handler may pass its headers on.           *)
(***************************************************************************)
EXTENDS InteractionLineage, FiniteSetTheorems, TLAPS

\* A token names a service other than the one it is for; a delegation names a
\* user and does not outlive its bound.
TokenOK(token) ==
    token # None =>
        /\ token.sub # token.aud
        /\ token.secret # None
        /\ token.iat \in Nat /\ token.exp \in Nat
        /\ token.principal_type = "delegated" =>
              token.actor \in Actors /\ token.exp <= token.iat + MaxDelegatedTtl

ContextOK(context) == context = NoContext \/ context.id # None

\* What the headers of a request, sent or received, have to do with its sender:
\* the token is the one minted for the call, and for its receiver, if there is one;
\* and beside a token, passed on or not, the context headers are those of the
\* sender's context.
Carried(m, to) ==
    /\ DOMAIN m.headers = HeaderNames
    /\ TokenOK(m.headers["authorization"])
    /\ ContextOK(m.sender.context)
    /\ m.sender.token # None =>
          /\ m.headers["authorization"] = m.sender.token
          /\ m.sender.token.sub = m.sender.service
          /\ m.sender.token.aud = to
    /\ m.headers["authorization"] # None =>
          /\ m.headers["interaction"] = m.sender.context.id
          /\ m.headers["parent_interaction"] = m.sender.context.id
          /\ m.headers["interaction_type"] = m.sender.context.interaction_type
          /\ m.sender.context = NoContext => m.headers["parent_activity"] = None

\* A hop is a request and the context the middleware made of it.
HopOK(hop) ==
    /\ Carried(hop, hop.service)
    /\ hop.at \in Nat
    /\ \E id : /\ id # None
               /\ hop.context = build_context(hop.headers, Secret[hop.service], hop.service,
                                    DefaultType[hop.service], KnownTypes[hop.service],
                                    None, id, hop.at)

LineageInv ==
    /\ now \in Nat
    /\ \E S : hops \in Seq(S)
    /\ \A m \in wire : Carried(m, m.to)
    /\ \A i \in DOMAIN hops : HopOK(hops[i])

-----------------------------------------------------------------------------
(***************************************************************************)
(* Tokens and headers.                                                     *)
(***************************************************************************)
LEMMA MintedToken ==
    ASSUME now \in Nat, NEW s, NEW t, s # t, NEW token \in tokens(s, t)
    PROVE  TokenOK(token) /\ (token # None => token.sub = s /\ token.aud = t)
<1> SUFFICES ASSUME token # None PROVE TokenOK(token) /\ token.sub = s /\ token.aud = t
  BY DEF TokenOK
<1>1. /\ Secret[s] # None
      /\ \/ \E ttl \in Ttls :
               token = mint_internal_token(Secret[s], t, s, service_claims(None), now, ttl)
         \/ \E a \in Actors, p \in Projects \cup {None},
               ttl \in {l \in Ttls : \A a \in Actors : can_mint_delegated(a, l)} :
               token = mint_delegated_actor_token(Secret[s], t, s, a, p, now, ttl)
  BY DEF tokens
<1>2. ASSUME NEW ttl \in Ttls,
             token = mint_internal_token(Secret[s], t, s, service_claims(None), now, ttl)
      PROVE  TokenOK(token) /\ token.sub = s /\ token.aud = t
  <2>1. ttl \in Nat
    BY LineageAssumption
  <2>2. /\ token.sub = s /\ token.aud = t /\ token.secret = Secret[s]
        /\ token.iat = now /\ token.exp = now + ttl /\ token.principal_type = "service"
    BY <1>2 DEF mint_internal_token, service_claims
  <2> QED
    BY <1>1, <2>1, <2>2 DEF TokenOK
<1>3. ASSUME NEW a \in Actors, NEW p \in Projects \cup {None}, NEW ttl \in Ttls,
             \A b \in Actors : can_mint_delegated(b, ttl),
             token = mint_delegated_actor_token(Secret[s], t, s, a, p, now, ttl)
      PROVE  TokenOK(token) /\ token.sub = s /\ token.aud = t
  <2>1. ttl \in Nat /\ MaxDelegatedTtl \in Nat /\ ttl <= MaxDelegatedTtl
    BY <1>3, LineageAssumption DEF can_mint_delegated
  <2>2. /\ token.sub = s /\ token.aud = t /\ token.secret = Secret[s]
        /\ token.iat = now /\ token.exp = now + ttl /\ token.actor = a
    BY <1>3 DEF mint_internal_token, mint_delegated_actor_token
  <2> QED
    BY <1>1, <2>1, <2>2 DEF TokenOK
<1> QED
  BY <1>1, <1>2, <1>3

\* The headers of a call carry its token, or pass the given one on, with the
\* context it is made from.
LEMMA OutboundHeaders ==
    ASSUME NEW given, DOMAIN given = HeaderNames, NEW token, NEW context,
           ContextOK(context), NEW headers \in outbound_headers(given, token, context)
    PROVE  /\ DOMAIN headers = HeaderNames
           /\ token # None => headers["authorization"] = token
           /\ token = None => headers["authorization"] \in {None, given["authorization"]}
           /\ headers["interaction"] = context.id
           /\ headers["parent_interaction"] = context.id
           /\ headers["interaction_type"] = context.interaction_type
           /\ context = NoContext => headers["parent_activity"] = None
<1> DEFINE sent == propagation_headers(context)
           auth == authorized(given, token)
<1>1. /\ DOMAIN sent = HeaderNames
      /\ sent["authorization"] = None
      /\ sent["interaction"] = context.id /\ sent["parent_interaction"] = context.id
      /\ sent["interaction_type"] = context.interaction_type
      /\ context = NoContext => sent["parent_activity"] = None
  BY DEF propagation_headers, NoContext, NoHeaders, HeaderNames, ContextHeaders
<1>2. /\ token # None => auth["authorization"] = token
      /\ token = None => auth = given
  BY DEF authorized, HeaderNames
<1>3. CASE headers = merge_taproot_context(auth, context)
  <2> HIDE DEF sent, auth
  <2>1. headers = overlay(without(auth, ContextHeaders), without(sent, {"caller"}))
    BY <1>3 DEF merge_taproot_context, sent
  <2> QED
    BY <1>1, <1>2, <2>1 DEF overlay, without, HeaderNames, ContextHeaders
<1>4. CASE headers = authorized(merge_safe_propagation_headers(given, context), token)
  <2> DEFINE merged == merge_safe_propagation_headers(given, context)
  <2>1. merged = overlay(without(given, HeaderNames), sent)
    BY DEF merge_safe_propagation_headers
  <2> HIDE DEF sent, auth, merged
  <2>2. /\ DOMAIN merged = HeaderNames /\ merged["authorization"] = None
        /\ merged["interaction"] = context.id /\ merged["parent_interaction"] = context.id
        /\ merged["interaction_type"] = context.interaction_type
        /\ context = NoContext => merged["parent_activity"] = None
    BY <1>1, <2>1 DEF overlay, without, HeaderNames, ContextHeaders
  <2>3. headers = IF token = None THEN merged ELSE [merged EXCEPT !["authorization"] = token]
    BY <1>4 DEF authorized, merged
  <2> QED
    BY <2>2, <2>3 DEF HeaderNames, ContextHeaders
<1> QED
  BY <1>3, <1>4 DEF outbound_headers

LEMMA CallCarries ==
    ASSUME now \in Nat, NEW s, NEW t, s # t, NEW token \in tokens(s, t),
           NEW given, DOMAIN given = HeaderNames, TokenOK(given["authorization"]),
           NEW context, ContextOK(context),
           NEW headers \in outbound_headers(given, token, context)
    PROVE  Carried(Request(t, headers, s, context, token), t)
<1> DEFINE m == Request(t, headers, s, context, token)
<1>1. /\ m.headers = headers /\ m.sender.context = context
      /\ m.sender.token = token /\ m.sender.service = s
  BY DEF Request
<1>2. TokenOK(token) /\ (token # None => token.sub = s /\ token.aud = t)
  BY MintedToken
<1>3. TokenOK(headers["authorization"])
  BY <1>2, OutboundHeaders DEF TokenOK
<1> HIDE DEF m
<1>4. Carried(m, t)
  BY <1>1, <1>2, <1>3, OutboundHeaders DEF Carried
<1> QED
  BY <1>4 DEF m

LEMMA NoHeadersGiven == DOMAIN NoHeaders = HeaderNames /\ TokenOK(NoHeaders["authorization"])
  BY DEF NoHeaders, HeaderNames, TokenOK

\* A context the middleware makes has an id.
LEMMA BuiltContext ==
    ASSUME NEW hop, HopOK(hop)
    PROVE  ContextOK(hop.context)
<1>1. PICK id : /\ id # None
                /\ hop.context = build_context(hop.headers, Secret[hop.service], hop.service,
                                     DefaultType[hop.service], KnownTypes[hop.service],
                                     None, id, hop.at)
  BY DEF HopOK
<1>2. hop.context.id = id
  BY <1>1 DEF build_context, public_interaction_context_from_headers, NoContext,
         internal_interaction_context_from_headers, with_parents
<1> QED
  BY <1>1, <1>2 DEF ContextOK
-----------------------------------------------------------------------------
(***************************************************************************)
(* The invariant.                                                          *)
(***************************************************************************)
LEMMA LineageInitInv == LineageInit => LineageInv
<1> SUFFICES ASSUME LineageInit PROVE LineageInv
  OBVIOUS
<1>1. now \in Nat /\ wire = {} /\ hops = << >>
  BY DEF LineageInit
<1>2. hops \in Seq({}) /\ DOMAIN hops = {}
  BY <1>1
<1> QED
  BY <1>1, <1>2 DEF LineageInv

\* A request that is sent, and whatever else stays as it is.
LEMMA SendKeeps ==
    ASSUME LineageInv, NEW m, Carried(m, m.to), Send(m)
    PROVE  LineageInv'
<1>1. wire' = wire \cup {m} /\ UNCHANGED <<now, hops>>
  BY DEF Send
<1>2. \A n \in wire' : Carried(n, n.to)
  BY <1>1 DEF LineageInv
<1> QED
  BY <1>1, <1>2 DEF LineageInv

LEMMA LineageNextInv == LineageInv /\ [LineageNext]_lineageVars => LineageInv'
<1> SUFFICES ASSUME LineageInv, [LineageNext]_lineageVars PROVE LineageInv'
  OBVIOUS
<1>0. now \in Nat
  BY DEF LineageInv
<1>1. CASE ClientSends
  <2>1. PICK s \in Services, headers \in {NoHeaders, outside_headers} :
           Send(Request(s, headers, None, NoContext, None))
    BY <1>1 DEF ClientSends
  <2>2. DOMAIN headers = HeaderNames /\ headers["authorization"] = None
    BY DEF NoHeaders, outside_headers, HeaderNames, ContextHeaders
  <2>3. PICK m : m = Request(s, headers, None, NoContext, None)
    OBVIOUS
  <2>4. Carried(m, m.to)
    BY <2>2, <2>3 DEF Request, Carried, TokenOK, ContextOK
  <2> QED
    BY <2>1, <2>3, <2>4, SendKeeps
<1>2. CASE HandlerCalls
  <2>0. PICK i \in DOMAIN hops : \E t \in Services \ {hops[i].service} :
           \E given \in {NoHeaders, hops[i].headers}, token \in tokens(hops[i].service, t) :
           \E headers \in outbound_headers(given, token, hops[i].context) :
               Send(Request(t, headers, hops[i].service, hops[i].context, token))
    BY <1>2 DEF HandlerCalls
  <2>1. PICK t \in Services \ {hops[i].service} :
           \E given \in {NoHeaders, hops[i].headers}, token \in tokens(hops[i].service, t) :
           \E headers \in outbound_headers(given, token, hops[i].context) :
               Send(Request(t, headers, hops[i].service, hops[i].context, token))
    BY <2>0
  <2>2. HopOK(hops[i]) /\ ContextOK(hops[i].context)
    BY BuiltContext DEF LineageInv
  <2>3. ASSUME NEW given \in {NoHeaders, hops[i].headers}
        PROVE  DOMAIN given = HeaderNames /\ TokenOK(given["authorization"])
    BY <2>2, NoHeadersGiven DEF HopOK, Carried
  <2>4. ASSUME NEW given \in {NoHeaders, hops[i].headers},
               NEW token \in tokens(hops[i].service, t),
               NEW headers \in outbound_headers(given, token, hops[i].context)
        PROVE  LET m == Request(t, headers, hops[i].service, hops[i].context, token)
               IN  Carried(m, m.to)
    BY <1>0, <2>2, <2>3, CallCarries DEF Request
  <2> QED
    BY <2>1, <2>4, SendKeeps
<1>3. CASE JobCalls
  <2>1. PICK s \in Services : \E t \in Services \ {s} :
           \E token \in tokens(s, t) :
           \E headers \in outbound_headers(NoHeaders, token, NoContext) :
               Send(Request(t, headers, s, NoContext, token))
    BY <1>3 DEF JobCalls
  <2>2. ASSUME NEW t \in Services \ {s}, NEW token \in tokens(s, t),
               NEW headers \in outbound_headers(NoHeaders, token, NoContext)
        PROVE  LET m == Request(t, headers, s, NoContext, token)
               IN  Carried(m, m.to)
    BY <1>0, NoHeadersGiven, CallCarries DEF ContextOK, Request
  <2> QED
    BY <2>1, <2>2, SendKeeps
<1>4. CASE Receive
  <2>1. PICK m \in wire, again \in BOOLEAN :
           LET s == m.to
           IN  /\ hops' = Append(hops,
                     [service |-> s,
                      headers |-> m.headers,
                      sender  |-> m.sender,
                      at      |-> now,
                      context |-> build_context(m.headers, Secret[s], s, DefaultType[s],
                                      KnownTypes[s], None, Ids[Len(hops) + 1], now)])
               /\ wire' = IF again THEN wire ELSE wire \ {m}
    BY <1>4 DEF Receive
  <2> DEFINE context == build_context(m.headers, Secret[m.to], m.to, DefaultType[m.to],
                            KnownTypes[m.to], None, Ids[Len(hops) + 1], now)
  <2>2. PICK hop : hop = [service |-> m.to, headers |-> m.headers, sender |-> m.sender,
                          at |-> now, context |-> context]
    OBVIOUS
  <2>3. /\ hop.service = m.to /\ hop.headers = m.headers /\ hop.sender = m.sender
        /\ hop.at = now /\ hop.context = context
    BY <2>2
  <2>4. hops' = Append(hops, hop) /\ wire' \subseteq wire /\ now' = now
    BY <1>4, <2>1, <2>2 DEF Receive
  <2>5. PICK S : hops \in Seq(S)
    BY DEF LineageInv
  <2>6. Ids[Len(hops) + 1] # None
    <3>1. Len(hops) \in Nat /\ Len(hops) < Len(Ids)
      BY <1>4, <2>5 DEF Receive
    <3>2. DOMAIN Ids = 1 .. Len(Ids) /\ Len(Ids) \in Nat
      BY LineageAssumption
    <3> QED
      BY <3>1, <3>2, LineageAssumption
  <2>7. HopOK(hop)
    <3>1. Carried(hop, hop.service)
      BY <2>3 DEF LineageInv, Carried
    <3> QED
      BY <1>0, <2>3, <2>6, <3>1 DEF HopOK
  <2>8. /\ hops' \in Seq(S \cup {hop})
        /\ \A i \in DOMAIN hops' : hops'[i] = hop \/ (i \in DOMAIN hops /\ hops'[i] = hops[i])
    BY <2>4, <2>5
  <2>9. \A i \in DOMAIN hops' : HopOK(hops'[i])
    BY <2>7, <2>8 DEF LineageInv
  <2> QED
    BY <2>4, <2>8, <2>9 DEF LineageInv
<1>5. CASE GiveUp
  BY <1>5 DEF GiveUp, LineageInv
<1>6. CASE Tick
  BY <1>6 DEF Tick, LineageInv
<1>7. CASE UNCHANGED lineageVars
  BY <1>7 DEF lineageVars, LineageInv
<1> QED
  BY <1>1, <1>2, <1>3, <1>4, <1>5, <1>6, <1>7 DEF LineageNext

-----------------------------------------------------------------------------
(***************************************************************************)
(* What it says of one hop.                                                *)
(***************************************************************************)
\* A context is a verified one exactly when the token holds and the type is
\* known; then its parent and its caller come from the headers.
LEMMA HopContext ==
    ASSUME NEW hop, HopOK(hop)
    PROVE  LET token    == hop.headers["authorization"]
               verified == /\ Secret[hop.service] # None
                           /\ verify_internal_token(token, Secret[hop.service],
                                                    hop.service, hop.at)
                           /\ hop.headers["interaction_type"]
                                 \in KnownTypes[hop.service] \cup {None}
           IN  /\ ~verified => hop.context.trust = "observed"
               /\ verified => /\ hop.context.trust = "internal"
                              /\ hop.context.caller = actor_from_principal(token)
                              /\ hop.context.parent_interaction = hop.sender.context.id
<1> DEFINE token == hop.headers["authorization"]
           verified == /\ Secret[hop.service] # None
                       /\ verify_internal_token(token, Secret[hop.service],
                                                hop.service, hop.at)
                       /\ hop.headers["interaction_type"]
                             \in KnownTypes[hop.service] \cup {None}
<1>1. PICK id : /\ id # None
                /\ hop.context = build_context(hop.headers, Secret[hop.service], hop.service,
                                     DefaultType[hop.service], KnownTypes[hop.service],
                                     None, id, hop.at)
  BY DEF HopOK
<1> DEFINE public == public_interaction_context_from_headers(hop.headers, id,
                         DefaultType[hop.service], None)
           internal == internal_interaction_context_from_headers(hop.headers, id,
                           DefaultType[hop.service], None)
<1>2. /\ ~verified => hop.context = public
      /\ verified => hop.context = internal
  BY <1>1 DEF build_context, internal_context_raises, verify_internal_token
<1>3. public.trust = "observed"
  BY DEF public_interaction_context_from_headers, NoContext
<1>4. /\ internal.trust = "internal"
      /\ internal.caller = actor_from_principal(token)
      /\ internal.parent_interaction =
            LET given == first_of(hop.headers["parent_interaction"],
                                  hop.headers["interaction"])
            IN  IF given = None THEN hop.headers["parent_activity"] ELSE given
  BY DEF internal_interaction_context_from_headers, with_parents
<1>5. verified => internal.parent_interaction = hop.sender.context.id
  <2> SUFFICES ASSUME verified PROVE internal.parent_interaction = hop.sender.context.id
    OBVIOUS
  <2>1. /\ hop.headers["interaction"] = hop.sender.context.id
        /\ hop.headers["parent_interaction"] = hop.sender.context.id
        /\ hop.sender.context = NoContext => hop.headers["parent_activity"] = None
        /\ hop.sender.context = NoContext \/ hop.sender.context.id # None
    BY DEF HopOK, Carried, ContextOK, verify_internal_token
  <2>2. NoContext.id = None
    BY DEF NoContext
  <2> QED
    BY <1>4, <2>1, <2>2 DEF first_of
<1> HIDE DEF public, internal
<1> QED
  BY <1>2, <1>3, <1>4, <1>5

-----------------------------------------------------------------------------
(***************************************************************************)
(* What the values of a context are.  Beside a token the context headers   *)
(* are those of the sender's context, which were made by the platform; no  *)
(* other headers reach a context.                                          *)
(***************************************************************************)
PlatformToken(token) ==
    token # None =>
        /\ token.sub \in Services
        /\ token.project_id \in Projects \cup {None}
        /\ token.principal_type = "delegated" => token.actor \in Actors

\* A public client's headers come without a token.
CleanHeaders(headers) ==
    /\ PlatformToken(headers["authorization"])
    /\ headers["authorization"] # None =>
          /\ headers["interaction"] \in IdSet \cup {None}
          /\ headers["parent_interaction"] \in IdSet \cup {None}
          /\ headers["parent_activity"] \in IdSet \cup {None}
          /\ headers["agents"] = None

\* What a call passes on of the context it is made from.
CleanContext(context) ==
    /\ context.id \in IdSet \cup {None}
    /\ context.parent_interaction \in IdSet \cup {None}
    /\ context.parent_activity \in IdSet \cup {None}
    /\ context.agents = None

Callers == [actor : Actors \cup Services, delegated_by : Services]

BoundOK(service, id, context) ==
    /\ DOMAIN context = DOMAIN NoContext
    /\ CleanContext(context)
    /\ context.id = id
    /\ context.interaction_type \in KnownTypes[service]
    /\ context.caller \in Callers \cup {None}
    /\ context.project_id \in Projects \cup {None}
    /\ context.trust \in {"observed", "internal"}
    /\ context.parent_interaction = None <=> context.parent_activity = None

ValuesInv ==
    /\ now \in 0 .. MaxNow
    /\ IsFiniteSet(wire) /\ Cardinality(wire) <= MaxWire
    /\ \A m \in wire : m.to \in Services /\ CleanHeaders(m.headers)
    /\ \A i \in DOMAIN hops :
          /\ hops[i].service \in Services
          /\ CleanHeaders(hops[i].headers)
          /\ BoundOK(hops[i].service, Ids[i], hops[i].context)

LEMMA BuiltValues ==
    ASSUME NEW service \in Services, NEW headers, CleanHeaders(headers),
           NEW id \in IdSet, NEW at, NEW context,
           context = build_context(headers, Secret[service], service, DefaultType[service],
                                   KnownTypes[service], None, id, at)
    PROVE  BoundOK(service, id, context)
<1> DEFINE public == public_interaction_context_from_headers(headers, id,
                         DefaultType[service], None)
           internal == internal_interaction_context_from_headers(headers, id,
                           DefaultType[service], None)
           token == headers["authorization"]
<1>1. DefaultType[service] \in KnownTypes[service]
  BY LineageAssumption
<1>2. BoundOK(service, id, public)
  BY <1>1 DEF public_interaction_context_from_headers, NoContext, BoundOK, CleanContext
<1>3. ASSUME token # None, headers["interaction_type"] \in KnownTypes[service] \cup {None}
      PROVE  BoundOK(service, id, internal)
  <2>1. PICK given :
          given = [id                 |-> id,
                   interaction_type   |-> first_of(headers["interaction_type"],
                                                   DefaultType[service]),
                   caller             |-> actor_from_principal(token),
                   agents             |-> headers["agents"],
                   parent_interaction |-> first_of(headers["parent_interaction"],
                                                   headers["interaction"]),
                   parent_activity    |-> headers["parent_activity"],
                   project_id         |-> first_of(None, token.project_id),
                   trust              |-> "internal"]
    OBVIOUS
  <2>2. internal = with_parents(given)
    BY <2>1 DEF internal_interaction_context_from_headers
  <2>3. /\ DOMAIN given = DOMAIN NoContext
        /\ given.id = id /\ given.trust = "internal" /\ given.agents = None
        /\ given.interaction_type \in KnownTypes[service]
        /\ given.parent_interaction \in IdSet \cup {None}
        /\ given.parent_activity \in IdSet \cup {None}
        /\ given.project_id \in Projects \cup {None}
        /\ given.caller = actor_from_principal(token)
    BY <1>1, <1>3, <2>1 DEF NoContext, first_of, CleanHeaders, PlatformToken
  <2>4. actor_from_principal(token) \in Callers
    BY <1>3 DEF actor_from_principal, Callers, CleanHeaders, PlatformToken
  <2>5. /\ internal.parent_interaction = IF given.parent_interaction = None
                                         THEN given.parent_activity
                                         ELSE given.parent_interaction
        /\ internal.parent_activity = IF given.parent_activity = None
                                      THEN given.parent_interaction
                                      ELSE given.parent_activity
        /\ DOMAIN internal = DOMAIN NoContext
        /\ internal.id = id /\ internal.trust = "internal" /\ internal.agents = None
        /\ internal.interaction_type = given.interaction_type
        /\ internal.project_id = given.project_id /\ internal.caller = given.caller
    BY <2>2, <2>3 DEF with_parents, NoContext
  <2> HIDE DEF internal
  <2> QED
    BY <2>3, <2>4, <2>5 DEF BoundOK, CleanContext
<1>4. \/ context = public
      \/ /\ context = internal /\ token # None
         /\ headers["interaction_type"] \in KnownTypes[service] \cup {None}
  BY DEF build_context, internal_context_raises
<1> HIDE DEF public, internal
<1> QED
  BY <1>2, <1>3, <1>4

\* A call's headers: from nothing or from a request's, with the caller's context.
LEMMA OutboundValues ==
    ASSUME NEW given, DOMAIN given = HeaderNames,
           PlatformToken(given["authorization"]),
           NEW token, PlatformToken(token), NEW context, CleanContext(context),
           NEW headers \in outbound_headers(given, token, context)
    PROVE  CleanHeaders(headers)
<1> DEFINE sent == propagation_headers(context)
           auth == authorized(given, token)
<1>1. /\ DOMAIN sent = HeaderNames
      /\ sent["authorization"] = None
      /\ \A h \in {"interaction", "parent_interaction", "parent_activity"} :
            sent[h] \in IdSet \cup {None}
      /\ sent["agents"] = None
  BY DEF propagation_headers, CleanContext, NoHeaders, HeaderNames, ContextHeaders
<1>2. PlatformToken(auth["authorization"])
  BY DEF authorized, HeaderNames
<1>3. CASE headers = merge_taproot_context(auth, context)
  <2> HIDE DEF sent, auth
  <2>1. headers = overlay(without(auth, ContextHeaders), without(sent, {"caller"}))
    BY <1>3 DEF merge_taproot_context, sent
  <2>2. /\ headers["authorization"] = auth["authorization"]
        /\ \A h \in {"interaction", "parent_interaction", "parent_activity"} :
              headers[h] \in IdSet \cup {None}
        /\ headers["agents"] = None
    BY <1>1, <2>1 DEF overlay, without, HeaderNames, ContextHeaders
  <2> QED
    BY <1>2, <2>2 DEF CleanHeaders
<1>4. CASE headers = authorized(merge_safe_propagation_headers(given, context), token)
  <2> DEFINE merged == merge_safe_propagation_headers(given, context)
  <2>1. merged = overlay(without(given, HeaderNames), sent)
    BY DEF merge_safe_propagation_headers
  <2> HIDE DEF sent, auth, merged
  <2>2. /\ DOMAIN merged = HeaderNames /\ merged["authorization"] = None
        /\ \A h \in {"interaction", "parent_interaction", "parent_activity"} :
              merged[h] \in IdSet \cup {None}
        /\ merged["agents"] = None
    BY <1>1, <2>1 DEF overlay, without, HeaderNames, ContextHeaders
  <2>3. headers = IF token = None THEN merged ELSE [merged EXCEPT !["authorization"] = token]
    BY <1>4 DEF authorized, merged
  <2>4. /\ headers["authorization"] \in {None, token}
        /\ \A h \in {"interaction", "parent_interaction", "parent_activity"} :
              headers[h] \in IdSet \cup {None}
        /\ headers["agents"] = None
    BY <2>2, <2>3 DEF HeaderNames, ContextHeaders
  <2> QED
    BY <2>4 DEF CleanHeaders, PlatformToken
<1> QED
  BY <1>3, <1>4 DEF outbound_headers

LEMMA MintedByService ==
    ASSUME NEW s \in Services, NEW t, NEW token \in tokens(s, t)
    PROVE  PlatformToken(token)
  BY DEF tokens, mint_internal_token, mint_delegated_actor_token, service_claims, PlatformToken

LEMMA SendKeepsValues ==
    ASSUME ValuesInv, NEW m, m.to \in Services, CleanHeaders(m.headers), Send(m)
    PROVE  ValuesInv'
<1>1. wire' = wire \cup {m} /\ UNCHANGED <<now, hops>> /\ Cardinality(wire) < MaxWire
  BY DEF Send
<1>2. IsFiniteSet(wire') /\ Cardinality(wire') <= MaxWire
  <2>1. IsFiniteSet(wire) /\ Cardinality(wire) \in Nat
    BY FS_CardinalityType DEF ValuesInv
  <2>2. /\ IsFiniteSet(wire')
        /\ Cardinality(wire') \in {Cardinality(wire), Cardinality(wire) + 1}
    BY <1>1, <2>1, FS_AddElement
  <2> QED
    BY <1>1, <2>1, <2>2, LineageAssumption
<1> QED
  BY <1>1, <1>2 DEF ValuesInv

LEMMA ValuesInitInv == LineageInit => ValuesInv
<1> SUFFICES ASSUME LineageInit PROVE ValuesInv
  OBVIOUS
<1>1. /\ now = 0 /\ wire = {} /\ DOMAIN hops = {}
  BY DEF LineageInit
<1> QED
  BY <1>1, FS_EmptySet, LineageAssumption DEF ValuesInv

LEMMA ValuesNextInv == LineageInv /\ ValuesInv /\ [LineageNext]_lineageVars => ValuesInv'
<1> SUFFICES ASSUME LineageInv, ValuesInv, [LineageNext]_lineageVars PROVE ValuesInv'
  OBVIOUS
<1>1. CASE ClientSends
  <2>1. PICK s \in Services, headers \in {NoHeaders, outside_headers} :
           Send(Request(s, headers, None, NoContext, None))
    BY <1>1 DEF ClientSends
  <2>2. PICK m : m = Request(s, headers, None, NoContext, None)
    OBVIOUS
  <2>3. m.to = s /\ m.headers = headers /\ headers["authorization"] = None
    BY <2>2 DEF Request, NoHeaders, outside_headers, HeaderNames
  <2> QED
    BY <2>1, <2>2, <2>3, SendKeepsValues DEF CleanHeaders, PlatformToken
<1>2. CASE HandlerCalls
  <2>1. PICK i \in DOMAIN hops : \E t \in Services \ {hops[i].service} :
           \E given \in {NoHeaders, hops[i].headers}, token \in tokens(hops[i].service, t) :
           \E headers \in outbound_headers(given, token, hops[i].context) :
               Send(Request(t, headers, hops[i].service, hops[i].context, token))
    BY <1>2 DEF HandlerCalls
  <2>2. /\ hops[i].service \in Services
        /\ CleanContext(hops[i].context)
        /\ \A given \in {NoHeaders, hops[i].headers} :
              DOMAIN given = HeaderNames /\ PlatformToken(given["authorization"])
    BY DEF ValuesInv, BoundOK, LineageInv, HopOK, Carried, CleanHeaders, NoHeaders,
           HeaderNames, PlatformToken
  <2>3. ASSUME NEW t \in Services, NEW given \in {NoHeaders, hops[i].headers},
               NEW token \in tokens(hops[i].service, t),
               NEW headers \in outbound_headers(given, token, hops[i].context),
               NEW m, m = Request(t, headers, hops[i].service, hops[i].context, token)
        PROVE  m.to \in Services /\ CleanHeaders(m.headers)
    <3>1. m.to = t /\ m.headers = headers
      BY <2>3 DEF Request
    <3>2. PlatformToken(token)
      BY <2>2, MintedByService
    <3>3. CleanHeaders(headers)
      BY <2>2, <3>2, OutboundValues
    <3> QED
      BY <3>1, <3>3
  <2> QED
    BY <2>1, <2>3, SendKeepsValues
<1>3. CASE JobCalls
  <2>1. PICK s \in Services : \E t \in Services \ {s} :
           \E token \in tokens(s, t) :
           \E headers \in outbound_headers(NoHeaders, token, NoContext) :
               Send(Request(t, headers, s, NoContext, token))
    BY <1>3 DEF JobCalls
  <2>2. /\ CleanContext(NoContext) /\ DOMAIN NoHeaders = HeaderNames
        /\ PlatformToken(NoHeaders["authorization"])
    BY DEF CleanContext, NoContext, NoHeaders, HeaderNames, PlatformToken
  <2>3. ASSUME NEW t \in Services, NEW token \in tokens(s, t),
               NEW headers \in outbound_headers(NoHeaders, token, NoContext),
               NEW m, m = Request(t, headers, s, NoContext, token)
        PROVE  m.to \in Services /\ CleanHeaders(m.headers)
    <3>1. m.to = t /\ m.headers = headers
      BY <2>3 DEF Request
    <3>2. CleanHeaders(headers)
      BY <2>2, MintedByService, OutboundValues
    <3> QED
      BY <3>1, <3>2
  <2> QED
    BY <2>1, <2>3, SendKeepsValues
<1>4. CASE Receive
  <2>1. PICK m \in wire, again \in BOOLEAN :
           LET s == m.to
           IN  /\ hops' = Append(hops,
                     [service |-> s,
                      headers |-> m.headers,
                      sender  |-> m.sender,
                      at      |-> now,
                      context |-> build_context(m.headers, Secret[s], s, DefaultType[s],
                                      KnownTypes[s], None, Ids[Len(hops) + 1], now)])
               /\ wire' = IF again THEN wire ELSE wire \ {m}
    BY <1>4 DEF Receive
  <2>2. PICK context :
           context = build_context(m.headers, Secret[m.to], m.to, DefaultType[m.to],
                                   KnownTypes[m.to], None, Ids[Len(hops) + 1], now)
    OBVIOUS
  <2>3. PICK hop : hop = [service |-> m.to, headers |-> m.headers, sender |-> m.sender,
                          at |-> now, context |-> context]
    OBVIOUS
  <2>4. hop.service = m.to /\ hop.headers = m.headers /\ hop.context = context
    BY <2>3
  <2>5. hops' = Append(hops, hop) /\ wire' \subseteq wire /\ now' = now
    BY <1>4, <2>1, <2>2, <2>3 DEF Receive
  <2>6. PICK S : hops \in Seq(S)
    BY DEF LineageInv
  <2>7. Ids[Len(hops) + 1] \in IdSet
    <3>1. Len(hops) \in Nat /\ Len(hops) < Len(Ids)
      BY <1>4, <2>6 DEF Receive
    <3>2. DOMAIN Ids = 1 .. Len(Ids) /\ Len(Ids) \in Nat
      BY LineageAssumption
    <3> QED
      BY <3>1, <3>2 DEF IdSet
  <2>8. m.to \in Services /\ CleanHeaders(m.headers)
    BY DEF ValuesInv
  <2>9. BoundOK(m.to, Ids[Len(hops) + 1], context)
    BY <2>2, <2>7, <2>8, BuiltValues
  <2>10. \A i \in DOMAIN hops' : \/ i = Len(hops) + 1 /\ hops'[i] = hop
                                 \/ i \in DOMAIN hops /\ hops'[i] = hops[i]
    BY <2>5, <2>6
  <2>11. \A i \in DOMAIN hops' : /\ hops'[i].service \in Services
                                 /\ CleanHeaders(hops'[i].headers)
                                 /\ BoundOK(hops'[i].service, Ids[i], hops'[i].context)
    BY <2>4, <2>8, <2>9, <2>10 DEF ValuesInv
  <2>12. IsFiniteSet(wire') /\ Cardinality(wire') <= MaxWire
    <3>1. /\ IsFiniteSet(wire') /\ Cardinality(wire') <= Cardinality(wire)
          /\ Cardinality(wire) \in Nat /\ Cardinality(wire') \in Nat
      BY <2>5, FS_Subset, FS_CardinalityType DEF ValuesInv
    <3> QED
      BY <3>1, LineageAssumption DEF ValuesInv
  <2> QED
    BY <2>5, <2>11, <2>12 DEF ValuesInv
<1>5. CASE GiveUp
  <2>1. wire' \subseteq wire /\ UNCHANGED <<now, hops>>
    BY <1>5 DEF GiveUp
  <2>2. /\ IsFiniteSet(wire') /\ Cardinality(wire') <= Cardinality(wire)
        /\ Cardinality(wire) \in Nat /\ Cardinality(wire') \in Nat
    BY <2>1, FS_Subset, FS_CardinalityType DEF ValuesInv
  <2> QED
    BY <2>1, <2>2, LineageAssumption DEF ValuesInv
<1>6. CASE Tick
  BY <1>6, LineageAssumption DEF Tick, ValuesInv
<1>7. CASE UNCHANGED lineageVars
  BY <1>7 DEF lineageVars, ValuesInv
<1> QED
  BY <1>1, <1>2, <1>3, <1>4, <1>5, <1>6, <1>7 DEF LineageNext

-----------------------------------------------------------------------------
(***************************************************************************)
(* Theorems.                                                               *)
(***************************************************************************)
THEOREM LineageInvariance == LineageSpec => []LineageInv
  BY LineageInitInv, LineageNextInv, PTL DEF LineageSpec

THEOREM ValuesInvariance == LineageSpec => []ValuesInv
  BY LineageInvariance, ValuesInitInv, ValuesNextInv, PTL DEF LineageSpec

\* Every interaction has the id it was given and a type its service knows, and
\* its parents are interactions of the tree, both or neither.
THEOREM LineageTypeCorrect == LineageSpec => []LineageTypeOK
<1>1. ValuesInv => LineageTypeOK
  BY DEF ValuesInv, BoundOK, CleanContext, LineageTypeOK
<1> QED
  BY <1>1, ValuesInvariance, PTL

\* No value of a public client's context headers is in any context, however many
\* services its request's tree goes through and whatever headers they pass on.
THEOREM OutsideStaysOutside == LineageSpec => []OutsideValuesStayOutside
<1>1. ValuesInv => OutsideValuesStayOutside
  <2> SUFFICES ASSUME ValuesInv, NEW i \in DOMAIN hops, NEW field \in DOMAIN hops[i].context
               PROVE  hops[i].context[field] # Outside
    BY DEF OutsideValuesStayOutside
  <2> DEFINE context == hops[i].context
             s       == hops[i].service
  <2>1. s \in Services /\ BoundOK(s, Ids[i], context)
    BY DEF ValuesInv
  <2>2. /\ \A f \in {"id", "parent_interaction", "parent_activity", "agents"} :
              context[f] \in IdSet \cup {None}
        /\ context.interaction_type \in KnownTypes[s]
        /\ context.caller \in Callers \cup {None}
        /\ context.project_id \in Projects \cup {None}
        /\ context.trust \in {"observed", "internal"}
    BY <2>1 DEF BoundOK, CleanContext
  <2>3. field \in {"id", "interaction_type", "caller", "agents", "parent_interaction",
                   "parent_activity", "project_id", "trust"}
    BY <2>1 DEF BoundOK, NoContext
  <2> HIDE DEF context, s
  <2>4. context[field] # Outside
    BY <2>1, <2>2, <2>3, OutsideAssumption DEF IdSet, Callers
  <2> QED
    BY <2>4 DEF context
<1> QED
  BY <1>1, ValuesInvariance, PTL

\* A verified context names the interaction its request was sent from as its
\* parent, whichever headers were passed on and however late it arrived.
THEOREM ParentsAreCallers == LineageSpec => []ParentIsCaller
<1>1. LineageInv => ParentIsCaller
  BY HopContext DEF LineageInv, ParentIsCaller
<1> QED
  BY <1>1, LineageInvariance, PTL

\* Of a call with a token of its own, the receiver's context is verified
\* exactly if the token and the type hold on arrival, and its caller is who the
\* sender spoke for; and no service is verified as its own caller.
THEOREM EdgesAreVerified == LineageSpec => []VerifiedEdge
<1>1. ASSUME LineageInv, NEW i \in DOMAIN hops
      PROVE  LET hop    == hops[i]
                 minted == hop.sender.token
                 typed  == hop.sender.context.interaction_type
             IN  /\ minted # None =>
                     \/ /\ hop.context.trust = "internal"
                        /\ hop.at < minted.exp
                        /\ hop.context.caller.delegated_by = hop.sender.service
                        /\ hop.context.caller.actor \in {hop.sender.service, minted.actor}
                     \/ /\ hop.context.trust = "observed"
                        /\ \/ hop.at >= minted.exp
                           \/ Secret[hop.service] # minted.secret
                           \/ typed \notin KnownTypes[hop.service] \cup {None}
                 /\ hop.context.trust = "internal" =>
                     hop.context.caller.delegated_by # hop.service
  <2>1. PICK hop : hop = hops[i] /\ HopOK(hop)
    BY <1>1 DEF LineageInv
  <2> DEFINE token == hop.headers["authorization"]
             minted == hop.sender.token
             verified == /\ Secret[hop.service] # None
                         /\ verify_internal_token(token, Secret[hop.service],
                                                  hop.service, hop.at)
                         /\ hop.headers["interaction_type"]
                               \in KnownTypes[hop.service] \cup {None}
  <2>2. /\ ~verified => hop.context.trust = "observed"
        /\ verified => /\ hop.context.trust = "internal"
                       /\ hop.context.caller = actor_from_principal(token)
    BY <2>1, HopContext
  <2>3. /\ actor_from_principal(token).delegated_by = token.sub
        /\ actor_from_principal(token).actor \in {token.sub, token.actor}
    BY DEF actor_from_principal
  <2>4. hop.context.trust = "internal" => hop.context.caller.delegated_by # hop.service
    BY <2>1, <2>2, <2>3 DEF verify_internal_token, HopOK, Carried, TokenOK
  <2>5. ASSUME minted # None
        PROVE  /\ token = minted /\ minted.sub = hop.sender.service
               /\ hop.headers["interaction_type"] = hop.sender.context.interaction_type
               /\ minted.aud = hop.service
               /\ minted.exp \in Nat /\ hop.at \in Nat /\ minted.secret # None
    BY <2>1, <2>5 DEF HopOK, Carried, TokenOK
  <2>6. minted # None /\ verified =>
          /\ hop.context.trust = "internal"
          /\ hop.at < minted.exp
          /\ hop.context.caller.delegated_by = hop.sender.service
          /\ hop.context.caller.actor \in {hop.sender.service, minted.actor}
    BY <2>2, <2>3, <2>5 DEF verify_internal_token
  <2>7. minted # None /\ ~verified =>
          /\ hop.context.trust = "observed"
          /\ \/ hop.at >= minted.exp
             \/ Secret[hop.service] # minted.secret
             \/ hop.sender.context.interaction_type \notin KnownTypes[hop.service] \cup {None}
    BY <2>2, <2>5 DEF verify_internal_token
  <2> HIDE DEF verified
  <2> QED
    BY <2>1, <2>4, <2>6, <2>7
<1>2. LineageInv => VerifiedEdge
  BY <1>1 DEF VerifiedEdge
<1> QED
  BY <1>2, LineageInvariance, PTL

\* A route that answers a delegated call does so before the longest lifetime of
\* a delegation has passed since it was minted, for a user some service named,
\* and never for another project than the delegation's.
THEOREM DelegationsAreBounded == LineageSpec => []DelegationBounded
<1>1. ASSUME LineageInv, NEW i \in DOMAIN hops, NEW allowed, NEW p,
             route_status(i, allowed, p) = 200
      PROVE  LET token == hops[i].headers["authorization"]
             IN  /\ token.actor \in Actors
                 /\ now < token.iat + MaxDelegatedTtl
                 /\ token.project_id \in {None, p} \/ p = None
  <2>1. PICK token : token = hops[i].headers["authorization"] /\ TokenOK(token)
    BY <1>1 DEF LineageInv, HopOK, Carried
  <2>2. /\ verify_internal_token(token, Secret[hops[i].service], hops[i].service, now)
        /\ delegated_claims_hold(token, allowed, {DelegatedActorScope})
        /\ ~project_mismatch(token, p)
    BY <1>1, <2>1 DEF route_status, delegated_actor_status
  <2>3. /\ token.actor \in Actors /\ token.exp <= token.iat + MaxDelegatedTtl
        /\ token.exp > now /\ token.iat \in Nat /\ token.exp \in Nat
    BY <2>1, <2>2 DEF TokenOK, verify_internal_token, delegated_claims_hold
  <2>4. now \in Nat /\ MaxDelegatedTtl \in Nat
    BY <1>1, LineageAssumption DEF LineageInv
  <2>5. token.project_id \in {None, p} \/ p = None
    BY <2>2 DEF project_mismatch
  <2> QED
    BY <2>1, <2>3, <2>4, <2>5
<1>2. LineageInv => DelegationBounded
  BY <1>1 DEF DelegationBounded
<1> QED
  BY <1>2, LineageInvariance, PTL
=============================================================================
