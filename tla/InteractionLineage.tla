-------------------------- MODULE InteractionLineage --------------------------
(***************************************************************************)
(* Services that call each other over HTTP, each behind the interaction    *)
(* middleware: how the tree of interactions grows across them.             *)
(*                                                                         *)
(* Requests may wait on the network, be delivered more than once (a client *)
(* retries with the headers it has) or never.  A public client may send    *)
(* context headers of its own.  A service binds a context to each request  *)
(* it receives and may call other services from it, also passing on the    *)
(* headers it was given; a background job calls with no context bound.     *)
(***************************************************************************)
EXTENDS InternalTrust, Sequences, FiniteSets

CONSTANTS
    Services,       \* the services; the audience of a service is its name
    Secret,         \* the HMAC secret of each service, None if it has none
    KnownTypes,     \* the interaction types each service's version knows
    DefaultType,    \* the interaction type each service gives by default
    Outside,        \* a header value made up outside the platform
    Ids,            \* interaction ids, in the order they are made
    Actors,         \* users on whose behalf tokens are minted
    Projects,       \* projects delegations are made for
    RouteProjects,  \* projects of the routes that require a delegation
    Ttls,           \* lifetimes tokens are asked for
    MaxNow,         \* bound on the clock
    MaxWire         \* bound on the requests waiting on the network

VARIABLES
    now,            \* the time
    wire,           \* requests sent and not yet given up
    hops            \* the requests received, each with its interaction

lineageVars == <<now, wire, hops>>

ASSUME LineageAssumption ==
    /\ \A s \in Services : DefaultType[s] \in KnownTypes[s]
    /\ Ids \in Seq({Ids[i] : i \in DOMAIN Ids})
    /\ \A i, j \in DOMAIN Ids : Ids[i] = Ids[j] => i = j
    /\ \A i \in DOMAIN Ids : Ids[i] # None
    /\ MaxDelegatedTtl \in Nat \ {0} /\ Ttls \subseteq Nat
    /\ MaxNow \in Nat /\ MaxWire \in Nat

\* A value made up outside is none the platform gives a context.
ASSUME OutsideAssumption ==
    /\ Outside \notin {Ids[i] : i \in DOMAIN Ids} \cup Projects
    /\ Outside \notin [actor : Actors \cup Services, delegated_by : Services]
    /\ Outside \notin {None, "observed", "internal"}
    /\ \A s \in Services : Outside \notin KnownTypes[s]

-----------------------------------------------------------------------------
(***************************************************************************)
(* Requests.  `sender' is history the receiver does not see: the service   *)
(* that sent the request (None for a public client), the context it called *)
(* from and the token it minted for the call.                              *)
(***************************************************************************)
Request(to, headers, service, context, token) ==
    [to |-> to, headers |-> headers,
     sender |-> [service |-> service, context |-> context, token |-> token]]

outside_headers == [h \in HeaderNames |-> IF h = "authorization" THEN None ELSE Outside]

\* The tokens service s may mint for a call of service t, None for no token.
tokens(s, t) ==
    IF Secret[s] = None THEN {None}
    ELSE {None}
         \cup {mint_internal_token(Secret[s], t, s, service_claims(None), now, ttl) :
                  ttl \in Ttls}
         \cup {mint_delegated_actor_token(Secret[s], t, s, a, p, now, ttl) :
                  a \in Actors, p \in Projects \cup {None},
                  ttl \in {l \in Ttls : \A a \in Actors : can_mint_delegated(a, l)}}

\* The headers of a call: made by ServiceHttpClient from the caller's headers,
\* or by safe_service_headers with the token added afterwards.
outbound_headers(given, token, context) ==
    {merge_taproot_context(authorized(given, token), context),
     authorized(merge_safe_propagation_headers(given, context), token)}

Send(request) ==
    /\ Cardinality(wire) < MaxWire
    /\ Len(hops) < Len(Ids)
    /\ wire' = wire \cup {request}
    /\ UNCHANGED <<now, hops>>

-----------------------------------------------------------------------------
ClientSends ==
    \E s \in Services, headers \in {NoHeaders, outside_headers} :
        Send(Request(s, headers, None, NoContext, None))

\* A call made while hop i is handled, from fresh headers or from those of the
\* request that is being handled.
HandlerCalls ==
    \E i \in DOMAIN hops : \E t \in Services \ {hops[i].service} :
    \E given \in {NoHeaders, hops[i].headers}, token \in tokens(hops[i].service, t) :
    \E headers \in outbound_headers(given, token, hops[i].context) :
        Send(Request(t, headers, hops[i].service, hops[i].context, token))

\* A call made by a background job: no context is bound.
JobCalls ==
    \E s \in Services : \E t \in Services \ {s} :
    \E token \in tokens(s, t) : \E headers \in outbound_headers(NoHeaders, token, NoContext) :
        Send(Request(t, headers, s, NoContext, token))

\* The middleware of the receiving service binds a context.  The request may
\* be delivered again.
Receive ==
    /\ Len(hops) < Len(Ids)
    /\ \E m \in wire, again \in BOOLEAN :
        LET s == m.to
        IN  /\ hops' = Append(hops,
                  [service |-> s,
                   headers |-> m.headers,
                   sender  |-> m.sender,
                   at      |-> now,
                   context |-> build_context(m.headers, Secret[s], s, DefaultType[s],
                                   KnownTypes[s], None, Ids[Len(hops) + 1], now)])
            /\ wire' = IF again THEN wire ELSE wire \ {m}
    /\ UNCHANGED now

GiveUp ==
    /\ \E m \in wire : wire' = wire \ {m}
    /\ UNCHANGED <<now, hops>>

Tick ==
    /\ now < MaxNow
    /\ now' = now + 1
    /\ UNCHANGED <<wire, hops>>

\* The answer, now, of a route of hop i that requires a delegated actor.
route_status(i, allowed_subjects, expected_project_id) ==
    delegated_actor_status(hops[i].headers["authorization"], Secret[hops[i].service],
        hops[i].service, allowed_subjects, expected_project_id, now)

LineageInit ==
    /\ now = 0
    /\ wire = {}
    /\ hops = << >>

LineageNext ==
    \/ ClientSends \/ HandlerCalls \/ JobCalls
    \/ Receive \/ GiveUp \/ Tick

LineageSpec == LineageInit /\ [][LineageNext]_lineageVars

-----------------------------------------------------------------------------
IdSet == {Ids[i] : i \in DOMAIN Ids}

(* Every interaction has an id of its own, both or neither of its parent   *)
(* fields, and a type its service knows.                                   *)
LineageTypeOK ==
    /\ now \in 0 .. MaxNow
    /\ Cardinality(wire) <= MaxWire
    /\ \A i \in DOMAIN hops :
        LET context == hops[i].context
        IN  /\ context.id = Ids[i]
            /\ context.interaction_type \in KnownTypes[hops[i].service]
            /\ context.trust \in {"observed", "internal"}
            /\ context.parent_interaction \in IdSet \cup {None}
            /\ context.parent_activity \in IdSet \cup {None}
            /\ context.parent_interaction = None <=> context.parent_activity = None

(* The parent an interaction names is the interaction its request was      *)
(* really sent from, whichever headers the sending service passed on,      *)
(* however late or often the request arrived; and a verified child of an   *)
(* interaction is never left without its parent.                           *)
ParentIsCaller ==
    \A i \in DOMAIN hops :
        hops[i].context.trust = "internal"
            => hops[i].context.parent_interaction = hops[i].sender.context.id

(* Nothing a public client puts in a context header reaches the context of *)
(* any interaction of the tree below its request.                          *)
OutsideValuesStayOutside ==
    \A i \in DOMAIN hops : \A field \in DOMAIN hops[i].context :
        hops[i].context[field] # Outside

(* When the sending service minted a token for its call, the receiver's    *)
(* context is a verified one exactly if the token had not expired on       *)
(* arrival and the sender's interaction type is one the receiver knows,    *)
(* and its caller is who the sender spoke for.  A token that was only      *)
(* passed on never makes a service its own caller.                         *)
VerifiedEdge ==
    \A i \in DOMAIN hops :
        LET hop    == hops[i]
            minted == hop.sender.token
            typed  == hop.sender.context.interaction_type
        IN  /\ minted # None =>
                \/ /\ hop.context.trust = "internal"
                   /\ hop.at < minted.exp
                   /\ hop.context.caller.delegated_by = hop.sender.service
                   /\ hop.context.caller.actor \in {hop.sender.service, minted.actor}
                \/ /\ hop.context.trust = "observed"
                   /\ \/ hop.at >= minted.exp
                      \/ Secret[hop.service] # minted.secret
                      \/ typed \notin KnownTypes[hop.service] \cup {None}
            /\ hop.context.trust = "internal" =>
                hop.context.caller.delegated_by # hop.service

(* A route that answers a delegated call does so within the longest        *)
(* lifetime of a delegation, for an actor some service named, and never    *)
(* for another project than the one the delegation was made for.           *)
DelegationBounded ==
    \A i \in DOMAIN hops, p \in RouteProjects \cup {None},
       allowed \in {{}} \cup {{s} : s \in Services} :
        route_status(i, allowed, p) = 200 =>
            LET token == hops[i].headers["authorization"]
            IN  /\ token.actor \in Actors
                /\ now < token.iat + MaxDelegatedTtl
                /\ token.project_id \in {None, p} \/ p = None
=============================================================================
