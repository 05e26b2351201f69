------------------------------ MODULE Routing ------------------------------
(* Which client receives what: the ACL hooks of src/mqtt/broker/hooks.rs,   *)
(* the denial notices of notifications.rs, the heartbeat and RoleRouter     *)
(* (src/mqtt/broker/router.rs), over the rules of Policy and the logins of  *)
(* Tokens, with the replay of retained messages to a new subscription       *)
(* (src/mqtt/broker/retained.rs; RetainedStore models the store itself).    *)
(* The subscription table and filter matching are RMQTT's.  A handler runs  *)
(* atomically here; PublishPipeline interleaves its steps.                  *)
EXTENDS Tokens

CONSTANTS
    Clients,       \* connected clients
    PrincipalOf,   \* client -> its principal
    Topics,        \* topics clients publish to
    Filters,       \* filters clients subscribe to
    Payloads,      \* payloads: see Policy
    Logins,        \* CONNECTs of observers: [client, name, token, now]
    MaxRelations,  \* bound on the subscriptions of the model
    MaxRetained,   \* bound on its retained messages
    None

PayloadRecords ==
    [size : Nat, form : {"object", "jwt", "text"},
     origin : PublicKeys \cup {"missing", "other"},
     fields : SUBSET STRING, listed : BOOLEAN, items : SUBSET STRING]

\* Only a JSON object has fields and an origin, and no empty payload is one.
ASSUME RoutingAssumption ==
    /\ "broker" \notin Clients
    /\ \A c \in Clients :
           /\ PrincipalOf[c].kind \in {"observer", "admin", "full", "limited"}
           /\ PrincipalOf[c].kind = "observer" => PrincipalOf[c].key \in PublicKeys
    /\ \A t \in Topics \cup Filters : t \in Seq(STRING) /\ t # << >>
    /\ Payloads \subseteq PayloadRecords
    /\ \A p \in Payloads :
           p.form # "object" \/ p.size = 0 =>
               p.origin = "missing" /\ p.fields = {} /\ ~p.listed /\ p.items = {}
    /\ \A l \in Logins :
           /\ l.now \in I64Min..I64Max
           /\ l.token # Absent => /\ l.token.iat \in I64Min..I64Max
                                  /\ l.token.exp \in (I64Min..I64Max) \cup {Absent}

ObserverClients == {c \in Clients : PrincipalOf[c].kind = "observer"}

VARIABLES
    owner,       \* ObserverOwnership: key -> client
    relations,   \* RMQTT's subscription table: pairs <<client, filter>>
    retained,    \* MemoryRetainStorage: [from, topic, payload], one per topic
    delivered,   \* messages on their way: [to, from, topic, payload, replayed]
    answered     \* the CONNECT just answered and its verdict, None otherwise

routingVars == <<owner, relations, retained, delivered, answered>>

\* Handlers run one at a time.
Quiet == delivered = {} /\ answered = None

IsOwner(c) ==
    PrincipalOf[c].kind = "observer" => owner[PrincipalOf[c].key] = c

----------------------------------------------------------------------------
\* External: RMQTT's matching of a topic against a filter.
Matches(filter, topic) ==
    \/ /\ Len(filter) = Len(topic)
       /\ \A i \in DOMAIN filter : filter[i] \in {"+", topic[i]}
    \/ /\ Last(filter) = "#"
       /\ Len(topic) >= Len(filter) - 1
       /\ \A i \in 1 .. (Len(filter) - 1) : filter[i] \in {"+", topic[i]}

\* RoleRouter::matches keeps the relations whose principal may see the topic.
RouterMatches(topic) ==
    {r \in relations : /\ Matches(r[2], topic)
                       /\ DeliveryAllows(PrincipalOf[r[1]], topic, IsOwner(r[1]))}

\* The MessageDelivered hook projects the payload for limited subscribers.
DeliveredPayload(c, topic, payload) ==
    IF PrincipalOf[c].kind = "limited" THEN FilterLimitedPayload(topic, payload)
                                       ELSE payload

Route(from, topic, payload) ==
    delivered' = {[to |-> r[1], from |-> from, topic |-> topic,
                   payload |-> DeliveredPayload(r[1], topic, payload),
                   replayed |-> FALSE] : r \in RouterMatches(topic)}

\* MemoryRetainStorage::set, reached by clients' messages only: an empty payload
\* clears the topic, any other replaces what the topic had.
Retain(from, topic, payload, retain) ==
    LET others == {m \in retained : m.topic # topic} IN
    retained' = CASE ~retain -> retained
                  [] retain /\ payload.size = 0 -> others
                  [] OTHER -> others \cup {[from |-> from, topic |-> topic,
                                           payload |-> payload]}

\* MemoryRetainStorage::get: RMQTT hands a new subscription every retained
\* message its filter matches.  The messages do not pass RoleRouter::matches;
\* the MessageDelivered hook still projects them.
ReplayedWhole(c, filter) ==
    delivered' = {[to |-> c, from |-> m.from, topic |-> m.topic, payload |-> m.payload,
                   replayed |-> TRUE] : m \in {x \in retained : Matches(filter, x.topic)}}
Replay(c, filter) ==
    delivered' = {[to |-> c, from |-> m.from, topic |-> m.topic,
                   payload |-> DeliveredPayload(c, m.topic, m.payload),
                   replayed |-> TRUE] : m \in {x \in retained : Matches(filter, x.topic)}}

NoticePayload == [size |-> 1, form |-> "object", origin |-> "missing", fields |-> {},
                  listed |-> FALSE, items |-> {}]

\* denial_iata: the denied topic's IATA if it is usable, else a placeholder.
DenialIata(topic) ==
    IF /\ Len(topic) >= 3
       /\ topic[1] = "meshcore"
       /\ Iata(topic) \in WellFormedIata \cup {"test"}
    THEN Iata(topic) ELSE "XXX"

\* DenialNotifier::notify tells observers only.
Notify(c, topic) ==
    IF PrincipalOf[c].kind = "observer"
    THEN Route("broker", <<"meshcore", DenialIata(topic), PrincipalOf[c].key, "error">>,
               NoticePayload)
    ELSE delivered' = {}

----------------------------------------------------------------------------
Subscribe(c, filter) ==
    /\ Quiet
    /\ IF Allowed(AuthorizeSubscribe(PrincipalOf[c], IsOwner(c), filter))
       THEN /\ relations' = relations \cup {<<c, filter>>}
            /\ Cardinality(relations') <= MaxRelations
            /\ Replay(c, filter)
       ELSE Notify(c, filter) /\ UNCHANGED relations
    /\ UNCHANGED <<owner, retained, answered>>

Publish(c, topic, payload, retain) ==
    /\ Quiet
    /\ IF Allowed(AuthorizePublish(PrincipalOf[c], IsOwner(c), topic, payload, retain))
       THEN /\ Retain(c, NormalizedTopic(topic), payload, retain)
            /\ Cardinality(retained') <= MaxRetained
            /\ Route(c, NormalizedTopic(topic), payload)
       ELSE Notify(c, topic) /\ UNCHANGED retained
    /\ UNCHANGED <<owner, relations, answered>>

\* purge_expired drops a retained message whose MQTT 5 expiry has passed.
Expire(m) ==
    /\ Quiet
    /\ retained' = retained \ {m}
    /\ UNCHANGED <<owner, relations, delivered, answered>>

\* The heartbeat task publishes as the system (heartbeat.rs).
Heartbeat ==
    /\ Quiet
    /\ Route("broker", <<"heartbeat", "">>, NoticePayload)
    /\ UNCHANGED <<owner, relations, retained, answered>>

\* A connection authenticates and owns its key (ObserverOwnership::set) or is
\* refused, and the owner leaves (release).  The table keeps the subscriptions
\* of a client whose session has not ended yet.
LogIn(login) ==
    LET verdict == AuthenticateObserver(login.name, login.token, login.now) IN
    /\ Quiet
    /\ answered' = [login |-> login, code |-> verdict.code]
    /\ owner' = IF Allowed(verdict)
                THEN [owner EXCEPT ![UsernameKey(login.name)] = login.client] ELSE owner
    /\ UNCHANGED <<relations, retained, delivered>>

Leave(c) ==
    /\ Quiet
    /\ IsOwner(c)
    /\ owner' = [owner EXCEPT ![PrincipalOf[c].key] = None]
    /\ UNCHANGED <<relations, retained, delivered, answered>>

\* External: RMQTT hands the messages, or the answer, to their clients.
HandOver ==
    /\ ~Quiet
    /\ delivered' = {} /\ answered' = None
    /\ UNCHANGED <<owner, relations, retained>>

RoutingInit ==
    /\ owner = [k \in PublicKeys |-> None]
    /\ relations = {} /\ retained = {}
    /\ delivered = {} /\ answered = None

RoutingNext ==
    \/ \E c \in Clients, f \in Filters : Subscribe(c, f)
    \/ \E c \in Clients, t \in Topics, p \in Payloads, retain \in BOOLEAN :
           Publish(c, t, p, retain)
    \/ \E m \in retained : Expire(m)
    \/ Heartbeat
    \/ \E login \in Logins : LogIn(login)
    \/ \E c \in ObserverClients : Leave(c)
    \/ HandOver

RoutingSpec == RoutingInit /\ [][RoutingNext]_routingVars

----------------------------------------------------------------------------
Kind(c) == IF c = "broker" THEN "broker" ELSE PrincipalOf[c].kind

(* An observer hears only the broker's denial notices and admin commands,   *)
(* never another observer, whatever anyone subscribed to, published or left *)
(* retained; one whose key was taken over hears the notices only, no        *)
(* command meant for the new owner (publish.rs, subscribe.rs and            *)
(* delivery.rs together; a replay passes subscribe.rs only).                *)
ObserverHearsOnlyBrokerAndAdmin ==
    \A d \in delivered : Kind(d.to) = "observer" =>
        Kind(d.from) \in (IF IsOwner(d.to) THEN {"broker", "admin"} ELSE {"broker"})

(* Full and limited subscribers never see internal or error traffic of any  *)
(* observer, in any letter case, and no serial traffic as it is published   *)
(* (delivery.rs lines 11-16).  Serial traffic reaches them in one way: the  *)
(* sender had it retained, and the replay to a new subscription asks only   *)
(* subscribe.rs, whose filters may be as wide as meshcore/# (retained.rs    *)
(* lines 120-131).                                                          *)
PrivateTrafficOnlyByReplay ==
    \A d \in delivered :
        Kind(d.to) \in {"full", "limited"} /\ Len(d.topic) >= 4 =>
            /\ Lowercased(d.topic[4]) \notin {"internal", "error"}
            /\ Lowercased(d.topic[4]) = "serial" => d.replayed

(* Live and in a replay, a limited subscriber never sees a radio field of   *)
(* packets or of the entries of a neighbors array, however it is spelled,   *)
(* nor a device field of a status (delivery.rs lines 48-95).  This is all   *)
(* the code projects: neighbors that are no array, radio fields beside the  *)
(* array, a status field in other letter case and a deeper subtopic, as     *)
(* packets/x, pass as they are.                                             *)
LimitedSeesNoRestrictedFields ==
    \A d \in delivered : Kind(d.to) = "limited" /\ Len(d.topic) = 4 =>
        LET sub == Lowercased(d.topic[4])
            seen == d.payload
        IN  /\ sub = "packets" => \A k \in seen.fields : Lowercased(k) \notin RadioFields
            /\ sub = "neighbors" /\ seen.listed =>
                   \A k \in seen.items : Lowercased(k) \notin RadioFields
            /\ sub = "status" => seen.fields \cap DeviceFields = {}

(* Whoever an observer's message reaches, live or in a replay, it names its *)
(* sender's key and is canonical: an accepted region, the key in upper      *)
(* case, and no other key as the origin of its payload; a live one comes    *)
(* from the key's owner (publish.rs lines 113-128 and 300-344).             *)
SenderSpeaksForItself ==
    \A d \in delivered : Kind(d.from) = "observer" =>
        /\ d.topic[3] = PrincipalOf[d.from].key
        /\ d.replayed \/ owner[d.topic[3]] = d.from
        /\ d.topic[2] \in allowed_iata \cup {"test"}
        /\ d.payload.origin \in {d.topic[3], "missing"}

(* A login is accepted exactly when the token is current for the key of its *)
(* user name: signed by that key, for this audience, neither expired nor    *)
(* issued too long ago or too far ahead, in exact arithmetic although the   *)
(* code's saturates (auth/mod.rs lines 54-120, jwt.rs); the accepted        *)
(* connection owns the key.                                                 *)
LoginIsCurrent ==
    answered # None =>
        LET login == answered.login
            token == login.token
            key == Uppercased(login.name.rest)
        IN  answered.code = "Ok" <=>
                /\ login.name.prefix = "v1_" /\ key \in PublicKeys /\ owner[key] = login.client
                /\ token # Absent
                /\ token.parts = 3 /\ token.header_decodes /\ token.claims_decode
                /\ token.alg = "Ed25519" /\ token.typ = "JWT"
                /\ Uppercased(token.key) = key /\ token.signed_by = key /\ key \in CurvePoints
                /\ expected_audience \in {"", token.aud}
                /\ token.exp # Absent => login.now <= token.exp
                /\ token.iat - login.now <= MAX_FUTURE_IAT_SKEW_SECONDS
                /\ token_max_age_seconds # 0 => login.now - token.iat <= token_max_age_seconds
============================================================================
