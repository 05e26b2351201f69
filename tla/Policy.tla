------------------------------- MODULE Policy -------------------------------
(* The access rules of src/mqtt/policy: what a principal may publish, may   *)
(* subscribe to and is delivered.  Pure operators over topics, which are    *)
(* the sequences of their segments.                                         *)
EXTENDS Integers, Sequences, SequencesExt, FiniteSets

CONSTANTS
    PublicKeys,              \* 64-hex-digit segments in upper case
    allowed_iata,            \* Config: accepted three-letter codes
    secondary_iata,          \* Config: codes that must use their primary one
    WellFormedIata,          \* codes of three letters, in upper case
    allow_test_ingress,      \* Config
    json_publish_max_bytes,  \* Config
    SERIAL_MAX_BYTES,
    FIRMWARE_NEIGHBORS_JSON_BUFFER_BYTES,
    Upper,                   \* a segment trimmed and upper-cased ("test": lower)
    Lower                    \* a segment, or a key of an object, lower-cased

Blank == {"", " "}
Wildcards == {"+", "#"}

Uppercased(seg) == IF seg \in DOMAIN Upper THEN Upper[seg] ELSE seg
Lowercased(seg) == IF seg \in DOMAIN Lower THEN Lower[seg] ELSE seg

ASSUME PolicyAssumption ==
    /\ \A k \in PublicKeys : Uppercased(k) = k
    /\ (PublicKeys \cup allowed_iata) \cap (Blank \cup Wildcards) = {}

----------------------------------------------------------------------------
(* topics.rs *)

Parses(topic) ==
    /\ Len(topic) >= 4
    /\ topic[1] = "meshcore"
    /\ Range(topic) \cap (Blank \cup Wildcards) = {}
    /\ Uppercased(topic[3]) \in PublicKeys

\* The fields of a parsed topic; the subtopic keeps its case.
Iata(topic) == Uppercased(topic[2])
TopicKey(topic) == Uppercased(topic[3])
Subtopic(topic) == SubSeq(topic, 4, Len(topic))
LowerSubtopic(topic) == [i \in 1 .. (Len(topic) - 3) |-> Lowercased(topic[i + 3])]

ExactlyCasedPrivate(topic) ==
    Len(topic) >= 4 /\ topic[1] = "meshcore" /\ topic[4] \in {"internal", "serial"}
IsPrivateTopic(topic) ==
    /\ Len(topic) >= 4
    /\ topic[1] = "meshcore"
    /\ Lowercased(topic[4]) \in {"internal", "serial"}

IsObserverErrorTopic(topic) ==
    /\ Len(topic) >= 4
    /\ topic[1] = "meshcore"
    /\ topic[4] = "error"
    /\ Uppercased(topic[3]) \in PublicKeys

NormalizedTopic(topic) ==
    <<"meshcore", Iata(topic), TopicKey(topic)>> \o Subtopic(topic)

----------------------------------------------------------------------------
(* A decision is the first check that fails, in the order of the code.      *)

Check(fails, code, close) == [fails |-> fails, code |-> code, close |-> close]

FirstFailing(checks) ==
    LET failing == {i \in DOMAIN checks : checks[i].fails}
    IN  IF failing = {} THEN [code |-> "Ok", close |-> FALSE]
        ELSE LET first == CHOOSE i \in failing : \A j \in failing : i <= j
             IN  [code |-> checks[first].code, close |-> checks[first].close]

Allowed(decision) == decision.code = "Ok"

(* publish.rs.  A payload is [size, form, origin, fields, listed, items]:   *)
(* form "object" is a JSON object, "jwt" three base64url parts, "text"      *)
(* anything else.  Of an object, origin is its origin_id: a key, "missing"  *)
(* (absent, null or empty) or "other" (not a string, or no key of ours);    *)
(* fields are its keys; listed says that its "neighbors" is an array, and   *)
(* items are the keys of the objects found under "neighbors".               *)

ClearsRetained(payload, retain) == retain /\ payload.size = 0

IataChecks(iata) ==
    << Check(iata = "XXX", "PublishPlaceholderIata", TRUE),
       Check(iata = "test" /\ ~allow_test_ingress, "PublishTestIngressDisabled", FALSE),
       Check(iata # "test" /\ iata \notin WellFormedIata, "PublishInvalidIataFormat", TRUE),
       Check(iata # "test" /\ iata \in secondary_iata, "PublishSecondaryIata", FALSE),
       Check(iata # "test" /\ iata \notin allowed_iata, "PublishUnknownIata", FALSE) >>

SerialResponseChecks(payload, retain) ==
    << Check(payload.size > SERIAL_MAX_BYTES, "PublishPayloadTooLarge", FALSE),
       Check(~ClearsRetained(payload, retain) /\ payload.form # "jwt",
             "PublishSerialResponseInvalid", FALSE) >>

JsonLimit(sub) ==
    IF sub = <<"neighbors">> /\ json_publish_max_bytes < FIRMWARE_NEIGHBORS_JSON_BUFFER_BYTES
    THEN FIRMWARE_NEIGHBORS_JSON_BUFFER_BYTES ELSE json_publish_max_bytes

OriginChecks(payload, key, retain) ==
    IF ClearsRetained(payload, retain) THEN <<>> ELSE
    << Check(payload.form # "object", "PublishInvalidJson", FALSE),
       Check(payload.origin = "missing", "PublishOriginMissing", FALSE),
       Check(payload.origin # key, "PublishOriginMismatch", FALSE) >>

OnlyErrorReserved(sub) == << Check(sub[1] = "error", "PublishReservedSubtopic", FALSE) >>
ReservedChecks(sub) ==
    << Check(sub[1] = "error", "PublishReservedSubtopic", FALSE),
       Check(sub[1] = "internal", "PublishReservedSubtopic", FALSE),
       Check(sub[1] = "serial" /\ sub # <<"serial", "responses">>,
             "PublishReservedSubtopic", FALSE),
       Check(sub[1] = "raw", "PublishReservedSubtopic", FALSE) >>

KeyCheckOnly(topic, key, owns) ==
    << Check(TopicKey(topic) # key, "PublishKeyMismatch", TRUE) >>
SenderChecks(topic, key, owns) ==
    << Check(TopicKey(topic) # key, "PublishKeyMismatch", TRUE),
       Check(~owns, "PublishStaleConnection", TRUE) >>

ObserverPublish(key, owns, topic, payload, retain) ==
    IF topic[1] # "meshcore" \/ Len(topic) = 1
    THEN [code |-> "PublishNotMeshcoreTopic", close |-> FALSE]
    ELSE IF ~Parses(topic) THEN [code |-> "PublishBadTopicShape", close |-> FALSE]
    ELSE LET sub == LowerSubtopic(topic) IN FirstFailing(
         IataChecks(Iata(topic))
         \o SenderChecks(topic, key, owns)
         \o ReservedChecks(sub)
         \o IF sub = <<"serial", "responses">> THEN SerialResponseChecks(payload, retain)
            ELSE << Check(payload.size > JsonLimit(sub), "PublishPayloadTooLarge", FALSE) >>
                 \o OriginChecks(payload, key, retain))

AdminPublish(topic, payload) ==
    IF ~Parses(topic) THEN [code |-> "PublishBadTopicShape", close |-> FALSE]
    ELSE FirstFailing(
         << Check(LowerSubtopic(topic) # <<"serial", "commands">>,
                  "PublishBadTopicShape", FALSE),
            Check(Iata(topic) \notin allowed_iata, "PublishBadTopicShape", FALSE),
            Check(payload.size > SERIAL_MAX_BYTES, "PublishPayloadTooLarge", FALSE) >>)

\* A principal is [kind |-> "observer", key |-> ...] or [kind |-> "admin"],
\* [kind |-> "full"], [kind |-> "limited"].
AuthorizePublish(principal, owns, topic, payload, retain) ==
    CASE principal.kind = "observer" ->
             ObserverPublish(principal.key, owns, topic, payload, retain)
      [] principal.kind = "admin" -> AdminPublish(topic, payload)
      [] OTHER -> [code |-> "PublishReservedSubtopic", close |-> FALSE]

----------------------------------------------------------------------------
(* subscribe.rs *)

ObserverSubscribe(key, owns, filter) ==
    LET stripped == IF Last(filter) \in Wildcards THEN Front(filter) ELSE filter
        sub      == LowerSubtopic(stripped)
        usable   == \/ Iata(stripped) = "test" /\ allow_test_ingress
                    \/ Iata(stripped) \in allowed_iata
    IN  IF ~owns THEN [code |-> "PublishStaleConnection", close |-> FALSE]
        ELSE IF ~Parses(stripped) THEN [code |-> "PublishReservedSubtopic", close |-> TRUE]
        ELSE FirstFailing(
             << Check(TopicKey(stripped) # key, "PublishReservedSubtopic", TRUE),
                Check(sub[1] # "error" /\ sub # <<"serial", "commands">>,
                      "PublishReservedSubtopic", TRUE),
                Check(sub[1] # "error" /\ ~usable, "PublishUnknownIata", FALSE) >>)

SubscriberSubscribe(filter) ==
    LET public == filter[1] = "meshcore" /\ Len(filter) >= 2 /\ ~IsPrivateTopic(filter)
    IN  FirstFailing(<< Check(~public /\ filter # <<"heartbeat", "">>,
                              "PublishReservedSubtopic", FALSE) >>)

AuthorizeSubscribe(principal, owns, filter) ==
    CASE principal.kind = "observer" -> ObserverSubscribe(principal.key, owns, filter)
      [] principal.kind = "admin" -> [code |-> "Ok", close |-> FALSE]
      [] OTHER -> SubscriberSubscribe(filter)

----------------------------------------------------------------------------
(* delivery.rs *)

RouteAllows(principal, topic) ==
    CASE principal.kind = "observer" ->
             /\ Parses(topic)
             /\ TopicKey(topic) = principal.key
             /\ LowerSubtopic(topic) \in {<<"error">>, <<"serial", "commands">>}
      [] principal.kind = "admin" -> TRUE
      [] OTHER -> /\ topic[1] # "$SYS"
                  /\ ~IsPrivateTopic(topic)
                  /\ ~IsObserverErrorTopic(topic)

DeliveryAllows(principal, topic, isOwner) ==
    IF principal.kind = "observer" /\ ~isOwner
    THEN /\ Parses(topic)
         /\ TopicKey(topic) = principal.key
         /\ LowerSubtopic(topic) = <<"error">>
    ELSE RouteAllows(principal, topic)

\* filter_limited_payload: what a limited subscriber keeps of a payload.  Radio
\* keys are compared in lower case, the device keys of a status as they are
\* spelled, and neighbors are projected in an array only.
RadioFields == {"snr", "rssi", "score"}
DeviceFields == {"stats", "model", "firmware_version"}

WithoutRadio(keys) == {k \in keys : Lowercased(k) \notin RadioFields}

FilterLimitedPayload(topic, payload) ==
    LET sub == LowerSubtopic(topic) IN
    IF ~Parses(topic) \/ payload.form # "object" THEN payload
    ELSE CASE sub = <<"status">> -> [payload EXCEPT !.fields = @ \ DeviceFields]
           [] sub = <<"packets">> -> [payload EXCEPT !.fields = WithoutRadio(@)]
           [] sub = <<"neighbors">> /\ payload.listed ->
                  [payload EXCEPT !.items = WithoutRadio(@)]
           [] OTHER -> payload
============================================================================
