------------------------------- MODULE Config -------------------------------
(* Config::discover and Config::load of src/config: a YAML document and the *)
(* MESHCORE_* environment are resolved into one configuration or refused.   *)
(* Both are partial records over setting paths joined with underscores, the *)
(* form of the variable names.  A number in a text is its value, a text     *)
(* that does not parse is Junk, and a URL, key or network is the record of  *)
(* the parts the checks look at.                                            *)
EXTENDS Integers, Sequences, SequencesExt, FiniteSets, TLC

CONSTANTS
    Unset,         \* a missing key or variable
    Empty,         \* the empty text
    Blank,         \* a text of whitespace only
    Junk,          \* a text that does not parse as what is expected
    Refused,       \* ConfigError
    Trim, UpperCase, LowerCase,   \* on the texts in use
    ThreeLetters,  \* upper-case texts of exactly three letters
    FriendlyNames, \* trimmed texts of 1 to 120 characters, none a control
    ReservedNames, \* lower-case texts that start with v1_
    Resolve,       \* a host name to the addresses the resolver returns
    Width,         \* address bits of "v4" and of "v6"
    U16Max, U32Max, I64Max

ASSUME ConfigAssumption ==
    /\ {U16Max, U32Max, I64Max} \subseteq Nat
    /\ Width \in [{"v4", "v6"} -> Nat]

Trimmed(text) == IF text = Blank THEN Empty ELSE text

----------------------------------------------------------------------------
(* environment.rs *)

\* A missing or whitespace-only variable never overrides the document.
IsSet(env, s) == s \in DOMAIN env /\ env[s] \notin {Unset, Empty, Blank}

\* The numbers a bounded setting may have, both ends included.
Bounds(min, max) == min .. max

EnvIntAccepts(env, s, min, max) == IsSet(env, s) => env[s] \in Bounds(min, max)

TrueWords == {"1", "true", "yes", "on"}
FalseWords == {"0", "false", "no", "off"}
EnvBoolAccepts(env, s) ==
    IsSet(env, s) => LowerCase[env[s]] \in TrueWords \cup FalseWords
EnvBool(env, s) == IF IsSet(env, s) THEN LowerCase[env[s]] \in TrueWords ELSE Unset

----------------------------------------------------------------------------
(* document.rs *)

MeshcoreDefaults ==
    [enabled |-> FALSE,
     api_url |-> [scheme |-> "https", host |-> TRUE, path |-> "/api/v1/uploader/node",
                  credentials |-> FALSE, query |-> FALSE],
     dry_run |-> FALSE, private_key |-> Empty, min_reupload_seconds |-> 3600,
     request_timeout_ms |-> 10000, workers |-> 1, max_queued_uploads |-> 250,
     attempts |-> 3, retry_delay_ms |-> 5000, ingress_dedup_ms |-> 10000]

SectionDefaults ==
    [mqtt_ws_port |-> Unset, mqtt_host |-> Unset,
     mqtt_trusted_proxies |-> [csv |-> FALSE, items |-> << >>],
     mqtt_ws_max_payload_bytes |-> 65536, mqtt_json_publish_max_bytes |-> 8192,
     auth_expected_audience |-> Unset, auth_token_max_age_seconds |-> 0,
     subscribers_default_max_connections |-> Unset, subscribers_users |-> << >>]

IataDefaults ==
    [iata_allowlist_enabled |-> Unset, iata_allow_test_ingress |-> FALSE,
     allowed_iata |-> Unset, allowed_regions |-> Unset, IATA_whitelist |-> Unset]

IntegrationDefaults ==
    [target_mqtt_url |-> Empty, target_mqtt_reconnect_period_ms |-> 5000,
     target_mqtt_connect_timeout_ms |-> 30000, target_mqtt_reject_unauthorized |-> TRUE,
     healthcheck_http_timeout_ms |-> 8000, healthcheck_http_port |-> Unset,
     healthcheck_http_url |-> Empty]

Default(s) ==
    CASE s \in DOMAIN SectionDefaults -> SectionDefaults[s]
      [] s \in DOMAIN IataDefaults -> IataDefaults[s]
      [] s \in DOMAIN IntegrationDefaults -> IntegrationDefaults[s]

\* A document lists its sections; broker.name alone has a default that
\* depends on whether its section is there.
Yaml(doc, s) ==
    IF s \in DOMAIN doc /\ doc[s] # Unset THEN doc[s]
    ELSE IF s # "broker_name" THEN Default(s)
    ELSE IF "broker" \in doc.sections THEN "Broker" ELSE Empty

Setting(doc, env, s) == IF IsSet(env, s) THEN env[s] ELSE Yaml(doc, s)
Flag(doc, env, s) == IF IsSet(env, s) THEN EnvBool(env, s) ELSE Yaml(doc, s)
MeshcoreYaml(doc) == IF "meshcore_io" \in DOMAIN doc
                     THEN doc["meshcore_io"] @@ MeshcoreDefaults ELSE MeshcoreDefaults

\* The integer types serde gives the numeric settings.
NumberTypes ==
    [mqtt_ws_port |-> 0 .. U16Max, mqtt_ws_max_payload_bytes |-> 0 .. U32Max,
     mqtt_json_publish_max_bytes |-> Nat, auth_token_max_age_seconds |-> Int,
     subscribers_default_max_connections |-> Nat, healthcheck_http_timeout_ms |-> Int,
     healthcheck_http_port |-> 0 .. U16Max, target_mqtt_reconnect_period_ms |-> Int,
     target_mqtt_connect_timeout_ms |-> Int]

\* number_or_string_u8 and option_number_or_string_usize
UserParses(user) ==
    /\ user.role \in 0 .. 255
    /\ user.max_connections = Unset \/ user.max_connections \in Nat

DocumentParses(doc) ==
    /\ doc # Junk
    /\ {"mqtt", "auth"} \subseteq doc.sections
    /\ \A s \in DOMAIN doc \cap DOMAIN NumberTypes :
          doc[s] = Unset \/ doc[s] \in NumberTypes[s]
    /\ \A user \in Range(Yaml(doc, "subscribers_users")) : UserParses(user)

\* A comma-separated text drops its blank items, a list keeps what it has.
CsvOrVec(v) == IF v.csv THEN SelectSeq(v.items, LAMBDA item : item \notin {Empty, Blank})
               ELSE v.items

----------------------------------------------------------------------------
(* types.rs: IpNetwork.  An address is its family and its bits.             *)

\* 2 ^ k for every bit k of an address, and for the number of its bits.
Weight(family) ==
    LET weight[k \in 0 .. Width[family]] == IF k = 0 THEN 1 ELSE 2 * weight[k - 1]
    IN  weight

Address == UNION {[family : {f}, bits : 0 .. (Weight(f)[Width[f]] - 1)] : f \in DOMAIN Width}

\* The mask drops the bits behind the prefix, all of them when it is empty.
NetworkContains(network, ip) ==
    LET host == Weight(network.family)[Width[network.family] - network.prefix_len] IN
    /\ network.family = ip.family
    /\ network.bits \div host = ip.bits \div host

\* from_str on an address, or Junk, with an optional prefix length
NetworkParses(raw) ==
    /\ raw.address \in Address
    /\ raw.prefix = Unset \/ raw.prefix \in 0 .. Width[raw.address.family]
IpNetwork(raw) ==
    [family |-> raw.address.family, bits |-> raw.address.bits,
     prefix_len |-> IF raw.prefix = Unset THEN Width[raw.address.family] ELSE raw.prefix]

----------------------------------------------------------------------------
(* The IATA allowlist: a sequence of entries, empty ones in the list form.  *)

FirstSet(values) == values[SelectInSeq(values, LAMBDA v : v # Unset)]

AllowlistEnabled(doc, env) ==
    FirstSet(<<EnvBool(env, "iata_allowlist_enabled"),
               Yaml(doc, "iata_allowlist_enabled"),
               IF Yaml(doc, "allowed_iata") # Unset THEN TRUE ELSE Unset,
               Yaml(doc, "IATA_whitelist"),
               Yaml(doc, "allowed_regions") # Unset>>)

\* allowed_iata beats the legacy allowed_regions
Allowlist(doc) == IF Yaml(doc, "allowed_iata") # Unset
                  THEN Yaml(doc, "allowed_iata") ELSE Yaml(doc, "allowed_regions")

NormalizeIata(raw) == UpperCase[Trim[raw]]
IataCodes(raws) == [i \in DOMAIN raws |-> NormalizeIata(raws[i])]
Primaries(list) == [i \in DOMAIN list |-> list[i].code]
\* one for every entry and place in its list
Secondaries(list) ==
    LET items(i) == CsvOrVec(list[i].secondary_iata)
    IN  [p \in UNION {{i} \X DOMAIN items(i) : i \in DOMAIN list} |-> items(p[1])[p[2]]]

DisjointAsWritten(list) == Range(Primaries(list)) \cap Range(Secondaries(list)) = {}
DisjointCodes(list) ==
    Range(IataCodes(Primaries(list))) \cap Range(IataCodes(Secondaries(list))) = {}

FriendlyNameAccepts(name) == name = Unset \/ Trim[name] \in FriendlyNames

AllowlistAccepts(doc, env) ==
    /\ EnvBoolAccepts(env, "iata_allowlist_enabled")
    /\ AllowlistEnabled(doc, env)
    /\ LET list == Allowlist(doc) IN
       /\ list # Unset /\ DOMAIN list # {}
       /\ Range(IataCodes(Primaries(list))) \subseteq ThreeLetters
       /\ Range(IataCodes(Secondaries(list))) \subseteq ThreeLetters
       /\ IsInjective(IataCodes(Primaries(list)))
       /\ \A entry \in Range(list) : FriendlyNameAccepts(entry.friendly_name)
       /\ IsInjective(IataCodes(Secondaries(list)))
       /\ DisjointCodes(list)

\* a secondary code maps to the primary code whose entry lists it
PrimaryOf(list, secondary) ==
    NormalizeIata((CHOOSE entry \in Range(list) :
        secondary \in Range(IataCodes(CsvOrVec(entry.secondary_iata)))).code)

----------------------------------------------------------------------------
(* Listener, limits and authentication *)

\* resolve_listener: IPv4 before IPv6, in the resolver's order otherwise
ResolveListener(host) ==
    LET v4 == SelectSeq(Resolve[host], LAMBDA a : a.family = "v4")
    IN  Head(IF v4 # << >> THEN v4 ELSE Resolve[host])

\* Raw networks; a variable is always comma-separated.
TrustedProxies(doc, env) == CsvOrVec(Setting(doc, env, "mqtt_trusted_proxies"))

\* resolve_expected_audience: an explicit empty text disables the check
AudienceAccepts(doc, env) ==
    \/ IsSet(env, "auth_expected_audience")
    \/ Yaml(doc, "auth_expected_audience") \notin {Unset, Blank}
ExpectedAudience(doc, env) ==
    LET raw == Setting(doc, env, "auth_expected_audience")
    IN  IF raw = Empty THEN Empty ELSE Trim[raw]

LimitsAccept(doc, env) ==
    /\ EnvIntAccepts(env, "mqtt_ws_port", 0, U16Max)
    /\ Setting(doc, env, "mqtt_ws_port") # Unset
    /\ Setting(doc, env, "mqtt_host") # Unset
    /\ Resolve[Setting(doc, env, "mqtt_host")] # << >>
    /\ \A raw \in Range(TrustedProxies(doc, env)) : NetworkParses(raw)
    /\ EnvIntAccepts(env, "mqtt_ws_max_payload_bytes", 1, U32Max)
    /\ EnvIntAccepts(env, "mqtt_json_publish_max_bytes", 1, I64Max)
    /\ Setting(doc, env, "mqtt_ws_max_payload_bytes") # 0
    /\ Setting(doc, env, "mqtt_json_publish_max_bytes") # 0
    /\ EnvIntAccepts(env, "auth_token_max_age_seconds", 0, I64Max)
    /\ Setting(doc, env, "auth_token_max_age_seconds") >= 0
    /\ AudienceAccepts(doc, env)
    /\ EnvIntAccepts(env, "subscribers_default_max_connections", 1, I64Max)
    /\ Setting(doc, env, "subscribers_default_max_connections") # Unset
    /\ EnvBoolAccepts(env, "iata_allow_test_ingress")

----------------------------------------------------------------------------
(* Subscribers *)

MaxConnections(doc, env, user) ==
    IF user.max_connections # Unset THEN user.max_connections
    ELSE Setting(doc, env, "subscribers_default_max_connections")

UserAccepts(doc, env, user) ==
    /\ Trim[user.username] # "" /\ Trim[user.password] # ""
    /\ LowerCase[Trim[user.username]] \notin ReservedNames
    /\ user.role \in 1 .. 3
    /\ MaxConnections(doc, env, user) # 0

FoldedNames(users) == [i \in DOMAIN users |-> LowerCase[Trim[users[i].username]]]
UsersAccept(doc, env) ==
    LET users == Yaml(doc, "subscribers_users") IN
    /\ \A user \in Range(users) : UserAccepts(doc, env, user)
    /\ IsInjective(FoldedNames(users))

----------------------------------------------------------------------------
(* validation.rs *)

TargetUrl(doc, env) == Trimmed(Setting(doc, env, "target_mqtt_url"))
TargetEnabled(doc, env) == TargetUrl(doc, env) # Empty

\* A variable is checked even when the target is disabled, YAML is not.
TargetInt(doc, env, s, min, max) ==
    /\ EnvIntAccepts(env, s, min, max)
    /\ TargetEnabled(doc, env) => Setting(doc, env, s) \in Bounds(min, max)

TargetAccepts(doc, env) ==
    LET url == TargetUrl(doc, env) IN
    /\ TargetEnabled(doc, env) =>
          url # Junk /\ url.scheme \in {"mqtt", "mqtts"} /\ url.host
    /\ TargetInt(doc, env, "target_mqtt_reconnect_period_ms", 0, 300000)
    /\ TargetInt(doc, env, "target_mqtt_connect_timeout_ms", 1000, 300000)
    /\ EnvBoolAccepts(env, "target_mqtt_reject_unauthorized")
    /\ Flag(doc, env, "target_mqtt_reject_unauthorized")

ReconnectPeriod(doc, env) ==
    LET period == Setting(doc, env, "target_mqtt_reconnect_period_ms") IN
    IF period \in Bounds(1, 999) THEN 1000 ELSE period

TargetMqttConfig(doc, env) ==
    IF TargetEnabled(doc, env)
    THEN [enabled |-> TRUE, url |-> TargetUrl(doc, env),
          reconnect_period_ms |-> ReconnectPeriod(doc, env),
          connect_timeout_ms |-> Setting(doc, env, "target_mqtt_connect_timeout_ms")]
    ELSE [enabled |-> FALSE, url |-> Empty,
          reconnect_period_ms |-> 5000, connect_timeout_ms |-> 30000]

MeshcoreRanges ==
    [min_reupload_seconds |-> Bounds(0, 86400), request_timeout_ms |-> Bounds(1000, 120000),
     workers |-> Bounds(1, 32), max_queued_uploads |-> Bounds(1, 100000),
     attempts |-> Bounds(1, 100), retry_delay_ms |-> Bounds(0, 300000),
     ingress_dedup_ms |-> Bounds(1000, 300000)]

\* A private key is Empty, Junk (not hexadecimal) or its number of digits and,
\* for an expanded one, whether its scalar is clamped.
KeyAccepts(key) ==
    key # Empty =>
        /\ key # Junk /\ key.digits \in {64, 128}
        /\ key.digits = 128 => key.clamped

ApiUrlAccepts(enabled, url) ==
    enabled \/ url # Empty =>
        /\ url \notin {Empty, Junk}
        /\ url.scheme \in {"http", "https"} /\ url.host /\ ~url.credentials

\* The variables of the section share its settings' names.
MeshcoreEnv(env) == IF "meshcore_io" \in DOMAIN env THEN env["meshcore_io"] ELSE << >>

MeshcoreIoConfig(doc, env) ==
    LET yaml == MeshcoreYaml(doc)  var == MeshcoreEnv(env) IN
    [s \in DOMAIN MeshcoreDefaults |->
        CASE s \in {"enabled", "dry_run"} ->
                IF IsSet(var, s) THEN EnvBool(var, s) ELSE yaml[s]
          [] OTHER -> Trimmed(IF IsSet(var, s) THEN var[s] ELSE yaml[s])]

MeshcoreAccepts(doc, env) ==
    LET config == MeshcoreIoConfig(doc, env)  var == MeshcoreEnv(env) IN
    /\ EnvBoolAccepts(var, "enabled") /\ EnvBoolAccepts(var, "dry_run")
    /\ ApiUrlAccepts(config.enabled, config.api_url)
    /\ KeyAccepts(config.private_key)
    /\ \A s \in DOMAIN MeshcoreRanges : config[s] \in MeshcoreRanges[s]

HealthcheckUrl(doc, env) ==
    LET yaml == Trimmed(Yaml(doc, "healthcheck_http_url")) IN
    CASE IsSet(env, "healthcheck_http_url") -> env["healthcheck_http_url"]
      [] ~IsSet(env, "healthcheck_http_url") /\ yaml # Empty -> yaml
      [] OTHER -> [scheme |-> "http", host |-> TRUE, path |-> "/status",
                   credentials |-> FALSE, query |-> FALSE,
                   port |-> FirstSet(<<Setting(doc, env, "healthcheck_http_port"),
                                       Setting(doc, env, "mqtt_ws_port")>>)]

HealthcheckAccepts(doc, env) ==
    LET url == HealthcheckUrl(doc, env) IN
    /\ Setting(doc, env, "healthcheck_http_timeout_ms") \in Bounds(1000, 10000)
    /\ EnvIntAccepts(env, "healthcheck_http_port", 0, U16Max)
    /\ url # Junk /\ url.scheme \in {"http", "https"} /\ url.host
    /\ url.path = "/status" /\ ~url.query   \* nor a fragment

----------------------------------------------------------------------------

ConfigOf(doc, env) ==
    LET list == Allowlist(doc)
        users == Yaml(doc, "subscribers_users")
        proxies == TrustedProxies(doc, env)
    IN [listener |-> ResolveListener(Setting(doc, env, "mqtt_host")),
        port |-> Setting(doc, env, "mqtt_ws_port"),
        trusted_proxies |-> {IpNetwork(raw) : raw \in Range(proxies)},
        ws_max_payload_bytes |-> Setting(doc, env, "mqtt_ws_max_payload_bytes"),
        json_publish_max_bytes |-> Setting(doc, env, "mqtt_json_publish_max_bytes"),
        broker_name |-> Setting(doc, env, "broker_name"),
        expected_audience |-> ExpectedAudience(doc, env),
        token_max_age_seconds |-> Setting(doc, env, "auth_token_max_age_seconds"),
        subscribers |->
            {[username |-> Trim[u.username], password |-> Trim[u.password],
              role |-> u.role, max_connections |-> MaxConnections(doc, env, u)] :
                u \in Range(users)},
        allowed_iata |-> Range(IataCodes(Primaries(list))),
        secondary_iata |-> [code \in Range(IataCodes(Secondaries(list))) |->
                               PrimaryOf(list, code)],
        allow_test_ingress |-> Flag(doc, env, "iata_allow_test_ingress"),
        target_mqtt |-> TargetMqttConfig(doc, env),
        meshcore_io |-> MeshcoreIoConfig(doc, env),
        healthcheck |-> [url |-> HealthcheckUrl(doc, env),
                         timeout_ms |-> Setting(doc, env, "healthcheck_http_timeout_ms")]]

\* Every refusal is the same to the caller: main returns the error.
Load(doc, env) ==
    IF /\ DocumentParses(doc)
       /\ AllowlistAccepts(doc, env)
       /\ LimitsAccept(doc, env)
       /\ TargetAccepts(doc, env)
       /\ MeshcoreAccepts(doc, env)
       /\ HealthcheckAccepts(doc, env)
       /\ UsersAccept(doc, env)
    THEN ConfigOf(doc, env)
    ELSE Refused

SearchPath == <<"config.yaml", "/run/configs/meshcore-mqtt-broker-config.yaml",
                "/run/configs/config.yaml">>

\* files maps the paths that exist to their documents
Discover(files, env) ==
    LET found == SelectSeq(SearchPath, LAMBDA path : path \in DOMAIN files) IN
    CASE "config" \in DOMAIN env ->
            IF env["config"] \in DOMAIN files THEN Load(files[env["config"]], env) ELSE Refused
      [] "config" \notin DOMAIN env /\ found # << >> -> Load(files[Head(found)], env)
      [] OTHER -> Refused
=============================================================================
