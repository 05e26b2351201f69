------------------------------ MODULE MCProcess ------------------------------
(* Process on three connections for two permits: one with every request and  *)
(* frame, one that publishes, one whose client stays silent; started with a   *)
(* plain configuration varied one group of settings at a time.                *)
EXTENDS Process

CONSTANTS c1, c2, c3

MCTrim ==
    ("  " :> "") @@ (" sto " :> "sto") @@ (" alice " :> "alice") @@ (" aud " :> "aud")
    @@ (" WebSocket" :> "WebSocket") @@ ("x-forwarded-for " :> "x-forwarded-for")
    @@ [t \in {"", "STO", "sto", "got", "OLD", "old", "STOX", "alice", "Alice", "bob", "v1_x",
               "V1_x", "pw", "aud", "websocket", "h2c", "X-Forwarded-For", "Forwarded",
               "Town", "bell"} |-> t]
MCUpper == [t \in {"", "STO", "OLD", "STOX"} |-> t]
           @@ ("sto" :> "STO") @@ ("got" :> "GOT") @@ ("old" :> "OLD")
MCLower == ("Alice" :> "alice") @@ ("V1_x" :> "v1_x") @@ ("Upgrade" :> "upgrade")
           @@ ("WebSocket" :> "websocket") @@ ("X-Forwarded-For" :> "x-forwarded-for")
           @@ ("Forwarded" :> "forwarded") @@ ("YES" :> "yes")
           @@ [t \in {"", "alice", "bob", "v1_x", "upgrade", "upgrade ", "websocket", "h2c",
                      "x-forwarded-for", "off", "maybe"} |-> t]

V4(bits) == [family |-> "v4", bits |-> bits]
V6(bits) == [family |-> "v6", bits |-> bits]
MCResolve == [nowhere |-> << >>, localhost |-> <<V6(1), V4(1)>>, four |-> <<V4(1)>>]
MCWidth == [v4 |-> 2, v6 |-> 2]

Net(address, prefix) == [address |-> address, prefix |-> prefix]
Nets(csv, items) == [csv |-> csv, items |-> items]
TwoNets == <<Net(V4(0), 1), Net(V6(1), Unset)>>

Entry(code, name, csv, secondaries) ==
    [code |-> code, friendly_name |-> name, secondary_iata |-> Nets(csv, secondaries)]
List(codes) == [i \in DOMAIN codes |-> Entry(codes[i], Unset, FALSE, << >>)]
User(name, password, role, max) ==
    [username |-> name, password |-> password, role |-> role, max_connections |-> max]
Url(scheme, path) ==
    [scheme |-> scheme, host |-> TRUE, path |-> path, credentials |-> FALSE, query |-> FALSE]

BaseDoc ==
    [sections |-> {"mqtt", "auth"}, mqtt_ws_port |-> 8080, mqtt_host |-> "localhost",
     mqtt_trusted_proxies |-> Nets(FALSE, TwoNets), mqtt_ws_max_payload_bytes |-> 3,
     auth_expected_audience |-> "aud", subscribers_default_max_connections |-> 2,
     allowed_iata |-> List(<<"STO">>)]
NoVars == [unrelated |-> Unset]
In(doc, env) == [files |-> "config.yaml" :> (doc @@ BaseDoc), env |-> env]
Pairs(docs, envs) == {In(d, e) : d \in docs, e \in envs}

\* A setting's values in the document and in the environment.
Both(s, yaml, var) == Pairs({s :> v : v \in yaml}, {s :> v : v \in var})

Lists == {Unset, << >>, List(<<"STO">>), List(<<" sto ", "STO">>), List(<<"STOX">>),
          <<Entry("STO", "Town", TRUE, <<Blank, "old">>), Entry("got", Unset, FALSE, <<"OLD">>)>>,
          <<Entry("STO", "Town", FALSE, <<"old">>), Entry("OLD", "Town", FALSE, << >>)>>,
          <<Entry("sto", "bell", FALSE, << >>)>>,
          <<Entry("sto", "Town", TRUE, <<Blank, "old">>), Entry("got", Unset, FALSE, << >>)>>}
AllowlistInputs ==
    Pairs({[iata_allowlist_enabled |-> f, allowed_iata |-> a, allowed_regions |-> r,
            IATA_whitelist |-> w] :
              f \in {Unset, TRUE, FALSE}, a \in Lists, r \in {Unset, List(<<"got">>)},
              w \in {Unset, TRUE, FALSE}},
          {[iata_allowlist_enabled |-> v] : v \in {Blank, "YES", "off", "maybe"}})

LimitInputs ==
    Both("mqtt_ws_port", {Unset, 0, 8080, U16Max + 1}, {Unset, 0, U16Max + 1, Junk})
    \cup Both("mqtt_host", {Unset, "localhost", "nowhere"}, {Unset, Blank, "four"})
    \cup Both("mqtt_ws_max_payload_bytes", {0, 3, U32Max + 1}, {Unset, 0, U32Max, U32Max + 1})
    \cup Both("mqtt_json_publish_max_bytes", {0, 8192}, {Unset, 0, 1})
    \cup Both("auth_token_max_age_seconds", {-1, 0}, {Unset, -1, 60, Junk})
    \cup Both("auth_expected_audience", {Unset, Empty, Blank, " aud "}, {Unset, Blank, "aud"})
    \cup Both("mqtt_trusted_proxies",
              {Nets(FALSE, TwoNets), Nets(FALSE, <<Net(Junk, Unset)>>),
               Nets(TRUE, <<Net(V6(0), 3)>>)},
              {Unset, Nets(TRUE, <<Empty, Net(V4(2), 0)>>), Nets(TRUE, <<Net(V4(2), Junk)>>)})
    \cup Pairs({[sections |-> {"mqtt"}], [sections |-> {"mqtt", "auth", "broker"}]}, {NoVars})

UserLists == {<< >>, <<User(" alice ", "pw", 1, Unset)>>, <<User("v1_x", "pw", 3, 1)>>,
              <<User("V1_x", "pw", 3, 1)>>, <<User("  ", "pw", 3, 1)>>,
              <<User("bob", "  ", 3, 1)>>, <<User("bob", "pw", 4, 1)>>,
              <<User("bob", "pw", 2, 0)>>, <<User("bob", "pw", 256, 1)>>,
              <<User("alice", "pw", 2, 1), User("Alice", "pw", 3, 1)>>,
              <<User("alice", "pw", 2, 1), User("bob", "pw", Junk, 1)>>}
UserInputs ==
    Pairs({[subscribers_users |-> l, subscribers_default_max_connections |-> d] :
              l \in UserLists, d \in {Unset, 0, 2}},
          {[subscribers_default_max_connections |-> v] : v \in {Unset, 0, 1}})

TargetInputs ==
    Pairs({[target_mqtt_url |-> u, target_mqtt_reconnect_period_ms |-> p,
            target_mqtt_connect_timeout_ms |-> t, target_mqtt_reject_unauthorized |-> r] :
              u \in {Blank, Junk, Url("mqtts", ""), Url("http", ""),
                     [Url("mqtt", "") EXCEPT !.host = FALSE]},
              p \in {-1, 0, 1, 300001}, t \in {999, 1000}, r \in BOOLEAN},
          {NoVars} \cup {[target_mqtt_url |-> Url("mqtt", ""),
                          target_mqtt_reconnect_period_ms |-> p,
                          target_mqtt_reject_unauthorized |-> r] :
                            p \in {Blank, 999, 300001}, r \in {Blank, "YES", "off"}})

Keys == {Empty, Blank, Junk} \cup [digits : {64, 66, 128}, clamped : BOOLEAN]
MeshcoreInputs ==
    Pairs({("meshcore_io" :> [enabled |-> e, private_key |-> k, api_url |-> u]) :
              e \in BOOLEAN, k \in Keys,
              u \in {Empty, Junk, Url("https", "/"), [Url("https", "/") EXCEPT !.credentials = TRUE]}},
          {("meshcore_io" :> [enabled |-> e]) : e \in {Unset, "YES", "off"}})
    \cup Pairs({("meshcore_io" :> [enabled |-> TRUE] @@ (s :> v)) :
                   s \in DOMAIN MeshcoreRanges, v \in {-1, 0, 1, 300001}},
               {NoVars} \cup {("meshcore_io" :> (s :> v)) : s \in DOMAIN MeshcoreRanges, v \in {0, 1, Junk}})
    \cup Pairs({("meshcore_io" :> [enabled |-> TRUE])}, {[target_mqtt_url |-> Url("mqtts", "")]})

HealthcheckInputs ==
    Pairs({[healthcheck_http_url |-> u, healthcheck_http_timeout_ms |-> t,
            healthcheck_http_port |-> p] :
              u \in {Blank, Junk, Url("http", "/status"), Url("http", "/"), Url("ftp", "/status")},
              t \in {999, 8000}, p \in {Unset, 9000}},
          {NoVars} \cup {[healthcheck_http_url |-> u, healthcheck_http_timeout_ms |-> 1000,
                          healthcheck_http_port |-> p] :
                            u \in {Unset, Url("https", "/status"), Url("https", "/x")},
                            p \in {Unset, 80, Junk}})

FileInputs ==
    {[files |-> f, env |-> v] :
        f \in {("/run/configs/config.yaml" :> BaseDoc), ("other.yaml" :> BaseDoc),
               ("config.yaml" :> Junk) @@ ("/run/configs/config.yaml" :> BaseDoc)},
        v \in {NoVars, ("config" :> "other.yaml"), ("config" :> Empty)}}

MCInputs == FileInputs \cup AllowlistInputs \cup LimitInputs \cup UserInputs \cup TargetInputs
            \cup MeshcoreInputs \cup HealthcheckInputs

----------------------------------------------------------------------------

Line(name, value) == [name |-> name, value |-> value]
Request(method, path, upgrade, forwarded) ==
    [method |-> method, path |-> path, upgrade |-> upgrade, forwarded |-> forwarded]
Upgrade == <<Line("Upgrade", " WebSocket")>>
Via(hops) == Request("GET", "/mqtt", Upgrade, <<Line("X-Forwarded-For", hops)>>)

MCRequests ==
    (c2 :> {Via(<<V4(1)>>)}) @@ (c3 :> {}) @@
    (c1 :> {Request("GET", "/status", << >>, << >>), Request("POST", "/status", << >>, << >>),
            Request("", "", << >>, << >>), Request("POST", "/", Upgrade, << >>),
            Request("GET", "/", <<Line("upgrade ", "websocket")>>, << >>),
            Request("GET", "/", <<Line("Upgrade", "h2c")>>, << >>),
            Request("GET", "/any", Upgrade, << >>),
            Via(<<V4(3)>>), Via(<<V4(2), V4(1)>>), Via(<<V4(1), V4(0)>>), 
            Via(<<V4(3), V6(2), V6(1)>>), Via(<<Junk, V4(1)>>),
            Request("GET", "/mqtt", Upgrade,
                    <<Line("x-forwarded-for ", <<V4(2)>>), Line("Forwarded", <<V4(3)>>),
                      Line("X-Forwarded-For", <<V4(0)>>)>>)})
MCPeers == (c1 :> {V4(0)}) @@ (c2 :> {V4(3)}) @@ (c3 :> {V4(3)})
Frame(kind, fin, len) == [kind |-> kind, fin |-> fin, len |-> len]
MCFrames ==
    (c2 :> {}) @@ (c3 :> {}) @@
    (c1 :> {Frame(k, f, n) : k \in {"data", "continuation"}, f \in BOOLEAN, n \in {1, 3, 7}}
           \cup {Frame("control", f, n) : f \in BOOLEAN, n \in {0, 3}}
           \cup {Frame("reserved", TRUE, 0)})
=============================================================================
