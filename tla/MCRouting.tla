----------------------------- MODULE MCRouting -----------------------------
(* Model-checking instance of Routing and Policy.  Two observers share key  *)
(* K1, a third has K2; every role is present; topics and filters cover each *)
(* class the policy tells apart, in canonical and in mixed case, and the    *)
(* payload sizes sit on both sides of every limit.                          *)
EXTENDS Routing, TLC

CONSTANTS o1, o2, o3, admin, full, limited

Observer(k) == [kind |-> "observer", key |-> k]

MCPrincipalOf ==
    o1 :> Observer("K1") @@ o2 :> Observer("K1") @@ o3 :> Observer("K2")
    @@ admin :> [kind |-> "admin"] @@ full :> [kind |-> "full"]
    @@ limited :> [kind |-> "limited"]

MCUpper == [sto |-> "STO", Test |-> "test", k1 |-> "K1"]
MCLower == [Packets |-> "packets", Error |-> "error", Serial |-> "serial", SNR |-> "snr"]

T(iata, key, sub) == <<"meshcore", iata, key>> \o sub

MCTopics ==
    {T(i, "K1", <<"status">>) : i \in {"STO", "sto", "XXX", "test", "OLD", "NYC", "S1"}}
    \cup {T("STO", "k1", <<s>>) : s \in {"Packets", "neighbors", "Error", "internal", "raw"}}
    \cup {T("STO", "K1", <<"serial", s>>) : s \in {"commands", "responses", "other"}}
    \cup {T("STO", "K1", <<"Serial", "commands">>), T("STO", "K2", <<"packets">>),
          T("STO", "K1", <<"packets", "x">>),
          <<"meshcore", "STO", "K1">>, <<"meshcore", "STO", "", "status">>,
          <<"heartbeat", "">>}

MCFilters ==
    {<<"meshcore", "#">>, <<"heartbeat", "">>, <<"#">>,
     <<"meshcore", "+", "+", "serial", "#">>,
     T("STO", "K1", <<"serial", "commands">>), T("NYC", "K1", <<"serial", "commands">>),
     T("STO", "k1", <<"error", "#">>), T("STO", "K1", <<"error">>),
     T("STO", "K1", <<"status">>), T("STO", "K1", <<"+">>)}

P(size, form, origin, fields) ==
    [size |-> size, form |-> form, origin |-> origin, fields |-> fields,
     listed |-> FALSE, items |-> {}]
\* With an entry under "neighbors", in an array or not.
N(payload, listed) ==
    [payload EXCEPT !.listed = listed, !.items = {"SNR", "name"}]

AllFields == {"SNR", "snr", "stats", "name"}
MCPayloads ==
    {P(0, "text", "missing", {}), P(4096, "jwt", "missing", {}),
     P(4097, "jwt", "missing", {}), N(P(8192, "object", "K1", AllFields), TRUE),
     N(P(8193, "object", "K1", AllFields), FALSE), P(10241, "object", "K1", {}),
     P(100, "object", "K2", AllFields), P(100, "object", "missing", {})}
MCI64Min == -16

\* Times sit at both ends of i64 and on both sides of the limits.
Token(key, signed_by, iat, exp) ==
    [parts |-> 3, header_decodes |-> TRUE, claims_decode |-> TRUE, alg |-> "Ed25519",
     typ |-> "JWT", key |-> key, signed_by |-> signed_by, aud |-> "aud", iat |-> iat,
     exp |-> exp]
Good == Token("K1", "K1", 0, Absent)
Malformed ==
    {Absent, [Good EXCEPT !.parts = 2], [Good EXCEPT !.header_decodes = FALSE],
     [Good EXCEPT !.claims_decode = FALSE], [Good EXCEPT !.alg = "none"],
     [Good EXCEPT !.typ = "x"], [Good EXCEPT !.aud = Absent], [Good EXCEPT !.aud = "else"],
     [Good EXCEPT !.signed_by = "K2"], [Good EXCEPT !.signed_by = Absent], [Good EXCEPT !.key = "K2", !.signed_by = "K2"]}
Name(prefix, rest) == [prefix |-> prefix, rest |-> rest]
Login(c, name, token, now) == [client |-> c, name |-> name, token |-> token, now |-> now]
MCLogins ==
    {Login(o2, Name("v1_", "K1"), Good, 0), Login(o3, Name("v1_", "K2"), Token("K2", "K2", 0, 0), 0),
     Login(o3, Name("v1_", "K3"), Token("K3", "K3", 0, 0), 0)}
    \cup {Login(o1, Name("v1_", "k1"), t, 0) : t \in Malformed}
    \cup {Login(o1, n, Good, 0) : n \in {Name("v1_", "xy"), Name("V1_", "K1")}}
    \cup {Login(o1, Name("v1_", "k1"), Token("k1", "K1", iat, exp), now) :
             now \in {0, I64Max - 1}, iat \in {I64Min, -5, -4, 2, 3, I64Max},
             exp \in {Absent, 0, I64Max}}
============================================================================
