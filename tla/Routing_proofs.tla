--------------------------- MODULE Routing_proofs ---------------------------
(* Who hears whom, proved for any clients, principals, topics, payloads,    *)
(* configuration and logins.                                                *)
(*                                                                          *)
(* Messages are on their way only between a handler and the hand-over, so   *)
(* what has to be shown of a live message is what its sender's checks and   *)
(* the router's filter say together: Speaks is the sender's half, the       *)
(* router's half is RouterMatches.  A replayed message passed its sender's  *)
(* checks when it was retained, so the invariant says Speaks of every       *)
(* retained message; the other half is what authorize_subscribe says of the *)
(* filter that fetched it.                                                  *)
EXTENDS Routing, WellFoundedInduction, TLAPS

----------------------------------------------------------------------------
(* Lists of checks.                                                         *)

\* A list of checks none of which answers as if all were well.
Coded(checks) ==
    /\ \E S : checks \in Seq(S)
    /\ \A i \in DOMAIN checks : checks[i].code # "Ok"

Passes(checks) == \A i \in DOMAIN checks : ~checks[i].fails

(* A set of natural numbers that is not empty has a least element.          *)
LEMMA LeastNatural ==
    ASSUME NEW T, T \subseteq Nat, T # {}
    PROVE  \E x \in T : \A y \in T : x <= y
<1> DEFINE less == {ss \in Nat \X Nat : ss[1] < ss[2]}
<1>1. IsWellFoundedOn(less, Nat)
  BY NatLessThanWellFounded DEF OpToRel
<1>2. \A x, y \in Nat : y < x => <<y, x>> \in less
  OBVIOUS
<1> HIDE DEF less
<1>3. PICK x \in T : \A y \in T : ~(<<y, x>> \in less)
  BY <1>1, WFMin
<1>4. ASSUME NEW y \in T PROVE x <= y
  <2>1. x \in Nat /\ y \in Nat
    OBVIOUS
  <2>2. ~(y < x)
    BY <1>2, <1>3, <2>1
  <2> QED
    BY <2>1, <2>2
<1> QED
  BY <1>4

(* The early returns of a handler let a request through exactly when none   *)
(* of its checks fails.                                                     *)
LEMMA AllowedIffAllPass ==
    ASSUME NEW checks, Coded(checks)
    PROVE  Allowed(FirstFailing(checks)) <=> Passes(checks)
<1> DEFINE failing == {i \in DOMAIN checks : checks[i].fails}
           first   == CHOOSE i \in failing : \A j \in failing : i <= j
<1>1. CASE failing = {}
  BY <1>1 DEF FirstFailing, Allowed, Passes
<1>2. CASE failing # {}
  <2>1. failing \subseteq Nat
    BY DEF Coded
  <2>2. \E i \in failing : \A j \in failing : i <= j
    <3> HIDE DEF failing
    <3> QED
      BY <1>2, <2>1, LeastNatural
  <2>3. first \in failing
    BY <2>2
  <2> HIDE DEF first
  <2>4. checks[first].code # "Ok" /\ ~Passes(checks)
    BY <2>3 DEF Coded, Passes
  <2>5. FirstFailing(checks) = [code |-> checks[first].code, close |-> checks[first].close]
    BY <1>2 DEF FirstFailing, first
  <2> QED
    BY <2>4, <2>5 DEF Allowed
<1> QED
  BY <1>1, <1>2

(* Checks that follow one another pass when both lists do.                  *)
LEMMA PassesBoth ==
    ASSUME NEW a, NEW b, Coded(a), Coded(b)
    PROVE  /\ Coded(a \o b)
           /\ Passes(a \o b) <=> Passes(a) /\ Passes(b)
<1> DEFINE s == a \o b
<1>1. PICK S, T : a \in Seq(S) /\ b \in Seq(T)
  BY DEF Coded
<1>2. a \in Seq(S \cup T) /\ b \in Seq(S \cup T) /\ s \in Seq(S \cup T)
  BY <1>1
<1>3. /\ DOMAIN s = 1..(Len(a) + Len(b)) /\ DOMAIN a = 1..Len(a) /\ DOMAIN b = 1..Len(b)
      /\ Len(a) \in Nat /\ Len(b) \in Nat
      /\ \A i \in 1..Len(a) : s[i] = a[i]
      /\ \A i \in 1..Len(b) : s[i + Len(a)] = b[i]
  BY <1>2
<1> HIDE DEF s
<1>4. \A i \in DOMAIN a : i \in DOMAIN s /\ s[i] = a[i]
  BY <1>3
<1>5. \A i \in DOMAIN b : i + Len(a) \in DOMAIN s /\ s[i + Len(a)] = b[i]
  BY <1>3
<1>6. ASSUME NEW i \in DOMAIN s
      PROVE  \/ i \in DOMAIN a /\ s[i] = a[i]
             \/ i - Len(a) \in DOMAIN b /\ s[i] = b[i - Len(a)]
  <2>1. CASE i <= Len(a)
    BY <1>3, <2>1
  <2>2. CASE ~(i <= Len(a))
    <3>1. i - Len(a) \in 1..Len(b) /\ (i - Len(a)) + Len(a) = i
      BY <1>3, <2>2
    <3>2. s[(i - Len(a)) + Len(a)] = b[i - Len(a)]
      BY <1>3, <3>1
    <3> QED
      BY <1>3, <3>1, <3>2
  <2> QED
    BY <2>1, <2>2
<1>7. \A i \in DOMAIN s : s[i].code # "Ok"
  BY <1>6 DEF Coded
<1>8. Passes(s) => Passes(a) /\ Passes(b)
  BY <1>4, <1>5 DEF Passes
<1>9. Passes(a) /\ Passes(b) => Passes(s)
  BY <1>6 DEF Passes
<1> QED
  BY <1>2, <1>7, <1>8, <1>9 DEF Coded, s

(* No checks pass.                                                          *)
LEMMA NoChecks == Coded(<< >>) /\ Passes(<< >>)
<1>1. << >> \in Seq({})
  OBVIOUS
<1> QED
  BY <1>1 DEF Coded, Passes

(* A list written out passes when each of its checks does.                  *)
LEMMA List1 ==
    ASSUME NEW a,
           a.code # "Ok"
    PROVE  /\ Coded(<<a>>)
           /\ Passes(<<a>>) <=>
             ~a.fails
<1> DEFINE s == <<a>>
<1>1. s \in Seq({a})
  OBVIOUS
<1>2. /\ DOMAIN s = 1..1
      /\ s[1] = a
  OBVIOUS
<1> HIDE DEF s
<1>3. \A i \in DOMAIN s : s[i].code # "Ok"
  BY <1>2
<1>4. Passes(s) <=>
             ~a.fails
  BY <1>2 DEF Passes
<1> QED
  BY <1>1, <1>3, <1>4 DEF Coded, s

(* The same for a list of two.                                              *)
LEMMA List2 ==
    ASSUME NEW a, NEW b,
           a.code # "Ok", b.code # "Ok"
    PROVE  /\ Coded(<<a, b>>)
           /\ Passes(<<a, b>>) <=>
             ~a.fails /\ ~b.fails
<1> DEFINE s == <<a, b>>
<1>1. s \in Seq({a, b})
  OBVIOUS
<1>2. /\ DOMAIN s = 1..2
      /\ s[1] = a /\ s[2] = b
  OBVIOUS
<1> HIDE DEF s
<1>3. \A i \in DOMAIN s : s[i].code # "Ok"
  BY <1>2
<1>4. Passes(s) <=>
             ~a.fails /\ ~b.fails
  BY <1>2 DEF Passes
<1> QED
  BY <1>1, <1>3, <1>4 DEF Coded, s

(* The same for a list of three.                                            *)
LEMMA List3 ==
    ASSUME NEW a, NEW b, NEW c,
           a.code # "Ok", b.code # "Ok", c.code # "Ok"
    PROVE  /\ Coded(<<a, b, c>>)
           /\ Passes(<<a, b, c>>) <=>
             ~a.fails /\ ~b.fails /\ ~c.fails
<1> DEFINE s == <<a, b, c>>
<1>1. s \in Seq({a, b, c})
  OBVIOUS
<1>2. /\ DOMAIN s = 1..3
      /\ s[1] = a /\ s[2] = b /\ s[3] = c
  OBVIOUS
<1> HIDE DEF s
<1>3. \A i \in DOMAIN s : s[i].code # "Ok"
  BY <1>2
<1>4. Passes(s) <=>
             ~a.fails /\ ~b.fails /\ ~c.fails
  BY <1>2 DEF Passes
<1> QED
  BY <1>1, <1>3, <1>4 DEF Coded, s

(* The same for a list of four.                                             *)
LEMMA List4 ==
    ASSUME NEW a, NEW b, NEW c, NEW d,
           a.code # "Ok", b.code # "Ok", c.code # "Ok", d.code # "Ok"
    PROVE  /\ Coded(<<a, b, c, d>>)
           /\ Passes(<<a, b, c, d>>) <=>
             ~a.fails /\ ~b.fails /\ ~c.fails /\ ~d.fails
<1> DEFINE s == <<a, b, c, d>>
<1>1. s \in Seq({a, b, c, d})
  OBVIOUS
<1>2. /\ DOMAIN s = 1..4
      /\ s[1] = a /\ s[2] = b /\ s[3] = c /\ s[4] = d
  OBVIOUS
<1> HIDE DEF s
<1>3. \A i \in DOMAIN s : s[i].code # "Ok"
  BY <1>2
<1>4. Passes(s) <=>
             ~a.fails /\ ~b.fails /\ ~c.fails /\ ~d.fails
  BY <1>2 DEF Passes
<1> QED
  BY <1>1, <1>3, <1>4 DEF Coded, s

(* The same for a list of five.                                             *)
LEMMA List5 ==
    ASSUME NEW a, NEW b, NEW c, NEW d, NEW e,
           a.code # "Ok", b.code # "Ok", c.code # "Ok", d.code # "Ok", e.code # "Ok"
    PROVE  /\ Coded(<<a, b, c, d, e>>)
           /\ Passes(<<a, b, c, d, e>>) <=>
             ~a.fails /\ ~b.fails /\ ~c.fails /\ ~d.fails /\ ~e.fails
<1> DEFINE s == <<a, b, c, d, e>>
<1>1. s \in Seq({a, b, c, d, e})
  OBVIOUS
<1>2. /\ DOMAIN s = 1..5
      /\ s[1] = a /\ s[2] = b /\ s[3] = c /\ s[4] = d /\ s[5] = e
  OBVIOUS
<1> HIDE DEF s
<1>3. \A i \in DOMAIN s : s[i].code # "Ok"
  BY <1>2
<1>4. Passes(s) <=>
             ~a.fails /\ ~b.fails /\ ~c.fails /\ ~d.fails /\ ~e.fails
  BY <1>2 DEF Passes
<1> QED
  BY <1>1, <1>3, <1>4 DEF Coded, s

(* The same for a list of eight.                                            *)
LEMMA List8 ==
    ASSUME NEW a, NEW b, NEW c, NEW d, NEW e, NEW f, NEW g, NEW h,
           a.code # "Ok", b.code # "Ok", c.code # "Ok", d.code # "Ok",
           e.code # "Ok", f.code # "Ok", g.code # "Ok", h.code # "Ok"
    PROVE  /\ Coded(<<a, b, c, d, e, f, g, h>>)
           /\ Passes(<<a, b, c, d, e, f, g, h>>) <=>
             ~a.fails /\ ~b.fails /\ ~c.fails /\ ~d.fails
             /\ ~e.fails /\ ~f.fails /\ ~g.fails /\ ~h.fails
<1> DEFINE s == <<a, b, c, d, e, f, g, h>>
<1>1. s \in Seq({a, b, c, d, e, f, g, h})
  OBVIOUS
<1>2. /\ DOMAIN s = 1..8
      /\ s[1] = a /\ s[2] = b /\ s[3] = c /\ s[4] = d
      /\ s[5] = e /\ s[6] = f /\ s[7] = g /\ s[8] = h
  OBVIOUS
<1> HIDE DEF s
<1>3. \A i \in DOMAIN s : s[i].code # "Ok"
  BY <1>2
<1>4. Passes(s) <=>
             ~a.fails /\ ~b.fails /\ ~c.fails /\ ~d.fails
             /\ ~e.fails /\ ~f.fails /\ ~g.fails /\ ~h.fails
  BY <1>2 DEF Passes
<1> QED
  BY <1>1, <1>3, <1>4 DEF Coded, s

----------------------------------------------------------------------------
(* Topics.                                                                  *)

(* Three segments put before others.                                        *)
LEMMA Prefixed ==
    ASSUME NEW S, NEW a \in S, NEW b \in S, NEW c \in S, NEW s \in Seq(S)
    PROVE  /\ Len(<<a, b, c>> \o s) = Len(s) + 3
           /\ (<<a, b, c>> \o s)[1] = a
           /\ (<<a, b, c>> \o s)[2] = b
           /\ (<<a, b, c>> \o s)[3] = c
           /\ \A i \in 1..Len(s) : (<<a, b, c>> \o s)[i + 3] = s[i]
<1> DEFINE head == <<a, b, c>>
           all  == head \o s
<1>1. head \in Seq(S) /\ Len(s) \in Nat
  OBVIOUS
<1>2. Len(head) = 3 /\ head[1] = a /\ head[2] = b /\ head[3] = c
  OBVIOUS
<1> HIDE DEF head
<1>3. /\ Len(all) = Len(head) + Len(s)
      /\ \A i \in 1..Len(head) : all[i] = head[i]
      /\ \A i \in 1..Len(s) : all[i + Len(head)] = s[i]
  BY <1>1
<1> HIDE DEF all
<1>4. Len(all) = Len(s) + 3
  BY <1>1, <1>2, <1>3
<1>5. all[1] = a /\ all[2] = b /\ all[3] = c
  BY <1>2, <1>3
<1>6. \A i \in 1..Len(s) : all[i + 3] = s[i]
  BY <1>2, <1>3
<1> QED
  BY <1>4, <1>5, <1>6 DEF head, all

(* normalized_topic rewrites region and key and keeps the subtopic, so it   *)
(* keeps what the policy reads from it (topics.rs).                         *)
LEMMA NormalizedKeepsSubtopic ==
    ASSUME NEW t \in Seq(STRING), Len(t) >= 4
    PROVE  /\ NormalizedTopic(t)[1] = "meshcore"
           /\ NormalizedTopic(t)[2] = Iata(t)
           /\ NormalizedTopic(t)[3] = TopicKey(t)
           /\ NormalizedTopic(t)[4] = t[4]
           /\ Len(NormalizedTopic(t)) = Len(t)
           /\ LowerSubtopic(NormalizedTopic(t)) = LowerSubtopic(t)
           /\ Range(NormalizedTopic(t)) \subseteq Range(t) \cup {"meshcore", Iata(t), TopicKey(t)}
<1> DEFINE S   == STRING \cup {"meshcore", Iata(t), TopicKey(t)}
           sub == SubSeq(t, 4, Len(t))
           n   == NormalizedTopic(t)
<1>1. "meshcore" \in S /\ Iata(t) \in S /\ TopicKey(t) \in S
  OBVIOUS
<1>2. Len(t) \in Nat /\ sub \in Seq(STRING) /\ Len(sub) = Len(t) - 3
      /\ \A i \in 1..(Len(t) - 3) : sub[i] = t[i + 3]
  OBVIOUS
<1>3. sub \in Seq(S)
  BY <1>2
<1>4. n = <<"meshcore", Iata(t), TopicKey(t)>> \o sub
  BY DEF NormalizedTopic, Subtopic
<1> HIDE DEF sub, S, n
<1>5. /\ Len(n) = Len(sub) + 3
      /\ n[1] = "meshcore" /\ n[2] = Iata(t) /\ n[3] = TopicKey(t)
      /\ \A i \in 1..Len(sub) : n[i + 3] = sub[i]
  BY <1>1, <1>3, <1>4, Prefixed
<1>6. Len(n) = Len(t) /\ \A i \in 1..(Len(t) - 3) : n[i + 3] = t[i + 3]
  BY <1>2, <1>5
<1>7. n[4] = t[4]
  <2>1. 1 \in 1..(Len(t) - 3)
    BY <1>2
  <2>2. n[1 + 3] = t[1 + 3]
    BY <1>6, <2>1
  <2> QED
    BY <2>2
<1>8. LowerSubtopic(n) = LowerSubtopic(t)
  BY <1>6 DEF LowerSubtopic
<1>9. Range(n) \subseteq Range(t) \cup {"meshcore", Iata(t), TopicKey(t)}
  <2>1. DOMAIN t = 1..Len(t) /\ DOMAIN n = 1..Len(t)
    BY <1>1, <1>2, <1>3, <1>4, <1>6 DEF sub, S
  <2>2. ASSUME NEW i \in 1..Len(t)
        PROVE  n[i] \in Range(t) \cup {"meshcore", Iata(t), TopicKey(t)}
    <3>1. CASE i <= 3
      BY <1>5, <3>1
    <3>2. CASE i > 3
      <4>1. i - 3 \in 1..(Len(t) - 3) /\ (i - 3) + 3 = i
        BY <1>2, <3>2
      <4>2. n[(i - 3) + 3] = t[(i - 3) + 3]
        BY <1>6, <4>1
      <4>3. n[i] = t[i]
        BY <4>1, <4>2
      <4> QED
        BY <2>1, <4>3 DEF Range
    <3> QED
      BY <1>2, <3>1, <3>2
  <2> QED
    BY <2>1, <2>2 DEF Range
<1> QED
  BY <1>5, <1>6, <1>7, <1>8, <1>9 DEF n

(* The subtopic of a topic of four or more segments.                        *)
LEMMA SubtopicHead ==
    ASSUME NEW t, Len(t) \in Nat, Len(t) >= 4
    PROVE  /\ LowerSubtopic(t)[1] = Lowercased(t[4])
           /\ DOMAIN LowerSubtopic(t) = 1..(Len(t) - 3)
BY DEF LowerSubtopic

----------------------------------------------------------------------------
(* What a sender's checks leave.                                            *)

\* What is true of a message that a client or the broker may send.
ObserverSpeaks(c, topic, payload) ==
    /\ Len(topic) \in Nat /\ Len(topic) >= 4 /\ topic[1] = "meshcore"
    /\ Parses(topic)
    /\ topic[2] \in allowed_iata \cup {"test"}
    /\ topic[3] = PrincipalOf[c].key
    /\ LowerSubtopic(topic)[1] \notin {"error", "internal"}
    /\ LowerSubtopic(topic)[1] = "serial" => LowerSubtopic(topic) = <<"serial", "responses">>
    /\ payload.origin \in {PrincipalOf[c].key, "missing"}

AdminSpeaks(topic) ==
    /\ Len(topic) \in Nat /\ Len(topic) >= 4 /\ topic[1] = "meshcore"
    /\ LowerSubtopic(topic) = <<"serial", "commands">>

BrokerSpeaks(topic) ==
    \/ topic = <<"heartbeat", "">>
    \/ \E iata, key : key \in PublicKeys /\ topic = <<"meshcore", iata, key, "error">>

Speaks(from, topic, payload) ==
    \/ from \in Clients /\ PrincipalOf[from].kind = "observer"
         /\ ObserverSpeaks(from, topic, payload)
    \/ from \in Clients /\ PrincipalOf[from].kind = "admin" /\ AdminSpeaks(topic)
    \/ from = "broker" /\ BrokerSpeaks(topic)

(* The region checks (publish.rs).                                          *)
LEMMA IataChecksPass ==
    ASSUME NEW iata
    PROVE  /\ Coded(IataChecks(iata))
           /\ Passes(IataChecks(iata)) => iata \in allowed_iata \cup {"test"}
<1> DEFINE a == Check(iata = "XXX", "PublishPlaceholderIata", TRUE)
           b == Check(iata = "test" /\ ~allow_test_ingress, "PublishTestIngressDisabled",
                      FALSE)
           c == Check(iata # "test" /\ iata \notin WellFormedIata,
                      "PublishInvalidIataFormat", TRUE)
           d == Check(iata # "test" /\ iata \in secondary_iata, "PublishSecondaryIata",
                      FALSE)
           e == Check(iata # "test" /\ iata \notin allowed_iata, "PublishUnknownIata",
                      FALSE)
<1>1. a.code # "Ok" /\ b.code # "Ok" /\ c.code # "Ok" /\ d.code # "Ok" /\ e.code # "Ok"
  BY DEF Check
<1>2. ~e.fails => iata \in allowed_iata \cup {"test"}
  BY DEF Check
<1>3. IataChecks(iata) = <<a, b, c, d, e>>
  BY DEF IataChecks
<1> HIDE DEF a, b, c, d, e
<1> QED
  BY <1>1, <1>2, <1>3, List5

(* The key and ownership checks (publish.rs lines 113-128).                 *)
LEMMA SenderChecksPass ==
    ASSUME NEW topic, NEW key, NEW owns
    PROVE  /\ Coded(SenderChecks(topic, key, owns))
           /\ Passes(SenderChecks(topic, key, owns)) => TopicKey(topic) = key /\ owns
<1> DEFINE a == Check(TopicKey(topic) # key, "PublishKeyMismatch", TRUE)
           b == Check(~owns, "PublishStaleConnection", TRUE)
<1>1. a.code # "Ok" /\ b.code # "Ok"
  BY DEF Check
<1>2. ~a.fails => TopicKey(topic) = key
  BY DEF Check
<1>3. ~b.fails => owns
  BY DEF Check
<1>4. SenderChecks(topic, key, owns) = <<a, b>>
  BY DEF SenderChecks
<1> HIDE DEF a, b
<1> QED
  BY <1>1, <1>2, <1>3, <1>4, List2

(* The reserved subtopics (publish.rs).                                     *)
LEMMA ReservedChecksPass ==
    ASSUME NEW sub
    PROVE  /\ Coded(ReservedChecks(sub))
           /\ Passes(ReservedChecks(sub)) =>
                  /\ sub[1] \notin {"error", "internal"}
                  /\ sub[1] = "serial" => sub = <<"serial", "responses">>
<1> DEFINE a == Check(sub[1] = "error", "PublishReservedSubtopic", FALSE)
           b == Check(sub[1] = "internal", "PublishReservedSubtopic", FALSE)
           c == Check(sub[1] = "serial" /\ sub # <<"serial", "responses">>,
                      "PublishReservedSubtopic", FALSE)
           d == Check(sub[1] = "raw", "PublishReservedSubtopic", FALSE)
<1>1. a.code # "Ok" /\ b.code # "Ok" /\ c.code # "Ok" /\ d.code # "Ok"
  BY DEF Check
<1>2. ~a.fails => sub[1] # "error"
  BY DEF Check
<1>3. ~b.fails => sub[1] # "internal"
  BY DEF Check
<1>4. ~c.fails => (sub[1] = "serial" => sub = <<"serial", "responses">>)
  BY DEF Check
<1>5. ReservedChecks(sub) = <<a, b, c, d>>
  BY DEF ReservedChecks
<1> HIDE DEF a, b, c, d
<1>6. Coded(<<a, b, c, d>>) /\ (Passes(<<a, b, c, d>>) => ~a.fails /\ ~b.fails /\ ~c.fails)
  BY <1>1, List4
<1> QED
  BY <1>2, <1>3, <1>4, <1>5, <1>6

(* The payload checks: a serial response is a token or empty, anything else *)
(* an object that names its sender, or empty (publish.rs lines 300-344).    *)
LEMMA PayloadChecksPass ==
    ASSUME NEW payload \in Payloads, NEW key, NEW retain, NEW sub
    PROVE  /\ Coded(SerialResponseChecks(payload, retain))
           /\ Passes(SerialResponseChecks(payload, retain)) => payload.origin = "missing"
           /\ Coded(<<Check(payload.size > JsonLimit(sub), "PublishPayloadTooLarge", FALSE)>>
                    \o OriginChecks(payload, key, retain))
           /\ Passes(<<Check(payload.size > JsonLimit(sub), "PublishPayloadTooLarge", FALSE)>>
                     \o OriginChecks(payload, key, retain))
                  => payload.origin \in {key, "missing"}
<1>1. /\ ClearsRetained(payload, retain) => payload.origin = "missing"
      /\ payload.form = "jwt" => payload.origin = "missing"
  BY RoutingAssumption DEF ClearsRetained
<1>2. /\ Coded(SerialResponseChecks(payload, retain))
      /\ Passes(SerialResponseChecks(payload, retain)) => payload.origin = "missing"
  <2> DEFINE a == Check(payload.size > SERIAL_MAX_BYTES, "PublishPayloadTooLarge", FALSE)
             b == Check(~ClearsRetained(payload, retain) /\ payload.form # "jwt",
                        "PublishSerialResponseInvalid", FALSE)
  <2>1. a.code # "Ok" /\ b.code # "Ok"
    BY DEF Check
  <2>2. ~b.fails => ClearsRetained(payload, retain) \/ payload.form = "jwt"
    BY DEF Check
  <2>3. SerialResponseChecks(payload, retain) = <<a, b>>
    BY DEF SerialResponseChecks
  <2> HIDE DEF a, b
  <2> QED
    BY <1>1, <2>1, <2>2, <2>3, List2
<1>3. Coded(<<Check(payload.size > JsonLimit(sub), "PublishPayloadTooLarge", FALSE)>>)
  <2> DEFINE a == Check(payload.size > JsonLimit(sub), "PublishPayloadTooLarge", FALSE)
  <2>1. a.code # "Ok"
    BY DEF Check
  <2> HIDE DEF a
  <2>2. Coded(<<a>>)
    BY <2>1, List1
  <2> QED
    BY <2>2 DEF a
<1>4. /\ Coded(OriginChecks(payload, key, retain))
      /\ Passes(OriginChecks(payload, key, retain)) => payload.origin \in {key, "missing"}
  <2>1. CASE ClearsRetained(payload, retain)
    BY <1>1, <2>1, NoChecks DEF OriginChecks
  <2>2. CASE ~ClearsRetained(payload, retain)
    <3> DEFINE a == Check(payload.form # "object", "PublishInvalidJson", FALSE)
               b == Check(payload.origin = "missing", "PublishOriginMissing", FALSE)
               c == Check(payload.origin # key, "PublishOriginMismatch", FALSE)
    <3>1. a.code # "Ok" /\ b.code # "Ok" /\ c.code # "Ok"
      BY DEF Check
    <3>2. ~c.fails => payload.origin = key
      BY DEF Check
    <3>3. OriginChecks(payload, key, retain) = <<a, b, c>>
      BY <2>2 DEF OriginChecks
    <3> HIDE DEF a, b, c
    <3> QED
      BY <3>1, <3>2, <3>3, List3
  <2> QED
    BY <2>1, <2>2
<1> QED
  BY <1>2, <1>3, <1>4, PassesBoth

(* An observer that may publish owns its key and speaks for it.             *)
LEMMA ObserverMayPublish ==
    ASSUME NEW c \in Clients, PrincipalOf[c].kind = "observer",
           NEW t \in Topics, NEW payload \in Payloads, NEW retain \in BOOLEAN,
           Allowed(ObserverPublish(PrincipalOf[c].key, IsOwner(c), t, payload, retain))
    PROVE  ObserverSpeaks(c, NormalizedTopic(t), payload) /\ IsOwner(c)
<1> DEFINE key    == PrincipalOf[c].key
           sub    == LowerSubtopic(t)
           region == IataChecks(Iata(t))
           sender == SenderChecks(t, key, IsOwner(c))
           subs   == ReservedChecks(sub)
           serial == SerialResponseChecks(payload, retain)
           json   == << Check(payload.size > JsonLimit(sub), "PublishPayloadTooLarge", FALSE) >>
                         \o OriginChecks(payload, key, retain)
           body   == IF sub = <<"serial", "responses">> THEN serial ELSE json
<1>1. /\ ~(t[1] # "meshcore" \/ Len(t) = 1) /\ Parses(t)
      /\ Allowed(FirstFailing(region \o sender \o subs \o body))
  <2>1. t[1] # "meshcore" \/ Len(t) = 1 => ~Allowed(ObserverPublish(key, IsOwner(c), t, payload, retain))
    BY DEF ObserverPublish, Allowed
  <2>2. ~(t[1] # "meshcore" \/ Len(t) = 1) /\ ~Parses(t)
            => ~Allowed(ObserverPublish(key, IsOwner(c), t, payload, retain))
    BY DEF ObserverPublish, Allowed
  <2> QED
    BY <2>1, <2>2 DEF ObserverPublish
<1>2. Coded(region) /\ (Passes(region) => Iata(t) \in allowed_iata \cup {"test"})
  BY IataChecksPass
<1>3. Coded(sender) /\ (Passes(sender) => TopicKey(t) = key /\ IsOwner(c))
  BY SenderChecksPass
<1>4. /\ Coded(subs)
      /\ Passes(subs) => /\ sub[1] \notin {"error", "internal"}
                         /\ sub[1] = "serial" => sub = <<"serial", "responses">>
  BY ReservedChecksPass
<1>5. Coded(body) /\ (Passes(body) => payload.origin \in {key, "missing"})
  <2>1. /\ Coded(serial) /\ (Passes(serial) => payload.origin = "missing")
        /\ Coded(json) /\ (Passes(json) => payload.origin \in {key, "missing"})
    BY PayloadChecksPass
  <2> HIDE DEF serial, json
  <2> QED
    BY <2>1
<1> HIDE DEF region, sender, subs, body, key, sub
<1>6. Passes(region) /\ Passes(sender) /\ Passes(subs) /\ Passes(body)
  <2>1. Coded(region \o sender)
        /\ (Passes(region \o sender) => Passes(region) /\ Passes(sender))
    BY <1>2, <1>3, PassesBoth
  <2> DEFINE two == region \o sender
  <2> HIDE DEF two
  <2>2. Coded(two \o subs) /\ (Passes(two \o subs) => Passes(two) /\ Passes(subs))
    BY <1>4, <2>1, PassesBoth DEF two
  <2> DEFINE three == two \o subs
  <2> HIDE DEF three
  <2>3. Coded(three \o body) /\ (Passes(three \o body) => Passes(three) /\ Passes(body))
    BY <1>5, <2>2, PassesBoth DEF three
  <2>4. Passes(three \o body)
    BY <1>1, <2>3, AllowedIffAllPass DEF three, two
  <2> QED
    BY <2>1, <2>2, <2>3, <2>4 DEF three, two
<1>7. t \in Seq(STRING) /\ Len(t) >= 4 /\ Len(t) \in Nat
  BY <1>1, RoutingAssumption DEF Parses
<1>8. /\ NormalizedTopic(t)[1] = "meshcore" /\ NormalizedTopic(t)[2] = Iata(t)
      /\ NormalizedTopic(t)[3] = TopicKey(t) /\ Len(NormalizedTopic(t)) = Len(t)
      /\ LowerSubtopic(NormalizedTopic(t)) = sub
  BY <1>7, NormalizedKeepsSubtopic DEF sub
<1>9. Parses(NormalizedTopic(t))
  <2>1. Range(t) \cap (Blank \cup Wildcards) = {} /\ TopicKey(t) \in PublicKeys
    BY <1>1 DEF Parses, TopicKey
  <2>2. Range(NormalizedTopic(t)) \subseteq Range(t) \cup {"meshcore", Iata(t), TopicKey(t)}
    BY <1>7, NormalizedKeepsSubtopic
  <2>3. {"meshcore", "test"} \cap (Blank \cup Wildcards) = {}
    BY DEF Blank, Wildcards
  <2>4. {"meshcore", Iata(t), TopicKey(t)} \cap (Blank \cup Wildcards) = {}
    BY <1>2, <1>6, <2>1, <2>3, PolicyAssumption
  <2>5. Range(NormalizedTopic(t)) \cap (Blank \cup Wildcards) = {}
    BY <2>1, <2>2, <2>4
  <2>6. Uppercased(NormalizedTopic(t)[3]) \in PublicKeys
    BY <1>8, <2>1, PolicyAssumption
  <2> QED
    BY <1>7, <1>8, <2>5, <2>6 DEF Parses
<1> QED
  BY <1>2, <1>3, <1>4, <1>5, <1>6, <1>7, <1>8, <1>9 DEF ObserverSpeaks, key

(* An admin may publish serial commands only.                               *)
LEMMA AdminMayPublish ==
    ASSUME NEW t \in Topics, NEW payload, Allowed(AdminPublish(t, payload))
    PROVE  AdminSpeaks(NormalizedTopic(t))
<1> DEFINE a == Check(LowerSubtopic(t) # <<"serial", "commands">>, "PublishBadTopicShape", FALSE)
           b == Check(Iata(t) \notin allowed_iata, "PublishBadTopicShape", FALSE)
           c == Check(payload.size > SERIAL_MAX_BYTES, "PublishPayloadTooLarge", FALSE)
<1>1. Parses(t) /\ Allowed(FirstFailing(<<a, b, c>>))
  <2>1. ~Parses(t) => ~Allowed(AdminPublish(t, payload))
    BY DEF AdminPublish, Allowed
  <2> QED
    BY <2>1 DEF AdminPublish
<1>2. a.code # "Ok" /\ b.code # "Ok" /\ c.code # "Ok"
  BY DEF Check
<1>3. ~a.fails => LowerSubtopic(t) = <<"serial", "commands">>
  BY DEF Check
<1> HIDE DEF a, b, c
<1>4. ~a.fails
  BY <1>1, <1>2, List3, AllowedIffAllPass
<1>5. t \in Seq(STRING) /\ Len(t) >= 4 /\ Len(t) \in Nat
  BY <1>1, RoutingAssumption DEF Parses
<1> QED
  BY <1>3, <1>4, <1>5, NormalizedKeepsSubtopic DEF AdminSpeaks

(* Whatever authorize_publish lets through was said by someone who may say  *)
(* it, an observer as the owner of its key; full and limited subscribers    *)
(* may say nothing.                                                         *)
LEMMA PublishedSpeaks ==
    ASSUME NEW c \in Clients, NEW t \in Topics, NEW payload \in Payloads,
           NEW retain \in BOOLEAN,
           Allowed(AuthorizePublish(PrincipalOf[c], IsOwner(c), t, payload, retain))
    PROVE  Speaks(c, NormalizedTopic(t), payload) /\ IsOwner(c)
<1>1. PrincipalOf[c].kind \in {"observer", "admin", "full", "limited"}
  BY RoutingAssumption
<1>2. CASE PrincipalOf[c].kind = "observer"
  <2>1. AuthorizePublish(PrincipalOf[c], IsOwner(c), t, payload, retain)
            = ObserverPublish(PrincipalOf[c].key, IsOwner(c), t, payload, retain)
    BY <1>2 DEF AuthorizePublish
  <2> QED
    BY <1>2, <2>1, ObserverMayPublish DEF Speaks
<1>3. CASE PrincipalOf[c].kind = "admin"
  <2>1. AuthorizePublish(PrincipalOf[c], IsOwner(c), t, payload, retain)
            = AdminPublish(t, payload)
    BY <1>3 DEF AuthorizePublish
  <2> QED
    BY <1>3, <2>1, AdminMayPublish DEF Speaks, IsOwner
<1>4. CASE PrincipalOf[c].kind \in {"full", "limited"}
  <2>1. AuthorizePublish(PrincipalOf[c], IsOwner(c), t, payload, retain).code
            = "PublishReservedSubtopic"
    BY <1>4 DEF AuthorizePublish
  <2> QED
    BY <2>1 DEF Allowed
<1> QED
  BY <1>1, <1>2, <1>3, <1>4

----------------------------------------------------------------------------
(* What a subscriber may ask for.                                           *)

\* The filter without its last segment if that is a wildcard (subscribe.rs).
Stripped(filter) == IF Last(filter) \in Wildcards THEN Front(filter) ELSE filter

(* An observer that may subscribe owns its key and asks for its own errors  *)
(* or serial commands, without a wildcard before the end (subscribe.rs      *)
(* lines 37-94).                                                            *)
LEMMA ObserverMaySubscribe ==
    ASSUME NEW key, NEW owns, NEW filter, Allowed(ObserverSubscribe(key, owns, filter))
    PROVE  /\ owns
           /\ Parses(Stripped(filter))
           /\ \/ LowerSubtopic(Stripped(filter))[1] = "error"
              \/ LowerSubtopic(Stripped(filter)) = <<"serial", "commands">>
<1> DEFINE stripped == Stripped(filter)
           sub      == LowerSubtopic(stripped)
           usable   == \/ Iata(stripped) = "test" /\ allow_test_ingress
                       \/ Iata(stripped) \in allowed_iata
           a == Check(TopicKey(stripped) # key, "PublishReservedSubtopic", TRUE)
           b == Check(sub[1] # "error" /\ sub # <<"serial", "commands">>,
                      "PublishReservedSubtopic", TRUE)
           c == Check(sub[1] # "error" /\ ~usable, "PublishUnknownIata", FALSE)
<1>1. ObserverSubscribe(key, owns, filter) =
          IF ~owns THEN [code |-> "PublishStaleConnection", close |-> FALSE]
          ELSE IF ~Parses(stripped) THEN [code |-> "PublishReservedSubtopic", close |-> TRUE]
          ELSE FirstFailing(<<a, b, c>>)
  BY DEF ObserverSubscribe, Stripped
<1>2. a.code # "Ok" /\ b.code # "Ok" /\ c.code # "Ok"
  BY DEF Check
<1>3. ~b.fails => sub[1] = "error" \/ sub = <<"serial", "commands">>
  BY DEF Check
<1> HIDE DEF a, b, c, stripped
<1>4. owns /\ Parses(stripped)
  BY <1>1 DEF Allowed
<1>5. Allowed(FirstFailing(<<a, b, c>>))
  BY <1>1, <1>4
<1>6. ~b.fails
  BY <1>2, <1>5, List3, AllowedIffAllPass
<1> QED
  BY <1>3, <1>4, <1>6 DEF stripped

(* A topic matched by such a filter begins with the stripped filter.        *)
LEMMA MatchedBegins ==
    ASSUME NEW filter \in Filters, Parses(Stripped(filter)),
           NEW topic, Len(topic) \in Nat, Matches(filter, topic)
    PROVE  /\ Len(Stripped(filter)) \in Nat
           /\ Len(topic) >= Len(Stripped(filter))
           /\ \A i \in 1..Len(Stripped(filter)) : Stripped(filter)[i] = topic[i]
<1>1. filter \in Seq(STRING) /\ Len(filter) \in Nat /\ Len(filter) >= 1
  BY RoutingAssumption
<1>2. ASSUME NEW s \in Seq(STRING), Parses(s), NEW i \in 1..Len(s)
      PROVE  s[i] \notin Wildcards
  BY <1>2 DEF Parses, Range
<1>3. CASE Last(filter) \in Wildcards
  <2>1. Stripped(filter) = SubSeq(filter, 1, Len(filter) - 1)
    BY <1>3 DEF Stripped, Front
  <2>2. /\ Stripped(filter) \in Seq(STRING)
        /\ Len(Stripped(filter)) = Len(filter) - 1
        /\ \A i \in 1..(Len(filter) - 1) : Stripped(filter)[i] = filter[i]
    <3> DEFINE k == Len(filter) - 1
    <3>1. k \in Nat /\ k <= Len(filter)
      BY <1>1
    <3>2. Stripped(filter) = SubSeq(filter, 1, k)
      BY <2>1
    <3> HIDE DEF k
    <3>3. /\ SubSeq(filter, 1, k) \in Seq(STRING)
          /\ Len(SubSeq(filter, 1, k)) = k
          /\ \A i \in 1..k : SubSeq(filter, 1, k)[i] = filter[i]
      BY <1>1, <3>1
    <3> QED
      BY <3>2, <3>3 DEF k
  <2>3. \A i \in 1..(Len(filter) - 1) : filter[i] # "+"
    BY <1>2, <2>2 DEF Wildcards
  <2>4. Len(topic) >= Len(filter) - 1
    BY <1>1 DEF Matches
  <2>5. \A i \in 1..(Len(filter) - 1) : filter[i] \in {"+", topic[i]}
    <3>1. DOMAIN filter = 1..Len(filter)
      BY <1>1
    <3> QED
      BY <1>1, <3>1 DEF Matches
  <2> QED
    BY <1>1, <2>2, <2>3, <2>4, <2>5
<1>4. CASE Last(filter) \notin Wildcards
  <2>1. Stripped(filter) = filter
    BY <1>4 DEF Stripped
  <2>2. Last(filter) # "#"
    BY <1>4 DEF Wildcards
  <2>3. Len(filter) = Len(topic) /\ \A i \in 1..Len(filter) : filter[i] \in {"+", topic[i]}
    <3>1. DOMAIN filter = 1..Len(filter)
      BY <1>1
    <3> QED
      BY <2>2, <3>1 DEF Matches
  <2>4. \A i \in 1..Len(filter) : filter[i] # "+"
    BY <1>1, <1>2, <2>1 DEF Wildcards
  <2> QED
    BY <1>1, <2>1, <2>3, <2>4
<1> QED
  BY <1>3, <1>4

(* Nothing an observer may publish matches what an observer may ask for:    *)
(* the error topic is reserved, and serial commands are an admin's.         *)
LEMMA ObserverFetchesCommands ==
    ASSUME NEW c \in Clients, PrincipalOf[c].kind = "observer", NEW filter \in Filters,
           Allowed(AuthorizeSubscribe(PrincipalOf[c], IsOwner(c), filter)),
           NEW from \in Clients, NEW topic, NEW payload, Speaks(from, topic, payload),
           Matches(filter, topic)
    PROVE  IsOwner(c) /\ PrincipalOf[from].kind = "admin"
<1> DEFINE s == Stripped(filter)
<1>1. Allowed(ObserverSubscribe(PrincipalOf[c].key, IsOwner(c), filter))
  BY DEF AuthorizeSubscribe
<1>2. /\ IsOwner(c) /\ Parses(s)
      /\ LowerSubtopic(s)[1] = "error" \/ LowerSubtopic(s) = <<"serial", "commands">>
  BY <1>1, ObserverMaySubscribe
<1>3. from # "broker"
  BY RoutingAssumption
<1>4. Len(topic) \in Nat /\ Len(topic) >= 4
  BY <1>3 DEF Speaks, ObserverSpeaks, AdminSpeaks
<1>5. /\ Len(s) \in Nat /\ Len(topic) >= Len(s) /\ Len(s) >= 4
      /\ \A i \in 1..Len(s) : s[i] = topic[i]
  BY <1>2, <1>4, MatchedBegins DEF Parses
<1> HIDE DEF s
<1>6. /\ DOMAIN LowerSubtopic(s) = 1..(Len(s) - 3)
      /\ LowerSubtopic(s)[1] = Lowercased(s[4])
      /\ LowerSubtopic(topic)[1] = Lowercased(topic[4])
  BY <1>4, <1>5, SubtopicHead
<1>7. LowerSubtopic(topic)[1] = LowerSubtopic(s)[1]
  <2>1. 4 \in 1..Len(s)
    BY <1>5
  <2> QED
    BY <1>5, <1>6, <2>1
<1>8. ASSUME PrincipalOf[from].kind = "observer", ObserverSpeaks(from, topic, payload)
      PROVE  FALSE
  <2>1. LowerSubtopic(topic)[1] # "error"
    BY <1>8 DEF ObserverSpeaks
  <2>2. LowerSubtopic(s) = <<"serial", "commands">>
    BY <1>2, <1>7, <2>1
  <2>3. LowerSubtopic(topic)[1] = "serial"
    BY <1>7, <2>2
  <2>4. LowerSubtopic(topic) = <<"serial", "responses">>
    BY <1>8, <2>3 DEF ObserverSpeaks
  <2>5. Len(s) = 5
    <3>1. DOMAIN <<"serial", "commands">> = 1..2
      OBVIOUS
    <3>2. 1..(Len(s) - 3) = 1..2
      BY <1>6, <2>2, <3>1
    <3>3. 2 \in 1..2 /\ 3 \notin 1..2
      OBVIOUS
    <3>4. 2 \in 1..(Len(s) - 3) /\ 3 \notin 1..(Len(s) - 3)
      BY <3>2, <3>3
    <3> DEFINE length == Len(s)
    <3>5. length \in Nat /\ 2 \in 1..(length - 3) /\ 3 \notin 1..(length - 3)
      BY <1>5, <3>4
    <3> HIDE DEF length
    <3>6. length = 5
      BY <3>5
    <3> QED
      BY <3>6 DEF length
  <2>6. /\ LowerSubtopic(s)[2] = Lowercased(s[5])
        /\ LowerSubtopic(topic)[2] = Lowercased(topic[5])
    <3>1. 2 \in 1..(Len(s) - 3) /\ 2 \in 1..(Len(topic) - 3)
      BY <1>4, <1>5, <2>5
    <3> QED
      BY <3>1 DEF LowerSubtopic
  <2>7. s[5] = topic[5]
    BY <1>5, <2>5
  <2>8. <<"serial", "commands">>[2] = "commands" /\ <<"serial", "responses">>[2] = "responses"
    OBVIOUS
  <2> QED
    BY <2>2, <2>4, <2>6, <2>7, <2>8
<1> QED
  BY <1>2, <1>3, <1>8 DEF Speaks

----------------------------------------------------------------------------
(* What reaches a client: the sender's half and the receiver's together.    *)

\* What the projection leaves of a message on a topic of four segments.
Projected(topic, seen) ==
    LET sub == Lowercased(topic[4]) IN
    /\ sub = "packets" => \A k \in seen.fields : Lowercased(k) \notin RadioFields
    /\ sub = "neighbors" /\ seen.listed =>
           \A k \in seen.items : Lowercased(k) \notin RadioFields
    /\ sub = "status" => seen.fields \cap DeviceFields = {}

\* The four properties, of one message.
RightlyHeard(d) ==
    /\ Kind(d.to) = "observer" =>
           Kind(d.from) \in (IF IsOwner(d.to) THEN {"broker", "admin"} ELSE {"broker"})
    /\ Kind(d.to) \in {"full", "limited"} /\ Len(d.topic) >= 4 =>
           /\ Lowercased(d.topic[4]) \notin {"internal", "error"}
           /\ Lowercased(d.topic[4]) = "serial" => d.replayed
    /\ Kind(d.to) = "limited" /\ Len(d.topic) = 4 => Projected(d.topic, d.payload)
    /\ Kind(d.from) = "observer" =>
           /\ d.topic[3] = PrincipalOf[d.from].key
           /\ d.replayed \/ owner[d.topic[3]] = d.from
           /\ d.topic[2] \in allowed_iata \cup {"test"}
           /\ d.payload.origin \in {d.topic[3], "missing"}

Heard ==
    /\ ObserverHearsOnlyBrokerAndAdmin
    /\ PrivateTrafficOnlyByReplay
    /\ LimitedSeesNoRestrictedFields
    /\ SenderSpeaksForItself

\* A retained message was said by a client that might say it.
RetainedSpeaks ==
    \A m \in retained :
        m.from \in Clients /\ m.payload \in Payloads /\ Speaks(m.from, m.topic, m.payload)

RoutingInv ==
    /\ DOMAIN owner = PublicKeys
    /\ relations \subseteq Clients \X Filters
    /\ RetainedSpeaks
    /\ Heard
    /\ LoginIsCurrent

(* The properties hold when each message on its way is rightly heard.       *)
LEMMA EachIsHeard ==
    ASSUME owner' = owner, \A d \in delivered' : RightlyHeard(d)
    PROVE  Heard'
<1>1. \A x : IsOwner(x)' = IsOwner(x)
  BY DEF IsOwner
<1>2. ObserverHearsOnlyBrokerAndAdmin'
  BY <1>1 DEF RightlyHeard, ObserverHearsOnlyBrokerAndAdmin
<1>3. PrivateTrafficOnlyByReplay'
  BY DEF RightlyHeard, PrivateTrafficOnlyByReplay
<1>4. LimitedSeesNoRestrictedFields'
  BY DEF RightlyHeard, Projected, LimitedSeesNoRestrictedFields
<1>5. SenderSpeaksForItself'
  BY DEF RightlyHeard, SenderSpeaksForItself
<1> QED
  BY <1>2, <1>3, <1>4, <1>5 DEF Heard

\* A payload as it is published: only an object has fields.
Plain(payload) ==
    /\ payload \in PayloadRecords
    /\ payload.form # "object" => payload.fields = {} /\ ~payload.listed

(* The projection takes what it should from a topic of four segments that   *)
(* parses, and leaves the origin alone (delivery.rs lines 48-95).           *)
LEMMA LimitedPayloadIsProjected ==
    ASSUME NEW topic, NEW payload, Plain(payload)
    PROVE  /\ FilterLimitedPayload(topic, payload).origin = payload.origin
           /\ Len(topic) = 4 /\ Parses(topic) =>
                  Projected(topic, FilterLimitedPayload(topic, payload))
<1> DEFINE sub    == LowerSubtopic(topic)
           status == [payload EXCEPT !.fields = @ \ DeviceFields]
           packet == [payload EXCEPT !.fields = WithoutRadio(@)]
           neighs == [payload EXCEPT !.items = WithoutRadio(@)]
           seen   == FilterLimitedPayload(topic, payload)
<1>1. /\ status.origin = payload.origin /\ status.fields = payload.fields \ DeviceFields
      /\ packet.origin = payload.origin /\ packet.fields = WithoutRadio(payload.fields)
      /\ neighs.origin = payload.origin /\ neighs.items = WithoutRadio(payload.items)
  BY DEF Plain, PayloadRecords
<1>2. seen = IF ~Parses(topic) \/ payload.form # "object" THEN payload
             ELSE CASE sub = <<"status">> -> status
                    [] sub = <<"packets">> -> packet
                    [] sub = <<"neighbors">> /\ payload.listed -> neighs
                    [] OTHER -> payload
  BY DEF FilterLimitedPayload
<1> HIDE DEF status, packet, neighs, seen, sub
<1>3. <<"status">>[1] = "status" /\ <<"packets">>[1] = "packets"
      /\ <<"neighbors">>[1] = "neighbors"
  OBVIOUS
<1>4. seen.origin = payload.origin
  <2>1. seen \in {payload, status, packet, neighs}
    BY <1>2
  <2> QED
    BY <1>1, <2>1
<1>5. ASSUME Len(topic) = 4, Parses(topic) PROVE Projected(topic, seen)
  <2>1. sub = <<Lowercased(topic[4])>>
    <3>1. sub = [i \in 1..1 |-> Lowercased(topic[i + 3])]
      BY <1>5 DEF LowerSubtopic, sub
    <3> QED
      BY <3>1
  <2>2. CASE payload.form # "object"
    BY <1>2, <2>2 DEF Plain, Projected
  <2>3. CASE payload.form = "object" /\ Lowercased(topic[4]) = "status"
    <3>1. seen = status
      BY <1>2, <1>3, <1>5, <2>1, <2>3
    <3> QED
      BY <1>1, <2>3, <3>1 DEF Projected
  <2>4. CASE payload.form = "object" /\ Lowercased(topic[4]) = "packets"
    <3>1. seen = packet
      BY <1>2, <1>3, <1>5, <2>1, <2>4
    <3> QED
      BY <1>1, <2>4, <3>1 DEF Projected, WithoutRadio
  <2>5. CASE payload.form = "object" /\ Lowercased(topic[4]) = "neighbors"
    <3>1. seen = IF payload.listed THEN neighs ELSE payload
      BY <1>2, <1>3, <1>5, <2>1, <2>5
    <3> QED
      BY <1>1, <2>5, <3>1 DEF Projected, WithoutRadio
  <2>6. CASE Lowercased(topic[4]) \notin {"status", "packets", "neighbors"}
    BY <2>6 DEF Projected
  <2> QED
    BY <2>2, <2>3, <2>4, <2>5, <2>6
<1> QED
  BY <1>4, <1>5 DEF seen

(* A message of a permitted sender is rightly heard by a client that hears  *)
(* it if an observer hears no observer and commands only as the owner, if   *)
(* full and limited subscribers hear neither notices nor, live, serial      *)
(* traffic, and if the sender of a live message owns its key.               *)
LEMMA SpokenIsHeard ==
    ASSUME NEW to \in Clients, NEW from, NEW topic, NEW payload, NEW replayed \in BOOLEAN,
           Speaks(from, topic, payload), Plain(payload),
           from \in Clients /\ ~replayed => IsOwner(from),
           PrincipalOf[to].kind = "observer" =>
               Kind(from) \in (IF IsOwner(to) THEN {"broker", "admin"} ELSE {"broker"}),
           PrincipalOf[to].kind \in {"full", "limited"} /\ Len(topic) >= 4 =>
               /\ from # "broker"
               /\ ~replayed => Lowercased(topic[4]) # "serial"
    PROVE  RightlyHeard([to |-> to, from |-> from, topic |-> topic,
                         payload |-> DeliveredPayload(to, topic, payload),
                         replayed |-> replayed])
<1> DEFINE seen == DeliveredPayload(to, topic, payload)
           d == [to |-> to, from |-> from, topic |-> topic, payload |-> seen,
                 replayed |-> replayed]
<1>1. /\ d.to = to /\ d.from = from /\ d.topic = topic /\ d.payload = seen
      /\ d.replayed = replayed
  OBVIOUS
<1> HIDE DEF d, seen
<1>2. /\ Kind(to) = PrincipalOf[to].kind
      /\ from \in Clients => Kind(from) = PrincipalOf[from].kind
      /\ from = "broker" => Kind(from) = "broker"
  BY RoutingAssumption DEF Kind
<1>3. seen.origin = payload.origin
  BY LimitedPayloadIsProjected DEF DeliveredPayload, seen
<1>4. ASSUME from # "broker"
      PROVE  \/ /\ Len(topic) \in Nat /\ Len(topic) >= 4
                /\ Lowercased(topic[4]) \notin {"internal", "error"} /\ Parses(topic)
             \/ Lowercased(topic[4]) = "serial"
  <2>1. CASE from \in Clients /\ ObserverSpeaks(from, topic, payload)
    BY <2>1, SubtopicHead DEF ObserverSpeaks
  <2>2. CASE from \in Clients /\ AdminSpeaks(topic)
    <3>1. LowerSubtopic(topic)[1] = "serial"
      BY <2>2 DEF AdminSpeaks
    <3> QED
      BY <2>2, <3>1, SubtopicHead DEF AdminSpeaks
  <2> QED
    BY <1>4, <2>1, <2>2 DEF Speaks
<1>5. ASSUME Kind(to) = "limited", Len(topic) = 4
      PROVE  Projected(topic, seen)
  <2>1. from # "broker"
    BY <1>2, <1>5
  <2>2. seen = FilterLimitedPayload(topic, payload)
    BY <1>2, <1>5 DEF DeliveredPayload, seen
  <2>3. CASE Parses(topic)
    BY <1>5, <2>2, <2>3, LimitedPayloadIsProjected
  <2>4. CASE Lowercased(topic[4]) = "serial"
    BY <2>4 DEF Projected
  <2> QED
    BY <1>4, <2>1, <2>3, <2>4
<1>6. ASSUME Kind(from) = "observer"
      PROVE  /\ topic[3] = PrincipalOf[from].key
             /\ replayed \/ owner[topic[3]] = from
             /\ topic[2] \in allowed_iata \cup {"test"}
             /\ payload.origin \in {topic[3], "missing"}
  <2>1. from \in Clients /\ PrincipalOf[from].kind = "observer"
        /\ ObserverSpeaks(from, topic, payload)
    BY <1>2, <1>6 DEF Speaks
  <2> QED
    BY <2>1 DEF ObserverSpeaks, IsOwner
<1>7. Kind(to) \in {"full", "limited"} /\ Len(topic) >= 4 =>
          /\ Lowercased(topic[4]) \notin {"internal", "error"}
          /\ Lowercased(topic[4]) = "serial" => replayed
  BY <1>2, <1>4
<1>8. RightlyHeard(d)
  BY <1>1, <1>2, <1>3, <1>5, <1>6, <1>7 DEF RightlyHeard
<1> QED
  BY <1>8 DEF d, seen

(* RoleRouter lets no message of a permitted sender reach anyone who should *)
(* not hear it (router.rs, delivery.rs).                                    *)
LEMMA RoutedIsHeard ==
    ASSUME relations \subseteq Clients \X Filters, owner' = owner,
           NEW from, NEW topic, NEW payload, Speaks(from, topic, payload), Plain(payload),
           from \in Clients => IsOwner(from),
           Route(from, topic, payload)
    PROVE  Heard'
<1> SUFFICES ASSUME NEW d \in delivered' PROVE RightlyHeard(d)
  BY EachIsHeard
<1>1. PICK r \in RouterMatches(topic) :
          d = [to |-> r[1], from |-> from, topic |-> topic,
               payload |-> DeliveredPayload(r[1], topic, payload), replayed |-> FALSE]
  BY DEF Route
<1> DEFINE to == r[1]
<1>2. d = [to |-> to, from |-> from, topic |-> topic,
           payload |-> DeliveredPayload(to, topic, payload), replayed |-> FALSE]
  BY <1>1
<1>3. to \in Clients /\ DeliveryAllows(PrincipalOf[to], topic, IsOwner(to))
  BY DEF RouterMatches
<1> HIDE DEF to
<1>4. /\ from \in Clients => Kind(from) = PrincipalOf[from].kind
      /\ from = "broker" => Kind(from) = "broker"
  BY <1>3, RoutingAssumption DEF Kind
<1>5. ASSUME PrincipalOf[to].kind = "observer"
      PROVE  Kind(from) \in (IF IsOwner(to) THEN {"broker", "admin"} ELSE {"broker"})
  <2>1. LowerSubtopic(topic) \in {<<"error">>, <<"serial", "commands">>}
        /\ (~IsOwner(to) => LowerSubtopic(topic) = <<"error">>)
    BY <1>3, <1>5 DEF DeliveryAllows, RouteAllows
  <2>2. <<"error">> # <<"serial", "commands">> /\ <<"serial", "responses">> # <<"serial", "commands">>
        /\ <<"error">>[1] = "error" /\ <<"serial", "commands">>[1] = "serial"
    OBVIOUS
  <2>3. ~(from \in Clients /\ ObserverSpeaks(from, topic, payload))
    BY <2>1, <2>2 DEF ObserverSpeaks
  <2>4. from \in Clients /\ PrincipalOf[from].kind = "admin" /\ AdminSpeaks(topic) => IsOwner(to)
    BY <2>1, <2>2 DEF AdminSpeaks
  <2> QED
    BY <1>4, <2>3, <2>4 DEF Speaks
<1>6. ASSUME PrincipalOf[to].kind \in {"full", "limited"}, Len(topic) >= 4
      PROVE  from # "broker" /\ Lowercased(topic[4]) # "serial"
  <2>1. ~IsPrivateTopic(topic) /\ ~IsObserverErrorTopic(topic)
    BY <1>3, <1>6 DEF DeliveryAllows, RouteAllows
  <2>2. CASE from \in Clients
    <3>1. topic[1] = "meshcore" /\ from # "broker"
      BY <2>2, RoutingAssumption DEF Speaks, ObserverSpeaks, AdminSpeaks
    <3> QED
      BY <1>6, <2>1, <3>1 DEF IsPrivateTopic
  <2>3. CASE BrokerSpeaks(topic)
    <3>1. CASE topic = <<"heartbeat", "">>
      <4>1. Len(topic) = 2
        BY <3>1
      <4> QED
        BY <1>6, <4>1
    <3>2. ASSUME NEW iata, NEW key \in PublicKeys, topic = <<"meshcore", iata, key, "error">>
          PROVE  FALSE
      <4>1. topic[1] = "meshcore" /\ topic[3] = key /\ topic[4] = "error"
        BY <3>2
      <4> QED
        BY <1>6, <2>1, <4>1, PolicyAssumption DEF IsObserverErrorTopic
    <3> QED
      BY <2>3, <3>1, <3>2 DEF BrokerSpeaks
  <2> QED
    BY <2>2, <2>3 DEF Speaks
<1> QED
  BY <1>2, <1>3, <1>5, <1>6, SpokenIsHeard

(* A replay reaches a new subscription past the router; what it brings was  *)
(* said by a client that might say it and is matched by a filter that its   *)
(* subscriber may have (retained.rs lines 120-131, subscribe.rs).           *)
LEMMA ReplayIsHeard ==
    ASSUME RetainedSpeaks, owner' = owner, NEW c \in Clients, NEW filter \in Filters,
           Allowed(AuthorizeSubscribe(PrincipalOf[c], IsOwner(c), filter)),
           Replay(c, filter)
    PROVE  Heard'
<1> SUFFICES ASSUME NEW d \in delivered' PROVE RightlyHeard(d)
  BY EachIsHeard
<1>1. PICK m \in retained :
          /\ Matches(filter, m.topic)
          /\ d = [to |-> c, from |-> m.from, topic |-> m.topic,
                  payload |-> DeliveredPayload(c, m.topic, m.payload), replayed |-> TRUE]
  BY DEF Replay
<1>2. m.from \in Clients /\ m.payload \in Payloads /\ Speaks(m.from, m.topic, m.payload)
  BY DEF RetainedSpeaks
<1>3. m.from # "broker" /\ Kind(m.from) = PrincipalOf[m.from].kind
  BY <1>2, RoutingAssumption DEF Kind
<1>4. Plain(m.payload)
  BY <1>2, RoutingAssumption DEF Plain
<1>5. PrincipalOf[c].kind = "observer" => IsOwner(c) /\ Kind(m.from) = "admin"
  BY <1>1, <1>2, <1>3, ObserverFetchesCommands
<1> QED
  BY <1>1, <1>2, <1>3, <1>4, <1>5, SpokenIsHeard

----------------------------------------------------------------------------
(* Logins.                                                                  *)

(* The saturating arithmetic of the age checks agrees with exact arithmetic *)
(* on every pair of i64 times (auth/mod.rs lines 108-110).                  *)
LEMMA StaleIsExact ==
    ASSUME NEW iat \in I64Min..I64Max, NEW now \in I64Min..I64Max
    PROVE  ~IsStaleToken(iat, now) <=>
               /\ iat - now <= MAX_FUTURE_IAT_SKEW_SECONDS
               /\ token_max_age_seconds # 0 => now - iat <= token_max_age_seconds
<1> DEFINE skew == MAX_FUTURE_IAT_SKEW_SECONDS
           age  == token_max_age_seconds
<1>1. /\ I64Min \in Int /\ I64Max \in Nat /\ I64Min < 0 /\ skew \in Nat
      /\ age \in Nat /\ age < I64Max
  BY TokenAssumption
<1>2. iat \in Int /\ now \in Int /\ I64Min <= iat /\ iat <= I64Max
      /\ I64Min <= now /\ now <= I64Max
  BY <1>1
<1>3. iat > SaturatingAdd(now, skew) <=> iat - now > skew
  BY <1>1, <1>2 DEF SaturatingAdd, Saturate
<1>4. SaturatingSub(now, iat) > age <=> now - iat > age
  BY <1>1, <1>2 DEF SaturatingSub, Saturate
<1>5. age > 0 <=> age # 0
  BY <1>1
<1>6. IsStaleToken(iat, now) <=>
          iat - now > skew \/ (age # 0 /\ now - iat > age)
  BY <1>3, <1>4, <1>5 DEF IsStaleToken
<1>7. /\ ~(iat - now > skew) <=> iat - now <= skew
      /\ ~(now - iat > age) <=> now - iat <= age
  BY <1>1, <1>2
<1> QED
  BY <1>6, <1>7

\* The token is current for the key, in exact arithmetic.
Current(login, key) ==
    LET token == login.token IN
    /\ token.parts = 3 /\ token.header_decodes /\ token.claims_decode
    /\ token.alg = "Ed25519" /\ token.typ = "JWT"
    /\ Uppercased(token.key) = key /\ token.signed_by = key /\ key \in CurvePoints
    /\ expected_audience \in {"", token.aud}
    /\ token.exp # Absent => login.now <= token.exp
    /\ token.iat - login.now <= MAX_FUTURE_IAT_SKEW_SECONDS
    /\ token_max_age_seconds # 0 => login.now - token.iat <= token_max_age_seconds

(* The checks of the token, its audience and its age (jwt.rs, auth/mod.rs). *)
LEMMA TokenChecksPass ==
    ASSUME NEW login \in Logins, login.token # Absent, NEW key
    PROVE  LET checks == VerifyTokenChecks(login.token, key, login.now)
                             \o ClaimChecks(login.token, login.now)
           IN  Coded(checks) /\ (key # Absent => (Passes(checks) <=> Current(login, key)))
<1> DEFINE token == login.token
           now   == login.now
           same  == Uppercased(token.key) = key
           a == Check(token.parts # 3, "AuthInvalidToken", TRUE)
           b == Check(~token.header_decodes, "AuthInvalidToken", TRUE)
           c == Check(~token.claims_decode, "AuthInvalidToken", TRUE)
           d == Check(same /\ token.exp # Absent /\ now > token.exp, "AuthStaleToken", TRUE)
           e == Check(token.alg # "Ed25519" \/ token.typ # "JWT" \/ ~same, "AuthInvalidToken",
                      TRUE)
           f == Check(token.signed_by = Absent, "AuthInvalidToken", TRUE)
           g == Check(key \notin CurvePoints, "AuthInvalidPublicKey", TRUE)
           h == Check(token.signed_by # key, "AuthInvalidToken", TRUE)
           u == Check(expected_audience # "" /\ token.aud # expected_audience,
                      "AuthWrongAudience", TRUE)
           v == Check(IsStaleToken(token.iat, now), "AuthStaleToken", TRUE)
<1>1. /\ a.code # "Ok" /\ b.code # "Ok" /\ c.code # "Ok" /\ d.code # "Ok"
      /\ e.code # "Ok" /\ f.code # "Ok" /\ g.code # "Ok" /\ h.code # "Ok"
      /\ u.code # "Ok" /\ v.code # "Ok"
  BY DEF Check
<1>2. /\ ~a.fails <=> token.parts = 3
      /\ ~b.fails <=> token.header_decodes
      /\ ~c.fails <=> token.claims_decode
  BY DEF Check
<1>3. ~d.fails <=> ~(same /\ token.exp # Absent /\ now > token.exp)
  BY DEF Check
<1>4. ~e.fails <=> token.alg = "Ed25519" /\ token.typ = "JWT" /\ same
  BY DEF Check
<1>5. /\ ~f.fails <=> token.signed_by # Absent
      /\ ~g.fails <=> key \in CurvePoints
      /\ ~h.fails <=> token.signed_by = key
  BY DEF Check
<1>6. /\ ~u.fails <=> expected_audience \in {"", token.aud}
      /\ ~v.fails <=> ~IsStaleToken(token.iat, now)
  BY DEF Check
<1>7. VerifyTokenChecks(token, key, now) = <<a, b, c, d, e, f, g, h>>
      /\ ClaimChecks(token, now) = <<u, v>>
  BY DEF VerifyTokenChecks, ClaimChecks
<1>8. token.iat \in I64Min..I64Max /\ now \in I64Min..I64Max
      /\ token.exp \in (I64Min..I64Max) \cup {Absent}
  BY RoutingAssumption
<1>9. token.exp # Absent => (now > token.exp <=> ~(now <= token.exp))
  <2>1. I64Min \in Int /\ I64Max \in Int
    BY TokenAssumption
  <2> QED
    BY <1>8, <2>1
<1>10. ~IsStaleToken(token.iat, now) <=>
           /\ token.iat - now <= MAX_FUTURE_IAT_SKEW_SECONDS
           /\ token_max_age_seconds # 0 => now - token.iat <= token_max_age_seconds
  BY <1>8, StaleIsExact
<1> HIDE DEF a, b, c, d, e, f, g, h, u, v
<1>11. /\ Coded(<<a, b, c, d, e, f, g, h>>)
       /\ Passes(<<a, b, c, d, e, f, g, h>>) <=>
              ~a.fails /\ ~b.fails /\ ~c.fails /\ ~d.fails
              /\ ~e.fails /\ ~f.fails /\ ~g.fails /\ ~h.fails
  BY <1>1, List8
<1>12. Coded(<<u, v>>) /\ (Passes(<<u, v>>) <=> ~u.fails /\ ~v.fails)
  BY <1>1, List2
<1> DEFINE first  == VerifyTokenChecks(token, key, now)
           second == ClaimChecks(token, now)
<1>13. Coded(first) /\ Coded(second)
  BY <1>7, <1>11, <1>12
<1>14. ASSUME key # Absent PROVE Passes(first) /\ Passes(second) <=> Current(login, key)
  <2>1. Passes(first) /\ Passes(second) <=>
            ~a.fails /\ ~b.fails /\ ~c.fails /\ ~d.fails
            /\ ~e.fails /\ ~f.fails /\ ~g.fails /\ ~h.fails /\ ~u.fails /\ ~v.fails
    BY <1>7, <1>11, <1>12
  <2> HIDE DEF first, second
  <2> QED
    BY <1>2, <1>3, <1>4, <1>5, <1>6, <1>9, <1>10, <1>14, <2>1 DEF Current
<1> HIDE DEF first, second
<1>15. Coded(first \o second) /\ (Passes(first \o second) <=> Passes(first) /\ Passes(second))
  BY <1>13, PassesBoth
<1> QED
  BY <1>14, <1>15 DEF first, second

(* A login is let in exactly with a current token for a public key.         *)
LEMMA LoginAllowedIffCurrent ==
    ASSUME NEW login \in Logins
    PROVE  Allowed(AuthenticateObserver(login.name, login.token, login.now)) <=>
               /\ login.name.prefix = "v1_" /\ UsernameKey(login.name) \in PublicKeys
               /\ login.token # Absent
               /\ Current(login, UsernameKey(login.name))
<1> DEFINE key   == UsernameKey(login.name)
           names == UsernameChecks(login.name)
           rest  == IF login.token = Absent
                    THEN << Check(TRUE, "AuthMissingToken", TRUE) >>
                    ELSE VerifyTokenChecks(login.token, key, login.now)
                             \o ClaimChecks(login.token, login.now)
<1>1. Coded(names) /\ (Passes(names) <=> login.name.prefix = "v1_" /\ key \in PublicKeys)
  <2> DEFINE a == Check(login.name.prefix # "v1_", "AuthInvalidUsernameFormat", TRUE)
             b == Check(key \notin PublicKeys, "AuthInvalidPublicKey", TRUE)
  <2>1. a.code # "Ok" /\ b.code # "Ok"
    BY DEF Check
  <2>2. (~a.fails <=> login.name.prefix = "v1_") /\ (~b.fails <=> key \in PublicKeys)
    BY DEF Check
  <2>3. names = <<a, b>>
    BY DEF UsernameChecks
  <2> HIDE DEF a, b
  <2>4. Coded(<<a, b>>) /\ (Passes(<<a, b>>) <=> ~a.fails /\ ~b.fails)
    BY <2>1, List2
  <2> QED
    BY <2>2, <2>3, <2>4
<1>2. /\ Coded(rest)
      /\ key \in PublicKeys =>
             (Passes(rest) <=> login.token # Absent /\ Current(login, key))
  <2>1. CASE login.token = Absent
    <3> DEFINE a == Check(TRUE, "AuthMissingToken", TRUE)
    <3>1. a.code # "Ok" /\ a.fails
      BY DEF Check
    <3>2. rest = <<a>>
      BY <2>1
    <3> HIDE DEF a, rest
    <3>3. Coded(<<a>>) /\ ~Passes(<<a>>)
      BY <3>1, List1
    <3> QED
      BY <2>1, <3>2, <3>3
  <2>2. CASE login.token # Absent
    <3> DEFINE checks == VerifyTokenChecks(login.token, key, login.now)
                             \o ClaimChecks(login.token, login.now)
    <3>1. rest = checks
      BY <2>2
    <3>2. Coded(checks) /\ (key # Absent => (Passes(checks) <=> Current(login, key)))
      BY <2>2, TokenChecksPass
    <3>3. key \in PublicKeys => key # Absent
      BY TokenAssumption
    <3> HIDE DEF checks, rest, key
    <3> QED
      BY <2>2, <3>1, <3>2, <3>3
  <2> QED
    BY <2>1, <2>2
<1>3. AuthenticateObserver(login.name, login.token, login.now) = FirstFailing(names \o rest)
  BY DEF AuthenticateObserver
<1> HIDE DEF names, rest
<1>4. Coded(names \o rest) /\ (Passes(names \o rest) <=> Passes(names) /\ Passes(rest))
  BY <1>1, <1>2, PassesBoth
<1>5. Allowed(FirstFailing(names \o rest)) <=> Passes(names) /\ Passes(rest)
  BY <1>4, AllowedIffAllPass
<1> QED
  BY <1>1, <1>2, <1>3, <1>5

(* A login is answered Ok exactly when its token is current, and the        *)
(* connection then owns the key (ObserverOwnership::set).                   *)
LEMMA LoginSetsOwner ==
    ASSUME DOMAIN owner = PublicKeys, NEW login \in Logins, LogIn(login)
    PROVE  DOMAIN owner' = PublicKeys /\ LoginIsCurrent'
<1> DEFINE verdict == AuthenticateObserver(login.name, login.token, login.now)
           key     == UsernameKey(login.name)
           fine    == /\ login.name.prefix = "v1_" /\ key \in PublicKeys
                      /\ login.token # Absent
                      /\ Current(login, key)
<1>1. Allowed(verdict) <=> fine
  BY LoginAllowedIffCurrent
<1>2. /\ answered' = [login |-> login, code |-> verdict.code]
      /\ owner' = IF Allowed(verdict) THEN [owner EXCEPT ![key] = login.client] ELSE owner
  BY DEF LogIn
<1>3. Allowed(verdict) <=> verdict.code = "Ok"
  BY DEF Allowed
<1> HIDE DEF verdict
<1>4. answered'.login = login /\ answered'.code = verdict.code
  BY <1>2
<1>5. DOMAIN owner' = PublicKeys
  BY <1>2
<1>6. fine => owner'[key] = login.client
  BY <1>1, <1>2
<1>7. key = Uppercased(login.name.rest)
  BY DEF UsernameKey
<1> HIDE DEF key
<1>8. answered'.code = "Ok" <=> fine /\ owner'[key] = login.client
  BY <1>1, <1>3, <1>4, <1>6
<1> QED
  BY <1>4, <1>5, <1>7, <1>8 DEF LoginIsCurrent, Current

----------------------------------------------------------------------------
(* The invariant.                                                           *)

(* Nothing that is on its way to nobody is misheard.                        *)
LEMMA SilenceIsHeard == ASSUME delivered' = {} PROVE Heard'
  BY DEF Heard, ObserverHearsOnlyBrokerAndAdmin, PrivateTrafficOnlyByReplay,
         LimitedSeesNoRestrictedFields, SenderSpeaksForItself

(* The broker's own payloads, and the broker is no client.                  *)
LEMMA NoticeIsPlain == Plain(NoticePayload) /\ "broker" \notin Clients
  BY RoutingAssumption DEF Plain, NoticePayload, PayloadRecords

(* A denial notice reaches only those who may hear it.                      *)
LEMMA NoticeIsHeard ==
    ASSUME relations \subseteq Clients \X Filters, owner' = owner,
           NEW c \in Clients, NEW topic, Notify(c, topic)
    PROVE  Heard'
<1>1. CASE PrincipalOf[c].kind = "observer"
  <2> DEFINE t == <<"meshcore", DenialIata(topic), PrincipalOf[c].key, "error">>
  <2>1. PrincipalOf[c].key \in PublicKeys
    BY <1>1, RoutingAssumption
  <2>2. Speaks("broker", t, NoticePayload)
    BY <2>1 DEF Speaks, BrokerSpeaks
  <2>3. Route("broker", t, NoticePayload)
    BY <1>1 DEF Notify
  <2> HIDE DEF t
  <2> QED
    BY <2>2, <2>3, NoticeIsPlain, RoutedIsHeard
<1>2. CASE PrincipalOf[c].kind # "observer"
  BY <1>2, SilenceIsHeard DEF Notify
<1> QED
  BY <1>1, <1>2

(* Every handler keeps RoutingInv.                                          *)
LEMMA RoutingInvInductive ==
    ASSUME RoutingInv, [RoutingNext]_routingVars
    PROVE  RoutingInv'
<1>1. DOMAIN owner = PublicKeys /\ relations \subseteq Clients \X Filters /\ RetainedSpeaks
  BY DEF RoutingInv
<1>0. retained' \subseteq retained => RetainedSpeaks'
  BY <1>1 DEF RetainedSpeaks
<1>2. answered' = None => LoginIsCurrent'
  BY DEF LoginIsCurrent
<1>3. ASSUME NEW c \in Clients, NEW f \in Filters, Subscribe(c, f)
      PROVE  RoutingInv'
  <2>1. owner' = owner /\ retained' = retained /\ answered' = None
    BY <1>3 DEF Subscribe, Quiet
  <2>2. CASE Allowed(AuthorizeSubscribe(PrincipalOf[c], IsOwner(c), f))
    <3>1. relations' = relations \cup {<<c, f>>} /\ Replay(c, f)
      BY <1>3, <2>2 DEF Subscribe
    <3>2. Heard'
      BY <1>1, <2>1, <2>2, <3>1, ReplayIsHeard
    <3> QED
      BY <1>0, <1>1, <1>2, <2>1, <3>1, <3>2 DEF RoutingInv
  <2>3. CASE ~Allowed(AuthorizeSubscribe(PrincipalOf[c], IsOwner(c), f))
    <3>1. relations' = relations /\ Notify(c, f)
      BY <1>3, <2>3 DEF Subscribe
    <3>2. Heard'
      BY <1>1, <2>1, <3>1, NoticeIsHeard
    <3> QED
      BY <1>0, <1>1, <1>2, <2>1, <3>1, <3>2 DEF RoutingInv
  <2> QED
    BY <2>2, <2>3
<1>4. ASSUME NEW c \in Clients, NEW t \in Topics, NEW p \in Payloads, NEW retain \in BOOLEAN,
             Publish(c, t, p, retain)
      PROVE  RoutingInv'
  <2>1. owner' = owner /\ relations' = relations /\ answered' = None
    BY <1>4 DEF Publish, Quiet
  <2>2. CASE Allowed(AuthorizePublish(PrincipalOf[c], IsOwner(c), t, p, retain))
    <3> DEFINE n == NormalizedTopic(t)
    <3>1. Retain(c, n, p, retain) /\ Route(c, n, p)
      BY <1>4, <2>2 DEF Publish
    <3>2. Speaks(c, n, p) /\ IsOwner(c)
      BY <2>2, PublishedSpeaks
    <3>3. Plain(p)
      BY RoutingAssumption DEF Plain
    <3> HIDE DEF n
    <3>4. Heard'
      BY <1>1, <2>1, <3>1, <3>2, <3>3, RoutedIsHeard
    <3>5. RetainedSpeaks'
      <4> DEFINE new == [from |-> c, topic |-> n, payload |-> p]
      <4>1. new.from = c /\ new.topic = n /\ new.payload = p
        OBVIOUS
      <4>2. retained' \subseteq retained \cup {new}
        BY <3>1 DEF Retain
      <4> HIDE DEF new
      <4> QED
        BY <1>1, <3>2, <4>1, <4>2 DEF RetainedSpeaks
    <3> QED
      BY <1>1, <1>2, <2>1, <3>4, <3>5 DEF RoutingInv
  <2>3. CASE ~Allowed(AuthorizePublish(PrincipalOf[c], IsOwner(c), t, p, retain))
    <3>1. Notify(c, t) /\ retained' = retained
      BY <1>4, <2>3 DEF Publish
    <3>2. Heard'
      BY <1>1, <2>1, <3>1, NoticeIsHeard
    <3> QED
      BY <1>0, <1>1, <1>2, <2>1, <3>1, <3>2 DEF RoutingInv
  <2> QED
    BY <2>2, <2>3
<1>5. CASE Heartbeat
  <2>1. owner' = owner /\ relations' = relations /\ retained' = retained /\ answered' = None
    BY <1>5 DEF Heartbeat, Quiet
  <2> DEFINE t == <<"heartbeat", "">>
  <2>2. Route("broker", t, NoticePayload)
    BY <1>5 DEF Heartbeat
  <2>3. Speaks("broker", t, NoticePayload)
    BY DEF Speaks, BrokerSpeaks
  <2> HIDE DEF t
  <2>4. Heard'
    BY <1>1, <2>1, <2>2, <2>3, NoticeIsPlain, RoutedIsHeard
  <2> QED
    BY <1>0, <1>1, <1>2, <2>1, <2>4 DEF RoutingInv
<1>6. ASSUME NEW login \in Logins, LogIn(login)
      PROVE  RoutingInv'
  <2>1. relations' = relations /\ retained' = retained /\ delivered' = {}
    BY <1>6 DEF LogIn, Quiet
  <2>2. DOMAIN owner' = PublicKeys /\ LoginIsCurrent'
    BY <1>1, <1>6, LoginSetsOwner
  <2> QED
    BY <1>0, <1>1, <2>1, <2>2, SilenceIsHeard DEF RoutingInv
<1>7. ASSUME NEW c \in ObserverClients, Leave(c)
      PROVE  RoutingInv'
  <2>1. /\ relations' = relations /\ retained' = retained /\ delivered' = {}
        /\ answered' = None
        /\ owner' = [owner EXCEPT ![PrincipalOf[c].key] = None]
    BY <1>7 DEF Leave, Quiet
  <2> QED
    BY <1>0, <1>1, <1>2, <2>1, SilenceIsHeard DEF RoutingInv
<1>8. ASSUME NEW m \in retained, Expire(m)
      PROVE  RoutingInv'
  <2>1. /\ owner' = owner /\ relations' = relations /\ retained' \subseteq retained
        /\ delivered' = {} /\ answered' = None
    BY <1>8 DEF Expire, Quiet
  <2> QED
    BY <1>0, <1>1, <1>2, <2>1, SilenceIsHeard DEF RoutingInv
<1>9. CASE HandOver
  BY <1>0, <1>1, <1>2, <1>9, SilenceIsHeard DEF HandOver, RoutingInv
<1>10. CASE UNCHANGED routingVars
  BY <1>10 DEF routingVars, RoutingInv, RetainedSpeaks, Heard, ObserverHearsOnlyBrokerAndAdmin,
              PrivateTrafficOnlyByReplay, LimitedSeesNoRestrictedFields,
              SenderSpeaksForItself, LoginIsCurrent, IsOwner
<1> QED
  BY <1>3, <1>4, <1>5, <1>6, <1>7, <1>8, <1>9, <1>10 DEF RoutingNext

(* RoutingInv holds in every reachable state.                               *)
LEMMA RoutingInvHolds == RoutingSpec => []RoutingInv
<1>1. RoutingInit => RoutingInv
  BY DEF RoutingInit, RoutingInv, RetainedSpeaks, Heard, ObserverHearsOnlyBrokerAndAdmin,
         PrivateTrafficOnlyByReplay, LimitedSeesNoRestrictedFields,
         SenderSpeaksForItself, LoginIsCurrent
<1>2. RoutingInv /\ [RoutingNext]_routingVars => RoutingInv'
  BY RoutingInvInductive
<1> QED
  BY <1>1, <1>2, PTL DEF RoutingSpec

(* An observer hears only the broker's notices and, while it owns its key,  *)
(* an admin's commands, live or replayed.                                   *)
THEOREM ObserversAreIsolated == RoutingSpec => []ObserverHearsOnlyBrokerAndAdmin
<1>1. RoutingInv => ObserverHearsOnlyBrokerAndAdmin
  BY DEF RoutingInv, Heard
<1> QED
  BY <1>1, RoutingInvHolds, PTL

(* Full and limited subscribers see no internal or error traffic, and       *)
(* serial traffic only in the replay of a retained message.                 *)
THEOREM PrivateTrafficNeedsReplay == RoutingSpec => []PrivateTrafficOnlyByReplay
<1>1. RoutingInv => PrivateTrafficOnlyByReplay
  BY DEF RoutingInv, Heard
<1> QED
  BY <1>1, RoutingInvHolds, PTL

(* Live and in a replay, a limited subscriber sees no radio field of        *)
(* packets and of listed neighbors and no device field of a status.         *)
THEOREM LimitedIsProjected == RoutingSpec => []LimitedSeesNoRestrictedFields
<1>1. RoutingInv => LimitedSeesNoRestrictedFields
  BY DEF RoutingInv, Heard
<1> QED
  BY <1>1, RoutingInvHolds, PTL

(* Every message of an observer speaks for its sender's key, and a live one *)
(* comes from the owner of that key.                                        *)
THEOREM SendersSpeakForThemselves == RoutingSpec => []SenderSpeaksForItself
<1>1. RoutingInv => SenderSpeaksForItself
  BY DEF RoutingInv, Heard
<1> QED
  BY <1>1, RoutingInvHolds, PTL

(* A login is accepted exactly with a current token of its key, whatever    *)
(* the times are.                                                           *)
THEOREM LoginsAreCurrent == RoutingSpec => []LoginIsCurrent
<1>1. RoutingInv => LoginIsCurrent
  BY DEF RoutingInv
<1> QED
  BY <1>1, RoutingInvHolds, PTL

============================================================================
