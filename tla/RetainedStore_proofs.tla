----------------------- MODULE RetainedStore_proofs -----------------------
(* The retained store keeps its expiry index in step, loses no value before *)
(* its time and serves none after it, for any topics, intervals and readers.*)
(* The inductive invariant adds to the checked properties only that a       *)
(* reader's `now' is not in the future.                                     *)
EXTENDS RetainedStore, FiniteSetTheorems, TLAPS

AskedInThePast == \A r \in Readers : asked[r] # Absent => asked[r] <= clock

StoreInv ==
    /\ StoreTypeOK
    /\ IndexMatchesEntries
    /\ RemainsUntilExpired
    /\ AskedInThePast

\* The expiry index a map of entries should have.
IndexOf(f) == {<<f[t].expires_at, t>> : t \in {u \in DOMAIN f : f[u].expires_at # Never}}

----------------------------------------------------------------------------
(* purge_expired(now) drops exactly the entries that have expired at `now', *)
(* from the map and from the index.                                         *)
LEMMA PurgeDropsTheExpired ==
    ASSUME StoreTypeOK, IndexMatchesEntries, NEW now \in Nat
    PROVE  /\ DOMAIN Purged(now) = {t \in DOMAIN entries : ~ExpiredAt(entries[t], now)}
           /\ \A t \in DOMAIN Purged(now) : Purged(now)[t] = entries[t]
           /\ Purged(now) \in [DOMAIN Purged(now) -> Entry]
           /\ expirations \ Due(now) = IndexOf(Purged(now))
<1> USE StoreAssumption
<1>1. \A t \in DOMAIN entries : entries[t].expires_at \in Nat \cup {Never}
  BY DEF StoreTypeOK, Entry
<1>2. \A t \in DOMAIN entries :
          <<entries[t].expires_at, t>> \in Due(now) <=> ExpiredAt(entries[t], now)
  BY <1>1 DEF IndexMatchesEntries, Due, ExpiredAt
<1>3. DOMAIN Purged(now) = {t \in DOMAIN entries : ~ExpiredAt(entries[t], now)}
  BY <1>2 DEF Purged, Only
<1>4. \A t \in DOMAIN Purged(now) : Purged(now)[t] = entries[t]
  BY DEF Purged, Only
<1>5. Purged(now) \in [DOMAIN Purged(now) -> Entry]
  <2>1. Purged(now) = [t \in DOMAIN Purged(now) |-> Purged(now)[t]]
    BY DEF Purged, Only
  <2>2. \A t \in DOMAIN Purged(now) : Purged(now)[t] \in Entry
    BY <1>3, <1>4 DEF StoreTypeOK
  <2> HIDE DEF Purged
  <2> QED BY <2>1, <2>2
<1>6. expirations \ Due(now) = IndexOf(Purged(now))
  <2>1. ASSUME NEW x \in expirations, x \notin Due(now) PROVE x \in IndexOf(Purged(now))
    <3>1. PICK t \in DOMAIN entries : /\ entries[t].expires_at # Never
                                      /\ x = <<entries[t].expires_at, t>>
      BY <2>1 DEF IndexMatchesEntries
    <3>2. t \in DOMAIN Purged(now) /\ Purged(now)[t] = entries[t]
      BY <1>2, <1>3, <1>4, <2>1, <3>1
    <3> QED BY <3>1, <3>2 DEF IndexOf
  <2>2. ASSUME NEW x \in IndexOf(Purged(now)) PROVE x \in expirations /\ x \notin Due(now)
    <3>1. PICK t \in DOMAIN Purged(now) : /\ Purged(now)[t].expires_at # Never
                                          /\ x = <<Purged(now)[t].expires_at, t>>
      BY <2>2 DEF IndexOf
    <3>2. /\ t \in DOMAIN entries /\ Purged(now)[t] = entries[t]
          /\ ~ExpiredAt(entries[t], now)
      BY <1>3, <1>4, <3>1
    <3>3. x = <<entries[t].expires_at, t>> /\ entries[t].expires_at # Never
      BY <3>1, <3>2
    <3>4. x \in expirations
      BY <3>2, <3>3 DEF IndexMatchesEntries
    <3> QED BY <1>2, <3>2, <3>3, <3>4
  <2> QED BY <2>1, <2>2
<1> QED BY <1>3, <1>4, <1>5, <1>6

\* What is left of the index when topic t is about to be rewritten.
LEMMA IndexWithoutTopic ==
    ASSUME StoreTypeOK, IndexMatchesEntries, NEW t \in Topics, NEW now \in Nat
    PROVE  IndexWithout(t, now) = {x \in IndexOf(Purged(now)) : x[2] # t}
<1> DEFINE kept == Purged(now)
<1>1. expirations \ Due(now) = IndexOf(kept)
  BY PurgeDropsTheExpired
<1>2. IndexWithout(t, now) = IF t \in DOMAIN kept
                               THEN IndexOf(kept) \ {<<kept[t].expires_at, t>>}
                               ELSE IndexOf(kept)
  BY <1>1 DEF IndexWithout
<1> HIDE DEF kept
<1>3. \A x \in IndexOf(kept) : x[2] \in DOMAIN kept /\ x = <<kept[x[2]].expires_at, x[2]>>
  BY DEF IndexOf
<1>4. \A x \in IndexOf(kept) : x[2] = t => t \in DOMAIN kept /\ x = <<kept[t].expires_at, t>>
  BY <1>3
<1>5. \A x : x = <<kept[t].expires_at, t>> => x[2] = t
  OBVIOUS
<1> QED BY <1>2, <1>4, <1>5 DEF kept

----------------------------------------------------------------------------
\* The empty store satisfies the invariant.
LEMMA StoreInvInit == StoreInit => StoreInv
<1> SUFFICES ASSUME StoreInit PROVE StoreInv
  OBVIOUS
<1> USE StoreAssumption, AbsentAssumption DEF StoreInit
<1>1. StoreTypeOK
  BY DEF StoreTypeOK
<1>2. IndexMatchesEntries
  BY DEF IndexMatchesEntries
<1>3. RemainsUntilExpired /\ AskedInThePast
  BY DEF RemainsUntilExpired, AskedInThePast
<1> QED BY <1>1, <1>2, <1>3 DEF StoreInv

\* A zero-byte publish removes the topic and its deadline, and only those.
LEMMA ClearKeepsInv ==
    ASSUME StoreInv, NEW t \in Topics, Clear(t), UNCHANGED storeReads
    PROVE  StoreInv'
<1> DEFINE kept == Purged(clock)
<1> USE StoreAssumption, AbsentAssumption DEF StoreInv
<1>0. clock \in Nat
  BY DEF StoreTypeOK
<1>1. /\ DOMAIN kept = {u \in DOMAIN entries : ~ExpiredAt(entries[u], clock)}
      /\ \A u \in DOMAIN kept : kept[u] = entries[u]
      /\ kept \in [DOMAIN kept -> Entry]
      /\ IndexWithout(t, clock) = {x \in IndexOf(kept) : x[2] # t}
  BY <1>0, PurgeDropsTheExpired, IndexWithoutTopic
<1>2. /\ entries' = Only(kept, Topics \ {t})
      /\ expirations' = {x \in IndexOf(kept) : x[2] # t}
      /\ written' = [written EXCEPT ![t] = Absent]
      /\ UNCHANGED <<maximum_entries, clock, asked, answer, asof>>
  BY <1>1 DEF Clear, storeReads
<1> HIDE DEF kept
<1>3. DOMAIN entries' = DOMAIN kept \ {t} /\ \A u \in DOMAIN entries' : entries'[u] = kept[u]
  BY <1>1, <1>2 DEF Only, StoreTypeOK
<1>4. entries' \in [DOMAIN entries' -> Entry]
  BY <1>1, <1>2, <1>3 DEF Only
<1>5. IndexMatchesEntries'
  <2>1. ASSUME NEW x \in expirations' PROVE x \in IndexOf(entries')
    <3>1. PICK u \in DOMAIN kept : kept[u].expires_at # Never /\ x = <<kept[u].expires_at, u>>
      BY <1>2, <2>1 DEF IndexOf
    <3>2. u # t
      BY <1>2, <2>1, <3>1
    <3> QED BY <1>3, <3>1, <3>2 DEF IndexOf
  <2>2. ASSUME NEW x \in IndexOf(entries') PROVE x \in expirations'
    <3>1. PICK u \in DOMAIN entries' : entries'[u].expires_at # Never
                                        /\ x = <<entries'[u].expires_at, u>>
      BY <2>2 DEF IndexOf
    <3>2. u \in DOMAIN kept /\ u # t /\ x = <<kept[u].expires_at, u>>
          /\ kept[u].expires_at # Never
      BY <1>3, <3>1
    <3> QED BY <1>2, <3>2 DEF IndexOf
  <2> QED BY <2>1, <2>2 DEF IndexMatchesEntries, IndexOf
<1>6. StoreTypeOK'
  <2>1. expirations' \subseteq Nat \X Topics
    BY <1>1, <1>2 DEF IndexOf, Entry, StoreTypeOK
  <2> QED BY <1>1, <1>2, <1>3, <1>4, <2>1 DEF StoreTypeOK
<1>7. RemainsUntilExpired'
  BY <1>1, <1>2, <1>3 DEF RemainsUntilExpired, StoreTypeOK, ExpiredAt
<1>8. AskedInThePast'
  BY <1>2 DEF AskedInThePast
<1> QED BY <1>5, <1>6, <1>7, <1>8

\* A value replaces the old one together with its deadline.
LEMMA StoreKeepsInv ==
    ASSUME StoreInv, NEW t \in Topics, NEW payload \in Payloads,
           NEW period \in Periods \cup {Never}, NEW later,
           Store(t, payload, period, later), UNCHANGED storeReads
    PROVE  StoreInv'
<1> DEFINE kept == Purged(clock)
           deadline == IF period = Never THEN Never ELSE later + period
           entry == [payload |-> payload, expires_at |-> deadline]
<1> USE StoreAssumption, AbsentAssumption DEF StoreInv
<1>0. clock \in Nat /\ later \in Nat /\ clock <= later /\ later <= MaxTime
  BY DEF StoreTypeOK, Store
<1>1. /\ DOMAIN kept = {u \in DOMAIN entries : ~ExpiredAt(entries[u], clock)}
      /\ \A u \in DOMAIN kept : kept[u] = entries[u]
      /\ kept \in [DOMAIN kept -> Entry]
      /\ IndexWithout(t, clock) = {x \in IndexOf(kept) : x[2] # t}
  BY <1>0, PurgeDropsTheExpired, IndexWithoutTopic
<1>2. deadline \in Nat \cup {Never} /\ entry \in Entry
  <2>1. deadline \in Nat \cup {Never}
    <3>1. CASE period = Never
      BY <3>1
    <3>2. CASE period # Never
      <4>1. period \in Nat
        BY <3>2
      <4>2. later + period \in Nat
        BY <1>0, <4>1
      <4> QED BY <3>2, <4>2
    <3> QED BY <3>1, <3>2
  <2> HIDE DEF deadline
  <2> QED BY <2>1 DEF Entry
<1>3. /\ clock' = later
      /\ entries' = [u \in DOMAIN kept \cup {t} |-> IF u = t THEN entry ELSE kept[u]]
      /\ expirations' = {x \in IndexOf(kept) : x[2] # t} \cup PairOf(t, deadline)
      /\ written' = [written EXCEPT ![t] = entry]
      /\ UNCHANGED <<asked, answer, asof>>
  BY <1>1 DEF Store, storeReads
<1>4. maximum_entries' \in Nat
  <2>1. DOMAIN entries' \subseteq Topics
    BY <1>1, <1>3 DEF StoreTypeOK
  <2>2. Cardinality(DOMAIN entries') \in Nat
    BY <2>1, FS_Subset, FS_CardinalityType
  <2> QED BY <2>2 DEF Store, StoreTypeOK
<1>5. entry.expires_at = deadline
  OBVIOUS
<1> HIDE DEF kept, deadline, entry
<1>6. /\ DOMAIN entries' = DOMAIN kept \cup {t}
      /\ entries'[t] = entry
      /\ \A u \in DOMAIN kept : u # t => entries'[u] = kept[u]
  BY <1>3
<1>7. entries' \in [DOMAIN entries' -> Entry]
  BY <1>1, <1>2, <1>3
<1>8. IndexMatchesEntries'
  <2>1. ASSUME NEW x \in expirations' PROVE x \in IndexOf(entries')
    <3>1. CASE x \in PairOf(t, deadline)
      BY <1>5, <1>6, <3>1 DEF PairOf, IndexOf
    <3>2. CASE x \in IndexOf(kept) /\ x[2] # t
      <4>1. PICK u \in DOMAIN kept : kept[u].expires_at # Never
                                       /\ x = <<kept[u].expires_at, u>>
        BY <3>2 DEF IndexOf
      <4>2. u # t
        BY <3>2, <4>1
      <4> QED BY <1>6, <4>1, <4>2 DEF IndexOf
    <3> QED BY <1>3, <2>1, <3>1, <3>2
  <2>2. ASSUME NEW x \in IndexOf(entries') PROVE x \in expirations'
    <3>1. PICK u \in DOMAIN entries' : entries'[u].expires_at # Never
                                        /\ x = <<entries'[u].expires_at, u>>
      BY <2>2 DEF IndexOf
    <3>2. CASE u = t
      BY <1>3, <1>5, <1>6, <3>1, <3>2 DEF PairOf
    <3>3. CASE u # t
      <4>1. u \in DOMAIN kept /\ x = <<kept[u].expires_at, u>> /\ kept[u].expires_at # Never
        BY <1>6, <3>1, <3>3
      <4> QED BY <1>3, <3>3, <4>1 DEF IndexOf
    <3> QED BY <3>2, <3>3
  <2> QED BY <2>1, <2>2 DEF IndexMatchesEntries, IndexOf
<1>9. StoreTypeOK'
  <2>1. expirations' \subseteq Nat \X Topics
    BY <1>1, <1>2, <1>3 DEF IndexOf, PairOf, Entry, StoreTypeOK
  <2>2. DOMAIN entries' \subseteq Topics /\ written' \in [Topics -> Entry \cup {Absent}]
    BY <1>1, <1>2, <1>3, <1>6 DEF StoreTypeOK
  <2> QED BY <1>0, <1>3, <1>4, <1>7, <2>1, <2>2 DEF StoreTypeOK
<1>10. RemainsUntilExpired'
  <2>1. ASSUME NEW u \in Topics
        PROVE  /\ u \in DOMAIN entries' => entries'[u] = written'[u]
               /\ written'[u] # Absent /\ ~ExpiredAt(written'[u], clock') =>
                      u \in DOMAIN entries'
    <3>1. CASE u = t
      BY <1>3, <1>6, <3>1 DEF StoreTypeOK
    <3>2. CASE u # t
      <4>1. written'[u] = written[u] /\ (u \in DOMAIN entries' <=> u \in DOMAIN kept)
        BY <1>3, <1>6, <3>2 DEF StoreTypeOK
      <4>2. u \in DOMAIN entries' => entries'[u] = written'[u]
        BY <1>1, <1>6, <3>2, <4>1 DEF RemainsUntilExpired
      <4>3. ASSUME written[u] # Absent, ~ExpiredAt(written[u], clock') PROVE u \in DOMAIN kept
        <5>1. written[u].expires_at \in Nat \cup {Never}
          BY <4>3 DEF StoreTypeOK, Entry
        <5>2. ~ExpiredAt(written[u], clock)
          BY <1>0, <1>3, <4>3, <5>1 DEF ExpiredAt
        <5>3. u \in DOMAIN entries /\ entries[u] = written[u]
          BY <4>3, <5>2 DEF RemainsUntilExpired
        <5> QED BY <1>1, <5>2, <5>3
      <4> QED BY <4>1, <4>2, <4>3
    <3> QED BY <3>1, <3>2
  <2> QED BY <2>1 DEF RemainsUntilExpired
<1>11. AskedInThePast'
  BY <1>0, <1>3 DEF AskedInThePast, StoreTypeOK
<1> QED BY <1>8, <1>9, <1>10, <1>11

\* A read removes what had expired when the reader asked, and nothing else.
LEMMA ReadKeepsInv ==
    ASSUME StoreInv, NEW r \in Readers, Read(r)
    PROVE  StoreInv'
<1> DEFINE now == asked[r]
           kept == Purged(now)
<1> USE StoreAssumption, AbsentAssumption DEF StoreInv
<1>0. now \in Nat /\ now <= clock /\ clock \in Nat /\ now \in 0..MaxTime
  BY DEF StoreTypeOK, AskedInThePast, Read
<1>1. /\ DOMAIN kept = {u \in DOMAIN entries : ~ExpiredAt(entries[u], now)}
      /\ \A u \in DOMAIN kept : kept[u] = entries[u]
      /\ kept \in [DOMAIN kept -> Entry]
      /\ expirations \ Due(now) = IndexOf(kept)
  BY <1>0, PurgeDropsTheExpired
<1>2. /\ entries' = kept
      /\ expirations' = IndexOf(kept) /\ expirations' \subseteq expirations
      /\ answer' = kept /\ asof' = now
      /\ asked' = [asked EXCEPT ![r] = Absent]
      /\ UNCHANGED <<maximum_entries, clock, written>>
  BY <1>1 DEF Read
<1> HIDE DEF kept, now
<1>3. IndexMatchesEntries'
  BY <1>2 DEF IndexMatchesEntries, IndexOf
<1>4. StoreTypeOK'
  BY <1>0, <1>1, <1>2 DEF StoreTypeOK
<1>5. RemainsUntilExpired'
  <2>1. ASSUME NEW u \in Topics, written[u] # Absent, ~ExpiredAt(written[u], clock)
        PROVE  u \in DOMAIN kept
    <3>1. u \in DOMAIN entries /\ entries[u] = written[u]
      BY <2>1 DEF RemainsUntilExpired
    <3>2. written[u].expires_at \in Nat \cup {Never}
      BY <2>1 DEF StoreTypeOK, Entry
    <3>3. ~ExpiredAt(written[u], now)
      BY <1>0, <2>1, <3>2 DEF ExpiredAt
    <3> QED BY <1>1, <3>1, <3>3
  <2> QED BY <1>1, <1>2, <2>1 DEF RemainsUntilExpired
<1>6. AskedInThePast'
  BY <1>2 DEF AskedInThePast, StoreTypeOK
<1> QED BY <1>3, <1>4, <1>5, <1>6

\* Asking and the passing of time change neither map nor index.
LEMMA WaitingKeepsInv ==
    ASSUME StoreInv, Tick \/ \E r \in Readers : Ask(r)
    PROVE  StoreInv'
<1> USE StoreAssumption, AbsentAssumption DEF StoreInv
<1>1. CASE Tick
  <2>1. /\ clock \in Nat /\ clock' = clock + 1 /\ clock' \in 0..MaxTime
        /\ UNCHANGED <<entries, expirations, maximum_entries, asked, answer, asof, written>>
    BY <1>1 DEF Tick, storeState, storeReads, StoreTypeOK
  <2>2. StoreTypeOK' /\ IndexMatchesEntries' /\ AskedInThePast'
    BY <2>1 DEF StoreTypeOK, IndexMatchesEntries, AskedInThePast
  <2>3. RemainsUntilExpired'
    <3>1. ASSUME NEW u \in Topics, written[u] # Absent, ~ExpiredAt(written[u], clock')
          PROVE  ~ExpiredAt(written[u], clock)
      <4>1. written[u].expires_at \in Nat \cup {Never}
        BY <3>1 DEF StoreTypeOK, Entry
      <4> QED BY <2>1, <3>1, <4>1 DEF ExpiredAt
    <3> QED BY <2>1, <3>1 DEF RemainsUntilExpired
  <2> QED BY <2>2, <2>3
<1>2. ASSUME NEW r \in Readers, Ask(r) PROVE StoreInv'
  <2>1. /\ asked' = [asked EXCEPT ![r] = clock]
        /\ UNCHANGED <<entries, expirations, maximum_entries, clock, answer, asof, written>>
    BY <1>2 DEF Ask, storeState
  <2> QED BY <2>1 DEF StoreTypeOK, IndexMatchesEntries, RemainsUntilExpired, AskedInThePast
<1> QED BY <1>1, <1>2

\* Every action of the store preserves the invariant.
LEMMA StoreInvStep == StoreInv /\ [StoreNext]_storeVars => StoreInv'
<1> SUFFICES ASSUME StoreInv, [StoreNext]_storeVars PROVE StoreInv'
  OBVIOUS
<1>1. CASE UNCHANGED storeVars
  BY <1>1 DEF storeVars, storeState, storeReads, StoreInv, StoreTypeOK,
              IndexMatchesEntries, RemainsUntilExpired, AskedInThePast
<1>2. ASSUME NEW from, NEW t \in Topics, NEW payload \in Payloads \cup {Empty},
             NEW period \in Periods \cup {Never}, NEW later,
             Set(from, t, payload, period, later)
      PROVE  StoreInv'
  <2>1. CASE payload = Empty
    BY <1>2, <2>1, ClearKeepsInv DEF Set
  <2>2. CASE payload # Empty
    BY <1>2, <2>2, StoreKeepsInv DEF Set
  <2> QED BY <2>1, <2>2
<1>3. ASSUME NEW r \in Readers, Read(r) PROVE StoreInv'
  BY <1>3, ReadKeepsInv
<1>4. CASE Tick \/ \E r \in Readers : Ask(r)
  BY <1>4, WaitingKeepsInv
<1> QED BY <1>1, <1>2, <1>3, <1>4 DEF StoreNext, SetRefused

\* The store's invariant holds in every reachable state.
LEMMA StoreInvariant == StoreSpec => []StoreInv
BY StoreInvInit, StoreInvStep, PTL DEF StoreSpec

\* The state of the store always has its type.
THEOREM StoreTypeCorrect == StoreSpec => []StoreTypeOK
<1>1. StoreInv => StoreTypeOK
  BY DEF StoreInv
<1> QED BY <1>1, StoreInvariant, PTL

\* The expiry index holds exactly the deadlines of the stored values.
THEOREM IndexInStep == StoreSpec => []IndexMatchesEntries
<1>1. StoreInv => IndexMatchesEntries
  BY DEF StoreInv
<1> QED BY <1>1, StoreInvariant, PTL

\* A written value stays until it is overwritten, cleared or expired.
THEOREM NothingLostEarly == StoreSpec => []RemainsUntilExpired
<1>1. StoreInv => RemainsUntilExpired
  BY DEF StoreInv
<1> QED BY <1>1, StoreInvariant, PTL

(* A read serves every value that is live, and none that had expired when   *)
(* the reader asked, however long it waited for the lock.                   *)
THEOREM ReadsAreLive == StoreSpec => ReadsSeeTheLiveValues
<1> DEFINE Exact ==
        \A r \in Readers : asked[r] # Absent /\ asked'[r] = Absent =>
          \A t \in Topics :
             /\ written[t] # Absent /\ ~ExpiredAt(written[t], clock) =>
                    t \in DOMAIN answer' /\ answer'[t] = written[t]
             /\ t \in DOMAIN answer' => ~ExpiredAt(answer'[t], asof')
<1>1. StoreInv /\ [StoreNext]_storeVars => [Exact]_storeVars
  <2> SUFFICES ASSUME StoreInv, StoreNext, NEW r \in Readers, asked[r] # Absent,
                      asked'[r] = Absent, NEW t \in Topics
               PROVE  /\ written[t] # Absent /\ ~ExpiredAt(written[t], clock) =>
                             t \in DOMAIN answer' /\ answer'[t] = written[t]
                      /\ t \in DOMAIN answer' => ~ExpiredAt(answer'[t], asof')
    OBVIOUS
  <2> USE StoreAssumption
  <2>1. ~UNCHANGED asked
    OBVIOUS
  <2>2. Read(r)
    <3>1. \A q \in Readers : Ask(q) => asked[q] = Absent /\ clock # Absent
                                      /\ asked' = [asked EXCEPT ![q] = clock]
      BY DEF Ask, StoreInv, StoreTypeOK
    <3>2. \A q \in Readers : Read(q) => asked' = [asked EXCEPT ![q] = Absent]
      BY DEF Read
    <3>3. asked \in [Readers -> 0..MaxTime \cup {Absent}]
      BY DEF StoreInv, StoreTypeOK
    <3>4. \E q \in Readers : Ask(q) \/ Read(q)
      BY <2>1 DEF StoreNext, Tick, Set, SetRefused, storeReads, storeVars
    <3> QED BY <3>1, <3>2, <3>3, <3>4
  <2> DEFINE now == asked[r]
             kept == Purged(now)
  <2>3. now \in Nat /\ now <= clock /\ clock \in Nat
    BY DEF StoreInv, StoreTypeOK, AskedInThePast
  <2>4. /\ DOMAIN kept = {u \in DOMAIN entries : ~ExpiredAt(entries[u], now)}
        /\ \A u \in DOMAIN kept : kept[u] = entries[u]
    BY <2>3, PurgeDropsTheExpired DEF StoreInv
  <2>5. answer' = kept /\ asof' = now
    BY <2>2 DEF Read
  <2> HIDE DEF kept, now
  <2>6. ASSUME written[t] # Absent, ~ExpiredAt(written[t], clock)
        PROVE  t \in DOMAIN kept /\ kept[t] = written[t]
    <3>1. t \in DOMAIN entries /\ entries[t] = written[t]
      BY <2>6 DEF StoreInv, RemainsUntilExpired
    <3>2. written[t].expires_at \in Nat \cup {Never}
      BY <2>6 DEF StoreInv, StoreTypeOK, Entry
    <3>3. ~ExpiredAt(written[t], now)
      BY <2>3, <2>6, <3>2 DEF ExpiredAt
    <3> QED BY <2>4, <3>1, <3>3
  <2>7. t \in DOMAIN kept => ~ExpiredAt(kept[t], now)
    BY <2>4
  <2> QED BY <2>5, <2>6, <2>7
<1>2. QED
  BY <1>1, StoreInvariant, PTL DEF StoreSpec, ReadsSeeTheLiveValues
============================================================================
