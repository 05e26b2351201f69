--------------------------- MODULE RetainedStore ---------------------------
(* The in-memory store of retained messages                                 *)
(* (src/mqtt/broker/retained.rs): a map from topic to value, and an index   *)
(* of expiry deadlines that must be kept in step with it.                   *)
(*                                                                          *)
(* Every operation is one critical section of the async mutex.  A writer    *)
(* reads the clock inside it, twice; a reader reads it before it waits for  *)
(* the lock, so that a reader can hold an old `now' while others purge with *)
(* a newer one.                                                             *)
EXTENDS Integers, FiniteSets

CONSTANTS
    Topics,
    Payloads,        \* the payloads with at least one byte
    Empty,           \* the zero-byte payload, which clears a topic
    Periods,         \* message expiry intervals a publish may carry
    Never,           \* no deadline
    Absent,          \* history value of a topic without a value; an idle reader
    Readers,         \* tasks that read the store
    MaxTime          \* bound of the model's clock

ASSUME StoreAssumption ==
    /\ IsFiniteSet(Topics)
    /\ Empty \notin Payloads
    /\ Periods \subseteq Nat
    /\ MaxTime \in Nat
    /\ Never \notin Int
    /\ Absent \notin Int

Entry == [payload : Payloads, expires_at : Nat \cup {Never}]

ASSUME AbsentAssumption == Absent \notin Entry

VARIABLES
    entries,          \* topic -> Entry, for the topics that have one
    expirations,      \* the expiry index: pairs <<deadline, topic>>
    maximum_entries,
    clock,            \* Instant::now()
    asked,            \* reader -> the `now' it read, or Absent
    answer,           \* the last answer a reader got: topic -> Entry
    asof,             \* the `now' that answer was asked with
    written           \* history: topic -> its last written Entry or Absent

storeState == <<entries, expirations, maximum_entries>>
storeReads == <<asked, answer, asof>>
storeVars == <<storeState, clock, storeReads, written>>

Only(f, S) == [t \in (DOMAIN f) \cap S |-> f[t]]

----------------------------------------------------------------------------
(* purge_expired: every index pair whose deadline is not after `now' is     *)
(* popped, and takes its topic along if the topic still has that deadline.  *)

DueBefore(now) == {x \in expirations : x[1] < now}
DueEarly(now) == {x \in expirations : x[1] <= now + 1}
Due(now) == {x \in expirations : x[1] <= now}

Purged(now) ==
    Only(entries, {t \in DOMAIN entries : <<entries[t].expires_at, t>> \notin Due(now)})

----------------------------------------------------------------------------
\* FromType::Custom and FromType::LastWill; the broker's own messages
\* (heartbeat, error notifications) are FromType::System and leave no trace.
Retainable == {"custom", "last_will"}

\* The index without the pair of the value that is about to be replaced.
IndexKept(t, now) == expirations \ Due(now)
IndexWithout(t, now) ==
    LET kept == Purged(now) IN
    IF t \in DOMAIN kept
      THEN (expirations \ Due(now)) \ {<<kept[t].expires_at, t>>}
      ELSE expirations \ Due(now)

Clear(t) ==
    /\ entries' = Only(Purged(clock), Topics \ {t})
    /\ expirations' = IndexWithout(t, clock)
    /\ written' = [written EXCEPT ![t] = Absent]
    /\ UNCHANGED <<maximum_entries, clock>>

\* The index pair of a value, if it has a deadline.
PairAlways(t, deadline) == {<<deadline, t>>}
PairOf(t, deadline) == IF deadline = Never THEN {} ELSE {<<deadline, t>>}

\* period is Never when the publish has no message expiry interval; later is
\* the second reading of the clock.
Store(t, payload, period, later) ==
    LET deadline == IF period = Never THEN Never ELSE later + period
        entry    == [payload |-> payload, expires_at |-> deadline]
        kept     == Purged(clock)
        size     == Cardinality(DOMAIN entries')
    IN  /\ later \in clock..MaxTime
        /\ clock' = later
        /\ entries' = [u \in DOMAIN kept \cup {t} |-> IF u = t THEN entry ELSE kept[u]]
        /\ expirations' = IndexWithout(t, clock) \cup PairOf(t, deadline)
        /\ maximum_entries' = IF size > maximum_entries THEN size ELSE maximum_entries
        /\ written' = [written EXCEPT ![t] = entry]

\* MemoryRetainStorage::set
Set(from, t, payload, period, later) ==
    /\ from \in Retainable
    /\ IF payload = Empty THEN Clear(t) ELSE Store(t, payload, period, later)
    /\ UNCHANGED storeReads

SetRefused(from) == from \notin Retainable /\ UNCHANGED storeVars

----------------------------------------------------------------------------
(* get, get_all_paginated and count: the clock is read, then the lock is    *)
(* taken, then the store purged as of that reading.  The answer is kept     *)
(* whole; a filter, a page or a count only selects from it.                 *)

Ask(r) ==
    /\ asked[r] = Absent
    /\ asked' = [asked EXCEPT ![r] = clock]
    /\ UNCHANGED <<storeState, clock, answer, asof, written>>

Read(r) ==
    /\ asked[r] # Absent
    /\ entries' = Purged(asked[r])
    /\ expirations' = expirations \ Due(asked[r])
    /\ answer' = entries'
    /\ asof' = asked[r]
    /\ asked' = [asked EXCEPT ![r] = Absent]
    /\ UNCHANGED <<maximum_entries, clock, written>>

Tick ==
    /\ clock < MaxTime
    /\ clock' = clock + 1
    /\ UNCHANGED <<storeState, storeReads, written>>

----------------------------------------------------------------------------
StoreInit ==
    /\ entries = [t \in {} |-> Absent]
    /\ expirations = {}
    /\ maximum_entries = 0
    /\ clock = 0
    /\ asked = [r \in Readers |-> Absent]
    /\ answer = [t \in {} |-> Absent]
    /\ asof = 0
    /\ written = [t \in Topics |-> Absent]

StoreNext ==
    \/ Tick
    \/ \E from \in Retainable \cup {"system"} :
          \/ SetRefused(from)
          \/ \E t \in Topics, payload \in Payloads \cup {Empty},
                period \in Periods \cup {Never}, later \in clock..MaxTime :
                Set(from, t, payload, period, later)
    \/ \E r \in Readers : Ask(r) \/ Read(r)

StoreSpec == StoreInit /\ [][StoreNext]_storeVars

----------------------------------------------------------------------------
(* Entries, expiry index and readers have their types (retained.rs lines    *)
(* 26-37).                                                                  *)
StoreTypeOK ==
    /\ DOMAIN entries \subseteq Topics
    /\ entries \in [DOMAIN entries -> Entry]
    /\ expirations \subseteq Nat \X Topics
    /\ maximum_entries \in Nat
    /\ clock \in 0..MaxTime
    /\ asked \in [Readers -> 0..MaxTime \cup {Absent}]
    /\ DOMAIN answer \subseteq Topics
    /\ answer \in [DOMAIN answer -> Entry]
    /\ asof \in 0..MaxTime
    /\ written \in [Topics -> Entry \cup {Absent}]

ExpiredAt(entry, now) == entry.expires_at # Never /\ entry.expires_at <= now

(* The expiry index holds exactly the deadlines of the stored values: an    *)
(* overwrite or a clear leaves no deadline behind (lines 99-103), so the    *)
(* index cannot outgrow the store, and no value with a deadline misses one  *)
(* (lines 109-111).                                                         *)
IndexMatchesEntries ==
    expirations = {<<entries[t].expires_at, t>> :
                      t \in {u \in DOMAIN entries : entries[u].expires_at # Never}}

(* retained.rs lines 2-3: "A message remains until overwritten, explicitly  *)
(* cleared, expired [...]".  The store has the last written value of every  *)
(* topic until that value's own deadline has passed: the deadline of an     *)
(* overwritten value never takes the new one away.                          *)
RemainsUntilExpired ==
    \A t \in Topics :
        /\ t \in DOMAIN entries => entries[t] = written[t]
        /\ written[t] # Absent /\ ~ExpiredAt(written[t], clock) => t \in DOMAIN entries

(* A reader gets every value that is live when it holds the lock, and none  *)
(* that had expired when it asked, however long it waited for the lock and  *)
(* whatever others stored or purged meanwhile (lines 122-124).              *)
ReadsSeeTheLiveValues ==
    [][\A r \in Readers : asked[r] # Absent /\ asked'[r] = Absent =>
          \A t \in Topics :
             /\ written[t] # Absent /\ ~ExpiredAt(written[t], clock) =>
                    t \in DOMAIN answer' /\ answer'[t] = written[t]
             /\ t \in DOMAIN answer' => ~ExpiredAt(answer'[t], asof')]_storeVars
============================================================================
