---------------------------- MODULE StatusGuard ----------------------------
(* The stale-status guard of the broker (src/mqtt/broker/status_guard.rs).  *)
(* Per public key it remembers the device timestamp of the newest accepted  *)
(* status and refuses older ones.  Memory is bounded twice: records age out *)
(* after TTL in an amortised sweep, and beyond Capacity the key that was    *)
(* inserted first is evicted.                                               *)
(*                                                                          *)
(* The wall clock is read before the lock is taken (accept_status passes    *)
(* now_ms() as an argument), so a call may reach the lock after one that    *)
(* read a later time: each call carries some `now' in 0..clock.  That also  *)
(* covers a wall clock that is set back.                                    *)
(*                                                                          *)
(* The deque insertion_order is the set of its entries <<ticket, key>>:     *)
(* push_back takes the next ticket, pop_front removes the smallest one.     *)
EXTENDS Integers, FiniteSets

CONSTANTS
    Keys,           \* observer public keys, upper-cased
    Timestamps,     \* device timestamps a status may carry (positive)
    NoRecord,       \* history value of a key that never had a status accepted
    Capacity,       \* MAX_OBSERVED_OBSERVERS
    TTL,            \* STALE_STATUS_GUARD_TTL_MS
    SweepInterval,  \* SWEEP_INTERVAL_MS
    MaxTime,        \* bound of the model's clock
    MaxTickets      \* bound on the insertions of the model

ASSUME GuardAssumption ==
    /\ IsFiniteSet(Keys)
    /\ Timestamps \subseteq Nat \ {0}
    /\ Capacity \in Nat \ {0}
    /\ TTL \in Nat \ {0}
    /\ SweepInterval \in Nat \ {0}
    /\ MaxTime \in Nat
    /\ MaxTickets \in Nat

Record == [ts : Timestamps, received : 0..MaxTime]

ASSUME NoRecordAssumption == NoRecord \notin Record

VARIABLES
    latest,        \* known key -> its newest accepted record
    insertion,     \* insertion_order
    ticket,        \* the next ticket of the deque
    last_sweep_at,
    clock,         \* the wall clock
    accepted,      \* history: key -> record of its last accepted status
    evicted        \* history: keys dropped by capacity since their last acceptance

guardState == <<latest, insertion, ticket, last_sweep_at>>
guardHistory == <<accepted, evicted>>
guardVars == <<guardState, clock, guardHistory>>

KeysIn(entries) == {e[2] : e \in entries}

----------------------------------------------------------------------------
(* The sweep at the head of accept_status_at: once SweepInterval passed,    *)
(* records whose age reached TTL leave `latest', and insertion_order keeps  *)
(* the keys that stay.                                                      *)

SweepDue(now) == now - last_sweep_at >= SweepInterval

ExpiresByDeviceClock(record, now) == record.ts + TTL <= now
Expired(record, now) == record.received + TTL <= now

Surviving(now) ==
    IF SweepDue(now) THEN {k \in DOMAIN latest : ~Expired(latest[k], now)}
                     ELSE DOMAIN latest

InsertionKept(now) == insertion
InsertionAfterSweep(now) ==
    IF SweepDue(now) THEN {e \in insertion : e[2] \in Surviving(now)}
                     ELSE insertion

----------------------------------------------------------------------------
(* Recording an accepted status: a new key joins the end of the deque, a    *)
(* known one keeps its place, and while the map is over capacity the oldest *)
(* entry is popped.  Only the key just inserted can put the map over, so    *)
(* the loop pops at most one entry (InsertionMatchesRecords shows that the  *)
(* popped key is a known one, which ends the loop).                         *)

NeverStale(k, ts, now) == FALSE
IsStale(k, ts, now) == k \in Surviving(now) /\ ts < latest[k].ts

OverCapacity(known) == Cardinality(known) > Capacity

OldestEntry(entries) == CHOOSE e \in entries : \A f \in entries : e[1] <= f[1]

NewRecord(ts, now) == [ts |-> ts, received |-> now]

RecordStatus(k, ts, now) ==
    LET new     == k \notin Surviving(now)
        known   == Surviving(now) \cup {k}
        entries == InsertionAfterSweep(now)
                       \cup (IF new THEN {<<ticket, k>>} ELSE {})
        popped  == IF OverCapacity(known) THEN {OldestEntry(entries)} ELSE {}
        record  == NewRecord(ts, now)
    IN  /\ latest' = [j \in known \ KeysIn(popped) |->
                         IF j = k THEN record ELSE latest[j]]
        /\ insertion' = entries \ popped
        /\ ticket' = IF new THEN ticket + 1 ELSE ticket
        /\ accepted' = [accepted EXCEPT ![k] = record]
        /\ evicted' = (evicted \ {k}) \cup KeysIn(popped)

RefuseStatus(now) ==
    /\ latest' = [k \in Surviving(now) |-> latest[k]]
    /\ insertion' = InsertionAfterSweep(now)
    /\ UNCHANGED <<ticket, guardHistory>>

\* accept_status_at under its lock, for a payload with a usable timestamp
\* (one without returns before the lock and leaves the state alone).
AcceptStatus(k, ts, now) ==
    /\ last_sweep_at' = IF SweepDue(now) THEN now ELSE last_sweep_at
    /\ IF IsStale(k, ts, now) THEN RefuseStatus(now) ELSE RecordStatus(k, ts, now)
    /\ UNCHANGED clock

----------------------------------------------------------------------------
GuardInit ==
    /\ latest = [k \in {} |-> NoRecord]
    /\ insertion = {}
    /\ ticket = 0
    /\ last_sweep_at = 0
    /\ clock = 0
    /\ accepted = [k \in Keys |-> NoRecord]
    /\ evicted = {}

Tick ==
    /\ clock < MaxTime
    /\ clock' = clock + 1
    /\ UNCHANGED <<guardState, guardHistory>>

Offer(k, ts, now) == ticket < MaxTickets /\ AcceptStatus(k, ts, now)

GuardNext ==
    \/ Tick
    \/ \E k \in Keys, ts \in Timestamps, now \in 0..clock : Offer(k, ts, now)

GuardSpec == GuardInit /\ [][GuardNext]_guardVars

----------------------------------------------------------------------------
(* The guard's records, insertion queue and sweep time have their types     *)
(* (status_guard.rs lines 15-31).                                           *)
GuardTypeOK ==
    /\ DOMAIN latest \subseteq Keys
    /\ latest \in [DOMAIN latest -> Record]
    /\ insertion \subseteq Nat \X Keys
    /\ ticket \in Nat
    /\ last_sweep_at \in 0..MaxTime
    /\ clock \in 0..MaxTime
    /\ accepted \in [Keys -> Record \cup {NoRecord}]
    /\ evicted \subseteq Keys

(* insertion_order lists every known key exactly once and nothing else, so  *)
(* the eviction loop always finds the oldest known key (lines 71-76 and     *)
(* 97-105 keep the two in step).                                            *)
InsertionMatchesRecords ==
    /\ KeysIn(insertion) = DOMAIN latest
    /\ \A e, f \in insertion : e[1] = f[1] \/ e[2] = f[2] => e = f
    /\ \A e \in insertion : e[1] < ticket

(* The guard never remembers more keys than its capacity (lines 100-105).   *)
CapacityRespected == Cardinality(DOMAIN latest) <= Capacity

(* What the guard's structures keep between calls (lines 15-31, 60-107):    *)
(* their types, two indexes in step, and no more keys than the capacity.    *)
(* None of the parts survives a step without the others: eviction pops the  *)
(* right key only while the indexes agree.                                  *)
GuardInv == GuardTypeOK /\ InsertionMatchesRecords /\ CapacityRespected

(* A key's record is lost only by capacity or because a sweep found it TTL  *)
(* old by broker receipt time; while it is kept it is the last accepted     *)
(* status.  A refusal, a sweep of another key or a late caller never loses  *)
(* it (lines 61-76: "a slow device clock cannot expire the record early").  *)
ForgottenOnlyByAgeOrCapacity ==
    \A k \in Keys :
        /\ k \in DOMAIN latest => latest[k] = accepted[k] /\ k \notin evicted
        /\ accepted[k] # NoRecord /\ k \notin DOMAIN latest =>
               k \in evicted \/ accepted[k].received + TTL <= last_sweep_at

(* An accepted status is never older than the last accepted one of its key, *)
(* unless that one was evicted or aged out by then (lines 79-88).           *)
AcceptedNeverRegresses ==
    [][\A k \in Keys :
          accepted[k] # NoRecord /\ accepted'[k] # accepted[k] =>
              \/ accepted'[k].ts >= accepted[k].ts
              \/ k \in evicted
              \/ accepted[k].received + TTL <= last_sweep_at']_guardVars
============================================================================
