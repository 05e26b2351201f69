------------------------- MODULE StatusGuard_proofs -------------------------
(* What the stale-status guard keeps, proved for any set of keys, any       *)
(* capacity, any TTL and sweep interval and any bound of the model.         *)
(*                                                                          *)
(* GuardInv is inductive as it stands: the eviction pops a known key only   *)
(* while the deque and the map agree, and the map stays within its capacity *)
(* only because the eviction pops a known key.  The two history properties  *)
(* rest on it and on each other.                                            *)
EXTENDS StatusGuard, FiniteSetTheorems, WellFoundedInduction, TLAPS

----------------------------------------------------------------------------
(* The oldest entry of the deque.                                           *)

(* A set of natural numbers that is not empty has a least element: the      *)
(* front of the deque exists.                                               *)
LEMMA LeastNatural ==
    ASSUME NEW T, T \subseteq Nat, T # {}
    PROVE  \E x \in T : \A y \in T : x <= y
<1> DEFINE less == {ss \in Nat \X Nat : ss[1] < ss[2]}
<1>1. IsWellFoundedOn(less, Nat)
  BY NatLessThanWellFounded DEF OpToRel
<1>2. \A x, y \in Nat : y < x => <<y, x>> \in less
  OBVIOUS
<1> HIDE DEF less
<1>3. PICK x \in T : \A y \in T : ~(<<y, x>> \in less)
  BY <1>1, WFMin
<1>4. ASSUME NEW y \in T PROVE x <= y
  <2>1. x \in Nat /\ y \in Nat
    OBVIOUS
  <2>2. ~(y < x)
    BY <1>2, <1>3, <2>1
  <2> QED
    BY <2>1, <2>2
<1> QED
  BY <1>4

(* pop_front returns an entry of the deque, one with the smallest ticket    *)
(* (status_guard.rs line 101).                                              *)
LEMMA OldestEntryIsFirst ==
    ASSUME NEW entries, entries \subseteq Nat \X Keys, entries # {}
    PROVE  /\ OldestEntry(entries) \in entries
           /\ \A f \in entries : OldestEntry(entries)[1] <= f[1]
<1> DEFINE tickets == {e[1] : e \in entries}
<1>1. tickets \subseteq Nat /\ tickets # {}
  OBVIOUS
<1> HIDE DEF tickets
<1>2. PICK t \in tickets : \A u \in tickets : t <= u
  BY <1>1, LeastNatural
<1>3. PICK e \in entries : e[1] = t
  BY DEF tickets
<1>4. \A f \in entries : e[1] <= f[1]
  BY <1>2, <1>3 DEF tickets
<1> QED
  BY <1>4 DEF OldestEntry

----------------------------------------------------------------------------
(* The sweep keeps the two indexes in step (status_guard.rs lines 61-76).   *)
LEMMA SweepKeepsIndexes ==
    ASSUME GuardInv, NEW now
    PROVE  /\ Surviving(now) \subseteq DOMAIN latest
           /\ InsertionAfterSweep(now) \subseteq insertion
           /\ KeysIn(InsertionAfterSweep(now)) = Surviving(now)
BY DEF GuardInv, GuardTypeOK, InsertionMatchesRecords, Surviving,
       InsertionAfterSweep, KeysIn

(* The sweep leaves no more keys than there were.                           *)
LEMMA SweepKeepsCapacity ==
    ASSUME GuardInv, NEW now
    PROVE  /\ IsFiniteSet(Surviving(now))
           /\ Cardinality(Surviving(now)) \in Nat
           /\ Cardinality(Surviving(now)) <= Capacity
<1>1. IsFiniteSet(DOMAIN latest)
  BY GuardAssumption, FS_Subset DEF GuardInv, GuardTypeOK
<1>2. /\ IsFiniteSet(Surviving(now))
      /\ Cardinality(Surviving(now)) <= Cardinality(DOMAIN latest)
  BY <1>1, FS_Subset, SweepKeepsIndexes
<1>3. Cardinality(Surviving(now)) \in Nat /\ Cardinality(DOMAIN latest) \in Nat
  BY <1>1, <1>2, FS_CardinalityType
<1> QED
  BY <1>2, <1>3, GuardAssumption DEF GuardInv, CapacityRespected

----------------------------------------------------------------------------
(* A refused status only sweeps.                                            *)
LEMMA RefuseKeepsGuardInv ==
    ASSUME GuardInv, NEW now \in 0..clock,
           last_sweep_at' = IF SweepDue(now) THEN now ELSE last_sweep_at,
           RefuseStatus(now), UNCHANGED clock
    PROVE  GuardInv'
<1> USE DEF RefuseStatus, guardHistory
<1>1. DOMAIN latest' = Surviving(now)
  OBVIOUS
<1>2. GuardTypeOK'
  <2>1. last_sweep_at' \in 0..MaxTime
    BY GuardAssumption DEF GuardInv, GuardTypeOK
  <2>2. latest' \in [DOMAIN latest' -> Record]
    BY <1>1, SweepKeepsIndexes DEF GuardInv, GuardTypeOK
  <2> QED
    BY <1>1, <2>1, <2>2, SweepKeepsIndexes DEF GuardInv, GuardTypeOK
<1>3. InsertionMatchesRecords'
  BY <1>1, SweepKeepsIndexes DEF GuardInv, InsertionMatchesRecords, KeysIn
<1>4. CapacityRespected'
  BY <1>1, SweepKeepsCapacity DEF CapacityRespected
<1> QED
  BY <1>2, <1>3, <1>4 DEF GuardInv

(* An accepted status sweeps, records and evicts at most one key.           *)
LEMMA RecordKeepsGuardInv ==
    ASSUME GuardInv, NEW k \in Keys, NEW ts \in Timestamps, NEW now \in 0..clock,
           last_sweep_at' = IF SweepDue(now) THEN now ELSE last_sweep_at,
           RecordStatus(k, ts, now), UNCHANGED clock
    PROVE  GuardInv'
<1> DEFINE new     == k \notin Surviving(now)
           known   == Surviving(now) \cup {k}
           entries == InsertionAfterSweep(now)
                          \cup (IF new THEN {<<ticket, k>>} ELSE {})
           popped  == IF OverCapacity(known) THEN {OldestEntry(entries)} ELSE {}
           record  == NewRecord(ts, now)
<1>1. /\ latest' = [j \in known \ KeysIn(popped) |->
                       IF j = k THEN record ELSE latest[j]]
      /\ insertion' = entries \ popped
      /\ ticket' = IF new THEN ticket + 1 ELSE ticket
      /\ accepted' = [accepted EXCEPT ![k] = record]
      /\ evicted' = (evicted \ {k}) \cup KeysIn(popped)
  BY DEF RecordStatus
<1>2. record \in Record
  BY GuardAssumption DEF NewRecord, Record, GuardInv, GuardTypeOK
<1>3. entries \subseteq Nat \X Keys /\ KeysIn(entries) = known
  <2>1. entries \subseteq Nat \X Keys
    BY SweepKeepsIndexes DEF GuardInv, GuardTypeOK
  <2>2. CASE new
    <3>1. entries = InsertionAfterSweep(now) \cup {<<ticket, k>>}
      BY <2>2
    <3> HIDE DEF entries
    <3>2. KeysIn(entries) = KeysIn(InsertionAfterSweep(now)) \cup {k}
      <4>1. \A x \in KeysIn(entries) :
                x \in KeysIn(InsertionAfterSweep(now)) \/ x = k
        BY <3>1 DEF KeysIn
      <4>2. KeysIn(InsertionAfterSweep(now)) \subseteq KeysIn(entries)
        BY <3>1 DEF KeysIn
      <4>3. k \in KeysIn(entries)
        BY <3>1, <<ticket, k>> \in entries, <<ticket, k>>[2] = k DEF KeysIn
      <4> QED
        BY <4>1, <4>2, <4>3
    <3> QED
      BY <2>1, <3>2, SweepKeepsIndexes
  <2>3. CASE ~new
    <3>1. entries = InsertionAfterSweep(now) /\ known = Surviving(now)
      BY <2>3
    <3> QED
      BY <2>1, <3>1, SweepKeepsIndexes
  <2> QED
    BY <2>2, <2>3
<1>4. \A e, f \in entries : e[1] = f[1] \/ e[2] = f[2] => e = f
  <2>1. \A e \in InsertionAfterSweep(now) :
            /\ e \in insertion /\ e[1] < ticket /\ e[2] \in Surviving(now)
    BY SweepKeepsIndexes DEF GuardInv, InsertionMatchesRecords, KeysIn
  <2>2. \A e \in InsertionAfterSweep(now) : new => e[1] # ticket /\ e[2] # k
    BY <2>1, SweepKeepsIndexes DEF GuardInv, GuardTypeOK
  <2> QED
    BY <2>1, <2>2 DEF GuardInv, InsertionMatchesRecords
<1>5. \A e \in entries : e[1] < ticket'
  BY <1>1, SweepKeepsIndexes DEF GuardInv, GuardTypeOK, InsertionMatchesRecords
<1>6. popped \subseteq entries
  BY <1>3, OldestEntryIsFirst DEF KeysIn
<1>7. IsFiniteSet(known) /\ Cardinality(known) \in Nat
      /\ Cardinality(known) <= Capacity + 1
  <2>1. /\ IsFiniteSet(known)
        /\ Cardinality(known) = IF k \in Surviving(now)
                                THEN Cardinality(Surviving(now))
                                ELSE Cardinality(Surviving(now)) + 1
    BY SweepKeepsCapacity, FS_AddElement
  <2>2. Cardinality(Surviving(now)) \in Nat
        /\ Cardinality(Surviving(now)) <= Capacity
    BY SweepKeepsCapacity
  <2> QED
    BY <2>1, <2>2, GuardAssumption
<1> HIDE DEF new, known, entries, record
<1>8. KeysIn(entries \ popped) = known \ KeysIn(popped)
  BY <1>3, <1>4, <1>6 DEF KeysIn
<1>9. DOMAIN latest' = known \ KeysIn(popped)
  BY <1>1
<1>10. GuardTypeOK'
  <2>1. last_sweep_at' \in 0..MaxTime
    BY GuardAssumption DEF GuardInv, GuardTypeOK
  <2>2. known \subseteq Keys /\ KeysIn(popped) \subseteq Keys
    BY <1>3, <1>6 DEF KeysIn
  <2>3. \A j \in known \ {k} : latest[j] \in Record
    BY SweepKeepsIndexes DEF known, GuardInv, GuardTypeOK
  <2>4. latest' \in [DOMAIN latest' -> Record]
    BY <1>1, <1>2, <1>9, <2>3
  <2>5. ticket' \in Nat
    BY <1>1 DEF GuardInv, GuardTypeOK
  <2>6. accepted' \in [Keys -> Record \cup {NoRecord}]
    BY <1>1, <1>2 DEF GuardInv, GuardTypeOK
  <2>7. evicted' \subseteq Keys
    BY <1>1, <2>2 DEF GuardInv, GuardTypeOK
  <2>8. insertion' \subseteq Nat \X Keys
    BY <1>1, <1>3
  <2>9. DOMAIN latest' \subseteq Keys
    BY <1>9, <2>2
  <2> QED
    BY <2>1, <2>4, <2>5, <2>6, <2>7, <2>8, <2>9 DEF GuardInv, GuardTypeOK
<1>11. InsertionMatchesRecords'
  BY <1>1, <1>4, <1>5, <1>8, <1>9 DEF InsertionMatchesRecords
<1>12. CapacityRespected'
  <2>1. CASE ~OverCapacity(known)
    <3>1. DOMAIN latest' = known
      BY <1>9, <2>1 DEF KeysIn
    <3> QED
      BY <3>1, <2>1, <1>7, GuardAssumption DEF OverCapacity, CapacityRespected
  <2>2. CASE OverCapacity(known)
    <3>1. PICK e \in entries : popped = {e}
      BY <2>2, <1>6
    <3>2. KeysIn(popped) = {e[2]} /\ e[2] \in known
      BY <3>1, <1>3 DEF KeysIn
    <3>3. DOMAIN latest' = known \ {e[2]}
      BY <3>2, <1>9
    <3>4. Cardinality(DOMAIN latest') = Cardinality(known) - 1
      <4>1. IsFiniteSet(known)
        BY <1>7
      <4>2. Cardinality(known \ {e[2]}) = Cardinality(known) - 1
        BY <4>1, <3>2, FS_RemoveElement
      <4> QED
        BY <4>2, <3>3
    <3> QED
      BY <3>4, <1>7, GuardAssumption DEF CapacityRespected
  <2> QED
    BY <2>1, <2>2
<1> QED
  BY <1>10, <1>11, <1>12 DEF GuardInv

----------------------------------------------------------------------------
(* GuardInv is inductive.                                                   *)
LEMMA GuardInvInductive ==
    GuardInv /\ [GuardNext]_guardVars => GuardInv'
<1> SUFFICES ASSUME GuardInv, [GuardNext]_guardVars
             PROVE  GuardInv'
  OBVIOUS
<1>1. CASE Tick
  BY <1>1, GuardAssumption
     DEF Tick, guardState, guardHistory, GuardInv, GuardTypeOK,
         InsertionMatchesRecords, CapacityRespected
<1>2. ASSUME NEW k \in Keys, NEW ts \in Timestamps, NEW now \in 0..clock,
             Offer(k, ts, now)
      PROVE  GuardInv'
  <2>1. /\ last_sweep_at' = IF SweepDue(now) THEN now ELSE last_sweep_at
        /\ RefuseStatus(now) \/ RecordStatus(k, ts, now)
        /\ UNCHANGED clock
    BY <1>2 DEF Offer, AcceptStatus
  <2> QED
    BY <2>1, RefuseKeepsGuardInv, RecordKeepsGuardInv
<1>3. CASE UNCHANGED guardVars
  BY <1>3 DEF guardVars, guardState, guardHistory, GuardInv, GuardTypeOK,
              InsertionMatchesRecords, CapacityRespected
<1> QED
  BY <1>1, <1>2, <1>3 DEF GuardNext

(* Whatever statuses arrive, with whatever clocks: the map and the deque    *)
(* hold the same keys, each once, and never more than the capacity          *)
(* (status_guard.rs lines 15-31, 60-107).                                   *)
THEOREM GuardIsConsistent == GuardSpec => []GuardInv
<1>1. GuardInit => GuardInv
  <2> SUFFICES ASSUME GuardInit PROVE GuardInv
    OBVIOUS
  <2>1. DOMAIN latest = {}
    BY DEF GuardInit
  <2>2. GuardTypeOK
    BY <2>1, GuardAssumption DEF GuardInit, GuardTypeOK
  <2>3. InsertionMatchesRecords
    BY <2>1 DEF GuardInit, InsertionMatchesRecords, KeysIn
  <2>4. CapacityRespected
    BY <2>1, FS_EmptySet, GuardAssumption DEF CapacityRespected
  <2> QED
    BY <2>2, <2>3, <2>4 DEF GuardInv
<1> QED
  BY <1>1, GuardInvInductive, PTL DEF GuardSpec

----------------------------------------------------------------------------
(* What the guard forgets, and when.                                        *)

(* A call that sweeps leaves the sweep time no earlier than it was, because *)
(* a sweep is due only SweepInterval after the last one (line 61).          *)
LEMMA SweepTimeAdvances ==
    ASSUME GuardInv, NEW now \in 0..clock,
           last_sweep_at' = IF SweepDue(now) THEN now ELSE last_sweep_at
    PROVE  /\ last_sweep_at' \in Nat
           /\ last_sweep_at <= last_sweep_at'
           /\ SweepDue(now) => last_sweep_at' = now
BY GuardAssumption DEF GuardInv, GuardTypeOK, SweepDue

(* A record the sweep drops had reached its TTL by the new sweep time.      *)
LEMMA SweptIsOld ==
    ASSUME GuardInv, NEW now \in 0..clock,
           last_sweep_at' = IF SweepDue(now) THEN now ELSE last_sweep_at,
           NEW k \in DOMAIN latest, k \notin Surviving(now)
    PROVE  latest[k].received + TTL <= last_sweep_at'
BY SweepTimeAdvances DEF Surviving, Expired

(* One call of accept_status keeps the account of what was forgotten.       *)
LEMMA ForgottenInductive ==
    GuardInv /\ ForgottenOnlyByAgeOrCapacity /\ [GuardNext]_guardVars
        => ForgottenOnlyByAgeOrCapacity'
<1> SUFFICES ASSUME GuardInv, ForgottenOnlyByAgeOrCapacity, [GuardNext]_guardVars
             PROVE  ForgottenOnlyByAgeOrCapacity'
  OBVIOUS
<1>1. CASE Tick
  BY <1>1 DEF Tick, guardState, guardHistory, ForgottenOnlyByAgeOrCapacity
<1>2. ASSUME NEW k \in Keys, NEW ts \in Timestamps, NEW now \in 0..clock,
             Offer(k, ts, now)
      PROVE  ForgottenOnlyByAgeOrCapacity'
  <2>0. last_sweep_at' = IF SweepDue(now) THEN now ELSE last_sweep_at
    BY <1>2 DEF Offer, AcceptStatus
  <2>1. \A j \in Keys :
            /\ j \in Surviving(now) => /\ j \in DOMAIN latest
                                       /\ latest[j] = accepted[j]
                                       /\ j \notin evicted
            /\ accepted[j] # NoRecord /\ j \notin Surviving(now) =>
                   j \in evicted \/ accepted[j].received + TTL <= last_sweep_at'
    <3> SUFFICES ASSUME NEW j \in Keys
                 PROVE  /\ j \in Surviving(now) => /\ j \in DOMAIN latest
                                                   /\ latest[j] = accepted[j]
                                                   /\ j \notin evicted
                        /\ accepted[j] # NoRecord /\ j \notin Surviving(now) =>
                               \/ j \in evicted
                               \/ accepted[j].received + TTL <= last_sweep_at'
      OBVIOUS
    <3>1. CASE j \in DOMAIN latest
      BY <3>1, <2>0, SweptIsOld, SweepKeepsIndexes
         DEF ForgottenOnlyByAgeOrCapacity
    <3>2. CASE j \notin DOMAIN latest
      <4>1. accepted[j] # NoRecord => accepted[j].received \in Nat
        BY DEF GuardInv, GuardTypeOK, Record
      <4>2. /\ last_sweep_at \in Nat /\ last_sweep_at' \in Nat
            /\ last_sweep_at <= last_sweep_at'
        BY <2>0, SweepTimeAdvances DEF GuardInv, GuardTypeOK
      <4>3. j \notin Surviving(now)
        BY <3>2, SweepKeepsIndexes
      <4> QED
        BY <3>2, <4>1, <4>2, <4>3, GuardAssumption
           DEF ForgottenOnlyByAgeOrCapacity
    <3> QED
      BY <3>1, <3>2
  <2>2. CASE RefuseStatus(now)
    BY <2>1, <2>2 DEF RefuseStatus, guardHistory, ForgottenOnlyByAgeOrCapacity
  <2>3. CASE RecordStatus(k, ts, now)
    <3> DEFINE known == Surviving(now) \cup {k}
    <3>1. PICK popped :
             /\ latest' = [j \in known \ KeysIn(popped) |->
                              IF j = k THEN NewRecord(ts, now) ELSE latest[j]]
             /\ accepted' = [accepted EXCEPT ![k] = NewRecord(ts, now)]
             /\ evicted' = (evicted \ {k}) \cup KeysIn(popped)
      BY <2>3 DEF RecordStatus
    <3>2. \A j \in Keys : accepted'[j] = IF j = k THEN NewRecord(ts, now)
                                                  ELSE accepted[j]
      BY <3>1 DEF GuardInv, GuardTypeOK
    <3> QED
      BY <2>1, <3>1, <3>2 DEF ForgottenOnlyByAgeOrCapacity
  <2> QED
    BY <1>2, <2>2, <2>3 DEF Offer, AcceptStatus
<1>3. CASE UNCHANGED guardVars
  BY <1>3 DEF guardVars, guardState, guardHistory, ForgottenOnlyByAgeOrCapacity
<1> QED
  BY <1>1, <1>2, <1>3 DEF GuardNext

(* A record leaves the guard only by capacity or when a sweep finds it TTL  *)
(* old by broker receipt time; while it is kept it is the last accepted     *)
(* status of its key.  Late callers and slow device clocks change nothing   *)
(* (status_guard.rs lines 61-76).                                           *)
THEOREM GuardForgetsOnlyByAgeOrCapacity ==
    GuardSpec => []ForgottenOnlyByAgeOrCapacity
<1>1. GuardInit => ForgottenOnlyByAgeOrCapacity
  BY DEF GuardInit, ForgottenOnlyByAgeOrCapacity
<1> QED
  BY <1>1, GuardIsConsistent, ForgottenInductive, PTL DEF GuardSpec

(* An accepted status never goes back in device time behind the last        *)
(* accepted one of its key, unless that one was evicted or had aged out     *)
(* (status_guard.rs lines 79-88).                                           *)
THEOREM GuardNeverRegresses == GuardSpec => AcceptedNeverRegresses
<1> DEFINE Regress == \A k \in Keys :
                         accepted[k] # NoRecord /\ accepted'[k] # accepted[k] =>
                             \/ accepted'[k].ts >= accepted[k].ts
                             \/ k \in evicted
                             \/ accepted[k].received + TTL <= last_sweep_at'
<1>1. ASSUME GuardInv, ForgottenOnlyByAgeOrCapacity, [GuardNext]_guardVars
      PROVE  [Regress]_guardVars
  <2> SUFFICES ASSUME NEW j \in Keys, accepted[j] # NoRecord,
                      accepted'[j] # accepted[j], j \notin evicted,
                      ~(accepted'[j].ts >= accepted[j].ts)
               PROVE  accepted[j].received + TTL <= last_sweep_at'
    OBVIOUS
  <2>1. PICK k \in Keys, ts \in Timestamps, now \in 0..clock : Offer(k, ts, now)
    BY <1>1 DEF GuardNext, Tick, guardVars, guardHistory
  <2>2. last_sweep_at' = IF SweepDue(now) THEN now ELSE last_sweep_at
    BY <2>1 DEF Offer, AcceptStatus
  <2>3. ~IsStale(k, ts, now) /\ accepted' = [accepted EXCEPT ![k] = NewRecord(ts, now)]
    BY <2>1 DEF Offer, AcceptStatus, RefuseStatus, RecordStatus, guardHistory
  <2>4. j = k /\ accepted'[j].ts = ts
    BY <1>1, <2>3 DEF GuardInv, GuardTypeOK, NewRecord
  <2>5. ts \in Nat /\ accepted[j].ts \in Nat /\ accepted[j].received \in Nat
    BY <1>1, GuardAssumption DEF GuardInv, GuardTypeOK, Record
  <2>6. CASE j \in DOMAIN latest
    <3>1. latest[j] = accepted[j]
      BY <1>1, <2>6 DEF ForgottenOnlyByAgeOrCapacity
    <3>2. j \notin Surviving(now)
      BY <2>3, <2>4, <2>5, <3>1 DEF IsStale
    <3> QED
      BY <1>1, <2>2, <2>6, <3>1, <3>2, SweptIsOld
  <2>7. CASE j \notin DOMAIN latest
    <3>1. accepted[j].received + TTL <= last_sweep_at
      BY <1>1, <2>7 DEF ForgottenOnlyByAgeOrCapacity
    <3>2. /\ last_sweep_at \in Nat /\ last_sweep_at' \in Nat
          /\ last_sweep_at <= last_sweep_at'
      BY <1>1, <2>2, SweepTimeAdvances DEF GuardInv, GuardTypeOK
    <3> QED
      BY <2>5, <3>1, <3>2, GuardAssumption
  <2> QED
    BY <2>6, <2>7
<1> QED
  BY <1>1, GuardIsConsistent, GuardForgetsOnlyByAgeOrCapacity, PTL
     DEF GuardSpec, AcceptedNeverRegresses
============================================================================
