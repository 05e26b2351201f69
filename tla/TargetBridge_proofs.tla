------------------------ MODULE TargetBridge_proofs ------------------------
(* The bookkeeping and the delivery order of the bridge to the target       *)
(* broker, proved for any number of publish hooks, any limit of pending     *)
(* messages and any number of offers.                                       *)
(*                                                                          *)
(* The counts add up only together with where the worker is: it holds a     *)
(* message exactly at the steps between receive and release, and nothing    *)
(* has been abandoned before the abort that stop() ends with.  The refinement needs the order of  *)
(* what is in flight: channel before hand before queue.                     *)
EXTENDS TargetBridge, FiniteSetTheorems, WellFoundedInduction, TLAPS

----------------------------------------------------------------------------
(* Sequences.                                                               *)

LEMMA ToSetAppend ==
    ASSUME NEW S, NEW s \in Seq(S), NEW x \in S
    PROVE  ToSet(Append(s, x)) = ToSet(s) \cup {x}
<1>1. DOMAIN Append(s, x) = 1..(Len(s) + 1) /\ DOMAIN s = 1..Len(s)
  OBVIOUS
<1>2. /\ Append(s, x)[Len(s) + 1] = x
      /\ \A i \in 1..Len(s) : Append(s, x)[i] = s[i]
  OBVIOUS
<1>3. Len(s) \in Nat
  OBVIOUS
<1> QED
  BY <1>1, <1>2, <1>3 DEF ToSet

LEMMA ToSetTail ==
    ASSUME NEW S, NEW s \in Seq(S), s # << >>
    PROVE  /\ ToSet(s) = ToSet(Tail(s)) \cup {Head(s)}
           /\ Head(s) \in S
           /\ Tail(s) \in Seq(S)
<1>1. DOMAIN Tail(s) = 1..(Len(s) - 1) /\ DOMAIN s = 1..Len(s)
      /\ Len(s) \in Nat /\ Len(s) > 0
  OBVIOUS
<1>2. /\ s[1] = Head(s)
      /\ \A i \in 1..(Len(s) - 1) : Tail(s)[i] = s[i + 1]
  OBVIOUS
<1>3. \A i \in 2..Len(s) : i - 1 \in 1..(Len(s) - 1) /\ s[i] = Tail(s)[i - 1]
  BY <1>1, <1>2
<1>4. ToSet(s) \subseteq ToSet(Tail(s)) \cup {Head(s)}
  <2>1. \A i \in 2..Len(s) : s[i] \in ToSet(Tail(s))
    BY <1>1, <1>3 DEF ToSet
  <2>2. \A i \in 1..Len(s) : i = 1 \/ i \in 2..Len(s)
    BY <1>1
  <2> QED
    BY <1>1, <1>2, <2>1, <2>2 DEF ToSet
<1>5. ToSet(Tail(s)) \subseteq ToSet(s)
  BY <1>1, <1>2 DEF ToSet
<1>6. Head(s) \in ToSet(s)
  BY <1>1, <1>2 DEF ToSet
<1> QED
  BY <1>4, <1>5, <1>6

LEMMA ToSetEmpty == ToSet(<< >>) = {}
BY DEF ToSet

(* WriteTracker::remove leaves a queue of callbacks (tracker.rs line 33).   *)
LEMMA RemoveFirstType ==
    ASSUME NEW S, NEW s \in Seq(S), NEW e
    PROVE  RemoveFirst(s, e) \in Seq(S)
<1> DEFINE I == {i \in 1..Len(s) : s[i] = e}
<1>1. CASE I = {}
  BY <1>1 DEF RemoveFirst
<1>2. CASE I # {}
  <2>1. PICK least \in I : \A i \in I : least <= i
    <3>1. I \subseteq Nat
      OBVIOUS
    <3> DEFINE less == {ss \in Nat \X Nat : ss[1] < ss[2]}
    <3>2. IsWellFoundedOn(less, Nat)
      BY NatLessThanWellFounded DEF OpToRel
    <3>3. \A x, y \in Nat : y < x => <<y, x>> \in less
      OBVIOUS
    <3> HIDE DEF less, I
    <3>4. PICK x \in I : \A y \in I : ~(<<y, x>> \in less)
      BY <1>2, <3>1, <3>2, WFMin
    <3>5. ASSUME NEW y \in I PROVE x <= y
      <4>1. x \in Nat /\ y \in Nat
        BY <3>1
      <4>2. ~(y < x)
        BY <3>3, <3>4, <4>1
      <4> QED
        BY <4>1, <4>2
    <3> QED
      BY <3>5
  <2>2. Min(I) \in I
    BY <2>1 DEF Min
  <2>3. RemoveFirst(s, e) = RemoveAt(s, Min(I))
    BY <1>2 DEF RemoveFirst, SelectInSeq
  <2>4. \A i \in 1..Len(s) : RemoveAt(s, i) \in Seq(S)
    BY DEF RemoveAt
  <2> QED
    BY <2>2, <2>3, <2>4
<1> QED
  BY <1>1, <1>2

----------------------------------------------------------------------------
(* Counting the offers on their way.                                        *)

(* An offer that moves from one stage to another changes the number of      *)
(* offers within a set of stages by what it leaves and what it enters.      *)
LEMMA AtMoves ==
    ASSUME BridgeTypeOK, NEW p \in Publishers, NEW stage, NEW stages,
           OfferGoto(p, stage)
    PROVE  /\ At(stages) \in Nat
           /\ offer[p] \in stages => At(stages) > 0
           /\ At(stages)' = At(stages) - (IF offer[p] \in stages THEN 1 ELSE 0)
                                       + (IF stage \in stages THEN 1 ELSE 0)
<1> DEFINE before == {q \in Publishers : offer[q] \in stages}
           others == before \ {p}
           after  == {q \in Publishers : offer'[q] \in stages}
<1>1. IsFiniteSet(before)
  BY BridgeAssumption, FS_Subset
<1>2. \A q \in Publishers : offer'[q] = IF q = p THEN stage ELSE offer[q]
  BY DEF OfferGoto, BridgeTypeOK
<1>3. after = IF stage \in stages THEN others \cup {p} ELSE others
  BY <1>2
<1>4. p \notin others /\ (p \in before <=> offer[p] \in stages)
  OBVIOUS
<1>5. At(stages) = Cardinality(before) /\ At(stages)' = Cardinality(after)
  BY DEF At
<1> HIDE DEF before, after
<1>6. /\ IsFiniteSet(others)
      /\ Cardinality(others) = IF p \in before THEN Cardinality(before) - 1
                                               ELSE Cardinality(before)
  BY <1>1, FS_RemoveElement
<1>7. Cardinality(before) \in Nat /\ Cardinality(others) \in Nat
  BY <1>1, <1>6, FS_CardinalityType
<1> HIDE DEF others
<1>8. Cardinality(others \cup {p}) = Cardinality(others) + 1
  BY <1>4, <1>6, FS_AddElement
<1> QED
  BY <1>3, <1>4, <1>5, <1>6, <1>7, <1>8

----------------------------------------------------------------------------
(* The inductive invariant.                                                 *)

Stages   == {"idle", "connected?", "reserve", "clone", "send"}
Started  == {"connected?", "reserve", "clone", "send"}
Reserved == {"clone", "send"}
Holding  == {"ready?", "submit", "request", "await", "succeeded", "failed", "release"}

BridgeInv ==
    /\ BridgeTypeOK
    /\ hand # NoMessage <=> worker \in Holding
    /\ ~stopping => stopper = "no"
    /\ stopper \in {"no", "close", "join"} => abandoned = 0
    /\ PendingCountsMessages
    /\ EveryOfferIsCounted

(* The values the counts are made of.                                       *)
LEMMA CountsAreNat ==
    ASSUME BridgeTypeOK, NEW stages
    PROVE  At(stages) \in Nat
<1>1. IsFiniteSet({p \in Publishers : offer[p] \in stages})
  BY BridgeAssumption, FS_Subset
<1> QED
  BY <1>1, FS_CardinalityType DEF At

(* Steps that leave the offers on their way and the counters alone.         *)
LEMMA AtUnchanged ==
    ASSUME UNCHANGED offer, NEW stages
    PROVE  At(stages)' = At(stages)
BY DEF At

InWork == IF hand # NoMessage /\ worker # "release" THEN 1 ELSE 0

(* Both counts, with the work in hand as one of two numbers.                *)
LEMMA CountsUnfolded ==
    /\ EveryOfferIsCounted <=>
          offers = dropped + successful + abandoned + InWork + Len(queue)
                     + At({"connected?", "reserve", "clone", "send"})
    /\ InWork \in {0, 1} /\ Held \in {0, 1}
BY DEF EveryOfferIsCounted, InWork, Held

(* One step of offer_publish.                                               *)
LEMMA OfferKeepsInv ==
    ASSUME BridgeInv, NEW p \in Publishers, BeginOffer(p) \/ OfferStep(p)
    PROVE  BridgeInv'
<1>0. /\ At(Reserved) \in Nat /\ At(Started) \in Nat
      /\ Len(queue) \in Nat
      /\ Held \in {0, 1} /\ InWork \in {0, 1}
      /\ UNCHANGED <<worker, hand, stopper, abandoned, successful, stopping, connected,
                     reconnects, timed_out, tracker, chan, answer, loop, written, completed>>
  <2>1. At(Reserved) \in Nat /\ At(Started) \in Nat
    BY CountsAreNat DEF BridgeInv
  <2> QED
    BY <2>1, CountsUnfolded
       DEF BridgeInv, BridgeTypeOK, BeginOffer, OfferStep, CheckConnected, Reserve,
           CloneSender, TrySend, workerVars, sinkVars, stopVars, counters
<1>1. UNCHANGED <<Held, InWork>>
  BY <1>0 DEF Held, InWork
<1>2. /\ pending = At(Reserved) + Len(queue) + Held + abandoned
      /\ pending <= max_pending
      /\ offers = dropped + successful + abandoned + InWork + Len(queue) + At(Started)
      /\ pending \in Nat /\ dropped \in Nat /\ successful \in Nat /\ offers \in Nat
      /\ abandoned \in Nat /\ accepted \in Nat /\ queue \in Seq(Nat)
      /\ max_pending \in Nat
  BY CountsUnfolded, BridgeAssumption DEF BridgeInv, BridgeTypeOK, PendingCountsMessages, Reserved, Started
<1>3. SUFFICES /\ offer' \in [Publishers -> Stages]
               /\ pending' \in Nat /\ dropped' \in Nat /\ offers' \in Nat
               /\ accepted' \in Nat /\ queue' \in Seq(Nat) /\ tx' = tx
               /\ pending' = At(Reserved)' + Len(queue') + Held + abandoned
               /\ pending' <= max_pending
               /\ offers' = dropped' + successful + abandoned + InWork + Len(queue')
                              + At(Started)'
  <2>1. BridgeTypeOK'
    BY <1>0, <1>3 DEF BridgeInv, BridgeTypeOK, Stages
  <2>2. PendingCountsMessages'
    BY <1>0, <1>1, <1>3 DEF PendingCountsMessages, Reserved
  <2>3. EveryOfferIsCounted'
    BY <1>0, <1>1, <1>3 DEF EveryOfferIsCounted, InWork, Started
  <2> QED
    BY <1>0, <2>1, <2>2, <2>3 DEF BridgeInv
<1>4. ASSUME NEW stage \in Stages, OfferGoto(p, stage)
      PROVE  /\ offer' \in [Publishers -> Stages]
             /\ offer[p] \in Reserved => At(Reserved) > 0
             /\ offer[p] \in Started => At(Started) > 0
             /\ At(Reserved)' = At(Reserved) - (IF offer[p] \in Reserved THEN 1 ELSE 0)
                                             + (IF stage \in Reserved THEN 1 ELSE 0)
             /\ At(Started)' = At(Started) - (IF offer[p] \in Started THEN 1 ELSE 0)
                                           + (IF stage \in Started THEN 1 ELSE 0)
  <2>1. BridgeTypeOK
    BY DEF BridgeInv
  <2>2. offer' \in [Publishers -> Stages]
    BY <2>1, <1>4 DEF BridgeTypeOK, OfferGoto, Stages
  <2> QED
    BY <1>4, <2>1, <2>2, AtMoves
<1>5. /\ Stages = {"idle", "connected?", "reserve", "clone", "send"}
      /\ \A s \in Stages : s \in Reserved <=> s \in {"clone", "send"}
      /\ \A s \in Stages : s \in Started <=> s # "idle"
  BY DEF Stages, Reserved, Started
<1>6. CASE BeginOffer(p)
  <2>1. OfferGoto(p, "connected?") /\ offer[p] = "idle"
    BY <1>6 DEF BeginOffer
  <2>2. At(Reserved)' = At(Reserved) /\ At(Started)' = At(Started) + 1
        /\ offer' \in [Publishers -> Stages]
    BY <1>0, <1>4, <1>5, <2>1
  <2> QED
    BY <1>0, <1>2, <1>6, <2>2 DEF BeginOffer, counters
<1>7. CASE CheckConnected(p)
  <2>1. offer[p] = "connected?"
    BY <1>7 DEF CheckConnected
  <2>2. CASE OfferGoto(p, "reserve") /\ UNCHANGED dropped
    <3>1. At(Reserved)' = At(Reserved) /\ At(Started)' = At(Started)
          /\ offer' \in [Publishers -> Stages]
      BY <1>0, <1>4, <1>5, <2>1, <2>2
    <3> QED
      BY <1>0, <1>2, <1>7, <2>2, <3>1 DEF CheckConnected
  <2>3. CASE OfferGoto(p, "idle") /\ Drop
    <3>1. At(Reserved)' = At(Reserved) /\ At(Started)' = At(Started) - 1
          /\ offer' \in [Publishers -> Stages]
      BY <1>0, <1>4, <1>5, <2>1, <2>3
    <3> QED
      BY <1>0, <1>2, <1>7, <2>3, <3>1 DEF CheckConnected, Drop
  <2> QED
    BY <1>7, <2>2, <2>3 DEF CheckConnected
<1>8. CASE Reserve(p)
  <2>1. offer[p] = "reserve"
    BY <1>8 DEF Reserve
  <2>2. CASE OfferGoto(p, "clone") /\ HasRoom /\ pending' = pending + 1 /\ UNCHANGED dropped
    <3>1. At(Reserved)' = At(Reserved) + 1 /\ At(Started)' = At(Started)
          /\ offer' \in [Publishers -> Stages]
      BY <1>0, <1>4, <1>5, <2>1, <2>2
    <3>2. pending < max_pending /\ UNCHANGED <<tx, queue, accepted, offers>>
      BY <1>8, <2>2 DEF Reserve, HasRoom
    <3>3. pending' \in Nat /\ pending' <= max_pending
      BY <1>2, <2>2, <3>2
    <3> QED
      BY <1>0, <1>2, <2>2, <3>1, <3>2, <3>3
  <2>3. CASE OfferGoto(p, "idle") /\ Drop /\ UNCHANGED pending
    <3>1. At(Reserved)' = At(Reserved) /\ At(Started)' = At(Started) - 1
          /\ offer' \in [Publishers -> Stages]
      BY <1>0, <1>4, <1>5, <2>1, <2>3
    <3> QED
      BY <1>0, <1>2, <1>8, <2>3, <3>1 DEF Reserve, Drop
  <2> QED
    BY <1>8, <2>2, <2>3 DEF Reserve
<1>9. CASE /\ offer[p] \in {"clone", "send"} /\ OfferGoto(p, "idle")
           /\ GiveBack /\ Drop /\ UNCHANGED <<tx, queue, accepted, offers>>
  <2>1. At(Reserved)' = At(Reserved) - 1 /\ At(Started)' = At(Started) - 1
        /\ At(Reserved) > 0 /\ offer' \in [Publishers -> Stages]
    BY <1>0, <1>4, <1>5, <1>9
  <2>2. pending > 0 /\ pending' = pending - 1 /\ dropped' = dropped + 1
    BY <1>0, <1>2, <1>9, <2>1 DEF GiveBack, Drop
  <2>3. pending' = At(Reserved)' + Len(queue') + Held + abandoned
    BY <1>0, <1>2, <1>9, <2>1, <2>2
  <2>4. offers' = dropped' + successful + abandoned + InWork + Len(queue') + At(Started)'
    BY <1>0, <1>2, <1>9, <2>1, <2>2
  <2> QED
    BY <1>2, <1>9, <2>1, <2>2, <2>3, <2>4
<1>10. CASE CloneSender(p)
  <2>1. CASE OfferGoto(p, "send") /\ UNCHANGED <<pending, dropped>>
    <3>1. At(Reserved)' = At(Reserved) /\ At(Started)' = At(Started)
          /\ offer' \in [Publishers -> Stages]
      BY <1>0, <1>4, <1>5, <1>10, <2>1 DEF CloneSender
    <3> QED
      BY <1>0, <1>2, <1>10, <2>1, <3>1 DEF CloneSender
  <2> QED
    BY <1>9, <1>10, <2>1 DEF CloneSender
<1>11. CASE TrySend(p)
  <2>1. CASE worker # "gone" /\ Len(queue) # max_pending
    <3>1. At(Reserved)' = At(Reserved) - 1 /\ At(Started)' = At(Started) - 1
          /\ offer' \in [Publishers -> Stages]
      BY <1>0, <1>4, <1>5, <1>11, <2>1 DEF TrySend
    <3>2. /\ accepted' = accepted + 1 /\ queue' = Append(queue, accepted')
          /\ UNCHANGED <<tx, offers, pending, dropped>>
      BY <1>11, <2>1 DEF TrySend
    <3>3. queue' \in Seq(Nat) /\ Len(queue') = Len(queue) + 1
      BY <1>2, <3>2
    <3>4. pending' = At(Reserved)' + Len(queue') + Held + abandoned
      BY <1>0, <1>2, <3>1, <3>2, <3>3
    <3>5. offers' = dropped' + successful + abandoned + InWork + Len(queue') + At(Started)'
      BY <1>0, <1>2, <3>1, <3>2, <3>3
    <3> QED
      BY <1>2, <3>1, <3>2, <3>3, <3>4, <3>5
  <2> QED
    BY <1>9, <1>11, <2>1 DEF TrySend
<1> QED
  BY <1>6, <1>7, <1>8, <1>10, <1>11 DEF OfferStep

(* The queue's length, as a number.                                         *)
Queued == Len(queue)

LEMMA PlacesArithmetic ==
    ASSUME NEW p1 \in Nat, NEW q1 \in Nat, NEW h1 \in Nat, NEW a1 \in Nat,
           NEW p2 \in Nat, NEW q2 \in Nat, NEW h2 \in Nat, NEW a2 \in Nat,
           NEW r \in Nat,
           p2 + q1 + h1 + a1 = p1 + q2 + h2 + a2,
           p1 = r + q1 + h1 + a1
    PROVE  p2 = r + q2 + h2 + a2
OBVIOUS

(* A step that leaves the offers alone keeps the counts if it keeps these   *)
(* two sums.                                                                *)
LEMMA SumsKeepCounts ==
    ASSUME BridgeInv, BridgeTypeOK', UNCHANGED <<offer, offers, accepted>>,
           pending' <= max_pending,
           pending' + Queued + Held + abandoned
               = pending + Queued' + Held' + abandoned',
           dropped' + successful' + abandoned' + InWork' + Queued'
               = dropped + successful + abandoned + InWork + Queued
    PROVE  PendingCountsMessages' /\ EveryOfferIsCounted'
<1>1. /\ At(Reserved)' = At(Reserved) /\ At(Started)' = At(Started)
      /\ At(Reserved) \in Nat /\ At(Started) \in Nat
  BY AtUnchanged, CountsAreNat DEF BridgeInv
<1>2. /\ pending = At(Reserved) + Queued + Held + abandoned
      /\ offers = dropped + successful + abandoned + InWork + Queued + At(Started)
  BY CountsUnfolded DEF BridgeInv, PendingCountsMessages, Reserved, Started, Queued
<1>3. /\ pending \in Nat /\ dropped \in Nat /\ successful \in Nat /\ abandoned \in Nat
      /\ offers \in Nat /\ Queued \in Nat
  BY DEF BridgeInv, BridgeTypeOK, Queued
<1>3a. /\ pending' \in Nat /\ dropped' \in Nat /\ successful' \in Nat /\ abandoned' \in Nat
       /\ offers' \in Nat /\ queue' \in Seq(Nat)
  BY DEF BridgeTypeOK
<1>3b. Queued' \in Nat
  BY <1>3a DEF Queued
<1>4. InWork \in Nat /\ Held \in Nat /\ InWork' \in Nat /\ Held' \in Nat
  BY DEF InWork, Held
<1>5. pending' = At(Reserved)' + Queued' + Held' + abandoned'
  <2>1. pending' = At(Reserved) + Queued' + Held' + abandoned'
    <3>1. /\ pending \in Nat /\ Queued \in Nat /\ Held \in Nat /\ abandoned \in Nat
          /\ pending' \in Nat /\ Queued' \in Nat /\ Held' \in Nat /\ abandoned' \in Nat
          /\ At(Reserved) \in Nat
      BY <1>1, <1>3, <1>3a, <1>3b, <1>4
    <3>2. pending = At(Reserved) + Queued + Held + abandoned
      BY <1>2
    <3> QED
      BY <3>1, <3>2, PlacesArithmetic
  <2> QED
    BY <1>1, <2>1
<1>6. offers' = dropped' + successful' + abandoned' + InWork' + Queued' + At(Started)'
  BY <1>1, <1>2, <1>3, <1>3a, <1>3b, <1>4
<1> QED
  BY <1>5, <1>6 DEF PendingCountsMessages, EveryOfferIsCounted, InWork, Reserved, Started, Queued

(* One step of the worker.                                                  *)
LEMMA WorkerKeepsInv ==
    ASSUME BridgeInv, WorkerStep
    PROVE  BridgeInv'
<1>1. /\ BridgeTypeOK /\ pending <= max_pending /\ max_pending \in Nat
      /\ NoMessage \notin Nat
      /\ hand # NoMessage <=> worker \in Holding
  BY BridgeAssumption DEF BridgeInv, PendingCountsMessages
<1>2. UNCHANGED <<offer, offers, accepted, tx, stopVars, connected, reconnects, loop, written>>
  BY DEF WorkerStep, Receive, WorkerEnds, EnsureReady, Submit, Request, Answered, Timeout,
         Account, Release, offerVars, sinkVars
<1>3. ASSUME BridgeTypeOK', hand' # NoMessage <=> worker' \in Holding,
             pending' <= max_pending,
             pending' + Queued + Held + abandoned
                 = pending + Queued' + Held' + abandoned',
             dropped' + successful' + abandoned' + InWork' + Queued'
                 = dropped + successful + abandoned + InWork + Queued
      PROVE  BridgeInv'
  <2>1. PendingCountsMessages' /\ EveryOfferIsCounted'
    BY <1>2, <1>3, SumsKeepCounts
  <2> QED
    BY <1>2, <1>3, <2>1 DEF BridgeInv, stopVars
<1>4. /\ pending \in Nat /\ dropped \in Nat /\ successful \in Nat /\ abandoned \in Nat
      /\ Queued \in Nat /\ Queued = Len(queue) /\ queue \in Seq(Nat) /\ tracker \in Seq(Nat) /\ chan \in Seq(Nat)
  BY <1>1 DEF BridgeTypeOK, Queued
<1>5. CASE Receive
  <2>1. /\ worker' = "ready?" /\ worker = "recv" /\ hand = NoMessage
        /\ hand' = Head(queue) /\ queue' = Tail(queue) /\ queue # << >>
    BY <1>1, <1>5 DEF Receive, Holding
  <2>2. hand' \in Nat /\ queue' \in Seq(Nat) /\ Queued' = Queued - 1
    BY <1>4, <2>1 DEF Queued
  <2>3. Held = 0 /\ InWork = 0 /\ Held' = 1 /\ InWork' = 1
    BY <1>1, <2>1, <2>2 DEF Held, InWork
  <2>4. BridgeTypeOK'
    BY <1>1, <1>2, <1>5, <2>2 DEF BridgeTypeOK, Receive, stopVars, counters
  <2> QED
    BY <1>1, <1>2, <1>3, <1>4, <1>5, <2>1, <2>2, <2>3, <2>4
       DEF Receive, Holding, stopVars, counters
<1>6. CASE WorkerEnds
  <2>1. BridgeTypeOK'
    BY <1>1, <1>6 DEF BridgeTypeOK, WorkerEnds, offerVars, sinkVars, stopVars, counters
  <2> QED
    BY <1>1, <1>3, <1>4, <1>6, <2>1
       DEF WorkerEnds, Holding, Held, InWork, Queued, offerVars, stopVars, counters
<1>7. ASSUME worker \in Holding \ {"release"}, worker' \in Holding \ {"release"},
             BridgeTypeOK', UNCHANGED <<hand, queue, counters>>
      PROVE  BridgeInv'
  BY <1>1, <1>2, <1>3, <1>4, <1>7 DEF Held, InWork, Queued, stopVars, counters
<1>8. CASE EnsureReady
  BY <1>1, <1>7, <1>8
     DEF EnsureReady, Holding, BridgeTypeOK, offerVars, sinkVars, stopVars, counters
<1>9. CASE Submit
  <2>1. tracker' \in Seq(Nat)
    BY <1>1, <1>4, <1>9 DEF Submit, BridgeTypeOK, Holding
  <2> QED
    BY <1>1, <1>7, <1>9, <2>1
       DEF Submit, Holding, BridgeTypeOK, offerVars, stopVars, counters
<1>10. CASE Request
  <2>1. hand \in Nat
    BY <1>1, <1>10 DEF Request, BridgeTypeOK, Holding
  <2>2. RemoveFirst(tracker, hand) \in Seq(Nat) /\ Append(chan, hand) \in Seq(Nat)
    BY <1>4, <2>1, RemoveFirstType
  <2>3. tracker' \in Seq(Nat) /\ chan' \in Seq(Nat)
    BY <1>4, <1>10, <2>2 DEF Request
  <2> QED
    BY <1>1, <1>7, <1>10, <2>3
       DEF Request, Holding, BridgeTypeOK, offerVars, stopVars, counters
<1>11. CASE Answered
  BY <1>1, <1>7, <1>11
     DEF Answered, Holding, BridgeTypeOK, offerVars, sinkVars, stopVars, counters
<1>12. CASE Timeout
  BY <1>1, <1>7, <1>12
     DEF Timeout, Holding, BridgeTypeOK, offerVars, sinkVars, stopVars, counters
<1>13. CASE Account
  <2>0. \/ successful' = successful + 1 /\ dropped' = dropped
        \/ successful' = successful /\ dropped' = dropped + 1
    BY <1>13 DEF Account, CountResult, Drop
  <2>1. /\ hand' = hand /\ hand # NoMessage /\ worker # "release" /\ worker' = "release"
        /\ UNCHANGED <<queue, Queued, pending, abandoned>>
    BY <1>1, <1>13 DEF Account, Holding, Queued, offerVars, stopVars
  <2>2. Held' = Held /\ InWork = 1 /\ InWork' = 0
    BY <2>1 DEF Held, InWork
  <2>3. BridgeTypeOK'
    BY <1>1, <1>4, <1>13, <2>0, <2>1
       DEF BridgeTypeOK, Account, Holding, offerVars, sinkVars, stopVars
  <2>4. Held \in Nat
    BY DEF Held
  <2>5. pending' + Queued + Held + abandoned
            = pending + Queued' + Held' + abandoned'
    BY <1>4, <2>1, <2>2, <2>4
  <2>6. dropped' + successful' + abandoned' + InWork' + Queued'
            = dropped + successful + abandoned + InWork + Queued
    <3>1. CASE successful' = successful + 1 /\ dropped' = dropped
      BY <1>4, <2>1, <2>2, <3>1
    <3>2. CASE successful' = successful /\ dropped' = dropped + 1
      BY <1>4, <2>1, <2>2, <3>2
    <3> QED
      BY <2>0, <3>1, <3>2
  <2> QED
    BY <1>1, <1>3, <2>1, <2>3, <2>5, <2>6 DEF Holding
<1>14. CASE Release
  <2>1. /\ worker = "release" /\ worker' = "recv" /\ hand # NoMessage /\ hand' = NoMessage
        /\ UNCHANGED <<queue, Queued, abandoned, dropped, successful>> /\ pending' = pending - 1
    BY <1>1, <1>14 DEF Release, GiveBack, Holding, Queued, offerVars, stopVars
  <2>2. Held = 1 /\ Held' = 0 /\ InWork' = 0 /\ InWork = 0
    BY <2>1 DEF Held, InWork
  <2>3. pending > 0
    <3>1. At(Reserved) \in Nat
      BY <1>1, CountsAreNat
    <3> QED
      BY <1>4, <2>2, <3>1 DEF BridgeInv, PendingCountsMessages, Reserved
  <2>4. BridgeTypeOK'
    BY <1>1, <1>4, <1>14, <2>1, <2>3
       DEF BridgeTypeOK, Release, offerVars, sinkVars, stopVars
  <2> QED
    BY <1>1, <1>3, <1>4, <2>1, <2>2, <2>3, <2>4 DEF Holding
<1> QED
  BY <1>5, <1>6, <1>8, <1>9, <1>10, <1>11, <1>12, <1>13, <1>14 DEF WorkerStep

(* The event loop touches neither the worker nor a count.                   *)
LEMMA LoopKeepsInv ==
    ASSUME BridgeInv, LoopStep \/ ConnAck \/ PollWrites \/ PollFails
    PROVE  BridgeInv'
<1> USE DEF LoopStep, OutgoingEvent, MarkUnavailable, FailCallbacks, ConnAck, PollWrites,
            PollFails
<1>1. UNCHANGED <<offerVars, workerVars, stopVars, counters, reconnects>>
  OBVIOUS
<1>2. tracker \in Seq(Nat) /\ chan \in Seq(Nat) /\ written \in Seq(Nat)
  BY DEF BridgeInv, BridgeTypeOK
<1>3. tracker' \in Seq(Nat) /\ chan' \in Seq(Nat) /\ written' \in Seq(Nat)
  <2>1. << >> \in Seq(Nat)
    OBVIOUS
  <2>2. tracker # << >> => Tail(tracker) \in Seq(Nat)
    BY <1>2
  <2>3. chan # << >> => Tail(chan) \in Seq(Nat) /\ Append(written, Head(chan)) \in Seq(Nat)
    BY <1>2
  <2>4. tracker' \in Seq(Nat)
    BY <1>2, <2>1, <2>2
  <2>5. chan' \in Seq(Nat)
    BY <1>2, <2>1, <2>3
  <2>6. written' \in Seq(Nat)
    BY <1>2, <2>3
  <2> QED
    BY <2>4, <2>5, <2>6
<1>4. answer' \in {NoMessage, "ok", "err"}
  BY DEF BridgeInv, BridgeTypeOK, Complete
<1>5. loop' \in {"down", "up", "event", "error", "drain", "ended"}
      /\ connected' \in BOOLEAN
  BY DEF BridgeInv, BridgeTypeOK
<1>6. BridgeTypeOK'
  BY <1>1, <1>3, <1>4, <1>5
     DEF BridgeInv, BridgeTypeOK, offerVars, workerVars, stopVars, counters
<1> QED
  BY <1>1, <1>6
     DEF BridgeInv, PendingCountsMessages, EveryOfferIsCounted, At, Held,
         offerVars, workerVars, stopVars, counters

(* stop() closes the queue; an abort turns what is held into abandoned.     *)
LEMMA StopKeepsInv ==
    ASSUME BridgeInv, BeginStop \/ StopStep
    PROVE  BridgeInv'
<1>1. CASE BeginStop \/ CloseQueue \/ Join \/ StopSink \/ StopCallbacks \/ AbortLoop
  <2> USE DEF BeginStop, CloseQueue, Join, StopSink, StopCallbacks, AbortLoop
  <2>1. UNCHANGED <<offer, queue, accepted, offers, workerVars, abandoned, counters,
                    reconnects, answer, written>>
    BY <1>1 DEF offerVars, sinkVars
  <2>2. tracker' \in Seq(Nat) /\ chan' \in Seq(Nat)
    <3>1. << >> \in Seq(Nat) /\ tracker \in Seq(Nat) /\ chan \in Seq(Nat)
      BY DEF BridgeInv, BridgeTypeOK
    <3>2. tracker' \in {tracker, << >>} /\ chan' \in {chan, << >>}
      BY <1>1 DEF sinkVars
    <3> QED
      BY <3>1, <3>2
  <2>3. /\ tx' \in BOOLEAN /\ connected' \in BOOLEAN /\ stopping' \in BOOLEAN
        /\ loop' \in {"down", "up", "event", "error", "drain", "ended"}
    BY <1>1 DEF BridgeInv, BridgeTypeOK, sinkVars, offerVars
  <2>4. stopper' \in {"close", "join", "disconnect", "drain", "abort", "stopped"}
    BY <1>1
  <2>5. BridgeTypeOK'
    BY <2>1, <2>2, <2>3, <2>4 DEF BridgeInv, BridgeTypeOK, workerVars, counters
  <2>6. /\ stopper' \in {"no", "close", "join"} => abandoned' = 0
        /\ ~stopping' => stopper' = "no"
    BY <1>1, <2>1 DEF BridgeInv
  <2> QED
    BY <2>1, <2>5, <2>6
       DEF BridgeInv, PendingCountsMessages, EveryOfferIsCounted, At, Held,
           workerVars, counters
<1>2. CASE AbortWorker
  <2>1. /\ worker \in {"recv", "await"} /\ stopper = "join" /\ abandoned = 0
        /\ hand # NoMessage <=> worker = "await"
        /\ worker' = "gone" /\ hand' = NoMessage /\ queue' = << >>
        /\ abandoned' = Len(queue) + (IF worker = "await" THEN 1 ELSE 0)
        /\ UNCHANGED <<offer, offers, accepted, pending, dropped, successful>>
    BY <1>2 DEF BridgeInv, AbortWorker, Holding, counters
  <2>2. /\ pending \in Nat /\ dropped \in Nat /\ successful \in Nat /\ Queued \in Nat
        /\ queue \in Seq(Nat) /\ Queued = Len(queue) /\ Queued' = 0
    BY <2>1 DEF BridgeInv, BridgeTypeOK, Queued
  <2>3. Held \in Nat /\ Held' = 0 /\ InWork = Held /\ InWork' = 0
    BY <2>1 DEF Held, InWork
  <2>4. abandoned' = Queued + Held
    BY <2>1, <2>2 DEF Held
  <2>5. BridgeTypeOK'
    <3>1. abandoned' \in Nat /\ queue' \in Seq(Nat)
      BY <2>1, <2>2, <2>3, <2>4
    <3> QED
      BY <1>2, <2>1, <3>1 DEF BridgeInv, BridgeTypeOK, AbortWorker, sinkVars
  <2>6. pending' + Queued + Held + abandoned = pending + Queued' + Held' + abandoned'
    BY <2>1, <2>2, <2>3, <2>4
  <2>7. dropped' + successful' + abandoned' + InWork' + Queued'
            = dropped + successful + abandoned + InWork + Queued
    <3>1. \A d, m, q, h \in Nat : d + m + (q + h) + 0 + 0 = d + m + 0 + h + q
      OBVIOUS
    <3>2. dropped + successful + (Queued + Held) + 0 + 0
              = dropped + successful + 0 + Held + Queued
      BY <2>2, <2>3, <3>1
    <3> QED
      BY <2>1, <2>2, <2>3, <2>4, <3>2
  <2>8. pending' <= max_pending
    BY <2>1 DEF BridgeInv, PendingCountsMessages
  <2>9. PendingCountsMessages' /\ EveryOfferIsCounted'
    BY <2>1, <2>5, <2>6, <2>7, <2>8, SumsKeepCounts
  <2> QED
    BY <1>2, <2>1, <2>5, <2>9 DEF BridgeInv, AbortWorker, Holding
<1> QED
  BY <1>1, <1>2 DEF StopStep

LEMMA BridgeInvInductive ==
    BridgeInv /\ [BridgeNext]_bridgeVars => BridgeInv'
<1> SUFFICES ASSUME BridgeInv, [BridgeNext]_bridgeVars
             PROVE  BridgeInv'
  OBVIOUS
<1>1. CASE UNCHANGED bridgeVars
  <2>1. BridgeTypeOK'
    BY <1>1 DEF BridgeInv, BridgeTypeOK, bridgeVars, offerVars, workerVars, sinkVars,
                stopVars, counters
  <2> QED
    BY <1>1, <2>1
       DEF BridgeInv, PendingCountsMessages, EveryOfferIsCounted, At, Held, bridgeVars,
           offerVars, workerVars, sinkVars, stopVars, counters
<1> QED
  BY <1>1, OfferKeepsInv, WorkerKeepsInv, LoopKeepsInv, StopKeepsInv DEF BridgeNext

LEMMA BridgeInvInitially == BridgeInit => BridgeInv
<1> SUFFICES ASSUME BridgeInit PROVE BridgeInv
  OBVIOUS
<1>1. BridgeTypeOK
  <2>1. {stopping, tx, connected, reconnects, timed_out} \subseteq BOOLEAN
    BY BridgeAssumption DEF BridgeInit
  <2>2. << >> \in Seq(Nat)
    OBVIOUS
  <2>3. offer \in [Publishers -> Stages]
    BY DEF BridgeInit, Stages
  <2> QED
    BY <2>1, <2>2, <2>3 DEF BridgeInit, BridgeTypeOK, Stages
<1>2. ASSUME NEW stages, "idle" \notin stages PROVE At(stages) = 0
  <2>1. {p \in Publishers : offer[p] \in stages} = {}
    BY <1>2 DEF BridgeInit
  <2> QED
    BY <2>1, FS_EmptySet DEF At
<1>3. At(Reserved) = 0 /\ At(Started) = 0
  BY <1>2 DEF Reserved, Started
<1>4. Len(queue) = 0 /\ Held = 0 /\ InWork = 0
  BY DEF BridgeInit, Held, InWork
<1>5. PendingCountsMessages
  BY <1>3, <1>4, BridgeAssumption DEF BridgeInit, PendingCountsMessages, Reserved
<1>6. EveryOfferIsCounted
  BY <1>3, <1>4, CountsUnfolded DEF BridgeInit, Started
<1> QED
  BY <1>1, <1>5, <1>6 DEF BridgeInit, BridgeInv, Holding

(* On every interleaving of offers, worker, event loop and stop(): every    *)
(* place of the bounded queue is held by exactly one message or offer, the  *)
(* limit is never exceeded, and every offer is counted once as dropped or   *)
(* successful, except those an abort takes along (forwarding.rs lines       *)
(* 97-161, 194-213).                                                        *)
THEOREM BridgeAddsUp == BridgeSpec => []PlacesAndOffersAddUp
<1>1. BridgeInv => PlacesAndOffersAddUp
  BY DEF BridgeInv, PlacesAndOffersAddUp
<1> QED
  BY <1>1, BridgeInvInitially, BridgeInvInductive, PTL DEF BridgeSpec

----------------------------------------------------------------------------
(* The refinement: what is in flight is in the order of acceptance, first   *)
(* the channel of the client, then the worker's hand, then the queue.       *)

Increasing(s) == \A i, j \in 1..Len(s) : i < j => s[i] < s[j]

OnItsWay == worker \in {"ready?", "submit", "request"}
InHand == IF OnItsWay THEN {hand} ELSE {}

FlightOrder ==
    /\ Increasing(chan)
    /\ Increasing(queue)
    /\ \A m \in ToSet(chan) : \A n \in InHand \cup ToSet(queue) : m < n
    /\ \A m \in InHand : \A n \in ToSet(queue) : m < n
    /\ \A m \in InFlight : m <= accepted

LEMMA IncreasingTail ==
    ASSUME NEW s \in Seq(Nat), s # << >>, Increasing(s)
    PROVE  Increasing(Tail(s)) /\ \A m \in ToSet(Tail(s)) : Head(s) < m
<1>1. /\ Len(s) \in Nat /\ Len(s) > 0 /\ Len(Tail(s)) = Len(s) - 1 /\ s[1] = Head(s)
      /\ DOMAIN Tail(s) = 1..Len(Tail(s))
      /\ \A i \in 1..(Len(s) - 1) : Tail(s)[i] = s[i + 1]
  OBVIOUS
<1>2. \A i \in 1..(Len(s) - 1) : i + 1 \in 1..Len(s) /\ 1 < i + 1 /\ 1 \in 1..Len(s)
  BY <1>1
<1>3. \A i \in 1..(Len(s) - 1) : Head(s) < Tail(s)[i]
  BY <1>1, <1>2 DEF Increasing
<1>4. \A i, j \in 1..(Len(s) - 1) : i < j => s[i + 1] < s[j + 1]
  BY <1>2 DEF Increasing
<1> QED
  BY <1>1, <1>3, <1>4 DEF Increasing, ToSet

LEMMA IncreasingAppend ==
    ASSUME NEW s \in Seq(Nat), NEW x \in Nat, Increasing(s), \A m \in ToSet(s) : m < x
    PROVE  Increasing(Append(s, x))
<1>1. /\ Len(s) \in Nat /\ Len(Append(s, x)) = Len(s) + 1 /\ Append(s, x)[Len(s) + 1] = x
      /\ \A i \in 1..Len(s) : Append(s, x)[i] = s[i]
  OBVIOUS
<1>2. \A i \in 1..Len(s) : s[i] < x
  BY DEF ToSet
<1>3. ASSUME NEW i \in 1..(Len(s) + 1), NEW j \in 1..(Len(s) + 1), i < j
      PROVE  Append(s, x)[i] < Append(s, x)[j]
  <2>1. i \in 1..Len(s)
    BY <1>1, <1>3
  <2>2. CASE j = Len(s) + 1
    BY <1>1, <1>2, <2>1, <2>2
  <2>3. CASE j \in 1..Len(s)
    BY <1>1, <1>3, <2>1, <2>3 DEF Increasing
  <2> QED
    BY <1>1, <2>2, <2>3
<1> QED
  BY <1>1, <1>3 DEF Increasing

LEMMA FlightSets ==
    ASSUME BridgeInv
    PROVE  /\ InFlight = ToSet(queue) \cup ToSet(chan) \cup InHand
           /\ InFlight \subseteq Nat
           /\ queue \in Seq(Nat) /\ chan \in Seq(Nat) /\ accepted \in Nat
           /\ OnItsWay => hand \in Nat
<1>1. queue \in Seq(Nat) /\ chan \in Seq(Nat) /\ accepted \in Nat
  BY DEF BridgeInv, BridgeTypeOK
<1>2. OnItsWay => hand \in Nat
  BY DEF BridgeInv, BridgeTypeOK, Holding, OnItsWay
<1>3. InFlight = ToSet(queue) \cup ToSet(chan) \cup InHand
  BY DEF InFlight, InHand, OnItsWay
<1>4. ToSet(queue) \subseteq Nat /\ ToSet(chan) \subseteq Nat
  BY <1>1 DEF ToSet
<1> QED
  BY <1>1, <1>2, <1>3, <1>4 DEF InHand

(* A step that takes messages out of flight, or touches none, is a loss of  *)
(* the promise (of nothing, perhaps).                                       *)
LEMMA LossKeepsOrder ==
    ASSUME BridgeInv, BridgeInv', FlightOrder,
           chan' \in {chan, << >>}, queue' \in {queue, << >>},
           UNCHANGED <<accepted, written>>,
           OnItsWay' => OnItsWay /\ hand' = hand
    PROVE  FlightOrder' /\ Promise!Lose
<1>1. /\ ToSet(chan)' \subseteq ToSet(chan) /\ ToSet(queue)' \subseteq ToSet(queue)
      /\ InHand' \subseteq InHand
  BY ToSetEmpty DEF InHand
<1>2. InFlight' \subseteq InFlight
  BY <1>1, FlightSets DEF InFlight, InHand, OnItsWay
<1>3. Increasing(chan)' /\ Increasing(queue)'
  <2>1. Increasing(<< >>)
    BY DEF Increasing
  <2> QED
    BY <2>1 DEF FlightOrder, Increasing
<1>4. FlightOrder'
  BY <1>1, <1>2, <1>3 DEF FlightOrder
<1> QED
  BY <1>2, <1>4 DEF Promise!Lose

PromiseStep == Promise!Accept \/ Promise!Lose \/ Promise!Deliver

(* try_send of a message: the promise accepts it.                           *)
LEMMA OfferRefines ==
    ASSUME BridgeInv, BridgeInv', FlightOrder,
           NEW p \in Publishers, BeginOffer(p) \/ OfferStep(p)
    PROVE  FlightOrder' /\ PromiseStep
<1> USE DEF BeginOffer, OfferStep, CheckConnected, Reserve, CloneSender, TrySend
<1>1. CASE UNCHANGED <<queue, accepted>>
  <2>1. UNCHANGED <<chan, written, worker, hand>>
    BY DEF workerVars, sinkVars
  <2> QED
    BY <1>1, <2>1, LossKeepsOrder DEF OnItsWay, PromiseStep
<1>2. CASE accepted' = accepted + 1 /\ queue' = Append(queue, accepted')
  <2>1. UNCHANGED <<chan, written, InHand>>
    BY <1>2 DEF workerVars, sinkVars, InHand, OnItsWay
  <2>2. /\ ToSet(queue)' = ToSet(queue) \cup {accepted'}
        /\ InFlight' = InFlight \cup {accepted'}
    <3>1. accepted' \in Nat
      BY <1>2, FlightSets
    <3>2. ToSet(queue)' = ToSet(queue) \cup {accepted'}
      BY <1>2, <3>1, FlightSets, ToSetAppend
    <3>3. InFlight' = ToSet(queue)' \cup ToSet(chan)' \cup InHand'
      BY DEF InFlight, InHand, OnItsWay
    <3> QED
      BY <2>1, <3>2, <3>3, FlightSets
  <2>3. \A m \in InFlight : m < accepted'
    BY <1>2, FlightSets DEF FlightOrder
  <2>4. Increasing(queue)'
    BY <1>2, <2>3, FlightSets, IncreasingAppend DEF FlightOrder
  <2>5. Increasing(chan)'
    BY <2>1 DEF FlightOrder, Increasing
  <2>6. \A m \in InFlight' : m <= accepted'
    BY <1>2, <2>2, <2>3, FlightSets
  <2>7. FlightOrder'
    BY <2>1, <2>2, <2>3, <2>4, <2>5, <2>6, FlightSets DEF FlightOrder
  <2> QED
    BY <1>2, <2>1, <2>2, <2>7 DEF PromiseStep, Promise!Accept
<1> QED
  BY <1>1, <1>2

(* The worker moves the oldest message of the queue through its hand to the *)
(* end of the channel, or drops it.                                         *)
LEMMA WorkerRefines ==
    ASSUME BridgeInv, BridgeInv', FlightOrder, WorkerStep
    PROVE  FlightOrder' /\ PromiseStep
<1>1. CASE WorkerEnds \/ EnsureReady \/ Submit \/ Answered \/ Timeout \/ Account \/ Release
  <2>1. UNCHANGED <<queue, chan, accepted, written>>
    BY <1>1 DEF WorkerEnds, EnsureReady, Submit, Answered, Timeout, Account, Release,
                offerVars, sinkVars
  <2>2. OnItsWay' => OnItsWay /\ hand' = hand
    BY <1>1 DEF WorkerEnds, EnsureReady, Submit, Answered, Timeout, Account, Release, OnItsWay
  <2> QED
    BY <2>1, <2>2, LossKeepsOrder DEF PromiseStep
<1>2. CASE Receive
  <2>1. /\ queue # << >> /\ hand' = Head(queue) /\ queue' = Tail(queue)
        /\ UNCHANGED <<chan, accepted, written>>
        /\ ~OnItsWay /\ OnItsWay'
    BY <1>2 DEF Receive, OnItsWay
  <2>2. /\ ToSet(queue) = ToSet(queue)' \cup {hand'}
        /\ Increasing(queue)'
        /\ \A m \in ToSet(queue)' : hand' < m
    BY <2>1, FlightSets, ToSetTail, IncreasingTail DEF FlightOrder
  <2>3. InHand = {} /\ InHand' = {hand'}
    BY <2>1 DEF InHand
  <2>4. ToSet(chan)' = ToSet(chan) /\ Increasing(chan)'
    BY <2>1 DEF FlightOrder
  <2>5. InFlight' = ToSet(queue)' \cup ToSet(chan)' \cup InHand'
    BY DEF InFlight, InHand, OnItsWay
  <2>6. InFlight' = InFlight
    BY <2>2, <2>3, <2>4, <2>5, FlightSets
  <2>7. FlightOrder'
    BY <2>1, <2>2, <2>3, <2>4, <2>6 DEF FlightOrder
  <2> QED
    BY <2>1, <2>6, <2>7 DEF PromiseStep, Promise!Lose
<1>3. CASE Request
  <2>1. CASE loop = "ended"
    <3>1. UNCHANGED <<queue, chan, accepted, written>> /\ ~OnItsWay'
      BY <1>3, <2>1 DEF Request, offerVars, OnItsWay
    <3> QED
      BY <3>1, LossKeepsOrder DEF PromiseStep
  <2>2. CASE loop # "ended"
    <3>1. /\ chan' = Append(chan, hand) /\ OnItsWay /\ ~OnItsWay'
          /\ UNCHANGED <<queue, accepted, written>>
      BY <1>3, <2>2 DEF Request, offerVars, OnItsWay
    <3>2. InHand = {hand} /\ InHand' = {}
      BY <3>1 DEF InHand
    <3>3. /\ ToSet(chan)' = ToSet(chan) \cup {hand}
          /\ Increasing(chan)'
      <4>1. chan \in Seq(Nat) /\ hand \in Nat
        BY <3>1, FlightSets
      <4>2. \A m \in ToSet(chan) : m < hand
        BY <3>2 DEF FlightOrder
      <4>3. Increasing(chan)
        BY DEF FlightOrder
      <4> QED
        BY <3>1, <4>1, <4>2, <4>3, ToSetAppend, IncreasingAppend
    <3>4. ToSet(queue)' = ToSet(queue) /\ Increasing(queue)'
      BY <3>1 DEF FlightOrder
    <3>5. InFlight' = ToSet(queue)' \cup ToSet(chan)' \cup InHand'
      BY DEF InFlight, InHand, OnItsWay
    <3>6. InFlight' = InFlight
      BY <3>2, <3>3, <3>4, <3>5, FlightSets
    <3>7. FlightOrder'
      BY <3>1, <3>2, <3>3, <3>4, <3>6 DEF FlightOrder
    <3> QED
      BY <3>1, <3>6, <3>7 DEF PromiseStep, Promise!Lose
  <2> QED
    BY <2>1, <2>2
<1> QED
  BY <1>1, <1>2, <1>3 DEF WorkerStep

(* The event loop writes the front of the channel, which is the oldest      *)
(* message in flight; every other of its steps loses or keeps.              *)
LEMMA LoopRefines ==
    ASSUME BridgeInv, BridgeInv', FlightOrder,
           LoopStep \/ ConnAck \/ PollWrites \/ PollFails
    PROVE  FlightOrder' /\ PromiseStep
<1>1. UNCHANGED <<queue, accepted, worker, hand>>
  BY DEF LoopStep, OutgoingEvent, MarkUnavailable, FailCallbacks, ConnAck, PollWrites,
         PollFails, offerVars, workerVars
<1>2. CASE LoopStep \/ ConnAck \/ PollFails
  <2>1. chan' \in {chan, << >>} /\ written' = written
    BY <1>2 DEF LoopStep, OutgoingEvent, MarkUnavailable, FailCallbacks, ConnAck, PollFails
  <2> QED
    BY <1>1, <2>1, LossKeepsOrder DEF PromiseStep, OnItsWay
<1>3. CASE PollWrites
  <2>1. chan # << >> /\ chan' = Tail(chan) /\ written' = Append(written, Head(chan))
    BY <1>3 DEF PollWrites
  <2> DEFINE front == Head(chan)
  <2>2. /\ ToSet(chan) = ToSet(chan)' \cup {front}
        /\ front \in Nat
        /\ Increasing(chan)'
        /\ \A m \in ToSet(chan)' : front < m
    BY <2>1, FlightSets, ToSetTail, IncreasingTail DEF FlightOrder
  <2>3. ToSet(queue)' = ToSet(queue) /\ Increasing(queue)' /\ InHand' = InHand
    BY <1>1 DEF FlightOrder, InHand, OnItsWay
  <2> HIDE DEF front
  <2>4. \A m \in InHand \cup ToSet(queue) : front < m
    BY <2>2 DEF FlightOrder
  <2>5. InFlight' = ToSet(queue)' \cup ToSet(chan)' \cup InHand'
    BY DEF InFlight, InHand, OnItsWay
  <2>6. /\ front \in InFlight
        /\ \A m \in InFlight' : front < m
        /\ InFlight = InFlight' \cup {front}
    BY <2>2, <2>3, <2>4, <2>5, FlightSets
  <2>7. \A m \in InFlight : front <= m
    BY <2>2, <2>6, FlightSets
  <2>8. InFlight' = InFlight \ {front}
    BY <2>2, <2>6
  <2>9. FlightOrder'
    BY <1>1, <2>2, <2>3, <2>6 DEF FlightOrder
  <2>10. Promise!Deliver
    BY <1>1, <2>1, <2>6, <2>7, <2>8 DEF Promise!Deliver, front
  <2> QED
    BY <2>9, <2>10 DEF PromiseStep
<1> QED
  BY <1>2, <1>3

(* stop() and its abort only lose.                                          *)
LEMMA StopRefines ==
    ASSUME BridgeInv, BridgeInv', FlightOrder, BeginStop \/ StopStep
    PROVE  FlightOrder' /\ PromiseStep
<1> USE DEF BeginStop, StopStep, CloseQueue, Join, AbortWorker, StopSink, StopCallbacks,
            AbortLoop
<1>1. chan' \in {chan, << >>} /\ queue' \in {queue, << >>} /\ UNCHANGED <<accepted, written>>
  BY DEF offerVars, sinkVars
<1>2. OnItsWay' => OnItsWay /\ hand' = hand
  BY DEF OnItsWay, workerVars
<1> QED
  BY <1>1, <1>2, LossKeepsOrder DEF PromiseStep

LEMMA NextRefines ==
    ASSUME BridgeInv, BridgeInv', FlightOrder, [BridgeNext]_bridgeVars
    PROVE  FlightOrder' /\ [PromiseStep]_(Promise!fifoVars)
<1>1. CASE UNCHANGED bridgeVars
  <2>1. UNCHANGED <<chan, queue, accepted, written, worker, hand>>
    BY <1>1 DEF bridgeVars, offerVars, workerVars, sinkVars
  <2> QED
    BY <2>1, LossKeepsOrder DEF PromiseStep, OnItsWay
<1> QED
  BY <1>1, OfferRefines, WorkerRefines, LoopRefines, StopRefines DEF BridgeNext

(* Whatever the network, the timeouts and stop() do, the bridge writes each *)
(* accepted message at most once and in the order of acceptance: it         *)
(* implements AtMostOnceFifo (RUST.md lines 106-107; forwarding.rs,         *)
(* connection.rs).                                                          *)
THEOREM BridgeIsAtMostOnceFifo == BridgeSpec => DeliversAtMostOnceInOrder
<1>1. BridgeInit => FlightOrder /\ Promise!FifoInit
  <2> SUFFICES ASSUME BridgeInit PROVE FlightOrder /\ Promise!FifoInit
    OBVIOUS
  <2>1. InFlight = {} /\ InHand = {} /\ ToSet(chan) = {} /\ ToSet(queue) = {}
    BY ToSetEmpty DEF BridgeInit, InFlight, InHand, OnItsWay
  <2>2. Increasing(chan) /\ Increasing(queue)
    BY DEF BridgeInit, Increasing
  <2> QED
    BY <2>1, <2>2 DEF BridgeInit, FlightOrder, Promise!FifoInit
<1>2. BridgeInv /\ BridgeInv' /\ FlightOrder /\ [BridgeNext]_bridgeVars
          => FlightOrder'
             /\ [Promise!Accept \/ Promise!Lose \/ Promise!Deliver]_(Promise!fifoVars)
  BY NextRefines DEF PromiseStep
<1> QED
  BY <1>1, <1>2, BridgeInvInitially, BridgeInvInductive, PTL
     DEF BridgeSpec, DeliversAtMostOnceInOrder, Promise!FifoSpec
============================================================================
