--------------------------- MODULE Ingress_proofs ---------------------------
(* What the ingress tables of the MeshCore.io bridge keep, proved for any   *)
(* set of messages and observers, any limits, windows and retention times,  *)
(* any age of the clock readings and any bound of the model.                *)
(*                                                                          *)
(* IngressInv adds to the three properties what makes them inductive: the   *)
(* ids and places order their tables, the expiry in a table is the one its  *)
(* history value gives, and an entry goes missing only when it has expired  *)
(* or was squeezed out.  The radio table may hold a status older than the   *)
(* newest one, but only while neither of the two is valid any more: that is *)
(* the case the sweep and a late status can bring about together.           *)
EXTENDS Ingress, FiniteSetTheorems, WellFoundedInduction, TLAPS

----------------------------------------------------------------------------
(* The inductive invariant.                                                 *)

Finite ==
    /\ IsFiniteSet(ingress)
    /\ IsFiniteSet(dedup)
    /\ IsFiniteSet(observer_radio)

IdsOrderTheQueue ==
    /\ \A row \in ingress : row.id <= next_ingress_id /\ row.received_at <= clock
    /\ \A r, s \in ingress : r.id = s.id => r = s

DedupInv ==
    /\ \A e, f \in dedup : e.msg = f.msg \/ e.place = f.place => e = f
    /\ \A e \in dedup : /\ e.place <= next_ingress_id
                        /\ took[e.msg] # None
                        /\ e.expires = took[e.msg] + ingress_dedup_ms
    /\ \A m \in Messages :
          took[m] # None /\ m \notin squeezed =>
              clock >= took[m] + ingress_dedup_ms \/ \E e \in dedup : e.msg = m

\* A remembered status is the newest, or neither is valid any more.
RadioEntryOK(e) ==
    /\ e.place < next_place
    /\ e.expires_at = e.updated_at + ObserverTTL
    /\ newest[e.observer] # None
    /\ e.updated_at <= newest[e.observer]
    /\ e.updated_at = newest[e.observer] \/ newest[e.observer] + ObserverTTL <= clock

RadioInv ==
    /\ \A e, f \in observer_radio : e.observer = f.observer \/ e.place = f.place => e = f
    /\ \A e \in observer_radio : RadioEntryOK(e)
    /\ \A o \in Observers : newest[o] # None =>
          /\ newest[o] <= clock
          /\ Known(o) = {} => newest[o] + ObserverTTL <= clock

IngressInv ==
    /\ IngressTypeOK /\ Finite
    /\ ProcessingRowIsHeld /\ IdsOrderTheQueue
    /\ DedupInv
    /\ RadioInv

----------------------------------------------------------------------------
(* The constants.                                                           *)

(* The limits, windows and bounds are natural numbers, the limits not zero. *)
LEMMA IngressConstants ==
    /\ ingress_dedup_ms \in Nat /\ Retention \in Nat /\ ObserverTTL \in Nat
    /\ RetryDelay \in Nat /\ MaxLag \in Nat /\ MaxOffers \in Nat
    /\ MaxOfferTime \in Nat /\ MaxTime \in Nat
    /\ max_ingress \in Nat \ {0} /\ MaxDedup \in Nat \ {0}
    /\ MaxObservers \in Nat \ {0} /\ MaxAttempts \in Nat \ {0}
    /\ None \notin Nat
BY IngressAssumption

(* A message names its kind and an observer.                                *)
LEMMA MessageFields ==
    ASSUME NEW m \in Messages
    PROVE  m.kind \in Kinds /\ m.observer \in Observers
BY IngressAssumption

----------------------------------------------------------------------------
(* The first entry of a table and the trim at the front.                    *)

(* A set of natural numbers that is not empty has a least element: a table  *)
(* that is not empty has a first entry.                                     *)
LEMMA LeastNatural ==
    ASSUME NEW T, T \subseteq Nat, T # {}
    PROVE  \E x \in T : \A y \in T : x <= y
<1> DEFINE less == {ss \in Nat \X Nat : ss[1] < ss[2]}
<1>1. IsWellFoundedOn(less, Nat)
  BY NatLessThanWellFounded DEF OpToRel
<1>2. \A x, y \in Nat : y < x => <<y, x>> \in less
  OBVIOUS
<1> HIDE DEF less
<1>3. PICK x \in T : \A y \in T : ~(<<y, x>> \in less)
  BY <1>1, WFMin
<1>4. ASSUME NEW y \in T PROVE x <= y
  <2>1. x \in Nat /\ y \in Nat
    OBVIOUS
  <2>2. ~(y < x)
    BY <1>2, <1>3, <2>1
  <2> QED
    BY <2>1, <2>2
<1> QED
  BY <1>4

(* shift_remove_index(0) takes an entry of the table, the one inserted      *)
(* first (runtime.rs lines 143 and 433).                                    *)
LEMMA FrontIsFirst ==
    ASSUME NEW S, \A e \in S : e.place \in Nat, S # {}
    PROVE  Front(S) \in S /\ \A f \in S : Front(S).place <= f.place
<1> DEFINE places == {e.place : e \in S}
<1>1. places \subseteq Nat /\ places # {}
  OBVIOUS
<1> HIDE DEF places
<1>2. PICK p \in places : \A q \in places : p <= q
  BY <1>1, LeastNatural
<1>3. PICK e \in S : e.place = p
  BY DEF places
<1>4. \A f \in S : e.place <= f.place
  BY <1>2, <1>3 DEF places
<1> QED
  BY <1>4 DEF Front

(* The claim takes an eligible row, the one queued first (line 225).        *)
LEMMA FirstIsFirst ==
    ASSUME NEW S, \A row \in S : row.id \in Nat, S # {}
    PROVE  First(S) \in S /\ \A row \in S : First(S).id <= row.id
<1> DEFINE ids == {row.id : row \in S}
<1>1. ids \subseteq Nat /\ ids # {}
  OBVIOUS
<1> HIDE DEF ids
<1>2. PICK p \in ids : \A q \in ids : p <= q
  BY <1>1, LeastNatural
<1>3. PICK row \in S : row.id = p
  BY DEF ids
<1>4. \A other \in S : row.id <= other.id
  BY <1>2, <1>3 DEF ids
<1> QED
  BY <1>4 DEF First

(* A table one entry over its limit is within it once it is trimmed.        *)
LEMMA Trimmed ==
    ASSUME NEW S, IsFiniteSet(S), \A e \in S : e.place \in Nat,
           NEW limit \in Nat, Cardinality(S) <= limit + 1
    PROVE  /\ Surplus(S, limit) \subseteq S
           /\ IsFiniteSet(S \ Surplus(S, limit))
           /\ Cardinality(S \ Surplus(S, limit)) <= limit
<1>1. Cardinality(S) \in Nat
  BY FS_CardinalityType
<1>2. CASE Cardinality(S) > limit
  <2>1. S # {}
    BY <1>1, <1>2, FS_EmptySet
  <2>2. Front(S) \in S
    BY <2>1, FrontIsFirst
  <2>3. Surplus(S, limit) = {Front(S)}
    BY <1>2 DEF Surplus
  <2>4. /\ IsFiniteSet(S \ {Front(S)})
        /\ Cardinality(S \ {Front(S)}) = Cardinality(S) - 1
    BY <2>2, FS_RemoveElement
  <2> QED
    BY <1>1, <2>2, <2>3, <2>4
<1>3. CASE ~(Cardinality(S) > limit)
  <2>1. Surplus(S, limit) = {}
    BY <1>3 DEF Surplus
  <2>2. S \ {} = S
    OBVIOUS
  <2> QED
    BY <1>1, <1>3, <2>1, <2>2
<1> QED
  BY <1>2, <1>3

(* An insertion makes a table longer by one entry at most.                  *)
LEMMA OneMore ==
    ASSUME NEW S, IsFiniteSet(S), NEW x
    PROVE  /\ IsFiniteSet(S \cup {x})
           /\ Cardinality(S \cup {x}) \in Nat
           /\ Cardinality(S \cup {x}) <= Cardinality(S) + 1
<1>1. Cardinality(S) \in Nat
  BY FS_CardinalityType
<1>2. /\ IsFiniteSet(S \cup {x})
      /\ \/ Cardinality(S \cup {x}) = Cardinality(S)
         \/ Cardinality(S \cup {x}) = Cardinality(S) + 1
  BY FS_AddElement
<1> QED
  BY <1>1, <1>2

(* A table with an entry replaced is no longer than before.                 *)
LEMMA Replaced ==
    ASSUME NEW S, IsFiniteSet(S), NEW x \in S, NEW y
    PROVE  /\ IsFiniteSet((S \ {x}) \cup {y})
           /\ Cardinality((S \ {x}) \cup {y}) <= Cardinality(S)
<1>1. Cardinality(S) \in Nat
  BY FS_CardinalityType
<1>2. IsFiniteSet(S \ {x}) /\ Cardinality(S \ {x}) = Cardinality(S) - 1
  BY FS_RemoveElement
<1>3. Cardinality((S \ {x}) \cup {y}) <= Cardinality(S \ {x}) + 1
  BY <1>2, OneMore
<1> QED
  BY <1>1, <1>2, <1>3, OneMore

(* Part of a table is no longer than the table.                             *)
LEMMA PartOf ==
    ASSUME NEW S, IsFiniteSet(S), NEW T \in SUBSET S, NEW limit \in Nat,
           Cardinality(S) <= limit
    PROVE  IsFiniteSet(T) /\ Cardinality(T) <= limit
<1>1. IsFiniteSet(T) /\ Cardinality(T) <= Cardinality(S)
  BY FS_Subset
<1>2. Cardinality(S) \in Nat /\ Cardinality(T) \in Nat
  BY <1>1, FS_CardinalityType
<1> QED
  BY <1>1, <1>2

----------------------------------------------------------------------------
(* One lemma per operation.                                                 *)

(* The tables start out empty.                                              *)
LEMMA InitIsSound == IngressInit => IngressInv
<1> SUFFICES ASSUME IngressInit PROVE IngressInv
  OBVIOUS
<1> USE DEF IngressInit
<1>1. IsFiniteSet({}) /\ Cardinality({}) = 0
  BY FS_EmptySet
<1>2. IngressTypeOK
  <2>1. took \in [Messages -> Nat \cup {None}] /\ newest \in [Observers -> Nat \cup {None}]
    OBVIOUS
  <2>2. clock \in 0..MaxTime /\ next_ingress_id \in Nat /\ next_place \in Nat
    BY IngressConstants
  <2>3. /\ Cardinality(ingress) <= max_ingress /\ Cardinality(dedup) <= MaxDedup
        /\ Cardinality(observer_radio) <= MaxObservers
    BY <1>1, IngressConstants
  <2> QED
    BY <2>1, <2>2, <2>3 DEF IngressTypeOK
<1>3. Finite /\ ProcessingRowIsHeld /\ IdsOrderTheQueue
  BY <1>1 DEF Finite, ProcessingRowIsHeld, IdsOrderTheQueue
<1>4. DedupInv
  BY DEF DedupInv
<1>5. RadioInv
  BY DEF RadioInv
<1> QED
  BY <1>2, <1>3, <1>4, <1>5 DEF IngressInv

(* Nothing about the tables changes while only the clock goes on: what has  *)
(* expired stays expired.                                                   *)
LEMMA TickKeepsInv ==
    ASSUME IngressInv, Tick
    PROVE  IngressInv'
<1> USE DEF Tick, tables, loopVars, taskVars, ingressHistory
<1>1. IngressTypeOK /\ clock \in Nat /\ clock' \in Nat /\ clock < clock'
  BY IngressConstants DEF IngressInv, IngressTypeOK
<1>2. IngressTypeOK'
  BY IngressConstants DEF IngressInv, IngressTypeOK
<1>3. Finite' /\ ProcessingRowIsHeld'
  BY DEF IngressInv, Finite, ProcessingRowIsHeld
<1>4. IdsOrderTheQueue'
  <2>1. \A row \in ingress : row.received_at \in Nat
    BY <1>1 DEF IngressTypeOK, Rows
  <2>2. ASSUME NEW row \in ingress PROVE row.received_at <= clock'
    BY <1>1, <2>1 DEF IngressInv, IdsOrderTheQueue
  <2> QED
    BY <2>2 DEF IngressInv, IdsOrderTheQueue
<1>5. DedupInv'
  <2>1. ASSUME NEW m \in Messages, took[m] # None, clock >= took[m] + ingress_dedup_ms
        PROVE  clock' >= took[m] + ingress_dedup_ms
    <3>1. took[m] \in Nat
      BY <1>1, <2>1 DEF IngressTypeOK
    <3> QED
      BY <1>1, <2>1, <3>1, IngressConstants
  <2> QED
    BY <2>1 DEF IngressInv, DedupInv
<1>6. RadioInv'
  <2>1. ASSUME NEW o \in Observers, newest[o] # None
        PROVE  /\ newest[o] <= clock => newest[o] <= clock'
               /\ newest[o] + ObserverTTL <= clock => newest[o] + ObserverTTL <= clock'
    <3>1. newest[o] \in Nat
      BY <1>1, <2>1 DEF IngressTypeOK
    <3> QED
      BY <1>1, <3>1, IngressConstants
  <2>2. \A e \in observer_radio : e.observer \in Observers
    BY <1>1 DEF IngressTypeOK, RadioEntries
  <2>3. ASSUME NEW e \in observer_radio PROVE RadioEntryOK(e)'
    BY <2>1, <2>2 DEF IngressInv, RadioInv, RadioEntryOK
  <2> QED
    BY <2>1, <2>3 DEF IngressInv, RadioInv, Known
<1> QED
  BY <1>2, <1>3, <1>4, <1>5, <1>6 DEF IngressInv

(* A step of the tasks that leaves the tables, the held row and the         *)
(* histories alone keeps the invariant, as long as the loop holds its row   *)
(* as before.                                                               *)
LEMMA OtherStepsKeepInv ==
    ASSUME IngressInv, UNCHANGED <<tables, held, clock, ingressHistory>>,
           loop' \in {"check", "claim", "process", "admit", "finish", "gone"},
           (loop' \in {"process", "admit", "finish"}) = (loop \in {"process", "admit", "finish"}),
           result' \in {"ok", "retry", "permanent", None},
           cleanup' \in {"check", "waiting", "gone"},
           stopped' \in BOOLEAN, stopper' \in {"no", "notify", "join", "done"},
           woken' \in BOOLEAN
    PROVE  IngressInv'
<1> USE DEF tables, ingressHistory
<1>1. IngressTypeOK'
  BY DEF IngressInv, IngressTypeOK
<1>2. Finite' /\ IdsOrderTheQueue'
  BY DEF IngressInv, Finite, IdsOrderTheQueue
<1>3. ProcessingRowIsHeld'
  BY DEF IngressInv, ProcessingRowIsHeld
<1>4. DedupInv'
  BY DEF IngressInv, DedupInv
<1>5. RadioInv'
  BY DEF IngressInv, RadioInv, RadioEntryOK, Known
<1> QED
  BY <1>1, <1>2, <1>3, <1>4, <1>5 DEF IngressInv

(* The loop's checks, waits and answers without a status are such steps.    *)
LEMMA LoopOnlyKeepsInv ==
    ASSUME IngressInv,
           CheckStopped \/ Pass \/ LookUpRadio \/ Admit \/ \E now \in Readings : Wait(now)
    PROVE  IngressInv'
<1> USE DEF loopVars, taskVars, Return
<1>1. /\ UNCHANGED <<tables, held, clock, ingressHistory>>
      /\ UNCHANGED <<cleanup, stopped, stopper, woken>>
  BY DEF CheckStopped, Pass, LookUpRadio, Admit, Wait
<1>2. /\ cleanup' \in {"check", "waiting", "gone"}
      /\ stopped' \in BOOLEAN /\ stopper' \in {"no", "notify", "join", "done"}
      /\ woken' \in BOOLEAN
  BY <1>1 DEF IngressInv, IngressTypeOK
<1>3. result \in {"ok", "retry", "permanent", None}
  BY DEF IngressInv, IngressTypeOK
<1>4. /\ loop' \in {"check", "claim", "process", "admit", "finish", "gone"}
      /\ (loop' \in {"process", "admit", "finish"}) = (loop \in {"process", "admit", "finish"})
  <2>1. CASE CheckStopped
    BY <2>1 DEF CheckStopped
  <2>2. CASE Pass
    BY <2>2 DEF Pass
  <2>3. CASE LookUpRadio
    BY <2>3 DEF LookUpRadio
  <2>4. CASE Admit
    BY <2>4 DEF Admit
  <2>5. CASE \E now \in Readings : Wait(now)
    BY <2>5 DEF Wait
  <2> QED
    BY <2>1, <2>2, <2>3, <2>4, <2>5
<1>5. result' \in {"ok", "retry", "permanent", None}
  <2>1. CASE CheckStopped
    BY <1>3, <2>1 DEF CheckStopped
  <2>2. CASE Pass
    BY <1>3, <2>2 DEF Pass
  <2>3. CASE LookUpRadio
    BY <1>3, <2>3 DEF LookUpRadio
  <2>4. CASE Admit
    BY <1>3, <2>4 DEF Admit
  <2>5. CASE \E now \in Readings : Wait(now)
    BY <1>3, <2>5 DEF Wait
  <2> QED
    BY <2>1, <2>2, <2>3, <2>4, <2>5
<1> QED
  BY <1>1, <1>2, <1>4, <1>5, OtherStepsKeepInv

(* So are the steps of stop() and those of the cleanup task but its sweep.  *)
LEMMA TaskOnlyKeepsInv ==
    ASSUME IngressInv,
           CleanupCheck \/ CleanupStops \/ BeginStop \/ NotifyShutdown \/ Join
    PROVE  IngressInv'
<1> USE DEF loopVars
<1>1. UNCHANGED <<tables, held, clock, ingressHistory>> /\ UNCHANGED <<loop, result>>
  BY DEF CleanupCheck, CleanupStops, BeginStop, NotifyShutdown, Join
<1>2. /\ loop \in {"check", "claim", "process", "admit", "finish", "gone"}
      /\ result \in {"ok", "retry", "permanent", None}
      /\ cleanup \in {"check", "waiting", "gone"}
      /\ stopped \in BOOLEAN /\ stopper \in {"no", "notify", "join", "done"}
      /\ woken \in BOOLEAN
  BY DEF IngressInv, IngressTypeOK
<1>3. /\ cleanup' \in {"check", "waiting", "gone"}
      /\ stopped' \in BOOLEAN /\ stopper' \in {"no", "notify", "join", "done"}
      /\ woken' \in BOOLEAN
  <2>1. CASE CleanupCheck
    BY <1>2, <2>1 DEF CleanupCheck
  <2>2. CASE CleanupStops
    BY <1>2, <2>2 DEF CleanupStops
  <2>3. CASE BeginStop
    BY <1>2, <2>3 DEF BeginStop
  <2>4. CASE NotifyShutdown
    <3>1. (cleanup = "waiting") \in BOOLEAN
      OBVIOUS
    <3> QED
      BY <1>2, <2>4, <3>1 DEF NotifyShutdown
  <2>5. CASE Join
    BY <1>2, <2>5 DEF Join
  <2> QED
    BY <2>1, <2>2, <2>3, <2>4, <2>5
<1> QED
  BY <1>1, <1>2, <1>3, OtherStepsKeepInv

(* The fields of a row, an entry of the dedup table and a radio entry.      *)
LEMMA EntryTypes ==
    ASSUME IngressTypeOK
    PROVE  /\ \A row \in ingress : /\ row \in Rows
                                   /\ row.id \in Nat /\ row.received_at \in Nat
                                   /\ row.expires_at \in Nat /\ row.retry_at \in Nat
                                   /\ row.msg \in Messages /\ row.attempts \in Nat
           /\ \A e \in dedup : e.msg \in Messages /\ e.expires \in Nat /\ e.place \in Nat
           /\ \A e \in observer_radio :
                 /\ e.observer \in Observers
                 /\ e.updated_at \in Nat /\ e.expires_at \in Nat /\ e.place \in Nat
           /\ clock \in Nat /\ next_ingress_id \in Nat /\ next_place \in Nat
           /\ \A m \in Messages : took[m] # None => took[m] \in Nat
           /\ \A o \in Observers : newest[o] # None => newest[o] \in Nat
<1>1. /\ \A row \in ingress : /\ row \in Rows
                              /\ row.id \in Nat /\ row.received_at \in Nat
                              /\ row.expires_at \in Nat /\ row.retry_at \in Nat
                              /\ row.msg \in Messages /\ row.attempts \in 0..(MaxAttempts - 1)
      /\ \A e \in dedup : e.msg \in Messages /\ e.expires \in Nat /\ e.place \in Nat
      /\ \A e \in observer_radio :
            /\ e.observer \in Observers
            /\ e.updated_at \in Nat /\ e.expires_at \in Nat /\ e.place \in Nat
  BY DEF IngressTypeOK, Rows, DedupEntries, RadioEntries
<1>2. clock \in Nat /\ next_ingress_id \in Nat /\ next_place \in Nat
  BY IngressConstants DEF IngressTypeOK
<1>3. /\ \A m \in Messages : took[m] # None => took[m] \in Nat
      /\ \A o \in Observers : newest[o] # None => newest[o] \in Nat
  BY DEF IngressTypeOK
<1> QED
  BY <1>1, <1>2, <1>3

(* A sweep takes away what has expired, never the row in processing, and    *)
(* what it takes from the other two tables has expired by its history       *)
(* value as well (sweep_state, lines 631-638).                              *)
LEMMA SweepKeepsInv ==
    ASSUME IngressInv, Sweep
    PROVE  IngressInv'
<1> USE DEF Sweep, loopVars, ingressHistory
<1>1. IngressTypeOK /\ clock \in Nat
  BY EntryTypes DEF IngressInv
<1>2. ingress' \in SUBSET ingress /\ dedup' \in SUBSET dedup
      /\ observer_radio' \in SUBSET observer_radio
  OBVIOUS
<1>3. /\ IsFiniteSet(ingress') /\ Cardinality(ingress') <= max_ingress
      /\ IsFiniteSet(dedup') /\ Cardinality(dedup') <= MaxDedup
      /\ IsFiniteSet(observer_radio') /\ Cardinality(observer_radio') <= MaxObservers
  BY <1>2, PartOf, IngressConstants DEF IngressInv, IngressTypeOK, Finite
<1>4. IngressTypeOK'
  BY <1>2, <1>3 DEF IngressInv, IngressTypeOK
<1>5. Finite' /\ IdsOrderTheQueue'
  BY <1>2, <1>3 DEF IngressInv, Finite, IdsOrderTheQueue
<1>6. ProcessingRowIsHeld'
  <2>1. {row \in ingress' : row.processing} = {row \in ingress : row.processing}
    BY DEF Kept
  <2> QED
    BY <2>1 DEF IngressInv, ProcessingRowIsHeld
<1>7. DedupInv'
  <2>1. ASSUME NEW m \in Messages, took[m] # None, m \notin squeezed
        PROVE  clock >= took[m] + ingress_dedup_ms \/ \E e \in dedup' : e.msg = m
    <3>1. CASE clock >= took[m] + ingress_dedup_ms
      BY <3>1
    <3>2. ASSUME NEW e \in dedup, e.msg = m
          PROVE  clock >= took[m] + ingress_dedup_ms \/ \E f \in dedup' : f.msg = m
      <4>1. e.expires = took[m] + ingress_dedup_ms /\ e.expires \in Nat
        BY <1>1, <3>2, EntryTypes DEF IngressInv, DedupInv
      <4>2. CASE e.expires > clock
        BY <3>2, <4>2
      <4>3. CASE ~(e.expires > clock)
        BY <1>1, <4>1, <4>3
      <4> QED
        BY <4>2, <4>3
    <3> QED
      BY <2>1, <3>1, <3>2 DEF IngressInv, DedupInv
  <2> QED
    BY <1>2, <2>1 DEF IngressInv, DedupInv
<1>8. RadioInv'
  <2>1. \A e \in observer_radio' : RadioEntryOK(e)'
    BY <1>2 DEF IngressInv, RadioInv, RadioEntryOK
  <2>2. ASSUME NEW o \in Observers, newest[o] # None, Known(o)' = {}
        PROVE  newest[o] + ObserverTTL <= clock
    <3>1. CASE Known(o) = {}
      BY <2>2, <3>1 DEF IngressInv, RadioInv
    <3>2. CASE Known(o) # {}
      <4>1. PICK e \in observer_radio : e.observer = o
        BY <3>2 DEF Known
      <4>2. ~(e.expires_at > clock)
        BY <2>2, <4>1 DEF Known
      <4>3. /\ e.expires_at = e.updated_at + ObserverTTL
            /\ e.updated_at = newest[o] \/ newest[o] + ObserverTTL <= clock
        BY <4>1 DEF IngressInv, RadioInv, RadioEntryOK
      <4>4. e.expires_at \in Nat
        BY <1>1, EntryTypes
      <4> QED
        BY <1>1, <4>2, <4>3, <4>4
    <3> QED
      BY <3>1, <3>2
  <2> QED
    BY <1>2, <2>1, <2>2 DEF IngressInv, RadioInv
<1> QED
  BY <1>4, <1>5, <1>6, <1>7, <1>8 DEF IngressInv

(* The claim marks one row and changes nothing else about it; no other row  *)
(* is in processing then (lines 220-240).                                   *)
LEMMA ClaimKeepsInv ==
    ASSUME IngressInv, NEW now \in Readings, Claim(now)
    PROVE  IngressInv'
<1> DEFINE row == First(EligibleAt(now))
           claimed == [row EXCEPT !.processing = TRUE]
<1>1. IngressTypeOK
  BY DEF IngressInv
<1>2. row \in ingress /\ ~row.processing
  <2>1. EligibleAt(now) # {} /\ \A r \in EligibleAt(now) : r.id \in Nat
    BY <1>1, EntryTypes DEF Claim, EligibleAt
  <2>2. row \in EligibleAt(now)
    BY <2>1, FirstIsFirst
  <2> QED
    BY <2>2 DEF EligibleAt, Eligible
<1>3. /\ loop = "claim" /\ loop' = "process"
      /\ ingress' = (ingress \ {row}) \cup {claimed}
      /\ held' = claimed
      /\ UNCHANGED <<dedup, observer_radio, next_ingress_id, next_place, result, cleanup,
                     stopped, stopper, woken, clock, took, squeezed, newest>>
  BY DEF Claim, taskVars, ingressHistory
<1> HIDE DEF row
<1>4. row \in Rows
  BY <1>1, <1>2 DEF IngressTypeOK
<1>5. /\ claimed \in Rows /\ claimed.processing = TRUE
      /\ claimed.id = row.id /\ claimed.received_at = row.received_at
  BY <1>4 DEF Rows
<1> HIDE DEF claimed
<1>6. IsFiniteSet(ingress') /\ Cardinality(ingress') <= max_ingress
  <2>1. /\ IsFiniteSet(ingress')
        /\ Cardinality(ingress') <= Cardinality(ingress)
    BY <1>2, <1>3, Replaced DEF IngressInv, Finite
  <2>2. /\ Cardinality(ingress) \in Nat /\ Cardinality(ingress') \in Nat
        /\ Cardinality(ingress) <= max_ingress
    BY <1>1, <2>1, FS_CardinalityType DEF IngressInv, Finite, IngressTypeOK
  <2> QED
    BY <2>1, <2>2, IngressConstants
<1>7. IngressTypeOK'
  BY <1>1, <1>3, <1>5, <1>6 DEF IngressTypeOK
<1>8. Finite'
  BY <1>3, <1>6 DEF IngressInv, Finite
<1>9. ProcessingRowIsHeld'
  <2>1. {r \in ingress : r.processing} = {}
    BY <1>3 DEF IngressInv, ProcessingRowIsHeld
  <2>2. {r \in ingress' : r.processing} = {claimed}
    BY <1>3, <1>5, <2>1
  <2> QED
    BY <1>3, <2>2 DEF ProcessingRowIsHeld
<1>10. IdsOrderTheQueue'
  BY <1>2, <1>3, <1>5 DEF IngressInv, IdsOrderTheQueue
<1>11. DedupInv'
  BY <1>3 DEF IngressInv, DedupInv
<1>12. RadioInv'
  BY <1>3 DEF IngressInv, RadioInv, RadioEntryOK, Known
<1> QED
  BY <1>7, <1>8, <1>9, <1>10, <1>11, <1>12 DEF IngressInv

(* The loop is done with its row: it goes, or goes back for another attempt *)
(* (lines 249-282).                                                         *)
LEMMA FinishKeepsInv ==
    ASSUME IngressInv, Finish
    PROVE  IngressInv'
<1> DEFINE found == {row \in ingress : row.id = held.id}
           retried == {row \in found : result = "retry" /\ RetriesLeft(row)}
<1>1. IngressTypeOK
  BY DEF IngressInv
<1>2. /\ loop = "finish" /\ loop' = "check"
      /\ ingress' = (ingress \ found) \cup {Retried(row) : row \in retried}
      /\ held' = None /\ result' = None
      /\ UNCHANGED <<dedup, observer_radio, next_ingress_id, next_place, cleanup, stopped,
                     stopper, woken, clock, took, squeezed, newest>>
  BY DEF Finish, taskVars, ingressHistory
<1>3. {row \in ingress : row.processing} = {held}
  BY <1>2 DEF IngressInv, ProcessingRowIsHeld
<1>4. held \in ingress
  BY <1>3
<1>5. found = {held}
  BY <1>4 DEF IngressInv, IdsOrderTheQueue
<1>6. retried \in SUBSET {held}
  BY <1>5
<1>7. ASSUME NEW row \in retried
      PROVE  /\ Retried(row) \in Rows /\ Retried(row).processing = FALSE
             /\ Retried(row).id = held.id /\ Retried(row).received_at = held.received_at
  <2>1. row = held /\ RetriesLeft(row) /\ row \in Rows
    BY <1>1, <1>4, <1>6, EntryTypes
  <2>2. row.attempts + 1 \in 0..(MaxAttempts - 1)
    BY <2>1, IngressConstants DEF RetriesLeft, Rows
  <2>3. clock + RetryDelay \in Nat
    BY <1>1, EntryTypes, IngressConstants
  <2> QED
    BY <2>1, <2>2, <2>3 DEF Retried, Rows
<1> DEFINE back == {Retried(row) : row \in retried}
<1>8. /\ back \subseteq Rows
      /\ \A row \in back : /\ row.processing = FALSE
                           /\ row.id = held.id /\ row.received_at = held.received_at
      /\ back = {} \/ \E row : back = {row}
  <2> HIDE DEF found, retried
  <2>1. back \subseteq Rows
    BY <1>7
  <2>2. ASSUME NEW row \in back
        PROVE  /\ row.processing = FALSE
               /\ row.id = held.id /\ row.received_at = held.received_at
    <3>1. PICK r \in retried : row = Retried(r)
      OBVIOUS
    <3> QED
      BY <1>7, <3>1
  <2>3. CASE retried = {}
    BY <2>1, <2>2, <2>3
  <2>4. CASE retried = {held}
    <3>1. back = {Retried(held)}
      BY <2>4
    <3> QED
      BY <2>1, <2>2, <3>1
  <2> QED
    BY <1>6, <2>3, <2>4
<1>9. ingress' = (ingress \ {held}) \cup back
  BY <1>2, <1>5
<1> HIDE DEF found, retried, back
<1>10. IsFiniteSet(ingress') /\ Cardinality(ingress') <= max_ingress
  <2>1. IsFiniteSet(ingress) /\ Cardinality(ingress) <= max_ingress
    BY <1>1 DEF IngressInv, Finite, IngressTypeOK
  <2>2. CASE back = {}
    <3>1. ingress' \in SUBSET ingress
      BY <1>9, <2>2
    <3> QED
      BY <2>1, <3>1, PartOf, IngressConstants
  <2>3. CASE \E row : back = {row}
    <3>1. PICK row : back = {row}
      BY <2>3
    <3>2. IsFiniteSet(ingress') /\ Cardinality(ingress') <= Cardinality(ingress)
      BY <1>4, <1>9, <2>1, <3>1, Replaced
    <3>3. Cardinality(ingress) \in Nat /\ Cardinality(ingress') \in Nat
      BY <2>1, <3>2, FS_CardinalityType
    <3> QED
      BY <2>1, <3>2, <3>3, IngressConstants
  <2> QED
    BY <1>8, <2>2, <2>3
<1>11. IngressTypeOK'
  BY <1>1, <1>2, <1>8, <1>9, <1>10 DEF IngressTypeOK
<1>12. Finite'
  BY <1>2, <1>10 DEF IngressInv, Finite
<1>13. ProcessingRowIsHeld'
  <2>1. {row \in ingress' : row.processing} = {}
    BY <1>3, <1>8, <1>9
  <2> QED
    BY <1>2, <2>1 DEF ProcessingRowIsHeld
<1>14. IdsOrderTheQueue'
  <2>1. \A row \in ingress' : row.id <= next_ingress_id /\ row.received_at <= clock
    BY <1>4, <1>8, <1>9 DEF IngressInv, IdsOrderTheQueue
  <2>2. ASSUME NEW r \in ingress', NEW s \in ingress', r.id = s.id PROVE r = s
    <3>1. CASE r \in back /\ s \in back
      BY <1>8, <3>1
    <3>2. CASE r \in ingress \ {held} /\ s \in ingress \ {held}
      BY <2>2, <3>2 DEF IngressInv, IdsOrderTheQueue
    <3>3. CASE r \in ingress \ {held} /\ s \in back
      BY <1>4, <1>8, <2>2, <3>3 DEF IngressInv, IdsOrderTheQueue
    <3>4. CASE r \in back /\ s \in ingress \ {held}
      BY <1>4, <1>8, <2>2, <3>4 DEF IngressInv, IdsOrderTheQueue
    <3> QED
      BY <1>9, <3>1, <3>2, <3>3, <3>4
  <2> QED
    BY <1>2, <2>1, <2>2 DEF IdsOrderTheQueue
<1>15. DedupInv'
  BY <1>2 DEF IngressInv, DedupInv
<1>16. RadioInv'
  BY <1>2 DEF IngressInv, RadioInv, RadioEntryOK, Known
<1> QED
  BY <1>11, <1>12, <1>13, <1>14, <1>15, <1>16 DEF IngressInv

(* A reading of the clock is a time that has come.                          *)
LEMMA ReadingsHaveCome ==
    ASSUME IngressTypeOK, NEW now \in Readings
    PROVE  now \in Nat /\ clock \in Nat /\ now <= clock
BY EntryTypes DEF Readings

(* An accepted offer is queued last and remembered last, and at most one    *)
(* message is squeezed out of the dedup table for it (lines 133-156).       *)
LEMMA TakeOfferKeepsInv ==
    ASSUME IngressInv, NEW msg \in Messages, NEW now \in Readings, TakeOffer(msg, now)
    PROVE  IngressInv'
<1> DEFINE base == {e \in dedup : e.msg # msg}
           new == [msg |-> msg, expires |-> now + ingress_dedup_ms,
                   place |-> next_ingress_id + 1]
           entries == Remembered(msg, now)
           lost == Surplus(entries, MaxDedup)
           row == NewRow(msg, now)
<1>1. IngressTypeOK /\ now \in Nat /\ clock \in Nat /\ now <= clock
      /\ next_ingress_id \in Nat
  BY ReadingsHaveCome, EntryTypes DEF IngressInv
<1>2. /\ Cardinality(ingress) < max_ingress
      /\ dedup' = entries \ lost
      /\ ingress' = ingress \cup {row}
      /\ next_ingress_id' = next_ingress_id + 1
      /\ took' = [took EXCEPT ![msg] = now]
      /\ squeezed' = (squeezed \ {msg}) \cup {e.msg : e \in lost}
      /\ UNCHANGED <<observer_radio, next_place, loop, held, result, cleanup, stopped,
                     stopper, woken, clock, newest>>
  BY DEF TakeOffer, loopVars, taskVars
<1>3. entries = base \cup {new}
  BY DEF Remembered
<1>4. /\ new \in DedupEntries /\ new.msg = msg /\ new.place = next_ingress_id + 1
      /\ new.expires = now + ingress_dedup_ms
  BY <1>1, IngressConstants DEF DedupEntries
<1>5. /\ row \in Rows /\ row.processing = FALSE /\ row.id = next_ingress_id + 1
      /\ row.received_at = now
  <2>1. now + Retention \in Nat /\ next_ingress_id + 1 \in Nat /\ 0 \in 0..(MaxAttempts - 1)
    BY <1>1, IngressConstants
  <2> QED
    BY <1>1, <2>1 DEF NewRow, Rows
<1>6. /\ \A e \in base : e \in dedup /\ e.msg # msg
      /\ \A e \in dedup : e.msg # msg => e \in base
      /\ base \in SUBSET dedup
  OBVIOUS
<1> HIDE DEF base, new, entries, lost, row
<1>7. /\ lost \subseteq entries
      /\ IsFiniteSet(dedup') /\ Cardinality(dedup') <= MaxDedup
  <2>1. IsFiniteSet(base) /\ Cardinality(base) <= MaxDedup
    BY <1>1, <1>6, PartOf, IngressConstants DEF IngressInv, Finite, IngressTypeOK
  <2>2. Cardinality(base) \in Nat
    BY <2>1, FS_CardinalityType
  <2>3. /\ IsFiniteSet(entries) /\ Cardinality(entries) \in Nat
        /\ Cardinality(entries) <= Cardinality(base) + 1
    BY <1>3, <2>1, OneMore
  <2>4. Cardinality(entries) <= MaxDedup + 1
    BY <2>1, <2>2, <2>3, IngressConstants
  <2>5. \A e \in entries : e.place \in Nat
    BY <1>1, <1>3, <1>4, <1>6, EntryTypes
  <2> QED
    BY <1>2, <2>3, <2>4, <2>5, Trimmed, IngressConstants DEF lost
<1>8. dedup' \subseteq DedupEntries /\ squeezed' \subseteq Messages
  <2>1. entries \subseteq DedupEntries
    BY <1>1, <1>3, <1>4, <1>6 DEF IngressTypeOK
  <2>2. \A e \in lost : e.msg \in Messages
    BY <1>7, <2>1 DEF DedupEntries
  <2> QED
    BY <1>1, <1>2, <2>1, <2>2 DEF IngressTypeOK
<1>9. IsFiniteSet(ingress') /\ Cardinality(ingress') <= max_ingress
  <2>1. IsFiniteSet(ingress) /\ Cardinality(ingress) \in Nat
    BY FS_CardinalityType DEF IngressInv, Finite
  <2>2. /\ IsFiniteSet(ingress') /\ Cardinality(ingress') \in Nat
        /\ Cardinality(ingress') <= Cardinality(ingress) + 1
    BY <1>2, <2>1, OneMore
  <2> QED
    BY <1>2, <2>1, <2>2, IngressConstants
<1>10. IngressTypeOK'
  <2>1. took' \in [Messages -> Nat \cup {None}]
    BY <1>1, <1>2 DEF IngressTypeOK
  <2>2. ingress' \subseteq Rows /\ next_ingress_id' \in Nat
    BY <1>1, <1>2, <1>5 DEF IngressTypeOK
  <2> QED
    BY <1>1, <1>2, <1>7, <1>8, <1>9, <2>1, <2>2 DEF IngressTypeOK
<1>11. Finite'
  BY <1>2, <1>7, <1>9 DEF IngressInv, Finite
<1>12. ProcessingRowIsHeld'
  <2>1. {r \in ingress' : r.processing} = {r \in ingress : r.processing}
    BY <1>2, <1>5
  <2> QED
    BY <1>2, <2>1 DEF IngressInv, ProcessingRowIsHeld
<1>13. IdsOrderTheQueue'
  <2>1. ASSUME NEW r \in ingress
        PROVE  r.id \in Nat /\ r.id <= next_ingress_id /\ r.id < next_ingress_id + 1
               /\ r.received_at <= clock
    BY <1>1, EntryTypes DEF IngressInv, IdsOrderTheQueue
  <2>2. \A r \in ingress' : r.id <= next_ingress_id + 1 /\ r.received_at <= clock
    BY <1>1, <1>2, <1>5, <2>1
  <2>3. \A r, s \in ingress' : r.id = s.id => r = s
    BY <1>1, <1>2, <1>5, <2>1 DEF IngressInv, IdsOrderTheQueue
  <2> QED
    BY <1>2, <2>2, <2>3 DEF IdsOrderTheQueue
<1>14. DedupInv'
  <2>1. ASSUME NEW e \in dedup
        PROVE  e.place \in Nat /\ e.place <= next_ingress_id /\ e.place < next_ingress_id + 1
    BY <1>1, EntryTypes DEF IngressInv, DedupInv
  <2>2. \A e, f \in dedup' : e.msg = f.msg \/ e.place = f.place => e = f
    <3>1. ASSUME NEW e \in entries, NEW f \in entries, e.msg = f.msg \/ e.place = f.place
          PROVE  e = f
      <4>1. CASE e \in base /\ f \in base
        BY <1>6, <3>1, <4>1 DEF IngressInv, DedupInv
      <4>2. CASE e = new /\ f \in base
        BY <1>1, <1>4, <1>6, <2>1, <3>1, <4>2
      <4>3. CASE e \in base /\ f = new
        BY <1>1, <1>4, <1>6, <2>1, <3>1, <4>3
      <4> QED
        BY <1>3, <4>1, <4>2, <4>3
    <3> QED
      BY <1>2, <3>1
  <2>3. /\ took'[msg] = now /\ now # None
        /\ \A m \in Messages : m # msg => took'[m] = took[m]
    BY <1>1, <1>2, IngressConstants DEF IngressTypeOK
  <2>4. ASSUME NEW e \in dedup'
        PROVE  /\ e.place <= next_ingress_id + 1 /\ took'[e.msg] # None
               /\ e.expires = took'[e.msg] + ingress_dedup_ms
    <3>1. CASE e = new
      BY <1>1, <1>4, <2>3, <3>1
    <3>2. CASE e \in base
      <4>1. e \in dedup /\ e.msg \in Messages /\ e.msg # msg
        BY <1>1, <1>6, <3>2, EntryTypes
      <4> QED
        BY <1>1, <2>1, <2>3, <4>1 DEF IngressInv, DedupInv
    <3> QED
      BY <1>2, <1>3, <3>1, <3>2
  <2>5. ASSUME NEW m \in Messages, took'[m] # None, m \notin squeezed'
        PROVE  clock >= took'[m] + ingress_dedup_ms \/ \E e \in dedup' : e.msg = m
    <3>1. \A e \in entries : e.msg = m => e \in dedup'
      BY <1>2, <2>5
    <3>2. CASE m = msg
      BY <1>3, <1>4, <3>1, <3>2
    <3>3. CASE m # msg
      <4>1. took[m] # None /\ took'[m] = took[m] /\ m \notin squeezed
        BY <1>2, <2>3, <2>5, <3>3
      <4>2. CASE clock >= took[m] + ingress_dedup_ms
        BY <4>1, <4>2
      <4>3. ASSUME NEW e \in dedup, e.msg = m PROVE \E f \in dedup' : f.msg = m
        BY <1>3, <1>6, <3>1, <3>3, <4>3
      <4> QED
        BY <4>1, <4>2, <4>3 DEF IngressInv, DedupInv
    <3> QED
      BY <3>2, <3>3
  <2> QED
    BY <1>2, <2>2, <2>4, <2>5 DEF DedupInv
<1>15. RadioInv'
  BY <1>2 DEF IngressInv, RadioInv, RadioEntryOK, Known
<1> QED
  BY <1>10, <1>11, <1>12, <1>13, <1>14, <1>15 DEF IngressInv

(* IndexMap::insert puts one entry for the observer in the table, in its    *)
(* old place or in a new one at the end, and leaves the others alone        *)
(* (lines 422-430).                                                         *)
LEMMA RadioInserted ==
    ASSUME IngressInv, NEW o \in Observers, NEW r \in Nat
    PROVE  \E p \in Nat :
              /\ WithRadio(o, r) = (observer_radio \ Known(o)) \cup {Radio(o, r, p)}
              /\ p < IF Known(o) = {} THEN next_place + 1 ELSE next_place
              /\ \A e \in observer_radio \ Known(o) : e.place # p
              /\ IsFiniteSet(WithRadio(o, r))
              /\ Cardinality(WithRadio(o, r)) <= MaxObservers + 1
<1>1. IngressTypeOK /\ next_place \in Nat
  BY EntryTypes DEF IngressInv
<1>2. /\ IsFiniteSet(observer_radio) /\ Cardinality(observer_radio) \in Nat
      /\ Cardinality(observer_radio) <= MaxObservers
  BY <1>1, FS_CardinalityType DEF IngressInv, Finite, IngressTypeOK
<1>3. ASSUME NEW e \in observer_radio PROVE e.place \in Nat /\ e.place < next_place
  BY <1>1, EntryTypes DEF IngressInv, RadioInv, RadioEntryOK
<1>4. CASE Known(o) = {}
  <2> DEFINE new == Radio(o, r, next_place)
  <2>1. /\ WithRadio(o, r) = observer_radio \cup {new}
        /\ observer_radio \ Known(o) = observer_radio
    BY <1>4 DEF WithRadio
  <2> HIDE DEF new
  <2>2. /\ IsFiniteSet(WithRadio(o, r)) /\ Cardinality(WithRadio(o, r)) \in Nat
        /\ Cardinality(WithRadio(o, r)) <= Cardinality(observer_radio) + 1
    BY <1>2, <2>1, OneMore
  <2>3. Cardinality(WithRadio(o, r)) <= MaxObservers + 1
    BY <1>2, <2>2, IngressConstants
  <2>4. next_place < IF Known(o) = {} THEN next_place + 1 ELSE next_place
    BY <1>1, <1>4
  <2>5. \A e \in observer_radio \ Known(o) : e.place # next_place
    BY <1>1, <1>3
  <2>6. WithRadio(o, r) = (observer_radio \ Known(o)) \cup {Radio(o, r, next_place)}
    BY <2>1 DEF new
  <2> QED
    BY <1>1, <2>2, <2>3, <2>4, <2>5, <2>6
<1>5. CASE Known(o) # {}
  <2>1. PICK k \in observer_radio : k.observer = o
    BY <1>5 DEF Known
  <2>2. Known(o) = {k}
    BY <2>1 DEF IngressInv, RadioInv, Known
  <2> DEFINE new == Radio(o, r, k.place)
             at(e) == Radio(o, r, e.place)
  <2>3. WithRadio(o, r) = (observer_radio \ Known(o)) \cup {at(e) : e \in Known(o)}
    BY <1>5 DEF WithRadio
  <2>4. at(k) = new
    OBVIOUS
  <2> HIDE DEF new, at
  <2>5. {at(e) : e \in Known(o)} = {new}
    BY <2>2, <2>4
  <2>6. WithRadio(o, r) = (observer_radio \ {k}) \cup {new}
    BY <2>2, <2>3, <2>5
  <2>7. /\ IsFiniteSet(WithRadio(o, r))
        /\ Cardinality(WithRadio(o, r)) <= Cardinality(observer_radio)
    <3>1. /\ IsFiniteSet((observer_radio \ {k}) \cup {new})
          /\ Cardinality((observer_radio \ {k}) \cup {new}) <= Cardinality(observer_radio)
      BY <1>2, <2>1, Replaced
    <3> QED
      BY <2>6, <3>1
  <2>8. Cardinality(WithRadio(o, r)) <= MaxObservers + 1
    <3>1. Cardinality(WithRadio(o, r)) \in Nat
      BY <2>7, FS_CardinalityType
    <3> QED
      BY <1>2, <2>7, <3>1, IngressConstants
  <2>9. k.place \in Nat /\ k.place < IF Known(o) = {} THEN next_place + 1 ELSE next_place
    BY <1>3, <1>5, <2>1
  <2>10. \A e \in observer_radio \ Known(o) : e.place # k.place
    BY <2>1, <2>2 DEF IngressInv, RadioInv
  <2>11. WithRadio(o, r) = (observer_radio \ Known(o)) \cup {Radio(o, r, k.place)}
    BY <2>2, <2>6 DEF new
  <2> QED
    BY <2>7, <2>8, <2>9, <2>10, <2>11
<1> QED
  BY <1>4, <1>5

(* A status newer than the remembered one replaces it.  If the history      *)
(* value is newer still, the entry that held it has expired, and so has it  *)
(* (lines 415-434).                                                         *)
LEMMA RememberStatusKeepsInv ==
    ASSUME IngressInv, RememberStatus
    PROVE  IngressInv'
<1> DEFINE o == held.msg.observer
           r == held.received_at
           all == WithRadio(o, r)
           lost == Surplus(all, MaxObservers)
<1>1. /\ loop = "process" /\ loop' = "finish" /\ result' = "ok"
      /\ UNCHANGED <<ingress, dedup, next_ingress_id, held, cleanup, stopped, stopper, woken,
                     clock, took, squeezed>>
  BY DEF RememberStatus, Return, taskVars
<1>2. IngressTypeOK /\ clock \in Nat /\ next_place \in Nat
  BY EntryTypes DEF IngressInv
<1>3. /\ held \in ingress
      /\ held.msg \in Messages /\ r \in Nat /\ r <= clock
  <2>1. {row \in ingress : row.processing} = {held}
    BY <1>1 DEF IngressInv, ProcessingRowIsHeld
  <2>2. held \in ingress
    BY <2>1
  <2> QED
    BY <1>2, <2>2, EntryTypes DEF IngressInv, IdsOrderTheQueue
<1>4. o \in Observers
  BY <1>3, MessageFields
<1>5. /\ Finite' <=> IsFiniteSet(observer_radio')
      /\ IdsOrderTheQueue' /\ DedupInv' /\ ProcessingRowIsHeld'
  BY <1>1 DEF IngressInv, Finite, IdsOrderTheQueue, DedupInv, ProcessingRowIsHeld
<1>6. CASE Outdated(o, r)
  <2>1. UNCHANGED <<observer_radio, next_place, newest>>
    BY <1>6 DEF RememberStatus
  <2>2. IngressTypeOK' /\ Finite'
    BY <1>1, <1>2, <1>5, <2>1 DEF IngressInv, IngressTypeOK, Finite
  <2>3. RadioInv'
    BY <1>1, <2>1 DEF IngressInv, RadioInv, RadioEntryOK, Known
  <2> QED
    BY <1>5, <2>2, <2>3 DEF IngressInv
<1>7. CASE ~Outdated(o, r)
  <2>1. /\ observer_radio' = all \ lost
        /\ next_place' = IF Known(o) = {} THEN next_place + 1 ELSE next_place
        /\ newest' = [q \in Observers |->
                         IF q \in {e.observer : e \in lost} THEN None
                         ELSE IF q = o /\ newest[o] \notin r..clock THEN r
                                                                    ELSE newest[q]]
    BY <1>7 DEF RememberStatus
  <2>2. PICK p \in Nat :
              /\ all = (observer_radio \ Known(o)) \cup {Radio(o, r, p)}
              /\ p < next_place'
              /\ \A e \in observer_radio \ Known(o) : e.place # p
              /\ IsFiniteSet(all)
              /\ Cardinality(all) <= MaxObservers + 1
    BY <1>3, <1>4, <2>1, RadioInserted
  <2> DEFINE new == Radio(o, r, p)
             others == observer_radio \ Known(o)
  <2>3. /\ new \in RadioEntries /\ new.observer = o /\ new.updated_at = r
        /\ new.expires_at = r + ObserverTTL /\ new.place = p
    BY <1>3, <1>4, IngressConstants DEF Radio, RadioEntries
  <2>4. \A e \in others : e \in observer_radio /\ e.observer \in Observers /\ e.observer # o
    BY <1>2, EntryTypes DEF Known
  <2>5. \A e \in observer_radio : e.observer # o => e \in others
    BY DEF Known
  <2>6. all = others \cup {new} /\ next_place <= next_place' /\ next_place' \in Nat
    BY <1>2, <2>1, <2>2
  <2>7. \A e \in others : e.place # p
    BY <2>2
  <2>8. \A e \in Known(o) : e \in observer_radio /\ e.observer = o
    BY DEF Known
  <2>9. IsFiniteSet(all) /\ Cardinality(all) <= MaxObservers + 1 /\ p < next_place'
    BY <2>2
  <2> HIDE DEF new, others, all, lost, o, r
  <2>10. all \subseteq RadioEntries
    BY <1>2, <2>3, <2>4, <2>6 DEF IngressTypeOK
  <2>11. /\ lost \subseteq all
         /\ IsFiniteSet(observer_radio') /\ Cardinality(observer_radio') <= MaxObservers
    <3>1. \A e \in all : e.place \in Nat
      BY <2>10 DEF RadioEntries
    <3> QED
      BY <2>1, <2>9, <3>1, Trimmed, IngressConstants DEF lost
  <2>12. \A e, f \in all : e.observer = f.observer \/ e.place = f.place => e = f
    <3>1. \A e, f \in others : e.observer = f.observer \/ e.place = f.place => e = f
      BY <2>4 DEF IngressInv, RadioInv
    <3> QED
      BY <2>3, <2>4, <2>6, <2>7, <3>1
  \* What becomes of the history values.
  <2>13. ASSUME NEW q \in Observers, q \in {e.observer : e \in lost}
         PROVE  newest'[q] = None
    BY <2>1, <2>13
  <2>14. ASSUME NEW q \in Observers, q \notin {e.observer : e \in lost}, q # o
         PROVE  newest'[q] = newest[q]
    BY <2>1, <2>14
  <2>15. ASSUME o \notin {e.observer : e \in lost}
         PROVE  newest'[o] = IF newest[o] \notin r..clock THEN r ELSE newest[o]
    BY <1>4, <2>1, <2>15
  <2>16. newest' \in [Observers -> Nat \cup {None}]
    <3>1. ASSUME NEW q \in Observers PROVE newest'[q] \in Nat \cup {None}
      <4>1. CASE q \in {e.observer : e \in lost}
        BY <2>13, <4>1
      <4>2. CASE q \notin {e.observer : e \in lost} /\ q # o
        BY <1>2, <2>14, <4>2 DEF IngressTypeOK
      <4>3. CASE q \notin {e.observer : e \in lost} /\ q = o
        BY <1>2, <1>3, <1>4, <2>15, <4>3 DEF IngressTypeOK
      <4> QED
        BY <4>1, <4>2, <4>3
    <3>2. newest' = [q \in Observers |-> newest'[q]]
      BY <2>1
    <3> QED
      BY <3>1, <3>2
  <2>17. IngressTypeOK'
    BY <1>1, <1>2, <2>1, <2>6, <2>10, <2>11, <2>16 DEF IngressTypeOK
  <2>18. \A e \in observer_radio' : e \in all /\ e \notin lost
                                    /\ e.observer \notin {f.observer : f \in lost}
    BY <2>1, <2>11, <2>12
  <2>19. ASSUME o \notin {e.observer : e \in lost}
         PROVE  /\ newest'[o] \in Nat /\ r <= newest'[o] /\ newest'[o] <= clock
                /\ r = newest'[o] \/ newest'[o] + ObserverTTL <= clock
    <3>1. CASE newest[o] \notin r..clock
      <4>1. newest'[o] = r
        BY <2>15, <2>19, <3>1
      <4> QED
        BY <1>2, <1>3, <4>1
    <3>2. CASE newest[o] \in r..clock
      <4>1. newest'[o] = newest[o] /\ newest[o] # None /\ newest[o] \in Nat
            /\ r <= newest[o] /\ newest[o] <= clock
        BY <1>2, <1>3, <2>15, <2>19, <3>2, IngressConstants
      <4>2. CASE Known(o) = {}
        BY <1>4, <4>1, <4>2 DEF IngressInv, RadioInv
      <4>3. CASE Known(o) # {}
        <5>1. PICK k \in observer_radio : k.observer = o
          BY <2>8, <4>3
        <5>2. k.updated_at \in Nat /\ ~(k.updated_at >= r)
          BY <1>2, <1>7, <5>1, EntryTypes DEF Outdated
        <5>3. k.updated_at = newest[o] \/ newest[o] + ObserverTTL <= clock
          BY <5>1 DEF IngressInv, RadioInv, RadioEntryOK
        <5> QED
          BY <1>3, <4>1, <5>2, <5>3
      <4> QED
        BY <4>2, <4>3
    <3> QED
      BY <3>1, <3>2
  <2>20. ASSUME NEW e \in observer_radio' PROVE RadioEntryOK(e)'
    <3>1. e \in all /\ e.observer \notin {f.observer : f \in lost}
      BY <2>18
    <3>2. CASE e = new
      <4>1. /\ newest'[o] \in Nat /\ r <= newest'[o]
            /\ r = newest'[o] \/ newest'[o] + ObserverTTL <= clock
        BY <2>3, <2>19, <3>1, <3>2
      <4>2. newest'[o] # None
        BY <4>1, IngressConstants
      <4> QED
        BY <1>1, <2>3, <2>9, <3>2, <4>1, <4>2 DEF RadioEntryOK
    <3>3. CASE e \in others
      <4>1. e \in observer_radio /\ newest'[e.observer] = newest[e.observer]
        BY <2>4, <2>14, <3>1, <3>3
      <4>2. RadioEntryOK(e) /\ e.place \in Nat
        BY <1>2, <4>1, EntryTypes DEF IngressInv, RadioInv
      <4>3. e.place < next_place'
        BY <1>2, <2>6, <4>2 DEF RadioEntryOK
      <4> QED
        BY <1>1, <4>1, <4>2, <4>3 DEF RadioEntryOK
    <3> QED
      BY <2>6, <3>1, <3>2, <3>3
  <2>21. ASSUME NEW q \in Observers, newest'[q] # None
         PROVE  /\ newest'[q] <= clock
                /\ Known(q)' = {} => newest'[q] + ObserverTTL <= clock
    <3>1. q \notin {e.observer : e \in lost}
      BY <2>13, <2>21
    <3>2. \A e \in all : e.observer = q => e \in observer_radio'
      BY <2>1, <3>1
    <3>3. CASE q = o
      <4>1. Known(q)' # {}
        BY <2>3, <2>6, <3>2, <3>3 DEF Known
      <4> QED
        BY <2>19, <3>1, <3>3, <4>1
    <3>4. CASE q # o
      <4>1. newest'[q] = newest[q] /\ newest[q] # None
        BY <2>14, <2>21, <3>1, <3>4
      <4>2. Known(q)' = {} => Known(q) = {}
        BY <2>5, <2>6, <3>2, <3>4 DEF Known
      <4> QED
        BY <4>1, <4>2 DEF IngressInv, RadioInv
    <3> QED
      BY <3>3, <3>4
  <2>22. RadioInv'
    BY <1>1, <2>12, <2>18, <2>20, <2>21 DEF RadioInv
  <2> QED
    BY <1>5, <2>11, <2>17, <2>22 DEF IngressInv
<1> QED
  BY <1>6, <1>7

----------------------------------------------------------------------------
(* The theorems.                                                            *)

(* Every step of the bridge's ingress side keeps the invariant.             *)
LEMMA IngressStep == IngressInv /\ [IngressNext]_ingressVars => IngressInv'
<1> SUFFICES ASSUME IngressInv, [IngressNext]_ingressVars PROVE IngressInv'
  OBVIOUS
<1>1. CASE UNCHANGED ingressVars
  <2>1. /\ UNCHANGED <<tables, held, clock, ingressHistory>>
        /\ UNCHANGED <<loop, result, cleanup, stopped, stopper, woken>>
    BY <1>1 DEF ingressVars, loopVars, taskVars
  <2>2. IngressTypeOK
    BY DEF IngressInv
  <2> QED
    BY <2>1, <2>2, OtherStepsKeepInv DEF IngressTypeOK
<1>2. ASSUME NEW msg \in Messages, NEW now \in Readings, IgnoreOffer(msg, now)
      PROVE  UNCHANGED ingressVars
  BY <1>2 DEF IgnoreOffer
<1>3. ASSUME NEW msg \in Messages, NEW now \in Readings, TakeOffer(msg, now)
      PROVE  IngressInv'
  BY <1>3, TakeOfferKeepsInv
<1>4. ASSUME LoopStep PROVE IngressInv'
  BY <1>4, LoopOnlyKeepsInv, RememberStatusKeepsInv, FinishKeepsInv, ClaimKeepsInv
     DEF LoopStep
<1>5. ASSUME CleanupCheck \/ CleanupStops \/ BeginStop \/ NotifyShutdown \/ Join
      PROVE  IngressInv'
  BY <1>5, TaskOnlyKeepsInv
<1>6. ASSUME Sweep PROVE IngressInv'
  BY <1>6, SweepKeepsInv
<1>7. ASSUME Tick PROVE IngressInv'
  BY <1>7, TickKeepsInv
<1> QED
  BY <1>1, <1>2, <1>3, <1>4, <1>5, <1>6, <1>7 DEF IngressNext

(* The invariant holds in every state of the ingress side.                  *)
THEOREM IngressIsSound == IngressSpec => []IngressInv
BY InitIsSound, IngressStep, PTL DEF IngressSpec

(* The ingress tables keep their types and limits, and the row the loop has *)
(* claimed is still queued when it comes back for it, whatever offers and   *)
(* sweeps come between (lines 249-253 and 634).                             *)
THEOREM HeldRowStaysQueued == IngressSpec => []TablesKeepTheHeldRow
<1>1. IngressInv => TablesKeepTheHeldRow
  BY DEF IngressInv, TablesKeepTheHeldRow
<1> QED
  BY <1>1, IngressIsSound, PTL

(* Adverts go out with the radio parameters of the status received last, of *)
(* those processed (lines 346-360 and 415-434).                             *)
THEOREM AdvertsUseTheNewestRadio == IngressSpec => []RadioIsTheNewest
<1>1. ASSUME IngressInv PROVE RadioIsTheNewest
  <2> SUFFICES ASSUME NEW o \in Observers
               PROVE  /\ \A e \in RadioOf(o) : e.updated_at = newest[o]
                      /\ newest[o] # None /\ RadioOf(o) = {} =>
                             newest[o] + ObserverTTL <= clock
    BY DEF RadioIsTheNewest
  <2>1. IngressTypeOK /\ clock \in Nat
    BY <1>1, EntryTypes DEF IngressInv
  <2>2. ASSUME NEW e \in observer_radio, e.observer = o
        PROVE  /\ e.updated_at \in Nat /\ newest[o] \in Nat
               /\ e.expires_at = e.updated_at + ObserverTTL
               /\ e.updated_at <= newest[o]
               /\ e.updated_at = newest[o] \/ newest[o] + ObserverTTL <= clock
    BY <1>1, <2>1, <2>2, EntryTypes DEF IngressInv, RadioInv, RadioEntryOK
  <2>3. ASSUME NEW e \in RadioOf(o) PROVE e.updated_at = newest[o]
    <3>1. e \in observer_radio /\ e.observer = o /\ e.expires_at > clock
      BY DEF RadioOf, Known
    <3> QED
      BY <2>1, <2>2, <3>1, IngressConstants
  <2>4. ASSUME newest[o] # None, RadioOf(o) = {} PROVE newest[o] + ObserverTTL <= clock
    <3>1. CASE Known(o) = {}
      BY <1>1, <2>4, <3>1 DEF IngressInv, RadioInv
    <3>2. CASE Known(o) # {}
      <4>1. PICK e \in observer_radio : e.observer = o /\ ~(e.expires_at > clock)
        BY <2>4, <3>2 DEF RadioOf, Known
      <4> QED
        BY <2>1, <2>2, <4>1, IngressConstants
    <3> QED
      BY <3>1, <3>2
  <2> QED
    BY <2>3, <2>4
<1> QED
  BY <1>1, IngressIsSound, PTL

(* A message is taken twice only if its window had passed, or newer ones    *)
(* had squeezed it out of the dedup table, whatever the age of the readings *)
(* offers bring to the lock (lines 121-144).                                *)
THEOREM OfferedTwiceTakenOnce == IngressSpec => TakenOncePerWindow
<1> DEFINE OnceStep ==
        \A row \in ingress' :
            row.id > next_ingress_id /\ took[row.msg] # None =>
                row.msg \in squeezed \/ clock >= took[row.msg] + ingress_dedup_ms
<1>1. ASSUME IngressInv, IngressInv', IngressNext PROVE OnceStep
  <2>1. IngressTypeOK /\ clock \in Nat /\ next_ingress_id \in Nat
    BY <1>1, EntryTypes DEF IngressInv
  <2>2. ASSUME \A row \in ingress' : row.id \in Nat /\ row.id <= next_ingress_id
        PROVE  OnceStep
    BY <2>1, <2>2
  <2>3. ASSUME next_ingress_id' = next_ingress_id PROVE OnceStep
    <3>1. \A row \in ingress' : row.id \in Nat /\ row.id <= next_ingress_id
      BY <1>1, <2>3 DEF IngressInv, IngressTypeOK, Rows, IdsOrderTheQueue
    <3> QED
      BY <2>2, <3>1
  <2>4. ASSUME NEW msg \in Messages, NEW now \in Readings, TakeOffer(msg, now)
        PROVE  OnceStep
    <3> DEFINE new == NewRow(msg, now)
    <3>1. ingress' = ingress \cup {new} /\ new.msg = msg /\ ~IsDuplicate(msg, now)
      BY <2>4 DEF TakeOffer, NewRow
    <3> HIDE DEF new
    <3>2. \A row \in ingress : row.id \in Nat /\ row.id <= next_ingress_id
      BY <1>1, <2>1, EntryTypes DEF IngressInv, IdsOrderTheQueue
    <3>3. ASSUME took[msg] # None, msg \notin squeezed
          PROVE  clock >= took[msg] + ingress_dedup_ms
      <4>1. ASSUME NEW e \in dedup, e.msg = msg
            PROVE  clock >= took[msg] + ingress_dedup_ms
        <5>1. e.expires = took[msg] + ingress_dedup_ms /\ e.expires \in Nat
          BY <1>1, <2>1, <4>1, EntryTypes DEF IngressInv, DedupInv
        <5>2. ~(e.expires > now)
          BY <3>1, <4>1 DEF IsDuplicate
        <5>3. now \in Nat /\ now <= clock
          BY <2>1, ReadingsHaveCome
        <5> QED
          BY <2>1, <5>1, <5>2, <5>3
      <4> QED
        BY <1>1, <3>3, <4>1 DEF IngressInv, DedupInv
    <3>4. ASSUME NEW row \in ingress', row.id > next_ingress_id, took[row.msg] # None
          PROVE  row.msg \in squeezed \/ clock >= took[row.msg] + ingress_dedup_ms
      <4>1. row = new
        BY <2>1, <3>1, <3>2, <3>4
      <4> QED
        BY <3>1, <3>3, <3>4, <4>1
    <3> QED
      BY <3>4
  <2>5. \/ next_ingress_id' = next_ingress_id
        \/ \E msg \in Messages, now \in Readings : TakeOffer(msg, now)
    BY <1>1 DEF IngressNext, LoopStep, IgnoreOffer, CheckStopped, RememberStatus, Pass,
                LookUpRadio, Admit, Finish, Claim, Wait, CleanupCheck, Sweep, CleanupStops,
                BeginStop, NotifyShutdown, Join, Tick, ingressVars, tables
  <2> HIDE DEF OnceStep
  <2> QED
    BY <2>3, <2>4, <2>5
<1>2. IngressInv /\ IngressInv' /\ [IngressNext]_ingressVars => [OnceStep]_ingressVars
  BY <1>1
<1> HIDE DEF OnceStep
<1>3. IngressSpec => [][OnceStep]_ingressVars
  BY <1>2, IngressIsSound, PTL DEF IngressSpec
<1> QED
  BY <1>3 DEF OnceStep, TakenOncePerWindow
=============================================================================
