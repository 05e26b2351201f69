------------------------- MODULE UploadQueue_proofs -------------------------
(* The upload queue keeps its tables bounded, its jobs in one hand and its  *)
(* promises about cooldown and re-upload, proved for any nodes, workers,    *)
(* limits, delays and exchanges.                                            *)
(*                                                                          *)
(* None of the checked invariants is inductive alone.  A worker's lookup by *)
(* id and status finds its row only because ids are unique and nobody else  *)
(* holds the row; the node table is bounded only because each completed job *)
(* that puts a node back has freed its place in the queue; an answer is     *)
(* judged right only because every queued job has valid radio parameters.   *)
(* UploadInv joins them.                                                    *)
EXTENDS UploadQueue, FiniteSetTheorems, WellFoundedInduction, TLAPS

\* A set of rows whose ids go up to `top'.
SoundJobs(rows, top) ==
    /\ rows \subseteq Rows
    /\ IsFiniteSet(rows)
    /\ \A j, k \in rows : j.id = k.id => j = k
    /\ \A j, k \in rows : j.node = k.node => j = k
    /\ \A j \in rows : j.id <= top
    /\ \A j \in rows : Valid(j.radio)
    /\ \A j \in rows : j.status = "processing" => j.count >= 1

\* A node table with the insertion order of its keys.
Enumerates(order, keys) ==
    /\ order \in [keys -> 0..(Cardinality(keys) - 1)]
    /\ \A m, n \in keys : order[m] = order[n] => m = n
Dated(state) == state.accepted_expires_at # None => state.accepted_timestamp # None
SoundTable(table, order) ==
    /\ table \in [DOMAIN table -> NodeStates]
    /\ \A n \in DOMAIN table : Dated(table[n])
    /\ DOMAIN table \subseteq Nodes
    /\ Enumerates(order, DOMAIN table)

\* A completed job puts at most one node back, and leaves its place.
RoomForCompletions ==
    /\ Cardinality(DOMAIN node_state) + Cardinality(jobs)
           <= MaxNodeEntries + max_queued_uploads
    /\ Cardinality(DOMAIN node_state) <= MaxNodeEntries + completed_uploads

QueueInv ==
    /\ next_job_id \in 0..MaxJobs
    /\ completed_uploads \in Nat /\ dropped_uploads \in Nat
    /\ capacity_rejected_uploads \in Nat
    /\ SoundJobs(jobs, next_job_id)
    /\ SoundTable(node_state, node_order)
    /\ Cardinality(jobs) <= max_queued_uploads
    /\ RoomForCompletions
    /\ EveryJobIsCounted
    /\ CooldownEndsWithTheJob

Stages == {"check", "claim", "waiting", "process", "posting", "gone"}

\* A worker has a row exactly while it works on it, and the row is the queue's.
RowsAreHeld ==
    /\ \A w \in Workers : row[w] # None <=> pc[w] \in {"process", "posting"}
    /\ \A w \in Workers : row[w] # None => row[w] \in jobs /\ row[w].status = "processing"
    /\ \A w \in Workers : pc[w] = "posting" => row[w].count <= Limit

\* Only stop() reaches a worker that is posting.
OnlyWaitersAreWoken ==
    /\ stopper # "no" => stopped
    /\ ~stopped => \A w \in woken : pc[w] = "waiting"

WorkerInv ==
    /\ pc \in [Workers -> Stages]
    /\ row \in [Workers -> Option(Rows)]
    /\ woken \subseteq Workers
    /\ stopped \in BOOLEAN /\ stopper \in {"no", "notify", "join", "done"}
    /\ RowsAreHeld
    /\ OnlyWaitersAreWoken
    /\ ProcessingIsHeldByOne

UploadInv ==
    /\ QueueInv
    /\ WorkerInv
    /\ clock \in 0..MaxTime
    /\ misjudged = {}
    /\ NoReuploadOfAccepted

----------------------------------------------------------------------------
(* Arithmetic.                                                              *)

(* A set of natural numbers that is not empty has a least element.          *)
LEMMA LeastNatural ==
    ASSUME NEW T, T \subseteq Nat, T # {}
    PROVE  \E x \in T : \A y \in T : x <= y
<1> DEFINE less == {ss \in Nat \X Nat : ss[1] < ss[2]}
<1>1. IsWellFoundedOn(less, Nat)
  BY NatLessThanWellFounded DEF OpToRel
<1>2. \A x, y \in Nat : y < x => <<y, x>> \in less
  OBVIOUS
<1> HIDE DEF less
<1>3. PICK x \in T : \A y \in T : ~(<<y, x>> \in less)
  BY <1>1, WFMin
<1>4. ASSUME NEW y \in T PROVE x <= y
  <2>1. x \in Nat /\ y \in Nat
    OBVIOUS
  <2>2. ~(y < x)
    BY <1>2, <1>3, <2>1
  <2> QED
    BY <2>1, <2>2
<1> QED
  BY <1>4

(* A power of two counts the subsets of an interval, so it is a number:     *)
(* the provers know nothing else about exponentiation.                      *)
LEMMA PowerOfTwoIsNatural ==
    ASSUME NEW k \in Nat
    PROVE  2 ^ k \in Nat
<1>1. IsFiniteSet(1..k) /\ Cardinality(1..k) = k
  BY FS_Interval
<1>2. IsFiniteSet(SUBSET (1..k)) /\ Cardinality(SUBSET (1..k)) = 2 ^ Cardinality(1..k)
  BY <1>1, FS_SUBSET
<1>3. Cardinality(SUBSET (1..k)) \in Nat
  BY <1>2, FS_CardinalityType
<1>4. Cardinality(SUBSET (1..k)) = 2 ^ k
  BY <1>1, <1>2
<1> QED
  BY <1>3, <1>4

(* A timestamp is a number, so it is not None.                              *)
LEMMA TimestampIsNumber ==
    ASSUME NEW t \in Timestamps
    PROVE  t \in Nat /\ t # None
<1>1. MaxTimestamp \in Nat /\ t \in 0..MaxTimestamp
  BY UploadAssumption
<1>2. t \in Int
  BY <1>1
<1> QED
  BY <1>1, <1>2, UploadAssumption

(* The delay before the next attempt is a time (runtime.rs lines 561-564).  *)
LEMMA BackoffIsNatural ==
    ASSUME NEW count \in Nat, count >= 1
    PROVE  Backoff(count) \in Nat
<1>1. 2 ^ (count - 1) \in Nat
  BY PowerOfTwoIsNatural
<1> DEFINE factor == 2 ^ (count - 1)
<1>2. factor \in Nat
  BY <1>1
<1> HIDE DEF factor
<1>3. retry_delay_ms * factor \in Nat /\ MaxBackoff \in Nat
  BY <1>2, UploadAssumption
<1>4. Backoff(count) = Least(retry_delay_ms * factor, MaxBackoff)
  BY DEF Backoff, factor
<1> QED
  BY <1>3, <1>4 DEF Least

----------------------------------------------------------------------------
(* What the queue's operations do to a set of rows.                         *)

(* finish_completed and finish_dropped: a row less.                         *)
LEMMA RemovedJob ==
    ASSUME NEW rows, NEW top, SoundJobs(rows, top), NEW j \in rows
    PROVE  /\ SoundJobs(rows \ {j}, top)
           /\ Cardinality(rows) \in Nat
           /\ Cardinality(rows \ {j}) = Cardinality(rows) - 1
<1>1. IsFiniteSet(rows \ {j}) /\ Cardinality(rows \ {j}) = Cardinality(rows) - 1
  BY FS_RemoveElement DEF SoundJobs
<1>2. Cardinality(rows) \in Nat
  BY FS_CardinalityType DEF SoundJobs
<1> QED
  BY <1>1, <1>2 DEF SoundJobs

(* claim_job and schedule_retry: a row is replaced by one of the same job.  *)
LEMMA ReplacedJob ==
    ASSUME NEW rows, NEW top, SoundJobs(rows, top), NEW j \in rows, NEW k \in Rows,
           k.id = j.id, k.node = j.node, k.radio = j.radio,
           k.status = "processing" => k.count >= 1
    PROVE  /\ SoundJobs((rows \ {j}) \cup {k}, top)
           /\ Cardinality((rows \ {j}) \cup {k}) = Cardinality(rows)
<1>1. /\ SoundJobs(rows \ {j}, top) /\ Cardinality(rows) \in Nat
      /\ Cardinality(rows \ {j}) = Cardinality(rows) - 1
  BY RemovedJob
<1>2. k \notin rows \ {j}
  BY DEF SoundJobs
<1>3. /\ IsFiniteSet((rows \ {j}) \cup {k})
      /\ Cardinality((rows \ {j}) \cup {k}) = Cardinality(rows \ {j}) + 1
  BY <1>1, <1>2, FS_AddElement DEF SoundJobs
<1>4. SoundJobs((rows \ {j}) \cup {k}, top)
  <2>1. (rows \ {j}) \cup {k} \subseteq Rows
    BY DEF SoundJobs
  <2>2. \A a, b \in (rows \ {j}) \cup {k} : a.id = b.id => a = b
    BY DEF SoundJobs
  <2>3. \A a, b \in (rows \ {j}) \cup {k} : a.node = b.node => a = b
    BY DEF SoundJobs
  <2>4. \A a \in (rows \ {j}) \cup {k} : a.id <= top /\ Valid(a.radio)
    BY DEF SoundJobs
  <2>5. \A a \in (rows \ {j}) \cup {k} : a.status = "processing" => a.count >= 1
    BY DEF SoundJobs
  <2> QED
    BY <1>3, <2>1, <2>2, <2>3, <2>4, <2>5 DEF SoundJobs
<1> QED
  BY <1>1, <1>3, <1>4

(* admit_job: a row with the next id, of a node that has none.              *)
LEMMA AddedJob ==
    ASSUME NEW rows, NEW top \in Nat, SoundJobs(rows, top), NEW k \in Rows,
           k.id = top + 1, \A j \in rows : j.node # k.node, Valid(k.radio),
           k.status = "pending"
    PROVE  /\ SoundJobs(rows \cup {k}, top + 1)
           /\ Cardinality(rows) \in Nat
           /\ Cardinality(rows \cup {k}) = Cardinality(rows) + 1
<1>1. \A j \in rows : j.id \in Nat /\ j.id <= top
  BY UploadAssumption DEF SoundJobs, Rows
<1>2. k \notin rows
  BY <1>1
<1>3. /\ IsFiniteSet(rows \cup {k}) /\ Cardinality(rows) \in Nat
      /\ Cardinality(rows \cup {k}) = Cardinality(rows) + 1
  BY <1>2, FS_AddElement, FS_CardinalityType DEF SoundJobs
<1>4. \A a, b \in rows \cup {k} : a.id = b.id => a = b
  BY <1>1 DEF SoundJobs
<1>5. \A a, b \in rows \cup {k} : a.node = b.node => a = b
  BY DEF SoundJobs
<1>6. \A a \in rows \cup {k} : a.id <= top + 1
  BY <1>1
<1>7. rows \cup {k} \subseteq Rows /\ \A a \in rows \cup {k} : Valid(a.radio)
  BY DEF SoundJobs
<1>8. \A a \in rows \cup {k} : a.status = "processing" => a.count >= 1
  BY DEF SoundJobs
<1> QED
  BY <1>3, <1>4, <1>5, <1>6, <1>7, <1>8 DEF SoundJobs

----------------------------------------------------------------------------
(* What the operations on the node table do to its insertion order.         *)

(* The table is finite: its keys are nodes.                                 *)
LEMMA KeysAreFinite ==
    ASSUME NEW keys, keys \subseteq Nodes
    PROVE  IsFiniteSet(keys) /\ Cardinality(keys) \in Nat
BY UploadAssumption, FS_Subset, FS_CardinalityType

(* A removal shifts the indexes down and keeps the order (indexmap's        *)
(* shift_remove_index and retain).                                          *)
LEMMA ReindexedEnumerates ==
    ASSUME NEW keys, keys \subseteq Nodes, NEW order, Enumerates(order, keys),
           NEW kept, kept \subseteq keys
    PROVE  Enumerates(Reindexed(order, kept), kept)
<1> DEFINE before(n) == {m \in kept : order[m] < order[n]}
<1>1. IsFiniteSet(kept) /\ Cardinality(kept) \in Nat
  BY KeysAreFinite
<1>2. \A n \in keys : order[n] \in Nat
  BY KeysAreFinite DEF Enumerates
<1>3. ASSUME NEW n \in kept
      PROVE  /\ IsFiniteSet(before(n)) /\ Cardinality(before(n)) \in Nat
             /\ Cardinality(before(n)) < Cardinality(kept)
  <2>1. before(n) \subseteq kept /\ before(n) # kept
    BY <1>2
  <2> QED
    BY <1>1, <2>1, FS_Subset, FS_CardinalityType
<1>4. ASSUME NEW m \in kept, NEW n \in kept, order[m] < order[n]
      PROVE  Cardinality(before(m)) # Cardinality(before(n))
  <2>1. before(m) \subseteq before(n) /\ m \in before(n) /\ m \notin before(m)
    BY <1>2, <1>4
  <2> QED
    BY <1>3, <2>1, FS_Subset
<1>5. ASSUME NEW m \in kept, NEW n \in kept, Cardinality(before(m)) = Cardinality(before(n))
      PROVE  m = n
  <2>1. order[m] = order[n]
    BY <1>2, <1>4, <1>5
  <2> QED
    BY <2>1 DEF Enumerates
<1>6. Reindexed(order, kept) = [n \in kept |-> Cardinality(before(n))]
  BY DEF Reindexed
<1> HIDE DEF before
<1> QED
  BY <1>1, <1>3, <1>5, <1>6 DEF Enumerates

(* An insertion gives a new key the last index (indexmap's insert).         *)
LEMMA InsertionEnumerates ==
    ASSUME SoundTable(node_state, node_order), NEW n \in Nodes
    PROVE  /\ Enumerates(OrderWith(n), DOMAIN node_state \cup {n})
           /\ Cardinality(DOMAIN node_state) \in Nat
           /\ Cardinality(DOMAIN node_state \cup {n}) \in Nat
           /\ Cardinality(DOMAIN node_state \cup {n}) <= Cardinality(DOMAIN node_state) + 1
<1> DEFINE keys == DOMAIN node_state
<1>1. IsFiniteSet(keys) /\ Cardinality(keys) \in Nat /\ keys \subseteq Nodes
  BY KeysAreFinite DEF SoundTable
<1>2. DOMAIN node_order = keys
  BY DEF SoundTable, Enumerates
<1>3. /\ Cardinality(keys \cup {n}) =
             IF n \in keys THEN Cardinality(keys) ELSE Cardinality(keys) + 1
  BY <1>1, FS_AddElement
<1>4. CASE n \in keys
  <2>1. OrderWith(n) = node_order /\ keys \cup {n} = keys
    BY <1>2, <1>4 DEF OrderWith
  <2> QED
    BY <1>1, <2>1 DEF SoundTable
<1>5. CASE n \notin keys
  <2>1. OrderWith(n) = [m \in keys \cup {n} |->
                            IF m = n THEN Cardinality(keys) ELSE node_order[m]]
    BY <1>2, <1>5 DEF OrderWith
  <2>2. \A m \in keys : node_order[m] \in 0..(Cardinality(keys) - 1)
    BY DEF SoundTable, Enumerates
  <2>3. \A a, b \in keys : node_order[a] = node_order[b] => a = b
    BY DEF SoundTable, Enumerates
  <2> HIDE DEF keys
  <2>4. \A a, b \in keys \cup {n} : OrderWith(n)[a] = OrderWith(n)[b] => a = b
    BY <1>1, <1>5, <2>1, <2>2, <2>3
  <2>5. OrderWith(n) \in [keys \cup {n} -> 0..(Cardinality(keys \cup {n}) - 1)]
    BY <1>1, <1>3, <1>5, <2>1, <2>2
  <2> QED
    BY <1>1, <1>3, <1>5, <2>4, <2>5 DEF Enumerates, keys
<1> QED
  BY <1>4, <1>5

(* The trim leaves at most MAX_NODE_ENTRIES keys, in their order            *)
(* (runtime.rs lines 486-488).                                              *)
LEMMA TrimmedEnumerates ==
    ASSUME NEW keys, keys \subseteq Nodes, NEW order, Enumerates(order, keys)
    PROVE  /\ DOMAIN TrimOrder(order) \subseteq keys
           /\ Enumerates(TrimOrder(order), DOMAIN TrimOrder(order))
           /\ Cardinality(DOMAIN TrimOrder(order)) \in Nat
           /\ Cardinality(DOMAIN TrimOrder(order)) <= MaxNodeEntries
<1> DEFINE size == Cardinality(keys)
           kept == {n \in keys : order[n] >= size - MaxNodeEntries}
<1>1. size \in Nat /\ MaxNodeEntries \in Nat
  BY KeysAreFinite, UploadAssumption
<1>2. DOMAIN order = keys
  BY DEF Enumerates
<1>3. TrimOrder(order) = Reindexed(order, kept)
  BY <1>2 DEF TrimOrder
<1>4. DOMAIN TrimOrder(order) = kept
  BY <1>3 DEF Reindexed
<1>5. Enumerates(TrimOrder(order), kept)
  BY <1>3, ReindexedEnumerates
<1>6. IsFiniteSet(kept) /\ Cardinality(kept) \in Nat
  BY KeysAreFinite
<1>7. Cardinality(kept) <= MaxNodeEntries
  <2> DEFINE places == (size - MaxNodeEntries)..(size - 1)
             index  == [n \in kept |-> order[n]]
  <2>1. IsFiniteSet(places) /\ Cardinality(places) = MaxNodeEntries
    <3>1. size - MaxNodeEntries \in Int /\ size - 1 \in Int
      BY <1>1
    <3>2. /\ IsFiniteSet(places)
          /\ Cardinality(places) = IF size - MaxNodeEntries > size - 1 THEN 0
                                   ELSE size - 1 - (size - MaxNodeEntries) + 1
      BY <3>1, FS_Interval
    <3> HIDE DEF places, size
    <3> QED
      BY <1>1, <3>2
  <2>2. index \in [kept -> places]
    BY <1>1 DEF Enumerates
  <2>3. \A a, b \in kept : index[a] = index[b] => a = b
    BY DEF Enumerates
  <2>4. index \in Injection(kept, places)
    BY <2>2, <2>3 DEF Injection, IsInjective
  <2> HIDE DEF kept, places, index
  <2> QED
    BY <1>6, <2>1, <2>4, FS_Injection DEF ExistsInjection
<1> QED
  BY <1>4, <1>5, <1>6, <1>7

----------------------------------------------------------------------------
(* What the invariant says of a worker with a row.                          *)

(* The lookups by id and status find the worker's own row and nothing else  *)
(* (runtime.rs lines 551-557, 575-581, 608-614).                            *)
LEMMA LookupFindsTheRow ==
    ASSUME QueueInv, WorkerInv, NEW w \in Workers, row[w] # None
    PROVE  /\ Current(w) = {row[w]}
           /\ row[w] \in jobs /\ row[w] \in Rows
           /\ row[w].status = "processing" /\ row[w].count >= 1
           /\ Valid(row[w].radio)
<1>1. row[w] \in jobs /\ row[w].status = "processing"
  BY DEF WorkerInv, RowsAreHeld
<1>2. \A j \in jobs : j.id = row[w].id => j = row[w]
  BY <1>1 DEF QueueInv, SoundJobs
<1> QED
  BY <1>1, <1>2 DEF Current, QueueInv, SoundJobs

(* What is known of a node has its type, whether it is in the table or not. *)
LEMMA TableIsTyped ==
    ASSUME QueueInv, NEW n \in Nodes
    PROVE  NodeOf(n) \in NodeStates /\ Dated(NodeOf(n))
BY DEF QueueInv, SoundTable, NodeOf, DefaultNode, NodeStates, Option, Dated

----------------------------------------------------------------------------
(* The workers' side of a step.                                             *)

(* A worker that has no row and takes none moves on.                        *)
LEMMA IdleWorkerMoves ==
    ASSUME WorkerInv, NEW w \in Workers, row[w] = None,
           NEW stage \in {"check", "claim", "waiting", "gone"}, Goto(w, stage),
           UNCHANGED <<row, jobs, stopVars>>,
           woken' \subseteq woken, w \notin woken' \/ stage = "waiting"
    PROVE  WorkerInv'
<1>1. pc' \in [Workers -> Stages] /\ \A v \in Workers : pc'[v] = IF v = w THEN stage ELSE pc[v]
  BY DEF WorkerInv, Goto, Stages
<1>2. RowsAreHeld'
  BY <1>1 DEF WorkerInv, RowsAreHeld
<1>3. OnlyWaitersAreWoken'
  BY <1>1 DEF WorkerInv, OnlyWaitersAreWoken, stopVars
<1>4. ProcessingIsHeldByOne'
  BY <1>1 DEF WorkerInv, ProcessingIsHeldByOne, stopVars
<1> QED
  BY <1>1, <1>2, <1>3, <1>4 DEF WorkerInv, stopVars

(* A worker gives its row up: the row left the queue, or is no longer in    *)
(* processing, or the runtime is stopping.                                  *)
LEMMA WorkerReleases ==
    ASSUME QueueInv, WorkerInv, NEW w \in Workers, row[w] # None, Done(w),
           jobs \ {row[w]} \subseteq jobs',
           \A j \in jobs' : \/ j \in jobs \ {row[w]}
                            \/ j.status # "processing" \/ stopped,
           UNCHANGED stopVars, woken' \subseteq woken
    PROVE  WorkerInv'
<1>1. /\ pc' \in [Workers -> Stages] /\ row' \in [Workers -> Option(Rows)]
      /\ \A v \in Workers : /\ pc'[v] = IF v = w THEN "check" ELSE pc[v]
                            /\ row'[v] = IF v = w THEN None ELSE row[v]
  BY DEF WorkerInv, Done, Goto, Stages, Option
<1>2. \A v \in Workers : v # w /\ row[v] # None => row[v] \in jobs \ {row[w]}
  BY DEF WorkerInv, RowsAreHeld, ProcessingIsHeldByOne
<1>3. RowsAreHeld'
  BY <1>1, <1>2 DEF WorkerInv, RowsAreHeld
<1>4. OnlyWaitersAreWoken'
  <2>1. ~stopped => w \notin woken
    BY DEF WorkerInv, OnlyWaitersAreWoken, RowsAreHeld
  <2> QED
    BY <1>1, <2>1 DEF WorkerInv, OnlyWaitersAreWoken, stopVars
<1>5. ProcessingIsHeldByOne'
  <2>1. \A v \in Workers : pc'[v] \in {"process", "posting"} => row'[v] \in jobs'
    BY <1>1, <1>2 DEF WorkerInv, RowsAreHeld
  <2>2. \A u, v \in Workers : row'[u] = row'[v] /\ row'[u] # None => u = v
    BY <1>1 DEF WorkerInv, ProcessingIsHeldByOne
  <2>3. ASSUME NEW j \in jobs', j.status = "processing", ~stopped'
        PROVE  \E v \in Workers : row'[v] = j
    <3>1. j \in jobs \ {row[w]}
      BY <2>3 DEF stopVars
    <3>2. PICK v \in Workers : row[v] = j
      BY <2>3, <3>1 DEF WorkerInv, ProcessingIsHeldByOne, stopVars
    <3>3. row'[v] = j
      BY <1>1, <3>1, <3>2
    <3> QED
      BY <3>3
  <2> QED
    BY <2>1, <2>2, <2>3 DEF ProcessingIsHeldByOne
<1> QED
  BY <1>1, <1>3, <1>4, <1>5 DEF WorkerInv, stopVars

----------------------------------------------------------------------------
(* The queue's side of a step.                                              *)

(* claim_job finds a least row (runtime.rs lines 513-526).                  *)
LEMMA EarliestIsClaimable ==
    ASSUME QueueInv, NEW now, Claimable(now) # {}
    PROVE  Earliest(Claimable(now)) \in Claimable(now)
<1> DEFINE times == {j.next : j \in Claimable(now)}
<1>1. \A j \in Claimable(now) : j \in jobs /\ j.next \in Nat /\ j.id \in Nat
  BY UploadAssumption DEF Claimable, QueueInv, SoundJobs, Rows
<1>2. times \subseteq Nat /\ times # {}
  BY <1>1
<1> HIDE DEF times
<1>3. PICK t \in times : \A u \in times : t <= u
  BY <1>2, LeastNatural
<1> DEFINE ids == {j.id : j \in {k \in Claimable(now) : k.next = t}}
<1>4. ids \subseteq Nat /\ ids # {}
  BY <1>1, <1>3 DEF times
<1> HIDE DEF ids
<1>5. PICK i \in ids : \A m \in ids : i <= m
  BY <1>4, LeastNatural
<1>6. PICK j \in Claimable(now) : j.next = t /\ j.id = i
  BY <1>5 DEF ids
<1>7. ASSUME NEW k \in Claimable(now)
      PROVE  j.next < k.next \/ (j.next = k.next /\ j.id <= k.id)
  <2>1. t <= k.next
    BY <1>3 DEF times
  <2>2. k.next = t => i <= k.id
    BY <1>5 DEF ids
  <2> QED
    BY <1>1, <1>6, <2>1, <2>2
<1> QED
  BY <1>7 DEF Earliest

(* A row of a job is replaced by another of the same job.                   *)
LEMMA ReplacementKeepsQueue ==
    ASSUME QueueInv, NoReuploadOfAccepted, NEW j \in jobs, NEW k \in Rows,
           k.id = j.id, k.node = j.node, k.ts = j.ts, k.radio = j.radio,
           k.status = "processing" => k.count >= 1,
           jobs' = (jobs \ {j}) \cup {k},
           UNCHANGED <<node_state, node_order, next_job_id, completed_uploads,
                       dropped_uploads, capacity_rejected_uploads, clock>>
    PROVE  QueueInv' /\ NoReuploadOfAccepted'
<1>1. SoundJobs(jobs', next_job_id') /\ Cardinality(jobs') = Cardinality(jobs)
  BY ReplacedJob DEF QueueInv
<1>2. RoomForCompletions' /\ EveryJobIsCounted'
  BY <1>1 DEF QueueInv, RoomForCompletions, EveryJobIsCounted
<1>3. CooldownEndsWithTheJob'
  <2>1. ASSUME NEW n, NEW a \in jobs, a.node = n PROVE \E b \in jobs' : b.node = n
    BY <2>1
  <2> QED
    BY <2>1 DEF QueueInv, CooldownEndsWithTheJob, Queued
<1>4. NoReuploadOfAccepted'
  <2>1. ASSUME NEW a \in jobs' PROVE \E b \in jobs : b.node = a.node /\ b.ts = a.ts
    OBVIOUS
  <2>2. \A m : NodeOf(m)' = NodeOf(m)
    BY DEF NodeOf
  <2> QED
    BY <2>1, <2>2 DEF NoReuploadOfAccepted
<1> QED
  BY <1>1, <1>2, <1>3, <1>4 DEF QueueInv

(* Nothing of the queue changes, and time does not go back.                 *)
LEMMA StandingQueue ==
    ASSUME QueueInv, NoReuploadOfAccepted, clock \in Nat,
           UNCHANGED <<jobs, node_state, node_order, next_job_id, completed_uploads,
                       dropped_uploads>>,
           capacity_rejected_uploads' \in Nat, clock' \in Nat, clock <= clock'
    PROVE  QueueInv' /\ NoReuploadOfAccepted'
<1>1. QueueInv'
  BY DEF QueueInv, RoomForCompletions, EveryJobIsCounted, CooldownEndsWithTheJob, Queued
<1>2. \A m : NodeOf(m)' = NodeOf(m)
  BY DEF NodeOf
<1>3. ASSUME NEW j \in jobs, IsAfter(NodeOf(j.node).accepted_expires_at, clock')
      PROVE  IsAfter(NodeOf(j.node).accepted_expires_at, clock)
  <2>1. NodeOf(j.node) \in NodeStates
    BY TableIsTyped DEF QueueInv, SoundJobs, Rows
  <2> QED
    BY <1>3, <2>1 DEF IsAfter, NodeStates, Option
<1> QED
  BY <1>1, <1>2, <1>3 DEF NoReuploadOfAccepted

(* A job ends: what the table holds afterwards is, for every other node,    *)
(* what it held, and the node's cooldown is over.                           *)
LEMMA EndedJobKeepsPromises ==
    ASSUME QueueInv, NoReuploadOfAccepted, NEW j \in jobs, jobs' = jobs \ {j},
           \A n \in DOMAIN node_state' : n # j.node =>
               n \in DOMAIN node_state /\ node_state'[n] = node_state[n],
           \A n \in DOMAIN node_state : n # j.node => n \in DOMAIN node_state',
           j.node \in DOMAIN node_state' => node_state'[j.node].cooldown_until = None,
           UNCHANGED clock
    PROVE  CooldownEndsWithTheJob' /\ NoReuploadOfAccepted'
<1>1. \A a \in jobs' : a \in jobs /\ a.node # j.node
  BY DEF QueueInv, SoundJobs
<1>2. CooldownEndsWithTheJob'
  <2>1. ASSUME NEW n \in DOMAIN node_state', node_state'[n].cooldown_until # None
        PROVE  \E a \in jobs' : a.node = n
    <3>1. n # j.node /\ n \in DOMAIN node_state /\ node_state[n].cooldown_until # None
      BY <2>1
    <3>2. PICK a \in jobs : a.node = n
      BY <3>1 DEF QueueInv, CooldownEndsWithTheJob, Queued
    <3> QED
      BY <3>1, <3>2
  <2> QED
    BY <2>1 DEF CooldownEndsWithTheJob, Queued
<1>3. NoReuploadOfAccepted'
  <2>1. \A a \in jobs' : NodeOf(a.node)' = NodeOf(a.node)
    BY <1>1 DEF NodeOf
  <2> QED
    BY <1>1, <2>1 DEF NoReuploadOfAccepted
<1> QED
  BY <1>2, <1>3

(* finish_completed (runtime.rs lines 572-603).                             *)
LEMMA CompletionKeepsQueue ==
    ASSUME QueueInv, WorkerInv, NoReuploadOfAccepted, clock \in Nat,
           NEW w \in Workers, row[w] # None, NEW accepted \in BOOLEAN, NEW now \in 0..clock,
           FinishCompleted(w, accepted, now), UNCHANGED clock
    PROVE  /\ QueueInv' /\ NoReuploadOfAccepted'
           /\ jobs' = jobs \ {row[w]}
<1> DEFINE n     == row[w].node
           state == IF accepted
                      THEN [cooldown_until |-> None, accepted_timestamp |-> row[w].ts,
                            accepted_expires_at |-> now + SeenTTL]
                      ELSE [NodeOf(n) EXCEPT !.cooldown_until = None]
<1>1. /\ Current(w) = {row[w]} /\ row[w] \in jobs /\ row[w] \in Rows
  BY LookupFindsTheRow
<1>2. /\ jobs' = jobs \ {row[w]}
      /\ completed_uploads' = completed_uploads + 1
      /\ node_state' = InsertNode(n, state)
      /\ node_order' = OrderWith(n)
      /\ UNCHANGED <<next_job_id, dropped_uploads, capacity_rejected_uploads>>
  BY <1>1 DEF FinishCompleted
<1>3. n \in Nodes /\ row[w].ts \in Timestamps
  BY <1>1 DEF Rows
<1>4. state \in NodeStates /\ Dated(state) /\ state.cooldown_until = None
  <2>1. NodeOf(n) \in NodeStates /\ Dated(NodeOf(n))
    BY <1>3, TableIsTyped
  <2>2. now + SeenTTL \in Nat
    BY UploadAssumption
  <2>3. row[w].ts # None
    BY <1>3, TimestampIsNumber
  <2> QED
    BY <1>3, <2>1, <2>2, <2>3 DEF NodeStates, Option, Dated
<1> HIDE DEF n, state
<1>5. /\ DOMAIN node_state' = DOMAIN node_state \cup {n}
      /\ node_state'[n] = state
      /\ \A m \in DOMAIN node_state : m # n => node_state'[m] = node_state[m]
      /\ node_state' \in [DOMAIN node_state \cup {n} -> NodeStates]
  BY <1>2, <1>4 DEF InsertNode, QueueInv, SoundTable
<1>6. /\ SoundJobs(jobs', next_job_id') /\ Cardinality(jobs) \in Nat
      /\ Cardinality(jobs') = Cardinality(jobs) - 1
  BY <1>1, <1>2, RemovedJob DEF QueueInv
<1>7. /\ Enumerates(OrderWith(n), DOMAIN node_state \cup {n})
      /\ Cardinality(DOMAIN node_state) \in Nat
      /\ Cardinality(DOMAIN node_state \cup {n}) \in Nat
      /\ Cardinality(DOMAIN node_state \cup {n}) <= Cardinality(DOMAIN node_state) + 1
  BY <1>3, InsertionEnumerates DEF QueueInv
<1>8. SoundTable(node_state', node_order')
  <2>1. \A m \in DOMAIN node_state' : Dated(node_state'[m])
    BY <1>4, <1>5 DEF SoundTable, QueueInv
  <2> QED
    BY <1>2, <1>3, <1>5, <1>7, <2>1 DEF SoundTable, QueueInv
<1>9. RoomForCompletions' /\ EveryJobIsCounted' /\ Cardinality(jobs') <= max_queued_uploads
  BY <1>2, <1>5, <1>6, <1>7, UploadAssumption
     DEF QueueInv, RoomForCompletions, EveryJobIsCounted
<1>10. CooldownEndsWithTheJob' /\ NoReuploadOfAccepted'
  BY <1>1, <1>2, <1>4, <1>5, EndedJobKeepsPromises DEF n
<1> QED
  BY <1>2, <1>6, <1>8, <1>9, <1>10 DEF QueueInv

(* finish_dropped (runtime.rs lines 605-622).                               *)
LEMMA DropKeepsQueue ==
    ASSUME QueueInv, WorkerInv, NoReuploadOfAccepted, clock \in Nat,
           NEW w \in Workers, row[w] # None, FinishDropped(w), UNCHANGED clock
    PROVE  /\ QueueInv' /\ NoReuploadOfAccepted'
           /\ jobs' = jobs \ {row[w]}
<1> DEFINE n == row[w].node
<1>1. /\ Current(w) = {row[w]} /\ row[w] \in jobs /\ row[w] \in Rows
  BY LookupFindsTheRow
<1>2. /\ jobs' = jobs \ {row[w]}
      /\ dropped_uploads' = dropped_uploads + 1
      /\ node_state' = ClearCooldown(n)
      /\ UNCHANGED <<node_order, next_job_id, completed_uploads, capacity_rejected_uploads>>
  BY <1>1 DEF FinishDropped
<1> HIDE DEF n
<1>3. /\ DOMAIN node_state' = DOMAIN node_state
      /\ n \in DOMAIN node_state => node_state'[n].cooldown_until = None
      /\ \A m \in DOMAIN node_state : m # n => node_state'[m] = node_state[m]
      /\ node_state' \in [DOMAIN node_state -> NodeStates]
      /\ \A m \in DOMAIN node_state : Dated(node_state'[m])
  BY <1>2 DEF ClearCooldown, QueueInv, SoundTable, NodeStates, Option, Dated
<1>4. /\ SoundJobs(jobs', next_job_id') /\ Cardinality(jobs) \in Nat
      /\ Cardinality(jobs') = Cardinality(jobs) - 1
  BY <1>1, <1>2, RemovedJob DEF QueueInv
<1>5. SoundTable(node_state', node_order')
  BY <1>2, <1>3 DEF SoundTable, QueueInv
<1>6. Cardinality(DOMAIN node_state) \in Nat
  BY KeysAreFinite DEF QueueInv, SoundTable
<1>7. RoomForCompletions' /\ EveryJobIsCounted' /\ Cardinality(jobs') <= max_queued_uploads
  BY <1>2, <1>3, <1>4, <1>6, UploadAssumption
     DEF QueueInv, RoomForCompletions, EveryJobIsCounted
<1>8. CooldownEndsWithTheJob' /\ NoReuploadOfAccepted'
  BY <1>1, <1>2, <1>3, EndedJobKeepsPromises DEF n
<1> QED
  BY <1>2, <1>4, <1>5, <1>7, <1>8 DEF QueueInv

(* admit_job (runtime.rs lines 437-492).  The clock may have moved on since *)
(* `now' was read, so an acceptance that had expired then has expired.      *)
LEMMA AdmissionKeepsQueue ==
    ASSUME QueueInv, NoReuploadOfAccepted, clock \in Nat,
           NEW n \in Nodes, NEW ts \in Timestamps, NEW radio \in Radios, NEW now \in 0..clock,
           AdmitJob(n, ts, radio, now)
    PROVE  /\ QueueInv' /\ NoReuploadOfAccepted'
           /\ jobs \subseteq jobs' /\ \A j \in jobs' : j \in jobs \/ j.status = "pending"
<1> DEFINE k     == [id |-> next_job_id + 1, node |-> n, ts |-> ts, status |-> "pending",
                     next |-> now, count |-> 0, radio |-> Rounded(radio)]
           known == [NodeOf(n) EXCEPT !.cooldown_until = now + Cooldown]
           all   == InsertNode(n, known)
           order == OrderWith(n)
           keys  == DOMAIN node_state \cup {n}
<1>1. /\ next_job_id < MaxJobs /\ Valid(Rounded(radio))
      /\ ~SeenRecently(n, ts, now) /\ ~Queued(n) /\ ~AtCapacity
      /\ next_job_id' = next_job_id + 1
      /\ jobs' = jobs \cup {k}
      /\ node_order' = TrimOrder(order)
      /\ node_state' = [m \in DOMAIN node_order' |-> all[m]]
      /\ UNCHANGED <<completed_uploads, dropped_uploads, capacity_rejected_uploads, clock>>
  BY DEF AdmitJob, Uploadable
<1>2. next_job_id \in Nat /\ next_job_id + 1 \in 1..MaxJobs
  BY <1>1, UploadAssumption DEF QueueInv
<1>3. k \in Rows
  BY <1>2 DEF Rows
<1>4. /\ k.id = next_job_id + 1 /\ k.node = n /\ k.ts = ts /\ k.radio = Rounded(radio)
      /\ k.status = "pending"
  OBVIOUS
<1> HIDE DEF k
<1>5. /\ SoundJobs(jobs', next_job_id') /\ Cardinality(jobs) \in Nat
      /\ Cardinality(jobs') = Cardinality(jobs) + 1
  <2>1. \A j \in jobs : j.node # k.node
    BY <1>1, <1>4 DEF Queued
  <2> QED
    BY <1>1, <1>2, <1>3, <1>4, <2>1, AddedJob DEF QueueInv
<1>6. NodeOf(n) \in NodeStates /\ Dated(NodeOf(n)) /\ known \in NodeStates
  <2>1. NodeOf(n) \in NodeStates /\ Dated(NodeOf(n))
    BY TableIsTyped
  <2>2. now + Cooldown \in Nat
    BY UploadAssumption
  <2> QED
    BY <2>1, <2>2 DEF NodeStates, Option
<1>7. known.accepted_expires_at = NodeOf(n).accepted_expires_at
      /\ known.accepted_timestamp = NodeOf(n).accepted_timestamp
  BY <1>6 DEF NodeStates
<1> HIDE DEF known
<1>8. /\ all \in [keys -> NodeStates] /\ all[n] = known
      /\ \A m \in DOMAIN node_state : m # n => all[m] = node_state[m]
      /\ \A m \in keys : Dated(all[m])
  BY <1>6, <1>7 DEF InsertNode, QueueInv, SoundTable, Dated
<1>9. Enumerates(order, keys) /\ keys \subseteq Nodes
  BY InsertionEnumerates DEF QueueInv, SoundTable
<1> HIDE DEF all, order
<1>10. /\ DOMAIN node_order' \subseteq keys
       /\ Enumerates(node_order', DOMAIN node_order')
       /\ Cardinality(DOMAIN node_order') \in Nat
       /\ Cardinality(DOMAIN node_order') <= MaxNodeEntries
  BY <1>1, <1>9, TrimmedEnumerates
<1>11. DOMAIN node_state' = DOMAIN node_order'
       /\ \A m \in DOMAIN node_state' : node_state'[m] = all[m]
  BY <1>1
<1>12. SoundTable(node_state', node_order')
  <2>1. node_state' \in [DOMAIN node_state' -> NodeStates]
    BY <1>1, <1>8, <1>10, <1>11
  <2>2. \A m \in DOMAIN node_state' : Dated(node_state'[m])
    BY <1>8, <1>10, <1>11
  <2> QED
    BY <1>9, <1>10, <1>11, <2>1, <2>2 DEF SoundTable
<1>13. RoomForCompletions' /\ EveryJobIsCounted' /\ Cardinality(jobs') <= max_queued_uploads
  BY <1>1, <1>5, <1>10, <1>11, UploadAssumption
     DEF QueueInv, RoomForCompletions, EveryJobIsCounted, AtCapacity
<1>14. CooldownEndsWithTheJob'
  <2>1. ASSUME NEW m \in DOMAIN node_state', node_state'[m].cooldown_until # None
        PROVE  \E j \in jobs' : j.node = m
    <3>1. CASE m = n
      BY <1>1, <1>4, <3>1
    <3>2. CASE m # n
      <4>1. m \in DOMAIN node_state /\ node_state[m].cooldown_until # None
        BY <1>8, <1>10, <1>11, <2>1, <3>2
      <4> QED
        BY <1>1, <4>1 DEF QueueInv, CooldownEndsWithTheJob, Queued
    <3> QED
      BY <3>1, <3>2
  <2> QED
    BY <2>1 DEF CooldownEndsWithTheJob, Queued
<1>15. NoReuploadOfAccepted'
  <2>1. ASSUME NEW j \in jobs', IsAfter(NodeOf(j.node)'.accepted_expires_at, clock')
        PROVE  /\ j.ts > NodeOf(j.node)'.accepted_timestamp
               /\ \/ j.ts >= NodeOf(j.node)'.accepted_timestamp + min_reupload_seconds
                  \/ j.ts = MaxTimestamp
    <3> DEFINE m == j.node
    <3>1. m \in DOMAIN node_state' /\ NodeOf(m)' = all[m]
      BY <1>11, <2>1 DEF NodeOf, DefaultNode, IsAfter
    <3>2. CASE j = k
      <4>1. m = n /\ j.ts = ts /\ NodeOf(m)' = known
        BY <1>4, <1>8, <3>1, <3>2
      <4>2. IsAfter(NodeOf(n).accepted_expires_at, clock)
        BY <1>1, <1>7, <2>1, <4>1
      <4>3. /\ NodeOf(n).accepted_expires_at \in Option(Nat)
            /\ NodeOf(n).accepted_timestamp \in Option(Timestamps)
        BY <1>6 DEF NodeStates
      <4>4. IsAfter(NodeOf(n).accepted_expires_at, now)
        BY <4>2, <4>3 DEF IsAfter, Option
      <4>5. ~(NodeOf(n).accepted_timestamp >= ts)
            /\ ~(ts < NextUpload(NodeOf(n).accepted_timestamp))
        BY <1>1, <4>4 DEF SeenRecently
      <4>6. NodeOf(n).accepted_timestamp \in 0..MaxTimestamp
        BY <1>6, <4>2, <4>3, UploadAssumption DEF Option, IsAfter, Dated
      <4> QED
        BY <1>7, <4>1, <4>5, <4>6, UploadAssumption DEF NextUpload, Least
    <3>3. CASE j # k
      <4>1. j \in jobs /\ m # n
        BY <1>1, <3>3 DEF Queued
      <4>2. m \in DOMAIN node_state /\ NodeOf(m)' = NodeOf(m)
        BY <1>8, <1>10, <1>11, <3>1, <4>1 DEF NodeOf
      <4> QED
        BY <1>1, <2>1, <4>1, <4>2 DEF NoReuploadOfAccepted
    <3> QED
      BY <3>2, <3>3
  <2> QED
    BY <2>1 DEF NoReuploadOfAccepted
<1> QED
  BY <1>1, <1>2, <1>4, <1>5, <1>12, <1>13, <1>14, <1>15 DEF QueueInv

(* sweep_state on node_state: an acceptance that is still remembered stays  *)
(* (runtime.rs line 637).                                                   *)
LEMMA SweepKeepsQueue ==
    ASSUME QueueInv, NoReuploadOfAccepted, clock \in Nat, Sweep
    PROVE  QueueInv' /\ NoReuploadOfAccepted'
<1> DEFINE kept == {n \in DOMAIN node_state : Live(node_state[n])}
<1>1. /\ node_order' = Reindexed(node_order, kept)
      /\ node_state' = Restrict(node_state, DOMAIN node_order')
      /\ UNCHANGED <<jobs, next_job_id, completed_uploads, dropped_uploads,
                     capacity_rejected_uploads, clock>>
  BY DEF Sweep
<1>2. /\ DOMAIN node_state' = kept /\ kept \subseteq DOMAIN node_state
      /\ \A n \in kept : node_state'[n] = node_state[n]
      /\ node_state' = [n \in kept |-> node_state[n]]
  BY <1>1 DEF Reindexed, Restrict
<1>3. Enumerates(node_order', kept)
  BY <1>1, ReindexedEnumerates DEF QueueInv, SoundTable
<1>4. SoundTable(node_state', node_order')
  <2>1. node_state' \in [kept -> NodeStates]
    BY <1>2 DEF QueueInv, SoundTable
  <2>2. \A n \in kept : Dated(node_state'[n])
    BY <1>2 DEF QueueInv, SoundTable
  <2> QED
    BY <1>2, <1>3, <2>1, <2>2 DEF QueueInv, SoundTable
<1> HIDE DEF kept
<1>5. RoomForCompletions' /\ EveryJobIsCounted' /\ Cardinality(jobs') <= max_queued_uploads
  <2>1. IsFiniteSet(DOMAIN node_state) /\ Cardinality(DOMAIN node_state) \in Nat
    BY KeysAreFinite DEF QueueInv, SoundTable
  <2>2. /\ Cardinality(kept) \in Nat
        /\ Cardinality(kept) <= Cardinality(DOMAIN node_state)
    BY <1>2, <2>1, FS_Subset, FS_CardinalityType
  <2>3. Cardinality(jobs) \in Nat
    BY FS_CardinalityType DEF QueueInv, SoundJobs
  <2> QED
    BY <1>1, <1>2, <2>1, <2>2, <2>3, UploadAssumption
       DEF QueueInv, RoomForCompletions, EveryJobIsCounted
<1>6. CooldownEndsWithTheJob'
  BY <1>1, <1>2 DEF QueueInv, CooldownEndsWithTheJob, Queued
<1>7. NoReuploadOfAccepted'
  <2>1. ASSUME NEW j \in jobs, IsAfter(NodeOf(j.node)'.accepted_expires_at, clock)
        PROVE  NodeOf(j.node)' = NodeOf(j.node)
    BY <1>2, <2>1 DEF NodeOf, DefaultNode, IsAfter
  <2> QED
    BY <1>1, <2>1 DEF NoReuploadOfAccepted
<1> QED
  BY <1>1, <1>4, <1>5, <1>6, <1>7 DEF QueueInv

----------------------------------------------------------------------------
(* The initial state and one lemma per kind of step.                        *)

(* The queue starts empty, with every worker before its first check.        *)
LEMMA UploadInitInv ==
    ASSUME UploadInit
    PROVE  UploadInv
<1> USE UploadAssumption DEF UploadInit
<1>1. Cardinality({}) = 0 /\ IsFiniteSet({})
  BY FS_EmptySet
<1>2. DOMAIN node_state = {}
  OBVIOUS
<1>3. SoundJobs(jobs, next_job_id)
  BY <1>1 DEF SoundJobs
<1>4. SoundTable(node_state, node_order)
  BY <1>1 DEF SoundTable, Enumerates
<1>5. RoomForCompletions /\ EveryJobIsCounted /\ Cardinality(jobs) <= max_queued_uploads
  BY <1>1, <1>2 DEF RoomForCompletions, EveryJobIsCounted
<1>6. CooldownEndsWithTheJob /\ NoReuploadOfAccepted
  BY <1>2 DEF CooldownEndsWithTheJob, NoReuploadOfAccepted
<1>7. QueueInv
  BY <1>3, <1>4, <1>5, <1>6 DEF QueueInv
<1>8. WorkerInv
  BY DEF WorkerInv, Stages, Option, RowsAreHeld, OnlyWaitersAreWoken, ProcessingIsHeldByOne
<1> QED
  BY <1>6, <1>7, <1>8 DEF UploadInv

(* admit_job, whatever it answers.                                          *)
LEMMA AdmissionPreserves ==
    ASSUME UploadInv, NEW n \in Nodes, NEW ts \in Timestamps, NEW now \in 0..clock,
           \/ \E radio \in Radios : AdmitJob(n, ts, radio, now)
           \/ RejectJob(n, ts, now)
    PROVE  UploadInv'
<1>1. clock \in Nat
  BY UploadAssumption DEF UploadInv
<1>2. ASSUME NEW radio \in Radios, AdmitJob(n, ts, radio, now) PROVE UploadInv'
  <2>1. /\ QueueInv' /\ NoReuploadOfAccepted'
        /\ jobs \subseteq jobs' /\ \A j \in jobs' : j \in jobs \/ j.status = "pending"
    BY <1>1, <1>2, AdmissionKeepsQueue DEF UploadInv
  <2>2. /\ UNCHANGED <<pc, row, stopped, stopper, clock, misjudged>>
        /\ woken' = woken \cup {w \in Workers : pc[w] \in {"waiting"}}
    BY <1>2 DEF AdmitJob, NotifyWaiters, workerVars, stopVars
  <2>3. RowsAreHeld' /\ OnlyWaitersAreWoken' /\ ProcessingIsHeldByOne'
    BY <2>1, <2>2
       DEF UploadInv, WorkerInv, RowsAreHeld, OnlyWaitersAreWoken, ProcessingIsHeldByOne
  <2>4. WorkerInv'
    BY <2>2, <2>3 DEF UploadInv, WorkerInv
  <2> QED
    BY <2>1, <2>2, <2>4 DEF UploadInv
<1>3. ASSUME RejectJob(n, ts, now) PROVE UploadInv'
  <2>1. /\ capacity_rejected_uploads' = capacity_rejected_uploads + 1
        /\ UNCHANGED <<jobs, node_state, node_order, next_job_id, completed_uploads,
                       dropped_uploads, pc, row, woken, stopped, stopper, clock, misjudged>>
    BY <1>3 DEF RejectJob, workerVars, stopVars
  <2>2. QueueInv' /\ NoReuploadOfAccepted'
    BY <1>1, <2>1, StandingQueue DEF UploadInv, QueueInv
  <2>3. WorkerInv'
    BY <2>1
       DEF UploadInv, WorkerInv, RowsAreHeld, OnlyWaitersAreWoken, ProcessingIsHeldByOne
  <2> QED
    BY <2>1, <2>2, <2>3 DEF UploadInv
<1> QED
  BY <1>2, <1>3

(* The poster asks for a retry after every transient failure and after no   *)
(* answer that settles the upload, provided the job's radio parameters are  *)
(* valid; a dry run fails never (poster.rs lines 42-110).                   *)
LEMMA RetryFitsAnswer ==
    ASSUME NEW radio, Valid(radio), NEW x
    PROVE  /\ Post(radio, x) \in {"accepted", "rejected", "retry"}
           /\ dry_run \/ Settles(x) => Post(radio, x) # "retry"
           /\ ~dry_run /\ Transient(x) => Post(radio, x) = "retry"
<1>1. CASE dry_run
  BY <1>1 DEF Post
<1>2. CASE ~dry_run /\ (~x.sent \/ Oversized(x) \/ x.broken)
  <2>1. Post(radio, x) = "retry"
    BY <1>2 DEF Post
  <2> QED
    BY <1>2, <2>1 DEF Settles
<1>3. CASE ~dry_run /\ ~(~x.sent \/ Oversized(x) \/ x.broken)
  <2>1. Post(radio, x) = ClassifyResponse(x.status, x.code)
    BY <1>3 DEF Post
  <2>2. Settles(x) <=>
            \/ x.status \in 200..299 \/ x.status \in (400..499) \ {408, 429}
            \/ x.code \in TerminalCodes \cup {"NODES_INSERTED"}
    BY <1>3 DEF Settles
  <2>3. ClassifyResponse(x.status, x.code) = "retry" <=> ~Settles(x)
    BY <2>2 DEF ClassifyResponse, IsPermanent, IsSuccess, IsClientError
  <2>4. ClassifyResponse(x.status, x.code) \in {"accepted", "rejected", "retry"}
    BY DEF ClassifyResponse
  <2> QED
    BY <1>3, <2>1, <2>3, <2>4 DEF Transient
<1> QED
  BY <1>1, <1>2, <1>3, PosterAssumption

(* The answer of post() is applied to the row it was asked for, and the job *)
(* ends exactly if it should.                                               *)
LEMMA AnswerPreserves ==
    ASSUME UploadInv, NEW w \in Workers, NEW x \in Exchanges, NEW now \in 0..clock,
           PostReturns(w, x, now)
    PROVE  UploadInv'
<1> DEFINE r      == row[w]
           result == Post(r.radio, x)
<1>1. clock \in Nat /\ clock' = clock /\ UNCHANGED stopVars /\ Done(w)
      /\ woken' \subseteq woken /\ pc[w] = "posting"
  BY UploadAssumption DEF UploadInv, PostReturns
<1>2. r # None
  BY <1>1 DEF UploadInv, WorkerInv, RowsAreHeld
<1>3. /\ Current(w) = {r} /\ r \in jobs /\ r \in Rows
      /\ r.status = "processing" /\ r.count >= 1 /\ Valid(r.radio)
  BY <1>2, LookupFindsTheRow DEF UploadInv
<1>4. /\ result \in {"accepted", "rejected", "retry"}
      /\ dry_run \/ Settles(x) => result # "retry"
      /\ ~dry_run /\ Transient(x) => result = "retry"
  BY <1>3, RetryFitsAnswer
<1>5. r.count < Limit <=> ~(r.count >= Limit)
  <2>1. r.count \in Nat
    BY <1>3 DEF Rows
  <2>2. Limit \in Nat
    BY UploadAssumption DEF Limit
  <2> QED
    BY <2>1, <2>2
<1>6. /\ result = "accepted" => FinishCompleted(w, TRUE, now)
      /\ result = "rejected" => FinishCompleted(w, FALSE, now)
      /\ result = "retry" => IF r.count < Limit THEN ScheduleRetry(w, now)
                                                ELSE FinishDropped(w)
  BY <1>4 DEF PostReturns
<1>7. misjudged' = IF FitsAnswer(x, r.count, \A j \in jobs' : j.id # r.id)
                     THEN misjudged ELSE misjudged \cup {r.id}
  BY DEF PostReturns
<1> HIDE DEF result
<1>8. CASE result \in {"accepted", "rejected"} \/ r.count >= Limit
  <2>1. QueueInv' /\ NoReuploadOfAccepted' /\ jobs' = jobs \ {r}
    <3>1. \/ FinishDropped(w)
          \/ \E accepted \in BOOLEAN : FinishCompleted(w, accepted, now)
      <4>1. CASE result = "accepted"
        BY <1>6, <4>1
      <4>2. CASE result = "rejected"
        BY <1>6, <4>2
      <4>3. CASE result = "retry" /\ ~(r.count < Limit)
        BY <1>6, <4>3
      <4> QED
        BY <1>4, <1>5, <1>8, <4>1, <4>2, <4>3
    <3> QED
      BY <1>1, <1>2, <3>1, CompletionKeepsQueue, DropKeepsQueue DEF UploadInv
  <2>2. WorkerInv'
    BY <1>1, <1>2, <2>1, WorkerReleases DEF UploadInv
  <2>3. \A j \in jobs' : j.id # r.id
    BY <1>3, <2>1 DEF UploadInv, QueueInv, SoundJobs
  <2>4. misjudged' = misjudged
    <3>1. FitsAnswer(x, r.count, \A j \in jobs' : j.id # r.id)
      BY <1>4, <1>5, <1>8, <2>3 DEF FitsAnswer
    <3> QED
      BY <1>7, <3>1
  <2> QED
    BY <1>1, <2>1, <2>2, <2>4 DEF UploadInv
<1>9. CASE result = "retry" /\ r.count < Limit
  <2>0. ScheduleRetry(w, now)
    BY <1>6, <1>9
  <2>1. PICK jitter \in 0..Least(999, Backoff(r.count) \div 4) :
            /\ jobs' = (jobs \ Current(w)) \cup
                   {[j EXCEPT !.status = "retry",
                              !.next = now + Backoff(j.count) + jitter] : j \in Current(w)}
            /\ UNCHANGED <<node_state, node_order, next_job_id, completed_uploads,
                           dropped_uploads, capacity_rejected_uploads>>
    BY <2>0, Zenon DEF ScheduleRetry
  <2> DEFINE again(j) == [j EXCEPT !.status = "retry",
                                   !.next = now + Backoff(j.count) + jitter]
             k == again(r)
  <2>2. jobs' = (jobs \ {r}) \cup {k}
    <3>1. jobs' = (jobs \ Current(w)) \cup {again(j) : j \in Current(w)}
      BY <2>1
    <3> HIDE DEF again
    <3>2. {again(j) : j \in {r}} = {again(r)}
      OBVIOUS
    <3> QED BY <1>3, <3>1, <3>2
  <2>3. Backoff(r.count) \in Nat
    BY <1>3, BackoffIsNatural DEF Rows
  <2>4. now + Backoff(r.count) + jitter \in Nat
    <3>1. Least(999, Backoff(r.count) \div 4) \in Int
      BY <2>3 DEF Least
    <3>2. jitter \in Nat
      BY <3>1
    <3> QED
      BY <2>3, <3>2
  <2>5. /\ k \in Rows /\ k.id = r.id /\ k.node = r.node /\ k.ts = r.ts /\ k.radio = r.radio
        /\ k.status = "retry"
    BY <1>3, <2>4 DEF Rows
  <2> HIDE DEF k
  <2>6. QueueInv' /\ NoReuploadOfAccepted'
    BY <1>1, <1>3, <2>1, <2>2, <2>5, ReplacementKeepsQueue DEF UploadInv
  <2>7. WorkerInv'
    BY <1>1, <1>2, <2>2, <2>5, WorkerReleases DEF UploadInv
  <2>8. ~\A j \in jobs' : j.id # r.id
    BY <2>2, <2>5
  <2>9. misjudged' = misjudged
    <3>1. FitsAnswer(x, r.count, \A j \in jobs' : j.id # r.id)
      BY <1>4, <1>5, <1>9, <2>8 DEF FitsAnswer
    <3> QED
      BY <1>7, <3>1
  <2> QED
    BY <1>1, <2>6, <2>7, <2>9 DEF UploadInv
<1> QED
  BY <1>4, <1>5, <1>8, <1>9

(* A claim hands an earliest row to a worker that had none.                 *)
LEMMA ClaimPreserves ==
    ASSUME UploadInv, NEW w \in Workers, NEW now \in 0..clock, ClaimJob(w, now)
    PROVE  UploadInv'
<1> DEFINE j == Earliest(Claimable(now))
           k == Claimed(j)
<1>1. /\ pc[w] = "claim" /\ jobs' = (jobs \ {j}) \cup {k}
      /\ row' = [row EXCEPT ![w] = k] /\ Goto(w, "process")
      /\ UNCHANGED <<node_state, node_order, next_job_id, completed_uploads, dropped_uploads,
                     capacity_rejected_uploads, woken, stopped, stopper, clock, misjudged>>
  BY DEF ClaimJob, stopVars
<1>2. j \in jobs /\ j \in Rows /\ j.status # "processing"
  <2>1. j \in Claimable(now)
    BY EarliestIsClaimable DEF UploadInv, ClaimJob
  <2> QED
    BY <2>1 DEF Claimable, UploadInv, QueueInv, SoundJobs
<1> HIDE DEF j
<1>3. /\ k \in Rows /\ k.id = j.id /\ k.node = j.node /\ k.ts = j.ts /\ k.radio = j.radio
      /\ k.status = "processing" /\ k.count >= 1
  <2> DEFINE more == j.count + 1
  <2>1. more \in Nat /\ more >= 1
    BY <1>2 DEF Rows
  <2> HIDE DEF more
  <2>4. k = [j EXCEPT !.status = "processing", !.count = more]
    BY <1>2 DEF Claimed, Rows, more
  <2>2. k \in Rows /\ k.count = more
    BY <1>2, <2>1, <2>4 DEF Rows
  <2>3. k.id = j.id /\ k.node = j.node /\ k.ts = j.ts /\ k.radio = j.radio
        /\ k.status = "processing"
    BY <1>2, <2>4 DEF Rows
  <2> HIDE DEF k
  <2> QED
    BY <2>1, <2>2, <2>3
<1> HIDE DEF k
<1>4. QueueInv' /\ NoReuploadOfAccepted'
  BY <1>1, <1>2, <1>3, ReplacementKeepsQueue DEF UploadInv
<1>5. /\ pc' \in [Workers -> Stages] /\ row' \in [Workers -> Option(Rows)]
      /\ \A v \in Workers : /\ pc'[v] = IF v = w THEN "process" ELSE pc[v]
                            /\ row'[v] = IF v = w THEN k ELSE row[v]
  BY <1>1, <1>3 DEF UploadInv, WorkerInv, Goto, Stages, Option
<1>6. k # None /\ row[w] = None
  <2>1. None \notin Rows
    BY RowAssumption
  <2> QED
    BY <1>1, <1>3, <2>1 DEF UploadInv, WorkerInv, RowsAreHeld
<1>7. \A v \in Workers : row[v] # None => row[v] # j /\ row[v] # k /\ row[v] \in jobs'
  <2>1. \A v \in Workers : row[v] # None => row[v] \in jobs /\ row[v].status = "processing"
    BY DEF UploadInv, WorkerInv, RowsAreHeld
  <2>2. k \notin jobs
    BY <1>2, <1>3 DEF UploadInv, QueueInv, SoundJobs
  <2> QED
    BY <1>1, <1>2, <2>1, <2>2
<1>8. RowsAreHeld'
  BY <1>1, <1>3, <1>5, <1>6, <1>7 DEF UploadInv, WorkerInv, RowsAreHeld
<1>9. OnlyWaitersAreWoken'
  BY <1>1, <1>5 DEF UploadInv, WorkerInv, OnlyWaitersAreWoken
<1>10. ProcessingIsHeldByOne'
  <2>1. \A v \in Workers : pc'[v] \in {"process", "posting"} => row'[v] \in jobs'
    BY <1>8 DEF RowsAreHeld
  <2>2. \A u, v \in Workers : row'[u] = row'[v] /\ row'[u] # None => u = v
    BY <1>5, <1>7 DEF UploadInv, WorkerInv, ProcessingIsHeldByOne
  <2>3. ASSUME NEW a \in jobs', a.status = "processing", ~stopped'
        PROVE  \E v \in Workers : row'[v] = a
    <3>1. CASE a = k
      BY <1>5, <3>1
    <3>2. CASE a # k
      <4>1. PICK v \in Workers : row[v] = a
        BY <1>1, <2>3, <3>2 DEF UploadInv, WorkerInv, ProcessingIsHeldByOne
      <4>2. v # w
        BY <1>6, <4>1, <2>3, <1>1, <3>2, RowAssumption DEF UploadInv, QueueInv, SoundJobs
      <4> QED
        BY <1>5, <4>1, <4>2
    <3> QED
      BY <3>1, <3>2
  <2> QED
    BY <2>1, <2>2, <2>3 DEF ProcessingIsHeldByOne
<1> QED
  BY <1>1, <1>4, <1>5, <1>8, <1>9, <1>10 DEF UploadInv, WorkerInv

(* The other steps of a worker.                                             *)
LEMMA WorkerPreserves ==
    ASSUME UploadInv, NEW w \in Workers, WorkerStep(w)
    PROVE  UploadInv'
<1>1. clock \in Nat
  BY UploadAssumption DEF UploadInv
<1>2. ASSUME UNCHANGED <<queueVars, clock>>
      PROVE  QueueInv' /\ NoReuploadOfAccepted'
  <2>1. UNCHANGED <<jobs, node_state, node_order, next_job_id, completed_uploads,
                    dropped_uploads, capacity_rejected_uploads, clock>>
    BY <1>2 DEF queueVars
  <2> QED
    BY <1>1, <2>1, StandingQueue DEF UploadInv, QueueInv
<1>3. pc[w] \notin {"process", "posting"} => row[w] = None
  BY DEF UploadInv, WorkerInv, RowsAreHeld
<1>4. ~stopped /\ pc[w] # "waiting" => w \notin woken
  BY DEF UploadInv, WorkerInv, OnlyWaitersAreWoken
<1>5. CASE CheckStopped(w)
  <2>1. PICK stage \in {"gone", "claim"} : Goto(w, stage)
    BY <1>5 DEF CheckStopped
  <2>2. /\ pc[w] = "check"
        /\ UNCHANGED <<queueVars, row, woken, stopVars, clock, misjudged>>
    BY <1>5 DEF CheckStopped
  <2>3. OnlyWaitersAreWoken' /\ pc' \in [Workers -> Stages]
        /\ \A v \in Workers : pc'[v] = IF v = w THEN stage ELSE pc[v]
    BY <1>4, <2>1, <2>2
       DEF UploadInv, WorkerInv, Goto, Stages, OnlyWaitersAreWoken, stopVars
  <2>4. RowsAreHeld' /\ ProcessingIsHeldByOne'
    BY <2>2, <2>3
       DEF UploadInv, WorkerInv, RowsAreHeld, ProcessingIsHeldByOne, stopVars, queueVars
  <2>5. WorkerInv'
    BY <2>2, <2>3, <2>4 DEF UploadInv, WorkerInv, stopVars
  <2> QED
    BY <1>2, <2>2, <2>5 DEF UploadInv
<1>6. CASE Wake(w)
  <2>1. /\ pc[w] = "waiting" /\ woken' = woken \ {w} /\ Goto(w, "check")
        /\ UNCHANGED <<queueVars, row, stopVars, clock, misjudged>>
    BY <1>6 DEF Wake
  <2>2. WorkerInv'
    BY <1>3, <2>1, IdleWorkerMoves DEF UploadInv, queueVars
  <2> QED
    BY <1>2, <2>1, <2>2 DEF UploadInv
<1>7. CASE StartPost(w)
  <2>1. pc[w] = "process" /\ UNCHANGED <<woken, stopVars, clock, misjudged>>
    BY <1>7 DEF StartPost
  <2>2. row[w] # None
    BY <2>1 DEF UploadInv, WorkerInv, RowsAreHeld
  <2>3. CASE row[w].count > Limit
    <3>1. FinishDropped(w) /\ Done(w)
      BY <1>7, <2>3 DEF StartPost
    <3>2. QueueInv' /\ NoReuploadOfAccepted' /\ jobs' = jobs \ {row[w]}
      BY <1>1, <2>1, <2>2, <3>1, DropKeepsQueue DEF UploadInv
    <3>3. WorkerInv'
      BY <2>1, <2>2, <3>1, <3>2, WorkerReleases DEF UploadInv
    <3> QED
      BY <2>1, <3>2, <3>3 DEF UploadInv
  <2>4. CASE ~(row[w].count > Limit)
    <3>1. Goto(w, "posting") /\ UNCHANGED <<queueVars, row>>
      BY <1>7, <2>4 DEF StartPost
    <3>2. row[w].count <= Limit
      <4>1. row[w].count \in Nat
        BY <2>2, LookupFindsTheRow DEF UploadInv, Rows
      <4>2. Limit \in Nat
        BY UploadAssumption DEF Limit
      <4> QED
        BY <2>4, <4>1, <4>2
    <3>3. pc' \in [Workers -> Stages]
          /\ \A v \in Workers : pc'[v] = IF v = w THEN "posting" ELSE pc[v]
      BY <3>1 DEF UploadInv, WorkerInv, Goto, Stages
    <3>4. RowsAreHeld'
      BY <2>1, <3>1, <3>2, <3>3 DEF UploadInv, WorkerInv, RowsAreHeld, queueVars
    <3>5. OnlyWaitersAreWoken'
      BY <1>4, <2>1, <3>3 DEF UploadInv, WorkerInv, OnlyWaitersAreWoken, stopVars
    <3>6. ProcessingIsHeldByOne'
      BY <2>1, <3>1, <3>3
         DEF UploadInv, WorkerInv, ProcessingIsHeldByOne, stopVars, queueVars
    <3>7. WorkerInv'
      BY <2>1, <3>1, <3>3, <3>4, <3>5, <3>6 DEF UploadInv, WorkerInv, stopVars
    <3> QED
      BY <1>2, <2>1, <3>1, <3>7 DEF UploadInv
  <2> QED
    BY <2>3, <2>4
<1>8. CASE CancelPost(w)
  <2>1. /\ pc[w] = "posting" /\ w \in woken /\ Done(w) /\ woken' \subseteq woken
        /\ UNCHANGED <<queueVars, stopVars, clock, misjudged>>
    BY <1>8 DEF CancelPost
  <2>2. row[w] # None /\ stopped
    BY <1>4, <2>1 DEF UploadInv, WorkerInv, RowsAreHeld
  <2>3. jobs' = jobs
    BY <2>1 DEF queueVars
  <2>4. WorkerInv'
    BY <2>1, <2>2, <2>3, WorkerReleases DEF UploadInv
  <2> QED
    BY <1>2, <2>1, <2>4 DEF UploadInv
<1>9. ASSUME NEW now \in 0..clock, Wait(w, now) PROVE UploadInv'
  <2>1. /\ pc[w] = "claim" /\ Goto(w, "waiting")
        /\ UNCHANGED <<queueVars, row, woken, stopVars, clock, misjudged>>
    BY <1>9 DEF Wait
  <2>2. WorkerInv'
    BY <1>3, <2>1, IdleWorkerMoves DEF UploadInv, queueVars
  <2> QED
    BY <1>2, <2>1, <2>2 DEF UploadInv
<1> QED
  BY <1>5, <1>6, <1>7, <1>8, <1>9, AnswerPreserves, ClaimPreserves DEF WorkerStep

(* stop() and the clock.                                                    *)
LEMMA StopPreserves ==
    ASSUME UploadInv, BeginStop \/ NotifyShutdown \/ Join \/ Tick
    PROVE  UploadInv'
<1>1. clock \in Nat
  BY UploadAssumption DEF UploadInv
<1>2. /\ UNCHANGED <<jobs, node_state, node_order, next_job_id, completed_uploads,
                     dropped_uploads, capacity_rejected_uploads, pc, row, misjudged>>
      /\ clock' \in {clock, clock + 1} /\ clock' \in 0..MaxTime
  BY UploadAssumption
     DEF UploadInv, BeginStop, NotifyShutdown, Join, Tick, queueVars, workerVars
<1>3. QueueInv' /\ NoReuploadOfAccepted'
  BY <1>1, <1>2, StandingQueue DEF UploadInv, QueueInv
<1>4. /\ stopped => stopped'
      /\ stopped' \in BOOLEAN /\ woken' \subseteq Workers
      /\ stopper' \in {"no", "notify", "join", "done"} /\ OnlyWaitersAreWoken'
  <2>1. CASE BeginStop
    BY <2>1 DEF UploadInv, WorkerInv, OnlyWaitersAreWoken, BeginStop
  <2>2. CASE NotifyShutdown
    BY <2>2 DEF UploadInv, WorkerInv, OnlyWaitersAreWoken, NotifyShutdown, NotifyWaiters
  <2>3. CASE Join
    BY <1>2, <2>3 DEF UploadInv, WorkerInv, OnlyWaitersAreWoken, Join
  <2>4. CASE Tick
    BY <1>2, <2>4 DEF UploadInv, WorkerInv, OnlyWaitersAreWoken, Tick, stopVars
  <2> QED
    BY <2>1, <2>2, <2>3, <2>4
<1>5. RowsAreHeld' /\ ProcessingIsHeldByOne'
  BY <1>2, <1>4 DEF UploadInv, WorkerInv, RowsAreHeld, ProcessingIsHeldByOne
<1>6. WorkerInv'
  BY <1>2, <1>4, <1>5 DEF UploadInv, WorkerInv
<1> QED
  BY <1>2, <1>3, <1>6 DEF UploadInv

(* Every step of the runtime keeps the invariant.                           *)
LEMMA UploadInvInductive ==
    ASSUME UploadInv, [UploadNext]_uploadVars
    PROVE  UploadInv'
<1>1. CASE Sweep
  <2>1. QueueInv' /\ NoReuploadOfAccepted'
    BY <1>1, SweepKeepsQueue, UploadAssumption DEF UploadInv
  <2>2. WorkerInv'
    BY <1>1 DEF Sweep, UploadInv, WorkerInv, RowsAreHeld, OnlyWaitersAreWoken,
                ProcessingIsHeldByOne, workerVars, stopVars
  <2> QED
    BY <1>1, <2>1, <2>2 DEF Sweep, UploadInv
<1>2. CASE UNCHANGED uploadVars
  <2>1. UNCHANGED <<jobs, node_state, node_order, next_job_id, completed_uploads,
                    dropped_uploads, capacity_rejected_uploads, pc, row, woken, stopped,
                    stopper, clock, misjudged>>
    BY <1>2 DEF uploadVars, queueVars, workerVars, stopVars
  <2>2. QueueInv' /\ NoReuploadOfAccepted'
    BY <2>1, StandingQueue, UploadAssumption DEF UploadInv, QueueInv
  <2>3. WorkerInv'
    BY <2>1 DEF UploadInv, WorkerInv, RowsAreHeld, OnlyWaitersAreWoken,
                ProcessingIsHeldByOne
  <2> QED
    BY <2>1, <2>2, <2>3 DEF UploadInv
<1>3. ASSUME NEW advert \in Adverts, NEW now \in 0..clock,
             \/ \E radio \in Radios : AdmitJob(advert.node, advert.ts, radio, now)
             \/ RejectJob(advert.node, advert.ts, now)
      PROVE  UploadInv'
  <2>1. advert.node \in Nodes /\ advert.ts \in Timestamps
    BY UploadAssumption
  <2> QED
    BY <1>3, <2>1, AdmissionPreserves
<1> QED
  BY <1>1, <1>2, <1>3, WorkerPreserves, StopPreserves DEF UploadNext

----------------------------------------------------------------------------
(* What the invariant gives.                                                *)

(* UploadInv holds in every state of every behaviour.                       *)
THEOREM UploadInvHolds == UploadSpec => []UploadInv
BY UploadInitInv, UploadInvInductive, PTL DEF UploadSpec

(* The tables have their types and limits.                                  *)
LEMMA InvGivesTables ==
    ASSUME UploadInv
    PROVE  TablesAreBounded
<1>1. UploadTypeOK
  <2>1. IsInjective(node_order) /\ DOMAIN node_order = DOMAIN node_state
    BY DEF UploadInv, QueueInv, SoundTable, Enumerates, IsInjective
  <2> QED
    BY <2>1 DEF UploadInv, QueueInv, WorkerInv, SoundJobs, SoundTable, Enumerates,
                UploadTypeOK, Stages
<1>2. QueueIsBounded
  <2>1. Limit = IF attempts = 0 THEN 1 ELSE attempts
    BY UploadAssumption DEF Limit
  <2> QED
    BY <2>1 DEF UploadInv, QueueInv, WorkerInv, SoundJobs, RowsAreHeld, QueueIsBounded
<1>3. NodeTableBounded
  <2>1. Cardinality(DOMAIN node_state) \in Nat
    BY KeysAreFinite DEF UploadInv, QueueInv, SoundTable
  <2>2. Cardinality(jobs) \in Nat
    BY FS_CardinalityType DEF UploadInv, QueueInv, SoundJobs
  <2> QED
    BY <2>1, <2>2, UploadAssumption
       DEF UploadInv, QueueInv, RoomForCompletions, NodeTableBounded, Least
<1> QED
  BY <1>1, <1>2, <1>3 DEF TablesAreBounded

(* The tables of the upload side have their types and their limits: one job *)
(* per node, max_queued_uploads jobs, and a node table that completed jobs  *)
(* may grow beyond MAX_NODE_ENTRIES, by at most the jobs the queue can hold *)
(* (runtime.rs lines 437-492, 572-603).                                     *)
THEOREM UploadTablesAreBounded == UploadSpec => []TablesAreBounded
BY UploadInvHolds, InvGivesTables, PTL

(* A job in processing is in the hands of exactly one worker, whose copy is *)
(* the queue's, until stop() cancels its post (runtime.rs lines 494-547).   *)
THEOREM UploadJobHasOneHolder == UploadSpec => []ProcessingIsHeldByOne
<1>1. UploadInv => ProcessingIsHeldByOne
  BY DEF UploadInv, WorkerInv
<1> QED
  BY <1>1, UploadInvHolds, PTL

(* Every job is completed or dropped, once, or still queued, and it ends as *)
(* the answers say: a transient failure leaves it its remaining attempts, a *)
(* definite answer ends it (runtime.rs lines 527-547, poster.rs).           *)
THEOREM UploadJobsEndAsAnswered == UploadSpec => []JobsEndAsAnswered
<1>1. UploadInv => JobsEndAsAnswered
  BY DEF UploadInv, QueueInv, JobsEndAsAnswered
<1> QED
  BY <1>1, UploadInvHolds, PTL

(* A node is in cooldown only while its job is queued (runtime.rs lines     *)
(* 480, 593, 599, 619).                                                     *)
THEOREM UploadCooldownEnds == UploadSpec => []CooldownEndsWithTheJob
<1>1. UploadInv => CooldownEndsWithTheJob
  BY DEF UploadInv, QueueInv
<1> QED
  BY <1>1, UploadInvHolds, PTL

(* No queued advert is covered by an acceptance that is still remembered    *)
(* (runtime.rs lines 446-456).                                              *)
THEOREM UploadNeverRepeats == UploadSpec => []NoReuploadOfAccepted
<1>1. UploadInv => NoReuploadOfAccepted
  BY DEF UploadInv
<1> QED
  BY <1>1, UploadInvHolds, PTL

============================================================================
