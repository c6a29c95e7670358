----------------------- MODULE MilestoneScoringProofs -----------------------
(***************************************************************************)
(* MilestonePipeline.tla for every number of queries, trajectories,        *)
(* threads, servers, retries and failures, and JudgeChunks.tla for every   *)
(* trajectory, chunk size, overlap and checklist.                          *)
(*                                                                         *)
(* The inductive invariant PipeInv says, besides what the theorems state:  *)
(*  - WorkInv: threads work on different tasks, which have been taken from *)
(*    the queue and have no result yet;                                    *)
(*  - OwnInv: a result is that of its task, and in the generating stage    *)
(*    the answers are the results of the queries that were answered;       *)
(*  - TurnInv: in the judging stage the servers before the counter's place *)
(*    in the round have been picked once more than the others;             *)
(*  - AskedInv: the servers a task has asked in vain are as many as its    *)
(*    attempts, and those of them that are up account for a glitch each.   *)
(* ChunkInv says where the next chunk starts, in closed form.              *)
(***************************************************************************)
EXTENDS MilestoneScoring, NumberLemmas, FiniteSetTheorems, SequenceTheorems

Pcs   == {"idle", "pick", "bump", "store", "ask"}
Busy(w) == pc[w] # "idle"
Result == [got : {"none", "answer", "default", "zeros"}, of : Int]

PipeTypeInv ==
  /\ stage \in {"generate", "judge", "done"}
  /\ down \subseteq Clients
  /\ glitches \in Nat /\ raises \in Nat /\ next \in Nat \ {0} /\ callIndex \in Nat
  /\ pc \in [Threads -> Pcs]
  /\ task \in [Threads -> Nat]
  /\ client \in [Threads -> Clients]
  /\ attempt \in [Threads -> Nat]
  /\ loaded \in [Threads -> Nat]
  /\ results \in [Tasks -> Result]
  /\ picks \in [Clients -> Nat]

WorkInv ==
  /\ \A i \in Tasks : i >= next => results[i].got = "none"
  /\ \A w \in Threads : Busy(w) =>
       /\ task[w] \in Tasks \ Skipped /\ task[w] < next
       /\ results[task[w]].got = "none"
  /\ \A v, w \in Threads : v # w /\ Busy(v) /\ Busy(w) => task[v] # task[w]
  /\ stage = "judge" => \A w \in Threads : pc[w] \notin {"bump", "store"}
  /\ stage = "done" => \A w \in Threads : ~Busy(w)

OwnInv ==
  /\ \A i \in Tasks : results[i].got # "none" => results[i].of = i
  /\ stage = "generate" => \A q \in Queries :
       /\ q \in answered <=> results[q].got = "answer"
       /\ results[q].got # "zeros"
  /\ PhisOfOwnQuery

TurnInv ==
  stage = "judge" => \E q \in Nat : \A c \in Clients :
    picks[c] = IF c < callIndex % NumClients THEN q + 1 ELSE q

\* The servers asked in the first n attempts of a task that starts with c.
Asked(c, n) == {(c + j) % NumClients : j \in 0..(n - 1)}

AskedBy(w) ==
  /\ pc[w] \in {"pick", "bump", "store"} => attempt[w] = 0
  /\ pc[w] = "ask" =>
       /\ attempt[w] < MaxRetries
       /\ Cardinality(Asked(client[w], attempt[w]) \ down) <= glitches

AskedInv == \A w \in Threads : AskedBy(w)

PipeInv ==
  /\ PipeTypeInv
  /\ WorkInv
  /\ OwnInv
  /\ TurnInv
  /\ AskedInv
  /\ DefaultNeedsManyFailures

-----------------------------------------------------------------------------
(* Servers and tasks.                                                      *)

LEMMA ClientsAreFinite ==
  /\ IsFiniteSet(Clients)
  /\ \A S \in SUBSET Clients : IsFiniteSet(S) /\ Cardinality(S) \in Nat
<1>1. IsFiniteSet(Clients)
  BY SizesAssumption, FS_Interval DEF Clients
<1> QED  BY <1>1, FS_Subset, FS_CardinalityType

LEMMA AskedAreClients ==
  ASSUME NEW c \in Clients, NEW n \in Nat
  PROVE  Asked(c, n) \in SUBSET Clients
<1> SUFFICES ASSUME NEW j \in 0..(n - 1)
             PROVE  (c + j) % NumClients \in Clients
  BY DEF Asked
<1>1. c + j \in Int
  BY SizesAssumption DEF Clients
<1> QED  BY <1>1, SizesAssumption, DivMod DEF Clients

\* As long as there are servers left, every attempt asks another one.
LEMMA AskedCount ==
  ASSUME NEW c \in Clients, NEW n \in Nat, n <= NumClients
  PROVE  Cardinality(Asked(c, n)) = n
<1> DEFINE f == [j \in 0..(n - 1) |-> (c + j) % NumClients]
<1>1. \A i, j \in 0..(n - 1) : f[i] = f[j] => i = j
  <2> SUFFICES ASSUME NEW i \in 0..(n - 1), NEW j \in 0..(n - 1),
                      (c + i) % NumClients = (c + j) % NumClients
               PROVE  i = j
    OBVIOUS
  <2>1. c \in Nat /\ i \in 0..(NumClients - 1) /\ j \in 0..(NumClients - 1)
    BY SizesAssumption DEF Clients
  <2> QED  BY <2>1, SizesAssumption, ModInjective
<1>2. f \in Surjection(0..(n - 1), Asked(c, n))
  BY DEF Surjection, Asked
<1>3. f \in Injection(0..(n - 1), Asked(c, n))
  BY <1>1, <1>2 DEF Injection, Surjection, IsInjective
<1>4. IsFiniteSet(0..(n - 1)) /\ Cardinality(0..(n - 1)) = n
  BY FS_Interval
<1> QED  BY <1>2, <1>3, <1>4, FS_Surjection

LEMMA AskedNext ==
  ASSUME NEW c \in Clients, NEW n \in Nat
  PROVE  Asked(c, n + 1) = Asked(c, n) \cup {(c + n) % NumClients}
  BY DEF Asked

\* Enough attempts in vain are enough failures.
LEMMA ManyFailures ==
  ASSUME NEW c \in Clients, NEW n \in Nat, n <= NumClients,
         NEW D \in SUBSET Clients, NEW g \in Nat,
         Cardinality(Asked(c, n) \ D) <= g
  PROVE  Cardinality(D) + g >= n
<1>1. IsFiniteSet(Asked(c, n)) /\ IsFiniteSet(D) /\ Cardinality(D) \in Nat
  BY ClientsAreFinite, AskedAreClients
<1>2. Cardinality(Asked(c, n) \ D) = n - Cardinality(Asked(c, n) \cap D)
  BY <1>1, AskedCount, FS_Difference
<1>3. /\ Cardinality(Asked(c, n) \cap D) <= Cardinality(D)
      /\ Cardinality(Asked(c, n) \cap D) \in Nat
  BY <1>1, FS_Intersection, FS_CardinalityType
<1> QED  BY <1>1, <1>2, <1>3

-----------------------------------------------------------------------------
(* The invariant holds, step by step.                                      *)

LEMMA PipeInit == Init => PipeInv
<1> SUFFICES ASSUME Init  PROVE PipeInv
  OBVIOUS
<1> USE DEF Init
<1>1. PipeTypeInv
  BY SizesAssumption DEF PipeTypeInv, Tasks, NoResult, Missing, Result, Pcs,
     Clients
<1>2. WorkInv
  BY DEF WorkInv, Busy, Tasks, NoResult
<1>3. OwnInv
  BY DEF OwnInv, Tasks, NoResult, PhisOfOwnQuery
<1>4. TurnInv /\ AskedInv
  BY DEF TurnInv, AskedInv, AskedBy
<1>5. DefaultNeedsManyFailures
  BY DEF DefaultNeedsManyFailures, Tasks, NoResult
<1> QED  BY <1>1, <1>2, <1>3, <1>4, <1>5 DEF PipeInv

LEMMA TakeStep ==
  ASSUME PipeInv, NEW w \in Threads, Take(w)
  PROVE  PipeInv'
<1> USE DEF Take, Goto, fixed
<1>1. Tasks' = Tasks /\ Skipped' = Skipped
  BY DEF Tasks, Skipped
<1>2. next \in Nat /\ next \in Tasks \ Skipped /\ results[next].got = "none"
  BY DEF PipeInv, PipeTypeInv, WorkInv
<1>3. PipeTypeInv'
  BY <1>1, <1>2 DEF PipeInv, PipeTypeInv, Pcs
<1>4. WorkInv'
  <2>1. \A i \in Tasks' : i >= next' => results'[i].got = "none"
    BY <1>1, <1>2 DEF PipeInv, WorkInv, Tasks, Queries, Trajs
  <2>2. ASSUME NEW v \in Threads, Busy(v)'
        PROVE  /\ task'[v] \in Tasks' \ Skipped' /\ task'[v] < next'
               /\ results'[task'[v]].got = "none"
    BY <1>1, <1>2, <2>2 DEF PipeInv, PipeTypeInv, WorkInv, Busy
  <2>3. ASSUME NEW u \in Threads, NEW v \in Threads, u # v, Busy(u)', Busy(v)'
        PROVE  task'[u] # task'[v]
    BY <1>2, <2>3 DEF PipeInv, PipeTypeInv, WorkInv, Busy
  <2>4. /\ stage' = "judge" => \A v \in Threads : pc'[v] \notin {"bump", "store"}
        /\ stage' = "done" => \A v \in Threads : ~Busy(v)'
    BY DEF PipeInv, PipeTypeInv, WorkInv
  <2> QED  BY <2>1, <2>2, <2>3, <2>4 DEF WorkInv
<1>5. OwnInv'
  BY <1>1 DEF PipeInv, OwnInv, PhisOfOwnQuery
<1>6. TurnInv'
  BY DEF PipeInv, TurnInv
<1>7. AskedInv'
  BY DEF PipeInv, PipeTypeInv, AskedInv, AskedBy, Asked
<1>8. DefaultNeedsManyFailures'
  BY <1>1 DEF PipeInv, DefaultNeedsManyFailures
<1> QED  BY <1>3, <1>4, <1>5, <1>6, <1>7, <1>8 DEF PipeInv

LEMMA TakeUnguidedStep ==
  ASSUME PipeInv, NEW w \in Threads, TakeUnguided(w)
  PROVE  PipeInv'
<1> USE DEF TakeUnguided, fixed
<1>1. Tasks' = Tasks /\ Skipped' = Skipped
  BY DEF Tasks, Skipped
<1>2. next \in Nat /\ next \in Tasks /\ next \in Skipped
  BY UnguidedAssumption DEF PipeInv, PipeTypeInv, Tasks, Skipped, Queries
<1>3. PipeTypeInv'
  BY <1>1, <1>2 DEF PipeInv, PipeTypeInv, Result
<1>4. WorkInv'
  <2>1. \A i \in Tasks' : i >= next' => results'[i].got = "none"
    BY <1>1, <1>2 DEF PipeInv, PipeTypeInv, WorkInv, Tasks, Queries, Trajs
  <2>2. ASSUME NEW v \in Threads, Busy(v)'
        PROVE  /\ task'[v] \in Tasks' \ Skipped' /\ task'[v] < next'
               /\ results'[task'[v]].got = "none"
    BY <1>1, <1>2, <2>2 DEF PipeInv, PipeTypeInv, WorkInv, Busy
  <2>3. ASSUME NEW u \in Threads, NEW v \in Threads, u # v, Busy(u)', Busy(v)'
        PROVE  task'[u] # task'[v]
    BY <2>3 DEF PipeInv, WorkInv, Busy
  <2>4. /\ stage' = "judge" => \A v \in Threads : pc'[v] \notin {"bump", "store"}
        /\ stage' = "done" => \A v \in Threads : ~Busy(v)'
    BY DEF PipeInv, WorkInv
  <2> QED  BY <2>1, <2>2, <2>3, <2>4 DEF WorkInv
<1>5. OwnInv'
  <2>1. results'[next].got = "default" /\ results[next].got = "none"
    BY <1>2 DEF PipeInv, PipeTypeInv, WorkInv
  <2>2. ASSUME stage = "generate", NEW q \in Queries
        PROVE  /\ q \in answered <=> results'[q].got = "answer"
               /\ results'[q].got # "zeros"
    BY <2>1, <2>2 DEF PipeInv, PipeTypeInv, OwnInv
  <2>3. \A i \in Tasks' : results'[i].got # "none" => results'[i].of = i
    BY <1>1, <1>2 DEF PipeInv, PipeTypeInv, OwnInv
  <2> QED  BY <2>2, <2>3 DEF PipeInv, OwnInv, PhisOfOwnQuery
<1>6. TurnInv'
  BY DEF PipeInv, TurnInv
<1>7. AskedInv'
  BY DEF PipeInv, AskedInv, AskedBy, Asked
<1>8. DefaultNeedsManyFailures'
  BY <1>1, <1>2 DEF PipeInv, PipeTypeInv, DefaultNeedsManyFailures
<1> QED  BY <1>3, <1>4, <1>5, <1>6, <1>7, <1>8 DEF PipeInv

\* The counter, modulo the number of servers, is a server.
LEMMA CounterIsClient ==
  ASSUME PipeTypeInv
  PROVE  callIndex % NumClients \in Clients
<1>1. callIndex \in Int
  BY DEF PipeTypeInv
<1> QED  BY <1>1, SizesAssumption, DivMod DEF Clients

\* Nothing of the tasks changes when a thread goes from one step of its call
\* to the next.
LEMMA SameWork ==
  ASSUME PipeInv, NEW w \in Threads, NEW l \in Pcs \ {"idle"},
         Busy(w), pc' = [pc EXCEPT ![w] = l],
         stage = "judge" => l \notin {"bump", "store"},
         stage' = stage, next' = next, task' = task, results' = results
  PROVE  WorkInv'
<1>1. Tasks' = Tasks /\ Skipped' = Skipped
  BY DEF Tasks, Skipped
<1>2. \A v \in Threads : Busy(v)' <=> Busy(v)
  BY DEF Busy, PipeInv, PipeTypeInv
<1>3. stage' = "judge" => \A v \in Threads : pc'[v] \notin {"bump", "store"}
  BY DEF PipeInv, PipeTypeInv, WorkInv
<1> QED  BY <1>1, <1>2, <1>3 DEF PipeInv, WorkInv

\* A thread that has its server has not asked any yet.
LEMMA FirstAsked ==
  ASSUME PipeInv, NEW w \in Threads, pc[w] \in {"pick", "bump", "store"},
         pc' = [pc EXCEPT ![w] = "ask"], attempt' = attempt,
         \A v \in Threads : v # w => client'[v] = client[v],
         down' = down, glitches' = glitches
  PROVE  AskedInv'
<1> SUFFICES ASSUME NEW v \in Threads  PROVE AskedBy(v)'
  BY DEF AskedInv
<1>1. CASE v = w
  <2>1. attempt'[w] = 0 /\ 0 < MaxRetries /\ pc'[w] = "ask" /\ 0 <= glitches'
    <3>1. AskedBy(w)
      BY DEF PipeInv, AskedInv
    <3>2. attempt[w] = 0
      BY <3>1 DEF AskedBy
    <3> QED  BY <3>2, SizesAssumption DEF PipeInv, PipeTypeInv
  <2>2. (Asked(client[v], attempt[v]) \ down)' = {}
    BY <1>1, <2>1 DEF Asked
  <2>3. Cardinality(Asked(client[v], attempt[v]) \ down)' = 0
    BY <2>2, FS_EmptySet
  <2> QED  BY <1>1, <2>1, <2>3 DEF AskedBy
<1>2. CASE v # w
  <2>1. pc'[v] = pc[v] /\ client'[v] = client[v] /\ AskedBy(v)
    BY <1>2 DEF PipeInv, PipeTypeInv, AskedInv
  <2> QED  BY <2>1 DEF AskedBy, Asked
<1> QED  BY <1>1, <1>2

LEMMA PickLockedStep ==
  ASSUME PipeInv, NEW w \in Threads, PickLocked(w)
  PROVE  PipeInv'
<1> USE DEF PickLocked, Counted, Bumped, Locked, Goto, fixed
<1> DEFINE c == callIndex % NumClients
<1>1. Tasks' = Tasks /\ Skipped' = Skipped
  BY DEF Tasks, Skipped
<1>2. c \in Clients
  BY CounterIsClient DEF PipeInv
<1>3. PipeTypeInv'
  BY <1>1, <1>2 DEF PipeInv, PipeTypeInv, Pcs
<1>4. WorkInv'
  BY SameWork DEF Busy, Pcs
<1>5. OwnInv'
  BY <1>1 DEF PipeInv, OwnInv, PhisOfOwnQuery
<1>6. TurnInv'
  <2>1. PICK q \in Nat : \A d \in Clients :
           picks[d] = IF d < c THEN q + 1 ELSE q
    BY DEF PipeInv, TurnInv
  <2>2. callIndex' % NumClients = IF c + 1 = NumClients THEN 0 ELSE c + 1
    <3>1. callIndex \in Nat /\ callIndex' = callIndex + 1
      BY DEF PipeInv, PipeTypeInv
    <3> QED  BY <3>1, SizesAssumption, ModSuccessor
  <2>3. \A d \in Clients : picks'[d] = IF d <= c THEN q + 1 ELSE q
    BY <1>2, <2>1 DEF PipeInv, PipeTypeInv, Clients
  <2>4. CASE c + 1 = NumClients
    <3>1. \A d \in Clients :
            picks'[d] = IF d < callIndex' % NumClients THEN (q + 1) + 1 ELSE q + 1
      <4>1. callIndex' % NumClients = 0
        BY <2>2, <2>4
      <4>2. \A d \in Clients : d <= c /\ ~(d < 0)
        BY <1>2, <2>4, SizesAssumption DEF Clients
      <4> QED  BY <2>3, <4>1, <4>2
    <3> QED  BY <3>1 DEF TurnInv
  <2>5. CASE c + 1 # NumClients
    <3>1. \A d \in Clients :
            picks'[d] = IF d < callIndex' % NumClients THEN q + 1 ELSE q
      BY <1>2, <2>2, <2>3, <2>5 DEF Clients
    <3> QED  BY <3>1 DEF TurnInv
  <2> QED  BY <2>4, <2>5
<1>7. AskedInv'
  BY FirstAsked DEF PipeInv, PipeTypeInv
<1>8. DefaultNeedsManyFailures'
  BY <1>1 DEF PipeInv, DefaultNeedsManyFailures
<1> QED  BY <1>3, <1>4, <1>5, <1>6, <1>7, <1>8 DEF PipeInv

LEMMA PickStep ==
  ASSUME PipeInv, NEW w \in Threads, Pick(w)
  PROVE  PipeInv'
<1> USE DEF Pick, Counted, Locked, Goto, fixed
<1>1. Tasks' = Tasks /\ Skipped' = Skipped
  BY DEF Tasks, Skipped
<1>2. callIndex % NumClients \in Clients
  BY CounterIsClient DEF PipeInv
<1>3. PipeTypeInv'
  BY <1>1, <1>2 DEF PipeInv, PipeTypeInv, Pcs
<1>4. WorkInv'
  BY SameWork DEF Busy, Pcs
<1>5. OwnInv'
  BY <1>1 DEF PipeInv, OwnInv, PhisOfOwnQuery
<1>6. TurnInv'
  BY DEF PipeInv, TurnInv
<1>7. AskedInv'
  BY DEF PipeInv, PipeTypeInv, AskedInv, AskedBy, Asked
<1>8. DefaultNeedsManyFailures'
  BY <1>1 DEF PipeInv, DefaultNeedsManyFailures
<1> QED  BY <1>3, <1>4, <1>5, <1>6, <1>7, <1>8 DEF PipeInv

LEMMA LoadIndexStep ==
  ASSUME PipeInv, NEW w \in Threads, LoadIndex(w)
  PROVE  PipeInv'
<1> USE DEF LoadIndex, Goto, fixed
<1>1. Tasks' = Tasks /\ Skipped' = Skipped
  BY DEF Tasks, Skipped
<1>2. stage # "judge"
  BY DEF PipeInv, WorkInv
<1>3. PipeTypeInv'
  BY <1>1 DEF PipeInv, PipeTypeInv, Pcs
<1>4. WorkInv'
  BY <1>2, SameWork DEF Busy, Pcs
<1>5. OwnInv'
  BY <1>1 DEF PipeInv, OwnInv, PhisOfOwnQuery
<1>6. TurnInv'
  BY DEF PipeInv, TurnInv
<1>7. AskedInv'
  BY DEF PipeInv, PipeTypeInv, AskedInv, AskedBy, Asked
<1>8. DefaultNeedsManyFailures'
  BY <1>1 DEF PipeInv, DefaultNeedsManyFailures
<1> QED  BY <1>3, <1>4, <1>5, <1>6, <1>7, <1>8 DEF PipeInv

LEMMA StoreIndexStep ==
  ASSUME PipeInv, NEW w \in Threads, StoreIndex(w)
  PROVE  PipeInv'
<1> USE DEF StoreIndex, Goto, fixed
<1>1. Tasks' = Tasks /\ Skipped' = Skipped
  BY DEF Tasks, Skipped
<1>2. stage # "judge"
  BY DEF PipeInv, WorkInv
<1>3. PipeTypeInv'
  BY <1>1 DEF PipeInv, PipeTypeInv, Pcs
<1>4. WorkInv'
  BY <1>2, SameWork DEF Busy, Pcs
<1>5. OwnInv'
  BY <1>1 DEF PipeInv, OwnInv, PhisOfOwnQuery
<1>6. TurnInv'
  BY <1>2 DEF TurnInv
<1>7. AskedInv'
  BY FirstAsked
<1>8. DefaultNeedsManyFailures'
  BY <1>1 DEF PipeInv, DefaultNeedsManyFailures
<1> QED  BY <1>3, <1>4, <1>5, <1>6, <1>7, <1>8 DEF PipeInv

\* A task that gets its result: no other thread works on it, and the result is
\* its own.
LEMMA FinishStep ==
  ASSUME PipeInv, NEW w \in Threads, Busy(w),
         NEW how \in {"answer", "default", "zeros"}, Finish(w, how),
         how = "zeros" => stage = "judge",
         answered' = IF how = "answer" /\ stage = "generate"
                     THEN answered \cup {task[w]} ELSE answered,
         stage' = stage, next' = next, task' = task,
         milestones' = milestones, phis' = phis
  PROVE  /\ WorkInv' /\ OwnInv'
         /\ task[w] \in Tasks \ Skipped
         /\ results' \in [Tasks -> Result]
<1> USE DEF Finish, Goto
<1>1. Tasks' = Tasks /\ Skipped' = Skipped
  BY DEF Tasks, Skipped
<1>2. /\ task[w] \in Tasks \ Skipped /\ task[w] < next /\ task[w] \in Nat
      /\ next \in Nat /\ stage # "done"
  BY DEF PipeInv, PipeTypeInv, WorkInv, Busy
<1>3. results' \in [Tasks -> Result]
  BY <1>2 DEF PipeInv, PipeTypeInv, Result
<1>4. WorkInv'
  <2>1. \A i \in Tasks' : i >= next' => results'[i].got = "none"
    BY <1>1, <1>2 DEF PipeInv, PipeTypeInv, WorkInv
  <2>2. ASSUME NEW v \in Threads, Busy(v)'
        PROVE  /\ task'[v] \in Tasks' \ Skipped' /\ task'[v] < next'
               /\ results'[task'[v]].got = "none"
    <3>1. v # w /\ Busy(v) /\ task[v] # task[w]
      BY <2>2 DEF PipeInv, PipeTypeInv, WorkInv, Busy
    <3> QED  BY <1>1, <3>1 DEF PipeInv, PipeTypeInv, WorkInv
  <2>3. ASSUME NEW u \in Threads, NEW v \in Threads, u # v, Busy(u)', Busy(v)'
        PROVE  task'[u] # task'[v]
    BY <2>3 DEF PipeInv, PipeTypeInv, WorkInv, Busy
  <2>4. /\ stage' = "judge" => \A v \in Threads : pc'[v] \notin {"bump", "store"}
        /\ stage' = "done" => \A v \in Threads : ~Busy(v)'
    BY <1>2 DEF PipeInv, PipeTypeInv, WorkInv
  <2> QED  BY <2>1, <2>2, <2>3, <2>4 DEF WorkInv
<1>5. OwnInv'
  <2>1. \A i \in Tasks' : results'[i].got # "none" => results'[i].of = i
    BY <1>1, <1>2 DEF PipeInv, PipeTypeInv, OwnInv
  <2>2. ASSUME stage = "generate", NEW q \in Queries
        PROVE  /\ q \in answered' <=> results'[q].got = "answer"
               /\ results'[q].got # "zeros"
    <3>1. /\ q \in answered <=> results[q].got = "answer"
          /\ results[q].got # "zeros"
      BY <2>2 DEF PipeInv, OwnInv
    <3>2. Tasks = Queries /\ how # "zeros"
      BY <2>2 DEF Tasks
    <3>3. CASE q = task[w]
      <4>1. results'[q].got = how /\ results[q].got = "none"
        BY <2>2, <3>2, <3>3 DEF PipeInv, PipeTypeInv, WorkInv
      <4> QED  BY <2>2, <3>1, <3>2, <3>3, <4>1
    <3>4. CASE q # task[w]
      <4>1. results'[q] = results[q]
        BY <3>2, <3>4 DEF PipeInv, PipeTypeInv
      <4>2. q \in answered' <=> q \in answered
        BY <3>4
      <4> QED  BY <3>1, <4>1, <4>2
    <3> QED  BY <3>3, <3>4
  <2>3. PhisOfOwnQuery'
    <3>1. stage # "generate" => answered' = answered
      OBVIOUS
    <3> QED  BY <3>1 DEF PipeInv, OwnInv, PhisOfOwnQuery
  <2> QED  BY <2>1, <2>2, <2>3 DEF OwnInv
<1> QED  BY <1>2, <1>3, <1>4, <1>5

LEMMA AnswerStep ==
  ASSUME PipeInv, NEW w \in Threads, Answer(w)
  PROVE  PipeInv'
<1> USE DEF Answer, fixed
<1>1. Tasks' = Tasks /\ Skipped' = Skipped
  BY DEF Tasks, Skipped
<1>2. /\ WorkInv' /\ OwnInv' /\ task[w] \in Tasks \ Skipped
      /\ results' \in [Tasks -> Result]
  BY FinishStep DEF Busy
<1> USE DEF Finish, Goto
<1>3. PipeTypeInv'
  BY <1>1, <1>2 DEF PipeInv, PipeTypeInv, Pcs
<1>4. TurnInv'
  BY DEF PipeInv, TurnInv
<1>5. AskedInv'
  BY DEF PipeInv, PipeTypeInv, AskedInv, AskedBy, Asked
<1>6. DefaultNeedsManyFailures'
  <2>1. \A i \in Tasks : results'[i].got = "default" => results[i].got = "default"
    BY <1>2 DEF PipeInv, PipeTypeInv
  <2> QED  BY <1>1, <2>1 DEF PipeInv, DefaultNeedsManyFailures
<1> QED  BY <1>2, <1>3, <1>4, <1>5, <1>6 DEF PipeInv

\* A task that raises: its thread is free, and it has no result or zeros.
LEMMA TaskRaisesStep ==
  ASSUME PipeInv, NEW w \in Threads, TaskRaises(w)
  PROVE  PipeInv'
<1> USE DEF TaskRaises, Goto, fixed
<1>1. Tasks' = Tasks /\ Skipped' = Skipped
  BY DEF Tasks, Skipped
<1>2. TurnInv'
  BY DEF PipeInv, TurnInv
<1>3. AskedInv'
  <2>1. pc' = [pc EXCEPT ![w] = "idle"]
    BY DEF Finish
  <2> QED  BY <2>1 DEF PipeInv, PipeTypeInv, AskedInv, AskedBy, Asked
<1>4. CASE stage = "generate"
  <2>1. results' = results /\ pc' = [pc EXCEPT ![w] = "idle"]
    BY <1>4
  <2>2. PipeTypeInv'
    BY <1>1, <2>1 DEF PipeInv, PipeTypeInv, Pcs
  <2>3. WorkInv'
    <3>1. \A v \in Threads : Busy(v)' => Busy(v)
      BY <2>1 DEF Busy, PipeInv, PipeTypeInv
    <3> QED  BY <1>1, <1>4, <2>1, <3>1 DEF PipeInv, WorkInv
  <2>4. OwnInv'
    BY <1>1, <2>1 DEF PipeInv, OwnInv, PhisOfOwnQuery
  <2>5. DefaultNeedsManyFailures'
    BY <1>1, <2>1 DEF PipeInv, DefaultNeedsManyFailures
  <2> QED  BY <1>2, <1>3, <2>2, <2>3, <2>4, <2>5 DEF PipeInv
<1>5. CASE stage = "judge"
  <2>1. Finish(w, "zeros")
    BY <1>5
  <2>2. /\ WorkInv' /\ OwnInv' /\ task[w] \in Tasks \ Skipped
        /\ results' \in [Tasks -> Result]
    BY <1>5, <2>1, FinishStep DEF Busy
  <2>3. PipeTypeInv'
    BY <1>1, <2>1, <2>2 DEF PipeInv, PipeTypeInv, Pcs, Finish
  <2>4. \A i \in Tasks : results'[i].got = "default" => results[i].got = "default"
    BY <2>1, <2>2 DEF PipeInv, PipeTypeInv, Finish
  <2>5. DefaultNeedsManyFailures'
    BY <1>1, <2>4 DEF PipeInv, DefaultNeedsManyFailures
  <2> QED  BY <1>2, <1>3, <2>2, <2>3, <2>5 DEF PipeInv
<1> QED  BY <1>4, <1>5

\* A failed attempt is accounted for: its server is down, or it is a glitch.
LEMMA FailingCounts ==
  ASSUME PipeInv, NEW w \in Threads, pc[w] = "ask", Failing(w), down' = down
  PROVE  /\ glitches' \in Nat /\ glitches' >= glitches
         /\ Cardinality(Asked(client[w], attempt[w] + 1) \ down) <= glitches'
<1> DEFINE A == Asked(client[w], attempt[w]) \ down
           s == Server(w)
<1>1. client[w] \in Clients /\ attempt[w] \in Nat /\ glitches \in Nat
  BY DEF PipeInv, PipeTypeInv
<1>2. Cardinality(A) <= glitches
  <2>1. AskedBy(w)
    BY DEF PipeInv, AskedInv
  <2> QED  BY <2>1 DEF AskedBy
<1>3. A \in SUBSET Clients
  BY <1>1, AskedAreClients
<1>4. IsFiniteSet(A) /\ Cardinality(A) \in Nat
  BY <1>3, ClientsAreFinite
<1>5. Asked(client[w], attempt[w] + 1) \ down = IF s \in down THEN A ELSE A \cup {s}
  <2>1. Asked(client[w], attempt[w] + 1) = Asked(client[w], attempt[w]) \cup {s}
    BY <1>1, AskedNext DEF Server
  <2> QED  BY <2>1
<1>6. Cardinality(A \cup {s}) <= Cardinality(A) + 1
  <2>1. Cardinality(A \cup {s}) = IF s \in A THEN Cardinality(A) ELSE Cardinality(A) + 1
    BY <1>4, FS_AddElement
  <2> QED  BY <1>4, <2>1
<1>7. CASE s \in down
  BY <1>1, <1>2, <1>5, <1>7 DEF Failing
<1>8. CASE s \notin down
  <2>1. Asked(client[w], attempt[w] + 1) \ down = A \cup {s}
    BY <1>5, <1>8
  <2>2. glitches' = glitches + 1
    BY <1>8 DEF Failing
  <2>3. Cardinality(A \cup {s}) \in Nat
    BY <1>4, FS_AddElement, FS_CardinalityType
  <2> HIDE DEF A, s
  <2> QED  BY <1>1, <1>2, <1>4, <1>6, <2>1, <2>2, <2>3
<1> QED  BY <1>7, <1>8

\* A failure of one task leaves what the others have asked as it was.
LEMMA OthersAsked ==
  ASSUME PipeInv, NEW v \in Threads,
         pc'[v] = pc[v], client' = client, attempt'[v] = attempt[v],
         down' = down, glitches' \in Nat, glitches' >= glitches
  PROVE  AskedBy(v)'
<1>1. AskedBy(v)
  BY DEF PipeInv, AskedInv
<1>2. (Asked(client[v], attempt[v]) \ down)' = Asked(client[v], attempt[v]) \ down
  BY DEF Asked
<1>3. Cardinality(Asked(client[v], attempt[v]) \ down) \in Nat
  BY AskedAreClients, ClientsAreFinite DEF PipeInv, PipeTypeInv
<1>4. glitches \in Nat
  BY DEF PipeInv, PipeTypeInv
<1> QED  BY <1>1, <1>2, <1>3, <1>4 DEF AskedBy

\* Another attempt of the same task.
LEMMA RetryStep ==
  ASSUME PipeInv, NEW w \in Threads, Fail(w),
         attempt[w] + 1 < MaxRetries, UNCHANGED <<pc, results>>
  PROVE  PipeInv'
<1> USE DEF Fail, fixed
<1>1. Tasks' = Tasks /\ Skipped' = Skipped
  BY DEF Tasks, Skipped
<1>2. /\ glitches' \in Nat /\ glitches' >= glitches
      /\ Cardinality(Asked(client[w], attempt[w] + 1) \ down) <= glitches'
  BY FailingCounts
<1>3. PipeTypeInv'
  BY <1>1, <1>2 DEF PipeInv, PipeTypeInv
<1>4. WorkInv'
  BY <1>1 DEF PipeInv, WorkInv, Busy
<1>5. OwnInv'
  BY <1>1 DEF PipeInv, OwnInv, PhisOfOwnQuery
<1>6. TurnInv'
  BY DEF PipeInv, TurnInv
<1>7. AskedInv'
  <2> SUFFICES ASSUME NEW v \in Threads  PROVE AskedBy(v)'
    BY DEF AskedInv
  <2>1. CASE v = w
    <3>1. attempt'[v] = attempt[w] + 1 /\ pc'[v] = "ask"
      BY <2>1 DEF PipeInv, PipeTypeInv
    <3>2. (Asked(client[v], attempt[v]) \ down)' =
            Asked(client[w], attempt[w] + 1) \ down
      BY <2>1, <3>1 DEF Asked
    <3> QED  BY <1>2, <3>1, <3>2 DEF AskedBy
  <2>2. CASE v # w
    <3>1. attempt'[v] = attempt[v] /\ pc'[v] = pc[v]
      BY <2>2 DEF PipeInv, PipeTypeInv
    <3> QED  BY <1>2, <3>1, OthersAsked
  <2> QED  BY <2>1, <2>2
<1>8. DefaultNeedsManyFailures'
  <2>1. Cardinality(down) \in Nat /\ glitches \in Nat /\ MaxRetries \in Nat
    BY ClientsAreFinite, SizesAssumption DEF PipeInv, PipeTypeInv
  <2> QED  BY <1>1, <1>2, <2>1 DEF PipeInv, DefaultNeedsManyFailures
<1> QED  BY <1>3, <1>4, <1>5, <1>6, <1>7, <1>8 DEF PipeInv

\* The last attempt: the default, after as many failures as attempts.
LEMMA GiveUpStep ==
  ASSUME PipeInv, NEW w \in Threads, Fail(w),
         attempt[w] + 1 >= MaxRetries, Finish(w, "default")
  PROVE  PipeInv'
<1> USE DEF Fail, fixed
<1>1. Tasks' = Tasks /\ Skipped' = Skipped
  BY DEF Tasks, Skipped
<1>2. /\ glitches' \in Nat /\ glitches' >= glitches
      /\ Cardinality(Asked(client[w], attempt[w] + 1) \ down) <= glitches'
  BY FailingCounts
<1>3. /\ WorkInv' /\ OwnInv' /\ task[w] \in Tasks \ Skipped
      /\ results' \in [Tasks -> Result]
  BY FinishStep DEF Busy
<1> USE DEF Finish, Goto
<1>4. PipeTypeInv'
  BY <1>1, <1>2, <1>3 DEF PipeInv, PipeTypeInv, Pcs
<1>5. TurnInv'
  BY DEF PipeInv, TurnInv
<1>6. AskedInv'
  <2> SUFFICES ASSUME NEW v \in Threads  PROVE AskedBy(v)'
    BY DEF AskedInv
  <2>1. CASE v = w
    BY <2>1 DEF PipeInv, PipeTypeInv, AskedBy
  <2>2. CASE v # w
    <3>1. attempt'[v] = attempt[v] /\ pc'[v] = pc[v]
      BY <2>2 DEF PipeInv, PipeTypeInv
    <3> QED  BY <1>2, <3>1, OthersAsked
  <2> QED  BY <2>1, <2>2
<1>7. DefaultNeedsManyFailures'
  <2> SUFFICES ASSUME MaxRetries <= NumClients
               PROVE  Cardinality(down) + glitches' >= MaxRetries
    BY DEF DefaultNeedsManyFailures
  <2>1. attempt[w] + 1 = MaxRetries /\ attempt[w] + 1 \in Nat
    <3>1. AskedBy(w) /\ attempt[w] \in Nat
      BY DEF PipeInv, PipeTypeInv, AskedInv
    <3> QED  BY <3>1, SizesAssumption DEF AskedBy
  <2>2. client[w] \in Clients /\ down \in SUBSET Clients
    BY DEF PipeInv, PipeTypeInv
  <2>3. Cardinality(down) + glitches' >= attempt[w] + 1
    BY <1>2, <2>1, <2>2, ManyFailures
  <2> QED  BY <2>1, <2>3
<1> QED  BY <1>3, <1>4, <1>5, <1>6, <1>7 DEF PipeInv

\* The second stage begins with idle threads, empty results and a counter of
\* its own.
LEMMA StartJudgingStep ==
  ASSUME PipeInv, StartJudging
  PROVE  PipeInv'
<1> USE DEF StartJudging
<1>1. Tasks' = Trajs /\ Skipped' = {}
  BY DEF Tasks, Skipped
<1>2. \A w \in Threads : ~Busy(w) /\ ~Busy(w)'
  BY DEF PipeInv, WorkInv, Busy, Complete
<1>3. PipeTypeInv'
  BY <1>1 DEF PipeInv, PipeTypeInv, NoResult, Missing, Result
<1>4. WorkInv'
  BY <1>1, <1>2 DEF WorkInv, NoResult, Busy
<1>5. OwnInv'
  <2>1. \A i \in Tasks' : results'[i].got = "none"
    BY <1>1 DEF NoResult
  <2>2. ASSUME NEW q \in Queries
        PROVE  milestones'[q] = IF q \in answered' THEN q ELSE Generic
    <3>1. /\ q \in answered <=> results[q].got = "answer"
          /\ results[q].got \in {"none", "answer", "default"}
          /\ results[q].got # "none" => results[q].of = q
      BY DEF PipeInv, PipeTypeInv, OwnInv, Tasks, Result
    <3>2. milestones'[q] = MilestonesOf(Filled(q)) /\ answered' = answered
      OBVIOUS
    <3>3. CASE results[q].got = "none"
      BY <3>1, <3>2, <3>3 DEF MilestonesOf, Filled
    <3>4. CASE results[q].got # "none"
      BY <3>1, <3>2, <3>4 DEF MilestonesOf, Filled
    <3> QED  BY <3>3, <3>4
  <2> QED  BY <2>1, <2>2 DEF OwnInv, PhisOfOwnQuery
<1>6. TurnInv'
  <2>1. NumClients * 0 + 0 = 0 /\ 0 \in 0..(NumClients - 1)
    BY SizesAssumption
  <2>2. callIndex' % NumClients = 0
    BY <2>1, SizesAssumption, DivModOf
  <2> QED  BY <2>2 DEF TurnInv, Clients
<1>7. AskedInv'
  BY <1>2 DEF AskedInv, AskedBy, Busy
<1>8. DefaultNeedsManyFailures'
  BY <1>1 DEF DefaultNeedsManyFailures, NoResult
<1> QED  BY <1>3, <1>4, <1>5, <1>6, <1>7, <1>8 DEF PipeInv

LEMMA StorePhisStep ==
  ASSUME PipeInv, StorePhis
  PROVE  PipeInv'
<1> USE DEF StorePhis
<1>1. Tasks' = Tasks /\ Skipped' = Skipped /\ Tasks = Trajs
  BY DEF Tasks, Skipped
<1>2. \A w \in Threads : ~Busy(w)
  BY DEF PipeInv, WorkInv, Busy, Complete
<1>3. PipeTypeInv'
  BY <1>1 DEF PipeInv, PipeTypeInv
<1>4. WorkInv'
  BY <1>1, <1>2 DEF PipeInv, WorkInv, Busy
<1>5. OwnInv'
  <2>1. \A t \in Trajs : Filled(t).of = t
    BY <1>1 DEF PipeInv, OwnInv, Filled
  <2>2. \A t \in Trajs : phis'[t].of = t /\ phis'[t].by = milestones[QueryOf(t)]
    BY <2>1
  <2> QED  BY <1>1, <2>2 DEF PipeInv, OwnInv, PhisOfOwnQuery, QueryOf
<1>6. TurnInv' /\ DefaultNeedsManyFailures'
  BY DEF TurnInv, DefaultNeedsManyFailures
<1>7. AskedInv'
  BY <1>2 DEF AskedInv, AskedBy, Busy
<1> QED  BY <1>3, <1>4, <1>5, <1>6, <1>7 DEF PipeInv

LEMMA PipeStep ==
  ASSUME PipeInv, [Next]_vars
  PROVE  PipeInv'
<1>1. ASSUME NEW w \in Threads, ThreadStep(w)
      PROVE  PipeInv'
  <2>1. CASE Take(w)
    BY <2>1, TakeStep
  <2>2. CASE TakeUnguided(w)
    BY <2>2, TakeUnguidedStep
  <2>3. CASE PickLocked(w)
    BY <2>3, PickLockedStep
  <2>4. CASE Pick(w)
    BY <2>4, PickStep
  <2>5. CASE LoadIndex(w)
    BY <2>5, LoadIndexStep
  <2>6. CASE StoreIndex(w)
    BY <2>6, StoreIndexStep
  <2>7. CASE Answer(w)
    BY <2>7, AnswerStep
  <2>8. CASE TaskRaises(w)
    BY <2>8, TaskRaisesStep
  <2>9. CASE Fail(w)
    <3>1. \/ attempt[w] + 1 < MaxRetries /\ UNCHANGED <<pc, results>>
          \/ attempt[w] + 1 >= MaxRetries /\ Finish(w, "default")
      BY <2>9 DEF Fail
    <3> QED  BY <2>9, <3>1, RetryStep, GiveUpStep
  <2> QED
    BY <1>1, <2>1, <2>2, <2>3, <2>4, <2>5, <2>6, <2>7, <2>8, <2>9
    DEF ThreadStep
<1>2. CASE StartJudging
  BY <1>2, StartJudgingStep
<1>3. CASE StorePhis
  BY <1>3, StorePhisStep
<1>4. CASE UNCHANGED vars
  <2> USE <1>4 DEF vars, fixed, Tasks, Skipped
  <2>1. PipeTypeInv'
    BY DEF PipeInv, PipeTypeInv
  <2>2. WorkInv'
    BY DEF PipeInv, WorkInv, Busy
  <2>3. OwnInv' /\ TurnInv'
    BY DEF PipeInv, OwnInv, PhisOfOwnQuery, TurnInv
  <2>4. AskedInv'
    BY DEF PipeInv, AskedInv, AskedBy, Asked
  <2>5. DefaultNeedsManyFailures'
    BY DEF PipeInv, DefaultNeedsManyFailures
  <2> QED  BY <2>1, <2>2, <2>3, <2>4, <2>5 DEF PipeInv
<1> QED  BY <1>1, <1>2, <1>3, <1>4 DEF Next, Finished

\* The pipeline keeps its invariant whichever grain a behaviour has.
LEMMA PipeInvariant == ScoringSpec => []PipeInv
<1>1. ScoringInit => PipeInv
  BY PipeInit DEF ScoringInit
<1>2. PipeInv /\ [ScoringNext]_<<vars, judgeVars, grain>> => PipeInv'
  <2>1. [ScoringNext]_<<vars, judgeVars, grain>> => [Next]_vars
    BY DEF ScoringNext
  <2> QED  BY <2>1, PipeStep
<1> QED  BY <1>1, <1>2, PTL DEF ScoringSpec

\* The servers of the judge are picked equally often, up to one, in every
\* interleaving of any number of threads (_next_client_index).
THEOREM JudgeServersShareTheCalls == ScoringSpec => []RoundRobin
<1>1. PipeInv => RoundRobin
  BY DEF PipeInv, PipeTypeInv, TurnInv, RoundRobin, Locked
<1> QED  BY <1>1, PipeInvariant, PTL

\* A default answer is worth as many failures as there are attempts: no task
\* gives up on a server it has already asked (the retry loops of
\* MilestoneGenerator.generate and MilestoneJudge.judge_trajectory).
THEOREM DefaultIsEarned == ScoringSpec => []DefaultNeedsManyFailures
<1>1. PipeInv => DefaultNeedsManyFailures
  BY DEF PipeInv
<1> QED  BY <1>1, PipeInvariant, PTL

\* Every trajectory gets its own potentials by its own query's milestones, in
\* whatever order the calls complete, and these are the generic ones only for
\* a query that no server answered (the Milestone GAE block of fit).
THEOREM PhisBelongToTheirQuery == ScoringSpec => []PhisOfOwnQuery
<1>1. PipeInv => PhisOfOwnQuery
  BY DEF PipeInv, OwnInv
<1> QED  BY <1>1, PipeInvariant, PTL

-----------------------------------------------------------------------------
(* The chunks of a trajectory.                                             *)

Share == total \div NumChunks
Rest  == total % NumChunks

ChunkTypeInv ==
  /\ total \in Nat /\ size \in Int /\ overlap \in Nat
  /\ size > 0 => overlap <= size - 1
  /\ chunk \in 0..NumChunks
  /\ failures \in Nat
  /\ previous \in Checklist
  /\ allPhis \in Seq(Nat) /\ allMilestones \in Seq(Checklist)

\* The chunks so far are even shares, the first Rest of them one step longer.
StartInv == start = chunk * Share + Least(chunk, Rest)

PhisInv ==
  /\ Len(allPhis) = start /\ Len(allMilestones) = start
  /\ \A t \in 1..start : allPhis[t] = PhiMap(allMilestones[t])

ProgressInv ==
  ~Whole => previous = IF start = 0 THEN 0 ELSE allMilestones[start]

ChunkInv == ChunkTypeInv /\ StartInv /\ PhisInv /\ ProgressInv

LEMMA NumChunksIsPositive ==
  ASSUME total \in Nat, size \in Int
  PROVE  /\ NumChunks \in Nat \ {0}
         /\ ~Whole => NumChunks <= total /\ total <= NumChunks * size
<1>1. CASE Whole
  BY <1>1 DEF NumChunks
<1>2. CASE ~Whole
  <2> DEFINE x == total + size - 1
             n == x \div size
             m == x % size
  <2>1. size \in Nat \ {0} /\ x \in Int /\ total > size /\ total \in Nat
    BY <1>2 DEF Whole
  <2>2. n \in Int /\ m \in 0..(size - 1) /\ x = size * n + m
    BY <2>1, DivMod
  <2>3. NumChunks = n
    BY <1>2 DEF NumChunks
  <2> HIDE DEF n, m
  <2>4. size * n >= total /\ size * n <= total + size - 1
    BY <2>1, <2>2
  <2>5. n >= 1
    <3>1. CASE n < 1
      <4>1. size * n + size <= size * 1
        BY <2>1, <2>2, <3>1, Mono
      <4> QED  BY <2>1, <2>2, <2>4, <4>1
    <3> QED  BY <2>2, <3>1
  <2>6. n <= total
    <3>1. CASE total < n
      <4>1. size * total + size <= size * n
        BY <2>1, <2>2, <3>1, Mono
      <4>2. size * total >= total
        BY <2>1
      <4> QED  BY <2>1, <2>2, <2>4, <4>1, <4>2
    <3> QED  BY <2>1, <2>2, <3>1
  <2>7. n * size = size * n
    BY <2>1, <2>2
  <2> QED  BY <2>1, <2>2, <2>3, <2>4, <2>5, <2>6, <2>7
<1> QED  BY <1>1, <1>2

\* The share of a chunk: what the division leaves, and within the chunk size.
LEMMA Shares ==
  ASSUME total \in Nat, size \in Int
  PROVE  /\ Share \in Nat /\ Rest \in 0..(NumChunks - 1)
         /\ total = NumChunks * Share + Rest
         /\ ~Whole => Share >= 1 /\ Share <= size /\ (Share = size => Rest = 0)
<1>1. NumChunks \in Nat \ {0}
  BY NumChunksIsPositive
<1>2. /\ Share \in Int /\ Rest \in 0..(NumChunks - 1)
      /\ total = NumChunks * Share + Rest
  BY <1>1, DivMod DEF Share, Rest
<1>3. Share >= 0
  <2>1. CASE Share < 0
    <3>1. NumChunks * Share + NumChunks <= NumChunks * 0
      BY <1>1, <1>2, <2>1, Mono
    <3> QED  BY <1>1, <1>2, <3>1
  <2> QED  BY <1>2, <2>1
<1>4. ASSUME ~Whole
      PROVE  Share >= 1 /\ Share <= size /\ (Share = size => Rest = 0)
  <2>1. NumChunks <= total /\ total <= NumChunks * size
    BY <1>4, NumChunksIsPositive
  <2>2. Share # 0
    BY <1>1, <1>2, <2>1
  <2>3. CASE size < Share
    <3>1. NumChunks * size + NumChunks <= NumChunks * Share
      BY <1>1, <1>2, <2>3, Mono
    <3> QED  BY <1>1, <1>2, <2>1, <3>1
  <2>4. Share = size => Rest = 0
    BY <1>1, <1>2, <2>1
  <2> QED  BY <1>2, <1>3, <2>2, <2>3, <2>4
<1> QED  BY <1>2, <1>3, <1>4

\* Where the chunks start, and that the last one ends with the trajectory.
LEMMA ChunkFacts ==
  ASSUME ChunkTypeInv, StartInv
  PROVE  /\ start \in Nat
         /\ chunk = NumChunks => start = total
         /\ chunk < NumChunks =>
              /\ Expected \in Nat
              /\ ~Whole => Expected \in 1..size
              /\ start + Expected = (chunk + 1) * Share + Least(chunk + 1, Rest)
<1> DEFINE n == NumChunks
<1>1. n \in Nat \ {0} /\ chunk \in 0..n /\ chunk \in Nat
  BY NumChunksIsPositive DEF ChunkTypeInv
<1>2. /\ Share \in Nat /\ Rest \in 0..(n - 1)
      /\ total = n * Share + Rest
      /\ ~Whole => Share >= 1 /\ Share <= size /\ (Share = size => Rest = 0)
  BY Shares DEF ChunkTypeInv
<1>3. chunk * Share \in Nat
  BY <1>1, <1>2
<1>4. start \in Nat
  BY <1>1, <1>2, <1>3 DEF StartInv, Least
<1>5. ASSUME chunk = n  PROVE start = total
  BY <1>1, <1>2, <1>5 DEF StartInv, Least
<1>6. Expected = Share + (IF chunk + 1 <= Rest THEN 1 ELSE 0)
  BY DEF Expected, ChunkLength, Share, Rest
<1> HIDE DEF n
<1>7. Expected \in Nat
  BY <1>2, <1>6
<1>8. ASSUME ~Whole  PROVE Expected \in 1..size
  <2>1. size \in Int
    BY DEF ChunkTypeInv
  <2> QED  BY <1>1, <1>2, <1>6, <1>8, <2>1
<1>9. start + Expected = (chunk + 1) * Share + Least(chunk + 1, Rest)
  <2>1. (chunk + 1) * Share = chunk * Share + Share
    BY <1>1, <1>2
  <2> QED  BY <1>1, <1>2, <1>3, <1>6, <2>1 DEF StartInv, Least
<1> QED  BY <1>4, <1>5, <1>7, <1>8, <1>9 DEF n

\* A set of positions has a last one.
LEMMA LastOne ==
  ASSUME NEW i \in Nat, NEW K \in SUBSET (1..i), K # {}
  PROVE  \E j \in K : \A k \in K : k <= j
<1> DEFINE T == {i - k : k \in K}
<1>1. T \subseteq Nat /\ T # {}
  <2>1. \A k \in K : i - k \in Nat
    OBVIOUS
  <2>2. PICK k \in K : TRUE
    OBVIOUS
  <2>3. i - k \in T
    OBVIOUS
  <2> QED  BY <2>1, <2>3
<1>2. PICK x \in T : \A y \in T : ~(<<y, x>> \in OpToRel(<, Nat))
  BY <1>1, WFMin, NatLessThanWellFounded
<1>3. \A y \in T : ~(y < x)
  BY <1>1, <1>2 DEF OpToRel
<1>4. PICK j \in K : x = i - j
  OBVIOUS
<1>5. \A k \in K : i - k \in T
  OBVIOUS
<1> HIDE DEF T
<1>6. ASSUME NEW k \in K  PROVE k <= j
  <2>1. ~(i - k < i - j)
    BY <1>3, <1>4, <1>5
  <2> QED  BY <2>1
<1> QED  BY <1>6

\* Whatever the LLM answers, a chunk gets one milestone of the checklist for
\* each of its steps.
LEMMA JudgedFits ==
  ASSUME previous \in Checklist, Expected \in Nat, NEW answer \in Answers
  PROVE  Judged(answer) \in [1..Expected -> Checklist]
<1> DEFINE before == IF Whole THEN 0 ELSE previous
           list == Resolved(answer, previous)
<1>1. PICK m \in 0..(Expected + 1) : answer \in [1..m -> Checklist \cup {Unknown}]
  BY DEF Answers
<1>2. list \in [1..m -> Checklist]
  <2> SUFFICES ASSUME NEW i \in 1..m
               PROVE  list[i] \in Checklist
    BY <1>1 DEF Resolved
  <2>1. CASE Whole
    BY <1>1, <2>1 DEF Resolved, Resolve, Checklist
  <2>2. CASE ~Whole
    <3> DEFINE known == {j \in 1..i : answer[j] \in Checklist}
    <3>1. CASE known = {}
      BY <1>1, <2>2, <3>1 DEF Resolved
    <3>2. CASE known # {}
      <4>1. \E j \in known : \A k \in known : k <= j
        <5>1. known \in SUBSET (1..i) /\ i \in Nat
          OBVIOUS
        <5> HIDE DEF known
        <5> QED  BY <3>2, <5>1, LastOne
      <4>2. (CHOOSE j \in known : \A k \in known : k <= j) \in known
        BY <4>1
      <4> QED  BY <1>1, <2>2, <3>2, <4>2 DEF Resolved
    <3> QED  BY <3>1, <3>2
  <2> QED  BY <2>1, <2>2
<1>3. before \in Checklist
  BY DEF Checklist
<1> HIDE DEF list, before
<1>4. Len(list) = m /\ m \in Nat
  BY <1>1, <1>2
<1>5. m = 0 => list = << >>
  BY <1>2, <1>4
<1>6. Fitted(list, Expected, before) \in [1..Expected -> Checklist]
  BY <1>2, <1>3, <1>4, <1>5 DEF Fitted
<1> QED  BY <1>6 DEF Judged, list, before

\* The results of the chunks so far, and those of one more.
LEMMA Appended ==
  ASSUME ChunkTypeInv, PhisInv, start \in Nat,
         NEW n \in Nat, NEW seg \in [1..n -> Checklist],
         allMilestones' = allMilestones \o seg,
         allPhis' = allPhis \o [i \in 1..n |-> PhiMap(seg[i])],
         start' = start + n
  PROVE  /\ allPhis' \in Seq(Nat) /\ allMilestones' \in Seq(Checklist)
         /\ PhisInv'
         /\ \A t \in 1..start : allMilestones'[t] = allMilestones[t]
         /\ \A t \in (start + 1)..(start + n) :
              /\ allMilestones'[t] = seg[t - start]
              /\ allPhis'[t] = PhiMap(seg[t - start])
<1> DEFINE ps == [i \in 1..n |-> PhiMap(seg[i])]
<1>1. seg \in Seq(Checklist) /\ Len(seg) = n
  BY SeqDef
<1>2. \A c \in Checklist : PhiMap(c) \in Nat
  BY MilestonesAssumption DEF PhiMap, Checklist
<1>3. ps \in Seq(Nat) /\ Len(ps) = n
  <2>1. ps \in [1..n -> Nat]
    BY <1>2
  <2> HIDE DEF ps
  <2> QED  BY <2>1, SeqDef
<1>4. \A i \in 1..n : ps[i] = PhiMap(seg[i])
  OBVIOUS
<1> HIDE DEF ps
<1>5. /\ Len(allPhis) = start /\ Len(allMilestones) = start
      /\ allPhis \in Seq(Nat) /\ allMilestones \in Seq(Checklist)
      /\ \A t \in 1..start : allPhis[t] = PhiMap(allMilestones[t])
  BY DEF ChunkTypeInv, PhisInv
<1>6. /\ allMilestones' \in Seq(Checklist) /\ Len(allMilestones') = start + n
      /\ \A t \in 1..(start + n) : allMilestones'[t] =
           IF t <= start THEN allMilestones[t] ELSE seg[t - start]
  <2>1. /\ allMilestones \o seg \in Seq(Checklist)
        /\ Len(allMilestones \o seg) = Len(allMilestones) + Len(seg)
        /\ \A t \in 1..(Len(allMilestones) + Len(seg)) :
             (allMilestones \o seg)[t] =
               IF t <= Len(allMilestones) THEN allMilestones[t]
               ELSE seg[t - Len(allMilestones)]
    BY <1>1, <1>5, ConcatProperties, Zenon
  <2> QED  BY <1>1, <1>5, <2>1
<1>7. /\ allPhis' \in Seq(Nat) /\ Len(allPhis') = start + n
      /\ \A t \in 1..(start + n) : allPhis'[t] =
           IF t <= start THEN allPhis[t] ELSE ps[t - start]
  <2>1. allPhis' = allPhis \o ps
    BY DEF ps
  <2>2. /\ allPhis \o ps \in Seq(Nat)
        /\ Len(allPhis \o ps) = Len(allPhis) + Len(ps)
        /\ \A t \in 1..(Len(allPhis) + Len(ps)) :
             (allPhis \o ps)[t] =
               IF t <= Len(allPhis) THEN allPhis[t] ELSE ps[t - Len(allPhis)]
    BY <1>3, <1>5, ConcatProperties, Zenon
  <2> QED  BY <1>3, <1>5, <2>1, <2>2
<1>8. \A t \in 1..(start + n) : allPhis'[t] = PhiMap(allMilestones'[t])
  BY <1>4, <1>5, <1>6, <1>7
<1>9. PhisInv'
  BY <1>6, <1>7, <1>8 DEF PhisInv, PhiMap
<1> QED  BY <1>4, <1>6, <1>7, <1>9

LEMMA ChunkInit == ScoringInit => ChunkInv
<1> SUFFICES ASSUME JudgeInit  PROVE ChunkInv
  BY DEF ScoringInit
<1> USE DEF JudgeInit
<1>1. total \in Nat /\ size \in Int
  BY BoundAssumption, ConfigAssumption
<1>2. NumChunks \in Nat \ {0}
  BY <1>1, NumChunksIsPositive
<1>3. overlap \in Nat /\ (size > 0 => overlap <= size - 1)
  BY <1>1, ConfigAssumption DEF NormalOverlap, Least, Most
<1>4. << >> \in Seq(Nat) /\ << >> \in Seq(Checklist) /\ Len(<< >>) = 0
  BY EmptySeq
<1>5. ChunkTypeInv
  BY <1>1, <1>2, <1>3, <1>4 DEF ChunkTypeInv, Checklist
<1>6. StartInv
  <2>1. Share \in Nat /\ Rest \in Nat
    BY <1>1, <1>2, Shares
  <2>2. 0 * Share = 0
    BY <2>1
  <2> QED  BY <2>1, <2>2 DEF StartInv, Least
<1>7. PhisInv /\ ProgressInv
  BY <1>4 DEF PhisInv, ProgressInv
<1> QED  BY <1>5, <1>6, <1>7 DEF ChunkInv

\* What the trajectory and the configuration determine.
LEMMA SameShares ==
  ASSUME total' = total, size' = size
  PROVE  NumChunks' = NumChunks /\ Share' = Share /\ Rest' = Rest /\ Whole' = Whole
  BY DEF NumChunks, Share, Rest, Whole

\* A chunk is judged, or has failed: one lemma, for what the two share.
LEMMA ChunkStep ==
  ASSUME ChunkInv, chunk < NumChunks, NextChunk,
         NEW seg \in [1..Expected -> Checklist],
         allMilestones' = allMilestones \o seg,
         allPhis' = allPhis \o [i \in 1..Expected |-> PhiMap(seg[i])],
         previous' \in Checklist,
         ~Whole => previous' = seg[Expected],
         failures' \in Nat, UNCHANGED <<total, size, overlap>>
  PROVE  ChunkInv'
<1> USE DEF NextChunk
<1>1. NumChunks' = NumChunks /\ Share' = Share /\ Rest' = Rest /\ Whole' = Whole
  BY SameShares
<1>2. /\ start \in Nat /\ Expected \in Nat
      /\ ~Whole => Expected \in 1..size
      /\ start + Expected = (chunk + 1) * Share + Least(chunk + 1, Rest)
  BY ChunkFacts DEF ChunkInv
<1>3. /\ allPhis' \in Seq(Nat) /\ allMilestones' \in Seq(Checklist) /\ PhisInv'
      /\ \A t \in (start + 1)..(start + Expected) :
           allMilestones'[t] = seg[t - start]
  BY <1>2, Appended DEF ChunkInv
<1>4. NumChunks \in Nat
  BY NumChunksIsPositive DEF ChunkInv, ChunkTypeInv
<1>5. ChunkTypeInv'
  BY <1>1, <1>3, <1>4 DEF ChunkInv, ChunkTypeInv
<1>6. StartInv'
  BY <1>1, <1>2 DEF StartInv, Least
<1>7. ProgressInv'
  <2> SUFFICES ASSUME ~Whole
               PROVE  start' # 0 /\ previous' = allMilestones'[start']
    BY <1>1 DEF ProgressInv
  <2>1. size \in Int /\ Expected >= 1 /\ start' = start + Expected
    BY <1>2 DEF ChunkInv, ChunkTypeInv
  <2>2. start' \in (start + 1)..(start + Expected) /\ start' - start = Expected
    BY <1>2, <2>1
  <2>3. allMilestones'[start'] = seg[start' - start]
    BY <1>3, <2>2
  <2> QED  BY <1>2, <2>1, <2>2, <2>3
<1> QED  BY <1>3, <1>5, <1>6, <1>7 DEF ChunkInv

LEMMA JudgeChunkStep == ChunkInv /\ JudgeChunk => ChunkInv'
<1> SUFFICES ASSUME ChunkInv, JudgeChunk  PROVE ChunkInv'
  OBVIOUS
<1>1. PICK answer \in Answers :
        LET seg == Judged(answer)
        IN /\ allMilestones' = allMilestones \o seg
           /\ allPhis' = allPhis \o [i \in DOMAIN seg |-> PhiMap(seg[i])]
           /\ previous' = IF seg = << >> THEN previous ELSE seg[Len(seg)]
  BY DEF JudgeChunk
<1> DEFINE seg == Judged(answer)
<1>2. chunk < NumChunks /\ NextChunk /\ UNCHANGED <<total, size, overlap, failures>>
  BY DEF JudgeChunk
<1>3. Expected \in Nat /\ (~Whole => Expected \in 1..size /\ size \in Int)
  BY <1>2, ChunkFacts DEF ChunkInv, ChunkTypeInv
<1>4. seg \in [1..Expected -> Checklist] /\ previous \in Checklist
  BY <1>3, JudgedFits DEF ChunkInv, ChunkTypeInv
<1>5. /\ allMilestones' = allMilestones \o seg
      /\ allPhis' = allPhis \o [i \in DOMAIN seg |-> PhiMap(seg[i])]
      /\ previous' = IF seg = << >> THEN previous ELSE seg[Len(seg)]
  BY <1>1
<1> HIDE DEF seg
<1>6. DOMAIN seg = 1..Expected /\ Len(seg) = Expected
  BY <1>3, <1>4
<1>7. Expected >= 1 => seg # << >>
  BY <1>3, <1>6
<1>8. previous' \in Checklist
  <2>1. CASE seg = << >>
    BY <1>4, <1>5, <2>1
  <2>2. CASE seg # << >>
    <3>1. Expected # 0
      BY <1>4, <2>2
    <3> QED  BY <1>3, <1>4, <1>5, <1>6, <2>2, <3>1
  <2> QED  BY <2>1, <2>2
<1>9. ~Whole => previous' = seg[Expected]
  BY <1>3, <1>5, <1>6, <1>7
<1>10. failures' \in Nat
  BY <1>2 DEF ChunkInv, ChunkTypeInv
<1> QED  BY <1>2, <1>4, <1>5, <1>6, <1>8, <1>9, <1>10, ChunkStep

LEMMA FailChunkStep == ChunkInv /\ FailChunk => ChunkInv'
<1> SUFFICES ASSUME ChunkInv, FailChunk  PROVE ChunkInv'
  OBVIOUS
<1> DEFINE seg == [i \in 1..Expected |-> Fallback]
<1>1. /\ chunk < NumChunks /\ NextChunk /\ UNCHANGED <<total, size, overlap, previous>>
      /\ failures' = failures + 1
  BY DEF FailChunk
<1>2. Expected \in Nat /\ (~Whole => Expected \in 1..size /\ size \in Int)
  BY <1>1, ChunkFacts DEF ChunkInv, ChunkTypeInv
<1>3. previous \in Checklist /\ Fallback \in Checklist
  BY DEF ChunkInv, ChunkTypeInv, Fallback, Checklist
<1>4. seg \in [1..Expected -> Checklist] /\ \A i \in 1..Expected : seg[i] = Fallback
  BY <1>3
<1>5. /\ allMilestones' = allMilestones \o seg
      /\ allPhis' = allPhis \o [i \in 1..Expected |-> PhiMap(Fallback)]
  BY DEF FailChunk
<1> HIDE DEF seg
<1>6. [i \in 1..Expected |-> PhiMap(Fallback)] = [i \in 1..Expected |-> PhiMap(seg[i])]
  BY <1>4
<1>7. ~Whole => previous' = seg[Expected]
  BY <1>1, <1>2, <1>4 DEF Fallback
<1>8. failures' \in Nat /\ previous' \in Checklist
  BY <1>1, <1>3 DEF ChunkInv, ChunkTypeInv, Checklist
<1> QED  BY <1>1, <1>4, <1>5, <1>6, <1>7, <1>8, ChunkStep

LEMMA ChunkNext == ChunkInv /\ [JudgeNext]_judgeVars => ChunkInv'
<1> SUFFICES ASSUME ChunkInv, UNCHANGED judgeVars  PROVE ChunkInv'
  BY JudgeChunkStep, FailChunkStep DEF JudgeNext, AllJudged
<1> USE DEF judgeVars
<1>1. NumChunks' = NumChunks /\ Share' = Share /\ Rest' = Rest /\ Whole' = Whole
  BY SameShares
<1>2. ChunkTypeInv'
  BY <1>1 DEF ChunkInv, ChunkTypeInv
<1>3. StartInv' /\ PhisInv' /\ ProgressInv'
  BY <1>1 DEF ChunkInv, StartInv, PhisInv, ProgressInv, Least
<1> QED  BY <1>2, <1>3 DEF ChunkInv

LEMMA ChunkInvariant == ScoringSpec => []ChunkInv
<1>1. [ScoringNext]_<<vars, judgeVars, grain>> => [JudgeNext]_judgeVars
  BY DEF ScoringNext
<1> QED  BY <1>1, ChunkInit, ChunkNext, PTL DEF ScoringSpec

\* The result has one potential per step whatever the LLM answers, and the
\* chunks cover the trajectory without a gap, for every length, chunk size
\* and overlap (_iter_judge_chunks, judge_trajectory_with_milestones).
THEOREM EveryStepGetsItsPhi == ScoringSpec => []OnePhiPerStep
<1>1. ChunkInv => OnePhiPerStep
  <2> SUFFICES ASSUME ChunkInv  PROVE OnePhiPerStep
    OBVIOUS
  <2>1. start \in Nat /\ (chunk = NumChunks => start = total)
    BY ChunkFacts DEF ChunkInv
  <2>2. ASSUME chunk < NumChunks, ~Whole
        PROVE  Expected \in 1..size /\ start - ContextStart \in 0..(size - 1)
    <3>1. Expected \in 1..size /\ size \in Int
      BY <2>2, ChunkFacts DEF ChunkInv, ChunkTypeInv
    <3>2. size > 0 /\ overlap \in 0..(size - 1)
      BY <3>1 DEF ChunkInv, ChunkTypeInv
    <3> QED  BY <2>1, <3>1, <3>2 DEF ContextStart, Most
  <2> QED  BY <2>1, <2>2 DEF ChunkInv, PhisInv, OnePhiPerStep
<1> QED  BY <1>1, ChunkInvariant, PTL

\* A failed chunk keeps the potential of the last judged step, and the next
\* chunk starts from there (_fallback_segment_result).
THEOREM ProgressSurvivesFailures == ScoringSpec => FailureKeepsProgress
<1> DEFINE Kept ==
      failures' > failures /\ ~Whole =>
        /\ \A t \in (Len(allPhis) + 1)..Len(allPhis') :
             allPhis'[t] = IF allPhis = << >> THEN 0 ELSE allPhis[Len(allPhis)]
        /\ previous' = previous
<1>1. ChunkInv /\ [JudgeNext]_judgeVars => [Kept]_judgeVars
  <2> SUFFICES ASSUME ChunkInv, JudgeNext, failures' > failures, ~Whole
               PROVE  /\ \A t \in (Len(allPhis) + 1)..Len(allPhis') :
                           allPhis'[t] =
                             IF allPhis = << >> THEN 0 ELSE allPhis[Len(allPhis)]
                      /\ previous' = previous
    OBVIOUS
  <2>1. FailChunk
    BY DEF JudgeNext, JudgeChunk, AllJudged, judgeVars, ChunkInv, ChunkTypeInv
  <2> DEFINE seg == [i \in 1..Expected |-> Fallback]
  <2>2. chunk < NumChunks /\ NextChunk /\ previous' = previous
    BY <2>1 DEF FailChunk
  <2>3. Expected \in Nat /\ start \in Nat
    BY <2>2, ChunkFacts DEF ChunkInv
  <2>4. Fallback = previous /\ previous \in Checklist
    BY DEF Fallback, ChunkInv, ChunkTypeInv
  <2>5. seg \in [1..Expected -> Checklist] /\ \A i \in 1..Expected : seg[i] = previous
    BY <2>4
  <2>6. /\ allMilestones' = allMilestones \o seg
        /\ allPhis' = allPhis \o [i \in 1..Expected |-> PhiMap(Fallback)]
    BY <2>1 DEF FailChunk
  <2> HIDE DEF seg
  <2>7. [i \in 1..Expected |-> PhiMap(Fallback)] = [i \in 1..Expected |-> PhiMap(seg[i])]
    BY <2>4, <2>5
  <2>8. /\ PhisInv'
        /\ \A t \in (start + 1)..(start + Expected) : allPhis'[t] = PhiMap(seg[t - start])
    BY <2>2, <2>3, <2>5, <2>6, <2>7, Appended DEF ChunkInv, NextChunk
  <2>9. /\ Len(allPhis) = start /\ Len(allPhis') = start + Expected
        /\ allPhis \in Seq(Nat)
    BY <2>2, <2>8 DEF ChunkInv, ChunkTypeInv, PhisInv, NextChunk
  <2>10. PhiMap(previous) = IF allPhis = << >> THEN 0 ELSE allPhis[Len(allPhis)]
    <3>1. previous = IF start = 0 THEN 0 ELSE allMilestones[start]
      BY DEF ChunkInv, ProgressInv
    <3>2. PhiMap(0) = 0
      BY MilestonesAssumption DEF PhiMap
    <3>3. CASE start = 0
      <4>1. allPhis = << >>
        BY <2>9, <3>3
      <4> QED  BY <3>1, <3>2, <3>3, <4>1
    <3>4. CASE start # 0
      <4>1. allPhis # << >> /\ allPhis[start] = PhiMap(allMilestones[start])
        BY <2>3, <2>9, <3>4 DEF ChunkInv, PhisInv
      <4> QED  BY <2>9, <3>1, <3>4, <4>1
    <3> QED  BY <3>3, <3>4
  <2>11. \A t \in (start + 1)..(start + Expected) : allPhis'[t] = PhiMap(previous)
    BY <2>3, <2>5, <2>8
  <2> QED  BY <2>2, <2>9, <2>10, <2>11
<1>2. [ScoringNext]_<<vars, judgeVars, grain>> => [JudgeNext]_judgeVars
  BY DEF ScoringNext
<1> QED  BY <1>1, <1>2, ChunkInvariant, PTL DEF ScoringSpec, FailureKeepsProgress
=============================================================================
