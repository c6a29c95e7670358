--------------------------- MODULE EnginesProofs ---------------------------
(***************************************************************************)
(* ToolRollout.tla and ChatScheduler.tla for every number of prompts,      *)
(* samples, turns, calls, threads, tokens, sessions and servers, every     *)
(* size of the cache and every choice of the tools a prompt offers.        *)
(*                                                                         *)
(* The inductive invariant ToolInv says, besides what the theorems state:  *)
(*  - KindInv: between batches, and for the samples a validation does not  *)
(*    take, every coroutine has returned;                                  *)
(*  - CallsInv: while a request waits for its tools, every call has a      *)
(*    place in the progress list, and is of a tool the request is offered; *)
(*  - CreatedInv: the instances are exactly those of the tools offered to  *)
(*    the requests that are under way;                                     *)
(*  - AcquireInv: the limiter's queue names each waiting call once, so a   *)
(*    token is never given to a call that has one, or has gone;            *)
(*  - TokenInv: the tokens add up.                                         *)
(*                                                                         *)
(* ChatInv, for the scheduler, adds:                                       *)
(*  - ListInv: the cache has one entry per session, and an entry's session *)
(*    counts every later one among those active since its latest request;  *)
(*  - SessionInv: a session without an entry has been overtaken by         *)
(*    max_cache_size others;                                               *)
(*  - HeapInv: the heap is a sorted permutation of the servers, an entry's *)
(*    weight is the number of sessions opened there, and no weight exceeds *)
(*    the least by more than one.                                          *)
(***************************************************************************)
EXTENDS GenerationEngines, FiniteSetTheorems, TLAPS

Pcs    == {"pending", "running", "engine", "tools", "ending", "done"}
Levels == {"queued", "acquire", "execute", "text", "none"}
Calls  == AllReqs \X (1..MaxCalls)

\* The request has its instances.
UnderWay(r) == pc[r] \in {"running", "engine", "tools", "ending"}

ToolTypeInv ==
  /\ kind \in {"train", "validate", "none", "raised"}
  /\ pc \in [AllReqs -> Pcs]
  /\ turns \in [AllReqs -> Nat]
  /\ calls \in [AllReqs -> Seq(Tools)]
  /\ progress \in [AllReqs -> Seq(Levels)]
  /\ instances \in [Tools -> SUBSET AllReqs]
  /\ tokens \in Nat /\ releasing \in Nat
  /\ acquiring \in Seq(Calls)

KindInv ==
  /\ kind = "none" => \A r \in AllReqs : pc[r] = "done"
  /\ kind = "validate" => \A r \in AllReqs : r[2] # 1 => pc[r] = "done"

CallsInv ==
  \A r \in AllReqs : pc[r] = "tools" =>
    /\ Len(calls[r]) <= MaxCalls
    /\ Len(progress[r]) = Len(calls[r])
    /\ \A i \in DOMAIN calls[r] : calls[r][i] \in ToolsOf(r)

CreatedInv ==
  \A r \in AllReqs : \A t \in Tools :
    r \in instances[t] <=> t \in ToolsOf(r) /\ UnderWay(r)

Waiting(c) ==
  /\ pc[c[1]] = "tools"
  /\ c[2] \in CallsOf(c[1])
  /\ progress[c[1]][c[2]] = "acquire"

AcquireInv ==
  /\ \A k \in 1..Len(acquiring) : Waiting(acquiring[k])
  /\ \A k, l \in 1..Len(acquiring) : k # l => acquiring[k] # acquiring[l]

TokenInv == tokens + releasing + Cardinality(Executing) = RateLimit

ToolInv ==
  /\ ToolTypeInv
  /\ KindInv
  /\ CallsInv
  /\ CreatedInv
  /\ AcquireInv
  /\ TokenInv

-----------------------------------------------------------------------------
(* Facts about the definitions.                                            *)

LEMMA ReqsAreReqs == Reqs \subseteq AllReqs
  BY LimitsAssumption DEF Reqs, AllReqs

\* A message has one to MaxCalls calls.
LEMMA MessageType ==
  ASSUME NEW message \in Messages
  PROVE  /\ message \in Seq(Tools)
         /\ Len(message) \in 1..MaxCalls
         /\ DOMAIN message = 1..Len(message)
  BY LimitsAssumption DEF Messages

LEMMA ExecutingIsFinite ==
  /\ IsFiniteSet(Executing)
  /\ Cardinality(Executing) \in Nat
<1>1. IsFiniteSet(1..NumPrompts) /\ IsFiniteSet(1..GroupSize)
      /\ IsFiniteSet(1..MaxCalls)
  BY LimitsAssumption, FS_Interval
<1>2. IsFiniteSet(AllReqs)
  BY <1>1, FS_Product DEF AllReqs
<1>3. IsFiniteSet(AllReqs \X (1..MaxCalls))
  BY <1>1, <1>2, FS_Product
<1>4. Executing \subseteq AllReqs \X (1..MaxCalls)
  BY DEF Executing
<1> QED  BY <1>3, <1>4, FS_Subset, FS_CardinalityType

\* A step that changes nothing the invariant is about, but the kind.
Quiet ==
  /\ UNCHANGED <<pc, turns, calls, progress, instances, tokens, acquiring,
                 releasing>>
  /\ kind' \in {kind, "raised", "none"}
  /\ kind' = "none" /\ kind # "none" =>
       kind \in {"train", "validate"} /\ \A r \in Reqs : pc[r] = "done"

LEMMA QuietSteps ==
  ASSUME NEW r \in Reqs,
         \/ EngineRefuses(r) \/ ToolRaises(r) \/ EngineCallsOther(r)
         \/ ReturnBatch \/ ToolOver \/ UNCHANGED toolVars
  PROVE  Quiet
  BY DEF EngineRefuses, ToolRaises, EngineCallsOther, Raise, ReturnBatch,
         ToolOver, Quiet, toolVars, limiter

LEMMA QuietKeeps ==
  ASSUME ToolInv, Quiet
  PROVE  ToolInv'
<1> USE ReqsAreReqs DEF ToolInv, Quiet
<1>1. ToolTypeInv'
  BY DEF ToolTypeInv
<1>2. KindInv'
  BY DEF KindInv, Reqs, AllReqs, ToolTypeInv
<1>3. CallsInv'
  BY DEF CallsInv
<1>4. CreatedInv'
  BY DEF CreatedInv, UnderWay
<1>5. AcquireInv'
  BY DEF AcquireInv, Waiting, CallsOf
<1>6. TokenInv'
  <2>1. Executing' = Executing
    BY DEF Executing, CallsOf
  <2> QED  BY <2>1 DEF TokenInv
<1> QED  BY <1>1, <1>2, <1>3, <1>4, <1>5, <1>6

-----------------------------------------------------------------------------
(* The batch starts.                                                       *)

LEMMA StartBatchKeeps ==
  ASSUME ToolInv, StartBatch
  PROVE  ToolInv'
<1> USE DEF ToolInv
<1>0. \A r \in AllReqs : pc[r] = "done" /\ pc'[r] \in {"pending", "done"}
  BY DEF StartBatch, KindInv
<1>1. ToolTypeInv'
  BY DEF StartBatch, ToolTypeInv, Pcs, limiter
<1>2. KindInv'
  BY DEF StartBatch, KindInv
<1>3. CallsInv'
  BY <1>0 DEF CallsInv
<1>4. CreatedInv'
  BY <1>0 DEF StartBatch, CreatedInv, UnderWay
<1>5. AcquireInv'
  <2>1. acquiring' = acquiring
    BY DEF StartBatch, limiter
  <2>2. \A k \in 1..Len(acquiring) : acquiring[k] \in Calls
    BY DEF ToolTypeInv
  <2>3. \A c \in Calls : ~Waiting(c)
    BY <1>0 DEF Waiting, Calls
  <2>4. Len(acquiring) = 0
    <3>1. Len(acquiring) \in Nat
      BY DEF ToolTypeInv
    <3> QED  BY <2>2, <2>3, <3>1 DEF AcquireInv
  <2> QED  BY <2>1, <2>4 DEF AcquireInv
<1>6. TokenInv'
  <2>1. \A c \in AllReqs \X (1..MaxCalls) :
          pc[c[1]] # "tools" /\ pc'[c[1]] # "tools"
    BY <1>0
  <2>2. Executing' = Executing
    BY <2>1 DEF Executing
  <2> QED  BY <2>2 DEF TokenInv, StartBatch, limiter
<1> QED  BY <1>1, <1>2, <1>3, <1>4, <1>5, <1>6

-----------------------------------------------------------------------------
(* The coroutines.                                                         *)

\* What a step of coroutine r alone may change: not the limiter, and no call
\* that waits for a token or holds one.
ByCoroutine(r) ==
  /\ kind \in {"train", "validate"} /\ kind' = kind
  /\ UNCHANGED limiter
  /\ pc' \in [AllReqs -> Pcs]
  /\ \A s \in AllReqs \ {r} :
       /\ pc'[s] = pc[s] /\ calls'[s] = calls[s] /\ progress'[s] = progress[s]
       /\ \A t \in Tools : s \in instances'[t] <=> s \in instances[t]
  /\ \A i \in CallsOf(r) :
       pc[r] = "tools" => progress[r][i] \notin {"acquire", "execute"}
  /\ pc'[r] = "tools" =>
       \A i \in DOMAIN calls'[r] : progress'[r][i] = "queued"

LEMMA CoroutineKeeps ==
  ASSUME ToolInv, NEW r \in Reqs, ByCoroutine(r), ToolTypeInv', CallsInv',
         \A t \in Tools : r \in instances'[t] <=> t \in ToolsOf(r) /\ UnderWay(r)',
         kind = "validate" => r[2] = 1
  PROVE  ToolInv'
<1> USE ReqsAreReqs DEF ToolInv, ByCoroutine
<1>1. KindInv'
  BY DEF KindInv
<1>2. CreatedInv'
  BY DEF CreatedInv, UnderWay
<1>3. AcquireInv'
  <2>1. acquiring' = acquiring
    BY DEF limiter
  <2>2. \A k \in 1..Len(acquiring) : acquiring[k] \in Calls
    BY DEF ToolTypeInv
  <2>3. \A c \in Calls : Waiting(c) => Waiting(c)'
    BY DEF Waiting, Calls, CallsOf
  <2> QED  BY <2>1, <2>2, <2>3 DEF AcquireInv
<1>4. TokenInv'
  <2>1. \A c \in Calls :
          (c[2] \in CallsOf(c[1]) /\ pc[c[1]] = "tools" /\ progress[c[1]][c[2]] = "execute")
          <=> (c[2] \in CallsOf(c[1]) /\ pc[c[1]] = "tools" /\ progress[c[1]][c[2]] = "execute")'
    BY DEF Calls, CallsOf
  <2>2. Executing' = Executing
    BY <2>1 DEF Executing, Calls
  <2> QED  BY <2>2 DEF TokenInv, limiter
<1> QED  BY <1>1, <1>2, <1>3, <1>4

LEMMA ValidationReqs ==
  ASSUME NEW r \in Reqs, kind = "validate"
  PROVE  r[2] = 1
  BY DEF Reqs

\* The calls of r are as they were, or r does not wait for any.
LEMMA QuietCalls ==
  ASSUME ToolInv, NEW r \in Reqs, pc' \in [AllReqs -> Pcs], pc'[r] # "tools",
         \A s \in AllReqs \ {r} :
           /\ pc'[s] = pc[s] /\ calls'[s] = calls[s]
           /\ progress'[s] = progress[s]
  PROVE  CallsInv'
  BY ReqsAreReqs DEF ToolInv, CallsInv

LEMMA CreateKeeps ==
  ASSUME ToolInv, NEW r \in Reqs, Create(r), Running
  PROVE  ToolInv'
<1> USE ReqsAreReqs, ValidationReqs DEF Create, Goto
<1>1. ToolTypeInv'
  BY DEF ToolInv, ToolTypeInv, Pcs, limiter
<1>2. ByCoroutine(r)
  BY DEF ByCoroutine, ToolInv, ToolTypeInv, Pcs, Running
<1>3. CallsInv'
  BY <1>2, QuietCalls DEF ToolInv, ToolTypeInv, ByCoroutine
<1>4. \A t \in Tools : r \in instances'[t] <=> t \in ToolsOf(r) /\ UnderWay(r)'
  BY DEF ToolInv, ToolTypeInv, CreatedInv, UnderWay
<1> QED  BY <1>1, <1>2, <1>3, <1>4, CoroutineKeeps

LEMMA CallEngineKeeps ==
  ASSUME ToolInv, NEW r \in Reqs, CallEngine(r), Running
  PROVE  ToolInv'
<1> USE ReqsAreReqs, ValidationReqs DEF CallEngine, Goto
<1>1. ToolTypeInv'
  BY DEF ToolInv, ToolTypeInv, Pcs, limiter
<1>2. ByCoroutine(r)
  BY DEF ByCoroutine, ToolInv, ToolTypeInv, Pcs, Running
<1>3. CallsInv'
  BY <1>2, QuietCalls DEF ToolInv, ToolTypeInv, ByCoroutine
<1>4. \A t \in Tools : r \in instances'[t] <=> t \in ToolsOf(r) /\ UnderWay(r)'
  BY DEF ToolInv, ToolTypeInv, CreatedInv, UnderWay
<1> QED  BY <1>1, <1>2, <1>3, <1>4, CoroutineKeeps

LEMMA EngineStopsKeeps ==
  ASSUME ToolInv, NEW r \in Reqs, EngineStops(r), Running
  PROVE  ToolInv'
<1> USE ReqsAreReqs, ValidationReqs DEF EngineStops, Goto
<1>1. ToolTypeInv'
  BY DEF ToolInv, ToolTypeInv, Pcs, limiter
<1>2. ByCoroutine(r)
  BY DEF ByCoroutine, ToolInv, ToolTypeInv, Pcs, Running
<1>3. CallsInv'
  BY <1>2, QuietCalls DEF ToolInv, ToolTypeInv, ByCoroutine
<1>4. \A t \in Tools : r \in instances'[t] <=> t \in ToolsOf(r) /\ UnderWay(r)'
  BY DEF ToolInv, ToolTypeInv, CreatedInv, UnderWay
<1> QED  BY <1>1, <1>2, <1>3, <1>4, CoroutineKeeps

LEMMA EngineCallsToolsKeeps ==
  ASSUME ToolInv, NEW r \in Reqs, EngineCallsTools(r), Running
  PROVE  ToolInv'
<1> USE ReqsAreReqs, ValidationReqs
<1>0. PICK message \in Messages :
        /\ turns[r] + 1 < MaxTurns => Range(message) \subseteq ToolsOf(r)
        /\ calls' = [calls EXCEPT ![r] = message]
        /\ progress' = [progress EXCEPT ![r] = [i \in DOMAIN message |-> "queued"]]
  BY DEF EngineCallsTools
<1>a. /\ message \in Seq(Tools) /\ Len(message) <= MaxCalls
      /\ DOMAIN message = 1..Len(message) /\ Len(message) \in Nat
      /\ \A i \in DOMAIN message : message[i] \in Range(message)
  BY MessageType, LimitsAssumption DEF Range
<1>b. /\ [i \in DOMAIN message |-> "queued"] \in Seq(Levels)
      /\ Len([i \in DOMAIN message |-> "queued"]) = Len(message)
  BY <1>a DEF Levels
<1>1. ToolTypeInv'
  <2>1. calls' \in [AllReqs -> Seq(Tools)]
    BY <1>0, <1>a DEF ToolInv, ToolTypeInv
  <2>2. progress' \in [AllReqs -> Seq(Levels)]
    BY <1>0, <1>b DEF ToolInv, ToolTypeInv
  <2>3. /\ pc' \in [AllReqs -> Pcs]
        /\ turns' \in [AllReqs -> Nat]
    BY DEF EngineCallsTools, Goto, ToolInv, ToolTypeInv, Pcs
  <2> QED
    BY <2>1, <2>2, <2>3 DEF EngineCallsTools, ToolInv, ToolTypeInv, limiter
<1>2. ByCoroutine(r)
  BY <1>0
     DEF EngineCallsTools, Goto, ByCoroutine, ToolInv, ToolTypeInv, Pcs, Running
<1>3. CallsInv'
  <2>1. /\ calls'[r] = message
        /\ Len(progress'[r]) = Len(message)
        /\ pc'[r] = "tools" => Range(message) \subseteq ToolsOf(r)
    BY <1>0, <1>b DEF EngineCallsTools, Goto, ToolInv, ToolTypeInv
  <2> QED
    BY <1>2, <1>a, <2>1 DEF ToolInv, CallsInv, ByCoroutine
<1>4. \A t \in Tools : r \in instances'[t] <=> t \in ToolsOf(r) /\ UnderWay(r)'
  BY DEF EngineCallsTools, Goto, ToolInv, ToolTypeInv, CreatedInv, UnderWay
<1> QED  BY <1>1, <1>2, <1>3, <1>4, CoroutineKeeps

LEMMA HearKeeps ==
  ASSUME ToolInv, NEW r \in Reqs, HearTools(r) \/ HearUntilFull(r), Running
  PROVE  ToolInv'
<1> USE ReqsAreReqs, ValidationReqs DEF HearTools, HearUntilFull, Goto
<1>1. ToolTypeInv'
  <2>1. progress' \in [AllReqs -> Seq(Levels)]
    <3>1. << >> \in Seq(Levels)
      OBVIOUS
    <3> QED  BY <3>1 DEF ToolInv, ToolTypeInv
  <2>2. pc' \in [AllReqs -> Pcs]
    BY DEF ToolInv, ToolTypeInv, Pcs
  <2> QED  BY <2>1, <2>2 DEF ToolInv, ToolTypeInv, limiter
<1>2. ByCoroutine(r)
  BY DEF ByCoroutine, AllAnswered, ToolInv, ToolTypeInv, Pcs, Running
<1>3. CallsInv'
  BY <1>2, QuietCalls DEF ToolInv, ToolTypeInv, ByCoroutine
<1>4. \A t \in Tools : r \in instances'[t] <=> t \in ToolsOf(r) /\ UnderWay(r)'
  BY DEF ToolInv, ToolTypeInv, CreatedInv, UnderWay
<1> QED  BY <1>1, <1>2, <1>3, <1>4, CoroutineKeeps

LEMMA FinalizeKeeps ==
  ASSUME ToolInv, NEW r \in Reqs, Finalize(r), Running
  PROVE  ToolInv'
<1> USE ReqsAreReqs, ValidationReqs DEF Finalize, Goto
<1>1. ToolTypeInv'
  BY DEF ToolInv, ToolTypeInv, Pcs, limiter
<1>2. ByCoroutine(r)
  BY DEF ByCoroutine, ToolInv, ToolTypeInv, Pcs, Running
<1>3. CallsInv'
  BY <1>2, QuietCalls DEF ToolInv, ToolTypeInv, ByCoroutine
<1>4. \A t \in Tools : r \in instances'[t] <=> t \in ToolsOf(r) /\ UnderWay(r)'
  BY DEF ToolInv, ToolTypeInv, CreatedInv, UnderWay, ToolsToRelease
<1> QED  BY <1>1, <1>2, <1>3, <1>4, CoroutineKeeps

-----------------------------------------------------------------------------
(* The pools' threads and the limiter.                                     *)

\* Call i of request r, which waits for its tools, gets to level l.
ByCall(r, i, l) ==
  /\ kind' = kind
  /\ UNCHANGED <<pc, turns, calls, instances>>
  /\ pc[r] = "tools" /\ i \in CallsOf(r)
  /\ l \in Levels
  /\ Progress(r, i, l)
  /\ tokens' \in Nat /\ releasing' \in Nat /\ acquiring' \in Seq(Calls)

LEMMA CallIsCall ==
  ASSUME ToolInv, NEW r \in AllReqs, NEW i \in CallsOf(r), pc[r] = "tools"
  PROVE  /\ i \in 1..MaxCalls /\ <<r, i>> \in Calls
         /\ i \in DOMAIN progress[r]
  BY LimitsAssumption DEF ToolInv, ToolTypeInv, CallsInv, CallsOf, Calls

LEMMA CallMoves ==
  ASSUME ToolInv, NEW r \in AllReqs, NEW i, NEW l, ByCall(r, i, l)
  PROVE  /\ progress' \in [AllReqs -> Seq(Levels)]
         /\ \A s \in AllReqs : Len(progress'[s]) = Len(progress[s])
         /\ \A c \in Calls : pc[c[1]] = "tools" /\ c[2] \in CallsOf(c[1]) =>
              progress'[c[1]][c[2]]
                = IF c = <<r, i>> THEN l ELSE progress[c[1]][c[2]]
<1>1. i \in DOMAIN progress[r]
  BY CallIsCall DEF ByCall
<1>2. progress[r] \in Seq(Levels) /\ progress \in [AllReqs -> Seq(Levels)]
  BY DEF ToolInv, ToolTypeInv
<1>3. /\ [progress[r] EXCEPT ![i] = l] \in Seq(Levels)
      /\ Len([progress[r] EXCEPT ![i] = l]) = Len(progress[r])
  BY <1>1, <1>2 DEF ByCall
<1>4. progress' = [progress EXCEPT ![r] = [progress[r] EXCEPT ![i] = l]]
  BY <1>2 DEF ByCall, Progress
<1>5. \A c \in Calls : pc[c[1]] = "tools" /\ c[2] \in CallsOf(c[1]) =>
         c[2] \in DOMAIN progress[c[1]]
  BY CallIsCall DEF Calls
<1> QED
  BY <1>1, <1>2, <1>3, <1>4, <1>5 DEF Calls

LEMMA CallKeeps ==
  ASSUME ToolInv, NEW r \in AllReqs, NEW i, NEW l, ByCall(r, i, l)
  PROVE  ToolTypeInv' /\ KindInv' /\ CallsInv' /\ CreatedInv'
<1> USE CallMoves DEF ByCall, ToolInv
<1>1. ToolTypeInv'
  BY DEF ToolTypeInv
<1>2. KindInv'
  BY DEF KindInv
<1>3. CallsInv'
  BY DEF CallsInv
<1>4. CreatedInv'
  BY DEF CreatedInv, UnderWay
<1> QED  BY <1>1, <1>2, <1>3, <1>4

\* What the limiter's queue and the executed calls become.
LEMMA WaitingMoves ==
  ASSUME ToolInv, NEW r \in AllReqs, NEW i, NEW l, ByCall(r, i, l)
  PROVE  \A c \in Calls : Waiting(c)' <=>
           (IF c = <<r, i>> THEN l = "acquire" ELSE Waiting(c))
  BY CallMoves, SMTT(20) DEF ByCall, Waiting, CallsOf, Calls

LEMMA ExecutingMoves ==
  ASSUME ToolInv, NEW r \in AllReqs, NEW i, NEW l, ByCall(r, i, l)
  PROVE  Executing' = IF l = "execute" THEN Executing \cup {<<r, i>>}
                                       ELSE Executing \ {<<r, i>>}
<1>1. <<r, i>> \in Calls
  BY CallIsCall DEF ByCall
<1>2. \A c \in Calls : c \in Executing' <=>
        (IF c = <<r, i>> THEN l = "execute" ELSE c \in Executing)
  <2> SUFFICES ASSUME NEW c \in Calls
               PROVE  c \in Executing' <=>
                        (IF c = <<r, i>> THEN l = "execute" ELSE c \in Executing)
    OBVIOUS
  <2>1. c \in Executing <=> /\ c[2] \in DOMAIN calls[c[1]] /\ pc[c[1]] = "tools"
                            /\ progress[c[1]][c[2]] = "execute"
    BY DEF Executing, CallsOf, Calls
  <2>2. c \in Executing' <=> /\ c[2] \in DOMAIN calls'[c[1]] /\ pc'[c[1]] = "tools"
                             /\ progress'[c[1]][c[2]] = "execute"
    BY DEF Executing, CallsOf, Calls
  <2>3. /\ pc' = pc /\ calls' = calls
        /\ pc[r] = "tools" /\ i \in DOMAIN calls[r]
        /\ pc[c[1]] = "tools" /\ c[2] \in DOMAIN calls[c[1]] =>
             progress'[c[1]][c[2]]
               = IF c = <<r, i>> THEN l ELSE progress[c[1]][c[2]]
    BY CallMoves DEF ByCall, CallsOf
  <2>4. CASE c = <<r, i>>
    <3>1. c[1] = r /\ c[2] = i
      BY <2>4
    <3> QED  BY <2>1, <2>2, <2>3, <2>4, <3>1
  <2>5. CASE c # <<r, i>>
    BY <2>1, <2>2, <2>3, <2>5
  <2> QED  BY <2>4, <2>5
<1>3. Executing \subseteq Calls /\ Executing' \subseteq Calls
  BY DEF Executing, Calls
<1>4. CASE l = "execute"
  <2>1. \A c : c \in Executing' <=> c \in Executing \cup {<<r, i>>}
    BY <1>1, <1>2, <1>3, <1>4
  <2> QED  BY <1>4, <2>1
<1>5. CASE l # "execute"
  <2>1. \A c : c \in Executing' <=> c \in Executing \ {<<r, i>>}
    BY <1>1, <1>2, <1>3, <1>5
  <2> QED  BY <1>5, <2>1
<1> QED  BY <1>4, <1>5

LEMMA RefuseKeeps ==
  ASSUME ToolInv, NEW r \in Reqs, NEW i, Thread(r, i), Refuse(r, i), Running
  PROVE  ToolInv'
<1> USE ReqsAreReqs
<1>1. ByCall(r, i, "text")
  BY DEF Thread, Refuse, ByCall, Levels, limiter, ToolInv, ToolTypeInv
<1>2. AcquireInv'
  <2>1. ~Waiting(<<r, i>>)
    BY DEF Refuse, Waiting
  <2>2. \A k \in 1..Len(acquiring) : acquiring[k] \in Calls
    BY DEF ToolInv, ToolTypeInv
  <2> QED
    BY <1>1, <2>1, <2>2, WaitingMoves DEF Refuse, limiter, ToolInv, AcquireInv
<1>3. TokenInv'
  <2>1. <<r, i>> \notin Executing
    BY DEF Refuse, Executing
  <2>2. Executing' = Executing
    BY <1>1, <2>1, ExecutingMoves
  <2> QED  BY <2>2 DEF Refuse, limiter, ToolInv, TokenInv
<1> QED  BY <1>1, <1>2, <1>3, CallKeeps DEF ToolInv

LEMMA TakeKeeps ==
  ASSUME ToolInv, NEW r \in Reqs, NEW i, Thread(r, i), Take(r, i), Running
  PROVE  ToolInv'
<1> USE ReqsAreReqs
<1>0. <<r, i>> \in Calls
  BY CallIsCall DEF Thread
<1>1. ByCall(r, i, "acquire")
  BY <1>0 DEF Thread, Take, ByCall, Levels, ToolInv, ToolTypeInv
<1>2. AcquireInv'
  <2>1. ~Waiting(<<r, i>>)
    BY DEF Take, Waiting
  <2>2. \A k \in 1..Len(acquiring) : acquiring[k] \in Calls
    BY DEF ToolInv, ToolTypeInv
  <2>3. /\ Len(acquiring') = Len(acquiring) + 1
        /\ acquiring'[Len(acquiring) + 1] = <<r, i>>
        /\ \A k \in 1..Len(acquiring) : acquiring'[k] = acquiring[k]
        /\ Len(acquiring) \in Nat
    BY <1>0 DEF Take, ToolInv, ToolTypeInv
  <2>4. /\ \A c \in Calls : Waiting(c) => c # <<r, i>> /\ Waiting(c)'
        /\ Waiting(<<r, i>>)'
    BY <1>0, <1>1, <2>1, WaitingMoves
  <2>5. \A k \in 1..Len(acquiring) :
          acquiring[k] \in Calls /\ Waiting(acquiring[k])
    BY <2>2 DEF ToolInv, AcquireInv
  <2>6. \A k \in 1..Len(acquiring') :
          \E c \in Calls : acquiring'[k] = c /\ Waiting(c)'
    <3> TAKE k \in 1..Len(acquiring')
    <3>1. CASE k = Len(acquiring) + 1
      BY <1>0, <2>3, <2>4, <3>1
    <3>2. CASE k \in 1..Len(acquiring)
      BY <2>3, <2>4, <2>5, <3>2
    <3> QED  BY <2>3, <3>1, <3>2
  <2>7. \A k, l \in 1..Len(acquiring') : k # l => acquiring'[k] # acquiring'[l]
    BY <2>3, <2>4, <2>5 DEF ToolInv, AcquireInv
  <2> QED  BY <2>6, <2>7 DEF AcquireInv, Waiting
<1>3. TokenInv'
  <2>1. <<r, i>> \notin Executing
    BY DEF Take, Executing
  <2>2. Executing' = Executing
    BY <1>1, <2>1, ExecutingMoves
  <2> QED  BY <2>2 DEF Take, ToolInv, TokenInv
<1> QED  BY <1>1, <1>2, <1>3, CallKeeps DEF ToolInv

LEMMA ReturnKeeps ==
  ASSUME ToolInv, NEW r \in Reqs, NEW i, Thread(r, i), Return(r, i), Running
  PROVE  ToolInv'
<1> USE ReqsAreReqs
<1>0. PICK result \in {"text", "none"} : Progress(r, i, result)
  BY DEF Return
<1>1. ByCall(r, i, result)
  BY <1>0 DEF Thread, Return, ByCall, Levels, ToolInv, ToolTypeInv
<1>2. AcquireInv'
  <2>1. ~Waiting(<<r, i>>)
    BY DEF Return, Waiting
  <2>2. \A k \in 1..Len(acquiring) : acquiring[k] \in Calls
    BY DEF ToolInv, ToolTypeInv
  <2> QED
    BY <1>1, <2>1, <2>2, WaitingMoves DEF Return, ToolInv, AcquireInv
<1>3. TokenInv'
  <2>1. <<r, i>> \in Executing
    BY CallIsCall DEF Thread, Return, Executing, Calls
  <2>2. Executing' = Executing \ {<<r, i>>}
    BY <1>1, ExecutingMoves
  <2>3. Cardinality(Executing') = Cardinality(Executing) - 1
    BY <2>1, <2>2, ExecutingIsFinite, FS_RemoveElement
  <2> QED
    BY <2>3, ExecutingIsFinite DEF Return, ToolInv, ToolTypeInv, TokenInv
<1> QED  BY <1>1, <1>2, <1>3, CallKeeps DEF ToolInv

LEMMA AcquireKeeps ==
  ASSUME ToolInv, Acquire
  PROVE  ToolInv'
<1> DEFINE c == Head(acquiring)
<1>0. /\ c = acquiring[1] /\ c \in Calls /\ Waiting(c)
      /\ Len(acquiring) \in Nat \ {0}
      /\ acquiring' \in Seq(Calls)
      /\ Len(acquiring') = Len(acquiring) - 1
      /\ \A k \in 1..Len(acquiring') : acquiring'[k] = acquiring[k + 1]
  <2>1. /\ acquiring \in Seq(Calls) /\ acquiring # << >>
        /\ acquiring' = Tail(acquiring)
    BY DEF Acquire, CanAcquire, ToolInv, ToolTypeInv
  <2> HIDE DEF c
  <2>2. /\ c = acquiring[1] /\ c \in Calls
        /\ Len(acquiring) \in Nat \ {0}
        /\ acquiring' \in Seq(Calls)
        /\ Len(acquiring') = Len(acquiring) - 1
        /\ \A k \in 1..Len(acquiring') : acquiring'[k] = acquiring[k + 1]
    BY <2>1 DEF c
  <2> QED  BY <2>2 DEF ToolInv, AcquireInv
<1> HIDE DEF c
<1>1. PICK r \in AllReqs, i \in 1..MaxCalls : c = <<r, i>>
  BY <1>0 DEF Calls
<1>2. ByCall(r, i, "execute")
  <2>1. Progress(r, i, "execute")
    BY <1>1 DEF Acquire, c
  <2>2. pc[r] = "tools" /\ i \in CallsOf(r)
    BY <1>0, <1>1 DEF Waiting
  <2>3. tokens' \in Nat /\ releasing' \in Nat
    BY DEF Acquire, CanAcquire, ToolInv, ToolTypeInv
  <2> QED
    BY <1>0, <2>1, <2>2, <2>3 DEF Acquire, ByCall, Levels
<1>3. AcquireInv'
  <2>1. /\ \A d \in Calls : d # c /\ Waiting(d) => Waiting(d)'
        /\ \A k \in 1..Len(acquiring) :
             acquiring[k] \in Calls /\ Waiting(acquiring[k])
    BY <1>1, <1>2, WaitingMoves DEF ToolInv, ToolTypeInv, AcquireInv
  <2>2. \A k \in 1..Len(acquiring') :
          \E d \in Calls : acquiring'[k] = d /\ Waiting(d)'
    <3> TAKE k \in 1..Len(acquiring')
    <3>1. k + 1 \in 1..Len(acquiring) /\ k + 1 # 1 /\ 1 \in 1..Len(acquiring)
      BY <1>0
    <3>2. acquiring[k + 1] # c
      BY <1>0, <3>1 DEF ToolInv, AcquireInv
    <3>3. PICK d \in Calls : d = acquiring[k + 1]
      BY <2>1, <3>1
    <3>4. Waiting(d)'
      BY <2>1, <3>1, <3>2, <3>3
    <3> QED  BY <1>0, <3>3, <3>4
  <2>3. \A k, l \in 1..Len(acquiring') : k # l => acquiring'[k] # acquiring'[l]
    <3> TAKE k, l \in 1..Len(acquiring')
    <3>1. k + 1 \in 1..Len(acquiring) /\ l + 1 \in 1..Len(acquiring)
          /\ (k # l => k + 1 # l + 1)
      BY <1>0
    <3> QED  BY <1>0, <3>1 DEF ToolInv, AcquireInv
  <2> QED  BY <2>2, <2>3 DEF AcquireInv, Waiting
<1>4. TokenInv'
  <2>1. c \notin Executing
    BY <1>0 DEF Executing, Waiting
  <2>2. Executing' = Executing \cup {c}
    BY <1>1, <1>2, ExecutingMoves
  <2>3. Cardinality(Executing') = Cardinality(Executing) + 1
    BY <2>1, <2>2, ExecutingIsFinite, FS_AddElement
  <2> QED
    BY <2>3, ExecutingIsFinite, LimitsAssumption
       DEF Acquire, ToolInv, ToolTypeInv, TokenInv
<1> QED  BY <1>2, <1>3, <1>4, CallKeeps DEF ToolInv

LEMMA ReleaseKeeps ==
  ASSUME ToolInv, Release
  PROVE  ToolInv'
<1> USE DEF ToolInv, Release, CanRelease
<1>1. ToolTypeInv'
  BY DEF ToolTypeInv
<1>2. KindInv'
  BY DEF KindInv
<1>3. CallsInv'
  BY DEF CallsInv
<1>4. CreatedInv'
  BY DEF CreatedInv, UnderWay
<1>5. AcquireInv'
  BY DEF AcquireInv, Waiting, CallsOf
<1>6. TokenInv'
  <2>1. Executing' = Executing
    BY DEF Executing, CallsOf
  <2> QED  BY <2>1, ExecutingIsFinite DEF TokenInv, ToolTypeInv
<1> QED  BY <1>1, <1>2, <1>3, <1>4, <1>5, <1>6

-----------------------------------------------------------------------------
(* The inductive invariant, and what it implies.                           *)

LEMMA ToolInvInitially == ToolInit => ToolInv
<1> SUFFICES ASSUME ToolInit PROVE ToolInv
  OBVIOUS
<1>1. ToolTypeInv
  <2>1. \A S : << >> \in Seq(S)
    OBVIOUS
  <2>2. /\ calls \in [AllReqs -> Seq(Tools)]
        /\ progress \in [AllReqs -> Seq(Levels)]
        /\ acquiring \in Seq(Calls)
    BY <2>1 DEF ToolInit
  <2>3. /\ pc \in [AllReqs -> Pcs] /\ turns \in [AllReqs -> Nat]
        /\ instances \in [Tools -> SUBSET AllReqs]
        /\ tokens \in Nat /\ releasing \in Nat
    BY LimitsAssumption DEF ToolInit, Pcs
  <2> QED
    BY <2>2, <2>3 DEF ToolInit, ToolTypeInv
<1>2. KindInv /\ CallsInv /\ CreatedInv /\ AcquireInv
  BY DEF ToolInit, KindInv, CallsInv, CreatedInv, UnderWay, AcquireInv
<1>3. TokenInv
  <2>1. \A c \in AllReqs \X (1..MaxCalls) : pc[c[1]] = "done"
    BY DEF ToolInit
  <2>2. Executing = {}
    BY <2>1 DEF Executing
  <2> QED
    BY <2>2, FS_EmptySet, LimitsAssumption DEF ToolInit, TokenInv
<1> QED  BY <1>1, <1>2, <1>3 DEF ToolInv

LEMMA ToolInvStep ==
  ASSUME ToolInv, [ToolNext]_toolVars
  PROVE  ToolInv'
<1>1. CASE StartBatch
  BY <1>1, StartBatchKeeps
<1>2. CASE ReturnBatch \/ ToolOver \/ UNCHANGED toolVars
  <2>1. Quiet
    BY <1>2 DEF ReturnBatch, ToolOver, Quiet, toolVars, limiter
  <2> QED  BY <2>1, QuietKeeps
<1>3. ASSUME NEW r \in Reqs, Running, Coroutine(r)
      PROVE  ToolInv'
  <2>1. CASE EngineRefuses(r) \/ ToolRaises(r) \/ EngineCallsOther(r)
    BY <2>1, QuietSteps, QuietKeeps
  <2> QED
    BY <1>3, <2>1, CreateKeeps, CallEngineKeeps, EngineStopsKeeps,
       EngineCallsToolsKeeps, HearKeeps, FinalizeKeeps DEF Coroutine
<1>4. ASSUME NEW r \in Reqs, NEW i \in 1..MaxCalls, Running, Thread(r, i)
      PROVE  ToolInv'
  BY <1>4, RefuseKeeps, TakeKeeps, ReturnKeeps DEF Thread
<1>5. CASE Acquire
  BY <1>5, AcquireKeeps
<1>6. CASE Release
  BY <1>6, ReleaseKeeps
<1> QED
  BY <1>1, <1>2, <1>3, <1>4, <1>5, <1>6 DEF ToolNext

LEMMA ToolInvHolds == EnginesSpec => []ToolInv
<1>1. ModeInit => ToolInv
  BY ToolInvInitially DEF ModeInit
<1>2. ToolInv /\ [ModeNext]_<<toolVars, chatVars, rolloutMode>> => ToolInv'
  BY ToolInvStep DEF ModeNext
<1> QED  BY <1>1, <1>2, PTL DEF EnginesSpec

\* SearchExecutionWorker and TokenBucketWorker keep the rate, for any number
\* of requests, threads and tokens: at most rate_limit calls are executed at
\* a time, and every token is in the bucket, held, or on its way back.
THEOREM RateIsKept == EnginesSpec => []RateKept
<1>1. ToolInv => RateKept
  BY ExecutingIsFinite, LimitsAssumption
     DEF ToolInv, ToolTypeInv, TokenInv, RateKept
<1> QED  BY <1>1, ToolInvHolds, PTL

\* A tool is executed on the instance _handle_pending_state created for the
\* request, and a batch that returns has released every instance: whatever
\* tools the prompts offer, and however their dialogues end.
THEOREM InstancesAreFollowed == EnginesSpec => []InstancesFollowRequests
<1>1. ToolInv => InstancesFollowRequests
  <2> SUFFICES ASSUME ToolInv PROVE InstancesFollowRequests
    OBVIOUS
  <2>1. \A c \in Executing : c[1] \in instances[calls[c[1]][c[2]]]
    <3> SUFFICES ASSUME NEW c \in Executing
                 PROVE  c[1] \in instances[calls[c[1]][c[2]]]
      OBVIOUS
    <3>1. /\ c[1] \in AllReqs /\ c[2] \in DOMAIN calls[c[1]]
          /\ pc[c[1]] = "tools"
      BY DEF Executing, CallsOf
    <3>2. calls[c[1]] \in Seq(Tools)
      BY <3>1 DEF ToolInv, ToolTypeInv
    <3>3. calls[c[1]][c[2]] \in Tools
      BY <3>1, <3>2
    <3> QED
      BY <3>1, <3>3 DEF ToolInv, CallsInv, CreatedInv, UnderWay
  <2>2. ASSUME kind = "none", NEW t \in Tools
        PROVE  instances[t] = {}
    <3>1. instances[t] \subseteq AllReqs
      BY DEF ToolInv, ToolTypeInv
    <3> QED
      BY <2>2, <3>1 DEF ToolInv, KindInv, CreatedInv, UnderWay
  <2> QED  BY <2>1, <2>2 DEF InstancesFollowRequests
<1> QED  BY <1>1, ToolInvHolds, PTL

-----------------------------------------------------------------------------
(* The chat scheduler.  A session is one of the cache, or of what pop      *)
(* leaves of it, and the heap is what heapreplace makes of it.             *)

Entries   == [session : Sessions, address : Servers]
Addresses == [weight : Nat, address : Servers]
ChatStates == {"new", "sent", "answered", "failed", "lost", "over"}

ChatTypeInv ==
  /\ weighted \in [Servers -> Addresses]
  /\ cache \in Seq(Entries)
  /\ session \in [Sessions -> ChatStates]
  /\ address \in [Sessions -> Servers \cup {NoServer}]
  /\ home \in [Sessions -> Servers \cup {NoServer}]
  /\ others \in [Sessions -> SUBSET Sessions]

\* What holds of the cache, and of the cache without one of its entries.
ListInv(L) ==
  /\ L \in Seq(Entries)
  /\ Len(L) <= MaxCacheSize
  /\ \A i \in 1..Len(L) :
       session[L[i].session] # "new" /\ L[i].address = home[L[i].session]
  /\ \A i, j \in 1..Len(L) : i < j =>
       L[i].session # L[j].session /\ L[j].session \in others[L[i].session]

In(L, s) == \E i \in 1..Len(L) : L[i].session = s

Missed(s) == Cardinality(others[s]) >= MaxCacheSize

SessionInv ==
  \A s \in Sessions :
    /\ address[s] = home[s]
    /\ session[s] = "new" => home[s] = NoServer
    /\ IsFiniteSet(others[s])
    /\ session[s] # "new" /\ ~In(cache, s) => Missed(s)
    /\ session[s] = "lost" => Missed(s)

Sorted(heap) == \A i, j \in Servers : i < j => Before(heap[i], heap[j])

Permuted(heap) ==
  /\ \A i, j \in Servers : heap[i].address = heap[j].address => i = j
  /\ \A a \in Servers : \E i \in Servers : heap[i].address = a

HomedAt(a) == {s \in Sessions : home[s] = a}

HeapInv ==
  /\ Sorted(weighted)
  /\ Permuted(weighted)
  /\ \A i \in Servers : weighted[i].weight <= weighted[1].weight + 1
  /\ \A a \in Servers : IsFiniteSet(HomedAt(a))
  /\ \A i \in Servers :
       weighted[i].weight = Cardinality(HomedAt(weighted[i].address))

ChatInv == ChatTypeInv /\ ListInv(cache) /\ SessionInv /\ HeapInv

-----------------------------------------------------------------------------
(* The cache.                                                              *)

\* A set with as many elements as a sequence of different sessions.
LEMMA ManySessions ==
  ASSUME NEW n \in Nat, NEW S, IsFiniteSet(S), NEW q \in [1..n -> S],
         \A i, j \in 1..n : i < j => q[i] # q[j]
  PROVE  Cardinality(S) >= n
<1>1. q \in Injection(1..n, S)
  <2>1. \A i, j \in 1..n : q[i] = q[j] => i = j
    <3> SUFFICES ASSUME NEW i \in 1..n, NEW j \in 1..n, i # j
                 PROVE  q[i] # q[j]
      OBVIOUS
    <3>1. i < j \/ j < i
      OBVIOUS
    <3> QED  BY <3>1
  <2> QED  BY <2>1 DEF Injection, IsInjective
<1>2. Cardinality(1..n) = n
  BY FS_Interval
<1>3. Cardinality(1..n) <= Cardinality(S)
  BY <1>1, FS_Injection
<1>4. Cardinality(S) \in Nat
  BY FS_CardinalityType
<1> QED  BY <1>2, <1>3, <1>4

LEMMA Joined ==
  ASSUME NEW S, NEW a \in Seq(S), NEW b \in Seq(S)
  PROVE  /\ a \o b \in Seq(S)
         /\ Len(a \o b) = Len(a) + Len(b)
         /\ \A i \in 1..Len(a) : (a \o b)[i] = a[i]
         /\ \A i \in 1..Len(b) : (a \o b)[Len(a) + i] = b[i]
OBVIOUS

\* pop leaves the other entries, in their order.
LEMMA Popped ==
  ASSUME NEW s \in Sessions, cache \in Seq(Entries), Cached(s)
  PROVE  /\ EntryOf(s) \in 1..Len(cache)
         /\ cache[EntryOf(s)].session = s
         /\ Without(s) \in Seq(Entries)
         /\ Len(Without(s)) = Len(cache) - 1
         /\ \A i \in 1..(Len(cache) - 1) :
              Without(s)[i] = cache[IF i < EntryOf(s) THEN i ELSE i + 1]
<1> DEFINE k == EntryOf(s)
           n == Len(cache)
<1>1. k \in DOMAIN cache /\ cache[k].session = s
  BY DEF Cached, EntryOf
<1>2. k \in 1..n /\ n \in Nat /\ k \in Nat
  BY <1>1
<1> HIDE DEF k
<1> DEFINE front == SubSeq(cache, 1, k - 1)
           back  == SubSeq(cache, k + 1, n)
<1>3. /\ front \in Seq(Entries) /\ Len(front) = k - 1
      /\ \A i \in 1..(k - 1) : front[i] = cache[i]
  BY <1>2
<1>4. /\ back \in Seq(Entries) /\ Len(back) = n - k
      /\ \A i \in 1..(n - k) : back[i] = cache[k + i]
  BY <1>2
<1>5. Without(s) = front \o back
  BY DEF Without, RemoveAt, k
<1> HIDE DEF front, back
<1>j. /\ front \o back \in Seq(Entries)
      /\ Len(front \o back) = (k - 1) + (n - k)
      /\ \A i \in 1..(k - 1) : (front \o back)[i] = front[i]
      /\ \A i \in 1..(n - k) : (front \o back)[(k - 1) + i] = back[i]
  <2> DEFINE l == k - 1
             m == n - k
  <2>1. l \in Nat /\ m \in Nat /\ Len(front) = l /\ Len(back) = m
    BY <1>2, <1>3, <1>4
  <2> HIDE DEF l, m
  <2>2. /\ front \o back \in Seq(Entries)
        /\ Len(front \o back) = l + m
        /\ \A i \in 1..l : (front \o back)[i] = front[i]
        /\ \A i \in 1..m : (front \o back)[l + i] = back[i]
    <3>1. /\ front \o back \in Seq(Entries)
          /\ Len(front \o back) = Len(front) + Len(back)
          /\ \A i \in 1..Len(front) : (front \o back)[i] = front[i]
          /\ \A i \in 1..Len(back) : (front \o back)[Len(front) + i] = back[i]
      <4>1. front \in Seq(Entries) /\ back \in Seq(Entries)
        BY <1>3, <1>4
      <4> QED  BY <4>1, Joined
    <3> QED  BY <2>1, <3>1
  <2> QED  BY <2>2 DEF l, m
<1>6. Without(s) \in Seq(Entries) /\ Len(Without(s)) = n - 1
  BY <1>2, <1>5, <1>j
<1>7. ASSUME NEW i \in 1..(n - 1)
      PROVE  Without(s)[i] = cache[IF i < k THEN i ELSE i + 1]
  <2>1. CASE i < k
    <3>1. i \in 1..(k - 1)
      BY <2>1, <1>2
    <3> QED  BY <2>1, <3>1, <1>3, <1>5, <1>j
  <2>2. CASE ~(i < k)
    <3> DEFINE j == i - (k - 1)
    <3>1. j \in 1..(n - k) /\ k + j = i + 1 /\ (k - 1) + j = i
      BY <2>2, <1>2
    <3> HIDE DEF j
    <3>2. (front \o back)[(k - 1) + j] = back[j]
      BY <3>1, <1>j
    <3> QED  BY <2>2, <3>1, <3>2, <1>4, <1>5
  <2> QED  BY <2>1, <2>2
<1> QED  BY <1>1, <1>2, <1>6, <1>7 DEF k

LEMMA PoppedInv ==
  ASSUME NEW s \in Sessions, ListInv(cache), Cached(s)
  PROVE  /\ ListInv(Without(s))
         /\ ~In(Without(s), s)
         /\ \A t \in Sessions \ {s} : In(cache, t) => In(Without(s), t)
         /\ session[s] # "new" /\ AddressOf(s) = home[s] /\ home[s] \in Servers
<1> DEFINE n == Len(cache)
           k == EntryOf(s)
           Old(i) == IF i < k THEN i ELSE i + 1
<1>1. /\ k \in 1..n /\ cache[k].session = s /\ n \in Nat
      /\ Without(s) \in Seq(Entries) /\ Len(Without(s)) = n - 1
      /\ \A i \in 1..(n - 1) : Without(s)[i] = cache[Old(i)]
      /\ cache \in Seq(Entries)
  BY Popped DEF ListInv
<1>2. \A i \in 1..(n - 1) : Old(i) \in 1..n /\ Old(i) # k
  BY <1>1
<1>3. \A i, j \in 1..(n - 1) : i < j => Old(i) < Old(j)
  BY <1>1
<1> HIDE DEF k
<1>4. ListInv(Without(s))
  <2> HIDE DEF Old
  <2>1. n - 1 <= MaxCacheSize
    BY <1>1, ChatAssumption DEF ListInv
  <2>2. PICK W : W = Without(s)
    OBVIOUS
  <2>3. /\ W \in Seq(Entries) /\ Len(W) = n - 1
        /\ \A i \in 1..(n - 1) : W[i] = cache[Old(i)] /\ Old(i) \in 1..n
    BY <1>1, <1>2, <2>2
  <2>4. \A i \in 1..(n - 1) :
          session[W[i].session] # "new" /\ W[i].address = home[W[i].session]
    BY <2>3 DEF ListInv
  <2>5. \A i, j \in 1..(n - 1) : i < j =>
          /\ W[i].session # W[j].session
          /\ W[j].session \in others[W[i].session]
    BY <1>3, <2>3 DEF ListInv
  <2>6. ListInv(W)
    BY <2>1, <2>3, <2>4, <2>5 DEF ListInv
  <2> QED  BY <2>2, <2>6
<1>5. \A i \in 1..n : i # k => cache[i].session # s
  <2> SUFFICES ASSUME NEW i \in 1..n, i # k PROVE cache[i].session # s
    OBVIOUS
  <2>1. i < k \/ k < i
    BY <1>1
  <2> QED  BY <2>1, <1>1 DEF ListInv
<1>6. ~In(Without(s), s)
  <2> HIDE DEF Old
  <2> QED  BY <1>1, <1>2, <1>5 DEF In
<1>7. ASSUME NEW t \in Sessions \ {s}, In(cache, t)
      PROVE  In(Without(s), t)
  <2>1. PICK i \in 1..n : cache[i].session = t
    BY <1>7 DEF In
  <2>2. i # k
    BY <2>1, <1>1
  <2> DEFINE m == IF i < k THEN i ELSE i - 1
  <2>3. m \in 1..(n - 1) /\ Old(m) = i
    BY <1>1, <2>2
  <2> HIDE DEF m, Old
  <2> QED  BY <1>1, <2>1, <2>3 DEF In
<1>8. session[s] # "new" /\ AddressOf(s) = home[s] /\ home[s] \in Servers
  <2>1. cache[k] \in Entries
    BY <1>1
  <2>2. AddressOf(s) = cache[k].address
    BY DEF AddressOf, k
  <2> QED  BY <1>1, <2>1, <2>2 DEF ListInv, Entries
<1> QED  BY <1>4, <1>6, <1>7, <1>8

\* Submitting a request of session t, from the cache or what pop left of it.
LEMMA SendKeeps ==
  ASSUME ChatTypeInv, SessionInv, NEW t \in Sessions, NEW L,
         NEW a \in Servers, ListInv(L), ~In(L, t),
         \A s \in Sessions \ {t} : In(cache, s) => In(L, s),
         Send(t, L, a), home' = [home EXCEPT ![t] = a]
  PROVE  ListInv(cache)' /\ SessionInv'
<1> DEFINE K == IF Len(L) >= MaxCacheSize THEN Tail(L) ELSE L
           d == IF Len(L) >= MaxCacheSize THEN 1 ELSE 0
           e == [session |-> t, address |-> a]
           n == Len(L) - d
<1>1. /\ K \in Seq(Entries) /\ Len(K) = n /\ n \in Nat
      /\ n + 1 <= MaxCacheSize /\ d \in {0, 1}
      /\ \A i \in 1..n : K[i] = L[i + d] /\ i + d \in 1..Len(L)
  BY ChatAssumption DEF ListInv
<1>2. e \in Entries /\ cache' = Append(K, e)
  BY DEF Entries, Send, With
<1>d. d = 1 => Len(L) = MaxCacheSize
  BY ChatAssumption DEF ListInv
<1> HIDE DEF K, d, e
<1>3. /\ cache' \in Seq(Entries) /\ Len(cache') = n + 1
      /\ \A i \in 1..n : cache'[i] = L[i + d]
      /\ cache'[n + 1] = e
  BY <1>1, <1>2
<1> HIDE DEF n
<1>4. /\ session' = [session EXCEPT ![t] = "sent"]
      /\ address' = [address EXCEPT ![t] = a]
      /\ \A s \in Sessions : others'[s] = IF s = t THEN {} ELSE others[s] \cup {t}
  BY DEF Send
<1>5. \A i \in 1..Len(L) : L[i].session \in Sessions /\ L[i].session # t
  <2> SUFFICES ASSUME NEW i \in 1..Len(L)
               PROVE  L[i].session \in Sessions /\ L[i].session # t
    OBVIOUS
  <2>1. L \in Seq(Entries)
    BY DEF ListInv
  <2>2. L[i] \in Entries
    BY <2>1
  <2> QED  BY <2>2 DEF In, Entries
<1>e. \A s \in Sessions \ {t} :
        /\ session'[s] = session[s] /\ home'[s] = home[s]
        /\ others'[s] = others[s] \cup {t}
  BY <1>4 DEF ChatTypeInv
<1>6. ASSUME NEW i \in 1..n
      PROVE  /\ cache'[i].session \in Sessions \ {t}
             /\ session'[cache'[i].session] # "new"
             /\ cache'[i].address = home'[cache'[i].session]
             /\ t \in others'[cache'[i].session]
             /\ \A j \in 1..n : i < j =>
                  /\ cache'[i].session # cache'[j].session
                  /\ cache'[j].session \in others'[cache'[i].session]
  <2>1. cache'[i].session \in Sessions \ {t}
    BY <1>1, <1>3, <1>5
  <2>2. /\ session'[cache'[i].session] # "new"
        /\ cache'[i].address = home'[cache'[i].session]
    <3>1. i + d \in 1..Len(L) /\ cache'[i] = L[i + d]
      BY <1>1, <1>3
    <3>2. session[L[i + d].session] # "new" /\ L[i + d].address = home[L[i + d].session]
      BY <3>1 DEF ListInv
    <3> QED  BY <1>e, <2>1, <3>1, <3>2
  <2>3. \A j \in 1..n : i < j =>
          /\ cache'[i].session # cache'[j].session
          /\ cache'[j].session \in others'[cache'[i].session]
    <3> SUFFICES ASSUME NEW j \in 1..n, i < j
                 PROVE  /\ cache'[i].session # cache'[j].session
                        /\ cache'[j].session \in others'[cache'[i].session]
      OBVIOUS
    <3>1. i + d < j + d
      BY <1>1
    <3>2. /\ i + d \in 1..Len(L) /\ cache'[i] = L[i + d]
          /\ j + d \in 1..Len(L) /\ cache'[j] = L[j + d]
      BY <1>1, <1>3
    <3>3. /\ L[i + d].session # L[j + d].session
          /\ L[j + d].session \in others[L[i + d].session]
      BY <3>1, <3>2 DEF ListInv
    <3> QED  BY <1>e, <2>1, <3>2, <3>3
  <2> QED  BY <1>4, <2>1, <2>2, <2>3
<1>7. /\ cache'[n + 1].session = t
      /\ session'[t] = "sent"
      /\ cache'[n + 1].address = home'[t]
  BY <1>3, <1>4 DEF e, ChatTypeInv
<1>8. ListInv(cache)'
  <2>1. Len(cache') <= MaxCacheSize
    BY <1>1, <1>3
  <2>2. \A i \in 1..(n + 1) : i \in 1..n \/ i = n + 1
    BY <1>1
  <2>3. \A i \in 1..Len(cache') :
          /\ session'[cache'[i].session] # "new"
          /\ cache'[i].address = home'[cache'[i].session]
    BY <1>3, <1>6, <1>7, <2>2
  <2>4. \A i, j \in 1..Len(cache') : i < j =>
          /\ cache'[i].session # cache'[j].session
          /\ cache'[j].session \in others'[cache'[i].session]
    <3> SUFFICES ASSUME NEW i \in 1..(n + 1), NEW j \in 1..(n + 1), i < j
                 PROVE  /\ cache'[i].session # cache'[j].session
                        /\ cache'[j].session \in others'[cache'[i].session]
      BY <1>3
    <3>1. i \in 1..n
      BY <1>1
    <3> QED  BY <1>6, <1>7, <2>2, <3>1
  <2> QED  BY <1>3, <2>1, <2>3, <2>4 DEF ListInv
<1>9. SessionInv'
  <2> SUFFICES ASSUME NEW s \in Sessions
               PROVE  /\ address'[s] = home'[s]
                      /\ session'[s] = "new" => home'[s] = NoServer
                      /\ IsFiniteSet(others'[s])
                      /\ session'[s] # "new" /\ ~In(cache, s)' => Missed(s)'
                      /\ session'[s] = "lost" => Missed(s)'
    BY DEF SessionInv
  <2>1. CASE s = t
    <3>1. address'[s] = home'[s] /\ session'[s] = "sent"
      BY <1>4, <2>1 DEF ChatTypeInv
    <3>2. IsFiniteSet(others'[s])
      BY <1>4, <2>1, FS_EmptySet
    <3>3. n + 1 \in 1..Len(cache')
      BY <1>1, <1>3
    <3>4. In(cache, s)'
      BY <1>7, <2>1, <3>3 DEF In
    <3> QED  BY <3>1, <3>2, <3>4
  <2>2. CASE s # t
    <3>1. /\ address'[s] = address[s] /\ home'[s] = home[s]
          /\ session'[s] = session[s]
          /\ others'[s] = others[s] \cup {t}
      BY <1>4, <2>2 DEF ChatTypeInv
    <3>2. IsFiniteSet(others[s])
      BY DEF SessionInv
    <3>f. /\ IsFiniteSet(others'[s])
          /\ Cardinality(others'[s])
               = IF t \in others[s] THEN Cardinality(others[s])
                 ELSE Cardinality(others[s]) + 1
      BY <3>1, <3>2, FS_AddElement
    <3>3. /\ IsFiniteSet(others'[s])
          /\ Cardinality(others[s]) <= Cardinality(others'[s])
          /\ Cardinality(others[s]) \in Nat /\ Cardinality(others'[s]) \in Nat
      <4>1. Cardinality(others[s]) \in Nat
        BY <3>2, FS_CardinalityType
      <4> QED  BY <3>f, <4>1
    <3>4. Missed(s) => Missed(s)'
      BY <3>3, ChatAssumption DEF Missed
    <3>5. ASSUME session[s] # "new", ~In(cache, s)'
          PROVE  Missed(s)'
      <4>1. CASE ~In(L, s)
        BY <2>2, <3>4, <3>5, <4>1 DEF SessionInv
      <4>2. CASE In(L, s)
        <5>1. PICK i \in 1..Len(L) : L[i].session = s
          BY <4>2 DEF In
        <5>2. d = 1 /\ i = 1
          <6>1. ASSUME i - d \in 1..n PROVE FALSE
            <7>1. cache'[i - d].session = s
              BY <1>1, <1>3, <5>1, <6>1
            <7>2. i - d \in 1..Len(cache')
              BY <1>1, <1>3, <6>1
            <7> QED  BY <3>5, <7>1, <7>2 DEF In
          <6>2. n = Len(L) - d /\ Len(L) \in Nat
            BY DEF n, ListInv
          <6> QED  BY <1>1, <6>1, <6>2
        <5>3. n + 1 = MaxCacheSize /\ Len(L) = n + 1 /\ n + 1 \in Nat
          <6>1. n = Len(L) - d /\ Len(L) \in Nat
            BY DEF n, ListInv
          <6> QED  BY <1>d, <5>2, <6>1
        <5> DEFINE q == [j \in 1..(n + 1) |-> cache'[j].session]
        <5>4. ASSUME NEW j \in 1..(n + 1)
              PROVE  cache'[j].session \in others'[s]
          <6>1. CASE j = n + 1
            BY <1>7, <3>1, <6>1
          <6>2. CASE j \in 1..n
            <7>1. j + 1 \in 1..Len(L) /\ 1 \in 1..Len(L) /\ 1 < j + 1
              BY <1>1, <5>2, <6>2
            <7>2. L[j + 1].session \in others[L[1].session]
              BY <7>1 DEF ListInv
            <7> QED  BY <1>3, <3>1, <5>1, <5>2, <6>2, <7>2
          <6> QED  BY <1>1, <6>1, <6>2
        <5>5. q \in [1..(n + 1) -> others'[s]]
          BY <5>4
        <5>6. \A j, k \in 1..(n + 1) : j < k => q[j] # q[k]
          BY <1>3, <1>8 DEF ListInv
        <5> HIDE DEF q
        <5> QED  BY <3>3, <5>3, <5>5, <5>6, ManySessions DEF Missed
      <4> QED  BY <4>1, <4>2
    <3> QED  BY <3>1, <3>3, <3>4, <3>5 DEF SessionInv
  <2> QED  BY <2>1, <2>2
<1> QED  BY <1>8, <1>9

-----------------------------------------------------------------------------
(* The heap.                                                               *)

\* A downward closed part of 2..n is 2..(p + 1), where p is its size.
LEMMA DownwardClosed ==
  ASSUME NEW n \in Nat \ {0}, NEW S \in SUBSET (2..n),
         \A i \in 2..n : \A j \in S : i < j => i \in S
  PROVE  \E p \in 0..(n - 1) : S = 2..(p + 1) /\ Cardinality(S) = p
<1> DEFINE Out == {i \in 2..(n + 1) : i \notin S}
<1>1. Out \in SUBSET Nat /\ n + 1 \in Out
  OBVIOUS
<1>2. PICK k \in Out : \A i \in Out : ~(<<i, k>> \in OpToRel(<, Nat))
  <2> HIDE DEF Out
  <2> QED  BY <1>1, WFMin, NatLessThanWellFounded
<1>3. \A i \in Out : ~(i < k)
  <2>1. Out \subseteq Nat
    OBVIOUS
  <2> HIDE DEF Out
  <2> QED  BY <1>2, <2>1 DEF OpToRel
<1>4. k \in 2..(n + 1) /\ k \notin S
  OBVIOUS
<1>5. \A i \in 2..n : i \in S <=> i < k
  <2> SUFFICES ASSUME NEW i \in 2..n PROVE i \in S <=> i < k
    OBVIOUS
  <2>1. CASE i < k
    BY <2>1, <1>3
  <2>2. CASE ~(i < k)
    <3>1. i # k => k < i
      BY <2>2, <1>4
    <3> QED  BY <2>2, <3>1, <1>4
  <2> QED  BY <2>1, <2>2
<1> HIDE DEF Out
<1>6. S = 2..(k - 1)
  <2>1. \A x \in 2..(k - 1) : x \in 2..n /\ x < k
    BY <1>4
  <2>2. \A x \in 2..n : x < k => x \in 2..(k - 1)
    BY <1>4
  <2> QED  BY <1>5, <2>1, <2>2
<1>7. Cardinality(2..(k - 1)) = k - 2
  BY <1>4, FS_Interval
<1> QED
  <2>1. k - 2 \in 0..(n - 1) /\ (k - 2) + 1 = k - 1
    BY <1>4
  <2> QED  BY <1>6, <1>7, <2>1

\* Before orders the entries.
LEMMA BeforeOrders ==
  /\ \A a, b, c \in Addresses : Before(a, b) /\ Before(b, c) => Before(a, c)
  /\ \A a, b \in Addresses :
       a.address # b.address => Before(a, b) \/ Before(b, a)
  BY DEF Before, Addresses, Servers

\* heapreplace: the raised entry is moved behind the p entries before it.
LEMMA ReplacedIs ==
  ASSUME NEW heap \in [Servers -> Addresses], Sorted(heap), NEW e,
         e = [weight |-> heap[1].weight + 1, address |-> heap[1].address]
  PROVE  /\ e \in Addresses
         /\ \E p \in 0..(NumServers - 1) :
              /\ Replaced(heap) \in [Servers -> Addresses]
              /\ \A i \in Servers :
                   /\ i <= p => /\ i + 1 \in Servers
                                /\ Replaced(heap)[i] = heap[i + 1]
                                /\ Before(heap[i + 1], e)
                   /\ i = p + 1 => Replaced(heap)[i] = e
                   /\ i > p + 1 => /\ Replaced(heap)[i] = heap[i]
                                   /\ ~Before(heap[i], e)
<1> USE ChatAssumption
<1> DEFINE n == NumServers
           ahead == {i \in 2..Len(heap) : Before(heap[i], e)}
<1>0. 1 \in Servers
  BY DEF Servers
<1>1. heap \in Seq(Addresses) /\ Len(heap) = n
  BY DEF Servers
<1>2. e \in Addresses
  BY <1>0 DEF Addresses
<1>3. \A i \in 2..n : \A j \in ahead : i < j => i \in ahead
  <2> SUFFICES ASSUME NEW i \in 2..n, NEW j \in ahead, i < j
               PROVE  Before(heap[i], e)
    BY <1>1
  <2>1. i \in Servers /\ j \in Servers
    BY <1>1 DEF Servers
  <2>2. Before(heap[i], heap[j]) /\ Before(heap[j], e)
    BY <2>1 DEF Sorted
  <2>3. heap[i] \in Addresses /\ heap[j] \in Addresses
    BY <2>1
  <2> QED  BY <1>2, <2>2, <2>3, BeforeOrders
<1>4. PICK p \in 0..(n - 1) : ahead = 2..(p + 1) /\ Cardinality(ahead) = p
  <2>1. n \in Nat \ {0} /\ ahead \in SUBSET (2..n)
    BY <1>1
  <2> HIDE DEF ahead, n
  <2> QED  BY <1>3, <2>1, DownwardClosed
<1> DEFINE tail  == Tail(heap)
           front == SubSeq(tail, 1, p)
           back  == SubSeq(tail, p + 1, Len(tail))
<1>5. Replaced(heap) = (front \o <<e>>) \o back
  <2>1. Replaced(heap) = InsertAt(tail, Cardinality(ahead) + 1, e)
    BY DEF Replaced
  <2>2. (p + 1) - 1 = p
    OBVIOUS
  <2> HIDE DEF tail, ahead
  <2>3. InsertAt(tail, p + 1, e) = (front \o <<e>>) \o back
    BY <2>2 DEF InsertAt
  <2> QED  BY <1>4, <2>1, <2>3
<1>6. /\ tail \in Seq(Addresses) /\ Len(tail) = n - 1
      /\ \A i \in 1..(n - 1) : tail[i] = heap[i + 1]
  BY <1>1
<1> HIDE DEF tail
<1>7. /\ front \in Seq(Addresses) /\ Len(front) = p
      /\ \A i \in 1..p : front[i] = tail[i]
  BY <1>6
<1>8. /\ back \in Seq(Addresses) /\ Len(back) = n - 1 - p
      /\ \A i \in 1..(n - 1 - p) : back[i] = tail[p + i]
  <2>1. p + 1 \in 1..n /\ Len(tail) = n - 1
    BY <1>6
  <2>2. back \in Seq(Addresses) /\ Len(back) = n - 1 - p
    BY <1>6, <2>1
  <2>3. \A i \in 1..(n - 1 - p) : back[i] = tail[p + i]
    BY <1>6, <2>1, <2>2
  <2> QED  BY <2>2, <2>3
<1> HIDE DEF front, back
<1>9. /\ <<e>> \in Seq(Addresses) /\ Len(<<e>>) = 1 /\ <<e>>[1] = e
  BY <1>2
<1> DEFINE left == front \o <<e>>
<1>10. /\ left \in Seq(Addresses) /\ Len(left) = p + 1
       /\ \A i \in 1..p : left[i] = heap[i + 1]
       /\ left[p + 1] = e
  <2>1. /\ left \in Seq(Addresses) /\ Len(left) = p + 1
        /\ \A i \in 1..p : left[i] = front[i]
        /\ left[p + 1] = e
    BY <1>7, <1>9, Joined
  <2>2. \A i \in 1..p : i \in 1..(n - 1)
    OBVIOUS
  <2> HIDE DEF left
  <2> QED  BY <2>1, <2>2, <1>6, <1>7
<1> HIDE DEF left
<1>11. /\ Replaced(heap) \in Seq(Addresses) /\ Len(Replaced(heap)) = n
       /\ \A i \in 1..(p + 1) : Replaced(heap)[i] = left[i]
       /\ \A i \in 1..(n - 1 - p) : Replaced(heap)[p + 1 + i] = back[i]
  <2>1. Replaced(heap) = left \o back
    BY <1>5 DEF left
  <2>2. n - 1 - p \in Nat /\ (p + 1) + (n - 1 - p) = n
    OBVIOUS
  <2>3. /\ left \o back \in Seq(Addresses)
        /\ Len(left \o back) = (p + 1) + (n - 1 - p)
        /\ \A i \in 1..(p + 1) : (left \o back)[i] = left[i]
        /\ \A i \in 1..(n - 1 - p) : (left \o back)[(p + 1) + i] = back[i]
    <3>1. p + 1 \in Nat /\ n - 1 - p \in Nat
      OBVIOUS
    <3> HIDE DEF n
    <3> DEFINE m == n - 1 - p
               k == p + 1
    <3>2. /\ k \in Nat /\ m \in Nat /\ Len(left) = k /\ Len(back) = m
          /\ left \in Seq(Addresses) /\ back \in Seq(Addresses)
      BY <1>8, <1>10, <3>1
    <3> HIDE DEF m, k
    <3>3. /\ left \o back \in Seq(Addresses)
          /\ Len(left \o back) = k + m
          /\ \A i \in 1..k : (left \o back)[i] = left[i]
          /\ \A i \in 1..m : (left \o back)[k + i] = back[i]
      <4>1. /\ left \o back \in Seq(Addresses)
            /\ Len(left \o back) = Len(left) + Len(back)
            /\ \A i \in 1..Len(left) : (left \o back)[i] = left[i]
            /\ \A i \in 1..Len(back) : (left \o back)[Len(left) + i] = back[i]
        <5>1. left \in Seq(Addresses) /\ back \in Seq(Addresses)
          BY <3>2
        <5> QED  BY <5>1, Joined
      <4> QED  BY <3>2, <4>1
    <3> QED  BY <3>3 DEF m, k
  <2> QED  BY <2>1, <2>2, <2>3
<1>12. ASSUME NEW i \in Servers
       PROVE  /\ i <= p => /\ i + 1 \in Servers
                           /\ Replaced(heap)[i] = heap[i + 1]
                           /\ Before(heap[i + 1], e)
              /\ i = p + 1 => Replaced(heap)[i] = e
              /\ i > p + 1 => /\ Replaced(heap)[i] = heap[i]
                              /\ ~Before(heap[i], e)
  <2>1. CASE i <= p
    <3>1. i \in 1..p /\ i \in 1..(p + 1) /\ i + 1 \in 2..(p + 1) /\ i + 1 \in Servers
      BY <2>1 DEF Servers
    <3>2. i + 1 \in ahead
      BY <3>1, <1>4
    <3> QED  BY <2>1, <3>1, <3>2, <1>10, <1>11
  <2>2. CASE i = p + 1
    BY <2>2, <1>10, <1>11
  <2>3. CASE i > p + 1
    <3> DEFINE j == i - (p + 1)
    <3>1. j \in 1..(n - 1 - p) /\ p + 1 + j = i /\ p + j \in 1..(n - 1)
          /\ (p + j) + 1 = i
      BY <2>3 DEF Servers
    <3> HIDE DEF j
    <3>2. Replaced(heap)[i] = heap[i]
      <4>1. Replaced(heap)[(p + 1) + j] = back[j]
        BY <3>1, <1>11
      <4>2. back[j] = tail[p + j]
        BY <3>1, <1>8
      <4>3. tail[p + j] = heap[(p + j) + 1]
        BY <3>1, <1>6
      <4> QED  BY <3>1, <4>1, <4>2, <4>3
    <3>3. i \in 2..Len(heap) /\ i \notin 2..(p + 1)
      BY <2>3, <1>1 DEF Servers
    <3>4. i \notin ahead
      BY <3>3, <1>4
    <3> QED  BY <2>3, <3>2, <3>3, <3>4
  <2> QED  BY <2>1, <2>2, <2>3 DEF Servers
<1>13. Replaced(heap) \in [Servers -> Addresses]
  BY <1>11 DEF Servers
<1> QED  BY <1>2, <1>4, <1>12, <1>13

\* A first request goes to a server with the fewest sessions, and is counted.
LEMMA OpenSpreads ==
  ASSUME ChatTypeInv, SessionInv, HeapInv, NEW t \in Sessions, Open(t)
  PROVE  /\ weighted' \in [Servers -> Addresses]
         /\ weighted[1].address \in Servers
         /\ HeapInv'
<1> USE ChatAssumption
<1> DEFINE n == NumServers
           a == weighted[1].address
           e == [weight |-> weighted[1].weight + 1, address |-> a]
<1>0. /\ 1 \in Servers /\ weighted \in [Servers -> Addresses] /\ Sorted(weighted)
      /\ \A i \in Servers : i \in 1..n /\ i \in Nat
      /\ \A i \in 1..n : i \in Servers
  BY DEF Servers, ChatTypeInv, HeapInv
<1>1. a \in Servers /\ weighted[1].weight \in Nat /\ e \in Addresses
  BY <1>0 DEF Addresses
<1>2. PICK p \in 0..(n - 1) :
        /\ weighted' \in [Servers -> Addresses]
        /\ \A i \in Servers :
             /\ i <= p => /\ i + 1 \in Servers
                          /\ weighted'[i] = weighted[i + 1]
                          /\ Before(weighted[i + 1], e)
             /\ i = p + 1 => weighted'[i] = e
             /\ i > p + 1 => /\ weighted'[i] = weighted[i]
                             /\ ~Before(weighted[i], e)
  <2>1. weighted' = Replaced(weighted)
    BY DEF Open
  <2> HIDE DEF e
  <2>2. e = [weight |-> weighted[1].weight + 1, address |-> weighted[1].address]
    BY DEF e
  <2> QED  BY <1>0, <2>1, <2>2, ReplacedIs
<1> DEFINE From(i) == IF i <= p THEN i + 1 ELSE IF i = p + 1 THEN 1 ELSE i
           More(i) == IF i = p + 1 THEN 1 ELSE 0
<1>3. \A i \in Servers :
        /\ From(i) \in Servers
        /\ weighted'[i].address = weighted[From(i)].address
        /\ weighted'[i].weight = weighted[From(i)].weight + More(i)
  <2> SUFFICES ASSUME NEW i \in Servers
               PROVE  /\ From(i) \in Servers
                      /\ weighted'[i].address = weighted[From(i)].address
                      /\ weighted'[i].weight = weighted[From(i)].weight + More(i)
    OBVIOUS
  <2>1. i \in Nat /\ p \in Nat
    BY <1>0
  <2>2. i <= p \/ i = p + 1 \/ i > p + 1
    BY <2>1
  <2>3. weighted[i] \in Addresses
    BY <1>0
  <2>4. CASE i <= p
    <3>1. weighted[i + 1] \in Addresses /\ i # p + 1
      BY <1>0, <1>2, <2>1, <2>4
    <3> QED  BY <1>2, <2>4, <3>1 DEF Addresses
  <2>5. CASE i = p + 1
    <3>1. weighted'[i] = e /\ ~(i <= p)
      BY <1>2, <2>1, <2>5
    <3> QED  BY <1>0, <1>1, <2>5, <3>1
  <2>6. CASE i > p + 1
    <3>1. ~(i <= p) /\ i # p + 1
      BY <2>1, <2>6
    <3> QED  BY <1>2, <2>3, <2>6, <3>1 DEF Addresses
  <2> QED  BY <2>2, <2>4, <2>5, <2>6
<1>4. /\ \A i, j \in Servers : From(i) = From(j) => i = j
      /\ \A k \in Servers : \E i \in Servers : From(i) = k
  <2>1. \A i, j \in 1..n : From(i) = From(j) => i = j
    OBVIOUS
  <2>2. ASSUME NEW k \in 1..n
        PROVE  \E i \in 1..n : From(i) = k
    <3> DEFINE i == IF k = 1 THEN p + 1 ELSE IF k <= p + 1 THEN k - 1 ELSE k
    <3>1. i \in 1..n /\ From(i) = k
      OBVIOUS
    <3> QED  BY <3>1
  <2> QED  BY <2>1, <2>2 DEF Servers
<1>5. Permuted(weighted)'
  <2> HIDE DEF From
  <2>1. \A i, j \in Servers : weighted'[i].address = weighted'[j].address => i = j
    BY <1>3, <1>4 DEF HeapInv, Permuted
  <2>2. \A b \in Servers : \E i \in Servers : weighted'[i].address = b
    <3> SUFFICES ASSUME NEW b \in Servers
                 PROVE  \E i \in Servers : weighted'[i].address = b
      OBVIOUS
    <3>1. PICK k \in Servers : weighted[k].address = b
      BY DEF HeapInv, Permuted
    <3>2. PICK i \in Servers : From(i) = k
      BY <1>4
    <3> QED  BY <1>3, <3>1, <3>2
  <2> QED  BY <2>1, <2>2 DEF Permuted
<1>6. Sorted(weighted)'
  <2> SUFFICES ASSUME NEW i \in Servers, NEW j \in Servers, i < j
               PROVE  Before(weighted'[i], weighted'[j])
    BY DEF Sorted
  <2>1. \A k, l \in Servers : k < l => Before(weighted[k], weighted[l])
    BY <1>0 DEF Sorted
  <2>2. i \in Nat /\ j \in Nat /\ p \in Nat
    BY <1>0
  <2>3. CASE j <= p
    <3>1. i <= p /\ i + 1 < j + 1
      BY <2>2, <2>3
    <3> QED  BY <1>2, <2>1, <2>3, <3>1
  <2>4. CASE i <= p /\ j = p + 1
    BY <1>2, <2>4
  <2>5. CASE i <= p /\ j > p + 1
    <3>1. i + 1 < j
      BY <2>2, <2>5
    <3> QED  BY <1>2, <2>1, <2>5, <3>1
  <2>6. CASE i = p + 1 /\ j > p + 1
    <3>1. weighted'[i] = e /\ weighted'[j] = weighted[j] /\ ~Before(weighted[j], e)
      BY <1>2, <2>6
    <3>2. j # 1 /\ weighted[j] \in Addresses
      BY <1>0, <2>2, <2>6
    <3>3. weighted[j].address # weighted[1].address
      BY <1>0, <3>2 DEF HeapInv, Permuted
    <3>4. e.address = weighted[1].address
      OBVIOUS
    <3> HIDE DEF e
    <3> QED  BY <1>1, <3>1, <3>2, <3>3, <3>4, BeforeOrders
  <2>7. CASE i > p + 1
    <3>1. j > p + 1
      BY <2>2, <2>7
    <3> QED  BY <1>2, <2>1, <2>7, <3>1
  <2>8. \/ j <= p
        \/ i <= p /\ j = p + 1
        \/ i <= p /\ j > p + 1
        \/ i = p + 1 /\ j > p + 1
        \/ i > p + 1
    BY <2>2
  <2> QED  BY <2>3, <2>4, <2>5, <2>6, <2>7, <2>8
<1>7. \A i \in Servers : weighted'[i].weight <= weighted'[1].weight + 1
  <2>1. \A i \in Servers : weighted[i].weight \in Nat
    BY <1>0 DEF Addresses
  <2>2. \A i \in Servers : weighted[1].weight <= weighted[i].weight
    <3> SUFFICES ASSUME NEW i \in Servers
                 PROVE  weighted[1].weight <= weighted[i].weight
      OBVIOUS
    <3>1. i = 1 \/ 1 < i
      BY <1>0
    <3> QED  BY <1>0, <2>1, <3>1 DEF Sorted, Before
  <2>3. \A i \in Servers : weighted'[i].weight <= weighted[1].weight + 1
    <3> SUFFICES ASSUME NEW i \in Servers
                 PROVE  weighted'[i].weight <= weighted[1].weight + 1
      OBVIOUS
    <3>1. CASE i = p + 1
      BY <1>2, <2>1, <1>1, <3>1
    <3>2. CASE i # p + 1
      <4>1. More(i) = 0 /\ weighted[From(i)].weight <= weighted[1].weight + 1
        BY <1>3, <3>2 DEF HeapInv
      <4> QED  BY <1>3, <2>1, <4>1
    <3> QED  BY <3>1, <3>2
  <2>4. weighted[1].weight <= weighted'[1].weight
    <3>1. More(1) \in {0, 1} /\ From(1) \in Servers
      BY <1>0, <1>3
    <3> HIDE DEF More, From
    <3> QED  BY <1>0, <1>3, <2>1, <2>2, <3>1
  <2>5. \A i \in Servers : weighted'[i].weight \in Nat
    BY <1>2 DEF Addresses
  <2> QED  BY <1>0, <2>1, <2>3, <2>4, <2>5
<1>8. \A b \in Servers : HomedAt(b)' = IF b = a THEN HomedAt(b) \cup {t} ELSE HomedAt(b)
  <2>1. home' = [home EXCEPT ![t] = a] /\ home \in [Sessions -> Servers \cup {NoServer}]
    BY DEF Open, ChatTypeInv
  <2>2. home[t] = NoServer /\ \A b \in Servers : b # NoServer
    BY DEF Open, SessionInv, Servers, NoServer
  <2> QED  BY <2>1, <2>2 DEF HomedAt
<1>9. \A b \in Servers : IsFiniteSet(HomedAt(b)) /\ Cardinality(HomedAt(b)) \in Nat
  BY FS_CardinalityType DEF HeapInv
<1>10. \A b \in Servers :
         /\ IsFiniteSet(HomedAt(b)')
         /\ Cardinality(HomedAt(b)')
              = IF b = a THEN Cardinality(HomedAt(b)) + 1 ELSE Cardinality(HomedAt(b))
  <2> SUFFICES ASSUME NEW b \in Servers
               PROVE  /\ IsFiniteSet(HomedAt(b)')
                      /\ Cardinality(HomedAt(b)')
                           = IF b = a THEN Cardinality(HomedAt(b)) + 1
                             ELSE Cardinality(HomedAt(b))
    OBVIOUS
  <2>1. t \notin HomedAt(b)
    BY DEF Open, SessionInv, Servers, NoServer, HomedAt
  <2>2. IsFiniteSet(HomedAt(b))
    BY <1>9
  <2> DEFINE H == HomedAt(b)
  <2>3. /\ IsFiniteSet(H \cup {t})
        /\ Cardinality(H \cup {t}) = Cardinality(H) + 1
    <3> HIDE DEF H
    <3>1. IsFiniteSet(H) /\ t \notin H
      BY <2>1, <2>2 DEF H
    <3> QED  BY <3>1, FS_AddElement
  <2> HIDE DEF a
  <2> QED  BY <1>8, <2>2, <2>3
<1>11. \A i \in Servers :
         weighted'[i].weight
           = Cardinality({s \in Sessions : home'[s] = weighted'[i].address})
  <2> SUFFICES ASSUME NEW i \in Servers
               PROVE  weighted'[i].weight
                        = Cardinality({s \in Sessions : home'[s] = weighted'[i].address})
    OBVIOUS
  <2>1. /\ From(i) \in Servers
        /\ weighted'[i].address = weighted[From(i)].address
        /\ weighted'[i].weight = weighted[From(i)].weight + More(i)
    BY <1>3
  <2>2. PICK b \in Servers : b = weighted[From(i)].address
    BY <1>0, <2>1 DEF Addresses
  <2>3. weighted[From(i)].weight = Cardinality(HomedAt(b))
    BY <2>1, <2>2 DEF HeapInv
  <2>4. b = a <=> i = p + 1
    <3>1. From(i) = 1 <=> i = p + 1
      BY <1>0
    <3> HIDE DEF From
    <3> QED  BY <1>0, <2>1, <2>2, <3>1 DEF HeapInv, Permuted
  <2>5. Cardinality(HomedAt(b)')
          = IF b = a THEN Cardinality(HomedAt(b)) + 1 ELSE Cardinality(HomedAt(b))
    BY <1>10, <2>2
  <2>6. HomedAt(b)' = {s \in Sessions : home'[s] = weighted'[i].address}
    BY <2>1, <2>2 DEF HomedAt
  <2>7. Cardinality(HomedAt(b)) \in Nat
    BY <1>9, <2>2
  <2> HIDE DEF From, a
  <2> QED  BY <2>1, <2>3, <2>4, <2>5, <2>6, <2>7
<1> QED  BY <1>1, <1>2, <1>5, <1>6, <1>7, <1>10, <1>11 DEF HeapInv, HomedAt

-----------------------------------------------------------------------------
(* The steps of the scheduler.                                             *)

LEMMA ChatInvInitially == ChatInit => ChatInv
<1> SUFFICES ASSUME ChatInit PROVE ChatInv
  OBVIOUS
<1> USE ChatAssumption DEF ChatInit
<1>0. 1 \in Servers /\ \A i \in Servers : i \in Nat
  BY DEF Servers
<1>1. ChatTypeInv
  BY DEF ChatTypeInv, Addresses, ChatStates, Entries
<1>2. ListInv(cache)
  BY DEF ListInv
<1>3. SessionInv
  BY FS_EmptySet DEF SessionInv
<1>4. HeapInv
  <2>1. Sorted(weighted) /\ Permuted(weighted)
    <3>1. \A i \in Servers : weighted[i].weight = 0 /\ weighted[i].address = i
      OBVIOUS
    <3> HIDE DEF ChatInit
    <3> QED  BY <1>0, <3>1 DEF Sorted, Permuted, Before
  <2>2. \A a \in Servers : HomedAt(a) = {}
    BY DEF HomedAt, Servers, NoServer
  <2>3. \A i \in Servers : weighted[i].weight = 0 /\ weighted[i].address = i
    OBVIOUS
  <2>4. \A i \in Servers : weighted[i].weight <= weighted[1].weight + 1
    <3> HIDE DEF ChatInit
    <3>1. weighted[1].weight = 0
      BY <1>0, <2>3
    <3> QED  BY <2>3, <3>1
  <2>5. \A i \in Servers :
          weighted[i].weight = Cardinality(HomedAt(weighted[i].address))
    BY <2>2, <2>3, FS_EmptySet
  <2>6. \A a \in Servers : IsFiniteSet(HomedAt(a))
    BY <2>2, FS_EmptySet
  <2> QED  BY <2>1, <2>4, <2>5, <2>6 DEF HeapInv
<1> QED  BY <1>1, <1>2, <1>3, <1>4 DEF ChatInv

LEMMA OpenKeeps ==
  ASSUME ChatInv, NEW t \in Sessions, Open(t)
  PROVE  ChatInv'
<1> USE DEF ChatInv
<1>1. /\ weighted' \in [Servers -> Addresses]
      /\ weighted[1].address \in Servers
      /\ HeapInv'
  BY OpenSpreads
<1>2. /\ session[t] = "new"
      /\ Send(t, cache, weighted[1].address)
      /\ home' = [home EXCEPT ![t] = weighted[1].address]
  BY DEF Open
<1>3. ~In(cache, t)
  BY <1>2 DEF ListInv, In
<1>4. PICK a \in Servers : a = weighted[1].address
  BY <1>1
<1>5. PICK L : L = cache
  OBVIOUS
<1>6. ListInv(cache)' /\ SessionInv'
  <2>1. /\ Send(t, L, a) /\ home' = [home EXCEPT ![t] = a]
        /\ ListInv(L) /\ ~In(L, t)
        /\ \A s \in Sessions \ {t} : In(cache, s) => In(L, s)
    BY <1>2, <1>3, <1>4, <1>5
  <2> QED  BY <2>1, SendKeeps
<1>7. ChatTypeInv'
  BY <1>1, <1>2, <1>6 DEF ChatTypeInv, ListInv, Send, ChatStates
<1> QED  BY <1>1, <1>6, <1>7

LEMMA FollowUpKeeps ==
  ASSUME ChatInv, NEW t \in Sessions, FollowUp(t)
  PROVE  ChatInv'
<1> USE DEF ChatInv
<1>1. /\ ListInv(Without(t))
      /\ ~In(Without(t), t)
      /\ \A s \in Sessions \ {t} : In(cache, s) => In(Without(t), s)
      /\ AddressOf(t) = home[t] /\ home[t] \in Servers
      /\ session[t] # "new"
  BY PoppedInv DEF FollowUp
<1>2. /\ Send(t, Without(t), AddressOf(t))
      /\ UNCHANGED <<weighted, home>>
  BY DEF FollowUp
<1>3. PICK a \in Servers : a = home[t]
  BY <1>1
<1>4. PICK L : L = Without(t)
  OBVIOUS
<1>5. ListInv(cache)' /\ SessionInv'
  <2>1. home' = [home EXCEPT ![t] = a]
    BY <1>2, <1>3 DEF ChatTypeInv
  <2>2. /\ Send(t, L, a) /\ ListInv(L) /\ ~In(L, t)
        /\ \A s \in Sessions \ {t} : In(cache, s) => In(L, s)
    BY <1>1, <1>2, <1>3, <1>4
  <2> QED  BY <2>1, <2>2, SendKeeps
<1>6. ChatTypeInv'
  BY <1>1, <1>2, <1>5 DEF ChatTypeInv, ListInv, Send, ChatStates
<1>7. HeapInv'
  BY <1>2 DEF HeapInv, HomedAt
<1> QED  BY <1>5, <1>6, <1>7

\* The session's state changes, and nothing else the invariant is about.
LEMMA StateKeeps ==
  ASSUME ChatInv, NEW t \in Sessions, session[t] # "new",
         NEW state \in ChatStates, session' = [session EXCEPT ![t] = state],
         state # "new", state = "lost" => ~Cached(t),
         UNCHANGED <<weighted, cache, address, home, others>>
  PROVE  ChatInv'
<1> USE DEF ChatInv
<1>0. \A s \in Sessions :
        /\ session[s] = "new" <=> session'[s] = "new"
        /\ session'[s] = "lost" => session[s] = "lost" \/ (s = t /\ ~In(cache, t))
  <2>1. cache \in Seq(Entries)
    BY DEF ListInv
  <2>2. Cached(t) <=> In(cache, t)
    BY <2>1 DEF Cached, In
  <2>3. /\ session'[t] = state
        /\ \A s \in Sessions \ {t} : session'[s] = session[s]
    BY DEF ChatTypeInv
  <2> QED  BY <2>2, <2>3
<1>1. ChatTypeInv'
  BY DEF ChatTypeInv
<1>2. ListInv(cache)'
  <2>1. \A i \in 1..Len(cache) : cache[i].session \in Sessions
    <3> SUFFICES ASSUME NEW i \in 1..Len(cache)
                 PROVE  cache[i].session \in Sessions
      OBVIOUS
    <3>1. cache[i] \in Entries
      BY DEF ListInv
    <3> QED  BY <3>1 DEF Entries
  <2> QED  BY <1>0, <2>1 DEF ListInv
<1>3. SessionInv'
  BY <1>0 DEF SessionInv, Missed, In
<1>4. HeapInv'
  BY DEF HeapInv, HomedAt
<1> QED  BY <1>1, <1>2, <1>3, <1>4

LEMMA ChatInvStep ==
  ASSUME ChatInv, [ChatNext]_chatVars
  PROVE  ChatInv'
<1>1. ASSUME UNCHANGED <<weighted, cache, session, address, home, others>>
      PROVE  ChatInv'
  BY <1>1 DEF ChatInv, ChatTypeInv, ListInv, SessionInv, HeapInv, HomedAt,
              Missed, In
<1>2. ASSUME NEW t \in Sessions, FollowUpRaises(t)
      PROVE  ChatInv'
  <2>1. session[t] # "new" /\ "lost" \in ChatStates
    BY <1>2 DEF FollowUpRaises, ChatStates
  <2> QED  BY <1>2, <2>1, StateKeeps DEF FollowUpRaises
<1>3. ASSUME NEW t \in Sessions, CallBack(t)
      PROVE  ChatInv'
  <2>1. PICK state \in {"answered", "failed", "over"} :
          session' = [session EXCEPT ![t] = state]
    BY <1>3 DEF CallBack
  <2>2. state \in ChatStates /\ state # "new" /\ state # "lost"
    BY DEF ChatStates
  <2> QED  BY <1>3, <2>1, <2>2, StateKeeps DEF CallBack
<1>4. ASSUME NEW i \in Servers, ServerUp(i) \/ ServerRestarts(i)
      PROVE  ChatInv'
  BY <1>1, <1>4 DEF ServerUp, ServerRestarts
<1>5. CASE ChatOver \/ UNCHANGED chatVars
  BY <1>1, <1>5 DEF ChatOver, chatVars
<1> QED
  BY <1>2, <1>3, <1>4, <1>5, OpenKeeps, FollowUpKeeps DEF ChatNext

LEMMA ChatInvHolds == EnginesSpec => []ChatInv
<1>1. ModeInit => ChatInv
  BY ChatInvInitially DEF ModeInit
<1>2. ChatInv /\ [ModeNext]_<<toolVars, chatVars, rolloutMode>> => ChatInv'
  BY ChatInvStep DEF ModeNext
<1> QED  BY <1>1, <1>2, PTL DEF EnginesSpec

\* ChatCompletionScheduler keeps a session on the server of its first request,
\* whatever the sizes, and however its sessions interleave, are answered, fail
\* and retry; one whose follow-up finds its id evicted has been overtaken by
\* max_cache_size others since its latest request.
THEOREM SessionsKeepTheirServer == EnginesSpec => []SessionsStay
<1>1. ChatInv => SessionsStay
  BY DEF ChatInv, SessionInv, SessionsStay, Missed
<1> QED  BY <1>1, ChatInvHolds, PTL

\* heapreplace spreads the sessions evenly over any number of servers.
THEOREM SessionsAreSpread == EnginesSpec => []SessionsSpread
<1>1. ChatInv => SessionsSpread
  <2> SUFFICES ASSUME ChatInv, NEW a \in Servers, NEW b \in Servers
               PROVE  Cardinality(HomedAt(a)) <= Cardinality(HomedAt(b)) + 1
    BY DEF SessionsSpread, HomedAt
  <2> USE ChatAssumption DEF ChatInv
  <2>1. PICK i \in Servers : weighted[i].address = a
    BY DEF HeapInv, Permuted
  <2>2. PICK j \in Servers : weighted[j].address = b
    BY DEF HeapInv, Permuted
  <2>3. /\ weighted[1] \in Addresses /\ weighted[i] \in Addresses
        /\ weighted[j] \in Addresses
        /\ 1 \in Servers /\ (j = 1 \/ 1 < j)
    BY DEF ChatTypeInv, Servers
  <2>4. weighted[1].weight <= weighted[j].weight
    BY <2>3 DEF HeapInv, Sorted, Before, Addresses
  <2>5. weighted[i].weight <= weighted[1].weight + 1
    BY DEF HeapInv
  <2>6. /\ weighted[i].weight = Cardinality(HomedAt(a))
        /\ weighted[j].weight = Cardinality(HomedAt(b))
    BY <2>1, <2>2 DEF HeapInv
  <2> QED  BY <2>3, <2>4, <2>5, <2>6 DEF Addresses
<1> QED  BY <1>1, ChatInvHolds, PTL
=============================================================================
