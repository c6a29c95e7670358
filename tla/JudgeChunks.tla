---------------------------- MODULE JudgeChunks ----------------------------
(***************************************************************************)
(* MilestoneJudge.judge_trajectory_with_milestones on one trajectory: in   *)
(* one call, or chunk by chunk with the state of the previous chunk        *)
(* carried over (_iter_judge_chunks,                                       *)
(* _judge_trajectory_chunked_with_milestones,                              *)
(* _parse_chunk_response_with_phi_map, _fallback_segment_result).          *)
(*                                                                         *)
(* The result has to have one potential per step whatever the LLM answers: *)
(* too few or too many judgements, milestones it made up, or nothing that  *)
(* can be parsed.                                                          *)
(*                                                                         *)
(* Abstractions: an answer is the list of milestone ids it names and its   *)
(* verdict; the retries of one call are one outcome (MilestonePipeline has *)
(* them); Phi of milestone i is i, M0 is 0.  Prompts and summaries are     *)
(* left out.                                                               *)
(***************************************************************************)
EXTENDS Integers, SequencesExt

CONSTANTS
  MaxSteps,    \* bound: steps of a trajectory
  ChunkSizes,  \* judge_chunk_size, as configured
  Overlaps,    \* judge_chunk_overlap, as configured
  Milestones,  \* ids in the checklist besides M0
  Unknown      \* an id that is not in the checklist

ASSUME BoundAssumption == MaxSteps \in Nat
ASSUME ConfigAssumption == ChunkSizes \subseteq Int /\ Overlaps \subseteq Nat
ASSUME MilestonesAssumption ==
  Milestones \subseteq Nat \ {0} /\ Unknown \in Nat \ (Milestones \cup {0})

VARIABLES
  total,     \* len(trajectory)
  size,      \* chunk_size after _normalize_chunk_config
  overlap,   \* chunk_overlap after _normalize_chunk_config
  chunk,     \* chunks judged so far
  start,     \* judge_start: where the next chunk starts
  previous,  \* state.previous_highest_milestone, with its phi
  allPhis,   \* all_phis
  allMilestones, \* all_milestones
  failures,  \* failure_count
  success    \* final_success

judgeVars == <<total, size, overlap, chunk, start, previous, allPhis,
               allMilestones, failures, success>>

PhiMap(m)  == IF m \in Milestones THEN m ELSE 0
Checklist  == Milestones \cup {0}
Least(a, b) == IF a < b THEN a ELSE b
Most(a, b)  == IF a > b THEN a ELSE b

\* _normalize_chunk_config: the overlap is less than the chunk.
NormalOverlap(s, o) == IF s > 0 THEN Least(o, Most(s - 1, 0)) ELSE o

JudgeInit ==
  /\ total \in 0..MaxSteps
  /\ size \in ChunkSizes
  /\ \E o \in Overlaps : overlap = NormalOverlap(size, o)
  /\ chunk = 0
  /\ start = 0
  /\ previous = 0
  /\ allPhis = << >>
  /\ allMilestones = << >>
  /\ failures = 0
  /\ success = FALSE

\* One call for the whole trajectory, or balanced chunks: as few as the size
\* allows, the longer ones first.
Whole     == size <= 0 \/ total <= size
NumChunks == IF Whole THEN 1 ELSE (total + size - 1) \div size

\* Mutant: the remainder is left out.
ChunkLengthFloor(c) == total \div NumChunks

ChunkLength(c) ==
  total \div NumChunks + (IF c <= total % NumChunks THEN 1 ELSE 0)

\* The steps a chunk is given as context, without judging them again.
ContextStart == Most(0, start - overlap)

Expected == ChunkLength(chunk + 1)

\* _resolve_milestone_id: a made-up id stands for the running milestone.
Resolve(id, fallback) == IF id \in Checklist THEN id ELSE fallback

\* The judgements of a chunk, id by id; the whole trajectory in one call
\* falls back to M0 instead.
Resolved(answer, before) ==
  [i \in DOMAIN answer |->
     IF Whole THEN Resolve(answer[i], 0)
     ELSE LET known == {j \in 1..i : answer[j] \in Checklist}
          IN IF known = {} THEN before
             ELSE answer[CHOOSE j \in known : \A k \in known : k <= j]]

\* Mutant: missing judgements are not filled in.
FittedShort(list, n, before) == SubSeq(list, 1, Least(n, Len(list)))

\* Too few judgements: the last one is repeated; too many: the rest is cut.
Fitted(list, n, before) ==
  [i \in 1..n |->
     IF i <= Len(list) THEN list[i]
     ELSE IF list = << >> THEN before ELSE list[Len(list)]]

\* What the answer means for the steps of the chunk.
Judged(answer) ==
  Fitted(Resolved(answer, previous), Expected, IF Whole THEN 0 ELSE previous)

Answers == UNION {[1..n -> Checklist \cup {Unknown}] : n \in 0..(Expected + 1)}

\* The generator goes on to the next chunk.
NextChunk ==
  /\ chunk' = chunk + 1
  /\ start' = start + Expected

\* A chunk is judged: its last milestone is where the next chunk starts.
JudgeChunk ==
  /\ chunk < NumChunks
  /\ \E answer \in Answers, verdict \in BOOLEAN :
       LET seg == Judged(answer)
       IN /\ allMilestones' = allMilestones \o seg
          /\ allPhis' = allPhis \o [i \in DOMAIN seg |-> PhiMap(seg[i])]
          /\ previous' = IF seg = << >> THEN previous ELSE seg[Len(seg)]
          /\ success' = verdict
  /\ NextChunk
  /\ UNCHANGED <<total, size, overlap, failures>>

\* Mutant: a failed chunk starts over.
FallbackToM0 == 0

\* What a failed call counts for: M0, or what the previous chunk reached.
Fallback == IF Whole THEN 0 ELSE previous

\* Every attempt failed.
FailChunk ==
  /\ chunk < NumChunks
  /\ allMilestones' = allMilestones \o [i \in 1..Expected |-> Fallback]
  /\ allPhis' = allPhis \o [i \in 1..Expected |-> PhiMap(Fallback)]
  /\ failures' = failures + 1
  /\ success' = FALSE
  /\ NextChunk
  /\ UNCHANGED <<total, size, overlap, previous>>

AllJudged == chunk = NumChunks /\ UNCHANGED judgeVars

JudgeNext == JudgeChunk \/ FailChunk \/ AllJudged

-----------------------------------------------------------------------------
\* One potential per step, whatever the LLM has answered: the chunks follow
\* each other without a gap up to the last step, no call judges more steps
\* than configured or is shown as many that were judged before; and the steps
\* of the chunks so far have a potential each, that of the milestone recorded
\* for the step.
OnePhiPerStep ==
  /\ chunk = NumChunks => start = total
  /\ chunk < NumChunks /\ ~Whole =>
       Expected \in 1..size /\ start - ContextStart \in 0..(size - 1)
  /\ Len(allPhis) = start /\ Len(allMilestones) = start
  /\ \A t \in 1..start : allPhis[t] = PhiMap(allMilestones[t])

\* Progress is carried over a failed chunk: its steps keep the potential of
\* the last judged step, and so does what the next chunk starts from.
FailureKeepsProgress ==
  [][failures' > failures /\ ~Whole =>
       /\ \A t \in (Len(allPhis) + 1)..Len(allPhis') :
            allPhis'[t] = IF allPhis = << >> THEN 0 ELSE allPhis[Len(allPhis)]
       /\ previous' = previous]_judgeVars

=============================================================================
