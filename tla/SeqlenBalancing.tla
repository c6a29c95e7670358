-------------------------- MODULE SeqlenBalancing --------------------------
(***************************************************************************)
(* verl/utils/seqlen_balancing.py: karmarkar_karp deals rows to k parts so *)
(* that the parts get about as many tokens each.  With equal_size every    *)
(* part gets equally many rows (the ranks of a batch), without it only the *)
(* tokens count (the micro-batches of a rank).  Rows are numbered from 1.  *)
(***************************************************************************)
EXTENDS Integers, Sequences, FiniteSets, SequencesExt, FiniteSetsExt

\* sorted(): the members of S in the order Lt.  (TLC computes a list once
\* if it is an operand of \o, and an element at every use otherwise.)
Sorted(S, Lt(_, _)) ==
  << >> \o [i \in 1..Cardinality(S) |->
     CHOOSE x \in S : Cardinality({y \in S : Lt(y, x)}) = i - 1]

\* A Set of the code: the rows it holds and their total length.
EmptySet        == [sum |-> 0, items |-> << >>]
Single(lens, i) == [sum |-> lens[i], items |-> <<i>>]

Union(a, b) == [sum |-> a.sum + b.sum, items |-> a.items \o b.items]

\* Set.__lt__, from the other side; the sets of a state share no item.
Above(a, b) ==
  \/ a.sum > b.sum
  \/ a.sum = b.sum /\ Len(a.items) > Len(b.items)
  \/ /\ a.sum = b.sum /\ Len(a.items) = Len(b.items)
     /\ a.items # << >> /\ a.items[1] > b.items[1]

\* A State of the code: k sets in decreasing order; sorted() is stable.
Decreasing(sets) ==
  LET order == Sorted(DOMAIN sets, LAMBDA i, j :
                 Above(sets[i], sets[j]) \/ (sets[i] = sets[j] /\ i < j))
  IN [i \in DOMAIN sets |-> sets[order[i]]]

Spread(state) == state[1].sum - state[Len(state)].sum

\* The order of the heap: the largest spread first.
PoppedBefore(s, t) ==
  \/ Spread(s) > Spread(t)
  \/ Spread(s) = Spread(t) /\ Above(s[1], t[1])

\* Rows by length, k at a time or one at a time, make the first states.
FirstStates(lens, k, equalSize) ==
  LET byLength == Sorted(DOMAIN lens, LAMBDA i, j :
                    lens[i] < lens[j] \/ (lens[i] = lens[j] /\ i < j))
  IN IF equalSize
     THEN {Decreasing([j \in 1..k |-> Single(lens, byLength[g * k + j])]) :
           g \in 0..(Len(lens) \div k - 1)}
     ELSE {[j \in 1..k |-> IF j = 1 THEN Single(lens, i) ELSE EmptySet] :
           i \in DOMAIN lens}

\* The largest set of one state joins the smallest of the other.
Merge(s, t) ==
  Decreasing([i \in DOMAIN s |-> Union(s[i], t[Len(t) + 1 - i])])

\* One turn of the while loop: the two states popped first are merged.
Popped(heap) == CHOOSE s \in heap : \A t \in heap \ {s} : PoppedBefore(s, t)

MergeTwo(heap) ==
  LET s == Popped(heap)
      t == Popped(heap \ {s})
  IN (heap \ {s, t}) \cup {Merge(s, t)}

\* The while loop: one turn less than there are states leaves one.
LastState(first) ==
  LET turns == Cardinality(first) - 1
      heap[i \in 0..turns] == IF i = 0 THEN first ELSE MergeTwo(heap[i - 1])
  IN CHOOSE s \in heap[turns] : TRUE

\* get_seqlen_balanced_partitions: the sorted rows of each set.
BalancedPartitions(lens, k, equalSize) ==
  LET state == LastState(FirstStates(lens, k, equalSize))
  IN [r \in DOMAIN state |-> Sorted(ToSet(state[r].items), <)]

SumOver(lens, rows) == FoldLeft(LAMBDA acc, i : acc + lens[i], 0, rows)

\* Mutant: the quotient is rounded down.
FloorMicroBatches(lens, maxTokenLen) ==
  Max({1, SumOver(lens, [i \in DOMAIN lens |-> i]) \div maxTokenLen})

\* rearrange_micro_batches: how many micro-batches a rank needs by itself.
NumMicroBatches(lens, maxTokenLen) ==
  LET total == SumOver(lens, [i \in DOMAIN lens |-> i])
  IN Min({Len(lens), (total + maxTokenLen - 1) \div maxTokenLen})

\* get_reverse_idx: ReverseIdx(m)[m[i]] = i.
ReverseIdx(idxMap) ==
  [j \in DOMAIN idxMap |-> CHOOSE i \in DOMAIN idxMap : idxMap[i] = j]
=============================================================================
