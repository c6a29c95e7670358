---------------------------- MODULE SciWorldEnvs ----------------------------
(***************************************************************************)
(* SciWorldMultiProcessEnv: a worker process per environment behind a      *)
(* pipe, and a few Java virtual machines the processes share.  The parent  *)
(* sends a command to every worker, then receives the answers in the order *)
(* of the workers.  A worker connects to its JVM when it starts, loads its *)
(* task under the lock of the JVM, and queries the loaded task and steps   *)
(* without the lock.  Experts play the gold path of their task and record  *)
(* it without the digits that only answer the environment's questions.     *)
(*                                                                         *)
(* Abstractions: an observation is the number of actions played before it. *)
(* A step and the queries after it are one call.  ScienceWorld is          *)
(* external: a load yields any gold path, or none; any call may raise.     *)
(***************************************************************************)
EXTENDS WorkerGroups, SequencesExt

CONSTANTS
  WorkersPerJvm, \* the 8 of max_workers_per_jvm
  GoldPaths,     \* gold paths a task may have; << >> when there is none
  Digits,        \* DISAMBIGUATION_RESPONSES
  MaxFailures    \* bound: workers that raise in one behaviour

ASSUME JvmAssumption ==
  WorkersPerJvm \in Nat \ {0} /\ MaxFailures \in Nat
ASSUME PathsAssumption == GoldPaths \subseteq Seq(STRING)

Nil == -1  \* no worker

VARIABLES
  parent,    \* what the parent is in: "ready", "over", a command, "failed", ...
  got,       \* how many of the awaited answers it has received
  inbox,     \* inbox[w]: commands in worker w's pipe
  outbox,    \* outbox[w]: answers in it
  pc,        \* pc[w]: "start", "recv", "load", "query", "step", "dead", "closed"
  locked,    \* locked[j]: the worker that holds the lock of JVM j, or Nil
  draws,     \* draws[w]: variations worker w has drawn from its random stream
  acted,     \* acted[w]: the actions it executed since its last reset
  gold,      \* gold[g]: the gold path of the task of group g's expert
  goldTrail, \* goldTrail[g]: expert_trajectory of that expert
  received,  \* received[g]: the trajectory the parent got from it
  solution   \* solution[k]: what policy row k was given

sciVars == <<parent, got, inbox, outbox, pc, locked, draws, acted, gold,
             goldTrail, received, solution>>

-----------------------------------------------------------------------------
(* JVMs: at most max_workers_per_jvm workers each, groups in turn.         *)

CeilDiv(a, b) == (a + b - 1) \div b
AtLeast(a, b) == IF a >= b THEN a ELSE b
AtMost(a, b)  == IF a <= b THEN a ELSE b

GroupsPerJvm ==
  AtLeast(1, AtLeast(WorkersPerGroup, WorkersPerJvm) \div WorkersPerGroup)
NumJvms == AtMost(AtLeast(1, CeilDiv(EnvNum, GroupsPerJvm)), EnvNum)
Jvms    == 0..(NumJvms - 1)
Jvm(w)  == GroupOf(w) % NumJvms

\* Mutant: every worker has a stream of its own.
TaskOfWorker(w) == <<w, draws[w]>>

\* A worker's random stream is its group's; the n-th draw is its n-th task.
\* The first draw, which nothing is loaded for, is that of its start.
Task(w) == <<GroupOf(w), draws[w]>>

SciInit ==
  /\ parent = "over"
  /\ got = 0
  /\ inbox = [w \in Workers |-> << >>]
  /\ outbox = [w \in Workers |-> << >>]
  /\ pc = [w \in Workers |-> "start"]
  /\ locked = [j \in Jvms |-> Nil]
  /\ draws = [w \in Workers |-> 1]
  /\ acted = [w \in Workers |-> << >>]
  /\ gold = [g \in Groups |-> << >>]
  /\ goldTrail = [g \in Groups |-> << >>]
  /\ received = [g \in Groups |-> << >>]
  /\ solution = [k \in Rows |-> << >>]

-----------------------------------------------------------------------------
(* The parent.                                                             *)

Send(cmds) == inbox' = [w \in Workers |-> inbox[w] \o cmds[w]]

workerVars == <<outbox, pc, locked, draws, acted, gold, goldTrail>>

\* A send to a process that has ended raises, and those after it get nothing.
Reached == {w \in Workers : \A v \in 0..w : pc[v] # "dead"}

\* Mutant: the answers of the experts are not waited for.
AwaitedOfRows == PolicyIndices

\* The workers whose answers the parent receives, in this order.
Awaited ==
  IF parent = "get" THEN [i \in 1..EnvNum |-> Expert(i - 1)]
  ELSE [i \in 1..NumProcesses |-> i - 1]

SciReset ==
  /\ parent = "over"
  /\ draws[0] <= MaxEpisodes
  /\ Send([w \in Workers |->
             IF w \in Reached THEN << <<"reset">> >> ELSE << >>])
  /\ parent' = IF Reached = Workers THEN "reset" ELSE "failed"
  /\ solution' = [k \in Rows |-> << >>]
  /\ UNCHANGED <<got, received, workerVars>>

SciStep ==
  /\ parent = "ready"
  /\ Len(acted[0]) < MaxSteps
  /\ LET t    == Len(acted[0]) + 1
         sent == Padded([k \in Rows |-> <<k, t>>], "look around")
     IN Send([w \in Workers |-> << <<"step", sent[w]>> >>])
  /\ parent' = "step"
  /\ UNCHANGED <<got, received, solution, workerVars>>

\* The rollout is over: the manager asks the experts for what they played.
SciCollect ==
  /\ parent = "ready"
  /\ acted[0] # << >>
  /\ Send([w \in Workers |-> IF IsExpert(w) THEN << <<"get">> >> ELSE << >>])
  /\ parent' = "get"
  /\ UNCHANGED <<got, received, solution, workerVars>>

\* remote.recv() of the next awaited worker.
SciReceive ==
  /\ parent \in {"reset", "step", "get"}
  /\ LET w    == Awaited[got + 1]
         last == got + 1 = Len(Awaited)
         trajs == IF parent = "get"
                  THEN [received EXCEPT ![GroupOf(w)] = Head(outbox[w])]
                  ELSE received
     IN /\ outbox[w] # << >>
        /\ outbox' = [outbox EXCEPT ![w] = Tail(@)]
        /\ got' = IF last THEN 0 ELSE got + 1
        /\ received' = IF last THEN [g \in Groups |-> << >>] ELSE trajs
        /\ IF ~last THEN UNCHANGED <<parent, solution>>
           ELSE IF parent = "get"
           THEN /\ parent' = "over"
                /\ solution' = [k \in Rows |-> Truncate(trajs[ExpertGroup(k)])]
           ELSE parent' = "ready" /\ UNCHANGED solution
  /\ UNCHANGED <<inbox, pc, locked, draws, acted, gold, goldTrail>>

\* The worker's process has ended: EOFError, which nobody catches.
SciReceiveFails ==
  /\ parent \in {"reset", "step", "get"}
  /\ LET w == Awaited[got + 1]
     IN outbox[w] = << >> /\ pc[w] = "dead"
  /\ parent' = "failed"
  /\ UNCHANGED <<got, inbox, received, solution, workerVars>>

\* close(): unless the send raises, the parent joins all workers.
SciClose ==
  /\ parent = "failed" \/ (parent = "over" /\ draws[0] > MaxEpisodes)
  /\ Send([w \in Workers |->
             IF w \in Reached THEN << <<"close">> >> ELSE << >>])
  /\ parent' = IF Reached = Workers THEN "join" ELSE "leaked"
  /\ UNCHANGED <<got, received, solution, workerVars>>

SciJoined ==
  /\ parent = "join"
  /\ \A w \in Workers : pc[w] = "closed"
  /\ parent' = "closed"
  /\ UNCHANGED <<got, inbox, received, solution, workerVars>>

-----------------------------------------------------------------------------
(* A worker process.                                                       *)

parentVars == <<parent, got, received, solution>>

Answer(w, a) == outbox' = [outbox EXCEPT ![w] = Append(@, a)]

\* The process has started: its gateway is open, it knows the tasks.  All of
\* that are calls of the JVM, without its lock.
Connect(w) ==
  /\ pc[w] = "start"
  /\ pc' = [pc EXCEPT ![w] = "recv"]
  /\ UNCHANGED <<inbox, outbox, locked, draws, acted, gold, goldTrail,
                 parentVars>>

Command(w, name) ==
  /\ pc[w] = "recv"
  /\ inbox[w] # << >>
  /\ Head(inbox[w])[1] = name
  /\ inbox' = [inbox EXCEPT ![w] = Tail(@)]

\* A reset: a variation is drawn, and the lock of the JVM acquired.
TakeReset(w) ==
  /\ Command(w, "reset")
  /\ draws' = [draws EXCEPT ![w] = @ + 1]
  /\ locked[Jvm(w)] = Nil
  /\ locked' = [locked EXCEPT ![Jvm(w)] = w]
  /\ pc' = [pc EXCEPT ![w] = "load"]
  /\ UNCHANGED <<outbox, acted, gold, goldTrail, parentVars>>

\* A step: env.step is called, without the lock.
TakeStep(w) ==
  /\ Command(w, "step")
  /\ acted' = [acted EXCEPT ![w] = Append(@, Head(inbox[w])[2])]
  /\ pc' = [pc EXCEPT ![w] = "step"]
  /\ UNCHANGED <<outbox, locked, draws, gold, goldTrail, parentVars>>

AnswerTrajectory(w) ==
  /\ Command(w, "get")
  /\ Answer(w, goldTrail[GroupOf(w)])
  /\ UNCHANGED <<pc, locked, draws, acted, gold, goldTrail, parentVars>>

TakeClose(w) ==
  /\ Command(w, "close")
  /\ pc' = [pc EXCEPT ![w] = "closed"]
  /\ UNCHANGED <<outbox, locked, draws, acted, gold, goldTrail, parentVars>>

\* env.load and env.reset are done, and the lock is released; an expert has a
\* new gold path, or none when asking for it raised, and a new trajectory.
Load(w) ==
  /\ pc[w] = "load"
  /\ locked' = [locked EXCEPT ![Jvm(w)] = Nil]
  /\ acted' = [acted EXCEPT ![w] = << >>]
  /\ IF IsExpert(w)
     THEN /\ \E path \in GoldPaths : gold' = [gold EXCEPT ![GroupOf(w)] = path]
          /\ goldTrail' = [goldTrail EXCEPT ![GroupOf(w)] = << >>]
     ELSE UNCHANGED <<gold, goldTrail>>
  /\ pc' = [pc EXCEPT ![w] = "query"]
  /\ UNCHANGED <<inbox, outbox, draws, parentVars>>

\* The task has been described and its actions listed, without the lock.
Query(w) ==
  /\ pc[w] = "query"
  /\ Answer(w, <<"observation">>)
  /\ pc' = [pc EXCEPT ![w] = "recv"]
  /\ UNCHANGED <<inbox, locked, draws, acted, gold, goldTrail, parentVars>>

\* An expert ignores the action it is sent; acted holds it already.
GoldAction(g, n) == IF n <= Len(gold[g]) THEN gold[g][n] ELSE "look around"

\* Mutant: current_obs is the observation of the last recorded action.
ObsOfRecorded(w) == Len(goldTrail[GroupOf(w)])

\* current_obs: the observation after every action before this one.
ObsBefore(w) == Len(acted[w]) - 1

\* env.step has returned; an expert records all actions but digits.
StepDone(w) ==
  /\ pc[w] = "step"
  /\ LET g      == GroupOf(w)
         n      == Len(acted[w])
         action == GoldAction(g, n)
     IN IF IsExpert(w)
        THEN /\ acted' = [acted EXCEPT ![w][n] = action]
             /\ goldTrail' =
                  IF action \in Digits THEN goldTrail
                  ELSE [goldTrail EXCEPT ![g] = Append(@,
                          [task |-> Task(w), obs |-> ObsBefore(w),
                           action |-> action])]
        ELSE UNCHANGED <<acted, goldTrail>>
  /\ Answer(w, <<"observation">>)
  /\ pc' = [pc EXCEPT ![w] = "recv"]
  /\ UNCHANGED <<inbox, locked, draws, gold, parentVars>>

\* Where a worker is inside a call of its JVM.
InJvm == {"start", "load", "query", "step"}

\* Mutant: an exception skips the release.
ReleasedByFall(w) == locked

\* The finally around load and reset.
ReleasedOnExit(w) ==
  IF pc[w] = "load" THEN [locked EXCEPT ![Jvm(w)] = Nil] ELSE locked

\* The environment raises: the process ends.
WorkerRaises(w) ==
  /\ pc[w] \in InJvm
  /\ Cardinality({v \in Workers : pc[v] = "dead"}) < MaxFailures
  /\ locked' = ReleasedOnExit(w)
  /\ pc' = [pc EXCEPT ![w] = "dead"]
  /\ UNCHANGED <<inbox, outbox, draws, acted, gold, goldTrail, parentVars>>

SciWork(w) ==
  \/ Connect(w)
  \/ TakeReset(w)
  \/ Load(w)
  \/ Query(w)
  \/ TakeStep(w)
  \/ StepDone(w)
  \/ AnswerTrajectory(w)
  \/ TakeClose(w)

SciReceives == SciReceive \/ SciReceiveFails \/ SciJoined

SciStops == parent \in {"closed", "leaked"} /\ UNCHANGED sciVars

SciNext ==
  \/ SciReset
  \/ SciStep
  \/ SciCollect
  \/ SciReceives
  \/ SciClose
  \/ \E w \in Workers : SciWork(w) \/ WorkerRaises(w)
  \/ SciStops

\* Processes run, and the parent does not stop receiving.
SciFairness ==
  WF_sciVars(SciReceives) /\ \A w \in Workers : WF_sciVars(SciWork(w))

-----------------------------------------------------------------------------
\* A row is given the gold path of its own task: every action with the
\* observation before it, digits played but not recorded, "look around" once
\* the path is at its end; and all rows of a uid have the same task.
SolutionOfOwnTask ==
  \A k \in Rows :
    LET g == GroupOf(Worker(k))
        s == solution[k]
    IN /\ \A i \in DOMAIN s :
            /\ s[i].task = Task(Worker(k))
            /\ s[i].action = GoldAction(g, s[i].obs + 1)
            /\ \A n \in (IF i = 1 THEN 0 ELSE s[i - 1].obs + 1)..(s[i].obs - 1) :
                 GoldAction(g, n + 1) \in Digits
       /\ parent = "ready" =>
            \A j \in Rows : Uid(j) = Uid(k) => Task(Worker(j)) = Task(Worker(k))

\* While a worker loads, no other worker of its JVM loads or steps: the lock
\* keeps other loads away, and the parent, which waits for all answers of a
\* command, the steps, which do not take it.
LoadsAlone ==
  \A w \in Workers : pc[w] = "load" =>
    \A v \in Workers \ {w} :
      Jvm(v) = Jvm(w) => pc[v] \notin {"load", "step"}

\* A command to the workers ends, if only with an exception, whichever
\* worker raises at whatever moment; closing ends if no worker has raised.
CommandsEnd ==
  parent \in {"reset", "step", "get", "join"}
    ~> parent \in {"ready", "over", "failed", "closed"}
=============================================================================
