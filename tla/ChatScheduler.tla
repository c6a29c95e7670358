--------------------------- MODULE ChatScheduler ---------------------------
(***************************************************************************)
(* rollout.mode=async: AsyncLLMServerManager starts the servers; then      *)
(* ChatCompletionScheduler sends each request of a user's sessions to one  *)
(* of them (submit_chat_completions).  A session's first request goes to   *)
(* the server at the top of a heap of weights; a follow-up names the       *)
(* request it follows and goes to the same server, which an LRU cache      *)
(* remembers.  The scheduler is a class of coroutines on one event loop:   *)
(* what precedes the await of the answer is atomic.                        *)
(*                                                                         *)
(* Abstractions: a request id is the session it belongs to, as every       *)
(* submission replaces the session's id by a new one.  The heap is kept    *)
(* sorted, which is a heap; only its first entry is ever looked at.        *)
(***************************************************************************)
EXTENDS Integers, FiniteSets, SequencesExt

CONSTANTS
  Sessions,     \* the user's sessions
  NumServers,   \* rollout_dp_size
  MaxCacheSize, \* max_cache_size
  MaxRequests,  \* bound: requests of a session
  MaxRestarts   \* bound: servers that do not come up

ASSUME ChatAssumption ==
  /\ NumServers \in Nat \ {0} /\ MaxCacheSize \in Nat \ {0}
  /\ MaxRequests \in Nat /\ MaxRestarts \in Nat

VARIABLES
  unready,   \* unready_dp_ranks
  restarts,  \* servers restarted
  weighted,  \* self.weighted_addresses
  cache,     \* self.request_id_to_address, least recently used first
  session,   \* session[s]: "new", "sent", "answered", "failed", "lost", "over"
  requests,  \* requests[s]: how many it has submitted
  address,   \* address[s]: the server its latest request went to
  home,      \* home[s]: the server of its first request
  others     \* others[s]: the sessions active since its latest request

chatVars == <<unready, restarts, weighted, cache, session, requests, address,
              home, others>>

Servers  == 1..NumServers
NoServer == 0

ChatInit ==
  /\ unready = Servers
  /\ restarts = 0
  /\ weighted = [i \in Servers |-> [weight |-> 0, address |-> i]]
  /\ cache = << >>
  /\ session = [s \in Sessions |-> "new"]
  /\ requests = [s \in Sessions |-> 0]
  /\ address = [s \in Sessions |-> NoServer]
  /\ home = [s \in Sessions |-> NoServer]
  /\ others = [s \in Sessions |-> {}]

-----------------------------------------------------------------------------
(* AsyncLLMServerManager.__init__: the servers.                            *)

\* A server has an address, or its port was taken and it is started again.
ServerUp(i) ==
  /\ i \in unready
  /\ unready' = unready \ {i}
  /\ UNCHANGED <<restarts, weighted, cache, session, requests, address, home,
                 others>>

ServerRestarts(i) ==
  /\ i \in unready
  /\ restarts < MaxRestarts
  /\ restarts' = restarts + 1
  /\ UNCHANGED <<unready, weighted, cache, session, requests, address, home,
                 others>>

-----------------------------------------------------------------------------
(* submit_chat_completions up to the await.                                *)

Before(a, b) ==
  \/ a.weight < b.weight
  \/ a.weight = b.weight /\ a.address < b.address

\* Mutant: the weight is raised, but the heap is not restored.
RaisedInPlace(heap) == [heap EXCEPT ![1].weight = @ + 1]

\* The weight of the first entry is raised, and heapreplace moves it behind
\* the entries that are now before it.
Replaced(heap) ==
  LET raised == [weight |-> heap[1].weight + 1, address |-> heap[1].address]
      ahead  == {i \in 2..Len(heap) : Before(heap[i], raised)}
  IN InsertAt(Tail(heap), Cardinality(ahead) + 1, raised)

Cached(s) == \E i \in DOMAIN cache : cache[i].session = s

\* Mutant: the id of the request that is followed stays in the cache.
WithoutLast(s) ==
  [i \in DOMAIN cache |->
     IF cache[i].session = s THEN [cache[i] EXCEPT !.session = "old"]
     ELSE cache[i]]

EntryOf(s) == CHOOSE i \in DOMAIN cache : cache[i].session = s

\* request_id_to_address.pop
Without(s) == RemoveAt(cache, EntryOf(s))

\* The cache with one more entry: the least recently used ones make room.
With(list, s, a) ==
  Append(IF Len(list) >= MaxCacheSize THEN Tail(list) ELSE list,
         [session |-> s, address |-> a])

\* The request is sent to server a, under a new id.
Send(s, list, a) ==
  /\ cache' = With(list, s, a)
  /\ address' = [address EXCEPT ![s] = a]
  /\ session' = [session EXCEPT ![s] = "sent"]
  /\ requests' = [requests EXCEPT ![s] = @ + 1]
  /\ others' = [t \in Sessions |->
                  IF t = s THEN {} ELSE others[t] \cup {s}]

\* A session's first request.
Open(s) ==
  /\ unready = {}
  /\ session[s] = "new"
  /\ Send(s, cache, weighted[1].address)
  /\ weighted' = Replaced(weighted)
  /\ home' = [home EXCEPT ![s] = weighted[1].address]
  /\ UNCHANGED <<unready, restarts>>

\* Mutant: a follow-up is balanced like a first request.
AddressOfLeast(s) == weighted[1].address

AddressOf(s) == cache[EntryOf(s)].address

\* A follow-up, after an answer, or a failure its caller retries: the ids of
\* the latest request are in the headers the caller holds.
FollowUp(s) ==
  /\ session[s] \in {"answered", "failed"}
  /\ requests[s] < MaxRequests
  /\ Cached(s)
  /\ Send(s, Without(s), AddressOf(s))
  /\ UNCHANGED <<unready, restarts, weighted, home>>

\* The id was evicted: KeyError, the callback is never called.
FollowUpRaises(s) ==
  /\ session[s] \in {"answered", "failed"}
  /\ requests[s] < MaxRequests
  /\ ~Cached(s)
  /\ session' = [session EXCEPT ![s] = "lost"]
  /\ UNCHANGED <<unready, restarts, weighted, cache, requests, address, home,
                 others>>

-----------------------------------------------------------------------------
(* The rest of submit_chat_completions: the callback.                      *)

\* The callback gets the completions, or the exception.  Without an answer
\* the caller of a first request has no id to follow.
CallBack(s) ==
  /\ session[s] = "sent"
  /\ \E outcome \in {"answered", "failed"} :
       session' = [session EXCEPT
         ![s] = IF outcome = "failed" /\ requests[s] = 1 THEN "over"
                ELSE outcome]
  /\ UNCHANGED <<unready, restarts, weighted, cache, requests, address, home,
                 others>>

\* The users may be done whenever nothing is under way.
ChatOver ==
  /\ \A s \in Sessions : session[s] # "sent"
  /\ unready = {}
  /\ UNCHANGED chatVars

ChatNext ==
  \/ \E i \in Servers : ServerUp(i) \/ ServerRestarts(i)
  \/ \E s \in Sessions : Open(s) \/ FollowUp(s) \/ FollowUpRaises(s) \/ CallBack(s)
  \/ ChatOver

-----------------------------------------------------------------------------
\* A session stays on the server of its first request, which has its KV cache,
\* however the sessions interleave; and it is lost only when max_cache_size
\* other sessions have been active since its latest request.
SessionsStay ==
  \A s \in Sessions :
    /\ address[s] = home[s]
    /\ session[s] = "lost" => Cardinality(others[s]) >= MaxCacheSize

\* The sessions are spread evenly: no server has been given two more than
\* another.  It is sessions that are counted, not requests under way: see the
\* README, "Deviations".
SessionsSpread ==
  \A a, b \in Servers :
    Cardinality({s \in Sessions : home[s] = a})
      <= Cardinality({s \in Sessions : home[s] = b}) + 1
=============================================================================
