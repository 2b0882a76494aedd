------------------------------ MODULE Tornado ------------------------------
(***************************************************************************)
(* The provider pool of Local Codex (local_codex/tornado.py): TornadoClient*)
(* routes a chat to the providers that may be called, falls back when one  *)
(* fails, waits for capacity and remembers cooldowns and retry times in a  *)
(* file (TornadoStateStore).                                               *)
(*                                                                         *)
(* A time in the future is a membership that ends in a step of its own,    *)
(* also while a provider is being called.  Scores, which depend on latency *)
(* and on learned quality, are arbitrary: any candidate may come first.    *)
(* Nothing is modelled of the texts, nor of the learned recovery time,     *)
(* which only changes how long a provider is left alone.                   *)
(***************************************************************************)
EXTENDS Naturals

CONSTANTS
    Providers,      \* provider ids
    Local,          \* the local ones
    Limited,        \* those with max_calls_per_session
    MaxCalls,       \* max_calls_per_session
    MaxRetries,     \* transient_budget_retries
    NoProvider      \* none is being called

ASSUME TornadoAssumption ==
    /\ Local \subseteq Providers /\ Limited \subseteq Providers
    /\ NoProvider \notin Providers
    /\ MaxCalls \in Nat /\ MaxRetries \in Nat

VARIABLES
    enabled,        \* providers that are effectively enabled: keys and environment
    waits,          \* wait_for_providers
    localFirst,     \* local_fallback_before_wait
    cooling,        \* saved: providers whose cooldown_until is in the future
    backoff,        \* saved: providers whose retry_at is in the future
    calls,          \* session_calls, of the limited providers
    pc,             \* where chat, or probe_eligible_cloud, is
    probing,        \* it is a probe
    left,           \* candidate_queue
    current,        \* the provider being called
    retries,        \* transient_retries_used
    promote,        \* promote_local
    refused,        \* nonretryable
    round           \* history: the candidates of this round and those that failed in it

settingVars == <<enabled, waits, localFirst>>
savedVars   == <<cooling, backoff>>
callVars    == <<current, retries, promote>>
vars == <<settingVars, savedVars, calls, pc, probing, left, callVars, refused, round>>

-----------------------------------------------------------------------------
(* Who may be called *)

InBudget(p) == p \in Limited => calls[p] < MaxCalls

Clear(p) == p \notin cooling /\ p \notin backoff

Eligible(excluded) ==
    {p \in enabled \ excluded : InBudget(p) /\ Clear(p)}

\* the providers whose retry time a chat waits for
Awaited_Cooling == {p \in enabled \ refused : InBudget(p) /\ ~Clear(p)}
Awaited == {p \in enabled \ refused : InBudget(p) /\ p \in backoff}

Counted(p) == IF p \in Limited THEN [calls EXCEPT ![p] = @ + 1] ELSE calls

\* A delay may be zero: the time is not in the future then.
Delayed(set, p) == {set, set \cup {p}}

-----------------------------------------------------------------------------
NoRound == [candidates |-> {}, failed |-> {}]

Init ==
    /\ enabled \in SUBSET Providers /\ waits \in BOOLEAN /\ localFirst \in BOOLEAN
    /\ cooling = {} /\ backoff = {}
    /\ calls = [p \in Providers |-> 0]
    /\ pc = "idle" /\ probing = FALSE /\ left = {}
    /\ current = NoProvider /\ retries = 0 /\ promote = FALSE
    /\ refused = {} /\ round = NoRound

\* no call is under way: the last one returned, or raised TornadoError
Free == pc \in {"idle", "raised"}

\* chat: the caller asks for an answer.
Chat ==
    /\ Free
    /\ pc' = "route" /\ probing' = FALSE /\ refused' = {} /\ round' = NoRound
    /\ UNCHANGED <<settingVars, savedVars, calls, left, callVars>>

\* probe_eligible_cloud: one small request to each eligible cloud provider.
Probe ==
    /\ Free
    /\ left' = Eligible({}) \ Local
    /\ pc' = "next" /\ probing' = TRUE /\ refused' = {} /\ promote' = FALSE
    /\ round' = [candidates |-> left', failed |-> {}]
    /\ UNCHANGED <<settingVars, savedVars, calls, current, retries>>

Candidates == Eligible(refused)

\* A round begins: the candidates are chosen once, and called one after the other.
Route ==
    /\ pc = "route"
    /\ left' = Candidates
    /\ pc' = "next" /\ promote' = FALSE
    /\ round' = [candidates |-> left', failed |-> {}]
    /\ UNCHANGED <<settingVars, savedVars, calls, probing, current, retries, refused>>

\* the candidates that may come first
Heads == IF promote /\ left \cap Local # {} THEN left \cap Local ELSE left

\* a promoted provider was moved to the front, not copied
Queued_Copied(p) == IF promote /\ p \in Local THEN left ELSE left \ {p}
Queued(p) == left \ {p}

Take(p) ==
    /\ pc = "next" /\ p \in Heads
    /\ left' = Queued(p) /\ current' = p /\ retries' = 0 /\ promote' = FALSE
    /\ calls' = Counted(p) /\ pc' = "calling"
    /\ UNCHANGED <<settingVars, savedVars, probing, refused, round>>

Exhausted == left = {}

\* The queue is empty.  A probe is over; a chat waits for the next retry time, or gives up.
RoundOver ==
    /\ pc = "next" /\ Exhausted
    /\ pc' = IF probing THEN "idle" ELSE IF waits /\ Awaited # {} THEN "waiting" ELSE "raised"
    /\ UNCHANGED <<settingVars, savedVars, calls, probing, left, callVars, refused, round>>

\* The sleep ends, at the awaited time or before it (max_wait_poll_seconds).
Wake ==
    /\ pc = "waiting" /\ pc' = "route"
    /\ UNCHANGED <<settingVars, savedVars, calls, probing, left, callVars, refused, round>>

-----------------------------------------------------------------------------
(* What the provider answers *)

\* record_success clears the times; a probe goes on with the next provider.
Succeed ==
    /\ pc = "calling"
    /\ cooling' = cooling \ {current} /\ backoff' = backoff \ {current}
    /\ pc' = IF probing THEN "next" ELSE "idle"
    /\ left' = IF probing THEN left ELSE {}
    /\ current' = NoProvider /\ retries' = 0
    /\ UNCHANGED <<settingVars, calls, probing, promote, refused, round>>

MayRetry == retries < MaxRetries /\ InBudget(current)

\* An in-flight budget is exhausted: the same provider is asked again after a sleep of at most
\* 30 seconds, whatever it asked for.
RetryInFlight ==
    /\ pc = "calling" /\ ~probing /\ MayRetry
    /\ retries' = retries + 1 /\ calls' = Counted(current)
    /\ UNCHANGED <<settingVars, savedVars, pc, probing, left, current, promote, refused, round>>

\* A failure that passes: transient, rate_limit, budget or, without a retry left,
\* transient_budget.  It is saved, with a cooldown of zero, before its retry time is.
FailForNow ==
    /\ pc = "calling"
    /\ cooling' = cooling \ {current}
    /\ pc' = "schedule"
    /\ UNCHANGED <<settingVars, backoff, calls, probing, left, callVars, refused, round>>

\* schedule_retry; after a cloud provider a chat turns to a local one.
Schedule ==
    /\ pc = "schedule"
    /\ backoff' \in Delayed(backoff \ {current}, current)
    /\ promote' = (~probing /\ localFirst /\ current \notin Local)
    /\ round' = [round EXCEPT !.failed = @ \cup {current}]
    /\ pc' = "next" /\ current' = NoProvider /\ retries' = 0
    /\ UNCHANGED <<settingVars, cooling, calls, probing, left, refused>>

\* A failure that does not pass: a cooldown, and for auth and config no further call by
\* this chat.
FailForGood ==
    /\ pc = "calling"
    /\ cooling' \in Delayed(cooling \ {current}, current)
    /\ refused' \in IF probing THEN {refused} ELSE {refused, refused \cup {current}}
    /\ round' = [round EXCEPT !.failed = @ \cup {current}]
    /\ pc' = "next" /\ current' = NoProvider /\ retries' = 0
    /\ UNCHANGED <<settingVars, backoff, calls, probing, left, promote>>

\* The worker crashes or leaves and is started again, perhaps with other keys: the file
\* survives, the counters of the session do not.
Restart ==
    /\ enabled' \in SUBSET Providers
    /\ calls' = [p \in Providers |-> 0]
    /\ pc' = "idle" /\ probing' = FALSE /\ left' = {}
    /\ current' = NoProvider /\ retries' = 0 /\ promote' = FALSE
    /\ refused' = {} /\ round' = NoRound
    /\ UNCHANGED <<waits, localFirst, savedVars>>

\* A time that was in the future is reached.
Expire(p) ==
    /\ \/ p \in cooling /\ cooling' = cooling \ {p} /\ UNCHANGED backoff
       \/ p \in backoff /\ backoff' = backoff \ {p} /\ UNCHANGED cooling
    /\ UNCHANGED <<settingVars, calls, pc, probing, left, callVars, refused, round>>

Client ==
    \/ Route \/ RoundOver \/ Wake \/ (\E p \in Providers : Take(p))
    \/ Succeed \/ RetryInFlight \/ FailForNow \/ Schedule \/ FailForGood

Next == Chat \/ Probe \/ Client \/ Restart \/ \E p \in Providers : Expire(p)

Spec == Init /\ [][Next]_vars

\* A provider answers or its request times out, sleeps end, and time passes.
FairSpec == Spec /\ WF_vars(Client) /\ \A p \in Providers : WF_vars(Expire(p))

-----------------------------------------------------------------------------
(* Correctness *)

\* Every variable keeps its type.
TypeOK ==
    /\ {enabled, cooling, backoff, left, refused} \subseteq SUBSET Providers
    /\ {waits, localFirst, probing, promote} \subseteq BOOLEAN
    /\ calls \in [Providers -> Nat] /\ retries \in 0..MaxRetries
    /\ pc \in {"idle", "route", "next", "calling", "schedule", "waiting", "raised"}
    /\ current \in Providers \cup {NoProvider}
    /\ round \in [candidates : SUBSET Providers, failed : SUBSET Providers]

\* "Session call cap is not bypassed by waiting", nor by retries of an exhausted in-flight
\* budget, by later rounds or by probes.
SessionLimitKept == \A p \in Limited : calls[p] <= MaxCalls

\* A provider is not called before its cooldown and its retry time are over, in this session
\* or, as both are saved, in the next one, although the candidates are chosen once a round.
BackoffRespected == pc = "calling" => Clear(current)

\* A chat does not ask a provider again that refused its key or its configuration, whatever
\* times run out while the chat waits for others.
RefusedStaysOut == pc = "calling" => current \notin refused

\* The three together: no chat, round, retry or probe calls a provider that asked to be spared.
CallsAreAllowed == SessionLimitKept /\ BackoffRespected /\ RefusedStaysOut

\* "Failover happens before waiting": a chat waits, or gives up, only after every candidate of
\* the round has failed.
FailoverBeforeWait == pc \in {"waiting", "raised"} => round.candidates \subseteq round.failed

\* A chat ends, unless providers keep on promising capacity.
ChatEnds == []<>Free \/ []<>(pc = "schedule")
=============================================================================
