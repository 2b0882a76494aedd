--------------------------- MODULE TornadoProofs ---------------------------
(***************************************************************************)
(* Proofs about Tornado, for any set of providers, session limit and       *)
(* number of retries.                                                      *)
(*                                                                         *)
(* The candidates are chosen once a round and called much later.  That     *)
(* this is harmless is the invariant: whoever is still queued is as        *)
(* callable as when it was chosen (QueueIsFresh), because only the         *)
(* provider that was taken out of the queue is called, put off or refused  *)
(* (TakenIsOut); and a candidate is queued, being called, or has failed    *)
(* (NobodySkipped).                                                        *)
(***************************************************************************)
EXTENDS Tornado, TLAPS

InCall == pc \in {"calling", "schedule"}

QueueIsFresh ==
    /\ \A p \in left : Clear(p) /\ InBudget(p) /\ p \notin refused
    /\ left # {} => pc = "next" \/ InCall

TakenIsOut ==
    /\ InCall => current \in Providers /\ current \notin left
    /\ pc = "calling" => Clear(current) /\ current \notin refused

NobodySkipped ==
    /\ pc \in {"waiting", "raised"} => ~probing /\ round.candidates \subseteq round.failed
    /\ pc = "next" /\ ~probing => round.candidates \subseteq left \cup round.failed
    /\ InCall /\ ~probing => round.candidates \subseteq left \cup round.failed \cup {current}

IInv == TypeOK /\ SessionLimitKept /\ QueueIsFresh /\ TakenIsOut /\ NobodySkipped

-----------------------------------------------------------------------------
(* The invariant is inductive *)

\* a new session starts at zero
LEMMA NoCalls ==
    ASSUME NEW f, f = [p \in Providers |-> 0]
    PROVE  f \in [Providers -> Nat] /\ \A q \in Limited : f[q] <= MaxCalls
  BY TornadoAssumption

LEMMA InitInvariant == Init => IInv
<1> SUFFICES ASSUME Init PROVE IInv
    OBVIOUS
<1>1. calls \in [Providers -> Nat] /\ \A q \in Limited : calls[q] <= MaxCalls
  BY NoCalls DEF Init
<1>2. TypeOK
  <2>1. retries \in 0..MaxRetries
    BY TornadoAssumption DEF Init
  <2> QED BY <1>1, <2>1 DEF Init, TypeOK, NoRound
<1> QED BY <1>1, <1>2 DEF Init, IInv, SessionLimitKept, QueueIsFresh, TakenIsOut,
           NobodySkipped, InCall, NoRound

\* a provider that may be called stays within its limit
LEMMA CountedCalls ==
    ASSUME calls \in [Providers -> Nat], SessionLimitKept, NEW p \in Providers, InBudget(p)
    PROVE  /\ Counted(p) \in [Providers -> Nat]
           /\ \A q \in Limited : Counted(p)[q] <= MaxCalls
           /\ \A q \in Providers : q # p => Counted(p)[q] = calls[q]
<1>1. CASE p \in Limited
  BY <1>1, TornadoAssumption DEF Counted, InBudget, SessionLimitKept
<1>2. CASE p \notin Limited
  BY <1>2, TornadoAssumption DEF Counted, SessionLimitKept
<1> QED BY <1>1, <1>2

LEMMA StepInvariant == IInv /\ [Next]_vars => IInv'
<1> SUFFICES ASSUME IInv, [Next]_vars PROVE IInv'
    OBVIOUS
<1> USE TornadoAssumption DEF IInv, TypeOK, SessionLimitKept, QueueIsFresh, TakenIsOut,
        NobodySkipped, InCall, Clear, InBudget
<1>1. CASE Chat
  BY <1>1 DEF Chat, Free, NoRound, settingVars, savedVars, callVars
<1>2. CASE Probe
  BY <1>2 DEF Probe, Free, Eligible, settingVars, savedVars, callVars
<1>3. CASE Route
  BY <1>3 DEF Route, Candidates, Eligible, settingVars, savedVars
<1>4. ASSUME NEW p \in Providers, Take(p) PROVE IInv'
  <2>1. p \in left
    BY <1>4 DEF Take, Heads
  <2>2. /\ calls' \in [Providers -> Nat]
        /\ \A q \in Limited : calls'[q] <= MaxCalls
        /\ \A q \in Providers : q # p => calls'[q] = calls[q]
    BY <1>4, <2>1, CountedCalls DEF Take
  <2>3. TypeOK'
    <3>1. retries' \in 0..MaxRetries
      BY <1>4 DEF Take
    <3>4. left' \in SUBSET Providers
      BY <1>4 DEF Take, Queued
    <3>5. promote' \in BOOLEAN
      BY <1>4 DEF Take
    <3>2. UNCHANGED <<enabled, waits, localFirst, cooling, backoff, probing, refused, round>>
      BY <1>4 DEF Take, settingVars, savedVars
    <3>3. pc' = "calling" /\ current' \in Providers
      BY <1>4 DEF Take
    <3> QED BY <2>2, <3>1, <3>2, <3>3, <3>4, <3>5
  <2>4. SessionLimitKept'
    BY <2>2
  <2>5. QueueIsFresh'
    <3>1. ASSUME NEW q \in left' PROVE (Clear(q) /\ InBudget(q) /\ q \notin refused)'
      <4>1. q \in left /\ q # p /\ q \in Providers
        BY <1>4 DEF Take, Queued
      <4>2. calls'[q] = calls[q]
        BY <4>1, <2>2
      <4> QED BY <1>4, <4>1, <4>2 DEF Take, savedVars
    <3> QED BY <1>4, <3>1 DEF Take
  <2>6. TakenIsOut'
    BY <1>4, <2>1 DEF Take, Queued, settingVars, savedVars
  <2>7. NobodySkipped'
    BY <1>4, <2>1 DEF Take, Queued
  <2> QED BY <2>3, <2>4, <2>5, <2>6, <2>7
<1>5. CASE RoundOver
  BY <1>5 DEF RoundOver, Exhausted, settingVars, savedVars, callVars
<1>6. CASE Wake
  BY <1>6 DEF Wake, settingVars, savedVars, callVars
<1>7. CASE Succeed
  BY <1>7 DEF Succeed, settingVars
<1>8. CASE RetryInFlight
  <2>1. pc = "calling" /\ InBudget(current)
    BY <1>8 DEF RetryInFlight, MayRetry
  <2>2. /\ calls' \in [Providers -> Nat]
        /\ \A q \in Limited : calls'[q] <= MaxCalls
        /\ \A q \in Providers : q # current => calls'[q] = calls[q]
    BY <1>8, <2>1, CountedCalls DEF RetryInFlight
  <2> QED BY <1>8, <2>1, <2>2 DEF RetryInFlight, MayRetry, settingVars, savedVars
<1>9. CASE FailForNow
  BY <1>9 DEF FailForNow, settingVars, callVars
<1>10. CASE Schedule
  BY <1>10 DEF Schedule, Delayed, settingVars
<1>11. CASE FailForGood
  BY <1>11 DEF FailForGood, Delayed, settingVars
<1>12. CASE Restart
  <2>1. calls' \in [Providers -> Nat] /\ \A q \in Limited : calls'[q] <= MaxCalls
    BY <1>12, NoCalls DEF Restart
  <2>2. TypeOK'
    <3>1. retries' \in 0..MaxRetries
      BY <1>12 DEF Restart
    <3> QED BY <1>12, <2>1, <3>1 DEF Restart, NoRound, savedVars
  <2> QED BY <1>12, <2>1, <2>2 DEF Restart, NoRound, savedVars
<1>13. ASSUME NEW p \in Providers, Expire(p) PROVE IInv'
  BY <1>13 DEF Expire, settingVars, callVars
<1>14. CASE UNCHANGED vars
  BY <1>14 DEF vars, settingVars, savedVars, callVars
<1> QED
  BY <1>1, <1>2, <1>3, <1>4, <1>5, <1>6, <1>7, <1>8, <1>9, <1>10, <1>11, <1>12, <1>13, <1>14
     DEF Next, Client

\* In every reachable state the queue is fresh, the provider being called is out of it, and
\* no candidate was skipped.
THEOREM InductiveInvariant == Spec => []IInv
  BY InitInvariant, StepInvariant, PTL DEF Spec

-----------------------------------------------------------------------------
(* What follows *)

\* Type correctness.
THEOREM TypeCorrect == Spec => []TypeOK
  BY InductiveInvariant, PTL DEF IInv

\* No limited provider is called more often than its session limit, by any mix of rounds,
\* retries and probes.
THEOREM LimitKept == Spec => []SessionLimitKept
  BY InductiveInvariant, PTL DEF IInv

\* A provider that is called is neither cooling down nor waiting for its retry time.
THEOREM BackoffIsRespected == Spec => []BackoffRespected
<1>1. IInv => BackoffRespected
  BY DEF IInv, TakenIsOut, BackoffRespected
<1> QED BY <1>1, InductiveInvariant, PTL

\* A chat does not call a provider again that refused it.
THEOREM RefusedIsNotAsked == Spec => []RefusedStaysOut
<1>1. IInv => RefusedStaysOut
  BY DEF IInv, TakenIsOut, RefusedStaysOut
<1> QED BY <1>1, InductiveInvariant, PTL

\* The three together: no call of a chat is one that its provider asked to be spared.
THEOREM CallsAllowed == Spec => []CallsAreAllowed
BY LimitKept, BackoffIsRespected, RefusedIsNotAsked, PTL DEF CallsAreAllowed

\* A chat that waits or gives up has tried every candidate of the round.
THEOREM FailoverComesFirst == Spec => []FailoverBeforeWait
<1>1. IInv => FailoverBeforeWait
  BY DEF IInv, NobodySkipped, FailoverBeforeWait
<1> QED BY <1>1, InductiveInvariant, PTL
=============================================================================
