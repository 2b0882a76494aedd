------------------------------ MODULE CloudRouter ------------------------------
(***************************************************************************)
(* The cloud provider pool (cloud_router.py, cloud_provider.py).  A chat   *)
(* tries the routes of its task's capability tier, the routes to the       *)
(* task's model first; a route that fails rests.  When none is left and    *)
(* another tier has one, the user is asked.  Chats run in threads of the   *)
(* server and share the tasks' state and the routes' rest without a lock.  *)
(***************************************************************************)
EXTENDS Naturals, Sequences, FiniteSets

CONSTANTS
    Chats,          \* requests that may chat, each once
    Tasks,          \* tasks of the chat window
    Classifier,     \* the task of the knowledge tree's classifier
    RouteList,      \* the configured routes in order, with their keys set
    Tier, Model,    \* the tier and the model of each route
    DefaultTier

ASSUME RouteAssumption == RouteList \in Seq(DOMAIN Tier)

Routes   == {RouteList[k] : k \in DOMAIN RouteList}
AllTasks == Tasks \cup {Classifier}
Tiers    == {Tier[r] : r \in Routes} \cup {DefaultTier}
None     == "none"

VARIABLES
    pinned,         \* the tier and the model of each task, or None
    resting,        \* each route: "no", "timed", or "forever" once its key was refused
    chat,           \* what each chat is doing
    approved        \* history: the tiers the user approved for each task

routerVars == <<pinned, resting, chat, approved>>

Silent == [step |-> "idle", task |-> None, tier |-> None, model |-> None, queue |-> <<>>,
           free |-> {}, began |-> {}, failed |-> {}, proposed |-> None]

RouterInit ==
    /\ pinned = [t \in AllTasks |-> [tier |-> None, model |-> None]]
    /\ resting = [r \in Routes |-> "no"]
    /\ chat = [n \in Chats |-> Silent]
    /\ approved = [t \in AllTasks |-> {}]

Available == {r \in Routes : resting[r] = "no"}
InTier(S, tier) == {r \in S : Tier[r] = tier}

Say(n, c) == chat' = [chat EXCEPT ![n] = c]
SayStep(n, s) == Say(n, [chat[n] EXCEPT !.step = s])
Talking(n) == chat[n].step \in {"read", "pin", "order", "call", "exhausted"}

-----------------------------------------------------------------------------
(* chat *)

StartChat(n, t) ==
    /\ chat[n] = Silent
    /\ Say(n, [Silent EXCEPT !.step = "read", !.task = t])
    /\ UNCHANGED <<pinned, resting, approved>>

\* the route of S that is configured first
FirstOf(S) == {RouteList[k] : k \in {k \in DOMAIN RouteList :
                 RouteList[k] \in S /\ \A j \in 1..(k - 1) : RouteList[j] \notin S}}

\* The task's tier and model are read.  A task without a model takes that of the first route
\* available in its tier, and fails when there is none.
ReadTask(n) ==
    /\ chat[n].step = "read"
    /\ LET task == pinned[chat[n].task]
           tier == IF task.tier = None THEN DefaultTier ELSE task.tier
           free == InTier(Available, tier)
       IN  CASE task.model # None -> Say(n, [chat[n] EXCEPT !.step = "order", !.tier = tier,
                                                            !.model = task.model])
             [] task.model = None /\ free # {} ->
                  \E r \in FirstOf(free) :
                     Say(n, [chat[n] EXCEPT !.step = "pin", !.tier = tier, !.model = Model[r]])
             [] OTHER -> SayStep(n, "failed")
    /\ UNCHANGED <<pinned, resting, approved>>

Pin(t, tier, model) == pinned' = [pinned EXCEPT ![t] = [tier |-> tier, model |-> model]]

PinTask(n) ==
    /\ chat[n].step = "pin"
    /\ Pin(chat[n].task, chat[n].tier, chat[n].model)
    /\ SayStep(n, "order")
    /\ UNCHANGED <<resting, approved>>

\* weights and rotation: any order that lists each route once
Orders(S) == {q \in [1..Cardinality(S) -> S] : {q[k] : k \in DOMAIN q} = S}

OtherModels_Dropped(S, model) == {}
OtherModels(S, model) == {r \in S : Model[r] # model}

OrderRoutes(n) ==
    /\ chat[n].step = "order"
    /\ LET mine == InTier(Available, chat[n].tier)
           same == {r \in mine : Model[r] = chat[n].model}
       IN  \E first \in Orders(same), second \in Orders(OtherModels(mine, chat[n].model)) :
              LET queue == first \o second
              IN  Say(n, [chat[n] EXCEPT !.queue = queue, !.free = Available, !.began = Available,
                                         !.step = IF queue = <<>> THEN "exhausted" ELSE "call"])
    /\ UNCHANGED <<pinned, resting, approved>>

Answer(n) ==
    /\ chat[n].step = "call"
    /\ LET r == Head(chat[n].queue) IN Pin(chat[n].task, Tier[r], Model[r])
    /\ SayStep(n, "answered")
    /\ UNCHANGED <<resting, approved>>

\* the chat goes on with its next route
Advanced(c) ==
    LET rest == Tail(c.queue)
    IN  [c EXCEPT !.queue = rest, !.failed = @ \cup {Head(c.queue)},
                  !.free = @ \ {Head(c.queue)},
                  !.step = IF rest = <<>> THEN "exhausted" ELSE "call"]

\* a chat that compares the route's rest with the time it began at sees it resting
SeesRest(m, r) == [chat[m] EXCEPT !.free = @ \ {r}]

\* the key was refused
Rejects(n) ==
    /\ chat[n].step = "call"
    /\ LET r == Head(chat[n].queue)
       IN  /\ resting' = [resting EXCEPT ![r] = "forever"]
           /\ chat' = [m \in Chats |-> IF m = n THEN Advanced(chat[n]) ELSE SeesRest(m, r)]
    /\ UNCHANGED <<pinned, approved>>

\* A rate limit, a server error, a timeout or no connection.  The rest counts from the time the
\* chat began: it can be over when the call fails, for chats that began after its end.
Backs(n) ==
    /\ chat[n].step = "call"
    /\ LET r == Head(chat[n].queue) IN
       \/ /\ resting' = [resting EXCEPT ![r] = "timed"]
          /\ chat' = [m \in Chats |-> IF m = n THEN Advanced(chat[n]) ELSE SeesRest(m, r)]
       \/ \E after \in SUBSET {m \in Chats \ {n} : Talking(m)} :
          /\ resting' = [resting EXCEPT ![r] = "no"]
          /\ chat' = [m \in Chats |-> IF m = n THEN Advanced(chat[n])
                                      ELSE IF m \in after THEN chat[m] ELSE SeesRest(m, r)]
    /\ UNCHANGED <<pinned, approved>>

\* the provider refuses the request itself, or answers with no message in it
Refuses(n) ==
    /\ chat[n].step = "call"
    /\ SayStep(n, "failed")
    /\ UNCHANGED <<pinned, resting, approved>>

AskFor_TakesIt(t, tier) == Pin(t, tier, None)
AskFor(t, tier) == UNCHANGED pinned

\* another tier has a route: the user is asked, else the chat fails
Exhausted(n) ==
    /\ chat[n].step = "exhausted"
    /\ LET others == {r \in chat[n].free \cap Available : Tier[r] # chat[n].tier}
       IN  \/ \E r \in others :
                 /\ AskFor(chat[n].task, Tier[r])
                 /\ Say(n, [chat[n] EXCEPT !.step = "asked", !.proposed = Tier[r]])
           \/ others = {} /\ SayStep(n, "failed") /\ UNCHANGED pinned
    /\ UNCHANGED <<resting, approved>>

\* the rest of a route ends
RestEnds(r) ==
    /\ resting[r] = "timed"
    /\ resting' = [resting EXCEPT ![r] = "no"]
    /\ UNCHANGED <<pinned, chat, approved>>

\* approve_tier_change takes any tier for a task, whether a chat of the task asked for it or not.
\* Nothing but the next chat reads what it writes: it comes as late as that chat has begun.
ApproveTier(t, tier) ==
    /\ \E n \in Chats : chat[n].task = t /\ chat[n].step = "read"
    /\ Pin(t, tier, None)
    /\ approved' = [approved EXCEPT ![t] = @ \cup {tier}]
    /\ UNCHANGED <<resting, chat>>

ChatStep(n) == \/ ReadTask(n) \/ PinTask(n) \/ OrderRoutes(n) \/ Answer(n) \/ Rejects(n)
               \/ Backs(n) \/ Refuses(n) \/ Exhausted(n)

\* the tasks and the rests are kept in memory only
RouterCrash ==
    /\ pinned' = [t \in AllTasks |-> [tier |-> None, model |-> None]]
    /\ resting' = [r \in Routes |-> "no"]
    /\ chat' = [n \in Chats |-> IF chat[n] = Silent THEN Silent ELSE [Silent EXCEPT !.step = "done"]]
    /\ UNCHANGED approved

-----------------------------------------------------------------------------
(* Correctness *)

RouterTypeOK ==
    /\ \A t \in AllTasks : pinned[t].tier \in Tiers \cup {None}
    /\ resting \in [Routes -> {"no", "timed", "forever"}]
    /\ \A n \in Chats : chat[n].free \subseteq Routes /\ chat[n].failed \subseteq Routes
    /\ \A t \in AllTasks : approved[t] \subseteq Tiers

\* "Crossing capability tiers requires explicit user approval before the next cloud request is
\* sent": a provider is called in the default tier or in one approved for the task, whatever
\* other chats and approvals of the task did to the tier it is pinned to.
OnlyApprovedTiers ==
    \A n \in Chats : chat[n].step = "call" =>
        Tier[Head(chat[n].queue)] \in {DefaultTier} \cup approved[chat[n].task]

\* "when only a different-tier model can continue": the user is asked when every route of the
\* tier was resting as the chat began or failed in the chat.
AskedWhenExhausted ==
    \A n \in Chats : chat[n].step \in {"exhausted", "asked"} =>
        InTier(chat[n].began, chat[n].tier) \subseteq chat[n].failed
=============================================================================
