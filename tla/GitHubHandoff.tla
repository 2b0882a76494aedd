---------------------------- MODULE GitHubHandoff -----------------------------
(***************************************************************************)
(* Handoff comments on GitHub (GitHubHandoffClient.publish and             *)
(* EmailWorker._publish_handoff).  An event is posted as a comment on an   *)
(* issue that is configured, remembered, found by a search, or created;    *)
(* when that fails the owner gets a mail instead.  Every `gh' call may     *)
(* fail or time out, with or without its effect, the search sees a new     *)
(* issue late, and the worker may die between two steps; after a restart   *)
(* the same event is published again.  The owner closes and deletes        *)
(* issues.                                                                 *)
(***************************************************************************)
EXTENDS Naturals, FiniteSets

CONSTANTS
    Events,         \* keys of handoff events
    MaxIssues,      \* bound: issues on GitHub
    Keep,           \* the length the stored lists are cut to: 500
    MaxCalls,       \* bound: calls of _publish_handoff
    MaxClosed       \* bound: issues the owner closes or deletes

ASSUME HandoffAssumption == MaxIssues \in Nat \ {0} /\ Keep \in Nat \ {0} /\ MaxCalls \in Nat

Issues == 1..MaxIssues
Steps  == {"idle", "auth", "view", "discover", "create", "rediscover", "check", "post",
           "record", "failed", "mailed"}

VARIABLES
    issue,          \* what became of each issue titled "Agent Handoff Log"
    indexed,        \* the issues the search finds
    comments,       \* how often each event was posted on each issue
    configured,     \* handoff_issue_number, or 0
    cached,         \* the remembered issue, or 0
    delivered,      \* the events recorded as delivered on each issue
    warned,         \* HandoffWarningStore: the events whose failure was mailed
    mails,          \* the events the owner got a warning about
    step,           \* where the call of _publish_handoff is
    event,          \* its event
    target,         \* its issue
    returned,       \* history: the events a call returned for
    calls, closed

github == <<issue, indexed, comments>>
store  == <<cached, delivered, warned>>
call   == <<step, event, target>>
handoffVars == <<github, configured, store, mails, call, returned, calls, closed>>

HandoffInit ==
    /\ configured \in {0, 1}
    /\ issue = [i \in Issues |-> IF i = configured THEN "open" ELSE "none"] /\ indexed = {}
    /\ comments = [i \in Issues |-> [e \in Events |-> 0]]
    /\ cached = 0 /\ delivered = [i \in Issues |-> {}] /\ warned = {}
    /\ mails = {}
    /\ step = "idle" /\ event \in Events /\ target = 0
    /\ returned = {} /\ calls = 0 /\ closed = 0

\* The list without the key, the key at its end, cut to the last Keep.  Lists are sets here:
\* of the others, any may be the one that is cut.
Remember(list, e) ==
    LET others == list \ {e}
        room   == IF Cardinality(others) < Keep THEN Cardinality(others) ELSE Keep - 1
    IN  {kept \cup {e} : kept \in {S \in SUBSET others : Cardinality(S) = room}}

Goto(s) == step' = s /\ UNCHANGED <<event, target>>
GotoOn(s, i) == step' = s /\ target' = i /\ UNCHANGED event

-----------------------------------------------------------------------------
(* GitHubHandoffClient.publish *)

Publish(e) ==
    /\ step = "idle" /\ calls < MaxCalls
    /\ calls' = calls + 1
    /\ step' = "auth" /\ event' = e /\ target' = 0
    /\ UNCHANGED <<github, configured, store, mails, returned, closed>>

\* Any command fails, and so does the call.  A command whose effect can take place before it
\* times out has its own alternative for that.
CommandFails ==
    /\ step \in {"auth", "view", "discover", "create", "rediscover", "check", "post", "record"}
    /\ Goto("failed")
    /\ UNCHANGED <<github, configured, store, mails, returned, calls, closed>>

Candidate == IF configured # 0 THEN configured ELSE cached

Authenticate ==
    /\ step = "auth"
    /\ Goto(IF Candidate # 0 THEN "view" ELSE "discover")
    /\ UNCHANGED <<github, configured, store, mails, returned, calls, closed>>

\* `gh issue view' fails for an issue that does not exist.
ViewCandidate ==
    /\ step = "view"
    /\ CASE issue[Candidate] = "open"   -> GotoOn("check", Candidate)
         [] issue[Candidate] = "closed" -> Goto("discover")
         [] OTHER                       -> Goto("failed")
    /\ UNCHANGED <<github, configured, store, mails, returned, calls, closed>>

Found == {i \in indexed : issue[i] = "open"}

Discover ==
    /\ step \in {"discover", "rediscover"}
    /\ \/ \E i \in Found : GotoOn("check", i) /\ cached' = i
       \/ /\ Found = {}
          /\ Goto(IF step = "discover" THEN "create" ELSE "failed")
          /\ UNCHANGED cached
    /\ UNCHANGED <<github, configured, delivered, warned, mails, returned, calls, closed>>

NewIssues == {i \in Issues : issue[i] = "none" /\ \A j \in 1..(i - 1) : issue[j] # "none"}

\* The issue is created, whether or not the command is seen to succeed; a command that fails
\* is followed by a search too, one that times out is not.
CreateIssue ==
    /\ step = "create"
    /\ \E i \in NewIssues : issue' = [issue EXCEPT ![i] = "open"]
    /\ \E s \in {"rediscover", "failed"} : Goto(s)
    /\ UNCHANGED <<indexed, comments, configured, store, mails, returned, calls, closed>>

CreateRefused ==
    /\ step = "create" /\ Goto("rediscover")
    /\ UNCHANGED <<github, configured, store, mails, returned, calls, closed>>

Return == /\ Goto("idle")
          /\ returned' = returned \cup {event}

AlreadyPosted_NotAsked == FALSE
AlreadyPosted == comments[target][event] > 0

CheckDelivered ==
    /\ step = "check"
    /\ \/ event \in delivered[target] /\ Return
       \/ /\ event \notin delivered[target]
          /\ Goto(IF AlreadyPosted THEN "record" ELSE "post")
          /\ UNCHANGED returned
    /\ UNCHANGED <<github, configured, store, mails, calls, closed>>

\* The comment is posted, whether or not the command is seen to succeed.
PostComment ==
    /\ step = "post" /\ issue[target] # "deleted"
    /\ comments' = [comments EXCEPT ![target][event] = @ + 1]
    /\ \E s \in {"record", "failed"} : Goto(s)
    /\ UNCHANGED <<issue, indexed, configured, store, mails, returned, calls, closed>>

RecordDelivery ==
    /\ step = "record"
    /\ cached' = target
    /\ \E list \in Remember(delivered[target], event) :
          delivered' = [delivered EXCEPT ![target] = list]
    /\ Return
    /\ UNCHANGED <<github, configured, warned, mails, calls, closed>>

-----------------------------------------------------------------------------
(* EmailWorker._publish_handoff, when the delivery failed *)

WarningStored == event \in warned

SkipWarning ==
    /\ step = "failed" /\ WarningStored
    /\ Return
    /\ UNCHANGED <<github, configured, store, mails, calls, closed>>

MailWarning ==
    /\ step = "failed" /\ ~WarningStored
    /\ mails' = mails \cup {event}
    /\ Goto("mailed")
    /\ UNCHANGED <<github, configured, store, returned, calls, closed>>

AfterMailFailure_Stored == "mailed"
AfterMailFailure == "idle"

\* The mail cannot be sent: the error ends the call.
MailFails ==
    /\ step = "failed" /\ ~WarningStored
    /\ Goto(AfterMailFailure)
    /\ UNCHANGED <<github, configured, store, mails, returned, calls, closed>>

StoreWarning ==
    /\ step = "mailed"
    /\ warned' \in Remember(warned, event)
    /\ Return
    /\ UNCHANGED <<github, configured, cached, delivered, mails, calls, closed>>

CallCrashes ==
    /\ step # "idle" /\ Goto("idle")
    /\ UNCHANGED <<github, configured, store, mails, returned, calls, closed>>

-----------------------------------------------------------------------------
(* GitHub and the owner *)

Index(i) ==
    /\ issue[i] = "open" /\ i \notin indexed
    /\ indexed' = indexed \cup {i}
    /\ UNCHANGED <<issue, comments, configured, store, mails, call, returned, calls, closed>>

OwnerEnds(i, how) ==
    /\ issue[i] = "open" /\ closed < MaxClosed
    /\ closed' = closed + 1
    /\ issue' = [issue EXCEPT ![i] = how]
    /\ UNCHANGED <<indexed, comments, configured, store, mails, call, returned, calls>>

Client == \/ CommandFails \/ Authenticate \/ ViewCandidate \/ Discover \/ CreateIssue
          \/ CreateRefused \/ CheckDelivered \/ PostComment \/ RecordDelivery
Worker == Client \/ SkipWarning \/ MailWarning \/ MailFails \/ StoreWarning
HandoffNext == \/ \E e \in Events : Publish(e)
        \/ Worker \/ CallCrashes
        \/ \E i \in Issues : Index(i) \/ \E how \in {"closed", "deleted"} : OwnerEnds(i, how)

HandoffSpec == HandoffInit /\ [][HandoffNext]_handoffVars

-----------------------------------------------------------------------------
(* Correctness *)

HandoffTypeOK ==
    /\ issue \in [Issues -> {"none", "open", "closed", "deleted"}] /\ indexed \subseteq Issues
    /\ comments \in [Issues -> [Events -> Nat]]
    /\ configured \in {0, 1} /\ cached \in 0..MaxIssues
    /\ delivered \in [Issues -> SUBSET Events] /\ warned \subseteq Events
    /\ mails \subseteq Events
    /\ step \in Steps /\ event \in Events /\ target \in 0..MaxIssues
    /\ returned \subseteq Events /\ calls \in Nat /\ closed \in Nat

\* An event is posted once on an issue at most: a comment whose command timed out, whose
\* record was lost in a crash, or whose key was cut from the list is found again.
OncePerIssue == \A i \in Issues, e \in Events : comments[i][e] <= 1

Posted(e) == \E i \in Issues : comments[i][e] > 0

\* "Coding continued, but Alexandria could not post the GitHub handoff": no event is lost in
\* silence; when a call has returned, its event was posted or the owner was told.
NothingIsLost == \A e \in returned : Posted(e) \/ e \in mails

\* The log is one issue: no second one is open on GitHub.
OneLogIssue == Cardinality({i \in Issues : issue[i] = "open"}) <= 1
=============================================================================
