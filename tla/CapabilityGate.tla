--------------------------- MODULE CapabilityGate ---------------------------
(***************************************************************************)
(* CapabilityBroker.execute from end to end: the guard and the policy, the *)
(* approval service with its reviewer, its pending requests, their timer   *)
(* and the session grants, and the effect journal behind it.  Calls of     *)
(* several turns overlap at every await.                                   *)
(*                                                                         *)
(* A scope is a session and a capability, the unit a session grant covers. *)
(* The events the broker emits are awaited for at most a second and change *)
(* nothing here, so they are part of the step that follows them.           *)
(***************************************************************************)
EXTENDS EffectJournal

CONSTANTS Scopes,       \* session:capability
          SideEffects,  \* scopes whose capability has descriptor.sideEffect
          LowRisk       \* scopes the policy may allow without an approval

ASSUME ScopesAssumption == SideEffects \subseteq Scopes /\ LowRisk \subseteq Scopes

VARIABLES gate,     \* each call of execute: where it is, its key and its scope
          pending,  \* ApprovalService.pending, by the call that waits for it
          grants,   \* ApprovalService.sessionGrants
          answer,   \* history: what was answered to the request of a call
          opened    \* history: scopes somebody approved for the whole session

gateVars == <<gate, pending, grants, answer, opened>>
vars == <<gateVars, journalVars>>

Steps == {"idle", "policy", "request", "review", "pending", "refused", "start",
          "operation", "effect"}
Away == [pc |-> "idle", key |-> None, scope |-> None]
Answers == {None, "reviewer", "approve_once", "approve_session", "deny", "expired"}

\* Each call, timer, grant and record of the journal has the shape the broker,
\* the approval service and the journal give it, and a call waits in the
\* journal only while the broker waits for it.
TypeOK ==
    /\ JournalTypeOK
    /\ gate \in [Callers -> [pc : Steps, key : Keys \cup {None},
                             scope : Scopes \cup {None}]]
    /\ \A c \in Callers : gate[c].pc # "idle" => gate[c].key \in Keys /\ gate[c].scope \in Scopes
    /\ pending = {c \in Callers : gate[c].pc = "pending"}
    /\ grants \subseteq Scopes /\ opened \subseteq Scopes
    /\ answer \in [Callers -> Answers]
    /\ \A c \in Callers : caller[c].pc # "idle" => /\ gate[c].pc = "effect"
                                                   /\ gate[c].key = caller[c].key

Init == /\ JournalInit
        /\ gate = [c \in Callers |-> Away]
        /\ pending = {} /\ grants = {} /\ opened = {}
        /\ answer = [c \in Callers |-> None]

Goto(c, step) == gate' = [gate EXCEPT ![c].pc = step]

\* execute returns, or throws.
Leave(c) == /\ gate' = [gate EXCEPT ![c] = Away]
            /\ answer' = [answer EXCEPT ![c] = None]

-----------------------------------------------------------------------------
(* Broker and policy *)

Execute(c, k, s) ==
    /\ gate[c].pc = "idle"
    /\ gate' = [gate EXCEPT ![c] = [pc |-> "policy", key |-> k, scope |-> s]]
    /\ UNCHANGED <<pending, grants, answer, opened, journalVars>>

\* The guard of a plugin, or a policy layer, denies.
Deny(c) ==
    /\ gate[c].pc = "policy"
    /\ Leave(c)
    /\ UNCHANGED <<pending, grants, opened, journalVars>>

Decide(c) ==
    /\ gate[c].pc = "policy"
    /\ \/ gate[c].scope \in LowRisk /\ Goto(c, "start")
       \/ Goto(c, "request")
    /\ UNCHANGED <<pending, grants, answer, opened, journalVars>>

-----------------------------------------------------------------------------
(* Approval *)

Request(c) ==
    /\ gate[c].pc = "request"
    /\ Goto(c, IF gate[c].scope \in grants THEN "start" ELSE "review")
    /\ UNCHANGED <<pending, grants, answer, opened, journalVars>>

\* The reviewer runs before the request is pending: nothing can answer it yet.
ReviewerApproves(c) ==
    /\ gate[c].pc = "review"
    /\ answer' = [answer EXCEPT ![c] = "reviewer"]
    /\ Goto(c, "start")
    /\ UNCHANGED <<pending, grants, opened, journalVars>>

\* It escalates or throws; a person is asked, with a timer.
ReviewerEscalates(c) ==
    /\ gate[c].pc = "review"
    /\ pending' = pending \cup {c}
    /\ Goto(c, "pending")
    /\ UNCHANGED <<grants, answer, opened, journalVars>>

\* Mutant: the timer answers and leaves the entry.
ExpireKeeping(c) ==
    /\ c \in pending
    /\ answer' = [answer EXCEPT ![c] = "expired"]
    /\ Goto(c, "refused")
    /\ UNCHANGED <<pending, grants, opened, journalVars>>

Expire(c) ==
    /\ c \in pending
    /\ answer' = [answer EXCEPT ![c] = "expired"]
    /\ pending' = pending \ {c}
    /\ Goto(c, "refused")
    /\ UNCHANGED <<grants, opened, journalVars>>

\* What the person's decision does besides waking the call.
Answered(c, decision) ==
    /\ c \in pending
    /\ answer' = [answer EXCEPT ![c] = decision]
    /\ opened' = IF decision = "approve_session" THEN opened \cup {gate[c].scope} ELSE opened
    /\ pending' = pending \ {c}
    /\ Goto(c, IF decision = "deny" THEN "refused" ELSE "start")
    /\ UNCHANGED journalVars

\* Mutant: an approval for one call is kept for the session.
ResolveKeeping(c, decision) ==
    /\ Answered(c, decision)
    /\ grants' = IF decision = "deny" THEN grants ELSE grants \cup {gate[c].scope}

Resolve(c, decision) ==
    /\ Answered(c, decision)
    /\ grants' = IF decision = "approve_session" THEN grants \cup {gate[c].scope} ELSE grants

Refuse(c) ==
    /\ gate[c].pc = "refused"
    /\ Leave(c)
    /\ UNCHANGED <<pending, grants, opened, journalVars>>

-----------------------------------------------------------------------------
(* The operation *)

\* A capability without side effects runs at once.
Start(c) ==
    /\ gate[c].pc = "start"
    /\ IF gate[c].scope \in SideEffects
       THEN Goto(c, "effect") /\ Call(c, gate[c].key)
       ELSE Goto(c, "operation") /\ UNCHANGED journalVars
    /\ UNCHANGED <<pending, grants, answer, opened>>

\* The operation, or the journal, returned or threw.
Finish(c) ==
    /\ \/ gate[c].pc = "operation"
       \/ gate[c].pc = "effect" /\ caller[c].pc = "idle"
    /\ Leave(c)
    /\ UNCHANGED <<pending, grants, opened, journalVars>>

Effects == /\ \/ \E c \in Callers : ExecuteStep(c)
              \/ \E k \in Keys : EffectStep(k)
           /\ UNCHANGED gateVars

\* Approvals, grants and calls are in memory only.
Crash == /\ JournalCrash
         /\ gate' = [c \in Callers |-> Away]
         /\ answer' = [c \in Callers |-> None]
         /\ pending' = {} /\ grants' = {} /\ opened' = {}

Approval(c) == Request(c) \/ ReviewerApproves(c) \/ ReviewerEscalates(c)

Next == \/ \E c \in Callers, k \in Keys, s \in Scopes : Execute(c, k, s)
        \/ \E c \in Callers : \/ Deny(c) \/ Decide(c) \/ Approval(c)
                              \/ Expire(c) \/ Refuse(c) \/ Start(c) \/ Finish(c)
        \/ \E c \in Callers, d \in {"approve_once", "approve_session", "deny"} : Resolve(c, d)
        \/ Effects
        \/ Crash

Spec == Init /\ [][Next]_vars

\* Awaited calls return, the timer of a pending request fires, and the journal's
\* continuations run; nothing says that a person ever answers.
Fairness ==
    /\ \A c \in Callers : /\ WF_vars(Deny(c) \/ Decide(c)) /\ WF_vars(Approval(c))
                          /\ WF_vars(Expire(c)) /\ WF_vars(Refuse(c))
                          /\ WF_vars(Start(c)) /\ WF_vars(Finish(c))
                          /\ WF_vars(ExecuteStep(c) /\ UNCHANGED gateVars)
    /\ \A k \in Keys : WF_vars(EffectStep(k) /\ UNCHANGED gateVars)

FairSpec == Spec /\ Fairness

-----------------------------------------------------------------------------
(* Properties *)

Consented(c) == \/ gate[c].scope \in LowRisk \cup opened
                \/ answer[c] \in {"reviewer", "approve_once"}

\* Whatever calls, timers, reviewers and answers overlap, a capability that
\* needs an approval runs only in a call that was approved itself, or whose
\* session and capability were approved for the session since the last start;
\* and every effect that is under way has such a call waiting for it, so no
\* effect outlives its approval.
RunsAreConsented ==
    /\ \A c \in Callers : gate[c].pc \in {"start", "operation", "effect"} => Consented(c)
    /\ \A k \in Keys : active[k] \in {"start", "invoke", "operation", "complete"} =>
         \E c \in Callers : caller[c] = [pc |-> "wait", key |-> k] /\ Consented(c)

\* No call of the broker waits for ever: a request nobody answers expires, and
\* a call that joined the effect of another is resumed with it.
EveryCallEnds == \A c \in Callers : gate[c].pc # "idle" ~> gate[c].pc = "idle"
=============================================================================
