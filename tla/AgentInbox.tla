----------------------------- MODULE AgentInbox -----------------------------
(***************************************************************************)
(* Agent-to-agent messages for one target session: the durable inbox file, *)
(* the senders that check its limit and enqueue, the supervisor's drain    *)
(* that turns messages into prompts of an idle target, the steering that   *)
(* takes them into a running turn, and the target's turns.  One runtime;   *)
(* it may crash at every step and recover the target from its snapshot.    *)
(*                                                                         *)
(* The inbox mutex makes every store operation one step.  The clock is     *)
(* left open: any claim may become older than the claim timeout (Age), and *)
(* the next operation that recovers stale claims makes it uncertain.  The  *)
(* target's model, tools and status events are abstracted to the points    *)
(* where its turn meets the inbox; closing it is like pausing it here.     *)
(***************************************************************************)
EXTENDS Naturals, FiniteSets, Sequences

CONSTANTS Messages,       \* one call of deliverAgentMessages each
          MaxPending,     \* agentMessageMaxPending
          MaxIterations,  \* tool iteration ceiling of a turn
          Faults          \* whether crashes and I/O errors happen

None == "none"
NoTurn == [kind |-> None, phase |-> None, iteration |-> 0, last |-> FALSE,
           claimed |-> {}]

ASSUME MessagesAssumption == None \notin Messages
ASSUME LimitsAssumption == MaxPending \in Nat \ {0} /\ MaxIterations \in Nat \ {0}
ASSUME FaultsAssumption == Faults \in BOOLEAN

VARIABLES send,     \* progress of each send
          state,    \* the message's state in the inbox file
          mode,     \* its effectiveMode
          mine,     \* its ownerId is this runtime's
          stale,    \* claims older than the claim timeout
          order,    \* enqueued messages, oldest first
          wake,     \* a queued microtask will call drainAgentInbox
          drain,    \* the drain: its phase, its message, and onPromptAccepted
          status,   \* the target session's status
          turn,     \* the command holding the actor's mutex
          context,  \* how often each message is in the target's messages
          durable,  \* the same in the stored snapshot
          cold      \* history: a restart or an error left the drain off, and no wake-up

inbox == <<send, state, mode, mine, stale, order>>
target == <<status, turn, context, durable>>
vars == <<inbox, target, wake, drain, cold>>

States == {None, "pending", "claimed", "delivered", "uncertain"}
DrainIdle == [phase |-> "off", message |-> None, accepted |-> FALSE]

TypeOK ==
    /\ send \in [Messages -> {"new", "checked", "sent", "refused"}]
    /\ state \in [Messages -> States]
    /\ mode \in [Messages -> {"steer", "follow_up"}]
    /\ mine \in [Messages -> BOOLEAN]
    /\ stale \subseteq Messages
    /\ order \in Seq(Messages)
    /\ wake \in BOOLEAN
    /\ drain \in [phase : {"off", "check", "claim", "deliver", "dispatched", "settle", "thrown"},
                  message : Messages \cup {None}, accepted : BOOLEAN]
    /\ status \in {"idle", "running", "paused"}
    /\ turn \in [kind : {None, "user", "message"},
                 phase : {None, "persist", "confirm", "claim", "append",
                          "save", "mark", "model", "failing", "leaving", "ending"},
                 iteration : 0..MaxIterations, last : BOOLEAN,
                 claimed : SUBSET Messages]
    /\ context \in [Messages -> Nat]
    /\ durable \in [Messages -> Nat]
    /\ cold \in BOOLEAN

Init ==
    /\ send = [m \in Messages |-> "new"]
    /\ state = [m \in Messages |-> None]
    /\ mode = [m \in Messages |-> "steer"]
    /\ mine = [m \in Messages |-> FALSE]
    /\ stale = {}
    /\ order = <<>>
    /\ wake = FALSE
    /\ drain = DrainIdle
    /\ status = "idle"
    /\ turn = NoTurn
    /\ context = [m \in Messages |-> 0]
    /\ durable = [m \in Messages |-> 0]
    /\ cold = FALSE

-----------------------------------------------------------------------------
(* The inbox store *)

\* Mutant: a stale claim is handed out again.
RecoveredForRetry == [m \in Messages |->
                        IF state[m] = "claimed" /\ m \in stale THEN "pending" ELSE state[m]]

\* recoverStaleClaims, run by enqueue, pendingCount, claimNext and list.
Recovered == [m \in Messages |->
                IF state[m] = "claimed" /\ m \in stale THEN "uncertain" ELSE state[m]]

Pending(modes) == {m \in Messages : state[m] = "pending" /\ mode[m] \in modes}

\* m is the oldest of them.
IsNext(m, modes) == /\ m \in Pending(modes)
                    /\ \E i \in 1..Len(order) :
                         /\ order[i] = m
                         /\ \A j \in 1..(i - 1) : order[j] \notin Pending(modes)

\* claimNext: the oldest pending message of the modes.
ClaimNext(m, modes) ==
    /\ IsNext(m, modes)
    /\ state' = [Recovered EXCEPT ![m] = "claimed"]
    /\ mine' = [mine EXCEPT ![m] = TRUE]
    /\ stale' = {}
    /\ UNCHANGED <<send, mode, order>>

ClaimNone(modes) ==
    /\ Pending(modes) = {}
    /\ state' = Recovered
    /\ stale' = {}
    /\ UNCHANGED <<send, mode, mine, order>>

\* Mutant: the owner may settle a claim that was recovered in the meantime.
OwnedOnce(m) == state[m] \in {"claimed", "uncertain"} /\ mine[m]

\* transition: only the owner of a claim settles it.
OwnClaim(m) == state[m] = "claimed" /\ mine[m]

Settle(ms, outcome) ==
    /\ state' = [m \in Messages |-> IF m \in ms /\ OwnClaim(m) THEN outcome ELSE state[m]]
    /\ stale' = stale \ {m \in ms : OwnClaim(m)}
    /\ UNCHANGED <<send, mode, mine, order>>

\* Time passes: a claim reaches the claim timeout.
Age(m) ==
    /\ state[m] = "claimed" /\ m \notin stale
    /\ stale' = stale \cup {m}
    /\ UNCHANGED <<send, state, mode, mine, order, target, wake, drain, cold>>

\* An observer lists the inbox.
List ==
    /\ state' = Recovered
    /\ stale' = {}
    /\ UNCHANGED <<send, mode, mine, order, target, wake, drain, cold>>

-----------------------------------------------------------------------------
(* deliverAgentMessages *)

PendingCount == Cardinality({m \in Messages : Recovered[m] \in {"pending", "claimed"}})

CheckLimit(m) ==
    /\ send[m] = "new"
    /\ send' = [send EXCEPT ![m] = IF PendingCount >= MaxPending THEN "refused"
                                   ELSE "checked"]
    /\ state' = Recovered
    /\ stale' = {}
    /\ UNCHANGED <<mode, mine, order, target, wake, drain, cold>>

\* The mode was requested, or follows from the target's status as it was read
\* before the limit was checked.  Listeners and the sender wake the drain.
Enqueue(m, effectiveMode) ==
    /\ send[m] = "checked"
    /\ send' = [send EXCEPT ![m] = "sent"]
    /\ state' = [Recovered EXCEPT ![m] = "pending"]
    /\ stale' = {}
    /\ mode' = [mode EXCEPT ![m] = effectiveMode]
    /\ order' = Append(order, m)
    /\ wake' = TRUE
    /\ UNCHANGED <<mine, target, drain, cold>>

-----------------------------------------------------------------------------
(* drainAgentInbox *)

\* The drain that is already running sees the message, or its last claimNext
\* has already found nothing; the file store leaves no room in between.
DrainWake ==
    /\ wake
    /\ wake' = FALSE
    /\ drain' = IF drain.phase = "off" THEN [DrainIdle EXCEPT !.phase = "check"] ELSE drain
    /\ cold' = FALSE
    /\ UNCHANGED <<inbox, target>>

DrainCheck ==
    /\ drain.phase = "check"
    /\ drain' = IF status = "idle" THEN [DrainIdle EXCEPT !.phase = "claim"] ELSE DrainIdle
    /\ UNCHANGED <<inbox, target, wake, cold>>

DrainClaim(m) ==
    /\ drain.phase = "claim"
    /\ ClaimNext(m, {"steer", "follow_up"})
    /\ drain' = [phase |-> "deliver", message |-> m, accepted |-> FALSE]
    /\ UNCHANGED <<target, wake, cold>>

DrainEmpty ==
    /\ drain.phase = "claim"
    /\ ClaimNone({"steer", "follow_up"})
    /\ drain' = DrainIdle
    /\ UNCHANGED <<target, wake, cold>>

\* getActor or claimNext throws: the drain ends, and nobody is told.
DrainThrows ==
    /\ Faults
    /\ drain.phase \in {"check", "claim"}
    /\ drain' = DrainIdle
    /\ cold' = TRUE
    /\ UNCHANGED <<inbox, target, wake>>

\* What ends a dispatch: it wakes the drain, or throws before it does because
\* the journal cannot record the result.
WakesDrain == wake' = TRUE /\ UNCHANGED cold
DispatchThrows == Faults /\ UNCHANGED wake /\ cold' = (cold \/ drain.phase = "off")

\* A command stores the snapshot, or fails to.
StoresSnapshot == durable' = context \/ (Faults /\ UNCHANGED durable)

DrainGoto(phase) == drain' = [drain EXCEPT !.phase = phase]

\* deliverClaimedMessage dispatches the message and gets the actor's mutex.
\* runPrompt refuses a paused target, and otherwise appends the message.
DrainDispatch ==
    /\ drain.phase = "deliver" /\ turn = NoTurn
    /\ \/ /\ status = "paused"
          /\ \/ DrainGoto("settle") /\ WakesDrain
             \/ DrainGoto("thrown") /\ DispatchThrows
          /\ StoresSnapshot
          /\ UNCHANGED <<status, turn, context>>
       \/ /\ status # "paused"
          /\ DrainGoto("dispatched")
          /\ status' = "running"
          /\ turn' = [NoTurn EXCEPT !.kind = "message", !.phase = "persist"]
          /\ context' = [context EXCEPT ![drain.message] = @ + 1]
          /\ UNCHANGED <<durable, wake, cold>>
    /\ UNCHANGED inbox

\* The actor cannot be had, which rejects the command; or the journal cannot
\* record that it starts.
DrainDispatchFails ==
    /\ Faults
    /\ drain.phase = "deliver"
    /\ \/ DrainGoto("settle") /\ WakesDrain
       \/ DrainGoto("thrown") /\ UNCHANGED <<wake, cold>>
    /\ UNCHANGED <<inbox, target>>

\* The dispatch is over.  An unaccepted message is uncertain, if still claimed;
\* the drain goes on, unless that cannot be written.
DrainSettle ==
    /\ drain.phase = "settle"
    /\ \/ /\ IF drain.accepted THEN UNCHANGED inbox ELSE Settle({drain.message}, "uncertain")
          /\ drain' = [DrainIdle EXCEPT !.phase = "check"]
       \/ Faults /\ ~drain.accepted /\ DrainGoto("thrown") /\ UNCHANGED inbox
    /\ UNCHANGED <<target, wake, cold>>

\* An error that is thrown makes the message uncertain, as far as that can be
\* written, and ends the drain.
DrainGivesUp ==
    /\ drain.phase = "thrown"
    /\ Settle({drain.message}, "uncertain") \/ UNCHANGED inbox
    /\ drain' = DrainIdle
    /\ cold' = TRUE
    /\ UNCHANGED <<target, wake>>

-----------------------------------------------------------------------------
(* The target's turns *)

\* A turn that is over makes the target idle while it still holds the mutex.
StopRunning ==
    /\ turn' = [turn EXCEPT !.phase = "ending", !.last = FALSE, !.claimed = {}]
    /\ status' = "idle"

\* The drain learns how the dispatch of its message ended.
TellDrain(phase) == IF turn.kind = "message" THEN DrainGoto(phase) ELSE UNCHANGED drain


\* The last snapshot is stored, the mutex released and the result recorded.
End ==
    /\ turn.phase \in {"ending", "leaving"}
    /\ durable' = IF turn.phase = "ending" THEN context ELSE durable
    /\ turn' = NoTurn
    /\ \/ TellDrain("settle") /\ WakesDrain
       \/ TellDrain("thrown") /\ DispatchThrows
    /\ UNCHANGED <<inbox, status, context>>

UserPrompt ==
    /\ turn = NoTurn
    /\ \/ status = "paused" /\ StoresSnapshot /\ (WakesDrain \/ DispatchThrows)
          /\ UNCHANGED <<status, turn>>
       \/ /\ status # "paused"
          /\ status' = "running"
          /\ turn' = [NoTurn EXCEPT !.kind = "user", !.phase = "persist"]
          /\ UNCHANGED <<durable, wake, cold>>
    /\ UNCHANGED <<inbox, context, drain>>

\* pause or resume; a status event that cannot be stored changes it all the same.
SetStatus(new) ==
    /\ turn = NoTurn
    /\ status' = new
    /\ StoresSnapshot
    /\ WakesDrain \/ DispatchThrows
    /\ UNCHANGED <<inbox, turn, context, drain>>

Pause == SetStatus("paused")

Resume == SetStatus("idle")

Goto(phase) == turn' = [turn EXCEPT !.phase = phase]

\* Mutant: a turn that was continued at its end does not count its iteration.
NextIterationAnyway ==
    /\ turn' = [turn EXCEPT !.phase = "claim", !.last = FALSE]
    /\ UNCHANGED status

\* The turn goes on after a last answer, if the ceiling allows.
NextIteration ==
    /\ turn.iteration < MaxIterations
    /\ turn' = [turn EXCEPT !.phase = "claim", !.last = FALSE]
    /\ UNCHANGED status

\* Mutant: the prompt is confirmed before the snapshot is stored.
AcceptUnsaved ==
    /\ turn.phase = "persist"
    /\ Goto(IF turn.kind = "message" THEN "confirm" ELSE "claim")
    /\ UNCHANGED <<inbox, status, context, durable, wake, drain, cold>>

PersistPrompt ==
    /\ turn.phase = "persist"
    /\ durable' = context
    /\ Goto(IF turn.kind = "message" THEN "confirm" ELSE "claim")
    /\ UNCHANGED <<inbox, status, context, wake, drain, cold>>

\* onPromptAccepted marks the message delivered; a claim that was recovered in
\* the meantime makes it throw, and the turn fails.
ConfirmPrompt ==
    /\ turn.phase = "confirm"
    /\ IF OwnClaim(drain.message)
       THEN /\ Settle({drain.message}, "delivered")
            /\ drain' = [drain EXCEPT !.accepted = TRUE]
            /\ Goto("claim")
       ELSE Goto("failing") /\ UNCHANGED <<inbox, drain>>
    /\ UNCHANGED <<status, context, durable, wake, cold>>

\* A model boundary claims every pending steering message, one by one.
ClaimSteering(m) ==
    /\ turn.phase = "claim" /\ Cardinality(turn.claimed) < MaxPending
    /\ ClaimNext(m, {"steer"})
    /\ turn' = [turn EXCEPT !.claimed = @ \cup {m}]
    /\ UNCHANGED <<status, context, durable, wake, drain, cold>>

\* Without steering the turn asks its model; or, at its end, is over, unless
\* a goal or the autonomous mode continues it.
SteeringClaimed ==
    /\ turn.phase = "claim"
    /\ \/ Cardinality(turn.claimed) = MaxPending /\ UNCHANGED inbox
       \/ Cardinality(turn.claimed) < MaxPending /\ ClaimNone({"steer"})
    /\ \/ turn.claimed # {} /\ Goto("append") /\ UNCHANGED status
       \/ turn.claimed = {} /\ ~turn.last /\ Goto("model") /\ UNCHANGED status
       \/ turn.claimed = {} /\ turn.last /\ (StopRunning \/ NextIteration)
    /\ UNCHANGED <<context, durable, wake, drain, cold>>

AppendSteering ==
    /\ turn.phase = "append"
    /\ context' = [m \in Messages |-> IF m \in turn.claimed THEN context[m] + 1
                                      ELSE context[m]]
    /\ Goto("save")
    /\ UNCHANGED <<inbox, status, durable, wake, drain, cold>>

SaveSteering ==
    /\ turn.phase = "save"
    /\ durable' = context
    /\ Goto("mark")
    /\ UNCHANGED <<inbox, status, context, wake, drain, cold>>

\* Each message is marked delivered; one whose claim was recovered throws.
MarkSteering(m) ==
    /\ turn.phase = "mark" /\ m \in turn.claimed
    /\ IF OwnClaim(m)
       THEN Settle({m}, "delivered") /\ turn' = [turn EXCEPT !.claimed = @ \ {m}]
       ELSE Goto("failing") /\ UNCHANGED inbox
    /\ UNCHANGED <<status, context, durable, wake, drain, cold>>

SteeringMarked ==
    /\ turn.phase = "mark" /\ turn.claimed = {}
    /\ \/ ~turn.last /\ Goto("model") /\ UNCHANGED status
       \/ turn.last /\ NextIteration
       \/ turn.last /\ turn.iteration = MaxIterations /\ StopRunning
    /\ UNCHANGED <<inbox, context, durable, wake, drain, cold>>

\* The model ends its turn, which looks for steering once more; or it calls
\* tools, and runs again unless the ceiling is reached.
ModelAnswers ==
    /\ turn.phase = "model"
    /\ LET answered == turn.iteration + 1 IN
         \/ /\ turn' = [turn EXCEPT !.phase = "claim", !.iteration = answered, !.last = TRUE]
            /\ UNCHANGED status
         \/ /\ answered < MaxIterations
            /\ turn' = [turn EXCEPT !.phase = "claim", !.iteration = answered]
            /\ UNCHANGED status
         \/ answered = MaxIterations /\ StopRunning
    /\ UNCHANGED <<inbox, context, durable, wake, drain, cold>>

\* An error in the turn or in what it stores at its end (a model or store error,
\* a cancellation).  Messages it had claimed for steering become uncertain,
\* except while it was claiming: those are left claimed.
Throw ==
    /\ Faults
    /\ turn.phase \in {"persist", "confirm", "claim", "append", "save", "mark", "model",
                      "ending"}
    /\ turn' = [turn EXCEPT !.phase = "failing",
                            !.claimed = IF turn.phase \in {"append", "save", "mark"}
                                        THEN @ ELSE {}]
    /\ UNCHANGED <<inbox, status, context, durable, wake, drain, cold>>

\* The error path emits, returns to idle and stores the snapshot.  Each of these
\* may throw in its turn: the target then stays running, or its snapshot old.
Fail ==
    /\ turn.phase = "failing"
    /\ \E marked \in SUBSET turn.claimed :
          /\ Faults \/ marked = turn.claimed
          /\ Settle(marked, "uncertain")
    /\ turn' = [turn EXCEPT !.phase = "leaving", !.last = FALSE, !.claimed = {}]
    /\ \/ status' = "idle" /\ StoresSnapshot
       \/ Faults /\ UNCHANGED <<status, durable>>
    /\ UNCHANGED <<context, wake, drain, cold>>

-----------------------------------------------------------------------------
(* The runtime dies, and recovers the target from its snapshot as idle *)

Crash ==
    /\ Faults
    /\ send' = [m \in Messages |-> IF send[m] = "checked" THEN "refused" ELSE send[m]]
    /\ mine' = [m \in Messages |-> FALSE]
    /\ wake' = FALSE
    /\ drain' = DrainIdle
    /\ status' = "idle"
    /\ turn' = NoTurn
    /\ context' = durable
    /\ cold' = TRUE
    /\ UNCHANGED <<state, mode, stale, order, durable>>

Store == List \/ \E m \in Messages : Age(m)

Sender(m) == CheckLimit(m) \/ \E effectiveMode \in {"steer", "follow_up"} :
                                 Enqueue(m, effectiveMode)

DrainStep == \/ DrainCheck \/ (\E m \in Messages : DrainClaim(m)) \/ DrainEmpty
             \/ DrainThrows \/ DrainDispatchFails \/ DrainSettle \/ DrainGivesUp

TurnStep == \/ PersistPrompt \/ ConfirmPrompt \/ SteeringClaimed
            \/ AppendSteering \/ SaveSteering
            \/ (\E m \in Messages : ClaimSteering(m) \/ MarkSteering(m))
            \/ SteeringMarked \/ ModelAnswers \/ Throw \/ Fail \/ End

User == UserPrompt \/ Pause \/ Resume

Next == \/ Store \/ \E m \in Messages : Sender(m)
        \/ DrainWake \/ DrainStep \/ DrainDispatch \/ TurnStep \/ User \/ Crash

Spec == Init /\ [][Next]_vars

\* The event loop runs, the model answers, and the actor's mutex is first in,
\* first out: a waiting dispatch gets it although commands keep coming.
FairSpec == /\ Spec
            /\ WF_vars(DrainWake) /\ WF_vars(DrainStep) /\ SF_vars(DrainDispatch) /\ WF_vars(TurnStep)

-----------------------------------------------------------------------------
(* Properties *)

\* "delivered: inserted durably into target model context", also after a crash;
\* and a message that can still be claimed has not reached the context, so that
\* claiming it cannot replay it.
StateTellsContext ==
    \A m \in Messages : /\ state[m] = "delivered" => durable[m] > 0
                        /\ state[m] = "pending" => context[m] = 0 /\ durable[m] = 0

\* No message enters the target's context twice, by drain, steering, recovery
\* or any combination of them.
NeverTwice == \A m \in Messages : context[m] <= 1 /\ durable[m] <= 1

\* "A stale claim becomes uncertain; it is not automatically replayed", and no
\* late confirmation turns an outcome into another.
OutcomeIsFinal ==
    [][\A m \in Messages : state[m] \in {"delivered", "uncertain"} => state'[m] = state[m]]_vars

\* An error path that failed left the session running without a turn.
Stranded == status = "running" /\ turn = NoTurn


=============================================================================
