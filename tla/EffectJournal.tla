--------------------------- MODULE EffectJournal ---------------------------
(***************************************************************************)
(* The file-backed effect journal, through which the capability broker     *)
(* runs what has side effects.  Loads and appends share one mutex, so each *)
(* is one step; the promise of the owner is in the map of active ones from *)
(* the lookup until the owner's finally.  Unlike a command, an effect that *)
(* throws leaves its record started, for ever.                             *)
(*                                                                         *)
(* A record is "none", "started", or the result of the completed line.     *)
(***************************************************************************)
EXTENDS Naturals, FiniteSets

CONSTANTS Keys,      \* idempotency keys: command and tool call, or the client's
          Callers,   \* calls of execute that may be under way together
          Results    \* what operation() may yield

None == "none"
Started == "started"
Uncertain == "uncertain"
Failed == "failed"

ASSUME ResultsAssumption == Results \cap {None, Started, Uncertain, Failed} = {}

VARIABLES disk,     \* last line of effects.jsonl, by key
          torn,     \* the file holds a line that does not parse
          loaded,   \* this.loaded
          records,  \* this.records
          active,   \* phase of the promise in this.active
          outcome,  \* what that promise yields, once it settled
          caller,   \* each call of execute: what it waits for, and its key
          runs,     \* history: times the operation of a key was invoked
          replies   \* history: what callers of a key were told

journalVars == <<disk, torn, loaded, records, active, outcome, caller, runs, replies>>

Phases == {"absent", "start", "invoke", "operation", "complete", "settled"}
Lines == {None, Started} \cup Results
Idle == [pc |-> "idle", key |-> None]

JournalTypeOK ==
    /\ disk \in [Keys -> Lines] /\ records \in [Keys -> Lines]
    /\ torn \in BOOLEAN /\ loaded \in BOOLEAN
    /\ active \in [Keys -> Phases]
    /\ outcome \in [Keys -> {None, Failed} \cup Results]
    /\ caller \in [Callers -> [pc : {"idle", "load", "lookup", "wait"},
                               key : Keys \cup {None}]]
    /\ runs \in [Keys -> Nat]
    /\ replies \in [Keys -> SUBSET (Results \cup {Uncertain})]

JournalInit ==
    /\ disk = [k \in Keys |-> None] /\ records = [k \in Keys |-> None]
    /\ torn = FALSE /\ loaded = FALSE
    /\ active = [k \in Keys |-> "absent"]
    /\ outcome = [k \in Keys |-> None]
    /\ caller = [c \in Callers |-> Idle]
    /\ runs = [k \in Keys |-> 0]
    /\ replies = [k \in Keys |-> {}]

-----------------------------------------------------------------------------
(* execute, up to the promise it waits for *)

\* A rejected promise tells an error, which says nothing of the outcome.
Tell(k, answer) ==
    replies' = IF answer = Failed THEN replies
               ELSE [replies EXCEPT ![k] = @ \cup {answer}]

Call(c, k) ==
    /\ caller[c].pc = "idle"
    /\ caller' = [caller EXCEPT ![c] = [pc |-> "load", key |-> k]]
    /\ UNCHANGED <<disk, torn, loaded, records, active, outcome, runs, replies>>

Load(c) ==
    /\ caller[c].pc = "load"
    /\ loaded \/ ~torn
    /\ records' = IF loaded THEN records ELSE disk
    /\ loaded' = TRUE
    /\ caller' = [caller EXCEPT ![c].pc = "lookup"]
    /\ UNCHANGED <<disk, torn, active, outcome, runs, replies>>

\* A torn line or a read error rejects the call, and the next one loads again.
LoadFails(c) ==
    /\ caller[c].pc = "load" /\ ~loaded
    /\ caller' = [caller EXCEPT ![c] = Idle]
    /\ UNCHANGED <<disk, torn, loaded, records, active, outcome, runs, replies>>

\* Mutant: a promise is waited for as an event, which may be over already.
JoinEvent(c, k) ==
    /\ active[k] # "absent"
    /\ caller' = [caller EXCEPT ![c].pc = "wait"]
    /\ UNCHANGED <<active, replies>>

\* What follows runs without an await.  A promise that has settled is still
\* shared until its owner has deleted it.
JoinActive(c, k) ==
    /\ active[k] # "absent"
    /\ IF active[k] = "settled"
       THEN Tell(k, outcome[k]) /\ caller' = [caller EXCEPT ![c] = Idle]
       ELSE caller' = [caller EXCEPT ![c].pc = "wait"] /\ UNCHANGED replies
    /\ UNCHANGED active

AnswerRecord(c, k) ==
    /\ active[k] = "absent" /\ records[k] # None
    /\ Tell(k, IF records[k] = Started THEN Uncertain ELSE records[k])
    /\ caller' = [caller EXCEPT ![c] = Idle]
    /\ UNCHANGED active

\* Mutant: a started record is taken for an effect that may be tried again.
StartRetrying(c, k) ==
    /\ active[k] = "absent" /\ records[k] \notin Results
    /\ active' = [active EXCEPT ![k] = "start"]
    /\ caller' = [caller EXCEPT ![c].pc = "wait"]
    /\ UNCHANGED replies

StartEffect(c, k) ==
    /\ active[k] = "absent" /\ records[k] = None
    /\ active' = [active EXCEPT ![k] = "start"]
    /\ caller' = [caller EXCEPT ![c].pc = "wait"]
    /\ UNCHANGED replies

Lookup(c) ==
    /\ caller[c].pc = "lookup"
    /\ LET k == caller[c].key
       IN  JoinActive(c, k) \/ AnswerRecord(c, k) \/ StartEffect(c, k)
    /\ UNCHANGED <<disk, torn, loaded, records, outcome, runs>>

-----------------------------------------------------------------------------
(* The promise *)

\* It resumes its owner and all who share it.
Settle(k, answer) ==
    /\ active' = [active EXCEPT ![k] = "settled"]
    /\ outcome' = [outcome EXCEPT ![k] = answer]
    /\ caller' = [c \in Callers |->
                    IF caller[c] = [pc |-> "wait", key |-> k] THEN Idle ELSE caller[c]]

\* What an append that did not return normally left in the file.
LeaveLine(k, line) ==
    \/ UNCHANGED <<disk, torn>>
    \/ torn' = TRUE /\ UNCHANGED disk
    \/ disk' = [disk EXCEPT ![k] = line] /\ UNCHANGED torn

WriteStarted(k) ==
    /\ active[k] = "start"
    /\ disk' = [disk EXCEPT ![k] = Started]
    /\ records' = [records EXCEPT ![k] = Started]
    /\ active' = [active EXCEPT ![k] = "invoke"]
    /\ UNCHANGED <<torn, loaded, outcome, caller, runs, replies>>

InvokeOperation(k) ==
    /\ active[k] = "invoke"
    /\ active' = [active EXCEPT ![k] = "operation"]
    /\ runs' = [runs EXCEPT ![k] = @ + 1]
    /\ UNCHANGED <<disk, torn, loaded, records, outcome, caller, replies>>

\* Mutant: the result is handed out before its line is written.
OperationTells(k, r) ==
    /\ active[k] = "operation"
    /\ active' = [active EXCEPT ![k] = "complete"]
    /\ outcome' = [outcome EXCEPT ![k] = r]
    /\ Tell(k, r)
    /\ UNCHANGED <<disk, torn, loaded, records, caller, runs>>

OperationReturns(k, r) ==
    /\ active[k] = "operation"
    /\ active' = [active EXCEPT ![k] = "complete"]
    /\ outcome' = [outcome EXCEPT ![k] = r]
    /\ UNCHANGED <<disk, torn, loaded, records, caller, runs, replies>>

\* The line stays "started": what the operation did is not known.
OperationThrows(k) ==
    /\ active[k] = "operation"
    /\ Settle(k, Failed)
    /\ UNCHANGED <<disk, torn, loaded, records, runs, replies>>

WriteCompleted(k) ==
    /\ active[k] = "complete"
    /\ disk' = [disk EXCEPT ![k] = outcome[k]]
    /\ records' = [records EXCEPT ![k] = outcome[k]]
    /\ Settle(k, outcome[k])
    /\ Tell(k, outcome[k])
    /\ UNCHANGED <<torn, loaded, runs>>

\* An append fails: everyone who waits gets the error, memory is unchanged.
WriteFails(k) ==
    /\ \/ active[k] = "start" /\ LeaveLine(k, Started)
       \/ active[k] = "complete" /\ LeaveLine(k, outcome[k])
    /\ Settle(k, Failed)
    /\ UNCHANGED <<loaded, records, runs, replies>>

\* The owner's finally.
DeleteActive(k) ==
    /\ active[k] = "settled"
    /\ active' = [active EXCEPT ![k] = "absent"]
    /\ outcome' = [outcome EXCEPT ![k] = None]
    /\ UNCHANGED <<disk, torn, loaded, records, caller, runs, replies>>

-----------------------------------------------------------------------------
(* The process dies, also inside an append, and is started again *)

JournalCrash ==
    /\ \/ UNCHANGED <<disk, torn>>
       \/ \E k \in Keys : active[k] = "start" /\ LeaveLine(k, Started)
       \/ \E k \in Keys : active[k] = "complete" /\ LeaveLine(k, outcome[k])
    /\ loaded' = FALSE
    /\ records' = [k \in Keys |-> None]
    /\ active' = [k \in Keys |-> "absent"]
    /\ outcome' = [k \in Keys |-> None]
    /\ caller' = [c \in Callers |-> Idle]
    /\ UNCHANGED <<runs, replies>>

ExecuteStep(c) == Load(c) \/ LoadFails(c) \/ Lookup(c)

EffectStep(k) == \/ WriteStarted(k) \/ InvokeOperation(k)
                 \/ \E r \in Results : OperationReturns(k, r)
                 \/ OperationThrows(k)
                 \/ WriteCompleted(k) \/ WriteFails(k) \/ DeleteActive(k)

-----------------------------------------------------------------------------
(* What the journal promises *)

Phase(k) == IF runs[k] > 0 THEN "invoked"
            ELSE IF disk[k] = None THEN "fresh" ELSE "claimed"

Promise == INSTANCE OnceOnly WITH
             phase <- [k \in Keys |-> Phase(k)],
             result <- [k \in Keys |-> IF disk[k] \in Results THEN disk[k] ELSE None]

\* Effects run behind the broker keep the promise of OnceOnly: whatever
\* duplicates, throws, failing appends and crashes there are, the operation of
\* a key is started after its line is in the file, is invoked at most once, and
\* nobody is told a result other than the durable one.
ImplementsOnceOnly == Promise!Spec

\* No effect is started twice for one idempotency key.
EffectOnce == \A k \in Keys : runs[k] <= 1
=============================================================================
