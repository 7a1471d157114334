--------------------------- MODULE CommandJournal ---------------------------
(***************************************************************************)
(* The file-backed command journal: an append-only commands.jsonl, the     *)
(* map of last records rebuilt from it on first use, and the map of        *)
(* promises in flight.  One process owns the file; it may crash at every   *)
(* await and start again with empty memory.                                *)
(*                                                                         *)
(* A record is "none" (no line for the key), "started", or the result the  *)
(* completed line carries.  The mutex serialises the appends, so an append *)
(* is one step; a crash or an I/O error inside it leaves the line absent,  *)
(* torn or written.  A torn line stays in the file and makes every later   *)
(* load throw.                                                             *)
(***************************************************************************)
EXTENDS Naturals, FiniteSets

CONSTANTS Keys,      \* tenant:client:command
          Callers,   \* concurrent calls of execute
          Results    \* what operation() yields; a throw yields a "rejected" result

None == "none"
Started == "started"
Uncertain == "uncertain"
Failed == "failed"

ASSUME ResultsAssumption == Results \cap {None, Started, Uncertain, Failed} = {}

VARIABLES disk,     \* last line of the file, by key
          torn,     \* the file holds an unparsable line
          loaded,   \* this.loaded
          records,  \* this.records
          flight,   \* phase of the promise in this.inFlight
          outcome,  \* what that promise yields, once known
          caller,   \* each call: what it waits for, and its key
          runs,     \* history: times operation() was invoked
          replies   \* history: what callers were told

vars == <<disk, torn, loaded, records, flight, outcome, caller, runs, replies>>

Phases == {"absent", "start", "invoke", "operation", "complete", "settled"}
Lines == {None, Started} \cup Results
Idle == [pc |-> "idle", key |-> None]

TypeOK == /\ disk \in [Keys -> Lines]
          /\ torn \in BOOLEAN
          /\ loaded \in BOOLEAN
          /\ records \in [Keys -> Lines]
          /\ flight \in [Keys -> Phases]
          /\ outcome \in [Keys -> {None, Failed} \cup Results]
          /\ caller \in [Callers -> [pc : {"idle", "load", "lookup", "wait"},
                                     key : Keys \cup {None}]]
          /\ runs \in [Keys -> Nat]
          /\ replies \in [Keys -> SUBSET (Results \cup {Uncertain})]

Init == /\ disk = [k \in Keys |-> None]
        /\ torn = FALSE
        /\ loaded = FALSE
        /\ records = [k \in Keys |-> None]
        /\ flight = [k \in Keys |-> "absent"]
        /\ outcome = [k \in Keys |-> None]
        /\ caller = [c \in Callers |-> Idle]
        /\ runs = [k \in Keys |-> 0]
        /\ replies = [k \in Keys |-> {}]

-----------------------------------------------------------------------------
(* execute: the caller's side *)

Tell(k, answer) ==
    replies' = IF answer = Failed THEN replies
               ELSE [replies EXCEPT ![k] = @ \cup {answer}]

Call(c, k) ==
    /\ caller[c].pc = "idle"
    /\ caller' = [caller EXCEPT ![c] = [pc |-> "load", key |-> k]]
    /\ UNCHANGED <<disk, torn, loaded, records, flight, outcome, runs, replies>>

\* ensureLoaded returns at once, or rebuilds the map from the file.
EnsureLoaded(c) ==
    /\ caller[c].pc = "load"
    /\ loaded \/ ~torn
    /\ records' = IF loaded THEN records ELSE disk
    /\ loaded' = TRUE
    /\ caller' = [caller EXCEPT ![c].pc = "lookup"]
    /\ UNCHANGED <<disk, torn, flight, outcome, runs, replies>>

\* A torn line, or a read error, rejects the call; the next one loads again.
LoadFails(c) ==
    /\ caller[c].pc = "load" /\ ~loaded
    /\ caller' = [caller EXCEPT ![c] = Idle]
    /\ UNCHANGED <<disk, torn, loaded, records, flight, outcome, runs, replies>>

\* The lookup runs without an await, up to the entry in inFlight.
AnswerCompleted(c, k) ==
    /\ records[k] \in Results
    /\ caller' = [caller EXCEPT ![c] = Idle]
    /\ Tell(k, records[k])
    /\ UNCHANGED flight

JoinFlight(c, k) ==
    /\ records[k] \notin Results /\ flight[k] # "absent"
    /\ IF flight[k] = "settled"
       THEN Tell(k, outcome[k]) /\ caller' = [caller EXCEPT ![c] = Idle]
       ELSE caller' = [caller EXCEPT ![c].pc = "wait"] /\ UNCHANGED replies
    /\ UNCHANGED flight

\* Mutant: the record is looked up before the map of promises in flight.
AnswerUncertainFirst(c, k) ==
    /\ records[k] = Started
    /\ caller' = [caller EXCEPT ![c] = Idle]
    /\ Tell(k, Uncertain)
    /\ UNCHANGED flight

AnswerUncertain(c, k) ==
    /\ records[k] = Started /\ flight[k] = "absent"
    /\ caller' = [caller EXCEPT ![c] = Idle]
    /\ Tell(k, Uncertain)
    /\ UNCHANGED flight

\* Mutant: a started record without a promise is taken as free to run again.
StartFlightAgain(c, k) ==
    /\ records[k] \in {None, Started} /\ flight[k] = "absent"
    /\ flight' = [flight EXCEPT ![k] = "start"]
    /\ caller' = [caller EXCEPT ![c].pc = "wait"]
    /\ UNCHANGED replies

StartFlight(c, k) ==
    /\ records[k] = None /\ flight[k] = "absent"
    /\ flight' = [flight EXCEPT ![k] = "start"]
    /\ caller' = [caller EXCEPT ![c].pc = "wait"]
    /\ UNCHANGED replies

Lookup(c) ==
    /\ caller[c].pc = "lookup"
    /\ LET k == caller[c].key IN
         \/ AnswerCompleted(c, k) \/ JoinFlight(c, k)
         \/ AnswerUncertain(c, k) \/ StartFlight(c, k)
    /\ UNCHANGED <<disk, torn, loaded, records, outcome, runs>>

-----------------------------------------------------------------------------
(* execute: the promise in flight *)

\* The promise settles: its owner and everyone who shared it resume with it.
Settle(k, answer) ==
    /\ flight' = [flight EXCEPT ![k] = "settled"]
    /\ outcome' = [outcome EXCEPT ![k] = answer]
    /\ caller' = [c \in Callers |->
                    IF caller[c].pc = "wait" /\ caller[c].key = k
                    THEN Idle ELSE caller[c]]

\* What an append that did not return normally left in the file.
LeaveLine(k, line) ==
    \/ UNCHANGED <<disk, torn>>
    \/ torn' = TRUE /\ UNCHANGED disk
    \/ disk' = [disk EXCEPT ![k] = line] /\ UNCHANGED torn

\* Mutant: the started record is kept in memory only.
PersistStartedInMemory(k) ==
    /\ flight[k] = "start"
    /\ records' = [records EXCEPT ![k] = Started]
    /\ flight' = [flight EXCEPT ![k] = "invoke"]
    /\ UNCHANGED <<disk, torn, loaded, outcome, caller, runs, replies>>

PersistStarted(k) ==
    /\ flight[k] = "start"
    /\ disk' = [disk EXCEPT ![k] = Started]
    /\ records' = [records EXCEPT ![k] = Started]
    /\ flight' = [flight EXCEPT ![k] = "invoke"]
    /\ UNCHANGED <<torn, loaded, outcome, caller, runs, replies>>

\* Mutant: a failed append drops the promise without settling it.
PersistStartedLost(k) ==
    /\ flight[k] = "start"
    /\ LeaveLine(k, Started)
    /\ flight' = [flight EXCEPT ![k] = "absent"]
    /\ UNCHANGED <<loaded, records, outcome, caller, runs, replies>>

PersistStartedFails(k) ==
    /\ flight[k] = "start"
    /\ LeaveLine(k, Started)
    /\ Settle(k, Failed)
    /\ UNCHANGED <<loaded, records, runs, replies>>

InvokeOperation(k) ==
    /\ flight[k] = "invoke"
    /\ flight' = [flight EXCEPT ![k] = "operation"]
    /\ runs' = [runs EXCEPT ![k] = @ + 1]
    /\ UNCHANGED <<disk, torn, loaded, records, outcome, caller, replies>>

\* Mutant: the result is told before it is persisted.
TellBeforePersist(k, r) ==
    /\ flight[k] = "operation"
    /\ flight' = [flight EXCEPT ![k] = "complete"]
    /\ outcome' = [outcome EXCEPT ![k] = r]
    /\ Tell(k, r)
    /\ UNCHANGED <<disk, torn, loaded, records, caller, runs>>

OperationReturns(k, r) ==
    /\ flight[k] = "operation"
    /\ flight' = [flight EXCEPT ![k] = "complete"]
    /\ outcome' = [outcome EXCEPT ![k] = r]
    /\ UNCHANGED <<disk, torn, loaded, records, caller, runs, replies>>

PersistCompleted(k) ==
    /\ flight[k] = "complete"
    /\ disk' = [disk EXCEPT ![k] = outcome[k]]
    /\ records' = [records EXCEPT ![k] = outcome[k]]
    /\ Settle(k, outcome[k])
    /\ Tell(k, outcome[k])
    /\ UNCHANGED <<torn, loaded, runs>>

\* Mutant: the failure is kept as the key's record.
RecordFailure(k) ==
    /\ flight[k] = "complete"
    /\ LeaveLine(k, outcome[k])
    /\ Settle(k, Failed)
    /\ records' = [records EXCEPT ![k] = Failed]
    /\ UNCHANGED <<loaded, runs, replies>>

\* The outcome is known but not durable: callers get the I/O error, and the
\* record stays "started".
PersistCompletedFails(k) ==
    /\ flight[k] = "complete"
    /\ LeaveLine(k, outcome[k])
    /\ Settle(k, Failed)
    /\ UNCHANGED <<loaded, records, runs, replies>>

\* The owner's finally.
DeleteFlight(k) ==
    /\ flight[k] = "settled"
    /\ flight' = [flight EXCEPT ![k] = "absent"]
    /\ outcome' = [outcome EXCEPT ![k] = None]
    /\ UNCHANGED <<disk, torn, loaded, records, caller, runs, replies>>

-----------------------------------------------------------------------------
(* The process dies and is started again *)

InterruptedLine(k) ==
    \/ flight[k] = "start" /\ LeaveLine(k, Started)
    \/ flight[k] = "complete" /\ LeaveLine(k, outcome[k])

Crash ==
    /\ UNCHANGED <<disk, torn>> \/ \E k \in Keys : InterruptedLine(k)
    /\ loaded' = FALSE
    /\ records' = [k \in Keys |-> None]
    /\ flight' = [k \in Keys |-> "absent"]
    /\ outcome' = [k \in Keys |-> None]
    /\ caller' = [c \in Callers |-> Idle]
    /\ UNCHANGED <<runs, replies>>

CallerStep(c) == EnsureLoaded(c) \/ LoadFails(c) \/ Lookup(c)

FlightStep(k) == \/ PersistStarted(k) \/ PersistStartedFails(k)
                 \/ InvokeOperation(k)
                 \/ \E r \in Results : OperationReturns(k, r)
                 \/ PersistCompleted(k) \/ PersistCompletedFails(k)
                 \/ DeleteFlight(k)

Next == \/ \E c \in Callers, k \in Keys : Call(c, k)
        \/ \E c \in Callers : CallerStep(c)
        \/ \E k \in Keys : FlightStep(k)
        \/ Crash

Spec == Init /\ [][Next]_vars

\* The event loop runs every ready continuation, and I/O and operation() return.
Fairness == /\ \A c \in Callers : WF_vars(CallerStep(c))
            /\ \A k \in Keys : WF_vars(FlightStep(k))

FairSpec == Spec /\ Fairness

-----------------------------------------------------------------------------
(* Properties *)

\* No key's operation is invoked twice, whatever duplicates, retries, I/O
\* errors and restarts happen around execute.
AtMostOnce == \A k \in Keys : runs[k] <= 1

\* A result is told only when it is the durable one: execute replies after
\* persist(completed), so no two callers are ever told different results,
\* before or after a restart.
ToldResultIsDurable ==
    \A k \in Keys : \A answer \in replies[k] \ {Uncertain} : answer = disk[k]

\* After a caller was told "uncertain ... was not replayed automatically", the
\* operation is not invoked any more.
UncertainIsNotReplayed ==
    [][\A k \in Keys : Uncertain \in replies[k] => runs'[k] = runs[k]]_vars

\* Every call of execute ends: with a result, with "uncertain", with an error, or
\* because the process died under it.
EveryCallEnds == \A c \in Callers : caller[c].pc # "idle" ~> caller[c].pc = "idle"

-----------------------------------------------------------------------------
(* The inductive invariant behind AtMostOnce and ToldResultIsDurable *)

\* Write-ahead: nothing was invoked for a key without a line, nor for a key
\* that the loaded map does not know.
WriteAhead == \A k \in Keys :
    /\ disk[k] = None => runs[k] = 0
    /\ runs[k] = 0 => disk[k] \in {None, Started}
    /\ loaded /\ records[k] = None => runs[k] = 0

\* Memory lags the file only by the line of an append that failed after writing.
MemoryLags == \A k \in Keys :
    /\ records[k] = Started => disk[k] # None
    /\ records[k] \in Results => disk[k] = records[k]
    /\ disk[k] = Started => runs[k] <= 1

FlightInv == \A k \in Keys :
    /\ flight[k] # "absent" => loaded
    /\ flight[k] = "start" => records[k] = None
    /\ flight[k] = "invoke" =>
         records[k] = Started /\ disk[k] = Started /\ runs[k] = 0
    /\ flight[k] \in {"operation", "complete"} =>
         records[k] = Started /\ disk[k] = Started /\ runs[k] = 1
    /\ flight[k] = "complete" => outcome[k] \in Results
    /\ flight[k] = "settled" =>
         outcome[k] = Failed \/ (outcome[k] \in Results /\ disk[k] = outcome[k])

CallerInv == \A c \in Callers :
    /\ caller[c].pc # "idle" => caller[c].key \in Keys
    /\ caller[c].pc \in {"lookup", "wait"} => loaded

UncertainInv == \A k \in Keys : Uncertain \in replies[k] =>
    /\ disk[k] # None
    /\ loaded => records[k] # None
    /\ flight[k] # "invoke"

IInv == /\ TypeOK /\ AtMostOnce /\ ToldResultIsDurable
        /\ WriteAhead /\ MemoryLags /\ FlightInv /\ CallerInv /\ UncertainInv

-----------------------------------------------------------------------------
(* The journal implements OnceOnly *)

Phase(k) == IF runs[k] > 0 THEN "invoked"
            ELSE IF disk[k] = None THEN "fresh" ELSE "claimed"

Promise == INSTANCE OnceOnly WITH
             phase <- [k \in Keys |-> Phase(k)],
             result <- [k \in Keys |-> IF disk[k] \in Results THEN disk[k] ELSE None]

\* The implementation relation: each step of the journal is a step of OnceOnly
\* or leaves its variables alone.
ImplementsOnceOnly == Promise!Spec
=============================================================================
