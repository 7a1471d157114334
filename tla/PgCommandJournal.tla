-------------------------- MODULE PgCommandJournal --------------------------
(***************************************************************************)
(* The PostgreSQL command journal: one row per command, shared by several  *)
(* runtimes, claimed by INSERT ... ON CONFLICT DO NOTHING under an owner   *)
(* id drawn by the call.  Each runtime also keeps a map of promises it     *)
(* runs (active) and a cache of results (completed).                       *)
(*                                                                         *)
(* A call is identified with the owner id it draws; the id of a call that  *)
(* has ended is Gone.  A statement that fails, or that a crash interrupts, *)
(* was applied or not.                                                     *)
(***************************************************************************)
EXTENDS Naturals, FiniteSets

CONSTANTS Keys, Results,
          Runtimes,   \* processes sharing the database
          Callers,    \* concurrent calls of execute
          Home        \* the runtime each call is made in

None == "none"
Started == "started"
Uncertain == "uncertain"
Gone == "gone"

ASSUME HomeAssumption == Home \in [Callers -> Runtimes]
ASSUME ResultsAssumption == Results \cap {None, Started, Uncertain} = {}
ASSUME CallersAssumption == Callers \cap {None, Gone} = {}

VARIABLES row,        \* the command_journal table
          completed,  \* result cache of each runtime
          active,     \* the call whose promise each runtime shares, by key
          caller,     \* each call: its statement under way, key and outcome
          runs, replies

vars == <<row, completed, active, caller, runs, replies>>

Idle == [pc |-> "idle", key |-> None, outcome |-> None]

TypeOK ==
    /\ row \in [Keys -> [owner : Callers \cup {None, Gone},
                         line : {None, Started} \cup Results]]
    /\ completed \in [Runtimes -> [Keys -> {None} \cup Results]]
    /\ active \in [Runtimes -> [Keys -> {None} \cup Callers]]
    /\ caller \in [Callers ->
         [pc : {"idle", "check", "share", "insert", "select", "operation", "update"},
          key : Keys \cup {None}, outcome : {None} \cup Results]]
    /\ runs \in [Keys -> Nat]
    /\ replies \in [Keys -> SUBSET (Results \cup {Uncertain})]

Init == /\ row = [k \in Keys |-> [owner |-> None, line |-> None]]
        /\ completed = [p \in Runtimes |-> [k \in Keys |-> None]]
        /\ active = [p \in Runtimes |-> [k \in Keys |-> None]]
        /\ caller = [c \in Callers |-> Idle]
        /\ runs = [k \in Keys |-> 0]
        /\ replies = [k \in Keys |-> {}]

Tell(k, answer) == replies' = [replies EXCEPT ![k] = @ \cup {answer}]

\* The row k of a table after the calls in cs have ended.
Orphan(table, k, cs) ==
    IF table[k].owner \in cs THEN [table EXCEPT ![k].owner = Gone] ELSE table

Call(c, k) ==
    /\ caller[c].pc = "idle"
    /\ caller' = [caller EXCEPT ![c] = [Idle EXCEPT !.pc = "check", !.key = k]]
    /\ UNCHANGED <<row, completed, active, runs, replies>>

\* The cache and the active map, read after ensureSchema has resolved.
Check(c) ==
    /\ caller[c].pc = "check"
    /\ LET k == caller[c].key
           p == Home[c]
       IN \/ /\ completed[p][k] # None
             /\ caller' = [caller EXCEPT ![c] = Idle]
             /\ Tell(k, completed[p][k])
          \/ /\ completed[p][k] = None
             /\ caller' = [caller EXCEPT ![c].pc =
                             IF active[p][k] # None THEN "share" ELSE "insert"]
             /\ UNCHANGED replies
    /\ UNCHANGED <<row, completed, active, runs>>

Claimed(c) ==
    LET k == caller[c].key IN
      IF row[k].owner = None
      THEN [row EXCEPT ![k] = [owner |-> c, line |-> Started]] ELSE row

\* Mutant: the conflict clause takes the row over.
InsertTakesOver(c) ==
    /\ caller[c].pc = "insert"
    /\ LET k == caller[c].key IN
         row' = [row EXCEPT ![k].owner = c, ![k].line = IF @ = None THEN Started ELSE @]
    /\ caller' = [caller EXCEPT ![c].pc = "select"]
    /\ UNCHANGED <<completed, active, runs, replies>>

Insert(c) ==
    /\ caller[c].pc = "insert"
    /\ row' = Claimed(c)
    /\ caller' = [caller EXCEPT ![c].pc = "select"]
    /\ UNCHANGED <<completed, active, runs, replies>>

InsertFails(c) ==
    /\ caller[c].pc = "insert"
    /\ row' \in {row, Orphan(Claimed(c), caller[c].key, {c})}
    /\ caller' = [caller EXCEPT ![c] = Idle]
    /\ UNCHANGED <<completed, active, runs, replies>>

\* Mutant: whatever the row of another call holds is cached and returned.
SelectOtherUnchecked(c) ==
    /\ caller[c].pc = "select"
    /\ LET k == caller[c].key IN
         /\ row[k].owner # c
         /\ completed' = [completed EXCEPT ![Home[c]][k] = row[k].line]
         /\ Tell(k, row[k].line)
    /\ caller' = [caller EXCEPT ![c] = Idle]
    /\ UNCHANGED <<row, active, runs>>

\* The row belongs to another call: its result, or no knowledge of it.
SelectOther(c) ==
    /\ caller[c].pc = "select"
    /\ LET k == caller[c].key IN
         /\ row[k].owner # c
         /\ IF row[k].line \in Results
            THEN /\ completed' = [completed EXCEPT ![Home[c]][k] = row[k].line]
                 /\ Tell(k, row[k].line)
            ELSE Tell(k, Uncertain) /\ UNCHANGED completed
    /\ caller' = [caller EXCEPT ![c] = Idle]
    /\ UNCHANGED <<row, active, runs>>

\* The row is the call's own: operation() is invoked before the next await.
SelectOwn(c) ==
    /\ caller[c].pc = "select"
    /\ LET k == caller[c].key IN
         /\ row[k].owner = c
         /\ active' = [active EXCEPT ![Home[c]][k] = c]
         /\ runs' = [runs EXCEPT ![k] = @ + 1]
    /\ caller' = [caller EXCEPT ![c].pc = "operation"]
    /\ UNCHANGED <<row, completed, replies>>

SelectFails(c) ==
    /\ caller[c].pc = "select"
    /\ row' = Orphan(row, caller[c].key, {c})
    /\ caller' = [caller EXCEPT ![c] = Idle]
    /\ UNCHANGED <<completed, active, runs, replies>>

\* Mutant: the result enters the cache before it is written.
CacheBeforeUpdate(c, r) ==
    /\ caller[c].pc = "operation"
    /\ completed' = [completed EXCEPT ![Home[c]][caller[c].key] = r]
    /\ caller' = [caller EXCEPT ![c].pc = "update", ![c].outcome = r]
    /\ UNCHANGED <<row, active, runs, replies>>

\* A throw is a "rejected" result.
OperationReturns(c, r) ==
    /\ caller[c].pc = "operation"
    /\ caller' = [caller EXCEPT ![c].pc = "update", ![c].outcome = r]
    /\ UNCHANGED <<row, completed, active, runs, replies>>

\* The promise settles for the owner and for the calls sharing it.
Settle(c) ==
    /\ caller' = [d \in Callers |->
         IF d = c \/ (/\ caller[d].pc = "share" /\ Home[d] = Home[c]
                      /\ caller[d].key = caller[c].key)
         THEN Idle ELSE caller[d]]
    /\ active' = [active EXCEPT ![Home[c]][caller[c].key] = None]

Written(c) ==
    LET k == caller[c].key IN
      [row EXCEPT ![k] = [owner |-> Gone, line |-> caller[c].outcome]]

Update(c) ==
    /\ caller[c].pc = "update"
    /\ row' = Written(c)
    /\ LET k == caller[c].key IN
         /\ completed' = [completed EXCEPT ![Home[c]][k] = caller[c].outcome]
         /\ Tell(k, caller[c].outcome)
    /\ Settle(c)
    /\ UNCHANGED runs

\* Mutant: the outcome is told although the update failed.
TellUnwritten(c) ==
    /\ caller[c].pc = "update"
    /\ row' \in {Orphan(row, caller[c].key, {c}), Written(c)}
    /\ Tell(caller[c].key, caller[c].outcome)
    /\ Settle(c)
    /\ UNCHANGED <<completed, runs>>

UpdateFails(c) ==
    /\ caller[c].pc = "update"
    /\ row' \in {Orphan(row, caller[c].key, {c}), Written(c)}
    /\ Settle(c)
    /\ UNCHANGED <<completed, runs, replies>>

\* A runtime dies with its calls and its memory.  (A statement it had under way
\* and that still applies is InsertFails or UpdateFails just before.)
Crash(p) ==
    LET dead == {c \in Callers : Home[c] = p} IN
       /\ row' = [k \in Keys |-> Orphan(row, k, dead)[k]]
       /\ completed' = [completed EXCEPT ![p] = [k \in Keys |-> None]]
       /\ active' = [active EXCEPT ![p] = [k \in Keys |-> None]]
       /\ caller' = [c \in Callers |-> IF c \in dead THEN Idle ELSE caller[c]]
       /\ UNCHANGED <<runs, replies>>

CallStep(c) == \/ Check(c) \/ Insert(c) \/ InsertFails(c)
               \/ SelectOther(c) \/ SelectOwn(c) \/ SelectFails(c)
               \/ \E r \in Results : OperationReturns(c, r)
               \/ Update(c) \/ UpdateFails(c)

Next == \/ \E c \in Callers, k \in Keys : Call(c, k)
        \/ \E c \in Callers : CallStep(c)
        \/ \E p \in Runtimes : Crash(p)

Spec == Init /\ [][Next]_vars

-----------------------------------------------------------------------------
(* Properties *)

\* No operation is invoked twice, in one runtime or in several, although the
\* active map only protects against duplicates that arrive after the SELECT.
AtMostOnce == \A k \in Keys : runs[k] <= 1

\* The result cache of every runtime agrees with the row: execute may answer
\* from it without reading the table.
CacheIsDurable ==
    \A p \in Runtimes, k \in Keys :
        completed[p][k] # None => completed[p][k] = row[k].line

Phase(k) == IF runs[k] > 0 THEN "invoked"
            ELSE IF row[k].line = None THEN "fresh" ELSE "claimed"

Promise == INSTANCE OnceOnly WITH
             phase <- [k \in Keys |-> Phase(k)],
             result <- [k \in Keys |-> IF row[k].line \in Results THEN row[k].line
                                       ELSE None]

\* The runtimes together implement OnceOnly: they agree on one result, and
\* report uncertainty only of a command somebody has claimed.
ImplementsOnceOnly == Promise!Spec
=============================================================================
