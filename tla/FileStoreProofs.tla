--------------------------- MODULE FileStoreProofs ---------------------------
(***************************************************************************)
(* Proofs about the two stores that processes of one machine share as      *)
(* files and that outlive them: CommandJournal, for every set of keys,     *)
(* callers and results, and SessionLease, for every set of processes.      *)
(***************************************************************************)
EXTENDS CommandJournal, SessionLease, TLAPS

USE DEF None, Started, Uncertain, Failed, Idle, Phases, Lines

LEMMA InitIInv == Init => IInv
<1> SUFFICES ASSUME Init PROVE IInv OBVIOUS
<1> USE DEF Init
<1>1. TypeOK BY DEF TypeOK
<1>2. AtMostOnce BY DEF AtMostOnce
<1>3. ToldResultIsDurable BY DEF ToldResultIsDurable
<1>4. WriteAhead BY DEF WriteAhead
<1>5. MemoryLags BY ResultsAssumption DEF MemoryLags
<1>6. FlightInv BY DEF FlightInv
<1>7. CallerInv BY DEF CallerInv
<1>8. UncertainInv BY DEF UncertainInv
<1> QED BY <1>1, <1>2, <1>3, <1>4, <1>5, <1>6, <1>7, <1>8 DEF IInv

LEMMA CallIInv ==
  ASSUME IInv, NEW c \in Callers, NEW k \in Keys, Call(c, k)
  PROVE  IInv'
<1> USE ResultsAssumption DEF IInv, Call
<1>1. TypeOK' BY DEF TypeOK, CallerInv
<1>2. AtMostOnce' BY DEF AtMostOnce, TypeOK, FlightInv
<1>3. ToldResultIsDurable' BY DEF ToldResultIsDurable, TypeOK, WriteAhead, MemoryLags, FlightInv, CallerInv
<1>4. WriteAhead' BY DEF WriteAhead, TypeOK, MemoryLags, FlightInv
<1>5. MemoryLags' BY DEF MemoryLags, TypeOK, FlightInv, AtMostOnce
<1>6. FlightInv' BY DEF FlightInv, TypeOK, WriteAhead, MemoryLags, CallerInv
<1>7. CallerInv' BY DEF CallerInv, TypeOK, FlightInv
<1>8. UncertainInv' BY DEF UncertainInv, TypeOK, MemoryLags, FlightInv, CallerInv
<1> QED BY <1>1, <1>2, <1>3, <1>4, <1>5, <1>6, <1>7, <1>8

LEMMA EnsureLoadedIInv ==
  ASSUME IInv, NEW c \in Callers, EnsureLoaded(c)
  PROVE  IInv'
<1> USE ResultsAssumption DEF IInv, EnsureLoaded
<1>1. TypeOK' BY DEF TypeOK, CallerInv
<1>2. AtMostOnce' BY DEF AtMostOnce, TypeOK, FlightInv
<1>3. ToldResultIsDurable' BY DEF ToldResultIsDurable, TypeOK, WriteAhead, MemoryLags, FlightInv, CallerInv
<1>4. WriteAhead' BY DEF WriteAhead, TypeOK, MemoryLags, FlightInv
<1>5. MemoryLags' BY DEF MemoryLags, TypeOK, FlightInv, AtMostOnce
<1>6. FlightInv' BY DEF FlightInv, TypeOK, WriteAhead, MemoryLags, CallerInv
<1>7. CallerInv' BY DEF CallerInv, TypeOK, FlightInv
<1>8. UncertainInv' BY DEF UncertainInv, TypeOK, MemoryLags, FlightInv, CallerInv
<1> QED BY <1>1, <1>2, <1>3, <1>4, <1>5, <1>6, <1>7, <1>8

LEMMA LoadFailsIInv ==
  ASSUME IInv, NEW c \in Callers, LoadFails(c)
  PROVE  IInv'
<1> USE ResultsAssumption DEF IInv, LoadFails
<1>1. TypeOK' BY DEF TypeOK, CallerInv
<1>2. AtMostOnce' BY DEF AtMostOnce, TypeOK, FlightInv
<1>3. ToldResultIsDurable' BY DEF ToldResultIsDurable, TypeOK, WriteAhead, MemoryLags, FlightInv, CallerInv
<1>4. WriteAhead' BY DEF WriteAhead, TypeOK, MemoryLags, FlightInv
<1>5. MemoryLags' BY DEF MemoryLags, TypeOK, FlightInv, AtMostOnce
<1>6. FlightInv' BY DEF FlightInv, TypeOK, WriteAhead, MemoryLags, CallerInv
<1>7. CallerInv' BY DEF CallerInv, TypeOK, FlightInv
<1>8. UncertainInv' BY DEF UncertainInv, TypeOK, MemoryLags, FlightInv, CallerInv
<1> QED BY <1>1, <1>2, <1>3, <1>4, <1>5, <1>6, <1>7, <1>8

LEMMA LookupIInv ==
  ASSUME IInv, NEW c \in Callers, Lookup(c)
  PROVE  IInv'
<1> USE ResultsAssumption DEF IInv, Lookup, Tell,
             AnswerCompleted, JoinFlight, AnswerUncertain, StartFlight
<1>1. TypeOK'
  <2> DEFINE k == caller[c].key
  <2> USE DEF TypeOK
  <2>1. k \in Keys BY DEF CallerInv
  <2>2. CASE AnswerCompleted(c, k) BY <2>1, <2>2
  <2>3. CASE JoinFlight(c, k)
    <3>1. CASE flight[k] = "settled" BY <2>1, <2>3, <3>1 DEF FlightInv
    <3>2. CASE flight[k] # "settled" BY <2>1, <2>3, <3>2
    <3> QED BY <3>1, <3>2
  <2>4. CASE AnswerUncertain(c, k) BY <2>1, <2>4
  <2>5. CASE StartFlight(c, k) BY <2>1, <2>5
  <2> QED BY <2>2, <2>3, <2>4, <2>5
<1>2. AtMostOnce' BY DEF AtMostOnce, TypeOK, FlightInv
<1>3. ToldResultIsDurable' BY DEF ToldResultIsDurable, TypeOK, WriteAhead, MemoryLags, FlightInv, CallerInv
<1>4. WriteAhead' BY DEF WriteAhead, TypeOK, MemoryLags, FlightInv
<1>5. MemoryLags' BY DEF MemoryLags, TypeOK, FlightInv, AtMostOnce
<1>6. FlightInv' BY DEF FlightInv, TypeOK, WriteAhead, MemoryLags, CallerInv
<1>7. CallerInv' BY DEF CallerInv, TypeOK, FlightInv
<1>8. UncertainInv' BY DEF UncertainInv, TypeOK, MemoryLags, FlightInv, CallerInv
<1> QED BY <1>1, <1>2, <1>3, <1>4, <1>5, <1>6, <1>7, <1>8

LEMMA PersistStartedIInv ==
  ASSUME IInv, NEW k \in Keys, PersistStarted(k)
  PROVE  IInv'
<1> USE ResultsAssumption DEF IInv, PersistStarted
<1>1. TypeOK' BY DEF TypeOK
<1>2. AtMostOnce' BY DEF AtMostOnce, TypeOK, FlightInv
<1>3. ToldResultIsDurable' BY DEF ToldResultIsDurable, TypeOK, WriteAhead, MemoryLags, FlightInv
<1>4. WriteAhead' BY DEF WriteAhead, TypeOK, MemoryLags, FlightInv
<1>5. MemoryLags' BY DEF MemoryLags, TypeOK, FlightInv, AtMostOnce
<1>6. FlightInv' BY DEF FlightInv, TypeOK, WriteAhead, MemoryLags
<1>7. CallerInv' BY DEF CallerInv, TypeOK, FlightInv
<1>8. UncertainInv' BY DEF UncertainInv, TypeOK, MemoryLags, FlightInv
<1> QED BY <1>1, <1>2, <1>3, <1>4, <1>5, <1>6, <1>7, <1>8

LEMMA InvokeOperationIInv ==
  ASSUME IInv, NEW k \in Keys, InvokeOperation(k)
  PROVE  IInv'
<1> USE ResultsAssumption DEF IInv, InvokeOperation
<1>1. TypeOK' BY DEF TypeOK
<1>2. AtMostOnce' BY DEF AtMostOnce, TypeOK, FlightInv
<1>3. ToldResultIsDurable' BY DEF ToldResultIsDurable, TypeOK, WriteAhead, MemoryLags, FlightInv
<1>4. WriteAhead' BY DEF WriteAhead, TypeOK, MemoryLags, FlightInv
<1>5. MemoryLags' BY DEF MemoryLags, TypeOK, FlightInv, AtMostOnce
<1>6. FlightInv' BY DEF FlightInv, TypeOK, WriteAhead, MemoryLags
<1>7. CallerInv' BY DEF CallerInv, TypeOK, FlightInv
<1>8. UncertainInv' BY DEF UncertainInv, TypeOK, MemoryLags, FlightInv
<1> QED BY <1>1, <1>2, <1>3, <1>4, <1>5, <1>6, <1>7, <1>8

LEMMA DeleteFlightIInv ==
  ASSUME IInv, NEW k \in Keys, DeleteFlight(k)
  PROVE  IInv'
<1> USE ResultsAssumption DEF IInv, DeleteFlight
<1>1. TypeOK' BY DEF TypeOK
<1>2. AtMostOnce' BY DEF AtMostOnce, TypeOK, FlightInv
<1>3. ToldResultIsDurable' BY DEF ToldResultIsDurable, TypeOK, WriteAhead, MemoryLags, FlightInv
<1>4. WriteAhead' BY DEF WriteAhead, TypeOK, MemoryLags, FlightInv
<1>5. MemoryLags' BY DEF MemoryLags, TypeOK, FlightInv, AtMostOnce
<1>6. FlightInv' BY DEF FlightInv, TypeOK, WriteAhead, MemoryLags
<1>7. CallerInv' BY DEF CallerInv, TypeOK, FlightInv
<1>8. UncertainInv' BY DEF UncertainInv, TypeOK, MemoryLags, FlightInv
<1> QED BY <1>1, <1>2, <1>3, <1>4, <1>5, <1>6, <1>7, <1>8

LEMMA PersistStartedFailsIInv ==
  ASSUME IInv, NEW k \in Keys, PersistStartedFails(k)
  PROVE  IInv'
<1> USE ResultsAssumption DEF IInv, PersistStartedFails, LeaveLine, Settle
<1>1. TypeOK' BY DEF TypeOK
<1>2. AtMostOnce' BY DEF AtMostOnce, TypeOK, FlightInv
<1>3. ToldResultIsDurable' BY DEF ToldResultIsDurable, TypeOK, WriteAhead, MemoryLags, FlightInv
<1>4. WriteAhead' BY DEF WriteAhead, TypeOK, MemoryLags, FlightInv
<1>5. MemoryLags' BY DEF MemoryLags, TypeOK, FlightInv, AtMostOnce
<1>6. FlightInv' BY DEF FlightInv, TypeOK, WriteAhead, MemoryLags
<1>7. CallerInv' BY DEF CallerInv, TypeOK, FlightInv
<1>8. UncertainInv' BY DEF UncertainInv, TypeOK, MemoryLags, FlightInv
<1> QED BY <1>1, <1>2, <1>3, <1>4, <1>5, <1>6, <1>7, <1>8

LEMMA OperationReturnsIInv ==
  ASSUME IInv, NEW k \in Keys, NEW r \in Results, OperationReturns(k, r)
  PROVE  IInv'
<1> USE ResultsAssumption DEF IInv, OperationReturns
<1>1. TypeOK' BY DEF TypeOK
<1>2. AtMostOnce' BY DEF AtMostOnce, TypeOK, FlightInv
<1>3. ToldResultIsDurable' BY DEF ToldResultIsDurable, TypeOK, WriteAhead, MemoryLags, FlightInv
<1>4. WriteAhead' BY DEF WriteAhead, TypeOK, MemoryLags, FlightInv
<1>5. MemoryLags' BY DEF MemoryLags, TypeOK, FlightInv, AtMostOnce
<1>6. FlightInv' BY DEF FlightInv, TypeOK, WriteAhead, MemoryLags
<1>7. CallerInv' BY DEF CallerInv, TypeOK, FlightInv
<1>8. UncertainInv' BY DEF UncertainInv, TypeOK, MemoryLags, FlightInv
<1> QED BY <1>1, <1>2, <1>3, <1>4, <1>5, <1>6, <1>7, <1>8

LEMMA PersistCompletedIInv ==
  ASSUME IInv, NEW k \in Keys, PersistCompleted(k)
  PROVE  IInv'
<1> USE ResultsAssumption DEF IInv, PersistCompleted, Settle, Tell
<1>1. TypeOK' BY DEF TypeOK, FlightInv
<1>2. AtMostOnce' BY DEF AtMostOnce, TypeOK, FlightInv
<1>3. ToldResultIsDurable' BY DEF ToldResultIsDurable, TypeOK, WriteAhead, MemoryLags, FlightInv
<1>4. WriteAhead' BY DEF WriteAhead, TypeOK, MemoryLags, FlightInv
<1>5. MemoryLags' BY DEF MemoryLags, TypeOK, FlightInv, AtMostOnce
<1>6. FlightInv' BY DEF FlightInv, TypeOK, WriteAhead, MemoryLags
<1>7. CallerInv' BY DEF CallerInv, TypeOK, FlightInv
<1>8. UncertainInv' BY DEF UncertainInv, TypeOK, MemoryLags, FlightInv
<1> QED BY <1>1, <1>2, <1>3, <1>4, <1>5, <1>6, <1>7, <1>8

LEMMA PersistCompletedFailsIInv ==
  ASSUME IInv, NEW k \in Keys, PersistCompletedFails(k)
  PROVE  IInv'
<1> USE ResultsAssumption DEF IInv, PersistCompletedFails, LeaveLine, Settle
<1>1. TypeOK'
  <2> USE DEF TypeOK
  <2>1. outcome[k] \in Results BY DEF FlightInv
  <2>2. disk' \in [Keys -> Lines] /\ torn' \in BOOLEAN BY <2>1
  <2>3. caller' \in [Callers -> [pc : {"idle", "load", "lookup", "wait"},
                                key : Keys \cup {None}]]
    OBVIOUS
  <2> QED BY <2>2, <2>3
<1>2. AtMostOnce' BY DEF AtMostOnce, TypeOK, FlightInv
<1>3. ToldResultIsDurable' BY DEF ToldResultIsDurable, TypeOK, WriteAhead, MemoryLags, FlightInv
<1>4. WriteAhead' BY DEF WriteAhead, TypeOK, MemoryLags, FlightInv
<1>5. MemoryLags' BY DEF MemoryLags, TypeOK, FlightInv, AtMostOnce
<1>6. FlightInv' BY DEF FlightInv, TypeOK, WriteAhead, MemoryLags
<1>7. CallerInv' BY DEF CallerInv, TypeOK, FlightInv
<1>8. UncertainInv' BY DEF UncertainInv, TypeOK, MemoryLags, FlightInv
<1> QED BY <1>1, <1>2, <1>3, <1>4, <1>5, <1>6, <1>7, <1>8

LEMMA CrashIInv ==
  ASSUME IInv, Crash
  PROVE  IInv'
<1> USE ResultsAssumption DEF IInv, Crash, InterruptedLine, LeaveLine
<1>1. TypeOK'
  <2> USE DEF TypeOK
  <2>1. disk' \in [Keys -> Lines] /\ torn' \in BOOLEAN BY DEF FlightInv
  <2>2. caller' \in [Callers -> [pc : {"idle", "load", "lookup", "wait"},
                                key : Keys \cup {None}]]
    OBVIOUS
  <2> QED BY <2>1, <2>2
<1>2. AtMostOnce' BY DEF AtMostOnce, TypeOK, FlightInv
<1>3. ToldResultIsDurable' BY DEF ToldResultIsDurable, TypeOK, WriteAhead, MemoryLags, FlightInv
<1>4. WriteAhead' BY DEF WriteAhead, TypeOK, MemoryLags, FlightInv
<1>5. MemoryLags' BY DEF MemoryLags, TypeOK, FlightInv, AtMostOnce
<1>6. FlightInv' BY DEF FlightInv, TypeOK, WriteAhead, MemoryLags
<1>7. CallerInv' BY DEF CallerInv, TypeOK, FlightInv
<1>8. UncertainInv' BY DEF UncertainInv, TypeOK, MemoryLags, FlightInv
<1> QED BY <1>1, <1>2, <1>3, <1>4, <1>5, <1>6, <1>7, <1>8

\* The journal keeps its inductive invariant at every step.
LEMMA NextIInv == IInv /\ [Next]_vars => IInv'
<1> SUFFICES ASSUME IInv, [Next]_vars PROVE IInv' OBVIOUS
<1>1. CASE \E c \in Callers, k \in Keys : Call(c, k) BY <1>1, CallIInv
<1>2. CASE \E c \in Callers : CallerStep(c)
  BY <1>2, EnsureLoadedIInv, LoadFailsIInv, LookupIInv DEF CallerStep
<1>3. CASE \E k \in Keys : FlightStep(k)
  BY <1>3, PersistStartedIInv, PersistStartedFailsIInv, InvokeOperationIInv,
     OperationReturnsIInv, PersistCompletedIInv, PersistCompletedFailsIInv,
     DeleteFlightIInv DEF FlightStep
<1>4. CASE Crash BY <1>4, CrashIInv
<1>5. CASE UNCHANGED vars
  BY <1>5 DEF vars, IInv, TypeOK, AtMostOnce, ToldResultIsDurable, WriteAhead,
              MemoryLags, FlightInv, CallerInv, UncertainInv
<1> QED BY <1>1, <1>2, <1>3, <1>4, <1>5 DEF Next

THEOREM Invariance == Spec => []IInv
<1>1. Init => IInv BY InitIInv
<1>2. IInv /\ [Next]_vars => IInv' BY NextIInv
<1> QED BY <1>1, <1>2, PTL DEF Spec

\* The type invariant holds of every behaviour of the journal.
THEOREM TypeCorrect == Spec => []TypeOK
<1>1. IInv => TypeOK BY DEF IInv
<1> QED BY <1>1, Invariance, PTL

\* No operation is invoked twice for one key: started lines, the in-flight map
\* and the reload after a crash together rule out a replay.
THEOREM AtMostOnceHolds == Spec => []AtMostOnce
<1>1. IInv => AtMostOnce BY DEF IInv
<1> QED BY <1>1, Invariance, PTL

\* Every result a caller was ever told is the durable one.
THEOREM ToldResultIsDurableHolds == Spec => []ToldResultIsDurable
<1>1. IInv => ToldResultIsDurable BY DEF IInv
<1> QED BY <1>1, Invariance, PTL

\* Once told "uncertain", a caller's operation is not invoked any more.
THEOREM UncertainIsNotReplayedHolds == Spec => UncertainIsNotReplayed
<1> DEFINE NoReplay == \A k \in Keys : Uncertain \in replies[k] => runs'[k] = runs[k]
<1>1. IInv /\ [Next]_vars => [NoReplay]_vars
  <2> SUFFICES ASSUME IInv, Next PROVE NoReplay OBVIOUS
  <2>1. CASE \E c \in Callers, k \in Keys : Call(c, k) BY <2>1 DEF Call
  <2>2. CASE \E c \in Callers : CallerStep(c)
    BY <2>2 DEF CallerStep, EnsureLoaded, LoadFails, Lookup
  <2>3. CASE \E k \in Keys : FlightStep(k)
    <3> PICK k \in Keys : FlightStep(k) BY <2>3
    <3>1. CASE InvokeOperation(k)
      BY <3>1 DEF InvokeOperation, IInv, TypeOK, UncertainInv
    <3>2. CASE runs' = runs BY <3>2
    <3> QED
      BY <3>1, <3>2 DEF FlightStep, PersistStarted, PersistStartedFails,
           OperationReturns, PersistCompleted, PersistCompletedFails, DeleteFlight
  <2>4. CASE Crash BY <2>4 DEF Crash
  <2> QED BY <2>1, <2>2, <2>3, <2>4 DEF Next
<1> QED BY <1>1, Invariance, PTL DEF Spec, UncertainIsNotReplayed

-----------------------------------------------------------------------------
(* The journal implements OnceOnly *)

LEMMA InitRefines == Init => Promise!Init
  BY ResultsAssumption
  DEF Init, Promise!Init, Phase, Promise!None

\* The variables of OnceOnly change only where disk, runs or replies do.
LEMMA StutterRefines ==
  ASSUME UNCHANGED <<disk, runs, replies>> PROVE UNCHANGED Promise!vars
  BY DEF Promise!vars, Phase

\* Writing a started line claims the key, or writes it again.
LEMMA ClaimRefines ==
  ASSUME IInv, NEW k \in Keys, disk[k] = None \/ disk[k] = Started, runs[k] = 0,
         disk' = [disk EXCEPT ![k] = Started], UNCHANGED <<runs, replies>>
  PROVE  Promise!Claim(k) \/ UNCHANGED Promise!vars
<1> USE ResultsAssumption DEF IInv, TypeOK
<1>1. CASE disk[k] = None
  <2>1. [j \in Keys |-> Phase(j)]' = [[j \in Keys |-> Phase(j)] EXCEPT ![k] = "claimed"]
    <3>1. \A j \in Keys : Phase(j)' = IF j = k THEN "claimed" ELSE Phase(j)
      BY <1>1 DEF Phase
    <3> QED BY <3>1
  <2>2. UNCHANGED [j \in Keys |-> IF disk[j] \in Results THEN disk[j] ELSE None]
    BY <1>1
  <2>3. Phase(k) = "fresh" BY <1>1 DEF Phase
  <2> QED BY <2>1, <2>2, <2>3 DEF Promise!Claim
<1>2. CASE disk[k] = Started
  <2>1. disk' = disk BY <1>2
  <2> QED BY <2>1, StutterRefines
<1> QED BY <1>1, <1>2

\* Writing a completed line decides the key, told to the waiters or not.
LEMMA DecideRefines ==
  ASSUME IInv, NEW k \in Keys, flight[k] = "complete",
         disk' = [disk EXCEPT ![k] = outcome[k]], UNCHANGED runs,
         replies' = replies \/ Tell(k, outcome[k])
  PROVE  \E r \in Results : Promise!Decide(k, r)
<1> USE ResultsAssumption DEF IInv, TypeOK
<1>1. outcome[k] \in Results /\ runs[k] = 1 /\ disk[k] = Started BY DEF FlightInv
<1>2. replies' \in {replies, [replies EXCEPT ![k] = @ \cup {outcome[k]}]}
  BY <1>1 DEF Tell
<1>3. [j \in Keys |-> IF disk[j] \in Results THEN disk[j] ELSE None]' =
      [[j \in Keys |-> IF disk[j] \in Results THEN disk[j] ELSE None]
         EXCEPT ![k] = outcome[k]]
  BY <1>1
<1>4. UNCHANGED [j \in Keys |-> Phase(j)]
  BY <1>1 DEF Phase
<1>5. Phase(k) = "invoked" BY <1>1 DEF Phase
<1>6. PICK r \in Results : r = outcome[k] BY <1>1
<1>7. Promise!Decide(k, r)
  BY <1>1, <1>2, <1>3, <1>4, <1>5, <1>6 DEF Promise!Decide, Promise!None
<1> QED BY <1>7

LEMMA LookupRefines ==
  ASSUME IInv, NEW c \in Callers, Lookup(c)
  PROVE  Promise!Next \/ UNCHANGED Promise!vars
<1> USE ResultsAssumption DEF IInv, TypeOK, Lookup
<1> DEFINE k == caller[c].key
<1>1. k \in Keys BY DEF CallerInv
<1>2. UNCHANGED <<disk, runs>> OBVIOUS
<1>3. ASSUME disk[k] \in Results, replies' = [replies EXCEPT ![k] = @ \cup {disk[k]}]
      PROVE  Promise!TellResult(k)
  BY <1>1, <1>2, <1>3 DEF Promise!TellResult, Promise!None, Phase
<1>4. CASE AnswerCompleted(c, k)
  <2>1. disk[k] = records[k] BY <1>1, <1>4 DEF AnswerCompleted, MemoryLags
  <2>2. Promise!TellResult(k) BY <1>3, <1>4, <2>1 DEF AnswerCompleted, Tell
  <2> QED BY <1>1, <2>2 DEF Promise!Next
<1>5. CASE JoinFlight(c, k)
  <2>1. CASE replies' = replies BY <1>2, <2>1, StutterRefines
  <2>2. CASE flight[k] = "settled" /\ outcome[k] \in Results
    <3>1. disk[k] = outcome[k] BY <1>1, <2>2 DEF FlightInv
    <3>2. Promise!TellResult(k) BY <1>3, <1>5, <2>2, <3>1 DEF JoinFlight, Tell
    <3> QED BY <1>1, <3>2 DEF Promise!Next
  <2> QED BY <1>1, <1>5, <2>1, <2>2 DEF JoinFlight, Tell, FlightInv
<1>6. CASE AnswerUncertain(c, k)
  <2>1. Phase(k) # "fresh" BY <1>1, <1>6 DEF AnswerUncertain, MemoryLags, Phase
  <2>2. replies' = [replies EXCEPT ![k] = @ \cup {Uncertain}]
    BY <1>6 DEF AnswerUncertain, Tell
  <2>3. Promise!TellUncertain(k)
    BY <1>1, <1>2, <2>1, <2>2 DEF Promise!TellUncertain, Promise!Uncertain, Phase
  <2> QED BY <1>1, <2>3 DEF Promise!Next
<1>7. CASE StartFlight(c, k) BY <1>2, <1>7, StutterRefines DEF StartFlight
<1> QED BY <1>4, <1>5, <1>6, <1>7

LEMMA FlightStepRefines ==
  ASSUME IInv, NEW k \in Keys, FlightStep(k)
  PROVE  Promise!Next \/ UNCHANGED Promise!vars
<1> USE DEF IInv
<1>1. CASE PersistStarted(k)
  BY <1>1, ClaimRefines DEF PersistStarted, FlightInv, WriteAhead, Promise!Next
<1>2. CASE PersistStartedFails(k)
  <2>1. CASE UNCHANGED disk
    BY <1>2, <2>1, StutterRefines DEF PersistStartedFails
  <2>2. CASE disk' = [disk EXCEPT ![k] = Started]
    BY <1>2, <2>2, ClaimRefines
    DEF PersistStartedFails, FlightInv, WriteAhead, Promise!Next
  <2> QED BY <1>2, <2>1, <2>2 DEF PersistStartedFails, LeaveLine
<1>3. CASE InvokeOperation(k)
  <2> USE ResultsAssumption DEF TypeOK
  <2>1. runs[k] = 0 /\ disk[k] = Started BY <1>3 DEF InvokeOperation, FlightInv
  <2>2. [j \in Keys |-> Phase(j)]' = [[j \in Keys |-> Phase(j)] EXCEPT ![k] = "invoked"]
    <3>1. \A j \in Keys : Phase(j)' = IF j = k THEN "invoked" ELSE Phase(j)
      BY <1>3, <2>1 DEF InvokeOperation, Phase
    <3> QED BY <3>1
  <2>3. Phase(k) = "claimed" BY <2>1 DEF Phase
  <2>4. Promise!Invoke(k)
    BY <1>3, <2>2, <2>3 DEF InvokeOperation, Promise!Invoke
  <2> QED BY <2>4 DEF Promise!Next
<1>4. CASE \E r \in Results : OperationReturns(k, r)
  BY <1>4, StutterRefines DEF OperationReturns
<1>5. CASE PersistCompleted(k)
  BY <1>5, DecideRefines DEF PersistCompleted, Promise!Next
<1>6. CASE PersistCompletedFails(k)
  <2>1. CASE UNCHANGED disk
    BY <1>6, <2>1, StutterRefines DEF PersistCompletedFails
  <2>2. CASE disk' = [disk EXCEPT ![k] = outcome[k]]
    BY <1>6, <2>2, DecideRefines DEF PersistCompletedFails, Promise!Next
  <2> QED BY <1>6, <2>1, <2>2 DEF PersistCompletedFails, LeaveLine
<1>7. CASE DeleteFlight(k) BY <1>7, StutterRefines DEF DeleteFlight
<1> QED BY <1>1, <1>2, <1>3, <1>4, <1>5, <1>6, <1>7 DEF FlightStep

LEMMA CrashRefines ==
  ASSUME IInv, Crash
  PROVE  Promise!Next \/ UNCHANGED Promise!vars
<1> USE DEF IInv, Crash
<1>1. CASE UNCHANGED disk BY <1>1, StutterRefines
<1>2. ASSUME NEW k \in Keys, flight[k] = "start", disk' = [disk EXCEPT ![k] = Started]
      PROVE  Promise!Next \/ UNCHANGED Promise!vars
  BY <1>2, ClaimRefines DEF FlightInv, WriteAhead, Promise!Next
<1>3. ASSUME NEW k \in Keys, flight[k] = "complete",
             disk' = [disk EXCEPT ![k] = outcome[k]]
      PROVE  Promise!Next
  BY <1>3, DecideRefines DEF Promise!Next
<1> QED BY <1>1, <1>2, <1>3 DEF InterruptedLine, LeaveLine

\* Every behaviour of the journal, crashes and I/O errors included, is a
\* behaviour of OnceOnly.
THEOREM JournalImplementsOnceOnly == Spec => ImplementsOnceOnly
<1>1. IInv /\ [Next]_vars => [Promise!Next]_Promise!vars
  <2> SUFFICES ASSUME IInv, [Next]_vars
               PROVE  Promise!Next \/ UNCHANGED Promise!vars
    OBVIOUS
  <2>1. CASE \E c \in Callers, k \in Keys : Call(c, k)
    BY <2>1, StutterRefines DEF Call
  <2>2. CASE \E c \in Callers : CallerStep(c)
    BY <2>2, LookupRefines, StutterRefines DEF CallerStep, EnsureLoaded, LoadFails
  <2>3. CASE \E k \in Keys : FlightStep(k) BY <2>3, FlightStepRefines
  <2>4. CASE Crash BY <2>4, CrashRefines
  <2>5. CASE UNCHANGED vars BY <2>5, StutterRefines DEF vars
  <2> QED BY <2>1, <2>2, <2>3, <2>4, <2>5 DEF Next
<1> QED BY <1>1, InitRefines, Invariance, PTL
        DEF Spec, ImplementsOnceOnly, Promise!Spec

-----------------------------------------------------------------------------
(* The lease of a session *)

\* A started system owns nothing and calls nothing.
LEMMA InitLeaseIInv == LeaseInit => LeaseIInv
BY DEF Nobody, Dead, Attempts, Absent, AtRest, LeaseInit, LeaseIInv, LeaseTypeOK,
       LiveLockInv, AcquireInv, AloneInv, LoneAcquireSucceeds

\* Every file-system call of acquire and release, and the death of a process,
\* preserves the invariant.
LEMMA NextLeaseIInv == LeaseIInv /\ [LeaseNext]_leaseVars => LeaseIInv'
<1> SUFFICES ASSUME LeaseIInv, [LeaseNext]_leaseVars PROVE LeaseIInv' OBVIOUS
<1> USE DEF Nobody, Dead, Attempts, Absent, AtRest, LeaseIInv, LeaseTypeOK, LiveLockInv,
            AcquireInv, AloneInv, LoneAcquireSucceeds, Disturb
<1>1. ASSUME NEW p \in Processes, Acquire(p) PROVE LeaseIInv'
  BY <1>1 DEF Acquire, Unused
<1>2. ASSUME NEW p \in Processes, Open(p) PROVE LeaseIInv'
  <2>1. LeaseTypeOK'
    <3>1. file' \in [by : Processes \cup {Nobody, Dead}, written : BOOLEAN]
      <4>1. file' = [by |-> p, written |-> FALSE] \/ file' = file BY <1>2 DEF Open
      <4>2. [by |-> p, written |-> FALSE]
              \in [by : Processes \cup {Nobody, Dead}, written : BOOLEAN]
        OBVIOUS
      <4> QED BY <4>1, <4>2
    <3>2. call' = [call EXCEPT ![p].pc = "write"] \/ call' = [call EXCEPT ![p].pc = "read"]
      BY <1>2 DEF Open
    <3>3. alone' \in [Processes -> BOOLEAN] BY <1>2 DEF Open
    <3> QED BY <1>2, <3>1, <3>2, <3>3 DEF Open
  <2>2. LiveLockInv' BY <1>2 DEF Open
  <2>3. AcquireInv' BY <1>2 DEF Open
  <2>4. AloneInv' BY <1>2 DEF Open
  <2>5. LoneAcquireSucceeds' BY <1>2 DEF Open
  <2> QED BY <2>1, <2>2, <2>3, <2>4, <2>5
<1>3. ASSUME NEW p \in Processes, Write(p) PROVE LeaseIInv'
  BY <1>3 DEF Write
<1>4. ASSUME NEW p \in Processes, Read(p) PROVE LeaseIInv'
  BY <1>4 DEF Read
<1>5. ASSUME NEW p \in Processes, Remove(p) PROVE LeaseIInv'
  BY <1>5 DEF Remove
<1>6. ASSUME NEW p \in Processes, Release(p) PROVE LeaseIInv'
  BY <1>6 DEF Release
<1>7. ASSUME NEW p \in Processes, ReadOwn(p) PROVE LeaseIInv'
  <2>1. LeaseTypeOK'
    <3>1. owned' \in [Processes -> BOOLEAN] BY <1>7 DEF ReadOwn
    <3>2. call' = [call EXCEPT ![p].pc = "rmOwn"] \/ call' = [call EXCEPT ![p] = AtRest]
      BY <1>7 DEF ReadOwn
    <3>3. alone' \in [Processes -> BOOLEAN] BY <1>7 DEF ReadOwn
    <3> QED BY <1>7, <3>1, <3>2, <3>3 DEF ReadOwn
  <2>2. LiveLockInv' BY <1>7 DEF ReadOwn
  <2>3. AcquireInv' BY <1>7 DEF ReadOwn
  <2>4. AloneInv' BY <1>7 DEF ReadOwn
  <2>5. LoneAcquireSucceeds' BY <1>7 DEF ReadOwn
  <2> QED BY <2>1, <2>2, <2>3, <2>4, <2>5
<1>8. ASSUME NEW p \in Processes, RemoveOwn(p) PROVE LeaseIInv'
  <2>1. LeaseTypeOK' BY <1>8 DEF RemoveOwn
  <2>2. LiveLockInv' BY <1>8 DEF RemoveOwn
  <2>3. AcquireInv' BY <1>8 DEF RemoveOwn
  <2>4. AloneInv' BY <1>8 DEF RemoveOwn
  <2>5. LoneAcquireSucceeds' BY <1>8 DEF RemoveOwn
  <2> QED BY <2>1, <2>2, <2>3, <2>4, <2>5
<1>9. ASSUME NEW p \in Processes, Die(p) PROVE LeaseIInv'
  BY <1>9 DEF Die
<1>10. CASE UNCHANGED leaseVars BY <1>10 DEF leaseVars
<1> QED BY <1>1, <1>2, <1>3, <1>4, <1>5, <1>6, <1>7, <1>8, <1>9, <1>10
        DEF LeaseNext, Step

\* In every reachable state a lock that reads as live is an owner's, whatever the
\* processes do and wherever they die.
THEOREM LeaseInvariance == LeaseSpec => []LeaseIInv
<1>1. LeaseInit => LeaseIInv BY InitLeaseIInv
<1>2. LeaseIInv /\ [LeaseNext]_leaseVars => LeaseIInv' BY NextLeaseIInv
<1> QED BY <1>1, <1>2, PTL DEF LeaseSpec

\* The lock, the set of owned leases and the calls have their types; acquire
\* makes no third attempt.
THEOREM LeaseTypeCorrect == LeaseSpec => []LeaseTypeOK
<1>1. LeaseIInv => LeaseTypeOK BY DEF LeaseIInv
<1> QED BY <1>1, LeaseInvariance, PTL

\* Whatever lock the dead have left, acquire succeeds for a process that nobody
\* disturbs, however many processes there were before.
THEOREM LoneAcquireSucceedsHolds == LeaseSpec => []LoneAcquireSucceeds
<1>1. LeaseIInv => LoneAcquireSucceeds BY DEF LeaseIInv
<1> QED BY <1>1, LeaseInvariance, PTL
=============================================================================
