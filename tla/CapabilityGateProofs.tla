------------------------ MODULE CapabilityGateProofs ------------------------
(***************************************************************************)
(* Proofs about CapabilityGate, the broker, the approvals and the effect   *)
(* journal together, for every set of calls, keys, scopes and results.     *)
(***************************************************************************)
EXTENDS CapabilityGate, TLAPS

USE DEF None, Started, Uncertain, Failed, Idle

\* Where an effect is under way, and where the broker may run the capability.
UnderWay == {"start", "invoke", "operation", "complete"}
Running == {"start", "operation", "effect"}

\* A key without a line was never invoked, nor was one that a loaded journal
\* has no record of; and one never invoked has no result.
WriteAhead == \A k \in Keys :
    /\ disk[k] = None => runs[k] = 0
    /\ runs[k] = 0 => disk[k] \in {None, Started}
    /\ loaded /\ records[k] = None => runs[k] = 0

\* The records in memory may be behind the file, never ahead of it.
MemoryLags == \A k \in Keys :
    /\ records[k] = Started => disk[k] # None
    /\ records[k] \in Results => disk[k] = records[k]

\* What the owner of a promise knows at the step where it is.
ActiveInv == \A k \in Keys :
    /\ active[k] # "absent" => loaded
    /\ active[k] = "start" => records[k] = None
    /\ active[k] \in {"invoke", "operation", "complete"} =>
         disk[k] = Started /\ records[k] = Started
    /\ active[k] = "invoke" => runs[k] = 0
    /\ active[k] \in {"operation", "complete"} => runs[k] = 1
    /\ active[k] = "complete" => outcome[k] \in Results
    /\ active[k] = "settled" =>
         \/ outcome[k] = Failed
         \/ outcome[k] \in Results /\ disk[k] = outcome[k]

\* A call has a key, looks it up in a loaded journal, and somebody waits for
\* every effect that is under way.
CallerInv ==
    /\ \A c \in Callers : /\ caller[c].pc # "idle" => caller[c].key \in Keys
                          /\ caller[c].pc \in {"lookup", "wait"} => loaded
    /\ \A k \in Keys : active[k] \in UnderWay =>
         \E c \in Callers : caller[c] = [pc |-> "wait", key |-> k]

JournalInv == /\ JournalTypeOK /\ EffectOnce
              /\ WriteAhead /\ MemoryLags /\ ActiveInv /\ CallerInv

\* The calls that may run have a consent of their own or one for the session.
CallsAreConsented == \A c \in Callers : gate[c].pc \in Running => Consented(c)

IInv == /\ TypeOK /\ JournalInv
        /\ CallsAreConsented /\ grants \subseteq opened

USE DEF UnderWay, Running

-----------------------------------------------------------------------------
(* What the updates of a call of the journal do, field by field *)

Calls == [pc : {"idle", "load", "lookup", "wait"}, key : Keys \cup {None}]
Replies == [Keys -> SUBSET (Results \cup {Uncertain})]

LEMMA CallerTypes == JournalTypeOK => caller \in [Callers -> Calls]
BY DEF JournalTypeOK, Calls

LEMMA TypesSuffice ==
  ASSUME disk' \in [Keys -> Lines], records' \in [Keys -> Lines],
         torn' \in BOOLEAN, loaded' \in BOOLEAN, active' \in [Keys -> Phases],
         outcome' \in [Keys -> {None, Failed} \cup Results],
         caller' \in [Callers -> Calls], runs' \in [Keys -> Nat], replies' \in Replies
  PROVE  JournalTypeOK'
BY DEF JournalTypeOK, Calls, Replies

LEMMA CallIdle ==
  ASSUME JournalTypeOK, NEW c \in Callers, caller' = [caller EXCEPT ![c] = Idle]
  PROVE  /\ caller' \in [Callers -> Calls]
         /\ caller'[c].pc = "idle"
         /\ \A d \in Callers : d # c => caller'[d] = caller[d]
<1>1. Idle \in Calls /\ Idle.pc = "idle" BY DEF Calls
<1> QED BY <1>1, CallerTypes

LEMMA CallGoes ==
  ASSUME JournalTypeOK, NEW c \in Callers, NEW x \in {"load", "lookup", "wait"},
         caller' = [caller EXCEPT ![c].pc = x]
  PROVE  /\ caller' \in [Callers -> Calls]
         /\ caller'[c] = [pc |-> x, key |-> caller[c].key]
         /\ caller'[c].pc = x /\ caller'[c].key = caller[c].key
         /\ \A d \in Callers : d # c => caller'[d] = caller[d]
<1> DEFINE v == [caller[c] EXCEPT !.pc = x]
<1>1. caller[c] \in Calls BY CallerTypes
<1>2. v \in Calls /\ v = [pc |-> x, key |-> caller[c].key] /\ v.pc = x /\ v.key = caller[c].key
  BY <1>1 DEF Calls
<1>3. caller' = [caller EXCEPT ![c] = v] OBVIOUS
<1> HIDE DEF v
<1> QED BY <1>2, <1>3, CallerTypes

LEMMA Told ==
  ASSUME JournalTypeOK, NEW k \in Keys, NEW a \in Results \cup {Uncertain, Failed}, Tell(k, a)
  PROVE  replies' \in Replies
<1>1. CASE a = Failed BY <1>1 DEF Tell, JournalTypeOK, Replies
<1>2. CASE a # Failed
  <2>1. replies[k] \cup {a} \in SUBSET (Results \cup {Uncertain}) BY <1>2 DEF JournalTypeOK
  <2>2. replies' = [replies EXCEPT ![k] = @ \cup {a}] BY <1>2 DEF Tell
  <2> QED BY <2>1, <2>2 DEF JournalTypeOK, Replies
<1> QED BY <1>1, <1>2

\* A promise that settles resumes everyone who waits for it and nobody else.
LEMMA SettledCalls ==
  ASSUME JournalTypeOK, NEW k \in Keys, NEW a \in {Failed} \cup Results, Settle(k, a)
  PROVE  /\ caller' \in [Callers -> Calls]
         /\ \A c \in Callers : caller'[c] = caller[c] \/ caller'[c].pc = "idle"
         /\ \A c \in Callers : caller[c].key # k => caller'[c] = caller[c]
         /\ active' \in [Keys -> Phases] /\ active'[k] = "settled"
         /\ \A j \in Keys : j # k => active'[j] = active[j]
         /\ outcome' \in [Keys -> {None, Failed} \cup Results] /\ outcome'[k] = a
         /\ \A j \in Keys : j # k => outcome'[j] = outcome[j]
<1>1. Idle \in Calls /\ Idle.pc = "idle" BY DEF Calls
<1>2. \A c \in Callers : caller[c] \in Calls BY CallerTypes
<1>3. \A c \in Callers : caller'[c] = IF caller[c] = [pc |-> "wait", key |-> k] THEN Idle ELSE caller[c]
  BY DEF Settle
<1>4. caller' \in [Callers -> Calls] BY <1>1, <1>2 DEF Settle
<1>5. \A c \in Callers : caller'[c] = caller[c] \/ caller'[c].pc = "idle" BY <1>1, <1>3
<1>6. \A c \in Callers : caller[c].key # k => caller'[c] = caller[c] BY <1>3
<1>7. /\ active' \in [Keys -> Phases] /\ active'[k] = "settled"
      /\ \A j \in Keys : j # k => active'[j] = active[j]
  BY DEF Settle, JournalTypeOK, Phases
<1>8. /\ outcome' \in [Keys -> {None, Failed} \cup Results] /\ outcome'[k] = a
      /\ \A j \in Keys : j # k => outcome'[j] = outcome[j]
  BY DEF Settle, JournalTypeOK
<1> QED BY <1>4, <1>5, <1>6, <1>7, <1>8

-----------------------------------------------------------------------------
(* The journal keeps its part of the invariant *)

LEMMA JournalInitInv == JournalInit => JournalInv
<1> SUFFICES ASSUME JournalInit PROVE JournalInv OBVIOUS
<1> USE ResultsAssumption DEF JournalInit
<1>1. JournalTypeOK BY DEF JournalTypeOK, Lines, Phases
<1>2. EffectOnce BY DEF EffectOnce
<1>3. WriteAhead BY DEF WriteAhead
<1>4. MemoryLags BY DEF MemoryLags
<1>5. ActiveInv BY DEF ActiveInv
<1>6. CallerInv BY DEF CallerInv
<1> QED BY <1>1, <1>2, <1>3, <1>4, <1>5, <1>6 DEF JournalInv

LEMMA CallInv ==
  ASSUME JournalInv, NEW c \in Callers, NEW k \in Keys, Call(c, k)
  PROVE  JournalInv'
<1> USE ResultsAssumption DEF JournalInv
<1>a. /\ caller[c].pc = "idle"
      /\ UNCHANGED <<disk, torn, loaded, records, active, outcome, runs, replies>>
  BY DEF Call
<1>b. /\ caller' \in [Callers -> Calls] /\ caller'[c].pc = "load" /\ caller'[c].key = k
      /\ \A d \in Callers : d # c => caller'[d] = caller[d]
  <2> DEFINE v == [pc |-> "load", key |-> k]
  <2>1. v \in Calls /\ v.pc = "load" /\ v.key = k BY DEF Calls
  <2>2. caller' = [caller EXCEPT ![c] = v] BY DEF Call
  <2> HIDE DEF v
  <2> QED BY <2>1, <2>2, CallerTypes
<1>1. JournalTypeOK' BY <1>a, <1>b, TypesSuffice DEF JournalTypeOK, Replies
<1>2. EffectOnce' BY <1>a DEF EffectOnce
<1>3. WriteAhead' BY <1>a DEF WriteAhead
<1>4. MemoryLags' BY <1>a DEF MemoryLags
<1>5. ActiveInv' BY <1>a DEF ActiveInv
<1>6. CallerInv'
  <2>1. \A j \in Keys, d \in Callers : caller[d] = [pc |-> "wait", key |-> j] => caller'[d] = caller[d]
    BY <1>a, <1>b
  <2> QED BY <1>a, <1>b, <2>1 DEF CallerInv
<1> QED BY <1>1, <1>2, <1>3, <1>4, <1>5, <1>6

LEMMA LoadInv ==
  ASSUME JournalInv, NEW c \in Callers, Load(c)
  PROVE  JournalInv'
<1> USE ResultsAssumption DEF JournalInv
<1>a. /\ caller[c].pc = "load" /\ loaded' = TRUE /\ records' = IF loaded THEN records ELSE disk
      /\ UNCHANGED <<disk, torn, active, outcome, runs, replies>>
  BY DEF Load
<1>b. /\ caller' \in [Callers -> Calls] /\ caller'[c].pc = "lookup" /\ caller'[c].key = caller[c].key
      /\ \A d \in Callers : d # c => caller'[d] = caller[d]
  BY CallGoes DEF Load
<1>1. JournalTypeOK' BY <1>a, <1>b, TypesSuffice DEF JournalTypeOK, Replies
<1>2. EffectOnce' BY <1>a DEF EffectOnce
<1>3. WriteAhead' BY <1>a DEF WriteAhead
<1>4. MemoryLags' BY <1>a DEF MemoryLags
<1>5. ActiveInv' BY <1>a DEF ActiveInv
<1>6. CallerInv'
  <2>1. \A j \in Keys, d \in Callers : caller[d] = [pc |-> "wait", key |-> j] => caller'[d] = caller[d]
    BY <1>a, <1>b
  <2> QED BY <1>a, <1>b, <2>1 DEF CallerInv
<1> QED BY <1>1, <1>2, <1>3, <1>4, <1>5, <1>6

LEMMA LoadFailsInv ==
  ASSUME JournalInv, NEW c \in Callers, LoadFails(c)
  PROVE  JournalInv'
<1> USE ResultsAssumption DEF JournalInv
<1>a. /\ caller[c].pc = "load"
      /\ UNCHANGED <<disk, torn, loaded, records, active, outcome, runs, replies>>
  BY DEF LoadFails
<1>b. /\ caller' \in [Callers -> Calls] /\ caller'[c].pc = "idle"
      /\ \A d \in Callers : d # c => caller'[d] = caller[d]
  BY CallIdle DEF LoadFails
<1>1. JournalTypeOK' BY <1>a, <1>b, TypesSuffice DEF JournalTypeOK, Replies
<1>2. EffectOnce' BY <1>a DEF EffectOnce
<1>3. WriteAhead' BY <1>a DEF WriteAhead
<1>4. MemoryLags' BY <1>a DEF MemoryLags
<1>5. ActiveInv' BY <1>a DEF ActiveInv
<1>6. CallerInv'
  <2>1. \A j \in Keys, d \in Callers : caller[d] = [pc |-> "wait", key |-> j] => caller'[d] = caller[d]
    BY <1>a, <1>b
  <2> QED BY <1>a, <1>b, <2>1 DEF CallerInv
<1> QED BY <1>1, <1>2, <1>3, <1>4, <1>5, <1>6

\* A lookup answers the call, or makes it wait for the effect of its key.
LEMMA LookupInv ==
  ASSUME JournalInv, NEW c \in Callers, Lookup(c)
  PROVE  JournalInv'
<1> USE ResultsAssumption DEF JournalInv
<1> DEFINE k == caller[c].key
<1>a. /\ caller[c].pc = "lookup" /\ k \in Keys /\ loaded
      /\ UNCHANGED <<disk, torn, loaded, records, outcome, runs>>
  BY DEF Lookup, CallerInv
<1>b. \/ caller' = [caller EXCEPT ![c] = Idle] /\ UNCHANGED active
      \/ /\ caller' = [caller EXCEPT ![c].pc = "wait"]
         /\ \/ active[k] # "absent" /\ UNCHANGED active
            \/ records[k] = None /\ active' = [active EXCEPT ![k] = "start"]
  BY DEF Lookup, JoinActive, AnswerRecord, StartEffect
<1>c. /\ caller' \in [Callers -> Calls]
      /\ \A d \in Callers : d # c => caller'[d] = caller[d]
      /\ \/ caller'[c].pc = "idle" /\ UNCHANGED active
         \/ caller'[c] = [pc |-> "wait", key |-> k] /\ caller'[c].pc = "wait" /\ caller'[c].key = k
  BY <1>b, CallIdle, CallGoes
<1>d. /\ active' \in [Keys -> Phases]
      /\ \A j \in Keys : active'[j] = active[j] \/ (/\ j = k /\ records[k] = None
                                                    /\ active'[k] = "start"
                                                    /\ caller'[c].pc = "wait")
  <2>1. active \in [Keys -> Phases] BY DEF JournalTypeOK
  <2>2. CASE UNCHANGED active BY <2>1, <2>2
  <2>3. CASE /\ caller' = [caller EXCEPT ![c].pc = "wait"] /\ records[k] = None
             /\ active' = [active EXCEPT ![k] = "start"]
    <3>1. caller'[c].pc = "wait" BY <2>3, CallGoes
    <3>2. /\ active' \in [Keys -> Phases] /\ active'[k] = "start"
          /\ \A j \in Keys : j # k => active'[j] = active[j]
      BY <1>a, <2>1, <2>3 DEF Phases
    <3> QED BY <2>3, <3>1, <3>2
  <2> QED BY <1>b, <2>2, <2>3
<1>e. replies' \in Replies
  <2>1. CASE UNCHANGED replies BY <2>1 DEF JournalTypeOK, Replies
  <2>2. CASE active[k] = "settled" /\ Tell(k, outcome[k])
    BY <1>a, <2>2, Told DEF ActiveInv
  <2>3. CASE Tell(k, IF records[k] = Started THEN Uncertain ELSE records[k]) /\ records[k] # None
    <3>1. records[k] \in Lines BY <1>a DEF JournalTypeOK
    <3> QED BY <1>a, <2>3, <3>1, Told DEF Lines
  <2> QED BY <2>1, <2>2, <2>3 DEF Lookup, JoinActive, AnswerRecord, StartEffect
<1>1. JournalTypeOK' BY <1>a, <1>c, <1>d, <1>e, TypesSuffice DEF JournalTypeOK
<1>2. EffectOnce' BY <1>a DEF EffectOnce
<1>3. WriteAhead' BY <1>a DEF WriteAhead
<1>4. MemoryLags' BY <1>a DEF MemoryLags
<1>5. ActiveInv' BY <1>a, <1>d DEF ActiveInv
<1>6. CallerInv'
  <2>1. \A j \in Keys, d \in Callers : caller[d] = [pc |-> "wait", key |-> j] => caller'[d] = caller[d]
    BY <1>a, <1>c
  <2>2. \A j \in Keys : active'[j] \in UnderWay =>
          \E d \in Callers : caller'[d] = [pc |-> "wait", key |-> j]
    <3> SUFFICES ASSUME NEW j \in Keys, active'[j] \in UnderWay
                 PROVE  \E d \in Callers : caller'[d] = [pc |-> "wait", key |-> j]
      OBVIOUS
    <3>1. CASE active'[j] = active[j] BY <2>1, <3>1 DEF CallerInv
    <3>2. CASE j = k /\ caller'[c].pc = "wait" BY <1>c, <3>2
    <3> QED BY <1>d, <3>1, <3>2
  <2> QED BY <1>a, <1>c, <2>2 DEF CallerInv
<1> QED BY <1>1, <1>2, <1>3, <1>4, <1>5, <1>6

LEMMA WriteStartedInv ==
  ASSUME JournalInv, NEW k \in Keys, WriteStarted(k)
  PROVE  JournalInv'
<1> USE ResultsAssumption DEF JournalInv
<1>a. active[k] = "start" /\ UNCHANGED <<torn, loaded, outcome, caller, runs, replies>>
  BY DEF WriteStarted
<1>b. /\ disk' \in [Keys -> Lines] /\ records' \in [Keys -> Lines] /\ active' \in [Keys -> Phases]
      /\ disk'[k] = Started /\ records'[k] = Started /\ active'[k] = "invoke"
      /\ \A j \in Keys : j # k => /\ disk'[j] = disk[j] /\ records'[j] = records[j]
                                  /\ active'[j] = active[j]
  BY DEF WriteStarted, JournalTypeOK, Lines, Phases
<1>c. runs[k] = 0 BY <1>a DEF ActiveInv, WriteAhead
<1>1. JournalTypeOK' BY <1>a, <1>b DEF JournalTypeOK
<1>2. EffectOnce' BY <1>a DEF EffectOnce
<1>3. WriteAhead' BY <1>a, <1>b, <1>c DEF WriteAhead
<1>4. MemoryLags' BY <1>a, <1>b DEF MemoryLags
<1>5. ActiveInv' BY <1>a, <1>b, <1>c DEF ActiveInv
<1>6. CallerInv' BY <1>a, <1>b DEF CallerInv
<1> QED BY <1>1, <1>2, <1>3, <1>4, <1>5, <1>6

LEMMA InvokeOperationInv ==
  ASSUME JournalInv, NEW k \in Keys, InvokeOperation(k)
  PROVE  JournalInv'
<1> USE ResultsAssumption DEF JournalInv
<1>a. /\ active[k] = "invoke" /\ runs[k] = 0 /\ disk[k] = Started /\ records[k] = Started
      /\ UNCHANGED <<disk, torn, loaded, records, outcome, caller, replies>>
  BY DEF InvokeOperation, ActiveInv
<1>b. /\ active' \in [Keys -> Phases] /\ runs' \in [Keys -> Nat]
      /\ active'[k] = "operation" /\ runs'[k] = 1
      /\ \A j \in Keys : j # k => active'[j] = active[j] /\ runs'[j] = runs[j]
  BY <1>a DEF InvokeOperation, JournalTypeOK, Phases
<1>1. JournalTypeOK' BY <1>a, <1>b DEF JournalTypeOK
<1>2. EffectOnce' BY <1>b DEF EffectOnce
<1>3. WriteAhead' BY <1>a, <1>b DEF WriteAhead
<1>4. MemoryLags' BY <1>a, <1>b DEF MemoryLags
<1>5. ActiveInv' BY <1>a, <1>b DEF ActiveInv
<1>6. CallerInv' BY <1>a, <1>b DEF CallerInv
<1> QED BY <1>1, <1>2, <1>3, <1>4, <1>5, <1>6

LEMMA OperationReturnsInv ==
  ASSUME JournalInv, NEW k \in Keys, NEW r \in Results, OperationReturns(k, r)
  PROVE  JournalInv'
<1> USE ResultsAssumption DEF JournalInv
<1>a. /\ active[k] = "operation" /\ UNCHANGED <<disk, torn, loaded, records, caller, runs, replies>>
  BY DEF OperationReturns
<1>b. /\ active' \in [Keys -> Phases] /\ outcome' \in [Keys -> {None, Failed} \cup Results]
      /\ active'[k] = "complete" /\ outcome'[k] = r
      /\ \A j \in Keys : j # k => active'[j] = active[j] /\ outcome'[j] = outcome[j]
  BY <1>a DEF OperationReturns, JournalTypeOK, Phases
<1>1. JournalTypeOK' BY <1>a, <1>b DEF JournalTypeOK
<1>2. EffectOnce' BY <1>a DEF EffectOnce
<1>3. WriteAhead' BY <1>a, <1>b DEF WriteAhead
<1>4. MemoryLags' BY <1>a, <1>b DEF MemoryLags
<1>5. ActiveInv' BY <1>a, <1>b DEF ActiveInv
<1>6. CallerInv' BY <1>a, <1>b DEF CallerInv
<1> QED BY <1>1, <1>2, <1>3, <1>4, <1>5, <1>6

LEMMA DeleteActiveInv ==
  ASSUME JournalInv, NEW k \in Keys, DeleteActive(k)
  PROVE  JournalInv'
<1> USE ResultsAssumption DEF JournalInv
<1>a. UNCHANGED <<disk, torn, loaded, records, caller, runs, replies>>
  BY DEF DeleteActive
<1>b. /\ active' \in [Keys -> Phases] /\ outcome' \in [Keys -> {None, Failed} \cup Results]
      /\ active'[k] = "absent"
      /\ \A j \in Keys : j # k => active'[j] = active[j] /\ outcome'[j] = outcome[j]
  BY <1>a DEF DeleteActive, JournalTypeOK, Phases
<1>1. JournalTypeOK' BY <1>a, <1>b DEF JournalTypeOK
<1>2. EffectOnce' BY <1>a DEF EffectOnce
<1>3. WriteAhead' BY <1>a, <1>b DEF WriteAhead
<1>4. MemoryLags' BY <1>a, <1>b DEF MemoryLags
<1>5. ActiveInv' BY <1>a, <1>b DEF ActiveInv
<1>6. CallerInv' BY <1>a, <1>b DEF CallerInv
<1> QED BY <1>1, <1>2, <1>3, <1>4, <1>5, <1>6

\* What the end of a promise preserves, whichever line it left in the file.
LEMMA SettleInv ==
  ASSUME JournalInv, NEW k \in Keys, NEW a \in {Failed} \cup Results, Settle(k, a),
         active[k] \in UnderWay,
         UNCHANGED <<loaded, runs>>, torn' \in BOOLEAN, replies' \in Replies,
         NEW l \in Lines, disk' = [disk EXCEPT ![k] = l],
         NEW m \in Lines, records' = [records EXCEPT ![k] = m],
         a \in Results => l = a,
         m = Started => l # None, m \in Results => l = m,
         l = None => runs[k] = 0, runs[k] = 0 => l \in {None, Started},
         m = None => runs[k] = 0
  PROVE  JournalInv'
<1> USE ResultsAssumption DEF JournalInv
<1>a. /\ disk' \in [Keys -> Lines] /\ records' \in [Keys -> Lines]
      /\ disk'[k] = l /\ records'[k] = m
      /\ \A j \in Keys : j # k => disk'[j] = disk[j] /\ records'[j] = records[j]
  BY DEF JournalTypeOK
<1>b. /\ caller' \in [Callers -> Calls]
      /\ active' \in [Keys -> Phases] /\ active'[k] = "settled"
      /\ \A j \in Keys : j # k => active'[j] = active[j]
      /\ outcome' \in [Keys -> {None, Failed} \cup Results] /\ outcome'[k] = a
      /\ \A j \in Keys : j # k => outcome'[j] = outcome[j]
  BY SettledCalls
<1>c. /\ \A c \in Callers : caller'[c] = caller[c] \/ caller'[c].pc = "idle"
      /\ \A c \in Callers : caller[c].key # k => caller'[c] = caller[c]
  BY SettledCalls
<1>1. JournalTypeOK' BY <1>a, <1>b, TypesSuffice DEF JournalTypeOK
<1>2. EffectOnce' BY DEF EffectOnce
<1>3. WriteAhead' BY <1>a DEF WriteAhead
<1>4. MemoryLags' BY <1>a DEF MemoryLags
<1>5. ActiveInv' BY <1>a, <1>b DEF ActiveInv
<1>6. CallerInv'
  <2>1. \A j \in Keys, c \in Callers :
          j # k /\ caller[c] = [pc |-> "wait", key |-> j] => caller'[c] = caller[c]
    BY <1>c
  <2>2. \A j \in Keys : active'[j] \in UnderWay =>
          \E c \in Callers : caller'[c] = [pc |-> "wait", key |-> j]
    <3> SUFFICES ASSUME NEW j \in Keys, active'[j] \in UnderWay
                 PROVE  \E c \in Callers : caller'[c] = [pc |-> "wait", key |-> j]
      OBVIOUS
    <3>1. j # k /\ active[j] \in UnderWay BY <1>b
    <3> QED BY <2>1, <3>1 DEF CallerInv
  <2>3. \A c \in Callers : /\ caller'[c].pc # "idle" => caller'[c].key \in Keys
                           /\ caller'[c].pc \in {"lookup", "wait"} => loaded'
    BY <1>c DEF CallerInv
  <2> QED BY <2>2, <2>3 DEF CallerInv
<1> QED BY <1>1, <1>2, <1>3, <1>4, <1>5, <1>6

LEMMA OperationThrowsInv ==
  ASSUME JournalInv, NEW k \in Keys, OperationThrows(k)
  PROVE  JournalInv'
<1> USE ResultsAssumption DEF JournalInv
<1>1. active[k] = "operation" /\ disk[k] = Started /\ records[k] = Started /\ runs[k] = 1
  BY DEF OperationThrows, ActiveInv
<1>2. disk' = [disk EXCEPT ![k] = Started] /\ records' = [records EXCEPT ![k] = Started]
  BY <1>1 DEF OperationThrows, JournalTypeOK
<1>3. /\ Settle(k, Failed) /\ UNCHANGED <<loaded, runs>>
      /\ torn' \in BOOLEAN /\ replies' \in Replies
  BY DEF OperationThrows, JournalTypeOK, Replies
<1>4. Started \in Lines /\ Failed \in {Failed} \cup Results BY DEF Lines
<1> QED BY <1>1, <1>2, <1>3, <1>4, SettleInv

LEMMA WriteCompletedInv ==
  ASSUME JournalInv, NEW k \in Keys, WriteCompleted(k)
  PROVE  JournalInv'
<1> USE ResultsAssumption DEF JournalInv
<1>1. active[k] = "complete" /\ outcome[k] \in Results /\ runs[k] = 1
  BY DEF WriteCompleted, ActiveInv
<1>2. PICK r \in Results : r = outcome[k] BY <1>1
<1>3. disk' = [disk EXCEPT ![k] = r] /\ records' = [records EXCEPT ![k] = r]
  BY <1>2 DEF WriteCompleted
<1>4. Settle(k, r) /\ Tell(k, r) /\ UNCHANGED <<torn, loaded, runs>>
  BY <1>2 DEF WriteCompleted
<1>5. torn' \in BOOLEAN /\ replies' \in Replies BY <1>4, Told DEF JournalTypeOK
<1>6. r \in Lines /\ r \in {Failed} \cup Results BY DEF Lines
<1>7. r # Started /\ r # None /\ runs[k] # 0 /\ active[k] \in UnderWay BY <1>1
<1> QED BY <1>3, <1>4, <1>5, <1>6, <1>7, SettleInv

LEMMA WriteFailsInv ==
  ASSUME JournalInv, NEW k \in Keys, WriteFails(k)
  PROVE  JournalInv'
<1> USE ResultsAssumption DEF JournalInv
<1>1. /\ Settle(k, Failed) /\ UNCHANGED <<loaded, records, runs, replies>>
      /\ torn' \in BOOLEAN /\ replies' \in Replies
  BY DEF WriteFails, LeaveLine, JournalTypeOK, Replies
<1>2. records[k] \in Lines /\ disk[k] \in Lines /\ Started \in Lines BY DEF JournalTypeOK, Lines
<1>3. records' = [records EXCEPT ![k] = records[k]] BY <1>1 DEF JournalTypeOK
<1>4. CASE UNCHANGED disk
  <2>1. disk' = [disk EXCEPT ![k] = disk[k]] BY <1>4 DEF JournalTypeOK
  <2>2. active[k] \in {"start", "complete"} BY DEF WriteFails
  <2>3. /\ records[k] = Started => disk[k] # None
        /\ records[k] \in Results => disk[k] = records[k]
        /\ disk[k] = None => runs[k] = 0
        /\ runs[k] = 0 => disk[k] \in {None, Started}
        /\ records[k] = None => runs[k] = 0
    BY <2>2 DEF MemoryLags, WriteAhead, ActiveInv
  <2> QED BY <1>1, <1>2, <1>3, <2>1, <2>2, <2>3, SettleInv
<1>5. CASE active[k] = "start" /\ disk' = [disk EXCEPT ![k] = Started]
  <2>1. records[k] = None /\ runs[k] = 0 BY <1>5 DEF ActiveInv, WriteAhead
  <2> QED BY <1>1, <1>2, <1>3, <1>5, <2>1, SettleInv
<1>6. CASE active[k] = "complete" /\ disk' = [disk EXCEPT ![k] = outcome[k]]
  <2>1. records[k] = Started /\ runs[k] = 1 /\ outcome[k] \in Results BY <1>6 DEF ActiveInv
  <2>2. PICK r \in Results : r = outcome[k] BY <2>1
  <2>3. disk' = [disk EXCEPT ![k] = r] /\ r \in Lines BY <1>6, <2>2 DEF Lines
  <2>4. PICK m \in Lines : m = records[k] BY <1>2
  <2>5. records' = [records EXCEPT ![k] = m] /\ m = Started BY <1>3, <2>1, <2>4
  <2>6. r # None /\ runs[k] # 0 /\ active[k] \in UnderWay BY <1>6, <2>1
  <2> QED BY <1>1, <2>3, <2>5, <2>6, SettleInv
<1> QED BY <1>4, <1>5, <1>6 DEF WriteFails, LeaveLine

\* The line that an interrupted append leaves is as good as none.
LEMMA JournalCrashInv ==
  ASSUME JournalInv, JournalCrash
  PROVE  JournalInv'
<1> USE ResultsAssumption DEF JournalInv
<1>a. /\ loaded' = FALSE /\ records' = [k \in Keys |-> None]
      /\ active' = [k \in Keys |-> "absent"] /\ outcome' = [k \in Keys |-> None]
      /\ caller' = [c \in Callers |-> Idle] /\ UNCHANGED <<runs, replies>>
      /\ torn' \in BOOLEAN
  BY DEF JournalCrash, LeaveLine, JournalTypeOK
<1>b. \/ UNCHANGED disk
      \/ \E k \in Keys : active[k] = "start" /\ disk' = [disk EXCEPT ![k] = Started]
      \/ \E k \in Keys : active[k] = "complete" /\ disk' = [disk EXCEPT ![k] = outcome[k]]
  BY DEF JournalCrash, LeaveLine
<1>c. /\ disk' \in [Keys -> Lines]
      /\ \A k \in Keys : \/ disk'[k] = disk[k]
                         \/ disk'[k] = Started /\ runs[k] = 0
                         \/ disk'[k] \in Results /\ runs[k] = 1
  <2>1. CASE UNCHANGED disk BY <2>1 DEF JournalTypeOK
  <2>2. CASE \E k \in Keys : active[k] = "start" /\ disk' = [disk EXCEPT ![k] = Started]
    <3>1. PICK k \in Keys : active[k] = "start" /\ disk' = [disk EXCEPT ![k] = Started] BY <2>2
    <3>2. runs[k] = 0 BY <3>1 DEF ActiveInv, WriteAhead
    <3> QED BY <3>1, <3>2 DEF JournalTypeOK, Lines
  <2>3. CASE \E k \in Keys : active[k] = "complete" /\ disk' = [disk EXCEPT ![k] = outcome[k]]
    <3>1. PICK k \in Keys : active[k] = "complete" /\ disk' = [disk EXCEPT ![k] = outcome[k]] BY <2>3
    <3>2. runs[k] = 1 /\ outcome[k] \in Results BY <3>1 DEF ActiveInv
    <3> QED BY <3>1, <3>2 DEF JournalTypeOK, Lines
  <2> QED BY <1>b, <2>1, <2>2, <2>3
<1>d. caller' \in [Callers -> Calls] BY <1>a DEF Calls
<1>1. JournalTypeOK' BY <1>a, <1>c, <1>d, TypesSuffice DEF JournalTypeOK, Lines, Phases, Replies
<1>2. EffectOnce' BY <1>a DEF EffectOnce
<1>3. WriteAhead' BY <1>a, <1>c DEF WriteAhead
<1>4. MemoryLags' BY <1>a DEF MemoryLags
<1>5. ActiveInv' BY <1>a DEF ActiveInv
<1>6. CallerInv' BY <1>a DEF CallerInv
<1> QED BY <1>1, <1>2, <1>3, <1>4, <1>5, <1>6

LEMMA JournalStepInv ==
  ASSUME JournalInv, \/ \E c \in Callers : ExecuteStep(c)
                     \/ \E k \in Keys : EffectStep(k)
  PROVE  JournalInv'
BY LoadInv, LoadFailsInv, LookupInv, WriteStartedInv, InvokeOperationInv, OperationReturnsInv,
   OperationThrowsInv, WriteCompletedInv, WriteFailsInv, DeleteActiveInv
   DEF ExecuteStep, EffectStep

\* Only Call makes a call wait in the journal.
LEMMA JournalStepCalls ==
  ASSUME JournalInv, \/ \E c \in Callers : ExecuteStep(c)
                     \/ \E k \in Keys : EffectStep(k)
  PROVE  \A c \in Callers : caller'[c].pc # "idle" =>
            caller[c].pc # "idle" /\ caller'[c].key = caller[c].key
<1> USE DEF JournalInv
<1>1. ASSUME NEW c \in Callers, NEW x \in {"lookup", "wait"},
             caller[c].pc # "idle", caller' = [caller EXCEPT ![c].pc = x]
      PROVE  \A d \in Callers : caller'[d].pc # "idle" =>
                caller[d].pc # "idle" /\ caller'[d].key = caller[d].key
  BY <1>1, CallGoes
<1>2. ASSUME NEW c \in Callers, caller' = [caller EXCEPT ![c] = Idle]
      PROVE  \A d \in Callers : caller'[d].pc # "idle" =>
                caller[d].pc # "idle" /\ caller'[d].key = caller[d].key
  BY <1>2, CallIdle
<1>3. ASSUME NEW k \in Keys, NEW a \in {Failed} \cup Results, Settle(k, a)
      PROVE  \A d \in Callers : caller'[d].pc # "idle" =>
                caller[d].pc # "idle" /\ caller'[d].key = caller[d].key
  BY <1>3, SettledCalls
<1>4. CASE \E c \in Callers : ExecuteStep(c)
  <2>1. PICK c \in Callers : ExecuteStep(c) BY <1>4
  <2>2. /\ caller[c].pc # "idle"
        /\ \/ caller' = [caller EXCEPT ![c].pc = "lookup"]
           \/ caller' = [caller EXCEPT ![c].pc = "wait"]
           \/ caller' = [caller EXCEPT ![c] = Idle]
    BY <2>1 DEF ExecuteStep, Load, LoadFails, Lookup, JoinActive, AnswerRecord, StartEffect
  <2> QED BY <1>1, <1>2, <2>2
<1>5. CASE \E k \in Keys : EffectStep(k)
  <2>1. PICK k \in Keys : EffectStep(k) BY <1>5
  <2>2. CASE WriteCompleted(k)
    <3>1. outcome[k] \in Results /\ Settle(k, outcome[k])
      BY <2>2 DEF WriteCompleted, ActiveInv
    <3> QED BY <1>3, <3>1
  <2>3. CASE OperationThrows(k) \/ WriteFails(k)
    BY <1>3, <2>3 DEF OperationThrows, WriteFails
  <2>4. CASE UNCHANGED caller BY <2>4
  <2> QED BY <2>1, <2>2, <2>3, <2>4
          DEF EffectStep, WriteStarted, InvokeOperation, OperationReturns, DeleteActive
<1> QED BY <1>4, <1>5

-----------------------------------------------------------------------------
(* The broker and the approvals *)

Gates == [pc : Steps, key : Keys \cup {None}, scope : Scopes \cup {None}]

\* The part of TypeOK that is about the broker and the approvals.
GateTypeOK ==
    /\ gate \in [Callers -> Gates]
    /\ \A c \in Callers : gate[c].pc # "idle" => gate[c].key \in Keys /\ gate[c].scope \in Scopes
    /\ pending = {c \in Callers : gate[c].pc = "pending"}
    /\ grants \subseteq Scopes /\ opened \subseteq Scopes
    /\ answer \in [Callers -> Answers]

\* The journal knows a call only while the broker waits for it.
WaitsInJournal == \A c \in Callers :
    caller[c].pc # "idle" => gate[c].pc = "effect" /\ gate[c].key = caller[c].key

LEMMA TypeParts == TypeOK <=> JournalTypeOK /\ GateTypeOK /\ WaitsInJournal
BY DEF TypeOK, GateTypeOK, WaitsInJournal, Gates

\* The steps of the broker and of the approvals go to one place for one call.
LEMMA GateGoes ==
  ASSUME GateTypeOK, NEW c \in Callers, NEW x \in Steps, Goto(c, x)
  PROVE  /\ gate' \in [Callers -> Gates]
         /\ gate'[c].pc = x /\ gate'[c].key = gate[c].key /\ gate'[c].scope = gate[c].scope
         /\ \A d \in Callers : d # c => gate'[d] = gate[d]
<1> DEFINE v == [gate[c] EXCEPT !.pc = x]
<1>1. gate \in [Callers -> Gates] BY DEF GateTypeOK
<1>2. gate[c] \in Gates BY <1>1
<1>3. v \in Gates /\ v.pc = x /\ v.key = gate[c].key /\ v.scope = gate[c].scope
  BY <1>2 DEF Gates
<1>4. gate' = [gate EXCEPT ![c] = v] BY DEF Goto
<1> HIDE DEF v
<1> QED BY <1>1, <1>3, <1>4

LEMMA GateLeaves ==
  ASSUME GateTypeOK, NEW c \in Callers, Leave(c)
  PROVE  /\ gate' \in [Callers -> Gates] /\ gate'[c].pc = "idle"
         /\ \A d \in Callers : d # c => gate'[d] = gate[d]
         /\ answer' \in [Callers -> Answers]
         /\ \A d \in Callers : d # c => answer'[d] = answer[d]
<1>1. Away \in Gates /\ Away.pc = "idle" BY DEF Away, Gates, Steps
<1>2. gate' = [gate EXCEPT ![c] = Away] /\ answer' = [answer EXCEPT ![c] = None]
  BY DEF Leave
<1> QED BY <1>1, <1>2 DEF GateTypeOK, Answers

LEMMA Answers1 ==
  ASSUME GateTypeOK, NEW c \in Callers, NEW a \in Answers, answer' = [answer EXCEPT ![c] = a]
  PROVE  /\ answer' \in [Callers -> Answers] /\ answer'[c] = a
         /\ \A d \in Callers : d # c => answer'[d] = answer[d]
BY DEF GateTypeOK

\* The property follows from the consent of the calls that may run: somebody
\* waits for every effect, and only calls that may run wait in the journal.
LEMMA ConsentSuffices == TypeOK /\ JournalInv /\ CallsAreConsented => RunsAreConsented
<1> SUFFICES ASSUME TypeOK, JournalInv, CallsAreConsented PROVE RunsAreConsented OBVIOUS
<1>1. ASSUME NEW k \in Keys, active[k] \in UnderWay
      PROVE  \E c \in Callers : caller[c] = [pc |-> "wait", key |-> k] /\ Consented(c)
  <2>1. PICK c \in Callers : caller[c] = [pc |-> "wait", key |-> k]
    BY <1>1 DEF JournalInv, CallerInv
  <2>2. gate[c].pc = "effect" BY <2>1, TypeParts DEF WaitsInJournal
  <2> QED BY <2>1, <2>2 DEF CallsAreConsented
<1> QED BY <1>1 DEF CallsAreConsented, RunsAreConsented

\* What a step of one call must do to keep the invariant: only its own consent
\* and place, the pending requests and the grants may change.
LEMMA GateStepIInv ==
  ASSUME IInv, NEW c \in Callers, JournalInv', WaitsInJournal',
         gate' \in [Callers -> Gates], \A d \in Callers : d # c => gate'[d] = gate[d],
         answer' \in [Callers -> Answers], \A d \in Callers : d # c => answer'[d] = answer[d],
         gate'[c].pc # "idle" => gate'[c].key \in Keys /\ gate'[c].scope \in Scopes,
         pending' = IF gate'[c].pc = "pending" THEN pending \cup {c} ELSE pending \ {c},
         opened \subseteq opened', opened' \subseteq Scopes, grants' \subseteq opened',
         gate'[c].pc \in Running => Consented(c)'
  PROVE  IInv'
<1> USE TypeParts DEF IInv
<1>1. pending' = {d \in Callers : gate'[d].pc = "pending"} BY DEF GateTypeOK
<1>2. \A d \in Callers : gate'[d].pc # "idle" => gate'[d].key \in Keys /\ gate'[d].scope \in Scopes
  BY DEF GateTypeOK
<1>3. GateTypeOK' BY <1>1, <1>2 DEF GateTypeOK
<1>4. TypeOK' BY <1>3 DEF JournalInv, TypeOK, GateTypeOK, WaitsInJournal, Gates
<1>5. \A d \in Callers : d # c /\ Consented(d) => Consented(d)' BY DEF Consented
<1>6. CallsAreConsented' BY <1>5 DEF CallsAreConsented
<1> QED BY <1>4, <1>6

\* Most steps leave the journal alone.
LEMMA OutsideJournal ==
  ASSUME IInv, UNCHANGED journalVars, NEW c \in Callers, gate[c].pc # "effect" \/ caller[c].pc = "idle",
         \A d \in Callers : d # c => gate'[d] = gate[d]
  PROVE  JournalInv' /\ WaitsInJournal' /\ caller[c].pc = "idle"
<1>1. JournalInv'
  BY DEF IInv, journalVars, JournalInv, JournalTypeOK, EffectOnce, WriteAhead, MemoryLags,
         ActiveInv, CallerInv
<1>2. caller[c].pc = "idle" BY TypeParts DEF IInv, WaitsInJournal
<1>3. WaitsInJournal' BY <1>2, TypeParts DEF IInv, WaitsInJournal, journalVars
<1> QED BY <1>1, <1>2, <1>3

LEMMA LeaveIInv ==
  ASSUME IInv, NEW c \in Callers, Leave(c), gate[c].pc # "pending",
         gate[c].pc # "effect" \/ caller[c].pc = "idle",
         UNCHANGED <<pending, grants, opened, journalVars>>
  PROVE  IInv'
<1>1. GateTypeOK /\ grants \subseteq opened BY TypeParts DEF IInv
<1>2. /\ gate' \in [Callers -> Gates] /\ gate'[c].pc = "idle"
      /\ \A d \in Callers : d # c => gate'[d] = gate[d]
      /\ answer' \in [Callers -> Answers]
      /\ \A d \in Callers : d # c => answer'[d] = answer[d]
  BY <1>1, GateLeaves
<1>3. JournalInv' /\ WaitsInJournal' BY <1>2, OutsideJournal
<1>4. pending' = IF gate'[c].pc = "pending" THEN pending \cup {c} ELSE pending \ {c}
  BY <1>1, <1>2 DEF GateTypeOK
<1>5. opened \subseteq opened' /\ opened' \subseteq Scopes /\ grants' \subseteq opened'
  BY <1>1 DEF GateTypeOK
<1> QED BY <1>2, <1>3, <1>4, <1>5, GateStepIInv

\* A step that moves a call without touching the pending requests.
LEMMA GotoIInv ==
  ASSUME IInv, NEW c \in Callers, NEW x \in Steps \ {"pending"}, Goto(c, x),
         gate[c].pc \in Steps \ {"idle", "pending", "effect"},
         answer' \in [Callers -> Answers], \A d \in Callers : d # c => answer'[d] = answer[d],
         x \in Running => Consented(c)',
         UNCHANGED <<pending, grants, opened, journalVars>>
  PROVE  IInv'
<1>1. GateTypeOK /\ grants \subseteq opened BY TypeParts DEF IInv
<1>2. /\ gate' \in [Callers -> Gates]
      /\ gate'[c].pc = x /\ gate'[c].key = gate[c].key /\ gate'[c].scope = gate[c].scope
      /\ \A d \in Callers : d # c => gate'[d] = gate[d]
  BY <1>1, GateGoes
<1>3. JournalInv' /\ WaitsInJournal' BY <1>2, OutsideJournal
<1>4. pending' = IF gate'[c].pc = "pending" THEN pending \cup {c} ELSE pending \ {c}
  BY <1>1, <1>2 DEF GateTypeOK
<1>5. opened \subseteq opened' /\ opened' \subseteq Scopes /\ grants' \subseteq opened'
  BY <1>1 DEF GateTypeOK
<1>6. gate'[c].key \in Keys /\ gate'[c].scope \in Scopes BY <1>1, <1>2 DEF GateTypeOK
<1>7. gate'[c].pc \in Running => Consented(c)' BY <1>2
<1> QED BY <1>2, <1>3, <1>4, <1>5, <1>6, <1>7, GateStepIInv

LEMMA InitIInv == Init => IInv
<1> SUFFICES ASSUME Init PROVE IInv OBVIOUS
<1>1. JournalInv BY JournalInitInv DEF Init
<1>2. GateTypeOK BY DEF Init, GateTypeOK, Gates, Away, Steps, Answers
<1>3. \A c \in Callers : caller[c].pc = "idle" /\ gate[c].pc = "idle"
  BY DEF Init, JournalInit, Away
<1>4. WaitsInJournal /\ CallsAreConsented BY <1>3 DEF WaitsInJournal, CallsAreConsented
<1>5. grants \subseteq opened BY DEF Init
<1> QED BY <1>1, <1>2, <1>4, <1>5, TypeParts DEF IInv, JournalInv

LEMMA ExecuteIInv ==
  ASSUME IInv, NEW c \in Callers, NEW k \in Keys, NEW s \in Scopes, Execute(c, k, s)
  PROVE  IInv'
<1>1. GateTypeOK /\ grants \subseteq opened BY TypeParts DEF IInv
<1>2. gate[c].pc = "idle" /\ UNCHANGED <<pending, grants, answer, opened, journalVars>>
  BY DEF Execute
<1>3. /\ gate' \in [Callers -> Gates]
      /\ gate'[c].pc = "policy" /\ gate'[c].key = k /\ gate'[c].scope = s
      /\ \A d \in Callers : d # c => gate'[d] = gate[d]
  <2> DEFINE v == [pc |-> "policy", key |-> k, scope |-> s]
  <2>1. v \in Gates /\ v.pc = "policy" /\ v.key = k /\ v.scope = s BY DEF Gates, Steps
  <2>2. gate' = [gate EXCEPT ![c] = v] BY DEF Execute
  <2> HIDE DEF v
  <2> QED BY <1>1, <2>1, <2>2 DEF GateTypeOK
<1>4. JournalInv' /\ WaitsInJournal' BY <1>2, <1>3, OutsideJournal
<1>5. pending' = IF gate'[c].pc = "pending" THEN pending \cup {c} ELSE pending \ {c}
  BY <1>1, <1>2, <1>3 DEF GateTypeOK
<1>6. opened \subseteq opened' /\ opened' \subseteq Scopes /\ grants' \subseteq opened'
  BY <1>1, <1>2 DEF GateTypeOK
<1>7. /\ answer' \in [Callers -> Answers] /\ \A d \in Callers : d # c => answer'[d] = answer[d]
  BY <1>1, <1>2 DEF GateTypeOK
<1>8. gate'[c].pc \notin Running BY <1>3
<1> QED BY <1>3, <1>4, <1>5, <1>6, <1>7, <1>8, GateStepIInv

LEMMA DenyIInv ==
  ASSUME IInv, NEW c \in Callers, Deny(c) PROVE IInv'
BY LeaveIInv DEF Deny

LEMMA RefuseIInv ==
  ASSUME IInv, NEW c \in Callers, Refuse(c) PROVE IInv'
BY LeaveIInv DEF Refuse

LEMMA FinishIInv ==
  ASSUME IInv, NEW c \in Callers, Finish(c) PROVE IInv'
<1>1. gate[c].pc # "pending" /\ (gate[c].pc # "effect" \/ caller[c].pc = "idle") BY DEF Finish
<1>2. Leave(c) /\ UNCHANGED <<pending, grants, opened, journalVars>> BY DEF Finish
<1> QED BY <1>1, <1>2, LeaveIInv

\* The policy lets the low risk through.
LEMMA DecideIInv ==
  ASSUME IInv, NEW c \in Callers, Decide(c) PROVE IInv'
<1>1. GateTypeOK BY TypeParts DEF IInv
<1>2. gate[c].pc = "policy" /\ UNCHANGED <<pending, grants, answer, opened, journalVars>>
  BY DEF Decide
<1>3. answer' \in [Callers -> Answers] /\ \A d \in Callers : d # c => answer'[d] = answer[d]
  BY <1>1, <1>2 DEF GateTypeOK
<1>4. gate[c].pc \in Steps \ {"idle", "pending", "effect"} BY <1>2 DEF Steps
<1>5. CASE gate[c].scope \in LowRisk /\ Goto(c, "start")
  <2>1. gate'[c].scope = gate[c].scope BY <1>1, <1>5, GateGoes DEF Steps
  <2>2. Consented(c)' BY <1>5, <2>1 DEF Consented
  <2> QED BY <1>2, <1>3, <1>4, <1>5, <2>2, GotoIInv DEF Steps
<1>6. CASE Goto(c, "request") BY <1>2, <1>3, <1>4, <1>6, GotoIInv DEF Steps
<1> QED BY <1>5, <1>6 DEF Decide

\* A grant of the session lets the call through.
LEMMA RequestIInv ==
  ASSUME IInv, NEW c \in Callers, Request(c) PROVE IInv'
<1>1. GateTypeOK /\ grants \subseteq opened BY TypeParts DEF IInv
<1>2. gate[c].pc = "request" /\ UNCHANGED <<pending, grants, answer, opened, journalVars>>
  BY DEF Request
<1>3. answer' \in [Callers -> Answers] /\ \A d \in Callers : d # c => answer'[d] = answer[d]
  BY <1>1, <1>2 DEF GateTypeOK
<1>4. gate[c].pc \in Steps \ {"idle", "pending", "effect"} BY <1>2 DEF Steps
<1>5. CASE gate[c].scope \in grants
  <2>1. Goto(c, "start") BY <1>5 DEF Request
  <2>2. gate'[c].scope = gate[c].scope BY <1>1, <2>1, GateGoes DEF Steps
  <2>3. Consented(c)' BY <1>1, <1>2, <1>5, <2>2 DEF Consented
  <2> QED BY <1>2, <1>3, <1>4, <2>1, <2>3, GotoIInv DEF Steps
<1>6. CASE gate[c].scope \notin grants
  <2>1. Goto(c, "review") BY <1>6 DEF Request
  <2> QED BY <1>2, <1>3, <1>4, <2>1, GotoIInv DEF Steps
<1> QED BY <1>5, <1>6

LEMMA ReviewerApprovesIInv ==
  ASSUME IInv, NEW c \in Callers, ReviewerApproves(c) PROVE IInv'
<1>1. GateTypeOK BY TypeParts DEF IInv
<1>2. /\ gate[c].pc = "review" /\ Goto(c, "start") /\ answer' = [answer EXCEPT ![c] = "reviewer"]
      /\ UNCHANGED <<pending, grants, opened, journalVars>>
  BY DEF ReviewerApproves
<1>3. /\ answer' \in [Callers -> Answers] /\ answer'[c] = "reviewer"
      /\ \A d \in Callers : d # c => answer'[d] = answer[d]
  BY <1>1, <1>2, Answers1 DEF Answers
<1>4. gate[c].pc \in Steps \ {"idle", "pending", "effect"} BY <1>2 DEF Steps
<1>5. Consented(c)' BY <1>3 DEF Consented
<1> QED BY <1>2, <1>3, <1>4, <1>5, GotoIInv DEF Steps

LEMMA ReviewerEscalatesIInv ==
  ASSUME IInv, NEW c \in Callers, ReviewerEscalates(c) PROVE IInv'
<1>1. GateTypeOK /\ grants \subseteq opened BY TypeParts DEF IInv
<1>2. /\ gate[c].pc = "review" /\ Goto(c, "pending") /\ pending' = pending \cup {c}
      /\ UNCHANGED <<grants, answer, opened, journalVars>>
  BY DEF ReviewerEscalates
<1>3. /\ gate' \in [Callers -> Gates]
      /\ gate'[c].pc = "pending" /\ gate'[c].key = gate[c].key /\ gate'[c].scope = gate[c].scope
      /\ \A d \in Callers : d # c => gate'[d] = gate[d]
  BY <1>1, <1>2, GateGoes DEF Steps
<1>4. JournalInv' /\ WaitsInJournal' BY <1>2, <1>3, OutsideJournal
<1>5. pending' = IF gate'[c].pc = "pending" THEN pending \cup {c} ELSE pending \ {c}
  BY <1>2, <1>3
<1>6. /\ opened \subseteq opened' /\ opened' \subseteq Scopes /\ grants' \subseteq opened'
      /\ answer' \in [Callers -> Answers] /\ \A d \in Callers : d # c => answer'[d] = answer[d]
  BY <1>1, <1>2 DEF GateTypeOK
<1>7. gate'[c].key \in Keys /\ gate'[c].scope \in Scopes BY <1>1, <1>2, <1>3 DEF GateTypeOK
<1>8. gate'[c].pc \notin Running BY <1>3
<1> QED BY <1>3, <1>4, <1>5, <1>6, <1>7, <1>8, GateStepIInv

\* A pending request is answered by its timer or by a person, once.
LEMMA AnsweredIInv ==
  ASSUME IInv, NEW c \in Callers, NEW a \in Answers, NEW x \in {"refused", "start"},
         c \in pending, Goto(c, x), answer' = [answer EXCEPT ![c] = a], pending' = pending \ {c},
         opened \subseteq opened', opened' \subseteq Scopes, grants' \subseteq opened',
         x = "start" => a = "approve_once" \/ gate[c].scope \in opened',
         UNCHANGED journalVars
  PROVE  IInv'
<1>1. GateTypeOK BY TypeParts DEF IInv
<1>2. gate[c].pc = "pending" BY <1>1 DEF GateTypeOK
<1>3. /\ gate' \in [Callers -> Gates]
      /\ gate'[c].pc = x /\ gate'[c].key = gate[c].key /\ gate'[c].scope = gate[c].scope
      /\ \A d \in Callers : d # c => gate'[d] = gate[d]
  BY <1>1, GateGoes DEF Steps
<1>4. JournalInv' /\ WaitsInJournal' BY <1>2, <1>3, OutsideJournal
<1>5. pending' = IF gate'[c].pc = "pending" THEN pending \cup {c} ELSE pending \ {c}
  BY <1>3
<1>6. /\ answer' \in [Callers -> Answers] /\ answer'[c] = a
      /\ \A d \in Callers : d # c => answer'[d] = answer[d]
  BY <1>1, Answers1
<1>7. gate'[c].key \in Keys /\ gate'[c].scope \in Scopes BY <1>1, <1>2, <1>3 DEF GateTypeOK
<1>8. gate'[c].pc \in Running => Consented(c)' BY <1>3, <1>6 DEF Consented
<1> QED BY <1>3, <1>4, <1>5, <1>6, <1>7, <1>8, GateStepIInv

LEMMA ExpireIInv ==
  ASSUME IInv, NEW c \in Callers, Expire(c) PROVE IInv'
<1>1. GateTypeOK /\ grants \subseteq opened BY TypeParts DEF IInv
<1>2. opened \subseteq opened' /\ opened' \subseteq Scopes /\ grants' \subseteq opened'
  BY <1>1 DEF Expire, GateTypeOK
<1>3. "expired" \in Answers BY DEF Answers
<1> QED BY <1>2, <1>3, AnsweredIInv DEF Expire

LEMMA ResolveIInv ==
  ASSUME IInv, NEW c \in Callers, NEW d \in {"approve_once", "approve_session", "deny"},
         Resolve(c, d)
  PROVE  IInv'
<1>1. GateTypeOK /\ grants \subseteq opened BY TypeParts DEF IInv
<1>2. /\ c \in pending /\ answer' = [answer EXCEPT ![c] = d] /\ pending' = pending \ {c}
      /\ UNCHANGED journalVars
  BY DEF Resolve, Answered
<1>3. gate[c].scope \in Scopes BY <1>1, <1>2 DEF GateTypeOK
<1>4. opened \subseteq opened' /\ opened' \subseteq Scopes /\ grants' \subseteq opened'
  BY <1>1, <1>3 DEF Resolve, Answered, GateTypeOK
<1>5. d \in Answers BY DEF Answers
<1>6. CASE d = "deny"
  <2>1. Goto(c, "refused") BY <1>6 DEF Resolve, Answered
  <2> QED BY <1>2, <1>4, <1>5, <2>1, AnsweredIInv
<1>7. CASE d # "deny"
  <2>1. Goto(c, "start") BY <1>7 DEF Resolve, Answered
  <2>2. d = "approve_once" \/ gate[c].scope \in opened' BY <1>7 DEF Resolve, Answered
  <2> QED BY <1>2, <1>4, <1>5, <2>1, <2>2, AnsweredIInv
<1> QED BY <1>6, <1>7

\* A capability with side effects goes to the journal, any other runs at once.
LEMMA StartIInv ==
  ASSUME IInv, NEW c \in Callers, Start(c) PROVE IInv'
<1>1. GateTypeOK /\ grants \subseteq opened /\ WaitsInJournal /\ JournalInv
  BY TypeParts DEF IInv
<1>2. gate[c].pc = "start" /\ UNCHANGED <<pending, grants, answer, opened>>
  BY DEF Start
<1>3. Consented(c) BY <1>2 DEF IInv, CallsAreConsented
<1>4. CASE gate[c].scope \notin SideEffects
  <2>1. Goto(c, "operation") /\ UNCHANGED journalVars BY <1>4 DEF Start
  <2>2. answer' \in [Callers -> Answers] /\ \A d \in Callers : d # c => answer'[d] = answer[d]
    BY <1>1, <1>2 DEF GateTypeOK
  <2>3. gate'[c].scope = gate[c].scope BY <1>1, <2>1, GateGoes DEF Steps
  <2>4. Consented(c)' BY <1>2, <1>3, <2>3 DEF Consented
  <2> QED BY <1>2, <2>1, <2>2, <2>4, GotoIInv DEF Steps
<1>5. CASE gate[c].scope \in SideEffects
  <2>1. Goto(c, "effect") /\ Call(c, gate[c].key) BY <1>5 DEF Start
  <2>2. /\ gate' \in [Callers -> Gates]
        /\ gate'[c].pc = "effect" /\ gate'[c].key = gate[c].key /\ gate'[c].scope = gate[c].scope
        /\ \A d \in Callers : d # c => gate'[d] = gate[d]
    BY <1>1, <2>1, GateGoes DEF Steps
  <2>3. gate[c].key \in Keys /\ gate[c].scope \in Scopes BY <1>1, <1>2 DEF GateTypeOK
  <2>4. JournalInv' BY <1>1, <2>1, <2>3, CallInv
  <2>5. caller'[c].key = gate[c].key /\ \A d \in Callers : d # c => caller'[d] = caller[d]
    BY <1>1, <2>1 DEF Call, JournalInv, JournalTypeOK
  <2>6. WaitsInJournal' BY <1>1, <2>2, <2>5 DEF WaitsInJournal
  <2>7. pending' = IF gate'[c].pc = "pending" THEN pending \cup {c} ELSE pending \ {c}
    BY <1>1, <1>2, <2>2 DEF GateTypeOK
  <2>8. /\ opened \subseteq opened' /\ opened' \subseteq Scopes /\ grants' \subseteq opened'
        /\ answer' \in [Callers -> Answers] /\ \A d \in Callers : d # c => answer'[d] = answer[d]
    BY <1>1, <1>2 DEF GateTypeOK
  <2>9. Consented(c)' BY <1>2, <1>3, <2>2 DEF Consented
  <2> QED BY <2>2, <2>3, <2>4, <2>6, <2>7, <2>8, <2>9, GateStepIInv
<1> QED BY <1>4, <1>5

LEMMA EffectsIInv == IInv /\ Effects => IInv'
<1> SUFFICES ASSUME IInv, Effects PROVE IInv' OBVIOUS
<1> USE TypeParts DEF IInv
<1>1. /\ \/ \E c \in Callers : ExecuteStep(c)
         \/ \E k \in Keys : EffectStep(k)
      /\ UNCHANGED <<gate, pending, grants, answer, opened>>
  BY DEF Effects, gateVars
<1>2. JournalInv' BY <1>1, JournalStepInv
<1>3. WaitsInJournal' BY <1>1, JournalStepCalls DEF WaitsInJournal
<1>4. GateTypeOK' BY <1>1 DEF GateTypeOK
<1>5. TypeOK'
  BY <1>2, <1>3, <1>4 DEF JournalInv, TypeOK, GateTypeOK, WaitsInJournal, Gates
<1>6. CallsAreConsented' BY <1>1 DEF CallsAreConsented, Consented
<1> QED BY <1>1, <1>2, <1>5, <1>6

LEMMA CrashIInv == IInv /\ Crash => IInv'
<1> SUFFICES ASSUME IInv, Crash PROVE IInv' OBVIOUS
<1>1. JournalInv' BY JournalCrashInv DEF Crash, IInv
<1>2. /\ gate' = [c \in Callers |-> Away] /\ answer' = [c \in Callers |-> None]
      /\ pending' = {} /\ grants' = {} /\ opened' = {}
  BY DEF Crash
<1>3. \A c \in Callers : gate'[c].pc = "idle" BY <1>2 DEF Away
<1>4. gate' \in [Callers -> Gates] /\ answer' \in [Callers -> Answers]
  BY <1>2 DEF Away, Gates, Steps, Answers
<1>5. \A c \in Callers : caller'[c].pc = "idle" BY DEF Crash, JournalCrash
<1>6. TypeOK'
  BY <1>1, <1>2, <1>3, <1>4, <1>5 DEF TypeOK, JournalInv, Gates
<1>7. CallsAreConsented' BY <1>3 DEF CallsAreConsented
<1> QED BY <1>1, <1>2, <1>6, <1>7 DEF IInv

\* Every step of the broker, of an approval and of the journal, and a crash,
\* keeps the invariant.
LEMMA NextIInv == IInv /\ [Next]_vars => IInv'
<1> SUFFICES ASSUME IInv, [Next]_vars PROVE IInv' OBVIOUS
<1>1. CASE \E c \in Callers, k \in Keys, s \in Scopes : Execute(c, k, s)
  BY <1>1, ExecuteIInv
<1>2. CASE \E c \in Callers : \/ Deny(c) \/ Decide(c) \/ Approval(c)
                              \/ Expire(c) \/ Refuse(c) \/ Start(c) \/ Finish(c)
  BY <1>2, DenyIInv, DecideIInv, RequestIInv, ReviewerApprovesIInv, ReviewerEscalatesIInv,
     ExpireIInv, RefuseIInv, StartIInv, FinishIInv DEF Approval
<1>3. CASE \E c \in Callers, d \in {"approve_once", "approve_session", "deny"} : Resolve(c, d)
  BY <1>3, ResolveIInv
<1>4. CASE Effects BY <1>4, EffectsIInv
<1>5. CASE Crash BY <1>5, CrashIInv
<1>6. CASE UNCHANGED vars
  <2>1. UNCHANGED <<gate, pending, grants, answer, opened>> /\ UNCHANGED journalVars
    BY <1>6 DEF vars, gateVars
  <2>2. JournalInv'
    BY <2>1 DEF IInv, journalVars, JournalInv, JournalTypeOK, EffectOnce, WriteAhead, MemoryLags,
         ActiveInv, CallerInv
  <2>3. TypeOK' BY <2>1 DEF IInv, journalVars, TypeOK, JournalTypeOK
  <2>4. CallsAreConsented' BY <2>1 DEF IInv, CallsAreConsented, Consented
  <2> QED BY <2>1, <2>2, <2>3, <2>4 DEF IInv
<1> QED BY <1>1, <1>2, <1>3, <1>4, <1>5, <1>6 DEF Next

THEOREM Invariance == Spec => []IInv
<1> QED BY InitIInv, NextIInv, PTL DEF Spec

\* The calls, the requests, the grants and the records of the journal have
\* their types, and only a call that the broker waits for is in the journal.
THEOREM TypeCorrect == Spec => []TypeOK
<1>1. IInv => TypeOK BY DEF IInv
<1> QED BY <1>1, Invariance, PTL

\* A capability that needs an approval runs only in a call that was approved,
\* or whose scope was; and no effect outlives the approved call it runs for.
THEOREM RunsAreConsentedHolds == Spec => []RunsAreConsented
<1>1. IInv => RunsAreConsented BY ConsentSuffices DEF IInv
<1> QED BY <1>1, Invariance, PTL

\* No effect is started twice for one idempotency key, over every restart.
THEOREM EffectOnceHolds == Spec => []EffectOnce
<1>1. IInv => EffectOnce BY DEF IInv, JournalInv
<1> QED BY <1>1, Invariance, PTL

-----------------------------------------------------------------------------
(* The effects behind the broker implement OnceOnly *)

LEMMA InitRefines == Init => Promise!Init
  BY ResultsAssumption DEF Init, JournalInit, Promise!Init, Phase, Promise!None

\* OnceOnly sees the file, the invocations and the answers.
LEMMA StutterRefines ==
  ASSUME UNCHANGED <<disk, runs, replies>> PROVE UNCHANGED Promise!vars
  BY DEF Promise!vars, Phase

\* The started line of a key claims it, unless a failed append left it before.
LEMMA ClaimRefines ==
  ASSUME JournalInv, NEW k \in Keys, active[k] = "start",
         disk' = [disk EXCEPT ![k] = Started], UNCHANGED <<runs, replies>>
  PROVE  Promise!Next \/ UNCHANGED Promise!vars
<1> USE ResultsAssumption DEF JournalInv, JournalTypeOK
<1>1. runs[k] = 0 /\ disk[k] \in {None, Started} BY DEF ActiveInv, WriteAhead
<1>2. CASE disk[k] = Started
  <2>1. disk' = disk BY <1>2
  <2> QED BY <2>1, StutterRefines
<1>3. CASE disk[k] = None
  <2>1. \A j \in Keys : Phase(j)' = IF j = k THEN "claimed" ELSE Phase(j)
    BY <1>1, <1>3 DEF Phase
  <2>2. [j \in Keys |-> Phase(j)]' = [[j \in Keys |-> Phase(j)] EXCEPT ![k] = "claimed"]
    BY <2>1
  <2>3. UNCHANGED [j \in Keys |-> IF disk[j] \in Results THEN disk[j] ELSE None]
    BY <1>3
  <2>4. Phase(k) = "fresh" BY <1>1, <1>3 DEF Phase
  <2>5. Promise!Claim(k) BY <2>2, <2>3, <2>4 DEF Promise!Claim
  <2> QED BY <2>5 DEF Promise!Next
<1> QED BY <1>1, <1>2, <1>3

\* The completed line of a key decides it, whether its callers hear of it or not.
LEMMA DecideRefines ==
  ASSUME JournalInv, NEW k \in Keys, active[k] = "complete",
         disk' = [disk EXCEPT ![k] = outcome[k]], UNCHANGED runs,
         UNCHANGED replies \/ Tell(k, outcome[k])
  PROVE  Promise!Next
<1> USE ResultsAssumption DEF JournalInv, JournalTypeOK
<1>1. outcome[k] \in Results /\ runs[k] = 1 /\ disk[k] = Started BY DEF ActiveInv
<1>2. PICK r \in Results : r = outcome[k] BY <1>1
<1>3. replies' \in {replies, [replies EXCEPT ![k] = @ \cup {r}]} BY <1>1, <1>2 DEF Tell
<1>4. [j \in Keys |-> IF disk[j] \in Results THEN disk[j] ELSE None]' =
      [[j \in Keys |-> IF disk[j] \in Results THEN disk[j] ELSE None] EXCEPT ![k] = r]
  BY <1>1, <1>2
<1>5. UNCHANGED [j \in Keys |-> Phase(j)] BY <1>1, <1>2 DEF Phase
<1>6. Phase(k) = "invoked" BY <1>1 DEF Phase
<1>7. Promise!Decide(k, r) BY <1>1, <1>3, <1>4, <1>5, <1>6 DEF Promise!Decide, Promise!None
<1> QED BY <1>7 DEF Promise!Next

LEMMA TellRefines ==
  ASSUME JournalInv, NEW k \in Keys, UNCHANGED <<disk, runs>>,
         NEW a, Tell(k, a),
         a = Failed \/ (a \in Results /\ disk[k] = a) \/ (a = Uncertain /\ disk[k] # None)
  PROVE  Promise!Next \/ UNCHANGED Promise!vars
<1> USE ResultsAssumption
<1>1. UNCHANGED <<[j \in Keys |-> Phase(j)],
                  [j \in Keys |-> IF disk[j] \in Results THEN disk[j] ELSE None]>>
  BY DEF Phase
<1>2. CASE a = Failed BY <1>2, StutterRefines DEF Tell
<1>3. CASE a \in Results /\ disk[k] = a
  <2>1. replies' = [replies EXCEPT ![k] = @ \cup {a}] BY <1>3 DEF Tell
  <2>2. Promise!TellResult(k) BY <1>1, <1>3, <2>1 DEF Promise!TellResult, Promise!None
  <2> QED BY <2>2 DEF Promise!Next
<1>4. CASE a = Uncertain /\ disk[k] # None
  <2>1. replies' = [replies EXCEPT ![k] = @ \cup {Uncertain}] BY <1>4 DEF Tell
  <2>2. Phase(k) # "fresh" BY <1>4 DEF Phase
  <2>3. Promise!TellUncertain(k)
    BY <1>1, <2>1, <2>2 DEF Promise!TellUncertain, Promise!Uncertain
  <2> QED BY <2>3 DEF Promise!Next
<1> QED BY <1>2, <1>3, <1>4

LEMMA LookupRefines ==
  ASSUME JournalInv, NEW c \in Callers, Lookup(c)
  PROVE  Promise!Next \/ UNCHANGED Promise!vars
<1> USE ResultsAssumption DEF JournalInv
<1> DEFINE k == caller[c].key
<1>1. k \in Keys /\ UNCHANGED <<disk, runs>> BY DEF Lookup, CallerInv
<1>2. CASE UNCHANGED replies BY <1>1, <1>2, StutterRefines
<1>3. CASE active[k] = "settled" /\ Tell(k, outcome[k])
  <2>1. \A j \in Keys : active[j] = "settled" =>
          outcome[j] = Failed \/ (outcome[j] \in Results /\ disk[j] = outcome[j])
    BY DEF ActiveInv
  <2>2. outcome[k] = Failed \/ (outcome[k] \in Results /\ disk[k] = outcome[k])
    BY <1>1, <1>3, <2>1
  <2> QED BY <1>1, <1>3, <2>2, TellRefines
<1>4. CASE records[k] # None /\ Tell(k, IF records[k] = Started THEN Uncertain ELSE records[k])
  <2>1. records[k] \in {Started} \cup Results BY <1>1, <1>4 DEF JournalTypeOK, Lines
  <2>2. CASE records[k] = Started
    <3>1. disk[k] # None /\ Tell(k, Uncertain) BY <1>1, <1>4, <2>2 DEF MemoryLags
    <3> QED BY <1>1, <3>1, TellRefines
  <2>3. CASE records[k] \in Results
    <3>1. disk[k] = records[k] /\ Tell(k, records[k]) BY <1>1, <1>4, <2>3 DEF MemoryLags
    <3> QED BY <1>1, <2>3, <3>1, TellRefines
  <2> QED BY <2>1, <2>2, <2>3
<1> QED BY <1>2, <1>3, <1>4 DEF Lookup, JoinActive, AnswerRecord, StartEffect

LEMMA InvokeRefines ==
  ASSUME JournalInv, NEW k \in Keys, InvokeOperation(k)
  PROVE  Promise!Next
<1> USE ResultsAssumption DEF JournalInv
<1>1. runs[k] = 0 /\ disk[k] = Started /\ UNCHANGED <<disk, replies>>
  BY DEF InvokeOperation, ActiveInv
<1>2. runs'[k] = 1 /\ \A j \in Keys : j # k => runs'[j] = runs[j]
  BY <1>1 DEF InvokeOperation, JournalTypeOK
<1>3. \A j \in Keys : Phase(j)' = IF j = k THEN "invoked" ELSE Phase(j)
  BY <1>1, <1>2 DEF Phase
<1>4. [j \in Keys |-> Phase(j)]' = [[j \in Keys |-> Phase(j)] EXCEPT ![k] = "invoked"]
  BY <1>3
<1>5. Phase(k) = "claimed" BY <1>1 DEF Phase
<1>6. Promise!Invoke(k) BY <1>1, <1>4, <1>5 DEF Promise!Invoke
<1> QED BY <1>6 DEF Promise!Next

LEMMA EffectStepRefines ==
  ASSUME JournalInv, NEW k \in Keys, EffectStep(k)
  PROVE  Promise!Next \/ UNCHANGED Promise!vars
<1>1. CASE WriteStarted(k) BY <1>1, ClaimRefines DEF WriteStarted
<1>2. CASE InvokeOperation(k) BY <1>2, InvokeRefines
<1>3. CASE \E r \in Results : OperationReturns(k, r) BY <1>3, StutterRefines DEF OperationReturns
<1>4. CASE OperationThrows(k) BY <1>4, StutterRefines DEF OperationThrows
<1>5. CASE WriteCompleted(k) BY <1>5, DecideRefines DEF WriteCompleted
<1>6. CASE WriteFails(k)
  <2>1. CASE UNCHANGED disk BY <1>6, <2>1, StutterRefines DEF WriteFails
  <2>2. CASE active[k] = "start" /\ disk' = [disk EXCEPT ![k] = Started]
    BY <1>6, <2>2, ClaimRefines DEF WriteFails
  <2>3. CASE active[k] = "complete" /\ disk' = [disk EXCEPT ![k] = outcome[k]]
    BY <1>6, <2>3, DecideRefines DEF WriteFails
  <2> QED BY <1>6, <2>1, <2>2, <2>3 DEF WriteFails, LeaveLine
<1>7. CASE DeleteActive(k) BY <1>7, StutterRefines DEF DeleteActive
<1> QED BY <1>1, <1>2, <1>3, <1>4, <1>5, <1>6, <1>7 DEF EffectStep

LEMMA CrashRefines ==
  ASSUME JournalInv, JournalCrash
  PROVE  Promise!Next \/ UNCHANGED Promise!vars
<1>1. UNCHANGED <<runs, replies>> BY DEF JournalCrash
<1>2. CASE UNCHANGED disk BY <1>1, <1>2, StutterRefines
<1>3. CASE \E k \in Keys : active[k] = "start" /\ disk' = [disk EXCEPT ![k] = Started]
  BY <1>1, <1>3, ClaimRefines
<1>4. CASE \E k \in Keys : active[k] = "complete" /\ disk' = [disk EXCEPT ![k] = outcome[k]]
  BY <1>1, <1>4, DecideRefines
<1> QED BY <1>2, <1>3, <1>4 DEF JournalCrash, LeaveLine

\* Every behaviour of the broker, its approvals and its journal is one of
\* OnceOnly: what callers are told of an effect is what the file says of it.
THEOREM EffectsImplementOnceOnly == Spec => ImplementsOnceOnly
<1>1. IInv /\ [Next]_vars => [Promise!Next]_Promise!vars
  <2> SUFFICES ASSUME IInv, [Next]_vars
               PROVE  Promise!Next \/ UNCHANGED Promise!vars
    OBVIOUS
  <2>1. JournalInv BY DEF IInv
  <2>2. CASE UNCHANGED journalVars BY <2>2, StutterRefines DEF journalVars
  <2>3. CASE \E c \in Callers : Start(c) BY <2>2, <2>3, StutterRefines DEF Start, Call
  <2>4. CASE Effects
    <3>1. CASE \E c \in Callers : ExecuteStep(c)
      BY <2>1, <3>1, LookupRefines, StutterRefines DEF ExecuteStep, Load, LoadFails
    <3>2. CASE \E k \in Keys : EffectStep(k) BY <2>1, <3>2, EffectStepRefines
    <3> QED BY <2>4, <3>1, <3>2 DEF Effects
  <2>5. CASE Crash BY <2>1, <2>5, CrashRefines DEF Crash
  <2> QED BY <2>2, <2>3, <2>4, <2>5
          DEF Next, Execute, Deny, Decide, Approval, Request, ReviewerApproves,
              ReviewerEscalates, Expire, Refuse, Finish, Resolve, Answered, vars
<1> QED BY <1>1, InitRefines, Invariance, PTL DEF Spec, ImplementsOnceOnly, Promise!Spec
=============================================================================
