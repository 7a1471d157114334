----------------------- MODULE PgCommandJournalProofs -----------------------
(***************************************************************************)
(* Proofs about PgCommandJournal for every set of keys, results, runtimes  *)
(* and calls, wherever the calls are made.                                 *)
(***************************************************************************)
EXTENDS PgCommandJournal, TLAPS

USE DEF None, Started, Uncertain, Gone, Idle

\* The steps at which a call has tried to insert the row of its key, and those
\* at which it owns that row for certain.
Inserted == {"select", "operation", "update"}
Working == {"operation", "update"}

\* A row has an owner exactly when it has a line, and the line is "started"
\* while the owner's call lives: nobody but that call decides the key.
RowInv == \A k \in Keys :
    /\ row[k].owner = None <=> row[k].line = None
    /\ \A c \in Callers : row[k].owner = c =>
         /\ row[k].line = Started
         /\ caller[c].key = k /\ caller[c].pc \in Inserted

\* What each call knows of its row at the step where it is.
CallerInv == \A c \in Callers :
    /\ caller[c].pc # "idle" => caller[c].key \in Keys
    /\ caller[c].pc \in Inserted => row[caller[c].key].line # None
    /\ caller[c].pc \in Working => row[caller[c].key].owner = c
    /\ caller[c].pc = "update" => caller[c].outcome \in Results

\* An operation is invoked by the owner of the row, when it leaves the SELECT.
RunInv == \A k \in Keys :
    /\ runs[k] = 0 => row[k].line \in {None, Started}
    /\ row[k].line = None => runs[k] = 0
    /\ \A c \in Callers : row[k].owner = c =>
         /\ caller[c].pc = "select" => runs[k] = 0
         /\ caller[c].pc \in Working => runs[k] = 1

USE DEF Inserted, Working

IInv == /\ TypeOK /\ AtMostOnce /\ CacheIsDurable
        /\ RowInv /\ CallerInv /\ RunInv

-----------------------------------------------------------------------------
(* What the updates of a row and of a call do, field by field *)

\* The types of a row and of a call, as TypeOK gives them.
Rows == [owner : Callers \cup {None, Gone}, line : {None, Started} \cup Results]
Places == {"idle", "check", "share", "insert", "select", "operation", "update"}
Calls == [pc : Places, key : Keys \cup {None}, outcome : {None} \cup Results]

LEMMA Types == TypeOK => row \in [Keys -> Rows] /\ caller \in [Callers -> Calls]
BY DEF TypeOK, Rows, Calls, Places

LEMMA TypesSuffice ==
  ASSUME row' \in [Keys -> Rows], caller' \in [Callers -> Calls],
         completed' \in [Runtimes -> [Keys -> {None} \cup Results]],
         active' \in [Runtimes -> [Keys -> {None} \cup Callers]],
         runs' \in [Keys -> Nat], replies' \in [Keys -> SUBSET (Results \cup {Uncertain})]
  PROVE  TypeOK'
BY DEF TypeOK, Rows, Calls, Places

LEMMA RowSet ==
  ASSUME TypeOK, NEW k \in Keys, NEW o \in Callers \cup {None, Gone},
         NEW l \in {None, Started} \cup Results,
         row' = [row EXCEPT ![k] = [owner |-> o, line |-> l]]
  PROVE  /\ row' \in [Keys -> Rows]
         /\ row'[k].owner = o /\ row'[k].line = l
         /\ \A j \in Keys : j # k => row'[j] = row[j]
<1>1. [owner |-> o, line |-> l] \in Rows BY DEF Rows
<1> QED BY <1>1, Types

LEMMA Told ==
  ASSUME TypeOK, NEW k \in Keys, NEW a \in Results \cup {Uncertain},
         replies' = [replies EXCEPT ![k] = @ \cup {a}]
  PROVE  replies' \in [Keys -> SUBSET (Results \cup {Uncertain})]
<1>1. replies[k] \cup {a} \in SUBSET (Results \cup {Uncertain}) BY DEF TypeOK
<1> QED BY <1>1 DEF TypeOK

LEMMA Cached ==
  ASSUME TypeOK, NEW p \in Runtimes, NEW k \in Keys, NEW r \in Results,
         completed' = [completed EXCEPT ![p][k] = r]
  PROVE  /\ completed' \in [Runtimes -> [Keys -> {None} \cup Results]]
         /\ \A q \in Runtimes, j \in Keys :
              completed'[q][j] = completed[q][j] \/ (j = k /\ completed'[q][j] = r)
<1>1. [completed[p] EXCEPT ![k] = r] \in [Keys -> {None} \cup Results] BY DEF TypeOK
<1> QED BY <1>1 DEF TypeOK

LEMMA CallIdle ==
  ASSUME TypeOK, NEW c \in Callers, caller' = [caller EXCEPT ![c] = Idle]
  PROVE  /\ caller' \in [Callers -> Calls]
         /\ caller'[c].pc = "idle"
         /\ \A d \in Callers : d # c => caller'[d] = caller[d]
<1>1. Idle \in Calls /\ Idle.pc = "idle" BY DEF Calls, Places
<1> QED BY <1>1, Types

LEMMA CallGoes ==
  ASSUME TypeOK, NEW c \in Callers, NEW x \in Places, caller' = [caller EXCEPT ![c].pc = x]
  PROVE  /\ caller' \in [Callers -> Calls]
         /\ caller'[c].pc = x /\ caller'[c].key = caller[c].key
         /\ caller'[c].outcome = caller[c].outcome
         /\ \A d \in Callers : d # c => caller'[d] = caller[d]
<1> DEFINE v == [caller[c] EXCEPT !.pc = x]
<1>1. caller[c] \in Calls BY Types
<1>2. v \in Calls /\ v.pc = x /\ v.key = caller[c].key /\ v.outcome = caller[c].outcome
  BY <1>1 DEF Calls
<1>3. caller' = [caller EXCEPT ![c] = v] OBVIOUS
<1> HIDE DEF v
<1> QED BY <1>2, <1>3, Types

-----------------------------------------------------------------------------
(* The inductive invariant *)

LEMMA InitIInv == Init => IInv
<1> SUFFICES ASSUME Init PROVE IInv OBVIOUS
<1> USE ResultsAssumption, CallersAssumption DEF Init
<1>1. TypeOK BY DEF TypeOK
<1>2. AtMostOnce BY DEF AtMostOnce
<1>3. CacheIsDurable BY DEF CacheIsDurable
<1>4. RowInv BY DEF RowInv
<1>5. CallerInv BY DEF CallerInv
<1>6. RunInv BY DEF RunInv
<1> QED BY <1>1, <1>2, <1>3, <1>4, <1>5, <1>6 DEF IInv

LEMMA CallIInv ==
  ASSUME IInv, NEW c \in Callers, NEW k \in Keys, Call(c, k)
  PROVE  IInv'
<1> USE ResultsAssumption, CallersAssumption, HomeAssumption DEF IInv
<1>a. caller[c].pc = "idle" /\ UNCHANGED <<row, completed, active, runs, replies>> BY DEF Call
<1>b. /\ caller' \in [Callers -> Calls] /\ caller'[c].pc = "check" /\ caller'[c].key = k
      /\ \A d \in Callers : d # c => caller'[d] = caller[d]
  <2> DEFINE v == [Idle EXCEPT !.pc = "check", !.key = k]
  <2>1. v \in Calls /\ v.pc = "check" /\ v.key = k BY DEF Calls, Places
  <2>2. caller' = [caller EXCEPT ![c] = v] BY DEF Call
  <2> HIDE DEF v
  <2> QED BY <2>1, <2>2, Types
<1>1. TypeOK' BY <1>a, <1>b, Types, TypesSuffice DEF TypeOK
<1>2. AtMostOnce' BY <1>a, <1>b DEF AtMostOnce, RunInv
<1>3. CacheIsDurable' BY <1>a, <1>b DEF CacheIsDurable
<1>4. RowInv' BY <1>a, <1>b DEF RowInv, CallerInv
<1>5. CallerInv' BY <1>a, <1>b DEF CallerInv, RowInv
<1>6. RunInv' BY <1>a, <1>b DEF RunInv, RowInv, CallerInv
<1> QED BY <1>1, <1>2, <1>3, <1>4, <1>5, <1>6

LEMMA CheckIInv ==
  ASSUME IInv, NEW c \in Callers, Check(c)
  PROVE  IInv'
<1> USE ResultsAssumption, CallersAssumption, HomeAssumption DEF IInv
<1> DEFINE k == caller[c].key
<1>a. k \in Keys /\ Home[c] \in Runtimes /\ caller[c].pc = "check" /\ UNCHANGED <<row, completed, active, runs>>
  BY DEF Check, CallerInv
<1>b. \/ caller' = [caller EXCEPT ![c] = Idle] /\ replies' = [replies EXCEPT ![k] = @ \cup {completed[Home[c]][k]}]
           /\ completed[Home[c]][k] # None
      \/ \E x \in {"share", "insert"} : caller' = [caller EXCEPT ![c].pc = x] /\ UNCHANGED replies
  BY DEF Check, Tell
<1>c. /\ caller' \in [Callers -> Calls]
      /\ \A d \in Callers : d # c => caller'[d] = caller[d]
      /\ \/ caller'[c].pc = "idle"
         \/ caller'[c].pc \in {"share", "insert"} /\ caller'[c].key = k
  BY <1>b, CallIdle, CallGoes DEF Places
<1>d. replies' \in [Keys -> SUBSET (Results \cup {Uncertain})]
  <2>1. completed[Home[c]][k] # None => completed[Home[c]][k] \in Results BY <1>a DEF TypeOK
  <2>2. UNCHANGED replies => replies' \in [Keys -> SUBSET (Results \cup {Uncertain})] BY DEF TypeOK
  <2> QED BY <1>a, <1>b, <2>1, <2>2, Told
<1>1. TypeOK' BY <1>a, <1>c, <1>d, Types, TypesSuffice DEF TypeOK
<1>2. AtMostOnce' BY <1>a, <1>c DEF AtMostOnce, RunInv
<1>3. CacheIsDurable' BY <1>a, <1>c DEF CacheIsDurable
<1>4. RowInv' BY <1>a, <1>c DEF RowInv, CallerInv
<1>5. CallerInv' BY <1>a, <1>c DEF CallerInv, RowInv
<1>6. RunInv' BY <1>a, <1>c DEF RunInv, RowInv, CallerInv
<1> QED BY <1>1, <1>2, <1>3, <1>4, <1>5, <1>6

\* The claim that an INSERT may leave, when nobody has claimed the key before.
LEMMA InsertRow ==
  ASSUME IInv, NEW c \in Callers, caller[c].pc = "insert"
  PROVE  LET k == caller[c].key
             row1 == [row EXCEPT ![k] = [owner |-> c, line |-> Started]]
             row2 == [row EXCEPT ![k] = [owner |-> Gone, line |-> Started]]
         IN  /\ k \in Keys
             /\ row[k].owner = None => Claimed(c) = row1 /\ Orphan(Claimed(c), k, {c}) = row2
             /\ row[k].owner # None => Claimed(c) = row /\ Orphan(Claimed(c), k, {c}) = row
<1> USE CallersAssumption DEF IInv, TypeOK, CallerInv, RowInv
<1> DEFINE k == caller[c].key
           row1 == [row EXCEPT ![k] = [owner |-> c, line |-> Started]]
           row2 == [row EXCEPT ![k] = [owner |-> Gone, line |-> Started]]
<1>1. k \in Keys OBVIOUS
<1>2. CASE row[k].owner = None
  <2>1. Claimed(c) = row1 BY <1>2 DEF Claimed
  <2>2. row1[k].owner = c BY <1>1
  <2>3. Orphan(row1, k, {c}) = [row1 EXCEPT ![k].owner = Gone] BY <2>2 DEF Orphan
  <2>4. [row1 EXCEPT ![k].owner = Gone] = row2 BY <1>1
  <2> QED BY <1>1, <1>2, <2>1, <2>3, <2>4
<1>3. CASE row[k].owner # None
  <2>1. row[k].owner # c BY <1>1
  <2> QED BY <1>1, <1>3, <2>1 DEF Claimed, Orphan
<1> QED BY <1>2, <1>3

\* What the end of a call leaves in the row it owns.
LEMMA OrphanRow ==
  ASSUME IInv, NEW c \in Callers, caller[c].key \in Keys
  PROVE  LET k == caller[c].key IN
         /\ row[k].owner = c =>
              Orphan(row, k, {c}) = [row EXCEPT ![k] = [owner |-> Gone, line |-> row[k].line]]
         /\ row[k].owner # c => Orphan(row, k, {c}) = row
<1> DEFINE k == caller[c].key
<1>1. row[k] \in Rows BY Types DEF IInv
<1>2. [row[k] EXCEPT !.owner = Gone] = [owner |-> Gone, line |-> row[k].line]
  BY <1>1 DEF Rows
<1> QED BY <1>2 DEF Orphan

LEMMA InsertIInv ==
  ASSUME IInv, NEW c \in Callers, Insert(c)
  PROVE  IInv'
<1> USE ResultsAssumption, CallersAssumption, HomeAssumption DEF IInv
<1> DEFINE k == caller[c].key
<1>a. /\ caller[c].pc = "insert" /\ k \in Keys
      /\ UNCHANGED <<completed, active, runs, replies>>
  BY DEF Insert, CallerInv
<1>b. \/ row' = row /\ row[k].owner # None
      \/ row[k].owner = None /\ row' = [row EXCEPT ![k] = [owner |-> c, line |-> Started]]
  BY <1>a, InsertRow DEF Insert
<1>c. /\ row' \in [Keys -> Rows] /\ \A j \in Keys : j # k => row'[j] = row[j]
      /\ \/ row'[k] = row[k] /\ row[k].owner # None
         \/ row[k].owner = None /\ row'[k].owner = c /\ row'[k].line = Started
  <2>1. CASE row' = row /\ row[k].owner # None BY <2>1, Types
  <2>2. CASE row[k].owner = None /\ row' = [row EXCEPT ![k] = [owner |-> c, line |-> Started]]
    BY <1>a, <2>2, RowSet
  <2> QED BY <1>b, <2>1, <2>2
<1>d. /\ caller' \in [Callers -> Calls] /\ caller'[c].pc = "select" /\ caller'[c].key = k
      /\ \A d \in Callers : d # c => caller'[d] = caller[d]
  BY CallGoes DEF Insert, Places
<1>1. TypeOK' BY <1>a, <1>c, <1>d, Types, TypesSuffice DEF TypeOK
<1>2. AtMostOnce' BY <1>a, <1>c, <1>d DEF AtMostOnce, RunInv
<1>3. CacheIsDurable' BY <1>a, <1>c DEF CacheIsDurable, RowInv
<1>4. RowInv' BY <1>a, <1>c, <1>d DEF RowInv, CallerInv
<1>5. CallerInv' BY <1>a, <1>c, <1>d DEF CallerInv, RowInv
<1>6. RunInv' BY <1>a, <1>c, <1>d DEF RunInv, RowInv, CallerInv
<1> QED BY <1>1, <1>2, <1>3, <1>4, <1>5, <1>6

LEMMA InsertFailsIInv ==
  ASSUME IInv, NEW c \in Callers, InsertFails(c)
  PROVE  IInv'
<1> USE ResultsAssumption, CallersAssumption, HomeAssumption DEF IInv
<1> DEFINE k == caller[c].key
<1>a. /\ caller[c].pc = "insert" /\ k \in Keys
      /\ UNCHANGED <<completed, active, runs, replies>>
  BY DEF InsertFails, CallerInv
<1>b. \/ row' = row
      \/ row[k].owner = None /\ row' = [row EXCEPT ![k] = [owner |-> Gone, line |-> Started]]
  BY <1>a, InsertRow DEF InsertFails
<1>c. /\ row' \in [Keys -> Rows] /\ \A j \in Keys : j # k => row'[j] = row[j]
      /\ \/ row'[k] = row[k]
         \/ row[k].owner = None /\ row'[k].owner = Gone /\ row'[k].line = Started
  <2>1. CASE row' = row BY <2>1, Types
  <2>2. CASE row[k].owner = None /\ row' = [row EXCEPT ![k] = [owner |-> Gone, line |-> Started]]
    <3>1. Gone \in Callers \cup {None, Gone} /\ Started \in {None, Started} \cup Results OBVIOUS
    <3>2. row' \in [Keys -> Rows] /\ row'[k].owner = Gone /\ row'[k].line = Started
      BY <1>a, <2>2, <3>1, RowSet
    <3>3. \A j \in Keys : j # k => row'[j] = row[j] BY <2>2
    <3> QED BY <2>2, <3>2, <3>3
  <2> QED BY <1>b, <2>1, <2>2
<1>d. /\ caller' \in [Callers -> Calls] /\ caller'[c].pc = "idle"
      /\ \A d \in Callers : d # c => caller'[d] = caller[d]
  BY CallIdle DEF InsertFails
<1>1. TypeOK' BY <1>a, <1>c, <1>d, Types, TypesSuffice DEF TypeOK
<1>2. AtMostOnce' BY <1>a, <1>c, <1>d DEF AtMostOnce, RunInv
<1>3. CacheIsDurable' BY <1>a, <1>c DEF CacheIsDurable, RowInv
<1>4. RowInv' BY <1>a, <1>c, <1>d DEF RowInv, CallerInv
<1>5. CallerInv' BY <1>a, <1>c, <1>d DEF CallerInv, RowInv
<1>6. RunInv' BY <1>a, <1>c, <1>d DEF RunInv, RowInv, CallerInv
<1> QED BY <1>1, <1>2, <1>3, <1>4, <1>5, <1>6

LEMMA SelectOtherIInv ==
  ASSUME IInv, NEW c \in Callers, SelectOther(c)
  PROVE  IInv'
<1> USE ResultsAssumption, CallersAssumption, HomeAssumption DEF IInv
<1> DEFINE k == caller[c].key
<1>a. /\ caller[c].pc = "select" /\ k \in Keys /\ Home[c] \in Runtimes
      /\ row[k].owner # c /\ UNCHANGED <<row, active, runs>>
  BY DEF SelectOther, CallerInv
<1>b. \/ /\ row[k].line \in Results
         /\ completed' = [completed EXCEPT ![Home[c]][k] = row[k].line]
         /\ replies' = [replies EXCEPT ![k] = @ \cup {row[k].line}]
      \/ completed' = completed /\ replies' = [replies EXCEPT ![k] = @ \cup {Uncertain}]
  BY DEF SelectOther, Tell
<1>c. /\ completed' \in [Runtimes -> [Keys -> {None} \cup Results]]
      /\ \A p \in Runtimes, j \in Keys :
           completed'[p][j] = completed[p][j] \/ (j = k /\ completed'[p][j] = row[k].line)
      /\ replies' \in [Keys -> SUBSET (Results \cup {Uncertain})]
  <2>1. CASE UNCHANGED completed /\ replies' = [replies EXCEPT ![k] = @ \cup {Uncertain}]
    BY <1>a, <2>1, Told DEF TypeOK
  <2>2. CASE /\ row[k].line \in Results
             /\ completed' = [completed EXCEPT ![Home[c]][k] = row[k].line]
             /\ replies' = [replies EXCEPT ![k] = @ \cup {row[k].line}]
    <3> PICK r \in Results : r = row[k].line BY <2>2
    <3>1. completed' = [completed EXCEPT ![Home[c]][k] = r] BY <2>2
    <3>2. replies' = [replies EXCEPT ![k] = @ \cup {r}] BY <2>2
    <3>3. replies' \in [Keys -> SUBSET (Results \cup {Uncertain})] BY <1>a, <3>2, Told
    <3>4. completed' \in [Runtimes -> [Keys -> {None} \cup Results]] BY <1>a, <3>1, Cached
    <3>5. \A p \in Runtimes, j \in Keys :
               completed'[p][j] = completed[p][j] \/ (j = k /\ completed'[p][j] = r)
      BY <1>a, <3>1, Cached
    <3> QED BY <3>3, <3>4, <3>5
  <2> QED BY <1>b, <2>1, <2>2
<1>d. /\ caller' \in [Callers -> Calls] /\ caller'[c].pc = "idle"
      /\ \A d \in Callers : d # c => caller'[d] = caller[d]
  BY CallIdle DEF SelectOther
<1>1. TypeOK' BY <1>a, <1>c, <1>d, Types, TypesSuffice DEF TypeOK
<1>2. AtMostOnce' BY <1>a, <1>c, <1>d DEF AtMostOnce, RunInv
<1>3. CacheIsDurable' BY <1>a, <1>c, <1>d DEF CacheIsDurable
<1>4. RowInv' BY <1>a, <1>c, <1>d DEF RowInv, CallerInv
<1>5. CallerInv' BY <1>a, <1>c, <1>d DEF CallerInv, RowInv
<1>6. RunInv' BY <1>a, <1>c, <1>d DEF RunInv, RowInv, CallerInv
<1> QED BY <1>1, <1>2, <1>3, <1>4, <1>5, <1>6

LEMMA SelectOwnIInv ==
  ASSUME IInv, NEW c \in Callers, SelectOwn(c)
  PROVE  IInv'
<1> USE ResultsAssumption, CallersAssumption, HomeAssumption DEF IInv
<1> DEFINE k == caller[c].key
<1>a. /\ caller[c].pc = "select" /\ k \in Keys /\ Home[c] \in Runtimes
      /\ row[k].owner = c /\ row[k].line = Started /\ runs[k] = 0
      /\ UNCHANGED <<row, completed, replies>>
  BY DEF SelectOwn, CallerInv, RowInv, RunInv
<1>b. runs' = [runs EXCEPT ![k] = 1] BY <1>a DEF SelectOwn
<1>c. /\ runs' \in [Keys -> Nat] /\ runs'[k] = 1 /\ \A j \in Keys : j # k => runs'[j] = runs[j]
      /\ active' \in [Runtimes -> [Keys -> {None} \cup Callers]]
  BY <1>a, <1>b DEF SelectOwn, TypeOK
<1>d. /\ caller' \in [Callers -> Calls] /\ caller'[c].pc = "operation" /\ caller'[c].key = k
      /\ \A d \in Callers : d # c => caller'[d] = caller[d]
  BY CallGoes DEF SelectOwn, Places
<1>1. TypeOK' BY <1>a, <1>c, <1>d, Types, TypesSuffice DEF TypeOK
<1>2. AtMostOnce' BY <1>a, <1>c, <1>d DEF AtMostOnce, RunInv
<1>3. CacheIsDurable' BY <1>a, <1>c, <1>d DEF CacheIsDurable
<1>4. RowInv' BY <1>a, <1>c, <1>d DEF RowInv, CallerInv
<1>5. CallerInv' BY <1>a, <1>c, <1>d DEF CallerInv, RowInv
<1>6. RunInv'
  <2>1. \A j \in Keys, d \in Callers : row[j].owner = d => d # c \/ j = k BY DEF RowInv
  <2>2. \A d \in Callers : row[k].owner = d => d = c BY <1>a
  <2> QED BY <1>a, <1>c, <1>d, <2>1, <2>2 DEF RunInv
<1> QED BY <1>1, <1>2, <1>3, <1>4, <1>5, <1>6

LEMMA SelectFailsIInv ==
  ASSUME IInv, NEW c \in Callers, SelectFails(c)
  PROVE  IInv'
<1> USE ResultsAssumption, CallersAssumption, HomeAssumption DEF IInv
<1> DEFINE k == caller[c].key
<1>a. /\ caller[c].pc = "select" /\ k \in Keys
      /\ UNCHANGED <<completed, active, runs, replies>>
  BY DEF SelectFails, CallerInv
<1>b. row[k].line \in {None, Started} \cup Results BY <1>a, Types DEF Rows
<1>c. /\ row' \in [Keys -> Rows] /\ \A j \in Keys : j # k => row'[j] = row[j]
      /\ row'[k].owner = (IF row[k].owner = c THEN Gone ELSE row[k].owner)
      /\ row'[k].line = row[k].line
  <2>1. CASE row[k].owner = c
    <3>1. row' = [row EXCEPT ![k] = [owner |-> Gone, line |-> row[k].line]]
      BY <1>a, <2>1, OrphanRow DEF SelectFails
    <3>2. PICK l \in {None, Started} \cup Results : l = row[k].line BY <1>b
    <3>3. row' = [row EXCEPT ![k] = [owner |-> Gone, line |-> l]] BY <3>1, <3>2
    <3>4. row' \in [Keys -> Rows] /\ row'[k].owner = Gone /\ row'[k].line = l
      BY <1>a, <3>3, RowSet
    <3>5. \A j \in Keys : j # k => row'[j] = row[j] BY <3>1
    <3> QED BY <2>1, <3>2, <3>4, <3>5
  <2>2. CASE row[k].owner # c
    <3>1. row' = row BY <1>a, <2>2, OrphanRow DEF SelectFails
    <3> QED BY <2>2, <3>1, Types
  <2> QED BY <2>1, <2>2
<1>d. /\ caller' \in [Callers -> Calls] /\ caller'[c].pc = "idle"
      /\ \A d \in Callers : d # c => caller'[d] = caller[d]
  BY CallIdle DEF SelectFails
<1>1. TypeOK' BY <1>a, <1>c, <1>d, Types, TypesSuffice DEF TypeOK
<1>2. AtMostOnce' BY <1>a, <1>c, <1>d DEF AtMostOnce, RunInv
<1>3. CacheIsDurable' BY <1>a, <1>c, <1>d DEF CacheIsDurable
<1>e. /\ \A j \in Keys, d \in Callers : row[j].owner = d => d # c \/ j = k
      /\ row'[k].owner # c
  BY <1>c DEF RowInv
<1>4. RowInv' BY <1>c, <1>d, <1>e DEF RowInv
<1>5. CallerInv' BY <1>a, <1>c, <1>d DEF CallerInv, RowInv
<1>6. RunInv' BY <1>a, <1>c, <1>d, <1>e DEF RunInv
<1> QED BY <1>1, <1>2, <1>3, <1>4, <1>5, <1>6

LEMMA OperationReturnsIInv ==
  ASSUME IInv, NEW c \in Callers, NEW r \in Results, OperationReturns(c, r)
  PROVE  IInv'
<1> USE ResultsAssumption, CallersAssumption, HomeAssumption DEF IInv
<1>a. caller[c].pc = "operation" /\ UNCHANGED <<row, completed, active, runs, replies>>
  BY DEF OperationReturns
<1>b. /\ caller' \in [Callers -> Calls] /\ caller'[c].pc = "update" /\ caller'[c].outcome = r
      /\ caller'[c].key = caller[c].key
      /\ \A d \in Callers : d # c => caller'[d] = caller[d]
  <2> DEFINE v == [caller[c] EXCEPT !.pc = "update", !.outcome = r]
  <2>1. caller[c] \in Calls BY Types
  <2>2. v \in Calls /\ v.pc = "update" /\ v.key = caller[c].key /\ v.outcome = r
    BY <2>1 DEF Calls, Places
  <2>3. caller' = [caller EXCEPT ![c] = v] BY DEF OperationReturns
  <2> HIDE DEF v
  <2> QED BY <2>2, <2>3, Types
<1>1. TypeOK' BY <1>a, <1>b, Types, TypesSuffice DEF TypeOK
<1>2. AtMostOnce' BY <1>a, <1>b DEF AtMostOnce, RunInv
<1>3. CacheIsDurable' BY <1>a, <1>b DEF CacheIsDurable
<1>4. RowInv' BY <1>a, <1>b DEF RowInv, CallerInv
<1>5. CallerInv' BY <1>a, <1>b DEF CallerInv, RowInv
<1>6. RunInv' BY <1>a, <1>b DEF RunInv, RowInv, CallerInv
<1> QED BY <1>1, <1>2, <1>3, <1>4, <1>5, <1>6

\* A promise that settles ends its owner's call and those that share it.
LEMMA SettleCalls ==
  ASSUME IInv, NEW c \in Callers, caller[c].pc = "update", Settle(c)
  PROVE  /\ caller' \in [Callers -> Calls]
         /\ active' \in [Runtimes -> [Keys -> {None} \cup Callers]]
         /\ caller'[c].pc = "idle"
         /\ \A d \in Callers : caller'[d].pc = "idle" \/ (d # c /\ caller'[d] = caller[d])
         /\ \A d \in Callers : d # c /\ caller[d].pc \in Inserted => caller'[d] = caller[d]
<1> USE DEF IInv
<1>1. Idle \in Calls /\ Idle.pc = "idle" BY DEF Calls, Places
<1>2. caller' = [d \in Callers |-> IF d = c \/ (/\ caller[d].pc = "share" /\ Home[d] = Home[c]
                                               /\ caller[d].key = caller[c].key)
                                   THEN Idle ELSE caller[d]]
  BY DEF Settle
<1>3. active' = [active EXCEPT ![Home[c]][caller[c].key] = None] BY DEF Settle
<1>4. active' \in [Runtimes -> [Keys -> {None} \cup Callers]]
  BY <1>3, HomeAssumption DEF TypeOK, CallerInv
<1>5. \A d \in Callers : caller[d] \in Calls BY Types
<1>6. caller' \in [Callers -> Calls] BY <1>1, <1>2, <1>5
<1>7. caller'[c].pc = "idle" BY <1>1, <1>2
<1>8. \A d \in Callers : \/ caller'[d].pc = "idle"
                         \/ d # c /\ caller'[d] = caller[d]
  BY <1>1, <1>2
<1>9. \A d \in Callers : d # c /\ caller[d].pc \in Inserted => caller'[d] = caller[d]
  BY <1>2
<1> QED BY <1>4, <1>6, <1>7, <1>8, <1>9

LEMMA UpdateIInv ==
  ASSUME IInv, NEW c \in Callers, Update(c)
  PROVE  IInv'
<1> USE ResultsAssumption, CallersAssumption, HomeAssumption DEF IInv
<1> DEFINE k == caller[c].key
<1>a. /\ caller[c].pc = "update" /\ k \in Keys /\ Home[c] \in Runtimes
      /\ row[k].owner = c /\ row[k].line = Started /\ runs[k] = 1
      /\ caller[c].outcome \in Results
  BY DEF Update, CallerInv, RowInv, RunInv
<1> PICK r \in Results : r = caller[c].outcome BY <1>a
<1>b. row' = [row EXCEPT ![k] = [owner |-> Gone, line |-> r]]
  BY DEF Update, Written
<1>c. /\ row' \in [Keys -> Rows] /\ \A j \in Keys : j # k => row'[j] = row[j]
      /\ row'[k].owner = Gone /\ row'[k].line = r
  BY <1>a, <1>b, RowSet
<1>d. /\ caller' \in [Callers -> Calls] /\ caller'[c].pc = "idle"
      /\ active' \in [Runtimes -> [Keys -> {None} \cup Callers]]
      /\ \A d \in Callers : caller'[d].pc = "idle" \/ (d # c /\ caller'[d] = caller[d])
      /\ \A d \in Callers : d # c /\ caller[d].pc \in Inserted => caller'[d] = caller[d]
  BY <1>a, SettleCalls DEF Update
<1>e. UNCHANGED runs BY DEF Update
<1>f. /\ completed' \in [Runtimes -> [Keys -> {None} \cup Results]]
      /\ \A p \in Runtimes, j \in Keys :
           completed'[p][j] = completed[p][j] \/ (j = k /\ completed'[p][j] = r)
  <2>1. completed' = [completed EXCEPT ![Home[c]][k] = r] BY DEF Update
  <2>2. completed' \in [Runtimes -> [Keys -> {None} \cup Results]] BY <1>a, <2>1, Cached
  <2>3. \A p \in Runtimes, j \in Keys :
           completed'[p][j] = completed[p][j] \/ (j = k /\ completed'[p][j] = r)
    BY <1>a, <2>1, Cached
  <2> QED BY <2>2, <2>3
<1>g. replies' \in [Keys -> SUBSET (Results \cup {Uncertain})]
  <2>1. replies' = [replies EXCEPT ![k] = @ \cup {r}] BY DEF Update, Tell
  <2> QED BY <1>a, <2>1, Told
<1>1. TypeOK' BY <1>c, <1>d, <1>e, <1>f, <1>g, TypesSuffice DEF TypeOK
<1>2. AtMostOnce' BY <1>a, <1>c, <1>d, <1>e DEF AtMostOnce, RunInv
<1>3. CacheIsDurable'
  <2>1. \A p \in Runtimes : completed[p][k] = None
    BY <1>a, ResultsAssumption DEF CacheIsDurable, TypeOK
  <2> QED BY <1>c, <1>f, <2>1 DEF CacheIsDurable
<1>4. RowInv'
  <2>1. \A j \in Keys, d \in Callers : row[j].owner = d => d # c \/ j = k BY DEF RowInv
  <2>2. \A d \in Callers : row'[k].owner # d BY <1>c
  <2> QED BY <1>c, <1>d, <2>1, <2>2 DEF RowInv
<1>5. CallerInv' BY <1>a, <1>c, <1>d, <1>e DEF CallerInv, RowInv
<1>6. RunInv'
  <2>1. \A j \in Keys, d \in Callers : row[j].owner = d => d # c \/ j = k BY DEF RowInv
  <2>2. \A d \in Callers : row'[k].owner # d BY <1>c
  <2>3. runs'[k] = 1 /\ row'[k].line # None BY <1>a, <1>c, <1>e
  <2> QED BY <1>c, <1>d, <1>e, <2>1, <2>2, <2>3 DEF RunInv
<1> QED BY <1>1, <1>2, <1>3, <1>4, <1>5, <1>6

LEMMA UpdateFailsIInv ==
  ASSUME IInv, NEW c \in Callers, UpdateFails(c)
  PROVE  IInv'
<1> USE ResultsAssumption, CallersAssumption, HomeAssumption DEF IInv
<1> DEFINE k == caller[c].key
<1>a. /\ caller[c].pc = "update" /\ k \in Keys /\ Home[c] \in Runtimes
      /\ row[k].owner = c /\ row[k].line = Started /\ runs[k] = 1
      /\ caller[c].outcome \in Results
  BY DEF UpdateFails, CallerInv, RowInv, RunInv
<1>b. PICK l \in {Started, caller[c].outcome} : row' = [row EXCEPT ![k] = [owner |-> Gone, line |-> l]]
  BY <1>a, OrphanRow DEF UpdateFails, Written
<1>c. /\ row' \in [Keys -> Rows] /\ \A j \in Keys : j # k => row'[j] = row[j]
      /\ row'[k].owner = Gone /\ row'[k].line \in {Started, caller[c].outcome}
  <2>1. l \in {None, Started} \cup Results BY <1>a
  <2> QED BY <1>a, <1>b, <2>1, RowSet
<1>d. /\ caller' \in [Callers -> Calls] /\ caller'[c].pc = "idle"
      /\ active' \in [Runtimes -> [Keys -> {None} \cup Callers]]
      /\ \A d \in Callers : caller'[d].pc = "idle" \/ (d # c /\ caller'[d] = caller[d])
      /\ \A d \in Callers : d # c /\ caller[d].pc \in Inserted => caller'[d] = caller[d]
  BY <1>a, SettleCalls DEF UpdateFails
<1>e. UNCHANGED <<completed, runs, replies>> BY DEF UpdateFails
<1>1. TypeOK' BY <1>c, <1>d, <1>e, TypesSuffice DEF TypeOK
<1>2. AtMostOnce' BY <1>a, <1>c, <1>d, <1>e DEF AtMostOnce, RunInv
<1>3. CacheIsDurable' 
  <2>1. \A p \in Runtimes : completed[p][k] = None
    BY <1>a, ResultsAssumption DEF CacheIsDurable, TypeOK
  <2> QED BY <1>c, <1>e, <2>1 DEF CacheIsDurable
<1>4. RowInv'
  <2>1. \A j \in Keys, d \in Callers : row[j].owner = d => d # c \/ j = k BY DEF RowInv
  <2>2. \A d \in Callers : row'[k].owner # d BY <1>c
  <2>3. row'[k].owner # None /\ row'[k].line # None BY <1>a, <1>c
  <2> QED BY <1>c, <1>d, <2>1, <2>2, <2>3 DEF RowInv
<1>5. CallerInv' BY <1>a, <1>c, <1>d, <1>e DEF CallerInv, RowInv
<1>6. RunInv'
  <2>1. \A j \in Keys, d \in Callers : row[j].owner = d => d # c \/ j = k BY DEF RowInv
  <2>2. \A d \in Callers : row'[k].owner # d BY <1>c
  <2>3. runs'[k] = 1 /\ row'[k].line # None BY <1>a, <1>c, <1>e
  <2> QED BY <1>c, <1>d, <1>e, <2>1, <2>2, <2>3 DEF RunInv
<1> QED BY <1>1, <1>2, <1>3, <1>4, <1>5, <1>6

LEMMA CrashIInv ==
  ASSUME IInv, NEW p \in Runtimes, Crash(p)
  PROVE  IInv'
<1> USE ResultsAssumption, CallersAssumption, HomeAssumption DEF IInv
<1> DEFINE dead == {c \in Callers : Home[c] = p}
<1>a. /\ completed' = [completed EXCEPT ![p] = [k \in Keys |-> None]]
      /\ active' = [active EXCEPT ![p] = [k \in Keys |-> None]]
      /\ UNCHANGED <<runs, replies>>
  BY DEF Crash
<1>b. \A k \in Keys : /\ row'[k] \in Rows /\ row'[k].line = row[k].line
                      /\ row'[k].owner = IF row[k].owner \in dead THEN Gone ELSE row[k].owner
  <2> TAKE k \in Keys
  <2>1. row[k] \in Rows BY Types
  <2>2. row'[k] = Orphan(row, k, dead)[k] BY DEF Crash
  <2>3. CASE row[k].owner \in dead
    <3>1. row'[k] = [row[k] EXCEPT !.owner = Gone] BY <2>2, <2>3, Types DEF Orphan
    <3> QED BY <2>1, <2>3, <3>1 DEF Rows
  <2>4. CASE row[k].owner \notin dead BY <2>1, <2>2, <2>4 DEF Orphan
  <2> QED BY <2>3, <2>4
<1>c. row' \in [Keys -> Rows] BY <1>b DEF Crash
<1>d. /\ caller' \in [Callers -> Calls]
      /\ \A c \in Callers : IF c \in dead THEN caller'[c].pc = "idle" ELSE caller'[c] = caller[c]
  <2>1. Idle \in Calls /\ Idle.pc = "idle" BY DEF Calls, Places
  <2>2. caller' = [c \in Callers |-> IF c \in dead THEN Idle ELSE caller[c]] BY DEF Crash
  <2> QED BY <2>1, <2>2, Types
<1>1. TypeOK' BY <1>a, <1>c, <1>d, TypesSuffice DEF TypeOK
<1>2. AtMostOnce' BY <1>a, <1>b, <1>d DEF AtMostOnce, RunInv
<1>3. CacheIsDurable' BY <1>a, <1>b DEF CacheIsDurable, TypeOK
<1>4. RowInv' BY <1>a, <1>b, <1>d DEF RowInv, CallerInv
<1>5. CallerInv' BY <1>a, <1>b, <1>d DEF CallerInv, RowInv
<1>6. RunInv' BY <1>a, <1>b, <1>d DEF RunInv, RowInv, CallerInv
<1> QED BY <1>1, <1>2, <1>3, <1>4, <1>5, <1>6

\* The journal keeps its inductive invariant at every step, of whatever runtime.
LEMMA NextIInv == IInv /\ [Next]_vars => IInv'
<1> SUFFICES ASSUME IInv, [Next]_vars PROVE IInv' OBVIOUS
<1>1. CASE \E c \in Callers, k \in Keys : Call(c, k) BY <1>1, CallIInv
<1>2. CASE \E c \in Callers : CallStep(c)
  BY <1>2, CheckIInv, InsertIInv, InsertFailsIInv, SelectOtherIInv, SelectOwnIInv,
     SelectFailsIInv, OperationReturnsIInv, UpdateIInv, UpdateFailsIInv DEF CallStep
<1>3. CASE \E p \in Runtimes : Crash(p) BY <1>3, CrashIInv
<1>4. CASE UNCHANGED vars
  BY <1>4 DEF vars, IInv, TypeOK, AtMostOnce, CacheIsDurable, RowInv, CallerInv, RunInv
<1> QED BY <1>1, <1>2, <1>3, <1>4 DEF Next

THEOREM Invariance == Spec => []IInv
<1> QED BY InitIInv, NextIInv, PTL DEF Spec

\* The table, the caches and the calls have their types, in every runtime.
THEOREM TypeCorrect == Spec => []TypeOK
<1>1. IInv => TypeOK BY DEF IInv
<1> QED BY <1>1, Invariance, PTL

\* No operation is invoked twice for one key, however many runtimes share the
\* database, whatever statements fail or are interrupted.
THEOREM AtMostOnceHolds == Spec => []AtMostOnce
<1>1. IInv => AtMostOnce BY DEF IInv
<1> QED BY <1>1, Invariance, PTL

\* The result cache of a runtime never differs from the table: no invalidation
\* between the runtimes is needed.
THEOREM CacheIsDurableHolds == Spec => []CacheIsDurable
<1>1. IInv => CacheIsDurable BY DEF IInv
<1> QED BY <1>1, Invariance, PTL

-----------------------------------------------------------------------------
(* The journal implements OnceOnly *)

LEMMA InitRefines == Init => Promise!Init
  BY ResultsAssumption DEF Init, Promise!Init, Phase, Promise!None

\* OnceOnly does not see who owns a row.
LEMMA StutterRefines ==
  ASSUME \A k \in Keys : row'[k].line = row[k].line, UNCHANGED <<runs, replies>>
  PROVE  UNCHANGED Promise!vars
  BY DEF Promise!vars, Phase

\* The first line of a key claims it.
LEMMA ClaimRefines ==
  ASSUME IInv, NEW k \in Keys, row[k].line = None, row'[k].line = Started,
         \A j \in Keys : j # k => row'[j] = row[j], UNCHANGED <<runs, replies>>
  PROVE  Promise!Next
<1> USE ResultsAssumption DEF IInv
<1>1. runs[k] = 0 BY DEF RunInv
<1>2. \A j \in Keys : Phase(j)' = IF j = k THEN "claimed" ELSE Phase(j)
  BY <1>1 DEF Phase
<1>3. Phase(k) = "fresh" BY <1>1 DEF Phase
<1>4. UNCHANGED [j \in Keys |-> IF row[j].line \in Results THEN row[j].line ELSE None]
  OBVIOUS
<1>5. [j \in Keys |-> Phase(j)]' = [[j \in Keys |-> Phase(j)] EXCEPT ![k] = "claimed"]
  BY <1>2
<1>6. Promise!Claim(k) BY <1>3, <1>4, <1>5 DEF Promise!Claim
<1> QED BY <1>6 DEF Promise!Next

\* The result line decides the key, told to the waiting calls or not.
LEMMA DecideRefines ==
  ASSUME IInv, NEW k \in Keys, NEW r \in Results, runs[k] = 1, row[k].line = Started,
         row'[k].line = r, \A j \in Keys : j # k => row'[j] = row[j], UNCHANGED runs,
         replies' \in {replies, [replies EXCEPT ![k] = @ \cup {r}]}
  PROVE  Promise!Next
<1> USE ResultsAssumption
<1> DEFINE result == [j \in Keys |-> IF row[j].line \in Results THEN row[j].line ELSE None]
<1>1. result' = [result EXCEPT ![k] = r] OBVIOUS
<1>2. result[k] = None OBVIOUS
<1>3. \A j \in Keys : Phase(j)' = Phase(j) BY DEF Phase
<1>4. Phase(k) = "invoked" BY DEF Phase
<1>5. Promise!Decide(k, r) BY <1>1, <1>2, <1>3, <1>4 DEF Promise!Decide, Promise!None
<1> QED BY <1>5 DEF Promise!Next

LEMMA TellRefines ==
  ASSUME IInv, NEW k \in Keys, UNCHANGED <<row, runs>>,
         NEW a, replies' = [replies EXCEPT ![k] = @ \cup {a}],
         (a \in Results /\ row[k].line = a) \/ (a = Uncertain /\ row[k].line # None)
  PROVE  Promise!Next
<1> USE ResultsAssumption
<1>1. UNCHANGED <<[j \in Keys |-> Phase(j)],
                  [j \in Keys |-> IF row[j].line \in Results THEN row[j].line ELSE None]>>
  BY DEF Phase
<1>2. CASE a \in Results /\ row[k].line = a
  <2>1. Promise!TellResult(k) BY <1>1, <1>2 DEF Promise!TellResult, Promise!None
  <2> QED BY <2>1 DEF Promise!Next
<1>3. CASE a = Uncertain /\ row[k].line # None
  <2>1. Phase(k) # "fresh" BY <1>3 DEF Phase
  <2>2. Promise!TellUncertain(k)
    BY <1>1, <1>3, <2>1 DEF Promise!TellUncertain, Promise!Uncertain
  <2> QED BY <2>2 DEF Promise!Next
<1> QED BY <1>2, <1>3

LEMMA CheckRefines ==
  ASSUME IInv, NEW c \in Callers, Check(c)
  PROVE  Promise!Next \/ UNCHANGED Promise!vars
<1> DEFINE k == caller[c].key
           a == completed[Home[c]][k]
<1>1. k \in Keys /\ Home[c] \in Runtimes /\ UNCHANGED <<row, runs>>
  BY HomeAssumption DEF Check, IInv, CallerInv
<1>2. CASE UNCHANGED replies BY <1>1, <1>2, StutterRefines
<1>3. CASE a # None /\ replies' = [replies EXCEPT ![k] = @ \cup {a}]
  <2>1. a \in Results /\ row[k].line = a
    BY <1>1, <1>3 DEF IInv, TypeOK, CacheIsDurable
  <2> QED BY <1>1, <1>3, <2>1, TellRefines
<1> QED BY <1>2, <1>3 DEF Check, Tell

LEMMA InsertRefines ==
  ASSUME IInv, NEW c \in Callers, Insert(c) \/ InsertFails(c)
  PROVE  Promise!Next \/ UNCHANGED Promise!vars
<1> DEFINE k == caller[c].key
<1>1. /\ k \in Keys /\ caller[c].pc = "insert" /\ UNCHANGED <<runs, replies>>
  BY DEF Insert, InsertFails, IInv, CallerInv
<1>2. \/ row' = row
      \/ /\ row[k].owner = None
         /\ \E o \in Callers \cup {Gone} :
              row' = [row EXCEPT ![k] = [owner |-> o, line |-> Started]]
  <2>1. row' \in {row, Claimed(c), Orphan(Claimed(c), k, {c})} BY DEF Insert, InsertFails
  <2>2. CASE row[k].owner # None
    <3>1. Claimed(c) = row /\ Orphan(Claimed(c), k, {c}) = row BY <1>1, <2>2, InsertRow
    <3> QED BY <2>1, <3>1
  <2>3. CASE row[k].owner = None
    <3>1. \/ row' = row
          \/ row' = [row EXCEPT ![k] = [owner |-> c, line |-> Started]]
          \/ row' = [row EXCEPT ![k] = [owner |-> Gone, line |-> Started]]
      BY <1>1, <2>1, <2>3, InsertRow
    <3> QED BY <2>3, <3>1
  <2> QED BY <2>2, <2>3
<1>3. CASE row' = row BY <1>1, <1>3, StutterRefines
<1>4. CASE row[k].owner = None /\ row' # row
  <2>1. PICK o \in Callers \cup {Gone} :
          row' = [row EXCEPT ![k] = [owner |-> o, line |-> Started]]
    BY <1>2, <1>4
  <2>2. row'[k].line = Started /\ \A j \in Keys : j # k => row'[j] = row[j]
    BY <1>1, <2>1, RowSet DEF IInv
  <2>3. row[k].line = None BY <1>1, <1>4 DEF IInv, RowInv
  <2> QED BY <1>1, <2>2, <2>3, ClaimRefines
<1> QED BY <1>2, <1>3, <1>4

LEMMA SelectOtherRefines ==
  ASSUME IInv, NEW c \in Callers, SelectOther(c)
  PROVE  Promise!Next \/ UNCHANGED Promise!vars
<1> DEFINE k == caller[c].key
<1>1. k \in Keys /\ row[k].line # None /\ UNCHANGED <<row, runs>>
  BY DEF SelectOther, IInv, CallerInv
<1>2. CASE row[k].line \in Results /\ replies' = [replies EXCEPT ![k] = @ \cup {row[k].line}]
  BY <1>1, <1>2, TellRefines
<1>3. CASE replies' = [replies EXCEPT ![k] = @ \cup {Uncertain}]
  BY <1>1, <1>3, TellRefines
<1> QED BY <1>2, <1>3 DEF SelectOther, Tell

LEMMA SelectOwnRefines ==
  ASSUME IInv, NEW c \in Callers, SelectOwn(c)
  PROVE  Promise!Next
<1> USE ResultsAssumption DEF IInv
<1> DEFINE k == caller[c].key
<1>1. /\ k \in Keys /\ row[k].line = Started /\ runs[k] = 0 /\ UNCHANGED <<row, replies>>
      /\ runs' = [runs EXCEPT ![k] = @ + 1]
  BY DEF SelectOwn, CallerInv, RowInv, RunInv
<1>2. runs'[k] = 1 /\ \A j \in Keys : j # k => runs'[j] = runs[j]
  BY <1>1 DEF TypeOK
<1>3. \A j \in Keys : Phase(j)' = IF j = k THEN "invoked" ELSE Phase(j)
  BY <1>1, <1>2 DEF Phase
<1>4. Phase(k) = "claimed" BY <1>1 DEF Phase
<1>5. [j \in Keys |-> Phase(j)]' = [[j \in Keys |-> Phase(j)] EXCEPT ![k] = "invoked"]
  BY <1>3
<1>6. Promise!Invoke(k) BY <1>1, <1>4, <1>5 DEF Promise!Invoke
<1> QED BY <1>1, <1>6 DEF Promise!Next

LEMMA SelectFailsRefines ==
  ASSUME IInv, NEW c \in Callers, SelectFails(c)
  PROVE  UNCHANGED Promise!vars
<1> DEFINE k == caller[c].key
<1>1. k \in Keys /\ UNCHANGED <<runs, replies>> BY DEF SelectFails, IInv, CallerInv
<1>2. row[k].line \in {None, Started} \cup Results BY <1>1, Types DEF IInv, Rows
<1>3. CASE row' = row BY <1>1, <1>3, StutterRefines
<1>4. CASE row' = [row EXCEPT ![k] = [owner |-> Gone, line |-> row[k].line]]
  <2>1. \A j \in Keys : row'[j].line = row[j].line BY <1>1, <1>2, <1>4, RowSet DEF IInv
  <2> QED BY <1>1, <2>1, StutterRefines
<1> QED BY <1>1, <1>3, <1>4, OrphanRow DEF SelectFails

LEMMA UpdateRefines ==
  ASSUME IInv, NEW c \in Callers, Update(c) \/ UpdateFails(c)
  PROVE  Promise!Next \/ UNCHANGED Promise!vars
<1> DEFINE k == caller[c].key
<1>1. /\ k \in Keys /\ row[k].owner = c /\ row[k].line = Started /\ runs[k] = 1
      /\ caller[c].outcome \in Results /\ UNCHANGED runs
  BY DEF Update, UpdateFails, IInv, CallerInv, RowInv, RunInv
<1> PICK r \in Results : r = caller[c].outcome BY <1>1
<1>2. \/ /\ row' = [row EXCEPT ![k] = [owner |-> Gone, line |-> r]]
         /\ replies' \in {replies, [replies EXCEPT ![k] = @ \cup {r}]}
      \/ /\ row' = [row EXCEPT ![k] = [owner |-> Gone, line |-> Started]]
         /\ UNCHANGED replies
  BY <1>1, OrphanRow DEF Update, UpdateFails, Written, Tell
<1>3. CASE /\ row' = [row EXCEPT ![k] = [owner |-> Gone, line |-> r]]
           /\ replies' \in {replies, [replies EXCEPT ![k] = @ \cup {r}]}
  <2>1. row'[k].line = r /\ \A j \in Keys : j # k => row'[j] = row[j]
    BY <1>1, <1>3, RowSet DEF IInv
  <2> QED BY <1>1, <1>3, <2>1, DecideRefines
<1>4. CASE /\ row' = [row EXCEPT ![k] = [owner |-> Gone, line |-> Started]]
           /\ UNCHANGED replies
  <2>1. \A j \in Keys : row'[j].line = row[j].line BY <1>1, <1>4, RowSet DEF IInv
  <2> QED BY <1>1, <1>4, <2>1, StutterRefines
<1> QED BY <1>2, <1>3, <1>4

LEMMA CrashRefines ==
  ASSUME IInv, NEW p \in Runtimes, Crash(p)
  PROVE  UNCHANGED Promise!vars
<1> DEFINE dead == {c \in Callers : Home[c] = p}
<1>1. \A k \in Keys : row'[k].line = row[k].line
  <2> TAKE k \in Keys
  <2>1. row[k] \in Rows BY Types DEF IInv
  <2>2. row'[k] = Orphan(row, k, dead)[k] BY DEF Crash
  <2>3. Orphan(row, k, dead)[k] \in {row[k], [row[k] EXCEPT !.owner = Gone]}
    BY Types DEF Orphan, IInv
  <2> QED BY <2>1, <2>2, <2>3 DEF Rows
<1> QED BY <1>1, StutterRefines DEF Crash

\* Every behaviour of the runtimes, their crashes and failing statements
\* included, is a behaviour of OnceOnly: the database alone makes them agree.
THEOREM JournalImplementsOnceOnly == Spec => ImplementsOnceOnly
<1>1. IInv /\ [Next]_vars => [Promise!Next]_Promise!vars
  <2> SUFFICES ASSUME IInv, [Next]_vars
               PROVE  Promise!Next \/ UNCHANGED Promise!vars
    OBVIOUS
  <2>1. CASE \E c \in Callers, k \in Keys : Call(c, k)
    BY <2>1, StutterRefines DEF Call
  <2>2. CASE \E c \in Callers : CallStep(c)
    <3> PICK c \in Callers : CallStep(c) BY <2>2
    <3>1. CASE \E r \in Results : OperationReturns(c, r)
      BY <3>1, StutterRefines DEF OperationReturns
    <3> QED BY <3>1, CheckRefines, InsertRefines, SelectOtherRefines, SelectOwnRefines,
               SelectFailsRefines, UpdateRefines DEF CallStep
  <2>3. CASE \E p \in Runtimes : Crash(p) BY <2>3, CrashRefines
  <2>4. CASE UNCHANGED vars BY <2>4, StutterRefines DEF vars
  <2> QED BY <2>1, <2>2, <2>3, <2>4 DEF Next
<1> QED BY <1>1, InitRefines, Invariance, PTL DEF Spec, ImplementsOnceOnly, Promise!Spec
=============================================================================
