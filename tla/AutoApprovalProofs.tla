------------------------- MODULE AutoApprovalProofs -------------------------
(***************************************************************************)
(* Proofs about AutoApproval for every set of rules, reviews and edits and *)
(* every budget.  The shape of the store and of the calls is proved for    *)
(* every behaviour; what the file and the memory hold, until what a call   *)
(* loaded replaces another state in memory (overwritten), from where on a  *)
(* change may be lost, as a run of its own shows.                          *)
(***************************************************************************)
EXTENDS AutoApproval, FiniteSetTheorems, TLAPS

USE DEF Calls, None, Human, NoJob, Count, Record

\* Until a loaded state replaces another one all parts of the invariant hold.
Sound == TypeOK /\ JobInv /\ CopyInv /\ LoadInv /\ BirthInv /\ CountInv /\ LogInv
         /\ OffInv /\ BarInv

-----------------------------------------------------------------------------
(* The mutations *)

\* A mutation keeps the shape of the state.
LEMMA ChangedType ==
  ASSUME NEW c \in Calls, NEW j \in Job, NEW s \in State
  PROVE  Changed(c, j, s) \in State
<1> USE DEF Changed, State, Rule, Job, NewRule, NoRule
<1>1. CASE j.op = "count" BY <1>1
<1>2. CASE j.op = "record" BY <1>2
<1>3. CASE j.op = "create" BY <1>3
<1>4. CASE j.op = "replace" BY <1>4
<1>5. CASE j.op = "setEnabled" BY <1>5
<1>6. CASE j.op = "remove" BY <1>6
<1>7. CASE j.op = "none" BY <1>7
<1> QED BY <1>1, <1>2, <1>3, <1>4, <1>5, <1>6, <1>7

\* What a mutation does to a rule: only its own rule, and there it counts,
\* makes the rule, enables or disables it, or takes it away.
LEMMA ChangedRules ==
  ASSUME NEW c \in Calls, NEW j \in Job, NEW s \in State, NEW r \in Rules
  PROVE  LET t == Changed(c, j, s) IN
         /\ r # j.rule \/ j.op \in {"none", "record"} => t.rule[r] = s.rule[r]
         /\ j.op # "create" => (Live(t, r) => Live(s, r))
         /\ j.op # "create" /\ Live(t, r) => t.rule[r].uses >= s.rule[r].uses
         /\ j.op = "count" /\ r = j.rule /\ Live(t, r) =>
              t.rule[r].uses = s.rule[r].uses + 1
         /\ ~Enables(j) /\ Enabled(t, r) => Enabled(s, r)
         /\ Withdraws(j) /\ r = j.rule => ~Enabled(t, r)
<1> USE DEF Changed, State, Rule, Job, NewRule, NoRule, Live, Enabled, Enables, Withdraws
<1>1. CASE j.op = "count" BY <1>1
<1>2. CASE j.op = "record" BY <1>2
<1>3. CASE j.op = "create" BY <1>3
<1>4. CASE j.op = "replace" BY <1>4
<1>5. CASE j.op = "setEnabled" BY <1>5
<1>6. CASE j.op = "remove" BY <1>6
<1>7. CASE j.op = "none" BY <1>7
<1> QED BY <1>1, <1>2, <1>3, <1>4, <1>5, <1>6, <1>7

\* Only a record changes the log, at the entry of its own review.
LEMMA ChangedDecisions ==
  ASSUME NEW c \in Calls, NEW j \in Job, NEW s \in State, NEW d \in Reviews
  PROVE  LET t == Changed(c, j, s) IN
         /\ d # c \/ j.op # "record" => t.decision[d] = s.decision[d]
         /\ d = c /\ j.op = "record" => t.decision[d] = j.rule
BY DEF Changed, State, Rule, Job, NewRule, NoRule

-----------------------------------------------------------------------------
(* Counting *)

\* The sets of calls that are counted are finite.
LEMMA CountedFinite ==
  ASSUME NEW r
  PROVE  /\ IsFiniteSet(Counted(r)) /\ Cardinality(Counted(r)) \in Nat
         /\ IsFiniteSet(Counted(r) \cup Counting(r))
         /\ Cardinality(Counted(r) \cup Counting(r)) \in Nat
<1>1. Counted(r) \in SUBSET Reviews /\ Counted(r) \cup Counting(r) \in SUBSET Reviews
  BY DEF Counted, Counting
<1>2. IsFiniteSet(Counted(r)) /\ IsFiniteSet(Counted(r) \cup Counting(r))
  BY <1>1, ReviewsAssumption, FS_Subset
<1> QED BY <1>2, FS_CardinalityType

\* A smaller set of calls needs no more uses.
LEMMA Fewer ==
  ASSUME NEW S, NEW T, IsFiniteSet(S), T \subseteq S, NEW n \in Nat, Cardinality(S) <= n
  PROVE  Cardinality(T) <= n
<1>1. IsFiniteSet(T) /\ Cardinality(T) <= Cardinality(S) BY FS_Subset
<1>2. Cardinality(T) \in Nat /\ Cardinality(S) \in Nat BY <1>1, FS_CardinalityType
<1> QED BY <1>1, <1>2

\* One more call needs one more use.
LEMMA OneMore ==
  ASSUME NEW S, NEW x, NEW T, IsFiniteSet(S), T \subseteq S \cup {x},
         NEW n \in Nat, Cardinality(S) <= n
  PROVE  Cardinality(T) <= n + 1
<1>1. IsFiniteSet(S \cup {x}) /\ Cardinality(S \cup {x}) =
        IF x \in S THEN Cardinality(S) ELSE Cardinality(S) + 1
  BY FS_AddElement
<1>2. Cardinality(S) \in Nat BY FS_CardinalityType
<1>3. Cardinality(S \cup {x}) <= n + 1 BY <1>1, <1>2
<1> QED BY <1>1, <1>3, Fewer

\* The calls counted for a rule, in the file alone or with those being counted.
LEMMA FewerCounted ==
  ASSUME NEW r, NEW T, NEW n \in Nat, T \subseteq Counted(r), Cardinality(Counted(r)) <= n
  PROVE  Cardinality(T) <= n
<1>1. IsFiniteSet(Counted(r)) BY CountedFinite
<1> QED BY <1>1, Fewer

LEMMA FewerCounting ==
  ASSUME NEW r, NEW T, NEW n \in Nat, T \subseteq Counted(r) \cup Counting(r),
         Cardinality(Counted(r) \cup Counting(r)) <= n
  PROVE  Cardinality(T) <= n
<1>1. IsFiniteSet(Counted(r) \cup Counting(r)) BY CountedFinite
<1> QED BY <1>1, Fewer

LEMMA OneMoreCounted ==
  ASSUME NEW r, NEW x, NEW T, NEW n \in Nat, T \subseteq Counted(r) \cup {x},
         Cardinality(Counted(r)) <= n
  PROVE  Cardinality(T) <= n + 1
<1>1. IsFiniteSet(Counted(r)) BY CountedFinite
<1> QED BY <1>1, OneMore
-----------------------------------------------------------------------------
(* Initial states *)

LEMMA InitIInv == Init => Sound
<1> SUFFICES ASSUME Init PROVE Sound OBVIOUS
<1> USE NoStateAssumption DEF Init
<1>1. TypeOK
  <2>1. NewRule(TRUE) \in Rule /\ NoRule \in Rule BY DEF Rule, NewRule, NoRule
  <2>2. file.rule \in [Rules -> Rule] BY <2>1
  <2>3. file \in State BY <2>2 DEF State
  <2>4. overwritten \in BOOLEAN OBVIOUS
  <2>5. job \in [Calls -> Job] BY DEF Job
  <2> QED BY <2>3, <2>4, <2>5, BudgetAssumption, CallsAssumption DEF TypeOK
<1>2. LoadInv BY DEF LoadInv, InMemory
<1>3. JobInv /\ CopyInv BY DEF JobInv, CopyInv
<1>4. BirthInv BY RulesAssumption DEF BirthInv, Unborn, Live, InMemory, NoRule
<1>5. CountInv
  <2> SUFFICES ASSUME NEW r \in Rules
               PROVE Live(file, r) => Cardinality(Counted(r)) <= file.rule[r].uses
    BY DEF CountInv, InMemory
  <2>1. Counted(r) = {} BY RulesAssumption DEF Counted
  <2> QED BY <2>1, FS_EmptySet DEF Live, NewRule, NoRule
<1>6. LogInv BY RulesAssumption DEF LogInv
<1>7. OffInv BY DEF OffInv
<1>8. BarInv BY DEF BarInv
<1> QED BY <1>1, <1>2, <1>3, <1>4, <1>5, <1>6, <1>7, <1>8 DEF Sound

-----------------------------------------------------------------------------
(* The shape of the store and of the calls, which every step keeps.        *)

LEMMA ReviewShape ==
  ASSUME ShapeInv, NEW c \in Reviews, Review(c)
  PROVE  ShapeInv'
<1> USE DEF ShapeInv, Review, Goto
<1>1. TypeOK' BY CallsAssumption DEF TypeOK, UsedUp
<1>2. JobInv' BY CallsAssumption DEF JobInv, TypeOK
<1>3. CopyInv' BY DEF CopyInv, TypeOK
<1> QED BY <1>1, <1>2, <1>3

\* Review c begins a mutation, and what it loaded is in memory.
LEMMA MutateShape ==
  ASSUME ShapeInv, NEW c \in Reviews, NEW j \in Job, Mutate(c, j),
         pc[c] \in {"check", "scan"}, j.op \in {"count", "record"}, ~j.enabled,
         j.op = "count" => j.rule \in Rules,
         j.op = "record" => j.rule \in Rules \cup {Human},
         value' \in State \cup {NoState},
         copy' = copy \/ copy' = [copy EXCEPT ![c] = NoState],
         overwritten' \in BOOLEAN,
         UNCHANGED <<file, holder, answer, issued, off, barred, crashes>>
  PROVE  ShapeInv'
<1> USE DEF ShapeInv, Mutate, Goto
<1>1. TypeOK' BY CallsAssumption DEF TypeOK
<1>2. JobInv' BY CallsAssumption DEF JobInv, TypeOK
<1>3. CopyInv' BY DEF CopyInv, TypeOK
<1> QED BY <1>1, <1>2, <1>3

LEMMA EscalateShape ==
  ASSUME ShapeInv, NEW c \in Reviews, Escalate(c)
  PROVE  ShapeInv'
<1>1. Record(Human) \in Job BY DEF Job
<1>2. value' \in State \cup {NoState} /\ overwritten' \in BOOLEAN
  BY DEF Escalate, ShapeInv, TypeOK
<1> QED BY <1>1, <1>2, MutateShape DEF Escalate

LEMMA ScanShape ==
  ASSUME ShapeInv, NEW c \in Reviews, NEW s, Scan(c, s), pc[c] \in {"check", "scan"},
         value' \in State \cup {NoState},
         copy' = copy \/ copy' = [copy EXCEPT ![c] = NoState],
         overwritten' \in BOOLEAN,
         UNCHANGED <<file, holder, answer, issued, off, barred, crashes>>
  PROVE  ShapeInv'
<1>1. CASE \E r \in Candidates(s) : Mutate(c, Count(r))
  <2>1. PICK r \in Candidates(s) : Mutate(c, Count(r)) BY <1>1
  <2>2. r \in Rules /\ Count(r) \in Job BY DEF Candidates, Job
  <2> QED BY <2>1, <2>2, MutateShape
<1>2. CASE Mutate(c, Record(Human))
  <2>1. Record(Human) \in Job BY DEF Job
  <2> QED BY <1>2, <2>1, MutateShape
<1> QED BY <1>1, <1>2 DEF Scan

LEMMA ReadShape ==
  ASSUME ShapeInv, NEW c \in Reviews, Read(c)
  PROVE  ShapeInv'
<1>1. CASE value = NoState
  <2> USE <1>1 DEF ShapeInv, Read, Goto
  <2>1. TypeOK' BY CallsAssumption DEF TypeOK
  <2>2. JobInv' BY CallsAssumption DEF JobInv, TypeOK
  <2>3. CopyInv' BY DEF CopyInv, TypeOK
  <2> QED BY <2>1, <2>2, <2>3
<1>2. CASE value # NoState
  <2>1. value' \in State \cup {NoState} /\ overwritten' \in BOOLEAN
    BY DEF Read, ShapeInv, TypeOK
  <2> QED BY <1>2, <2>1, ScanShape DEF Read
<1> QED BY <1>1, <1>2

\* Whether a state was replaced is true or false.
LEMMA OverwriteType == ASSUME NEW s, Overwrite(s) PROVE overwritten' \in BOOLEAN
BY DEF Overwrite

LEMMA ReadLoadedShape ==
  ASSUME ShapeInv, NEW c \in Reviews, ReadLoaded(c)
  PROVE  ShapeInv'
<1>1. value' \in State \cup {NoState} BY DEF ReadLoaded, ShapeInv, TypeOK
<1>2. overwritten' \in BOOLEAN BY OverwriteType DEF ReadLoaded
<1>3. /\ Scan(c, copy[c]) /\ pc[c] \in {"check", "scan"}
      /\ copy' = [copy EXCEPT ![c] = NoState]
      /\ UNCHANGED <<file, holder, answer, issued, off, barred, crashes>>
  BY DEF ReadLoaded
<1> QED BY <1>1, <1>2, <1>3, ScanShape

LEMMA EditShape ==
  ASSUME ShapeInv, NEW e \in Edits, Edit(e)
  PROVE  ShapeInv'
<1>1. PICK op \in {"create", "replace", "setEnabled", "remove"}, r \in Rules, b \in BOOLEAN :
        /\ job' = [job EXCEPT ![e] = [op |-> op, rule |-> r, enabled |-> op # "remove" /\ b]]
        /\ pc' = [pc EXCEPT ![e] = "queue"]
        /\ issued' = issued \cup {r}
        /\ LET back == IF Enables(job'[e]) THEN {r} ELSE {} IN
             /\ off' = off \ back
             /\ barred' = [d \in Reviews |-> barred[d] \ back]
  BY DEF Edit, Mutate, Goto
<1> DEFINE j == [op |-> op, rule |-> r, enabled |-> op # "remove" /\ b]
<1>2. /\ pc[e] = "idle"
      /\ UNCHANGED <<file, value, holder, copy, answer, crashes, overwritten>>
  BY DEF Edit
<1>3. j \in Job /\ j.op \notin {"none", "count", "record"} /\ j.rule = r BY DEF Job
<1>4. job' = [job EXCEPT ![e] = j] BY <1>1
<1>5. off' \subseteq off /\ barred' \in [Reviews -> SUBSET Rules]
  BY <1>1 DEF ShapeInv, TypeOK
<1> HIDE DEF j
<1> USE DEF ShapeInv
<1>6. TypeOK' BY <1>1, <1>2, <1>3, <1>4, <1>5, CallsAssumption DEF TypeOK
<1>7. JobInv' BY <1>1, <1>2, <1>3, <1>4, CallsAssumption DEF JobInv, TypeOK
<1>8. CopyInv' BY <1>1, <1>2 DEF CopyInv, TypeOK
<1> QED BY <1>6, <1>7, <1>8

\* A call that an error ends.
LEMMA FailShape ==
  ASSUME ShapeInv, NEW c \in Calls, pc[c] \in {"queue", "apply", "load", "read", "flush"},
         Fail(c), holder' = (IF holder = c THEN None ELSE holder),
         value' \in State \cup {NoState}, overwritten' \in BOOLEAN,
         UNCHANGED <<file, issued, off, barred, crashes>>
  PROVE  ShapeInv'
<1> USE DEF ShapeInv
<1>1. /\ \A d \in Calls : d # c => pc'[d] = pc[d] /\ job'[d] = job[d] /\ copy'[d] = copy[d]
      /\ pc'[c] = "done" /\ job'[c] = NoJob /\ copy'[c] = NoState
      /\ \A d \in Reviews : answer'[d] = IF d = c THEN Human ELSE answer[d]
  BY DEF Fail, Goto, TypeOK
<1>2. TypeOK' BY <1>1, CallsAssumption DEF TypeOK, Fail, Goto, Job
<1>3. JobInv' BY <1>1, CallsAssumption DEF JobInv
<1>4. CopyInv' BY <1>1 DEF CopyInv
<1> QED BY <1>2, <1>3, <1>4

\* A call that runs its mutation on the state s.
LEMMA OperateShape ==
  ASSUME ShapeInv, NEW c \in Calls, NEW s \in State, Operate(c, s),
         pc[c] \in {"queue", "apply"}, holder = None \/ holder = c,
         overwritten' \in BOOLEAN, UNCHANGED <<file, issued, off, barred, crashes>>
  PROVE  ShapeInv'
<1>1. CASE Throws(job[c], s)
  <2>1. holder' = (IF holder = c THEN None ELSE holder) BY <1>1 DEF Operate
  <2> QED BY <1>1, <2>1, FailShape DEF Operate
<1>2. CASE ~Throws(job[c], s)
  <2> DEFINE t == Changed(c, job[c], s)
  <2>1. t \in State BY ChangedType DEF ShapeInv, TypeOK
  <2>2. /\ value' = t /\ holder' = c /\ copy' = [copy EXCEPT ![c] = t]
        /\ pc' = [pc EXCEPT ![c] = "flush"] /\ UNCHANGED <<job, answer>>
    BY <1>2 DEF Operate, Goto
  <2> HIDE DEF t
  <2> USE DEF ShapeInv
  <2>3. TypeOK' BY <2>1, <2>2, CallsAssumption DEF TypeOK
  <2>4. JobInv' BY <2>2 DEF JobInv, TypeOK
  <2>5. CopyInv' BY <2>1, <2>2, NoStateAssumption DEF CopyInv, TypeOK
  <2> QED BY <2>3, <2>4, <2>5
<1> QED BY <1>1, <1>2

LEMMA EnterShape ==
  ASSUME ShapeInv, NEW c \in Calls, Enter(c)
  PROVE  ShapeInv'
<1>1. CASE value = NoState
  <2>0. /\ pc[c] = "queue" /\ pc' = [pc EXCEPT ![c] = "load"]
        /\ holder = None /\ holder' = c
        /\ UNCHANGED <<file, value, job, copy, answer, issued, off, barred, crashes,
                      overwritten>>
    BY <1>1 DEF Enter, Goto
  <2> USE <2>0 DEF ShapeInv
  <2>1. TypeOK' BY CallsAssumption DEF TypeOK
  <2>2. JobInv' BY DEF JobInv, TypeOK
  <2>3. CopyInv' BY DEF CopyInv, TypeOK
  <2> QED BY <2>1, <2>2, <2>3
<1>2. CASE value # NoState
  <2>1. value \in State /\ overwritten' \in BOOLEAN BY <1>2 DEF Enter, ShapeInv, TypeOK
  <2> QED BY <1>2, <2>1, OperateShape DEF Enter
<1> QED BY <1>1, <1>2

LEMMA LoadFromDiskShape ==
  ASSUME ShapeInv, NEW c \in Calls, LoadFromDisk(c)
  PROVE  ShapeInv'
<1> USE DEF ShapeInv, LoadFromDisk, Goto
<1>1. TypeOK' BY CallsAssumption DEF TypeOK
<1>2. JobInv' BY CallsAssumption DEF JobInv, TypeOK
<1>3. CopyInv' BY NoStateAssumption DEF CopyInv, TypeOK
<1> QED BY <1>1, <1>2, <1>3

LEMMA LoadedShape ==
  ASSUME ShapeInv, NEW c \in Calls, Loaded(c)
  PROVE  ShapeInv'
<1>1. copy[c] \in State /\ holder = c BY DEF Loaded, ShapeInv, CopyInv, TypeOK
<1>2. overwritten' \in BOOLEAN BY OverwriteType DEF Loaded
<1> QED BY <1>1, <1>2, OperateShape DEF Loaded

LEMMA LoadFailsShape ==
  ASSUME ShapeInv, NEW c \in Calls, LoadFails(c)
  PROVE  ShapeInv'
<1>1. value' \in State \cup {NoState} /\ overwritten' \in BOOLEAN
  BY DEF LoadFails, ShapeInv, TypeOK
<1> QED BY <1>1, FailShape DEF LoadFails

LEMMA WriteFailsShape ==
  ASSUME ShapeInv, NEW c \in Calls, WriteFails(c)
  PROVE  ShapeInv'
<1>1. value' \in State \cup {NoState} /\ overwritten' \in BOOLEAN /\ holder = c
  BY DEF WriteFails, ShapeInv, TypeOK
<1> QED BY <1>1, FailShape DEF WriteFails

LEMMA WrittenShape ==
  ASSUME ShapeInv, NEW c \in Calls, Written(c)
  PROVE  ShapeInv'
<1> DEFINE j == job[c]
<1>1. /\ pc[c] = "flush" /\ holder = c /\ holder' = None
      /\ file' = copy[c] /\ copy[c] \in State
      /\ UNCHANGED <<value, issued, barred, crashes, overwritten>>
  BY DEF Written, ShapeInv, TypeOK, CopyInv
<1>2. \A d \in Calls : d # c => /\ pc'[d] = pc[d] /\ pc[d] \notin {"load", "apply", "flush"}
                                /\ job'[d] = job[d] /\ copy'[d] = copy[d]
  BY <1>1 DEF Written, Goto, ShapeInv, TypeOK
<1>3. /\ j.op = "count" => pc'[c] = "queue" /\ job'[c] = Record(j.rule) /\ answer' = answer
      /\ j.op # "count" => pc'[c] = "done" /\ job'[c] = NoJob
           /\ \A d \in Reviews : answer'[d] = IF d = c THEN j.rule ELSE answer[d]
  <2>1. c \in DOMAIN pc /\ c \in DOMAIN job BY DEF ShapeInv, TypeOK
  <2>2. CASE j.op = "count" BY <2>1, <2>2 DEF Written, Goto
  <2>3. CASE j.op # "count"
    <3>1. /\ pc' = [pc EXCEPT ![c] = "done"] /\ job' = [job EXCEPT ![c] = NoJob]
          /\ answer' = [d \in Reviews |-> IF d = c THEN j.rule ELSE answer[d]]
      BY <2>3 DEF Written, Goto
    <3> QED BY <2>1, <2>3, <3>1
  <2> QED BY <2>2, <2>3
<1>4. j.op # "none" /\ j \in Job BY <1>1 DEF ShapeInv, JobInv, TypeOK
<1>5. c \in Reviews =>
        /\ j.op \in {"count", "record"} /\ answer[c] = None /\ j.rule \in Rules \cup {Human}
        /\ j.op = "count" => j.rule \in Rules
  BY <1>1, <1>4 DEF ShapeInv, JobInv, TypeOK, Job
<1>6. c \in Edits => j.op \notin {"count", "record"} /\ j.rule \in issued /\ answer' = answer
  BY <1>3, <1>4, CallsAssumption DEF ShapeInv, JobInv, TypeOK, Written
<1>7. answer' \in [Reviews -> Rules \cup {None, Human}]
  BY <1>5, <1>6 DEF Written, ShapeInv, TypeOK
<1>8. /\ pc' \in [Calls -> {"idle", "check", "read", "scan", "queue", "load",
                            "apply", "flush", "done", "dead"}]
      /\ copy' \in [Calls -> State \cup {NoState}]
  BY DEF Written, Goto, ShapeInv, TypeOK
<1>9. job' \in [Calls -> Job]
  <2>1. Record(j.rule) \in Job /\ NoJob \in Job BY <1>4 DEF Job
  <2>2. job' = [job EXCEPT ![c] = Record(j.rule)] \/ job' = [job EXCEPT ![c] = NoJob]
    BY DEF Written
  <2>3. job \in [Calls -> Job] BY DEF ShapeInv, TypeOK
  <2> QED BY <2>1, <2>2, <2>3
<1>10. off' \subseteq issued
  <2>1. off' = IF Withdraws(j) /\ \A d \in Edits : job[d].rule = j.rule => ~Enables(job[d])
               THEN off \cup {j.rule} ELSE off
    BY DEF Written
  <2>2. Withdraws(j) => j.rule \in issued BY <1>4, <1>5, <1>6 DEF Withdraws
  <2> QED BY <2>1, <2>2 DEF ShapeInv, TypeOK
<1> HIDE DEF j
<1> USE DEF ShapeInv
<1>11. TypeOK'
  <2>1. \A d \in Calls : holder' = d <=> pc'[d] \in {"load", "apply", "flush"}
    BY <1>1, <1>2, <1>3, CallsAssumption
  <2>2. \A d \in Reviews : answer'[d] # None <=> pc'[d] = "done"
    BY <1>1, <1>2, <1>3, <1>5, <1>6, RulesAssumption DEF TypeOK
  <2> QED BY <1>1, <1>7, <1>8, <1>9, <1>10, <2>1, <2>2 DEF TypeOK
<1>12. JobInv' BY <1>1, <1>2, <1>3, <1>4, <1>5, <1>6, CallsAssumption DEF JobInv
<1>13. CopyInv' BY <1>2, <1>3 DEF CopyInv
<1> QED BY <1>11, <1>12, <1>13

LEMMA CrashShape ==
  ASSUME ShapeInv, Crash
  PROVE  ShapeInv'
<1> USE DEF ShapeInv, Crash
<1>1. \A d \in Calls : pc'[d] \in {"idle", "done", "dead"} /\ job'[d] = NoJob
                       /\ (pc'[d] = "done" <=> pc[d] = "done")
  BY DEF TypeOK
<1>2. TypeOK'
  <2>1. NoJob \in Job BY DEF Job
  <2>2. \A d \in Calls : ~(holder' = d) BY CallsAssumption
  <2>3. \A d \in Reviews : answer'[d] # None <=> pc'[d] = "done" BY <1>1 DEF TypeOK
  <2>4. crashes' \in 0..MaxCrashes BY BudgetAssumption DEF TypeOK
  <2> QED BY <1>1, <2>1, <2>2, <2>3, <2>4 DEF TypeOK
<1>3. JobInv' BY <1>1 DEF JobInv
<1>4. CopyInv' BY <1>1 DEF CopyInv
<1> QED BY <1>2, <1>3, <1>4

LEMMA NextShape == ShapeInv /\ [Next]_vars => ShapeInv'
<1> SUFFICES ASSUME ShapeInv, [Next]_vars PROVE ShapeInv' OBVIOUS
<1>1. ASSUME NEW c \in Calls,
             \/ Enter(c) \/ LoadFromDisk(c) \/ LoadFails(c) \/ Loaded(c)
             \/ Written(c) \/ WriteFails(c)
      PROVE  ShapeInv'
  BY <1>1, EnterShape, LoadFromDiskShape, LoadFailsShape, LoadedShape, WrittenShape,
     WriteFailsShape
<1>2. ASSUME NEW c \in Reviews, Review(c) \/ Escalate(c) \/ Read(c) \/ ReadLoaded(c)
      PROVE  ShapeInv'
  BY <1>2, ReviewShape, EscalateShape, ReadShape, ReadLoadedShape
<1>3. ASSUME NEW e \in Edits, Edit(e) PROVE ShapeInv' BY <1>3, EditShape
<1>4. CASE Crash BY <1>4, CrashShape
<1>5. CASE UNCHANGED vars
  BY <1>5 DEF vars, ShapeInv, TypeOK, JobInv, CopyInv
<1> QED BY <1>1, <1>2, <1>3, <1>4, <1>5 DEF Next

-----------------------------------------------------------------------------
(* Steps that leave the mutations as they are or start one.                *)

\* If neither the states nor what is counted changes, the counts stay right.
LEMMA CountKept ==
  ASSUME Sound, UNCHANGED file, value' = value \/ value' = NoState,
         \A r \in Rules : /\ Counted(r)' \subseteq Counted(r)
                          /\ Counting(r)' \subseteq Counting(r)
  PROVE  CountInv'
<1> SUFFICES ASSUME NEW r \in Rules
             PROVE  /\ Live(file, r)' => Cardinality(Counted(r)') <= file'.rule[r].uses
                    /\ InMemory' /\ Live(value, r)' =>
                         Cardinality(Counted(r)' \cup Counting(r)') <= value'.rule[r].uses
  BY DEF CountInv
<1>1. ASSUME Live(file, r)' PROVE Cardinality(Counted(r)') <= file'.rule[r].uses
  <2>1. file.rule[r].uses \in Nat BY DEF Sound, TypeOK, State, Rule
  <2>2. Cardinality(Counted(r)) <= file.rule[r].uses BY <1>1 DEF Sound, CountInv, Live
  <2>3. Counted(r)' \subseteq Counted(r) OBVIOUS
  <2> QED BY <2>1, <2>2, <2>3, FewerCounted
<1>2. ASSUME InMemory', Live(value, r)'
      PROVE Cardinality(Counted(r)' \cup Counting(r)') <= value'.rule[r].uses
  <2>0. value' = value /\ InMemory BY <1>2 DEF InMemory
  <2>1. value.rule[r].uses \in Nat BY <2>0 DEF Sound, TypeOK, State, Rule, InMemory
  <2>2. Cardinality(Counted(r) \cup Counting(r)) <= value.rule[r].uses
    BY <2>0, <1>2 DEF Sound, CountInv, Live
  <2>3. Counted(r)' \cup Counting(r)' \subseteq Counted(r) \cup Counting(r) OBVIOUS
  <2> QED BY <2>0, <2>1, <2>2, <2>3, FewerCounting
<1> QED BY <1>1, <1>2

LEMMA ReviewData ==
  ASSUME Sound, NEW c \in Reviews, Review(c)
  PROVE  DataInv'
<1> USE DEF Sound, DataInv, Review, Goto
<1>2. LoadInv' BY DEF LoadInv, InMemory, TypeOK
<1>4. BirthInv' BY DEF BirthInv, Unborn, Live, InMemory, TypeOK
<1>5. CountInv' BY CountKept DEF Counted, Counting, TypeOK
<1>6. LogInv' BY DEF LogInv, InMemory, TypeOK
<1>7. OffInv' BY DEF OffInv, Enabled, InMemory, TypeOK
<1>8. BarInv'
  <2>1. job[c].rule = None /\ answer[c] = None BY DEF JobInv, TypeOK
  <2>2. off \cup UsedUp \subseteq Rules BY DEF TypeOK, UsedUp
  <2>3. UsedUp' = UsedUp BY DEF UsedUp, Answered
  <2> QED BY <2>1, <2>2, <2>3, RulesAssumption DEF BarInv, TypeOK
<1> QED BY <1>2, <1>4, <1>5, <1>6, <1>7, <1>8

LEMMA EscalateData ==
  ASSUME Sound, NEW c \in Reviews, Escalate(c)
  PROVE  DataInv'
<1> USE DEF Sound, DataInv, Escalate, Mutate, Goto
<1>2. LoadInv' BY DEF LoadInv, InMemory, TypeOK
<1>4. BirthInv'
  BY RulesAssumption, CallsAssumption DEF BirthInv, Unborn, Live, InMemory, TypeOK, JobInv
<1>5. CountInv' BY CountKept, RulesAssumption DEF Counted, Counting, TypeOK
<1>6. LogInv' BY DEF LogInv, InMemory, TypeOK
<1>7. OffInv' BY CallsAssumption DEF OffInv, Enabled, InMemory, TypeOK
<1>8. BarInv' BY RulesAssumption DEF BarInv, UsedUp, Answered, TypeOK
<1> QED BY <1>2, <1>4, <1>5, <1>6, <1>7, <1>8

\* The state s is the one in memory, or else the file's.
RunsOn(s) == (InMemory /\ s = value) \/ (~InMemory /\ s = file)

\* What was loaded, when it replaces no other state: the file, or the same state.
LEMMA LoadedFacts ==
  ASSUME Sound, NEW c \in Calls, pc[c] \in {"apply", "scan"}, Overwrite(copy[c]), ~overwritten'
  PROVE  RunsOn(copy[c]) /\ copy[c] \in State
<1>1. value = NoState \/ value = copy[c] BY DEF Overwrite
<1>2. copy[c] \in State BY DEF Sound, CopyInv, TypeOK
<1>3. ~InMemory => copy[c] = file BY DEF Sound, LoadInv
<1> QED BY <1>1, <1>2, <1>3 DEF RunsOn, InMemory

\* A rule that is a candidate is neither withdrawn, nor used up, nor unborn.
LEMMA CandidateFacts ==
  ASSUME Sound, NEW s \in State, RunsOn(s), NEW r \in Candidates(s)
  PROVE  r \in Rules /\ r \notin off /\ r \notin UsedUp /\ ~Unborn(r)
<1>1. r \in Rules /\ Enabled(s, r) /\ Live(s, r) /\ s.rule[r].uses < Budget
  BY DEF Candidates, Enabled, Live
<1>2. r \notin off /\ ~Unborn(r) BY <1>1 DEF Sound, OffInv, Unborn, RunsOn
<1>3. Answered(r) \subseteq Counted(r) BY DEF Answered, Counted
<1>4. s.rule[r].uses \in Nat BY <1>1 DEF State, Rule
<1>5. Cardinality(Answered(r)) <= s.rule[r].uses
  <2>1. CASE s = file
    <3>1. Cardinality(Counted(r)) <= file.rule[r].uses BY <2>1, <1>1 DEF Sound, CountInv
    <3> QED BY <2>1, <3>1, <1>3, <1>4, FewerCounted
  <2>2. CASE InMemory /\ s = value
    <3>1. Cardinality(Counted(r) \cup Counting(r)) <= value.rule[r].uses
      BY <2>2, <1>1 DEF Sound, CountInv
    <3>2. Answered(r) \subseteq Counted(r) \cup Counting(r) BY <1>3
    <3> QED BY <2>2, <3>1, <3>2, <1>4, FewerCounting
  <2> QED BY <2>1, <2>2 DEF RunsOn
<1>6. Cardinality(Answered(r)) \in Nat
  BY <1>3, CountedFinite, FS_Subset, FS_CardinalityType
<1>7. ~(Cardinality(Answered(r)) >= Budget) BY <1>1, <1>4, <1>5, <1>6, BudgetAssumption
<1> QED BY <1>1, <1>2, <1>7 DEF UsedUp

\* Review c goes on with the mutation j, of a rule that may answer it.
Chosen(c, j) ==
    /\ j = Record(Human) \/ \E r \in Rules :
         j = Count(r) /\ r \notin off \cup UsedUp /\ ~Unborn(r)
    /\ job' = [job EXCEPT ![c] = j]
    /\ pc' = [pc EXCEPT ![c] = "queue"]

\* The scan of s begins to count a candidate's use, or to leave the request.
LEMMA ScanJob ==
  ASSUME Sound, NEW c \in Reviews, NEW s \in State, RunsOn(s), Scan(c, s)
  PROVE  \E j : Chosen(c, j)
<1>1. CASE \E r \in Candidates(s) : Mutate(c, Count(r))
  <2>1. PICK r \in Candidates(s) : Mutate(c, Count(r)) BY <1>1
  <2>2. r \in Rules /\ r \notin off \cup UsedUp /\ ~Unborn(r) BY CandidateFacts
  <2> QED BY <2>1, <2>2 DEF Mutate, Goto, Chosen
<1>2. CASE Mutate(c, Record(Human)) BY <1>2 DEF Mutate, Goto, Chosen
<1> QED BY <1>1, <1>2 DEF Scan

\* A review that has found its state: what holds after it has chosen its job.
LEMMA ScanData ==
  ASSUME Sound, NEW c \in Reviews, NEW j, Chosen(c, j),
         pc[c] \in {"check", "scan"}, RunsOn(value'),
         copy' = copy \/ copy' = [copy EXCEPT ![c] = NoState],
         UNCHANGED <<file, holder, answer, issued, off, barred, crashes>>
  PROVE  DataInv'
<1> USE DEF Sound, DataInv, Chosen
<1>0. InMemory' BY NoStateAssumption DEF InMemory, TypeOK, RunsOn
<1>f. \A d \in Calls : pc'[d] = "flush" =>
        /\ d # c /\ pc[d] = "flush" /\ job'[d] = job[d] /\ copy'[d] = copy[d]
        /\ InMemory /\ value' = value
  BY DEF TypeOK, LoadInv, RunsOn
<1>j. j \in Job /\ j.op \in {"count", "record"} /\ ~j.enabled /\ j.rule # None
  <2>1. CASE j = Record(Human) BY <2>1 DEF Job
  <2>2. CASE \E r \in Rules : j = Count(r) BY <2>2, RulesAssumption DEF Job
  <2> QED BY <2>1, <2>2
<1>2. LoadInv' BY <1>0, <1>f DEF LoadInv
<1>4. BirthInv'
  <2>1. ASSUME NEW r \in Rules, Unborn(r) PROVE Unborn(r)'
    <3>1. j.rule # r BY <2>1, RulesAssumption
    <3> QED BY <2>1, <3>1 DEF Unborn, Live, RunsOn, TypeOK
  <2> QED BY <2>1, CallsAssumption DEF BirthInv, TypeOK, JobInv
<1>5. CountInv'
  <2> SUFFICES ASSUME NEW r \in Rules
               PROVE  /\ Live(file, r)' => Cardinality(Counted(r)') <= file'.rule[r].uses
                      /\ InMemory' /\ Live(value, r)' =>
                           Cardinality(Counted(r)' \cup Counting(r)') <= value'.rule[r].uses
    BY DEF CountInv
  <2>1. Counted(r)' \subseteq Counted(r) /\ Counting(r)' \subseteq Counting(r)
    BY RulesAssumption, CallsAssumption DEF Counted, Counting, TypeOK
  <2>2. ~InMemory => Counting(r)' = {} BY <1>f DEF Counting
  <2>3. ASSUME Live(file, r) PROVE Cardinality(Counted(r)') <= file.rule[r].uses
    <3>1. file.rule[r].uses \in Nat BY DEF TypeOK, State, Rule
    <3>2. Cardinality(Counted(r)) <= file.rule[r].uses BY <2>3 DEF CountInv
    <3> QED BY <3>1, <3>2, <2>1, FewerCounted
  <2>4. ASSUME InMemory, Live(value, r)
        PROVE Cardinality(Counted(r)' \cup Counting(r)') <= value.rule[r].uses
    <3>1. value.rule[r].uses \in Nat BY <2>4 DEF TypeOK, State, Rule, InMemory
    <3>2. Cardinality(Counted(r) \cup Counting(r)) <= value.rule[r].uses
      BY <2>4 DEF CountInv
    <3>3. Counted(r)' \cup Counting(r)' \subseteq Counted(r) \cup Counting(r) BY <2>1
    <3> QED BY <3>1, <3>2, <3>3, FewerCounting
  <2>5. ~InMemory => Counted(r)' \cup Counting(r)' = Counted(r)' BY <2>2
  <2> QED BY <2>3, <2>4, <2>5 DEF Live, RunsOn
<1>6. LogInv' BY <1>0, <1>f, <1>j DEF LogInv, RunsOn
<1>7. OffInv'
  <2>1. \A d \in Edits : job'[d] = job[d] BY CallsAssumption DEF TypeOK
  <2>2. \A r \in off : ~Enabled(value, r)' BY DEF OffInv, RunsOn, Enabled
  <2>3. \A d \in Edits : pc'[d] = "flush" /\ Withdraws(job'[d]) =>
          ~Enabled(value, job[d].rule)'
    BY <1>f DEF OffInv, Enabled
  <2> QED BY <2>1, <2>2, <2>3 DEF OffInv, Enabled
<1>8. BarInv'
  <2>1. j.rule \notin off \cup UsedUp BY RulesAssumption DEF TypeOK, UsedUp
  <2>2. UsedUp' = UsedUp BY DEF UsedUp, Answered
  <2> QED BY <2>1, <2>2 DEF BarInv, TypeOK
<1> QED BY <1>2, <1>4, <1>5, <1>6, <1>7, <1>8

LEMMA ReadData ==
  ASSUME Sound, NEW c \in Reviews, Read(c)
  PROVE  DataInv'
<1>1. CASE InMemory
  <2>1. Scan(c, value) BY <1>1 DEF Read, InMemory
  <2>2. value \in State /\ RunsOn(value) BY <1>1 DEF Sound, TypeOK, InMemory, RunsOn
  <2>3. PICK j : Chosen(c, j) BY <2>1, <2>2, ScanJob
  <2>4. RunsOn(value') BY <1>1 DEF Read, RunsOn
  <2> QED BY <2>3, <2>4, ScanData DEF Read
<1>2. CASE ~InMemory
  <2> USE <1>2 DEF Sound, DataInv, Read, Goto, InMemory
  <2>2. LoadInv' BY DEF LoadInv, TypeOK
  <2>4. BirthInv' BY CallsAssumption DEF BirthInv, Unborn, Live, TypeOK
  <2>5. CountInv' BY CountKept DEF Counted, Counting, TypeOK
  <2>6. LogInv' BY DEF LogInv, TypeOK
  <2>7. OffInv' BY CallsAssumption DEF OffInv, Enabled, TypeOK
  <2>8. BarInv' BY DEF BarInv, UsedUp, Answered, TypeOK
  <2> QED BY <2>2, <2>4, <2>5, <2>6, <2>7, <2>8
<1> QED BY <1>1, <1>2

LEMMA ReadLoadedData ==
  ASSUME Sound, NEW c \in Reviews, ReadLoaded(c), ~overwritten'
  PROVE  DataInv'
<1>1. RunsOn(copy[c]) /\ copy[c] \in State BY LoadedFacts DEF ReadLoaded
<1>2. Scan(c, copy[c]) BY DEF ReadLoaded
<1>3. PICK j : Chosen(c, j) BY <1>1, <1>2, ScanJob
<1>4. RunsOn(value') BY <1>1 DEF ReadLoaded
<1> QED BY <1>3, <1>4, ScanData DEF ReadLoaded

\* An edit that begins: of a rule that is there, or the first of its rule.
LEMMA EditData ==
  ASSUME Sound, NEW e \in Edits, Edit(e)
  PROVE  DataInv'
<1>1. PICK op \in {"create", "replace", "setEnabled", "remove"}, r \in Rules, b \in BOOLEAN :
        /\ (op = "create") = (r \notin issued)
        /\ job' = [job EXCEPT ![e] = [op |-> op, rule |-> r, enabled |-> op # "remove" /\ b]]
        /\ pc' = [pc EXCEPT ![e] = "queue"]
        /\ issued' = issued \cup {r}
        /\ LET back == IF Enables(job'[e]) THEN {r} ELSE {} IN
             /\ off' = off \ back
             /\ barred' = [d \in Reviews |-> barred[d] \ back]
  BY DEF Edit, Mutate, Goto
<1> DEFINE j == [op |-> op, rule |-> r, enabled |-> op # "remove" /\ b]
<1>2. pc[e] = "idle" /\ UNCHANGED <<file, value, holder, copy, answer, crashes>>
  BY DEF Edit
<1>3. j \in Job /\ j.op \notin {"none", "count", "record"} /\ j.rule = r BY DEF Job
<1>4. job[e] = NoJob /\ job' = [job EXCEPT ![e] = j] /\ job'[e] = j
  BY <1>1, <1>2 DEF Sound, TypeOK, JobInv
<1>5. off' = off \ (IF Enables(j) THEN {r} ELSE {})
      /\ barred' = [d \in Reviews |-> barred[d] \ (IF Enables(j) THEN {r} ELSE {})]
  BY <1>1, <1>4
<1> HIDE DEF j
<1> USE DEF Sound, DataInv
<1>b. LoadInv' BY <1>1, <1>2 DEF LoadInv, InMemory, TypeOK
<1>d. BirthInv'
  <2>1. ASSUME NEW q \in Rules, Unborn(q) PROVE Unborn(q)'
    BY <1>2, <1>4, <2>1, CallsAssumption DEF Unborn, Live, InMemory, TypeOK
  <2>2. j.op = "create" => r \notin issued BY <1>1 DEF j
  <2>3. ASSUME NEW q \in Rules, q \notin issued' PROVE Unborn(q)'
    BY <1>1, <2>1, <2>3 DEF BirthInv
  <2>4. ASSUME NEW c \in Edits, job'[c].op = "create", pc'[c] # "flush"
        PROVE Unborn(job[c].rule)'
    <3>1. CASE c = e
      <4>1. job'[c].rule = r /\ r \notin issued BY <3>1, <1>3, <1>4, <2>2, <2>4
      <4>2. Unborn(r)' BY <4>1, <2>1 DEF BirthInv
      <4> QED BY <4>1, <4>2
    <3>2. CASE c # e
      <4>1. job'[c] = job[c] /\ pc'[c] = pc[c] /\ job[c].rule \in Rules
        BY <3>2, <1>1, <1>4, <2>4 DEF JobInv, TypeOK
      <4> QED BY <4>1, <2>1, <2>4 DEF BirthInv
    <3> QED BY <3>1, <3>2
  <2>5. ASSUME NEW c \in Edits, NEW d \in Edits, job'[c].op = "create", job'[d].op = "create",
               job'[d].rule = job'[c].rule
        PROVE d = c
    <3>1. \A x \in Edits : x # e => job'[x] = job[x] BY <1>4 DEF TypeOK
    <3>2. \A x \in Edits : job[x].op = "create" => job[x].rule \in issued BY DEF JobInv
    <3> QED BY <3>1, <3>2, <1>3, <1>4, <2>2, <2>5 DEF BirthInv
  <2> QED BY <2>3, <2>4, <2>5 DEF BirthInv
<1>e. CountInv'
  BY <1>1, <1>2, <1>4, CountKept, CallsAssumption DEF Counted, Counting, TypeOK
<1>f. LogInv' BY <1>1, <1>2, <1>4, CallsAssumption DEF LogInv, InMemory, TypeOK
<1>g. OffInv'
  <2>1. ASSUME NEW q \in off' PROVE \A d \in Edits : job'[d].rule = q => ~Enables(job'[d])
    <3>1. q \in off BY <1>5
    <3>2. \A d \in Edits : d # e => job'[d] = job[d] BY <1>4 DEF TypeOK
    <3>3. Enables(j) => q # r BY <1>5
    <3> QED BY <3>1, <3>2, <3>3, <1>3, <1>4 DEF OffInv
  <2>2. \A q \in off' : ~Enabled(file, q)' /\ (InMemory' => ~Enabled(value, q)')
    BY <1>2, <1>5 DEF OffInv, Enabled, InMemory
  <2>3. \A c \in Edits : pc'[c] = "flush" /\ Withdraws(job'[c]) => ~Enabled(value, job[c].rule)'
    BY <1>1, <1>2, <1>4 DEF OffInv, Enabled, TypeOK
  <2> QED BY <2>1, <2>2, <2>3 DEF OffInv
<1>h. BarInv'
  <2>1. UsedUp' = UsedUp BY <1>2 DEF UsedUp, Answered
  <2>2. \A c \in Reviews : barred'[c] \subseteq barred[c] /\ barred'[c] \subseteq off' \cup UsedUp
    BY <1>5 DEF BarInv
  <2>3. \A c \in Reviews : job'[c] = job[c] /\ answer'[c] = answer[c]
    BY <1>2, <1>4, CallsAssumption DEF TypeOK
  <2> QED BY <2>1, <2>2, <2>3 DEF BarInv
<1> QED BY <1>b, <1>d, <1>e, <1>f, <1>g, <1>h

-----------------------------------------------------------------------------
(* Steps of the store *)

\* What the invariant says of that state, when no write is under way.
LEMMA RunsOnFacts ==
  ASSUME Sound, NEW s, RunsOn(s), \A d \in Calls : pc[d] # "flush"
  PROVE  /\ s \in State
         /\ \A r \in Rules : Live(s, r) => Cardinality(Counted(r)) <= s.rule[r].uses
         /\ \A d \in Reviews : answer[d] \in Rules => s.decision[d] = answer[d]
         /\ \A r \in off : ~Enabled(s, r)
         /\ \A r \in Rules : Unborn(r) => ~Live(s, r)
<1> USE DEF Sound, DataInv, RunsOn
<1>1. s \in State BY DEF TypeOK, InMemory
<1>2. ASSUME NEW r \in Rules, Live(s, r) PROVE Cardinality(Counted(r)) <= s.rule[r].uses
  <2>1. Counting(r) = {} BY DEF Counting
  <2>2. Counted(r) \cup Counting(r) = Counted(r) BY <2>1
  <2> QED BY <1>2, <2>2 DEF CountInv
<1>3. \A d \in Reviews : answer[d] \in Rules => s.decision[d] = answer[d] BY DEF LogInv
<1>4. \A r \in off : ~Enabled(s, r) BY DEF OffInv
<1>5. \A r \in Rules : Unborn(r) => ~Live(s, r) BY DEF Unborn
<1> QED BY <1>1, <1>2, <1>3, <1>4, <1>5

\* The end of a call by an error, with the state s left in memory.
LEMMA ThrowData ==
  ASSUME Sound, NEW c \in Edits, NEW s, RunsOn(s), \A d \in Calls : pc[d] # "flush",
         pc[c] \in {"queue", "apply"}, holder = None \/ holder = c,
         value' = s, holder' = None, Fail(c),
         UNCHANGED <<file, issued, off, barred, crashes>>
  PROVE  DataInv'
<1>0. /\ s \in State
      /\ \A r \in Rules : Live(s, r) => Cardinality(Counted(r)) <= s.rule[r].uses
      /\ \A d \in Reviews : answer[d] \in Rules => s.decision[d] = answer[d]
      /\ \A r \in off : ~Enabled(s, r)
      /\ \A r \in Rules : Unborn(r) => ~Live(s, r)
  BY RunsOnFacts
<1>m. InMemory' /\ InMemory' = (value' # NoState)
  BY <1>0, NoStateAssumption DEF InMemory
<1>p. /\ \A d \in Calls : d # c => pc'[d] = pc[d] /\ job'[d] = job[d] /\ copy'[d] = copy[d]
      /\ pc'[c] = "done" /\ job'[c] = NoJob /\ copy'[c] = NoState
      /\ answer' = answer
  BY CallsAssumption DEF Fail, Goto, Sound, TypeOK
<1>q. \A d \in Calls : pc'[d] # "flush" BY <1>p
<1> USE DEF Sound, DataInv
<1>2. LoadInv' BY <1>m, <1>q DEF LoadInv
<1>4. BirthInv'
  <2>1. ASSUME NEW r \in Rules, Unborn(r) PROVE Unborn(r)'
    BY <1>0, <1>p, <2>1, CallsAssumption DEF Unborn, Live
  <2>2. \A e \in Edits : job'[e].op = "create" =>
          job'[e] = job[e] /\ pc'[e] = pc[e] /\ job[e].rule \in Rules
    BY <1>p DEF JobInv, TypeOK
  <2> QED BY <2>1, <2>2 DEF BirthInv
<1>5. CountInv'
  <2> SUFFICES ASSUME NEW r \in Rules
               PROVE  /\ Live(file, r)' => Cardinality(Counted(r)') <= file'.rule[r].uses
                      /\ InMemory' /\ Live(value, r)' =>
                           Cardinality(Counted(r)' \cup Counting(r)') <= value'.rule[r].uses
    BY DEF CountInv
  <2>1. Counted(r)' = Counted(r) BY <1>p, CallsAssumption DEF Counted
  <2>2. Counting(r)' = {} BY <1>q DEF Counting
  <2>3. Counted(r)' \cup Counting(r)' = Counted(r) BY <2>1, <2>2
  <2> QED BY <1>0, <2>1, <2>3 DEF CountInv, Live
<1>6. LogInv' BY <1>0, <1>p, <1>q, CallsAssumption DEF LogInv
<1>7. OffInv'
  <2>1. \A d \in Edits : job'[d] = job[d] \/ job'[d] = NoJob BY <1>p
  <2>2. ~Enables(NoJob) BY DEF Enables
  <2> QED BY <1>0, <1>q, <2>1, <2>2 DEF OffInv, Enabled
<1>8. BarInv' BY <1>p, CallsAssumption DEF BarInv, UsedUp, Answered
<1> QED BY <1>2, <1>4, <1>5, <1>6, <1>7, <1>8

\* The mutation of call c on the state s, up to the start of its write.
LEMMA ChangeData ==
  ASSUME Sound, NEW c \in Calls, NEW s, RunsOn(s), \A d \in Calls : pc[d] # "flush",
         pc[c] \in {"queue", "apply"}, holder = None \/ holder = c,
         value' = Changed(c, job[c], s), holder' = c, Goto(c, "flush"),
         copy' = [copy EXCEPT ![c] = value'],
         UNCHANGED <<job, answer, file, issued, off, barred, crashes>>
  PROVE  DataInv'
<1> DEFINE j == job[c]
<1> DEFINE t == Changed(c, j, s)
<1>0. /\ s \in State
      /\ \A r \in Rules : Live(s, r) => Cardinality(Counted(r)) <= s.rule[r].uses
      /\ \A d \in Reviews : answer[d] \in Rules => s.decision[d] = answer[d]
      /\ \A r \in off : ~Enabled(s, r)
      /\ \A r \in Rules : Unborn(r) => ~Live(s, r)
  BY RunsOnFacts
<1>j. j \in Job /\ j.op # "none" BY DEF Sound, TypeOK, JobInv
<1>t. t \in State BY <1>0, <1>j, ChangedType
<1>r. \A r \in Rules :
         /\ r # j.rule \/ j.op \in {"none", "record"} => t.rule[r] = s.rule[r]
         /\ j.op # "create" => (Live(t, r) => Live(s, r))
         /\ j.op # "create" /\ Live(t, r) => t.rule[r].uses >= s.rule[r].uses
         /\ j.op = "count" /\ r = j.rule /\ Live(t, r) =>
              t.rule[r].uses = s.rule[r].uses + 1
         /\ ~Enables(j) /\ Enabled(t, r) => Enabled(s, r)
         /\ Withdraws(j) /\ r = j.rule => ~Enabled(t, r)
  BY <1>0, <1>j, ChangedRules
<1>d. \A d \in Reviews : /\ d # c \/ j.op # "record" => t.decision[d] = s.decision[d]
                         /\ d = c /\ j.op = "record" => t.decision[d] = j.rule
  BY <1>0, <1>j, ChangedDecisions
<1>v. value' = t /\ InMemory' BY <1>t, NoStateAssumption DEF InMemory
<1>p. /\ \A d \in Calls : d # c => pc'[d] = pc[d] /\ pc'[d] # "flush" /\ copy'[d] = copy[d]
      /\ pc'[c] = "flush" /\ copy'[c] = t
  BY <1>v DEF Goto, Sound, TypeOK
<1> HIDE DEF t
<1> USE DEF Sound, DataInv
<1>2. LoadInv' BY <1>v, <1>p DEF LoadInv
<1>4. BirthInv'
  <2>1. ASSUME NEW r \in Rules, Unborn(r), j.op # "create" \/ r # j.rule PROVE Unborn(r)'
    BY <1>0, <1>r, <1>v, <2>1 DEF Unborn, Live
  <2>2. ASSUME NEW r \in Rules, r \notin issued PROVE Unborn(r)'
    <3>1. j.op = "create" => c \in Edits /\ j.rule \in issued BY DEF JobInv
    <3> QED BY <2>1, <2>2, <3>1 DEF BirthInv
  <2>3. ASSUME NEW e \in Edits, job[e].op = "create", pc'[e] # "flush" PROVE Unborn(job[e].rule)'
    <3>1. e # c /\ pc[e] # "flush" BY <1>p, <2>3
    <3>2. job[e].rule \in Rules BY <2>3 DEF JobInv, TypeOK
    <3>3. j.op = "create" => c \in Edits BY DEF JobInv
    <3>4. j.op = "create" => job[e].rule # j.rule BY <2>3, <3>1, <3>3 DEF BirthInv
    <3> QED BY <2>1, <2>3, <3>1, <3>2, <3>4 DEF BirthInv
  <2> QED BY <2>2, <2>3 DEF BirthInv
<1>5. CountInv'
  <2> SUFFICES ASSUME NEW r \in Rules
               PROVE  /\ Live(file, r)' => Cardinality(Counted(r)') <= file'.rule[r].uses
                      /\ InMemory' /\ Live(value, r)' =>
                           Cardinality(Counted(r)' \cup Counting(r)') <= value'.rule[r].uses
    BY DEF CountInv
  <2>1. Counted(r)' = Counted(r) BY DEF Counted
  <2>2. Live(file, r)' => Cardinality(Counted(r)') <= file'.rule[r].uses
    BY <2>1 DEF CountInv, Live
  <2>3. ASSUME Live(t, r) PROVE Cardinality(Counted(r) \cup Counting(r)') <= t.rule[r].uses
    <3>1. t.rule[r].uses \in Nat /\ s.rule[r].uses \in Nat
      BY <1>0, <1>t DEF State, Rule
    <3>2. CASE j = Count(r)
      <4>1. Live(s, r) /\ t.rule[r].uses = s.rule[r].uses + 1 BY <1>r, <2>3, <3>2
      <4>2. Counted(r) \cup Counting(r)' \subseteq Counted(r) \cup {c} BY <1>p DEF Counting
      <4>3. Cardinality(Counted(r)) <= s.rule[r].uses BY <1>0, <4>1
      <4>4. Cardinality(Counted(r) \cup Counting(r)') <= s.rule[r].uses + 1
        BY <3>1, <4>2, <4>3, OneMoreCounted
      <4> QED BY <4>1, <4>4
    <3>3. CASE j # Count(r)
      <4>1. Counting(r)' = {} BY <1>p, <3>3 DEF Counting
      <4>2. CASE j.op = "create" /\ j.rule = r
        <5>1. Unborn(r) BY <4>2 DEF BirthInv, JobInv
        <5>2. Counted(r) = {} BY <5>1 DEF Unborn, Counted
        <5>3. Counted(r) \cup Counting(r)' = {} BY <4>1, <5>2
        <5>4. Cardinality(Counted(r) \cup Counting(r)') = 0 BY <5>3, FS_EmptySet
        <5> QED BY <3>1, <5>4
      <4>3. CASE j.op # "create" \/ j.rule # r
        <5>1. Live(s, r) /\ t.rule[r].uses >= s.rule[r].uses
          BY <1>r, <2>3, <3>1, <4>3 DEF Live
        <5>2. Cardinality(Counted(r)) <= s.rule[r].uses BY <1>0, <5>1
        <5>n. Cardinality(Counted(r)) \in Nat BY CountedFinite
        <5>3. Cardinality(Counted(r)) <= t.rule[r].uses BY <3>1, <5>1, <5>2, <5>n
        <5>4. Counted(r) \cup Counting(r)' = Counted(r) BY <4>1
        <5> QED BY <5>3, <5>4
      <4> QED BY <4>2, <4>3
    <3> QED BY <3>2, <3>3
  <2> QED BY <1>v, <2>1, <2>2, <2>3 DEF Live
<1>6. LogInv'
  <2>1. \A d \in Reviews : answer[d] \in Rules => d # c
    BY RulesAssumption DEF TypeOK
  <2> QED BY <1>0, <1>d, <1>v, <1>p, <2>1 DEF LogInv
<1>7. OffInv'
  <2>1. ASSUME NEW r \in off PROVE ~Enabled(t, r)
    <3>1. r \in Rules BY DEF TypeOK
    <3>2. CASE Enables(j)
      <4>1. c \in Edits BY <3>2 DEF Enables, JobInv
      <4>2. j.rule # r BY <3>2, <4>1 DEF OffInv
      <4> QED BY <1>0, <1>r, <3>1, <4>2 DEF Enabled
    <3> QED BY <1>0, <1>r, <3>1, <3>2
  <2>2. \A d \in Edits : pc'[d] = "flush" /\ Withdraws(job[d]) => ~Enabled(t, job[d].rule)
    <3>1. \A d \in Edits : job[d].op # "none" => job[d].rule \in Rules BY DEF JobInv, TypeOK
    <3> QED BY <1>j, <1>p, <1>r, <3>1
  <2>3. \A r \in off' : ~Enabled(file, r)' /\ (InMemory' => ~Enabled(value, r)')
    BY <1>v, <2>1 DEF OffInv, Enabled
  <2>4. \A r \in off' : \A d \in Edits : job'[d].rule = r => ~Enables(job'[d])
    BY DEF OffInv
  <2>5. \A d \in Edits : pc'[d] = "flush" /\ Withdraws(job[d]) => ~Enabled(value, job[d].rule)'
    BY <1>v, <2>2 DEF Enabled
  <2> QED BY <2>3, <2>4, <2>5 DEF OffInv
<1>8. BarInv' BY DEF BarInv, UsedUp, Answered
<1> QED BY <1>2, <1>4, <1>5, <1>6, <1>7, <1>8

\* A call that runs its mutation on the state s.
LEMMA OperateData ==
  ASSUME Sound, NEW c \in Calls, NEW s, RunsOn(s), \A d \in Calls : pc[d] # "flush",
         pc[c] \in {"queue", "apply"}, holder = None \/ holder = c, Operate(c, s),
         UNCHANGED <<file, issued, off, barred, crashes>>
  PROVE  DataInv'
<1>1. CASE Throws(job[c], s)
  <2>1. c \in Edits BY <1>1 DEF Throws, Sound, JobInv
  <2> QED BY <1>1, <2>1, ThrowData DEF Operate
<1>2. CASE ~Throws(job[c], s) BY <1>2, ChangeData DEF Operate
<1> QED BY <1>1, <1>2

LEMMA EnterData ==
  ASSUME Sound, NEW c \in Calls, Enter(c)
  PROVE  DataInv'
<1>1. \A d \in Calls : pc[d] # "flush" BY CallsAssumption DEF Enter, Sound, TypeOK
<1>2. CASE InMemory
  <2>1. Operate(c, value) /\ RunsOn(value) BY <1>2 DEF Enter, InMemory, RunsOn
  <2> QED BY <1>1, <2>1, OperateData DEF Enter
<1>3. CASE ~InMemory
  <2>0. /\ pc[c] = "queue" /\ pc' = [pc EXCEPT ![c] = "load"]
        /\ holder = None /\ holder' = c
        /\ UNCHANGED <<file, value, job, copy, answer, issued, off, barred, crashes>>
    BY <1>3 DEF Enter, Goto, InMemory
  <2> USE <2>0 DEF Sound, DataInv
  <2>2. LoadInv' BY <1>3 DEF LoadInv, InMemory, TypeOK
  <2>4. BirthInv'
    <3>1. \A r \in Rules : Unborn(r) => Unborn(r)' BY DEF Unborn, Live, InMemory
    <3>2. \A d \in Calls : pc'[d] # "flush" => pc[d] # "flush" BY DEF TypeOK
    <3>3. \A d \in Edits : job[d].op = "create" => job[d].rule \in Rules BY DEF JobInv, TypeOK
    <3> QED BY <3>1, <3>2, <3>3 DEF BirthInv
  <2>5. CountInv' BY CountKept DEF Counted, Counting, TypeOK
  <2>6. LogInv' BY DEF LogInv, InMemory, TypeOK
  <2>7. OffInv' BY DEF OffInv, Enabled, InMemory, TypeOK
  <2>8. BarInv' BY DEF BarInv, UsedUp, Answered
  <2> QED BY <2>2, <2>4, <2>5, <2>6, <2>7, <2>8
<1> QED BY <1>2, <1>3

LEMMA LoadFromDiskData ==
  ASSUME Sound, NEW c \in Calls, LoadFromDisk(c)
  PROVE  DataInv'
<1> USE DEF Sound, DataInv, LoadFromDisk, Goto
<1>2. LoadInv' BY DEF LoadInv, InMemory, TypeOK
<1>4. BirthInv' BY DEF BirthInv, Unborn, Live, InMemory, TypeOK
<1>5. CountInv' BY CountKept DEF Counted, Counting, TypeOK
<1>6. LogInv' BY DEF LogInv, InMemory, TypeOK
<1>7. OffInv' BY DEF OffInv, Enabled, InMemory, TypeOK
<1>8. BarInv' BY DEF BarInv, UsedUp, Answered, TypeOK
<1> QED BY <1>2, <1>4, <1>5, <1>6, <1>7, <1>8

LEMMA LoadedData ==
  ASSUME Sound, NEW c \in Calls, Loaded(c), ~overwritten'
  PROVE  DataInv'
<1>1. pc[c] = "apply" /\ holder = c /\ \A d \in Calls : pc[d] # "flush"
  BY DEF Loaded, Sound, TypeOK
<1>2. RunsOn(copy[c]) BY <1>1, LoadedFacts DEF Loaded
<1> QED BY <1>1, <1>2, OperateData DEF Loaded

\* A call that an I/O error ends, in a load or in a write.
LEMMA FailData ==
  ASSUME Sound, NEW c \in Calls, pc[c] \in {"load", "read", "flush"},
         holder' = (IF holder = c THEN None ELSE holder), Fail(c),
         UNCHANGED <<file, value, issued, off, barred, crashes>>
  PROVE  DataInv'
<1> USE DEF Sound, DataInv
<1>p. /\ \A d \in Calls : d # c => pc'[d] = pc[d] /\ job'[d] = job[d] /\ copy'[d] = copy[d]
      /\ pc'[c] = "done" /\ job'[c] = NoJob /\ copy'[c] = NoState
      /\ \A d \in Reviews : answer'[d] = IF d = c THEN Human ELSE answer[d]
  BY DEF Fail, Goto, TypeOK
<1>a. c \in Reviews => answer[c] = None BY DEF TypeOK
<1>2. LoadInv' BY <1>p DEF LoadInv, InMemory
<1>4. BirthInv'
  <2>1. ASSUME NEW r \in Rules, Unborn(r) PROVE Unborn(r)'
    BY <1>p, <2>1, RulesAssumption, CallsAssumption DEF Unborn, Live, InMemory
  <2>2. \A e \in Edits : job'[e].op = "create" =>
          job'[e] = job[e] /\ pc'[e] = pc[e] /\ job[e].rule \in Rules
    BY <1>p DEF JobInv, TypeOK
  <2> QED BY <2>1, <2>2 DEF BirthInv
<1>5. CountInv'
  <2>1. ASSUME NEW r \in Rules
        PROVE  Counted(r)' \subseteq Counted(r) /\ Counting(r)' \subseteq Counting(r)
    BY <1>p, RulesAssumption, CallsAssumption DEF Counted, Counting
  <2> QED BY <2>1, CountKept
<1>6. LogInv' BY <1>p, RulesAssumption, CallsAssumption DEF LogInv, InMemory
<1>7. OffInv'
  <2>1. \A d \in Edits : job'[d] = job[d] \/ job'[d] = NoJob BY <1>p
  <2>2. ~Enables(NoJob) BY DEF Enables
  <2>3. \A d \in Edits : pc'[d] = "flush" => pc[d] = "flush" /\ job'[d] = job[d] BY <1>p
  <2> QED BY <2>1, <2>2, <2>3 DEF OffInv, Enabled, InMemory
<1>8. BarInv'
  <2>1. UsedUp' = UsedUp
    <3>1. \A r \in Rules : Answered(r)' = Answered(r)
      BY <1>p, <1>a, RulesAssumption DEF Answered
    <3> QED BY <3>1 DEF UsedUp
  <2>2. off \cup UsedUp \subseteq Rules BY DEF TypeOK, UsedUp
  <2> QED BY <1>p, <2>1, <2>2, RulesAssumption, CallsAssumption DEF BarInv
<1> QED BY <1>2, <1>4, <1>5, <1>6, <1>7, <1>8

LEMMA LoadFailsData ==
  ASSUME Sound, NEW c \in Calls, LoadFails(c)
  PROVE  DataInv'
BY FailData DEF LoadFails

LEMMA WriteFailsData ==
  ASSUME Sound, NEW c \in Calls, WriteFails(c)
  PROVE  DataInv'
<1>1. holder = c BY DEF WriteFails, Sound, TypeOK
<1> QED BY <1>1, FailData DEF WriteFails

\* The file takes the state in memory, and the call goes on or ends.
LEMMA WrittenData ==
  ASSUME Sound, NEW c \in Calls, Written(c)
  PROVE  DataInv'
<1> DEFINE j == job[c]
<1>1. /\ pc[c] = "flush" /\ InMemory /\ holder = c /\ copy[c] = value /\ file' = value
      /\ value \in State /\ value' = value /\ holder' = None
      /\ UNCHANGED <<issued, barred, crashes>>
  BY DEF Written, Sound, TypeOK, LoadInv, InMemory
<1>2. \A d \in Calls : d # c => /\ pc'[d] = pc[d] /\ pc[d] # "flush"
                                /\ job'[d] = job[d] /\ copy'[d] = copy[d]
  BY <1>1 DEF Written, Goto, Sound, TypeOK
<1>3. /\ j.op = "count" => pc'[c] = "queue" /\ job'[c] = Record(j.rule) /\ answer' = answer
      /\ j.op # "count" => pc'[c] = "done" /\ job'[c] = NoJob
           /\ \A d \in Reviews : answer'[d] = IF d = c THEN j.rule ELSE answer[d]
      /\ copy'[c] = NoState
  <2>1. c \in DOMAIN pc /\ c \in DOMAIN job /\ c \in DOMAIN copy BY DEF Sound, TypeOK
  <2>2. CASE j.op = "count" BY <2>1, <2>2 DEF Written, Goto
  <2>3. CASE j.op # "count"
    <3>1. /\ pc' = [pc EXCEPT ![c] = "done"] /\ job' = [job EXCEPT ![c] = NoJob]
          /\ answer' = [d \in Reviews |-> IF d = c THEN j.rule ELSE answer[d]]
          /\ copy' = [copy EXCEPT ![c] = NoState]
      BY <2>3 DEF Written, Goto
    <3> QED BY <2>1, <2>3, <3>1
  <2> QED BY <2>2, <2>3
<1>4. InMemory' /\ \A d \in Calls : pc'[d] # "flush" BY <1>1, <1>2, <1>3 DEF InMemory
<1>5. j.op # "none" /\ j \in Job BY <1>1 DEF Sound, JobInv, TypeOK
<1>6. c \in Reviews =>
        /\ j.op \in {"count", "record"} /\ answer[c] = None /\ j.rule \in Rules \cup {Human}
        /\ j.op = "count" => j = Count(j.rule) /\ j.rule \in Rules
        /\ j.op = "record" => j = Record(j.rule)
  BY <1>1, <1>5 DEF Sound, JobInv, TypeOK, Job
<1>7. c \in Edits => j.op \notin {"count", "record"} /\ j.rule \in issued /\ answer' = answer
  BY <1>3, <1>5, CallsAssumption DEF Sound, JobInv, TypeOK, Written
<1>9. off' = IF Withdraws(j) /\ \A d \in Edits : job[d].rule = j.rule => ~Enables(job[d])
             THEN off \cup {j.rule} ELSE off
  BY DEF Written
<1>10. answer' \in [Reviews -> Rules \cup {None, Human}]
  BY <1>6, <1>7 DEF Written, Sound, TypeOK
<1>11. /\ pc' \in [Calls -> {"idle", "check", "read", "scan", "queue", "load",
                             "apply", "flush", "done", "dead"}]
       /\ job' \in [Calls -> Job] /\ copy' \in [Calls -> State \cup {NoState}]
  <2>1. Record(j.rule) \in Job /\ NoJob \in Job BY <1>5 DEF Job
  <2>2. /\ pc' \in [Calls -> {"idle", "check", "read", "scan", "queue", "load",
                              "apply", "flush", "done", "dead"}]
        /\ copy' \in [Calls -> State \cup {NoState}]
    BY DEF Written, Goto, Sound, TypeOK
  <2>3. job' = [job EXCEPT ![c] = Record(j.rule)] \/ job' = [job EXCEPT ![c] = NoJob]
    BY DEF Written
  <2>4. job \in [Calls -> Job] BY DEF Sound, TypeOK
  <2> QED BY <2>1, <2>2, <2>3, <2>4
<1>12. off' \subseteq issued
  BY <1>5, <1>6, <1>7, <1>9 DEF Withdraws, Sound, TypeOK
<1> HIDE DEF j
<1> USE DEF Sound, DataInv
<1>b. LoadInv' BY <1>4 DEF LoadInv
<1>d. BirthInv'
  <2>1. ASSUME NEW r \in Rules, Unborn(r) PROVE Unborn(r)'
    <3>1. c \in Reviews => j.rule # r BY <2>1 DEF Unborn, j
    <3> QED BY <1>1, <1>2, <1>3, <1>6, <1>7, <2>1, <3>1, CallsAssumption, RulesAssumption
            DEF Unborn, Live, InMemory
  <2>2. \A e \in Edits : job'[e].op = "create" =>
          /\ e # c /\ job'[e] = job[e] /\ pc'[e] = pc[e] /\ job[e].rule \in Rules
    BY <1>2, <1>3, <1>7 DEF JobInv, TypeOK
  <2> QED BY <1>1, <2>1, <2>2 DEF BirthInv
<1>e. CountInv'
  <2> SUFFICES ASSUME NEW r \in Rules
               PROVE  /\ Live(file, r)' => Cardinality(Counted(r)') <= file'.rule[r].uses
                      /\ InMemory' /\ Live(value, r)' =>
                           Cardinality(Counted(r)' \cup Counting(r)') <= value'.rule[r].uses
    BY DEF CountInv
  <2>1. Counted(r)' \subseteq Counted(r) \cup Counting(r)
    <3> SUFFICES ASSUME NEW d \in Counted(r)' PROVE d \in Counted(r) \cup Counting(r) OBVIOUS
    <3>1. d \in Reviews /\ (answer'[d] = r \/ job'[d] = Record(r)) BY DEF Counted
    <3>2. CASE d # c
      <4>1. answer'[d] = answer[d] /\ job'[d] = job[d] BY <1>2, <1>3, <1>5, <3>1, <3>2
      <4> QED BY <3>1, <4>1 DEF Counted
    <3>3. CASE d = c /\ j.op = "count"
      <4>1. j.rule = r BY <1>3, <1>6, <3>1, <3>3, RulesAssumption
      <4> QED BY <1>1, <1>6, <3>1, <3>3, <4>1 DEF Counting, j
    <3>4. CASE d = c /\ j.op = "record"
      <4>1. j.rule = r BY <1>3, <3>1, <3>4
      <4> QED BY <1>6, <3>1, <3>4, <4>1 DEF Counted, j
    <3> QED BY <1>6, <3>1, <3>2, <3>3, <3>4
  <2>2. Counting(r)' = {} BY <1>4 DEF Counting
  <2>3. Counted(r)' \cup Counting(r)' = Counted(r)' BY <2>2
  <2>4. ASSUME Live(value, r) PROVE Cardinality(Counted(r)') <= value.rule[r].uses
    <3>1. Cardinality(Counted(r) \cup Counting(r)) <= value.rule[r].uses
      BY <1>1, <2>4 DEF CountInv
    <3>2. value.rule[r].uses \in Nat BY <1>1 DEF State, Rule
    <3> QED BY <2>1, <3>1, <3>2, FewerCounting
  <2> QED BY <1>1, <2>3, <2>4 DEF Live
<1>f. LogInv'
  <2>1. ASSUME NEW d \in Reviews, answer'[d] \in Rules PROVE value.decision[d] = answer'[d]
    <3>1. CASE d = c /\ j.op = "record"
      <4>1. value.decision[d] = j.rule BY <1>1, <3>1 DEF LogInv, j
      <4> QED BY <1>3, <3>1, <4>1
    <3>2. CASE d # c \/ j.op = "count"
      <4>1. answer'[d] = answer[d] BY <1>3, <1>5, <3>2
      <4> QED BY <1>1, <2>1, <4>1 DEF LogInv
    <3> QED BY <1>6, <3>1, <3>2
  <2> QED BY <1>1, <1>4, <2>1 DEF LogInv
<1>g. OffInv'
  <2>1. \A d \in Edits : Enables(job'[d]) => job'[d] = job[d]
    BY <1>2, <1>3, <1>7 DEF Enables
  <2>2. Withdraws(j) => c \in Edits /\ ~Enabled(value, j.rule)
    BY <1>1, <1>6 DEF OffInv, Withdraws, j
  <2>3. \A r \in off' : ~Enabled(value, r)
    BY <1>1, <1>9, <2>2 DEF OffInv
  <2>4. \A r \in off' : \A d \in Edits : job[d].rule = r => ~Enables(job[d])
    BY <1>9 DEF OffInv
  <2>5. \A r \in off' : \A d \in Edits : job'[d].rule = r => ~Enables(job'[d])
    BY <2>1, <2>4
  <2>6. \A r \in off' : ~Enabled(file, r)' /\ ~Enabled(value, r)'
    BY <1>1, <2>3 DEF Enabled
  <2> QED BY <1>4, <2>5, <2>6 DEF OffInv
<1>h. BarInv'
  <2>1. \A r \in Rules : Answered(r) \subseteq Answered(r)'
    <3>1. \A d \in Reviews : answer[d] \in Rules => answer'[d] = answer[d]
      BY <1>3, <1>6, <1>7, RulesAssumption
    <3> QED BY <3>1 DEF Answered
  <2>2. UsedUp \subseteq UsedUp'
    <3> SUFFICES ASSUME NEW r \in UsedUp PROVE r \in UsedUp' OBVIOUS
    <3>1. r \in Rules /\ Cardinality(Answered(r)) >= Budget BY DEF UsedUp
    <3>2. Answered(r)' \in SUBSET Reviews BY DEF Answered
    <3>3. IsFiniteSet(Answered(r)') BY <3>2, ReviewsAssumption, FS_Subset
    <3>4. IsFiniteSet(Answered(r)) /\ Cardinality(Answered(r)) <= Cardinality(Answered(r)')
      BY <2>1, <3>1, <3>3, FS_Subset
    <3>5. Cardinality(Answered(r)) \in Nat /\ Cardinality(Answered(r)') \in Nat
      BY <3>3, <3>4, FS_CardinalityType
    <3> QED BY <3>1, <3>4, <3>5, BudgetAssumption DEF UsedUp
  <2>3. off \subseteq off' BY <1>9
  <2>4. \A d \in Reviews : /\ job'[d].rule \in {job[d].rule, None}
                           /\ answer'[d] \in {answer[d], job[d].rule}
    BY <1>2, <1>3, <1>6, <1>7, CallsAssumption DEF j
  <2>5. off' \cup UsedUp' \subseteq Rules BY <1>12 DEF TypeOK, UsedUp
  <2>6. \A d \in Reviews : None \notin barred[d]
    BY RulesAssumption DEF BarInv, TypeOK, UsedUp
  <2> QED BY <1>1, <2>2, <2>3, <2>4, <2>6 DEF BarInv
<1> QED BY <1>b, <1>d, <1>e, <1>f, <1>g, <1>h

LEMMA CrashData ==
  ASSUME Sound, Crash
  PROVE  DataInv'
<1> USE DEF Sound, DataInv, Crash
<1>0. ~InMemory' /\ \A d \in Calls : pc'[d] \in {"idle", "done", "dead"}
                                     /\ job'[d] = NoJob /\ (pc'[d] = "done" <=> pc[d] = "done")
  BY DEF InMemory, TypeOK
<1>2. LoadInv' BY <1>0 DEF LoadInv
<1>4. BirthInv'
  <2>1. ASSUME NEW r \in Rules, Unborn(r) PROVE Unborn(r)'
    BY <1>0, <2>1, RulesAssumption DEF Unborn, Live
  <2> QED BY <1>0, <2>1 DEF BirthInv
<1>5. CountInv'
  <2>1. ASSUME NEW r \in Rules
        PROVE  Counted(r)' \subseteq Counted(r) /\ Counting(r)' \subseteq Counting(r)
    BY <1>0 DEF Counted, Counting
  <2> QED BY <2>1, CountKept
<1>6. LogInv' BY <1>0 DEF LogInv
<1>7. OffInv'
  <2>1. ~Enables(NoJob) BY DEF Enables
  <2> QED BY <1>0, <2>1 DEF OffInv, Enabled
<1>8. BarInv'
  <2>1. UsedUp' = UsedUp BY DEF UsedUp, Answered
  <2>2. off \cup UsedUp \subseteq Rules BY DEF TypeOK, UsedUp
  <2> QED BY <1>0, <2>1, <2>2, RulesAssumption DEF BarInv
<1> QED BY <1>2, <1>4, <1>5, <1>6, <1>7, <1>8

-----------------------------------------------------------------------------
(* The theorems *)

LEMMA NextData == Sound /\ [Next]_vars => overwritten' \/ DataInv'
<1> SUFFICES ASSUME Sound, [Next]_vars, ~overwritten' PROVE DataInv' OBVIOUS
<1>1. ASSUME NEW c \in Calls,
             \/ Enter(c) \/ LoadFromDisk(c) \/ LoadFails(c) \/ Loaded(c)
             \/ Written(c) \/ WriteFails(c)
      PROVE  DataInv'
  BY <1>1, EnterData, LoadFromDiskData, LoadFailsData, LoadedData, WrittenData, WriteFailsData
<1>2. ASSUME NEW c \in Reviews, Review(c) \/ Escalate(c) \/ Read(c) \/ ReadLoaded(c)
      PROVE  DataInv'
  BY <1>2, ReviewData, EscalateData, ReadData, ReadLoadedData
<1>3. ASSUME NEW e \in Edits, Edit(e) PROVE DataInv' BY <1>3, EditData
<1>4. CASE Crash BY <1>4, CrashData
<1>5. CASE UNCHANGED vars
  <2> USE <1>5 DEF vars, Sound, DataInv
  <2>1. LoadInv' BY DEF LoadInv, InMemory
  <2>2. BirthInv' BY DEF BirthInv, Unborn, Live, InMemory
  <2>3. CountInv' BY CountKept DEF Counted, Counting
  <2>4. LogInv' BY DEF LogInv, InMemory
  <2>5. OffInv' BY DEF OffInv, Enabled, InMemory
  <2>6. BarInv' BY DEF BarInv, UsedUp, Answered
  <2> QED BY <2>1, <2>2, <2>3, <2>4, <2>5, <2>6
<1> QED BY <1>1, <1>2, <1>3, <1>4, <1>5 DEF Next

\* What has been replaced is not restored.
LEMMA OverwrittenStays == overwritten /\ [Next]_vars => overwritten'
<1> SUFFICES ASSUME overwritten, [Next]_vars PROVE overwritten' OBVIOUS
<1>1. ASSUME NEW c \in Calls,
             \/ Enter(c) \/ LoadFromDisk(c) \/ LoadFails(c) \/ Loaded(c)
             \/ Written(c) \/ WriteFails(c)
      PROVE  overwritten'
  BY <1>1 DEF Enter, LoadFromDisk, LoadFails, Loaded, Written, WriteFails, Overwrite
<1>2. ASSUME NEW c \in Reviews, Review(c) \/ Escalate(c) \/ Read(c) \/ ReadLoaded(c)
      PROVE  overwritten'
  BY <1>2 DEF Review, Escalate, Read, ReadLoaded, Overwrite
<1>3. ASSUME NEW e \in Edits, Edit(e) PROVE overwritten' BY <1>3 DEF Edit
<1>4. CASE Crash BY <1>4 DEF Crash
<1>5. CASE UNCHANGED vars BY <1>5 DEF vars
<1> QED BY <1>1, <1>2, <1>3, <1>4, <1>5 DEF Next

\* The shape always holds, and the rest until a loaded state replaces another.
THEOREM Invariance == Spec => []IInv
<1>1. Init => IInv BY InitIInv DEF IInv, ShapeInv, DataInv, Sound
<1>2. IInv /\ [Next]_vars => IInv'
  <2>1. IInv /\ [Next]_vars => ShapeInv' BY NextShape DEF IInv
  <2>2. ASSUME IInv, ~overwritten PROVE Sound BY <2>2 DEF IInv, ShapeInv, DataInv, Sound
  <2>3. IInv /\ [Next]_vars => overwritten' \/ DataInv'
    BY <2>2, NextData, OverwrittenStays
  <2> QED BY <2>1, <2>3 DEF IInv
<1> QED BY <1>1, <1>2, PTL DEF Spec

\* The shape of the store and of the calls, and that the mutex is held by the
\* call inside mutate and left by every call that ends, loads that overlap and
\* replace newer states included.
THEOREM TypeCorrect == Spec => []TypeOK
<1>1. IInv => TypeOK BY DEF IInv, ShapeInv
<1> QED BY <1>1, Invariance, PTL

\* Every answer that review gave by a rule is among the uses in the file,
\* whatever edits, failed writes and crashes come in between, until what a call
\* loaded replaces another state in memory.
THEOREM AnswersAreCountedHolds == Spec => []AnswersAreCounted
<1>1. IInv => AnswersAreCounted
  <2> SUFFICES ASSUME IInv, ~overwritten, NEW r \in Rules, Live(file, r)
               PROVE  Cardinality(Answered(r)) <= file.rule[r].uses
    BY DEF AnswersAreCounted, Live
  <2>1. Answered(r) \subseteq Counted(r) BY DEF Answered, Counted
  <2>2. Cardinality(Counted(r)) <= file.rule[r].uses BY DEF IInv, DataInv, CountInv
  <2>3. file.rule[r].uses \in Nat BY DEF IInv, ShapeInv, TypeOK, State, Rule
  <2> QED BY <2>1, <2>2, <2>3, FewerCounted
<1> QED BY <1>1, Invariance, PTL

\* review answers by a rule only after its decision is in the log file, until what
\* a call loaded replaces another state in memory.
THEOREM AnswersAreLoggedHolds == Spec => []AnswersAreLogged
<1>1. IInv => AnswersAreLogged BY DEF IInv, DataInv, LogInv, AnswersAreLogged
<1> QED BY <1>1, Invariance, PTL

\* After setEnabled(false), removeRule or the last use of a rule, no review that
\* begins is answered by it, unless what a call loaded has replaced another state
\* in memory: the lost withdrawal has no other cause.
THEOREM OnlyOverwritingRestoresHolds == Spec => []OnlyOverwritingRestores
<1>1. IInv => OnlyOverwritingRestores
  BY DEF IInv, DataInv, BarInv, OnlyOverwritingRestores, WithdrawnStaysWithdrawn
<1> QED BY <1>1, Invariance, PTL

=============================================================================
