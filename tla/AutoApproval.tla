---------------------------- MODULE AutoApproval ----------------------------
(***************************************************************************)
(* Reviewed automatic approvals (AutoApprovalService) over the JSON state  *)
(* file that the Aurora services share (DurableJsonState).  Each step is   *)
(* what runs between two awaits: the state in memory is changed under a    *)
(* mutex and then written, but it is read, and loaded, without the mutex.  *)
(*                                                                         *)
(* A review is one request for approval, an edit one call of an operator.  *)
(* Which rules match a request is chosen at the scan.  One tenant; a log   *)
(* below its limit of 500 decisions; the rules are those of the set Rules, *)
(* each with the use budget Budget.                                        *)
(***************************************************************************)
EXTENDS Naturals, FiniteSets

CONSTANTS Rules,      \* ids of rules, each issued at most once
          Reviews,    \* calls of review
          Edits,      \* calls of upsertRule, setEnabled and removeRule
          Budget,     \* maxUses of every rule
          Faults,     \* reads and writes of the file may fail
          MaxCrashes,
          NoState     \* no state in memory

Calls == Reviews \cup Edits
None == "none"
Human == "human"

ASSUME CallsAssumption == Reviews \cap Edits = {} /\ None \notin Calls
ASSUME ReviewsAssumption == IsFiniteSet(Reviews)
ASSUME RulesAssumption == Rules \cap {None, Human} = {}
ASSUME BudgetAssumption == Budget \in Nat \ {0} /\ MaxCrashes \in Nat
ASSUME FaultsAssumption == Faults \in BOOLEAN

VARIABLES file,     \* auto-approvals.json
          value,    \* this.value: the state in memory
          holder,   \* the call inside the mutex
          pc,       \* where each call waits
          job,      \* the mutation each call is making
          copy,     \* what each call has loaded, or is writing
          answer,   \* what each review told ApprovalService
          issued,   \* rule ids in use or used up
          off,      \* history: rules withdrawn by completed edits
          barred,   \* history: rules withdrawn or used up before each review
          crashes,
          overwritten  \* history: what a call loaded replaced another state in memory

vars == <<file, value, holder, pc, job, copy, answer, issued, off, barred,
          crashes, overwritten>>

Rule == [live : BOOLEAN, enabled : BOOLEAN, uses : Nat]
State == [rule : [Rules -> Rule], decision : [Reviews -> Rules \cup {None, Human}]]
Job == [op : {"none", "count", "record", "create", "replace", "setEnabled",
              "remove"},
        rule : Rules \cup {None, Human}, enabled : BOOLEAN]

ASSUME NoStateAssumption == NoState \notin State

NoJob == [op |-> "none", rule |-> None, enabled |-> FALSE]
Count(r) == [op |-> "count", rule |-> r, enabled |-> FALSE]
Record(r) == [op |-> "record", rule |-> r, enabled |-> FALSE]

TypeOK ==
    /\ file \in State
    /\ value \in State \cup {NoState}
    /\ holder \in Calls \cup {None}
    /\ pc \in [Calls -> {"idle", "check", "read", "scan", "queue", "load",
                         "apply", "flush", "done", "dead"}]
    /\ job \in [Calls -> Job]
    /\ copy \in [Calls -> State \cup {NoState}]
    /\ answer \in [Reviews -> Rules \cup {None, Human}]
    /\ issued \subseteq Rules
    /\ off \subseteq issued
    /\ barred \in [Reviews -> SUBSET Rules]
    /\ \A c \in Calls : holder = c <=> pc[c] \in {"load", "apply", "flush"}
    /\ \A c \in Reviews : answer[c] # None <=> pc[c] = "done"
    /\ crashes \in 0..MaxCrashes
    /\ overwritten \in BOOLEAN

NoRule == [live |-> FALSE, enabled |-> FALSE, uses |-> 0]
NewRule(b) == [live |-> TRUE, enabled |-> b, uses |-> 0]

Init ==
    /\ issued \in SUBSET Rules
    /\ file = [rule |-> [r \in Rules |-> IF r \in issued THEN NewRule(TRUE)
                                                         ELSE NoRule],
               decision |-> [c \in Reviews |-> None]]
    /\ value = NoState
    /\ holder = None
    /\ pc = [c \in Calls |-> "idle"]
    /\ job = [c \in Calls |-> NoJob]
    /\ copy = [c \in Calls |-> NoState]
    /\ answer = [c \in Reviews |-> None]
    /\ off = {}
    /\ barred = [c \in Reviews |-> {}]
    /\ crashes = 0
    /\ overwritten = FALSE

-----------------------------------------------------------------------------
(* DurableJsonState.mutate: load if need be, change the state in memory,   *)
(* write it, leave the mutex.                                              *)

\* Mutant: an edited rule starts with no uses.
ChangedRenewing(c, j, s) ==
    CASE j.op = "count" /\ s.rule[j.rule].live ->
                            [s EXCEPT !.rule[j.rule].uses = @ + 1]
      [] j.op = "record" -> [s EXCEPT !.decision[c] = j.rule]
      [] j.op \in {"create", "replace"} /\ (j.op = "create" \/ s.rule[j.rule].live) ->
                            [s EXCEPT !.rule[j.rule] = NewRule(j.enabled)]
      [] j.op = "setEnabled" /\ s.rule[j.rule].live ->
                            [s EXCEPT !.rule[j.rule].enabled = j.enabled]
      [] j.op = "remove" -> [s EXCEPT !.rule[j.rule] = NoRule]
      [] OTHER -> s

\* The state after the mutation j of call c.  A use of a rule that is gone is
\* not counted; replacing a rule keeps its uses, and the id of a rule that is
\* gone makes another rule, one that is not in Rules.
Changed(c, j, s) ==
    CASE j.op = "count" /\ s.rule[j.rule].live ->
                            [s EXCEPT !.rule[j.rule].uses = @ + 1]
      [] j.op = "record" -> [s EXCEPT !.decision[c] = j.rule]
      [] j.op = "create" -> [s EXCEPT !.rule[j.rule] = NewRule(j.enabled)]
      [] j.op \in {"replace", "setEnabled"} /\ s.rule[j.rule].live ->
                            [s EXCEPT !.rule[j.rule].enabled = j.enabled]
      [] j.op = "remove" -> [s EXCEPT !.rule[j.rule] = NoRule]
      [] OTHER -> s

\* setEnabled throws when the rule is gone; nothing is written then.
Throws(j, s) == j.op = "setEnabled" /\ ~s.rule[j.rule].live

Goto(c, l) == pc' = [pc EXCEPT ![c] = l]

\* An error ends the call; a review is then left to a human.
Fail(c) ==
    /\ Goto(c, "done")
    /\ job' = [job EXCEPT ![c] = NoJob]
    /\ copy' = [copy EXCEPT ![c] = NoState]
    /\ answer' = [d \in Reviews |-> IF d = c THEN Human ELSE answer[d]]

\* The operation runs on the state s and the result is encoded for the file.
Operate(c, s) ==
    IF Throws(job[c], s)
    THEN /\ value' = s
         /\ holder' = None
         /\ Fail(c)
    ELSE /\ value' = Changed(c, job[c], s)
         /\ holder' = c
         /\ copy' = [copy EXCEPT ![c] = value']
         /\ Goto(c, "flush")
         /\ UNCHANGED <<job, answer>>

Enter(c) ==
    /\ pc[c] = "queue" /\ holder = None
    /\ IF value = NoState
       THEN /\ holder' = c
            /\ Goto(c, "load")
            /\ UNCHANGED <<value, job, copy, answer>>
       ELSE Operate(c, value)
    /\ UNCHANGED <<file, issued, off, barred, crashes, overwritten>>

\* readFile has read the file; the caller of loadFromDisk runs later.
LoadFromDisk(c) ==
    /\ \/ pc[c] = "load" /\ Goto(c, "apply")
       \/ pc[c] = "read" /\ Goto(c, "scan")
    /\ copy' = [copy EXCEPT ![c] = file]
    /\ UNCHANGED <<file, value, holder, job, answer, issued, off, barred, crashes, overwritten>>

\* Mutant: a failed load leaves the mutex held.
LoadFailsHolding(c) ==
    /\ Faults
    /\ pc[c] \in {"load", "read"}
    /\ holder' = holder
    /\ Fail(c)
    /\ UNCHANGED <<file, value, issued, off, barred, crashes, overwritten>>

LoadFails(c) ==
    /\ Faults
    /\ pc[c] \in {"load", "read"}
    /\ holder' = IF holder = c THEN None ELSE holder
    /\ Fail(c)
    /\ UNCHANGED <<file, value, issued, off, barred, crashes, overwritten>>

\* The state s is put in memory in place of none, of itself or of another.
Overwrite(s) == overwritten' = (overwritten \/ value \notin {NoState, s})

\* What was loaded replaces the state in memory, whatever that is by now.
Loaded(c) ==
    /\ pc[c] = "apply"
    /\ Overwrite(copy[c])
    /\ Operate(c, copy[c])
    /\ UNCHANGED <<file, issued, off, barred, crashes>>

Withdraws(j) == j.op = "remove" \/ (j.op \in {"create", "replace", "setEnabled"} /\ ~j.enabled)
Enables(j) == j.op \in {"create", "replace", "setEnabled"} /\ j.enabled

\* Mutant: the answer is given before it is in the log.
WrittenUnlogged(c) ==
    /\ pc[c] = "flush"
    /\ file' = copy[c]
    /\ holder' = None
    /\ copy' = [copy EXCEPT ![c] = NoState]
    /\ job' = [job EXCEPT ![c] = NoJob]
    /\ Goto(c, "done")
    /\ answer' = [d \in Reviews |-> IF d = c THEN job[c].rule ELSE answer[d]]
    /\ off' = IF /\ Withdraws(job[c])
                 /\ \A d \in Edits : job[d].rule = job[c].rule => ~Enables(job[d])
              THEN off \cup {job[c].rule} ELSE off
    /\ UNCHANGED <<value, issued, barred, crashes, overwritten>>

\* The file is replaced and the mutex left; then the call goes on.
Written(c) ==
    /\ pc[c] = "flush"
    /\ file' = copy[c]
    /\ holder' = None
    /\ copy' = [copy EXCEPT ![c] = NoState]
    /\ IF job[c].op = "count"
       THEN /\ job' = [job EXCEPT ![c] = Record(job[c].rule)]
            /\ Goto(c, "queue")
            /\ UNCHANGED answer
       ELSE /\ job' = [job EXCEPT ![c] = NoJob]
            /\ Goto(c, "done")
            /\ answer' = [d \in Reviews |-> IF d = c THEN job[c].rule ELSE answer[d]]
    /\ off' = IF /\ Withdraws(job[c])
                 /\ \A d \in Edits : job[d].rule = job[c].rule => ~Enables(job[d])
              THEN off \cup {job[c].rule} ELSE off
    /\ UNCHANGED <<value, issued, barred, crashes, overwritten>>

\* Mutant: a failed write leaves the mutex held.
WriteFailsHolding(c) ==
    /\ Faults
    /\ pc[c] = "flush"
    /\ holder' = c
    /\ Fail(c)
    /\ UNCHANGED <<file, value, issued, off, barred, crashes, overwritten>>

\* The state in memory keeps the change that was not written.
WriteFails(c) ==
    /\ Faults
    /\ pc[c] = "flush"
    /\ holder' = None
    /\ Fail(c)
    /\ UNCHANGED <<file, value, issued, off, barred, crashes, overwritten>>

-----------------------------------------------------------------------------
(* Reviews and edits.                                                      *)

Answered(r) == {c \in Reviews : answer[c] = r}
UsedUp == {r \in Rules : Cardinality(Answered(r)) >= Budget}

Mutate(c, j) == job' = [job EXCEPT ![c] = j] /\ Goto(c, "queue")

\* A review begins with the check of the settings.
Review(c) ==
    /\ pc[c] = "idle"
    /\ Goto(c, "check")
    /\ barred' = [barred EXCEPT ![c] = off \cup UsedUp]
    /\ UNCHANGED <<file, value, holder, job, copy, answer, issued, off, crashes, overwritten>>

\* The risk is privileged, or the tenant has automatic approvals off.
Escalate(c) ==
    /\ pc[c] = "check"
    /\ Mutate(c, Record(Human))
    /\ UNCHANGED <<file, value, holder, copy, answer, issued, off, barred, crashes, overwritten>>

\* Mutant: a disabled rule still answers.
CandidatesDisabled(s) == {r \in Rules : s.rule[r].live /\ s.rule[r].uses < Budget}

Candidates(s) ==
    {r \in Rules : s.rule[r].live /\ s.rule[r].enabled /\ s.rule[r].uses < Budget}

\* A candidate that matches answers, once its use is counted; a refusal
\* pattern, or no match, leaves the request to a human.
Scan(c, s) ==
    \/ \E r \in Candidates(s) : Mutate(c, Count(r))
    \/ Mutate(c, Record(Human))

\* state.read() returns the state in memory, or begins to load it.
Read(c) ==
    /\ pc[c] = "check"
    /\ IF value = NoState THEN Goto(c, "read") /\ UNCHANGED job ELSE Scan(c, value)
    /\ UNCHANGED <<file, value, holder, copy, answer, issued, off, barred, crashes, overwritten>>

\* read() outside the mutex: what was loaded replaces the state in memory too.
ReadLoaded(c) ==
    /\ pc[c] = "scan"
    /\ value' = copy[c]
    /\ Overwrite(copy[c])
    /\ Scan(c, copy[c])
    /\ copy' = [copy EXCEPT ![c] = NoState]
    /\ UNCHANGED <<file, holder, answer, issued, off, barred, crashes>>

\* upsertRule, setEnabled or removeRule; what may enable a rule ends its ban.
Edit(c) ==
    /\ pc[c] = "idle"
    /\ \E op \in {"create", "replace", "setEnabled", "remove"}, r \in Rules, b \in BOOLEAN :
         /\ (op = "create") = (r \notin issued)
         /\ Mutate(c, [op |-> op, rule |-> r, enabled |-> op # "remove" /\ b])
         /\ issued' = issued \cup {r}
         /\ LET back == IF Enables(job'[c]) THEN {r} ELSE {} IN
            /\ off' = off \ back
            /\ barred' = [d \in Reviews |-> barred[d] \ back]
    /\ UNCHANGED <<file, value, holder, copy, answer, crashes, overwritten>>

\* The file stays as it is: it is replaced by a rename.
Crash ==
    /\ crashes < MaxCrashes
    /\ crashes' = crashes + 1
    /\ value' = NoState
    /\ holder' = None
    /\ pc' = [c \in Calls |-> IF pc[c] \in {"idle", "done"} THEN pc[c] ELSE "dead"]
    /\ job' = [c \in Calls |-> NoJob]
    /\ copy' = [c \in Calls |-> NoState]
    /\ UNCHANGED <<file, answer, issued, off, barred, overwritten>>

Store(c) == Enter(c) \/ LoadFromDisk(c) \/ Loaded(c) \/ Written(c)
Step(c) == Store(c) \/ Escalate(c) \/ Read(c) \/ ReadLoaded(c)

Done == \A c \in Calls : pc[c] \in {"done", "dead"}

Next ==
    \/ \E c \in Calls : Enter(c) \/ LoadFromDisk(c) \/ LoadFails(c) \/ Loaded(c)
                        \/ Written(c) \/ WriteFails(c)
    \/ \E c \in Reviews : Review(c) \/ Escalate(c) \/ Read(c) \/ ReadLoaded(c)
    \/ \E c \in Edits : Edit(c)
    \/ Crash

Spec == Init /\ [][Next]_vars
FairSpec == Spec /\ \A c \in Calls : WF_vars(Step(c))

-----------------------------------------------------------------------------
(* The use budget and the log.                                             *)

\* Every answer a rule gave is among its uses in the file, so that neither a
\* crash, nor a failed write, nor an edit gives a rule a use back: unless what a
\* call loaded has replaced another state in memory.
AnswersAreCounted ==
    overwritten \/
    \A r \in Rules : file.rule[r].live => Cardinality(Answered(r)) <= file.rule[r].uses

\* An automatic answer is given only when the log in the file explains it, with
\* the same exception.
AnswersAreLogged ==
    overwritten \/ \A c \in Reviews : answer[c] \in Rules => file.decision[c] = answer[c]

\* "Serialized read-modify-write": a rule that a completed edit has disabled or
\* removed, or whose answers have reached its budget, answers no review that begins
\* after that.
WithdrawnStaysWithdrawn ==
    \A c \in Reviews : answer[c] \notin barred[c]

\* So it is unless what a call loaded has replaced another state in memory, which
\* is the only way for a withdrawal, or a use, to be lost.
OnlyOverwritingRestores == overwritten \/ WithdrawnStaysWithdrawn

\* A review that began is answered, by a rule or by leaving it to a human,
\* unless the process dies.
EveryReviewIsAnswered ==
    \A c \in Reviews : pc[c] = "check" ~> (answer[c] # None \/ pc[c] = "dead")
-----------------------------------------------------------------------------
(* The inductive invariant behind the safety properties: the shape of the   *)
(* state and of the calls always, and what the file and the memory hold     *)
(* until a loaded copy replaces another state (overwritten).                *)

InMemory == value # NoState

\* What is put in memory or written has been loaded or made before.
CopyInv == \A c \in Calls : pc[c] \in {"apply", "scan", "flush"} => copy[c] # NoState

\* Until a state is in memory what was loaded is the file: nothing is written
\* before.  What is being written is the state in memory.
LoadInv ==
    \A c \in Calls :
        /\ pc[c] \in {"apply", "scan"} /\ ~InMemory => copy[c] = file
        /\ pc[c] = "flush" => InMemory /\ copy[c] = value

\* Reviews count and record, edits edit; a call outside mutate has no mutation.
JobInv ==
    /\ \A c \in Calls : job[c].op # "none" <=> pc[c] \in {"queue", "load", "apply", "flush"}
    /\ \A c \in Calls : job[c].op = "none" => job[c] = NoJob
    /\ \A c \in Reviews :
         /\ job[c].op \in {"none", "count", "record"} /\ ~job[c].enabled
         /\ job[c].op = "count" => job[c].rule \in Rules
         /\ job[c].op = "record" => job[c].rule \in Rules \cup {Human}
    /\ \A c \in Edits :
         /\ pc[c] \notin {"check", "read", "scan"}
         /\ job[c].op \notin {"count", "record"}
         /\ job[c].op # "none" => job[c].rule \in issued

Counting(r) == {c \in Reviews : pc[c] = "flush" /\ job[c] = Count(r)}
Counted(r) == {c \in Reviews : answer[c] = r \/ job[c] = Record(r)}

Live(s, r) == s.rule[r].live
Enabled(s, r) == s.rule[r].live /\ s.rule[r].enabled

\* Nothing is known of a rule that is not yet there.
Unborn(r) ==
    /\ ~Live(file, r) /\ (InMemory => ~Live(value, r))
    /\ \A c \in Reviews : answer[c] # r /\ job[c].rule # r

BirthInv ==
    /\ \A r \in Rules : r \notin issued => Unborn(r)
    /\ \A c \in Edits : job[c].op = "create" =>
         /\ pc[c] # "flush" => Unborn(job[c].rule)
         /\ \A d \in Edits : job[d].op = "create" /\ job[d].rule = job[c].rule => d = c

\* The file counts the answers given and those that only have to be logged,
\* the memory also the one whose use is being written.
CountInv == \A r \in Rules :
    /\ Live(file, r) => Cardinality(Counted(r)) <= file.rule[r].uses
    /\ InMemory /\ Live(value, r) =>
         Cardinality(Counted(r) \cup Counting(r)) <= value.rule[r].uses

LogInv == \A c \in Reviews :
    /\ answer[c] \in Rules =>
         file.decision[c] = answer[c] /\ (InMemory => value.decision[c] = answer[c])
    /\ pc[c] = "flush" /\ job[c].op = "record" => value.decision[c] = job[c].rule

\* A withdrawn rule is disabled wherever it is, and nothing under way enables it.
OffInv ==
    /\ \A r \in off :
         /\ ~Enabled(file, r) /\ (InMemory => ~Enabled(value, r))
         /\ \A d \in Edits : job[d].rule = r => ~Enables(job[d])
    /\ \A c \in Edits : pc[c] = "flush" /\ Withdraws(job[c]) => ~Enabled(value, job[c].rule)

BarInv == \A c \in Reviews :
    /\ barred[c] \subseteq off \cup UsedUp
    /\ job[c].rule \notin barred[c]
    /\ answer[c] \notin barred[c]

ShapeInv == TypeOK /\ JobInv /\ CopyInv

DataInv == LoadInv /\ BirthInv /\ CountInv /\ LogInv /\ OffInv /\ BarInv

IInv == ShapeInv /\ (overwritten \/ DataInv)
=============================================================================
