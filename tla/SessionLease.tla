---------------------------- MODULE SessionLease ----------------------------
(***************************************************************************)
(* The file lease of one session: <session>.lock, created with "wx", then  *)
(* written with the owner's token and pid.  Processes on one machine       *)
(* compete for it; each step is one file-system call.                      *)
(*                                                                         *)
(* An acquisition is named by the process making it; its token is that     *)
(* name.  A lock whose process died has the pid Dead: restarts draw a new  *)
(* pid, and reuse of a pid is left out.                                    *)
(*                                                                         *)
(* Init, Next, Spec and TypeOK bear the lease's name, so that one module   *)
(* can extend this one together with the other store in a file.            *)
(***************************************************************************)
EXTENDS Naturals, FiniteSets

CONSTANT Processes

Nobody == "none"
Dead == "dead"
Attempts == 2
Absent == [by |-> Nobody, written |-> FALSE]

ASSUME ProcessesAssumption == Processes \cap {Nobody, Dead} = {}

VARIABLES file,    \* the lock: Absent, or who created it and whether it is written
          owned,   \* this.owned holds the session, by process
          call,    \* the acquire or release under way in each process
          alone    \* history: nobody else held or tried since the acquire began

leaseVars == <<file, owned, call, alone>>

AtRest == [pc |-> "idle", attempt |-> 0]

LeaseTypeOK ==
    /\ file \in [by : Processes \cup {Nobody, Dead}, written : BOOLEAN]
    /\ owned \in [Processes -> BOOLEAN]
    /\ call \in [Processes -> [pc : {"idle", "open", "write", "read", "rm",
                                     "failed", "readOwn", "rmOwn"},
                               attempt : 0..Attempts]]
    /\ alone \in [Processes -> BOOLEAN]

LeaseInit ==
    /\ file = Absent
    /\ owned = [p \in Processes |-> FALSE]
    /\ call = [p \in Processes |-> AtRest]
    /\ alone = [p \in Processes |-> FALSE]

\* p touches the lock: nobody else is alone any more.
Disturb(p) == alone' = [q \in Processes |-> q = p /\ alone[q]]

Unused == \A p \in Processes : ~owned[p] /\ call[p].pc \in {"idle", "failed"}

\* acquire returns at once to a process that owns the lease already.
Acquire(p) ==
    /\ call[p].pc \in {"idle", "failed"} /\ ~owned[p]
    /\ call' = [call EXCEPT ![p] = [pc |-> "open", attempt |-> 1]]
    /\ alone' = [q \in Processes |-> q = p /\ Unused]
    /\ UNCHANGED <<file, owned>>

\* open(path, "wx") creates an empty file, or fails with EEXIST.
Open(p) ==
    /\ call[p].pc = "open"
    /\ IF file = Absent
       THEN /\ file' = [by |-> p, written |-> FALSE]
            /\ call' = [call EXCEPT ![p].pc = "write"]
       ELSE call' = [call EXCEPT ![p].pc = "read"] /\ UNCHANGED file
    /\ Disturb(p)
    /\ UNCHANGED owned

\* The write goes to the file p opened, which may have been unlinked since.
Write(p) ==
    /\ call[p].pc = "write"
    /\ file' = IF file = [by |-> p, written |-> FALSE]
               THEN [by |-> p, written |-> TRUE] ELSE file
    /\ owned' = [owned EXCEPT ![p] = TRUE]
    /\ call' = [call EXCEPT ![p] = AtRest]
    /\ Disturb(p)

\* A missing or unparsable lock, or one of a dead process, is taken as stale.
Read(p) ==
    /\ call[p].pc = "read"
    /\ call' = [call EXCEPT ![p].pc =
                  IF file.written /\ file.by # Dead
                  THEN "failed" ELSE "rm"]
    /\ Disturb(p)
    /\ UNCHANGED <<file, owned>>

\* Mutant: the stale lock is removed and the acquire gives up.
RemoveOnce(p) ==
    /\ call[p].pc = "rm"
    /\ file' = Absent
    /\ call' = [call EXCEPT ![p].pc = "failed"]
    /\ Disturb(p)
    /\ UNCHANGED owned

\* Mutant: one attempt too many.
RemoveOffByOne(p) ==
    /\ call[p].pc = "rm"
    /\ file' = Absent
    /\ call' = [call EXCEPT ![p] =
                  IF @.attempt <= Attempts
                  THEN [pc |-> "open", attempt |-> @.attempt + 1]
                  ELSE [pc |-> "failed", attempt |-> @.attempt]]
    /\ Disturb(p)
    /\ UNCHANGED owned

Remove(p) ==
    /\ call[p].pc = "rm"
    /\ file' = Absent
    /\ call' = [call EXCEPT ![p] =
                  IF @.attempt < Attempts
                  THEN [pc |-> "open", attempt |-> @.attempt + 1]
                  ELSE [pc |-> "failed", attempt |-> @.attempt]]
    /\ Disturb(p)
    /\ UNCHANGED owned

Release(p) ==
    /\ call[p].pc = "idle" /\ owned[p]
    /\ call' = [call EXCEPT ![p].pc = "readOwn"]
    /\ UNCHANGED <<file, owned, alone>>

\* A lock with p's token is removed next; any other is left alone.
ReadOwn(p) ==
    /\ call[p].pc = "readOwn"
    /\ IF file = [by |-> p, written |-> TRUE]
       THEN call' = [call EXCEPT ![p].pc = "rmOwn"] /\ UNCHANGED owned
       ELSE call' = [call EXCEPT ![p] = AtRest] /\ owned' = [owned EXCEPT ![p] = FALSE]
    /\ Disturb(p)
    /\ UNCHANGED file

RemoveOwn(p) ==
    /\ call[p].pc = "rmOwn"
    /\ file' = Absent
    /\ owned' = [owned EXCEPT ![p] = FALSE]
    /\ call' = [call EXCEPT ![p] = AtRest]
    /\ Disturb(p)

\* The process dies, leaving the lock as it is, possibly still empty.
Die(p) ==
    /\ file' = IF file.by = p THEN [file EXCEPT !.by = Dead] ELSE file
    /\ owned' = [owned EXCEPT ![p] = FALSE]
    /\ call' = [call EXCEPT ![p] = AtRest]
    /\ Disturb(p)

Step(p) == Open(p) \/ Write(p) \/ Read(p) \/ Remove(p) \/ ReadOwn(p) \/ RemoveOwn(p)

LeaseNext == \E p \in Processes : Acquire(p) \/ Release(p) \/ Step(p) \/ Die(p)

LeaseSpec == LeaseInit /\ [][LeaseNext]_leaseVars

-----------------------------------------------------------------------------
(* Properties *)

\* A lock left by a dead process, written or empty, does not keep the session
\* closed: an acquire that nobody disturbs succeeds within its two attempts.
LoneAcquireSucceeds == \A p \in Processes : call[p].pc = "failed" => ~alone[p]

\* "removal still races safely with wx creation": no two processes own the
\* session's lease at the same time.
MutualExclusion == \A p, q \in Processes : owned[p] /\ owned[q] => p = q

-----------------------------------------------------------------------------
(* The inductive invariant behind LoneAcquireSucceeds *)

\* A lock that reads as live is the one of a process that owns the lease.
LiveLockInv ==
    file.written /\ file.by # Dead => file.by \in Processes /\ owned[file.by]

\* A process that is acquiring, or has failed to, does not own the lease.
AcquireInv == \A p \in Processes :
    /\ call[p].pc \in {"open", "write", "read", "rm", "failed"} => ~owned[p]
    /\ call[p].pc \in {"open", "write", "read", "rm"} => call[p].attempt \in 1..Attempts

\* To one who is alone the second attempt finds no lock, and so is the last.
AloneInv == \A p \in Processes : alone[p] =>
    /\ \A q \in Processes : q # p => ~owned[q] /\ call[q].pc \in {"idle", "failed"}
    /\ call[p].pc = "open" /\ call[p].attempt = Attempts => file = Absent
    /\ call[p].pc \in {"read", "rm"} => call[p].attempt < Attempts

LeaseIInv == LeaseTypeOK /\ LiveLockInv /\ AcquireInv /\ AloneInv /\ LoneAcquireSucceeds
=============================================================================
