---------------------------- MODULE SessionActor ----------------------------
(***************************************************************************)
(* One session in one runtime on the file stores: the supervisor that      *)
(* activates an actor for it, the actor's mutex and its commands, the      *)
(* event log and the snapshot.  The process may die at every step and the  *)
(* next one recovers the session; an append or a save may fail.            *)
(*                                                                         *)
(* A step ends where the code awaits a store or a lock.  The conversation  *)
(* is the set of prompts in it.  A turn's model and tool events are one    *)
(* event here; goals, tasks, tree edits and model selection are one        *)
(* command ("update"); cancelling a turn is one of the ways it may throw.  *)
(***************************************************************************)
EXTENDS Naturals, FiniteSets, Sequences

CONSTANTS Requests,    \* calls of dispatch, each of some kind
          Kinds,       \* the kinds of commands that are issued
          MaxActors,   \* bounds the actor objects that are built
          MaxFaults,   \* bounds the appends and saves that fail
          MaxCrashes   \* bounds the deaths of the process

None == "none"
Statuses == {"recovering", "idle", "running", "paused", "closed"}
Actors == 1..MaxActors
NoLive == 0
AllKinds == {"prompt", "update", "pause", "resume", "close"}

ASSUME RequestsAssumption == None \notin Requests
ASSUME KindsAssumption == Kinds \subseteq AllKinds
ASSUME BoundsAssumption == MaxActors \in Nat \ {0} /\ MaxFaults \in Nat /\ MaxCrashes \in Nat

VARIABLES request,  \* progress of each call of dispatch
          live,     \* the supervisor's actor for the session
          lease,    \* the session's lease as this process sees it
          actor,    \* the actor objects: in-memory snapshot and mutex
          log,      \* the session's event file
          snap,     \* its snapshot file
          refused,  \* history: the log has refused an event as out of order
          broken,   \* history: an append has failed
          faults,   \* the number of appends, saves and close handlers that failed
          crashes,  \* the number of deaths of the process
          raced     \* history: a request found no actor during an activation or a close

files == <<log, snap, refused, broken, faults>>
history == <<crashes, raced>>
vars == <<request, live, lease, actor, files, history>>

Activating == {"load", "sequence", "lease", "locked", "build", "announce", "open", "store"}
Turn == {"lock", "message", "accept", "model", "answer", "settle", "save",
         "unlink", "release", "failed", "failedIdle", "failedSave"}
Results == {"completed", "rejected", "thrown", "lost"}

NoActor == [gen |-> 0, seq |-> 0, status |-> "recovering", messages |-> {}, queue |-> <<>>]

TypeOK ==
    /\ request \in [Requests ->
                      [pc : {"new"} \cup Activating \cup Turn \cup Results,
                       kind : AllKinds, actor : Actors \cup {NoLive}, gen : Nat, seq : Nat,
                       messages : SUBSET Requests]]
    /\ live \in Actors \cup {NoLive}
    /\ lease \in {"free", "locking", "owned"}
    /\ actor \in [Actors -> [gen : Nat, seq : Nat, status : Statuses,
                             messages : SUBSET Requests, queue : Seq(Requests)]]
    /\ log \in Seq([gen : Nat, seq : Nat, status : Statuses, message : Requests \cup {None}])
    /\ snap \in [gen : Nat, seq : Nat, status : Statuses, messages : SUBSET Requests]
    /\ refused \in BOOLEAN /\ broken \in BOOLEAN /\ raced \in BOOLEAN
    /\ faults \in 0..MaxFaults /\ crashes \in 0..MaxCrashes

Event(gen, seq, status, message) ==
    [gen |-> gen, seq |-> seq, status |-> status, message |-> message]

\* The session as createSession leaves it.
Init ==
    /\ request \in [Requests -> {[pc |-> "new", kind |-> k, actor |-> NoLive, gen |-> 0,
                                  seq |-> 0, messages |-> {}] : k \in Kinds}]
    /\ live = 1
    /\ lease = "owned"
    /\ actor = [a \in Actors |-> IF a = 1 THEN [gen |-> 1, seq |-> 1, status |-> "idle",
                                               messages |-> {}, queue |-> <<>>]
                                 ELSE NoActor]
    /\ log = <<Event(1, 1, "idle", None)>>
    /\ snap = [gen |-> 1, seq |-> 1, status |-> "idle", messages |-> {}]
    /\ refused = FALSE /\ broken = FALSE /\ raced = FALSE
    /\ faults = 0 /\ crashes = 0

-----------------------------------------------------------------------------
(* The stores *)

\* An append or a save fails.
IoError == faults < MaxFaults /\ faults' = faults + 1

Goto(r, pc) == request' = [request EXCEPT ![r].pc = pc]

LastEvent == log[Len(log)]

\* The event file takes an event of a new generation, or the next one.
Accepts(gen, seq) ==
    gen > LastEvent.gen \/ (gen = LastEvent.gen /\ seq = LastEvent.seq + 1)

\* The sequence advances before the append, and stays so if that fails.
Emit(r, a, status, message, next, catch) ==
    LET seq == actor[a].seq + 1 IN
      /\ actor' = [actor EXCEPT ![a].seq = seq, ![a].status = status,
                                ![a].messages = @ \cup ({message} \ {None})]
      /\ \/ /\ Accepts(actor[a].gen, seq)
            /\ log' = Append(log, Event(actor[a].gen, seq, status, message))
            /\ Goto(r, next)
            /\ UNCHANGED <<refused, broken, faults>>
         \/ /\ ~Accepts(actor[a].gen, seq)
            /\ refused' = TRUE
            /\ Goto(r, catch)
            /\ UNCHANGED <<log, broken, faults>>
         \/ IoError /\ broken' = TRUE /\ Goto(r, catch) /\ UNCHANGED <<log, refused>>
      /\ UNCHANGED snap

\* setStatus says nothing of a status that stays.
SetStatus(r, a, status, next, catch) ==
    \/ /\ actor[a].status # status
       /\ Emit(r, a, status, None, next, catch)
    \/ /\ actor[a].status = status
       /\ Goto(r, next)
       /\ UNCHANGED <<actor, files>>

Stored(a) == [gen |-> actor[a].gen, seq |-> actor[a].seq, status |-> actor[a].status,
              messages |-> actor[a].messages]

-----------------------------------------------------------------------------
(* getActor *)

\* Nobody else is activating or closing the session.
Quiet == /\ \A r \in Requests : request[r].pc \notin Activating
         /\ \A a \in Actors : actor[a].queue = <<>>

\* dispatch: an actor that is there is joined, in the order of the calls; where
\* there is none the session is activated, whoever else is at it.
Dispatch(r) ==
    /\ request[r].pc = "new"
    /\ \/ /\ live # NoLive
          /\ request' = [request EXCEPT ![r].pc = "lock", ![r].actor = live]
          /\ actor' = [actor EXCEPT ![live].queue = Append(@, r)]
          /\ UNCHANGED raced
       \/ /\ live = NoLive
          /\ Goto(r, "load")
          /\ raced' = (raced \/ ~Quiet)
          /\ UNCHANGED actor
    /\ UNCHANGED <<live, lease, files, crashes>>

\* Mutant: a recovered session starts with an empty conversation.
LoadEmpty(r) ==
    /\ request[r].pc = "load"
    /\ request' = [request EXCEPT ![r].pc = "sequence", ![r].gen = snap.gen + 1]
    /\ UNCHANGED <<live, lease, actor, files, history>>

Load(r) ==
    /\ request[r].pc = "load"
    /\ request' = [request EXCEPT ![r].pc = "sequence", ![r].gen = snap.gen + 1,
                                  ![r].messages = snap.messages]
    /\ UNCHANGED <<live, lease, actor, files, history>>

\* Mutant: the sequence is taken from the snapshot.
SnapshotSequence(r) ==
    /\ request[r].pc = "sequence"
    /\ request' = [request EXCEPT ![r].pc = "lease", ![r].seq = snap.seq]
    /\ UNCHANGED <<live, lease, actor, files, history>>

\* Mutant: every generation counts its events from one.
SequenceRestarts(r) ==
    /\ request[r].pc = "sequence"
    /\ Goto(r, "lease")
    /\ UNCHANGED <<live, lease, actor, files, history>>

LastSequence(r) ==
    /\ request[r].pc = "sequence"
    /\ request' = [request EXCEPT ![r].pc = "lease", ![r].seq = LastEvent.seq]
    /\ UNCHANGED <<live, lease, actor, files, history>>

\* The lease is the process's: a second call passes once it is owned, and
\* fails while the lock file is there and it is not.
AcquireLease(r) ==
    /\ request[r].pc = "lease"
    /\ \/ lease = "free" /\ lease' = "locking" /\ Goto(r, "locked")
       \/ lease = "locking" /\ Goto(r, "thrown") /\ UNCHANGED lease
       \/ lease = "owned" /\ Goto(r, "build") /\ UNCHANGED lease
    /\ UNCHANGED <<live, actor, files, history>>

LeaseAcquired(r) ==
    /\ request[r].pc = "locked"
    /\ lease' = "owned"
    /\ Goto(r, "build")
    /\ UNCHANGED <<live, actor, files, history>>

\* The new actor is in the map before initialize has its mutex.
Build(r, a) ==
    /\ request[r].pc = "build"
    /\ actor[a].gen = 0 /\ \A b \in 1..(a - 1) : actor[b].gen > 0
    /\ actor' = [actor EXCEPT ![a] = [gen |-> request[r].gen, seq |-> request[r].seq,
                                      status |-> "recovering",
                                      messages |-> request[r].messages, queue |-> <<r>>]]
    /\ live' = a
    /\ request' = [request EXCEPT ![r].pc = "announce", ![r].actor = a]
    /\ UNCHANGED <<lease, files, history>>

\* The mutex goes to the next command in line.
Leave(r) == actor' = [actor EXCEPT ![request[r].actor].queue = Tail(@)]

Announce(r) ==
    /\ request[r].pc = "announce"
    /\ Emit(r, request[r].actor, "recovering", None, "open", "thrown")
    /\ UNCHANGED <<live, lease, history>>

Open(r) ==
    /\ request[r].pc = "open"
    /\ SetStatus(r, request[r].actor, "idle", "store", "thrown")
    /\ UNCHANGED <<live, lease, history>>

\* The activating command then queues like any other.
Store(r) ==
    LET a == request[r].actor IN
      /\ request[r].pc = "store"
      /\ \/ /\ snap' = Stored(a)
            /\ Goto(r, "lock")
            /\ actor' = [actor EXCEPT ![a].queue = Append(Tail(@), r)]
            /\ UNCHANGED faults
         \/ IoError /\ Goto(r, "thrown") /\ Leave(r) /\ UNCHANGED snap
      /\ UNCHANGED <<live, lease, log, refused, broken, history>>

-----------------------------------------------------------------------------
(* dispatch, under the actor's mutex *)

Holds(r, pc) ==
    /\ request[r].pc = pc
    /\ Head(actor[request[r].actor].queue) = r

\* runPrompt: refused when paused or closed.
Prompt(r) ==
    LET a == request[r].actor IN
      /\ Holds(r, "lock") /\ request[r].kind = "prompt"
      /\ \/ /\ actor[a].status \in {"paused", "closed"}
            /\ Goto(r, "failed")
            /\ UNCHANGED <<actor, files>>
         \/ /\ actor[a].status \notin {"paused", "closed"}
            /\ SetStatus(r, a, "running", "message", "failed")
      /\ UNCHANGED <<live, lease, history>>

Message(r) ==
    /\ Holds(r, "message")
    /\ Emit(r, request[r].actor, actor[request[r].actor].status, r, "accept", "failed")
    /\ UNCHANGED <<live, lease, history>>

Accept(r) ==
    /\ Holds(r, "accept")
    /\ \/ snap' = Stored(request[r].actor) /\ Goto(r, "model") /\ UNCHANGED faults
       \/ IoError /\ Goto(r, "failed") /\ UNCHANGED snap
    /\ UNCHANGED <<live, lease, actor, log, refused, broken, history>>

\* The model answers, or the turn throws: a model error or a cancellation.
Model(r) ==
    /\ Holds(r, "model")
    /\ Goto(r, "answer") \/ Goto(r, "failed")
    /\ UNCHANGED <<live, lease, actor, files, history>>

Answer(r) ==
    /\ Holds(r, "answer")
    /\ Emit(r, request[r].actor, actor[request[r].actor].status, None, "settle", "failed")
    /\ UNCHANGED <<live, lease, history>>

Settle(r) ==
    /\ Holds(r, "settle")
    /\ SetStatus(r, request[r].actor, "idle", "save", "failed")
    /\ UNCHANGED <<live, lease, history>>

Update(r) ==
    /\ Holds(r, "lock") /\ request[r].kind = "update"
    /\ Emit(r, request[r].actor, actor[request[r].actor].status, None, "save", "failed")
    /\ UNCHANGED <<live, lease, history>>

Pause(r) ==
    /\ Holds(r, "lock") /\ request[r].kind = "pause"
    /\ SetStatus(r, request[r].actor, "paused", "save", "failed")
    /\ UNCHANGED <<live, lease, history>>

Resume(r) ==
    /\ Holds(r, "lock") /\ request[r].kind = "resume"
    /\ SetStatus(r, request[r].actor, "idle", "save", "failed")
    /\ UNCHANGED <<live, lease, history>>

Close(r) ==
    /\ Holds(r, "lock") /\ request[r].kind = "close"
    /\ SetStatus(r, request[r].actor, "closed", "unlink", "failed")
    /\ UNCHANGED <<live, lease, history>>

\* onClose forgets the session's actor, whichever that is, then its lease; the
\* runtime's own close handler, which runs before, may throw.
Unlink(r) ==
    /\ Holds(r, "unlink")
    /\ \/ live' = NoLive /\ Goto(r, "release") /\ UNCHANGED faults
       \/ IoError /\ Goto(r, "failed") /\ UNCHANGED live
    /\ UNCHANGED <<lease, actor, log, snap, refused, broken, history>>

Release(r) ==
    /\ Holds(r, "release")
    /\ lease' = IF lease = "owned" THEN "free" ELSE lease
    /\ Goto(r, "save")
    /\ UNCHANGED <<live, actor, files, history>>

\* Every command stores the snapshot before it is answered.
Save(r) ==
    /\ Holds(r, "save")
    /\ \/ /\ snap' = Stored(request[r].actor)
          /\ Goto(r, "completed") /\ Leave(r)
          /\ UNCHANGED faults
       \/ IoError /\ Goto(r, "failed") /\ UNCHANGED <<actor, snap>>
    /\ UNCHANGED <<live, lease, log, refused, broken, history>>

Failed(r) ==
    /\ Holds(r, "failed")
    /\ Emit(r, request[r].actor, actor[request[r].actor].status, None, "failedIdle",
            "thrown")
    /\ UNCHANGED <<live, lease, history>>

\* Mutant: a command that fails leaves the session in a status of its own.
FailedStatus(r) ==
    /\ Holds(r, "failedIdle")
    /\ SetStatus(r, request[r].actor, "failed", "failedSave", "thrown")
    /\ UNCHANGED <<live, lease, history>>

\* The error path makes the session idle unless it is paused or closed.
FailedIdle(r) ==
    LET a == request[r].actor IN
      /\ Holds(r, "failedIdle")
      /\ \/ /\ actor[a].status \in {"paused", "closed"}
            /\ Goto(r, "failedSave")
            /\ UNCHANGED <<actor, files>>
         \/ /\ actor[a].status \notin {"paused", "closed"}
            /\ SetStatus(r, a, "idle", "failedSave", "thrown")
      /\ UNCHANGED <<live, lease, history>>

FailedSave(r) ==
    /\ Holds(r, "failedSave")
    /\ \/ snap' = Stored(request[r].actor) /\ Goto(r, "rejected") /\ UNCHANGED faults
       \/ IoError /\ Goto(r, "thrown") /\ UNCHANGED snap
    /\ Leave(r)
    /\ UNCHANGED <<live, lease, log, refused, broken, history>>

\* Mutant: the mutex is not released when the error path throws.
UnwindNever(r) == request[r].pc = "none" /\ UNCHANGED vars

\* A command whose error path throws leaves the mutex to the next one.
Unwind(r) ==
    /\ request[r].pc = "thrown" /\ request[r].actor # NoLive
    /\ actor[request[r].actor].queue # <<>>
    /\ Head(actor[request[r].actor].queue) = r
    /\ Leave(r)
    /\ UNCHANGED <<request, live, lease, files, history>>

-----------------------------------------------------------------------------

\* The process dies; the next one finds no owner of the lease alive.  Objects of
\* a dead process count as closed.
Crash ==
    /\ crashes < MaxCrashes
    /\ crashes' = crashes + 1
    /\ request' = [r \in Requests |->
                     IF request[r].pc \in {"new"} \cup Results THEN request[r]
                     ELSE [request[r] EXCEPT !.pc = "lost"]]
    /\ live' = NoLive
    /\ lease' = "free"
    /\ actor' = [a \in Actors |-> IF actor[a].gen = 0 THEN actor[a]
                                  ELSE [actor[a] EXCEPT !.status = "closed", !.queue = <<>>]]
    /\ UNCHANGED <<files, raced>>

Activate(r) == \/ Load(r) \/ LastSequence(r) \/ AcquireLease(r) \/ LeaseAcquired(r)
               \/ (\E a \in Actors : Build(r, a)) \/ Announce(r) \/ Open(r) \/ Store(r)

Command(r) == \/ Prompt(r) \/ Message(r) \/ Accept(r) \/ Model(r) \/ Answer(r) \/ Settle(r)
              \/ Update(r) \/ Pause(r) \/ Resume(r) \/ Close(r) \/ Unlink(r) \/ Release(r)
              \/ Save(r) \/ Failed(r) \/ FailedIdle(r) \/ FailedSave(r) \/ Unwind(r)

Done == \A r \in Requests : request[r].pc \in Results

\* Nothing is left to do.
Finished == Done /\ UNCHANGED vars

Next == Crash \/ Finished \/ \E r \in Requests : Dispatch(r) \/ Activate(r) \/ Command(r)

Spec == Init /\ [][Next]_vars

\* Stores and models answer: a request that can take a step takes one.
Fairness == \A r \in Requests : WF_vars(Activate(r) \/ Command(r))

FairSpec == Spec /\ Fairness

-----------------------------------------------------------------------------
(* Properties *)

\* What the files promise while one actor at a time works on the session.
AnswersStored ==
    \A r \in Requests :
        request[r].pc = "completed" /\ request[r].kind = "prompt" => r \in snap.messages

LogOrdered ==
    \A i, j \in 1..Len(log) : i < j => log[i].seq < log[j].seq /\ log[i].gen <= log[j].gen

RefusalsExplained == refused => broken

\* A prompt that was answered stays in the stored conversation, through failures,
\* crashes and recoveries, unless a request found no actor during an activation or
\* a close: only then may a second actor store over the first.
CompletedIsDurable == raced \/ AnswersStored

\* "Event ID and session sequence are unique", across generations too, with the
\* same exception.
SequencesIncrease == raced \/ LogOrdered

\* The log refuses an event of the supervisor only after an append failed, with
\* the same exception; a save or a close handler that fails never leads there.
RefusedAfterFault == raced \/ RefusalsExplained

\* "Snapshots cannot regress generation or sequence", with the same exception.
\* The sequence can, too, once an append failed: its number and those of the
\* events the log refuses after it are consumed, a command without an event stores
\* them, and the next activation starts below them, at the log's.
SnapshotNeverRegresses ==
    [][raced \/ (snap'.gen >= snap.gen /\ (~broken => snap'.seq >= snap.seq))]_vars

\* "One session actor owns one root family": no two actors work on a session.
OneActor ==
    Cardinality({a \in Actors : actor[a].gen > 0 /\ actor[a].status # "closed"}) <= 1

\* A request that was issued is answered, although others keep coming.
EveryRequestEnds ==
    \A r \in Requests : request[r].pc # "new" ~> request[r].pc \in Results
=============================================================================
