------------------------------- MODULE Kernel -------------------------------
(***************************************************************************)
(* The persistent Python kernel of one session: KernelManager, its clients *)
(* and kernel_server.py at the other end of stdin and stdout.  Calls of    *)
(* python.execute come from the turn, from the API and from the Python     *)
(* code itself, whose haf.call may reach python.execute again.             *)
(*                                                                         *)
(* A call runs one execution and builds at most one kernel, so executions  *)
(* and kernels are named by their calls.  The code that runs may repeat a  *)
(* host request of this execution or of an earlier one, token included.    *)
(* Promise continuations run before the next event, so what fails together *)
(* is one step.  The cache of host responses holds 2000 keys and an        *)
(* execution makes 1000 requests at most, so none of its own is dropped.   *)
(***************************************************************************)
EXTENDS Naturals, Sequences

CONSTANTS Calls,        \* calls of python.execute for the session
          MaxRequests,  \* maxHostRequestsPerExecution
          MaxWritten    \* bound on the host requests written, repeated ones too

None == "none"

ASSUME BoundsAssumption == {MaxRequests, MaxWritten} \subseteq Nat
ASSUME CallsAssumption == None \notin Calls

Requests == 1..MaxWritten

VARIABLES current,    \* KernelManager.kernels: the session's entry
          pc,         \* where each call is
          on,         \* the kernel it uses
          queue,      \* AsyncMutex of a kernel: its holder and who waits
          aborted,    \* the signal of the call's AbortController
          phase,      \* of a kernel: "shut" is closed before the process exits,
                      \* "lost" is closed and neither ready nor failed
          active,     \* KernelClient.activeExecution
          pending,    \* KernelClient.pending: frames that wait for a result
          closing,    \* who awaits client.close()
          input,      \* stdin of the process
          output,     \* stdout of the process
          python,     \* the execution it runs, and the request it waits for
          sent,       \* host requests made by an execution
          written,    \* host requests written so far by all of them
          counted,    \* activeExecution.hostRequests
          served,     \* KernelClient.hostResponses
          echoes,     \* duplicates that wait for the same response
          nested,     \* the call a host request made, when it reached the kernel
          invoked     \* history: times a host request reached the broker

manager == <<current, pc, on, queue, aborted>>
client == <<phase, active, pending, closing>>
process == <<input, output, python, sent, written>>
broker == <<counted, served, echoes, nested, invoked>>
vars == <<manager, client, process, broker>>

Kinds == {"restore", "execute", "snapshot", "shutdown"}
Frames == [kind : Kinds \cup {"host_request", "host_response"}, call : Calls, n : 0..(MaxWritten + 1)]
Frame(kind, c, n) == [kind |-> kind, call |-> c, n |-> n]
Ended == {"done", "cut"}
Holding == {"begin", "execute", "snapshot"}
Building == {"make", "start", "restore", "abandon"}
Idle == [run |-> None, wait |-> 0]
Exited == [run |-> "exited", wait |-> 0]

\* Calls, kernels, frames and host requests have the shapes the manager, the
\* client and the server give them; whoever holds a kernel's mutex is its first
\* in the queue, and a closed kernel has nothing pending.
TypeOK ==
    /\ current \in Calls \cup {None}
    /\ pc \in [Calls -> {"idle", "lock"} \cup Building \cup Holding \cup Ended]
    /\ on \in [Calls -> Calls \cup {None}]
    /\ queue \in [Calls -> Seq(Calls)]
    /\ aborted \in [Calls -> BOOLEAN]
    /\ phase \in [Calls -> {"absent", "starting", "ready", "lost", "shut", "closed"}]
    /\ active \in [Calls -> Calls \cup {None}]
    /\ pending \in [Calls -> SUBSET (Kinds \X Calls)]
    /\ closing \in [Calls -> SUBSET {"session", "builder"}]
    /\ input \in [Calls -> Seq(Frames)] /\ output \in [Calls -> Seq(Frames)]
    /\ python \in [Calls -> [run : Calls \cup {None, "exited"}, wait : 0..MaxWritten]]
    /\ sent \in [Calls -> 0..MaxWritten] /\ written \in 0..MaxWritten
    /\ counted \in [Calls -> 0..MaxWritten]
    /\ served \in [Calls -> [Requests -> {"new", "working", "answered"}]]
    /\ echoes \in [Calls -> [Requests -> 0..MaxWritten]]
    /\ nested \in [Calls -> [Requests -> Calls \cup {None}]]
    /\ invoked \in [Calls -> [Requests -> Nat]]
    /\ \A c \in Calls : pc[c] \in Holding => /\ on[c] # None /\ queue[on[c]] # <<>>
                                             /\ Head(queue[on[c]]) = c
    /\ \A k \in Calls : phase[k] = "closed" => pending[k] = {}

Init ==
    /\ current = None
    /\ pc = [c \in Calls |-> "idle"] /\ on = [c \in Calls |-> None]
    /\ queue = [k \in Calls |-> <<>>]
    /\ aborted = [c \in Calls |-> FALSE]
    /\ phase = [k \in Calls |-> "absent"] /\ active = [k \in Calls |-> None]
    /\ pending = [k \in Calls |-> {}] /\ closing = [k \in Calls |-> {}]
    /\ input = [k \in Calls |-> <<>>] /\ output = [k \in Calls |-> <<>>]
    /\ python = [k \in Calls |-> Idle]
    /\ sent = [c \in Calls |-> 0] /\ written = 0
    /\ counted = [c \in Calls |-> 0]
    /\ served = [c \in Calls |-> [i \in Requests |-> "new"]]
    /\ echoes = [c \in Calls |-> [i \in Requests |-> 0]]
    /\ nested = [c \in Calls |-> [i \in Requests |-> None]]
    /\ invoked = [c \in Calls |-> [i \in Requests |-> 0]]

-----------------------------------------------------------------------------
(* Writing and failing *)

Goto(c, place) == pc' = [pc EXCEPT ![c] = place]
IsOpen(k) == phase[k] \in {"starting", "ready"}

\* request(): the entry in pending, and its frame on stdin.
Post(k, kind, c) ==
    /\ pending' = [pending EXCEPT ![k] = @ \cup {<<kind, c>>}]
    /\ input' = [input EXCEPT ![k] = Append(@, Frame(kind, c, 0))]

\* Calls that use a kernel, and whether one that finds it closed deletes the
\* session's entry, whichever kernel that names by then.
Users(k) == {c \in Calls : on[c] = k /\ pc[c] \notin Ended}
Deletes(k) == "session" \in closing[k] \/ \E c \in Users(k) : pc[c] # "abandon"

\* Mutant: what is pending is not rejected.
CutLeaving(k) ==
    /\ phase' = [phase EXCEPT ![k] = "closed"]
    /\ closing' = [closing EXCEPT ![k] = {}]
    /\ pc' = [c \in Calls |-> IF c \in Users(k) THEN "cut" ELSE pc[c]]
    /\ queue' = [queue EXCEPT ![k] = <<>>]
    /\ current' = IF Deletes(k) THEN None ELSE current
    /\ python' = [python EXCEPT ![k] = Exited]
    /\ input' = [input EXCEPT ![k] = <<>>]
    /\ UNCHANGED pending

\* The process group is killed and all that is pending is rejected; those who
\* wait for the mutex find the client closed when their turn comes.
Cut(k) ==
    /\ phase' = [phase EXCEPT ![k] = "closed"]
    /\ pending' = [pending EXCEPT ![k] = {}]
    /\ closing' = [closing EXCEPT ![k] = {}]
    /\ pc' = [c \in Calls |-> IF c \in Users(k) THEN "cut" ELSE pc[c]]
    /\ queue' = [queue EXCEPT ![k] = <<>>]
    /\ current' = IF Deletes(k) THEN None ELSE current
    /\ python' = [python EXCEPT ![k] = Exited]
    /\ input' = [input EXCEPT ![k] = <<>>]

\* failPending leaves the active execution when nothing is left to reject:
\* the frame that failed is off the map by then, and so is the execution that
\* the abort reached.
Inactivate(k, failed) ==
    active' = IF \E e \in pending[k] \ failed : e[1] # "execute"
              THEN [active EXCEPT ![k] = None] ELSE active

\* Mutant: the process is killed and the broker's work goes on.
TerminateQuietly(k, failed) == Cut(k) /\ Inactivate(k, failed) /\ UNCHANGED aborted

\* terminate: the controller of whoever holds the mutex is aborted with it.
Terminate(k, failed) ==
    /\ Cut(k) /\ Inactivate(k, failed)
    /\ aborted' = [c \in Calls |-> aborted[c] \/ (on[c] = k /\ pc[c] \in Holding)]

Terminates(k, failed) == /\ Terminate(k, failed)
                         /\ UNCHANGED <<on, output, sent, written, broker>>

\* The timer of the start or of a frame, or the exit that follows a shutdown.
TimeOut(k) == \/ phase[k] \in {"starting", "shut"} /\ Terminates(k, {})
              \/ \E e \in pending[k] : Terminates(k, {e})

\* The process cannot be started, exits once it was ready, or sends what is no
\* protocol.
Dies(k) == IsOpen(k) /\ Terminates(k, {})

\* The process exits before it is ready, or its first line is too long: the
\* timer of the start goes with it, and nothing rejects the promise of the start.
\* Whoever waits for it, to build, to execute or to close, waits on.
ExitsUnready(k) ==
    /\ phase[k] = "starting"
    /\ phase' = [phase EXCEPT ![k] = "lost"]
    /\ aborted' = [c \in Calls |-> aborted[c] \/ (on[c] = k /\ pc[c] \in Holding)]
    /\ python' = [python EXCEPT ![k] = Exited]
    /\ UNCHANGED <<current, pc, on, queue, active, pending, closing, input, output,
                   sent, written, broker>>

\* Unless the line that settles it, or the timer, came at the last moment.
SettlesLate(k) ==
    /\ phase[k] = "lost"
    /\ Cut(k)
    /\ UNCHANGED <<on, aborted, active, output, sent, written, broker>>

-----------------------------------------------------------------------------
(* KernelManager *)

\* get: the kernel of the session is used as it is, ready, closing or closed.
Enter(c, more) ==
    /\ pc[c] = "idle"
    /\ IF current = None
       THEN Goto(c, "make") /\ UNCHANGED <<on, queue>>
       ELSE /\ Goto(c, "lock")
            /\ on' = [on EXCEPT ![c] = current]
            /\ queue' = [queue EXCEPT ![current] = Append(@, c)]
    /\ UNCHANGED <<current, aborted, client, process>>
    /\ more

Execute(c) == Enter(c, UNCHANGED broker)

\* A host request that is python.execute comes back to the same manager.
Reenter(c, i, d) ==
    /\ served[c][i] = "working" /\ nested[c][i] = None /\ c # d
    /\ Enter(d, /\ nested' = [nested EXCEPT ![c][i] = d]
                /\ UNCHANGED <<counted, served, echoes, invoked>>)

\* After the directories were made: the entry is set, whatever it is by now.
Make(c) ==
    /\ pc[c] = "make"
    /\ Goto(c, "start")
    /\ on' = [on EXCEPT ![c] = c]
    /\ current' = c
    /\ phase' = [phase EXCEPT ![c] = "starting"]
    /\ UNCHANGED <<queue, aborted, active, pending, closing, process, broker>>

MakeFails(c) ==
    /\ pc[c] = "make"
    /\ Goto(c, "cut")
    /\ UNCHANGED <<current, on, queue, aborted, client, process, broker>>

Start(k) ==
    /\ phase[k] = "starting"
    /\ phase' = [phase EXCEPT ![k] = "ready"]
    /\ UNCHANGED <<manager, active, pending, closing, process, broker>>

Restore(c) ==
    /\ pc[c] = "start" /\ phase[c] = "ready"
    /\ Goto(c, "restore")
    /\ Post(c, "restore", c)
    /\ UNCHANGED <<current, on, queue, aborted, phase, active, closing,
                   output, python, sent, written, broker>>

\* runExclusive and execute, until the client has started.
Begin(c) ==
    /\ pc[c] = "lock" /\ Head(queue[on[c]]) = c
    /\ Goto(c, "begin")
    /\ active' = [active EXCEPT ![on[c]] = c]
    /\ UNCHANGED <<current, on, queue, aborted, phase, pending, closing,
                   process, broker>>

\* The mutex is released when the call ends, and not before.
Leave(c, place) ==
    /\ Goto(c, place)
    /\ queue' = [queue EXCEPT ![on[c]] = Tail(@)]

Send(c) ==
    /\ pc[c] = "begin" /\ phase[on[c]] = "ready" /\ ~aborted[c]
    /\ Goto(c, "execute")
    /\ Post(on[c], "execute", c)
    /\ UNCHANGED <<current, on, queue, aborted, phase, active, closing,
                   output, python, sent, written, broker>>

SendAborted(c) == /\ pc[c] = "begin" /\ phase[on[c]] = "ready" /\ aborted[c]
                  /\ Terminates(on[c], {})

\* The kernel was found closed: the entry is deleted, whichever it names.
SendFails(c) ==
    /\ pc[c] = "begin" /\ phase[on[c]] \in {"shut", "closed"}
    /\ Leave(c, "cut")
    /\ current' = None
    /\ UNCHANGED <<on, aborted, client, process, broker>>

\* The turn of a call that holds the mutex is cancelled.  A call that is still
\* waiting for it adds its listener later, to a signal that is aborted already,
\* and never hears of it: nothing changes.
Cancel(c) ==
    /\ pc[c] \in Holding /\ ~aborted[c]
    /\ IF pc[c] = "execute"
       THEN Terminate(on[c], {<<"execute", c>>})
       ELSE /\ aborted' = [aborted EXCEPT ![c] = TRUE]
            /\ UNCHANGED <<current, pc, queue, client, input, python>>
    /\ UNCHANGED <<on, output, sent, written, broker>>

\* close(sessionId)
Close ==
    /\ current # None
    /\ IsOpen(current) => "session" \notin closing[current]
    /\ IF IsOpen(current)
       THEN closing' = [closing EXCEPT ![current] = @ \cup {"session"}] /\ UNCHANGED current
       ELSE current' = None /\ UNCHANGED closing
    /\ UNCHANGED <<pc, on, queue, aborted, phase, active, pending, process, broker>>

PostShutdown(k) ==
    /\ closing[k] # {} /\ phase[k] = "ready" /\ <<"shutdown", k>> \notin pending[k]
    /\ Post(k, "shutdown", k)
    /\ UNCHANGED <<manager, phase, active, closing, output, python, sent, written, broker>>

-----------------------------------------------------------------------------
(* kernel_server.py *)

Alive(k) == phase[k] \in {"ready", "shut"} /\ python[k].run # "exited"
Say(k, frame) == output' = [output EXCEPT ![k] = Append(@, frame)]

\* main: the next line of stdin, when no code runs.
Take(k, kind) ==
    /\ Alive(k) /\ python[k].run = None
    /\ input[k] # <<>> /\ Head(input[k]).kind = kind
    /\ input' = [input EXCEPT ![k] = Tail(@)]
    /\ UNCHANGED <<sent, written, manager, client, broker>>

Run(k) == /\ Take(k, "execute")
          /\ python' = [python EXCEPT ![k].run = Head(input[k]).call]
          /\ UNCHANGED output

\* The file may be unreadable, or impossible to write.
SaveOrLoad(k) ==
    /\ Take(k, "restore") \/ Take(k, "snapshot")
    /\ \E ok \in {0, 1} : Say(k, Frame(Head(input[k]).kind, Head(input[k]).call, ok))
    /\ UNCHANGED python

Bye(k) == /\ Take(k, "shutdown")
          /\ Say(k, Frame("shutdown", k, 1))
          /\ python' = [python EXCEPT ![k] = Exited]

\* A response nobody waits for is an unknown frame; the error names no request.
Unknown(k) == Take(k, "host_response") /\ UNCHANGED <<python, output>>

\* haf.call
Ask(k) ==
    /\ Alive(k) /\ python[k].run \in Calls /\ python[k].wait = 0
    /\ written < MaxWritten
    /\ written' = written + 1
    /\ LET c == python[k].run IN
         /\ sent' = [sent EXCEPT ![c] = @ + 1]
         /\ python' = [python EXCEPT ![k].wait = sent'[c]]
         /\ Say(k, Frame("host_request", c, sent'[c]))
    /\ UNCHANGED <<input, manager, client, broker>>

\* The line it reads is its response, or the call raises; either way the line
\* is gone and the code goes on, if only to an end.
Read(k) ==
    /\ Alive(k) /\ python[k].wait # 0 /\ input[k] # <<>>
    /\ input' = [input EXCEPT ![k] = Tail(@)]
    /\ python' = [python EXCEPT ![k].wait = 0]
    /\ UNCHANGED <<output, sent, written, manager, client, broker>>

Finish(k) ==
    /\ Alive(k) /\ python[k].run \in Calls /\ python[k].wait = 0
    /\ python' = [python EXCEPT ![k] = Idle]
    /\ \E ok \in {0, 1} : Say(k, Frame("execute", python[k].run, ok))
    /\ UNCHANGED <<input, sent, written, manager, client, broker>>

\* Code that kept the token writes a request again, of its execution or later.
Repeat(k) ==
    /\ Alive(k) /\ written < MaxWritten
    /\ written' = written + 1
    /\ \E c \in {d \in Calls : on[d] = k}, i \in Requests :
         i <= sent[c] /\ Say(k, Frame("host_request", c, i))
    /\ UNCHANGED <<input, python, sent, manager, client, broker>>

-----------------------------------------------------------------------------
(* KernelClient.handleLine *)

Line(k, kind) == /\ output[k] # <<>> /\ Head(output[k]).kind = kind
                 /\ output' = [output EXCEPT ![k] = Tail(@)]

Result(k, kind) == /\ Line(k, kind)
                   /\ <<kind, Head(output[k]).call>> \in pending[k]
                   /\ UNCHANGED <<on, aborted, python, sent, written, broker>>

Answered(k, kind) == pending' = [pending EXCEPT ![k] = @ \ {<<kind, Head(output[k]).call>>}]

Succeeded(k) == Head(output[k]).n = 1

\* A result of what is no longer pending never revives it.
LateResult(k) ==
    /\ \E kind \in Kinds : Line(k, kind) /\ <<kind, Head(output[k]).call>> \notin pending[k]
    /\ UNCHANGED <<manager, client, input, python, sent, written, broker>>

Restored(k) ==
    /\ Result(k, "restore") /\ Succeeded(k) /\ Answered(k, "restore")
    /\ Goto(k, "lock")
    /\ queue' = [queue EXCEPT ![k] = Append(@, k)]
    /\ UNCHANGED <<current, phase, active, closing, input>>

RestoreFails(k) ==
    /\ Result(k, "restore") /\ ~Succeeded(k) /\ Answered(k, "restore")
    /\ Goto(k, "abandon")
    /\ current' = None
    /\ closing' = [closing EXCEPT ![k] = @ \cup {"builder"}]
    /\ UNCHANGED <<queue, phase, active, input>>

\* The execution is over; the mutex is held until its snapshot is written.
Executed(k) ==
    /\ Result(k, "execute") /\ Succeeded(k)
    /\ LET c == Head(output[k]).call IN
         /\ Goto(c, "snapshot")
         /\ pending' = [pending EXCEPT ![k] = (@ \ {<<"execute", c>>}) \cup {<<"snapshot", c>>}]
         /\ input' = [input EXCEPT ![k] = Append(@, Frame("snapshot", c, 0))]
    /\ active' = [active EXCEPT ![k] = None]
    /\ UNCHANGED <<current, queue, phase, closing>>

\* Mutant: the mutex stays locked after an error.
ExecutionFailsLocked(k) ==
    /\ Result(k, "execute") /\ ~Succeeded(k) /\ Answered(k, "execute")
    /\ Goto(Head(output[k]).call, "done")
    /\ active' = [active EXCEPT ![k] = None]
    /\ UNCHANGED <<current, queue, phase, closing, input>>

ExecutionFails(k) ==
    /\ Result(k, "execute") /\ ~Succeeded(k) /\ Answered(k, "execute")
    /\ Leave(Head(output[k]).call, "done")
    /\ active' = [active EXCEPT ![k] = None]
    /\ UNCHANGED <<current, phase, closing, input>>

Saved(k) ==
    /\ Result(k, "snapshot") /\ Answered(k, "snapshot")
    /\ Leave(Head(output[k]).call, "done")
    /\ UNCHANGED <<current, phase, active, closing, input>>

\* close() goes on; what else is pending is rejected when the process exits.
ShutDown(k) ==
    /\ Result(k, "shutdown") /\ Answered(k, "shutdown")
    /\ phase' = [phase EXCEPT ![k] = "shut"]
    /\ closing' = [closing EXCEPT ![k] = {}]
    /\ current' = IF "session" \in closing[k] THEN None ELSE current
    /\ pc' = [pc EXCEPT ![k] = IF @ = "abandon" THEN "cut" ELSE @]
    /\ UNCHANGED <<queue, active, input>>

-----------------------------------------------------------------------------
(* KernelClient.handleHostRequest *)

\* Mutant: that the execution is active is enough.
ActiveExecution(k, c) == active[k] = c

\* Active and still waited for.
Current(k, c) == active[k] = c /\ <<"execute", c>> \in pending[k]

\* safeWrite, once for everyone who waits for the response.
Respond(k, c, i, times) ==
    input' = IF IsOpen(k)
             THEN [input EXCEPT ![k] = @ \o [n \in 1..times |-> Frame("host_response", c, i)]]
             ELSE input

HostRequest(k, c, i) == /\ Line(k, "host_request")
                        /\ c = Head(output[k]).call /\ i = Head(output[k]).n
                        /\ UNCHANGED <<manager, client, python, sent, written>>

Refuse(k, c, i) ==
    /\ HostRequest(k, c, i) /\ ~Current(k, c)
    /\ Respond(k, c, i, 1)
    /\ UNCHANGED broker

\* The promise is cached, and settled or not.
Join(k, c, i) ==
    /\ HostRequest(k, c, i) /\ Current(k, c) /\ served[c][i] # "new"
    /\ IF served[c][i] = "answered"
       THEN Respond(k, c, i, 1) /\ UNCHANGED echoes
       ELSE echoes' = [echoes EXCEPT ![c][i] = @ + 1] /\ UNCHANGED input
    /\ UNCHANGED <<counted, served, nested, invoked>>

Invoke(k, c, i) ==
    /\ HostRequest(k, c, i) /\ Current(k, c) /\ served[c][i] = "new"
    /\ counted' = [counted EXCEPT ![c] = @ + 1]
    /\ IF counted'[c] > MaxRequests
       THEN Respond(k, c, i, 1) /\ UNCHANGED <<served, invoked>>
       ELSE /\ served' = [served EXCEPT ![c][i] = "working"]
            /\ invoked' = [invoked EXCEPT ![c][i] = @ + 1]
            /\ UNCHANGED input
    /\ UNCHANGED <<echoes, nested>>

\* The broker answers, after the nested call if there is one.
Answer(c, i) ==
    /\ served[c][i] = "working"
    /\ nested[c][i] # None => pc[nested[c][i]] \in Ended
    /\ served' = [served EXCEPT ![c][i] = "answered"]
    /\ Respond(on[c], c, i, 1 + echoes[c][i])
    /\ UNCHANGED <<manager, client, output, python, sent, written, counted, echoes, nested, invoked>>

-----------------------------------------------------------------------------

Call(c) == \/ Execute(c) \/ Make(c) \/ MakeFails(c) \/ Restore(c) \/ Begin(c)
           \/ Send(c) \/ SendAborted(c) \/ SendFails(c) \/ Cancel(c)

Python(k) == Run(k) \/ SaveOrLoad(k) \/ Bye(k) \/ Unknown(k) \/ Ask(k) \/ Read(k)
             \/ Finish(k) \/ Repeat(k)

Results(k) == LateResult(k) \/ Restored(k) \/ RestoreFails(k) \/ Executed(k)
              \/ ExecutionFails(k) \/ Saved(k) \/ ShutDown(k)

Hosts(k) == \E c \in Calls, i \in Requests : Refuse(k, c, i) \/ Join(k, c, i) \/ Invoke(k, c, i)

Next == \/ \E c \in Calls : Call(c)
        \/ \E k \in Calls : Start(k) \/ PostShutdown(k) \/ TimeOut(k) \/ Dies(k)
                            \/ ExitsUnready(k) \/ SettlesLate(k)
                            \/ Python(k) \/ Results(k) \/ Hosts(k)
        \/ \E c, d \in Calls, i \in Requests : Reenter(c, i, d)
        \/ \E c \in Calls, i \in Requests : Answer(c, i)
        \/ Close

Spec == Init /\ [][Next]_vars

\* Promises continue and timers fire; neither Python nor the broker has to
\* answer, nobody has to call, and no late line has to come.
Fairness == \A c \in Calls :
    /\ WF_vars(Make(c)) /\ WF_vars(Restore(c)) /\ WF_vars(Begin(c))
    /\ WF_vars(Send(c)) /\ WF_vars(SendAborted(c)) /\ WF_vars(SendFails(c))
    /\ WF_vars(PostShutdown(c)) /\ WF_vars(TimeOut(c))

FairSpec == Spec /\ Fairness

-----------------------------------------------------------------------------
(* Properties *)

\* A host request reaches the broker once, and only while the code of its own
\* call runs: it holds the mutex, its controller is not aborted, and its process
\* was not replaced by a timeout, a cancellation or an exit.
RequestsAreCurrent ==
    [][\A c \in Calls, i \in Requests : invoked'[c][i] # invoked[c][i] =>
          /\ invoked[c][i] = 0 /\ pc[c] = "execute" /\ ~aborted[c]
          /\ phase[on[c]] = "ready" /\ Head(queue[on[c]]) = c]_vars

\* The work that an execution's host requests started at the broker is aborted
\* when the execution's kernel is, be it a timeout, a cancellation or an exit.
WorkIsAborted == \A c \in Calls, i \in Requests :
                    pc[c] = "cut" /\ served[c][i] = "working" => aborted[c]

\* A call ends, whether or not Python and the broker ever answer: also one that
\* waits for the mutex its own caller holds.  The exception is a call whose
\* kernel exited before it was ready: the code has nothing that ends it.
EveryCallEnds ==
    \A c \in Calls :
        pc[c] # "idle" ~> pc[c] \in Ended \/ (on[c] # None /\ phase[on[c]] = "lost")
=============================================================================
