------------------------- MODULE SessionActorProofs -------------------------
(***************************************************************************)
(* Proofs about SessionActor for every set of requests and every bound on  *)
(* the actors, the failures and the crashes.                               *)
(*                                                                         *)
(* The mutex of an actor is sound however requests overlap.  What the      *)
(* files hold is proved until a request finds no actor during an           *)
(* activation or a close (raced; two actors may work on the session from   *)
(* then on, which a run of its own shows): one actor, the one built last,  *)
(* is in step with the files, with all that is stored and no number behind *)
(* the log.                                                                *)
(***************************************************************************)
EXTENDS SessionActor, SequenceTheorems, TLAPS

\* An activation until its actor is built, and a command that holds the mutex.
Starting == {"load", "sequence", "lease", "locked", "build"}
Holding == {"announce", "open", "store"} \cup (Turn \ {"lock"})

IsBuilt(a) == actor[a].gen > 0
IsTop(a) == IsBuilt(a) /\ \A b \in Actors : b > a => ~IsBuilt(b)
Queue(a) == actor[a].queue

\* The mutex of an actor: its holder, or a command that failed and has not left
\* yet, is first; the others wait behind it, each once.
QueueInv ==
    /\ \A a \in Actors : \A i \in 1..Len(Queue(a)) :
         /\ request[Queue(a)[i]].actor = a
         /\ request[Queue(a)[i]].pc \in {"lock", "thrown"} \cup Holding
         /\ i # 1 => request[Queue(a)[i]].pc = "lock"
    /\ \A a \in Actors : \A i, j \in 1..Len(Queue(a)) : i # j => Queue(a)[i] # Queue(a)[j]
    /\ \A r \in Requests : request[r].pc \in Holding =>
         /\ request[r].actor \in Actors
         /\ Len(Queue(request[r].actor)) > 0 /\ Queue(request[r].actor)[1] = r
    /\ \A r \in Requests : request[r].pc = "lock" =>
         /\ request[r].actor \in Actors
         /\ \E i \in 1..Len(Queue(request[r].actor)) : Queue(request[r].actor)[i] = r

\* Only an actor that was built has commands or is found.
BuiltInv ==
    /\ \A a \in Actors : ~IsBuilt(a) => Len(Queue(a)) = 0
    /\ live # NoLive => IsBuilt(live)
    /\ \A r \in Requests : request[r].pc \in Starting \ {"load"} => request[r].gen > 0

MutexInv == TypeOK /\ Len(log) > 0 /\ QueueInv /\ BuiltInv

\* Actors are built in order, and only the last has commands or is found.
TopInv ==
    /\ IsBuilt(1)
    /\ \A a, b \in Actors : a < b /\ IsBuilt(b) => IsBuilt(a)
    /\ \A a \in Actors : Len(Queue(a)) > 0 => IsTop(a)
    /\ live # NoLive => IsTop(live)

\* One call activates at a time, while nobody works on the session, and what it
\* has read is still what the files hold.
StartInv ==
    \A r \in Requests : request[r].pc \in Starting =>
        /\ live = NoLive /\ \A a \in Actors : Len(Queue(a)) = 0
        /\ \A s \in Requests : request[s].pc \in Starting => s = r
        /\ request[r].pc # "load" =>
             request[r].gen = snap.gen + 1 /\ request[r].messages = snap.messages
        /\ request[r].pc \in {"lease", "locked", "build"} => request[r].seq = LastEvent.seq

\* The last actor is not behind the files; without a failure, not ahead either.
FilesInv ==
    /\ \A a \in Actors : IsTop(a) =>
         /\ snap.gen <= actor[a].gen /\ actor[a].gen <= snap.gen + 1
         /\ LastEvent.gen <= actor[a].gen /\ LastEvent.seq <= actor[a].seq
         /\ ~broken => actor[a].seq = LastEvent.seq
    /\ ~broken => snap.seq <= LastEvent.seq

\* A prompt past its message event.
Answering == {"accept", "model", "answer", "settle", "save"}

\* The last actor has every message that is stored, and that of the turn it runs.
MessagesInv ==
    /\ \A a \in Actors : IsTop(a) => snap.messages \subseteq actor[a].messages
    /\ \A r \in Requests :
         request[r].kind = "prompt" /\ request[r].pc \in Answering =>
           r \in actor[request[r].actor].messages
    /\ \A r \in Requests : request[r].pc \in {"unlink", "release"} => request[r].kind = "close"

FileInv == /\ TopInv /\ StartInv /\ FilesInv /\ MessagesInv
           /\ LogOrdered /\ RefusalsExplained /\ AnswersStored

\* Once a request has raced nothing is claimed of the files.
IInv == MutexInv /\ (raced \/ FileInv)

-----------------------------------------------------------------------------
(* The mutex *)

PCs == {"new"} \cup Activating \cup Turn \cup Results

RequestSet == [pc : PCs, kind : AllKinds, actor : Actors \cup {NoLive}, gen : Nat, seq : Nat,
               messages : SUBSET Requests]

ActorSet == [gen : Nat, seq : Nat, status : Statuses, messages : SUBSET Requests,
             queue : Seq(Requests)]

\* The call has the actor's mutex, or still has it although it failed.
AtHead(r) ==
    /\ request[r].actor \in Actors
    /\ request[r].pc \in {"lock", "thrown"} \cup Holding
    /\ Len(Queue(request[r].actor)) > 0 /\ Queue(request[r].actor)[1] = r

\* Only the call r moves, to p.
Moves(r, p) ==
    \A s \in Requests :
        /\ request'[s].pc = IF s = r THEN p ELSE request[s].pc
        /\ request'[s].actor = request[s].actor /\ request'[s].kind = request[s].kind
        /\ request'[s].gen = request[s].gen /\ request'[s].seq = request[s].seq
        /\ request'[s].messages = request[s].messages

LEMMA PcTyped ==
    ASSUME NEW call \in RequestSet, NEW p \in PCs
    PROVE  [call EXCEPT !.pc = p] \in RequestSet
BY DEF RequestSet

\* What Goto does, call by call.
LEMMA GotoMoves ==
    ASSUME TypeOK, NEW r \in Requests, NEW p \in PCs, Goto(r, p)
    PROVE  Moves(r, p) /\ request' \in [Requests -> RequestSet]
<1>1. request \in [Requests -> RequestSet]
  BY DEF TypeOK, RequestSet, PCs
<1>2. request' = [request EXCEPT ![r].pc = p]
  BY DEF Goto
<1>3. Moves(r, p)
  BY <1>1, <1>2 DEF Moves, RequestSet
<1>4. \A s \in Requests : request'[s] \in RequestSet
  BY <1>1, <1>2 DEF RequestSet
<1>5. QED
  BY <1>1, <1>2, <1>3, <1>4

\* A command that works, or that is first in line, has the mutex.
LEMMA HolderIsFirst ==
    ASSUME TypeOK, QueueInv, NEW r \in Requests,
           \/ request[r].pc \in Holding
           \/ request[r].pc = "lock" /\ Head(actor[request[r].actor].queue) = r
    PROVE  AtHead(r)
<1>1. CASE request[r].pc \in Holding
  BY <1>1 DEF QueueInv, AtHead
<1>2. CASE request[r].pc = "lock" /\ Head(actor[request[r].actor].queue) = r
  <2>1. /\ request[r].actor \in Actors
        /\ \E i \in 1..Len(Queue(request[r].actor)) : Queue(request[r].actor)[i] = r
    BY <1>2 DEF QueueInv
  <2>2. Queue(request[r].actor) \in Seq(Requests)
    BY <2>1 DEF TypeOK, Queue
  <2>3. Len(Queue(request[r].actor)) > 0 /\ Queue(request[r].actor)[1] = r
    BY <1>2, <2>1, <2>2 DEF Queue
  <2>4. QED
    BY <1>2, <2>1, <2>3 DEF AtHead
<1>3. QED
  BY <1>1, <1>2

\* The queues are kept by a step of the holder that does not leave the mutex.
LEMMA KeepsQueues ==
    ASSUME TypeOK, QueueInv, NEW r \in Requests, AtHead(r),
           NEW p \in Holding \cup {"thrown"}, Moves(r, p),
           \A a \in Actors : Queue(a)' = Queue(a)
    PROVE  QueueInv'
<1>1. \A a \in Actors : Queue(a) \in Seq(Requests)
  BY DEF TypeOK, Queue
<1>2. \A a \in Actors : \A i \in 1..Len(Queue(a)) : Queue(a)[i] \in Requests
  BY <1>1
<1>3. \A a \in Actors : \A i \in 1..Len(Queue(a)) : Queue(a)[i] = r => a = request[r].actor /\ i = 1
  BY <1>2, <1>1 DEF QueueInv, AtHead
<1>4. \A a \in Actors : \A i \in 1..Len(Queue(a)) :
         /\ request'[Queue(a)[i]].actor = a
         /\ request'[Queue(a)[i]].pc \in {"lock", "thrown"} \cup Holding
         /\ i # 1 => request'[Queue(a)[i]].pc = "lock"
  BY <1>2, <1>3 DEF QueueInv, Moves
<1>5. \A s \in Requests : request'[s].pc \in Holding =>
         /\ request'[s].actor \in Actors
         /\ Len(Queue(request'[s].actor)) > 0 /\ Queue(request'[s].actor)[1] = s
  BY DEF QueueInv, Moves, AtHead
<1>6. \A s \in Requests : request'[s].pc = "lock" =>
         /\ request'[s].actor \in Actors
         /\ \E i \in 1..Len(Queue(request'[s].actor)) : Queue(request'[s].actor)[i] = s
  BY DEF QueueInv, Moves, Holding
<1>7. QED
  BY <1>4, <1>5, <1>6 DEF QueueInv

\* They are kept when the holder leaves.
LEMMA LeavesQueue ==
    ASSUME TypeOK, QueueInv, NEW r \in Requests, AtHead(r),
           NEW p \in Results, Moves(r, p),
           \A a \in Actors :
               Queue(a)' = IF a = request[r].actor THEN Tail(Queue(a)) ELSE Queue(a)
    PROVE  QueueInv'
<1>1. \A a \in Actors : Queue(a) \in Seq(Requests)
  BY DEF TypeOK, Queue
<1>2. \A a \in Actors : \A i \in 1..Len(Queue(a)) : Queue(a)[i] \in Requests
  BY <1>1
<1>3. PICK b \in Actors : b = request[r].actor
  BY DEF AtHead
<1>4. PICK T : T = Tail(Queue(b))
  OBVIOUS
<1>5. \A a \in Actors : \A i \in 1..Len(Queue(a)) : Queue(a)[i] = r => a = b /\ i = 1
  BY <1>1, <1>2, <1>3 DEF QueueInv, AtHead
<1>6. /\ Queue(b) \in Seq(Requests) /\ Len(Queue(b)) > 0
      /\ T \in Seq(Requests) /\ Len(T) = Len(Queue(b)) - 1
      /\ \A i \in 1..Len(T) : T[i] = Queue(b)[i + 1]
  <2>1. Queue(b) \in Seq(Requests) /\ Len(Queue(b)) > 0
    BY <1>1, <1>3 DEF AtHead
  <2>2. Queue(b) # <<>>
    BY <2>1
  <2>3. QED
    BY <2>1, <2>2, <1>4, HeadTailProperties
<1>7. Queue(b)' = T
  BY <1>3, <1>4
<1>8. \A a \in Actors : a # b => Queue(a)' = Queue(a)
  BY <1>3
<1>9. \A i \in 1..Len(T) : i + 1 \in 1..Len(Queue(b)) /\ i + 1 # 1
  BY <1>6
<1>10. \A i \in 1..Len(T) : T[i] \in Requests /\ T[i] # r /\ request[T[i]].actor = b
                            /\ request[T[i]].pc = "lock"
  <2>1. SUFFICES ASSUME NEW i \in 1..Len(T)
                 PROVE  /\ T[i] \in Requests /\ T[i] # r /\ request[T[i]].actor = b
                        /\ request[T[i]].pc = "lock"
    OBVIOUS
  <2>2. PICK k \in 1..Len(Queue(b)) : k = i + 1 /\ k # 1
    BY <1>9
  <2>3. T[i] = Queue(b)[k]
    BY <1>6, <2>2
  <2>4. Queue(b)[k] \in Requests /\ Queue(b)[k] # r
    BY <1>2, <1>5, <2>2
  <2>5. request[Queue(b)[k]].actor = b /\ request[Queue(b)[k]].pc = "lock"
    BY <2>2 DEF QueueInv
  <2>6. QED
    BY <2>3, <2>4, <2>5
<1>11. \A i, j \in 1..Len(T) : i # j => T[i] # T[j]
  <2>1. SUFFICES ASSUME NEW i \in 1..Len(T), NEW j \in 1..Len(T), i # j
                 PROVE  T[i] # T[j]
    OBVIOUS
  <2>2. i + 1 # j + 1 /\ i + 1 \in 1..Len(Queue(b)) /\ j + 1 \in 1..Len(Queue(b))
    BY <2>1, <1>9, <1>6
  <2>3. Queue(b)[i + 1] # Queue(b)[j + 1]
    BY <2>2 DEF QueueInv
  <2>4. QED
    BY <2>3, <1>6
<1>12. \A a \in Actors : \A i \in 1..Len(Queue(a)') :
         /\ request'[Queue(a)'[i]].actor = a
         /\ request'[Queue(a)'[i]].pc \in {"lock", "thrown"} \cup Holding
         /\ i # 1 => request'[Queue(a)'[i]].pc = "lock"
  <2>1. SUFFICES ASSUME NEW a \in Actors, NEW i \in 1..Len(Queue(a)')
                 PROVE  /\ request'[Queue(a)'[i]].actor = a
                        /\ request'[Queue(a)'[i]].pc \in {"lock", "thrown"} \cup Holding
                        /\ i # 1 => request'[Queue(a)'[i]].pc = "lock"
    OBVIOUS
  <2>2. CASE a = b
    <3>1. i \in 1..Len(T) /\ Queue(a)'[i] = T[i]
      BY <2>1, <2>2, <1>7
    <3>2. QED
      BY <2>2, <3>1, <1>10 DEF Moves
  <2>3. CASE a # b
    <3>1. i \in 1..Len(Queue(a)) /\ Queue(a)'[i] = Queue(a)[i]
      BY <2>1, <2>3, <1>8
    <3>2. Queue(a)[i] # r /\ Queue(a)[i] \in Requests
      BY <2>3, <3>1, <1>5, <1>2
    <3>3. QED
      BY <3>1, <3>2 DEF Moves, QueueInv
  <2>4. QED
    BY <2>2, <2>3
<1>13. \A a \in Actors : \A i, j \in 1..Len(Queue(a)') : i # j => Queue(a)'[i] # Queue(a)'[j]
  <2>1. SUFFICES ASSUME NEW a \in Actors
                 PROVE  \A i, j \in 1..Len(Queue(a)') : i # j => Queue(a)'[i] # Queue(a)'[j]
    OBVIOUS
  <2>2. CASE a = b
    BY <2>2, <1>7, <1>11
  <2>3. CASE a # b
    BY <2>3, <1>8 DEF QueueInv
  <2>4. QED
    BY <2>2, <2>3
<1>14. ASSUME NEW s \in Requests, request'[s].pc \in Holding
       PROVE  /\ request'[s].actor \in Actors
              /\ Len(actor'[request'[s].actor].queue) > 0 /\ actor'[request'[s].actor].queue[1] = s
  <2>1. s # r /\ request'[s].actor = request[s].actor /\ request[s].pc \in Holding
    BY <1>14 DEF Moves, Holding, Results, Turn
  <2>2. PICK a \in Actors : a = request[s].actor
    BY <2>1 DEF QueueInv
  <2>3. Len(Queue(a)) > 0 /\ Queue(a)[1] = s
    BY <2>1, <2>2 DEF QueueInv
  <2>4. a # b
    BY <2>1, <2>3, <1>3 DEF AtHead
  <2>5. Len(Queue(a)') > 0 /\ Queue(a)'[1] = s
    BY <2>3, <2>4, <1>8
  <2>6. QED
    BY <2>1, <2>2, <2>5 DEF Queue
<1>15. ASSUME NEW s \in Requests, request'[s].pc = "lock"
       PROVE  /\ request'[s].actor \in Actors
              /\ \E i \in 1..Len(actor'[request'[s].actor].queue) :
                    actor'[request'[s].actor].queue[i] = s
  <2>1. s # r /\ request'[s].actor = request[s].actor /\ request[s].pc = "lock"
    BY <1>15 DEF Moves, Results
  <2>2. PICK a \in Actors : a = request[s].actor
    BY <2>1 DEF QueueInv
  <2>3. PICK i \in 1..Len(Queue(a)) : Queue(a)[i] = s
    BY <2>1, <2>2 DEF QueueInv
  <2>4. \E k \in 1..Len(Queue(a)') : Queue(a)'[k] = s
    <3>1. CASE a # b
      BY <3>1, <2>3, <1>8
    <3>2. CASE a = b
      <4>1. i # 1
        BY <2>1, <2>3, <3>2, <1>3 DEF AtHead
      <4>2. i - 1 \in 1..Len(T) /\ T[i - 1] = s
        <5>1. i - 1 \in 1..Len(T) /\ (i - 1) + 1 = i
          BY <4>1, <2>3, <3>2, <1>6
        <5>2. T[i - 1] = Queue(b)[(i - 1) + 1]
          BY <5>1, <1>6
        <5>3. QED
          BY <5>1, <5>2, <2>3, <3>2
      <4>3. QED
        BY <3>2, <4>2, <1>7
    <3>3. QED
      BY <3>1, <3>2
  <2>5. QED
    BY <2>1, <2>2, <2>4 DEF Queue
<1>16. QED
  BY <1>12, <1>13, <1>14, <1>15 DEF QueueInv, Queue

\* The call r, in no queue, enters b's, whose commands are U without it: it waits
\* at the end, or works at once if nobody else is there.
Enters(r, b, U) ==
    /\ request'[r].actor = b /\ request'[r].pc \in {"lock"} \cup Holding
    /\ request'[r].pc # "lock" => Len(U) = 0
    /\ \A s \in Requests : s # r =>
           request'[s].pc = request[s].pc /\ request'[s].actor = request[s].actor
    /\ actor'[b].queue \in Seq(Requests)
    /\ Len(actor'[b].queue) = Len(U) + 1 /\ actor'[b].queue[Len(U) + 1] = r
    /\ \A i \in 1..Len(U) :
           /\ actor'[b].queue[i] = U[i] /\ U[i] # r /\ request[U[i]].actor = b
           /\ request[U[i]].pc \in {"lock", "thrown"} \cup Holding
           /\ i # 1 => request[U[i]].pc = "lock"
    /\ \A i, j \in 1..Len(U) : i # j => U[i] # U[j]
    /\ \A s \in Requests : s # r /\ request[s].actor = b =>
           /\ request[s].pc = "lock" => \E i \in 1..Len(U) : U[i] = s
           /\ request[s].pc \in Holding => Len(U) > 0 /\ U[1] = s
    /\ \A a \in Actors : a # b =>
           /\ actor'[a].queue = Queue(a)
           /\ \A i \in 1..Len(Queue(a)) : Queue(a)[i] # r

LEMMA EntersQueue ==
    ASSUME TypeOK, QueueInv, NEW r \in Requests, NEW b \in Actors, NEW U \in Seq(Requests),
           Enters(r, b, U)
    PROVE  QueueInv'
<1>1. \A a \in Actors : Queue(a) \in Seq(Requests)
  BY DEF TypeOK, Queue
<1>2. \A a \in Actors : \A i \in 1..Len(Queue(a)) : Queue(a)[i] \in Requests
  BY <1>1
<1>3. PICK W \in Seq(Requests) : W = actor'[b].queue
  BY DEF Enters
<1>4. PICK p \in {"lock"} \cup Holding : p = request'[r].pc
  BY DEF Enters
<1>5. /\ Len(U) \in Nat /\ Len(W) \in Nat
      /\ \A i \in 1..Len(U) : U[i] \in Requests
      /\ Len(W) = Len(U) + 1 /\ W[Len(U) + 1] = r /\ (p # "lock" => Len(U) = 0)
      /\ \A i \in 1..Len(U) : W[i] = U[i]
      /\ \A i \in 1..Len(W) : i = Len(U) + 1 \/ i \in 1..Len(U)
  <2>1. Len(U) \in Nat /\ Len(W) \in Nat /\ \A i \in 1..Len(U) : U[i] \in Requests
    BY <1>3
  <2>2. /\ Len(W) = Len(U) + 1 /\ W[Len(U) + 1] = r /\ (p # "lock" => Len(U) = 0)
        /\ \A i \in 1..Len(U) : W[i] = U[i]
    BY <1>3, <1>4 DEF Enters
  <2>3. \A i \in 1..Len(W) : i = Len(U) + 1 \/ i \in 1..Len(U)
    BY <2>1, <2>2
  <2>4. QED
    BY <2>1, <2>2, <2>3
<1>6. /\ request'[r].pc = p /\ request'[r].actor = b
      /\ \A s \in Requests : s # r =>
             request'[s].pc = request[s].pc /\ request'[s].actor = request[s].actor
  BY <1>4 DEF Enters
<1>7. Queue(b)' = W /\ \A a \in Actors : a # b =>
        Queue(a)' = Queue(a) /\ \A i \in 1..Len(Queue(a)) : Queue(a)[i] # r
  BY <1>3 DEF Enters, Queue
<1>8. \A i \in 1..Len(U) :
           /\ U[i] # r /\ request[U[i]].actor = b
           /\ request[U[i]].pc \in {"lock", "thrown"} \cup Holding
           /\ i # 1 => request[U[i]].pc = "lock"
  BY DEF Enters
<1>9. \A i, j \in 1..Len(U) : i # j => U[i] # U[j]
  BY DEF Enters
<1>10. \A s \in Requests : s # r /\ request[s].actor = b =>
           /\ request[s].pc = "lock" => \E i \in 1..Len(U) : U[i] = s
           /\ request[s].pc \in Holding => Len(U) > 0 /\ U[1] = s
  BY DEF Enters
<1>11. ASSUME NEW a \in Actors, NEW i \in 1..Len(Queue(a)')
       PROVE  /\ request'[Queue(a)'[i]].actor = a
              /\ request'[Queue(a)'[i]].pc \in {"lock", "thrown"} \cup Holding
              /\ i # 1 => request'[Queue(a)'[i]].pc = "lock"
  <2>1. CASE a # b
    <3>1. i \in 1..Len(Queue(a)) /\ Queue(a)'[i] = Queue(a)[i]
      BY <2>1, <1>7, <1>11
    <3>2. Queue(a)[i] # r /\ Queue(a)[i] \in Requests
      BY <2>1, <3>1, <1>2, <1>7
    <3>3. QED
      BY <3>1, <3>2, <1>6 DEF QueueInv
  <2>2. CASE a = b /\ i \in 1..Len(U)
    <3>1. Queue(a)'[i] = U[i] /\ U[i] \in Requests /\ U[i] # r
      BY <2>2, <1>5, <1>7, <1>8
    <3>2. QED
      BY <2>2, <3>1, <1>6, <1>8
  <2>3. CASE a = b /\ i = Len(U) + 1
    <3>1. Queue(a)'[i] = r
      BY <2>3, <1>5, <1>7
    <3>2. i # 1 => p = "lock"
      BY <2>3, <1>5
    <3>3. p \in {"lock", "thrown"} \cup Holding
      BY <1>4
    <3>4. QED
      BY <2>3, <3>1, <3>2, <3>3, <1>6
  <2>4. QED
    BY <2>1, <2>2, <2>3, <1>5, <1>7, <1>11
<1>12. ASSUME NEW a \in Actors, NEW i \in 1..Len(Queue(a)'), NEW j \in 1..Len(Queue(a)'), i # j
       PROVE  Queue(a)'[i] # Queue(a)'[j]
  <2>1. CASE a # b
    BY <2>1, <1>7, <1>12 DEF QueueInv
  <2>2. CASE a = b
    <3>1. W[i] # W[j]
      BY <2>2, <1>5, <1>7, <1>8, <1>9, <1>12
    <3>2. QED
      BY <2>2, <3>1, <1>7
  <2>3. QED
    BY <2>1, <2>2
<1>13. ASSUME NEW s \in Requests, request'[s].pc \in Holding
       PROVE  /\ request'[s].actor \in Actors
              /\ Len(actor'[request'[s].actor].queue) > 0 /\ actor'[request'[s].actor].queue[1] = s
  <2>1. CASE s = r
    <3>1. p # "lock"
      BY <1>6, <1>13, <2>1 DEF Holding, Turn
    <3>2. Len(W) = 1 /\ W[1] = r
      BY <3>1, <1>5
    <3>3. QED
      BY <2>1, <3>2, <1>3, <1>6
  <2>2. CASE s # r /\ request[s].actor = b
    <3>1. Len(U) > 0 /\ U[1] = s
      BY <1>6, <1>10, <1>13, <2>2
    <3>2. Len(W) > 0 /\ W[1] = s
      BY <3>1, <1>5
    <3>3. QED
      BY <2>2, <3>2, <1>3, <1>6
  <2>3. CASE s # r /\ request[s].actor # b
    <3>1. PICK a \in Actors : a = request[s].actor
      BY <2>3, <1>6, <1>13 DEF QueueInv
    <3>2. Len(Queue(a)) > 0 /\ Queue(a)[1] = s
      BY <2>3, <1>6, <1>13, <3>1 DEF QueueInv
    <3>3. Len(Queue(a)') > 0 /\ Queue(a)'[1] = s
      BY <3>1, <3>2, <2>3, <1>7
    <3>4. QED
      BY <2>3, <3>1, <3>3, <1>6 DEF Queue
  <2>4. QED
    BY <2>1, <2>2, <2>3
<1>14. ASSUME NEW s \in Requests, request'[s].pc = "lock"
       PROVE  /\ request'[s].actor \in Actors
              /\ \E i \in 1..Len(actor'[request'[s].actor].queue) :
                    actor'[request'[s].actor].queue[i] = s
  <2>1. CASE s = r
    <3>1. Len(U) + 1 \in 1..Len(W) /\ W[Len(U) + 1] = r
      BY <1>5
    <3>2. QED
      BY <2>1, <3>1, <1>3, <1>6
  <2>2. CASE s # r /\ request[s].actor = b
    <3>1. PICK i \in 1..Len(U) : U[i] = s
      BY <1>6, <1>10, <1>14, <2>2
    <3>2. i \in 1..Len(W) /\ W[i] = s
      BY <3>1, <1>5
    <3>3. QED
      BY <2>2, <3>2, <1>3, <1>6
  <2>3. CASE s # r /\ request[s].actor # b
    <3>1. PICK a \in Actors : a = request[s].actor
      BY <2>3, <1>6, <1>14 DEF QueueInv
    <3>2. PICK i \in 1..Len(Queue(a)) : Queue(a)[i] = s
      BY <2>3, <1>6, <1>14, <3>1 DEF QueueInv
    <3>3. \E k \in 1..Len(Queue(a)') : Queue(a)'[k] = s
      BY <3>1, <3>2, <2>3, <1>7
    <3>4. QED
      BY <2>3, <3>1, <3>3, <1>6 DEF Queue
  <2>4. QED
    BY <2>1, <2>2, <2>3
<1>15. QED
  BY <1>11, <1>12, <1>13, <1>14 DEF QueueInv, Queue

-----------------------------------------------------------------------------
(* Steps of the holder *)

EventSet == [gen : Nat, seq : Nat, status : Statuses, message : Requests \cup {None}]

SnapSet == [gen : Nat, seq : Nat, status : Statuses, messages : SUBSET Requests]

FilesTyped == /\ log \in Seq(EventSet) /\ Len(log) > 0 /\ snap \in SnapSet
              /\ refused \in BOOLEAN /\ broken \in BOOLEAN /\ faults \in 0..MaxFaults

RestTyped == live \in Actors \cup {NoLive} /\ lease \in {"free", "locking", "owned"}
             /\ crashes \in 0..MaxCrashes /\ raced \in BOOLEAN

LEMMA TypesSplit ==
    TypeOK /\ Len(log) > 0 <=>
        /\ request \in [Requests -> RequestSet] /\ actor \in [Actors -> ActorSet]
        /\ FilesTyped /\ RestTyped
BY DEF TypeOK, RequestSet, ActorSet, PCs, FilesTyped, RestTyped, EventSet, SnapSet

\* The actors have the same queues and generations.
SameQueues == \A a \in Actors : Queue(a)' = Queue(a) /\ actor'[a].gen = actor[a].gen

\* A failed append or save is within the bound.
LEMMA FaultsBounded ==
    ASSUME FilesTyped, IoError
    PROVE  faults' \in 0..MaxFaults
BY BoundsAssumption DEF FilesTyped, IoError

LEMMA AppendTyped ==
    ASSUME NEW S, NEW q \in Seq(S), NEW e \in S
    PROVE  /\ Append(q, e) \in Seq(S) /\ Len(Append(q, e)) = Len(q) + 1
           /\ Append(q, e)[Len(q) + 1] = e
           /\ \A i \in 1..Len(q) : Append(q, e)[i] = q[i]
OBVIOUS

LEMMA StoredTyped ==
    ASSUME TypeOK, NEW a \in Actors
    PROVE  Stored(a) \in SnapSet
BY DEF TypeOK, Stored, SnapSet

\* What Emit does to the actor and to the types.
LEMMA EmitEffect ==
    ASSUME TypeOK, Len(log) > 0, NEW r \in Requests, NEW a \in Actors, NEW status \in Statuses,
           NEW message \in Requests \cup {None}, NEW next \in PCs, NEW catch \in PCs,
           Emit(r, a, status, message, next, catch)
    PROVE  /\ request' \in [Requests -> RequestSet] /\ (Moves(r, next) \/ Moves(r, catch))
           /\ actor' \in [Actors -> ActorSet] /\ SameQueues
           /\ \A b \in Actors : b # a => actor'[b] = actor[b]
           /\ actor'[a].seq = actor[a].seq + 1
           /\ actor'[a].messages = actor[a].messages \cup ({message} \ {None})
           /\ FilesTyped' /\ snap' = snap
<1>1. actor \in [Actors -> ActorSet] /\ FilesTyped
  BY TypesSplit
<1>2. actor' = [actor EXCEPT ![a].seq = actor[a].seq + 1, ![a].status = status,
                             ![a].messages = @ \cup ({message} \ {None})]
  BY DEF Emit
<1>3. PICK old \in ActorSet : old = actor[a]
  BY <1>1
<1>4. {message} \ {None} \subseteq Requests
  OBVIOUS
<1>5. PICK added \in SUBSET Requests : added = {message} \ {None}
  BY <1>4
<1>6. /\ old.gen \in Nat /\ old.seq \in Nat /\ old.messages \subseteq Requests
      /\ old.queue \in Seq(Requests)
  BY DEF ActorSet
<1>7. actor' = [actor EXCEPT ![a].seq = old.seq + 1, ![a].status = status,
                             ![a].messages = old.messages \cup added]
  BY <1>1, <1>2, <1>3, <1>5 DEF ActorSet
<1>8. old.seq + 1 \in Nat /\ old.messages \cup added \in SUBSET Requests
  BY <1>6
<1>9. /\ \A b \in Actors : b # a => actor'[b] = actor[b]
      /\ actor'[a].gen = old.gen /\ actor'[a].seq = old.seq + 1
      /\ actor'[a].messages = old.messages \cup added /\ actor'[a].queue = old.queue
  BY <1>1, <1>3, <1>7 DEF ActorSet
<1>10. actor' \in [Actors -> ActorSet]
  BY <1>1, <1>7, <1>8 DEF ActorSet
<1>11. SameQueues
  BY <1>3, <1>9 DEF SameQueues, Queue
<1>12. request' \in [Requests -> RequestSet] /\ (Moves(r, next) \/ Moves(r, catch))
  <2>1. Goto(r, next) \/ Goto(r, catch)
    BY DEF Emit
  <2>2. QED
    BY <2>1, GotoMoves
<1>13. snap' = snap
  BY DEF Emit
<1>14. FilesTyped'
  <2>1. PICK e : e = Event(actor[a].gen, actor[a].seq + 1, status, message)
    OBVIOUS
  <2>2. e \in EventSet
    BY <2>1, <1>3, <1>6 DEF EventSet, Event
  <2>3. log' = log \/ log' = Append(log, e)
    BY <2>1 DEF Emit
  <2>4. log' \in Seq(EventSet) /\ Len(log') > 0
    BY <2>2, <2>3, <1>1, AppendTyped DEF FilesTyped
  <2>5. refused' \in BOOLEAN /\ broken' \in BOOLEAN /\ (faults' = faults \/ IoError)
    BY <1>1 DEF Emit, FilesTyped
  <2>6. faults' \in 0..MaxFaults
    BY <2>5, <1>1, FaultsBounded DEF FilesTyped
  <2>7. QED
    BY <2>4, <2>5, <2>6, <1>1, <1>13 DEF FilesTyped
<1>15. QED
  BY <1>3, <1>5, <1>9, <1>10, <1>11, <1>12, <1>13, <1>14

\* A step of the holder that keeps the mutex keeps what is known of it.
LEMMA HolderKeepsMutex ==
    ASSUME MutexInv, NEW r \in Requests, AtHead(r),
           NEW p \in Holding \cup {"thrown"}, Moves(r, p),
           request' \in [Requests -> RequestSet], actor' \in [Actors -> ActorSet],
           SameQueues, FilesTyped', RestTyped', live' \in {live, NoLive}
    PROVE  MutexInv'
<1>1. TypeOK' /\ Len(log') > 0
  <2>1. request' \in [Requests -> RequestSet] /\ actor' \in [Actors -> ActorSet]
    OBVIOUS
  <2>2. QED
    BY <2>1 DEF TypeOK, RequestSet, ActorSet, PCs, FilesTyped, RestTyped, EventSet, SnapSet
<1>2. QueueInv'
  BY KeepsQueues DEF MutexInv, SameQueues
<1>3. BuiltInv'
  <2>1. \A a \in Actors : ~IsBuilt(a)' => Len(Queue(a)') = 0
    BY DEF MutexInv, BuiltInv, SameQueues, IsBuilt
  <2>2. live' # NoLive => actor'[live'].gen > 0
    <3>1. live # NoLive => live \in Actors /\ actor[live].gen > 0
      BY DEF MutexInv, BuiltInv, TypeOK, IsBuilt
    <3>2. QED
      BY <3>1 DEF SameQueues
  <2>3. \A s \in Requests : request'[s].pc \in Starting \ {"load"} => request'[s].gen > 0
    BY DEF MutexInv, BuiltInv, Moves, Starting, Holding, Turn
  <2>4. QED
    BY <2>1, <2>2, <2>3 DEF BuiltInv, IsBuilt
<1>4. QED
  BY <1>1, <1>2, <1>3 DEF MutexInv

\* So does one by which it leaves.
LEMMA LeaverKeepsMutex ==
    ASSUME MutexInv, NEW r \in Requests, AtHead(r), NEW p \in Results, Moves(r, p),
           request' \in [Requests -> RequestSet], Leave(r), FilesTyped', RestTyped', live' = live
    PROVE  MutexInv' /\ \A a \in Actors : actor'[a].gen = actor[a].gen
                          /\ actor'[a].seq = actor[a].seq
                          /\ actor'[a].messages = actor[a].messages
                          /\ (Len(Queue(a)') > 0 => Len(Queue(a)) > 0)
<1>1. PICK b \in Actors : b = request[r].actor
  BY DEF AtHead
<1>2. actor \in [Actors -> ActorSet] /\ actor' = [actor EXCEPT ![b].queue = Tail(@)]
  BY <1>1, TypesSplit DEF MutexInv, Leave
<1>3. Queue(b) \in Seq(Requests) /\ Len(Queue(b)) > 0
  BY <1>1, <1>2 DEF ActorSet, Queue, AtHead
<1>4. Queue(b) # <<>>
  BY <1>3
<1>5. Tail(Queue(b)) \in Seq(Requests)
  BY <1>3, <1>4, HeadTailProperties
<1>6. actor' \in [Actors -> ActorSet]
  <2>1. PICK old \in ActorSet : old = actor[b]
    BY <1>2
  <2>2. [old EXCEPT !.queue = Tail(Queue(b))] \in ActorSet
    BY <1>5 DEF ActorSet
  <2>3. actor' = [actor EXCEPT ![b] = [old EXCEPT !.queue = Tail(Queue(b))]]
    BY <1>2, <2>1 DEF Queue
  <2>4. QED
    BY <1>2, <2>2, <2>3
<1>7. /\ \A a \in Actors : Queue(a)' = IF a = b THEN Tail(Queue(a)) ELSE Queue(a)
      /\ \A a \in Actors : /\ actor'[a].gen = actor[a].gen /\ actor'[a].seq = actor[a].seq
                           /\ actor'[a].messages = actor[a].messages
  BY <1>2 DEF ActorSet, Queue
<1>8. TypeOK' /\ Len(log') > 0
  <2>1. request' \in [Requests -> RequestSet]
    OBVIOUS
  <2>2. QED
    BY <1>6, <2>1 DEF TypeOK, RequestSet, ActorSet, PCs, FilesTyped, RestTyped, EventSet, SnapSet
<1>9. QueueInv'
  BY <1>1, <1>7, LeavesQueue DEF MutexInv
<1>10. \A a \in Actors : Len(Queue(a)') > 0 => Len(Queue(a)) > 0
  BY <1>3, <1>7
<1>11. BuiltInv'
  <2>1. \A a \in Actors : ~IsBuilt(a)' => Len(Queue(a)') = 0
    <3>1. IsBuilt(b)
      BY <1>3 DEF MutexInv, BuiltInv
    <3>2. QED
      BY <3>1, <1>7 DEF MutexInv, BuiltInv, IsBuilt
  <2>2. live' # NoLive => actor'[live'].gen > 0
    <3>1. live # NoLive => live \in Actors /\ actor[live].gen > 0
      BY DEF MutexInv, BuiltInv, TypeOK, IsBuilt
    <3>2. QED
      BY <3>1, <1>7
  <2>3. \A s \in Requests : request'[s].pc \in Starting \ {"load"} => request'[s].gen > 0
    BY DEF MutexInv, BuiltInv, Moves, Starting, Results
  <2>4. QED
    BY <2>1, <2>2, <2>3 DEF BuiltInv, IsBuilt
<1>12. QED
  BY <1>7, <1>8, <1>9, <1>10, <1>11 DEF MutexInv

LEMMA EmitKeepsMutex ==
    ASSUME MutexInv, NEW r \in Requests, AtHead(r), NEW status \in Statuses,
           NEW message \in Requests \cup {None},
           NEW next \in Holding \cup {"thrown"}, NEW catch \in Holding \cup {"thrown"},
           Emit(r, request[r].actor, status, message, next, catch),
           UNCHANGED <<live, lease, history>>
    PROVE  MutexInv'
<1>1. PICK a \in Actors : a = request[r].actor
  BY DEF AtHead
<1>2. TypeOK /\ Len(log) > 0 /\ next \in PCs /\ catch \in PCs
  BY DEF MutexInv, PCs, Holding, Activating, Turn, Results
<1>3. Emit(r, a, status, message, next, catch)
  BY <1>1
<1>4. /\ request' \in [Requests -> RequestSet] /\ (Moves(r, next) \/ Moves(r, catch))
      /\ actor' \in [Actors -> ActorSet] /\ SameQueues /\ FilesTyped'
  BY <1>2, <1>3, EmitEffect
<1>5. RestTyped' /\ live' \in {live, NoLive}
  BY <1>2 DEF RestTyped, history, TypeOK
<1>6. CASE Moves(r, next)
  BY <1>4, <1>5, <1>6, HolderKeepsMutex
<1>7. CASE Moves(r, catch)
  BY <1>4, <1>5, <1>7, HolderKeepsMutex
<1>8. QED
  BY <1>4, <1>6, <1>7

\* A step of the holder that leaves the actors alone.
LEMMA GotoKeepsMutex ==
    ASSUME MutexInv, NEW r \in Requests, AtHead(r), NEW p \in Holding \cup {"thrown"},
           Goto(r, p), UNCHANGED actor, FilesTyped', RestTyped', live' \in {live, NoLive}
    PROVE  MutexInv'
<1>1. TypeOK /\ Len(log) > 0 /\ p \in PCs
  BY DEF MutexInv, PCs, Holding, Activating, Turn, Results
<1>2. Moves(r, p) /\ request' \in [Requests -> RequestSet]
  BY <1>1, GotoMoves
<1>3. actor' \in [Actors -> ActorSet] /\ SameQueues
  BY <1>1, TypesSplit DEF SameQueues, Queue
<1>4. QED
  BY <1>2, <1>3, HolderKeepsMutex

LEMMA SetStatusKeepsMutex ==
    ASSUME MutexInv, NEW r \in Requests, AtHead(r), NEW status \in Statuses,
           NEW next \in Holding \cup {"thrown"}, NEW catch \in Holding \cup {"thrown"},
           SetStatus(r, request[r].actor, status, next, catch),
           UNCHANGED <<live, lease, history>>
    PROVE  MutexInv'
<1>1. CASE Emit(r, request[r].actor, status, None, next, catch)
  BY <1>1, EmitKeepsMutex
<1>2. CASE Goto(r, next) /\ UNCHANGED <<actor, files>>
  <2>1. FilesTyped' /\ RestTyped'
    BY <1>2, TypesSplit DEF MutexInv, FilesTyped, RestTyped, history, files
  <2>2. QED
    BY <1>2, <2>1, GotoKeepsMutex
<1>3. QED
  BY <1>1, <1>2 DEF SetStatus

\* A failed append or save changes only the number of failures.
LEMMA FaultTyped ==
    ASSUME FilesTyped, IoError, UNCHANGED <<log, snap, refused, broken>>
    PROVE  FilesTyped'
BY FaultsBounded DEF FilesTyped

LEMMA CommandKeepsMutex ==
    ASSUME MutexInv, NEW r \in Requests, Command(r)
    PROVE  MutexInv'
<1>1. TypeOK /\ FilesTyped /\ RestTyped /\ request \in [Requests -> RequestSet]
  BY TypesSplit DEF MutexInv
<1>2. ASSUME NEW pc, Holds(r, pc), pc \in Holding \cup {"lock"}
      PROVE  AtHead(r)
  BY <1>2, HolderIsFirst DEF Holds, MutexInv
<1> DEFINE a == request[r].actor
<1>3. Holding = {"announce", "open", "store", "message", "accept", "model", "answer", "settle",
                 "save", "unlink", "release", "failed", "failedIdle", "failedSave"}
  BY DEF Holding, Turn
<1>4. UNCHANGED <<lease, history>> /\ live' \in {live, NoLive} => RestTyped'
  BY <1>1 DEF RestTyped, history
<1>5. UNCHANGED files => FilesTyped'
  BY <1>1 DEF FilesTyped, files
<1>6. AtHead(r) => actor[a].status \in Statuses /\ Stored(a) \in SnapSet
  BY <1>1, StoredTyped DEF AtHead, TypeOK
<1>7. snap' \in SnapSet /\ UNCHANGED <<log, refused, broken, faults>> => FilesTyped'
  BY <1>1 DEF FilesTyped
<1>10. CASE Prompt(r)
  <2>1. AtHead(r)
    BY <1>10, <1>2 DEF Prompt
  <2>2. CASE Goto(r, "failed") /\ UNCHANGED <<actor, files>>
    BY <2>1, <2>2, <1>10, <1>3, <1>4, <1>5, GotoKeepsMutex DEF Prompt
  <2>3. CASE SetStatus(r, a, "running", "message", "failed")
    BY <2>1, <2>3, <1>10, <1>3, SetStatusKeepsMutex DEF Prompt, Statuses
  <2>4. QED
    BY <2>2, <2>3, <1>10 DEF Prompt
<1>11. CASE Message(r)
  BY <1>11, <1>2, <1>3, <1>6, EmitKeepsMutex DEF Message
<1>12. CASE Accept(r)
  <2>1. AtHead(r)
    BY <1>12, <1>2, <1>3 DEF Accept
  <2>2. CASE snap' = Stored(a) /\ Goto(r, "model") /\ UNCHANGED faults
    BY <2>1, <2>2, <1>12, <1>3, <1>4, <1>6, <1>7, GotoKeepsMutex DEF Accept
  <2>3. CASE IoError /\ Goto(r, "failed") /\ UNCHANGED snap
    BY <2>1, <2>3, <1>1, <1>12, <1>3, <1>4, FaultTyped, GotoKeepsMutex DEF Accept
  <2>4. QED
    BY <2>2, <2>3, <1>12 DEF Accept
<1>13. CASE Model(r)
  <2>1. AtHead(r)
    BY <1>13, <1>2, <1>3 DEF Model
  <2>2. QED
    BY <2>1, <1>13, <1>3, <1>4, <1>5, GotoKeepsMutex DEF Model
<1>14. CASE Answer(r)
  BY <1>14, <1>2, <1>3, <1>6, EmitKeepsMutex DEF Answer
<1>15. CASE Settle(r)
  BY <1>15, <1>2, <1>3, SetStatusKeepsMutex DEF Settle, Statuses
<1>16. CASE Update(r)
  BY <1>16, <1>2, <1>3, <1>6, EmitKeepsMutex DEF Update
<1>17. CASE Pause(r)
  BY <1>17, <1>2, <1>3, SetStatusKeepsMutex DEF Pause, Statuses
<1>18. CASE Resume(r)
  BY <1>18, <1>2, <1>3, SetStatusKeepsMutex DEF Resume, Statuses
<1>19. CASE Close(r)
  BY <1>19, <1>2, <1>3, SetStatusKeepsMutex DEF Close, Statuses
<1>20. CASE Unlink(r)
  <2>1. AtHead(r)
    BY <1>20, <1>2, <1>3 DEF Unlink
  <2>2. FilesTyped'
    BY <1>1, <1>20, FaultTyped, <1>5 DEF Unlink, files
  <2>3. RestTyped' /\ live' \in {live, NoLive} /\ UNCHANGED actor
    BY <1>20, <1>4 DEF Unlink
  <2>4. Goto(r, "release") \/ Goto(r, "failed")
    BY <1>20 DEF Unlink
  <2>5. QED
    BY <2>1, <2>2, <2>3, <2>4, <1>3, GotoKeepsMutex
<1>21. CASE Release(r)
  <2>1. AtHead(r)
    BY <1>21, <1>2, <1>3 DEF Release
  <2>2. RestTyped' /\ live' = live
    BY <1>1, <1>21 DEF Release, RestTyped, history
  <2>3. QED
    BY <2>1, <2>2, <1>21, <1>3, <1>5, GotoKeepsMutex DEF Release
<1>22. CASE Save(r)
  <2>1. AtHead(r)
    BY <1>22, <1>2, <1>3 DEF Save
  <2>2. CASE snap' = Stored(a) /\ Goto(r, "completed") /\ Leave(r) /\ UNCHANGED faults
    <3>1. FilesTyped' /\ RestTyped' /\ live' = live
      BY <2>1, <2>2, <1>22, <1>4, <1>6, <1>7 DEF Save
    <3>2. Moves(r, "completed") /\ request' \in [Requests -> RequestSet]
      BY <2>2, <1>1, GotoMoves DEF PCs, Results
    <3>3. QED
      BY <2>1, <2>2, <3>1, <3>2, LeaverKeepsMutex DEF Results
  <2>3. CASE IoError /\ Goto(r, "failed") /\ UNCHANGED <<actor, snap>>
    BY <2>1, <2>3, <1>1, <1>22, <1>3, <1>4, FaultTyped, GotoKeepsMutex DEF Save
  <2>4. QED
    BY <2>2, <2>3, <1>22 DEF Save
<1>23. CASE Failed(r)
  BY <1>23, <1>2, <1>3, <1>6, EmitKeepsMutex DEF Failed
<1>24. CASE FailedIdle(r)
  <2>1. AtHead(r)
    BY <1>24, <1>2, <1>3 DEF FailedIdle
  <2>2. CASE Goto(r, "failedSave") /\ UNCHANGED <<actor, files>>
    BY <2>1, <2>2, <1>24, <1>3, <1>4, <1>5, GotoKeepsMutex DEF FailedIdle
  <2>3. CASE SetStatus(r, a, "idle", "failedSave", "thrown")
    BY <2>1, <2>3, <1>24, <1>3, SetStatusKeepsMutex DEF FailedIdle, Statuses
  <2>4. QED
    BY <2>2, <2>3, <1>24 DEF FailedIdle
<1>25. CASE FailedSave(r)
  <2>1. AtHead(r)
    BY <1>25, <1>2, <1>3 DEF FailedSave
  <2>2. FilesTyped'
    BY <2>1, <1>1, <1>25, <1>6, <1>7, FaultTyped DEF FailedSave
  <2>3. RestTyped' /\ live' = live /\ Leave(r)
    BY <1>25, <1>4 DEF FailedSave
  <2>4. PICK p \in {"rejected", "thrown"} : Goto(r, p)
    BY <1>25 DEF FailedSave
  <2>5. p \in Results /\ p \in PCs
    BY <2>4 DEF PCs, Results
  <2>6. Moves(r, p) /\ request' \in [Requests -> RequestSet]
    BY <2>4, <2>5, <1>1, GotoMoves
  <2>7. QED
    BY <2>1, <2>2, <2>3, <2>5, <2>6, LeaverKeepsMutex
<1>26. CASE Unwind(r)
  <2>1. AtHead(r)
    <3>1. actor[a].queue \in Seq(Requests) /\ a \in Actors
      BY <1>26, <1>1 DEF Unwind, TypeOK
    <3>2. QED
      BY <3>1, <1>26 DEF Unwind, AtHead, Queue
  <2>2. Moves(r, "thrown") /\ request' \in [Requests -> RequestSet]
    BY <1>26, <1>1 DEF Unwind, Moves
  <2>3. FilesTyped' /\ RestTyped' /\ live' = live
    BY <1>26, <1>4, <1>5 DEF Unwind
  <2>4. QED
    BY <2>1, <2>2, <2>3, <1>26, LeaverKeepsMutex DEF Unwind, Results
<1>30. QED
  BY <1>10, <1>11, <1>12, <1>13, <1>14, <1>15, <1>16, <1>17, <1>18, <1>19, <1>20, <1>21, <1>22,
     <1>23, <1>24, <1>25, <1>26 DEF Command

\* A call that waits nowhere does not touch the queues.
LEMMA OutsiderKeepsQueues ==
    ASSUME TypeOK, QueueInv, NEW r \in Requests, request[r].pc \in Starting \cup {"new"},
           request'[r].pc \in Starting \cup {"thrown"},
           \A s \in Requests : s # r =>
               request'[s].pc = request[s].pc /\ request'[s].actor = request[s].actor,
           \A a \in Actors : Queue(a)' = Queue(a)
    PROVE  QueueInv'
<1>1. \A a \in Actors : Queue(a) \in Seq(Requests)
  BY DEF TypeOK, Queue
<1>2. \A a \in Actors : \A i \in 1..Len(Queue(a)) : Queue(a)[i] \in Requests /\ Queue(a)[i] # r
  BY <1>1 DEF QueueInv, Starting, Holding, Turn
<1>3. \A a \in Actors : \A i \in 1..Len(Queue(a)) :
         /\ request'[Queue(a)[i]].actor = a
         /\ request'[Queue(a)[i]].pc \in {"lock", "thrown"} \cup Holding
         /\ i # 1 => request'[Queue(a)[i]].pc = "lock"
  BY <1>2 DEF QueueInv
<1>4. \A s \in Requests : request'[s].pc \in Holding \cup {"lock"} => s # r
  BY DEF Starting, Holding, Turn
<1>5. \A s \in Requests : request'[s].pc \in Holding =>
         /\ request'[s].actor \in Actors
         /\ Len(Queue(request'[s].actor)) > 0 /\ Queue(request'[s].actor)[1] = s
  BY <1>4 DEF QueueInv
<1>6. \A s \in Requests : request'[s].pc = "lock" =>
         /\ request'[s].actor \in Actors
         /\ \E i \in 1..Len(Queue(request'[s].actor)) : Queue(request'[s].actor)[i] = s
  BY <1>4 DEF QueueInv
<1>7. QED
  BY <1>3, <1>5, <1>6 DEF QueueInv

\* The steps before the actor is built change only the call and the lease.
LEMMA StarterKeepsMutex ==
    ASSUME MutexInv, NEW r \in Requests, request[r].pc \in Starting \cup {"new"},
           request' \in [Requests -> RequestSet],
           request'[r].pc \in Starting \cup {"thrown"},
           request'[r].pc \in Starting \ {"load"} => request'[r].gen > 0,
           \A s \in Requests : s # r => request'[s] = request[s],
           UNCHANGED <<live, actor, files, crashes>>, raced' \in BOOLEAN,
           lease' \in {"free", "locking", "owned"}
    PROVE  MutexInv'
<1>1. TypeOK /\ FilesTyped /\ RestTyped /\ actor \in [Actors -> ActorSet]
  BY TypesSplit DEF MutexInv
<1>2. TypeOK' /\ Len(log') > 0
  <2>1. request' \in [Requests -> RequestSet] /\ actor' \in [Actors -> ActorSet]
    BY <1>1
  <2>2. FilesTyped' /\ RestTyped'
    BY <1>1 DEF FilesTyped, RestTyped, history, files
  <2>3. QED
    BY <2>1, <2>2 DEF TypeOK, RequestSet, ActorSet, PCs, FilesTyped, RestTyped, EventSet, SnapSet
<1>3. QueueInv'
  BY <1>1, OutsiderKeepsQueues DEF MutexInv, Queue
<1>4. BuiltInv'
  BY DEF MutexInv, BuiltInv, IsBuilt, Queue
<1>5. QED
  BY <1>2, <1>3, <1>4 DEF MutexInv

\* The new actor's mutex is its activation's.
LEMMA BuildKeepsMutex ==
    ASSUME MutexInv, NEW r \in Requests, NEW a \in Actors, Build(r, a)
    PROVE  MutexInv'
<1>1. /\ TypeOK /\ QueueInv /\ FilesTyped /\ RestTyped
      /\ request \in [Requests -> RequestSet] /\ actor \in [Actors -> ActorSet]
  BY TypesSplit DEF MutexInv
<1>2. PICK new : new = [gen |-> request[r].gen, seq |-> request[r].seq, status |-> "recovering",
                        messages |-> request[r].messages, queue |-> <<r>>]
  OBVIOUS
<1>3. new \in ActorSet /\ new.gen > 0 /\ new.queue = <<r>>
  <2>1. request[r].gen > 0
    BY DEF Build, MutexInv, BuiltInv, Starting
  <2>2. <<r>> \in Seq(Requests) /\ request[r] \in RequestSet
    BY <1>1
  <2>3. QED
    BY <1>2, <2>1, <2>2 DEF ActorSet, RequestSet, Statuses
<1>4. actor' = [actor EXCEPT ![a] = new] /\ live' = a /\ request[r].pc = "build"
      /\ request' = [request EXCEPT ![r].pc = "announce", ![r].actor = a]
      /\ UNCHANGED <<lease, files, history>>
  BY <1>2 DEF Build
<1>5. actor' \in [Actors -> ActorSet] /\ actor'[a] = new
      /\ \A b \in Actors : b # a => actor'[b] = actor[b]
  BY <1>1, <1>3, <1>4
<1>6. /\ request' \in [Requests -> RequestSet]
      /\ request'[r].pc = "announce" /\ request'[r].actor = a
      /\ \A s \in Requests : s # r => request'[s] = request[s]
  <2>1. /\ request'[r].pc = "announce" /\ request'[r].actor = a
        /\ \A s \in Requests : s # r => request'[s] = request[s]
    BY <1>1, <1>4 DEF RequestSet
  <2>2. "announce" \in PCs /\ a \in Actors \cup {NoLive}
    BY DEF PCs, Activating
  <2>3. \A s \in Requests : request'[s] \in RequestSet
    <3>1. request' = [request EXCEPT ![r] = [[request[r] EXCEPT !.pc = "announce"]
                                               EXCEPT !.actor = a]]
      BY <1>1, <1>4 DEF RequestSet
    <3>2. [request[r] EXCEPT !.pc = "announce"] \in RequestSet
      BY <1>1, <2>2, PcTyped
    <3>3. [[request[r] EXCEPT !.pc = "announce"] EXCEPT !.actor = a] \in RequestSet
      BY <3>2, <2>2 DEF RequestSet
    <3>4. QED
      BY <1>1, <3>1, <3>3
  <2>4. QED
    BY <1>1, <1>4, <2>1, <2>3
<1>7. TypeOK' /\ Len(log') > 0
  <2>1. FilesTyped' /\ RestTyped'
    BY <1>1, <1>4 DEF FilesTyped, RestTyped, history, files
  <2>2. QED
    BY <1>5, <1>6, <2>1
       DEF TypeOK, RequestSet, ActorSet, PCs, FilesTyped, RestTyped, EventSet, SnapSet
<1>8. Len(Queue(a)) = 0 /\ ~IsBuilt(a)
  BY <1>1 DEF Build, MutexInv, BuiltInv, IsBuilt
<1>9. QueueInv'
  <2>1. <<>> \in Seq(Requests) /\ <<r>> \in Seq(Requests)
        /\ Len(<<r>>) = Len(<<>>) + 1 /\ <<r>>[Len(<<>>) + 1] = r /\ Len(<<>>) = 0
    OBVIOUS
  <2>2. \A s \in Requests : s # r /\ request[s].actor = a =>
          request[s].pc # "lock" /\ request[s].pc \notin Holding
    <3>1. SUFFICES ASSUME NEW s \in Requests, request[s].actor = a,
                          request[s].pc \in {"lock"} \cup Holding
                   PROVE  FALSE
      OBVIOUS
    <3>2. \E i \in 1..Len(Queue(a)) : TRUE
      BY <3>1, <1>1 DEF QueueInv, Queue, TypeOK
    <3>3. QED
      BY <3>2, <1>8
  <2>3. \A b \in Actors : \A i \in 1..Len(Queue(b)) : Queue(b)[i] # r
    BY <1>1, <1>4 DEF QueueInv, Holding, Turn
  <2>4. Queue(a)' = <<r>> /\ \A b \in Actors : b # a => Queue(b)' = Queue(b)
    BY <1>3, <1>5 DEF Queue
  <2>5. PICK U \in Seq(Requests) : U = <<>>
    BY <2>1
  <2>6. /\ Len(U) = 0 /\ Len(Queue(a)') = Len(U) + 1 /\ Queue(a)'[Len(U) + 1] = r
        /\ Queue(a)' \in Seq(Requests) /\ \A i \in 1..Len(U) : FALSE
    BY <2>1, <2>4, <2>5
  <2>7. request'[r].pc \in {"lock"} \cup Holding
    BY <1>6 DEF Holding
  <2>8. Enters(r, a, U)
    BY <1>6, <2>2, <2>3, <2>4, <2>6, <2>7 DEF Enters, Queue
  <2>9. QED
    BY <1>1, <2>5, <2>8, EntersQueue
<1>10. BuiltInv'
  <2>1. \A b \in Actors : ~IsBuilt(b)' => Len(Queue(b)') = 0
    BY <1>3, <1>5 DEF MutexInv, BuiltInv, IsBuilt, Queue
  <2>2. live' # NoLive => actor'[live'].gen > 0
    BY <1>3, <1>4, <1>5
  <2>3. \A s \in Requests : request'[s].pc \in Starting \ {"load"} => request'[s].gen > 0
    BY <1>6 DEF MutexInv, BuiltInv, Starting
  <2>4. QED
    BY <2>1, <2>2, <2>3 DEF BuiltInv, IsBuilt
<1>11. QED
  BY <1>7, <1>9, <1>10 DEF MutexInv

\* The activating command leaves the mutex and waits at the end of its queue.
LEMMA RequeueKeepsMutex ==
    ASSUME MutexInv, NEW r \in Requests, AtHead(r), Goto(r, "lock"),
           actor' = [actor EXCEPT ![request[r].actor].queue = Append(Tail(@), r)],
           FilesTyped', RestTyped', live' = live
    PROVE  MutexInv' /\ \A a \in Actors : actor'[a].gen = actor[a].gen
                          /\ actor'[a].seq = actor[a].seq
                          /\ actor'[a].messages = actor[a].messages
                          /\ (Len(Queue(a)') > 0 => Len(Queue(a)) > 0)
<1>1. TypeOK /\ QueueInv /\ actor \in [Actors -> ActorSet]
  BY TypesSplit DEF MutexInv
<1>2. PICK a \in Actors : a = request[r].actor
  BY DEF AtHead
<1>3. Queue(a) \in Seq(Requests) /\ Len(Queue(a)) > 0 /\ Queue(a)[1] = r
  BY <1>1, <1>2 DEF AtHead, Queue, ActorSet
<1>4. Queue(a) # <<>>
  BY <1>3
<1>5. PICK U \in Seq(Requests) : U = Tail(Queue(a))
  BY <1>3, <1>4, HeadTailProperties
<1>6. Len(U) = Len(Queue(a)) - 1 /\ \A i \in 1..Len(U) : U[i] = Queue(a)[i + 1]
  BY <1>3, <1>4, <1>5, HeadTailProperties
<1>7. PICK W \in Seq(Requests) : W = Append(U, r)
  BY <1>5, AppendTyped
<1>8. Len(W) = Len(U) + 1 /\ W[Len(U) + 1] = r /\ \A i \in 1..Len(U) : W[i] = U[i]
  BY <1>7, AppendTyped
<1>9. actor' = [actor EXCEPT ![a].queue = W]
  BY <1>1, <1>2, <1>5, <1>7 DEF Queue, ActorSet
<1>10. actor' \in [Actors -> ActorSet]
  <2>1. [actor[a] EXCEPT !.queue = W] \in ActorSet
    BY <1>1, <1>2, <1>7 DEF ActorSet
  <2>2. actor' = [actor EXCEPT ![a] = [actor[a] EXCEPT !.queue = W]]
    BY <1>1, <1>9
  <2>3. QED
    BY <1>1, <1>2, <2>1, <2>2
<1>11. /\ Queue(a)' = W /\ \A b \in Actors : b # a => Queue(b)' = Queue(b)
       /\ \A b \in Actors : /\ actor'[b].gen = actor[b].gen /\ actor'[b].seq = actor[b].seq
                            /\ actor'[b].messages = actor[b].messages
  <2>1. /\ actor'[a].queue = W /\ \A b \in Actors : b # a => actor'[b] = actor[b]
        /\ actor'[a].gen = actor[a].gen /\ actor'[a].seq = actor[a].seq
        /\ actor'[a].messages = actor[a].messages
    BY <1>1, <1>2, <1>9 DEF ActorSet
  <2>2. QED
    BY <2>1 DEF Queue
<1>12. Moves(r, "lock") /\ request' \in [Requests -> RequestSet]
  BY <1>1, GotoMoves DEF PCs, Turn
<1>13. TypeOK' /\ Len(log') > 0
  BY <1>10, <1>12 DEF TypeOK, RequestSet, ActorSet, PCs, FilesTyped, RestTyped, EventSet, SnapSet
<1>14. \A i \in 1..Len(U) : i + 1 \in 1..Len(Queue(a)) /\ i + 1 # 1
  BY <1>3, <1>6
<1>15. \A i \in 1..Len(U) : U[i] # r /\ request[U[i]].actor = a /\ request[U[i]].pc = "lock"
  <2>1. SUFFICES ASSUME NEW i \in 1..Len(U)
                 PROVE  U[i] # r /\ request[U[i]].actor = a /\ request[U[i]].pc = "lock"
    OBVIOUS
  <2>2. PICK k \in 1..Len(Queue(a)) : k = i + 1 /\ k # 1
    BY <1>14
  <2>3. U[i] = Queue(a)[k] /\ 1 \in 1..Len(Queue(a))
    BY <1>3, <1>6, <2>2
  <2>4. Queue(a)[k] # Queue(a)[1]
    BY <1>1, <2>2, <2>3 DEF QueueInv
  <2>5. request[Queue(a)[k]].actor = a /\ request[Queue(a)[k]].pc = "lock"
    BY <1>1, <2>2 DEF QueueInv
  <2>6. QED
    BY <1>3, <2>3, <2>4, <2>5
<1>16. \A i, j \in 1..Len(U) : i # j => U[i] # U[j]
  <2>1. SUFFICES ASSUME NEW i \in 1..Len(U), NEW j \in 1..Len(U), i # j
                 PROVE  U[i] # U[j]
    OBVIOUS
  <2>2. i + 1 # j + 1 /\ i + 1 \in 1..Len(Queue(a)) /\ j + 1 \in 1..Len(Queue(a))
    BY <2>1, <1>14
  <2>3. Queue(a)[i + 1] # Queue(a)[j + 1]
    BY <2>2, <1>1 DEF QueueInv
  <2>4. QED
    BY <2>3, <1>6
<1>17. \A s \in Requests : s # r /\ request[s].actor = a =>
         /\ request[s].pc = "lock" => \E i \in 1..Len(U) : U[i] = s
         /\ request[s].pc \in Holding => Len(U) > 0 /\ U[1] = s
  <2>1. SUFFICES ASSUME NEW s \in Requests, s # r, request[s].actor = a
                 PROVE  /\ request[s].pc = "lock" => \E i \in 1..Len(U) : U[i] = s
                        /\ request[s].pc \notin Holding
    OBVIOUS
  <2>2. request[s].pc \notin Holding
    BY <2>1, <1>1, <1>3 DEF QueueInv
  <2>3. ASSUME request[s].pc = "lock"
        PROVE  \E i \in 1..Len(U) : U[i] = s
    <3>1. PICK i \in 1..Len(Queue(a)) : Queue(a)[i] = s
      BY <2>1, <2>3, <1>1 DEF QueueInv
    <3>2. i - 1 \in 1..Len(U) /\ (i - 1) + 1 = i
      BY <3>1, <2>1, <1>3, <1>6
    <3>3. U[i - 1] = Queue(a)[(i - 1) + 1]
      BY <3>2, <1>6
    <3>4. QED
      BY <3>1, <3>2, <3>3
  <2>4. QED
    BY <2>2, <2>3
<1>18. \A b \in Actors : b # a => \A i \in 1..Len(Queue(b)) : Queue(b)[i] # r
  BY <1>1, <1>2 DEF QueueInv
<1>19. QueueInv'
  <2>1. request'[r].pc = "lock" /\ request'[r].actor = a
        /\ \A s \in Requests : s # r =>
               request'[s].pc = request[s].pc /\ request'[s].actor = request[s].actor
    BY <1>2, <1>12 DEF Moves
  <2>2. \A i \in 1..Len(U) : /\ U[i] # r /\ request[U[i]].actor = a
                             /\ request[U[i]].pc \in {"lock", "thrown"} \cup Holding
                             /\ i # 1 => request[U[i]].pc = "lock"
    BY <1>15
  <2>3. /\ Queue(a)' \in Seq(Requests) /\ Len(Queue(a)') = Len(U) + 1
        /\ Queue(a)'[Len(U) + 1] = r /\ \A i \in 1..Len(U) : Queue(a)'[i] = U[i]
    BY <1>7, <1>8, <1>11
  <2>4. Enters(r, a, U)
    BY <1>11, <1>16, <1>17, <1>18, <2>1, <2>2, <2>3 DEF Enters, Queue
  <2>5. QED
    BY <1>1, <1>2, <1>5, <2>4, EntersQueue
<1>20. BuiltInv'
  <2>1. \A b \in Actors : ~IsBuilt(b)' => Len(Queue(b)') = 0
    <3>1. IsBuilt(a)
      BY <1>3 DEF MutexInv, BuiltInv
    <3>2. QED
      BY <3>1, <1>11 DEF MutexInv, BuiltInv, IsBuilt
  <2>2. live' # NoLive => actor'[live'].gen > 0
    <3>1. live # NoLive => live \in Actors /\ actor[live].gen > 0
      BY <1>1 DEF MutexInv, BuiltInv, TypeOK, IsBuilt
    <3>2. QED
      BY <3>1, <1>11
  <2>3. \A s \in Requests : request'[s].pc \in Starting \ {"load"} => request'[s].gen > 0
    BY <1>12 DEF MutexInv, BuiltInv, Moves, Starting
  <2>4. QED
    BY <2>1, <2>2, <2>3 DEF BuiltInv, IsBuilt
<1>21. QED
  BY <1>3, <1>11, <1>13, <1>19, <1>20 DEF MutexInv

\* A new call joins the queue of the actor that is found.
LEMMA DispatchKeepsMutex ==
    ASSUME MutexInv, NEW r \in Requests, Dispatch(r)
    PROVE  MutexInv'
<1>1. /\ TypeOK /\ QueueInv /\ FilesTyped /\ RestTyped
      /\ request \in [Requests -> RequestSet] /\ actor \in [Actors -> ActorSet]
      /\ request[r].pc = "new"
  BY TypesSplit DEF MutexInv, Dispatch
<1>2. CASE live = NoLive /\ Goto(r, "load") /\ UNCHANGED actor
  <2>1. Moves(r, "load") /\ request' \in [Requests -> RequestSet]
    BY <1>1, <1>2, GotoMoves DEF PCs, Activating
  <2>2. \A s \in Requests : s # r => request'[s] = request[s]
    BY <1>1, <1>2 DEF Goto
  <2>3. request'[r].pc = "load"
    BY <2>1 DEF Moves
  <2>4. UNCHANGED <<live, lease, actor, files, crashes>>
    BY <1>2 DEF Dispatch
  <2>5. lease' \in {"free", "locking", "owned"} /\ raced' \in BOOLEAN
    BY <1>1, <2>4 DEF RestTyped, history, Dispatch
  <2>6. QED
    BY <1>1, <2>1, <2>2, <2>3, <2>4, <2>5, StarterKeepsMutex DEF Starting
<1>3. CASE /\ live # NoLive
           /\ request' = [request EXCEPT ![r].pc = "lock", ![r].actor = live]
           /\ actor' = [actor EXCEPT ![live].queue = Append(@, r)]
  <2>1. PICK a \in Actors : a = live
    BY <1>1, <1>3 DEF RestTyped, history
  <2>2. PICK U \in Seq(Requests) : U = Queue(a)
    BY <1>1 DEF Queue, ActorSet
  <2>3. PICK W \in Seq(Requests) : W = Append(U, r)
    BY AppendTyped
  <2>4. Len(W) = Len(U) + 1 /\ W[Len(U) + 1] = r /\ \A i \in 1..Len(U) : W[i] = U[i]
    BY <2>2, <2>3, AppendTyped
  <2>5. actor' = [actor EXCEPT ![a].queue = W]
    BY <1>1, <1>3, <2>1, <2>2, <2>3 DEF Queue, ActorSet
  <2>6. actor' \in [Actors -> ActorSet]
    BY <1>1, <2>1, <2>3, <2>5 DEF ActorSet
  <2>7. /\ actor'[a].queue = W /\ actor'[a].gen = actor[a].gen
        /\ \A b \in Actors : b # a => actor'[b] = actor[b]
    BY <1>1, <2>1, <2>5 DEF ActorSet
  <2>8. /\ request'[r].pc = "lock" /\ request'[r].actor = a
        /\ \A s \in Requests : s # r => request'[s] = request[s]
    BY <1>1, <1>3, <2>1 DEF RequestSet
  <2>9. request' \in [Requests -> RequestSet]
    <3>1. "lock" \in PCs /\ a \in Actors \cup {NoLive}
      BY <2>1 DEF PCs, Turn
    <3>2. request' = [request EXCEPT ![r] = [[request[r] EXCEPT !.pc = "lock"] EXCEPT !.actor = a]]
      BY <1>1, <1>3, <2>1 DEF RequestSet
    <3>3. [request[r] EXCEPT !.pc = "lock"] \in RequestSet
      BY <1>1, <3>1, PcTyped
    <3>4. [[request[r] EXCEPT !.pc = "lock"] EXCEPT !.actor = a] \in RequestSet
      BY <3>3, <3>1 DEF RequestSet
    <3>5. QED
      BY <1>1, <3>2, <3>4
  <2>10. TypeOK' /\ Len(log') > 0
    <3>1. FilesTyped' /\ RestTyped'
      BY <1>1, <1>3 DEF FilesTyped, RestTyped, history, files, Dispatch
    <3>2. QED
      BY <2>6, <2>9, <3>1
         DEF TypeOK, RequestSet, ActorSet, PCs, FilesTyped, RestTyped, EventSet, SnapSet
  <2>11. \A b \in Actors : \A i \in 1..Len(Queue(b)) : Queue(b)[i] # r
    BY <1>1 DEF QueueInv, Holding, Turn
  <2>12. \A i \in 1..Len(U) :
            /\ U[i] # r /\ request[U[i]].actor = a
            /\ request[U[i]].pc \in {"lock", "thrown"} \cup Holding
            /\ i # 1 => request[U[i]].pc = "lock"
    BY <1>1, <2>1, <2>2, <2>11 DEF QueueInv
  <2>13. \A i, j \in 1..Len(U) : i # j => U[i] # U[j]
    BY <1>1, <2>1, <2>2 DEF QueueInv
  <2>14. \A s \in Requests : s # r /\ request[s].actor = a =>
           /\ request[s].pc = "lock" => \E i \in 1..Len(U) : U[i] = s
           /\ request[s].pc \in Holding => Len(U) > 0 /\ U[1] = s
    BY <1>1, <2>2 DEF QueueInv
  <2>15. Enters(r, a, U)
    BY <2>3, <2>4, <2>7, <2>8, <2>11, <2>12, <2>13, <2>14 DEF Enters, Queue
  <2>16. QueueInv'
    BY <1>1, <2>1, <2>2, <2>15, EntersQueue
  <2>17. IsBuilt(a) /\ live' = a
    BY <1>3, <2>1 DEF Dispatch, MutexInv, BuiltInv
  <2>18. \A b \in Actors : actor'[b].gen = actor[b].gen /\ (b # a => actor'[b].queue = Queue(b))
    BY <2>7 DEF Queue
  <2>19. BuiltInv'
    BY <2>8, <2>17, <2>18 DEF MutexInv, BuiltInv, IsBuilt, Queue, Starting
  <2>20. QED
    BY <2>10, <2>16, <2>19 DEF MutexInv
<1>4. QED
  BY <1>2, <1>3 DEF Dispatch

LEMMA ActivateKeepsMutex ==
    ASSUME MutexInv, NEW r \in Requests, Activate(r)
    PROVE  MutexInv'
<1>1. /\ TypeOK /\ FilesTyped /\ RestTyped
      /\ request \in [Requests -> RequestSet] /\ lease \in {"free", "locking", "owned"}
  BY TypesSplit DEF MutexInv, RestTyped, history
<1>2. ASSUME NEW p \in Starting \cup {"thrown"}, Goto(r, p), request[r].pc \in Starting \ {"load"},
             UNCHANGED <<live, actor, files, history>>, lease' \in {"free", "locking", "owned"}
      PROVE  MutexInv'
  <2> raced \in BOOLEAN /\ raced' = raced /\ crashes' = crashes
    BY <1>1, <1>2 DEF RestTyped, history
  <2>1. p \in PCs
    BY DEF PCs, Starting, Activating, Results
  <2>2. Moves(r, p) /\ request' \in [Requests -> RequestSet]
    BY <1>1, <1>2, <2>1, GotoMoves
  <2>3. \A s \in Requests : s # r => request'[s] = request[s]
    BY <1>1, <1>2 DEF Goto
  <2>4. request'[r].pc = p /\ request'[r].gen > 0
    BY <1>2, <2>2 DEF Moves, MutexInv, BuiltInv
  <2>5. QED
    BY <1>2, <2>2, <2>3, <2>4, StarterKeepsMutex
<1>3. CASE Load(r)
  <2>1. request' = [request EXCEPT ![r] = [[[request[r] EXCEPT !.pc = "sequence"]
                                             EXCEPT !.gen = snap.gen + 1]
                                             EXCEPT !.messages = snap.messages]]
    BY <1>1, <1>3 DEF Load, RequestSet
  <2>2. snap.gen \in Nat /\ snap.gen + 1 \in Nat /\ snap.gen + 1 > 0 /\ "sequence" \in PCs
        /\ snap.messages \in SUBSET Requests
    BY <1>1 DEF FilesTyped, SnapSet, PCs, Activating
  <2>3. [request[r] EXCEPT !.pc = "sequence"] \in RequestSet
    BY <1>1, <2>2, PcTyped
  <2>4. [[request[r] EXCEPT !.pc = "sequence"] EXCEPT !.gen = snap.gen + 1] \in RequestSet
    BY <2>3, <2>2 DEF RequestSet
  <2>5. [[[request[r] EXCEPT !.pc = "sequence"] EXCEPT !.gen = snap.gen + 1]
           EXCEPT !.messages = snap.messages] \in RequestSet
    BY <2>4, <2>2 DEF RequestSet
  <2>6. request' \in [Requests -> RequestSet]
    BY <1>1, <2>1, <2>5
  <2>7. /\ request'[r].pc = "sequence" /\ request'[r].gen = snap.gen + 1
        /\ \A s \in Requests : s # r => request'[s] = request[s]
    BY <1>1, <1>3 DEF Load, RequestSet
  <2>8. UNCHANGED <<live, lease, actor, files, crashes, raced>> /\ request[r].pc = "load"
    BY <1>3 DEF Load, history
  <2>9. request'[r].pc \in Starting \cup {"thrown"} /\ request'[r].gen > 0
        /\ request[r].pc \in Starting \cup {"new"} /\ lease' \in {"free", "locking", "owned"}
        /\ raced' \in BOOLEAN
    BY <1>1, <2>2, <2>7, <2>8 DEF Starting, RestTyped, history
  <2>10. QED
    BY <2>6, <2>7, <2>8, <2>9, StarterKeepsMutex
<1>4. CASE LastSequence(r)
  <2>1. PICK last \in Nat : last = LastEvent.seq
    <3>1. log \in Seq(EventSet) /\ Len(log) > 0
      BY <1>1 DEF FilesTyped
    <3>2. Len(log) \in 1..Len(log)
      BY <3>1
    <3>3. LastEvent \in EventSet
      BY <3>1, <3>2 DEF LastEvent
    <3>4. QED
      BY <3>3 DEF EventSet
  <2>2. request' = [request EXCEPT ![r] = [[request[r] EXCEPT !.pc = "lease"] EXCEPT !.seq = last]]
    BY <1>1, <1>4, <2>1 DEF LastSequence, RequestSet
  <2>3. "lease" \in PCs
    BY DEF PCs, Activating
  <2>4. [request[r] EXCEPT !.pc = "lease"] \in RequestSet
    BY <1>1, <2>3, PcTyped
  <2>5. [[request[r] EXCEPT !.pc = "lease"] EXCEPT !.seq = last] \in RequestSet
    BY <2>4, <2>1 DEF RequestSet
  <2>6. request' \in [Requests -> RequestSet]
    BY <1>1, <2>2, <2>5
  <2>7. /\ request'[r].pc = "lease" /\ request'[r].gen = request[r].gen
        /\ \A s \in Requests : s # r => request'[s] = request[s]
    BY <1>1, <1>4 DEF LastSequence, RequestSet
  <2>8. UNCHANGED <<live, lease, actor, files, crashes, raced>> /\ request[r].pc = "sequence"
    BY <1>4 DEF LastSequence, history
  <2>9. request'[r].pc \in Starting \cup {"thrown"} /\ request'[r].gen > 0
        /\ request[r].pc \in Starting \cup {"new"} /\ lease' \in {"free", "locking", "owned"}
        /\ raced' \in BOOLEAN
    BY <1>1, <2>7, <2>8 DEF Starting, MutexInv, BuiltInv, RestTyped, history
  <2>10. QED
    BY <2>6, <2>7, <2>8, <2>9, StarterKeepsMutex
<1>5. CASE AcquireLease(r)
  <2>1. PICK p \in {"locked", "thrown", "build"} : Goto(r, p)
    BY <1>5 DEF AcquireLease
  <2>2. QED
    BY <1>1, <1>2, <1>5, <2>1 DEF AcquireLease, Starting
<1>6. CASE LeaseAcquired(r)
  BY <1>1, <1>2, <1>6 DEF LeaseAcquired, Starting
<1>7. CASE \E a \in Actors : Build(r, a)
  BY <1>7, BuildKeepsMutex
<1>8. request[r].pc \in Holding => AtHead(r)
  BY HolderIsFirst DEF MutexInv
<1>9. CASE Announce(r)
  <2>1. AtHead(r)
    BY <1>8, <1>9 DEF Announce, Holding
  <2>2. QED
    BY <2>1, <1>9, EmitKeepsMutex DEF Announce, Holding, Statuses
<1>10. CASE Open(r)
  <2>1. AtHead(r)
    BY <1>8, <1>10 DEF Open, Holding
  <2>2. QED
    BY <2>1, <1>10, SetStatusKeepsMutex DEF Open, Holding, Statuses
<1>11. CASE Store(r)
  <2>1. AtHead(r) /\ request[r].actor \in Actors
    BY <1>8, <1>11 DEF Store, Holding, AtHead
  <2>2. UNCHANGED <<live, lease, log, refused, broken, history>> /\ RestTyped'
    BY <1>1, <1>11 DEF Store, RestTyped, history
  <2>3. CASE /\ snap' = Stored(request[r].actor) /\ Goto(r, "lock") /\ UNCHANGED faults
             /\ actor' = [actor EXCEPT ![request[r].actor].queue = Append(Tail(@), r)]
    <3>1. FilesTyped'
      BY <1>1, <2>1, <2>2, <2>3, StoredTyped DEF FilesTyped
    <3>2. QED
      BY <2>1, <2>2, <2>3, <3>1, RequeueKeepsMutex
  <2>4. CASE IoError /\ Goto(r, "thrown") /\ Leave(r) /\ UNCHANGED snap
    <3>1. FilesTyped'
      BY <1>1, <2>2, <2>4, FaultTyped
    <3>2. Moves(r, "thrown") /\ request' \in [Requests -> RequestSet]
      BY <1>1, <2>4, GotoMoves DEF PCs, Results
    <3>3. QED
      BY <2>1, <2>2, <2>4, <3>1, <3>2, LeaverKeepsMutex DEF Results
  <2>5. QED
    BY <1>11, <2>3, <2>4 DEF Store
<1>12. QED
  BY <1>3, <1>4, <1>5, <1>6, <1>7, <1>9, <1>10, <1>11 DEF Activate

\* A crash empties every queue.
LEMMA CrashKeepsMutex ==
    ASSUME MutexInv, Crash
    PROVE  MutexInv'
<1>1. /\ TypeOK /\ QueueInv /\ FilesTyped /\ RestTyped
      /\ request \in [Requests -> RequestSet] /\ actor \in [Actors -> ActorSet]
  BY TypesSplit DEF MutexInv
<1>2. \A r \in Requests :
        /\ request'[r] \in RequestSet
        /\ request'[r].pc \in {"new"} \cup Results
  <2>1. SUFFICES ASSUME NEW r \in Requests
                 PROVE  request'[r] \in RequestSet /\ request'[r].pc \in {"new"} \cup Results
    OBVIOUS
  <2>2. CASE request[r].pc \in {"new"} \cup Results
    BY <2>2, <1>1 DEF Crash
  <2>3. CASE request[r].pc \notin {"new"} \cup Results
    <3>1. request'[r] = [request[r] EXCEPT !.pc = "lost"]
      BY <2>3 DEF Crash
    <3>2. "lost" \in PCs /\ "lost" \in Results
      BY DEF PCs, Results
    <3>3. QED
      BY <1>1, <3>1, <3>2 DEF RequestSet
  <2>4. QED
    BY <2>2, <2>3
<1>3. \A a \in Actors : ~IsBuilt(a) => Len(actor[a].queue) = 0
  BY DEF MutexInv, BuiltInv, Queue
<1>4. \A a \in Actors :
        actor'[a] \in ActorSet /\ Len(actor'[a].queue) = 0 /\ actor'[a].gen = actor[a].gen
  <2>1. SUFFICES ASSUME NEW a \in Actors
                 PROVE  actor'[a] \in ActorSet /\ Len(actor'[a].queue) = 0
                        /\ actor'[a].gen = actor[a].gen
    OBVIOUS
  <2>2. CASE actor[a].gen = 0
    <3>1. actor'[a] = actor[a]
      BY <2>2 DEF Crash
    <3>2. Len(actor[a].queue) = 0 /\ actor[a] \in ActorSet
      BY <2>2, <1>1, <1>3 DEF IsBuilt
    <3>3. QED
      BY <3>1, <3>2
  <2>3. CASE actor[a].gen # 0
    <3>1. actor'[a] = [actor[a] EXCEPT !.status = "closed", !.queue = <<>>]
      BY <2>3 DEF Crash
    <3>2. <<>> \in Seq(Requests) /\ Len(<<>>) = 0 /\ "closed" \in Statuses
      BY DEF Statuses
    <3>3. QED
      BY <1>1, <3>1, <3>2 DEF ActorSet
  <2>4. QED
    BY <2>2, <2>3
<1>5. TypeOK' /\ Len(log') > 0
  <2>1. request' \in [Requests -> RequestSet] /\ actor' \in [Actors -> ActorSet]
    BY <1>2, <1>4 DEF Crash
  <2>2. FilesTyped' /\ RestTyped'
    <3>1. UNCHANGED <<log, snap, refused, broken, faults>>
      BY DEF Crash, files
    <3>2. FilesTyped'
      BY <1>1, <3>1 DEF FilesTyped
    <3>3. /\ live' = NoLive /\ lease' = "free" /\ raced' = raced
          /\ crashes < MaxCrashes /\ crashes' = crashes + 1
      BY DEF Crash
    <3>4. crashes \in 0..MaxCrashes /\ MaxCrashes \in Nat /\ raced \in BOOLEAN
      BY <1>1, BoundsAssumption DEF RestTyped, history
    <3>5. crashes' \in 0..MaxCrashes
      BY <3>3, <3>4
    <3>6. QED
      BY <3>2, <3>3, <3>4, <3>5 DEF RestTyped
  <2>3. QED
    BY <2>1, <2>2 DEF TypeOK, RequestSet, ActorSet, PCs, FilesTyped, RestTyped, EventSet, SnapSet
<1>6. QueueInv'
  <2>1. \A r \in Requests : request'[r].pc \notin {"lock"} \cup Holding
    BY <1>2 DEF Holding, Turn, Results
  <2>2. QED
    BY <1>4, <2>1 DEF QueueInv, Queue
<1>7. BuiltInv'
  <2>1. live' = NoLive
    BY DEF Crash
  <2>2. \A r \in Requests : request'[r].pc \notin Starting
    BY <1>2 DEF Starting, Results
  <2>3. QED
    BY <1>4, <2>1, <2>2 DEF BuiltInv, Queue
<1>8. QED
  BY <1>5, <1>6, <1>7 DEF MutexInv

LEMMA InitMutex ==
    ASSUME Init
    PROVE  MutexInv
<1>1. 1 \in Actors /\ \A a \in Actors : a \in Nat
  BY BoundsAssumption DEF Actors
<1>2. PICK first : first = [gen |-> 1, seq |-> 1, status |-> "idle", messages |-> {}, queue |-> <<>>]
  OBVIOUS
<1>3. \A a \in Actors : actor[a] = IF a = 1 THEN first ELSE NoActor
  BY <1>2 DEF Init
<1>4. first \in ActorSet /\ NoActor \in ActorSet
  <2>1. <<>> \in Seq(Requests)
    OBVIOUS
  <2>2. QED
    BY <1>2, <2>1 DEF NoActor, ActorSet, Statuses
<1>5. actor \in [Actors -> ActorSet]
  BY <1>3, <1>4 DEF Init
<1>6. \A a \in Actors : Len(actor[a].queue) = 0
  BY <1>2, <1>3 DEF NoActor
<1>7. request \in [Requests -> RequestSet] /\ \A r \in Requests : request[r].pc = "new"
  BY KindsAssumption DEF Init, RequestSet, PCs
<1>8. FilesTyped
  <2>1. Event(1, 1, "idle", None) \in EventSet
    BY DEF Event, EventSet, Statuses
  <2>2. log \in Seq(EventSet) /\ Len(log) = 1
    BY <2>1 DEF Init
  <2>3. snap \in SnapSet
    BY DEF Init, SnapSet, Statuses
  <2>4. refused \in BOOLEAN /\ broken \in BOOLEAN /\ faults \in 0..MaxFaults
    <3>1. refused = FALSE /\ broken = FALSE /\ faults = 0
      BY DEF Init
    <3>2. 0 \in 0..MaxFaults
      BY BoundsAssumption
    <3>3. QED
      BY <3>1, <3>2
  <2>5. QED
    BY <2>2, <2>3, <2>4 DEF FilesTyped
<1>9. RestTyped
  <2>1. live = 1 /\ lease = "owned" /\ crashes = 0 /\ raced = FALSE
    BY DEF Init
  <2>2. 0 \in 0..MaxCrashes
    BY BoundsAssumption
  <2>3. QED
    BY <1>1, <2>1, <2>2 DEF RestTyped
<1>10. TypeOK /\ Len(log) > 0
  BY <1>5, <1>7, <1>8, <1>9, TypesSplit
<1>11. QueueInv
  BY <1>6, <1>7 DEF QueueInv, Queue, Holding, Turn
<1>12. BuiltInv
  <2>1. IsBuilt(1) /\ live = 1
    <3>1. actor[1] = first /\ first.gen = 1
      BY <1>1, <1>2, <1>3
    <3>2. live = 1
      BY DEF Init
    <3>3. QED
      BY <3>1, <3>2 DEF IsBuilt
  <2>2. QED
    BY <1>6, <1>7, <2>1 DEF BuiltInv, Queue, Starting
<1>13. QED
  BY <1>10, <1>11, <1>12 DEF MutexInv

LEMMA StutterKeepsMutex ==
    ASSUME MutexInv, UNCHANGED vars
    PROVE  MutexInv'
<1>1. /\ UNCHANGED <<request, live, lease, actor, log, snap, refused, broken, faults>>
      /\ UNCHANGED <<crashes, raced>>
  BY DEF vars, files, history
<1>2. TypeOK' /\ Len(log') > 0
  BY <1>1 DEF MutexInv, TypeOK
<1>3. QueueInv'
  BY <1>1 DEF MutexInv, QueueInv, Queue
<1>4. BuiltInv'
  BY <1>1 DEF MutexInv, BuiltInv, IsBuilt, Queue
<1>5. QED
  BY <1>2, <1>3, <1>4 DEF MutexInv

\* The mutex of every actor is sound, however requests overlap with activations,
\* closes and crashes: one command works at a time, the others wait each once.
THEOREM MutexInvariance == Spec => []MutexInv
<1>1. Init => MutexInv
  BY InitMutex
<1>2. MutexInv /\ [Next]_vars => MutexInv'
  <2>1. SUFFICES ASSUME MutexInv, [Next]_vars
                 PROVE  MutexInv'
    OBVIOUS
  <2>2. CASE UNCHANGED vars
    BY <2>1, <2>2, StutterKeepsMutex
  <2>3. CASE Crash
    BY <2>1, <2>3, CrashKeepsMutex
  <2>4. ASSUME NEW r \in Requests, Dispatch(r) \/ Activate(r) \/ Command(r)
        PROVE  MutexInv'
    BY <2>1, <2>4, DispatchKeepsMutex, ActivateKeepsMutex, CommandKeepsMutex
  <2>5. CASE Finished
    BY <2>2, <2>5 DEF Finished
  <2>6. QED
    BY <2>1, <2>2, <2>3, <2>4, <2>5 DEF Next
<1>3. QED
  BY <1>1, <1>2, PTL DEF Spec

\* Every variable keeps its type.
THEOREM TypeCorrect == Spec => []TypeOK
<1>1. MutexInv => TypeOK
  BY DEF MutexInv
<1>2. QED
  BY <1>1, MutexInvariance, PTL

-----------------------------------------------------------------------------
(* The files *)

LEMMA TopIsUnique ==
    ASSUME NEW a \in Actors, NEW b \in Actors, IsTop(a), IsTop(b)
    PROVE  a = b
<1>1. a \in Nat /\ b \in Nat
  BY BoundsAssumption DEF Actors
<1>2. ~(a > b) /\ ~(b > a)
  BY DEF IsTop
<1>3. QED
  BY <1>1, <1>2

\* The last actor, the snapshot and the log have natural numbers.
LEMMA Numbers ==
    ASSUME MutexInv
    PROVE  /\ \A a \in Actors : actor[a].gen \in Nat /\ actor[a].seq \in Nat
           /\ snap.gen \in Nat /\ snap.seq \in Nat
           /\ log \in Seq(EventSet) /\ Len(log) \in Nat /\ Len(log) > 0
           /\ \A i \in 1..Len(log) : log[i].gen \in Nat /\ log[i].seq \in Nat
           /\ LastEvent.gen \in Nat /\ LastEvent.seq \in Nat
<1>1. actor \in [Actors -> ActorSet] /\ FilesTyped
  BY TypesSplit DEF MutexInv
<1>2. log \in Seq(EventSet) /\ Len(log) \in Nat /\ Len(log) > 0
  BY <1>1 DEF FilesTyped
<1>3. Len(log) \in 1..Len(log)
  BY <1>2
<1>4. \A i \in 1..Len(log) : log[i] \in EventSet
  BY <1>2
<1>5. \A i \in 1..Len(log) : log[i].gen \in Nat /\ log[i].seq \in Nat
  BY <1>4 DEF EventSet
<1>6. LastEvent.gen \in Nat /\ LastEvent.seq \in Nat
  BY <1>3, <1>5 DEF LastEvent
<1>7. snap.gen \in Nat /\ snap.seq \in Nat
  BY <1>1, BoundsAssumption DEF FilesTyped, SnapSet
<1>8. \A a \in Actors : actor[a].gen \in Nat /\ actor[a].seq \in Nat
  BY <1>1 DEF ActorSet
<1>9. QED
  BY <1>2, <1>5, <1>6, <1>7, <1>8

LEMMA Between ==
    ASSUME NEW x \in Nat, NEW z \in Nat, NEW n \in Nat, x <= z, z <= n
    PROVE  x <= n /\ x < n + 1
OBVIOUS

FileStep == FilesInv' /\ LogOrdered' /\ RefusalsExplained'

\* The files are consistent with the last actor after an event of it.
LEMMA EmitKeepsLog ==
    ASSUME MutexInv, FileInv, NEW r \in Requests, NEW a \in Actors, IsTop(a),
           NEW status \in Statuses, NEW message \in Requests \cup {None},
           NEW next \in PCs, NEW catch \in PCs,
           Emit(r, a, status, message, next, catch)
    PROVE  FileStep
<1>1. /\ SameQueues /\ snap' = snap
      /\ \A b \in Actors : b # a => actor'[b] = actor[b]
      /\ actor'[a].seq = actor[a].seq + 1
  BY EmitEffect DEF MutexInv
<1>2. /\ \A b \in Actors : actor[b].gen \in Nat /\ actor[b].seq \in Nat
      /\ snap.gen \in Nat /\ snap.seq \in Nat
      /\ log \in Seq(EventSet) /\ Len(log) \in Nat /\ Len(log) > 0
      /\ \A i \in 1..Len(log) : log[i].gen \in Nat /\ log[i].seq \in Nat
      /\ LastEvent.gen \in Nat /\ LastEvent.seq \in Nat
  BY Numbers
<1>3. PICK g \in Nat, n \in Nat : g = actor[a].gen /\ n = actor[a].seq
  BY <1>2
<1>4. \A b \in Actors : actor'[b].gen = actor[b].gen
  BY <1>1 DEF SameQueues
<1>5. \A b \in Actors : IsTop(b)' => b = a
  BY <1>4, TopIsUnique DEF IsTop, IsBuilt
<1>6. /\ snap.gen <= g /\ g <= snap.gen + 1 /\ LastEvent.gen <= g /\ LastEvent.seq <= n
      /\ (~broken => n = LastEvent.seq) /\ (~broken => snap.seq <= LastEvent.seq)
  BY <1>3 DEF FileInv, FilesInv
<1>7. actor'[a].gen = g /\ actor'[a].seq = n + 1
  BY <1>1, <1>3, <1>4
<1>8. CASE /\ Accepts(g, n + 1)
           /\ log' = Append(log, Event(g, n + 1, status, message))
           /\ UNCHANGED <<refused, broken, faults>>
  <2>1. PICK e : e = Event(g, n + 1, status, message)
    OBVIOUS
  <2>2. e.gen = g /\ e.seq = n + 1 /\ e \in EventSet
    BY <2>1 DEF Event, EventSet
  <2>3. /\ Len(log') = Len(log) + 1 /\ log'[Len(log) + 1] = e
        /\ \A i \in 1..Len(log) : log'[i] = log[i]
    BY <1>2, <1>8, <2>1, <2>2, AppendTyped
  <2>4. LastEvent' = e
    BY <2>3 DEF LastEvent
  <2>5. FilesInv'
    BY <1>1, <1>2, <1>5, <1>6, <1>7, <1>8, <2>2, <2>4 DEF FilesInv
  <2>6. LogOrdered'
    <3>1. SUFFICES ASSUME NEW i \in 1..Len(log'), NEW j \in 1..Len(log'), i < j
                   PROVE  log'[i].seq < log'[j].seq /\ log'[i].gen <= log'[j].gen
      BY DEF LogOrdered
    <3>2. i \in 1..Len(log) /\ log'[i] = log[i]
      BY <3>1, <1>2, <2>3
    <3>3. CASE j \in 1..Len(log)
      BY <3>1, <3>2, <3>3, <2>3 DEF FileInv, LogOrdered
    <3>4. CASE j = Len(log) + 1
      <4>1. log[i].seq <= LastEvent.seq /\ log[i].gen <= LastEvent.gen
        <5>1. CASE i = Len(log)
          BY <5>1, <1>2 DEF LastEvent
        <5>2. CASE i < Len(log)
          <6>1. Len(log) \in 1..Len(log)
            BY <1>2
          <6>2. log[i].seq < log[Len(log)].seq /\ log[i].gen <= log[Len(log)].gen
            BY <3>2, <5>2, <6>1 DEF FileInv, LogOrdered
          <6>3. log[i].seq \in Nat
            BY <3>2, <1>2
          <6>4. QED
            BY <6>2, <6>3, <1>2 DEF LastEvent
        <5>3. QED
          BY <3>2, <1>2, <5>1, <5>2
      <4>2. log[i].seq \in Nat /\ log[i].gen \in Nat
        BY <3>2, <1>2
      <4>3. log[i].seq < e.seq /\ log[i].gen <= e.gen
        <5>1. PICK x \in Nat, y \in Nat, z \in Nat, w \in Nat :
                x = log[i].seq /\ y = log[i].gen /\ z = LastEvent.seq /\ w = LastEvent.gen
          BY <4>2, <1>2
        <5>2. x <= z /\ y <= w /\ z <= n /\ w <= g
          BY <4>1, <5>1, <1>6
        <5>3. x < n + 1 /\ y <= g
          BY <5>1, <5>2, <1>3, Between
        <5>4. QED
          BY <5>1, <5>3, <2>2
      <4>4. QED
        BY <3>2, <3>4, <2>3, <4>3
    <3>5. QED
      BY <3>1, <3>3, <3>4, <2>3, <1>2
  <2>7. RefusalsExplained'
    BY <1>8 DEF FileInv, RefusalsExplained
  <2>8. QED
    BY <2>5, <2>6, <2>7 DEF FileStep
<1>9. CASE ~Accepts(g, n + 1) /\ refused' = TRUE /\ UNCHANGED <<log, broken, faults>>
  <2>1. ~(g > LastEvent.gen) /\ ~(g = LastEvent.gen /\ n + 1 = LastEvent.seq + 1)
    BY <1>9 DEF Accepts
  <2>2. n # LastEvent.seq
    BY <2>1, <1>2, <1>6
  <2>3. broken
    BY <2>2, <1>2, <1>6
  <2>4. LastEvent' = LastEvent /\ broken' = broken
    BY <1>9 DEF LastEvent
  <2>5. FilesInv'
    BY <1>1, <1>2, <1>5, <1>6, <1>7, <2>3, <2>4 DEF FilesInv
  <2>6. LogOrdered' /\ RefusalsExplained'
    BY <1>9, <2>3 DEF FileInv, LogOrdered, RefusalsExplained
  <2>7. QED
    BY <2>5, <2>6 DEF FileStep
<1>10. CASE broken' = TRUE /\ UNCHANGED <<log, refused>>
  <2>1. broken'
    BY <1>10
  <2>2. LastEvent' = LastEvent
    BY <1>10 DEF LastEvent
  <2>3. FilesInv'
    BY <1>1, <1>2, <1>5, <1>6, <1>7, <2>1, <2>2 DEF FilesInv
  <2>4. LogOrdered' /\ RefusalsExplained'
    BY <1>10, <2>1 DEF FileInv, LogOrdered, RefusalsExplained
  <2>5. QED
    BY <2>3, <2>4 DEF FileStep
<1>11. QED
  BY <1>3, <1>8, <1>9, <1>10 DEF Emit

\* So are they after a save of it, or a save that failed.
LEMMA SaveKeepsLog ==
    ASSUME MutexInv, FileInv, NEW a \in Actors, IsTop(a), UNCHANGED <<log, refused, broken>>,
           \A b \in Actors : actor'[b].gen = actor[b].gen /\ actor'[b].seq = actor[b].seq,
           snap' = Stored(a) \/ snap' = snap
    PROVE  FileStep
<1>1. /\ \A b \in Actors : actor[b].gen \in Nat /\ actor[b].seq \in Nat
      /\ snap.gen \in Nat /\ snap.seq \in Nat
      /\ LastEvent.gen \in Nat /\ LastEvent.seq \in Nat
  BY Numbers
<1>2. LastEvent' = LastEvent
  BY DEF LastEvent
<1>3. \A b \in Actors : IsTop(b)' => b = a
  BY TopIsUnique DEF IsTop, IsBuilt
<1>4. /\ snap.gen <= actor[a].gen /\ actor[a].gen <= snap.gen + 1
      /\ LastEvent.gen <= actor[a].gen /\ LastEvent.seq <= actor[a].seq
      /\ (~broken => actor[a].seq = LastEvent.seq) /\ (~broken => snap.seq <= LastEvent.seq)
  BY DEF FileInv, FilesInv
<1>5. FilesInv'
  <2>1. CASE snap' = Stored(a)
    <3>1. snap'.gen = actor[a].gen /\ snap'.seq = actor[a].seq
      BY <2>1 DEF Stored
    <3>2. QED
      BY <1>1, <1>2, <1>3, <1>4, <3>1 DEF FilesInv
  <2>2. CASE snap' = snap
    BY <1>1, <1>2, <1>3, <1>4, <2>2 DEF FilesInv
  <2>3. QED
    BY <2>1, <2>2
<1>6. LogOrdered' /\ RefusalsExplained'
  BY DEF FileInv, LogOrdered, RefusalsExplained
<1>7. QED
  BY <1>5, <1>6 DEF FileStep

\* What a step of r, the first of its actor's queue, leaves of the other state; p is
\* where it goes.
WorksOn(r, p) ==
    /\ Moves(r, p) /\ p \notin Starting /\ live' \in {live, NoLive}
    /\ \A a \in Actors : /\ actor'[a].gen = actor[a].gen
                         /\ actor[a].messages \subseteq actor'[a].messages
                         /\ Len(actor'[a].queue) > 0 => Len(Queue(a)) > 0
    /\ snap' = snap \/ snap'.messages = actor[request[r].actor].messages
    /\ request[r].kind = "prompt" /\ p \in Answering =>
         r \in actor'[request[r].actor].messages
    /\ request[r].kind = "prompt" /\ p = "completed" => r \in snap'.messages
    /\ p \in {"unlink", "release"} => request[r].kind = "close"

LEMMA WorkKeepsFiles ==
    ASSUME MutexInv, FileInv, NEW r \in Requests, AtHead(r), NEW p, WorksOn(r, p), FileStep
    PROVE  FileInv'
<1>1. PICK a \in Actors : a = request[r].actor
  BY DEF AtHead
<1>2. IsTop(a)
  BY <1>1 DEF AtHead, FileInv, TopInv
<1>3. \A b \in Actors : actor'[b].gen = actor[b].gen
  BY DEF WorksOn
<1>4. \A b \in Actors : IsTop(b)' <=> IsTop(b)
  BY <1>3 DEF IsTop, IsBuilt
<1>5. TopInv'
  <2>1. IsBuilt(1)'
    BY <1>3, BoundsAssumption DEF FileInv, TopInv, IsBuilt, Actors
  <2>2. \A b, c \in Actors : b < c /\ IsBuilt(c)' => IsBuilt(b)'
    BY <1>3 DEF FileInv, TopInv, IsBuilt
  <2>3. \A b \in Actors : Len(Queue(b)') > 0 => IsTop(b)'
    BY <1>4 DEF FileInv, TopInv, WorksOn, Queue
  <2>4. live' # NoLive => \E b \in Actors : b = live' /\ IsTop(b)'
    <3>1. live # NoLive => live \in Actors /\ IsTop(live)
      BY DEF MutexInv, TypeOK, FileInv, TopInv
    <3>2. live' \in {live, NoLive}
      BY DEF WorksOn
    <3>3. QED
      BY <1>4, <3>1, <3>2
  <2>5. live' # NoLive => actor'[live'].gen > 0 /\ \A b \in Actors : b > live' => ~(actor'[b].gen > 0)
    BY <2>4 DEF IsTop, IsBuilt
  <2>6. QED
    BY <2>1, <2>2, <2>3, <2>5 DEF TopInv, IsTop, IsBuilt
<1>6. \A s \in Requests : request[s].pc \notin Starting
  BY <1>1 DEF AtHead, FileInv, StartInv
<1>7. StartInv'
  <2>1. \A s \in Requests : request'[s].pc \notin Starting
    BY <1>6 DEF WorksOn, Moves
  <2>2. QED
    BY <2>1 DEF StartInv
<1>8. snap.messages \subseteq snap'.messages /\ snap'.messages \subseteq actor'[a].messages
  BY <1>1, <1>2 DEF WorksOn, FileInv, MessagesInv
<1>9. MessagesInv'
  <2>1. \A b \in Actors : IsTop(b)' => snap'.messages \subseteq actor'[b].messages
    BY <1>2, <1>4, <1>8, TopIsUnique
  <2>2. \A s \in Requests : request'[s].kind = "prompt" /\ request'[s].pc \in Answering =>
          s \in actor'[request'[s].actor].messages
    <3>1. SUFFICES ASSUME NEW s \in Requests, request'[s].kind = "prompt",
                          request'[s].pc \in Answering
                   PROVE  s \in actor'[request'[s].actor].messages
      OBVIOUS
    <3>2. request'[s].actor = request[s].actor /\ request[s].kind = "prompt"
      BY <3>1 DEF WorksOn, Moves
    <3>3. CASE s = r
      BY <3>1, <3>2, <3>3 DEF WorksOn, Moves
    <3>4. CASE s # r
      <4>1. request[s].pc \in Answering
        BY <3>1, <3>4 DEF WorksOn, Moves
      <4>2. request[s].actor \in Actors
        BY <4>1 DEF MutexInv, QueueInv, Answering, Holding, Turn
      <4>3. s \in actor[request[s].actor].messages
        BY <3>2, <4>1 DEF FileInv, MessagesInv
      <4>4. QED
        BY <3>2, <4>2, <4>3 DEF WorksOn
    <3>5. QED
      BY <3>3, <3>4
  <2>3. \A s \in Requests : request'[s].pc \in {"unlink", "release"} => request'[s].kind = "close"
    BY DEF WorksOn, Moves, FileInv, MessagesInv
  <2>4. QED
    BY <2>1, <2>2, <2>3 DEF MessagesInv
<1>10. AnswersStored'
  <2>1. \A s \in Requests : request'[s].pc = "completed" /\ request'[s].kind = "prompt" =>
          s \in snap'.messages
    BY <1>8 DEF WorksOn, Moves, FileInv, AnswersStored
  <2>2. QED
    BY <2>1 DEF AnswersStored
<1>11. QED
  BY <1>5, <1>7, <1>9, <1>10 DEF FileInv, FileStep

LEMMA EmitKeepsFiles ==
    ASSUME MutexInv, FileInv, NEW r \in Requests, AtHead(r), NEW status \in Statuses,
           NEW message \in Requests \cup {None},
           NEW next \in Holding, NEW catch \in {"failed", "thrown"},
           Emit(r, request[r].actor, status, message, next, catch), UNCHANGED live,
           request[r].kind = "prompt" /\ next \in Answering =>
             message = r \/ r \in actor[request[r].actor].messages,
           next \in {"unlink", "release"} => request[r].kind = "close"
    PROVE  FileInv'
<1>1. PICK a \in Actors : a = request[r].actor
  BY DEF AtHead
<1>2. TypeOK /\ Len(log) > 0 /\ next \in PCs /\ catch \in PCs /\ IsTop(a)
  BY <1>1 DEF MutexInv, PCs, Holding, Activating, Turn, Results, FileInv, TopInv, AtHead
<1>3. Emit(r, a, status, message, next, catch)
  BY <1>1
<1>4. /\ (Moves(r, next) \/ Moves(r, catch)) /\ SameQueues
      /\ \A b \in Actors : b # a => actor'[b] = actor[b]
      /\ actor'[a].messages = actor[a].messages \cup ({message} \ {None})
      /\ snap' = snap
  BY <1>2, <1>3, EmitEffect
<1>5. FileStep
  BY <1>2, <1>3, EmitKeepsLog
<1>6. \A b \in Actors : /\ actor'[b].gen = actor[b].gen
                        /\ actor[b].messages \subseteq actor'[b].messages
                        /\ Len(actor'[b].queue) > 0 => Len(Queue(b)) > 0
  BY <1>4 DEF SameQueues, Queue
<1>7. request[r].kind = "prompt" /\ next \in Answering => r \in actor'[a].messages
  BY <1>1, <1>4, RequestsAssumption
<1>8. CASE Moves(r, next)
  <2>1. next \notin Starting /\ next # "completed"
    BY DEF Holding, Turn, Starting
  <2>2. WorksOn(r, next)
    BY <1>1, <1>4, <1>6, <1>7, <1>8, <2>1 DEF WorksOn
  <2>3. QED
    BY <1>5, <2>2, WorkKeepsFiles
<1>9. CASE Moves(r, catch)
  <2>1. catch \notin Starting /\ catch # "completed" /\ catch \notin Answering
        /\ catch \notin {"unlink", "release"}
    BY DEF Starting, Answering
  <2>2. WorksOn(r, catch)
    BY <1>1, <1>4, <1>6, <1>9, <2>1 DEF WorksOn
  <2>3. QED
    BY <1>5, <2>2, WorkKeepsFiles
<1>10. QED
  BY <1>4, <1>8, <1>9

\* A step of the holder that leaves the actors and the log alone, and may save.
LEMMA GotoKeepsFiles ==
    ASSUME MutexInv, FileInv, NEW r \in Requests, AtHead(r), NEW p \in Holding \cup {"thrown"},
           Goto(r, p), UNCHANGED <<actor, log, refused, broken>>, live' \in {live, NoLive},
           snap' = Stored(request[r].actor) \/ snap' = snap,
           request[r].kind = "prompt" /\ p \in Answering =>
             r \in actor[request[r].actor].messages,
           p \in {"unlink", "release"} => request[r].kind = "close"
    PROVE  FileInv'
<1>1. PICK a \in Actors : a = request[r].actor
  BY DEF AtHead
<1>2. TypeOK /\ p \in PCs /\ IsTop(a)
  BY <1>1 DEF MutexInv, PCs, Holding, Activating, Turn, Results, FileInv, TopInv, AtHead
<1>3. Moves(r, p)
  BY <1>2, GotoMoves
<1>4. FileStep
  BY <1>1, <1>2, SaveKeepsLog
<1>5. p \notin Starting /\ p # "completed"
  BY DEF Holding, Turn, Starting
<1>6. snap' = snap \/ snap'.messages = actor[a].messages
  BY <1>1 DEF Stored
<1>7. WorksOn(r, p)
  BY <1>1, <1>3, <1>5, <1>6 DEF WorksOn, Queue
<1>8. QED
  BY <1>4, <1>7, WorkKeepsFiles

LEMMA SetStatusKeepsFiles ==
    ASSUME MutexInv, FileInv, NEW r \in Requests, AtHead(r), NEW status \in Statuses,
           NEW next \in Holding, NEW catch \in {"failed", "thrown"},
           SetStatus(r, request[r].actor, status, next, catch), UNCHANGED live,
           request[r].kind = "prompt" /\ next \in Answering =>
             r \in actor[request[r].actor].messages,
           next \in {"unlink", "release"} => request[r].kind = "close"
    PROVE  FileInv'
<1>1. CASE Emit(r, request[r].actor, status, None, next, catch)
  BY <1>1, EmitKeepsFiles
<1>2. CASE Goto(r, next) /\ UNCHANGED <<actor, files>>
  BY <1>2, GotoKeepsFiles DEF files
<1>3. QED
  BY <1>1, <1>2 DEF SetStatus

\* A step by which the holder leaves or goes to the end of the queue, and may save.
LEMMA PassKeepsFiles ==
    ASSUME MutexInv, FileInv, NEW r \in Requests, AtHead(r), NEW p \in Results \cup {"lock"},
           Moves(r, p), UNCHANGED <<live, log, refused, broken>>,
           \A b \in Actors : /\ actor'[b].gen = actor[b].gen /\ actor'[b].seq = actor[b].seq
                             /\ actor'[b].messages = actor[b].messages
                             /\ (Len(Queue(b)') > 0 => Len(Queue(b)) > 0),
           snap' = Stored(request[r].actor) \/ snap' = snap,
           request[r].kind = "prompt" /\ p = "completed" => r \in snap'.messages
    PROVE  FileInv'
<1>1. PICK a \in Actors : a = request[r].actor
  BY DEF AtHead
<1>2. IsTop(a)
  BY <1>1 DEF FileInv, TopInv, AtHead
<1>3. FileStep
  BY <1>1, <1>2, SaveKeepsLog
<1>4. p \notin Starting /\ p \notin Answering /\ p \notin {"unlink", "release"}
  BY DEF Results, Starting, Answering
<1>5. snap' = snap \/ snap'.messages = actor[a].messages
  BY <1>1 DEF Stored
<1>6. WorksOn(r, p)
  BY <1>1, <1>4, <1>5 DEF WorksOn, Queue
<1>7. QED
  BY <1>3, <1>6, WorkKeepsFiles

LEMMA CommandKeepsFiles ==
    ASSUME MutexInv, FileInv, NEW r \in Requests, Command(r)
    PROVE  FileInv'
<1>1. TypeOK /\ FilesTyped /\ RestTyped /\ request \in [Requests -> RequestSet]
  BY TypesSplit DEF MutexInv
<1>2. ASSUME NEW pc, Holds(r, pc), pc \in Holding \cup {"lock"}
      PROVE  AtHead(r)
  BY <1>2, HolderIsFirst DEF Holds, MutexInv
<1> DEFINE a == request[r].actor
<1>3. Holding = {"announce", "open", "store", "message", "accept", "model", "answer", "settle",
                 "save", "unlink", "release", "failed", "failedIdle", "failedSave"}
  BY DEF Holding, Turn
<1>4. AtHead(r) => actor[a].status \in Statuses
  BY <1>1 DEF AtHead, TypeOK
<1>5. UNCHANGED files => UNCHANGED <<log, refused, broken>> /\ snap' = snap /\ UNCHANGED faults
  BY DEF files
<1>6. request[r].kind = "prompt" /\ request[r].pc \in Answering => r \in actor[a].messages
  BY DEF FileInv, MessagesInv
<1>7. request[r].pc \in {"unlink", "release"} => request[r].kind = "close"
  BY DEF FileInv, MessagesInv
<1>8. ASSUME Leave(r), AtHead(r), NEW p \in Results, Moves(r, p), request' \in [Requests -> RequestSet],
             FilesTyped', RestTyped', live' = live
      PROVE  \A b \in Actors : /\ actor'[b].gen = actor[b].gen /\ actor'[b].seq = actor[b].seq
                               /\ actor'[b].messages = actor[b].messages
                               /\ (Len(Queue(b)') > 0 => Len(Queue(b)) > 0)
  BY <1>8, LeaverKeepsMutex
<1>9. /\ UNCHANGED <<live, lease, history>> => RestTyped'
      /\ (\/ snap' = snap /\ UNCHANGED <<log, refused, broken, faults>>
          \/ snap' = snap /\ IoError /\ UNCHANGED <<log, refused, broken>>
          \/ AtHead(r) /\ snap' = Stored(a) /\ UNCHANGED <<log, refused, broken, faults>>) => FilesTyped'
  <2>1. UNCHANGED <<live, lease, history>> => RestTyped'
    BY <1>1 DEF RestTyped, history
  <2>2. AtHead(r) => Stored(a) \in SnapSet
    BY <1>1, StoredTyped DEF AtHead
  <2>3. QED
    BY <1>1, <2>1, <2>2, FaultTyped DEF FilesTyped
<1>10. CASE Prompt(r)
  <2>1. AtHead(r)
    BY <1>10, <1>2 DEF Prompt
  <2>2. CASE Goto(r, "failed") /\ UNCHANGED <<actor, files>>
    BY <2>1, <2>2, <1>10, <1>3, <1>5, GotoKeepsFiles DEF Prompt, Answering
  <2>3. CASE SetStatus(r, a, "running", "message", "failed")
    BY <2>1, <2>3, <1>10, <1>3, SetStatusKeepsFiles DEF Prompt, Statuses, Answering
  <2>4. QED
    BY <2>2, <2>3, <1>10 DEF Prompt
<1>11. CASE Message(r)
  BY <1>11, <1>2, <1>3, <1>4, EmitKeepsFiles DEF Message
<1>12. CASE Accept(r)
  <2>1. AtHead(r) /\ request[r].pc = "accept"
    BY <1>12, <1>2, <1>3 DEF Accept, Holds
  <2>2. CASE snap' = Stored(a) /\ Goto(r, "model") /\ UNCHANGED faults
    BY <2>1, <2>2, <1>12, <1>3, <1>6, GotoKeepsFiles DEF Accept, Answering
  <2>3. CASE IoError /\ Goto(r, "failed") /\ UNCHANGED snap
    BY <2>1, <2>3, <1>12, <1>3, GotoKeepsFiles DEF Accept, Answering
  <2>4. QED
    BY <2>2, <2>3, <1>12 DEF Accept
<1>13. CASE Model(r)
  <2>1. AtHead(r) /\ request[r].pc = "model"
    BY <1>13, <1>2, <1>3 DEF Model, Holds
  <2>2. QED
    BY <2>1, <1>13, <1>3, <1>5, <1>6, GotoKeepsFiles DEF Model, Answering
<1>14. CASE Answer(r)
  <2>1. AtHead(r) /\ request[r].pc = "answer"
    BY <1>14, <1>2, <1>3 DEF Answer, Holds
  <2>2. QED
    BY <2>1, <1>14, <1>3, <1>4, <1>6, EmitKeepsFiles DEF Answer, Answering
<1>15. CASE Settle(r)
  <2>1. AtHead(r) /\ request[r].pc = "settle"
    BY <1>15, <1>2, <1>3 DEF Settle, Holds
  <2>2. QED
    BY <2>1, <1>15, <1>3, <1>6, SetStatusKeepsFiles DEF Settle, Statuses, Answering
<1>16. CASE Update(r)
  BY <1>16, <1>2, <1>3, <1>4, EmitKeepsFiles DEF Update
<1>17. CASE Pause(r)
  BY <1>17, <1>2, <1>3, SetStatusKeepsFiles DEF Pause, Statuses
<1>18. CASE Resume(r)
  BY <1>18, <1>2, <1>3, SetStatusKeepsFiles DEF Resume, Statuses
<1>19. CASE Close(r)
  BY <1>19, <1>2, <1>3, SetStatusKeepsFiles DEF Close, Statuses
<1>20. CASE Unlink(r)
  <2>1. AtHead(r) /\ request[r].kind = "close"
    BY <1>20, <1>2, <1>3, <1>7 DEF Unlink, Holds
  <2>2. UNCHANGED <<actor, log, refused, broken, snap>> /\ live' \in {live, NoLive}
    BY <1>20 DEF Unlink
  <2>3. Goto(r, "release") \/ Goto(r, "failed")
    BY <1>20 DEF Unlink
  <2>4. QED
    BY <2>1, <2>2, <2>3, <1>3, GotoKeepsFiles
<1>21. CASE Release(r)
  <2>1. AtHead(r) /\ request[r].kind = "close"
    BY <1>21, <1>2, <1>3, <1>7 DEF Release, Holds
  <2>2. QED
    BY <2>1, <1>21, <1>3, <1>5, GotoKeepsFiles DEF Release
<1>22. CASE Save(r)
  <2>1. AtHead(r) /\ request[r].pc = "save" /\ UNCHANGED <<live, lease, log, refused, broken, history>>
    BY <1>22, <1>2, <1>3 DEF Save, Holds
  <2>2. CASE snap' = Stored(a) /\ Goto(r, "completed") /\ Leave(r) /\ UNCHANGED faults
    <3>1. FilesTyped' /\ RestTyped' /\ live' = live
      BY <2>1, <2>2, <1>9
    <3>2. Moves(r, "completed") /\ request' \in [Requests -> RequestSet] /\ "completed" \in Results
      BY <2>2, <1>1, GotoMoves DEF PCs, Results
    <3>3. \A b \in Actors : /\ actor'[b].gen = actor[b].gen /\ actor'[b].seq = actor[b].seq
                            /\ actor'[b].messages = actor[b].messages
                            /\ (Len(Queue(b)') > 0 => Len(Queue(b)) > 0)
      BY <2>1, <2>2, <3>1, <3>2, <1>8
    <3>4. request[r].kind = "prompt" => r \in snap'.messages
      BY <2>1, <2>2, <1>6 DEF Stored, Answering
    <3>5. QED
      BY <2>1, <2>2, <3>2, <3>3, <3>4, PassKeepsFiles
  <2>3. CASE IoError /\ Goto(r, "failed") /\ UNCHANGED <<actor, snap>>
    BY <2>1, <2>3, <1>3, GotoKeepsFiles DEF Answering
  <2>4. QED
    BY <2>2, <2>3, <1>22 DEF Save
<1>23. CASE Failed(r)
  BY <1>23, <1>2, <1>3, <1>4, EmitKeepsFiles DEF Failed, Answering
<1>24. CASE FailedIdle(r)
  <2>1. AtHead(r)
    BY <1>24, <1>2, <1>3 DEF FailedIdle
  <2>2. CASE Goto(r, "failedSave") /\ UNCHANGED <<actor, files>>
    BY <2>1, <2>2, <1>24, <1>3, <1>5, GotoKeepsFiles DEF FailedIdle, Answering
  <2>3. CASE SetStatus(r, a, "idle", "failedSave", "thrown")
    BY <2>1, <2>3, <1>24, <1>3, SetStatusKeepsFiles DEF FailedIdle, Statuses, Answering
  <2>4. QED
    BY <2>2, <2>3, <1>24 DEF FailedIdle
<1>25. CASE FailedSave(r)
  <2>1. AtHead(r) /\ Leave(r) /\ UNCHANGED <<live, lease, log, refused, broken, history>>
    BY <1>25, <1>2, <1>3 DEF FailedSave
  <2>2. \/ snap' = Stored(a) /\ UNCHANGED faults
        \/ snap' = snap /\ IoError
    BY <1>25 DEF FailedSave
  <2>3. FilesTyped' /\ RestTyped' /\ live' = live
    BY <2>1, <2>2, <1>9
  <2>4. PICK p \in {"rejected", "thrown"} : Goto(r, p)
    BY <1>25 DEF FailedSave
  <2>5. p \in Results /\ p \in PCs /\ p # "completed"
    BY <2>4 DEF PCs, Results
  <2>6. Moves(r, p) /\ request' \in [Requests -> RequestSet]
    BY <2>4, <2>5, <1>1, GotoMoves
  <2>7. \A b \in Actors : /\ actor'[b].gen = actor[b].gen /\ actor'[b].seq = actor[b].seq
                          /\ actor'[b].messages = actor[b].messages
                          /\ (Len(Queue(b)') > 0 => Len(Queue(b)) > 0)
    BY <2>1, <2>3, <2>5, <2>6, <1>8
  <2>8. QED
    BY <2>1, <2>2, <2>5, <2>6, <2>7, PassKeepsFiles
<1>26. CASE Unwind(r)
  <2>1. AtHead(r) /\ Leave(r) /\ UNCHANGED <<live, lease, files, history>>
    <3>1. actor[a].queue \in Seq(Requests) /\ a \in Actors
      BY <1>26, <1>1 DEF Unwind, TypeOK
    <3>2. QED
      BY <3>1, <1>26 DEF Unwind, AtHead, Queue
  <2>2. Moves(r, "thrown") /\ request' \in [Requests -> RequestSet] /\ "thrown" \in Results
    BY <1>26, <1>1 DEF Unwind, Moves, Results
  <2>3. FilesTyped' /\ RestTyped' /\ live' = live
    BY <2>1, <1>5, <1>9
  <2>4. \A b \in Actors : /\ actor'[b].gen = actor[b].gen /\ actor'[b].seq = actor[b].seq
                          /\ actor'[b].messages = actor[b].messages
                          /\ (Len(Queue(b)') > 0 => Len(Queue(b)) > 0)
    BY <2>1, <2>2, <2>3, <1>8
  <2>5. QED
    BY <2>1, <2>2, <2>4, <1>5, PassKeepsFiles
<1>30. QED
  BY <1>10, <1>11, <1>12, <1>13, <1>14, <1>15, <1>16, <1>17, <1>18, <1>19, <1>20, <1>21, <1>22,
     <1>23, <1>24, <1>25, <1>26 DEF Command

\* A step before the actor is built leaves the actors and the files alone.
LEMMA StarterKeepsFiles ==
    ASSUME MutexInv, FileInv, NEW r \in Requests,
           request'[r].pc \in Starting \cup {"thrown"},
           \A s \in Requests : s # r => request'[s] = request[s],
           UNCHANGED <<live, actor, files>>, StartInv'
    PROVE  FileInv'
<1>1. UNCHANGED <<log, snap, refused, broken, faults>>
  BY DEF files
<1>2. TopInv'
  BY DEF FileInv, TopInv, IsTop, IsBuilt, Queue
<1>3. FilesInv' /\ LogOrdered' /\ RefusalsExplained'
  BY <1>1 DEF FileInv, FilesInv, LogOrdered, RefusalsExplained, IsTop, IsBuilt, LastEvent
<1>4. request'[r].pc \notin Answering \cup {"unlink", "release", "completed"}
  BY DEF Starting, Answering
<1>5. MessagesInv'
  BY <1>1, <1>4 DEF FileInv, MessagesInv, IsTop, IsBuilt
<1>6. AnswersStored'
  BY <1>1, <1>4 DEF FileInv, AnswersStored
<1>7. QED
  BY <1>2, <1>3, <1>5, <1>6 DEF FileInv

\* Nobody works or waits while a call activates.
LEMMA StartIsAlone ==
    ASSUME MutexInv, FileInv, NEW r \in Requests, request[r].pc \in Starting
    PROVE  \A s \in Requests : request[s].pc \notin {"lock"} \cup Holding
<1>1. SUFFICES ASSUME NEW s \in Requests, request[s].pc \in {"lock"} \cup Holding
               PROVE  FALSE
  OBVIOUS
<1>2. PICK a \in Actors : a = request[s].actor
  BY <1>1 DEF MutexInv, QueueInv
<1>3. Queue(a) \in Seq(Requests)
  BY DEF MutexInv, TypeOK, Queue
<1>4. Len(Queue(a)) > 0
  BY <1>1, <1>2, <1>3 DEF MutexInv, QueueInv
<1>5. Len(Queue(a)) = 0
  BY DEF FileInv, StartInv
<1>6. QED
  BY <1>4, <1>5

\* The new actor has what the files hold: the next generation, the log's sequence
\* and the stored conversation.
LEMMA BuildKeepsFiles ==
    ASSUME MutexInv, FileInv, NEW r \in Requests, NEW a \in Actors, Build(r, a)
    PROVE  FileInv'
<1>1. request \in [Requests -> RequestSet] /\ actor \in [Actors -> ActorSet] /\ request[r].pc = "build"
  BY TypesSplit DEF MutexInv, Build
<1>2. PICK new : new = [gen |-> request[r].gen, seq |-> request[r].seq, status |-> "recovering",
                        messages |-> request[r].messages, queue |-> <<r>>]
  OBVIOUS
<1>3. /\ actor' = [actor EXCEPT ![a] = new] /\ live' = a
      /\ request' = [request EXCEPT ![r].pc = "announce", ![r].actor = a]
      /\ UNCHANGED <<log, snap, refused, broken, faults>>
  BY <1>2 DEF Build, files
<1>4. actor'[a] = new /\ \A b \in Actors : b # a => actor'[b] = actor[b]
  BY <1>1, <1>3
<1>5. /\ request'[r].pc = "announce" /\ request'[r].actor = a
      /\ \A s \in Requests : s # r => request'[s] = request[s]
  BY <1>1, <1>3 DEF RequestSet
<1>6. /\ live = NoLive /\ \A b \in Actors : Len(Queue(b)) = 0
      /\ \A s \in Requests : request[s].pc \in Starting => s = r
      /\ request[r].gen = snap.gen + 1 /\ request[r].messages = snap.messages
      /\ request[r].seq = LastEvent.seq
  BY <1>1 DEF FileInv, StartInv, Starting
<1>7. new.gen = snap.gen + 1 /\ new.seq = LastEvent.seq /\ new.messages = snap.messages
      /\ new.queue = <<r>>
  BY <1>2, <1>6
<1>8. /\ \A b \in Actors : actor[b].gen \in Nat /\ actor[b].seq \in Nat
      /\ snap.gen \in Nat /\ snap.seq \in Nat
      /\ LastEvent.gen \in Nat /\ LastEvent.seq \in Nat
  BY Numbers
<1>9. /\ actor[a].gen = 0 /\ \A b \in 1..(a - 1) : actor[b].gen > 0
      /\ a \in Nat /\ \A b \in Actors : b \in Nat /\ b >= 1
  BY BoundsAssumption DEF Build, Actors
<1>10. a > 1 /\ a - 1 \in Actors
  <2>1. IsBuilt(1) /\ 1 \in Actors
    BY BoundsAssumption DEF FileInv, TopInv, Actors
  <2>2. a # 1
    BY <2>1, <1>9 DEF IsBuilt
  <2>3. a \in 1..MaxActors /\ MaxActors \in Nat
    BY BoundsAssumption DEF Actors
  <2>4. a > 1 /\ a - 1 \in 1..MaxActors
    BY <2>2, <2>3
  <2>5. QED
    BY <2>4 DEF Actors
<1>11. \A b \in Actors : b > a => ~IsBuilt(b)
  <2>1. ~IsBuilt(a)
    BY <1>9 DEF IsBuilt
  <2>2. QED
    BY <2>1 DEF FileInv, TopInv
<1>12. IsTop(a - 1)
  <2>1. a - 1 \in 1..(a - 1)
    BY <1>9, <1>10
  <2>2. IsBuilt(a - 1)
    BY <2>1, <1>9 DEF IsBuilt
  <2>3. \A b \in Actors : b > a - 1 => ~IsBuilt(b)
    <3>1. SUFFICES ASSUME NEW b \in Actors, b > a - 1
                   PROVE  ~IsBuilt(b)
      OBVIOUS
    <3>2. b = a \/ b > a
      <4>1. a \in Nat /\ b \in Nat
        BY <1>9
      <4>2. QED
        BY <3>1, <4>1
    <3>3. QED
      BY <3>2, <1>9, <1>11 DEF IsBuilt
  <2>4. QED
    BY <2>2, <2>3 DEF IsTop
<1>13. actor'[a].gen > 0 /\ \A b \in Actors : b > a => ~(actor'[b].gen > 0)
  <2>1. actor'[a].gen = snap.gen + 1 /\ snap.gen + 1 > 0
    BY <1>4, <1>7, <1>8
  <2>2. ASSUME NEW b \in Actors, b > a
        PROVE  ~(actor'[b].gen > 0)
    <3>1. b # a
      <4>1. a \in Nat
        BY <1>9
      <4>2. QED
        BY <4>1, <2>2
    <3>2. QED
      BY <3>1, <2>2, <1>4, <1>11 DEF IsBuilt
  <2>3. QED
    BY <2>1, <2>2
<1>14. \A b \in Actors : b # a => ~(actor'[b].gen > 0 /\ \A c \in Actors : c > b => ~(actor'[c].gen > 0))
  <2>1. SUFFICES ASSUME NEW b \in Actors, b # a, actor'[b].gen > 0
                 PROVE  \E c \in Actors : c > b /\ actor'[c].gen > 0
    OBVIOUS
  <2>2. b < a \/ b > a
    BY <2>1, <1>9
  <2>3. CASE b < a
    BY <2>3, <1>13
  <2>4. CASE b > a
    BY <2>1, <2>4, <1>13
  <2>5. QED
    BY <2>2, <2>3, <2>4
<1>15. \A b \in Actors : IsTop(b)' => b = a
  BY <1>14 DEF IsTop, IsBuilt
<1>16. TopInv'
  <2>1. actor'[1].gen > 0
    BY <1>4, <1>10, BoundsAssumption DEF FileInv, TopInv, IsBuilt, Actors
  <2>2. \A b, c \in Actors : b < c /\ actor'[c].gen > 0 => actor'[b].gen > 0
    <3>1. SUFFICES ASSUME NEW b \in Actors, NEW c \in Actors, b < c, actor'[c].gen > 0
                   PROVE  actor'[b].gen > 0
      OBVIOUS
    <3>2. a \in Nat /\ b \in Nat /\ c \in Nat /\ b >= 1
      BY <1>9
    <3>3. ~(c > a)
      BY <3>1, <1>13
    <3>4. b \in 1..(a - 1) /\ b # a
      BY <3>1, <3>2, <3>3
    <3>5. actor[b].gen > 0
      BY <3>4, <1>9
    <3>6. QED
      BY <3>4, <3>5, <1>4
  <2>3. \A b \in Actors : Len(actor'[b].queue) > 0 => b = a
    BY <1>4, <1>6 DEF Queue
  <2>4. QED
    BY <2>1, <2>2, <2>3, <1>3, <1>13 DEF TopInv, IsTop, IsBuilt, Queue
<1>17. StartInv'
  <2>1. \A s \in Requests : request'[s].pc \notin Starting
    BY <1>5, <1>6 DEF Starting
  <2>2. QED
    BY <2>1 DEF StartInv
<1>18. LastEvent' = LastEvent
  BY <1>3 DEF LastEvent
<1>19. FilesInv'
  <2>1. snap.gen <= actor[a - 1].gen /\ actor[a - 1].gen <= snap.gen + 1
        /\ LastEvent.gen <= actor[a - 1].gen
    BY <1>10, <1>12 DEF FileInv, FilesInv
  <2>2. actor[a - 1].gen \in Nat
    BY <1>8, <1>10
  <2>3. LastEvent.gen <= snap.gen + 1
    BY <2>1, <2>2, <1>8
  <2>4. ~broken => snap.seq <= LastEvent.seq
    BY DEF FileInv, FilesInv
  <2>5. QED
    BY <1>3, <1>4, <1>7, <1>8, <1>15, <1>18, <2>3, <2>4 DEF FilesInv
<1>20. MessagesInv'
  <2>1. \A b \in Actors : IsTop(b)' => snap'.messages \subseteq actor'[b].messages
    BY <1>3, <1>4, <1>7, <1>15
  <2>2. \A s \in Requests : request'[s].pc \notin Answering \cup {"unlink", "release"}
    <3>1. \A s \in Requests : request[s].pc \notin {"lock"} \cup Holding
      BY <1>1, StartIsAlone DEF Starting
    <3>2. QED
      BY <1>5, <3>1 DEF Answering, Holding, Turn
  <2>3. QED
    BY <2>1, <2>2 DEF MessagesInv
<1>21. LogOrdered' /\ RefusalsExplained'
  BY <1>3 DEF FileInv, LogOrdered, RefusalsExplained
<1>22. AnswersStored'
  <2>1. \A s \in Requests : request'[s].pc = "completed" =>
          request[s].pc = "completed" /\ request'[s].kind = request[s].kind
    BY <1>5
  <2>2. QED
    BY <2>1, <1>3 DEF FileInv, AnswersStored
<1>23. QED
  BY <1>16, <1>17, <1>19, <1>20, <1>21, <1>22 DEF FileInv

LEMMA ActivateKeepsFiles ==
    ASSUME MutexInv, FileInv, NEW r \in Requests, Activate(r)
    PROVE  FileInv'
<1>1. TypeOK /\ FilesTyped /\ RestTyped /\ request \in [Requests -> RequestSet]
  BY TypesSplit DEF MutexInv
<1>2. ASSUME request[r].pc \in Starting
      PROVE  /\ live = NoLive /\ \A b \in Actors : Len(Queue(b)) = 0
             /\ \A s \in Requests : request[s].pc \in Starting => s = r
             /\ request[r].pc # "load" =>
                  request[r].gen = snap.gen + 1 /\ request[r].messages = snap.messages
             /\ request[r].pc \in {"lease", "locked", "build"} => request[r].seq = LastEvent.seq
  BY <1>2 DEF FileInv, StartInv
<1>3. ASSUME request[r].pc \in Starting, \A s \in Requests : s # r => request'[s] = request[s],
             UNCHANGED <<live, actor, files>>, request'[r].pc \in Starting \ {"load"},
             request'[r].gen = snap.gen + 1, request'[r].messages = snap.messages,
             request'[r].pc \in {"lease", "locked", "build"} => request'[r].seq = LastEvent.seq
      PROVE  FileInv'
  <2>1. snap' = snap /\ LastEvent' = LastEvent /\ live' = live
        /\ \A b \in Actors : actor'[b].queue = Queue(b)
    BY <1>3 DEF files, LastEvent, Queue
  <2>2. \A s \in Requests : request'[s].pc \in Starting => s = r
    BY <1>2, <1>3
  <2>3. StartInv'
    BY <1>2, <1>3, <2>1, <2>2 DEF StartInv, Queue
  <2>4. QED
    BY <1>3, <2>3, StarterKeepsFiles
<1>4. CASE Load(r)
  <2>1. /\ request'[r].pc = "sequence" /\ request'[r].gen = snap.gen + 1
        /\ request'[r].messages = snap.messages
        /\ \A s \in Requests : s # r => request'[s] = request[s]
    BY <1>1, <1>4 DEF Load, RequestSet
  <2>2. request[r].pc = "load" /\ UNCHANGED <<live, actor, files>>
    BY <1>4 DEF Load
  <2>3. QED
    BY <1>3, <2>1, <2>2 DEF Starting
<1>5. CASE LastSequence(r)
  <2>1. /\ request'[r].pc = "lease" /\ request'[r].gen = request[r].gen
        /\ request'[r].messages = request[r].messages /\ request'[r].seq = LastEvent.seq
        /\ \A s \in Requests : s # r => request'[s] = request[s]
    BY <1>1, <1>5 DEF LastSequence, RequestSet
  <2>2. request[r].pc = "sequence" /\ UNCHANGED <<live, actor, files>>
    BY <1>5 DEF LastSequence
  <2>3. QED
    BY <1>2, <1>3, <2>1, <2>2 DEF Starting
<1>6. ASSUME Goto(r, "locked") \/ Goto(r, "build"), request[r].pc \in {"lease", "locked"},
             UNCHANGED <<live, actor, files>>
      PROVE  FileInv'
  <2>1. PICK p \in {"locked", "build"} : Goto(r, p)
    BY <1>6
  <2>2. p \in PCs
    BY <2>1 DEF PCs, Activating
  <2>3. Moves(r, p)
    BY <1>1, <2>1, <2>2, GotoMoves
  <2>4. \A s \in Requests : s # r => request'[s] = request[s]
    BY <1>1, <2>1 DEF Goto
  <2>5. /\ request'[r].pc = p /\ request'[r].gen = request[r].gen
        /\ request'[r].messages = request[r].messages /\ request'[r].seq = request[r].seq
    BY <2>3 DEF Moves
  <2>6. QED
    BY <1>2, <1>3, <1>6, <2>1, <2>4, <2>5 DEF Starting
<1>7. CASE AcquireLease(r)
  <2>1. request[r].pc = "lease" /\ UNCHANGED <<live, actor, files>>
    BY <1>7 DEF AcquireLease
  <2>2. CASE Goto(r, "thrown")
    <3>1. Moves(r, "thrown")
      BY <1>1, <2>2, GotoMoves DEF PCs, Results
    <3>2. \A s \in Requests : s # r => request'[s] = request[s]
      BY <1>1, <2>2 DEF Goto
    <3>3. \A s \in Requests : request'[s].pc \notin Starting
      BY <1>2, <2>1, <3>1, <3>2 DEF Moves, Starting
    <3>4. StartInv'
      BY <3>3 DEF StartInv
    <3>5. request'[r].pc \in Starting \cup {"thrown"}
      BY <3>1 DEF Moves
    <3>6. QED
      BY <2>1, <3>2, <3>4, <3>5, StarterKeepsFiles
  <2>3. QED
    BY <2>1, <2>2, <1>6, <1>7 DEF AcquireLease
<1>8. CASE LeaseAcquired(r)
  BY <1>6, <1>8 DEF LeaseAcquired
<1>9. CASE \E a \in Actors : Build(r, a)
  BY <1>9, BuildKeepsFiles
<1>10. request[r].pc \in Holding => AtHead(r)
  BY HolderIsFirst DEF MutexInv
<1>11. CASE Announce(r)
  <2>1. AtHead(r)
    BY <1>10, <1>11 DEF Announce, Holding
  <2>2. QED
    BY <2>1, <1>11, EmitKeepsFiles DEF Announce, Holding, Statuses, Answering
<1>12. CASE Open(r)
  <2>1. AtHead(r)
    BY <1>10, <1>12 DEF Open, Holding
  <2>2. QED
    BY <2>1, <1>12, SetStatusKeepsFiles DEF Open, Holding, Statuses, Answering
<1>13. CASE Store(r)
  <2>1. AtHead(r) /\ request[r].actor \in Actors
    BY <1>10, <1>13 DEF Store, Holding, AtHead
  <2>2. UNCHANGED <<live, lease, log, refused, broken, history>> /\ RestTyped'
    BY <1>1, <1>13 DEF Store, RestTyped, history
  <2>3. CASE /\ snap' = Stored(request[r].actor) /\ Goto(r, "lock") /\ UNCHANGED faults
             /\ actor' = [actor EXCEPT ![request[r].actor].queue = Append(Tail(@), r)]
    <3>1. FilesTyped'
      BY <1>1, <2>1, <2>2, <2>3, StoredTyped DEF FilesTyped
    <3>2. \A b \in Actors : /\ actor'[b].gen = actor[b].gen /\ actor'[b].seq = actor[b].seq
                            /\ actor'[b].messages = actor[b].messages
                            /\ (Len(Queue(b)') > 0 => Len(Queue(b)) > 0)
      BY <2>1, <2>2, <2>3, <3>1, RequeueKeepsMutex
    <3>3. Moves(r, "lock")
      BY <1>1, <2>3, GotoMoves DEF PCs, Turn
    <3>4. QED
      BY <2>1, <2>2, <2>3, <3>2, <3>3, PassKeepsFiles
  <2>4. CASE IoError /\ Goto(r, "thrown") /\ Leave(r) /\ UNCHANGED snap
    <3>1. FilesTyped'
      BY <1>1, <2>2, <2>4, FaultTyped
    <3>2. Moves(r, "thrown") /\ request' \in [Requests -> RequestSet]
      BY <1>1, <2>4, GotoMoves DEF PCs, Results
    <3>3. \A b \in Actors : /\ actor'[b].gen = actor[b].gen /\ actor'[b].seq = actor[b].seq
                            /\ actor'[b].messages = actor[b].messages
                            /\ (Len(Queue(b)') > 0 => Len(Queue(b)) > 0)
      BY <2>1, <2>2, <2>4, <3>1, <3>2, LeaverKeepsMutex DEF Results
    <3>4. QED
      BY <2>1, <2>2, <2>4, <3>2, <3>3, PassKeepsFiles DEF Results
  <2>5. QED
    BY <1>13, <2>3, <2>4 DEF Store
<1>14. QED
  BY <1>4, <1>5, <1>7, <1>8, <1>9, <1>11, <1>12, <1>13 DEF Activate

\* A call that does not race joins the last actor, or is alone to activate one.
LEMMA DispatchKeepsFiles ==
    ASSUME MutexInv, FileInv, NEW r \in Requests, Dispatch(r)
    PROVE  raced' \/ FileInv'
<1>1. /\ TypeOK /\ FilesTyped /\ RestTyped
      /\ request \in [Requests -> RequestSet] /\ actor \in [Actors -> ActorSet]
      /\ request[r].pc = "new" /\ UNCHANGED <<live, lease, files, crashes>>
  BY TypesSplit DEF MutexInv, Dispatch
<1>2. CASE live = NoLive /\ Quiet /\ Goto(r, "load") /\ UNCHANGED actor
  <2>1. Moves(r, "load")
    BY <1>1, <1>2, GotoMoves DEF PCs, Activating
  <2>2. \A s \in Requests : s # r => request'[s] = request[s]
    BY <1>1, <1>2 DEF Goto
  <2>3. request'[r].pc = "load"
    BY <2>1 DEF Moves
  <2>4. \A s \in Requests : request[s].pc \notin Starting
    BY <1>2 DEF Quiet, Starting, Activating
  <2>5. \A s \in Requests : request'[s].pc \in Starting => s = r
    BY <2>2, <2>4
  <2>6. \A b \in Actors : Len(actor'[b].queue) = 0
    BY <1>2 DEF Quiet
  <2>7. live' = NoLive
    BY <1>1, <1>2
  <2>8. StartInv'
    BY <2>3, <2>5, <2>6, <2>7 DEF StartInv, Queue
  <2>9. QED
    BY <1>1, <1>2, <2>2, <2>3, <2>8, StarterKeepsFiles DEF Starting
<1>3. CASE /\ live # NoLive
           /\ request' = [request EXCEPT ![r].pc = "lock", ![r].actor = live]
           /\ actor' = [actor EXCEPT ![live].queue = Append(@, r)]
  <2>1. PICK a \in Actors : a = live
    BY <1>1, <1>3 DEF RestTyped, history
  <2>2. /\ \A b \in Actors : b # a => actor'[b] = actor[b]
        /\ actor'[a].gen = actor[a].gen /\ actor'[a].seq = actor[a].seq
        /\ actor'[a].messages = actor[a].messages
    BY <1>1, <1>3, <2>1 DEF ActorSet
  <2>3. \A b \in Actors : /\ actor'[b].gen = actor[b].gen /\ actor'[b].seq = actor[b].seq
                          /\ actor'[b].messages = actor[b].messages
                          /\ b # a => actor'[b].queue = Queue(b)
    BY <2>2 DEF Queue
  <2>4. /\ request'[r].pc = "lock"
        /\ \A s \in Requests : s # r => request'[s] = request[s]
    BY <1>1, <1>3 DEF RequestSet
  <2>5. UNCHANGED <<log, snap, refused, broken, faults>> /\ live' = a
    BY <1>1, <2>1 DEF files
  <2>6. IsTop(a)
    BY <1>3, <2>1 DEF FileInv, TopInv
  <2>7. \A b \in Actors : IsTop(b)' <=> IsTop(b)
    BY <2>3 DEF IsTop, IsBuilt
  <2>8. TopInv'
    <3>1. actor'[1].gen > 0
      BY <2>3, BoundsAssumption DEF FileInv, TopInv, IsBuilt, Actors
    <3>2. \A b, c \in Actors : b < c /\ actor'[c].gen > 0 => actor'[b].gen > 0
      BY <2>3 DEF FileInv, TopInv, IsBuilt
    <3>3. \A b \in Actors : Len(actor'[b].queue) > 0 => IsTop(b)'
      BY <2>3, <2>6, <2>7 DEF FileInv, TopInv
    <3>4. actor'[a].gen > 0 /\ \A b \in Actors : b > a => ~(actor'[b].gen > 0)
      BY <2>3, <2>6 DEF IsTop, IsBuilt
    <3>5. QED
      BY <2>5, <3>1, <3>2, <3>3, <3>4 DEF TopInv, IsTop, IsBuilt, Queue
  <2>9. StartInv'
    <3>1. \A s \in Requests : request[s].pc \notin Starting
      BY <1>3 DEF FileInv, StartInv
    <3>2. \A s \in Requests : request'[s].pc \notin Starting
      BY <2>4, <3>1 DEF Starting
    <3>3. QED
      BY <3>2 DEF StartInv
  <2>10. LastEvent' = LastEvent
    BY <2>5 DEF LastEvent
  <2>11. FilesInv' /\ LogOrdered' /\ RefusalsExplained'
    BY <2>3, <2>5, <2>7, <2>10 DEF FileInv, FilesInv, LogOrdered, RefusalsExplained
  <2>12. MessagesInv'
    <3>1. \A b \in Actors : IsTop(b)' => snap'.messages \subseteq actor'[b].messages
      BY <2>3, <2>5, <2>7 DEF FileInv, MessagesInv
    <3>2. \A s \in Requests : request'[s].pc \in Answering \cup {"unlink", "release"} =>
            request[s].actor \in Actors /\ request'[s] = request[s]
      BY <2>4 DEF MutexInv, QueueInv, Answering, Holding, Turn
    <3>3. QED
      BY <2>3, <3>1, <3>2 DEF FileInv, MessagesInv
  <2>13. AnswersStored'
    <3>1. \A s \in Requests : request'[s].pc = "completed" => request'[s] = request[s]
      BY <2>4
    <3>2. QED
      BY <2>5, <3>1 DEF FileInv, AnswersStored
  <2>14. QED
    BY <2>8, <2>9, <2>11, <2>12, <2>13 DEF FileInv
<1>4. CASE raced' = (raced \/ ~Quiet) /\ ~Quiet
  BY <1>4
<1>5. QED
  BY <1>2, <1>3, <1>4 DEF Dispatch

LEMMA CrashKeepsFiles ==
    ASSUME MutexInv, FileInv, Crash
    PROVE  FileInv'
<1>1. request \in [Requests -> RequestSet] /\ actor \in [Actors -> ActorSet]
  BY TypesSplit DEF MutexInv
<1>2. UNCHANGED <<log, snap, refused, broken, faults>> /\ live' = NoLive
  BY DEF Crash, files
<1>3. \A a \in Actors : /\ actor'[a].gen = actor[a].gen /\ actor'[a].seq = actor[a].seq
                        /\ actor'[a].messages = actor[a].messages
  <2>1. SUFFICES ASSUME NEW a \in Actors
                 PROVE  /\ actor'[a].gen = actor[a].gen /\ actor'[a].seq = actor[a].seq
                        /\ actor'[a].messages = actor[a].messages
    OBVIOUS
  <2>2. CASE actor[a].gen = 0
    BY <2>2 DEF Crash
  <2>3. CASE actor[a].gen # 0
    <3>1. actor'[a] = [actor[a] EXCEPT !.status = "closed", !.queue = <<>>]
      BY <2>3 DEF Crash
    <3>2. QED
      BY <1>1, <3>1 DEF ActorSet
  <2>4. QED
    BY <2>2, <2>3
<1>4. \A a \in Actors : Len(actor'[a].queue) = 0
  <2>1. SUFFICES ASSUME NEW a \in Actors
                 PROVE  Len(actor'[a].queue) = 0
    OBVIOUS
  <2>2. CASE actor[a].gen = 0
    <3>1. actor'[a] = actor[a]
      BY <2>2 DEF Crash
    <3>2. QED
      BY <2>2, <3>1 DEF MutexInv, BuiltInv, IsBuilt, Queue
  <2>3. CASE actor[a].gen # 0
    <3>1. actor'[a] = [actor[a] EXCEPT !.status = "closed", !.queue = <<>>]
      BY <2>3 DEF Crash
    <3>2. QED
      BY <1>1, <3>1 DEF ActorSet
  <2>4. QED
    BY <2>2, <2>3
<1>5. \A r \in Requests :
        /\ request'[r].pc \in {"new"} \cup Results
        /\ request'[r].pc = "completed" => request'[r] = request[r]
  <2>1. SUFFICES ASSUME NEW r \in Requests
                 PROVE  /\ request'[r].pc \in {"new"} \cup Results
                        /\ request'[r].pc = "completed" => request'[r] = request[r]
    OBVIOUS
  <2>2. CASE request[r].pc \in {"new"} \cup Results
    BY <2>2 DEF Crash
  <2>3. CASE request[r].pc \notin {"new"} \cup Results
    <3>1. request'[r] = [request[r] EXCEPT !.pc = "lost"]
      BY <2>3 DEF Crash
    <3>2. request'[r].pc = "lost"
      BY <1>1, <3>1 DEF RequestSet
    <3>3. QED
      BY <3>2 DEF Results
  <2>4. QED
    BY <2>2, <2>3
<1>6. \A a \in Actors : IsTop(a)' <=> IsTop(a)
  BY <1>3 DEF IsTop, IsBuilt
<1>7. TopInv'
  <2>1. actor'[1].gen > 0
    BY <1>3, BoundsAssumption DEF FileInv, TopInv, IsBuilt, Actors
  <2>2. \A b, c \in Actors : b < c /\ actor'[c].gen > 0 => actor'[b].gen > 0
    BY <1>3 DEF FileInv, TopInv, IsBuilt
  <2>3. QED
    BY <1>2, <1>4, <2>1, <2>2 DEF TopInv, IsBuilt, Queue
<1>8. StartInv'
  <2>1. \A r \in Requests : request'[r].pc \notin Starting
    BY <1>5 DEF Starting, Results
  <2>2. QED
    BY <2>1 DEF StartInv
<1>9. LastEvent' = LastEvent
  BY <1>2 DEF LastEvent
<1>10. FilesInv' /\ LogOrdered' /\ RefusalsExplained'
  BY <1>2, <1>3, <1>6, <1>9 DEF FileInv, FilesInv, LogOrdered, RefusalsExplained
<1>11. MessagesInv'
  <2>1. \A b \in Actors : IsTop(b)' => snap'.messages \subseteq actor'[b].messages
    BY <1>2, <1>3, <1>6 DEF FileInv, MessagesInv
  <2>2. \A r \in Requests : request'[r].pc \notin Answering \cup {"unlink", "release"}
    BY <1>5 DEF Answering, Results
  <2>3. QED
    BY <2>1, <2>2 DEF MessagesInv
<1>12. AnswersStored'
  BY <1>2, <1>5 DEF FileInv, AnswersStored
<1>13. QED
  BY <1>7, <1>8, <1>10, <1>11, <1>12 DEF FileInv

LEMMA InitFiles ==
    ASSUME Init
    PROVE  FileInv
<1>1. 1 \in Actors /\ NoLive # 1 /\ \A a \in Actors : a \in Nat /\ a >= 1
  BY BoundsAssumption DEF Actors, NoLive
<1>2. /\ actor[1].gen = 1 /\ actor[1].seq = 1 /\ actor[1].messages = {}
      /\ \A a \in Actors : a # 1 => actor[a].gen = 0
      /\ \A a \in Actors : Len(actor[a].queue) = 0
  <2>1. PICK first : first = [gen |-> 1, seq |-> 1, status |-> "idle", messages |-> {},
                              queue |-> <<>>]
    OBVIOUS
  <2>2. \A a \in Actors : actor[a] = IF a = 1 THEN first ELSE NoActor
    BY <2>1 DEF Init
  <2>3. /\ first.gen = 1 /\ first.seq = 1 /\ first.messages = {} /\ Len(first.queue) = 0
        /\ NoActor.gen = 0 /\ Len(NoActor.queue) = 0
    BY <2>1 DEF NoActor
  <2>4. QED
    BY <1>1, <2>2, <2>3
<1>3. /\ live = 1 /\ refused = FALSE /\ log = <<Event(1, 1, "idle", None)>>
      /\ snap = [gen |-> 1, seq |-> 1, status |-> "idle", messages |-> {}]
  BY DEF Init
<1>4. /\ snap.gen = 1 /\ snap.seq = 1 /\ snap.messages = {}
      /\ Len(log) = 1 /\ LastEvent.gen = 1 /\ LastEvent.seq = 1
  BY <1>3 DEF LastEvent, Event
<1>5. \A r \in Requests : request[r].pc = "new"
  BY DEF Init
<1>6. \A a \in Actors : IsBuilt(a) <=> a = 1
  BY <1>2 DEF IsBuilt
<1>7. IsTop(1) /\ \A a \in Actors : IsTop(a) => a = 1
  BY <1>1, <1>6 DEF IsTop
<1>8. TopInv
  <2>1. \A a, b \in Actors : a < b /\ IsBuilt(b) => IsBuilt(a)
    <3>1. SUFFICES ASSUME NEW a \in Actors, NEW b \in Actors, a < b, b = 1
                   PROVE  FALSE
      BY <1>6
    <3>2. QED
      BY <3>1, <1>1
  <2>2. QED
    BY <1>1, <1>2, <1>3, <1>6, <1>7, <2>1 DEF TopInv, Queue
<1>9. StartInv
  BY <1>5 DEF StartInv, Starting
<1>10. FilesInv
  BY <1>2, <1>3, <1>4, <1>7 DEF FilesInv
<1>11. MessagesInv
  BY <1>4, <1>5 DEF MessagesInv, Answering
<1>12. LogOrdered
  <2>1. \A i, j \in 1..Len(log) : ~(i < j)
    BY <1>4
  <2>2. QED
    BY <2>1 DEF LogOrdered
<1>13. RefusalsExplained /\ AnswersStored
  BY <1>3, <1>5 DEF RefusalsExplained, AnswersStored
<1>14. QED
  BY <1>8, <1>9, <1>10, <1>11, <1>12, <1>13 DEF FileInv

\* A step that stores the snapshot stores the last actor's.
LEMMA SavesAreOfTheLast ==
    ASSUME MutexInv, FileInv, Next
    PROVE  snap' = snap \/ \E a \in Actors : IsTop(a) /\ snap' = Stored(a)
<1>1. ASSUME NEW r \in Requests, AtHead(r), snap' = Stored(request[r].actor)
      PROVE  \E a \in Actors : IsTop(a) /\ snap' = Stored(a)
  BY <1>1 DEF AtHead, FileInv, TopInv
<1>2. ASSUME NEW r \in Requests,
             \/ request[r].pc \in Holding
             \/ request[r].pc = "lock" /\ Head(actor[request[r].actor].queue) = r
      PROVE  AtHead(r)
  BY <1>2, HolderIsFirst DEF MutexInv
<1>3. CASE Crash \/ Finished
  BY <1>3 DEF Crash, Finished, vars, files
<1>4. ASSUME NEW r \in Requests, Dispatch(r)
      PROVE  snap' = snap
  BY <1>4 DEF Dispatch, files
<1>5. ASSUME NEW r \in Requests, Activate(r)
      PROVE  snap' = snap \/ \E a \in Actors : IsTop(a) /\ snap' = Stored(a)
  <2>1. CASE Store(r)
    <3>1. AtHead(r)
      BY <2>1, <1>2 DEF Store, Holding
    <3>2. QED
      BY <2>1, <3>1, <1>1 DEF Store
  <2>2. CASE Announce(r) \/ Open(r)
    BY <2>2 DEF Announce, Open, SetStatus, Emit, files
  <2>3. CASE \/ Load(r) \/ LastSequence(r) \/ AcquireLease(r) \/ LeaseAcquired(r)
             \/ \E a \in Actors : Build(r, a)
    BY <2>3 DEF Load, LastSequence, AcquireLease, LeaseAcquired, Build, files
  <2>4. QED
    BY <1>5, <2>1, <2>2, <2>3 DEF Activate
<1>6. ASSUME NEW r \in Requests, Command(r)
      PROVE  snap' = snap \/ \E a \in Actors : IsTop(a) /\ snap' = Stored(a)
  <2>1. CASE Accept(r) \/ Save(r) \/ FailedSave(r)
    <3>1. AtHead(r)
      BY <2>1, <1>2 DEF Accept, Save, FailedSave, Holds, Holding, Turn
    <3>2. QED
      BY <2>1, <3>1, <1>1 DEF Accept, Save, FailedSave
  <2>2. CASE Model(r) \/ Unlink(r) \/ Release(r) \/ Unwind(r)
    BY <2>2 DEF Model, Unlink, Release, Unwind, files
  <2>3. CASE Message(r) \/ Answer(r) \/ Update(r) \/ Failed(r)
    BY <2>3 DEF Message, Answer, Update, Failed, Emit
  <2>4. CASE \/ Prompt(r) \/ Settle(r) \/ Pause(r) \/ Resume(r) \/ Close(r) \/ FailedIdle(r)
    BY <2>4 DEF Prompt, Settle, Pause, Resume, Close, FailedIdle, SetStatus, Emit, files
  <2>5. QED
    BY <1>6, <2>1, <2>2, <2>3, <2>4 DEF Command
<1>7. QED
  BY <1>3, <1>4, <1>5, <1>6 DEF Next

-----------------------------------------------------------------------------
(* Theorems *)

\* That a request has raced is not forgotten.
LEMMA RacedStays ==
    ASSUME Next, raced
    PROVE  raced'
<1>1. CASE Crash \/ Finished
  BY <1>1 DEF Crash, Finished, vars, history
<1>2. ASSUME NEW r \in Requests, Dispatch(r)
      PROVE  raced'
  BY <1>2 DEF Dispatch
<1>3. ASSUME NEW r \in Requests, Activate(r)
      PROVE  raced'
  <2>1. history' = history
    BY <1>3 DEF Activate, Load, LastSequence, AcquireLease, LeaseAcquired, Build, Announce, Open,
                Store
  <2>2. QED
    BY <2>1 DEF history
<1>4. ASSUME NEW r \in Requests, Command(r)
      PROVE  raced'
  <2>1. history' = history
    BY <1>4 DEF Command, Prompt, Message, Accept, Model, Answer, Settle, Update, Pause, Resume,
                Close, Unlink, Release, Save, Failed, FailedIdle, FailedSave, Unwind
  <2>2. QED
    BY <2>1 DEF history
<1>5. QED
  BY <1>1, <1>2, <1>3, <1>4 DEF Next

\* Until a request races, the actor built last is in step with the event file and
\* the snapshot, through failures and crashes.
THEOREM Invariance == Spec => []IInv
<1>1. Init => IInv
  BY InitMutex, InitFiles DEF IInv
<1>2. IInv /\ [Next]_vars => IInv'
  <2>1. SUFFICES ASSUME MutexInv, raced \/ FileInv, [Next]_vars
                 PROVE  MutexInv' /\ (raced' \/ FileInv')
    BY DEF IInv
  <2>2. CASE UNCHANGED vars
    <3>1. MutexInv'
      BY <2>1, <2>2, StutterKeepsMutex
    <3>2. UNCHANGED <<request, live, actor, log, snap, refused, broken, raced>>
      BY <2>2 DEF vars, files, history
    <3>3. CASE raced
      BY <3>1, <3>2, <3>3
    <3>4. CASE FileInv
      <4>1. TopInv' /\ StartInv' /\ MessagesInv' /\ AnswersStored'
        BY <3>4, <3>2 DEF FileInv, TopInv, StartInv, MessagesInv, AnswersStored, IsTop, IsBuilt,
                          Queue, LastEvent
      <4>2. FilesInv' /\ LogOrdered' /\ RefusalsExplained'
        BY <3>4, <3>2 DEF FileInv, FilesInv, LogOrdered, RefusalsExplained, IsTop, IsBuilt,
                          LastEvent
      <4>3. QED
        BY <3>1, <4>1, <4>2 DEF FileInv
    <3>5. QED
      BY <2>1, <3>3, <3>4
  <2>3. CASE Next
    <3>1. MutexInv'
      BY <2>1, <2>2, <2>3, CrashKeepsMutex, DispatchKeepsMutex, ActivateKeepsMutex,
         CommandKeepsMutex, StutterKeepsMutex DEF Next, Finished
    <3>2. CASE raced
      BY <2>3, <3>1, <3>2, RacedStays
    <3>3. CASE FileInv
      <4>1. CASE Crash
        BY <2>1, <3>1, <3>3, <4>1, CrashKeepsFiles
      <4>2. ASSUME NEW r \in Requests, Dispatch(r) \/ Activate(r) \/ Command(r)
            PROVE  raced' \/ FileInv'
        BY <2>1, <3>3, <4>2, DispatchKeepsFiles, ActivateKeepsFiles, CommandKeepsFiles
      <4>3. CASE Finished
        BY <2>2, <4>3 DEF Finished
      <4>4. QED
        BY <2>3, <3>1, <4>1, <4>2, <4>3 DEF Next
    <3>4. QED
      BY <2>1, <3>2, <3>3
  <2>4. QED
    BY <2>1, <2>2, <2>3
<1>3. QED
  BY <1>1, <1>2, PTL DEF Spec

\* A prompt that was answered is in the stored conversation for good, whatever
\* fails or dies afterwards, until a request finds no actor during an activation
\* or a close.
THEOREM CompletedIsDurableHolds == Spec => []CompletedIsDurable
<1>1. IInv => CompletedIsDurable
  BY DEF IInv, FileInv, CompletedIsDurable
<1>2. QED
  BY <1>1, Invariance, PTL

\* Sequence numbers in the event file increase, and generations never decrease,
\* until a request races.
THEOREM SequencesIncreaseHolds == Spec => []SequencesIncrease
<1>1. IInv => SequencesIncrease
  BY DEF IInv, FileInv, SequencesIncrease
<1>2. QED
  BY <1>1, Invariance, PTL

\* Until a request races, the event file refuses the supervisor's own events only
\* after an append has failed, however many saves and close handlers fail.
THEOREM RefusedAfterFaultHolds == Spec => []RefusedAfterFault
<1>1. IInv => RefusedAfterFault
  BY DEF IInv, FileInv, RefusedAfterFault
<1>2. QED
  BY <1>1, Invariance, PTL

\* Until a request races, the stored generation never goes back, nor the stored
\* sequence as long as no append has failed.
THEOREM SnapshotNeverRegressesHolds == Spec => SnapshotNeverRegresses
<1> DEFINE Forward == snap'.gen >= snap.gen /\ (~broken => snap'.seq >= snap.seq)
<1>1. IInv /\ [Next]_vars => [raced \/ Forward]_vars
  <2>1. SUFFICES ASSUME MutexInv, FileInv, Next
                 PROVE  Forward
    BY DEF IInv
  <2>2. /\ \A a \in Actors : actor[a].gen \in Nat /\ actor[a].seq \in Nat
        /\ snap.gen \in Nat /\ snap.seq \in Nat /\ LastEvent.seq \in Nat
    BY <2>1, Numbers
  <2>3. CASE snap' = snap
    BY <2>2, <2>3
  <2>4. ASSUME NEW a \in Actors, IsTop(a), snap' = Stored(a)
        PROVE  Forward
    <3>1. snap'.gen = actor[a].gen /\ snap'.seq = actor[a].seq
      BY <2>4 DEF Stored
    <3>2. /\ snap.gen <= actor[a].gen
          /\ ~broken => actor[a].seq = LastEvent.seq /\ snap.seq <= LastEvent.seq
      BY <2>1, <2>4 DEF FileInv, FilesInv
    <3>3. QED
      BY <2>2, <3>1, <3>2
  <2>5. QED
    BY <2>1, <2>3, <2>4, SavesAreOfTheLast
<1>2. QED
  BY <1>1, Invariance, PTL DEF Spec, SnapshotNeverRegresses
=============================================================================
