---------------------------- MODULE KernelProofs ----------------------------
(***************************************************************************)
(* Proofs about Kernel for every set of calls, every limit on the host     *)
(* requests of an execution and every bound on those that are written.     *)
(*                                                                         *)
(* A host request is a line of the process's output that may arrive when   *)
(* its execution, its call or the process is gone.  The invariant says why *)
(* what the client knows then, the active execution and the frame that is  *)
(* pending, is enough: a pending frame is the one its call waits for, and  *)
(* nothing is read behind the goodbye of a process.                        *)
(***************************************************************************)
EXTENDS Kernel, SequenceTheorems, FiniteSetTheorems, FunctionTheorems, TLAPS

Waiting == {"lock"} \cup Holding

\* The types of the variables, component by component.
ManagerTypes ==
    /\ current \in Calls \cup {None}
    /\ pc \in [Calls -> {"idle", "lock"} \cup Building \cup Holding \cup Ended]
    /\ on \in [Calls -> Calls \cup {None}]
    /\ queue \in [Calls -> Seq(Calls)]
    /\ aborted \in [Calls -> BOOLEAN]

ClientTypes ==
    /\ phase \in [Calls -> {"absent", "starting", "ready", "lost", "shut", "closed"}]
    /\ active \in [Calls -> Calls \cup {None}]
    /\ pending \in [Calls -> SUBSET (Kinds \X Calls)]
    /\ closing \in [Calls -> SUBSET {"session", "builder"}]

States == [run : Calls \cup {None, "exited"}, wait : 0..MaxWritten]

ProcessTypes ==
    /\ input \in [Calls -> Seq(Frames)] /\ output \in [Calls -> Seq(Frames)]
    /\ python \in [Calls -> States]
    /\ sent \in [Calls -> 0..MaxWritten] /\ written \in 0..MaxWritten

BrokerTypes ==
    /\ counted \in [Calls -> 0..MaxWritten]
    /\ served \in [Calls -> [Requests -> {"new", "working", "answered"}]]
    /\ echoes \in [Calls -> [Requests -> 0..MaxWritten]]
    /\ nested \in [Calls -> [Requests -> Calls \cup {None}]]
    /\ invoked \in [Calls -> [Requests -> Nat]]

Types == ManagerTypes /\ ClientTypes /\ ProcessTypes /\ BrokerTypes

\* A call that has no kernel yet has left no trace; one that builds uses its own.
FreshInv ==
    /\ \A c \in Calls : pc[c] \in {"idle", "make"} =>
         /\ on[c] = None /\ phase[c] = "absent"
         /\ counted[c] = 0 /\ \A i \in Requests : echoes[c][i] = 0
    /\ \A c \in Calls : pc[c] \in Building \ {"make"} => on[c] = c

\* A kernel that a call or the session's entry names was made.
MadeInv ==
    /\ current \in Calls => phase[current] # "absent"
    /\ \A c \in Calls : on[c] \in Calls => phase[on[c]] # "absent"

\* The mutex of a kernel: its holder is first, and who waits is behind it, once.
QueueInv ==
    /\ \A k \in Calls : \A j \in 1..Len(queue[k]) :
         /\ on[queue[k][j]] = k
         /\ pc[queue[k][j]] \in Waiting
         /\ j # 1 => pc[queue[k][j]] = "lock"
    /\ \A k \in Calls : \A i, j \in 1..Len(queue[k]) : i # j => queue[k][i] # queue[k][j]
    /\ \A c \in Calls : pc[c] \in Waiting => on[c] \in Calls
    /\ \A c \in Calls : pc[c] \in Holding => Len(queue[on[c]]) > 0 /\ queue[on[c]][1] = c
    /\ \A c \in Calls : pc[c] = "lock" =>
         \E j \in 1..Len(queue[on[c]]) : queue[on[c]][j] = c

\* A frame is pending at a process that can answer it, and its call waits for it.
PendingInv == \A k \in Calls :
    /\ pending[k] # {} => phase[k] \in {"ready", "shut"}
    /\ \A c \in Calls :
         /\ <<"execute", c>> \in pending[k] => pc[c] = "execute" /\ on[c] = k
         /\ <<"snapshot", c>> \in pending[k] => pc[c] = "snapshot" /\ on[c] = k
         /\ <<"restore", c>> \in pending[k] => pc[c] = "restore" /\ c = k

\* The goodbye of a process is the last line it writes.
ByeInv == \A k \in Calls :
    /\ \A j \in 1..Len(output[k]) : output[k][j].kind = "shutdown" =>
         j = Len(output[k]) /\ python[k].run = "exited"
    /\ phase[k] = "shut" => output[k] = <<>> /\ python[k].run = "exited"

\* What is counted was written: with the requests still on the way, an execution
\* accounts for no more than all that were ever written.
Asked(s) == Cardinality({j \in 1..Len(s) : s[j].kind = "host_request"})

CountInv ==
    /\ \A k \in Calls : Asked(output[k]) <= written
    /\ \A c \in Calls : sent[c] <= written
    /\ \A c \in Calls : on[c] \in Calls =>
         /\ counted[c] + Asked(output[on[c]]) <= written
         /\ \A i \in Requests : echoes[c][i] + Asked(output[on[c]]) <= written

\* Work at the broker is that of a call that executes or has ended well, or its
\* controller is aborted; a new request has never been there.
WorkInv ==
    /\ \A c \in Calls : pc[c] = "execute" => ~aborted[c]
    /\ \A c \in Calls, i \in Requests :
         /\ served[c][i] = "new" => invoked[c][i] = 0
         /\ served[c][i] = "working" =>
              /\ on[c] \in Calls
              /\ \/ pc[c] \in {"execute", "snapshot", "done"}
                 \/ pc[c] = "cut" /\ aborted[c]

IInv == /\ Types /\ FreshInv /\ MadeInv /\ QueueInv /\ PendingInv /\ ByeInv
        /\ CountInv /\ WorkInv

\* Beside it: nothing was sent to a process that never was ready.
Sent == {"execute", "snapshot"}
SentInv == \A c \in Calls : pc[c] \in Sent =>
             on[c] \in Calls /\ phase[on[c]] \in {"ready", "shut"}

-----------------------------------------------------------------------------
(* Lines, and how many of them are host requests *)

LEMMA Written ==
  ASSUME NEW s \in Seq(Frames), NEW f \in Frames
  PROVE  /\ Append(s, f) \in Seq(Frames) /\ Len(Append(s, f)) = Len(s) + 1
         /\ Append(s, f)[Len(s) + 1] = f
         /\ \A j \in 1..Len(s) : Append(s, f)[j] = s[j]
BY AppendProperties

LEMMA AskedTyped ==
  ASSUME NEW s \in Seq(Frames)
  PROVE  /\ IsFiniteSet({j \in 1..Len(s) : s[j].kind = "host_request"})
         /\ Asked(s) \in Nat
<1> DEFINE S == {j \in 1..Len(s) : s[j].kind = "host_request"}
<1>1. Len(s) \in Nat BY LenProperties
<1>2. IsFiniteSet(1..Len(s)) BY <1>1, FS_Interval
<1>3. S \in SUBSET (1..Len(s)) OBVIOUS
<1>4. IsFiniteSet(S) BY <1>2, <1>3, FS_Subset
<1>5. Cardinality(S) \in Nat BY <1>4, FS_CardinalityType
<1> QED BY <1>4, <1>5 DEF Asked

\* A line that is written counts if it is a host request.
LEMMA AppendAsked ==
  ASSUME NEW s \in Seq(Frames), NEW f \in Frames
  PROVE  Asked(Append(s, f)) = Asked(s) + (IF f.kind = "host_request" THEN 1 ELSE 0)
<1> DEFINE S == {j \in 1..Len(s) : s[j].kind = "host_request"}
           t == Append(s, f)
           T == {j \in 1..Len(t) : t[j].kind = "host_request"}
           n == Len(s) + 1
<1>1. Len(s) \in Nat BY LenProperties
<1>2. Len(t) = n /\ t[n] = f /\ \A j \in 1..Len(s) : t[j] = s[j] BY Written
<1>3. IsFiniteSet(S) /\ Cardinality(S) \in Nat BY AskedTyped DEF Asked
<1> HIDE DEF t
<1>4. T = IF f.kind = "host_request" THEN S \cup {n} ELSE S BY <1>1, <1>2
<1>5. n \notin S BY <1>1
<1>6. Cardinality(S \cup {n}) = Cardinality(S) + 1 BY <1>3, <1>5, FS_AddElement
<1> HIDE DEF S, T
<1>7. Cardinality(T) = Cardinality(S) + (IF f.kind = "host_request" THEN 1 ELSE 0)
  <2>1. CASE f.kind = "host_request" BY <2>1, <1>4, <1>6
  <2>2. CASE f.kind # "host_request" BY <2>2, <1>3, <1>4
  <2> QED BY <2>1, <2>2
<1> QED BY <1>7 DEF Asked, S, T, t

\* A line that is read no longer does.
LEMMA TailAsked ==
  ASSUME NEW s \in Seq(Frames), s # <<>>
  PROVE  Asked(s) = Asked(Tail(s)) + (IF Head(s).kind = "host_request" THEN 1 ELSE 0)
<1> DEFINE S == {j \in 1..Len(s) : s[j].kind = "host_request"}
           t == Tail(s)
           T == {j \in 1..Len(t) : t[j].kind = "host_request"}
           f == [j \in T |-> j + 1]
<1>1. Len(s) \in Nat /\ Len(s) > 0 BY LenProperties, EmptySeq
<1>2. /\ t \in Seq(Frames) /\ Len(t) = Len(s) - 1
      /\ \A j \in 1..Len(t) : t[j] = s[j + 1]
  BY HeadTailProperties
<1>3. Head(s) = s[1] BY <1>1
<1>4. /\ IsFiniteSet(S) /\ Cardinality(S) \in Nat
      /\ IsFiniteSet(T) /\ Cardinality(T) \in Nat
  BY <1>2, AskedTyped DEF Asked
<1>5. \A j \in T : j + 1 \in S \ {1}
  BY <1>1, <1>2
<1>6. \A i \in S \ {1} : i - 1 \in T /\ (i - 1) + 1 = i
  <2> SUFFICES ASSUME NEW i \in S \ {1} PROVE i - 1 \in T /\ (i - 1) + 1 = i OBVIOUS
  <2>1. i \in 1..Len(s) /\ i # 1 /\ s[i].kind = "host_request" OBVIOUS
  <2>2. i - 1 \in 1..Len(t) /\ (i - 1) + 1 = i BY <1>1, <1>2, <2>1
  <2>3. t[i - 1] = s[i] BY <1>2, <2>2
  <2> QED BY <2>1, <2>2, <2>3
<1>7. \A j \in T : j \in Int OBVIOUS
<1> HIDE DEF S, T
<1>8. f \in [T -> S \ {1}] BY <1>5
<1>9. \A i, j \in T : f[i] = f[j] => i = j
  <2>1. \A i, j \in T : i + 1 = j + 1 => i = j BY <1>7
  <2> QED BY <2>1
<1>10. ExistsBijection(T, S \ {1})
  <2>1. \A i \in S \ {1} : \E j \in T : f[j] = i BY <1>6
  <2> HIDE DEF f
  <2>2. f \in Bijection(T, S \ {1}) BY <1>8, <1>9, <2>1, Fun_IsBij
  <2> QED BY <2>2, Fun_ExistsBij
<1>11. Cardinality(S \ {1}) = Cardinality(T) BY <1>4, <1>10, FS_Bijection
<1>12. Cardinality(S \ {1}) = IF 1 \in S THEN Cardinality(S) - 1 ELSE Cardinality(S)
  BY <1>4, FS_RemoveElement
<1>13. 1 \in S <=> Head(s).kind = "host_request" BY <1>1, <1>3 DEF S
<1>14. Cardinality(S) = Cardinality(T) + (IF Head(s).kind = "host_request" THEN 1 ELSE 0)
  BY <1>4, <1>11, <1>12, <1>13
<1> QED BY <1>14 DEF S, T, Asked

\* Where the requests on the way stand after a line was written, or read.
LEMMA SayAsked ==
  ASSUME ProcessTypes, NEW k \in Calls, NEW f \in Frames, Say(k, f)
  PROVE  /\ output' \in [Calls -> Seq(Frames)]
         /\ \A m \in Calls : m # k => output'[m] = output[m]
         /\ output'[k] = Append(output[k], f)
         /\ \A m \in Calls : Asked(output[m]) \in Nat /\ Asked(output'[m]) \in Nat
         /\ \A m \in Calls : m # k => Asked(output'[m]) = Asked(output[m])
         /\ f.kind = "host_request" => Asked(output'[k]) = Asked(output[k]) + 1
         /\ f.kind # "host_request" => Asked(output'[k]) = Asked(output[k])
<1>1. output \in [Calls -> Seq(Frames)] BY DEF ProcessTypes
<1>2. \A m \in Calls : m # k => output'[m] = output[m] BY <1>1 DEF Say
<1>3. output'[k] = Append(output[k], f) BY <1>1 DEF Say
<1>4. Append(output[k], f) \in Seq(Frames) BY <1>1, Written
<1>5. output' \in [Calls -> Seq(Frames)] BY <1>1, <1>4 DEF Say
<1>6. \A m \in Calls : Asked(output[m]) \in Nat /\ Asked(output'[m]) \in Nat
  BY <1>1, <1>5, AskedTyped
<1>7. Asked(output'[k]) = Asked(output[k]) + (IF f.kind = "host_request" THEN 1 ELSE 0)
  BY <1>1, <1>3, AppendAsked
<1> QED BY <1>2, <1>3, <1>5, <1>6, <1>7

LEMMA LineAsked ==
  ASSUME ProcessTypes, NEW k \in Calls, NEW kind, Line(k, kind)
  PROVE  /\ Head(output[k]) \in Frames /\ Head(output[k]) = output[k][1] /\ Len(output[k]) > 0
         /\ Head(output[k]).kind = kind
         /\ output' \in [Calls -> Seq(Frames)]
         /\ \A m \in Calls : m # k => output'[m] = output[m]
         /\ output'[k] = Tail(output[k]) /\ Len(output'[k]) = Len(output[k]) - 1
         /\ \A j \in 1..Len(output'[k]) : output'[k][j] = output[k][j + 1]
         /\ \A m \in Calls : Asked(output[m]) \in Nat /\ Asked(output'[m]) \in Nat
         /\ \A m \in Calls : Asked(output'[m]) <= Asked(output[m])
         /\ kind = "host_request" => Asked(output[k]) = Asked(output'[k]) + 1
<1>1. output \in [Calls -> Seq(Frames)] BY DEF ProcessTypes
<1>2. \A m \in Calls : m # k => output'[m] = output[m] BY <1>1 DEF Line
<1>3. output'[k] = Tail(output[k]) BY <1>1 DEF Line
<1>4. output[k] # <<>> /\ Head(output[k]).kind = kind BY DEF Line
<1>5. /\ Head(output[k]) \in Frames
      /\ Tail(output[k]) \in Seq(Frames) /\ Len(Tail(output[k])) = Len(output[k]) - 1
      /\ \A j \in 1..Len(Tail(output[k])) : Tail(output[k])[j] = output[k][j + 1]
  BY <1>1, <1>4, HeadTailProperties
<1>6. Len(output[k]) > 0 /\ Head(output[k]) = output[k][1]
  <2>1. Len(output[k]) \in Nat /\ Len(output[k]) # 0 BY <1>1, <1>4, LenProperties, EmptySeq
  <2> QED BY <2>1, <1>1
<1>7. output' \in [Calls -> Seq(Frames)] BY <1>1, <1>5 DEF Line
<1>8. \A m \in Calls : Asked(output[m]) \in Nat /\ Asked(output'[m]) \in Nat
  BY <1>1, <1>7, AskedTyped
<1>9. Asked(output[k]) = Asked(output'[k]) + (IF kind = "host_request" THEN 1 ELSE 0)
  BY <1>1, <1>3, <1>4, TailAsked
<1>10. Asked(output'[k]) <= Asked(output[k]) BY <1>8, <1>9
<1>11. \A m \in Calls : Asked(output'[m]) <= Asked(output[m])
  <2> SUFFICES ASSUME NEW m \in Calls PROVE Asked(output'[m]) <= Asked(output[m]) OBVIOUS
  <2>1. CASE m = k BY <2>1, <1>10
  <2>2. CASE m # k BY <2>2, <1>2, <1>8
  <2> QED BY <2>1, <2>2
<1> QED BY <1>2, <1>3, <1>4, <1>5, <1>6, <1>7, <1>8, <1>9, <1>11

LEMMA Bounds == MaxWritten \in Nat /\ MaxRequests \in Nat /\ Requests \subseteq Nat
                /\ \A i \in Requests : i \in 1..MaxWritten
BY BoundsAssumption DEF Requests

\* The frames that are written are frames.
LEMMA FrameTyped ==
  ASSUME NEW kind \in Kinds \cup {"host_request", "host_response"}, NEW c \in Calls,
         NEW n \in 0..(MaxWritten + 1)
  PROVE  /\ Frame(kind, c, n) \in Frames /\ Frame(kind, c, n).kind = kind
         /\ Frame(kind, c, n).call = c /\ Frame(kind, c, n).n = n
BY DEF Frame, Frames

-----------------------------------------------------------------------------
(* What is on the wire: lines said, lines read, lines left alone *)

\* A process that is alive said no goodbye, and nothing is behind what it says.
LEMMA SayKeepsBye ==
  ASSUME ProcessTypes, ClientTypes, ByeInv, NEW k \in Calls, NEW f \in Frames,
         Alive(k), Say(k, f), phase' = phase,
         \A m \in Calls : m # k => python'[m] = python[m],
         f.kind = "shutdown" => python'[k].run = "exited"
  PROVE  ByeInv'
<1>1. /\ \A m \in Calls : m # k => output'[m] = output[m]
      /\ output'[k] = Append(output[k], f)
  BY SayAsked
<1>2. output[k] \in Seq(Frames) BY DEF ProcessTypes
<1>3. /\ Len(output[k]) \in Nat /\ Len(output'[k]) = Len(output[k]) + 1
      /\ output'[k][Len(output[k]) + 1] = f
      /\ \A j \in 1..Len(output[k]) : output'[k][j] = output[k][j]
  BY <1>1, <1>2, Written, LenProperties
<1>4. python[k].run # "exited" BY DEF Alive
<1>5. \A j \in 1..Len(output[k]) : output[k][j].kind # "shutdown" BY <1>4 DEF ByeInv
<1>6. \A j \in 1..Len(output'[k]) : output'[k][j].kind = "shutdown" =>
        j = Len(output'[k]) /\ python'[k].run = "exited"
  BY <1>3, <1>5
<1>7. phase[k] # "shut" BY <1>4 DEF ByeInv
<1> QED BY <1>1, <1>6, <1>7 DEF ByeInv

\* Reading a line leaves what is behind it.
LEMMA LineKeepsBye ==
  ASSUME ProcessTypes, ByeInv, NEW k \in Calls, NEW kind, Line(k, kind),
         phase' = phase, python' = python
  PROVE  ByeInv'
<1>1. /\ \A m \in Calls : m # k => output'[m] = output[m]
      /\ Len(output[k]) > 0 /\ Len(output'[k]) = Len(output[k]) - 1
      /\ \A j \in 1..Len(output'[k]) : output'[k][j] = output[k][j + 1]
  BY LineAsked
<1>2. Len(output[k]) \in Nat BY LenProperties DEF ProcessTypes
<1>3. \A j \in 1..Len(output'[k]) : j + 1 \in 1..Len(output[k]) BY <1>1, <1>2
<1>4. \A j \in 1..Len(output'[k]) : output'[k][j].kind = "shutdown" =>
        j = Len(output'[k]) /\ python[k].run = "exited"
  <2> SUFFICES ASSUME NEW j \in 1..Len(output'[k]), output'[k][j].kind = "shutdown"
               PROVE  j = Len(output'[k]) /\ python[k].run = "exited"
    OBVIOUS
  <2>1. j + 1 \in 1..Len(output[k]) /\ output[k][j + 1].kind = "shutdown" BY <1>1, <1>3
  <2>2. j + 1 = Len(output[k]) /\ python[k].run = "exited" BY <2>1 DEF ByeInv
  <2> QED BY <2>2, <1>1, <1>2
<1>5. phase[k] # "shut"
  <2>1. output[k] # <<>> BY <1>1, EmptySeq
  <2> QED BY <2>1 DEF ByeInv
<1> QED BY <1>1, <1>4, <1>5 DEF ByeInv

\* A step that writes no line and wakes no process.
LEMMA SilenceKeepsBye ==
  ASSUME ByeInv, output' = output,
         \A m \in Calls : python[m].run = "exited" => python'[m].run = "exited",
         \A m \in Calls : phase'[m] = "shut" => phase[m] = "shut"
  PROVE  ByeInv'
BY DEF ByeInv

\* As long as nothing is written or counted, the requests are accounted for.
LEMMA CountsKept ==
  ASSUME IInv, ProcessTypes', UNCHANGED <<on, sent, written, counted, echoes>>,
         \A m \in Calls : Asked(output'[m]) <= Asked(output[m])
  PROVE  CountInv'
<1>1. \A m \in Calls : Asked(output[m]) \in Nat /\ Asked(output'[m]) \in Nat
  BY AskedTyped DEF IInv, Types, ProcessTypes
<1>2. /\ written \in Nat /\ \A c \in Calls : counted[c] \in Nat
      /\ \A c \in Calls, i \in Requests : echoes[c][i] \in Nat
  BY Bounds DEF IInv, Types, ProcessTypes, BrokerTypes
<1>3. CountInv BY DEF IInv
<1>4. \A m \in Calls : Asked(output'[m]) <= written
  <2> SUFFICES ASSUME NEW m \in Calls PROVE Asked(output'[m]) <= written OBVIOUS
  <2>1. Asked(output[m]) <= written BY <1>3 DEF CountInv
  <2> QED BY <1>1, <1>2, <2>1
<1>5. ASSUME NEW c \in Calls, on[c] \in Calls
      PROVE  /\ counted[c] + Asked(output'[on[c]]) <= written
             /\ \A i \in Requests : echoes[c][i] + Asked(output'[on[c]]) <= written
  <2> DEFINE k == on[c]
  <2>1. Asked(output'[k]) <= Asked(output[k]) BY <1>5
  <2>2. Asked(output[k]) \in Nat /\ Asked(output'[k]) \in Nat BY <1>1, <1>5
  <2>3. /\ counted[c] + Asked(output[k]) <= written
        /\ \A i \in Requests : echoes[c][i] + Asked(output[k]) <= written
    BY <1>3, <1>5 DEF CountInv
  <2> HIDE DEF k
  <2>4. counted[c] + Asked(output'[k]) <= written BY <1>2, <2>1, <2>2, <2>3
  <2>5. ASSUME NEW i \in Requests PROVE echoes[c][i] + Asked(output'[k]) <= written
    <3>1. echoes[c][i] \in Nat /\ echoes[c][i] + Asked(output[k]) <= written BY <1>2, <2>3
    <3> QED BY <1>2, <2>1, <2>2, <3>1
  <2> QED BY <2>4, <2>5 DEF k
<1>6. \A c \in Calls : sent'[c] <= written' BY <1>3 DEF CountInv
<1> QED BY <1>4, <1>5, <1>6 DEF CountInv

LEMMA OutputKeepsCounts ==
  ASSUME IInv, UNCHANGED <<on, output, sent, written, counted, echoes>>
  PROVE  CountInv'
BY DEF IInv, CountInv

-----------------------------------------------------------------------------
(* The process *)

LEMMA ProcessKeeps ==
  ASSUME IInv, UNCHANGED <<manager, client, broker>>, ProcessTypes', ByeInv', CountInv'
  PROVE  IInv'
<1>1. /\ UNCHANGED <<current, pc, on, queue, aborted, phase, active, pending, closing>>
      /\ UNCHANGED <<counted, served, echoes, nested, invoked>>
  BY DEF manager, client, broker
<1>2. ManagerTypes' /\ ClientTypes' /\ BrokerTypes'
  BY <1>1 DEF IInv, Types, ManagerTypes, ClientTypes, BrokerTypes
<1>3. FreshInv' BY <1>1 DEF IInv, FreshInv
<1>4. QueueInv' BY <1>1 DEF IInv, QueueInv
<1>5. PendingInv' BY <1>1 DEF IInv, PendingInv
<1>6. WorkInv' BY <1>1 DEF IInv, WorkInv
<1>7. MadeInv' BY <1>1 DEF IInv, MadeInv
<1> QED BY <1>2, <1>3, <1>4, <1>5, <1>6, <1>7 DEF IInv, Types

\* What the main loop takes from stdin is a frame, and it runs nothing.
LEMMA TakeIs ==
  ASSUME IInv, NEW k \in Calls, NEW kind, Take(k, kind)
  PROVE  /\ Alive(k) /\ python[k].run = None /\ Head(input[k]) \in Frames
         /\ input' \in [Calls -> Seq(Frames)]
         /\ UNCHANGED <<sent, written, manager, client, broker>>
         /\ UNCHANGED <<on, phase, counted, echoes>>
<1>1. input[k] \in Seq(Frames) /\ input[k] # <<>>
  BY DEF IInv, Types, ProcessTypes, Take
<1>2. Head(input[k]) \in Frames /\ Tail(input[k]) \in Seq(Frames) BY <1>1, HeadTailProperties
<1>3. input' = [input EXCEPT ![k] = Tail(@)] BY DEF Take
<1>4. input' \in [Calls -> Seq(Frames)] BY <1>2, <1>3 DEF IInv, Types, ProcessTypes
<1>5. Alive(k) /\ python[k].run = None /\ UNCHANGED <<sent, written, manager, client, broker>>
  BY DEF Take
<1> QED BY <1>2, <1>4, <1>5 DEF manager, client, broker

\* An alive process that says nothing, in whatever state it is left.
LEMMA QuietKeeps ==
  ASSUME IInv, NEW k \in Calls, Alive(k), input' \in [Calls -> Seq(Frames)],
         NEW p \in States, python' = [python EXCEPT ![k] = p],
         UNCHANGED <<output, sent, written, manager, client, broker>>
  PROVE  IInv'
<1>1. UNCHANGED <<on, phase, counted, echoes>> BY DEF manager, client, broker
<1>2. ProcessTypes' BY DEF IInv, Types, ProcessTypes
<1>3. \A m \in Calls : python[m].run = "exited" => python'[m].run = "exited"
  BY DEF Alive, IInv, Types, ProcessTypes
<1>4. ByeInv' BY <1>1, <1>3, SilenceKeepsBye DEF IInv
<1>5. CountInv' BY <1>1, OutputKeepsCounts
<1> QED BY <1>2, <1>4, <1>5, ProcessKeeps

\* One that writes a line that is no host request.
LEMMA ReplyKeeps ==
  ASSUME IInv, NEW k \in Calls, Alive(k), input' \in [Calls -> Seq(Frames)],
         NEW p \in States, python' = [python EXCEPT ![k] = p],
         NEW f \in Frames, Say(k, f), f.kind # "host_request",
         f.kind = "shutdown" => p.run = "exited",
         UNCHANGED <<sent, written, manager, client, broker>>
  PROVE  IInv'
<1>1. UNCHANGED <<on, phase, counted, echoes>> BY DEF manager, client, broker
<1>2. ProcessTypes /\ ClientTypes /\ ByeInv BY DEF IInv, Types
<1>3. /\ output' \in [Calls -> Seq(Frames)]
      /\ \A m \in Calls : Asked(output'[m]) <= Asked(output[m])
  <2>1. /\ output' \in [Calls -> Seq(Frames)]
        /\ \A m \in Calls : Asked(output[m]) \in Nat /\ Asked(output'[m]) = Asked(output[m])
    BY <1>2, SayAsked
  <2>2. \A m \in Calls : Asked(output'[m]) <= Asked(output[m])
    <3> SUFFICES ASSUME NEW m \in Calls PROVE Asked(output'[m]) <= Asked(output[m]) OBVIOUS
    <3>1. Asked(output[m]) \in Nat /\ Asked(output'[m]) = Asked(output[m]) BY <2>1
    <3> QED BY <3>1
  <2> QED BY <2>1, <2>2
<1>4. ProcessTypes' BY <1>2, <1>3 DEF ProcessTypes
<1>5. (\A m \in Calls : m # k => python'[m] = python[m]) /\ python'[k] = p
  BY <1>2 DEF ProcessTypes
<1>6. ByeInv' BY <1>1, <1>2, <1>5, SayKeepsBye
<1>7. CountInv' BY <1>1, <1>3, <1>4, CountsKept
<1> QED BY <1>4, <1>6, <1>7, ProcessKeeps

\* One that writes a host request of an execution.
LEMMA RequestKeeps ==
  ASSUME IInv, NEW k \in Calls, Alive(k), input' = input,
         NEW p \in States, python' = [python EXCEPT ![k] = p],
         NEW f \in Frames, Say(k, f), f.kind = "host_request",
         written < MaxWritten, written' = written + 1,
         sent' \in [Calls -> Nat], \A c \in Calls : sent'[c] <= sent[c] + 1,
         UNCHANGED <<manager, client, broker>>
  PROVE  IInv'
<1>1. UNCHANGED <<on, phase, counted, echoes>> BY DEF manager, client, broker
<1>2. ProcessTypes /\ ClientTypes /\ BrokerTypes /\ ByeInv /\ CountInv BY DEF IInv, Types
<1>3. /\ output' \in [Calls -> Seq(Frames)]
      /\ \A m \in Calls : Asked(output[m]) \in Nat /\ Asked(output'[m]) \in Nat
      /\ \A m \in Calls : m # k => Asked(output'[m]) = Asked(output[m])
      /\ Asked(output'[k]) = Asked(output[k]) + 1
  BY <1>2, SayAsked
<1>4. \A m \in Calls : Asked(output'[m]) <= Asked(output[m]) + 1
  <2> SUFFICES ASSUME NEW m \in Calls PROVE Asked(output'[m]) <= Asked(output[m]) + 1 OBVIOUS
  <2>1. CASE m = k BY <2>1, <1>3
  <2>2. CASE m # k BY <2>2, <1>3
  <2> QED BY <2>1, <2>2
<1>5. /\ written \in Nat /\ written' \in 0..MaxWritten
      /\ \A c \in Calls : counted[c] \in Nat /\ sent[c] \in Nat /\ sent'[c] \in Nat
      /\ \A c \in Calls, i \in Requests : echoes[c][i] \in Nat
  BY <1>2, Bounds DEF ProcessTypes, BrokerTypes
<1>6. \A c \in Calls : sent'[c] <= written'
  <2> SUFFICES ASSUME NEW c \in Calls PROVE sent'[c] <= written' OBVIOUS
  <2>1. sent[c] <= written /\ sent'[c] <= sent[c] + 1 BY <1>2 DEF CountInv
  <2> QED BY <1>5, <2>1
<1>7. ProcessTypes'
  <2>1. \A c \in Calls : sent'[c] \in 0..MaxWritten
    <3> SUFFICES ASSUME NEW c \in Calls PROVE sent'[c] \in 0..MaxWritten OBVIOUS
    <3>1. sent'[c] \in Nat /\ sent'[c] <= written' BY <1>5, <1>6
    <3> QED BY <3>1, <1>5, Bounds
  <2>2. sent' \in [Calls -> 0..MaxWritten] BY <2>1
  <2> QED BY <1>2, <1>3, <1>5, <2>2 DEF ProcessTypes
<1>8. CountInv'
  <2>1. \A m \in Calls : Asked(output'[m]) <= written'
    <3> SUFFICES ASSUME NEW m \in Calls PROVE Asked(output'[m]) <= written' OBVIOUS
    <3>1. Asked(output[m]) <= written BY <1>2 DEF CountInv
    <3> QED BY <1>3, <1>4, <1>5, <3>1
  <2>2. ASSUME NEW c \in Calls, on[c] \in Calls
        PROVE  /\ counted[c] + Asked(output'[on[c]]) <= written'
               /\ \A i \in Requests : echoes[c][i] + Asked(output'[on[c]]) <= written'
    <3> DEFINE a == Asked(output[on[c]])
               b == Asked(output'[on[c]])
    <3>1. a \in Nat /\ b \in Nat /\ b <= a + 1 BY <2>2, <1>3, <1>4
    <3>2. counted[c] + a <= written /\ \A i \in Requests : echoes[c][i] + a <= written
      BY <2>2, <1>2 DEF CountInv
    <3> HIDE DEF a, b
    <3>3. counted[c] + b <= written' BY <1>5, <3>1, <3>2
    <3>4. ASSUME NEW i \in Requests PROVE echoes[c][i] + b <= written'
      <4>1. echoes[c][i] \in Nat /\ echoes[c][i] + a <= written BY <1>5, <3>2
      <4> QED BY <4>1, <1>5, <3>1
    <3> QED BY <3>3, <3>4 DEF b
  <2> QED BY <1>1, <1>6, <2>1, <2>2 DEF CountInv
<1>9. (\A m \in Calls : m # k => python'[m] = python[m])
  BY <1>2 DEF ProcessTypes
<1>10. ByeInv' BY <1>1, <1>2, <1>9, SayKeepsBye
<1> QED BY <1>7, <1>8, <1>10, ProcessKeeps

LEMMA FrameParts ==
  ASSUME NEW f \in Frames
  PROVE  /\ f.call \in Calls /\ f.n \in 0..(MaxWritten + 1)
         /\ f.kind \in Kinds \cup {"host_request", "host_response"}
BY DEF Frames

LEMMA StatesAre ==
  /\ Idle \in States /\ Exited \in States /\ Exited.run = "exited"
  /\ \A c \in Calls : [run |-> c, wait |-> 0] \in States
  /\ \A p \in States, c \in Calls : [p EXCEPT !.run = c] \in States
  /\ \A p \in States, n \in 0..MaxWritten : [p EXCEPT !.wait = n] \in States
BY Bounds DEF Idle, Exited, States, None

LEMMA PythonTyped ==
  ASSUME IInv
  PROVE  /\ python \in [Calls -> States] /\ input \in [Calls -> Seq(Frames)]
         /\ \A k \in Calls : python[k] \in States
BY DEF IInv, Types, ProcessTypes

LEMMA RunKeeps == ASSUME IInv, NEW k \in Calls, Run(k) PROVE IInv'
<1>1. Take(k, "execute") /\ output' = output BY DEF Run
<1>2. /\ Alive(k) /\ Head(input[k]) \in Frames /\ input' \in [Calls -> Seq(Frames)]
      /\ UNCHANGED <<sent, written, manager, client, broker>>
  BY <1>1, TakeIs
<1>3. Head(input[k]).call \in Calls BY <1>2, FrameParts
<1>4. [python[k] EXCEPT !.run = Head(input[k]).call] \in States BY <1>3, StatesAre, PythonTyped
<1>5. python' = [python EXCEPT ![k] = [python[k] EXCEPT !.run = Head(input[k]).call]]
  BY PythonTyped DEF Run
<1> QED BY <1>1, <1>2, <1>4, <1>5, QuietKeeps

LEMMA UnknownKeeps == ASSUME IInv, NEW k \in Calls, Unknown(k) PROVE IInv'
<1>1. Take(k, "host_response") /\ output' = output /\ python' = python BY DEF Unknown
<1>2. /\ Alive(k) /\ input' \in [Calls -> Seq(Frames)]
      /\ UNCHANGED <<sent, written, manager, client, broker>>
  BY <1>1, TakeIs
<1>3. python[k] \in States /\ python' = [python EXCEPT ![k] = python[k]] BY <1>1, PythonTyped
<1> QED BY <1>1, <1>2, <1>3, QuietKeeps

LEMMA SaveOrLoadKeeps == ASSUME IInv, NEW k \in Calls, SaveOrLoad(k) PROVE IInv'
<1>1. PICK kind \in {"restore", "snapshot"} : Take(k, kind) BY DEF SaveOrLoad
<1>2. /\ Alive(k) /\ Head(input[k]) \in Frames /\ input' \in [Calls -> Seq(Frames)]
      /\ UNCHANGED <<sent, written, manager, client, broker>>
  BY <1>1, TakeIs
<1>3. Head(input[k]).kind = kind BY <1>1 DEF Take
<1>4. PICK ok \in {0, 1} : Say(k, Frame(Head(input[k]).kind, Head(input[k]).call, ok))
  BY DEF SaveOrLoad
<1>5. ok \in 0..(MaxWritten + 1) BY Bounds
<1>6. kind \in Kinds /\ kind # "host_request" /\ kind # "shutdown" BY <1>1 DEF Kinds
<1>7. Head(input[k]).call \in Calls BY <1>2, FrameParts
<1>8. PICK f \in Frames : f = Frame(kind, Head(input[k]).call, ok) /\ f.kind = kind
  BY <1>5, <1>6, <1>7, FrameTyped
<1>9. Say(k, f) BY <1>3, <1>4, <1>8
<1>10. python[k] \in States /\ python' = [python EXCEPT ![k] = python[k]]
  BY PythonTyped DEF SaveOrLoad
<1> QED BY <1>2, <1>6, <1>8, <1>9, <1>10, ReplyKeeps

LEMMA ByeKeeps == ASSUME IInv, NEW k \in Calls, Bye(k) PROVE IInv'
<1>1. Take(k, "shutdown") /\ Say(k, Frame("shutdown", k, 1))
      /\ python' = [python EXCEPT ![k] = Exited]
  BY DEF Bye
<1>2. /\ Alive(k) /\ input' \in [Calls -> Seq(Frames)]
      /\ UNCHANGED <<sent, written, manager, client, broker>>
  BY <1>1, TakeIs
<1>3. PICK f \in Frames : f = Frame("shutdown", k, 1) /\ f.kind = "shutdown"
  BY FrameTyped, Bounds DEF Kinds
<1>4. Say(k, f) BY <1>1, <1>3
<1> QED BY <1>1, <1>2, <1>3, <1>4, StatesAre, ReplyKeeps

LEMMA ReadKeeps == ASSUME IInv, NEW k \in Calls, Read(k) PROVE IInv'
<1>1. /\ Alive(k) /\ input[k] # <<>> /\ input' = [input EXCEPT ![k] = Tail(@)]
      /\ python' = [python EXCEPT ![k].wait = 0]
      /\ UNCHANGED <<output, sent, written, manager, client, broker>>
  BY DEF Read
<1>2. Tail(input[k]) \in Seq(Frames)
  <2>1. input[k] \in Seq(Frames) BY PythonTyped
  <2> QED BY <1>1, <2>1, HeadTailProperties
<1>3. input' \in [Calls -> Seq(Frames)] BY <1>1, <1>2, PythonTyped
<1>4. [python[k] EXCEPT !.wait = 0] \in States
  <2>1. python[k] \in States /\ 0 \in 0..MaxWritten BY PythonTyped, Bounds
  <2> QED BY <2>1, StatesAre
<1>5. python' = [python EXCEPT ![k] = [python[k] EXCEPT !.wait = 0]] BY <1>1, PythonTyped
<1> QED BY <1>1, <1>3, <1>4, <1>5, QuietKeeps

LEMMA FinishKeeps == ASSUME IInv, NEW k \in Calls, Finish(k) PROVE IInv'
<1>1. /\ Alive(k) /\ python[k].run \in Calls /\ python' = [python EXCEPT ![k] = Idle]
      /\ UNCHANGED <<input, sent, written, manager, client, broker>>
  BY DEF Finish
<1>2. PICK ok \in {0, 1} : Say(k, Frame("execute", python[k].run, ok)) BY DEF Finish
<1>3. ok \in 0..(MaxWritten + 1) BY Bounds
<1>4. PICK f \in Frames : f = Frame("execute", python[k].run, ok) /\ f.kind = "execute"
  BY <1>1, <1>3, FrameTyped DEF Kinds
<1>5. Say(k, f) BY <1>2, <1>4
<1>6. input' \in [Calls -> Seq(Frames)] BY <1>1, PythonTyped
<1> QED BY <1>1, <1>4, <1>5, <1>6, StatesAre, ReplyKeeps

LEMMA AskKeeps == ASSUME IInv, NEW k \in Calls, Ask(k) PROVE IInv'
<1> DEFINE c == python[k].run
<1>1. /\ Alive(k) /\ c \in Calls /\ written < MaxWritten /\ written' = written + 1
      /\ sent' = [sent EXCEPT ![c] = @ + 1]
      /\ python' = [python EXCEPT ![k].wait = sent'[c]]
      /\ Say(k, Frame("host_request", c, sent'[c]))
      /\ UNCHANGED <<input, manager, client, broker>>
  BY DEF Ask
<1>2. /\ sent \in [Calls -> 0..MaxWritten] /\ \A d \in Calls : sent[d] \in Nat
      /\ written \in Nat /\ sent[c] <= written
  BY <1>1, Bounds DEF IInv, Types, ProcessTypes, CountInv
<1> HIDE DEF c
<1>3. sent'[c] = sent[c] + 1 BY <1>1, <1>2
<1>4. sent'[c] \in 0..MaxWritten /\ sent'[c] \in 0..(MaxWritten + 1)
  BY <1>1, <1>2, <1>3, Bounds
<1>5. sent' \in [Calls -> Nat] /\ \A d \in Calls : sent'[d] <= sent[d] + 1
  BY <1>1, <1>2
<1>6. [python[k] EXCEPT !.wait = sent'[c]] \in States BY <1>4, StatesAre, PythonTyped
<1>7. python' = [python EXCEPT ![k] = [python[k] EXCEPT !.wait = sent'[c]]]
  BY <1>1, PythonTyped
<1>8. PICK f \in Frames : f = Frame("host_request", c, sent'[c]) /\ f.kind = "host_request"
  BY <1>1, <1>4, FrameTyped
<1>9. Say(k, f) BY <1>1, <1>8
<1>10. input' = input BY <1>1
<1> QED BY <1>1, <1>5, <1>6, <1>7, <1>8, <1>9, <1>10, RequestKeeps

LEMMA RepeatKeeps == ASSUME IInv, NEW k \in Calls, Repeat(k) PROVE IInv'
<1>1. /\ Alive(k) /\ written < MaxWritten /\ written' = written + 1
      /\ input' = input /\ python' = python /\ sent' = sent
      /\ UNCHANGED <<manager, client, broker>>
  BY DEF Repeat
<1>2. PICK c \in Calls, i \in Requests : Say(k, Frame("host_request", c, i)) BY DEF Repeat
<1>3. i \in 0..(MaxWritten + 1) BY Bounds
<1>4. PICK f \in Frames : f = Frame("host_request", c, i) /\ f.kind = "host_request"
  BY <1>3, FrameTyped
<1>5. Say(k, f) BY <1>2, <1>4
<1>6. sent' \in [Calls -> Nat] /\ \A d \in Calls : sent'[d] <= sent[d] + 1
  BY <1>1, Bounds DEF IInv, Types, ProcessTypes
<1>7. python[k] \in States /\ python' = [python EXCEPT ![k] = python[k]] BY <1>1, PythonTyped
<1> QED BY <1>1, <1>4, <1>5, <1>6, <1>7, RequestKeeps

LEMMA PythonKeeps == ASSUME IInv, NEW k \in Calls, Python(k) PROVE IInv'
BY RunKeeps, UnknownKeeps, SaveOrLoadKeeps, ByeKeeps, ReadKeeps, FinishKeeps, AskKeeps,
   RepeatKeeps DEF Python

-----------------------------------------------------------------------------
(* The host requests *)

\* A request that is current when its line arrives is one of a call that
\* executes: it holds the mutex, and nobody has aborted it or its process.
LEMMA CurrentIs ==
  ASSUME IInv, NEW k \in Calls, NEW c \in Calls, Current(k, c), output[k] # <<>>
  PROVE  /\ pc[c] = "execute" /\ on[c] = k /\ ~aborted[c] /\ phase[k] = "ready"
         /\ Head(queue[k]) = c
<1>1. pc[c] = "execute" /\ on[c] = k /\ phase[k] \in {"ready", "shut"}
  BY DEF Current, IInv, PendingInv
<1>2. phase[k] # "shut" BY DEF IInv, ByeInv
<1>3. ~aborted[c] BY <1>1 DEF IInv, WorkInv
<1>4. Len(queue[k]) > 0 /\ queue[k][1] = c BY <1>1 DEF IInv, QueueInv, Holding
<1>5. Head(queue[k]) = c BY <1>4 DEF IInv, Types, ManagerTypes
<1> QED BY <1>1, <1>2, <1>3, <1>5

LEMMA RespondTyped ==
  ASSUME IInv, NEW k, NEW c \in Calls, NEW i \in Requests, NEW times \in Nat,
         Respond(k, c, i, times)
  PROVE  input' \in [Calls -> Seq(Frames)]
<1> DEFINE f == Frame("host_response", c, i)
           s == [n \in 1..times |-> f]
<1>1. i \in 0..(MaxWritten + 1) BY Bounds
<1>2. f \in Frames BY <1>1, FrameTyped
<1>3. s \in Seq(Frames) BY <1>2
<1>4. \A m \in Calls : input[m] \o s \in Seq(Frames) BY <1>3, PythonTyped, ConcatProperties
<1>5. CASE IsOpen(k)
  <2>1. input' = [input EXCEPT ![k] = @ \o s] BY <1>5 DEF Respond
  <2> HIDE DEF s
  <2> QED BY <1>4, <2>1, PythonTyped
<1>6. CASE ~IsOpen(k) BY <1>6, PythonTyped DEF Respond
<1> QED BY <1>5, <1>6

LEMMA BrokerKeeps ==
  ASSUME IInv, UNCHANGED <<manager, client, python, sent, written>>,
         input' \in [Calls -> Seq(Frames)], output' \in [Calls -> Seq(Frames)],
         BrokerTypes', ByeInv', CountInv', WorkInv',
         \A c \in Calls : pc[c] \in {"idle", "make"} =>
             counted'[c] = counted[c] /\ \A i \in Requests : echoes'[c][i] = echoes[c][i]
  PROVE  IInv'
<1>1. UNCHANGED <<current, pc, on, queue, aborted, phase, active, pending, closing>>
  BY DEF manager, client
<1>2. ManagerTypes' /\ ClientTypes' /\ ProcessTypes'
  BY <1>1 DEF IInv, Types, ManagerTypes, ClientTypes, ProcessTypes
<1>3. FreshInv'
  <2>1. \A c \in Calls : pc[c] \in {"idle", "make"} =>
          /\ on[c] = None /\ phase[c] = "absent"
          /\ counted'[c] = 0 /\ \A i \in Requests : echoes'[c][i] = 0
    <3> SUFFICES ASSUME NEW c \in Calls, pc[c] \in {"idle", "make"}
                 PROVE  /\ on[c] = None /\ phase[c] = "absent"
                        /\ counted'[c] = 0 /\ \A i \in Requests : echoes'[c][i] = 0
      OBVIOUS
    <3>1. /\ on[c] = None /\ phase[c] = "absent"
          /\ counted[c] = 0 /\ \A i \in Requests : echoes[c][i] = 0
      BY DEF IInv, FreshInv
    <3> QED BY <3>1
  <2>2. \A c \in Calls : pc[c] \in Building \ {"make"} => on[c] = c BY DEF IInv, FreshInv
  <2> QED BY <1>1, <2>1, <2>2 DEF FreshInv
<1>4. QueueInv' BY <1>1 DEF IInv, QueueInv
<1>5. PendingInv' BY <1>1 DEF IInv, PendingInv
<1>6. MadeInv' BY <1>1 DEF IInv, MadeInv
<1> QED BY <1>2, <1>3, <1>4, <1>5, <1>6 DEF IInv, Types

\* A line that was read pays for what is counted instead.
LEMMA LinePays ==
  ASSUME IInv, NEW k \in Calls, Line(k, "host_request"), UNCHANGED <<on, sent, written>>,
         counted' \in [Calls -> Nat], echoes' \in [Calls -> [Requests -> Nat]],
         \A c \in Calls :
             counted'[c] <= (IF on[c] = k THEN counted[c] + 1 ELSE counted[c]),
         \A c \in Calls, i \in Requests :
             echoes'[c][i] <= (IF on[c] = k THEN echoes[c][i] + 1 ELSE echoes[c][i])
  PROVE  /\ CountInv' /\ counted' \in [Calls -> 0..MaxWritten]
         /\ echoes' \in [Calls -> [Requests -> 0..MaxWritten]]
<1>1. ProcessTypes /\ BrokerTypes /\ CountInv BY DEF IInv, Types
<1>2. /\ \A m \in Calls : Asked(output[m]) \in Nat /\ Asked(output'[m]) \in Nat
      /\ \A m \in Calls : Asked(output'[m]) <= Asked(output[m])
      /\ Asked(output[k]) = Asked(output'[k]) + 1
  BY <1>1, LineAsked
<1>3. /\ written \in Nat /\ written <= MaxWritten /\ MaxWritten \in Nat
      /\ \A c \in Calls : counted[c] \in 0..MaxWritten /\ counted'[c] \in Nat
      /\ \A c \in Calls, i \in Requests : echoes[c][i] \in 0..MaxWritten /\ echoes'[c][i] \in Nat
  BY <1>1, Bounds DEF ProcessTypes, BrokerTypes
<1>4. \A m \in Calls : Asked(output'[m]) <= written
  <2> SUFFICES ASSUME NEW m \in Calls PROVE Asked(output'[m]) <= written OBVIOUS
  <2>1. Asked(output[m]) <= written BY <1>1 DEF CountInv
  <2> QED BY <1>2, <1>3, <2>1
<1>5. ASSUME NEW x \in Nat, NEW y \in Nat, NEW m \in Calls, x + Asked(output[m]) <= written,
             y <= (IF m = k THEN x + 1 ELSE x)
      PROVE  y + Asked(output'[m]) <= written /\ y <= MaxWritten
  <2>1. /\ Asked(output[m]) \in Nat /\ Asked(output'[m]) \in Nat
        /\ Asked(output'[m]) <= Asked(output[m])
    BY <1>2
  <2>2. CASE m = k BY <2>2, <1>2, <1>3, <1>5, <2>1
  <2>3. CASE m # k BY <2>3, <1>3, <1>5, <2>1
  <2> QED BY <2>2, <2>3
<1>6. ASSUME NEW c \in Calls
      PROVE  /\ on[c] \in Calls => counted'[c] + Asked(output'[on[c]]) <= written
             /\ counted'[c] \in 0..MaxWritten
  <2>1. counted[c] \in Nat /\ counted[c] <= MaxWritten /\ counted'[c] \in Nat BY <1>3
  <2>2. counted'[c] <= (IF on[c] = k THEN counted[c] + 1 ELSE counted[c]) OBVIOUS
  <2>3. CASE on[c] \in Calls
    <3>1. counted[c] + Asked(output[on[c]]) <= written BY <2>3, <1>1 DEF CountInv
    <3> QED BY <1>3, <1>5, <2>1, <2>2, <2>3, <3>1
  <2>4. CASE on[c] \notin Calls BY <1>3, <2>1, <2>2, <2>4
  <2> QED BY <2>3, <2>4
<1>7. ASSUME NEW c \in Calls, NEW i \in Requests
      PROVE  /\ on[c] \in Calls => echoes'[c][i] + Asked(output'[on[c]]) <= written
             /\ echoes'[c][i] \in 0..MaxWritten
  <2>1. echoes[c][i] \in Nat /\ echoes[c][i] <= MaxWritten /\ echoes'[c][i] \in Nat BY <1>3
  <2>2. echoes'[c][i] <= (IF on[c] = k THEN echoes[c][i] + 1 ELSE echoes[c][i]) OBVIOUS
  <2>3. CASE on[c] \in Calls
    <3>1. echoes[c][i] + Asked(output[on[c]]) <= written BY <2>3, <1>1 DEF CountInv
    <3> QED BY <1>3, <1>5, <2>1, <2>2, <2>3, <3>1
  <2>4. CASE on[c] \notin Calls BY <1>3, <2>1, <2>2, <2>4
  <2> QED BY <2>3, <2>4
<1>8. \A c \in Calls : sent'[c] <= written' BY <1>1 DEF CountInv
<1>9. counted' \in [Calls -> 0..MaxWritten] BY <1>6
<1>10. echoes' \in [Calls -> [Requests -> 0..MaxWritten]] BY <1>7
<1> QED BY <1>4, <1>6, <1>7, <1>8, <1>9, <1>10 DEF CountInv

LEMMA HostRequestIs ==
  ASSUME IInv, NEW k \in Calls, NEW c \in Calls, NEW i \in Requests, HostRequest(k, c, i)
  PROVE  /\ Line(k, "host_request") /\ output[k] # <<>>
         /\ output' \in [Calls -> Seq(Frames)] /\ ByeInv'
         /\ UNCHANGED <<manager, client, python, sent, written>>
         /\ UNCHANGED <<pc, on, aborted, phase>>
<1>1. /\ Line(k, "host_request") /\ output[k] # <<>>
      /\ UNCHANGED <<manager, client, python, sent, written>>
  BY DEF HostRequest, Line
<1>2. UNCHANGED <<pc, on, aborted, phase>> BY <1>1 DEF manager, client
<1>3. ProcessTypes /\ ByeInv BY DEF IInv, Types
<1>4. output' \in [Calls -> Seq(Frames)] BY <1>1, <1>3, LineAsked
<1>5. ByeInv' BY <1>1, <1>2, <1>3, LineKeepsBye
<1> QED BY <1>1, <1>2, <1>4, <1>5

LEMMA BrokerTyped ==
  ASSUME IInv
  PROVE  /\ BrokerTypes
         /\ \A c \in Calls : counted[c] \in Nat
         /\ \A c \in Calls : echoes[c] \in [Requests -> Nat]
         /\ \A c \in Calls, i \in Requests : echoes[c][i] \in Nat
         /\ counted \in [Calls -> Nat] /\ echoes \in [Calls -> [Requests -> Nat]]
BY Bounds DEF IInv, Types, BrokerTypes

LEMMA RefuseKeeps ==
  ASSUME IInv, NEW k \in Calls, NEW c \in Calls, NEW i \in Requests, Refuse(k, c, i)
  PROVE  IInv'
<1>1. HostRequest(k, c, i) /\ Respond(k, c, i, 1) /\ UNCHANGED broker BY DEF Refuse
<1>2. UNCHANGED <<counted, served, echoes, nested, invoked>> BY <1>1 DEF broker
<1>3. /\ Line(k, "host_request") /\ output' \in [Calls -> Seq(Frames)] /\ ByeInv'
      /\ UNCHANGED <<manager, client, python, sent, written>>
      /\ UNCHANGED <<pc, on, aborted, phase>>
  BY <1>1, HostRequestIs
<1>4. input' \in [Calls -> Seq(Frames)] BY <1>1, RespondTyped
<1>5. BrokerTypes' BY <1>2, BrokerTyped DEF BrokerTypes
<1>6. /\ \A d \in Calls : counted'[d] <= (IF on[d] = k THEN counted[d] + 1 ELSE counted[d])
      /\ \A d \in Calls, j \in Requests :
            echoes'[d][j] <= (IF on[d] = k THEN echoes[d][j] + 1 ELSE echoes[d][j])
  BY <1>2, BrokerTyped
<1>7. counted' \in [Calls -> Nat] /\ echoes' \in [Calls -> [Requests -> Nat]]
  BY <1>2, BrokerTyped
<1>8. CountInv' BY <1>3, <1>6, <1>7, LinePays
<1>9. WorkInv' BY <1>2, <1>3 DEF IInv, WorkInv
<1> QED BY <1>2, <1>3, <1>4, <1>5, <1>8, <1>9, BrokerKeeps

LEMMA JoinKeeps ==
  ASSUME IInv, NEW k \in Calls, NEW c \in Calls, NEW i \in Requests, Join(k, c, i)
  PROVE  IInv'
<1>1. /\ HostRequest(k, c, i) /\ Current(k, c)
      /\ UNCHANGED <<counted, served, nested, invoked>>
      /\ \/ Respond(k, c, i, 1) /\ echoes' = echoes
         \/ echoes' = [echoes EXCEPT ![c][i] = @ + 1] /\ input' = input
  BY DEF Join
<1>2. /\ Line(k, "host_request") /\ output[k] # <<>>
      /\ output' \in [Calls -> Seq(Frames)] /\ ByeInv'
      /\ UNCHANGED <<manager, client, python, sent, written>>
      /\ UNCHANGED <<pc, on, aborted, phase>>
  BY <1>1, HostRequestIs
<1>3. pc[c] = "execute" /\ on[c] = k BY <1>1, <1>2, CurrentIs
<1>4. input' \in [Calls -> Seq(Frames)] BY <1>1, RespondTyped, PythonTyped
<1>5. /\ echoes' \in [Calls -> [Requests -> Nat]]
      /\ \A d \in Calls, j \in Requests :
           /\ echoes'[d][j] <= (IF on[d] = k THEN echoes[d][j] + 1 ELSE echoes[d][j])
           /\ d # c => echoes'[d][j] = echoes[d][j]
  <2>1. CASE echoes' = echoes BY <2>1, BrokerTyped
  <2>2. CASE echoes' = [echoes EXCEPT ![c][i] = @ + 1]
    <3>1. echoes' \in [Calls -> [Requests -> Nat]] BY <2>2, BrokerTyped
    <3>2. \A d \in Calls, j \in Requests :
            echoes'[d][j] = IF d = c /\ j = i THEN echoes[d][j] + 1 ELSE echoes[d][j]
      BY <2>2, BrokerTyped
    <3> QED BY <1>3, <3>1, <3>2, BrokerTyped
  <2> QED BY <1>1, <2>1, <2>2
<1>6. /\ counted' \in [Calls -> Nat]
      /\ \A d \in Calls : counted'[d] <= (IF on[d] = k THEN counted[d] + 1 ELSE counted[d])
  BY <1>1, BrokerTyped
<1>7. CountInv' /\ echoes' \in [Calls -> [Requests -> 0..MaxWritten]]
  BY <1>2, <1>5, <1>6, LinePays
<1>8. BrokerTypes' BY <1>1, <1>7, BrokerTyped DEF BrokerTypes
<1>9. WorkInv' BY <1>1, <1>2 DEF IInv, WorkInv
<1>10. \A d \in Calls : pc[d] \in {"idle", "make"} =>
          counted'[d] = counted[d] /\ \A j \in Requests : echoes'[d][j] = echoes[d][j]
  BY <1>1, <1>3, <1>5
<1> QED BY <1>2, <1>4, <1>7, <1>8, <1>9, <1>10, BrokerKeeps

LEMMA InvokeKeeps ==
  ASSUME IInv, NEW k \in Calls, NEW c \in Calls, NEW i \in Requests, Invoke(k, c, i)
  PROVE  IInv'
<1>1. /\ HostRequest(k, c, i) /\ Current(k, c) /\ served[c][i] = "new"
      /\ counted' = [counted EXCEPT ![c] = @ + 1]
      /\ UNCHANGED <<echoes, nested>>
      /\ \/ Respond(k, c, i, 1) /\ UNCHANGED <<served, invoked>>
         \/ /\ served' = [served EXCEPT ![c][i] = "working"]
            /\ invoked' = [invoked EXCEPT ![c][i] = @ + 1]
            /\ UNCHANGED input
  BY DEF Invoke
<1>2. /\ Line(k, "host_request") /\ output[k] # <<>>
      /\ output' \in [Calls -> Seq(Frames)] /\ ByeInv'
      /\ UNCHANGED <<manager, client, python, sent, written>>
      /\ UNCHANGED <<pc, on, aborted, phase>>
  BY <1>1, HostRequestIs
<1>3. pc[c] = "execute" /\ on[c] = k BY <1>1, <1>2, CurrentIs
<1>4. input' \in [Calls -> Seq(Frames)] BY <1>1, RespondTyped, PythonTyped
<1>5. /\ counted' \in [Calls -> Nat]
      /\ \A d \in Calls :
           /\ counted'[d] <= (IF on[d] = k THEN counted[d] + 1 ELSE counted[d])
           /\ d # c => counted'[d] = counted[d]
  <2>1. counted' \in [Calls -> Nat] BY <1>1, BrokerTyped
  <2>2. \A d \in Calls : counted'[d] = IF d = c THEN counted[d] + 1 ELSE counted[d]
    BY <1>1, BrokerTyped
  <2> QED BY <1>3, <2>1, <2>2, BrokerTyped
<1>6. /\ echoes' \in [Calls -> [Requests -> Nat]]
      /\ \A d \in Calls, j \in Requests :
           echoes'[d][j] <= (IF on[d] = k THEN echoes[d][j] + 1 ELSE echoes[d][j])
  BY <1>1, BrokerTyped
<1>7. CountInv' /\ counted' \in [Calls -> 0..MaxWritten]
  BY <1>2, <1>5, <1>6, LinePays
<1>8. /\ served' \in [Calls -> [Requests -> {"new", "working", "answered"}]]
      /\ invoked' \in [Calls -> [Requests -> Nat]]
      /\ \A d \in Calls, j \in Requests :
           \/ d = c /\ j = i /\ served'[d][j] = "working"
           \/ served'[d][j] = served[d][j] /\ invoked'[d][j] = invoked[d][j]
  <2>1. /\ served \in [Calls -> [Requests -> {"new", "working", "answered"}]]
        /\ invoked \in [Calls -> [Requests -> Nat]]
    BY BrokerTyped DEF BrokerTypes
  <2>2. CASE UNCHANGED <<served, invoked>> BY <2>1, <2>2
  <2>3. CASE /\ served' = [served EXCEPT ![c][i] = "working"]
             /\ invoked' = [invoked EXCEPT ![c][i] = @ + 1]
    BY <2>1, <2>3
  <2> QED BY <1>1, <2>2, <2>3
<1>9. BrokerTypes' BY <1>1, <1>7, <1>8, BrokerTyped DEF BrokerTypes
<1>10. WorkInv'
  <2>1. \A d \in Calls, j \in Requests : served'[d][j] = "new" => invoked'[d][j] = 0
    BY <1>8 DEF IInv, WorkInv
  <2>2. \A d \in Calls, j \in Requests : served'[d][j] = "working" =>
          /\ on[d] \in Calls
          /\ \/ pc[d] \in {"execute", "snapshot", "done"}
             \/ pc[d] = "cut" /\ aborted[d]
    <3> SUFFICES ASSUME NEW d \in Calls, NEW j \in Requests, served'[d][j] = "working"
                 PROVE  /\ on[d] \in Calls
                        /\ \/ pc[d] \in {"execute", "snapshot", "done"}
                           \/ pc[d] = "cut" /\ aborted[d]
      OBVIOUS
    <3>1. CASE d = c /\ j = i BY <3>1, <1>3
    <3>2. CASE served[d][j] = "working" BY <3>2 DEF IInv, WorkInv
    <3> QED BY <1>8, <3>1, <3>2
  <2>3. \A d \in Calls : pc[d] = "execute" => ~aborted[d] BY DEF IInv, WorkInv
  <2> QED BY <1>2, <2>1, <2>2, <2>3 DEF WorkInv
<1>11. \A d \in Calls : pc[d] \in {"idle", "make"} =>
          counted'[d] = counted[d] /\ \A j \in Requests : echoes'[d][j] = echoes[d][j]
  BY <1>1, <1>3, <1>5
<1> QED BY <1>2, <1>4, <1>7, <1>9, <1>10, <1>11, BrokerKeeps

LEMMA HostsKeep == ASSUME IInv, NEW k \in Calls, Hosts(k) PROVE IInv'
BY RefuseKeeps, JoinKeeps, InvokeKeeps DEF Hosts

LEMMA AnswerKeeps ==
  ASSUME IInv, NEW c \in Calls, NEW i \in Requests, Answer(c, i) PROVE IInv'
<1>1. /\ served' = [served EXCEPT ![c][i] = "answered"]
      /\ Respond(on[c], c, i, 1 + echoes[c][i])
      /\ UNCHANGED <<manager, client, output, python, sent, written,
                     counted, echoes, nested, invoked>>
      /\ served[c][i] = "working"
  BY DEF Answer
<1>2. UNCHANGED <<pc, on, aborted, phase>> BY <1>1 DEF manager, client
<1>3. 1 + echoes[c][i] \in Nat BY BrokerTyped
<1>4. input' \in [Calls -> Seq(Frames)] BY <1>1, <1>3, RespondTyped
<1>5. output' \in [Calls -> Seq(Frames)] BY <1>1 DEF IInv, Types, ProcessTypes
<1>6. BrokerTypes' BY <1>1, BrokerTyped DEF BrokerTypes
<1>7. ByeInv' BY <1>1, <1>2 DEF IInv, ByeInv
<1>8. CountInv' BY <1>1, <1>2, OutputKeepsCounts
<1>9. WorkInv'
  <2>1. \A d \in Calls, j \in Requests :
          served'[d][j] = IF d = c /\ j = i THEN "answered" ELSE served[d][j]
    BY <1>1, BrokerTyped DEF BrokerTypes
  <2> QED BY <1>1, <1>2, <2>1 DEF IInv, WorkInv
<1> QED BY <1>1, <1>4, <1>5, <1>6, <1>7, <1>8, <1>9, BrokerKeeps

-----------------------------------------------------------------------------
(* What the manager's steps leave as it is *)

LEMMA ManagerTyped ==
  ASSUME IInv
  PROVE  /\ ManagerTypes /\ ClientTypes
         /\ pc \in [Calls -> {"idle", "lock"} \cup Building \cup Holding \cup Ended]
         /\ on \in [Calls -> Calls \cup {None}] /\ queue \in [Calls -> Seq(Calls)]
         /\ aborted \in [Calls -> BOOLEAN] /\ current \in Calls \cup {None}
BY DEF IInv, Types, ManagerTypes

\* Nobody starts anew, and who builds goes on with its own kernel.
LEMMA FreshKept ==
  ASSUME FreshInv, UNCHANGED <<on, counted, echoes>>,
         \A c \in Calls : phase[c] = "absent" => phase'[c] = "absent",
         \A c \in Calls : pc'[c] \in {"idle", "make"} => pc[c] \in {"idle", "make"},
         \A c \in Calls : pc'[c] \in Building \ {"make"} => pc[c] \in Building \ {"make"}
  PROVE  FreshInv'
<1>1. ASSUME NEW c \in Calls, pc'[c] \in {"idle", "make"}
      PROVE  /\ on'[c] = None /\ phase'[c] = "absent"
             /\ counted'[c] = 0 /\ \A i \in Requests : echoes'[c][i] = 0
  BY <1>1 DEF FreshInv
<1>2. ASSUME NEW c \in Calls, pc'[c] \in Building \ {"make"} PROVE on'[c] = c
  BY <1>2 DEF FreshInv
<1> QED BY <1>1, <1>2 DEF FreshInv

\* No kernel is named that was not, and none is unmade.
LEMMA MadeKept ==
  ASSUME MadeInv, on' = on, current' \in {current, None},
         \A k \in Calls : phase'[k] = "absent" => phase[k] = "absent"
  PROVE  MadeInv'
BY CallsAssumption DEF MadeInv

\* Frames stay pending, or leave; their calls wait on.
LEMMA PendingKept ==
  ASSUME PendingInv,
         \A k \in Calls : pending'[k] # {} => phase'[k] \in {"ready", "shut"},
         \A k, c \in Calls, kind \in {"restore", "execute", "snapshot"} :
             <<kind, c>> \in pending'[k] =>
                /\ <<kind, c>> \in pending[k]
                /\ pc[c] = kind => pc'[c] = pc[c] /\ on'[c] = on[c]
  PROVE  PendingInv'
<1> SUFFICES ASSUME NEW k \in Calls, NEW c \in Calls
             PROVE  /\ <<"execute", c>> \in pending'[k] => pc'[c] = "execute" /\ on'[c] = k
                    /\ <<"snapshot", c>> \in pending'[k] => pc'[c] = "snapshot" /\ on'[c] = k
                    /\ <<"restore", c>> \in pending'[k] => pc'[c] = "restore" /\ c = k
  BY DEF PendingInv
<1>1. /\ <<"execute", c>> \in pending[k] => pc[c] = "execute" /\ on[c] = k
      /\ <<"snapshot", c>> \in pending[k] => pc[c] = "snapshot" /\ on[c] = k
      /\ <<"restore", c>> \in pending[k] => pc[c] = "restore" /\ c = k
  BY DEF PendingInv
<1> QED BY <1>1

\* No work is taken on; who has any goes on, ends, or is aborted.
LEMMA WorkKept ==
  ASSUME WorkInv, UNCHANGED <<served, invoked>>,
         \A c \in Calls : on[c] \in Calls => on'[c] \in Calls,
         \A c \in Calls : pc'[c] = "execute" => ~aborted'[c],
         \A c \in Calls : aborted[c] => aborted'[c],
         \A c \in Calls : pc[c] = "cut" => pc'[c] = "cut",
         \A c \in Calls : pc[c] \in {"execute", "snapshot", "done"} =>
             \/ pc'[c] \in {"execute", "snapshot", "done"}
             \/ pc'[c] = "cut" /\ aborted'[c]
  PROVE  WorkInv'
<1>1. ASSUME NEW c \in Calls, NEW i \in Requests, served[c][i] = "working"
      PROVE  /\ on'[c] \in Calls
             /\ \/ pc'[c] \in {"execute", "snapshot", "done"}
                \/ pc'[c] = "cut" /\ aborted'[c]
  <2>1. /\ on[c] \in Calls
        /\ \/ pc[c] \in {"execute", "snapshot", "done"}
           \/ pc[c] = "cut" /\ aborted[c]
    BY <1>1 DEF WorkInv
  <2> QED BY <2>1
<1>2. \A c \in Calls, i \in Requests : served'[c][i] = "new" => invoked'[c][i] = 0
  BY DEF WorkInv
<1> QED BY <1>1, <1>2 DEF WorkInv

\* The pieces of the invariant, for a step that does not touch the requests.
LEMMA ManagerKeeps ==
  ASSUME IInv, ManagerTypes', ClientTypes', FreshInv', MadeInv', QueueInv', PendingInv',
         ByeInv', CountInv', WorkInv', input' \in [Calls -> Seq(Frames)],
         output' \in [Calls -> Seq(Frames)], python' \in [Calls -> States],
         UNCHANGED <<sent, written, counted, served, echoes, nested, invoked>>
  PROVE  IInv'
<1>1. ProcessTypes' BY DEF IInv, Types, ProcessTypes
<1>2. BrokerTypes' BY BrokerTyped DEF BrokerTypes
<1> QED BY <1>1, <1>2 DEF IInv, Types

\* Such a step of the manager alone, which writes no line of output.
LEMMA StepKeeps ==
  ASSUME IInv, ManagerTypes', ClientTypes', FreshInv', MadeInv', QueueInv', PendingInv',
         WorkInv',
         input' \in [Calls -> Seq(Frames)], UNCHANGED <<output, python, on>>,
         UNCHANGED <<sent, written, counted, served, echoes, nested, invoked>>,
         \A m \in Calls : phase'[m] = "shut" => phase[m] = "shut"
  PROVE  IInv'
<1>1. python' \in [Calls -> States] /\ output' \in [Calls -> Seq(Frames)]
  BY DEF IInv, Types, ProcessTypes
<1>2. ByeInv' BY SilenceKeepsBye DEF IInv
<1>3. CountInv' BY OutputKeepsCounts
<1> QED BY <1>1, <1>2, <1>3, ManagerKeeps

-----------------------------------------------------------------------------
(* The mutex of a kernel *)

\* Who is in a queue waits there, and only the first works.
LEMMA QueueHolds ==
  ASSUME ManagerTypes, QueueInv
  PROVE  /\ \A k \in Calls : queue[k] \in Seq(Calls) /\ Len(queue[k]) \in Nat
         /\ \A k \in Calls : \A j \in 1..Len(queue[k]) : queue[k][j] \in Calls
         /\ \A c \in Calls : pc[c] \notin Waiting =>
              \A k \in Calls : \A j \in 1..Len(queue[k]) : queue[k][j] # c
         /\ \A c \in Calls : pc[c] = "lock" =>
              on[c] \in Calls /\ queue[on[c]] # <<>> /\ Len(queue[on[c]]) > 0
              /\ Head(queue[on[c]]) = queue[on[c]][1]
<1>1. \A k \in Calls : queue[k] \in Seq(Calls) /\ Len(queue[k]) \in Nat
  BY LenProperties DEF ManagerTypes
<1>2. \A k \in Calls : \A j \in 1..Len(queue[k]) : queue[k][j] \in Calls
  BY <1>1, ElementOfSeq
<1>3. \A c \in Calls : pc[c] \notin Waiting =>
        \A k \in Calls : \A j \in 1..Len(queue[k]) : queue[k][j] # c
  BY DEF QueueInv
<1>4. ASSUME NEW c \in Calls, pc[c] = "lock"
      PROVE  /\ on[c] \in Calls /\ queue[on[c]] # <<>> /\ Len(queue[on[c]]) > 0
             /\ Head(queue[on[c]]) = queue[on[c]][1]
  <2>1. on[c] \in Calls /\ \E j \in 1..Len(queue[on[c]]) : queue[on[c]][j] = c
    BY <1>4 DEF QueueInv, Waiting
  <2>2. queue[on[c]] \in Seq(Calls) /\ Len(queue[on[c]]) \in Nat BY <1>1, <2>1
  <2>3. Len(queue[on[c]]) > 0 BY <2>1, <2>2
  <2>4. queue[on[c]] # <<>> BY <2>3
  <2> QED BY <2>1, <2>2, <2>3, <2>4
<1> QED BY <1>1, <1>2, <1>3, <1>4

\* One call moves: one outside the queues stays outside, and one that is first
\* goes on working.
LEMMA StaysQueued ==
  ASSUME ManagerTypes, QueueInv, NEW c \in Calls, NEW p, queue' = queue,
         \A d \in Calls : d # c => pc'[d] = pc[d] /\ on'[d] = on[d],
         pc'[c] = p,
         \/ pc[c] \notin Waiting /\ p \notin Waiting
         \/ /\ on'[c] = on[c] /\ p \in Holding
            /\ pc[c] \in Holding \/ (pc[c] = "lock" /\ Head(queue[on[c]]) = c)
  PROVE  QueueInv'
<1>1. CASE pc[c] \notin Waiting /\ p \notin Waiting
  <2>1. \A k \in Calls : \A j \in 1..Len(queue[k]) : queue[k][j] \in Calls /\ queue[k][j] # c
    BY <1>1, QueueHolds
  <2>2. \A k \in Calls : \A j \in 1..Len(queue[k]) :
          /\ on'[queue[k][j]] = k /\ pc'[queue[k][j]] \in Waiting
          /\ j # 1 => pc'[queue[k][j]] = "lock"
    BY <2>1 DEF QueueInv
  <2>3. \A d \in Calls : pc'[d] \in Waiting => d # c BY <1>1
  <2>4. \A d \in Calls : pc'[d] \in Waiting => on'[d] \in Calls BY <2>3 DEF QueueInv
  <2>5. \A d \in Calls : pc'[d] \in Holding => Len(queue[on'[d]]) > 0 /\ queue[on'[d]][1] = d
    BY <2>3 DEF QueueInv, Waiting
  <2>6. \A d \in Calls : pc'[d] = "lock" =>
          \E j \in 1..Len(queue[on'[d]]) : queue[on'[d]][j] = d
    BY <2>3 DEF QueueInv, Waiting
  <2>7. \A k \in Calls : \A i, j \in 1..Len(queue[k]) : i # j => queue[k][i] # queue[k][j]
    BY DEF QueueInv
  <2> QED BY <2>2, <2>4, <2>5, <2>6, <2>7 DEF QueueInv
<1>2. CASE /\ on'[c] = on[c] /\ p \in Holding
           /\ pc[c] \in Holding \/ (pc[c] = "lock" /\ Head(queue[on[c]]) = c)
  <2>1. on[c] \in Calls /\ Len(queue[on[c]]) > 0 /\ queue[on[c]][1] = c
    <3>1. CASE pc[c] \in Holding BY <3>1 DEF QueueInv, Waiting
    <3>2. CASE pc[c] = "lock" /\ Head(queue[on[c]]) = c BY <3>2, QueueHolds
    <3> QED BY <1>2, <3>1, <3>2
  <2>2. \A d \in Calls : on'[d] = on[d] BY <1>2
  <2>3. \A k \in Calls : \A j \in 1..Len(queue[k]) : queue[k][j] = c => j = 1
    <3> SUFFICES ASSUME NEW k \in Calls, NEW j \in 1..Len(queue[k]), queue[k][j] = c
                 PROVE  j = 1
      OBVIOUS
    <3>1. k = on[c] BY DEF QueueInv
    <3>2. 1 \in 1..Len(queue[k]) BY <2>1, <3>1, QueueHolds
    <3> QED BY <2>1, <3>1, <3>2 DEF QueueInv
  <2>4. \A k \in Calls : \A j \in 1..Len(queue[k]) :
          /\ on'[queue[k][j]] = k /\ pc'[queue[k][j]] \in Waiting
          /\ j # 1 => pc'[queue[k][j]] = "lock"
    <3> SUFFICES ASSUME NEW k \in Calls, NEW j \in 1..Len(queue[k])
                 PROVE  /\ on'[queue[k][j]] = k /\ pc'[queue[k][j]] \in Waiting
                        /\ j # 1 => pc'[queue[k][j]] = "lock"
      OBVIOUS
    <3>1. /\ queue[k][j] \in Calls /\ on[queue[k][j]] = k /\ pc[queue[k][j]] \in Waiting
          /\ j # 1 => pc[queue[k][j]] = "lock"
      <4>1. queue[k][j] \in Calls BY QueueHolds
      <4> QED BY <4>1 DEF QueueInv
    <3>2. CASE queue[k][j] = c BY <3>1, <3>2, <1>2, <2>2, <2>3 DEF Waiting
    <3>3. CASE queue[k][j] # c BY <3>1, <3>3, <2>2
    <3> QED BY <3>2, <3>3
  <2>5. \A d \in Calls : pc'[d] \in Waiting => on'[d] \in Calls BY <1>2, <2>1, <2>2 DEF QueueInv
  <2>6. \A d \in Calls : pc'[d] \in Holding => Len(queue[on'[d]]) > 0 /\ queue[on'[d]][1] = d
    BY <1>2, <2>1, <2>2 DEF QueueInv
  <2>7. \A d \in Calls : pc'[d] = "lock" =>
          \E j \in 1..Len(queue[on'[d]]) : queue[on'[d]][j] = d
    BY <1>2, <2>2 DEF QueueInv, Holding
  <2>8. \A k \in Calls : \A i, j \in 1..Len(queue[k]) : i # j => queue[k][i] # queue[k][j]
    BY DEF QueueInv
  <2> QED BY <2>4, <2>5, <2>6, <2>7, <2>8 DEF QueueInv
<1> QED BY <1>1, <1>2

LEMMA QueueAfter ==
  ASSUME \A k \in Calls : \A j \in 1..Len(queue'[k]) :
             /\ on'[queue'[k][j]] = k /\ pc'[queue'[k][j]] \in Waiting
             /\ j # 1 => pc'[queue'[k][j]] = "lock",
         \A k \in Calls : \A i, j \in 1..Len(queue'[k]) : i # j => queue'[k][i] # queue'[k][j],
         \A c \in Calls : pc'[c] \in Waiting => on'[c] \in Calls,
         \A c \in Calls : pc'[c] \in Holding =>
             Len(queue'[on'[c]]) > 0 /\ queue'[on'[c]][1] = c,
         \A c \in Calls : pc'[c] = "lock" =>
             \E j \in 1..Len(queue'[on'[c]]) : queue'[on'[c]][j] = c
  PROVE  QueueInv'
BY DEF QueueInv

\* A call that waits for the mutex is last.
LEMMA EntersQueue ==
  ASSUME ManagerTypes, QueueInv, NEW c \in Calls, NEW k \in Calls, pc[c] \notin Waiting,
         queue' = [queue EXCEPT ![k] = Append(@, c)], pc'[c] = "lock", on'[c] = k,
         \A d \in Calls : d # c => pc'[d] = pc[d] /\ on'[d] = on[d]
  PROVE  QueueInv'
<1> DEFINE n == Len(queue[k]) + 1
<1>1. \A m \in Calls : queue[m] \in Seq(Calls) /\ Len(queue[m]) \in Nat BY QueueHolds
<1>2. \A m \in Calls : \A j \in 1..Len(queue[m]) : queue[m][j] \in Calls /\ queue[m][j] # c
  BY QueueHolds
<1>3. \A m \in Calls : m # k => queue'[m] = queue[m] BY DEF ManagerTypes
<1>4. queue'[k] = Append(queue[k], c) BY DEF ManagerTypes
<1>5. /\ Len(queue'[k]) = n /\ queue'[k][n] = c /\ n \in Nat /\ n > 0
      /\ \A j \in 1..Len(queue[k]) : queue'[k][j] = queue[k][j]
  BY <1>1, <1>4, AppendProperties
<1>6. \A j \in 1..n : j = n \/ j \in 1..Len(queue[k]) BY <1>1
<1>7. ASSUME NEW m \in Calls, NEW j \in 1..Len(queue'[m])
      PROVE  /\ on'[queue'[m][j]] = m /\ pc'[queue'[m][j]] \in Waiting
             /\ j # 1 => pc'[queue'[m][j]] = "lock"
  <2>1. CASE m = k /\ j = n BY <1>5, <2>1 DEF Waiting
  <2>2. CASE j \in 1..Len(queue[m]) /\ queue'[m][j] = queue[m][j]
    <3>1. /\ on[queue[m][j]] = m /\ pc[queue[m][j]] \in Waiting
          /\ j # 1 => pc[queue[m][j]] = "lock"
      BY <2>2 DEF QueueInv
    <3> QED BY <1>2, <2>2, <3>1
  <2>3. \/ m = k /\ j = n
        \/ j \in 1..Len(queue[m]) /\ queue'[m][j] = queue[m][j]
    BY <1>3, <1>5, <1>6
  <2> QED BY <2>1, <2>2, <2>3
<1>8. ASSUME NEW m \in Calls, NEW i \in 1..Len(queue'[m]), NEW j \in 1..Len(queue'[m]), i # j
      PROVE  queue'[m][i] # queue'[m][j]
  <2>1. CASE m # k BY <1>3, <1>8, <2>1 DEF QueueInv
  <2>2. CASE m = k
    <3>1. i \in 1..n /\ j \in 1..n BY <1>5, <2>2
    <3>2. CASE i = n BY <1>2, <1>5, <1>6, <1>8, <2>2, <3>1, <3>2
    <3>3. CASE j = n BY <1>2, <1>5, <1>6, <1>8, <2>2, <3>1, <3>3
    <3>4. CASE i # n /\ j # n
      <4>1. i \in 1..Len(queue[k]) /\ j \in 1..Len(queue[k]) BY <1>6, <3>1, <3>4
      <4>2. queue[k][i] # queue[k][j] BY <1>8, <4>1 DEF QueueInv
      <4> QED BY <1>5, <2>2, <4>1, <4>2
    <3> QED BY <3>2, <3>3, <3>4
  <2> QED BY <2>1, <2>2
<1>9. \A d \in Calls : pc'[d] \in Waiting => on'[d] \in Calls BY DEF QueueInv
<1>10. ASSUME NEW d \in Calls, pc'[d] \in Holding
       PROVE  Len(queue'[on'[d]]) > 0 /\ queue'[on'[d]][1] = d
  <2>1. d # c BY <1>10 DEF Holding
  <2>2. on[d] \in Calls /\ Len(queue[on[d]]) > 0 /\ queue[on[d]][1] = d /\ on'[d] = on[d]
    BY <1>10, <2>1 DEF QueueInv, Waiting
  <2>3. 1 \in 1..Len(queue[on[d]]) BY <1>1, <2>2
  <2>4. CASE on[d] = k BY <1>5, <2>2, <2>3, <2>4
  <2>5. CASE on[d] # k BY <1>3, <2>2, <2>5
  <2> QED BY <2>4, <2>5
<1>11. ASSUME NEW d \in Calls, pc'[d] = "lock"
       PROVE  \E j \in 1..Len(queue'[on'[d]]) : queue'[on'[d]][j] = d
  <2>1. CASE d = c
    <3>1. n \in 1..Len(queue'[k]) BY <1>5
    <3> QED BY <1>5, <2>1, <3>1
  <2>2. CASE d # c
    <3>1. on[d] \in Calls /\ on'[d] = on[d] BY <1>11, <2>2 DEF QueueInv, Waiting
    <3>2. PICK j \in 1..Len(queue[on[d]]) : queue[on[d]][j] = d BY <1>11, <2>2 DEF QueueInv
    <3>3. CASE on[d] = k
      <4>1. j \in 1..Len(queue'[k]) /\ queue'[k][j] = d BY <1>1, <1>5, <3>2, <3>3
      <4> QED BY <3>1, <3>3, <4>1
    <3>4. CASE on[d] # k BY <1>3, <3>1, <3>2, <3>4
    <3> QED BY <3>3, <3>4
  <2> QED BY <2>1, <2>2
<1> QED BY <1>7, <1>8, <1>9, <1>10, <1>11 DEF QueueInv

\* The holder leaves, and the next is first.
LEMMA LeavesQueue ==
  ASSUME ManagerTypes, QueueInv, NEW c \in Calls, pc[c] \in Holding, on' = on,
         queue' = [queue EXCEPT ![on[c]] = Tail(@)], pc'[c] \in Ended,
         \A d \in Calls : d # c => pc'[d] = pc[d]
  PROVE  /\ QueueInv' /\ queue' \in [Calls -> Seq(Calls)]
<1> DEFINE k == on[c]
<1>1. k \in Calls /\ Len(queue[k]) > 0 /\ queue[k][1] = c BY DEF QueueInv, Waiting
<1>2. \A m \in Calls : queue[m] \in Seq(Calls) /\ Len(queue[m]) \in Nat BY QueueHolds
<1>3. \A m \in Calls : m # k => queue'[m] = queue[m] BY DEF ManagerTypes
<1>4. queue'[k] = Tail(queue[k]) BY <1>1 DEF ManagerTypes
<1> HIDE DEF k
<1>5. queue[k] # <<>> BY <1>1, <1>2, EmptySeq
<1>6. /\ Tail(queue[k]) \in Seq(Calls) /\ Len(queue'[k]) = Len(queue[k]) - 1
      /\ \A j \in 1..Len(queue'[k]) : queue'[k][j] = queue[k][j + 1]
  <2>1. queue[k] \in Seq(Calls) BY <1>1, <1>2
  <2>2. /\ Tail(queue[k]) \in Seq(Calls) /\ Len(Tail(queue[k])) = Len(queue[k]) - 1
        /\ \A j \in 1..Len(Tail(queue[k])) : Tail(queue[k])[j] = queue[k][j + 1]
    BY <1>5, <2>1, HeadTailProperties
  <2> QED BY <1>4, <2>2
<1>7. queue' \in [Calls -> Seq(Calls)] BY <1>6 DEF ManagerTypes, k
<1>8. \A j \in 1..Len(queue'[k]) : j + 1 \in 1..Len(queue[k]) /\ j + 1 # 1
  BY <1>1, <1>2, <1>6
<1>9. /\ \A m \in Calls : \A j \in 1..Len(queue[m]) :
           queue[m][j] \in Calls /\ (queue[m][j] = c => m = k /\ j = 1)
  <2> SUFFICES ASSUME NEW m \in Calls, NEW j \in 1..Len(queue[m])
               PROVE  queue[m][j] \in Calls /\ (queue[m][j] = c => m = k /\ j = 1)
    OBVIOUS
  <2>1. queue[m][j] \in Calls BY QueueHolds
  <2>2. queue[m][j] = c => m = k BY DEF QueueInv, k
  <2>3. 1 \in 1..Len(queue[k]) BY <1>1, <1>2
  <2>4. queue[m][j] = c => j = 1 BY <1>1, <2>2, <2>3 DEF QueueInv
  <2> QED BY <2>1, <2>2, <2>4
<1>10. ASSUME NEW j \in 1..Len(queue'[k])
       PROVE  /\ queue'[k][j] \in Calls /\ queue'[k][j] # c /\ on[queue'[k][j]] = k
              /\ pc'[queue'[k][j]] = "lock"
  <2>1. j + 1 \in 1..Len(queue[k]) /\ j + 1 # 1 /\ queue'[k][j] = queue[k][j + 1]
    BY <1>6, <1>8
  <2>2. PICK i \in 1..Len(queue[k]) : i = j + 1 BY <2>1
  <2>3. queue[k][i] \in Calls /\ queue[k][i] # c BY <1>1, <1>9, <2>1, <2>2
  <2>4. on[queue[k][i]] = k /\ pc[queue[k][i]] = "lock" BY <1>1, <2>1, <2>2 DEF QueueInv
  <2> QED BY <2>1, <2>2, <2>3, <2>4
<1>11. ASSUME NEW m \in Calls, NEW j \in 1..Len(queue'[m])
       PROVE  /\ on'[queue'[m][j]] = m /\ pc'[queue'[m][j]] \in Waiting
              /\ j # 1 => pc'[queue'[m][j]] = "lock"
  <2>1. CASE m = k BY <1>10, <2>1 DEF Waiting
  <2>2. CASE m # k
    <3>1. j \in 1..Len(queue[m]) /\ queue'[m][j] = queue[m][j] BY <1>3, <2>2
    <3>2. queue[m][j] \in Calls /\ queue[m][j] # c BY <1>9, <2>2, <3>1
    <3>3. /\ on[queue[m][j]] = m /\ pc[queue[m][j]] \in Waiting
          /\ j # 1 => pc[queue[m][j]] = "lock"
      BY <3>1 DEF QueueInv
    <3> QED BY <3>1, <3>2, <3>3
  <2> QED BY <2>1, <2>2
<1>12. ASSUME NEW m \in Calls, NEW i \in 1..Len(queue'[m]), NEW j \in 1..Len(queue'[m]), i # j
       PROVE  queue'[m][i] # queue'[m][j]
  <2>1. CASE m = k
    <3>1. /\ i + 1 \in 1..Len(queue[k]) /\ j + 1 \in 1..Len(queue[k]) /\ i + 1 # j + 1
          /\ queue'[k][i] = queue[k][i + 1] /\ queue'[k][j] = queue[k][j + 1]
      BY <1>6, <1>8, <1>12, <2>1
    <3>2. PICK a \in 1..Len(queue[k]), b \in 1..Len(queue[k]) : a = i + 1 /\ b = j + 1 BY <3>1
    <3>3. queue[k][a] # queue[k][b] BY <1>1, <3>1, <3>2 DEF QueueInv
    <3> QED BY <2>1, <3>1, <3>2, <3>3
  <2>2. CASE m # k BY <1>3, <1>12, <2>2 DEF QueueInv
  <2> QED BY <2>1, <2>2
<1>13. \A d \in Calls : pc'[d] \in Waiting => on'[d] \in Calls
  BY DEF QueueInv, Waiting, Holding, Ended
<1>14. \A d \in Calls : d # c /\ pc[d] \in Waiting /\ on[d] = k => pc[d] = "lock"
  BY <1>1 DEF QueueInv, Waiting
<1>15. ASSUME NEW d \in Calls, pc'[d] \in Holding
       PROVE  Len(queue'[on'[d]]) > 0 /\ queue'[on'[d]][1] = d
  <2>1. d # c BY <1>15 DEF Holding, Ended
  <2>2. on[d] \in Calls /\ on[d] # k /\ Len(queue[on[d]]) > 0 /\ queue[on[d]][1] = d
    BY <1>14, <1>15, <2>1 DEF QueueInv, Waiting, Holding
  <2> QED BY <1>3, <2>2
<1>16. ASSUME NEW d \in Calls, pc'[d] = "lock"
       PROVE  \E j \in 1..Len(queue'[on'[d]]) : queue'[on'[d]][j] = d
  <2>1. d # c /\ pc[d] = "lock" BY <1>16 DEF Ended
  <2>2. on[d] \in Calls BY <2>1 DEF QueueInv, Waiting
  <2>3. PICK j \in 1..Len(queue[on[d]]) : queue[on[d]][j] = d BY <2>1 DEF QueueInv
  <2>4. CASE on[d] = k
    <3>1. j # 1 BY <1>1, <2>1, <2>3, <2>4
    <3>2. j - 1 \in 1..Len(queue'[k]) /\ (j - 1) + 1 = j BY <1>1, <1>2, <1>6, <2>3, <2>4, <3>1
    <3>3. queue'[k][j - 1] = d BY <1>6, <2>3, <2>4, <3>2
    <3> QED BY <2>4, <3>2, <3>3
  <2>5. CASE on[d] # k BY <1>3, <2>2, <2>3, <2>5
  <2> QED BY <2>4, <2>5
<1>17. QueueInv'
  <2>1. \A m \in Calls : \A j \in 1..Len(queue'[m]) :
          /\ on'[queue'[m][j]] = m /\ pc'[queue'[m][j]] \in Waiting
          /\ j # 1 => pc'[queue'[m][j]] = "lock"
    BY <1>11
  <2>2. \A m \in Calls : \A i, j \in 1..Len(queue'[m]) : i # j => queue'[m][i] # queue'[m][j]
    BY <1>12
  <2>3. \A d \in Calls : pc'[d] \in Holding =>
          Len(queue'[on'[d]]) > 0 /\ queue'[on'[d]][1] = d
    BY <1>15
  <2>4. \A d \in Calls : pc'[d] = "lock" =>
          \E j \in 1..Len(queue'[on'[d]]) : queue'[on'[d]][j] = d
    BY <1>16
  <2> QED BY <1>13, <2>1, <2>2, <2>3, <2>4, QueueAfter
<1> QED BY <1>7, <1>17

-----------------------------------------------------------------------------
(* The end of a process *)

LEMMA FreshOn ==
  ASSUME FreshInv, NEW c \in Calls, pc[c] \in {"start", "restore", "abandon"}
  PROVE  on[c] = c
BY DEF FreshInv, Building

\* What Cut does, call by call and kernel by kernel.
LEMMA CutIs ==
  ASSUME IInv, NEW k \in Calls, Cut(k), on' = on
  PROVE  /\ \A c \in Calls : pc'[c] = IF on[c] = k /\ pc[c] \notin Ended THEN "cut" ELSE pc[c]
         /\ pc' \in [Calls -> {"idle", "lock"} \cup Building \cup Holding \cup Ended]
         /\ queue' \in [Calls -> Seq(Calls)] /\ queue'[k] = <<>>
         /\ \A m \in Calls : m # k => queue'[m] = queue[m]
         /\ current' \in Calls \cup {None}
         /\ phase' \in [Calls -> {"absent", "starting", "ready", "lost", "shut", "closed"}]
         /\ \A m \in Calls : phase'[m] = IF m = k THEN "closed" ELSE phase[m]
         /\ pending' \in [Calls -> SUBSET (Kinds \X Calls)]
         /\ \A m \in Calls : pending'[m] = IF m = k THEN {} ELSE pending[m]
         /\ closing' \in [Calls -> SUBSET {"session", "builder"}]
         /\ input' \in [Calls -> Seq(Frames)]
         /\ python' \in [Calls -> States]
         /\ \A m \in Calls : python'[m] = IF m = k THEN Exited ELSE python[m]
<1>1. \A c \in Calls : pc'[c] = IF on[c] = k /\ pc[c] \notin Ended THEN "cut" ELSE pc[c]
  BY DEF Cut, Users
<1>2. pc' \in [Calls -> {"idle", "lock"} \cup Building \cup Holding \cup Ended]
  <2>1. \A c \in Calls : pc'[c] \in {"idle", "lock"} \cup Building \cup Holding \cup Ended
    BY <1>1, ManagerTyped DEF Ended
  <2>2. pc' = [c \in Calls |-> IF c \in Users(k) THEN "cut" ELSE pc[c]] BY DEF Cut
  <2> QED BY <2>1, <2>2
<1>3. /\ queue' \in [Calls -> Seq(Calls)] /\ queue'[k] = <<>>
      /\ \A m \in Calls : m # k => queue'[m] = queue[m]
  <2>1. <<>> \in Seq(Calls) BY EmptySeq
  <2>2. queue' = [queue EXCEPT ![k] = <<>>] BY DEF Cut
  <2> QED BY <2>1, <2>2, ManagerTyped
<1>4. current' \in Calls \cup {None} BY ManagerTyped DEF Cut
<1>5. /\ phase' \in [Calls -> {"absent", "starting", "ready", "lost", "shut", "closed"}]
      /\ \A m \in Calls : phase'[m] = IF m = k THEN "closed" ELSE phase[m]
      /\ pending' \in [Calls -> SUBSET (Kinds \X Calls)]
      /\ \A m \in Calls : pending'[m] = IF m = k THEN {} ELSE pending[m]
      /\ closing' \in [Calls -> SUBSET {"session", "builder"}]
  BY ManagerTyped DEF Cut, ClientTypes
<1>6. input' \in [Calls -> Seq(Frames)]
  <2>1. <<>> \in Seq(Frames) BY EmptySeq
  <2>2. input' = [input EXCEPT ![k] = <<>>] BY DEF Cut
  <2> QED BY <2>1, <2>2, PythonTyped
<1>7. /\ python' \in [Calls -> States]
      /\ \A m \in Calls : python'[m] = IF m = k THEN Exited ELSE python[m]
  <2>1. python' = [python EXCEPT ![k] = Exited] BY DEF Cut
  <2> QED BY <2>1, StatesAre, PythonTyped
<1> QED BY <1>1, <1>2, <1>3, <1>4, <1>5, <1>6, <1>7

\* Nobody is left in the queue of a kernel that was cut, nor works with it.
LEMMA CutClears ==
  ASSUME IInv, NEW k \in Calls, Cut(k), on' = on
  PROVE  QueueInv'
<1>1. \A c \in Calls : pc'[c] = IF on[c] = k /\ pc[c] \notin Ended THEN "cut" ELSE pc[c]
  BY CutIs
<1>2. queue'[k] = <<>> /\ \A m \in Calls : m # k => queue'[m] = queue[m] BY CutIs
<1>3. ManagerTypes /\ QueueInv BY DEF IInv, Types
<1>4. \A c \in Calls : pc'[c] \in Waiting => pc'[c] = pc[c] /\ on[c] \in Calls /\ on[c] # k
  BY <1>1, <1>3 DEF QueueInv, Waiting, Holding, Ended
<1>5. Len(queue'[k]) = 0 BY <1>2
<1>6. ASSUME NEW m \in Calls, NEW j \in 1..Len(queue'[m])
      PROVE  /\ on'[queue'[m][j]] = m /\ pc'[queue'[m][j]] \in Waiting
             /\ j # 1 => pc'[queue'[m][j]] = "lock"
  <2>1. m # k BY <1>5
  <2>2. queue'[m] = queue[m] /\ j \in 1..Len(queue[m]) BY <1>2, <2>1
  <2>3. /\ queue[m][j] \in Calls /\ on[queue[m][j]] = m /\ pc[queue[m][j]] \in Waiting
        /\ j # 1 => pc[queue[m][j]] = "lock"
    BY <1>3, <2>2, QueueHolds DEF QueueInv
  <2> QED BY <1>1, <2>1, <2>2, <2>3
<1>7. \A m \in Calls : \A i, j \in 1..Len(queue'[m]) : i # j => queue'[m][i] # queue'[m][j]
  <2> SUFFICES ASSUME NEW m \in Calls, NEW i \in 1..Len(queue'[m]),
                      NEW j \in 1..Len(queue'[m]), i # j
               PROVE  queue'[m][i] # queue'[m][j]
    OBVIOUS
  <2>1. m # k BY <1>5
  <2>2. queue'[m] = queue[m] /\ i \in 1..Len(queue[m]) /\ j \in 1..Len(queue[m])
    BY <1>2, <2>1
  <2> QED BY <1>3, <2>2 DEF QueueInv
<1>8. \A c \in Calls : pc'[c] \in Waiting => on'[c] \in Calls BY <1>4
<1>9. \A c \in Calls : pc'[c] \in Holding => Len(queue'[on'[c]]) > 0 /\ queue'[on'[c]][1] = c
  <2> SUFFICES ASSUME NEW c \in Calls, pc'[c] \in Holding
               PROVE  Len(queue'[on[c]]) > 0 /\ queue'[on[c]][1] = c
    OBVIOUS
  <2>1. pc[c] \in Holding /\ on[c] \in Calls /\ on[c] # k BY <1>4 DEF Waiting
  <2>2. queue'[on[c]] = queue[on[c]] BY <1>2, <2>1
  <2> QED BY <1>3, <2>1, <2>2 DEF QueueInv
<1>10. \A c \in Calls : pc'[c] = "lock" =>
          \E j \in 1..Len(queue'[on'[c]]) : queue'[on'[c]][j] = c
  <2> SUFFICES ASSUME NEW c \in Calls, pc'[c] = "lock"
               PROVE  \E j \in 1..Len(queue'[on[c]]) : queue'[on[c]][j] = c
    OBVIOUS
  <2>1. pc[c] = "lock" /\ on[c] \in Calls /\ on[c] # k BY <1>4 DEF Waiting
  <2>2. queue'[on[c]] = queue[on[c]] BY <1>2, <2>1
  <2> QED BY <1>3, <2>1, <2>2 DEF QueueInv
<1>11. \A m \in Calls : \A j \in 1..Len(queue'[m]) :
         /\ on'[queue'[m][j]] = m /\ pc'[queue'[m][j]] \in Waiting
         /\ j # 1 => pc'[queue'[m][j]] = "lock"
  BY <1>6
<1> QED BY <1>7, <1>8, <1>9, <1>10, <1>11, QueueAfter

LEMMA CutKeeps ==
  ASSUME IInv, NEW k \in Calls, phase[k] # "absent", Cut(k),
         active' \in [Calls -> Calls \cup {None}], aborted' \in [Calls -> BOOLEAN],
         \A c \in Calls : aborted[c] => aborted'[c],
         \A c \in Calls : on[c] = k /\ pc[c] \in Sent => aborted'[c],
         \A c \in Calls : aborted'[c] => aborted[c] \/ (on[c] = k /\ pc[c] \in Holding),
         UNCHANGED <<on, output, sent, written, broker>>
  PROVE  IInv'
<1>1. Cut(k) /\ UNCHANGED <<on, output, sent, written, broker>> OBVIOUS
<1>2. UNCHANGED <<counted, served, echoes, nested, invoked>> BY <1>1 DEF broker
<1>3. \A c \in Calls : pc'[c] = IF on[c] = k /\ pc[c] \notin Ended THEN "cut" ELSE pc[c]
  BY <1>1, CutIs
<1>4. aborted' \in [Calls -> BOOLEAN] OBVIOUS
<1>5. /\ \A c \in Calls : aborted[c] => aborted'[c]
      /\ \A c \in Calls : on[c] = k /\ pc[c] \in Sent => aborted'[c]
      /\ \A c \in Calls : aborted'[c] => aborted[c] \/ (on[c] = k /\ pc[c] \in Holding)
  OBVIOUS
<1>6. ManagerTypes' BY <1>1, <1>4, CutIs, ManagerTyped DEF ManagerTypes
<1>7. ClientTypes' BY <1>1, CutIs DEF ClientTypes
<1>8. FreshInv'
  <2>1. FreshInv BY DEF IInv
  <2>2. \A m \in Calls : phase[m] = "absent" => phase'[m] = "absent" BY <1>1, CutIs
  <2>3. \A c \in Calls : pc'[c] \in {"idle", "make"} => pc[c] \in {"idle", "make"} BY <1>3
  <2>4. \A c \in Calls : pc'[c] \in Building \ {"make"} => pc[c] \in Building \ {"make"}
    BY <1>3 DEF Building
  <2> QED BY <1>1, <1>2, <2>1, <2>2, <2>3, <2>4, FreshKept
<1>9. QueueInv' BY <1>1, CutClears
<1>10. PendingInv'
  <2>1. PendingInv BY DEF IInv
  <2>2. \A m \in Calls : pending'[m] # {} => phase'[m] \in {"ready", "shut"}
    <3> SUFFICES ASSUME NEW m \in Calls, pending'[m] # {} PROVE phase'[m] \in {"ready", "shut"}
      OBVIOUS
    <3>1. m # k /\ pending'[m] = pending[m] /\ phase'[m] = phase[m] BY <1>1, CutIs
    <3> QED BY <2>1, <3>1 DEF PendingInv
  <2>3. ASSUME NEW m \in Calls, NEW c \in Calls, NEW kind \in {"restore", "execute", "snapshot"},
               <<kind, c>> \in pending'[m]
        PROVE  /\ <<kind, c>> \in pending[m]
               /\ pc[c] = kind => pc'[c] = pc[c] /\ on'[c] = on[c]
    <3>1. m # k /\ pending'[m] = pending[m] BY <1>1, <2>3, CutIs
    <3>2. on[c] = m
      <4>1. CASE kind = "restore"
        <5>1. pc[c] = "restore" /\ c = m BY <2>1, <2>3, <3>1, <4>1 DEF PendingInv
        <5> QED BY <5>1, FreshOn DEF IInv
      <4>2. CASE kind # "restore" BY <2>1, <2>3, <3>1, <4>2 DEF PendingInv
      <4> QED BY <4>1, <4>2
    <3> QED BY <1>1, <1>3, <2>3, <3>1, <3>2
  <2> QED BY <2>1, <2>2, <2>3, PendingKept
<1>11. ByeInv'
  <2>1. \A m \in Calls : python[m].run = "exited" => python'[m].run = "exited"
    BY <1>1, CutIs, StatesAre
  <2>2. \A m \in Calls : phase'[m] = "shut" => phase[m] = "shut" BY <1>1, CutIs
  <2> QED BY <1>1, <2>1, <2>2, SilenceKeepsBye DEF IInv
<1>12. CountInv' BY <1>1, <1>2, OutputKeepsCounts
<1>13. WorkInv'
  <2>1. WorkInv BY DEF IInv
  <2>2. \A c \in Calls : pc'[c] = "execute" => ~aborted'[c]
    BY <1>3, <1>5, <2>1 DEF WorkInv, Ended
  <2>3. \A c \in Calls : pc[c] = "cut" => pc'[c] = "cut" BY <1>3
  <2>4. \A c \in Calls : pc[c] \in {"execute", "snapshot", "done"} =>
          \/ pc'[c] \in {"execute", "snapshot", "done"}
          \/ pc'[c] = "cut" /\ aborted'[c]
    BY <1>3, <1>5 DEF Sent, Ended
  <2> QED BY <1>1, <1>2, <1>5, <2>1, <2>2, <2>3, <2>4, WorkKept
<1>14. output' \in [Calls -> Seq(Frames)] BY <1>1 DEF IInv, Types, ProcessTypes
<1>15. MadeInv'
  <2>1. current' \in {current, None} BY <1>1 DEF Cut
  <2>2. \A m \in Calls : phase'[m] = "absent" => phase[m] = "absent" BY <1>1, CutIs
  <2> QED BY <1>1, <2>1, <2>2, MadeKept DEF IInv
<1> QED BY <1>1, <1>2, <1>6, <1>7, <1>8, <1>9, <1>10, <1>11, <1>12, <1>13, <1>14, <1>15,
           CutIs, ManagerKeeps

LEMMA TerminateKeeps ==
  ASSUME IInv, NEW k \in Calls, phase[k] # "absent", NEW failed, Terminates(k, failed)
  PROVE  IInv'
<1>1. /\ Cut(k) /\ Inactivate(k, failed)
      /\ aborted' = [c \in Calls |-> aborted[c] \/ (on[c] = k /\ pc[c] \in Holding)]
      /\ UNCHANGED <<on, output, sent, written, broker>>
  BY DEF Terminates, Terminate
<1>2. aborted' \in [Calls -> BOOLEAN] BY <1>1, ManagerTyped
<1>3. /\ \A c \in Calls : aborted[c] => aborted'[c]
      /\ \A c \in Calls : on[c] = k /\ pc[c] \in Sent => aborted'[c]
      /\ \A c \in Calls : aborted'[c] => aborted[c] \/ (on[c] = k /\ pc[c] \in Holding)
  BY <1>1 DEF Sent, Holding
<1>4. active' \in [Calls -> Calls \cup {None}]
  <2>1. active' = [active EXCEPT ![k] = None] \/ active' = active BY <1>1 DEF Inactivate
  <2> QED BY <2>1, ManagerTyped DEF ClientTypes
<1> QED BY <1>1, <1>2, <1>3, <1>4, CutKeeps

LEMMA TimeOutKeeps == ASSUME IInv, NEW k \in Calls, TimeOut(k) PROVE IInv'
<1>1. CASE phase[k] \in {"starting", "shut"} /\ Terminates(k, {}) BY <1>1, TerminateKeeps
<1>2. ASSUME NEW e \in pending[k], Terminates(k, {e}) PROVE IInv'
  <2>1. phase[k] \in {"ready", "shut"} BY <1>2 DEF IInv, PendingInv
  <2> QED BY <1>2, <2>1, TerminateKeeps
<1> QED BY <1>1, <1>2 DEF TimeOut

LEMMA DiesKeeps == ASSUME IInv, NEW k \in Calls, Dies(k) PROVE IInv'
BY TerminateKeeps DEF Dies, IsOpen

\* A process that exits before it is ready had nothing to answer.
LEMMA ExitsUnreadyKeeps ==
  ASSUME IInv, SentInv, NEW k \in Calls, ExitsUnready(k)
  PROVE  IInv'
<1>1. /\ phase[k] = "starting" /\ phase' = [phase EXCEPT ![k] = "lost"]
      /\ aborted' = [c \in Calls |-> aborted[c] \/ (on[c] = k /\ pc[c] \in Holding)]
      /\ python' = [python EXCEPT ![k] = Exited]
      /\ UNCHANGED <<current, pc, on, queue, active, pending, closing, input, output>>
      /\ UNCHANGED <<sent, written, counted, served, echoes, nested, invoked>>
  BY DEF ExitsUnready, broker
<1>2. /\ phase' \in [Calls -> {"absent", "starting", "ready", "lost", "shut", "closed"}]
      /\ \A m \in Calls : phase'[m] = IF m = k THEN "lost" ELSE phase[m]
  BY <1>1, ManagerTyped DEF ClientTypes
<1>3. ManagerTypes' BY <1>1, ManagerTyped DEF ManagerTypes
<1>4. ClientTypes' BY <1>1, <1>2, ManagerTyped DEF ClientTypes
<1>5. FreshInv'
  <2>1. \A m \in Calls : phase[m] = "absent" => phase'[m] = "absent" BY <1>1, <1>2
  <2> QED BY <1>1, <2>1, FreshKept DEF IInv
<1>6. MadeInv'
  <2>1. \A m \in Calls : phase'[m] = "absent" => phase[m] = "absent" BY <1>2
  <2> QED BY <1>1, <2>1, MadeKept DEF IInv
<1>7. QueueInv' BY <1>1 DEF IInv, QueueInv
<1>8. PendingInv'
  <2>1. \A m \in Calls : pending[m] # {} => m # k BY <1>1 DEF IInv, PendingInv
  <2> QED BY <1>1, <1>2, <2>1 DEF IInv, PendingInv
<1>9. python' \in [Calls -> States]
      /\ \A m \in Calls : python'[m] = IF m = k THEN Exited ELSE python[m]
  BY <1>1, StatesAre, PythonTyped
<1>10. ByeInv'
  <2>1. \A m \in Calls : python[m].run = "exited" => python'[m].run = "exited"
    BY <1>9, StatesAre
  <2>2. \A m \in Calls : phase'[m] = "shut" => phase[m] = "shut" BY <1>2
  <2> QED BY <1>1, <2>1, <2>2, SilenceKeepsBye DEF IInv
<1>11. CountInv' BY <1>1, OutputKeepsCounts
<1>12. WorkInv'
  <2>1. \A c \in Calls : pc[c] = "execute" => ~aborted[c] /\ on[c] # k
    BY <1>1 DEF IInv, WorkInv, SentInv, Sent
  <2>2. \A c \in Calls : pc'[c] = "execute" => ~aborted'[c] BY <1>1, <2>1
  <2>3. \A c \in Calls : aborted[c] => aborted'[c] BY <1>1
  <2> QED BY <1>1, <2>2, <2>3, WorkKept DEF IInv
<1>13. input' \in [Calls -> Seq(Frames)] /\ output' \in [Calls -> Seq(Frames)]
  BY <1>1 DEF IInv, Types, ProcessTypes
<1> QED BY <1>1, <1>3, <1>4, <1>5, <1>6, <1>7, <1>8, <1>9, <1>10, <1>11, <1>12, <1>13,
           ManagerKeeps

LEMMA SettlesLateKeeps ==
  ASSUME IInv, SentInv, NEW k \in Calls, SettlesLate(k)
  PROVE  IInv'
<1>1. /\ phase[k] = "lost" /\ Cut(k)
      /\ UNCHANGED <<on, aborted, active, output, sent, written, broker>>
  BY DEF SettlesLate
<1>2. \A c \in Calls : ~(on[c] = k /\ pc[c] \in Sent) BY <1>1 DEF SentInv
<1>3. aborted' \in [Calls -> BOOLEAN] /\ active' \in [Calls -> Calls \cup {None}]
  BY <1>1, ManagerTyped DEF ClientTypes
<1> QED BY <1>1, <1>2, <1>3, CutKeeps

\* Who works with a kernel names it.
LEMMA HolderOn ==
  ASSUME IInv, NEW c \in Calls, pc[c] \in Waiting
  PROVE  on[c] \in Calls
BY DEF IInv, QueueInv

LEMMA SendAbortedKeeps == ASSUME IInv, NEW c \in Calls, SendAborted(c) PROVE IInv'
<1>1. on[c] \in Calls BY HolderOn DEF SendAborted, Waiting, Holding
<1> QED BY <1>1, TerminateKeeps DEF SendAborted

-----------------------------------------------------------------------------
(* The manager *)

\* What the move of one call does.
LEMMA GotoIs ==
  ASSUME IInv, NEW c \in Calls,
         NEW p \in {"idle", "lock"} \cup Building \cup Holding \cup Ended, Goto(c, p)
  PROVE  /\ pc' \in [Calls -> {"idle", "lock"} \cup Building \cup Holding \cup Ended]
         /\ pc'[c] = p /\ \A d \in Calls : d # c => pc'[d] = pc[d]
BY ManagerTyped DEF Goto

\* A frame goes on stdin and waits for its result.
LEMMA PostIs ==
  ASSUME IInv, NEW k \in Calls, NEW c \in Calls, NEW kind \in Kinds, Post(k, kind, c)
  PROVE  /\ pending' \in [Calls -> SUBSET (Kinds \X Calls)]
         /\ pending'[k] = pending[k] \cup {<<kind, c>>}
         /\ \A m \in Calls : m # k => pending'[m] = pending[m]
         /\ input' \in [Calls -> Seq(Frames)]
<1>1. pending \in [Calls -> SUBSET (Kinds \X Calls)] BY ManagerTyped DEF ClientTypes
<1>2. pending' = [pending EXCEPT ![k] = @ \cup {<<kind, c>>}] BY DEF Post
<1>3. Frame(kind, c, 0) \in Frames BY FrameTyped, Bounds
<1>4. Append(input[k], Frame(kind, c, 0)) \in Seq(Frames) BY <1>3, PythonTyped, Written
<1>5. input' \in [Calls -> Seq(Frames)] BY <1>4, PythonTyped DEF Post
<1>6. pending[k] \cup {<<kind, c>>} \in SUBSET (Kinds \X Calls)
  <2>1. <<kind, c>> \in Kinds \X Calls OBVIOUS
  <2>2. pending[k] \subseteq Kinds \X Calls BY <1>1
  <2> QED BY <2>1, <2>2
<1>7. /\ pending' \in [Calls -> SUBSET (Kinds \X Calls)]
      /\ pending'[k] = pending[k] \cup {<<kind, c>>}
      /\ \A m \in Calls : m # k => pending'[m] = pending[m]
  BY <1>1, <1>2, <1>6
<1> QED BY <1>5, <1>7

LEMMA PendingPosted ==
  ASSUME PendingInv, NEW k \in Calls, NEW c \in Calls, NEW kind \in Kinds,
         pending'[k] = pending[k] \cup {<<kind, c>>},
         \A m \in Calls : m # k => pending'[m] = pending[m],
         phase' = phase, on' = on, phase[k] \in {"ready", "shut"},
         \A d \in Calls : pc[d] \in {"restore", "execute", "snapshot"} => pc'[d] = pc[d],
         kind = "execute" => pc'[c] = "execute" /\ on[c] = k,
         kind = "snapshot" => pc'[c] = "snapshot" /\ on[c] = k,
         kind = "restore" => pc'[c] = "restore" /\ c = k
  PROVE  PendingInv'
<1>1. \A m \in Calls : pending'[m] # {} => phase'[m] \in {"ready", "shut"} BY DEF PendingInv
<1>2. ASSUME NEW m \in Calls, NEW d \in Calls
      PROVE  /\ <<"execute", d>> \in pending'[m] => pc'[d] = "execute" /\ on'[d] = m
             /\ <<"snapshot", d>> \in pending'[m] => pc'[d] = "snapshot" /\ on'[d] = m
             /\ <<"restore", d>> \in pending'[m] => pc'[d] = "restore" /\ d = m
  <2>1. /\ <<"execute", d>> \in pending[m] => pc[d] = "execute" /\ on[d] = m
        /\ <<"snapshot", d>> \in pending[m] => pc[d] = "snapshot" /\ on[d] = m
        /\ <<"restore", d>> \in pending[m] => pc[d] = "restore" /\ d = m
    BY DEF PendingInv
  <2>2. \A x : <<x, d>> \in pending'[m] =>
          <<x, d>> \in pending[m] \/ (m = k /\ x = kind /\ d = c)
    OBVIOUS
  <2> QED BY <2>1, <2>2
<1> QED BY <1>1, <1>2 DEF PendingInv

\* A call without a kernel takes the session's, or will make one.
LEMMA EnterKeeps ==
  ASSUME IInv, NEW c \in Calls, NEW more, Enter(c, more),
         UNCHANGED <<counted, served, echoes, invoked>>,
         nested' \in [Calls -> [Requests -> Calls \cup {None}]]
  PROVE  IInv'
<1>1. pc[c] = "idle" /\ UNCHANGED <<current, aborted, client, process>> BY DEF Enter
<1>2. UNCHANGED <<phase, active, pending, closing, input, output, python, sent, written>>
  BY <1>1 DEF client, process
<1>3. on[c] = None /\ phase[c] = "absent" /\ counted[c] = 0
      /\ \A i \in Requests : echoes[c][i] = 0
  BY <1>1 DEF IInv, FreshInv
<1>4. FreshInv /\ QueueInv /\ PendingInv /\ ByeInv /\ CountInv /\ WorkInv /\ Types BY DEF IInv
<1>5. ASSUME NEW p \in {"make", "lock"}, Goto(c, p), on' \in [Calls -> Calls \cup {None}],
             \A d \in Calls : d # c => on'[d] = on[d], on'[c] \in {on[c], current},
             queue' \in [Calls -> Seq(Calls)], FreshInv', QueueInv', CountInv'
      PROVE  IInv'
  <2>1. /\ pc' \in [Calls -> {"idle", "lock"} \cup Building \cup Holding \cup Ended]
        /\ pc'[c] = p /\ \A d \in Calls : d # c => pc'[d] = pc[d]
    BY <1>5, GotoIs DEF Building
  <2>2. Types'
    <3>1. ManagerTypes' BY <1>1, <1>5, <2>1, ManagerTyped DEF ManagerTypes
    <3>2. ClientTypes' /\ ProcessTypes' BY <1>2, <1>4 DEF Types, ClientTypes, ProcessTypes
    <3>3. BrokerTypes' BY BrokerTyped DEF BrokerTypes
    <3> QED BY <3>1, <3>2, <3>3 DEF Types
  <2>3. PendingInv'
    <3>1. \A k \in Calls : pending'[k] # {} => phase'[k] \in {"ready", "shut"}
      BY <1>2, <1>4 DEF PendingInv
    <3>2. \A k, d \in Calls, kind \in {"restore", "execute", "snapshot"} :
            <<kind, d>> \in pending'[k] =>
               /\ <<kind, d>> \in pending[k]
               /\ pc[d] = kind => pc'[d] = pc[d] /\ on'[d] = on[d]
      BY <1>1, <1>2, <1>5, <2>1
    <3> QED BY <1>4, <3>1, <3>2, PendingKept
  <2>4. ByeInv' BY <1>2, <1>4, SilenceKeepsBye
  <2>5. WorkInv'
    <3>1. \A d \in Calls : on[d] \in Calls => on'[d] \in Calls
      BY <1>3, <1>5, CallsAssumption
    <3>2. \A d \in Calls : pc'[d] = "execute" => ~aborted'[d]
      BY <1>1, <1>4, <2>1 DEF WorkInv
    <3>3. \A d \in Calls : pc[d] = "cut" => pc'[d] = "cut" BY <1>1, <2>1
    <3>4. \A d \in Calls : pc[d] \in {"execute", "snapshot", "done"} =>
            pc'[d] \in {"execute", "snapshot", "done"}
      BY <1>1, <2>1
    <3>5. \A d \in Calls : aborted[d] => aborted'[d] BY <1>1
    <3> QED BY <1>4, <3>1, <3>2, <3>3, <3>4, <3>5, WorkKept
  <2>6. MadeInv'
    <3>1. \A d \in Calls : on'[d] = on[d] \/ on'[d] = current BY <1>5
    <3> QED BY <1>1, <1>2, <3>1 DEF IInv, MadeInv
  <2> QED BY <1>5, <2>2, <2>3, <2>4, <2>5, <2>6 DEF IInv
<1>6. CASE current = None
  <2>1. Goto(c, "make") /\ on' = on /\ queue' = queue BY <1>6 DEF Enter
  <2>2. pc'[c] = "make" /\ \A d \in Calls : d # c => pc'[d] = pc[d]
    BY <2>1, GotoIs DEF Building
  <2>3. FreshInv'
    <3>1. \A d \in Calls : pc'[d] \in {"idle", "make"} => pc[d] \in {"idle", "make"}
      BY <1>1, <2>2
    <3>2. \A d \in Calls : pc'[d] \in Building \ {"make"} => pc[d] \in Building \ {"make"}
      BY <2>2
    <3> QED BY <1>2, <1>4, <2>1, <3>1, <3>2, FreshKept
  <2>4. QueueInv'
    <3>1. "idle" \notin Waiting /\ "make" \notin Waiting BY DEF Waiting, Holding
    <3> QED BY <1>1, <1>4, <2>1, <2>2, <3>1, StaysQueued DEF Types
  <2>5. CountInv' BY <1>2, <2>1, OutputKeepsCounts
  <2> QED BY <1>5, <2>1, <2>3, <2>4, <2>5, ManagerTyped
<1>7. CASE current # None
  <2> DEFINE k == current
  <2>1. /\ k \in Calls /\ Goto(c, "lock") /\ on' = [on EXCEPT ![c] = k]
        /\ queue' = [queue EXCEPT ![k] = Append(@, c)]
    BY <1>7, ManagerTyped DEF Enter
  <2> HIDE DEF k
  <2>2. pc'[c] = "lock" /\ \A d \in Calls : d # c => pc'[d] = pc[d] BY <2>1, GotoIs
  <2>3. /\ on' \in [Calls -> Calls \cup {None}] /\ on'[c] = k
        /\ \A d \in Calls : d # c => on'[d] = on[d]
    BY <2>1, ManagerTyped
  <2>4. queue' \in [Calls -> Seq(Calls)]
    <3>1. Append(queue[k], c) \in Seq(Calls) BY <2>1, ManagerTyped, AppendProperties
    <3> QED BY <2>1, <3>1, ManagerTyped
  <2>5. FreshInv'
    <3>1. ASSUME NEW d \in Calls, pc'[d] \in {"idle", "make"}
          PROVE  /\ on'[d] = None /\ phase'[d] = "absent"
                 /\ counted'[d] = 0 /\ \A i \in Requests : echoes'[d][i] = 0
      <4>1. d # c BY <2>2, <3>1
      <4> QED BY <1>2, <1>4, <2>2, <2>3, <3>1, <4>1 DEF FreshInv
    <3>2. ASSUME NEW d \in Calls, pc'[d] \in Building \ {"make"} PROVE on'[d] = d
      <4>1. d # c BY <2>2, <3>2 DEF Building
      <4> QED BY <1>4, <2>2, <2>3, <3>2, <4>1 DEF FreshInv
    <3> QED BY <3>1, <3>2 DEF FreshInv
  <2>6. QueueInv'
    <3>1. pc[c] \notin Waiting BY <1>1 DEF Waiting, Holding
    <3> QED BY <1>4, <2>1, <2>2, <2>3, <3>1, EntersQueue DEF Types
  <2>7. CountInv'
    <3>1. Asked(output[k]) \in Nat /\ Asked(output[k]) <= written
      BY <2>1, <1>4, AskedTyped DEF Types, ProcessTypes, CountInv
    <3>2. ASSUME NEW d \in Calls, on'[d] \in Calls
          PROVE  /\ counted[d] + Asked(output[on'[d]]) <= written
                 /\ \A i \in Requests : echoes[d][i] + Asked(output[on'[d]]) <= written
      <4>1. CASE d = c BY <1>3, <2>3, <3>1, <4>1
      <4>2. CASE d # c BY <1>4, <2>3, <3>2, <4>2 DEF CountInv
      <4> QED BY <4>1, <4>2
    <3> QED BY <1>2, <1>4, <3>2 DEF CountInv
  <2>8. on'[c] \in {on[c], current} BY <2>3 DEF k
  <2> QED BY <1>5, <2>1, <2>3, <2>4, <2>5, <2>6, <2>7, <2>8
<1> QED BY <1>6, <1>7

LEMMA ExecuteKeeps == ASSUME IInv, NEW c \in Calls, Execute(c) PROVE IInv'
<1>1. UNCHANGED <<counted, served, echoes, invoked>> /\ nested' = nested
  BY DEF Execute, Enter, broker
<1>2. nested' \in [Calls -> [Requests -> Calls \cup {None}]]
  BY <1>1, BrokerTyped DEF BrokerTypes
<1> QED BY <1>1, <1>2, EnterKeeps DEF Execute

LEMMA ReenterKeeps ==
  ASSUME IInv, NEW c \in Calls, NEW d \in Calls, NEW i \in Requests, Reenter(c, i, d)
  PROVE  IInv'
<1>1. UNCHANGED <<counted, served, echoes, invoked>> /\ nested' = [nested EXCEPT ![c][i] = d]
  BY DEF Reenter, Enter
<1>2. nested' \in [Calls -> [Requests -> Calls \cup {None}]]
  BY <1>1, BrokerTyped DEF BrokerTypes
<1> QED BY <1>1, <1>2, EnterKeeps DEF Reenter

\* A call moves, no queue changes and no frame is written: what is left to say
\* is about the phases and the controllers.
LEMMA MoveKeeps ==
  ASSUME IInv, NEW c \in Calls,
         NEW p \in {"idle", "lock"} \cup Building \cup Holding \cup Ended, Goto(c, p),
         p \notin {"idle", "make", "execute"}, pc[c] \notin {"execute", "snapshot", "done", "cut"},
         UNCHANGED <<on, queue, aborted, output, python, sent, written>>,
         UNCHANGED <<counted, served, echoes, nested, invoked>>,
         p \in Building => pc[c] \in Building \ {"make"},
         \/ pc[c] \notin Waiting /\ p \notin Waiting
         \/ p \in Holding /\ pc[c] = "lock" /\ Head(queue[on[c]]) = c,
         current' \in {current, None}, ClientTypes', PendingInv',
         input' \in [Calls -> Seq(Frames)], phase' = phase
  PROVE  IInv'
<1>1. FreshInv /\ QueueInv /\ WorkInv /\ ManagerTypes BY DEF IInv, Types
<1>2. /\ pc' \in [Calls -> {"idle", "lock"} \cup Building \cup Holding \cup Ended]
      /\ pc'[c] = p /\ \A d \in Calls : d # c => pc'[d] = pc[d]
  BY GotoIs
<1>3. ManagerTypes' /\ MadeInv'
  <2>1. ManagerTypes' BY <1>1, <1>2 DEF ManagerTypes
  <2>2. MadeInv' BY MadeKept DEF IInv
  <2> QED BY <2>1, <2>2
<1>4. FreshInv'
  <2>1. \A d \in Calls : pc'[d] \in {"idle", "make"} => pc[d] \in {"idle", "make"} BY <1>2
  <2>2. \A d \in Calls : pc'[d] \in Building \ {"make"} => pc[d] \in Building \ {"make"} BY <1>2
  <2> QED BY <1>1, <2>1, <2>2, FreshKept
<1>5. QueueInv' BY <1>1, <1>2, StaysQueued
<1>6. WorkInv'
  <2>1. \A d \in Calls : pc'[d] = "execute" => ~aborted'[d] BY <1>1, <1>2 DEF WorkInv
  <2>2. \A d \in Calls : pc[d] = "cut" => pc'[d] = "cut" BY <1>2
  <2>3. \A d \in Calls : pc[d] \in {"execute", "snapshot", "done"} =>
          pc'[d] \in {"execute", "snapshot", "done"}
    BY <1>2
  <2> QED BY <1>1, <2>1, <2>2, <2>3, WorkKept
<1> QED BY <1>3, <1>4, <1>5, <1>6, StepKeeps

\* With no frame posted or answered, what is pending stays so.
LEMMA PendingSame ==
  ASSUME PendingInv, UNCHANGED <<pending, on>>,
         \A k \in Calls : pending[k] # {} => phase'[k] \in {"ready", "shut"},
         \A d \in Calls : pc[d] \in {"restore", "execute", "snapshot"} => pc'[d] = pc[d]
  PROVE  PendingInv'
<1>1. \A k \in Calls : pending'[k] # {} => phase'[k] \in {"ready", "shut"} OBVIOUS
<1>2. \A k, c \in Calls, kind \in {"restore", "execute", "snapshot"} :
        <<kind, c>> \in pending'[k] =>
           /\ <<kind, c>> \in pending[k]
           /\ pc[c] = kind => pc'[c] = pc[c] /\ on'[c] = on[c]
  OBVIOUS
<1> QED BY <1>1, <1>2, PendingKept

LEMMA MakeKeeps == ASSUME IInv, NEW c \in Calls, Make(c) PROVE IInv'
<1>1. /\ pc[c] = "make" /\ Goto(c, "start") /\ on' = [on EXCEPT ![c] = c] /\ current' = c
      /\ phase' = [phase EXCEPT ![c] = "starting"]
      /\ UNCHANGED <<queue, aborted, active, pending, closing>>
      /\ UNCHANGED <<input, output, python, sent, written>>
      /\ UNCHANGED <<counted, served, echoes, nested, invoked>>
  BY DEF Make, process, broker
<1>2. FreshInv /\ QueueInv /\ PendingInv /\ ByeInv /\ CountInv /\ WorkInv /\ Types BY DEF IInv
<1>3. /\ pc' \in [Calls -> {"idle", "lock"} \cup Building \cup Holding \cup Ended]
      /\ pc'[c] = "start" /\ \A d \in Calls : d # c => pc'[d] = pc[d]
  BY <1>1, GotoIs DEF Building
<1>4. /\ on' \in [Calls -> Calls \cup {None}] /\ on'[c] = c
      /\ \A d \in Calls : d # c => on'[d] = on[d]
  BY <1>1, ManagerTyped
<1>5. /\ on[c] = None /\ phase[c] = "absent" /\ counted[c] = 0
      /\ \A i \in Requests : echoes[c][i] = 0
  BY <1>1, <1>2 DEF FreshInv
<1>6. ManagerTypes' BY <1>1, <1>3, <1>4, ManagerTyped DEF ManagerTypes
<1>7. /\ ClientTypes' /\ phase'[c] = "starting"
      /\ \A m \in Calls : m # c => phase'[m] = phase[m]
  BY <1>1, ManagerTyped DEF ClientTypes
<1>8. FreshInv'
  <2>1. ASSUME NEW d \in Calls, pc'[d] \in {"idle", "make"}
        PROVE  /\ on'[d] = None /\ phase'[d] = "absent"
               /\ counted'[d] = 0 /\ \A i \in Requests : echoes'[d][i] = 0
    <3>1. d # c BY <1>3, <2>1
    <3> QED BY <1>1, <1>2, <1>3, <1>4, <1>7, <2>1, <3>1 DEF FreshInv
  <2>2. ASSUME NEW d \in Calls, pc'[d] \in Building \ {"make"} PROVE on'[d] = d
    <3>1. CASE d = c BY <1>4, <3>1
    <3>2. CASE d # c BY <1>2, <1>3, <1>4, <2>2, <3>2 DEF FreshInv
    <3> QED BY <3>1, <3>2
  <2> QED BY <2>1, <2>2 DEF FreshInv
<1>9. QueueInv'
  <2>1. pc[c] \notin Waiting /\ "start" \notin Waiting BY <1>1 DEF Waiting, Holding
  <2> QED BY <1>1, <1>2, <1>3, <1>4, <2>1, StaysQueued DEF Types
<1>10. PendingInv'
  <2>1. \A k \in Calls : pending'[k] # {} => phase'[k] \in {"ready", "shut"}
    <3> SUFFICES ASSUME NEW k \in Calls, pending'[k] # {} PROVE phase'[k] \in {"ready", "shut"}
      OBVIOUS
    <3>1. phase[k] \in {"ready", "shut"} BY <1>1, <1>2 DEF PendingInv
    <3> QED BY <1>5, <1>7, <3>1
  <2>2. \A k, d \in Calls, kind \in {"restore", "execute", "snapshot"} :
          <<kind, d>> \in pending'[k] =>
             /\ <<kind, d>> \in pending[k]
             /\ pc[d] = kind => pc'[d] = pc[d] /\ on'[d] = on[d]
    BY <1>1, <1>3, <1>4
  <2> QED BY <1>2, <2>1, <2>2, PendingKept
<1>11. ByeInv'
  <2>1. \A m \in Calls : phase'[m] = "shut" => phase[m] = "shut" BY <1>7
  <2> QED BY <1>1, <1>2, <2>1, SilenceKeepsBye
<1>12. CountInv'
  <2>1. Asked(output[c]) \in Nat /\ Asked(output[c]) <= written
    BY <1>2, AskedTyped DEF Types, ProcessTypes, CountInv
  <2>2. ASSUME NEW d \in Calls, on'[d] \in Calls
        PROVE  /\ counted[d] + Asked(output[on'[d]]) <= written
               /\ \A i \in Requests : echoes[d][i] + Asked(output[on'[d]]) <= written
    <3>1. CASE d = c BY <1>4, <1>5, <2>1, <3>1
    <3>2. CASE d # c BY <1>2, <1>4, <2>2, <3>2 DEF CountInv
    <3> QED BY <3>1, <3>2
  <2> QED BY <1>1, <1>2, <2>2 DEF CountInv
<1>13. WorkInv'
  <2>1. \A d \in Calls : on[d] \in Calls => on'[d] \in Calls BY <1>4
  <2>2. \A d \in Calls : pc'[d] = "execute" => ~aborted'[d] BY <1>1, <1>2, <1>3 DEF WorkInv
  <2>3. \A d \in Calls : pc[d] = "cut" => pc'[d] = "cut" BY <1>1, <1>3
  <2>4. \A d \in Calls : pc[d] \in {"execute", "snapshot", "done"} =>
          pc'[d] \in {"execute", "snapshot", "done"}
    BY <1>1, <1>3
  <2>5. \A d \in Calls : aborted[d] => aborted'[d] BY <1>1
  <2> QED BY <1>1, <1>2, <2>1, <2>2, <2>3, <2>4, <2>5, WorkKept
<1>14. /\ input' \in [Calls -> Seq(Frames)] /\ output' \in [Calls -> Seq(Frames)]
       /\ python' \in [Calls -> States]
  BY <1>1, <1>2 DEF Types, ProcessTypes
<1>15. MadeInv'
  <2>1. ASSUME NEW d \in Calls, on'[d] \in Calls PROVE phase'[on'[d]] # "absent"
    <3>1. CASE d = c BY <1>4, <1>7, <3>1
    <3>2. CASE d # c /\ on'[d] = c BY <1>7, <3>2
    <3>3. CASE d # c /\ on'[d] # c BY <1>4, <1>7, <2>1, <3>3 DEF IInv, MadeInv
    <3> QED BY <3>1, <3>2, <3>3
  <2> QED BY <1>1, <1>7, <2>1 DEF MadeInv
<1> QED BY <1>1, <1>6, <1>7, <1>8, <1>9, <1>10, <1>11, <1>12, <1>13, <1>14, <1>15,
           ManagerKeeps

LEMMA MakeFailsKeeps == ASSUME IInv, NEW c \in Calls, MakeFails(c) PROVE IInv'
<1>1. /\ pc[c] = "make" /\ Goto(c, "cut")
      /\ UNCHANGED <<current, on, queue, aborted>>
      /\ UNCHANGED <<phase, active, pending, closing>>
      /\ UNCHANGED <<input, output, python, sent, written>>
      /\ UNCHANGED <<counted, served, echoes, nested, invoked>>
  BY DEF MakeFails, client, process, broker
<1>2. pc'[c] = "cut" /\ \A d \in Calls : d # c => pc'[d] = pc[d]
  BY <1>1, GotoIs DEF Ended
<1>3. PendingInv'
  <2>1. \A k \in Calls : pending[k] # {} => phase'[k] \in {"ready", "shut"}
    BY <1>1 DEF IInv, PendingInv
  <2>2. \A d \in Calls : pc[d] \in {"restore", "execute", "snapshot"} => pc'[d] = pc[d]
    BY <1>1, <1>2
  <2> QED BY <1>1, <2>1, <2>2, PendingSame DEF IInv
<1>4. ClientTypes' BY <1>1, ManagerTyped DEF ClientTypes
<1>5. "cut" \in Ended /\ "cut" \notin Waiting /\ "make" \notin Waiting /\ "cut" \notin Building
  BY DEF Ended, Waiting, Holding, Building
<1>6. current' \in {current, None} /\ input' \in [Calls -> Seq(Frames)]
  BY <1>1, PythonTyped
<1> QED BY <1>1, <1>3, <1>4, <1>5, <1>6, MoveKeeps

LEMMA StartKeeps == ASSUME IInv, NEW k \in Calls, Start(k) PROVE IInv'
<1>1. /\ phase[k] = "starting" /\ phase' = [phase EXCEPT ![k] = "ready"]
      /\ UNCHANGED <<current, pc, on, queue, aborted>>
      /\ UNCHANGED <<active, pending, closing>>
      /\ UNCHANGED <<input, output, python, sent, written>>
      /\ UNCHANGED <<counted, served, echoes, nested, invoked>>
  BY DEF Start, manager, process, broker
<1>2. \A m \in Calls : phase'[m] = IF m = k THEN "ready" ELSE phase[m]
  BY <1>1, ManagerTyped DEF ClientTypes
<1>3. ManagerTypes' /\ ClientTypes' BY <1>1, ManagerTyped DEF ManagerTypes, ClientTypes
<1>4. FreshInv' BY <1>1, <1>2, FreshKept DEF IInv
<1>5. MadeInv' BY <1>1, <1>2, MadeKept DEF IInv
<1>6. QueueInv' BY <1>1 DEF IInv, QueueInv
<1>7. PendingInv'
  <2>1. \A m \in Calls : pending[m] # {} => phase'[m] \in {"ready", "shut"}
    BY <1>2 DEF IInv, PendingInv
  <2> QED BY <1>1, <2>1, PendingSame DEF IInv
<1>8. WorkInv' BY <1>1 DEF IInv, WorkInv
<1>9. input' \in [Calls -> Seq(Frames)] BY <1>1, PythonTyped
<1> QED BY <1>1, <1>2, <1>3, <1>4, <1>5, <1>6, <1>7, <1>8, <1>9, StepKeeps

LEMMA RestoreKeeps == ASSUME IInv, NEW c \in Calls, Restore(c) PROVE IInv'
<1>1. /\ pc[c] = "start" /\ phase[c] = "ready" /\ Goto(c, "restore")
      /\ Post(c, "restore", c)
      /\ UNCHANGED <<current, on, queue, aborted, phase, active, closing>>
      /\ UNCHANGED <<output, python, sent, written>>
      /\ UNCHANGED <<counted, served, echoes, nested, invoked>>
  BY DEF Restore, broker
<1>2. pc'[c] = "restore" /\ \A d \in Calls : d # c => pc'[d] = pc[d]
  BY <1>1, GotoIs DEF Building
<1>3. /\ pending' \in [Calls -> SUBSET (Kinds \X Calls)]
      /\ pending'[c] = pending[c] \cup {<<"restore", c>>}
      /\ \A m \in Calls : m # c => pending'[m] = pending[m]
      /\ input' \in [Calls -> Seq(Frames)]
  BY <1>1, PostIs DEF Kinds
<1>4. ClientTypes' BY <1>1, <1>3, ManagerTyped DEF ClientTypes
<1>5. PendingInv'
  <2>1. \A d \in Calls : pc[d] \in {"restore", "execute", "snapshot"} => pc'[d] = pc[d]
    BY <1>1, <1>2
  <2> QED BY <1>1, <1>2, <1>3, <2>1, PendingPosted DEF IInv, Kinds
<1>6. "restore" \in Building /\ "start" \in Building \ {"make"}
      /\ "start" \notin Waiting /\ "restore" \notin Waiting
  BY DEF Building, Waiting, Holding
<1> QED BY <1>1, <1>3, <1>4, <1>5, <1>6, MoveKeeps

LEMMA BeginKeeps == ASSUME IInv, NEW c \in Calls, Begin(c) PROVE IInv'
<1>1. /\ pc[c] = "lock" /\ Head(queue[on[c]]) = c /\ Goto(c, "begin")
      /\ active' = [active EXCEPT ![on[c]] = c]
      /\ UNCHANGED <<current, on, queue, aborted, phase, pending, closing>>
      /\ UNCHANGED <<input, output, python, sent, written>>
      /\ UNCHANGED <<counted, served, echoes, nested, invoked>>
  BY DEF Begin, process, broker
<1>2. pc'[c] = "begin" /\ \A d \in Calls : d # c => pc'[d] = pc[d]
  BY <1>1, GotoIs DEF Holding
<1>3. ClientTypes' BY <1>1, ManagerTyped DEF ClientTypes
<1>4. PendingInv'
  <2>1. \A k \in Calls : pending[k] # {} => phase'[k] \in {"ready", "shut"}
    BY <1>1 DEF IInv, PendingInv
  <2>2. \A d \in Calls : pc[d] \in {"restore", "execute", "snapshot"} => pc'[d] = pc[d]
    BY <1>1, <1>2
  <2> QED BY <1>1, <2>1, <2>2, PendingSame DEF IInv
<1>5. "begin" \in Holding /\ "begin" \notin Building BY DEF Holding, Building
<1>6. input' \in [Calls -> Seq(Frames)] BY <1>1, PythonTyped
<1> QED BY <1>1, <1>3, <1>4, <1>5, <1>6, MoveKeeps

\* The execution is sent by the holder of the mutex, whose controller is not
\* aborted.
LEMMA SendKeeps == ASSUME IInv, NEW c \in Calls, Send(c) PROVE IInv'
<1>1. /\ pc[c] = "begin" /\ phase[on[c]] = "ready" /\ ~aborted[c] /\ Goto(c, "execute")
      /\ Post(on[c], "execute", c)
      /\ UNCHANGED <<current, on, queue, aborted, phase, active, closing>>
      /\ UNCHANGED <<output, python, sent, written>>
      /\ UNCHANGED <<counted, served, echoes, nested, invoked>>
  BY DEF Send, broker
<1>2. on[c] \in Calls BY <1>1, HolderOn DEF Waiting, Holding
<1>3. /\ pc' \in [Calls -> {"idle", "lock"} \cup Building \cup Holding \cup Ended]
      /\ pc'[c] = "execute" /\ \A d \in Calls : d # c => pc'[d] = pc[d]
  BY <1>1, GotoIs DEF Holding
<1>4. /\ pending' \in [Calls -> SUBSET (Kinds \X Calls)]
      /\ pending'[on[c]] = pending[on[c]] \cup {<<"execute", c>>}
      /\ \A m \in Calls : m # on[c] => pending'[m] = pending[m]
      /\ input' \in [Calls -> Seq(Frames)]
  BY <1>1, <1>2, PostIs DEF Kinds
<1>5. ClientTypes' BY <1>1, <1>4, ManagerTyped DEF ClientTypes
<1>6. ManagerTypes' BY <1>1, <1>3, ManagerTyped DEF ManagerTypes
<1>7. FreshInv'
  <2>1. \A d \in Calls : pc'[d] \in {"idle", "make"} => pc[d] \in {"idle", "make"} BY <1>3
  <2>2. \A d \in Calls : pc'[d] \in Building \ {"make"} => pc[d] \in Building \ {"make"}
    BY <1>3 DEF Building
  <2> QED BY <1>1, <2>1, <2>2, FreshKept DEF IInv
<1>8. MadeInv' BY <1>1, MadeKept DEF IInv
<1>9. QueueInv'
  <2>1. "execute" \in Holding /\ pc[c] \in Holding BY <1>1 DEF Holding
  <2> QED BY <1>1, <1>3, <2>1, StaysQueued, ManagerTyped DEF IInv
<1>10. PendingInv'
  <2>1. \A d \in Calls : pc[d] \in {"restore", "execute", "snapshot"} => pc'[d] = pc[d]
    BY <1>1, <1>3
  <2> QED BY <1>1, <1>2, <1>3, <1>4, <2>1, PendingPosted DEF IInv, Kinds
<1>11. WorkInv'
  <2>1. \A d \in Calls : pc'[d] = "execute" => ~aborted'[d] BY <1>1, <1>3 DEF IInv, WorkInv
  <2>2. \A d \in Calls : pc[d] = "cut" => pc'[d] = "cut" BY <1>1, <1>3
  <2>3. \A d \in Calls : pc[d] \in {"execute", "snapshot", "done"} =>
          pc'[d] \in {"execute", "snapshot", "done"}
    BY <1>1, <1>3
  <2> QED BY <1>1, <2>1, <2>2, <2>3, WorkKept DEF IInv
<1> QED BY <1>1, <1>4, <1>5, <1>6, <1>7, <1>8, <1>9, <1>10, <1>11, StepKeeps

LEMMA SendFailsKeeps == ASSUME IInv, NEW c \in Calls, SendFails(c) PROVE IInv'
<1>1. /\ pc[c] = "begin" /\ Goto(c, "cut") /\ queue' = [queue EXCEPT ![on[c]] = Tail(@)]
      /\ current' = None /\ UNCHANGED <<on, aborted>>
      /\ UNCHANGED <<phase, active, pending, closing>>
      /\ UNCHANGED <<input, output, python, sent, written>>
      /\ UNCHANGED <<counted, served, echoes, nested, invoked>>
  BY DEF SendFails, Leave, client, process, broker
<1>2. /\ pc' \in [Calls -> {"idle", "lock"} \cup Building \cup Holding \cup Ended]
      /\ pc'[c] = "cut" /\ \A d \in Calls : d # c => pc'[d] = pc[d]
  BY <1>1, GotoIs DEF Ended
<1>3. QueueInv' /\ queue' \in [Calls -> Seq(Calls)]
  <2>1. pc[c] \in Holding /\ pc'[c] \in Ended BY <1>1, <1>2 DEF Holding, Ended
  <2> QED BY <1>1, <1>2, <2>1, LeavesQueue, ManagerTyped DEF IInv
<1>4. ManagerTypes' /\ ClientTypes'
  BY <1>1, <1>2, <1>3, ManagerTyped DEF ManagerTypes, ClientTypes
<1>5. FreshInv'
  <2>1. \A d \in Calls : pc'[d] \in {"idle", "make"} => pc[d] \in {"idle", "make"} BY <1>2
  <2>2. \A d \in Calls : pc'[d] \in Building \ {"make"} => pc[d] \in Building \ {"make"}
    BY <1>2 DEF Building
  <2> QED BY <1>1, <2>1, <2>2, FreshKept DEF IInv
<1>6. MadeInv' BY <1>1, MadeKept DEF IInv
<1>7. PendingInv'
  <2>1. \A k \in Calls : pending[k] # {} => phase'[k] \in {"ready", "shut"}
    BY <1>1 DEF IInv, PendingInv
  <2>2. \A d \in Calls : pc[d] \in {"restore", "execute", "snapshot"} => pc'[d] = pc[d]
    BY <1>1, <1>2
  <2> QED BY <1>1, <2>1, <2>2, PendingSame DEF IInv
<1>8. WorkInv'
  <2>1. \A d \in Calls : pc'[d] = "execute" => ~aborted'[d] BY <1>1, <1>2 DEF IInv, WorkInv
  <2>2. \A d \in Calls : pc[d] = "cut" => pc'[d] = "cut" BY <1>2
  <2>3. \A d \in Calls : pc[d] \in {"execute", "snapshot", "done"} =>
          pc'[d] \in {"execute", "snapshot", "done"}
    BY <1>1, <1>2
  <2> QED BY <1>1, <2>1, <2>2, <2>3, WorkKept DEF IInv
<1>9. input' \in [Calls -> Seq(Frames)] BY <1>1, PythonTyped
<1> QED BY <1>1, <1>3, <1>4, <1>5, <1>6, <1>7, <1>8, <1>9, StepKeeps

\* The turn is cancelled: with the execution its process goes, and before or
\* after it the controller alone.
LEMMA CancelKeeps == ASSUME IInv, NEW c \in Calls, Cancel(c) PROVE IInv'
<1>1. pc[c] \in Holding /\ on[c] \in Calls BY HolderOn DEF Cancel, Waiting
<1>2. CASE pc[c] = "execute"
  <2>1. Terminates(on[c], {<<"execute", c>>}) BY <1>2 DEF Cancel, Terminates
  <2>2. phase[on[c]] # "absent" BY <1>1 DEF IInv, MadeInv
  <2> QED BY <1>1, <2>1, <2>2, TerminateKeeps
<1>3. CASE pc[c] # "execute"
  <2>1. /\ aborted' = [aborted EXCEPT ![c] = TRUE]
        /\ UNCHANGED <<current, pc, on, queue>>
        /\ UNCHANGED <<phase, active, pending, closing>>
        /\ UNCHANGED <<input, output, python, sent, written>>
        /\ UNCHANGED <<counted, served, echoes, nested, invoked>>
    BY <1>3 DEF Cancel, client, broker
  <2>2. ManagerTypes' /\ ClientTypes'
    BY <2>1, ManagerTyped DEF ManagerTypes, ClientTypes
  <2>3. FreshInv' BY <2>1, FreshKept DEF IInv
  <2>4. MadeInv' BY <2>1, MadeKept DEF IInv
  <2>5. QueueInv' BY <2>1 DEF IInv, QueueInv
  <2>6. PendingInv' BY <2>1 DEF IInv, PendingInv
  <2>7. WorkInv'
    <3>1. \A d \in Calls : /\ d # c => aborted'[d] = aborted[d]
                           /\ aborted[d] => aborted'[d]
      BY <2>1, ManagerTyped
    <3>2. \A d \in Calls : pc[d] = "execute" => ~aborted'[d]
      BY <1>3, <3>1 DEF IInv, WorkInv
    <3> QED BY <2>1, <3>1, <3>2, WorkKept DEF IInv
  <2>8. input' \in [Calls -> Seq(Frames)] BY <2>1, PythonTyped
  <2> QED BY <2>1, <2>2, <2>3, <2>4, <2>5, <2>6, <2>7, <2>8, StepKeeps
<1> QED BY <1>2, <1>3

LEMMA CloseKeeps == ASSUME IInv, Close PROVE IInv'
<1>1. /\ current # None /\ current' \in {current, None}
      /\ \/ closing' = closing
         \/ closing' = [closing EXCEPT ![current] = @ \cup {"session"}]
      /\ UNCHANGED <<pc, on, queue, aborted, phase, active, pending>>
      /\ UNCHANGED <<input, output, python, sent, written>>
      /\ UNCHANGED <<counted, served, echoes, nested, invoked>>
  BY DEF Close, process, broker
<1>2. ManagerTypes' BY <1>1, ManagerTyped DEF ManagerTypes
<1>3. closing' \in [Calls -> SUBSET {"session", "builder"}]
  BY <1>1, ManagerTyped DEF ClientTypes
<1>4. ClientTypes' BY <1>1, <1>3, ManagerTyped DEF ClientTypes
<1>5. FreshInv' BY <1>1, FreshKept DEF IInv
<1>6. MadeInv' BY <1>1, MadeKept DEF IInv
<1>7. QueueInv' BY <1>1 DEF IInv, QueueInv
<1>8. PendingInv' BY <1>1 DEF IInv, PendingInv
<1>9. WorkInv' BY <1>1 DEF IInv, WorkInv
<1>10. input' \in [Calls -> Seq(Frames)] BY <1>1, PythonTyped
<1> QED BY <1>1, <1>2, <1>4, <1>5, <1>6, <1>7, <1>8, <1>9, <1>10, StepKeeps

LEMMA PostShutdownKeeps == ASSUME IInv, NEW k \in Calls, PostShutdown(k) PROVE IInv'
<1>1. /\ phase[k] = "ready" /\ Post(k, "shutdown", k)
      /\ UNCHANGED <<current, pc, on, queue, aborted>>
      /\ UNCHANGED <<phase, active, closing>>
      /\ UNCHANGED <<output, python, sent, written>>
      /\ UNCHANGED <<counted, served, echoes, nested, invoked>>
  BY DEF PostShutdown, manager, broker
<1>2. /\ pending' \in [Calls -> SUBSET (Kinds \X Calls)]
      /\ pending'[k] = pending[k] \cup {<<"shutdown", k>>}
      /\ \A m \in Calls : m # k => pending'[m] = pending[m]
      /\ input' \in [Calls -> Seq(Frames)]
  BY <1>1, PostIs DEF Kinds
<1>3. ManagerTypes' /\ ClientTypes'
  BY <1>1, <1>2, ManagerTyped DEF ManagerTypes, ClientTypes
<1>4. FreshInv' BY <1>1, FreshKept DEF IInv
<1>5. MadeInv' BY <1>1, MadeKept DEF IInv
<1>6. QueueInv' BY <1>1 DEF IInv, QueueInv
<1>7. PendingInv' BY <1>1, <1>2, PendingPosted DEF IInv, Kinds
<1>8. WorkInv' BY <1>1 DEF IInv, WorkInv
<1> QED BY <1>1, <1>2, <1>3, <1>4, <1>5, <1>6, <1>7, <1>8, StepKeeps

-----------------------------------------------------------------------------
(* The results *)

\* Reading a line is all that happens to the process, and no request is added.
LEMMA LineIs ==
  ASSUME IInv, NEW k \in Calls, NEW kind, Line(k, kind),
         UNCHANGED <<on, python, sent, written, counted, echoes>>, input' \in [Calls -> Seq(Frames)]
  PROVE  /\ output' \in [Calls -> Seq(Frames)] /\ python' \in [Calls -> States]
         /\ output[k] # <<>> /\ Head(output[k]) \in Frames /\ Head(output[k]).kind = kind
         /\ CountInv'
         /\ phase' = phase => ByeInv'
<1>1. ProcessTypes /\ ByeInv BY DEF IInv, Types
<1>2. output[k] \in Seq(Frames) /\ output[k] # <<>> /\ Head(output[k]).kind = kind
  BY <1>1 DEF ProcessTypes, Line
<1>3. Head(output[k]) \in Frames BY <1>2, HeadTailProperties
<1>4. /\ output' \in [Calls -> Seq(Frames)]
      /\ \A m \in Calls : Asked(output'[m]) <= Asked(output[m])
  BY <1>1, LineAsked
<1>5. python' \in [Calls -> States] BY <1>1 DEF ProcessTypes
<1>6. ProcessTypes' BY <1>1, <1>4 DEF ProcessTypes
<1>7. CountInv' BY <1>4, <1>6, CountsKept
<1>8. phase' = phase => ByeInv' BY <1>1, LineKeepsBye
<1> QED BY <1>2, <1>3, <1>4, <1>5, <1>7, <1>8

\* A result of what is pending comes from a process that has not been told to
\* exit, to the call that waits for it.
LEMMA ResultIs ==
  ASSUME IInv, NEW k \in Calls, NEW kind \in Kinds, Result(k, kind)
  PROVE  /\ Line(k, kind) /\ output[k] # <<>>
         /\ Head(output[k]) \in Frames /\ Head(output[k]).call \in Calls
         /\ <<kind, Head(output[k]).call>> \in pending[k] /\ phase[k] = "ready"
         /\ kind \in {"restore", "execute", "snapshot"} => pc[Head(output[k]).call] = kind
         /\ kind \in {"execute", "snapshot"} => on[Head(output[k]).call] = k
         /\ kind = "restore" => Head(output[k]).call = k
         /\ UNCHANGED <<on, aborted, python, sent, written>>
         /\ UNCHANGED <<counted, served, echoes, nested, invoked>>
<1> DEFINE c == Head(output[k]).call
<1>1. /\ Line(k, kind) /\ output[k] # <<>> /\ <<kind, c>> \in pending[k]
      /\ UNCHANGED <<on, aborted, python, sent, written>>
      /\ UNCHANGED <<counted, served, echoes, nested, invoked>>
  BY DEF Result, Line, broker
<1>2. output[k] \in Seq(Frames) BY DEF IInv, Types, ProcessTypes
<1>3. Head(output[k]) \in Frames BY <1>1, <1>2, HeadTailProperties
<1>4. c \in Calls BY <1>3, FrameParts
<1>5. phase[k] = "ready" BY <1>1 DEF IInv, PendingInv, ByeInv
<1> HIDE DEF c
<1>6. /\ kind \in {"restore", "execute", "snapshot"} => pc[c] = kind
      /\ kind \in {"execute", "snapshot"} => on[c] = k
      /\ kind = "restore" => c = k
  BY <1>1, <1>4 DEF IInv, PendingInv
<1> QED BY <1>1, <1>3, <1>4, <1>5, <1>6 DEF c

\* What is left for a result that changes neither the phase nor the process.
LEMMA ResultKeeps ==
  ASSUME IInv, NEW k \in Calls, NEW kind \in Kinds, Result(k, kind), phase' = phase,
         input' \in [Calls -> Seq(Frames)], current' \in {current, None},
         pc' \in [Calls -> {"idle", "lock"} \cup Building \cup Holding \cup Ended],
         queue' \in [Calls -> Seq(Calls)], active' \in [Calls -> Calls \cup {None}],
         pending' \in [Calls -> SUBSET (Kinds \X Calls)],
         closing' \in [Calls -> SUBSET {"session", "builder"}],
         \A c \in Calls : pc'[c] \in {"idle", "make"} => pc[c] \in {"idle", "make"},
         \A c \in Calls : pc'[c] \in Building \ {"make"} => pc[c] \in Building \ {"make"},
         \A c \in Calls : pc'[c] = "execute" => pc[c] = "execute",
         \A c \in Calls : pc[c] = "cut" => pc'[c] = "cut",
         \A c \in Calls : pc[c] \in {"execute", "snapshot", "done"} =>
             pc'[c] \in {"execute", "snapshot", "done"},
         QueueInv', PendingInv'
  PROVE  IInv'
<1>1. /\ Line(k, kind) /\ UNCHANGED <<on, aborted, python, sent, written>>
      /\ UNCHANGED <<counted, served, echoes, nested, invoked>>
  BY ResultIs
<1>2. /\ output' \in [Calls -> Seq(Frames)] /\ python' \in [Calls -> States]
      /\ CountInv' /\ ByeInv'
  BY <1>1, LineIs
<1>3. ManagerTypes' /\ ClientTypes' BY <1>1, ManagerTyped DEF ManagerTypes, ClientTypes
<1>4. FreshInv' BY <1>1, FreshKept DEF IInv
<1>5. MadeInv' BY <1>1, MadeKept DEF IInv
<1>6. WorkInv'
  <2>1. \A c \in Calls : pc'[c] = "execute" => ~aborted'[c] BY <1>1 DEF IInv, WorkInv
  <2> QED BY <1>1, <2>1, WorkKept DEF IInv
<1> QED BY <1>1, <1>2, <1>3, <1>4, <1>5, <1>6, ManagerKeeps

\* What is answered is no longer pending, and all else is.
LEMMA AnsweredIs ==
  ASSUME IInv, NEW k \in Calls, NEW kind, Answered(k, kind)
  PROVE  /\ pending' \in [Calls -> SUBSET (Kinds \X Calls)]
         /\ pending'[k] = pending[k] \ {<<kind, Head(output[k]).call>>}
         /\ \A m \in Calls : m # k => pending'[m] = pending[m]
         /\ \A m \in Calls : pending'[m] \subseteq pending[m]
<1>1. pending \in [Calls -> SUBSET (Kinds \X Calls)] BY ManagerTyped DEF ClientTypes
<1>2. pending' = [pending EXCEPT ![k] = @ \ {<<kind, Head(output[k]).call>>}] BY DEF Answered
<1> QED BY <1>1, <1>2

\* With the frame of one call answered, that call may move; the others wait on.
LEMMA PendingAnswered ==
  ASSUME IInv, NEW k \in Calls, NEW kind \in {"restore", "execute", "snapshot"},
         Answered(k, kind), Head(output[k]).call \in Calls, UNCHANGED <<phase, on>>,
         <<kind, Head(output[k]).call>> \in pending[k],
         \A d \in Calls : d # Head(output[k]).call => pc'[d] = pc[d]
  PROVE  PendingInv'
<1> DEFINE c == Head(output[k]).call
<1>1. PendingInv BY DEF IInv
<1>2. /\ pending'[k] = pending[k] \ {<<kind, c>>}
      /\ \A m \in Calls : m # k => pending'[m] = pending[m]
      /\ \A m \in Calls : pending'[m] \subseteq pending[m]
  BY AnsweredIs
<1> HIDE DEF c
<1>3. \A m \in Calls : pending'[m] # {} => phase'[m] \in {"ready", "shut"}
  <2> SUFFICES ASSUME NEW m \in Calls, pending'[m] # {} PROVE phase[m] \in {"ready", "shut"}
    OBVIOUS
  <2>1. pending[m] # {} BY <1>2
  <2> QED BY <1>1, <2>1 DEF PendingInv
<1>4. pc[c] = kind /\ (kind # "restore" => on[c] = k) /\ (kind = "restore" => c = k)
  <2>1. c \in Calls /\ <<kind, c>> \in pending[k] BY DEF c
  <2> QED BY <1>1, <2>1 DEF PendingInv
<1>5. ASSUME NEW m \in Calls, NEW d \in Calls, NEW x \in {"restore", "execute", "snapshot"},
             <<x, d>> \in pending'[m]
      PROVE  <<x, d>> \in pending[m] /\ d # c
  <2>1. <<x, d>> \in pending[m] BY <1>2, <1>5
  <2>2. pc[d] = x /\ (x # "restore" => on[d] = m) /\ (x = "restore" => d = m)
    BY <1>1, <2>1 DEF PendingInv
  <2>3. d = c => m = k /\ x = kind BY <1>4, <2>2
  <2>4. <<kind, c>> \notin pending'[k] BY <1>2
  <2> QED BY <1>5, <2>1, <2>3, <2>4
<1>6. \A d \in Calls : d # c => pc'[d] = pc[d] BY DEF c
<1>7. \A m, d \in Calls, x \in {"restore", "execute", "snapshot"} :
        <<x, d>> \in pending'[m] =>
           /\ <<x, d>> \in pending[m]
           /\ pc[d] = x => pc'[d] = pc[d] /\ on'[d] = on[d]
  BY <1>5, <1>6
<1> QED BY <1>1, <1>3, <1>7, PendingKept

LEMMA LateResultKeeps == ASSUME IInv, NEW k \in Calls, LateResult(k) PROVE IInv'
<1>1. PICK kind \in Kinds : Line(k, kind) BY DEF LateResult
<1>2. /\ UNCHANGED <<current, pc, on, queue, aborted, phase, active, pending, closing>>
      /\ UNCHANGED <<input, python, sent, written>>
      /\ UNCHANGED <<counted, served, echoes, nested, invoked>>
  BY DEF LateResult, manager, client, broker
<1>3. input' \in [Calls -> Seq(Frames)] BY <1>2, PythonTyped
<1>4. /\ output' \in [Calls -> Seq(Frames)] /\ python' \in [Calls -> States]
      /\ CountInv' /\ ByeInv'
  BY <1>1, <1>2, <1>3, LineIs
<1>5. ManagerTypes' /\ ClientTypes' BY <1>2, ManagerTyped DEF ManagerTypes, ClientTypes
<1>6. FreshInv' BY <1>2, FreshKept DEF IInv
<1>7. MadeInv' BY <1>2, MadeKept DEF IInv
<1>8. QueueInv' BY <1>2 DEF IInv, QueueInv
<1>9. PendingInv' BY <1>2 DEF IInv, PendingInv
<1>10. WorkInv' BY <1>2 DEF IInv, WorkInv
<1> QED BY <1>2, <1>3, <1>4, <1>5, <1>6, <1>7, <1>8, <1>9, <1>10, ManagerKeeps

LEMMA RestoredKeeps == ASSUME IInv, NEW k \in Calls, Restored(k) PROVE IInv'
<1>1. /\ Result(k, "restore") /\ Answered(k, "restore") /\ Goto(k, "lock")
      /\ queue' = [queue EXCEPT ![k] = Append(@, k)]
      /\ UNCHANGED <<current, phase, active, closing, input>>
  BY DEF Restored
<1>2. /\ Head(output[k]).call = k /\ <<"restore", k>> \in pending[k] /\ pc[k] = "restore"
      /\ on' = on
  BY <1>1, ResultIs DEF Kinds
<1>3. /\ pc' \in [Calls -> {"idle", "lock"} \cup Building \cup Holding \cup Ended]
      /\ pc'[k] = "lock" /\ \A d \in Calls : d # k => pc'[d] = pc[d]
  BY <1>1, GotoIs
<1>4. QueueInv'
  <2>1. pc[k] \notin Waiting BY <1>2 DEF Waiting, Holding
  <2>2. on[k] = k BY <1>2, FreshOn DEF IInv
  <2> QED BY <1>1, <1>2, <1>3, <2>1, <2>2, EntersQueue, ManagerTyped DEF IInv
<1>5. queue' \in [Calls -> Seq(Calls)]
  <2>1. Append(queue[k], k) \in Seq(Calls) BY ManagerTyped, AppendProperties
  <2> QED BY <1>1, <2>1, ManagerTyped
<1>6. PendingInv' BY <1>1, <1>2, <1>3, PendingAnswered
<1>7. /\ pending' \in [Calls -> SUBSET (Kinds \X Calls)] /\ input' \in [Calls -> Seq(Frames)]
      /\ active' \in [Calls -> Calls \cup {None}]
      /\ closing' \in [Calls -> SUBSET {"session", "builder"}]
  BY <1>1, AnsweredIs, PythonTyped, ManagerTyped DEF ClientTypes
<1>8. \A d \in Calls : pc'[d] \in Building \ {"make"} => pc[d] \in Building \ {"make"}
  BY <1>3 DEF Building
<1>9. \A d \in Calls : pc[d] \in {"execute", "snapshot", "done"} =>
        pc'[d] \in {"execute", "snapshot", "done"}
  BY <1>2, <1>3
<1> QED BY <1>1, <1>2, <1>3, <1>4, <1>5, <1>6, <1>7, <1>8, <1>9, ResultKeeps DEF Kinds

LEMMA RestoreFailsKeeps == ASSUME IInv, NEW k \in Calls, RestoreFails(k) PROVE IInv'
<1>1. /\ Result(k, "restore") /\ Answered(k, "restore") /\ Goto(k, "abandon")
      /\ current' = None /\ closing' = [closing EXCEPT ![k] = @ \cup {"builder"}]
      /\ UNCHANGED <<queue, phase, active, input>>
  BY DEF RestoreFails
<1>2. /\ Head(output[k]).call = k /\ <<"restore", k>> \in pending[k] /\ pc[k] = "restore"
      /\ on' = on
  BY <1>1, ResultIs DEF Kinds
<1>3. /\ pc' \in [Calls -> {"idle", "lock"} \cup Building \cup Holding \cup Ended]
      /\ pc'[k] = "abandon" /\ \A d \in Calls : d # k => pc'[d] = pc[d]
  BY <1>1, GotoIs DEF Building
<1>4. QueueInv'
  <2>1. pc[k] \notin Waiting /\ "abandon" \notin Waiting BY <1>2 DEF Waiting, Holding
  <2> QED BY <1>1, <1>2, <1>3, <2>1, StaysQueued, ManagerTyped DEF IInv
<1>5. PendingInv' BY <1>1, <1>2, <1>3, PendingAnswered
<1>6. /\ pending' \in [Calls -> SUBSET (Kinds \X Calls)] /\ input' \in [Calls -> Seq(Frames)]
      /\ active' \in [Calls -> Calls \cup {None}] /\ queue' \in [Calls -> Seq(Calls)]
      /\ closing' \in [Calls -> SUBSET {"session", "builder"}]
  BY <1>1, AnsweredIs, PythonTyped, ManagerTyped DEF ClientTypes
<1>7. \A d \in Calls : pc'[d] \in Building \ {"make"} => pc[d] \in Building \ {"make"}
  BY <1>2, <1>3 DEF Building
<1>8. \A d \in Calls : pc[d] \in {"execute", "snapshot", "done"} =>
        pc'[d] \in {"execute", "snapshot", "done"}
  BY <1>2, <1>3
<1> QED BY <1>1, <1>2, <1>3, <1>4, <1>5, <1>6, <1>7, <1>8, ResultKeeps DEF Kinds

\* The call that leaves the mutex is the one whose frame was answered.
LEMMA LeaveKeeps ==
  ASSUME IInv, NEW k \in Calls, NEW kind \in {"execute", "snapshot"},
         Result(k, kind), Answered(k, kind), Leave(Head(output[k]).call, "done"),
         active' \in [Calls -> Calls \cup {None}], UNCHANGED <<current, phase, closing, input>>
  PROVE  IInv'
<1> DEFINE c == Head(output[k]).call
<1>1. kind \in Kinds BY DEF Kinds
<1>2. c \in Calls /\ <<kind, c>> \in pending[k] /\ pc[c] = kind /\ on[c] = k /\ on' = on
  BY <1>1, ResultIs
<1>3. Goto(c, "done") /\ queue' = [queue EXCEPT ![on[c]] = Tail(@)] BY DEF Leave
<1>4. PendingInv'
  <2>1. \A d \in Calls : d # c => pc'[d] = pc[d] BY <1>2, <1>3, GotoIs DEF Ended
  <2> QED BY <1>2, <2>1, PendingAnswered
<1> HIDE DEF c
<1>5. /\ pc' \in [Calls -> {"idle", "lock"} \cup Building \cup Holding \cup Ended]
      /\ pc'[c] = "done" /\ \A d \in Calls : d # c => pc'[d] = pc[d]
  BY <1>2, <1>3, GotoIs DEF Ended
<1>6. QueueInv' /\ queue' \in [Calls -> Seq(Calls)]
  <2>1. pc[c] \in Holding /\ pc'[c] \in Ended BY <1>2, <1>5 DEF Holding, Ended
  <2> QED BY <1>2, <1>3, <1>5, <2>1, LeavesQueue, ManagerTyped DEF IInv
<1>7. /\ pending' \in [Calls -> SUBSET (Kinds \X Calls)] /\ input' \in [Calls -> Seq(Frames)]
      /\ closing' \in [Calls -> SUBSET {"session", "builder"}]
  BY AnsweredIs, PythonTyped, ManagerTyped DEF ClientTypes
<1>8. \A d \in Calls : pc'[d] \in Building \ {"make"} => pc[d] \in Building \ {"make"}
  BY <1>5 DEF Building
<1>9. \A d \in Calls : pc[d] \in {"execute", "snapshot", "done"} =>
        pc'[d] \in {"execute", "snapshot", "done"}
  BY <1>2, <1>5
<1>10. /\ \A d \in Calls : pc'[d] \in {"idle", "make"} => pc[d] \in {"idle", "make"}
       /\ \A d \in Calls : pc'[d] = "execute" => pc[d] = "execute"
       /\ \A d \in Calls : pc[d] = "cut" => pc'[d] = "cut"
  BY <1>2, <1>5
<1> QED BY <1>1, <1>4, <1>5, <1>6, <1>7, <1>8, <1>9, <1>10, ResultKeeps

LEMMA ExecutionFailsKeeps == ASSUME IInv, NEW k \in Calls, ExecutionFails(k) PROVE IInv'
<1>1. active' = [active EXCEPT ![k] = None] BY DEF ExecutionFails
<1>2. active' \in [Calls -> Calls \cup {None}] BY <1>1, ManagerTyped DEF ClientTypes
<1> QED BY <1>2, LeaveKeeps DEF ExecutionFails

LEMMA SavedKeeps == ASSUME IInv, NEW k \in Calls, Saved(k) PROVE IInv'
<1>1. active' \in [Calls -> Calls \cup {None}] BY ManagerTyped DEF ClientTypes, Saved
<1> QED BY <1>1, LeaveKeeps DEF Saved

\* The execution makes way for its snapshot, in pending as in the call.
LEMMA ExecutedKeeps == ASSUME IInv, NEW k \in Calls, Executed(k) PROVE IInv'
<1> DEFINE c == Head(output[k]).call
<1>1. /\ Result(k, "execute") /\ Goto(c, "snapshot")
      /\ pending' = [pending EXCEPT ![k] = (@ \ {<<"execute", c>>}) \cup {<<"snapshot", c>>}]
      /\ input' = [input EXCEPT ![k] = Append(@, Frame("snapshot", c, 0))]
      /\ active' = [active EXCEPT ![k] = None]
      /\ UNCHANGED <<current, queue, phase, closing>>
  BY DEF Executed
<1>2. /\ c \in Calls /\ <<"execute", c>> \in pending[k] /\ pc[c] = "execute" /\ on[c] = k
      /\ on' = on /\ phase[k] = "ready"
  BY <1>1, ResultIs DEF Kinds
<1> HIDE DEF c
<1>3. /\ pc' \in [Calls -> {"idle", "lock"} \cup Building \cup Holding \cup Ended]
      /\ pc'[c] = "snapshot" /\ \A d \in Calls : d # c => pc'[d] = pc[d]
  BY <1>1, <1>2, GotoIs DEF Holding
<1>4. QueueInv'
  <2>1. pc[c] \in Holding /\ "snapshot" \in Holding BY <1>2 DEF Holding
  <2> QED BY <1>1, <1>2, <1>3, <2>1, StaysQueued, ManagerTyped DEF IInv
<1>5. /\ pending' \in [Calls -> SUBSET (Kinds \X Calls)]
      /\ pending'[k] = (pending[k] \ {<<"execute", c>>}) \cup {<<"snapshot", c>>}
      /\ \A m \in Calls : m # k => pending'[m] = pending[m]
  <2>1. pending \in [Calls -> SUBSET (Kinds \X Calls)] BY ManagerTyped DEF ClientTypes
  <2>2. <<"snapshot", c>> \in Kinds \X Calls BY <1>2 DEF Kinds
  <2>3. (pending[k] \ {<<"execute", c>>}) \cup {<<"snapshot", c>>} \in SUBSET (Kinds \X Calls)
    BY <2>1, <2>2
  <2> QED BY <1>1, <2>1, <2>3
<1>6. PendingInv'
  <2>1. PendingInv BY DEF IInv
  <2>2. \A m \in Calls : pending'[m] # {} => phase'[m] \in {"ready", "shut"}
    BY <1>1, <1>2, <1>5, <2>1 DEF PendingInv
  <2>3. ASSUME NEW m \in Calls, NEW d \in Calls
        PROVE  /\ <<"execute", d>> \in pending'[m] => pc'[d] = "execute" /\ on[d] = m
               /\ <<"snapshot", d>> \in pending'[m] => pc'[d] = "snapshot" /\ on[d] = m
               /\ <<"restore", d>> \in pending'[m] => pc'[d] = "restore" /\ d = m
    <3>1. /\ <<"execute", d>> \in pending[m] => pc[d] = "execute" /\ on[d] = m
          /\ <<"snapshot", d>> \in pending[m] => pc[d] = "snapshot" /\ on[d] = m
          /\ <<"restore", d>> \in pending[m] => pc[d] = "restore" /\ d = m
      BY <2>1 DEF PendingInv
    <3>2. CASE d # c
      <4>1. \A x : <<x, d>> \in pending'[m] => <<x, d>> \in pending[m] BY <1>5, <3>2
      <4> QED BY <1>3, <3>1, <3>2, <4>1
    <3>3. CASE d = c /\ m = k
      <4>1. /\ <<"execute", d>> \notin pending'[m]
            /\ <<"restore", d>> \in pending'[m] => <<"restore", d>> \in pending[m]
        BY <1>5, <3>3
      <4> QED BY <1>2, <1>3, <3>1, <3>3, <4>1
    <3>4. CASE d = c /\ m # k
      <4>1. pending'[m] = pending[m] BY <1>5, <3>4
      <4> QED BY <1>2, <3>1, <3>4, <4>1
    <3> QED BY <3>2, <3>3, <3>4
  <2> QED BY <1>2, <2>2, <2>3 DEF PendingInv
<1>7. input' \in [Calls -> Seq(Frames)]
  <2>1. Frame("snapshot", c, 0) \in Frames BY <1>2, FrameTyped, Bounds DEF Kinds
  <2>2. Append(input[k], Frame("snapshot", c, 0)) \in Seq(Frames) BY <2>1, PythonTyped, Written
  <2> QED BY <1>1, <2>2, PythonTyped
<1>8. /\ active' \in [Calls -> Calls \cup {None}] /\ queue' \in [Calls -> Seq(Calls)]
      /\ closing' \in [Calls -> SUBSET {"session", "builder"}]
  BY <1>1, ManagerTyped DEF ClientTypes
<1>9. \A d \in Calls : pc'[d] \in Building \ {"make"} => pc[d] \in Building \ {"make"}
  BY <1>3 DEF Building
<1>10. \A d \in Calls : pc[d] \in {"execute", "snapshot", "done"} =>
        pc'[d] \in {"execute", "snapshot", "done"}
  BY <1>2, <1>3
<1>11. /\ \A d \in Calls : pc'[d] \in {"idle", "make"} => pc[d] \in {"idle", "make"}
       /\ \A d \in Calls : pc'[d] = "execute" => pc[d] = "execute"
       /\ \A d \in Calls : pc[d] = "cut" => pc'[d] = "cut"
  BY <1>2, <1>3
<1> QED BY <1>1, <1>3, <1>4, <1>5, <1>6, <1>7, <1>8, <1>9, <1>10, <1>11, ResultKeeps DEF Kinds

\* Nothing is behind the goodbye: a kernel that is shut has said all it says.
LEMMA ShutDownKeeps == ASSUME IInv, NEW k \in Calls, ShutDown(k) PROVE IInv'
<1>1. /\ Result(k, "shutdown") /\ Answered(k, "shutdown")
      /\ phase' = [phase EXCEPT ![k] = "shut"] /\ closing' = [closing EXCEPT ![k] = {}]
      /\ current' \in {current, None}
      /\ pc' = [pc EXCEPT ![k] = IF @ = "abandon" THEN "cut" ELSE @]
      /\ UNCHANGED <<queue, active, input>>
  BY DEF ShutDown
<1>2. /\ Line(k, "shutdown") /\ phase[k] = "ready"
      /\ UNCHANGED <<on, aborted, python, sent, written>>
      /\ UNCHANGED <<counted, served, echoes, nested, invoked>>
  BY <1>1, ResultIs DEF Kinds
<1>3. \A m \in Calls : phase'[m] = IF m = k THEN "shut" ELSE phase[m]
  BY <1>1, ManagerTyped DEF ClientTypes
<1>4. /\ pc' \in [Calls -> {"idle", "lock"} \cup Building \cup Holding \cup Ended]
      /\ \A d \in Calls : pc'[d] = pc[d] \/ (d = k /\ pc[d] = "abandon" /\ pc'[d] = "cut")
  BY <1>1, ManagerTyped DEF Ended
<1>5. input' \in [Calls -> Seq(Frames)] BY <1>1, PythonTyped
<1>6. /\ output' \in [Calls -> Seq(Frames)] /\ python' \in [Calls -> States] /\ CountInv'
  BY <1>2, <1>5, LineIs
<1>7. pending' \in [Calls -> SUBSET (Kinds \X Calls)]
      /\ \A m \in Calls : pending'[m] \subseteq pending[m]
  BY <1>1, AnsweredIs
<1>8. ManagerTypes' /\ ClientTypes'
  <2>1. ManagerTypes' BY <1>1, <1>2, <1>4, ManagerTyped DEF ManagerTypes
  <2>2. ClientTypes' BY <1>1, <1>7, ManagerTyped DEF ClientTypes
  <2> QED BY <2>1, <2>2
<1>9. FreshInv'
  <2>1. \A m \in Calls : phase[m] = "absent" => phase'[m] = "absent" BY <1>2, <1>3
  <2>2. \A d \in Calls : pc'[d] \in {"idle", "make"} => pc[d] \in {"idle", "make"} BY <1>4
  <2>3. \A d \in Calls : pc'[d] \in Building \ {"make"} => pc[d] \in Building \ {"make"}
    BY <1>4 DEF Building
  <2> QED BY <1>2, <2>1, <2>2, <2>3, FreshKept DEF IInv
<1>10. MadeInv' BY <1>1, <1>2, <1>3, MadeKept DEF IInv
<1>11. QueueInv'
  <2>1. CASE pc[k] = "abandon"
    <3>1. pc[k] \notin Waiting /\ "cut" \notin Waiting BY <2>1 DEF Waiting, Holding
    <3>2. pc'[k] = "cut" /\ \A d \in Calls : d # k => pc'[d] = pc[d]
      BY <1>1, <2>1, ManagerTyped
    <3> QED BY <1>1, <1>2, <3>1, <3>2, StaysQueued, ManagerTyped DEF IInv
  <2>2. CASE pc[k] # "abandon"
    <3>1. pc' = pc BY <1>1, <2>2, ManagerTyped
    <3> QED BY <1>1, <1>2, <3>1 DEF IInv, QueueInv
  <2> QED BY <2>1, <2>2
<1>12. PendingInv'
  <2>1. PendingInv BY DEF IInv
  <2>2. \A m \in Calls : pending'[m] # {} => phase'[m] \in {"ready", "shut"}
    <3> SUFFICES ASSUME NEW m \in Calls, pending'[m] # {} PROVE phase'[m] \in {"ready", "shut"}
      OBVIOUS
    <3>1. pending[m] # {} BY <1>7
    <3> QED BY <1>3, <2>1, <3>1 DEF PendingInv
  <2>3. \A m, d \in Calls, kind \in {"restore", "execute", "snapshot"} :
          <<kind, d>> \in pending'[m] =>
             /\ <<kind, d>> \in pending[m]
             /\ pc[d] = kind => pc'[d] = pc[d] /\ on'[d] = on[d]
    BY <1>2, <1>4, <1>7
  <2> QED BY <2>1, <2>2, <2>3, PendingKept
<1>13. ByeInv'
  <2>1. /\ Head(output[k]) = output[k][1] /\ Len(output[k]) > 0
        /\ Head(output[k]).kind = "shutdown" /\ output'[k] = Tail(output[k])
        /\ Len(output'[k]) = Len(output[k]) - 1
        /\ \A m \in Calls : m # k => output'[m] = output[m]
    BY <1>2, LineAsked DEF IInv, Types
  <2>2. Len(output[k]) \in Nat /\ output'[k] \in Seq(Frames)
    BY <1>6, LenProperties DEF IInv, Types, ProcessTypes
  <2>3. 1 \in 1..Len(output[k]) BY <2>1, <2>2
  <2>4. 1 = Len(output[k]) /\ python[k].run = "exited" BY <2>1, <2>3 DEF IInv, ByeInv
  <2>5. output'[k] = <<>>
    <3>1. Len(output'[k]) = 0 BY <2>1, <2>4
    <3> QED BY <2>2, <3>1, EmptySeq
  <2>6. ASSUME NEW m \in Calls
        PROVE  /\ \A j \in 1..Len(output'[m]) : output'[m][j].kind = "shutdown" =>
                    j = Len(output'[m]) /\ python[m].run = "exited"
               /\ phase'[m] = "shut" => output'[m] = <<>> /\ python[m].run = "exited"
    <3>1. CASE m = k BY <2>4, <2>5, <3>1
    <3>2. CASE m # k BY <1>3, <2>1, <3>2 DEF IInv, ByeInv
    <3> QED BY <3>1, <3>2
  <2> QED BY <1>2, <2>6 DEF ByeInv
<1>14. WorkInv'
  <2>1. \A d \in Calls : pc'[d] = "execute" => ~aborted'[d]
    BY <1>2, <1>4 DEF IInv, WorkInv
  <2>2. \A d \in Calls : pc[d] = "cut" => pc'[d] = "cut" BY <1>4
  <2>3. \A d \in Calls : pc[d] \in {"execute", "snapshot", "done"} =>
          pc'[d] \in {"execute", "snapshot", "done"}
    BY <1>4
  <2> QED BY <1>2, <2>1, <2>2, <2>3, WorkKept DEF IInv
<1> QED BY <1>2, <1>5, <1>6, <1>8, <1>9, <1>10, <1>11, <1>12, <1>13, <1>14, ManagerKeeps

LEMMA ResultsKeep == ASSUME IInv, NEW k \in Calls, Results(k) PROVE IInv'
BY LateResultKeeps, RestoredKeeps, RestoreFailsKeeps, ExecutedKeeps, ExecutionFailsKeeps,
   SavedKeeps, ShutDownKeeps DEF Results

LEMMA CallKeeps == ASSUME IInv, NEW c \in Calls, Call(c) PROVE IInv'
BY ExecuteKeeps, MakeKeeps, MakeFailsKeeps, RestoreKeeps, BeginKeeps, SendKeeps,
   SendAbortedKeeps, SendFailsKeeps, CancelKeeps DEF Call

-----------------------------------------------------------------------------
(* The invariant *)

LEMMA InitIInv == Init => IInv
<1> SUFFICES ASSUME Init PROVE IInv OBVIOUS
<1>1. <<>> \in Seq(Calls) /\ <<>> \in Seq(Frames) BY EmptySeq
<1>2. 0 \in 0..MaxWritten BY Bounds
<1>3. ManagerTypes BY <1>1 DEF Init, ManagerTypes
<1>4. ClientTypes BY DEF Init, ClientTypes
<1>5. ProcessTypes BY <1>1, <1>2 DEF Init, ProcessTypes, States, Idle
<1>6. BrokerTypes BY <1>2 DEF Init, BrokerTypes
<1>7. \A k \in Calls : queue[k] = <<>> /\ output[k] = <<>> /\ pending[k] = {}
                       /\ phase[k] = "absent" /\ pc[k] = "idle" /\ on[k] = None
  BY DEF Init
<1>8. FreshInv BY <1>7 DEF Init, FreshInv, Building
<1>9. MadeInv BY <1>7, CallsAssumption DEF Init, MadeInv
<1>10. QueueInv BY <1>7 DEF QueueInv, Waiting, Holding
<1>11. PendingInv BY <1>7 DEF PendingInv
<1>12. ByeInv
  <2>1. \A k \in Calls : Len(output[k]) = 0 BY <1>1, <1>7, EmptySeq
  <2>2. \A k \in Calls : \A j \in 1..Len(output[k]) : FALSE BY <2>1
  <2> QED BY <1>7, <2>2 DEF ByeInv
<1>13. CountInv
  <2>1. Asked(<<>>) = 0
    <3>1. {j \in 1..0 : <<>>[j].kind = "host_request"} = {} OBVIOUS
    <3> QED BY <3>1, FS_EmptySet DEF Asked
  <2> QED BY <1>2, <1>7, <2>1, CallsAssumption DEF Init, CountInv
<1>14. WorkInv BY <1>7 DEF Init, WorkInv
<1> QED BY <1>3, <1>4, <1>5, <1>6, <1>8, <1>9, <1>10, <1>11, <1>12, <1>13, <1>14
        DEF IInv, Types

LEMMA NextIInv == IInv /\ SentInv /\ [Next]_vars => IInv'
<1> SUFFICES ASSUME IInv, SentInv, [Next]_vars PROVE IInv' OBVIOUS
<1>1. ASSUME NEW c \in Calls, Call(c) PROVE IInv' BY <1>1, CallKeeps
<1>2. ASSUME NEW k \in Calls, Start(k) \/ PostShutdown(k) \/ TimeOut(k) \/ Dies(k)
                              \/ ExitsUnready(k) \/ SettlesLate(k)
                              \/ Python(k) \/ Results(k) \/ Hosts(k)
      PROVE  IInv'
  BY <1>2, StartKeeps, PostShutdownKeeps, TimeOutKeeps, DiesKeeps, ExitsUnreadyKeeps,
     SettlesLateKeeps, PythonKeeps, ResultsKeep, HostsKeep
<1>3. ASSUME NEW c \in Calls, NEW d \in Calls, NEW i \in Requests, Reenter(c, i, d)
      PROVE  IInv'
  BY <1>3, ReenterKeeps
<1>4. ASSUME NEW c \in Calls, NEW i \in Requests, Answer(c, i) PROVE IInv'
  BY <1>4, AnswerKeeps
<1>5. CASE Close BY <1>5, CloseKeeps
<1>6. CASE UNCHANGED vars
  <2>1. /\ UNCHANGED <<current, pc, on, queue, aborted, phase, active, pending, closing>>
        /\ UNCHANGED <<input, output, python, sent, written>>
        /\ UNCHANGED <<counted, served, echoes, nested, invoked>>
    BY <1>6 DEF vars, manager, client, process, broker
  <2>2. Types'
    BY <2>1 DEF IInv, Types, ManagerTypes, ClientTypes, ProcessTypes, BrokerTypes
  <2> QED BY <2>1, <2>2 DEF IInv, FreshInv, MadeInv, QueueInv, PendingInv, ByeInv, CountInv,
             WorkInv
<1> QED BY <1>1, <1>2, <1>3, <1>4, <1>5, <1>6 DEF Next

-----------------------------------------------------------------------------
(* What was sent was sent to a process that was ready *)

LEMMA SentKept ==
  ASSUME SentInv,
         \A c \in Calls : pc'[c] \in Sent =>
            pc[c] \in Sent /\ on'[c] = on[c]
            /\ (phase'[on[c]] = phase[on[c]] \/ phase'[on[c]] \in {"ready", "shut"})
  PROVE  SentInv'
BY DEF SentInv

\* A call that moves to where it waits for no result, or nobody moves.
LEMMA MovesKeepSent ==
  ASSUME IInv, SentInv, NEW c \in Calls, Goto(c, pc'[c]), pc'[c] \notin Sent, phase' = phase,
         \A d \in Calls : d # c => on'[d] = on[d]
  PROVE  SentInv'
<1>1. \A d \in Calls : d # c => pc'[d] = pc[d] BY ManagerTyped DEF Goto
<1> QED BY <1>1, SentKept

LEMMA CutKeepsSent ==
  ASSUME IInv, SentInv, NEW k \in Calls, Cut(k), on' = on
  PROVE  SentInv'
<1>1. /\ \A c \in Calls : pc'[c] = IF on[c] = k /\ pc[c] \notin Ended THEN "cut" ELSE pc[c]
      /\ \A m \in Calls : phase'[m] = IF m = k THEN "closed" ELSE phase[m]
  BY CutIs
<1>2. \A c \in Calls : pc'[c] \in Sent => pc[c] \in Sent /\ on[c] # k BY <1>1 DEF Sent, Ended
<1>3. \A c \in Calls : pc[c] \in Sent => on[c] \in Calls BY DEF SentInv
<1> QED BY <1>1, <1>2, <1>3, SentKept

LEMMA CallKeepsSent == ASSUME IInv, SentInv, NEW c \in Calls, Call(c) PROVE SentInv'
<1>1. ASSUME NEW more, Enter(c, more) PROVE SentInv'
  <2>1. Goto(c, pc'[c]) /\ pc'[c] \in {"make", "lock"}
    <3>1. Goto(c, "make") \/ Goto(c, "lock") BY <1>1 DEF Enter
    <3> QED BY <3>1, ManagerTyped DEF Goto
  <2>2. phase' = phase BY <1>1 DEF Enter, client
  <2>3. \A d \in Calls : d # c => on'[d] = on[d] BY <1>1, ManagerTyped DEF Enter
  <2> QED BY <2>1, <2>2, <2>3, MovesKeepSent DEF Sent
<1>2. CASE Make(c)
  <2>1. /\ pc[c] = "make" /\ Goto(c, "start") /\ on' = [on EXCEPT ![c] = c]
        /\ phase' = [phase EXCEPT ![c] = "starting"]
    BY <1>2 DEF Make
  <2>2. pc'[c] = "start" /\ \A d \in Calls : d # c => pc'[d] = pc[d] /\ on'[d] = on[d]
    BY <2>1, ManagerTyped DEF Goto
  <2>3. phase[c] = "absent" BY <2>1 DEF IInv, FreshInv
  <2>4. \A m \in Calls : m # c => phase'[m] = phase[m] BY <2>1, ManagerTyped DEF ClientTypes
  <2>5. \A d \in Calls : pc[d] \in Sent => on[d] \in Calls /\ on[d] # c BY <2>3 DEF SentInv
  <2>6. \A d \in Calls : pc'[d] \in Sent => d # c BY <2>2 DEF Sent
  <2> QED BY <2>2, <2>4, <2>5, <2>6, SentKept
<1>3. CASE MakeFails(c) \/ Restore(c) \/ Begin(c) \/ SendFails(c)
  <2>1. \E p \in {"cut", "restore", "begin"} : Goto(c, p)
    BY <1>3 DEF MakeFails, Restore, Begin, SendFails, Leave
  <2>2. Goto(c, pc'[c]) /\ pc'[c] \notin Sent BY <2>1, ManagerTyped DEF Goto, Sent
  <2>3. phase' = phase /\ on' = on
    BY <1>3 DEF MakeFails, Restore, Begin, SendFails, client
  <2> QED BY <2>2, <2>3, MovesKeepSent
<1>4. CASE Send(c)
  <2>1. /\ pc[c] = "begin" /\ phase[on[c]] = "ready" /\ Goto(c, "execute")
        /\ on' = on /\ phase' = phase
    BY <1>4 DEF Send
  <2>2. \A d \in Calls : d # c => pc'[d] = pc[d] BY <2>1, ManagerTyped DEF Goto
  <2>3. on[c] \in Calls BY <2>1, HolderOn DEF Waiting, Holding
  <2> QED BY <2>1, <2>2, <2>3 DEF SentInv
<1>5. CASE SendAborted(c)
  <2>1. pc[c] = "begin" /\ Cut(on[c]) /\ on' = on BY <1>5 DEF SendAborted, Terminates, Terminate
  <2>2. on[c] \in Calls BY <2>1, HolderOn DEF Waiting, Holding
  <2> QED BY <2>1, <2>2, CutKeepsSent
<1>6. CASE Cancel(c)
  <2>1. pc[c] \in Holding /\ on' = on BY <1>6 DEF Cancel
  <2>2. on[c] \in Calls BY <2>1, HolderOn DEF Waiting
  <2>3. Cut(on[c]) \/ (pc' = pc /\ phase' = phase) BY <1>6 DEF Cancel, Terminate, client
  <2> QED BY <2>1, <2>2, <2>3, CutKeepsSent, SentKept
<1> QED BY <1>1, <1>2, <1>3, <1>4, <1>5, <1>6 DEF Call, Execute

LEMMA ResultsKeepSent == ASSUME IInv, SentInv, NEW k \in Calls, Results(k) PROVE SentInv'
<1>1. CASE LateResult(k)
  <2>1. pc' = pc /\ on' = on /\ phase' = phase BY <1>1 DEF LateResult, manager, client
  <2> QED BY <2>1, SentKept
<1>2. CASE Restored(k) \/ RestoreFails(k)
  <2>1. /\ Goto(k, "lock") \/ Goto(k, "abandon")
        /\ on' = on /\ phase' = phase
    BY <1>2 DEF Restored, RestoreFails, Result
  <2>2. Goto(k, pc'[k]) /\ pc'[k] \notin Sent BY <2>1, ManagerTyped DEF Goto, Sent
  <2> QED BY <2>1, <2>2, MovesKeepSent
<1>3. CASE ExecutionFails(k) \/ Saved(k)
  <2> DEFINE c == Head(output[k]).call
  <2>1. Goto(c, "done") /\ on' = on /\ phase' = phase
    BY <1>3 DEF ExecutionFails, Saved, Result, Leave
  <2>2. c \in Calls BY <1>3, ResultIs DEF ExecutionFails, Saved, Kinds
  <2> HIDE DEF c
  <2>3. Goto(c, pc'[c]) /\ pc'[c] \notin Sent BY <2>1, <2>2, ManagerTyped DEF Goto, Sent
  <2> QED BY <2>1, <2>2, <2>3, MovesKeepSent
<1>4. CASE Executed(k)
  <2> DEFINE c == Head(output[k]).call
  <2>1. /\ Result(k, "execute") /\ Goto(c, "snapshot") /\ on' = on /\ phase' = phase
    BY <1>4 DEF Executed, Result
  <2>2. c \in Calls /\ <<"execute", c>> \in pending[k] BY <2>1, ResultIs DEF Result, Kinds
  <2> HIDE DEF c
  <2>3. pc[c] = "execute" BY <2>2 DEF IInv, PendingInv
  <2>4. \A d \in Calls : d # c => pc'[d] = pc[d] BY <2>1, ManagerTyped DEF Goto
  <2> QED BY <2>1, <2>3, <2>4, SentKept DEF Sent
<1>5. CASE ShutDown(k)
  <2>1. /\ phase' = [phase EXCEPT ![k] = "shut"] /\ on' = on
        /\ pc' = [pc EXCEPT ![k] = IF @ = "abandon" THEN "cut" ELSE @]
    BY <1>5 DEF ShutDown, Result
  <2>2. \A m \in Calls : phase'[m] = phase[m] \/ phase'[m] = "shut"
    BY <2>1, ManagerTyped DEF ClientTypes
  <2>3. \A d \in Calls : pc'[d] = pc[d] \/ pc'[d] = "cut" BY <2>1, ManagerTyped
  <2>4. \A d \in Calls : pc[d] \in Sent => on[d] \in Calls BY DEF SentInv
  <2> QED BY <2>1, <2>2, <2>3, <2>4, SentKept DEF Sent
<1> QED BY <1>1, <1>2, <1>3, <1>4, <1>5 DEF Results

LEMMA KernelKeepsSent ==
  ASSUME IInv, SentInv, NEW k \in Calls,
         Start(k) \/ PostShutdown(k) \/ TimeOut(k) \/ Dies(k) \/ ExitsUnready(k) \/ SettlesLate(k)
  PROVE  SentInv'
<1>1. CASE Start(k)
  <2>1. pc' = pc /\ on' = on /\ phase' = [phase EXCEPT ![k] = "ready"]
    BY <1>1 DEF Start, manager
  <2>2. \A m \in Calls : phase'[m] = phase[m] \/ phase'[m] = "ready"
    BY <2>1, ManagerTyped DEF ClientTypes
  <2> QED BY <2>1, <2>2 DEF SentInv
<1>2. CASE PostShutdown(k)
  <2>1. pc' = pc /\ on' = on /\ phase' = phase BY <1>2 DEF PostShutdown, manager
  <2> QED BY <2>1, SentKept
<1>3. CASE ExitsUnready(k)
  <2>1. /\ pc' = pc /\ on' = on /\ phase[k] = "starting" /\ phase' = [phase EXCEPT ![k] = "lost"]
    BY <1>3 DEF ExitsUnready
  <2>2. \A m \in Calls : m # k => phase'[m] = phase[m] BY <2>1, ManagerTyped DEF ClientTypes
  <2>3. \A d \in Calls : pc[d] \in Sent => on[d] \in Calls /\ on[d] # k BY <2>1 DEF SentInv
  <2> QED BY <2>1, <2>2, <2>3, SentKept
<1>4. CASE TimeOut(k) \/ Dies(k) \/ SettlesLate(k)
  <2>1. Cut(k) /\ on' = on BY <1>4 DEF TimeOut, Dies, SettlesLate, Terminates, Terminate
  <2> QED BY <2>1, CutKeepsSent
<1> QED BY <1>1, <1>2, <1>3, <1>4

LEMMA NextSent == IInv /\ SentInv /\ [Next]_vars => SentInv'
<1> SUFFICES ASSUME IInv, SentInv, [Next]_vars PROVE SentInv' OBVIOUS
<1>1. ASSUME NEW k \in Calls, Python(k) \/ Hosts(k) PROVE pc' = pc /\ on' = on /\ phase' = phase
  <2>1. CASE Python(k)
    BY <2>1 DEF Python, Run, SaveOrLoad, Bye, Unknown, Ask, Read, Finish, Repeat, Take,
                manager, client
  <2>2. CASE Hosts(k) BY <2>2 DEF Hosts, Refuse, Join, Invoke, HostRequest, manager, client
  <2> QED BY <1>1, <2>1, <2>2
<1>2. ASSUME NEW c \in Calls, NEW i \in Requests, Answer(c, i)
      PROVE  pc' = pc /\ on' = on /\ phase' = phase
  BY <1>2 DEF Answer, manager, client
<1>3. ASSUME Close PROVE pc' = pc /\ on' = on /\ phase' = phase BY <1>3 DEF Close
<1>4. ASSUME UNCHANGED vars PROVE pc' = pc /\ on' = on /\ phase' = phase
  BY <1>4 DEF vars, manager, client
<1>5. ASSUME pc' = pc, on' = on, phase' = phase PROVE SentInv' BY <1>5, SentKept
<1>6. ASSUME NEW c \in Calls, NEW d \in Calls, NEW i \in Requests, Reenter(c, i, d)
      PROVE  SentInv'
  <2>1. /\ Goto(d, "make") \/ Goto(d, "lock")
        /\ on' = on \/ on' = [on EXCEPT ![d] = current]
        /\ phase' = phase
    BY <1>6 DEF Reenter, Enter, client
  <2>2. Goto(d, pc'[d]) /\ pc'[d] \notin Sent BY <2>1, ManagerTyped DEF Goto, Sent
  <2>3. \A e \in Calls : e # d => on'[e] = on[e] BY <2>1, ManagerTyped
  <2> QED BY <2>1, <2>2, <2>3, MovesKeepSent
<1> QED BY <1>1, <1>2, <1>3, <1>4, <1>5, <1>6, CallKeepsSent, ResultsKeepSent, KernelKeepsSent
        DEF Next

\* In every reachable state the client knows of a kernel what is so, for every
\* set of calls and every bound: the invariant behind the theorems below.
THEOREM Invariance == Spec => []IInv
<1>1. Init => SentInv BY DEF Init, SentInv, Sent
<1> QED BY <1>1, InitIInv, NextIInv, NextSent, PTL DEF Spec

-----------------------------------------------------------------------------
(* The properties *)

LEMMA IInvTypes == IInv => TypeOK
<1> SUFFICES ASSUME IInv PROVE TypeOK OBVIOUS
<1>1. ASSUME NEW c \in Calls, pc[c] \in Holding
      PROVE  on[c] # None /\ queue[on[c]] # <<>> /\ Head(queue[on[c]]) = c
  <2>1. on[c] \in Calls /\ Len(queue[on[c]]) > 0 /\ queue[on[c]][1] = c
    BY <1>1 DEF IInv, QueueInv, Waiting
  <2>2. queue[on[c]] \in Seq(Calls) BY <2>1, ManagerTyped
  <2>3. queue[on[c]] # <<>> BY <2>1, <2>2, EmptySeq
  <2>4. Head(queue[on[c]]) = queue[on[c]][1] BY <2>2, <2>3
  <2> QED BY <2>1, <2>3, <2>4, CallsAssumption
<1>2. \A k \in Calls : phase[k] = "closed" => pending[k] = {} BY DEF IInv, PendingInv
<1> QED BY <1>1, <1>2
        DEF IInv, Types, ManagerTypes, ClientTypes, ProcessTypes, BrokerTypes, States, TypeOK

\* Calls, kernels, frames and host requests keep the shapes the manager, the
\* client and the server give them; whoever holds a kernel's mutex is the first
\* in its queue, and nothing is pending at a kernel that is closed.
THEOREM TypeCorrect == Spec => []TypeOK
<1> QED BY Invariance, IInvTypes, PTL

\* The work that an execution's host requests started at the broker is aborted
\* with it, whether a timer, a cancellation or the exit of the process ends it:
\* a call that was cut has either none that is unanswered or an aborted
\* controller.
THEOREM WorkIsAbortedHolds == Spec => []WorkIsAborted
<1>1. IInv => WorkIsAborted BY DEF IInv, WorkInv, WorkIsAborted
<1> QED BY <1>1, Invariance, PTL

\* Only the client's first sight of a request reaches the broker.
LEMMA InvokedIs ==
  ASSUME IInv, Next, NEW c \in Calls, NEW i \in Requests, invoked'[c][i] # invoked[c][i]
  PROVE  \E k \in Calls, d \in Calls, j \in Requests : Invoke(k, d, j)
<1>1. invoked' # invoked OBVIOUS
<1>2. ASSUME NEW d \in Calls PROVE ~Call(d)
  <2>1. ~Execute(d) BY <1>1 DEF Execute, Enter, broker
  <2>2. ~Make(d) /\ ~MakeFails(d) BY <1>1 DEF Make, MakeFails, broker
  <2>3. ~Restore(d) /\ ~Begin(d) /\ ~Send(d) BY <1>1 DEF Restore, Begin, Send, broker
  <2>4. ~SendAborted(d) /\ ~SendFails(d) /\ ~Cancel(d)
    BY <1>1 DEF SendAborted, SendFails, Cancel, Terminates, broker
  <2> QED BY <2>1, <2>2, <2>3, <2>4 DEF Call
<1>3. ASSUME NEW k \in Calls
      PROVE  /\ ~Start(k) /\ ~PostShutdown(k) /\ ~TimeOut(k) /\ ~Dies(k)
             /\ ~ExitsUnready(k) /\ ~SettlesLate(k)
  BY <1>1 DEF Start, PostShutdown, TimeOut, Dies, ExitsUnready, SettlesLate, Terminates, broker
<1>4. ASSUME NEW k \in Calls PROVE ~Python(k)
  <2>1. \A kind : ~Take(k, kind) BY <1>1 DEF Take, broker
  <2>2. ~Run(k) /\ ~SaveOrLoad(k) /\ ~Bye(k) /\ ~Unknown(k)
    BY <2>1 DEF Run, SaveOrLoad, Bye, Unknown
  <2>3. ~Ask(k) /\ ~Read(k) /\ ~Finish(k) /\ ~Repeat(k)
    BY <1>1 DEF Ask, Read, Finish, Repeat, broker
  <2> QED BY <2>2, <2>3 DEF Python
<1>5. ASSUME NEW k \in Calls PROVE ~Results(k)
  <2>1. \A kind : ~Result(k, kind) BY <1>1 DEF Result, broker
  <2>2. ~LateResult(k) BY <1>1 DEF LateResult, broker
  <2> QED BY <2>1, <2>2
          DEF Results, Restored, RestoreFails, Executed, ExecutionFails, Saved, ShutDown
<1>6. ASSUME NEW k \in Calls, NEW d \in Calls, NEW j \in Requests
      PROVE  ~Refuse(k, d, j) /\ ~Join(k, d, j)
  BY <1>1 DEF Refuse, Join, broker
<1>7. \A d, e \in Calls, j \in Requests : ~Reenter(d, j, e) BY <1>1 DEF Reenter, Enter
<1>8. \A d \in Calls, j \in Requests : ~Answer(d, j) BY <1>1 DEF Answer
<1>9. ~Close BY <1>1 DEF Close, broker
<1>10. PICK k \in Calls : Hosts(k) BY <1>2, <1>3, <1>4, <1>5, <1>7, <1>8, <1>9 DEF Next
<1> QED BY <1>6, <1>10 DEF Hosts

\* A host request of the code reaches the broker once, and only while the code
\* of its own call runs: the line that brings it may have been written before a
\* timeout, a cancellation or an exit, and is refused after them.
THEOREM RequestsAreCurrentHolds == Spec => RequestsAreCurrent
<1> DEFINE Fine == \A c \in Calls, i \in Requests : invoked'[c][i] # invoked[c][i] =>
                     /\ invoked[c][i] = 0 /\ pc[c] = "execute" /\ ~aborted[c]
                     /\ phase[on[c]] = "ready" /\ Head(queue[on[c]]) = c
<1>1. ASSUME IInv, Next PROVE Fine
  <2> SUFFICES ASSUME NEW c \in Calls, NEW i \in Requests, invoked'[c][i] # invoked[c][i]
               PROVE  /\ invoked[c][i] = 0 /\ pc[c] = "execute" /\ ~aborted[c]
                      /\ phase[on[c]] = "ready" /\ Head(queue[on[c]]) = c
    OBVIOUS
  <2>1. PICK k \in Calls, d \in Calls, j \in Requests : Invoke(k, d, j) BY <1>1, InvokedIs
  <2>2. /\ Current(k, d) /\ output[k] # <<>> /\ served[d][j] = "new"
        /\ invoked' = [invoked EXCEPT ![d][j] = @ + 1] \/ invoked' = invoked
    BY <2>1 DEF Invoke, HostRequest, Line
  <2>3. c = d /\ i = j BY <2>2, <1>1, BrokerTyped DEF BrokerTypes
  <2>4. invoked[c][i] = 0 BY <1>1, <2>2, <2>3 DEF IInv, WorkInv
  <2>5. /\ pc[c] = "execute" /\ on[c] = k /\ ~aborted[c] /\ phase[k] = "ready"
        /\ Head(queue[k]) = c
    BY <1>1, <2>2, <2>3, CurrentIs
  <2> QED BY <2>4, <2>5
<1>2. IInv /\ [Next]_vars => [Fine]_vars BY <1>1
<1> QED BY <1>2, Invariance, PTL DEF Spec, RequestsAreCurrent
=============================================================================
