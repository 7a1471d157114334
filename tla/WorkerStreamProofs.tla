------------------------- MODULE WorkerStreamProofs -------------------------
(***************************************************************************)
(* Proofs about WorkerStream for every bound on the events, the requests   *)
(* and the connections, and every capacity of the ring.                    *)
(*                                                                         *)
(* Two kinds of frames do not tell the client that it may have missed      *)
(* something: the events and the pongs.  The invariant follows the gaps    *)
(* between them through the wire, from what the client has delivered, over *)
(* each frame, to the sequence of the worker.                              *)
(***************************************************************************)
EXTENDS WorkerStream, SequenceTheorems, TLAPS

\* What came since the last event was delivered says that one may be missing, or
\* would have said so to somebody who still waited for it.
Aware == told \/ late

Feed == {"event", "pong"}
Pongs(a, b) == \A m \in a..b : wire[m].type = "pong"

\* No position is ahead of the worker's, nor of one the wire carries behind it:
\* a frame that is not an event has the sequence of the moment it was written.
PositionsGrow ==
    /\ cursor <= sequence /\ LastDelivered <= cursor
    /\ \A i \in 1..Len(wire) : wire[i].seq <= sequence
    /\ \A i \in 1..Len(wire) : wire[i].type # "event" =>
         cursor <= wire[i].seq /\ \A j \in 1..i : wire[j].seq <= wire[i].seq

\* On the wire, an event that follows an event or a pong is the next one.
WireFollows == \A i, j \in 1..Len(wire) :
    i < j /\ wire[i].type \in Feed /\ wire[j].type = "event" /\ Pongs(i + 1, j - 1)
       => wire[j].seq = wire[i].seq + 1

\* The first event that reaches a client nobody has told otherwise is the one
\* after the last it has delivered, and a pong does not make it skip it.
ClientFollows == Aware \/ \A j \in 1..Len(wire) :
    wire[j].type = "event" /\ Pongs(1, j - 1)
       => wire[j].seq = LastDelivered + 1 /\ cursor < wire[j].seq

\* While the attachment needs no resynchronisation, everything that is
\* published is on its way: the last event written, or delivered, is the newest.
ServerFollows == link = "open" /\ ~resync =>
    /\ \A i \in 1..Len(wire) : wire[i].type \in Feed /\ Pongs(i + 1, Len(wire))
                                 => wire[i].seq = sequence
    /\ Aware \/ (Pongs(1, Len(wire)) => LastDelivered = sequence)

IInv == /\ TypeOK /\ (link # "open" => providing = {})
        /\ PositionsGrow /\ WireFollows /\ ClientFollows /\ ServerFollows

-----------------------------------------------------------------------------
(* Frames, and what the operations on the wire do, position by position *)

Plain == {"auth_ok", "event", "resync_required"}
Answering == {"pong", "complete", "partial", "unavailable", "snapshot"}

LEMMA FrameTypes ==
  /\ \A t \in Plain, s \in Seqs : Frame(t, 0, s) \in Frames
  /\ \A t \in Answering, id \in Ids, s \in Seqs : Frame(t, id, s) \in Frames
  /\ \A f \in Frames : /\ f.type \in Plain \cup Answering /\ f.seq \in Seqs
                       /\ f.type \in Answering => f.id \in Ids
  /\ \A t, id, s : Frame(t, id, s).type = t /\ Frame(t, id, s).seq = s
BY DEF Frame, Frames, Plain, Answering

LEMMA Bounds == MaxEvents \in Nat /\ MaxRequests \in Nat /\ MaxMoves \in Nat
                /\ ReplayCapacity \in Nat /\ ReplayCapacity > 0
BY BoundsAssumption

\* Nothing that is on the wire changes when a frame is written.
LEMMA Written ==
  ASSUME wire \in Seq(Frames), NEW f \in Frames, wire' = Append(wire, f)
  PROVE  /\ wire' \in Seq(Frames) /\ Len(wire') = Len(wire) + 1
         /\ wire'[Len(wire) + 1] = f
         /\ \A i \in 1..Len(wire) : wire'[i] = wire[i]
BY AppendProperties

LEMMA EventFramesAre ==
  ASSUME NEW a \in Nat \ {0}, NEW b \in Seqs, a <= b + 1
  PROVE  /\ EventFrames(a, b) \in Seq(Frames)
         /\ Len(EventFrames(a, b)) = b - a + 1
         /\ \A i \in 1..(b - a + 1) : EventFrames(a, b)[i] = Frame("event", 0, a + i - 1)
<1> DEFINE n == b - a + 1
<1>1. n \in Nat BY Bounds DEF Seqs
<1>2. \A i \in 1..n : a + i - 1 \in Seqs BY Bounds DEF Seqs
<1>3. \A i \in 1..n : Frame("event", 0, a + i - 1) \in Frames BY <1>2, FrameTypes DEF Plain
<1>4. EventFrames(a, b) = [i \in 1..n |-> Frame("event", 0, a + i - 1)] BY DEF EventFrames
<1> HIDE DEF n
<1>5. EventFrames(a, b) \in [1..n -> Frames] BY <1>3, <1>4
<1>6. EventFrames(a, b) \in Seq(Frames) /\ Len(EventFrames(a, b)) = n BY <1>1, <1>5
<1> QED BY <1>4, <1>6 DEF n

\* What SendEvents writes: the frames before, and the first n of the events.
LEMMA SentFrames ==
  ASSUME wire \in Seq(Frames), NEW before \in Seq(Frames), NEW a \in Nat \ {0},
         NEW last \in Seqs, a <= last + 1, wire' = wire \o before \o EventFrames(a, last)
  PROVE  /\ last - a + 1 \in Nat /\ wire' \in Seq(Frames)
         /\ Len(wire') = Len(wire) + Len(before) + (last - a + 1)
         /\ \A i \in 1..Len(wire) : wire'[i] = wire[i]
         /\ \A i \in 1..Len(before) : wire'[Len(wire) + i] = before[i]
         /\ \A i \in 1..(last - a + 1) :
              wire'[Len(wire) + Len(before) + i] = Frame("event", 0, a + i - 1)
<1> DEFINE w == wire \o before
           e == EventFrames(a, last)
           n == last - a + 1
<1>1. /\ w \in Seq(Frames) /\ Len(w) = Len(wire) + Len(before)
      /\ \A i \in 1..Len(wire) + Len(before) :
           w[i] = IF i <= Len(wire) THEN wire[i] ELSE before[i - Len(wire)]
  BY ConcatProperties
<1>2. /\ e \in Seq(Frames) /\ Len(e) = n /\ n \in Nat
      /\ \A i \in 1..n : e[i] = Frame("event", 0, a + i - 1)
  BY EventFramesAre, Bounds DEF Seqs
<1>3. Len(wire) \in Nat /\ Len(before) \in Nat BY LenProperties
<1> HIDE DEF w, e, n
<1>4. wire' = w \o e BY DEF w, e
<1>5. /\ wire' \in Seq(Frames) /\ Len(wire') = Len(w) + Len(e)
      /\ \A i \in 1..Len(w) + Len(e) :
           wire'[i] = IF i <= Len(w) THEN w[i] ELSE e[i - Len(w)]
  BY <1>1, <1>2, <1>4, ConcatProperties
<1>6. \A i \in 1..Len(wire) : wire'[i] = wire[i] BY <1>1, <1>2, <1>3, <1>5
<1>7. \A i \in 1..Len(before) : wire'[Len(wire) + i] = before[i] BY <1>1, <1>2, <1>3, <1>5
<1>8. \A i \in 1..n : wire'[Len(wire) + Len(before) + i] = e[i]
  <2> DEFINE k == Len(w)
  <2>1. k \in Nat /\ k = Len(wire) + Len(before) /\ Len(e) = n BY <1>1, <1>2, <1>3
  <2> HIDE DEF k
  <2>2. \A i \in 1..k + n : wire'[i] = IF i <= k THEN w[i] ELSE e[i - k] BY <1>5, <2>1 DEF k
  <2> SUFFICES ASSUME NEW i \in 1..n PROVE wire'[k + i] = e[i] BY <2>1
  <2>3. k + i \in 1..k + n /\ ~(k + i <= k) BY <1>2, <2>1
  <2>4. (k + i) - k = i BY <2>1
  <2>5. wire'[k + i] = e[(k + i) - k] BY <2>2, <2>3
  <2> QED BY <2>4, <2>5
<1> QED BY <1>1, <1>2, <1>5, <1>6, <1>7, <1>8 DEF n

LEMMA SentEvent ==
  ASSUME wire \in Seq(Frames), NEW a \in Seqs, a > 0,
         wire' = wire \o <<>> \o EventFrames(a, a)
  PROVE  /\ wire' \in Seq(Frames) /\ Len(wire') = Len(wire) + 1
         /\ wire'[Len(wire) + 1] = Frame("event", 0, a)
         /\ \A i \in 1..Len(wire) : wire'[i] = wire[i]
<1>1. wire' = wire \o EventFrames(a, a) BY ConcatEmptySeq
<1>2. a \in Nat \ {0} /\ a <= a + 1 /\ a - a + 1 = 1 /\ a + 1 - 1 = a BY Bounds DEF Seqs
<1>3. /\ EventFrames(a, a) \in Seq(Frames) /\ Len(EventFrames(a, a)) = 1
      /\ EventFrames(a, a)[1] = Frame("event", 0, a)
  <2>1. /\ EventFrames(a, a) \in Seq(Frames) /\ Len(EventFrames(a, a)) = a - a + 1
        /\ \A i \in 1..(a - a + 1) : EventFrames(a, a)[i] = Frame("event", 0, a + i - 1)
    BY <1>2, EventFramesAre
  <2> QED BY <1>2, <2>1
<1>4. Len(wire) \in Nat BY LenProperties
<1>e. PICK e \in Seq(Frames) : e = EventFrames(a, a) BY <1>3
<1>5. e \in Seq(Frames) /\ Len(e) = 1 /\ e[1] = Frame("event", 0, a) /\ wire' = wire \o e
  BY <1>1, <1>3, <1>e
<1>n. PICK n \in Nat : n = Len(wire) BY <1>4
<1>6. /\ wire' \in Seq(Frames) /\ Len(wire') = n + 1
      /\ \A i \in 1..n + 1 : wire'[i] = IF i <= n THEN wire[i] ELSE e[i - n]
  <2>1. /\ wire \o e \in Seq(Frames) /\ Len(wire \o e) = Len(wire) + Len(e)
        /\ \A i \in 1..Len(wire) + Len(e) :
             (wire \o e)[i] = IF i <= Len(wire) THEN wire[i] ELSE e[i - Len(wire)]
    BY <1>5, ConcatProperties
  <2> QED BY <1>5, <1>n, <2>1
<1>7. n + 1 \in 1..n + 1 /\ ~(n + 1 <= n) /\ (n + 1) - n = 1 OBVIOUS
<1>8. wire'[n + 1] = e[1] BY <1>6, <1>7
<1>9. \A i \in 1..n : wire'[i] = wire[i] BY <1>6
<1> QED BY <1>n, <1>5, <1>6, <1>8, <1>9

LEMMA TakenFrame ==
  ASSUME wire \in Seq(Frames), wire # <<>>, wire' = Tail(wire)
  PROVE  /\ wire' \in Seq(Frames) /\ Len(wire) \in Nat /\ Len(wire) >= 1
         /\ Len(wire') = Len(wire) - 1
         /\ \A i \in 1..Len(wire') : wire'[i] = wire[i + 1]
         /\ Head(wire) = wire[1] /\ Head(wire) \in Frames
BY HeadTailProperties, LenProperties, EmptySeq

LEMMA Types ==
  ASSUME TypeOK
  PROVE  /\ sequence \in Int /\ cursor \in Int /\ LastDelivered \in Seqs /\ LastDelivered \in Int
         /\ Len(wire) \in Nat
         /\ \A i \in 1..Len(wire) : wire[i] \in Frames /\ wire[i].seq \in Int
<1>1. sequence \in Int /\ cursor \in Int /\ wire \in Seq(Frames) /\ delivered \in Seq(Seqs)
  BY Bounds DEF TypeOK, Seqs
<1>2. LastDelivered \in Seqs
  <2>1. CASE delivered = <<>> BY <2>1, Bounds DEF LastDelivered, Seqs
  <2>2. CASE delivered # <<>>
    <3>1. Len(delivered) \in 1..Len(delivered) BY <1>1, <2>2, EmptySeq
    <3> QED BY <1>1, <2>2, <3>1, ElementOfSeq DEF LastDelivered
  <2> QED BY <2>1, <2>2
<1>3. Len(wire) \in Nat BY <1>1, LenProperties
<1>4. \A i \in 1..Len(wire) : wire[i] \in Frames BY <1>1, ElementOfSeq
<1>5. \A f \in Frames : f.seq \in Int BY FrameTypes, Bounds DEF Seqs
<1>6. LastDelivered \in Int BY <1>2, Bounds DEF Seqs
<1> QED BY <1>1, <1>2, <1>3, <1>4, <1>5, <1>6

-----------------------------------------------------------------------------
(* The four parts of the invariant, step by step *)

Follows == PositionsGrow /\ WireFollows /\ ClientFollows /\ ServerFollows

\* Nothing is written or read.
LEMMA NothingWritten ==
  ASSUME Follows, UNCHANGED <<sequence, wire, cursor, delivered, Aware>>,
         link' = "open" /\ ~resync' => link = "open" /\ ~resync
  PROVE  Follows'
BY DEF Follows, PositionsGrow, WireFollows, ClientFollows, ServerFollows, Pongs, LastDelivered

\* A frame that is not an event is written; a pong leaves the attachment alone.
LEMMA AnswerWritten ==
  ASSUME TypeOK, Follows, UNCHANGED <<sequence, cursor, delivered, Aware>>,
         NEW f \in Frames, f.type # "event", f.seq = sequence, wire' = Append(wire, f),
         f.type = "pong" => UNCHANGED <<link, resync>>
  PROVE  Follows'
<1> USE DEF Follows
<1>n. PICK n \in Nat : n = Len(wire) BY Types
<1>1. /\ Len(wire') = n + 1 /\ wire'[n + 1] = f /\ \A i \in 1..n : wire'[i] = wire[i]
  BY <1>n, Written DEF TypeOK
<1>2. n \in Nat /\ sequence \in Int /\ cursor \in Int BY Types
<1>3. UNCHANGED LastDelivered BY DEF LastDelivered
<1>4. \A i \in 1..n + 1 : i \in 1..n \/ i = n + 1 BY <1>2
<1>6. PositionsGrow'
  <2>1. \A i \in 1..n : /\ wire[i].seq <= sequence
                        /\ wire[i].type # "event" =>
                             cursor <= wire[i].seq /\ \A j \in 1..i : wire[j].seq <= wire[i].seq
    BY <1>n DEF PositionsGrow
  <2>2. \A i \in 1..n + 1 : wire'[i].seq <= sequence' BY <1>1, <1>2, <1>4, <2>1
  <2>3. cursor <= sequence /\ LastDelivered <= cursor BY DEF PositionsGrow
  <2>4. ASSUME NEW i \in 1..n + 1, wire'[i].type # "event"
        PROVE  cursor' <= wire'[i].seq /\ \A j \in 1..i : wire'[j].seq <= wire'[i].seq
    <3>1. CASE i = n + 1 BY <1>1, <2>2, <2>3, <3>1
    <3>2. CASE i \in 1..n
      <4>1. \A j \in 1..i : j \in 1..n BY <1>2, <3>2
      <4> QED BY <1>1, <2>1, <2>4, <3>2, <4>1
    <3> QED BY <1>4, <3>1, <3>2
  <2> QED BY <1>1, <1>3, <2>2, <2>3, <2>4 DEF PositionsGrow
<1>7. WireFollows'
  <2> SUFFICES ASSUME NEW i \in 1..n + 1, NEW j \in 1..n + 1, i < j, wire'[i].type \in Feed,
                      wire'[j].type = "event", Pongs(i + 1, j - 1)'
               PROVE  wire'[j].seq = wire'[i].seq + 1
    BY <1>1 DEF WireFollows
  <2>0. j # n + 1 BY <1>1
  <2>1. j \in 1..n /\ i \in 1..n BY <1>4, <2>0
  <2>2. Pongs(i + 1, j - 1) BY <1>1, <1>2, <2>1 DEF Pongs
  <2> QED BY <1>1, <2>1, <2>2, <1>n DEF WireFollows
<1>8. ClientFollows'
  <2> SUFFICES ASSUME ~Aware, NEW j \in 1..n + 1, wire'[j].type = "event", Pongs(1, j - 1)'
               PROVE  wire'[j].seq = LastDelivered + 1 /\ cursor < wire'[j].seq
    BY <1>1, <1>3 DEF ClientFollows
  <2>1. j \in 1..n BY <1>1, <1>4
  <2>2. Pongs(1, j - 1) BY <1>1, <1>2, <2>1 DEF Pongs
  <2> QED BY <1>1, <2>1, <2>2, <1>n DEF ClientFollows
<1>9. ServerFollows'
  <2>1. CASE f.type # "pong"
    <3>1. \A i \in 1..n : ~Pongs(i + 1, n + 1)' BY <1>1, <1>2, <2>1 DEF Pongs
    <3>2. ~Pongs(1, n + 1)' BY <1>1, <1>2, <2>1 DEF Pongs
    <3>3. wire'[n + 1].type \notin Feed BY <1>1, <2>1 DEF Feed
    <3> QED BY <1>1, <1>4, <3>1, <3>2, <3>3 DEF ServerFollows
  <2>2. CASE f.type = "pong"
    <3> SUFFICES ASSUME link = "open", ~resync
                 PROVE  /\ \A i \in 1..n + 1 : wire'[i].type \in Feed /\ Pongs(i + 1, n + 1)'
                              => wire'[i].seq = sequence
                        /\ Aware \/ (Pongs(1, n + 1)' => LastDelivered = sequence)
      BY <1>1, <1>3, <2>2 DEF ServerFollows
    <3>1. ASSUME NEW i \in 1..n, wire'[i].type \in Feed, Pongs(i + 1, n + 1)'
          PROVE  wire'[i].seq = sequence
      <4>1. Pongs(i + 1, n) BY <1>1, <1>2, <3>1 DEF Pongs
      <4> QED BY <1>1, <3>1, <4>1, <1>n DEF ServerFollows
    <3>2. Pongs(1, n + 1)' => Pongs(1, n) BY <1>1, <1>2 DEF Pongs
    <3> QED BY <1>1, <1>4, <3>1, <3>2, <1>n DEF ServerFollows
  <2> QED BY <2>1, <2>2
<1> QED BY <1>6, <1>7, <1>8, <1>9

\* The next event is written to an attachment that has missed none.
LEMMA EventWritten ==
  ASSUME TypeOK, Follows, link = "open", ~resync, UNCHANGED <<cursor, delivered, Aware>>,
         sequence' = sequence + 1,
         NEW f \in Frames, f.type = "event", f.seq = sequence + 1,
         Len(wire') = Len(wire) + 1, wire'[Len(wire) + 1] = f,
         \A i \in 1..Len(wire) : wire'[i] = wire[i]
  PROVE  Follows'
<1> USE DEF Follows
<1>n. PICK n \in Nat : n = Len(wire) BY Types
<1>1. /\ Len(wire') = n + 1 /\ wire'[n + 1] = f /\ \A i \in 1..n : wire'[i] = wire[i]
  BY <1>n
<1>2. sequence \in Int /\ cursor \in Int /\ \A i \in 1..n : wire[i].seq \in Int BY <1>n, Types
<1>3. UNCHANGED LastDelivered BY DEF LastDelivered
<1>4. \A i \in 1..n + 1 : i \in 1..n \/ i = n + 1 OBVIOUS
<1>6. PositionsGrow'
  <2>1. \A i \in 1..n : /\ wire[i].seq <= sequence
                        /\ wire[i].type # "event" =>
                             cursor <= wire[i].seq /\ \A j \in 1..i : wire[j].seq <= wire[i].seq
    BY <1>n DEF PositionsGrow
  <2>2. \A i \in 1..n + 1 : wire'[i].seq <= sequence' BY <1>1, <1>2, <1>4, <2>1
  <2>3. cursor <= sequence /\ LastDelivered <= cursor BY DEF PositionsGrow
  <2>4. ASSUME NEW i \in 1..n + 1, wire'[i].type # "event"
        PROVE  cursor' <= wire'[i].seq /\ \A j \in 1..i : wire'[j].seq <= wire'[i].seq
    <3>1. i \in 1..n BY <1>1, <1>4, <2>4
    <3>2. \A j \in 1..i : j \in 1..n BY <3>1
    <3> QED BY <1>1, <2>1, <2>4, <3>1, <3>2
  <2> QED BY <1>1, <1>2, <1>3, <2>2, <2>3, <2>4 DEF PositionsGrow
<1>7. WireFollows'
  <2> SUFFICES ASSUME NEW i \in 1..n + 1, NEW j \in 1..n + 1, i < j, wire'[i].type \in Feed,
                      wire'[j].type = "event", Pongs(i + 1, j - 1)'
               PROVE  wire'[j].seq = wire'[i].seq + 1
    BY <1>1 DEF WireFollows
  <2>1. i \in 1..n BY <1>4
  <2>2. Pongs(i + 1, j - 1) BY <1>1, <2>1 DEF Pongs
  <2>3. CASE j \in 1..n BY <1>1, <2>1, <2>2, <2>3, <1>n DEF WireFollows
  <2>4. CASE j = n + 1
    <3>1. Pongs(i + 1, n) BY <2>2, <2>4
    <3>2. wire[i].seq = sequence BY <1>1, <2>1, <3>1, <1>n DEF ServerFollows
    <3> QED BY <1>1, <2>1, <2>4, <3>2
  <2> QED BY <1>4, <2>3, <2>4
<1>8. ClientFollows'
  <2> SUFFICES ASSUME ~Aware, NEW j \in 1..n + 1, wire'[j].type = "event", Pongs(1, j - 1)'
               PROVE  wire'[j].seq = LastDelivered + 1 /\ cursor < wire'[j].seq
    BY <1>1, <1>3 DEF ClientFollows
  <2>1. Pongs(1, j - 1) BY <1>1 DEF Pongs
  <2>2. CASE j \in 1..n BY <1>1, <2>1, <2>2, <1>n DEF ClientFollows
  <2>3. CASE j = n + 1
    <3>1. Pongs(1, n) BY <2>1, <2>3
    <3>2. LastDelivered = sequence BY <3>1, <1>n DEF ServerFollows
    <3>3. cursor <= sequence BY DEF PositionsGrow
    <3> QED BY <1>1, <1>2, <2>3, <3>2, <3>3
  <2> QED BY <1>4, <2>2, <2>3
<1>9. ServerFollows'
  <2>1. \A i \in 1..n : ~Pongs(i + 1, n + 1)' BY <1>1 DEF Pongs
  <2>2. ~Pongs(1, n + 1)' BY <1>1 DEF Pongs
  <2> QED BY <1>1, <1>4, <2>1, <2>2 DEF ServerFollows
<1> QED BY <1>6, <1>7, <1>8, <1>9

\* The answer to an attach is written, and after it events up to the newest, or
\* up to the one that filled the socket.
LEMMA ReplayWritten ==
  ASSUME TypeOK, Follows, UNCHANGED <<sequence, cursor, delivered, Aware>>,
         NEW f \in Frames, f.type = "complete", f.seq = sequence,
         NEW a \in Nat, NEW k \in Nat, a + k - 1 <= sequence,
         Len(wire') = Len(wire) + 1 + k,
         \A i \in 1..Len(wire) : wire'[i] = wire[i],
         wire'[Len(wire) + 1] = f,
         \A i \in 1..k : wire'[Len(wire) + 1 + i] = Frame("event", 0, a + i - 1),
         ~resync' => k = 0 \/ a + k - 1 = sequence
  PROVE  Follows'
<1> USE DEF Follows
<1>n. PICK n \in Nat : n = Len(wire) BY Types
<1>1. /\ Len(wire') = n + 1 + k /\ \A i \in 1..n : wire'[i] = wire[i]
      /\ wire'[n + 1].type = "complete" /\ wire'[n + 1].seq = sequence
      /\ \A i \in 1..k : /\ wire'[n + 1 + i].type = "event"
                         /\ wire'[n + 1 + i].seq = a + i - 1
  <2>1. \A s : Frame("event", 0, s).type = "event" /\ Frame("event", 0, s).seq = s BY FrameTypes
  <2>2. \A i \in 1..k : wire'[n + 1 + i] = Frame("event", 0, a + i - 1) BY <1>n
  <2>3. wire'[n + 1].type = "complete" /\ wire'[n + 1].seq = sequence BY <1>n
  <2>4. Len(wire') = n + 1 + k /\ \A i \in 1..n : wire'[i] = wire[i] BY <1>n
  <2> QED BY <2>1, <2>2, <2>3, <2>4
<1>2. sequence \in Int /\ cursor \in Int /\ \A i \in 1..n : wire[i].seq \in Int BY <1>n, Types
<1>3. UNCHANGED LastDelivered BY DEF LastDelivered
<1>4. \A i \in 1..n + 1 + k : i \in 1..n \/ i = n + 1 \/ \E h \in 1..k : i = n + 1 + h
  <2> TAKE i \in 1..n + 1 + k
  <2>1. ASSUME i > n + 1 PROVE \E h \in 1..k : i = n + 1 + h
    <3>1. i - n - 1 \in 1..k /\ i = n + 1 + (i - n - 1) BY <2>1
    <3> QED BY <3>1
  <2> QED BY <2>1
<1>5. \A i \in 1..k : a + i - 1 <= sequence BY <1>2
<1>a. \A i \in 1..k : wire'[n + 1 + i].type = "event" /\ wire'[n + 1 + i].seq = a + i - 1
  BY <1>1
<1>6. PositionsGrow'
  <2>1. \A i \in 1..n : /\ wire[i].seq <= sequence
                        /\ wire[i].type # "event" =>
                             cursor <= wire[i].seq /\ \A j \in 1..i : wire[j].seq <= wire[i].seq
    BY <1>n DEF PositionsGrow
  <2>2. \A i \in 1..n + 1 + k : wire'[i].seq <= sequence'
    <3> TAKE i \in 1..n + 1 + k
    <3>1. CASE i \in 1..n BY <1>1, <2>1, <3>1
    <3>2. CASE i = n + 1 BY <1>1, <1>2, <3>2
    <3>3. ASSUME NEW h \in 1..k, i = n + 1 + h PROVE wire'[i].seq <= sequence'
      <4>1. wire'[i].seq = a + h - 1 BY <1>a, <3>3
      <4> QED BY <1>5, <4>1
    <3> QED BY <1>4, <3>1, <3>2, <3>3
  <2>3. cursor <= sequence /\ LastDelivered <= cursor BY DEF PositionsGrow
  <2>4. ASSUME NEW i \in 1..n + 1 + k, wire'[i].type # "event"
        PROVE  cursor' <= wire'[i].seq /\ \A j \in 1..i : wire'[j].seq <= wire'[i].seq
    <3>1. CASE i = n + 1 BY <1>1, <2>2, <2>3, <3>1
    <3>2. CASE i \in 1..n
      <4>1. \A j \in 1..i : j \in 1..n BY <3>2
      <4> QED BY <1>1, <2>1, <2>4, <3>2, <4>1
    <3>3. \A h \in 1..k : i # n + 1 + h BY <1>a, <2>4
    <3> QED BY <1>4, <3>1, <3>2, <3>3
  <2> QED BY <1>1, <1>3, <2>2, <2>3, <2>4 DEF PositionsGrow
<1>7. WireFollows'
  <2> SUFFICES ASSUME NEW i \in 1..n + 1 + k, NEW j \in 1..n + 1 + k, i < j,
                      wire'[i].type \in Feed, wire'[j].type = "event", Pongs(i + 1, j - 1)'
               PROVE  wire'[j].seq = wire'[i].seq + 1
    BY <1>1 DEF WireFollows
  <2>1. \A m \in i + 1..j - 1 : wire'[m].type = "pong" BY DEF Pongs
  <2>2. CASE j \in 1..n
    <3>1. i \in 1..n BY <2>2
    <3>2. \A m \in i + 1..j - 1 : m \in 1..n BY <2>2, <3>1
    <3>3. Pongs(i + 1, j - 1) BY <1>1, <2>1, <3>2 DEF Pongs
    <3> QED BY <1>1, <2>2, <3>1, <3>3, <1>n DEF WireFollows
  <2>3. CASE \E h \in 1..k : j = n + 1 + h
    <3>1. PICK h \in 1..k : j = n + 1 + h BY <2>3
    <3>2. ~(i < n + 1)
      <4> SUFFICES ASSUME i < n + 1 PROVE FALSE OBVIOUS
      <4>1. n + 1 \in i + 1..j - 1 BY <3>1
      <4> QED BY <1>1, <2>1, <4>1
    <3>3. i # n + 1 BY <1>1 DEF Feed
    <3>a. i \notin 1..n BY <3>2
    <3>4. PICK g \in 1..k : i = n + 1 + g BY <1>4, <3>3, <3>a
    <3>5. ~(g + 1 < h)
      <4> SUFFICES ASSUME g + 1 < h PROVE FALSE OBVIOUS
      <4>1. n + 1 + (g + 1) \in i + 1..j - 1 /\ g + 1 \in 1..k BY <3>1, <3>4
      <4> QED BY <1>1, <2>1, <4>1
    <3>6. h = g + 1 BY <3>1, <3>4, <3>5
    <3>7. wire'[j].seq = a + h - 1 BY <1>a, <3>1
    <3>8. wire'[i].seq = a + g - 1 BY <1>a, <3>4
    <3> QED BY <3>6, <3>7, <3>8
  <2> QED BY <1>1, <1>4, <2>2, <2>3
<1>8. ClientFollows'
  <2> SUFFICES ASSUME ~Aware, NEW j \in 1..n + 1 + k, wire'[j].type = "event", Pongs(1, j - 1)'
               PROVE  wire'[j].seq = LastDelivered + 1 /\ cursor < wire'[j].seq
    BY <1>1, <1>3 DEF ClientFollows
  <2>1. ~(n + 1 < j) BY <1>1 DEF Pongs
  <2>2. j \in 1..n BY <1>1, <1>4, <2>1
  <2>3. Pongs(1, j - 1) BY <1>1, <2>2 DEF Pongs
  <2> QED BY <1>1, <2>2, <2>3, <1>n DEF ClientFollows
<1>9. ServerFollows'
  <2> SUFFICES ASSUME ~resync'
               PROVE  /\ \A i \in 1..n + 1 + k : wire'[i].type \in Feed /\ Pongs(i + 1, n + 1 + k)'
                            => wire'[i].seq = sequence
                      /\ ~Pongs(1, n + 1 + k)'
    BY <1>1, <1>3 DEF ServerFollows
  <2>1. ~Pongs(1, n + 1 + k)' BY <1>1 DEF Pongs
  <2>2. ASSUME NEW i \in 1..n + 1 + k, wire'[i].type \in Feed, Pongs(i + 1, n + 1 + k)'
        PROVE  wire'[i].seq = sequence
    <3>1. \A m \in i + 1..n + 1 + k : wire'[m].type = "pong" BY <2>2 DEF Pongs
    <3>2. ~(i < n + 1) BY <1>1, <3>1
    <3>3. i # n + 1 BY <1>1, <2>2 DEF Feed
    <3>4. PICK g \in 1..k : i = n + 1 + g BY <1>4, <3>2, <3>3
    <3>5. ~(g < k)
      <4> SUFFICES ASSUME g < k PROVE FALSE OBVIOUS
      <4>1. n + 1 + (g + 1) \in i + 1..n + 1 + k /\ g + 1 \in 1..k BY <3>4
      <4> QED BY <1>1, <3>1, <4>1
    <3>6. g = k /\ k # 0 BY <3>4, <3>5
    <3> QED BY <1>1, <3>4, <3>6
  <2> QED BY <2>1, <2>2
<1> QED BY <1>6, <1>7, <1>8, <1>9

\* A frame reaches the client.  It is told that it may have missed something,
\* or it gets a pong, or an event that it has or has not seen.
LEMMA FrameTaken ==
  ASSUME TypeOK, Follows, wire # <<>>, wire' = Tail(wire), UNCHANGED <<sequence, link, resync>>,
         NEW h, h = Head(wire), cursor' \in {cursor, h.seq},
         \/ /\ h.type \notin Feed /\ Aware' = TRUE /\ UNCHANGED delivered
         \/ /\ h.type = "pong" /\ UNCHANGED <<Aware, delivered>>
         \/ /\ h.type = "event" /\ h.seq <= cursor /\ UNCHANGED <<Aware, delivered, cursor>>
         \/ /\ h.type = "event" /\ h.seq > cursor /\ cursor' = h.seq /\ Aware' = FALSE
            /\ LastDelivered' = h.seq
  PROVE  Follows'
<1> USE DEF Follows
<1>n. PICK n \in Nat : Len(wire) = n + 1
  <2>1. Len(wire) \in Nat /\ Len(wire) >= 1 BY TakenFrame DEF TypeOK
  <2>2. Len(wire) - 1 \in Nat /\ Len(wire) = (Len(wire) - 1) + 1 BY <2>1
  <2> QED BY <2>2
<1>1. /\ Len(wire') = n /\ \A i \in 1..n : wire'[i] = wire[i + 1]
      /\ h = wire[1]
  BY <1>n, TakenFrame DEF TypeOK
<1>2. /\ sequence \in Int /\ cursor \in Int /\ h.seq \in Int
      /\ \A i \in 1..n + 1 : wire[i].seq \in Int
  BY <1>n, <1>1, Types
<1>3. \A i \in 1..n : i + 1 \in 1..n + 1 /\ 1 \in 1..i + 1 OBVIOUS
<1>4. \A i \in 1..n, j \in 1..n + 1 : Pongs(i, j - 1)' => Pongs(i + 1, j)
  <2> SUFFICES ASSUME NEW i \in 1..n, NEW j \in 1..n + 1, Pongs(i, j - 1)',
                      NEW m \in i + 1..j
               PROVE  wire[m].type = "pong"
    BY DEF Pongs
  <2>1. m - 1 \in i..j - 1 /\ m - 1 \in 1..n /\ (m - 1) + 1 = m OBVIOUS
  <2>2. wire'[m - 1].type = "pong" BY <2>1 DEF Pongs
  <2> QED BY <1>1, <2>1, <2>2
<1>5. UNCHANGED delivered => UNCHANGED LastDelivered BY DEF LastDelivered
<1>a. LastDelivered \in Int BY Types
\* A client that was told nothing sees the next event only.
<1>b. h.type = "event" /\ ~Aware => h.seq = LastDelivered + 1 /\ cursor < h.seq
  <2>1. Pongs(1, 0) BY DEF Pongs
  <2>2. 1 \in 1..Len(wire) /\ 1 - 1 = 0 BY <1>n
  <2> QED BY <1>1, <2>1, <2>2 DEF ClientFollows
\* The three ways in which a client stays untold, or is told.
<1>e. \/ Aware' = TRUE
      \/ h.type = "pong" /\ UNCHANGED <<Aware, LastDelivered>>
      \/ h.type = "event" /\ h.seq <= cursor /\ UNCHANGED <<Aware, LastDelivered>>
      \/ h.type = "event" /\ LastDelivered' = h.seq /\ cursor' = h.seq
  BY <1>5
<1>6. PositionsGrow'
  <2>1. \A i \in 1..n + 1 : /\ wire[i].seq <= sequence
                            /\ wire[i].type # "event" =>
                                 cursor <= wire[i].seq /\ \A j \in 1..i : wire[j].seq <= wire[i].seq
    BY <1>n DEF PositionsGrow
  <2>2. cursor <= sequence /\ LastDelivered <= cursor BY DEF PositionsGrow
  <2>3. h.seq <= sequence /\ (h.type # "event" => cursor <= h.seq) BY <1>1, <2>1
  <2>4. cursor' <= sequence' BY <2>2, <2>3
  <2>5. LastDelivered' <= cursor'
    <3>1. CASE h.type # "event" BY <1>2, <1>5, <1>a, <2>2, <2>3, <3>1
    <3>2. CASE UNCHANGED <<delivered, cursor>> BY <1>5, <2>2, <3>2
    <3>3. CASE LastDelivered' = h.seq /\ cursor' = h.seq BY <1>2, <3>3
    <3> QED BY <3>1, <3>2, <3>3 DEF Feed
  <2>6. \A i \in 1..n : wire'[i].seq <= sequence' BY <1>1, <1>3, <2>1
  <2>7. ASSUME NEW i \in 1..n, wire'[i].type # "event"
        PROVE  cursor' <= wire'[i].seq /\ \A j \in 1..i : wire'[j].seq <= wire'[i].seq
    <3>1. /\ cursor <= wire[i + 1].seq /\ wire[1].seq <= wire[i + 1].seq
          /\ \A j \in 1..i + 1 : wire[j].seq <= wire[i + 1].seq
      BY <1>1, <1>3, <2>1, <2>7
    <3>2. \A j \in 1..i : j + 1 \in 1..i + 1 /\ j \in 1..n OBVIOUS
    <3> QED BY <1>1, <3>1, <3>2
  <2> QED BY <1>1, <2>4, <2>5, <2>6, <2>7 DEF PositionsGrow
<1>7. WireFollows'
  <2> SUFFICES ASSUME NEW i \in 1..n, NEW j \in 1..n, i < j, wire'[i].type \in Feed,
                      wire'[j].type = "event", Pongs(i + 1, j - 1)'
               PROVE  wire'[j].seq = wire'[i].seq + 1
    BY <1>1 DEF WireFollows
  <2>1. i + 1 \in 1..n /\ j \in 1..n + 1 /\ i + 1 < j + 1 /\ (j + 1) - 1 = j OBVIOUS
  <2>2. Pongs((i + 1) + 1, (j + 1) - 1) BY <1>4, <2>1
  <2>3. i + 1 \in 1..Len(wire) /\ j + 1 \in 1..Len(wire) BY <1>n
  <2>4. wire[i + 1].type \in Feed /\ wire[j + 1].type = "event" BY <1>1
  <2>5. wire[j + 1].seq = wire[i + 1].seq + 1 BY <2>1, <2>2, <2>3, <2>4 DEF WireFollows
  <2> QED BY <1>1, <2>5
\* What a pong or an event that is delivered leaves before the next event.
<1>c. ASSUME NEW j \in 1..n, wire'[j].type = "event", Pongs(1, j - 1)', h.type \in Feed
      PROVE  wire'[j].seq = h.seq + 1
  <2>1. Pongs(1 + 1, (j + 1) - 1)
    <3>1. 1 \in 1..n /\ j \in 1..n + 1 /\ (j + 1) - 1 = j OBVIOUS
    <3> QED BY <1>4, <1>c, <3>1
  <2>2. 1 \in 1..Len(wire) /\ j + 1 \in 1..Len(wire) /\ 1 < j + 1 BY <1>n
  <2> QED BY <1>1, <1>c, <2>1, <2>2 DEF WireFollows
<1>d. ASSUME NEW j \in 0..n, h.type = "pong", Pongs(1, j)' PROVE Pongs(1, j + 1)
  <2> SUFFICES ASSUME NEW m \in 1..j + 1 PROVE wire[m].type = "pong" BY DEF Pongs
  <2>1. CASE m = 1 BY <1>1, <1>d, <2>1
  <2>2. CASE m # 1
    <3>1. m - 1 \in 1..j /\ m - 1 \in 1..n /\ (m - 1) + 1 = m BY <2>2
    <3>2. wire'[m - 1].type = "pong" BY <1>d, <3>1 DEF Pongs
    <3> QED BY <1>1, <3>1, <3>2
  <2> QED BY <2>1, <2>2
<1>8. ClientFollows'
  <2> SUFFICES ASSUME ~Aware', NEW j \in 1..n, wire'[j].type = "event", Pongs(1, j - 1)'
               PROVE  wire'[j].seq = LastDelivered' + 1 /\ cursor' < wire'[j].seq
    BY <1>1 DEF ClientFollows
  <2>1. CASE h.type = "pong" /\ ~Aware /\ UNCHANGED LastDelivered
    <3>1. wire'[j].seq = h.seq + 1 BY <1>c, <2>1 DEF Feed
    <3>2. Pongs(1, (j + 1) - 1)
      <4>1. j - 1 \in 0..n /\ (j - 1) + 1 = (j + 1) - 1 OBVIOUS
      <4> QED BY <1>d, <2>1, <4>1
    <3>3. j + 1 \in 1..Len(wire) /\ wire[j + 1].type = "event" BY <1>n, <1>1
    <3>4. wire[j + 1].seq = LastDelivered + 1 /\ cursor < wire[j + 1].seq
      BY <2>1, <3>2, <3>3 DEF ClientFollows
    <3> QED BY <1>1, <1>2, <2>1, <3>1, <3>4
  <2>2. CASE h.type = "event" /\ LastDelivered' = h.seq /\ cursor' = h.seq
    <3>1. wire'[j].seq = h.seq + 1 BY <1>c, <2>2 DEF Feed
    <3>2. LastDelivered' = h.seq /\ cursor' = h.seq /\ h.seq < h.seq + 1 BY <1>2, <2>2
    <3> QED BY <3>1, <3>2
  <2>3. CASE h.type = "event" /\ h.seq <= cursor /\ ~Aware BY <1>b, <1>2, <2>3
  <2>4. Aware' # TRUE OBVIOUS
  <2> QED BY <1>e, <2>1, <2>2, <2>3, <2>4
<1>9. ServerFollows'
  <2> SUFFICES ASSUME link = "open", ~resync
               PROVE  /\ \A i \in 1..n : wire'[i].type \in Feed /\ Pongs(i + 1, n)'
                            => wire'[i].seq = sequence
                      /\ Aware' \/ (Pongs(1, n)' => LastDelivered' = sequence)
    BY <1>1 DEF ServerFollows
  <2>1. ASSUME NEW i \in 1..n, wire'[i].type \in Feed, Pongs(i + 1, n)'
        PROVE  wire'[i].seq = sequence
    <3>1. Pongs((i + 1) + 1, n + 1)
      <4>1. ASSUME NEW m \in (i + 1) + 1..n + 1 PROVE wire[m].type = "pong"
        <5>1. m - 1 \in i + 1..n /\ m - 1 \in 1..n /\ (m - 1) + 1 = m OBVIOUS
        <5>2. wire'[m - 1].type = "pong" BY <2>1, <5>1 DEF Pongs
        <5> QED BY <1>1, <5>1, <5>2
      <4> QED BY <4>1 DEF Pongs
    <3>2. i + 1 \in 1..Len(wire) /\ wire[i + 1].type \in Feed BY <1>n, <1>1, <2>1
    <3> QED BY <1>n, <1>1, <3>1, <3>2 DEF ServerFollows
  <2>2. ASSUME ~Aware', Pongs(1, n)' PROVE LastDelivered' = sequence
    <3>1. CASE h.type = "pong" /\ ~Aware /\ UNCHANGED LastDelivered
      <4>1. n \in 0..n OBVIOUS
      <4>2. Pongs(1, n + 1) BY <1>d, <2>2, <3>1, <4>1
      <4> QED BY <1>n, <3>1, <4>2 DEF ServerFollows
    <3>2. CASE h.type = "event" /\ LastDelivered' = h.seq
      <4>1. Pongs(1 + 1, n + 1)
        <5>1. ASSUME NEW m \in 1 + 1..n + 1 PROVE wire[m].type = "pong"
          <6>1. m - 1 \in 1..n /\ (m - 1) + 1 = m OBVIOUS
          <6>2. wire'[m - 1].type = "pong" BY <2>2, <6>1 DEF Pongs
          <6> QED BY <1>1, <6>1, <6>2
        <5> QED BY <5>1 DEF Pongs
      <4>2. 1 \in 1..Len(wire) /\ wire[1].type \in Feed BY <1>n, <1>1, <3>2 DEF Feed
      <4> QED BY <1>n, <1>1, <3>2, <4>1, <4>2 DEF ServerFollows
    <3>3. CASE h.type = "event" /\ h.seq <= cursor /\ ~Aware BY <1>b, <1>2, <3>3
    <3>4. Aware' # TRUE BY <2>2
    <3> QED BY <1>e, <2>2, <3>1, <3>2, <3>3, <3>4
  <2> QED BY <2>1, <2>2
<1> QED BY <1>6, <1>7, <1>8, <1>9

-----------------------------------------------------------------------------
(* Every action keeps the invariant *)

\* The parts of TypeOK that steps of the worker leave to be shown.
LEMMA ServerTypes ==
  ASSUME TypeOK, UNCHANGED <<client, history>>, sequence' \in Seqs,
         link' \in {"closed", "connected", "open"},
         full' \in BOOLEAN, blocked' \in BOOLEAN, resync' \in BOOLEAN,
         requests' \in Seq(Asks), wire' \in Seq(Frames), providing' \subseteq Ids,
         blocked' => full',
         link = "open" => link' = "open",
         link' # "open" => wire' = <<>> /\ requests' = <<>> /\ ~full' /\ ~resync'
  PROVE  TypeOK'
<1>1. /\ cursor' \in Seqs /\ known' \in Seqs /\ told' \in BOOLEAN /\ late' \in BOOLEAN /\ stale' \in BOOLEAN
      /\ waiting' \subseteq Ids /\ waiters' \subseteq Ids
      /\ asked' \in 0..MaxRequests /\ connections' \in 0..MaxMoves /\ delivered' \in Seq(Seqs)
  BY DEF TypeOK, client, history
<1>2. link' # "open" => waiting' = {} /\ waiters' = {} BY DEF TypeOK, client
<1> QED BY <1>1, <1>2 DEF TypeOK

LEMMA Flags ==
  ASSUME TypeOK
  PROVE  /\ full \in BOOLEAN /\ blocked \in BOOLEAN /\ resync \in BOOLEAN
         /\ told \in BOOLEAN /\ late \in BOOLEAN /\ stale \in BOOLEAN
BY DEF TypeOK

\* What the worker takes from the connection is a request of the client.
LEMMA TakenRequest ==
  ASSUME TypeOK, NEW type, Take(type)
  PROVE  /\ link = "open" /\ requests' \in Seq(Asks)
         /\ Head(requests).type = type /\ Head(requests).id \in Ids /\ Head(requests).seq \in Seqs
<1>1. requests \in Seq(Asks) /\ requests # <<>> /\ requests' = Tail(requests) BY DEF TypeOK, Take
<1>2. Head(requests) \in Asks /\ Tail(requests) \in Seq(Asks) BY <1>1, HeadTailProperties
<1>3. \A r \in Asks : r.id \in Ids /\ r.seq \in Seqs BY DEF Asks
<1> QED BY <1>1, <1>2, <1>3 DEF Take

LEMMA InitIInv == Init => IInv
<1> SUFFICES ASSUME Init PROVE IInv OBVIOUS
<1> USE DEF Init
<1>1. TypeOK
  <2>1. requests \in Seq(Asks) /\ wire \in Seq(Frames) /\ delivered \in Seq(Seqs) BY EmptySeq
  <2>2. sequence \in Seqs /\ cursor \in Seqs /\ known \in Seqs BY Bounds DEF Seqs
  <2>3. asked \in 0..MaxRequests /\ connections \in 0..MaxMoves BY Bounds
  <2> QED BY <2>1, <2>2, <2>3 DEF TypeOK
<1>2. Len(wire) = 0 /\ LastDelivered = 0 BY DEF LastDelivered
<1>3. PositionsGrow BY <1>2 DEF PositionsGrow
<1>4. WireFollows BY <1>2 DEF WireFollows
<1>5. ClientFollows BY <1>2 DEF ClientFollows
<1>6. ServerFollows BY DEF ServerFollows
<1> QED BY <1>1, <1>3, <1>4, <1>5, <1>6 DEF IInv

LEMMA PublishIInv == IInv /\ Publish => IInv'
<1> SUFFICES ASSUME IInv, Publish PROVE IInv' OBVIOUS
<1>1. TypeOK /\ Follows /\ (link # "open" => providing = {}) BY DEF IInv, Follows
<1>e. PICK e \in Seqs : e = sequence + 1 BY <1>1, Bounds DEF Publish, TypeOK, Seqs
<1>2. /\ sequence' = sequence + 1 /\ e = sequence + 1 /\ e \in Seqs /\ e \in Nat \ {0}
      /\ UNCHANGED <<link, requests, providing, client, history>>
      /\ UNCHANGED <<cursor, delivered, Aware>>
  BY <1>1, <1>e, Bounds DEF Publish, TypeOK, Seqs, client, history, Aware
<1>3. ASSUME wire' \in Seq(Frames), full' \in BOOLEAN, blocked' \in BOOLEAN, resync' \in BOOLEAN,
             blocked' => full', link # "open" => UNCHANGED <<wire, full, resync>>
      PROVE  TypeOK' /\ (link' # "open" => providing' = {})
  <2>1. link # "open" => wire' = <<>> /\ requests' = <<>> /\ ~full' /\ ~resync'
    BY <1>1, <1>2, <1>3 DEF TypeOK
  <2> QED BY <1>1, <1>2, <1>3, <2>1, ServerTypes DEF TypeOK
<1>4. ASSUME UNCHANGED wire, link = "open" => resync' = TRUE PROVE Follows'
  <2>1. \A i \in 1..Len(wire) : wire[i].seq \in Int BY <1>1, Types
  <2>2. sequence \in Int /\ cursor \in Int BY <1>1, Types
  <2>3. PositionsGrow'
    BY <1>1, <1>2, <1>4, <2>1, <2>2 DEF Follows, PositionsGrow, LastDelivered
  <2>4. WireFollows' BY <1>1, <1>4 DEF Follows, WireFollows, Pongs
  <2>5. ClientFollows' BY <1>1, <1>2, <1>4 DEF Follows, ClientFollows, Pongs, LastDelivered
  <2>6. ServerFollows' BY <1>2, <1>4 DEF ServerFollows
  <2> QED BY <2>3, <2>4, <2>5, <2>6 DEF Follows
<1>5. CASE link # "open"
  <2>1. UNCHANGED <<wire, full, blocked, resync>> BY <1>5 DEF Publish
  <2>2. Follows' BY <1>4, <1>5, <2>1
  <2>3. TypeOK' /\ (link' # "open" => providing' = {}) BY <1>1, <1>3, <2>1 DEF TypeOK
  <2> QED BY <2>2, <2>3 DEF IInv, Follows
<1>6. CASE link = "open"
  <2>1. SendEvents(<<>>, full, resync, e, e) BY <1>6, <1>e DEF Publish
  <2>2. CASE wire' = wire \o <<>> /\ UNCHANGED <<full, blocked>> /\ resync' = TRUE
    <3>1. wire' = wire BY <1>1, <2>2, ConcatEmptySeq DEF TypeOK
    <3>2. Follows' BY <1>4, <2>2, <3>1
    <3>3. TypeOK' /\ (link' # "open" => providing' = {}) BY <1>1, <1>3, <1>6, <2>2, <3>1 DEF TypeOK
    <3> QED BY <3>2, <3>3 DEF IInv, Follows
  <2>3. CASE /\ ~resync /\ wire' = wire \o <<>> \o EventFrames(e, e)
             /\ full' \in BOOLEAN /\ blocked' \in BOOLEAN /\ resync' \in BOOLEAN
             /\ (blocked' => full')
    <3>0. wire \in Seq(Frames) /\ e > 0 BY <1>1, <1>2 DEF TypeOK
    <3>1. /\ wire' \in Seq(Frames) /\ Len(wire') = Len(wire) + 1
          /\ wire'[Len(wire) + 1] = Frame("event", 0, e)
          /\ \A i \in 1..Len(wire) : wire'[i] = wire[i]
      BY <2>3, <3>0, SentEvent
    <3>2. /\ Frame("event", 0, e) \in Frames /\ Frame("event", 0, e).type = "event"
          /\ Frame("event", 0, e).seq = sequence + 1
      BY <1>2, FrameTypes DEF Plain
    <3>3. Follows' BY <1>1, <1>2, <1>6, <2>3, <3>1, <3>2, EventWritten
    <3>4. TypeOK' /\ (link' # "open" => providing' = {}) BY <1>3, <1>6, <2>3, <3>1
    <3> QED BY <3>3, <3>4 DEF IInv, Follows
  <2>4. CASE /\ e > e \/ blocked \/ resync
             /\ wire' = wire \o <<>>
             /\ full' = full /\ resync' = (resync \/ e <= e)
             /\ UNCHANGED blocked
    <3>1. e <= e BY <1>2
    <3>2. resync' = TRUE BY <2>4, <3>1
    <3> QED BY <2>2, <2>4, <3>2
  <2>5. CASE /\ e <= e /\ ~blocked /\ ~resync /\ ~full
             /\ wire' = wire \o <<>> \o EventFrames(e, e)
             /\ full' = FALSE /\ resync' = FALSE
             /\ UNCHANGED blocked
    <3>1. blocked' = FALSE BY <1>1, <2>5, Flags
    <3> QED BY <2>3, <2>5, <3>1
  <2>6. ASSUME NEW last \in e..e, ~blocked, ~resync,
               wire' = wire \o <<>> \o EventFrames(e, last),
               full' = TRUE, blocked' = TRUE, resync' = TRUE
        PROVE  IInv'
    <3>1. last = e BY <1>2
    <3> QED BY <2>3, <2>6, <3>1
  <2> QED BY <2>1, <2>4, <2>5, <2>6 DEF SendEvents
<1> QED BY <1>5, <1>6

\* The steps that write one frame which is not an event, or none.
LEMMA WriteIInv ==
  ASSUME IInv, link' = "open", sequence' = sequence, UNCHANGED <<client, history>>,
         NEW f \in Frames, f.type # "event", f.seq = sequence, wire' = Append(wire, f),
         f.type = "pong" => UNCHANGED <<link, resync>>,
         full' \in BOOLEAN, blocked' \in BOOLEAN, resync' \in BOOLEAN, blocked' => full',
         requests' \in Seq(Asks), providing' \subseteq Ids
  PROVE  IInv'
<1>1. TypeOK /\ Follows BY DEF IInv, Follows
<1>2. UNCHANGED <<cursor, delivered, Aware>> BY DEF client, history, Aware
<1>3. Follows' BY <1>1, <1>2, AnswerWritten
<1>4. wire' \in Seq(Frames) BY <1>1, Written DEF TypeOK
<1>5. TypeOK' BY <1>1, <1>4, ServerTypes DEF TypeOK
<1> QED BY <1>3, <1>5 DEF IInv, Follows

LEMMA AuthenticateIInv == IInv /\ Authenticate => IInv'
<1> SUFFICES ASSUME IInv, Authenticate PROVE IInv' OBVIOUS
<1> DEFINE f == Frame("auth_ok", 0, sequence)
<1>1. TypeOK BY DEF IInv
<1>2. f \in Frames /\ f.type = "auth_ok" /\ f.seq = sequence
  BY <1>1, FrameTypes DEF TypeOK, Plain
<1>3. /\ wire' = Append(wire, f) /\ full' \in {full, TRUE} /\ link' = "open"
      /\ UNCHANGED <<sequence, blocked, resync, requests, providing, client, history>>
  BY DEF Authenticate, Write
<1>4. full' \in BOOLEAN /\ blocked' \in BOOLEAN /\ resync' \in BOOLEAN /\ (blocked' => full')
  BY <1>1, <1>3, Flags DEF TypeOK
<1> HIDE DEF f
<1> QED BY <1>1, <1>2, <1>3, <1>4, WriteIInv DEF TypeOK

LEMMA DrainIInv == IInv /\ Drain => IInv'
<1> SUFFICES ASSUME IInv, Drain PROVE IInv' OBVIOUS
<1> DEFINE f == Frame("resync_required", 0, sequence)
<1>1. TypeOK /\ Follows BY DEF IInv, Follows
<1>2. /\ link = "open" /\ blocked' = FALSE /\ full' = FALSE
      /\ wire' = (IF resync THEN Append(wire, f) ELSE wire)
      /\ UNCHANGED <<sequence, resync, link, requests, providing, client, history>>
  BY <1>1 DEF Drain, TypeOK
<1>3. CASE resync
  <2>1. f \in Frames /\ f.type = "resync_required" /\ f.seq = sequence
    BY <1>1, FrameTypes DEF TypeOK, Plain
  <2>2. wire' = Append(wire, f) BY <1>2, <1>3
  <2> HIDE DEF f
  <2> QED BY <1>1, <1>2, <2>1, <2>2, Flags, WriteIInv DEF TypeOK
<1>4. CASE ~resync
  <2>1. UNCHANGED <<sequence, wire, cursor, delivered, Aware>> BY <1>2, <1>4 DEF client, history, Aware
  <2>2. Follows' BY <1>1, <1>2, <2>1, NothingWritten
  <2>3. TypeOK' BY <1>1, <1>2, <2>1, Flags, ServerTypes DEF TypeOK
  <2> QED BY <1>2, <2>2, <2>3 DEF IInv, Follows
<1> QED BY <1>3, <1>4

LEMMA PongIInv == IInv /\ Pong => IInv'
<1> SUFFICES ASSUME IInv, Pong PROVE IInv' OBVIOUS
<1>1. TypeOK BY DEF IInv
<1>2. /\ Take("ping") /\ Write(Frame("pong", Head(requests).id, sequence))
      /\ UNCHANGED <<sequence, blocked, resync, link, providing, client, history>>
  BY DEF Pong
<1>3. link = "open" /\ requests' \in Seq(Asks) /\ Head(requests).id \in Ids
  BY <1>1, <1>2, TakenRequest
<1>f. PICK f \in Frames : /\ f = Frame("pong", Head(requests).id, sequence)
                          /\ f.type = "pong" /\ f.seq = sequence
  BY <1>1, <1>3, FrameTypes DEF TypeOK, Answering
<1>4. wire' = Append(wire, f) /\ full' \in {full, TRUE} BY <1>2, <1>f DEF Write
<1>5. full' \in BOOLEAN /\ blocked' \in BOOLEAN /\ resync' \in BOOLEAN /\ (blocked' => full')
  BY <1>1, <1>2, <1>4, Flags DEF TypeOK
<1>6. link' = "open" /\ providing' \subseteq Ids BY <1>1, <1>2, <1>3 DEF TypeOK
<1>7. f.type # "event" /\ f.seq = sequence BY <1>f
<1> QED BY <1>2, <1>3, <1>4, <1>5, <1>6, <1>7, WriteIInv

LEMMA ProvideIInv == IInv /\ Provide => IInv'
<1> SUFFICES ASSUME IInv, Provide PROVE IInv' OBVIOUS
<1>1. TypeOK /\ Follows BY DEF IInv, Follows
<1>2. /\ Take("snapshot_request") /\ providing' = providing \cup {Head(requests).id}
      /\ UNCHANGED <<sequence, full, blocked, resync, link, wire, client, history>>
  BY DEF Provide
<1>3. link = "open" /\ requests' \in Seq(Asks) /\ Head(requests).id \in Ids
  BY <1>1, <1>2, TakenRequest
<1>4. UNCHANGED <<sequence, wire, cursor, delivered, Aware>> BY <1>2 DEF client, history, Aware
<1>5. Follows' BY <1>1, <1>2, <1>4, NothingWritten
<1>6. link' = "open" /\ providing' \subseteq Ids BY <1>1, <1>2, <1>3 DEF TypeOK
<1>7. TypeOK' BY <1>1, <1>2, <1>3, <1>6, Flags, ServerTypes DEF TypeOK
<1> QED BY <1>5, <1>6, <1>7 DEF IInv, Follows

LEMMA AttachSnapshotIInv == IInv /\ AttachSnapshot => IInv'
<1> SUFFICES ASSUME IInv, AttachSnapshot PROVE IInv' OBVIOUS
<1>1. TypeOK BY DEF IInv
<1>2. Take("attach") \/ Take("attach_other") BY DEF AttachSnapshot
<1>3. link = "open" /\ requests' \in Seq(Asks) /\ Head(requests).id \in Ids
  BY <1>1, <1>2, TakenRequest
<1>t. PICK t \in {"partial", "unavailable"} :
        Write(Frame(t, Head(requests).id, sequence))
  BY DEF AttachSnapshot
<1>4. /\ providing' = providing \cup {Head(requests).id} /\ resync' = FALSE
      /\ UNCHANGED <<sequence, blocked, link, client, history>>
  BY DEF AttachSnapshot
<1>f. PICK f \in Frames : /\ f = Frame(t, Head(requests).id, sequence)
                          /\ f.type = t /\ f.seq = sequence
  BY <1>1, <1>3, FrameTypes DEF TypeOK, Answering
<1>5. wire' = Append(wire, f) /\ full' \in {full, TRUE} BY <1>t, <1>f DEF Write
<1>6. full' \in BOOLEAN /\ blocked' \in BOOLEAN /\ resync' \in BOOLEAN /\ (blocked' => full')
  BY <1>1, <1>4, <1>5, Flags DEF TypeOK
<1>7. link' = "open" /\ providing' \subseteq Ids BY <1>1, <1>3, <1>4 DEF TypeOK
<1>8. f.type # "event" /\ f.type # "pong" /\ f.seq = sequence BY <1>f
<1> QED BY <1>3, <1>4, <1>5, <1>6, <1>7, <1>8, WriteIInv

LEMMA SendSnapshotIInv ==
  ASSUME NEW id \in Ids, IInv, SendSnapshot(id)
  PROVE  IInv'
<1>1. TypeOK /\ Follows /\ link = "open" BY DEF IInv, Follows, SendSnapshot
<1>2. /\ providing' = providing \ {id}
      /\ UNCHANGED <<sequence, blocked, link, requests, client, history>>
  BY DEF SendSnapshot
<1>3. link' = "open" /\ providing' \subseteq Ids /\ requests' \in Seq(Asks)
  BY <1>1, <1>2 DEF TypeOK
<1>4. CASE Write(Frame("snapshot", id, sequence)) /\ resync' = FALSE
  <2>f. PICK f \in Frames : /\ f = Frame("snapshot", id, sequence)
                            /\ f.type = "snapshot" /\ f.seq = sequence
    BY <1>1, FrameTypes DEF TypeOK, Answering
  <2>1. wire' = Append(wire, f) /\ full' \in {full, TRUE} BY <1>4, <2>f DEF Write
  <2>2. full' \in BOOLEAN /\ blocked' \in BOOLEAN /\ resync' \in BOOLEAN /\ (blocked' => full')
    BY <1>1, <1>2, <1>4, <2>1, Flags DEF TypeOK
  <2>3. f.type # "event" /\ f.type # "pong" /\ f.seq = sequence BY <2>f
  <2> QED BY <1>2, <1>3, <2>1, <2>2, <2>3, WriteIInv
<1>5. CASE full' = TRUE /\ resync' = TRUE /\ UNCHANGED wire
  <2>1. UNCHANGED <<sequence, wire, cursor, delivered, Aware>>
    BY <1>2, <1>5 DEF client, history, Aware
  <2>2. Follows' BY <1>1, <1>5, <2>1, NothingWritten
  <2>3. TypeOK' BY <1>1, <1>2, <1>3, <1>5, Flags, ServerTypes DEF TypeOK
  <2> QED BY <1>3, <2>2, <2>3 DEF IInv, Follows
<1> QED BY <1>4, <1>5 DEF SendSnapshot

\* The steps of the client that leave the wire and what it has seen alone.
LEMMA ClientIInv ==
  ASSUME IInv, UNCHANGED <<server, wire, cursor, history>>,
         link' \in {"closed", "connected", "open"}, link = "open" <=> link' = "open",
         requests' \in Seq(Asks), waiting' \subseteq Ids, waiters' \subseteq Ids,
         asked' \in 0..MaxRequests, connections' \in 0..MaxMoves,
         link # "open" => UNCHANGED <<requests, waiting, waiters>>
  PROVE  IInv'
<1>1. TypeOK /\ Follows BY DEF IInv, Follows
<1>2. UNCHANGED <<sequence, full, blocked, resync, providing, delivered, told, known, stale, late>>
  BY DEF server, history
<1>a. Aware' = Aware BY <1>2 DEF Aware
<1>3. Follows' BY <1>1, <1>2, <1>a, NothingWritten
<1>4. TypeOK'
  <2>1. /\ sequence' \in Seqs /\ cursor' \in Seqs /\ known' \in Seqs
        /\ full' \in BOOLEAN /\ blocked' \in BOOLEAN /\ resync' \in BOOLEAN
        /\ told' \in BOOLEAN /\ late' \in BOOLEAN /\ stale' \in BOOLEAN
        /\ wire' \in Seq(Frames) /\ providing' \subseteq Ids /\ delivered' \in Seq(Seqs)
        /\ (blocked' => full')
    BY <1>1, <1>2 DEF TypeOK
  <2>2. link' # "open" => /\ wire' = <<>> /\ requests' = <<>> /\ ~full' /\ ~resync'
                          /\ waiting' = {} /\ waiters' = {}
    BY <1>1, <1>2 DEF TypeOK
  <2> QED BY <2>1, <2>2 DEF TypeOK
<1> QED BY <1>2, <1>3, <1>4 DEF IInv, Follows

LEMMA ConnectIInv == IInv /\ Connect => IInv'
<1> SUFFICES ASSUME IInv, Connect PROVE IInv' OBVIOUS
<1>1. TypeOK BY DEF IInv
<1>2. /\ link = "closed" /\ link' = "connected" /\ connections + asked < MaxMoves
      /\ connections' = connections + 1
      /\ UNCHANGED <<server, requests, wire, cursor, waiting, waiters, asked, history>>
  BY DEF Connect
<1>3. connections' \in 0..MaxMoves BY <1>1, <1>2, Bounds DEF TypeOK
<1> QED BY <1>1, <1>2, <1>3, ClientIInv DEF TypeOK

LEMMA AskIInv ==
  ASSUME IInv, NEW type \in {"ping", "snapshot_request", "attach", "attach_other"},
         NEW seq \in Seqs, Ask(type, seq)
  PROVE  IInv'
<1>1. TypeOK BY DEF IInv
<1>2. /\ link = "open" /\ asked < MaxRequests /\ asked' = asked + 1
      /\ requests' = Append(requests, [type |-> type, id |-> asked', seq |-> seq])
      /\ waiting' = (IF type = "snapshot_request" THEN waiting ELSE waiting \cup {asked'})
      /\ waiters' = (IF type = "ping" THEN waiters ELSE waiters \cup {asked'})
      /\ UNCHANGED <<server, link, wire, cursor, connections, history>>
  BY DEF Ask, Ready
<1>3. asked' \in Ids /\ asked' \in 0..MaxRequests BY <1>1, <1>2, Bounds DEF TypeOK, Ids
<1>4. [type |-> type, id |-> asked', seq |-> seq] \in Asks BY <1>3 DEF Asks
<1>5. requests' \in Seq(Asks) BY <1>1, <1>2, <1>4, AppendProperties DEF TypeOK
<1>6. waiting' \subseteq Ids /\ waiters' \subseteq Ids BY <1>1, <1>2, <1>3 DEF TypeOK
<1> QED BY <1>1, <1>2, <1>3, <1>5, <1>6, ClientIInv DEF TypeOK

LEMMA RequestIInv == IInv /\ Request => IInv'
<1> SUFFICES ASSUME IInv, Request PROVE IInv' OBVIOUS
<1>1. 0 \in Seqs BY Bounds DEF Seqs
<1>2. LastDelivered \in Seqs BY Types DEF IInv
<1> QED BY <1>1, <1>2, AskIInv DEF Request

LEMMA TimeOutIInv ==
  ASSUME NEW id \in Ids, IInv, TimeOut(id)
  PROVE  IInv'
<1>1. TypeOK BY DEF IInv
<1>2. /\ id \in waiting \cup waiters /\ waiting' = waiting \ {id} /\ waiters' = waiters \ {id}
      /\ UNCHANGED <<server, link, requests, wire, cursor, asked, connections, history>>
  BY DEF TimeOut
<1>3. waiting' \subseteq Ids /\ waiters' \subseteq Ids BY <1>1, <1>2 DEF TypeOK
<1>4. link = "open" BY <1>1, <1>2 DEF TypeOK
<1> QED BY <1>1, <1>2, <1>3, <1>4, ClientIInv DEF TypeOK

LEMMA DisconnectIInv == IInv /\ Disconnect => IInv'
<1> SUFFICES ASSUME IInv, Disconnect PROVE IInv' OBVIOUS
<1>1. TypeOK /\ Follows BY DEF IInv, Follows
<1>2. /\ link' = "closed" /\ requests' = <<>> /\ wire' = <<>> /\ providing' = {}
      /\ full' = FALSE /\ blocked' = FALSE /\ resync' = FALSE /\ waiting' = {} /\ waiters' = {}
      /\ UNCHANGED <<sequence, cursor, asked, connections, history>>
      /\ UNCHANGED <<delivered, told, known, stale, late>>
  BY DEF Disconnect, history
<1>3. requests' \in Seq(Asks) /\ wire' \in Seq(Frames) BY <1>2, EmptySeq
<1>4. TypeOK'
  <2>1. /\ sequence' \in Seqs /\ cursor' \in Seqs /\ known' \in Seqs
        /\ told' \in BOOLEAN /\ late' \in BOOLEAN /\ stale' \in BOOLEAN /\ asked' \in 0..MaxRequests
        /\ connections' \in 0..MaxMoves /\ delivered' \in Seq(Seqs)
    BY <1>1, <1>2 DEF TypeOK
  <2> QED BY <1>2, <1>3, <2>1 DEF TypeOK
<1>5. Len(wire') = 0 BY <1>2
<1>6. PositionsGrow' BY <1>1, <1>2, <1>5 DEF Follows, PositionsGrow, LastDelivered
<1>7. WireFollows' BY <1>5 DEF WireFollows
<1>8. ClientFollows' BY <1>5 DEF ClientFollows
<1>9. ServerFollows' BY <1>2 DEF ServerFollows
<1> QED BY <1>2, <1>4, <1>6, <1>7, <1>8, <1>9 DEF IInv

\* The answer of AttachComplete, and the events it sends from a to last.
LEMMA ReplayIInv ==
  ASSUME IInv, link = "open", UNCHANGED <<sequence, link, providing, client, history>>,
         NEW c \in Frames, c.type = "complete", c.seq = sequence,
         NEW a \in Nat \ {0}, NEW last \in Seqs, a <= last, last <= sequence,
         wire' = wire \o <<c>> \o EventFrames(a, last),
         full' \in BOOLEAN, blocked' \in BOOLEAN, resync' \in BOOLEAN, blocked' => full',
         ~resync' => last = sequence, requests' \in Seq(Asks)
  PROVE  IInv'
<1>1. TypeOK /\ Follows BY DEF IInv, Follows
<1>2. UNCHANGED <<sequence, cursor, delivered, Aware>> BY DEF client, history, Aware
<1>b. PICK before \in Seq(Frames) : before = <<c>> /\ Len(before) = 1 /\ before[1] = c
  <2>1. <<c>> \in Seq(Frames) /\ Len(<<c>>) = 1 /\ <<c>>[1] = c OBVIOUS
  <2> QED BY <2>1
<1>k. PICK k \in Nat : k = last - a + 1 BY Bounds DEF Seqs
<1>3. wire \in Seq(Frames) /\ sequence \in Int /\ last \in Int /\ Len(wire) \in Nat
  BY <1>1, Types, Bounds DEF TypeOK, Seqs
<1>4. a <= last + 1 /\ wire' = wire \o before \o EventFrames(a, last) BY <1>3, <1>b
<1>5. /\ wire' \in Seq(Frames) /\ Len(wire') = Len(wire) + Len(before) + (last - a + 1)
      /\ \A i \in 1..Len(wire) : wire'[i] = wire[i]
      /\ \A i \in 1..Len(before) : wire'[Len(wire) + i] = before[i]
      /\ \A i \in 1..(last - a + 1) :
           wire'[Len(wire) + Len(before) + i] = Frame("event", 0, a + i - 1)
  BY <1>3, <1>4, SentFrames
<1>6. /\ Len(wire') = Len(wire) + 1 + k
      /\ wire'[Len(wire) + 1] = c
      /\ \A i \in 1..k : wire'[Len(wire) + 1 + i] = Frame("event", 0, a + i - 1)
  <2>1. 1 \in 1..Len(before) BY <1>b
  <2>2. wire'[Len(wire) + 1] = c BY <1>5, <1>b, <2>1
  <2> QED BY <1>5, <1>b, <1>k, <2>2
<1>7. a + k - 1 <= sequence /\ (~resync' => k = 0 \/ a + k - 1 = sequence) BY <1>3, <1>k
<1>8. Follows' BY <1>1, <1>2, <1>5, <1>6, <1>7, ReplayWritten
<1>9. TypeOK' BY <1>1, <1>5, ServerTypes DEF TypeOK
<1> QED BY <1>8, <1>9 DEF IInv, Follows

LEMMA AttachCompleteIInv == IInv /\ AttachComplete => IInv'
<1> SUFFICES ASSUME IInv, AttachComplete PROVE IInv' OBVIOUS
<1>1. TypeOK BY DEF IInv
<1>2. /\ Take("attach")
      /\ UNCHANGED <<sequence, link, providing, client, history>>
  BY DEF AttachComplete
<1>3. /\ link = "open" /\ requests' \in Seq(Asks)
      /\ Head(requests).id \in Ids /\ Head(requests).seq \in Seqs
  BY <1>1, <1>2, TakenRequest
<1>c. PICK c \in Frames : /\ c = Frame("complete", Head(requests).id, sequence)
                          /\ c.type = "complete" /\ c.seq = sequence
  BY <1>1, <1>3, FrameTypes DEF TypeOK, Answering
<1>a. PICK a \in Nat \ {0} : a = Head(requests).seq + 1 BY <1>3, Bounds DEF Seqs
<1>s. PICK filled \in BOOLEAN : (full => filled) /\ SendEvents(<<c>>, filled, FALSE, a, sequence)
  <2>1. PICK filled \in {full, TRUE} : SendEvents(<<c>>, filled, FALSE, a, sequence)
    BY <1>c, <1>a DEF AttachComplete
  <2>2. filled = full \/ filled = TRUE BY <2>1
  <2>3. CASE filled = full BY <1>1, <2>1, <2>3, Flags
  <2>4. CASE filled = TRUE BY <2>1, <2>4
  <2> QED BY <2>2, <2>3, <2>4
<1>4. sequence \in Int /\ sequence \in Seqs /\ link' = "open" /\ providing' \subseteq Ids
  BY <1>1, <1>2, <1>3, Bounds DEF TypeOK, Seqs
<1>5. CASE /\ a > sequence \/ blocked \/ FALSE
           /\ wire' = wire \o <<c>>
           /\ full' = filled /\ resync' = (FALSE \/ a <= sequence)
           /\ UNCHANGED blocked
  <2>1. wire' = Append(wire, c) BY <1>1, <1>5, AppendIsConcat DEF TypeOK
  <2>2. resync' \in BOOLEAN BY <1>5
  <2>3. full' \in BOOLEAN /\ blocked' \in BOOLEAN /\ (blocked' => full')
    BY <1>1, <1>s, <1>5, Flags DEF TypeOK
  <2>4. c.type # "event" /\ c.type # "pong" BY <1>c
  <2> QED BY <1>2, <1>3, <1>4, <1>c, <2>1, <2>2, <2>3, <2>4, WriteIInv
<1>6. CASE /\ a <= sequence /\ ~blocked /\ ~FALSE /\ ~filled
           /\ wire' = wire \o <<c>> \o EventFrames(a, sequence)
           /\ full' = FALSE /\ resync' = FALSE
           /\ UNCHANGED blocked
  <2>1. blocked' = FALSE BY <1>1, <1>6, Flags
  <2>2. sequence <= sequence BY <1>4
  <2> QED BY <1>2, <1>3, <1>4, <1>c, <1>6, <2>1, <2>2, ReplayIInv
<1>7. ASSUME NEW last \in a..sequence,
             wire' = wire \o <<c>> \o EventFrames(a, last),
             full' = TRUE, blocked' = TRUE, resync' = TRUE
      PROVE  IInv'
  <2>1. last \in Seqs /\ a <= last /\ last <= sequence BY <1>4, Bounds DEF Seqs
  <2> QED BY <1>2, <1>3, <1>c, <1>7, <2>1, ReplayIInv
<1> QED BY <1>s, <1>5, <1>6, <1>7 DEF SendEvents

\* What the client does with a frame, as far as the invariant is concerned.
LEMMA HandledFrame ==
  ASSUME IInv, Deliver, NEW h \in Frames, h = Head(wire)
  PROVE  /\ cursor' \in {cursor, h.seq} /\ known' \in {known, h.seq}
         /\ told' \in BOOLEAN /\ late' \in BOOLEAN /\ stale' \in BOOLEAN
         /\ waiting' \subseteq waiting /\ waiters' \subseteq waiters
         /\ delivered' \in Seq(Seqs)
         /\ \/ /\ h.type \notin Feed /\ Aware' = TRUE /\ UNCHANGED delivered
            \/ /\ h.type = "pong" /\ UNCHANGED <<Aware, delivered>>
            \/ /\ h.type = "event" /\ h.seq <= cursor /\ UNCHANGED <<Aware, delivered, cursor>>
            \/ /\ h.type = "event" /\ h.seq > cursor /\ cursor' = h.seq /\ Aware' = FALSE
               /\ LastDelivered' = h.seq
<1>1. TypeOK BY DEF IInv
<1>2. told \in BOOLEAN /\ late \in BOOLEAN /\ stale \in BOOLEAN /\ delivered \in Seq(Seqs)
  BY <1>1 DEF TypeOK
<1>3. h.seq \in Seqs /\ h.seq \in Int /\ cursor \in Int BY <1>1, FrameTypes, Types, Bounds DEF Seqs
<1>a. ASSUME NEW again \in BOOLEAN, Announced(h.seq, again) \/ Ignored
      PROVE  /\ known' \in {known, h.seq} /\ Aware' = TRUE /\ UNCHANGED delivered
             /\ told' \in BOOLEAN /\ late' \in BOOLEAN /\ stale' \in BOOLEAN
  BY <1>2, <1>a DEF Announced, Ignored, Aware
<1>4. CASE HandleAuthOk(h)
  <2>1. /\ h.type = "auth_ok" /\ cursor' = h.seq /\ Announced(h.seq, FALSE)
        /\ UNCHANGED <<waiting, waiters>>
    BY <1>4 DEF HandleAuthOk
  <2> QED BY <1>2, <1>a, <2>1 DEF Feed
<1>5. CASE HandleEvent(h)
  <2>1. h.type = "event" /\ UNCHANGED <<stale, waiting, waiters>> BY <1>5 DEF HandleEvent
  <2>2. CASE h.seq > cursor
    <3>1. /\ cursor' = h.seq /\ delivered' = Append(delivered, h.seq)
          /\ told' = FALSE /\ late' = FALSE /\ Aware' = FALSE /\ known' = h.seq
      BY <1>5, <2>2 DEF HandleEvent, Aware
    <3>2. /\ delivered' \in Seq(Seqs) /\ Len(delivered') = Len(delivered) + 1
          /\ delivered'[Len(delivered) + 1] = h.seq
      BY <1>2, <1>3, <3>1, AppendProperties
    <3>3. delivered' # <<>>
      <4>1. Len(delivered) \in Nat BY <1>2, LenProperties
      <4> QED BY <3>2, <4>1, EmptySeq
    <3>4. LastDelivered' = h.seq BY <3>2, <3>3 DEF LastDelivered
    <3> QED BY <1>2, <2>1, <2>2, <3>1, <3>2, <3>4
  <2>3. CASE ~(h.seq > cursor)
    <3>1. UNCHANGED <<cursor, delivered, told, late, known, Aware>>
      BY <1>5, <2>3 DEF HandleEvent, Aware
    <3>2. h.seq <= cursor BY <1>3, <2>3
    <3> QED BY <1>2, <2>1, <3>1, <3>2
  <2> QED BY <2>2, <2>3
<1>6. CASE HandleResync(h)
  <2>1. /\ h.type = "resync_required" /\ Announced(h.seq, TRUE)
        /\ UNCHANGED <<cursor, waiting, waiters>>
    BY <1>6 DEF HandleResync
  <2> QED BY <1>2, <1>a, <2>1 DEF Feed
<1>7. CASE HandleAnswer(h)
  <2>1. /\ h.type \in {"pong", "complete", "partial", "unavailable"}
        /\ cursor' \in {cursor, h.seq} /\ waiting' \subseteq waiting /\ waiters' \subseteq waiters
    <3>1. /\ h.type \in {"pong", "complete", "partial", "unavailable"}
          /\ cursor' = IF h.id \in waiting THEN h.seq ELSE cursor
          /\ waiting' = waiting \ {h.id}
          /\ waiters' \in {waiters, waiters \ {h.id}}
      BY <1>7 DEF HandleAnswer
    <3> QED BY <3>1
  <2>2. CASE h.type = "pong"
    <3>0. UNCHANGED history BY <1>7, <2>2, ZenonT(20) DEF HandleAnswer
    <3>1. UNCHANGED <<delivered, told, known, stale, late, Aware>>
      BY <3>0 DEF history, Aware
    <3> QED BY <1>2, <2>1, <2>2, <3>1
  <2>3. CASE h.type # "pong"
    <3>1. Announced(h.seq, FALSE) \/ Ignored BY <1>7, <2>3 DEF HandleAnswer
    <3>2. h.type \notin Feed BY <2>1, <2>3 DEF Feed
    <3> QED BY <1>2, <1>a, <2>1, <3>1, <3>2
  <2> QED BY <2>2, <2>3
<1>8. CASE HandleSnapshot(h)
  <2>1. /\ h.type = "snapshot" /\ cursor' \in {cursor, h.seq} /\ waiters' \subseteq waiters
        /\ Announced(h.seq, FALSE) \/ Ignored
    BY <1>8 DEF HandleSnapshot
  <2>2. waiting' = waiting BY <1>8 DEF HandleSnapshot
  <2> QED BY <1>2, <1>a, <2>1, <2>2 DEF Feed
<1> QED BY <1>4, <1>5, <1>6, <1>7, <1>8 DEF Deliver

LEMMA DeliverIInv == IInv /\ Deliver => IInv'
<1> SUFFICES ASSUME IInv, Deliver PROVE IInv' OBVIOUS
<1>1. TypeOK /\ Follows BY DEF IInv, Follows
<1>2. /\ wire # <<>> /\ wire' = Tail(wire) /\ UNCHANGED <<link, requests, asked, connections>>
      /\ UNCHANGED <<sequence, full, blocked, resync, providing>>
  BY DEF Deliver, server
<1>3. /\ wire \in Seq(Frames) /\ wire' \in Seq(Frames) /\ Head(wire) \in Frames
  BY <1>1, <1>2, TakenFrame DEF TypeOK
<1>h. PICK h \in Frames : h = Head(wire) BY <1>3
<1>4. /\ cursor' \in {cursor, h.seq} /\ known' \in {known, h.seq}
      /\ told' \in BOOLEAN /\ late' \in BOOLEAN /\ stale' \in BOOLEAN
      /\ waiting' \subseteq waiting /\ waiters' \subseteq waiters
      /\ delivered' \in Seq(Seqs)
  BY <1>h, HandledFrame
<1>5. \/ /\ h.type \notin Feed /\ Aware' = TRUE /\ UNCHANGED delivered
      \/ /\ h.type = "pong" /\ UNCHANGED <<Aware, delivered>>
      \/ /\ h.type = "event" /\ h.seq <= cursor /\ UNCHANGED <<Aware, delivered, cursor>>
      \/ /\ h.type = "event" /\ h.seq > cursor /\ cursor' = h.seq /\ Aware' = FALSE
         /\ LastDelivered' = h.seq
  BY <1>h, HandledFrame
<1>6. Follows' BY <1>1, <1>2, <1>h, <1>4, <1>5, FrameTaken
<1>7. TypeOK'
  <2>1. link = "open" BY <1>1, <1>2 DEF TypeOK
  <2>2. h.seq \in Seqs BY FrameTypes
  <2>3. /\ sequence' \in Seqs /\ cursor' \in Seqs /\ known' \in Seqs /\ link' = "open"
        /\ full' \in BOOLEAN /\ blocked' \in BOOLEAN /\ resync' \in BOOLEAN
        /\ requests' \in Seq(Asks) /\ providing' \subseteq Ids
        /\ waiting' \subseteq Ids /\ waiters' \subseteq Ids
        /\ asked' \in 0..MaxRequests /\ connections' \in 0..MaxMoves /\ (blocked' => full')
    BY <1>1, <1>2, <1>4, <2>1, <2>2 DEF TypeOK
  <2> QED BY <1>3, <1>4, <2>3 DEF TypeOK
<1> QED BY <1>2, <1>6, <1>7 DEF IInv, Follows

-----------------------------------------------------------------------------

LEMMA NextIInv == IInv /\ [Next]_vars => IInv'
<1> SUFFICES ASSUME IInv, [Next]_vars PROVE IInv' OBVIOUS
<1>1. CASE Next
  <2>1. CASE Publish BY <2>1, PublishIInv
  <2>2. CASE Authenticate BY <2>2, AuthenticateIInv
  <2>3. CASE Drain BY <2>3, DrainIInv
  <2>4. CASE Handle
    BY <2>4, PongIInv, ProvideIInv, AttachCompleteIInv, AttachSnapshotIInv DEF Handle
  <2>5. CASE Disconnect BY <2>5, DisconnectIInv
  <2>6. ASSUME NEW id \in Ids, SendSnapshot(id) PROVE IInv' BY <2>6, SendSnapshotIInv
  <2>7. ASSUME NEW id \in Ids, TimeOut(id) PROVE IInv' BY <2>7, TimeOutIInv
  <2>8. CASE Connect BY <2>8, ConnectIInv
  <2>9. CASE Request BY <2>9, RequestIInv
  <2>10. CASE Deliver BY <2>10, DeliverIInv
  <2> QED BY <1>1, <2>1, <2>2, <2>3, <2>4, <2>5, <2>6, <2>7, <2>8, <2>9, <2>10 DEF Next
<1>2. CASE UNCHANGED vars
  <2>1. UNCHANGED <<sequence, full, blocked, resync, providing, link, requests, wire,
                    cursor, waiting, waiters, asked, connections,
                    delivered, told, known, stale, late>>
    BY <1>2 DEF vars, server, client, history
  <2>2. TypeOK /\ Follows /\ (link # "open" => providing = {}) BY DEF IInv, Follows
  <2>a. Aware' = Aware BY <2>1 DEF Aware
  <2>3. Follows' BY <2>1, <2>2, <2>a, NothingWritten
  <2>4. TypeOK' BY <2>1, <2>2 DEF TypeOK
  <2> QED BY <2>1, <2>2, <2>3, <2>4 DEF IInv, Follows
<1> QED BY <1>1, <1>2

\* The inductive invariant holds in every state: the gaps between the frames on
\* the wire are those the two ends of sendEvent and attachReplay leave there.
THEOREM Invariance == Spec => []IInv
BY InitIInv, NextIInv, PTL DEF Spec

\* Frames, requests, flags and cursors keep the shapes the protocol gives them,
\* a blocked attachment has a full socket, and no frame, request or waiter of
\* the client outlives its connection.
THEOREM TypeCorrect == Spec => []TypeOK
<1>1. IInv => TypeOK BY DEF IInv
<1> QED BY <1>1, Invariance, PTL

\* Only an event newer than the cursor is given to the listeners; and unless
\* the client was told otherwise, or an answer came too late, it is the one after the last.
LEMMA DeliversNext ==
  IInv /\ [Next]_vars =>
    (delivered' # delivered =>
       /\ LastDelivered' > LastDelivered
       /\ told \/ late \/ LastDelivered' = LastDelivered + 1)
<1> SUFFICES ASSUME IInv, [Next]_vars, delivered' # delivered
             PROVE  /\ LastDelivered' > LastDelivered
                    /\ told \/ late \/ LastDelivered' = LastDelivered + 1
  OBVIOUS
<1>1. TypeOK /\ LastDelivered <= cursor /\ ClientFollows BY DEF IInv, PositionsGrow
<1>2. Deliver
  <2>1. Next BY DEF vars, history
  <2>2. ~Publish /\ ~Authenticate /\ ~Drain BY DEF Publish, Authenticate, Drain, history
  <2>3. ~Handle
    BY DEF Handle, Pong, Provide, AttachComplete, AttachSnapshot, history
  <2>4. ~Disconnect /\ ~Connect BY DEF Disconnect, Connect, history
  <2>5. \A id \in Ids : ~SendSnapshot(id) /\ ~TimeOut(id) BY DEF SendSnapshot, TimeOut, history
  <2>6. ~Request BY DEF Request, Ask, history
  <2> QED BY <2>1, <2>2, <2>3, <2>4, <2>5, <2>6 DEF Next
<1>3. /\ wire # <<>> /\ Head(wire) \in Frames /\ Head(wire) = wire[1]
      /\ Len(wire) \in Nat /\ Len(wire) >= 1
  BY <1>1, <1>2, TakenFrame DEF Deliver, TypeOK
<1>h. PICK h \in Frames : h = Head(wire) BY <1>3
<1>4. h.type = "event" /\ h.seq > cursor /\ LastDelivered' = h.seq
  BY <1>2, <1>h, HandledFrame
<1>5. cursor \in Int /\ LastDelivered \in Int /\ h.seq \in Int
  BY <1>1, Types, FrameTypes, Bounds DEF Seqs
<1>6. LastDelivered' > LastDelivered BY <1>1, <1>4, <1>5
<1>7. Aware \/ h.seq = LastDelivered + 1
  <2>1. Pongs(1, 1 - 1) BY DEF Pongs
  <2>2. 1 \in 1..Len(wire) /\ wire[1].type = "event" /\ wire[1].seq = h.seq BY <1>3, <1>h, <1>4
  <2> QED BY <1>1, <2>1, <2>2 DEF ClientFollows
<1> QED BY <1>4, <1>6, <1>7 DEF Aware

\* The feed of a client is in order and without an event twice, however
\* back-pressure, replays, late answers and reconnections interleave, and for all
\* sizes of the replay ring.  An event is missing only behind something that told
\* the client, or behind an answer that came after its request had timed out.
THEOREM FeedIsOrderedHolds == Spec => FeedIsOrdered
BY Invariance, DeliversNext, PTL DEF Spec, FeedIsOrdered
=============================================================================
