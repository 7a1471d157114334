---------------------------- MODULE WorkerStream ----------------------------
(***************************************************************************)
(* The event stream of a detached worker: WorkerProtocolServer and one     *)
(* WorkerProtocolClient over a socket that keeps order, that fills up and  *)
(* drains, and that may break and be opened again.  The worker does not    *)
(* restart here: a new one has a new token, so its clients are new ones.   *)
(*                                                                         *)
(* The frames of a snapshot are written without an await between them, so  *)
(* a complete one is a single frame here; of one that stopped half-way the *)
(* client notices nothing before its timeout, so it is none.  An event is  *)
(* its sequence number.                                                    *)
(***************************************************************************)
EXTENDS Integers, Sequences

CONSTANTS MaxEvents,       \* bound on the events published
          ReplayCapacity,  \* events the ring keeps
          MaxRequests,     \* bound on the requests of the client
          MaxMoves         \* bound on its requests and connections together

ASSUME BoundsAssumption ==
    /\ {MaxEvents, MaxRequests, MaxMoves} \subseteq Nat
    /\ ReplayCapacity \in Nat \ {0}

VARIABLES sequence,    \* WorkerProtocolServer.sequence
          link,        \* phase of the connection
          full,        \* socket.write returned false and "drain" is due
          blocked,     \* Attachment.blocked
          resync,      \* Attachment.requiresResync
          requests,    \* frames on their way to the worker
          providing,   \* requests whose snapshotProvider is awaited
          wire,        \* frames on their way to the client
          cursor,      \* WorkerProtocolClient.currentCursor.sequence
          waiting,     \* pending
          waiters,     \* snapshotWaiters
          asked,       \* requests made so far, the last one's id
          connections, \* connections opened so far
          delivered,   \* history: events given to the listeners
          told,        \* history: a cursor came since the last of them
          known,       \* history: the newest event an announcement covered
          stale,       \* history: told to resync, not answered since
          late         \* history: an answer came too late to be one, and since
                       \* then neither an event nor an announcement

server == <<sequence, full, blocked, resync, providing>>
client == <<cursor, waiting, waiters, asked, connections>>
history == <<delivered, told, known, stale, late>>
vars == <<server, link, requests, wire, client, history>>

Ids == 1..MaxRequests
Seqs == 0..MaxEvents
Frames == [type : {"auth_ok", "event", "resync_required"}, id : {0}, seq : Seqs]
          \cup [type : {"pong", "complete", "partial", "unavailable", "snapshot"},
                id : Ids, seq : Seqs]
Asks == [type : {"ping", "snapshot_request", "attach", "attach_other"}, id : Ids, seq : Seqs]

\* Frames, requests, flags and cursors have the shapes the protocol gives them;
\* an attachment is blocked only until its socket drains, and nothing of a
\* connection outlives it.
TypeOK ==
    /\ sequence \in Seqs /\ cursor \in Seqs /\ known \in Seqs
    /\ link \in {"closed", "connected", "open"}
    /\ {full, blocked, resync, told, stale, late} \subseteq BOOLEAN
    /\ requests \in Seq(Asks) /\ wire \in Seq(Frames)
    /\ providing \subseteq Ids /\ waiting \subseteq Ids /\ waiters \subseteq Ids
    /\ asked \in 0..MaxRequests /\ connections \in 0..MaxMoves
    /\ delivered \in Seq(Seqs)
    /\ blocked => full
    /\ link # "open" => /\ wire = <<>> /\ requests = <<>> /\ ~full /\ ~resync
                        /\ waiting = {} /\ waiters = {}

Init ==
    /\ sequence = 0 /\ link = "closed"
    /\ full = FALSE /\ blocked = FALSE /\ resync = FALSE
    /\ requests = <<>> /\ providing = {} /\ wire = <<>>
    /\ cursor = 0 /\ waiting = {} /\ waiters = {} /\ asked = 0 /\ connections = 0
    /\ delivered = <<>> /\ told = FALSE /\ known = 0 /\ stale = FALSE /\ late = FALSE

-----------------------------------------------------------------------------
(* Writing to the socket *)

Frame(type, id, seq) == [type |-> type, id |-> id, seq |-> seq]

\* A frame is taken in any case; write says false while the buffer is full.
Write(frame) == /\ wire' = Append(wire, frame)
                /\ full' \in {full, TRUE}

\* Frames of the events from a to b.
EventFrames(a, b) == [i \in 1..(b - a + 1) |-> Frame("event", 0, a + i - 1)]

\* sendEvent for the events a..b in turn, after the frames before it: the first
\* one the buffer does not take blocks the attachment, the others are skipped.
SendEvents(before, filled, marked, a, b) ==
    \/ /\ a > b \/ blocked \/ marked
       /\ wire' = wire \o before
       /\ full' = filled /\ resync' = (marked \/ a <= b)
       /\ UNCHANGED blocked
    \/ /\ a <= b /\ ~blocked /\ ~marked /\ ~filled
       /\ wire' = wire \o before \o EventFrames(a, b)
       /\ full' = FALSE /\ resync' = FALSE
       /\ UNCHANGED blocked
    \/ \E last \in a..b :
         /\ ~blocked /\ ~marked
         /\ filled => last = a
         /\ wire' = wire \o before \o EventFrames(a, last)
         /\ full' = TRUE /\ blocked' = TRUE /\ resync' = TRUE

-----------------------------------------------------------------------------
(* The worker *)

Publish ==
    /\ sequence < MaxEvents
    /\ sequence' = sequence + 1
    /\ IF link = "open"
       THEN SendEvents(<<>>, full, resync, sequence + 1, sequence + 1)
       ELSE UNCHANGED <<wire, full, blocked, resync>>
    /\ UNCHANGED <<link, requests, providing, client, history>>

Authenticate ==
    /\ link = "connected"
    /\ link' = "open"
    /\ Write(Frame("auth_ok", 0, sequence))
    /\ UNCHANGED <<sequence, blocked, resync, requests, providing, client, history>>

\* Mutant: the attachment takes events again before it was attached anew.
DrainClearing ==
    /\ full
    /\ blocked' = FALSE /\ resync' = FALSE
    /\ full' = FALSE
    /\ UNCHANGED <<sequence, link, requests, providing, wire, client, history>>

\* Mutant: what was skipped is not announced.
DrainSilently ==
    /\ full
    /\ blocked' = FALSE
    /\ full' = FALSE
    /\ UNCHANGED <<sequence, resync, link, requests, providing, wire, client, history>>

\* The buffer is empty now: one short frame does not fill it again.
Drain ==
    /\ full
    /\ blocked' = FALSE /\ full' = FALSE
    /\ wire' = IF resync THEN Append(wire, Frame("resync_required", 0, sequence)) ELSE wire
    /\ UNCHANGED <<sequence, resync, link, requests, providing, client, history>>

\* handle: the frames of one connection are taken in order.
Take(type) == /\ link = "open" /\ requests # <<>> /\ Head(requests).type = type
              /\ requests' = Tail(requests)

Pong ==
    /\ Take("ping")
    /\ Write(Frame("pong", Head(requests).id, sequence))
    /\ UNCHANGED <<sequence, blocked, resync, link, providing, client, history>>

Provide ==
    /\ Take("snapshot_request")
    /\ providing' = providing \cup {Head(requests).id}
    /\ UNCHANGED <<sequence, full, blocked, resync, link, wire, client, history>>

Oldest == IF sequence > ReplayCapacity THEN sequence - ReplayCapacity + 1 ELSE 1

\* attachReplay, when the ring has all events after the cursor.
AttachComplete ==
    /\ Take("attach")
    /\ LET r == Head(requests) IN
         /\ r.seq >= Oldest - 1
         /\ \E filled \in {full, TRUE} :
              SendEvents(<<Frame("complete", r.id, sequence)>>, filled, FALSE,
                         r.seq + 1, sequence)
    /\ UNCHANGED <<sequence, link, providing, client, history>>

\* attachReplay, otherwise: another generation, or older than the ring.
AttachSnapshot ==
    /\ \/ Take("attach") /\ Head(requests).seq < Oldest - 1
       \/ Take("attach_other")
    /\ LET r == Head(requests) IN
         /\ Write(Frame(IF r.type = "attach" THEN "partial" ELSE "unavailable", r.id, sequence))
         /\ providing' = providing \cup {r.id}
    /\ resync' = FALSE
    /\ UNCHANGED <<sequence, blocked, link, client, history>>

\* sendSnapshot after its await: begin, chunks and end, or the chunk that was
\* one too many.  The end is written whatever write says of it.
SendSnapshot(id) ==
    /\ id \in providing
    /\ providing' = providing \ {id}
    /\ \/ /\ ~full
          /\ Write(Frame("snapshot", id, sequence))
          /\ resync' = FALSE
       \/ full' = TRUE /\ resync' = TRUE /\ UNCHANGED wire
    /\ UNCHANGED <<sequence, blocked, link, requests, client, history>>

-----------------------------------------------------------------------------
(* The client *)

Connect ==
    /\ link = "closed" /\ connections + asked < MaxMoves
    /\ link' = "connected"
    /\ connections' = connections + 1
    /\ UNCHANGED <<server, requests, wire, cursor, waiting, waiters, asked, history>>

\* Every request awaits connect(), which ends with auth_ok.
Ready == link = "open" /\ (wire # <<>> => Head(wire).type # "auth_ok")

Ask(type, seq) ==
    /\ Ready /\ asked < MaxRequests /\ connections + asked < MaxMoves
    /\ asked' = asked + 1
    /\ requests' = Append(requests, [type |-> type, id |-> asked', seq |-> seq])
    /\ waiting' = IF type = "snapshot_request" THEN waiting ELSE waiting \cup {asked'}
    /\ waiters' = IF type = "ping" THEN waiters ELSE waiters \cup {asked'}
    /\ UNCHANGED <<server, link, wire, cursor, connections, history>>

LastDelivered == IF delivered = <<>> THEN 0 ELSE delivered[Len(delivered)]

\* A viewer goes on from the last event it saw, or starts without a cursor.
Request == \/ Ask("ping", 0) \/ Ask("snapshot_request", 0)
           \/ Ask("attach", LastDelivered) \/ Ask("attach_other", 0)

TimeOut(id) ==
    /\ id \in waiting \cup waiters
    /\ waiting' = waiting \ {id} /\ waiters' = waiters \ {id}
    /\ UNCHANGED <<server, link, requests, wire, cursor, asked, connections, history>>

\* Something that carries the worker's position reached the client.
Announced(seq, again) == /\ told' = TRUE /\ known' = seq /\ stale' = again /\ late' = FALSE
                         /\ UNCHANGED delivered

\* It answers what nobody waits for any more: the client drops it, and nobody
\* is told.
Ignored == late' = TRUE /\ UNCHANGED <<delivered, told, known, stale>>

HandleAuthOk(f) == /\ f.type = "auth_ok"
                   /\ cursor' = f.seq
                   /\ Announced(f.seq, FALSE)
                   /\ UNCHANGED <<waiting, waiters>>

HandleEvent(f) ==
    /\ f.type = "event"
    /\ IF f.seq > cursor
       THEN /\ cursor' = f.seq
            /\ delivered' = Append(delivered, f.seq)
            /\ told' = FALSE /\ known' = f.seq /\ late' = FALSE
       ELSE UNCHANGED <<cursor, delivered, told, known, late>>
    /\ UNCHANGED <<stale, waiting, waiters>>

HandleResync(f) == /\ f.type = "resync_required"
                   /\ Announced(f.seq, TRUE)
                   /\ UNCHANGED <<cursor, waiting, waiters>>

\* A pong carries no position for the viewer, only for the cursor.
HandleAnswer(f) ==
    /\ f.type \in {"pong", "complete", "partial", "unavailable"}
    /\ cursor' = IF f.id \in waiting THEN f.seq ELSE cursor
    /\ waiting' = waiting \ {f.id}
    /\ waiters' = IF f.type = "complete" /\ f.id \in waiting THEN waiters \ {f.id} ELSE waiters
    /\ \/ f.type = "pong" /\ UNCHANGED history
       \/ f.type # "pong" /\ f.id \in waiting /\ Announced(f.seq, FALSE)
       \/ f.type # "pong" /\ f.id \notin waiting /\ Ignored

HandleSnapshot(f) == /\ f.type = "snapshot"
                     /\ cursor' = IF f.id \in waiters THEN f.seq ELSE cursor
                     /\ waiters' = waiters \ {f.id}
                     /\ IF f.id \in waiters THEN Announced(f.seq, FALSE) ELSE Ignored
                     /\ UNCHANGED waiting

Deliver ==
    /\ wire # <<>>
    /\ wire' = Tail(wire)
    /\ LET f == Head(wire) IN HandleAuthOk(f) \/ HandleEvent(f) \/ HandleResync(f)
                              \/ HandleAnswer(f) \/ HandleSnapshot(f)
    /\ UNCHANGED <<server, link, requests, asked, connections>>

-----------------------------------------------------------------------------

\* Mutant: the client does not fail what it waits for.
DisconnectKeeping ==
    /\ link # "closed"
    /\ link' = "closed"
    /\ requests' = <<>> /\ wire' = <<>> /\ providing' = {}
    /\ full' = FALSE /\ blocked' = FALSE /\ resync' = FALSE
    /\ UNCHANGED <<sequence, client, history>>

\* The connection ends: what is under way is lost, the attachment is deleted,
\* and the client fails all it waits for.
Disconnect ==
    /\ link # "closed"
    /\ link' = "closed"
    /\ requests' = <<>> /\ wire' = <<>> /\ providing' = {}
    /\ full' = FALSE /\ blocked' = FALSE /\ resync' = FALSE
    /\ waiting' = {} /\ waiters' = {}
    /\ UNCHANGED <<sequence, cursor, asked, connections, history>>

Handle == Pong \/ Provide \/ AttachComplete \/ AttachSnapshot

Next == \/ Publish \/ Authenticate \/ Drain \/ Handle \/ Disconnect
        \/ \E id \in Ids : SendSnapshot(id) \/ TimeOut(id)
        \/ Connect \/ Request \/ Deliver

Spec == Init /\ [][Next]_vars

\* Sockets carry what is written and drain, and handlers run; nobody has to
\* ask, to publish or to connect.
Fairness == /\ WF_vars(Authenticate) /\ WF_vars(Drain) /\ WF_vars(Handle) /\ WF_vars(Deliver)
            /\ \A id \in Ids : WF_vars(SendSnapshot(id))

FairSpec == Spec /\ Fairness

-----------------------------------------------------------------------------
(* Properties *)

\* The listeners of a client see the worker's events in order and none twice,
\* through replays, snapshots, reconnections and late answers.  None is skipped
\* unless, since the one before it, the client was told (its connection opened,
\* or it took a resync_required, the answer to an attach or a snapshot), or such
\* an answer came after its request had timed out: the attach had cleared
\* requiresResync for an answer that is dropped.
FeedIsOrdered ==
    [][delivered' # delivered =>
          /\ LastDelivered' > LastDelivered
          /\ told \/ late \/ LastDelivered' = LastDelivered + 1]_vars

\* Whenever publishing pauses, a connected client has seen the last event, or
\* was told of it, or knows it has to resynchronise; the exception is the same:
\* the last it heard is an answer that came after its request had timed out.
CatchesUp == []<>(known = sequence \/ stale \/ late \/ link # "open")
=============================================================================
