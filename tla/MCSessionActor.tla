--------------------------- MODULE MCSessionActor ---------------------------
(* Model checking of SessionActor. *)
EXTENDS SessionActor, SequencesExt

\* Requests differ in their kinds only, so one order of the kinds is enough.
Rank == [prompt |-> 1, update |-> 2, pause |-> 3, resume |-> 4, close |-> 5]

MCInit ==
    /\ Init
    /\ LET line == SetToSeq(Requests) IN
         \A i, j \in 1..Len(line) :
             i <= j => Rank[request[line[i]].kind] <= Rank[request[line[j]].kind]

\* Any requests, those that race included.
RacingSpec == MCInit /\ [][Next]_vars /\ Fairness

\* What the files promise is promised until a request races: the run ends there.
\* Fairness asks for no step that this leaves out, since only new requests race.
MCSpec == MCInit /\ [][Next /\ ~raced']_vars /\ Fairness
=============================================================================
