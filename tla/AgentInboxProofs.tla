-------------------------- MODULE AgentInboxProofs --------------------------
(***************************************************************************)
(* Proofs about AgentInbox for every set of messages, every limit of the   *)
(* inbox and every iteration ceiling, with crashes and I/O errors.         *)
(*                                                                         *)
(* A message can enter the context in two ways, by the drain and by        *)
(* steering.  The invariant says who has it: nobody while it can still be  *)
(* claimed, then the drain or the turn, until it is in the context.        *)
(***************************************************************************)
EXTENDS AgentInbox, TLAPS

\* Nobody has had the message yet: a claim of it cannot replay it.
Fresh(m) == state[m] \in {None, "pending"}

\* A message is enqueued once, by the call that sends it.
SentOnce == \A m \in Messages : send[m] # "sent" => state[m] = None

\* What the context holds: a message at most once, the stored snapshot nothing
\* else; none that can be claimed; and one that is delivered is stored.
ContextInv ==
    \A m \in Messages : /\ durable[m] <= context[m] /\ context[m] <= 1
                        /\ Fresh(m) => context[m] = 0
                        /\ state[m] = "delivered" => durable[m] = 1

\* The drain has its message from the claim to the end of the dispatch, and
\* nobody else has it; the turn of the dispatch has it in its context.
DrainInv ==
    /\ drain.phase \in {"deliver", "dispatched", "settle", "thrown"} =>
         drain.message \in Messages /\ ~Fresh(drain.message)
    /\ drain.phase = "deliver" => /\ context[drain.message] = 0
                                  /\ drain.message \notin turn.claimed
    /\ drain.phase = "dispatched" => context[drain.message] = 1
    /\ drain.phase = "dispatched" <=> turn.kind = "message"

\* The turn has the messages it claimed, outside its context or in it.  What it
\* confirms is stored, and it asks its model below the ceiling only.
TurnInv ==
    /\ turn.phase = "confirm" => turn.kind = "message"
    /\ \A m \in turn.claimed : /\ ~Fresh(m)
                               /\ turn.phase \in {"claim", "append"} => context[m] = 0
                               /\ turn.phase \in {"save", "mark"} => context[m] = 1
    /\ turn.phase \in {None, "persist", "confirm", "model", "leaving", "ending"}
         => turn.claimed = {}
    /\ turn.phase \in {"confirm", "mark"} => durable = context
    /\ turn.phase \in {"persist", "confirm", "claim", "append", "save", "mark", "model"}
         => turn.last \/ turn.iteration < MaxIterations
    /\ turn.phase = "model" => ~turn.last

IInv == TypeOK /\ SentOnce /\ ContextInv /\ DrainInv /\ TurnInv

-----------------------------------------------------------------------------
(* What the operations of the store do to the states of the messages *)

TurnType == [kind : {None, "user", "message"},
             phase : {None, "persist", "confirm", "claim", "append",
                      "save", "mark", "model", "failing", "leaving", "ending"},
             iteration : 0..MaxIterations, last : BOOLEAN, claimed : SUBSET Messages]

DrainType == [phase : {"off", "check", "claim", "deliver", "dispatched", "settle", "thrown"},
              message : Messages \cup {None}, accepted : BOOLEAN]

\* No message that somebody had can be claimed again, none is forgotten and
\* none appears.
Onward == \A m \in Messages : /\ state'[m] = "pending" => state[m] = "pending"
                              /\ state'[m] = None <=> state[m] = None

Undelivered == \A m \in Messages : state'[m] = "delivered" => state[m] = "delivered"

\* What OutcomeIsFinal says of one step.
Final == \A m \in Messages : state[m] \in {"delivered", "uncertain"} => state'[m] = state[m]

LEMMA Recovering ==
  ASSUME TypeOK, state' = Recovered
  PROVE  state' \in [Messages -> States] /\ Onward /\ Undelivered /\ Final
<1>1. state \in [Messages -> States] BY DEF TypeOK
<1>2. \A m \in Messages :
        state'[m] = IF state[m] = "claimed" /\ m \in stale THEN "uncertain" ELSE state[m]
  BY DEF Recovered
<1>3. state' \in [Messages -> States] BY <1>1 DEF Recovered, States
<1> QED BY <1>2, <1>3 DEF Onward, Undelivered, Final, None

LEMMA Staying ==
  ASSUME TypeOK, UNCHANGED state
  PROVE  state' \in [Messages -> States] /\ Onward /\ Undelivered /\ Final
BY DEF TypeOK, Onward, Undelivered, Final

\* The message that is claimed was fresh, and is not afterwards.
LEMMA Claiming ==
  ASSUME TypeOK, NEW m, NEW modes, ClaimNext(m, modes)
  PROVE  /\ m \in Messages /\ state[m] = "pending" /\ state'[m] = "claimed"
         /\ state' \in [Messages -> States] /\ Onward /\ Undelivered /\ Final
         /\ mine' \in [Messages -> BOOLEAN] /\ stale' = {}
         /\ UNCHANGED <<send, mode, order>>
<1>1. m \in Messages /\ state[m] = "pending" BY DEF ClaimNext, IsNext, Pending
<1>2. /\ state' = [Recovered EXCEPT ![m] = "claimed"] /\ mine' = [mine EXCEPT ![m] = TRUE]
      /\ stale' = {} /\ UNCHANGED <<send, mode, order>>
  BY DEF ClaimNext
<1>3. state \in [Messages -> States] /\ mine \in [Messages -> BOOLEAN] BY DEF TypeOK
<1>4. Recovered \in [Messages -> States] BY <1>3 DEF Recovered, States
<1>5. \A x \in Messages :
        Recovered[x] = IF state[x] = "claimed" /\ x \in stale THEN "uncertain" ELSE state[x]
  BY DEF Recovered
<1>6. state' \in [Messages -> States] BY <1>2, <1>4 DEF States
<1>7. \A x \in Messages : state'[x] = IF x = m THEN "claimed" ELSE Recovered[x]
  BY <1>1, <1>2, <1>4
<1>8. mine' \in [Messages -> BOOLEAN] BY <1>2, <1>3
<1> QED BY <1>1, <1>2, <1>5, <1>6, <1>7, <1>8 DEF Onward, Undelivered, Final, None

\* A claim is settled by its owner only.
LEMMA Settling ==
  ASSUME TypeOK, NEW ms, NEW outcome \in {"delivered", "uncertain"}, Settle(ms, outcome)
  PROVE  /\ state' \in [Messages -> States] /\ Onward /\ Final
         /\ outcome = "uncertain" => Undelivered
         /\ \A m \in Messages : state'[m] = "delivered" =>
              state[m] = "delivered" \/ (m \in ms /\ ~Fresh(m))
         /\ stale' \subseteq Messages /\ UNCHANGED <<send, mode, mine, order>>
<1>1. state \in [Messages -> States] /\ stale \subseteq Messages BY DEF TypeOK
<1>2. /\ state' = [m \in Messages |-> IF m \in ms /\ OwnClaim(m) THEN outcome ELSE state[m]]
      /\ stale' \subseteq stale /\ UNCHANGED <<send, mode, mine, order>>
  BY DEF Settle
<1>3. \A m \in Messages : OwnClaim(m) => state[m] = "claimed" BY DEF OwnClaim
<1>4. state' \in [Messages -> States] BY <1>1, <1>2 DEF States
<1>5. \A m \in Messages : state'[m] = IF m \in ms /\ OwnClaim(m) THEN outcome ELSE state[m]
  BY <1>2
<1> QED BY <1>1, <1>2, <1>3, <1>4, <1>5 DEF Onward, Undelivered, Final, Fresh, None

-----------------------------------------------------------------------------
(* The parts of the invariant that a step may leave alone *)

LEMMA SentKept ==
  ASSUME SentOnce, UNCHANGED send, Onward
  PROVE  SentOnce'
BY DEF SentOnce, Onward

LEMMA ContextKept ==
  ASSUME ContextInv, UNCHANGED <<context, durable>>, Onward, Undelivered
  PROVE  ContextInv'
BY DEF ContextInv, Onward, Undelivered, Fresh

\* Storing the context keeps what it holds; nothing is delivered by it.
LEMMA ContextStored ==
  ASSUME TypeOK, ContextInv, durable' \in {durable, context}, UNCHANGED context,
         Onward, Undelivered
  PROVE  ContextInv' /\ durable' \in [Messages -> Nat]
<1>1. context \in [Messages -> Nat] /\ durable \in [Messages -> Nat] BY DEF TypeOK
<1>2. CASE durable' = durable BY <1>1, <1>2, ContextKept
<1>3. CASE durable' = context
  <2>1. \A m \in Messages : Fresh(m)' => Fresh(m) BY DEF Onward, Fresh
  <2> SUFFICES ASSUME NEW m \in Messages
               PROVE  /\ context[m] <= context[m] /\ context[m] <= 1
                      /\ Fresh(m)' => context[m] = 0
                      /\ state'[m] = "delivered" => context[m] = 1
    BY <1>1, <1>3 DEF ContextInv, Fresh
  <2>2. /\ durable[m] <= context[m] /\ context[m] <= 1
        /\ Fresh(m) => context[m] = 0
        /\ state[m] = "delivered" => durable[m] = 1
    BY DEF ContextInv
  <2> QED BY <1>1, <2>1, <2>2 DEF Undelivered
<1> QED BY <1>2, <1>3

LEMMA DrainKept ==
  ASSUME DrainInv, UNCHANGED <<drain, context>>, Onward,
         turn'.kind = turn.kind, turn'.claimed \subseteq turn.claimed
  PROVE  DrainInv'
BY DEF DrainInv, Onward, Fresh

LEMMA TurnKept ==
  ASSUME TurnInv, UNCHANGED <<turn, context, durable>>, Onward, TypeOK
  PROVE  TurnInv'
BY DEF TurnInv, Onward, Fresh, TypeOK

-----------------------------------------------------------------------------
(* Every action keeps the invariant *)

LEMMA InitIInv == Init => IInv
<1> SUFFICES ASSUME Init PROVE IInv OBVIOUS
<1>1. TypeOK
  <2>1. /\ send \in [Messages -> {"new", "checked", "sent", "refused"}]
        /\ state \in [Messages -> States] /\ mode \in [Messages -> {"steer", "follow_up"}]
        /\ mine \in [Messages -> BOOLEAN] /\ context \in [Messages -> Nat]
        /\ durable \in [Messages -> Nat]
    BY DEF Init, States
  <2>2. turn \in TurnType BY LimitsAssumption DEF Init, NoTurn, TurnType
  <2>3. drain \in DrainType BY DEF Init, DrainIdle, DrainType
  <2>4. order \in Seq(Messages) BY DEF Init
  <2> QED BY <2>1, <2>2, <2>3, <2>4 DEF TypeOK, Init, TurnType, DrainType
<1>2. SentOnce BY DEF SentOnce, Init
<1>3. ContextInv BY DEF ContextInv, Init, None
<1>4. DrainInv BY DEF DrainInv, Init, DrainIdle, NoTurn, None
<1>5. TurnInv BY DEF TurnInv, Init, NoTurn, None
<1> QED BY <1>1, <1>2, <1>3, <1>4, <1>5 DEF IInv

\* The steps of the store and its observers.
LEMMA StoreIInv ==
  ASSUME IInv, UNCHANGED <<mode, mine, order, target, wake, drain, cold>>,
         send' \in [Messages -> {"new", "checked", "sent", "refused"}],
         \A m \in Messages : send[m] = "sent" => send'[m] = "sent",
         state' \in [Messages -> States], stale' \subseteq Messages, Onward, Undelivered
  PROVE  IInv'
<1>1. UNCHANGED <<status, turn, context, durable>> BY DEF target
<1>2. TypeOK' BY <1>1 DEF IInv, TypeOK
<1>3. SentOnce' BY DEF IInv, SentOnce, Onward
<1> QED BY <1>1, <1>2, <1>3, ContextKept, DrainKept, TurnKept DEF IInv, TypeOK

LEMMA AgeIInv ==
  ASSUME NEW m \in Messages, IInv, Age(m)
  PROVE  IInv'
<1>1. TypeOK BY DEF IInv
<1>2. UNCHANGED <<send, state, mode, mine, order, target, wake, drain, cold>> BY DEF Age
<1>3. stale' \subseteq Messages BY <1>1 DEF Age, TypeOK
<1> QED BY <1>1, <1>2, <1>3, Staying, StoreIInv DEF TypeOK

LEMMA ListIInv == IInv /\ List => IInv'
<1> SUFFICES ASSUME IInv, List PROVE IInv' OBVIOUS
<1>1. TypeOK BY DEF IInv
<1>2. /\ state' = Recovered /\ stale' = {}
      /\ UNCHANGED <<send, mode, mine, order, target, wake, drain, cold>>
  BY DEF List
<1> QED BY <1>1, <1>2, Recovering, StoreIInv DEF TypeOK

LEMMA CheckLimitIInv ==
  ASSUME NEW m \in Messages, IInv, CheckLimit(m)
  PROVE  IInv'
<1>1. TypeOK BY DEF IInv
<1>2. /\ state' = Recovered /\ stale' = {}
      /\ UNCHANGED <<mode, mine, order, target, wake, drain, cold>>
  BY DEF CheckLimit
<1>t. PICK t \in {"refused", "checked"} : send' = [send EXCEPT ![m] = t] BY DEF CheckLimit
<1>3. send' \in [Messages -> {"new", "checked", "sent", "refused"}] BY <1>1, <1>t DEF TypeOK
<1>4. \A x \in Messages : send[x] = "sent" => send'[x] = "sent"
  BY <1>1, <1>t DEF TypeOK, CheckLimit
<1> QED BY <1>1, <1>2, <1>3, <1>4, Recovering, StoreIInv

LEMMA EnqueueIInv ==
  ASSUME NEW m \in Messages, NEW effectiveMode \in {"steer", "follow_up"}, IInv,
         Enqueue(m, effectiveMode)
  PROVE  IInv'
<1>1. TypeOK BY DEF IInv
<1>2. /\ send[m] = "checked" /\ send' = [send EXCEPT ![m] = "sent"]
      /\ state' = [Recovered EXCEPT ![m] = "pending"] /\ stale' = {}
      /\ mode' = [mode EXCEPT ![m] = effectiveMode] /\ order' = Append(order, m)
      /\ wake' = TRUE
      /\ UNCHANGED <<mine, target, drain, cold>>
  BY DEF Enqueue
<1>3. UNCHANGED <<status, turn, context, durable>> BY <1>2 DEF target
<1>4. state[m] = None BY <1>2 DEF IInv, SentOnce
<1>5. Recovered \in [Messages -> States] BY <1>1 DEF Recovered, States, TypeOK
<1>6. \A x \in Messages : state'[x] = IF x = m THEN "pending"
        ELSE IF state[x] = "claimed" /\ x \in stale THEN "uncertain" ELSE state[x]
  BY <1>2, <1>5 DEF Recovered
<1>7. /\ \A x \in Messages : Fresh(x)' => Fresh(x)
      /\ \A x \in Messages : state'[x] = "delivered" => state[x] = "delivered"
  BY <1>4, <1>6 DEF Fresh, None
<1>8. TypeOK'
  <2>1. send' \in [Messages -> {"new", "checked", "sent", "refused"}] BY <1>1, <1>2 DEF TypeOK
  <2>2. state' \in [Messages -> States] BY <1>2, <1>5 DEF States
  <2>3. mode' \in [Messages -> {"steer", "follow_up"}] BY <1>1, <1>2 DEF TypeOK
  <2>4. order' \in Seq(Messages) BY <1>1, <1>2 DEF TypeOK
  <2> QED BY <1>1, <1>2, <1>3, <2>1, <2>2, <2>3, <2>4 DEF TypeOK
<1>9. SentOnce' BY <1>1, <1>2, <1>6 DEF IInv, SentOnce, TypeOK, None
<1>10. ContextInv' BY <1>3, <1>7 DEF IInv, ContextInv
<1>11. DrainInv' BY <1>2, <1>3, <1>7 DEF IInv, DrainInv
<1>12. TurnInv' BY <1>1, <1>3, <1>7 DEF IInv, TurnInv, TypeOK
<1> QED BY <1>8, <1>9, <1>10, <1>11, <1>12 DEF IInv

LEMMA DrainWakeIInv == IInv /\ DrainWake => IInv'
<1> SUFFICES ASSUME IInv, DrainWake PROVE IInv' OBVIOUS
<1>1. TypeOK BY DEF IInv
<1>2. UNCHANGED <<send, state, mode, mine, stale, order, status, turn, context, durable>>
  BY DEF DrainWake, inbox, target
<1>3. Onward /\ Undelivered BY <1>1, <1>2, Staying
<1>4. \/ drain' = drain
      \/ drain.phase = "off" /\ drain' = [DrainIdle EXCEPT !.phase = "check"]
  BY DEF DrainWake
<1>5. TypeOK'
  <2>1. drain' \in DrainType BY <1>1, <1>4 DEF TypeOK, DrainType, DrainIdle
  <2> QED BY <1>1, <1>2, <2>1 DEF TypeOK, DrainWake, DrainType
<1>6. DrainInv'
  <2>1. CASE drain' = drain BY <1>2, <1>3, <2>1, DrainKept DEF IInv
  <2>2. CASE drain.phase = "off" /\ drain'.phase = "check"
    BY <1>2, <2>2 DEF IInv, DrainInv
  <2> QED BY <1>4, <2>1, <2>2 DEF DrainIdle
<1> QED BY <1>1, <1>2, <1>3, <1>5, <1>6, SentKept, ContextKept, TurnKept DEF IInv

\* The steps of the drain outside the turn of its message, which it may keep.
LEMMA DrainingIInv ==
  ASSUME IInv, UNCHANGED <<send, mode, mine, order, status, turn, context, durable>>,
         state' \in [Messages -> States], stale' \subseteq Messages, Onward, Undelivered,
         drain.phase # "dispatched", drain' \in DrainType,
         \/ drain'.phase \in {"off", "check", "claim"}
         \/ /\ drain'.phase \in {"settle", "thrown"} /\ drain'.message = drain.message
            /\ drain.phase \in {"deliver", "settle"},
         wake' \in BOOLEAN, cold' \in BOOLEAN
  PROVE  IInv'
<1>1. TypeOK BY DEF IInv
<1>2. TypeOK' BY <1>1 DEF TypeOK, DrainType
<1>3. DrainInv' BY DEF IInv, DrainInv, Onward, Fresh
<1> QED BY <1>1, <1>2, <1>3, SentKept, ContextKept, TurnKept DEF IInv

LEMMA DrainCheckIInv == IInv /\ DrainCheck => IInv'
<1> SUFFICES ASSUME IInv, DrainCheck PROVE IInv' OBVIOUS
<1>1. TypeOK BY DEF IInv
<1>2. /\ drain.phase = "check"
      /\ drain' = (IF status = "idle" THEN [DrainIdle EXCEPT !.phase = "claim"] ELSE DrainIdle)
      /\ UNCHANGED <<send, state, mode, mine, stale, order, status, turn, context, durable, wake, cold>>
  BY DEF DrainCheck, inbox, target
<1>3. drain' \in DrainType /\ drain'.phase \in {"off", "check", "claim"}
  BY <1>2 DEF DrainType, DrainIdle
<1> QED BY <1>1, <1>2, <1>3, Staying, DrainingIInv DEF TypeOK

LEMMA DrainEmptyIInv == IInv /\ DrainEmpty => IInv'
<1> SUFFICES ASSUME IInv, DrainEmpty PROVE IInv' OBVIOUS
<1>1. TypeOK BY DEF IInv
<1>2. /\ drain.phase = "claim" /\ drain' = DrainIdle /\ state' = Recovered /\ stale' = {}
      /\ UNCHANGED <<send, mode, mine, order, status, turn, context, durable, wake, cold>>
  BY DEF DrainEmpty, ClaimNone, target
<1>3. drain' \in DrainType /\ drain'.phase \in {"off", "check", "claim"}
  BY <1>2 DEF DrainType, DrainIdle
<1> QED BY <1>1, <1>2, <1>3, Recovering, DrainingIInv DEF TypeOK

LEMMA DrainThrowsIInv == IInv /\ DrainThrows => IInv'
<1> SUFFICES ASSUME IInv, DrainThrows PROVE IInv' OBVIOUS
<1>1. TypeOK BY DEF IInv
<1>2. /\ drain.phase # "dispatched" /\ drain' = DrainIdle /\ cold' = TRUE
      /\ UNCHANGED <<send, state, mode, mine, stale, order, status, turn, context, durable, wake>>
  BY DEF DrainThrows, inbox, target
<1>3. drain' \in DrainType /\ drain'.phase = "off" BY <1>2 DEF DrainType, DrainIdle
<1> QED BY <1>1, <1>2, <1>3, Staying, DrainingIInv DEF TypeOK

\* The drain that goes to another phase keeps its message.
LEMMA DrainGoing ==
  ASSUME TypeOK, NEW phase \in {"settle", "thrown"}, DrainGoto(phase)
  PROVE  drain' \in DrainType /\ drain'.phase = phase /\ drain'.message = drain.message
<1>1. drain \in DrainType BY DEF TypeOK, DrainType
<1> QED BY <1>1 DEF DrainGoto, DrainType

LEMMA DrainDispatchFailsIInv == IInv /\ DrainDispatchFails => IInv'
<1> SUFFICES ASSUME IInv, DrainDispatchFails PROVE IInv' OBVIOUS
<1>1. TypeOK BY DEF IInv
<1>2. /\ drain.phase = "deliver"
      /\ UNCHANGED <<send, state, mode, mine, stale, order, status, turn, context, durable>>
  BY DEF DrainDispatchFails, inbox, target
<1>3. \E phase \in {"settle", "thrown"} : DrainGoto(phase) BY DEF DrainDispatchFails
<1>4. wake' \in BOOLEAN /\ cold' \in BOOLEAN
  BY <1>1 DEF DrainDispatchFails, WakesDrain, TypeOK
<1> QED BY <1>1, <1>2, <1>3, <1>4, DrainGoing, Staying, DrainingIInv DEF TypeOK

LEMMA DrainSettleIInv == IInv /\ DrainSettle => IInv'
<1> SUFFICES ASSUME IInv, DrainSettle PROVE IInv' OBVIOUS
<1>1. TypeOK BY DEF IInv
<1>2. drain.phase = "settle" /\ UNCHANGED <<status, turn, context, durable, wake, cold>>
  BY DEF DrainSettle, target
<1>3. /\ drain' \in DrainType
      /\ \/ drain'.phase = "check"
         \/ drain'.phase = "thrown" /\ drain'.message = drain.message
  <2>1. CASE drain' = [DrainIdle EXCEPT !.phase = "check"]
    BY <2>1 DEF DrainType, DrainIdle
  <2>2. CASE DrainGoto("thrown") BY <1>1, <2>2, DrainGoing
  <2> QED BY <2>1, <2>2 DEF DrainSettle
<1>4. /\ state' \in [Messages -> States] /\ Onward /\ Undelivered
      /\ stale' \subseteq Messages /\ UNCHANGED <<send, mode, mine, order>>
  <2>1. CASE UNCHANGED inbox BY <1>1, <2>1, Staying DEF inbox, TypeOK
  <2>2. CASE Settle({drain.message}, "uncertain") BY <1>1, <2>2, Settling
  <2> QED BY <2>1, <2>2 DEF DrainSettle
<1> QED BY <1>1, <1>2, <1>3, <1>4, DrainingIInv DEF TypeOK

LEMMA DrainGivesUpIInv == IInv /\ DrainGivesUp => IInv'
<1> SUFFICES ASSUME IInv, DrainGivesUp PROVE IInv' OBVIOUS
<1>1. TypeOK BY DEF IInv
<1>2. /\ drain.phase = "thrown" /\ drain' = DrainIdle /\ cold' = TRUE
      /\ UNCHANGED <<status, turn, context, durable, wake>>
  BY DEF DrainGivesUp, target
<1>3. drain' \in DrainType /\ drain'.phase = "off" BY <1>2 DEF DrainType, DrainIdle
<1>4. /\ state' \in [Messages -> States] /\ Onward /\ Undelivered
      /\ stale' \subseteq Messages /\ UNCHANGED <<send, mode, mine, order>>
  <2>1. CASE UNCHANGED inbox BY <1>1, <2>1, Staying DEF inbox, TypeOK
  <2>2. CASE Settle({drain.message}, "uncertain") BY <1>1, <2>2, Settling
  <2> QED BY <2>1, <2>2 DEF DrainGivesUp
<1> QED BY <1>1, <1>2, <1>3, <1>4, DrainingIInv DEF TypeOK

LEMMA DrainClaimIInv ==
  ASSUME NEW m \in Messages, IInv, DrainClaim(m)
  PROVE  IInv'
<1>1. TypeOK BY DEF IInv
<1>2. /\ drain.phase = "claim" /\ drain' = [phase |-> "deliver", message |-> m, accepted |-> FALSE]
      /\ ClaimNext(m, {"steer", "follow_up"})
      /\ UNCHANGED <<status, turn, context, durable, wake, cold>>
  BY DEF DrainClaim, target
<1>3. /\ state[m] = "pending" /\ state'[m] = "claimed"
      /\ state' \in [Messages -> States] /\ Onward /\ Undelivered
      /\ mine' \in [Messages -> BOOLEAN] /\ stale' = {}
      /\ UNCHANGED <<send, mode, order>>
  BY <1>1, <1>2, Claiming
<1>4. context[m] = 0 /\ m \notin turn.claimed
  BY <1>3 DEF IInv, ContextInv, TurnInv, Fresh
<1>5. TypeOK'
  <2>1. drain' \in DrainType BY <1>2 DEF DrainType
  <2> QED BY <1>1, <1>2, <1>3, <2>1 DEF TypeOK, DrainType
<1>6. DrainInv' BY <1>2, <1>3, <1>4 DEF IInv, DrainInv, Fresh, None
<1> QED BY <1>1, <1>2, <1>3, <1>5, <1>6, SentKept, ContextKept, TurnKept DEF IInv

LEMMA DrainDispatchIInv == IInv /\ DrainDispatch => IInv'
<1> SUFFICES ASSUME IInv, DrainDispatch PROVE IInv' OBVIOUS
<1>1. TypeOK BY DEF IInv
<1>m. PICK m \in Messages : m = drain.message /\ ~Fresh(m) /\ context[m] = 0
  BY DEF DrainDispatch, IInv, DrainInv
<1>2. /\ drain.phase = "deliver" /\ turn = NoTurn
      /\ UNCHANGED <<send, state, mode, mine, stale, order>>
  BY DEF DrainDispatch, inbox
<1>3. Onward /\ Undelivered BY <1>1, <1>2, Staying
<1>4. CASE status = "paused"
  <2>1. durable' \in {durable, context} /\ UNCHANGED <<status, turn, context>>
    BY <1>4 DEF DrainDispatch, StoresSnapshot
  <2>2. /\ drain' \in DrainType /\ drain'.phase \in {"settle", "thrown"}
        /\ drain'.message = drain.message
    BY <1>1, <1>4, DrainGoing DEF DrainDispatch
  <2>3. wake' \in BOOLEAN /\ cold' \in BOOLEAN
    BY <1>1, <1>4 DEF DrainDispatch, WakesDrain, DispatchThrows, TypeOK
  <2>4. ContextInv' /\ durable' \in [Messages -> Nat]
    BY <1>1, <1>3, <2>1, ContextStored DEF IInv
  <2>5. TypeOK' BY <1>1, <1>2, <2>1, <2>2, <2>3, <2>4 DEF TypeOK, DrainType
  <2>6. DrainInv' BY <1>2, <1>m, <2>1, <2>2 DEF IInv, DrainInv, Fresh, NoTurn, None
  <2>7. TurnInv' BY <1>2, <2>1, LimitsAssumption DEF TurnInv, NoTurn, None
  <2> QED BY <1>2, <1>3, <2>4, <2>5, <2>6, <2>7, SentKept DEF IInv
<1>5. CASE status # "paused"
  <2>1. /\ drain' = [drain EXCEPT !.phase = "dispatched"] /\ status' = "running"
        /\ turn' = [NoTurn EXCEPT !.kind = "message", !.phase = "persist"]
        /\ context' = [context EXCEPT ![m] = @ + 1]
        /\ UNCHANGED <<durable, wake, cold>>
    BY <1>5, <1>m DEF DrainDispatch, DrainGoto
  <2>2. drain' \in DrainType /\ drain'.phase = "dispatched" /\ drain'.message = m
    BY <1>1, <1>m, <2>1 DEF TypeOK, DrainType
  <2>3. /\ turn' \in TurnType /\ turn'.kind = "message" /\ turn'.phase = "persist"
        /\ turn'.claimed = {} /\ turn'.iteration = 0
    <3>1. turn' = [kind |-> "message", phase |-> "persist", iteration |-> 0, last |-> FALSE,
                   claimed |-> {}]
      BY <2>1 DEF NoTurn
    <3> QED BY <3>1, LimitsAssumption DEF TurnType
  <2>4. context' \in [Messages -> Nat] BY <1>1, <2>1 DEF TypeOK
  <2>5. \A x \in Messages : context'[x] = IF x = m THEN 1 ELSE context[x]
    BY <1>1, <1>m, <2>1 DEF TypeOK
  <2>6. TypeOK' BY <1>1, <1>2, <2>1, <2>2, <2>3, <2>4 DEF TypeOK, DrainType, TurnType
  <2>7. ContextInv'
    <3>1. durable \in [Messages -> Nat] /\ durable' = durable BY <1>1, <2>1 DEF TypeOK
    <3> SUFFICES ASSUME NEW x \in Messages
                 PROVE  /\ durable[x] <= context'[x] /\ context'[x] <= 1
                        /\ Fresh(x) => context'[x] = 0
                        /\ state[x] = "delivered" => durable[x] = 1
      BY <1>2, <3>1 DEF ContextInv, Fresh
    <3>2. /\ durable[x] <= context[x] /\ context[x] <= 1
          /\ Fresh(x) => context[x] = 0
          /\ state[x] = "delivered" => durable[x] = 1
      BY DEF IInv, ContextInv
    <3> QED BY <1>m, <2>5, <3>1, <3>2
  <2>8. DrainInv' BY <1>2, <1>m, <2>2, <2>3, <2>5 DEF DrainInv, Fresh
  <2>9. TurnInv' BY <2>3, LimitsAssumption DEF TurnInv, None
  <2> QED BY <1>2, <1>3, <2>6, <2>7, <2>8, <2>9, SentKept DEF IInv
<1> QED BY <1>4, <1>5

\* The steps of a turn that leave the inbox and the context alone.
LEMMA TurnIInv ==
  ASSUME IInv, UNCHANGED <<send, state, mode, mine, stale, order, context, drain>>,
         status' \in {"idle", "running", "paused"}, wake' \in BOOLEAN, cold' \in BOOLEAN,
         durable' \in {durable, context},
         turn' \in TurnType, turn'.kind = turn.kind, turn'.claimed \subseteq turn.claimed,
         turn'.phase \in {"claim", "append"} /\ turn'.claimed # {} => turn.phase \in {"claim", "append"},
         turn'.phase \in {"save", "mark"} /\ turn'.claimed # {} => turn.phase \in {"save", "mark"},
         turn'.phase = "confirm" => turn.kind = "message",
         turn'.phase \in {None, "persist", "confirm", "model", "leaving", "ending"}
           => turn'.claimed = {},
         turn'.phase \in {"confirm", "mark"} => durable' = context,
         turn'.phase \in {"persist", "confirm", "claim", "append", "save", "mark", "model"}
           => turn'.last \/ turn'.iteration < MaxIterations,
         turn'.phase = "model" => ~turn'.last
  PROVE  IInv'
<1>1. TypeOK BY DEF IInv
<1>2. Onward /\ Undelivered BY <1>1, Staying
<1>3. TypeOK'
  <2>1. durable' \in [Messages -> Nat] BY <1>1 DEF TypeOK
  <2> QED BY <1>1, <2>1 DEF TypeOK, TurnType
<1>4. ContextInv' BY <1>1, <1>2, ContextStored DEF IInv
<1>5. DrainInv' BY <1>2, DrainKept DEF IInv
<1>6. TurnInv'
  <2>1. \A m \in turn'.claimed : /\ ~Fresh(m)
                                 /\ turn'.phase \in {"claim", "append"} => context[m] = 0
                                 /\ turn'.phase \in {"save", "mark"} => context[m] = 1
    BY DEF IInv, TurnInv
  <2> QED BY <2>1 DEF TurnInv, Fresh
<1> QED BY <1>2, <1>3, <1>4, <1>5, <1>6, SentKept DEF IInv

\* What the parts of the invariant say of the turn.
LEMMA TurnFacts ==
  ASSUME IInv
  PROVE  /\ turn \in TurnType /\ turn.iteration \in 0..MaxIterations
         /\ turn.last \in BOOLEAN /\ turn.claimed \subseteq Messages
         /\ status \in {"idle", "running", "paused"} /\ wake \in BOOLEAN /\ cold \in BOOLEAN
         /\ MaxIterations \in Nat /\ MaxIterations > 0
         /\ TurnInv
BY LimitsAssumption DEF IInv, TypeOK, TurnType

\* A step of the turn goes from phase to phase and changes nothing else of it.
LEMMA GotoTurn ==
  ASSUME IInv, NEW phase \in {"confirm", "claim", "append", "save", "mark", "model", "failing"},
         Goto(phase)
  PROVE  /\ turn' \in TurnType /\ turn'.phase = phase /\ turn'.kind = turn.kind
         /\ turn'.iteration = turn.iteration /\ turn'.last = turn.last
         /\ turn'.claimed = turn.claimed
<1>1. turn \in TurnType BY TurnFacts
<1> QED BY <1>1 DEF Goto, TurnType

LEMMA StoppedTurn ==
  ASSUME IInv, StopRunning
  PROVE  /\ turn' \in TurnType /\ turn'.phase = "ending" /\ turn'.kind = turn.kind
         /\ turn'.claimed = {} /\ status' = "idle"
<1>1. turn \in TurnType BY TurnFacts
<1> QED BY <1>1 DEF StopRunning, TurnType

LEMMA ContinuedTurn ==
  ASSUME IInv, NextIteration
  PROVE  /\ turn' \in TurnType /\ turn'.phase = "claim" /\ turn'.kind = turn.kind
         /\ turn'.claimed = turn.claimed /\ turn'.iteration = turn.iteration
         /\ turn.iteration < MaxIterations /\ ~turn'.last /\ UNCHANGED status
<1>1. turn \in TurnType BY TurnFacts
<1> QED BY <1>1 DEF NextIteration, TurnType

LEMMA PersistPromptIInv == IInv /\ PersistPrompt => IInv'
<1> SUFFICES ASSUME IInv, PersistPrompt PROVE IInv' OBVIOUS
<1>1. /\ turn.phase = "persist" /\ durable' = context
      /\ UNCHANGED <<send, state, mode, mine, stale, order, status, context, wake, drain, cold>>
  BY DEF PersistPrompt, inbox
<1>2. turn.claimed = {} /\ (turn.last \/ turn.iteration < MaxIterations)
  BY <1>1, TurnFacts DEF TurnInv
<1>3. CASE turn.kind = "message"
  <2>1. Goto("confirm") BY <1>3 DEF PersistPrompt
  <2> QED BY <1>1, <1>2, <1>3, <2>1, GotoTurn, TurnFacts, TurnIInv
<1>4. CASE turn.kind # "message"
  <2>1. Goto("claim") BY <1>4 DEF PersistPrompt
  <2> QED BY <1>1, <1>2, <2>1, GotoTurn, TurnFacts, TurnIInv
<1> QED BY <1>3, <1>4

LEMMA AppendSteeringIInv == IInv /\ AppendSteering => IInv'
<1> SUFFICES ASSUME IInv, AppendSteering PROVE IInv' OBVIOUS
<1>1. TypeOK /\ turn.phase = "append" BY DEF IInv, AppendSteering
<1>2. /\ context' = [m \in Messages |-> IF m \in turn.claimed THEN context[m] + 1 ELSE context[m]]
      /\ Goto("save")
      /\ UNCHANGED <<send, state, mode, mine, stale, order, status, durable, wake, drain, cold>>
  BY DEF AppendSteering, inbox
<1>3. /\ turn' \in TurnType /\ turn'.phase = "save" /\ turn'.kind = turn.kind
      /\ turn'.iteration = turn.iteration /\ turn'.last = turn.last
      /\ turn'.claimed = turn.claimed
  BY <1>2, GotoTurn
<1>4. /\ \A m \in turn.claimed : m \in Messages /\ ~Fresh(m) /\ context[m] = 0
      /\ turn.last \/ turn.iteration < MaxIterations
  BY <1>1, TurnFacts DEF TurnInv
<1>5. context \in [Messages -> Nat] /\ durable \in [Messages -> Nat] BY <1>1 DEF TypeOK
<1>6. \A m \in Messages : context'[m] = IF m \in turn.claimed THEN 1 ELSE context[m]
  BY <1>2, <1>4, <1>5
<1>7. context' \in [Messages -> Nat] BY <1>2, <1>5
<1>8. TypeOK' BY <1>1, <1>2, <1>3, <1>7 DEF TypeOK, TurnType
<1>9. SentOnce' BY <1>2 DEF IInv, SentOnce
<1>10. ContextInv'
  <2> SUFFICES ASSUME NEW m \in Messages
               PROVE  /\ durable[m] <= context'[m] /\ context'[m] <= 1
                      /\ Fresh(m) => context'[m] = 0
                      /\ state[m] = "delivered" => durable[m] = 1
    BY <1>2 DEF ContextInv, Fresh
  <2>1. /\ durable[m] <= context[m] /\ context[m] <= 1
        /\ Fresh(m) => context[m] = 0
        /\ state[m] = "delivered" => durable[m] = 1
    BY DEF IInv, ContextInv
  <2> QED BY <1>4, <1>5, <1>6, <2>1
<1>11. DrainInv'
  <2>1. DrainInv BY DEF IInv
  <2>2. drain.phase = "dispatched" => drain.message \in Messages /\ drain.message \notin turn.claimed
    BY <1>4, <2>1 DEF DrainInv
  <2> QED BY <1>2, <1>3, <1>6, <2>1, <2>2 DEF DrainInv, Fresh
<1>12. TurnInv' BY <1>2, <1>3, <1>4, <1>6 DEF TurnInv, Fresh, None
<1> QED BY <1>8, <1>9, <1>10, <1>11, <1>12 DEF IInv

LEMMA SaveSteeringIInv == IInv /\ SaveSteering => IInv'
<1> SUFFICES ASSUME IInv, SaveSteering PROVE IInv' OBVIOUS
<1>1. /\ turn.phase = "save" /\ durable' = context /\ Goto("mark")
      /\ UNCHANGED <<send, state, mode, mine, stale, order, status, context, wake, drain, cold>>
  BY DEF SaveSteering, inbox
<1>2. turn.last \/ turn.iteration < MaxIterations BY <1>1, TurnFacts DEF TurnInv
<1> QED BY <1>1, <1>2, GotoTurn, TurnFacts, TurnIInv DEF None

LEMMA ModelAnswersIInv == IInv /\ ModelAnswers => IInv'
<1> SUFFICES ASSUME IInv, ModelAnswers PROVE IInv' OBVIOUS
<1>1. /\ turn.phase = "model"
      /\ UNCHANGED <<send, state, mode, mine, stale, order, context, durable, wake, drain, cold>>
  BY DEF ModelAnswers, inbox
<1>2. /\ turn \in TurnType /\ turn.claimed = {} /\ turn.iteration + 1 \in 0..MaxIterations
  BY <1>1, TurnFacts DEF TurnInv
<1>3. CASE /\ turn' = [turn EXCEPT !.phase = "claim", !.iteration = turn.iteration + 1, !.last = TRUE]
           /\ UNCHANGED status
  <2>1. /\ turn' \in TurnType /\ turn'.phase = "claim" /\ turn'.kind = turn.kind
        /\ turn'.claimed = {} /\ turn'.last
    BY <1>2, <1>3 DEF TurnType
  <2> QED BY <1>1, <1>2, <1>3, <2>1, TurnFacts, TurnIInv DEF None
<1>4. CASE /\ turn.iteration + 1 < MaxIterations
           /\ turn' = [turn EXCEPT !.phase = "claim", !.iteration = turn.iteration + 1]
           /\ UNCHANGED status
  <2>1. /\ turn' \in TurnType /\ turn'.phase = "claim" /\ turn'.kind = turn.kind
        /\ turn'.claimed = {} /\ turn'.iteration < MaxIterations
    BY <1>2, <1>4 DEF TurnType
  <2> QED BY <1>1, <1>2, <1>4, <2>1, TurnFacts, TurnIInv DEF None
<1>5. CASE StopRunning BY <1>1, <1>5, StoppedTurn, TurnFacts, TurnIInv DEF None
<1> QED BY <1>3, <1>4, <1>5 DEF ModelAnswers

LEMMA SteeringMarkedIInv == IInv /\ SteeringMarked => IInv'
<1> SUFFICES ASSUME IInv, SteeringMarked PROVE IInv' OBVIOUS
<1>1. /\ turn.phase = "mark" /\ turn.claimed = {}
      /\ UNCHANGED <<send, state, mode, mine, stale, order, context, durable, wake, drain, cold>>
  BY DEF SteeringMarked, inbox
<1>2. turn.last \/ turn.iteration < MaxIterations BY <1>1, TurnFacts DEF TurnInv
<1>3. CASE ~turn.last /\ Goto("model") /\ UNCHANGED status
  BY <1>1, <1>2, <1>3, GotoTurn, TurnFacts, TurnIInv DEF None
<1>4. CASE NextIteration BY <1>1, <1>4, ContinuedTurn, TurnFacts, TurnIInv DEF None
<1>5. CASE StopRunning BY <1>1, <1>5, StoppedTurn, TurnFacts, TurnIInv DEF None
<1> QED BY <1>3, <1>4, <1>5 DEF SteeringMarked

LEMMA ThrowIInv == IInv /\ Throw => IInv'
<1> SUFFICES ASSUME IInv, Throw PROVE IInv' OBVIOUS
<1>1. UNCHANGED <<send, state, mode, mine, stale, order, status, context, durable, wake, drain, cold>>
  BY DEF Throw, inbox
<1>2. turn \in TurnType /\ turn.claimed \subseteq Messages BY TurnFacts
<1>c. PICK c \in SUBSET turn.claimed : turn' = [turn EXCEPT !.phase = "failing", !.claimed = c]
  BY DEF Throw
<1>3. /\ turn' \in TurnType /\ turn'.phase = "failing" /\ turn'.kind = turn.kind
      /\ turn'.claimed \subseteq turn.claimed
  BY <1>2, <1>c DEF TurnType
<1> QED BY <1>1, <1>3, TurnFacts, TurnIInv DEF None

\* The steps of a turn that settle claims or find nothing to claim.
LEMMA SettlingTurnIInv ==
  ASSUME IInv, UNCHANGED <<send, mode, mine, order, context, durable, wake, cold>>,
         state' \in [Messages -> States], stale' \subseteq Messages, Onward,
         \A m \in Messages : state'[m] = "delivered" => state[m] = "delivered" \/ durable[m] = 1,
         drain' \in DrainType, drain'.phase = drain.phase, drain'.message = drain.message,
         status' \in {"idle", "running", "paused"},
         turn' \in TurnType, turn'.kind = turn.kind, turn'.claimed \subseteq turn.claimed,
         turn'.phase \in {"claim", "append"} /\ turn'.claimed # {} => turn.phase \in {"claim", "append"},
         turn'.phase \in {"save", "mark"} /\ turn'.claimed # {} => turn.phase \in {"save", "mark"},
         turn'.phase # "confirm",
         turn'.phase \in {None, "persist", "model", "leaving", "ending"} => turn'.claimed = {},
         turn'.phase = "mark" => turn.phase = "mark",
         turn'.phase \in {"persist", "claim", "append", "save", "mark", "model"}
           => turn'.last \/ turn'.iteration < MaxIterations,
         turn'.phase = "model" => ~turn'.last
  PROVE  IInv'
<1>1. TypeOK BY DEF IInv
<1>2. TypeOK' BY <1>1 DEF TypeOK, TurnType, DrainType
<1>3. \A m \in Messages : Fresh(m)' => Fresh(m) BY DEF Onward, Fresh
<1>4. ContextInv' BY <1>3 DEF IInv, ContextInv
<1>5. DrainInv' BY <1>3 DEF IInv, DrainInv
<1>6. TurnInv'
  <2>1. \A m \in turn'.claimed : /\ m \in Messages /\ ~Fresh(m)
                                 /\ turn'.phase \in {"claim", "append"} => context[m] = 0
                                 /\ turn'.phase \in {"save", "mark"} => context[m] = 1
    BY <1>1 DEF IInv, TurnInv, TypeOK
  <2>2. turn.phase = "mark" => durable = context BY DEF IInv, TurnInv
  <2> QED BY <1>3, <2>1, <2>2 DEF TurnInv, None
<1> QED BY <1>2, <1>4, <1>5, <1>6, SentKept DEF IInv

LEMMA ConfirmPromptIInv == IInv /\ ConfirmPrompt => IInv'
<1> SUFFICES ASSUME IInv, ConfirmPrompt PROVE IInv' OBVIOUS
<1>1. TypeOK BY DEF IInv
<1>2. turn.phase = "confirm" /\ UNCHANGED <<status, context, durable, wake, cold>>
  BY DEF ConfirmPrompt
<1>3. /\ turn.kind = "message" /\ turn.claimed = {} /\ durable = context
      /\ turn.last \/ turn.iteration < MaxIterations
  BY <1>2, TurnFacts DEF TurnInv
<1>4. drain.phase = "dispatched" /\ drain.message \in Messages /\ context[drain.message] = 1
  BY <1>3 DEF IInv, DrainInv
<1>5. CASE OwnClaim(drain.message)
  <2>1. /\ Settle({drain.message}, "delivered") /\ Goto("claim")
        /\ drain' = [drain EXCEPT !.accepted = TRUE]
    BY <1>5 DEF ConfirmPrompt
  <2>2. drain' \in DrainType /\ drain'.phase = drain.phase /\ drain'.message = drain.message
    BY <1>1, <2>1 DEF TypeOK, DrainType
  <2>3. /\ state' \in [Messages -> States] /\ Onward /\ stale' \subseteq Messages
        /\ \A m \in Messages : state'[m] = "delivered" =>
             state[m] = "delivered" \/ m = drain.message
        /\ UNCHANGED <<send, mode, mine, order>>
    BY <1>1, <2>1, Settling
  <2> QED BY <1>2, <1>3, <1>4, <2>1, <2>2, <2>3, GotoTurn, TurnFacts, SettlingTurnIInv DEF None
<1>6. CASE ~OwnClaim(drain.message)
  <2>1. Goto("failing") /\ UNCHANGED <<send, state, mode, mine, stale, order, drain>>
    BY <1>6 DEF ConfirmPrompt, inbox
  <2> QED BY <1>2, <1>3, <2>1, GotoTurn, TurnFacts, TurnIInv DEF None
<1> QED BY <1>5, <1>6

LEMMA ClaimSteeringIInv ==
  ASSUME NEW m \in Messages, IInv, ClaimSteering(m)
  PROVE  IInv'
<1>1. TypeOK BY DEF IInv
<1>2. /\ turn.phase = "claim" /\ turn' = [turn EXCEPT !.claimed = @ \cup {m}]
      /\ ClaimNext(m, {"steer"})
      /\ UNCHANGED <<status, context, durable, wake, drain, cold>>
  BY DEF ClaimSteering
<1>3. /\ state[m] = "pending" /\ state'[m] = "claimed"
      /\ state' \in [Messages -> States] /\ Onward /\ Undelivered
      /\ mine' \in [Messages -> BOOLEAN] /\ stale' = {}
      /\ UNCHANGED <<send, mode, order>>
  BY <1>1, <1>2, Claiming
<1>4. /\ turn' \in TurnType /\ turn'.phase = "claim" /\ turn'.kind = turn.kind
      /\ turn'.iteration = turn.iteration /\ turn'.last = turn.last
      /\ turn'.claimed = turn.claimed \cup {m}
  <2>1. turn \in TurnType BY TurnFacts
  <2> QED BY <1>2, <2>1 DEF TurnType
<1>5. context[m] = 0 /\ Fresh(m) /\ ~Fresh(m)'
  BY <1>3 DEF IInv, ContextInv, Fresh, None
<1>6. TypeOK' BY <1>1, <1>2, <1>3, <1>4 DEF TypeOK, TurnType
<1>7. \A x \in Messages : Fresh(x)' => Fresh(x) BY <1>3 DEF Onward, Fresh
<1>8. DrainInv'
  <2>1. DrainInv BY DEF IInv
  <2>2. drain.phase = "deliver" => drain.message # m BY <1>5, <2>1 DEF DrainInv
  <2> QED BY <1>2, <1>4, <1>7, <2>1, <2>2 DEF DrainInv
<1>9. TurnInv'
  <2>1. \A x \in turn.claimed : x \in Messages /\ ~Fresh(x) /\ context[x] = 0
    BY <1>2, TurnFacts DEF TurnInv
  <2>2. turn.last \/ turn.iteration < MaxIterations BY <1>2, TurnFacts DEF TurnInv
  <2>3. \A x \in turn'.claimed : ~Fresh(x)' /\ context'[x] = 0 BY <1>2, <1>4, <1>5, <1>7, <2>1
  <2> QED BY <1>4, <2>2, <2>3 DEF TurnInv, None
<1> QED BY <1>2, <1>3, <1>6, <1>8, <1>9, SentKept, ContextKept DEF IInv

LEMMA SteeringClaimedIInv == IInv /\ SteeringClaimed => IInv'
<1> SUFFICES ASSUME IInv, SteeringClaimed PROVE IInv' OBVIOUS
<1>1. TypeOK BY DEF IInv
<1>2. turn.phase = "claim" /\ UNCHANGED <<context, durable, wake, drain, cold>>
  BY DEF SteeringClaimed
<1>3. /\ state' \in [Messages -> States] /\ Onward /\ Undelivered
      /\ stale' \subseteq Messages /\ UNCHANGED <<send, mode, mine, order>>
  <2>1. CASE UNCHANGED inbox BY <1>1, <2>1, Staying DEF inbox, TypeOK
  <2>2. CASE ClaimNone({"steer"}) BY <1>1, <2>2, Recovering DEF ClaimNone
  <2> QED BY <2>1, <2>2 DEF SteeringClaimed
<1>4. \A m \in Messages : state'[m] = "delivered" => state[m] = "delivered" \/ durable[m] = 1
  BY <1>3 DEF Undelivered
<1>5. drain' \in DrainType /\ drain'.phase = drain.phase /\ drain'.message = drain.message
  BY <1>1, <1>2 DEF TypeOK, DrainType
<1>6. turn.last \/ turn.iteration < MaxIterations BY <1>2, TurnFacts DEF TurnInv
<1>7. CASE Goto("append") /\ UNCHANGED status
  BY <1>2, <1>3, <1>4, <1>5, <1>6, <1>7, GotoTurn, TurnFacts, SettlingTurnIInv DEF None
<1>8. CASE turn.claimed = {} /\ ~turn.last /\ Goto("model") /\ UNCHANGED status
  BY <1>2, <1>3, <1>4, <1>5, <1>6, <1>8, GotoTurn, TurnFacts, SettlingTurnIInv DEF None
<1>9. CASE StopRunning
  BY <1>2, <1>3, <1>4, <1>5, <1>9, StoppedTurn, TurnFacts, SettlingTurnIInv DEF None
<1>10. CASE NextIteration
  BY <1>2, <1>3, <1>4, <1>5, <1>10, ContinuedTurn, TurnFacts, SettlingTurnIInv DEF None
<1> QED BY <1>7, <1>8, <1>9, <1>10 DEF SteeringClaimed

LEMMA MarkSteeringIInv ==
  ASSUME NEW m \in Messages, IInv, MarkSteering(m)
  PROVE  IInv'
<1>1. TypeOK BY DEF IInv
<1>2. /\ turn.phase = "mark" /\ m \in turn.claimed
      /\ UNCHANGED <<status, context, durable, wake, drain, cold>>
  BY DEF MarkSteering
<1>3. /\ durable = context /\ context[m] = 1 /\ (turn.last \/ turn.iteration < MaxIterations)
  BY <1>2, TurnFacts DEF TurnInv
<1>4. drain' \in DrainType /\ drain'.phase = drain.phase /\ drain'.message = drain.message
  BY <1>1, <1>2 DEF TypeOK, DrainType
<1>5. CASE OwnClaim(m)
  <2>1. Settle({m}, "delivered") /\ turn' = [turn EXCEPT !.claimed = @ \ {m}]
    BY <1>5 DEF MarkSteering
  <2>2. /\ turn' \in TurnType /\ turn'.phase = "mark" /\ turn'.kind = turn.kind
        /\ turn'.iteration = turn.iteration /\ turn'.last = turn.last
        /\ turn'.claimed \subseteq turn.claimed
    <3>1. turn \in TurnType BY TurnFacts
    <3> QED BY <1>2, <2>1, <3>1 DEF TurnType
  <2>3. /\ state' \in [Messages -> States] /\ Onward /\ stale' \subseteq Messages
        /\ \A x \in Messages : state'[x] = "delivered" => state[x] = "delivered" \/ x = m
        /\ UNCHANGED <<send, mode, mine, order>>
    BY <1>1, <2>1, Settling
  <2> QED BY <1>2, <1>3, <1>4, <2>2, <2>3, TurnFacts, SettlingTurnIInv DEF None
<1>6. CASE ~OwnClaim(m)
  <2>1. Goto("failing") /\ UNCHANGED <<send, state, mode, mine, stale, order>>
    BY <1>6 DEF MarkSteering, inbox
  <2> QED BY <1>2, <2>1, GotoTurn, TurnFacts, TurnIInv DEF None
<1> QED BY <1>5, <1>6

LEMMA FailIInv == IInv /\ Fail => IInv'
<1> SUFFICES ASSUME IInv, Fail PROVE IInv' OBVIOUS
<1>1. TypeOK BY DEF IInv
<1>m. PICK marked \in SUBSET turn.claimed : Settle(marked, "uncertain") BY DEF Fail
<1>2. /\ turn' = [turn EXCEPT !.phase = "leaving", !.last = FALSE, !.claimed = {}]
      /\ UNCHANGED <<context, wake, drain, cold>>
  BY DEF Fail
<1>3. /\ turn' \in TurnType /\ turn'.phase = "leaving" /\ turn'.kind = turn.kind
      /\ turn'.claimed = {}
  <2>1. turn \in TurnType BY TurnFacts
  <2> QED BY <1>2, <2>1 DEF TurnType
<1>4. /\ state' \in [Messages -> States] /\ Onward /\ Undelivered
      /\ stale' \subseteq Messages /\ UNCHANGED <<send, mode, mine, order>>
  BY <1>1, <1>m, Settling
<1>5. status' \in {"idle", status} /\ durable' \in {durable, context}
  BY DEF Fail, StoresSnapshot
<1>6. ContextInv' /\ durable' \in [Messages -> Nat]
  BY <1>1, <1>2, <1>4, <1>5, ContextStored DEF IInv
<1>7. TypeOK' BY <1>1, <1>2, <1>3, <1>4, <1>5, <1>6 DEF TypeOK, TurnType
<1>8. DrainInv' BY <1>2, <1>3, <1>4, DrainKept DEF IInv
<1>9. TurnInv' BY <1>3 DEF TurnInv, None
<1> QED BY <1>4, <1>6, <1>7, <1>8, <1>9, SentKept DEF IInv

\* The dispatch of a message ends together with its turn.
LEMMA EndIInv == IInv /\ End => IInv'
<1> SUFFICES ASSUME IInv, End PROVE IInv' OBVIOUS
<1>1. TypeOK BY DEF IInv
<1>2. /\ turn.phase \in {"ending", "leaving"} /\ turn' = NoTurn
      /\ durable' \in {durable, context}
      /\ UNCHANGED <<send, state, mode, mine, stale, order, status, context>>
  BY DEF End, inbox
<1>3. /\ NoTurn \in TurnType /\ NoTurn.kind = None /\ NoTurn.phase = None /\ NoTurn.claimed = {}
  BY TurnFacts DEF NoTurn, TurnType
<1>4. Onward /\ Undelivered BY <1>1, <1>2, Staying
<1>5. \/ /\ turn.kind = "message" /\ drain' \in DrainType
         /\ drain'.phase \in {"settle", "thrown"} /\ drain'.message = drain.message
      \/ turn.kind # "message" /\ drain' = drain
  <2>1. CASE turn.kind = "message" BY <1>1, <2>1, DrainGoing DEF End, TellDrain
  <2>2. CASE turn.kind # "message" BY <2>2 DEF End, TellDrain
  <2> QED BY <2>1, <2>2
<1>6. wake' \in BOOLEAN /\ cold' \in BOOLEAN
  BY <1>1 DEF End, WakesDrain, DispatchThrows, TypeOK
<1>7. ContextInv' /\ durable' \in [Messages -> Nat]
  BY <1>1, <1>2, <1>4, ContextStored DEF IInv
<1>8. TypeOK'
  <2>1. drain' \in DrainType BY <1>1, <1>5 DEF TypeOK, DrainType
  <2> QED BY <1>1, <1>2, <1>3, <1>6, <1>7, <2>1 DEF TypeOK, TurnType, DrainType
<1>9. DrainInv' BY <1>2, <1>3, <1>5 DEF IInv, DrainInv, Fresh, None
<1>10. TurnInv' BY <1>2, <1>3 DEF TurnInv, None
<1> QED BY <1>2, <1>4, <1>7, <1>8, <1>9, <1>10, SentKept DEF IInv

\* Commands of the user come when no turn runs.
LEMMA UserIInv == IInv /\ User => IInv'
<1> SUFFICES ASSUME IInv, User PROVE IInv' OBVIOUS
<1>1. TypeOK BY DEF IInv
<1>2. /\ turn = NoTurn /\ UNCHANGED <<send, state, mode, mine, stale, order, context, drain>>
  BY DEF User, UserPrompt, Pause, Resume, SetStatus, inbox
<1>3. Onward /\ Undelivered BY <1>1, <1>2, Staying
<1>4. durable' \in {durable, context} /\ wake' \in BOOLEAN /\ cold' \in BOOLEAN
  BY <1>1 DEF User, UserPrompt, Pause, Resume, SetStatus, StoresSnapshot, WakesDrain,
     DispatchThrows, TypeOK
<1>5. status' \in {"idle", "running", "paused"}
  BY <1>1 DEF User, UserPrompt, Pause, Resume, SetStatus, TypeOK
<1>6. ContextInv' /\ durable' \in [Messages -> Nat]
  BY <1>1, <1>2, <1>3, <1>4, ContextStored DEF IInv
<1>7. turn' = turn \/ turn' = [NoTurn EXCEPT !.kind = "user", !.phase = "persist"]
  BY DEF User, UserPrompt, Pause, Resume, SetStatus
<1>8. CASE turn' = turn
  <2>1. TypeOK' BY <1>1, <1>2, <1>4, <1>5, <1>6, <1>8 DEF TypeOK
  <2>2. TurnInv' BY <1>2, <1>8, LimitsAssumption DEF TurnInv, NoTurn, None
  <2> QED BY <1>2, <1>3, <1>6, <1>8, <2>1, <2>2, SentKept, DrainKept DEF IInv
<1>9. CASE turn' = [NoTurn EXCEPT !.kind = "user", !.phase = "persist"]
  <2>1. turn' = [kind |-> "user", phase |-> "persist", iteration |-> 0, last |-> FALSE,
                 claimed |-> {}]
    BY <1>9 DEF NoTurn
  <2>2. turn' \in TurnType BY <2>1, TurnFacts DEF TurnType
  <2>3. TypeOK' BY <1>1, <1>2, <1>4, <1>5, <1>6, <2>2 DEF TypeOK, TurnType
  <2>4. turn.kind # "message" BY <1>2 DEF NoTurn, None
  <2>5. DrainInv' BY <1>2, <2>1, <2>4 DEF IInv, DrainInv, Fresh
  <2>6. TurnInv' BY <2>1, TurnFacts DEF TurnInv, None
  <2> QED BY <1>2, <1>3, <1>6, <2>3, <2>5, <2>6, SentKept DEF IInv
<1> QED BY <1>7, <1>8, <1>9

\* After a crash the context is the stored one; who had a message is forgotten.
LEMMA CrashIInv == IInv /\ Crash => IInv'
<1> SUFFICES ASSUME IInv, Crash PROVE IInv' OBVIOUS
<1>1. TypeOK BY DEF IInv
<1>2. /\ send' = [m \in Messages |-> IF send[m] = "checked" THEN "refused" ELSE send[m]]
      /\ mine' = [m \in Messages |-> FALSE] /\ wake' = FALSE /\ drain' = DrainIdle
      /\ status' = "idle" /\ turn' = NoTurn /\ context' = durable /\ cold' = TRUE
      /\ UNCHANGED <<state, mode, stale, order, durable>>
  BY DEF Crash
<1>3. NoTurn \in TurnType /\ DrainIdle \in DrainType
  BY TurnFacts DEF NoTurn, TurnType, DrainIdle, DrainType
<1>4. TypeOK'
  <2>1. send' \in [Messages -> {"new", "checked", "sent", "refused"}] BY <1>1, <1>2 DEF TypeOK
  <2>2. /\ state' \in [Messages -> States] /\ mode' \in [Messages -> {"steer", "follow_up"}]
        /\ mine' \in [Messages -> BOOLEAN] /\ stale' \subseteq Messages
        /\ order' \in Seq(Messages)
    BY <1>1, <1>2 DEF TypeOK
  <2>3. context' \in [Messages -> Nat] /\ durable' \in [Messages -> Nat] BY <1>1, <1>2 DEF TypeOK
  <2>4. turn' \in TurnType /\ drain' \in DrainType BY <1>2, <1>3
  <2> QED BY <1>2, <2>1, <2>2, <2>3, <2>4 DEF TypeOK, TurnType, DrainType
<1>5. SentOnce' BY <1>2 DEF IInv, SentOnce
<1>6. ContextInv'
  <2> SUFFICES ASSUME NEW m \in Messages
               PROVE  /\ durable[m] <= durable[m] /\ durable[m] <= 1
                      /\ Fresh(m) => durable[m] = 0
                      /\ state[m] = "delivered" => durable[m] = 1
    BY <1>2 DEF ContextInv, Fresh
  <2>1. context[m] \in Nat /\ durable[m] \in Nat BY <1>1 DEF TypeOK
  <2>2. /\ durable[m] <= context[m] /\ context[m] <= 1
        /\ Fresh(m) => context[m] = 0
        /\ state[m] = "delivered" => durable[m] = 1
    BY DEF IInv, ContextInv
  <2> QED BY <2>1, <2>2
<1>7. DrainInv' BY <1>2 DEF DrainInv, DrainIdle, NoTurn, None
<1>8. TurnInv' BY <1>2 DEF TurnInv, NoTurn, None
<1> QED BY <1>4, <1>5, <1>6, <1>7, <1>8 DEF IInv

LEMMA UnchangedIInv == IInv /\ UNCHANGED vars => IInv'
<1> SUFFICES ASSUME IInv, UNCHANGED vars PROVE IInv' OBVIOUS
<1>1. TypeOK BY DEF IInv
<1>2. /\ UNCHANGED <<send, state, mode, mine, stale, order, status, turn, context, durable>>
      /\ UNCHANGED <<wake, drain, cold>>
  BY DEF vars, inbox, target
<1>3. Onward /\ Undelivered BY <1>1, <1>2, Staying
<1>4. TypeOK' BY <1>1, <1>2 DEF TypeOK
<1> QED BY <1>1, <1>2, <1>3, <1>4, SentKept, ContextKept, DrainKept, TurnKept DEF IInv, TypeOK

LEMMA NextIInv == IInv /\ [Next]_vars => IInv'
<1> SUFFICES ASSUME IInv, [Next]_vars PROVE IInv' OBVIOUS
<1>1. CASE Store BY <1>1, AgeIInv, ListIInv DEF Store
<1>2. ASSUME NEW m \in Messages, Sender(m) PROVE IInv'
  BY <1>2, CheckLimitIInv, EnqueueIInv DEF Sender
<1>3. CASE DrainWake BY <1>3, DrainWakeIInv
<1>4. CASE DrainStep
  BY <1>4, DrainCheckIInv, DrainClaimIInv, DrainEmptyIInv, DrainThrowsIInv,
     DrainDispatchFailsIInv, DrainSettleIInv, DrainGivesUpIInv
     DEF DrainStep
<1>5. CASE DrainDispatch BY <1>5, DrainDispatchIInv
<1>6. CASE TurnStep
  <2>1. CASE PersistPrompt BY <2>1, PersistPromptIInv
  <2>2. CASE ConfirmPrompt BY <2>2, ConfirmPromptIInv
  <2>3. CASE SteeringClaimed BY <2>3, SteeringClaimedIInv
  <2>4. CASE AppendSteering BY <2>4, AppendSteeringIInv
  <2>5. CASE SaveSteering BY <2>5, SaveSteeringIInv
  <2>6. ASSUME NEW m \in Messages, ClaimSteering(m) PROVE IInv' BY <2>6, ClaimSteeringIInv
  <2>7. ASSUME NEW m \in Messages, MarkSteering(m) PROVE IInv' BY <2>7, MarkSteeringIInv
  <2>8. CASE SteeringMarked BY <2>8, SteeringMarkedIInv
  <2>9. CASE ModelAnswers BY <2>9, ModelAnswersIInv
  <2>10. CASE Throw BY <2>10, ThrowIInv
  <2>11. CASE Fail BY <2>11, FailIInv
  <2>12. CASE End BY <2>12, EndIInv
  <2> QED BY <1>6, <2>1, <2>2, <2>3, <2>4, <2>5, <2>6, <2>7, <2>8, <2>9, <2>10, <2>11, <2>12
      DEF TurnStep
<1>7. CASE User BY <1>7, UserIInv
<1>8. CASE Crash BY <1>8, CrashIInv
<1>9. CASE UNCHANGED vars BY <1>9, UnchangedIInv
<1> QED BY <1>1, <1>2, <1>3, <1>4, <1>5, <1>6, <1>7, <1>8, <1>9 DEF Next

-----------------------------------------------------------------------------

\* The inductive invariant holds in every state: a message is with nobody, the
\* drain, the turn or the context, and with one of them only.
THEOREM Invariance == Spec => []IInv
BY InitIInv, NextIInv, PTL DEF Spec

\* The inbox, the drain and the turn keep their types; a turn stays within its
\* iteration ceiling however often steering continues it.
THEOREM TypeCorrect == Spec => []TypeOK
<1>1. IInv => TypeOK BY DEF IInv
<1> QED BY <1>1, Invariance, PTL

\* A delivered message is in the stored context, and one that can be claimed has
\* never been in it: a crash between the snapshot and the confirmation neither
\* loses nor repeats it.
THEOREM StateTellsContextHolds == Spec => []StateTellsContext
<1>1. IInv => StateTellsContext
  <2> SUFFICES ASSUME IInv, NEW m \in Messages
               PROVE  /\ state[m] = "delivered" => durable[m] > 0
                      /\ state[m] = "pending" => context[m] = 0 /\ durable[m] = 0
    BY DEF StateTellsContext
  <2>1. durable[m] \in Nat /\ context[m] \in Nat BY DEF IInv, TypeOK
  <2>2. /\ durable[m] <= context[m]
        /\ state[m] = "pending" => context[m] = 0
        /\ state[m] = "delivered" => durable[m] = 1
    BY DEF IInv, ContextInv, Fresh
  <2> QED BY <2>1, <2>2
<1> QED BY <1>1, Invariance, PTL

\* No message enters the context of its target twice, whatever its limit, the
\* number of messages and the interleaving of the drain with the turns.
THEOREM NeverTwiceHolds == Spec => []NeverTwice
<1>1. IInv => NeverTwice
  <2> SUFFICES ASSUME IInv, NEW m \in Messages PROVE context[m] <= 1 /\ durable[m] <= 1
    BY DEF NeverTwice
  <2>1. durable[m] \in Nat /\ context[m] \in Nat BY DEF IInv, TypeOK
  <2>2. durable[m] <= context[m] /\ context[m] <= 1 BY DEF IInv, ContextInv
  <2> QED BY <2>1, <2>2
<1> QED BY <1>1, Invariance, PTL

\* A step settles a claim, of its owner, or leaves the settled alone.
LEMMA StepIsFinal == IInv /\ [Next]_vars => Final
<1> SUFFICES ASSUME IInv, [Next]_vars PROVE Final OBVIOUS
<1>1. TypeOK /\ SentOnce BY DEF IInv
<1>2. CASE UNCHANGED state BY <1>1, <1>2, Staying
<1>3. CASE state' = Recovered BY <1>1, <1>3, Recovering
<1>4. ASSUME NEW m, NEW modes, ClaimNext(m, modes) PROVE Final BY <1>1, <1>4, Claiming
<1>5. ASSUME NEW ms, NEW outcome \in {"delivered", "uncertain"}, Settle(ms, outcome) PROVE Final
  BY <1>1, <1>5, Settling
<1>6. ASSUME NEW m \in Messages, NEW effectiveMode \in {"steer", "follow_up"},
             Enqueue(m, effectiveMode)
      PROVE  Final
  <2>1. state[m] = None BY <1>1, <1>6 DEF Enqueue, SentOnce
  <2>2. Recovered \in [Messages -> States] BY <1>1 DEF Recovered, States, TypeOK
  <2>3. \A x \in Messages : x # m =>
          state'[x] = IF state[x] = "claimed" /\ x \in stale THEN "uncertain" ELSE state[x]
    BY <1>6, <2>2 DEF Enqueue, Recovered
  <2> QED BY <2>1, <2>3 DEF Final, None
<1>7. CASE Store BY <1>2, <1>3, <1>7 DEF Store, List, Age
<1>8. ASSUME NEW m \in Messages, Sender(m) PROVE Final
  BY <1>3, <1>6, <1>8 DEF Sender, CheckLimit
<1>9. CASE DrainWake \/ DrainDispatch BY <1>2, <1>9 DEF DrainWake, DrainDispatch, inbox
<1>10. CASE DrainStep
  <2>1. CASE DrainCheck BY <1>2, <2>1 DEF DrainCheck, inbox
  <2>2. ASSUME NEW m \in Messages, DrainClaim(m) PROVE Final BY <1>4, <2>2 DEF DrainClaim
  <2>3. CASE DrainEmpty BY <1>3, <2>3 DEF DrainEmpty, ClaimNone
  <2>4. CASE DrainThrows \/ DrainDispatchFails
    BY <1>2, <2>4 DEF DrainThrows, DrainDispatchFails, inbox
  <2>5. CASE DrainSettle \/ DrainGivesUp
    BY <1>2, <1>5, <2>5 DEF DrainSettle, DrainGivesUp, inbox
  <2> QED BY <1>10, <2>1, <2>2, <2>3, <2>4, <2>5 DEF DrainStep
<1>11. CASE TurnStep
  <2>1. CASE PersistPrompt \/ AppendSteering \/ SaveSteering \/ SteeringMarked
    BY <1>2, <2>1 DEF PersistPrompt, AppendSteering, SaveSteering, SteeringMarked, inbox
  <2>2. CASE ModelAnswers \/ Throw \/ End BY <1>2, <2>2 DEF ModelAnswers, Throw, End, inbox
  <2>3. CASE ConfirmPrompt BY <1>2, <1>5, <2>3 DEF ConfirmPrompt, inbox
  <2>4. CASE SteeringClaimed BY <1>2, <1>3, <2>4 DEF SteeringClaimed, ClaimNone, inbox
  <2>5. ASSUME NEW m \in Messages, ClaimSteering(m) PROVE Final BY <1>4, <2>5 DEF ClaimSteering
  <2>6. ASSUME NEW m \in Messages, MarkSteering(m) PROVE Final
    BY <1>2, <1>5, <2>6 DEF MarkSteering, inbox
  <2>7. CASE Fail BY <1>5, <2>7 DEF Fail
  <2> QED BY <1>11, <2>1, <2>2, <2>3, <2>4, <2>5, <2>6, <2>7 DEF TurnStep
<1>12. CASE User BY <1>2, <1>12 DEF User, UserPrompt, Pause, Resume, SetStatus, inbox
<1>13. CASE Crash BY <1>2, <1>13 DEF Crash
<1>14. CASE UNCHANGED vars BY <1>2, <1>14 DEF vars, inbox
<1> QED BY <1>7, <1>8, <1>9, <1>10, <1>11, <1>12, <1>13, <1>14 DEF Next

\* A stale claim stays uncertain and a delivered message delivered: no late
\* confirmation, no recovery and no crash turns an outcome into another.
THEOREM OutcomeIsFinalHolds == Spec => OutcomeIsFinal
BY Invariance, StepIsFinal, PTL DEF Spec, OutcomeIsFinal, Final
=============================================================================
