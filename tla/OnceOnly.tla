------------------------------ MODULE OnceOnly ------------------------------
(***************************************************************************)
(* What the command journals promise, whatever the storage under them: the *)
(* operation behind a key is claimed once, invoked at most once, decided   *)
(* at most once; a caller is told the decided result, or "uncertain" about *)
(* a key that was claimed.  There is no way back to "fresh", so nothing    *)
(* uncertain is ever replayed.                                             *)
(***************************************************************************)
CONSTANTS Keys, Results

Uncertain == "uncertain"
None == "none"

VARIABLES phase, result, replies

vars == <<phase, result, replies>>

Init == /\ phase = [k \in Keys |-> "fresh"]
        /\ result = [k \in Keys |-> None]
        /\ replies = [k \in Keys |-> {}]

Claim(k) == /\ phase[k] = "fresh"
            /\ phase' = [phase EXCEPT ![k] = "claimed"]
            /\ UNCHANGED <<result, replies>>

Invoke(k) == /\ phase[k] = "claimed"
             /\ phase' = [phase EXCEPT ![k] = "invoked"]
             /\ UNCHANGED <<result, replies>>

\* The decision may be told in the same step to those who wait for it.
Decide(k, r) ==
    /\ phase[k] = "invoked" /\ result[k] = None
    /\ result' = [result EXCEPT ![k] = r]
    /\ replies' \in {replies, [replies EXCEPT ![k] = @ \cup {r}]}
    /\ UNCHANGED phase

TellResult(k) == /\ result[k] # None
                 /\ replies' = [replies EXCEPT ![k] = @ \cup {result[k]}]
                 /\ UNCHANGED <<phase, result>>

TellUncertain(k) == /\ phase[k] # "fresh"
                    /\ replies' = [replies EXCEPT ![k] = @ \cup {Uncertain}]
                    /\ UNCHANGED <<phase, result>>

Next == \E k \in Keys : \/ Claim(k) \/ Invoke(k)
                        \/ \E r \in Results : Decide(k, r)
                        \/ TellResult(k) \/ TellUncertain(k)

Spec == Init /\ [][Next]_vars
=============================================================================
