------------------------------ MODULE OrderGate ------------------------------
(***************************************************************************)
(* What the order-submit guard promises, without journal, processes,       *)
(* threads, crashes or reconciliation: one gate per fingerprint.  A        *)
(* submission takes the gate before it is sent, keeps it while the         *)
(* exchange may still act on it, and gives it back only after the exchange *)
(* has decided.  OrderSubmit implements this (OrderSubmit!GateRefined).    *)
(***************************************************************************)
CONSTANTS FPs, Attempts

VARIABLES
    held,  \* <<fingerprint, submission>>: the submission that has the gate
    stage  \* how far each submission is

gateVars == <<held, stage>>

GateInit ==
    /\ held = {}
    /\ stage = [a \in Attempts |-> "new"]

(* The submission takes the gate of its fingerprint, if nobody has it.     *)
Take(f, a) ==
    /\ stage[a] = "new"
    /\ \A h \in held : h[1] # f
    /\ held' = held \union {<<f, a>>}
    /\ stage' = [stage EXCEPT ![a] = "taken"]

(* It is sent at most once, while it has the gate.                         *)
Send(a) ==
    /\ stage[a] = "taken"
    /\ \E h \in held : h[2] = a
    /\ stage' = [stage EXCEPT ![a] = "sent"]
    /\ UNCHANGED held

Decide(a) ==
    /\ stage[a] = "sent"
    /\ stage' = [stage EXCEPT ![a] = "decided"]
    /\ UNCHANGED held

(* Only a decided submission gives the gate back.                          *)
GiveBack(h) ==
    /\ h \in held /\ stage[h[2]] = "decided"
    /\ held' = held \ {h}
    /\ UNCHANGED stage

GateNext ==
    \/ \E f \in FPs, a \in Attempts : Take(f, a)
    \/ \E a \in Attempts : Send(a) \/ Decide(a)
    \/ \E h \in held : GiveBack(h)

GateSpec == GateInit /\ [][GateNext]_gateVars
=============================================================================
