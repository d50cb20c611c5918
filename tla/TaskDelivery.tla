---------------------------- MODULE TaskDelivery ----------------------------
(***************************************************************************)
(* What a thread promises whoever sends it a prompt, without the queue,     *)
(* the turn, the row, the agent's process or the restarts that keep it      *)
(* (docs/restart-unconfirmed-prompts.md):                                   *)
(*                                                                          *)
(*   - the prompt is written to an agent at most once;                      *)
(*   - the agent is told to continue it only once it holds it;              *)
(*   - it ends with one result, after which no agent hears of it again.     *)
(***************************************************************************)
EXTENDS Naturals

CONSTANT Prompts

VARIABLES accepted, delivered, held, continued, ended

vars == <<accepted, delivered, held, continued, ended>>

Init ==
    /\ accepted = {} /\ held = {} /\ continued = {}
    /\ delivered = [p \in Prompts |-> 0]
    /\ ended = [p \in Prompts |-> 0]

Open(p) == p \in accepted /\ ended[p] = 0

Accept(p) ==
    /\ p \notin accepted
    /\ accepted' = accepted \union {p}
    /\ UNCHANGED <<delivered, held, continued, ended>>

Deliver(p) ==
    /\ Open(p) /\ delivered[p] = 0
    /\ delivered' = [delivered EXCEPT ![p] = 1]
    /\ UNCHANGED <<accepted, held, continued, ended>>

Hold(p) ==
    /\ Open(p) /\ delivered[p] = 1
    /\ held' = held \union {p}
    /\ UNCHANGED <<accepted, delivered, continued, ended>>

ContinueTask(p) ==
    /\ Open(p) /\ p \in held
    /\ continued' = continued \union {p}
    /\ UNCHANGED <<accepted, delivered, held, ended>>

End(p) ==
    /\ Open(p)
    /\ ended' = [ended EXCEPT ![p] = 1]
    /\ UNCHANGED <<accepted, delivered, held, continued>>

Next == \E p \in Prompts : Accept(p) \/ Deliver(p) \/ Hold(p) \/ ContinueTask(p) \/ End(p)

Spec == Init /\ [][Next]_vars
=============================================================================
