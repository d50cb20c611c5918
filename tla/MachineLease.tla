---------------------------- MODULE MachineLease ----------------------------
(***************************************************************************)
(* What the machine's lease promises the user whose machine it is, without *)
(* the pages, the calls on their way, the drivers being made and the       *)
(* timeouts (main/computerRuntime.ts): the machine has one holder at a     *)
(* time, a script has it once, acts one action at a time while its driver  *)
(* lives, begins none once it is to give the machine up, and gives it up   *)
(* when the last one is over; its run is answered after that.              *)
(***************************************************************************)
CONSTANTS Scripts, NoScript

VARIABLES
    holder,  \* the script that has the machine
    ready,   \* the scripts whose driver lives
    over,    \* the scripts that gave the machine up, or are about to
    acting,  \* the scripts with an action under way
    told     \* the scripts whose run was answered

leaseVars == <<holder, ready, over, acting, told>>

Init == holder = NoScript /\ ready = {} /\ over = {} /\ acting = {} /\ told = {}

Take(i) ==
    /\ holder = NoScript /\ i \notin over \union told
    /\ holder' = i
    /\ UNCHANGED <<ready, over, acting, told>>

DriverStarts ==
    /\ holder # NoScript
    /\ ready' = ready \union {holder}
    /\ UNCHANGED <<holder, over, acting, told>>

Act ==
    /\ holder \in ready \ over /\ acting = {}
    /\ acting' = {holder}
    /\ UNCHANGED <<holder, ready, over, told>>

ActionEnds ==
    /\ acting' = {}
    /\ UNCHANGED <<holder, ready, over, told>>

\* The script ends, is cancelled, timed out or left, or its driver failed.
GiveUp ==
    /\ holder # NoScript
    /\ over' = over \union {holder}
    /\ UNCHANGED <<holder, ready, acting, told>>

Free ==
    /\ holder \in over /\ acting = {}
    /\ holder' = NoScript
    /\ ready' = ready \ {holder}
    /\ UNCHANGED <<over, acting, told>>

Tell(i) ==
    /\ i # holder
    /\ told' = told \union {i}
    /\ UNCHANGED <<holder, ready, over, acting>>

Next ==
    \/ \E i \in Scripts : Take(i) \/ Tell(i)
    \/ DriverStarts \/ Act \/ ActionEnds \/ GiveUp \/ Free

Spec == Init /\ [][Next]_leaseVars
=============================================================================
