----------------------------- MODULE UserConnection -----------------------------
(***************************************************************************)
(* What the user of the app is promised about its connection: at any time  *)
(* either no session is in force, or the one in force answers the last     *)
(* request.  A request the user has replaced never comes into force.       *)
(***************************************************************************)
EXTENDS Naturals

VARIABLES asked,    \* how many requests the user has made
          served    \* the request the session in force answers, 0 when there is none

Init == asked = 0 /\ served = 0

\* The user asks to connect, or to disconnect: what was in force is not any more.
Ask == asked' = asked + 1 /\ served' = 0

\* A session for the last request comes into force.
Serve == served = 0 /\ asked > 0 /\ served' = asked /\ UNCHANGED asked

\* The session ends: refused, lost or given up.
Drop == served' = 0 /\ UNCHANGED asked

Next == Ask \/ Serve \/ Drop

Spec == Init /\ [][Next]_<<asked, served>>
=============================================================================
