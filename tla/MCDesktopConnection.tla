-------------------------- MODULE MCDesktopConnection --------------------------
(***************************************************************************)
(* The owner window and one follower, the local backend and one remote.    *)
(* A behaviour has one of these bounds, so what they allow adds up and     *)
(* does not multiply.                                                      *)
(***************************************************************************)
EXTENDS DesktopConnection

MCBound(asks, leaves, revokes, faults, saves, restarts) ==
    [asks |-> asks, leaves |-> leaves, revokes |-> revokes, faults |-> faults,
     saves |-> saves, restarts |-> restarts]

MCBounds == { MCBound(2, 1, 1, 0, 0, 0),    \* requests, navigations and a revocation
              MCBound(2, 1, 0, 1, 0, 0),    \* requests, navigations and a timeout
              MCBound(3, 0, 0, 0, 0, 0),    \* three requests on each other's heels
              MCBound(1, 1, 1, 2, 0, 0),    \* one request and an unreliable backend
              MCBound(2, 0, 0, 0, 1, 1),    \* a remembered session and a restart
              MCBound(1, 1, 1, 1, 1, 1) }   \* a little of everything
=============================================================================
