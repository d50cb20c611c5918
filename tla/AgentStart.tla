----------------------------- MODULE AgentStart -----------------------------
(***************************************************************************)
(* ThreadQueue with the whole-row save of an agent's start as the code does *)
(* it: resumeLocked loads the thread's row, starts the agent's process and  *)
(* session, and then saves the row it loaded if the start changed anything  *)
(* in it, all without the thread's lock (it has the manager's resumeLocks). *)
(***************************************************************************)
EXTENDS ThreadQueue

VARIABLE loaded     \* the row of a start under way, as a set of at most one

startVars == <<vars, loaded>>

StartInit == Init /\ loaded = {}

\* A thread that was never started, or whose agent lost its session, gets a
\* new native session, which the save records.
LoadForStart ==
    /\ job.phase = "absent" /\ loaded = {}
    /\ \E m \in Messages : Step(m) \in {"start", "direct", "restart"}
    /\ loaded' = {row}
    /\ UNCHANGED vars

SaveAfterStart ==
    /\ \E r \in loaded : SaveSession(r)
    /\ job' = NoTurn("idle")
    /\ loaded' = {}
    /\ UNCHANGED <<lock, runner, drains, history>>

\* The other goroutines; resumeLocks keeps a second start out.
Meanwhile ==
    /\ Next
    /\ loaded # {} => job' = job
    /\ UNCHANGED loaded

StartSpec == StartInit /\ [][LoadForStart \/ SaveAfterStart \/ Meanwhile]_startVars
=============================================================================
