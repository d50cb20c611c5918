---------------------------- MODULE ComputerUse ----------------------------
(***************************************************************************)
(* Scripts that control the machine.  A thread's page runs the agent's     *)
(* script (lib/computerConnection.ts, lib/computerRepl.ts over             *)
(* lib/scriptRepl.ts) and asks the main process (main/computerControl.ts)  *)
(* for the one lease of the machine, with a driver of its own              *)
(* (main/computerRuntime.ts).  The page's calls reach the main process in  *)
(* their order, but nothing tells the page what became of the lease.       *)
(*                                                                         *)
(* A client is the connection of one page; its window is the lease's       *)
(* owner.  A script's id is the number of its run, over all clients.       *)
(***************************************************************************)
EXTENDS Naturals, Sequences, FiniteSets

CONSTANTS Clients,    \* pages that run scripts
          MaxScripts  \* scripts run, over all of them

ASSUME MaxScriptsAssumption == MaxScripts \in Nat

VARIABLES client,   \* what each page is doing
          ipc,      \* the calls on their way from each page
          scripts,  \* how many scripts were run
          lease,    \* ComputerRuntime.active
          driver,   \* what became of the driver of each script
          aborted,  \* the scripts whose abort signal was raised
          calls,    \* the scripts with a driver call under way
          answered  \* ghost: the scripts whose run was answered

mainVars == <<lease, driver, aborted, calls>>
computerVars == <<client, ipc, scripts, mainVars, answered>>

NoScript == 0
NoClient == [phase |-> "idle", id |-> NoScript, cancelled |-> FALSE,
             reply |-> "none", acting |-> FALSE]
NoLease == [id |-> NoScript, owner |-> NoScript, begun |-> FALSE, closing |-> FALSE,
            awaited |-> FALSE]
Scripts == 1..MaxScripts

Pages == [phase : {"idle", "beginning", "running", "ending"}, id : 0..scripts,
          cancelled : BOOLEAN, reply : {"none", "ok", "failed", "ended"},
          acting : BOOLEAN]
Leases == [id : 0..scripts, owner : Clients \union {NoScript}, begun : BOOLEAN,
           closing : BOOLEAN, awaited : BOOLEAN]
Messages == {"begin", "call", "cancel", "end"} \X (1..scripts)
DriverStates == {"none", "checking", "creating", "live", "failed", "closed"}

ComputerInit ==
  /\ client = [c \in Clients |-> NoClient]
  /\ ipc = [c \in Clients |-> <<>>]
  /\ scripts = 0 /\ lease = NoLease
  /\ driver = [i \in Scripts |-> "none"]
  /\ aborted = {} /\ calls = {} /\ answered = {}

-----------------------------------------------------------------------------
(* The page *)

Sent(c, method) == ipc' = [ipc EXCEPT ![c] = Append(@, <<method, client[c].id>>)]

\* A script is run: first the machine is asked for.
Run(c) ==
  /\ client[c].phase = "idle" /\ scripts < MaxScripts
  /\ scripts' = scripts + 1
  /\ client' = [client EXCEPT ![c] = [NoClient EXCEPT !.phase = "beginning",
                                                      !.id = scripts + 1]]
  /\ ipc' = [ipc EXCEPT ![c] = Append(@, <<"begin", scripts + 1>>)]
  /\ UNCHANGED <<mainVars, answered>>

\* The lease is given up whatever came of the script.
Ending(c) ==
  /\ client' = [client EXCEPT ![c].phase = "ending", ![c].reply = "none",
                              ![c].acting = FALSE]
  /\ Sent(c, "end")

\* The machine was asked for: the script runs if it has it and was not
\* cancelled meanwhile.
BeginAnswered(c) ==
  /\ client[c].phase = "beginning" /\ client[c].reply # "none"
  /\ IF client[c].reply = "ok" /\ ~client[c].cancelled
     THEN /\ client' = [client EXCEPT ![c].phase = "running", ![c].reply = "none"]
          /\ UNCHANGED ipc
     ELSE Ending(c)
  /\ UNCHANGED <<scripts, mainVars, answered>>

\* The script acts; one action at a time is enough to see what two would do.
Act(c) ==
  /\ client[c].phase = "running" /\ ~client[c].cancelled /\ ~client[c].acting
  /\ client' = [client EXCEPT ![c].acting = TRUE]
  /\ Sent(c, "call")
  /\ UNCHANGED <<scripts, mainVars, answered>>

\* The script ends once its action returned; when it is cancelled it does not
\* wait for the action.
ScriptEnds(c) ==
  /\ client[c].phase = "running"
  /\ client[c].cancelled \/ ~client[c].acting
  /\ Ending(c)
  /\ UNCHANGED <<scripts, mainVars, answered>>

\* The server cancels the script, or the connection to it closes.
CancelScript(c) ==
  /\ client[c].phase # "idle" /\ ~client[c].cancelled
  /\ client' = [client EXCEPT ![c].cancelled = TRUE]
  /\ Sent(c, "cancel")
  /\ UNCHANGED <<scripts, mainVars, answered>>

\* The script has run for a minute: the action under way is cancelled.
ScriptTimeout(c) ==
  /\ client[c].phase = "running" /\ ~client[c].cancelled
  /\ client' = [client EXCEPT ![c].cancelled = TRUE]
  /\ IF client[c].acting THEN Sent(c, "cancel") ELSE UNCHANGED ipc
  /\ UNCHANGED <<scripts, mainVars, answered>>

\* The lease is gone: the script's run is answered.
EndAnswered(c) ==
  /\ client[c].phase = "ending" /\ client[c].reply = "ended"
  /\ answered' = answered \union {client[c].id}
  /\ client' = [client EXCEPT ![c] = NoClient]
  /\ UNCHANGED <<ipc, scripts, mainVars>>

-----------------------------------------------------------------------------
(* The main process *)

Owned(c, id) == lease.id = id /\ lease.owner = c

Replied(c, id, reply) ==
  client' = IF client[c].id = id THEN [client EXCEPT ![c].reply = reply] ELSE client

Closing == lease' = [lease EXCEPT !.closing = TRUE]

\* Mutant: a lease that is closing can be taken over.
Begin_Variant(c, id) ==
  /\ IF lease.id # NoScript /\ ~lease.closing
     THEN /\ Replied(c, id, "failed") /\ UNCHANGED <<lease, driver>>
     ELSE /\ lease' = [NoLease EXCEPT !.id = id, !.owner = c]
          /\ driver' = [driver EXCEPT ![id] = "checking"]
          /\ UNCHANGED client
  /\ UNCHANGED <<aborted, calls>>

\* The machine goes to the first who asks, until it is free again.
Begin(c, id) ==
  /\ IF lease.id # NoScript
     THEN /\ Replied(c, id, "failed") /\ UNCHANGED <<lease, driver>>
     ELSE /\ lease' = [NoLease EXCEPT !.id = id, !.owner = c]
          /\ driver' = [driver EXCEPT ![id] = "checking"]
          /\ UNCHANGED client
  /\ UNCHANGED <<aborted, calls>>

\* Mutant: an action is begun for a lease that is being cancelled.
Call_Variant(c, id) ==
  /\ IF Owned(c, id) /\ id \notin calls
     THEN calls' = calls \union {id} /\ UNCHANGED client
     ELSE /\ UNCHANGED calls
          /\ client' = IF client[c].id = id THEN [client EXCEPT ![c].acting = FALSE]
                                            ELSE client
  /\ UNCHANGED <<lease, driver, aborted>>

\* An action needs the lease, not closing, and no other action under way.
Call(c, id) ==
  /\ IF Owned(c, id) /\ id \notin aborted \union calls /\ ~lease.closing
     THEN calls' = calls \union {id} /\ UNCHANGED client
     ELSE /\ UNCHANGED calls
          /\ client' = IF client[c].id = id THEN [client EXCEPT ![c].acting = FALSE]
                                            ELSE client
  /\ UNCHANGED <<lease, driver, aborted>>

Cancel(c, id) ==
  /\ IF Owned(c, id)
     THEN aborted' = aborted \union {id} /\ Closing
     ELSE UNCHANGED <<aborted, lease>>
  /\ UNCHANGED <<client, driver, calls>>

\* The end is answered once the lease is closed.
End(c, id) ==
  /\ IF Owned(c, id)
     THEN lease' = [lease EXCEPT !.closing = TRUE, !.awaited = TRUE] /\ UNCHANGED client
     ELSE Replied(c, id, "ended") /\ UNCHANGED lease
  /\ UNCHANGED <<driver, aborted, calls>>

Deliver(c) ==
  /\ ipc[c] # <<>>
  /\ LET method == Head(ipc[c])[1]
         id == Head(ipc[c])[2]
     IN  \/ method = "begin" /\ Begin(c, id)
         \/ method = "call" /\ Call(c, id)
         \/ method = "cancel" /\ Cancel(c, id)
         \/ method = "end" /\ End(c, id)
  /\ ipc' = [ipc EXCEPT ![c] = Tail(@)]
  /\ UNCHANGED <<scripts, answered>>

\* A driver is made when the machine can be controlled; one already aborted
\* is not started, one being made is waited for.
Available(id, yes) ==
  /\ driver[id] = "checking"
  /\ driver' = [driver EXCEPT ![id] = IF yes /\ id \notin aborted THEN "creating"
                                      ELSE "failed"]
  /\ UNCHANGED <<client, ipc, scripts, lease, aborted, calls, answered>>

Created(id, yes) ==
  /\ driver[id] = "creating"
  /\ driver' = [driver EXCEPT ![id] = IF yes THEN "live" ELSE "failed"]
  /\ UNCHANGED <<client, ipc, scripts, lease, aborted, calls, answered>>

\* The driver listed its tools, or there is none: the script may go on, or the
\* lease is given up before it is told so.
Begun(listed) ==
  /\ lease.id # NoScript /\ ~lease.begun
  /\ driver[lease.id] \in {"live", "failed"}
  /\ IF listed /\ driver[lease.id] = "live" /\ lease.id \notin aborted
     THEN /\ lease' = [lease EXCEPT !.begun = TRUE]
          /\ Replied(lease.owner, lease.id, "ok")
     ELSE /\ lease' = [lease EXCEPT !.begun = TRUE, !.closing = TRUE]
          /\ UNCHANGED client
  /\ UNCHANGED <<ipc, scripts, driver, aborted, calls, answered>>

\* The driver ends an action; an aborted one it ends for certain.
CallReturns(id) ==
  /\ id \in calls
  /\ calls' = calls \ {id}
  /\ client' = [c \in Clients |->
                  IF client[c].id = id /\ client[c].phase = "running"
                  THEN [client[c] EXCEPT !.acting = FALSE] ELSE client[c]]
  /\ UNCHANGED <<ipc, scripts, lease, driver, aborted, answered>>

\* The action under way has ended and the driver, if there is one, is shut
\* down: the machine is free, and whoever waits for that is told.
Close ==
  /\ lease.closing /\ lease.id \notin calls
  /\ driver[lease.id] \in {"live", "failed"}
  /\ driver' = [driver EXCEPT ![lease.id] = "closed"]
  /\ lease' = NoLease
  /\ CASE lease.awaited -> Replied(lease.owner, lease.id, "ended")
       [] client[lease.owner].phase = "beginning" /\ client[lease.owner].reply = "none"
            -> Replied(lease.owner, lease.id, "failed")
       [] OTHER -> UNCHANGED client
  /\ UNCHANGED <<ipc, scripts, aborted, calls, answered>>

\* Mutant: a lease that is too old is closed without an abort.
LeaseTimeout_Variant ==
  /\ lease.id # NoScript /\ ~lease.closing
  /\ Closing
  /\ UNCHANGED <<client, ipc, scripts, driver, aborted, calls, answered>>

\* A lease is cancelled after 65 seconds.
LeaseTimeout ==
  /\ lease.id # NoScript /\ ~lease.closing
  /\ aborted' = aborted \union {lease.id}
  /\ Closing
  /\ UNCHANGED <<client, ipc, scripts, driver, calls, answered>>

\* A page is left, reloaded or lost: its lease is cancelled.  Calls it made
\* before may still come.
Gone(c) ==
  /\ client[c].phase # "idle" \/ lease.owner = c
  /\ client' = [client EXCEPT ![c] = NoClient]
  /\ IF lease.owner = c /\ lease.id # NoScript
     THEN aborted' = aborted \union {lease.id} /\ Closing
     ELSE UNCHANGED <<aborted, lease>>
  /\ UNCHANGED <<ipc, scripts, driver, calls, answered>>

-----------------------------------------------------------------------------
\* What time and an aborted driver do without being asked.
ComputerSystem ==
  \/ \E id \in Scripts, yes \in BOOLEAN : Available(id, yes) \/ Created(id, yes)
  \/ \E id \in aborted : CallReturns(id)
  \/ Close \/ LeaseTimeout

ComputerNext ==
  \/ ComputerSystem
  \/ \E listed \in BOOLEAN : Begun(listed)
  \/ \E id \in calls : CallReturns(id)
  \/ \E c \in Clients :
       \/ Run(c) \/ BeginAnswered(c) \/ Act(c) \/ ScriptEnds(c) \/ CancelScript(c)
       \/ ScriptTimeout(c) \/ EndAnswered(c) \/ Deliver(c) \/ Gone(c)

ComputerSpec == ComputerInit /\ [][ComputerNext]_computerVars

-----------------------------------------------------------------------------
(* Properties *)

\* Every script in the books was run, and a page that does nothing has none.
ComputerTypeOK ==
  /\ scripts \in 0..MaxScripts
  /\ client \in [Clients -> Pages]
  /\ \A c \in Clients : client[c].id = NoScript <=> client[c].phase = "idle"
  /\ ipc \in [Clients -> Seq(Messages)]
  /\ lease \in Leases
  /\ lease.id # NoScript => lease.owner \in Clients
  /\ driver \in [Scripts -> DriverStates]
  /\ aborted \union calls \union answered \subseteq 1..scripts

\* One script controls the machine: a driver that lives or is being made, and
\* an action under way, are the lease's.  When a script's run is answered its
\* driver is gone and nothing it started can still act.
OneScriptControls ==
  \A i \in Scripts :
    i \in calls \/ driver[i] \in {"checking", "creating", "live"} =>
      lease.id = i /\ i \notin answered

\* The lease keeps what MachineLease promises: a script has the machine once,
\* its actions reach a driver that lives, none is begun once the lease is ended,
\* cancelled or timed out, and it is given up when nothing acts any more
\* (main/computerRuntime.ts).
Machine == INSTANCE MachineLease WITH
  holder <- lease.id,
  ready  <- {i \in Scripts : driver[i] = "live"},
  over   <- {i \in Scripts : driver[i] # "none" /\ (lease.id # i \/ lease.closing)},
  acting <- calls,
  told   <- answered

KeepsLease == Machine!Spec

\* The machine comes free again: whatever becomes of the page, the connection
\* and the script, no script keeps the lease for ever, provided the driver ends
\* an action that is aborted.
MachineFreed == []<>(lease.id = NoScript)
=============================================================================
