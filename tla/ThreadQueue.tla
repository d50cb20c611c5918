---------------------------- MODULE ThreadQueue ----------------------------
(***************************************************************************)
(* One thread's message queue while the server runs: clients append, edit,  *)
(* reorder, delete and steer queued messages, other threads leave hidden    *)
(* ones, the user starts turns directly, turns end and the queue drains.    *)
(*                                                                          *)
(* Every change of the queue is a load and a later save of the whole row    *)
(* under the thread's lock; the turn's own writes (Send, the status writes) *)
(* are single statements that take no lock and fall in between.  One        *)
(* goroutine per message carries it from the queue to the agent.            *)
(*                                                                          *)
(* accepted, begun, withdrawn, edits and parked are history.                      *)
(***************************************************************************)
EXTENDS SequencesExt

CONSTANTS
    Public,     \* messages of users and of their clients
    Internal,   \* hidden messages: other threads' results, wakes
    None,
    MaxDrains,  \* bound on drains asked for and not yet begun
    MaxEdits,   \* bound on reorders and rewordings
    Steers      \* whether the user steers queued messages

Messages == Public \union Internal

ASSUME MessagesDisjoint == Public \cap Internal = {} /\ None \notin Messages

ASSUME BoundsAreNatural == MaxDrains \in Nat \ {0} /\ MaxEdits \in Nat /\ Steers \in BOOLEAN

VARIABLES
    row,        \* threads: status, turn, queue, pending_steer_message
    lock,       \* the thread's lock: the row its holder is about to save
    runner,     \* per message, the goroutine that carries it to the agent
    job,        \* jobState: the turn that runs or ends
    drains,     \* drainQueueSoon calls not yet begun
    accepted, begun, withdrawn, edits, parked

history == <<accepted, begun, withdrawn, edits, parked>>
vars    == <<row, lock, runner, job, drains, history>>

----------------------------------------------------------------------------
(* Types *)

MaybeMessage == Messages \union {None}

\* The queue is kept as its two subsequences: what is public, and what is
\* not. Nothing depends on how the two interleave.
Rows == [status: {"idle", "running", "error"}, turn: MaybeMessage,
         public: Seq(Public), internal: Seq(Internal), steer: MaybeMessage]

EmptyRow == [status |-> "idle", turn |-> None, public |-> <<>>, internal |-> <<>>, steer |-> None]

\* What the lock's holder does with the row it loaded.
Ops == {"free", "append", "edit", "delete", "title", "direct", "steer", "restart", "put back", "clear"}

Locks == [op: Ops, msg: MaybeMessage, at: Nat \ {0}, row: Rows]

Free == [op |-> "free", msg |-> None, at |-> 1, row |-> EmptyRow]

Steps == {"none", "start", "direct", "steer", "cancel", "mark", "restart", "clear", "put back"}

Runners == [step: Steps, at: Nat \ {0}]   \* at: where a failed start puts it back

NoRunner == [step |-> "none", at |-> 1]

Jobs == [phase: {"absent", "idle", "running", "finishing", "draining"},
         msg: MaybeMessage, ending: {"", "idle", "failed", "cancelled"}]

NoTurn(phase) == [phase |-> phase, msg |-> None, ending |-> ""]

TypeOK ==
    /\ row \in Rows
    /\ lock \in Locks
    /\ runner \in [Messages -> Runners]
    /\ job \in Jobs
    /\ drains \in 0..MaxDrains
    /\ accepted \subseteq Messages
    /\ begun \in [Messages -> 0..2]
    /\ withdrawn \subseteq Public
    /\ edits \in 0..MaxEdits
    /\ parked \in BOOLEAN

Init ==
    /\ row = EmptyRow
    /\ lock = Free
    /\ runner = [m \in Messages |-> NoRunner]
    /\ job = NoTurn("absent")
    /\ drains = 0
    /\ accepted = {} /\ withdrawn = {} /\ edits = 0 /\ parked = FALSE
    /\ begun = [m \in Messages |-> 0]

----------------------------------------------------------------------------
(* The row and the lock *)

TakesQueuedTurns_Any(r) == r.status \in {"idle", "error", "running"}

TakesQueuedTurns(r) == r.status \in {"idle", "error"}

HasWaiting(r) == r.public # <<>> \/ r.internal # <<>>

\* Without a job the row's status decides.
RuntimeRunning == IF job.phase = "absent" THEN row.status = "running" ELSE job.phase = "running"

Restored_AtEnd(s, at, m) == Append(s, m)

\* The index a prompt had is only good while the queue is as long as it was.
Restored(s, at, m) == InsertAt(s, IF at > Len(s) THEN Len(s) + 1 ELSE at, m)

WithRestored_AllPublic(r, at, m) == [r EXCEPT !.public = Restored(@, at, m)]

WithRestored(r, at, m) ==
    IF m \in Public THEN [r EXCEPT !.public = Restored(@, at, m)]
                    ELSE [r EXCEPT !.internal = Restored(@, at, m)]

\* The upsert writes every column of the loaded row but turn, which it keeps
\* for a running thread and clears for any other.
SaveSession(r) == row' = [r EXCEPT !.turn = IF r.status = "running" THEN row.turn ELSE None]

UpdateSessionStatus(s) ==
    row' = [row EXCEPT !.status = s, !.turn = IF s = "running" THEN @ ELSE None]

Hold(op, m, at, r) ==
    /\ lock = Free
    /\ lock' = [op |-> op, msg |-> m, at |-> at, row |-> r]

DrainSoon(r) == drains' = IF TakesQueuedTurns(r) /\ HasWaiting(r) THEN drains + 1 ELSE drains

Step(m) == runner[m].step

Become(m, step) == runner' = [runner EXCEPT ![m] = IF step = "none" THEN NoRunner ELSE [@ EXCEPT !.step = step]]

Fresh(m) == m \notin accepted /\ Step(m) = "none" /\ lock.msg # m

----------------------------------------------------------------------------
(* Clients: each load, with the change made to the loaded queue. The save   *)
(* that follows is SaveQueue.                                               *)

LoadAppend(m) ==
    /\ Fresh(m) /\ drains < MaxDrains
    /\ Hold("append", m, 1, [row EXCEPT !.public = Append(@, m)])
    /\ UNCHANGED <<row, runner, job, drains, history>>

LoadReorder ==
    /\ drains < MaxDrains /\ edits < MaxEdits
    /\ \E s \in SetToSeqs(Range(row.public)) : Hold("edit", None, 1, [row EXCEPT !.public = s])
    /\ UNCHANGED <<row, runner, job, drains, history>>

LoadDelete ==
    /\ drains < MaxDrains
    /\ \E i \in DOMAIN row.public :
          Hold("delete", row.public[i], 1, [row EXCEPT !.public = RemoveAt(@, i)])
    /\ UNCHANGED <<row, runner, job, drains, history>>

\* generateAndSaveSessionTitle, which leaves the queue as it is and drains nothing.
LoadTitle ==
    /\ Hold("title", None, 1, row)
    /\ UNCHANGED <<row, runner, job, drains, history>>

SaveQueue ==
    /\ lock.op \in {"append", "edit", "delete", "title"}
    /\ SaveSession(lock.row)
    /\ lock' = Free
    /\ IF lock.op = "title" THEN UNCHANGED drains ELSE DrainSoon(row')
    /\ accepted' = IF lock.op = "append" THEN accepted \union {lock.msg} ELSE accepted
    /\ edits' = IF lock.op = "edit" THEN edits + 1 ELSE edits
    /\ withdrawn' = IF lock.op = "delete" THEN withdrawn \union {lock.msg} ELSE withdrawn
    /\ UNCHANGED <<runner, job, begun, parked>>

\* QueueInternalTurn: one statement appends; nothing else changes the queue
\* while the lock is held.
EnqueueInternal(m) ==
    /\ lock = Free /\ Fresh(m) /\ drains < MaxDrains
    /\ row' = [row EXCEPT !.internal = Append(@, m)]
    /\ accepted' = accepted \union {m}
    /\ drains' = IF TakesQueuedTurns(row) /\ ~RuntimeRunning THEN drains + 1 ELSE drains
    /\ UNCHANGED <<lock, runner, job, begun, withdrawn, edits, parked>>

----------------------------------------------------------------------------
(* Turns the user starts directly *)

LoadDirect(m) ==
    /\ Fresh(m)
    /\ row.status # "running" /\ ~RuntimeRunning
    /\ Hold("direct", m, 1, [row EXCEPT !.status = "running"])
    /\ UNCHANGED <<row, runner, job, drains, history>>

\* ClaimTurn refuses a thread that runs by now; the whole row is saved after
\* it, and Send follows once the lock is released.
ClaimDirect ==
    /\ lock.op = "direct" /\ row.status # "running"
    /\ row' = [lock.row EXCEPT !.turn = lock.msg]
    /\ Become(lock.msg, "direct")
    /\ lock' = Free
    /\ UNCHANGED <<job, drains, history>>

ClaimDirectRefused ==
    /\ lock.op = "direct" /\ row.status = "running"
    /\ lock' = Free
    /\ UNCHANGED <<row, runner, job, drains, history>>

\* A message for a thread that runs goes into its turn (or to the queue:
\* LoadAppend).
DirectSteers(m) ==
    /\ Fresh(m)
    /\ job.phase = "running" /\ row.status = "running" /\ row.turn # None
    /\ accepted' = accepted \union {m}
    /\ begun' = [begun EXCEPT ![m] = 1]
    /\ UNCHANGED <<row, lock, runner, job, drains, withdrawn, edits, parked>>

\* The caller hears of the failure and nothing is queued.
DirectFails(m) ==
    /\ Step(m) = "direct"
    /\ UpdateSessionStatus("error")
    /\ Become(m, "none")
    /\ parked' = TRUE
    /\ UNCHANGED <<lock, job, drains, accepted, begun, withdrawn, edits>>

----------------------------------------------------------------------------
(* From the queue to the agent *)

NextPrompt(r) == IF r.public # <<>> THEN Head(r.public) ELSE Head(r.internal)

WithoutNextPrompt(r) ==
    IF r.public # <<>> THEN [r EXCEPT !.public = Tail(@)] ELSE [r EXCEPT !.internal = Tail(@)]

\* claimNextTurn. It decides on the row its transaction reads.
ClaimNextTurn ==
    \/ /\ TakesQueuedTurns(row) /\ ~RuntimeRunning /\ HasWaiting(row)
       /\ row' = [WithoutNextPrompt(row) EXCEPT !.status = "running", !.turn = NextPrompt(row)]
       /\ runner' = [runner EXCEPT ![NextPrompt(row)] = [step |-> "start", at |-> 1]]
       /\ parked' = FALSE
    \/ /\ ~(TakesQueuedTurns(row) /\ ~RuntimeRunning /\ HasWaiting(row))
       /\ UNCHANGED <<row, runner, parked>>

Drain_Unlocked ==
    /\ drains > 0
    /\ drains' = drains - 1
    /\ ClaimNextTurn
    /\ UNCHANGED <<lock, job, accepted, begun, withdrawn, edits>>

Drain ==
    /\ drains > 0 /\ lock = Free
    /\ drains' = drains - 1
    /\ ClaimNextTurn
    /\ UNCHANGED <<lock, job, accepted, begun, withdrawn, edits>>

\* Send registers a job first if there is none. The row it saves then is one
\* it just loaded (AgentStart makes that two steps).
ResumeAgent ==
    /\ job.phase = "absent" /\ \E m \in Messages : Step(m) \in {"start", "direct", "restart"}
    /\ job' = NoTurn("idle")
    /\ UNCHANGED <<row, lock, runner, drains, history>>

RetireAgent ==
    /\ job.phase = "idle"
    /\ job' = NoTurn("absent")
    /\ UNCHANGED <<row, lock, runner, drains, history>>

\* claimTurn stores the turn and begins it under the job's lock.
StartTurn(m) ==
    /\ Step(m) \in {"start", "direct", "restart"} /\ job.phase = "idle"
    /\ row' = [row EXCEPT !.status = "running", !.turn = m]
    /\ job' = [phase |-> "running", msg |-> m, ending |-> ""]
    /\ begun' = [begun EXCEPT ![m] = IF @ = 0 THEN 1 ELSE 2]
    /\ accepted' = accepted \union {m}
    /\ Become(m, IF Step(m) = "restart" THEN "clear" ELSE "none")
    /\ UNCHANGED <<lock, drains, withdrawn, edits, parked>>

\* A start fails for its own reasons, and when another turn runs; while one
\* ends, Send waits.
StartRefused(m) ==
    /\ Step(m) \in {"start", "restart"}
    /\ Become(m, "put back")
    /\ UNCHANGED <<row, lock, job, drains, history>>

LoadRestore_KeepsPending(m) ==
    /\ Step(m) = "put back"
    /\ Hold("put back", m, runner[m].at, [WithRestored(row, runner[m].at, m) EXCEPT !.status = "error"])
    /\ UNCHANGED <<row, runner, job, drains, history>>

LoadRestore(m) ==
    /\ Step(m) = "put back"
    /\ Hold("put back", m, runner[m].at,
            [WithRestored(row, runner[m].at, m) EXCEPT !.steer = None, !.status = "error"])
    /\ UNCHANGED <<row, runner, job, drains, history>>

\* The thread then waits: nothing drains it, and the message would fail again.
SaveRestore ==
    /\ lock.op = "put back"
    /\ SaveSession(lock.row)
    /\ lock' = Free
    /\ Become(lock.msg, "none")
    /\ parked' = TRUE
    /\ UNCHANGED <<job, drains, accepted, begun, withdrawn, edits>>

----------------------------------------------------------------------------
(* Steering a queued message *)

LoadSteer_Kept ==
    /\ Steers
    /\ \E i \in DOMAIN row.public :
          Hold(IF RuntimeRunning THEN "steer" ELSE "restart", row.public[i], i,
               [row EXCEPT !.steer = row.public[i], !.status = IF RuntimeRunning THEN @ ELSE "running"])
    /\ UNCHANGED <<row, runner, job, drains, history>>

LoadSteer ==
    /\ Steers
    /\ \E i \in DOMAIN row.public :
          LET m == row.public[i] IN
          Hold(IF RuntimeRunning THEN "steer" ELSE "restart", m, i,
               [row EXCEPT !.public = RemoveAt(@, i), !.steer = m,
                           !.status = IF RuntimeRunning THEN @ ELSE "running"])
    /\ UNCHANGED <<row, runner, job, drains, history>>

SaveSteer ==
    /\ lock.op \in {"steer", "restart"}
    /\ SaveSession(lock.row)
    /\ lock' = Free
    /\ runner' = [runner EXCEPT ![lock.msg] = [step |-> lock.op, at |-> lock.at]]
    /\ UNCHANGED <<job, drains, history>>

\* reserveSteer needs the turn in the job and in the row.
SteerAccepted(m) ==
    /\ Step(m) = "steer"
    /\ job.phase = "running" /\ row.status = "running" /\ row.turn # None
    /\ begun' = [begun EXCEPT ![m] = IF @ = 0 THEN 1 ELSE 2]
    /\ Become(m, "clear")
    /\ UNCHANGED <<row, lock, job, drains, accepted, withdrawn, edits, parked>>

\* The turn ended meanwhile, its next prompt is on its way, or the agent
\* takes no steers.
SteerUnsupported(m) ==
    /\ Step(m) = "steer"
    /\ Become(m, "cancel")
    /\ UNCHANGED <<row, lock, job, drains, history>>

SteerFails(m) ==
    /\ Step(m) = "steer"
    /\ Become(m, "put back")
    /\ UNCHANGED <<row, lock, job, drains, history>>

\* cancelStored saves the row it just loaded, without the thread's lock.
CancelStored == job.phase = "absent" /\ row' = [row EXCEPT !.status = "idle", !.turn = None]

\* Its wait for the turn to end has a timeout, so it may be over before that.
CancelForSteer(m) ==
    /\ Step(m) = "cancel"
    /\ \/ job.phase = "running" /\ job' = [job EXCEPT !.phase = "finishing", !.ending = "cancelled"]
                                /\ UNCHANGED row
       \/ CancelStored /\ UNCHANGED job
       \/ job.phase \notin {"running", "absent"} /\ UNCHANGED <<row, job>>
    /\ Become(m, "mark")
    /\ UNCHANGED <<lock, drains, history>>

MarkRunning(m) ==
    /\ Step(m) = "mark"
    /\ UpdateSessionStatus("running")
    /\ Become(m, "restart")
    /\ UNCHANGED <<lock, job, drains, history>>

LoadClear(m) ==
    /\ Step(m) = "clear" /\ row.steer # None
    /\ Hold("clear", m, 1, [row EXCEPT !.steer = None])
    /\ UNCHANGED <<row, runner, job, drains, history>>

NothingToClear(m) ==
    /\ Step(m) = "clear" /\ row.steer = None /\ lock = Free
    /\ Become(m, "none")
    /\ UNCHANGED <<row, lock, job, drains, history>>

SaveClear ==
    /\ lock.op = "clear"
    /\ SaveSession(lock.row)
    /\ lock' = Free
    /\ Become(lock.msg, "none")
    /\ UNCHANGED <<job, drains, history>>

----------------------------------------------------------------------------
(* Turns end *)

TurnEnds ==
    /\ job.phase = "running"
    /\ \E ending \in {"idle", "failed"} : job' = [job EXCEPT !.phase = "finishing", !.ending = ending]
    /\ UNCHANGED <<row, lock, runner, drains, history>>

\* The user's stop of a running turn.
Stop ==
    /\ job.phase = "running"
    /\ job' = [job EXCEPT !.phase = "finishing", !.ending = "cancelled"]
    /\ UNCHANGED <<row, lock, runner, drains, history>>

FinishTurn_WithoutDrain ==
    /\ job.phase = "finishing" /\ lock = Free
    /\ UpdateSessionStatus(IF job.ending = "failed" THEN "error" ELSE "idle")
    /\ job' = NoTurn("idle")
    /\ parked' = FALSE
    /\ UNCHANGED <<lock, runner, drains, accepted, begun, withdrawn, edits>>

\* finishTurn up to its drain. Whether the row still has the turn decides who
\* hears of its end, not what the row becomes.
FinishTurn ==
    /\ job.phase = "finishing" /\ lock = Free
    /\ UpdateSessionStatus(IF job.ending = "failed" THEN "error" ELSE "idle")
    /\ job' = NoTurn(IF job.ending = "cancelled" /\ row.steer # None THEN "idle" ELSE "draining")
    /\ parked' = FALSE
    /\ UNCHANGED <<lock, runner, drains, accepted, begun, withdrawn, edits>>

\* The drain comes before jobState.finishing is lifted.
FinishDrains ==
    /\ job.phase = "draining" /\ lock = Free
    /\ job' = NoTurn("idle")
    /\ ClaimNextTurn
    /\ UNCHANGED <<lock, drains, accepted, begun, withdrawn, edits>>

----------------------------------------------------------------------------

Carry(m) ==
    \/ StartTurn(m) \/ StartRefused(m) \/ DirectFails(m)
    \/ SteerAccepted(m) \/ SteerUnsupported(m) \/ SteerFails(m)
    \/ CancelForSteer(m) \/ MarkRunning(m)

Settle(m) == LoadRestore(m) \/ LoadClear(m) \/ NothingToClear(m)

Save == SaveQueue \/ ClaimDirect \/ ClaimDirectRefused \/ SaveSteer \/ SaveRestore \/ SaveClear

Clients ==
    \/ \E m \in Public : LoadAppend(m) \/ LoadDirect(m) \/ DirectSteers(m)
    \/ \E m \in Internal : EnqueueInternal(m)
    \/ LoadReorder \/ LoadDelete \/ LoadTitle \/ LoadSteer \/ Stop

Next ==
    \/ Clients
    \/ \E m \in Messages : Carry(m) \/ Settle(m)
    \/ Save \/ Drain \/ ResumeAgent \/ RetireAgent \/ TurnEnds \/ FinishTurn \/ FinishDrains

Spec == Init /\ [][Next]_vars

\* Goroutines that hold a lock or a message run on; a mutex is fair, and every
\* wait of theirs has a timeout. Clients, agents and titles owe nothing.
Fairness ==
    /\ WF_vars(Save)
    /\ SF_vars(Drain) /\ SF_vars(FinishTurn) /\ SF_vars(FinishDrains)
    /\ \A m \in Messages : WF_vars(Carry(m)) /\ SF_vars(Settle(m))

FairSpec == Spec /\ Fairness

----------------------------------------------------------------------------
(* Properties *)

Occurrences(m, s) == Cardinality({i \in DOMAIN s : s[i] = m})

Queued(m) == Occurrences(m, row.public) + Occurrences(m, row.internal)

Carried(m) == Step(m) \in {"start", "steer", "cancel", "mark", "restart", "put back"}

\* No message is lost or doubled: one that Jaz took in waits in the queue, is
\* carried by one goroutine, was given to the agent, or was deleted by the
\* user, and only one of these, whatever loads, saves, claims, failed starts
\* and steers overlap (server/queue.go).
NoMessageLost ==
    \A m \in Messages :
        Queued(m) + (IF Carried(m) THEN 1 ELSE 0) + begun[m] + (IF m \in withdrawn THEN 1 ELSE 0)
          = IF m \in accepted THEN 1 ELSE 0

\* A pending steer is on its way: PendingSteer never outlives the goroutine of
\* the message it names, after which a stop would skip the drain for nothing
\* (turn_completion.go:109).
PendingSteerCarried ==
    row.steer # None => Step(row.steer) \in {"steer", "cancel", "mark", "restart", "put back", "clear"}

\* While a job's turn runs or its end is being recorded, the row holds that
\* turn: no save of a row loaded earlier and no failed start of another
\* message takes it away.
RowHoldsTurn ==
    job.phase \in {"running", "finishing"} => row.status = "running" /\ row.turn = job.msg

\* The queue implements MessageLine: messages start from the head of their
\* line, also after a failed start put one back. A claimed message is still
\* the head of its line until its turn begins.
Ahead(kind) == {m \in kind : Step(m) \in {"start", "put back"}}

Line == INSTANCE MessageLine WITH
    public   <- SetToSeq(Ahead(Public)) \o row.public,
    internal <- SetToSeq(Ahead(Internal)) \o row.internal,
    started  <- {m \in Messages : begun[m] > 0}

KeepsOrder == Line!Spec

\* A message that waits for a free thread gets its start, unless the thread
\* waits for the user because a start failed or the user stopped it
\* (takesQueuedTurns: "a failure costs only that turn and not the work queued
\* behind it").
FreeThreadMoves ==
    (TakesQueuedTurns(row) /\ HasWaiting(row)) ~> (row.status = "running" \/ ~HasWaiting(row) \/ parked)
=============================================================================
