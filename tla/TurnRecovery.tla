---------------------------- MODULE TurnRecovery ----------------------------
(***************************************************************************)
(* One thread's turns across restarts: how a prompt gets from the thread's *)
(* queue (or the user's request) to its agent, what the thread's row        *)
(* records on the way, and what a restart does with a turn it cut short.    *)
(*                                                                          *)
(* Durable state (the SQLite row): status, turn and queue.  Memory of the   *)
(* server process, lost by a crash: the goroutines starting a turn, the     *)
(* running turn of the ACP manager's job, and the recovery sweep.           *)
(*                                                                          *)
(* held, delivered, continued, ended and accepted are history: what the outside world  *)
(* (the agent, the parent thread, the user) has seen.                       *)
(***************************************************************************)
EXTENDS Naturals

CONSTANTS
    Prompts,      \* the messages users and other threads send to the thread
    Continue,     \* "Continue from where you left off."
    Compact,      \* the /compact command
    None,
    MaxRetries,   \* length of the provider-failure retry schedule
    Tries,        \* how often the recovery sweep tries a thread
    MaxRestarts,  \* bound on crashes and shutdowns
    Preempt,      \* whether the user acts on a thread whose turn is not live
    AgentRuns,    \* whether the agent also works on its own
    StoreFails    \* whether the bookkeeping of an ended turn can fail

ASSUME MessagesDistinct ==
    /\ Continue # Compact /\ Continue # None /\ Compact # None
    /\ {Continue, Compact, None} \cap Prompts = {}

ASSUME BoundsAreNatural ==
    /\ MaxRetries \in Nat /\ Tries \in Nat \ {0} /\ MaxRestarts \in Nat
    /\ {Preempt, AgentRuns, StoreFails} \subseteq BOOLEAN

VARIABLES
    status,     \* threads.status
    turn,       \* threads.turn
    queue,      \* threads.queued_messages; their order is ThreadQueue's matter
    server,     \* the server process
    starters,   \* goroutines between claiming the thread and Send's StartSessionTurn
    sweep,      \* the recovery sweep's try, Tries + 1 once it gives up, 0 when over
    resuming,   \* whether a try of the sweep has loaded the row and not ended
    snapshot,   \* the turn that try loaded
    job,        \* jobState.turn with its current prompt call
    ending,     \* how the turn ended while jobState.finishing is set
    restarts,
    held,       \* prompts whose agent took them in or answered them
    delivered,  \* how often a prompt was written to an agent's transport
    continued,  \* prompts whose work an agent was told to continue
    ended,      \* how often a turn for the prompt was ended with a result
    accepted    \* prompts Jaz answered for: queued, or given a turn

row     == <<status, turn, queue>>
memory  == <<starters, sweep, resuming, snapshot, job, ending>>
history == <<held, delivered, continued, ended, accepted>>
vars    == <<row, server, memory, restarts, history>>

----------------------------------------------------------------------------
(* Types *)

Messages == Prompts \union {Continue, Compact}

Statuses == {"idle", "running", "error", "interrupted"}

\* "reserved" is a turn without a prompt record, "claimed" one holding the
\* queued message it was claimed for, the rest TurnPrompt.State.
Stages == {"none", "reserved", "claimed", "prepared", "sending", "confirmed"}

Turns == [stage: Stages, msg: Messages \union {None}, task: Prompts \union {None},
          continues: BOOLEAN, retries: 0..MaxRetries]

NoTurn == [stage |-> "none", msg |-> None, task |-> None, continues |-> FALSE, retries |-> 0]

Reserved == [NoTurn EXCEPT !.stage = "reserved"]

Claimed(p) == [NoTurn EXCEPT !.stage = "claimed", !.msg = p, !.task = p]

Prepared(m, task) == [NoTurn EXCEPT !.stage = "prepared", !.msg = m, !.task = task]

Phases == {"none", "ready", "marked", "sent", "working", "answered", "waiting"}

Replies == {"", "ok", "retryable", "error", "cancelled"}

Jobs == [phase: Phases, msg: Messages \union {None}, task: Prompts \union {None},
         sending: BOOLEAN, observed: BOOLEAN, retries: 0..MaxRetries,
         stop: {"", "user", "shutdown"}, reply: Replies]

NoJob == [phase |-> "none", msg |-> None, task |-> None, sending |-> FALSE,
          observed |-> FALSE, retries |-> 0, stop |-> "", reply |-> ""]

Endings == {"none", "idle", "failed", "cancelled", "shutdown"}

Starters == [from: {"queue"}, msg: Prompts] \union [from: {"http"}, msg: Prompts \union {Compact}]

TypeOK ==
    /\ status \in Statuses
    /\ turn \in Turns
    /\ queue \subseteq Prompts
    /\ server \in {"down", "up", "closing"}
    /\ starters \subseteq Starters
    /\ sweep \in 0..Tries + 1
    /\ resuming \in BOOLEAN
    /\ snapshot \in Turns
    /\ job \in Jobs
    /\ ending \in Endings
    /\ restarts \in 0..MaxRestarts
    /\ held \subseteq Prompts /\ continued \subseteq Prompts
    /\ delivered \in [Prompts -> 0..2]
    /\ ended \in [Prompts -> 0..2]
    /\ accepted \subseteq Prompts

Init ==
    /\ status = "idle" /\ turn = NoTurn /\ queue = {}
    /\ server = "up"
    /\ starters = {} /\ sweep = 0 /\ resuming = FALSE /\ snapshot = NoTurn
    /\ job = NoJob /\ ending = "none"
    /\ restarts = 0
    /\ held = {} /\ continued = {} /\ accepted = {}
    /\ delivered = [p \in Prompts |-> 0]
    /\ ended = [p \in Prompts |-> 0]

----------------------------------------------------------------------------
(* Starting a turn *)

Live == job.phase # "none"

\* Counts what must happen at most once: 2 is any number above it.
Again(n) == IF n < 2 THEN n + 1 ELSE n

Vacant == ~Live /\ ending = "none"

\* The thread's session lock, which a try of the sweep holds throughout.
LockFree == ~resuming

\* The message is new to Jaz: nothing of it is queued, started or ended.
Unused(m) == m \notin accepted /\ \A s \in starters : s.msg # m

\* A thread or the user appends a message to the thread's queue.
Submit(p) ==
    /\ server # "down"
    /\ Unused(p)
    /\ queue' = queue \union {p}
    /\ accepted' = accepted \union {p}
    /\ UNCHANGED <<status, turn, server, memory, restarts, held, delivered, continued, ended>>

\* claimNextTurn hands a queued message to runClaimedTurn.
Claim(p) ==
    /\ server # "down"
    /\ LockFree
    /\ p \in queue
    /\ status \in {"idle", "error"} /\ ~Live
    /\ status' = "running"
    /\ turn' = Claimed(p)
    /\ queue' = queue \ {p}
    /\ starters' = starters \union {[from |-> "queue", msg |-> p]}
    /\ UNCHANGED <<server, sweep, resuming, snapshot, job, ending, restarts, history>>

\* beginACPTurn reserves the thread for the user's message before Send runs.
Reserve(m) ==
    /\ server # "down"
    /\ LockFree
    /\ m = Compact \/ Unused(m)
    /\ status # "running" /\ ~Live
    /\ status = "interrupted" => Preempt
    /\ status' = "running"
    /\ turn' = Reserved
    /\ starters' = starters \union {[from |-> "http", msg |-> m]}
    /\ UNCHANGED <<queue, server, sweep, resuming, snapshot, job, ending, restarts, history>>

\* claimTurn: the turn is stored and begun in one step under the job's lock.
Begin(t) ==
    /\ server = "up" /\ Vacant
    /\ status' = "running"
    /\ turn' = t
    /\ job' = [NoJob EXCEPT !.phase = "ready", !.msg = t.msg, !.task = t.task, !.retries = t.retries]
    /\ accepted' = accepted \union ({t.msg} \intersect Prompts)

StartTurn(s) ==
    /\ s \in starters
    /\ Begin(Prepared(s.msg, IF s.msg = Compact THEN None ELSE s.msg))
    /\ starters' = starters \ {s}
    /\ UNCHANGED <<queue, server, sweep, resuming, snapshot, ending, restarts, held, delivered, continued, ended>>

\* Mutant: a queued message whose turn could not start is dropped.
StartRefused_Drops(s) ==
    /\ s \in starters
    /\ status' = "error" /\ turn' = NoTurn
    /\ starters' = starters \ {s}
    /\ UNCHANGED <<queue, server, sweep, resuming, snapshot, job, ending, restarts, history>>

\* Send failed before it stored a turn.  The user's request is refused without
\* the thread's lock; a queued message goes back to its queue under it.
StartRefused(s) ==
    /\ s \in starters
    /\ \/ /\ s.from = "http"
          /\ UNCHANGED queue
       \/ /\ s.from = "queue" /\ LockFree
          /\ queue' = queue \union {s.msg}
    /\ status' = "error" /\ turn' = NoTurn
    /\ starters' = starters \ {s}
    /\ UNCHANGED <<server, sweep, resuming, snapshot, job, ending, restarts, history>>

\* Mutant: the message goes back to the queue although its claim stays.
LeaveClaim_Requeues(s) ==
    /\ s \in starters /\ s.from = "queue"
    /\ server = "closing"
    /\ starters' = starters \ {s}
    /\ queue' = queue \union {s.msg}
    /\ UNCHANGED <<status, turn, server, sweep, resuming, snapshot, job, ending, restarts, history>>

\* Send refused with ErrClosed leaves a queued message claimed.
LeaveClaim(s) ==
    /\ s \in starters /\ s.from = "queue"
    /\ server = "closing"
    /\ starters' = starters \ {s}
    /\ UNCHANGED <<row, server, sweep, resuming, snapshot, job, ending, restarts, history>>

----------------------------------------------------------------------------
(* Running a turn's prompt calls *)

\* SetTurnPromptState: only a running turn with a prompt record takes a state,
\* and a confirmed one keeps it.  Its start time, which the statement compares,
\* is the live turn's: only Begin stores a prompt record, and never while a turn
\* is live.
Recordable == status = "running" /\ turn.stage \in {"prepared", "sending", "confirmed"}

Recorded(state) == [turn EXCEPT !.stage = IF @ = "confirmed" THEN @ ELSE state]

\* Mutant: the state is recorded only once the prompt is confirmed.
MarkSending_Late ==
    /\ job.phase = "ready"
    /\ job' = [job EXCEPT !.phase = "marked", !.sending = TRUE]
    /\ UNCHANGED <<row, server, starters, sweep, resuming, snapshot, ending, restarts, history>>

\* promptSending runs before the transport write; its failure fails the call.
MarkSending ==
    /\ job.phase = "ready"
    /\ IF job.observed
       THEN /\ job' = [job EXCEPT !.phase = "marked"]
            /\ UNCHANGED turn
       ELSE /\ Recordable
            /\ turn' = Recorded("sending")
            /\ job' = [job EXCEPT !.phase = "marked", !.sending = TRUE]
    /\ UNCHANGED <<status, queue, server, starters, sweep, resuming, snapshot, ending, restarts, history>>

Write ==
    /\ job.phase = "marked"
    /\ job' = [job EXCEPT !.phase = "sent"]
    /\ delivered' = IF job.msg \in Prompts THEN [delivered EXCEPT ![job.msg] = Again(@)] ELSE delivered
    /\ continued' = IF job.msg = Continue THEN continued \union ({job.task} \intersect Prompts) ELSE continued
    /\ UNCHANGED <<row, server, starters, sweep, resuming, snapshot, ending, restarts, held, ended, accepted>>

\* The agent takes the prompt in and begins to work on it.
AgentTakes ==
    /\ job.phase = "sent"
    /\ job' = [job EXCEPT !.phase = "working"]
    /\ held' = held \union ({job.task} \intersect Prompts)
    /\ UNCHANGED <<row, server, starters, sweep, resuming, snapshot, ending, restarts, delivered, continued, ended, accepted>>

\* setPromptStateLocked(PromptConfirmed): j is the job as the observation
\* leaves it.  A write that fails is only logged.
Observe(j) ==
    \/ /\ job.sending /\ ~job.observed /\ Recordable
       /\ turn' = Recorded("confirmed")
       /\ job' = [j EXCEPT !.observed = TRUE]
    \/ /\ UNCHANGED turn
       /\ job' = j

\* A message, thought, plan or tool update of the prompt's own work.
AgentOutput ==
    /\ job.phase = "working"
    /\ Observe(job)
    /\ UNCHANGED <<status, queue, server, starters, sweep, resuming, snapshot, ending, restarts, history>>

\* The same update from work the agent began on its own: startAgentRun leaves
\* it to the turn that holds the thread, whose prompt may still be on its way.
AgentRunOutput ==
    /\ AgentRuns
    /\ Live
    /\ Observe(job)
    /\ UNCHANGED <<status, queue, server, starters, sweep, resuming, snapshot, ending, restarts, history>>

\* promptAnswered, as the connection reads the prompt's response.
Answer(reply) ==
    /\ job.phase \in {"sent", "working"}
    /\ Observe([job EXCEPT !.phase = "answered", !.reply = reply])
    /\ held' = held \union ({job.task} \intersect Prompts)
    /\ UNCHANGED <<status, queue, server, starters, sweep, resuming, snapshot, ending, restarts, delivered, continued, ended, accepted>>

EndJob(outcome) ==
    /\ job' = NoJob
    /\ ending' = IF job.stop = "shutdown" THEN "shutdown"
                 ELSE IF job.stop = "user" THEN "cancelled" ELSE outcome

\* Mutant: one try more than the schedule has.
Retryable_OneMore ==
    job.reply = "retryable" /\ job.stop = "" /\ job.msg # Compact /\ job.retries <= MaxRetries

\* The agent offered another try of a turn the schedule still allows one.
Retryable ==
    job.reply = "retryable" /\ job.stop = "" /\ job.msg # Compact /\ job.retries < MaxRetries

\* SetTurnRetries finds a running turn to record the retry on.
HoldsRow == status = "running" /\ turn.stage # "none"

\* completePromptCall, when the turn ends with the call.  A retry that cannot
\* be recorded is not made.
Complete ==
    /\ job.phase = "answered"
    /\ EndJob(CASE job.reply = "ok" -> "idle"
                [] job.reply = "cancelled" -> "cancelled"
                [] OTHER -> "failed")
    /\ Retryable => StoreFails \/ ~HoldsRow
    /\ UNCHANGED <<row, server, starters, sweep, resuming, snapshot, restarts, history>>

\* Mutant: the retry is counted in memory only.
RecordRetry_Unrecorded ==
    /\ job.phase = "answered" /\ Retryable /\ HoldsRow
    /\ job' = [job EXCEPT !.phase = "waiting", !.retries = @ + 1, !.reply = ""]
    /\ UNCHANGED <<row, server, starters, sweep, resuming, snapshot, ending, restarts, history>>

\* completePromptCall, when the agent offers a retry: it is recorded first.
RecordRetry ==
    /\ job.phase = "answered" /\ Retryable /\ HoldsRow
    /\ turn' = [turn EXCEPT !.retries = job.retries + 1]
    /\ job' = [job EXCEPT !.phase = "waiting", !.retries = @ + 1, !.reply = ""]
    /\ UNCHANGED <<status, queue, server, starters, sweep, resuming, snapshot, ending, restarts, history>>

\* Mutant: the retry sends the turn's prompt again.
RetryWaitEnds_Resends ==
    /\ job.phase = "waiting"
    /\ IF job.stop # ""
       THEN EndJob("cancelled")
       ELSE /\ job' = [job EXCEPT !.phase = "ready"]
            /\ UNCHANGED ending
    /\ UNCHANGED <<row, server, starters, sweep, resuming, snapshot, restarts, history>>

\* Mutant: a stop does not cancel the wait, which outlasts the process.
RetryWaitEnds_Uncancelled ==
    /\ job.phase = "waiting" /\ job.stop = ""
    /\ job' = [job EXCEPT !.phase = "ready", !.msg = Continue]
    /\ UNCHANGED <<row, server, starters, sweep, resuming, snapshot, ending, restarts, history>>

\* retryPrompt, when its wait passes or is cancelled.
RetryWaitEnds ==
    /\ job.phase = "waiting"
    /\ IF job.stop # ""
       THEN EndJob("cancelled")
       ELSE /\ job' = [job EXCEPT !.phase = "ready", !.msg = Continue]
            /\ UNCHANGED ending
    /\ UNCHANGED <<row, server, starters, sweep, resuming, snapshot, restarts, history>>

\* failPromptCall: the state could not be recorded, the write failed, or the
\* connection closed before the response.
CallFails ==
    /\ job.phase \in {"ready", "marked", "sent", "working"}
    /\ EndJob("failed")
    /\ UNCHANGED <<row, server, starters, sweep, resuming, snapshot, restarts, history>>

\* The user stops the live turn.
Stop ==
    /\ Live /\ server # "down"
    /\ job.stop # "user"
    /\ job' = [job EXCEPT !.stop = "user"]
    /\ UNCHANGED <<row, server, starters, sweep, resuming, snapshot, ending, restarts, history>>

\* cancelStored: the user stops a thread without a live job.
StopStored ==
    /\ Preempt
    /\ server # "down" /\ Vacant
    /\ status \in {"running", "interrupted"}
    /\ status' = "idle" /\ turn' = NoTurn
    /\ UNCHANGED <<queue, server, memory, restarts, history>>

----------------------------------------------------------------------------
(* Ending a turn *)

\* finishTurn of a turn that ended with newStatus: the row's turn is cleared
\* and its result delivered in one transaction.
EndTurn(newStatus) ==
    /\ status' = newStatus
    /\ turn' = NoTurn
    /\ ended' = IF turn.task = None THEN ended ELSE [ended EXCEPT ![turn.task] = Again(@)]

\* Mutant: a shutdown clears the turn it interrupts.
Finish_Forgets ==
    /\ ending # "none" /\ LockFree
    /\ EndTurn(CASE ending = "shutdown" -> "interrupted" [] ending = "failed" -> "error" [] OTHER -> "idle")
    /\ ending' = "none"
    /\ UNCHANGED <<queue, server, starters, sweep, resuming, snapshot, job, restarts, held, delivered, continued, accepted>>

Finish ==
    /\ ending # "none" /\ LockFree
    /\ IF ending = "shutdown"
       THEN /\ status' = "interrupted"
            /\ UNCHANGED <<turn, ended>>
       ELSE EndTurn(IF ending = "failed" THEN "error" ELSE "idle")
    /\ ending' = "none"
    /\ UNCHANGED <<queue, server, starters, sweep, resuming, snapshot, job, restarts, held, delivered, continued, accepted>>

\* HandleACPTurnFinished keeps a turn whose bookkeeping failed for the next
\* start, if that can be written.
FinishFails ==
    /\ StoreFails
    /\ ending # "none"
    /\ status' \in {status, "interrupted"}
    /\ ending' = "none"
    /\ UNCHANGED <<turn, queue, server, starters, sweep, resuming, snapshot, job, restarts, history>>

----------------------------------------------------------------------------
(* Restarts *)

\* Close refuses new turns and stops the live one; the sweep has been stopped.
CloseBegin ==
    /\ server = "up" /\ restarts < MaxRestarts
    /\ server' = "closing"
    /\ restarts' = restarts + 1
    /\ job' = IF Live /\ job.stop = "" THEN [job EXCEPT !.stop = "shutdown"] ELSE job
    /\ sweep' = 0 /\ resuming' = FALSE /\ snapshot' = NoTurn
    /\ UNCHANGED <<row, starters, ending, history>>

\* Close returns once every turn it found has finished.
CloseEnd ==
    /\ server = "closing" /\ Vacant
    /\ server' = "down"
    /\ starters' = {}
    /\ UNCHANGED <<row, sweep, resuming, snapshot, job, ending, restarts, history>>

Crash ==
    /\ server # "down" /\ restarts < MaxRestarts
    /\ server' = "down"
    /\ restarts' = restarts + 1
    /\ starters' = {} /\ sweep' = 0 /\ resuming' = FALSE /\ snapshot' = NoTurn
    /\ job' = NoJob /\ ending' = "none"
    /\ UNCHANGED <<row, history>>

\* Opening the store marks the running threads, and the sweep lists them.
Boot ==
    /\ server = "down"
    /\ server' = "up"
    /\ status' = IF status = "running" THEN "interrupted" ELSE status
    /\ sweep' = IF status' = "interrupted" THEN 1 ELSE 0
    /\ UNCHANGED <<turn, queue, starters, resuming, snapshot, job, ending, restarts, history>>

----------------------------------------------------------------------------
(* The recovery sweep *)

Trying == sweep \in 1..Tries

\* Mutant: an unconfirmed prompt is taken for one the agent holds.
Unconfirmed_Never(t) == FALSE

Unconfirmed(t) == t.stage = "sending" /\ t.msg # Compact

\* Mutant: the resumed turn starts its retry schedule over.
Resumed_Afresh(t) ==
    CASE t.stage = "claimed" -> Prepared(t.msg, t.task)
      [] t.msg = Compact -> Prepared(Compact, None)
      [] OTHER -> [Prepared(IF t.stage = "prepared" THEN t.msg ELSE Continue, t.task)
                   EXCEPT !.continues = t.continues \/ t.stage = "confirmed"]

\* Mutant: a confirmed turn is resumed with its own prompt.
Resumed_Resends(t) ==
    CASE t.stage = "claimed" -> Prepared(t.msg, t.task)
      [] t.msg = Compact -> Prepared(Compact, None)
      [] OTHER -> [t EXCEPT !.stage = "prepared", !.msg = IF t.task = None THEN Continue ELSE t.task]

\* The turn that resumes t.
Resumed(t) ==
    CASE t.stage = "claimed" -> Prepared(t.msg, t.task)
      [] t.msg = Compact -> Prepared(Compact, None)
      [] OTHER -> [stage |-> "prepared",
                   msg |-> IF t.stage = "prepared" THEN t.msg ELSE Continue,
                   task |-> t.task,
                   continues |-> t.continues \/ t.stage = "confirmed",
                   retries |-> t.retries]

\* A try takes the thread's lock and loads its row.
ResumeBegin ==
    /\ Trying /\ ~resuming
    /\ IF status # "interrupted"
       THEN sweep' = 0 /\ UNCHANGED <<resuming, snapshot>>
       ELSE IF Unconfirmed(turn)
       THEN sweep' = Tries + 1 /\ UNCHANGED <<resuming, snapshot>>
       ELSE resuming' = TRUE /\ snapshot' = turn /\ UNCHANGED sweep
    /\ UNCHANGED <<row, server, starters, job, ending, restarts, history>>

\* Mutant: the sweep takes the started turn for one that failed to start.
ResumeStart_Fails ==
    /\ resuming
    /\ Begin(Resumed(snapshot))
    /\ sweep' = Tries + 1 /\ resuming' = FALSE /\ snapshot' = NoTurn
    /\ UNCHANGED <<queue, server, starters, ending, restarts, held, delivered, continued, ended>>

ResumeStart ==
    /\ resuming
    /\ Begin(Resumed(snapshot))
    /\ sweep' = 0 /\ resuming' = FALSE /\ snapshot' = NoTurn
    /\ UNCHANGED <<queue, server, starters, ending, restarts, held, delivered, continued, ended>>

\* Mutant: the sweep drops a thread after its last try.
ResumeFails_Drops ==
    /\ resuming
    /\ sweep' = IF sweep = Tries THEN 0 ELSE sweep + 1
    /\ resuming' = FALSE /\ snapshot' = NoTurn
    /\ UNCHANGED <<row, server, starters, job, ending, restarts, history>>

\* The try failed: the next one follows, or the sweep gives up after the last
\* one or one that used its whole time.
ResumeFails ==
    /\ resuming
    /\ sweep' \in {sweep + 1, Tries + 1}
    /\ resuming' = FALSE /\ snapshot' = NoTurn
    /\ UNCHANGED <<row, server, starters, job, ending, restarts, history>>

\* Mutant: the turn is cleared without a result for whoever waits.
GiveUp_Silent ==
    /\ sweep = Tries + 1
    /\ status' = "error" /\ turn' = NoTurn
    /\ sweep' = 0
    /\ UNCHANGED <<queue, server, starters, resuming, snapshot, job, ending, restarts, history>>

\* FailInterruptedTurn takes the thread's lock again and reads the row anew.
GiveUp ==
    /\ sweep = Tries + 1
    /\ \/ /\ turn # NoTurn \/ status = "interrupted"
          /\ EndTurn("error")
       \/ /\ turn = NoTurn /\ status # "interrupted"
          /\ UNCHANGED <<status, turn, ended>>
       \/ /\ StoreFails
          /\ UNCHANGED <<status, turn, ended>>
    /\ sweep' = 0
    /\ UNCHANGED <<queue, server, starters, resuming, snapshot, job, ending, restarts, held, delivered, continued, accepted>>

----------------------------------------------------------------------------

Starting ==
    \/ \E p \in Prompts : Submit(p) \/ Claim(p)
    \/ \E m \in Prompts \union {Compact} : Reserve(m)
    \/ \E s \in starters : StartTurn(s) \/ StartRefused(s) \/ LeaveClaim(s)

Calling ==
    \/ MarkSending \/ Write \/ AgentTakes \/ AgentOutput \/ AgentRunOutput
    \/ \E reply \in Replies \ {""} : Answer(reply)
    \/ Complete \/ RecordRetry \/ RetryWaitEnds \/ CallFails
    \/ Stop \/ StopStored
    \/ Finish \/ FinishFails

Restarting ==
    \/ CloseBegin \/ CloseEnd \/ Crash \/ Boot
    \/ ResumeBegin \/ ResumeStart \/ ResumeFails \/ GiveUp

Next == Starting \/ Calling \/ Restarting

Spec == Init /\ [][Next]_vars

----------------------------------------------------------------------------
(* Properties *)

\* What the thread promises its senders, which a turn that ends, crashes,
\* retries or resumes must keep.
Promise == INSTANCE TaskDelivery

\* The turn sequence of every accepted prompt is one TaskDelivery allows:
\* accepted once, written to an agent at most once and never after its result,
\* continued only once the agent held it, and ended with one result.
KeepsPromise == Promise!Spec

\* A prompt goes to an agent at most once, whatever the crashes, shutdowns,
\* retries and resumes in between ("Prepared, with no transport attempt: send
\* the original input once", docs/restart-unconfirmed-prompts.md).
AtMostOnceDelivery == \A p \in Prompts : delivered[p] <= 1

\* SetTurnPromptState runs before the transport write, so a prompt whose record
\* still says claimed or prepared was never written and is safe to send.
PreparedNeverWritten ==
    turn.stage \in {"claimed", "prepared"} /\ turn.msg \in Prompts => delivered[turn.msg] = 0

\* "Continue from where you left off." goes only to an agent that holds the
\* task: what makes a recovery continue is recorded only after it took it in.
ContinuesOnlyHeldTask ==
    /\ turn.task # None /\ (turn.stage = "confirmed" \/ turn.msg = Continue) => turn.task \in held
    /\ job.task # None /\ job.msg = Continue => job.task \in held

\* An accepted prompt is in exactly one place: it waits in the queue, the
\* thread's turn is for it, or its one result is out.  A crash, a refused start
\* or a recovery that gives up neither loses it nor ends it twice.
TaskConservation ==
    \A p \in accepted :
        (IF p \in queue THEN 1 ELSE 0) + (IF turn.task = p THEN 1 ELSE 0) + ended[p] = 1

\* While a turn runs its row says so and carries its task, its retries and its
\* lineage, so a crash at any moment leaves what the next start needs.
RowFollowsJob ==
    Live => /\ status = "running"
            /\ turn.task = job.task /\ turn.retries = job.retries
            /\ job.phase \in {"sent", "working", "answered"} => turn.stage \in {"sending", "confirmed"}

\* A turn begins only from what the row holds: the message it was claimed for,
\* the user's reservation or the turn a restart cut short.  A stop that empties
\* the row in between leaves nothing to begin ("Stop records the user's decision
\* to abandon this task", acp/cancel.go).
BeginsWhatRowHolds ==
    [][ ~Live /\ job'.phase # "none" =>
            turn.stage # "none" /\ (turn.task # None => turn.task = job'.task) ]_vars

\* A prompt's result comes from the end of its own turn: none is out for a
\* prompt whose turn still runs.
NoResultWhileRunning == \A p \in Prompts : ended[p] > 0 => job.task # p

\* A recovery starts a turn for a task only if the task's prompt was never
\* written, or the agent is known to hold it: an unconfirmed one gets neither
\* its prompt nor a continuation.
ResumesOnlyDecidedTasks ==
    [][ ~Live /\ job'.phase # "none" /\ job'.task # None =>
            \/ job'.msg = job'.task /\ delivered[job'.task] = 0
            \/ job'.msg = Continue /\ job'.task \in held ]_vars

\* The retries a turn used survive its restarts: nothing but its end gives the
\* turn of a task its retry schedule back.
RetriesSurvive ==
    [][ turn.task # None /\ turn'.task = turn.task => turn'.retries >= turn.retries ]_vars

\* Liveness.  Goroutines of the server run on: the turn's, the sweep's and
\* Close's.  The agent answers when it likes; Close ends its connection, which
\* ends the call.  Clients, and the starting of turns, have no fairness.
CallEnds == Complete \/ RecordRetry \/ RetryWaitEnds \/ (server = "closing" /\ CallFails)

ServerFairness ==
    /\ WF_vars(CallEnds)
    /\ WF_vars(Finish \/ FinishFails)
    /\ WF_vars(CloseEnd)
    /\ WF_vars(ResumeBegin \/ ResumeStart \/ ResumeFails \/ GiveUp)

FairSpec == Spec /\ ServerFairness

\* A shutdown ends, even when it finds a call in flight or a turn waiting to
\* retry a failed one.
ShutdownEnds == server = "closing" ~> server = "down"

\* The sweep decides every turn a restart cut short: no thread stays
\* interrupted, holding its queue, while the server runs.
InterruptedDecided ==
    server = "up" /\ status = "interrupted" ~> status # "interrupted" \/ server # "up"

\* A prompt left without a confirmation gets its result, so whoever waits for
\* it hears.
UnconfirmedTold ==
    \A p \in Prompts :
        server = "up" /\ status = "interrupted" /\ Unconfirmed(turn) /\ turn.task = p
            ~> ended[p] = 1 \/ server # "up"
=============================================================================
