# Jaz: specifications of the backend and the desktop app

Jaz runs other people's coding agents (ACP processes) as the threads, bots and
routines of one user.  Its Go backend (`src/backend`) keeps one SQLite row per
thread and one in-memory job per running agent, and the hard part of it is what
lies between the two: a prompt must reach its agent once, whatever stops,
restarts, retries, steers and failed writes come in between.  The desktop app
(`src/frontend`) is a second such system on top: windows that share one
connection, caches fed by pages and by a stream that breaks, messages on their
way out, and processes of its own to start and to end.  These modules model
those parts, TLC checks them on small instances, and TLAPS proves the results
that matter for every instance.

Run everything from this directory: `tlc -config X.cfg M`, `tlapm M.tla`.

## 1. The system: inventory

Paths are under `src/backend/internal` unless they start with `src`.

| component | state | operations | what is hard | what makes it correct |
|---|---|---|---|---|
| thread row (`storage/sqlite/turns.go`, `turns.sql`) | status, turn (task, prompt state, retries, steers, output), queue, PendingSteer | start, claim, record prompt state, record retry, finish, all one transaction each; `SaveSession` writes the whole row | whole-row saves race with each other; each step may be the last before a crash | the row always says enough to resume or end the turn |
| thread queue (`server/queue.go`) | the row's queue, the thread's session lock | submit, edit, reorder, delete, claim, restore, steer, drain | claim and start are separate; a start may be refused | no accepted message is lost or run twice; the queue moves when it may |
| turns of a job (`acp/send.go`, `turns.go`, `prompt_delivery.go`, `job.go`) | `jobState.turn`, its prompt calls, kept steers, retry wait, finishing flag | send, steer, answer, retry, cancel, finish | answers, updates, steers and stops arrive in any order on other goroutines | one turn at a time; a prompt written at most once; every steer answered for |
| recovery (`sessionrecovery`, `acp/recovery.go`, `server/turn_completion.go`) | one sweep per start: tries per thread | list interrupted threads, resume, retry, give up | works on threads the user and other threads already use again | undecided prompts are neither resent nor continued; every interrupted turn is decided |
| agent runs (`acp/agent_runs.go`) | work an agent began on its own, deferred updates | start, take in, replay, end | agent work overlaps the server's claims | the thread is held by one of them; no update is lost |
| agent processes (`acp/lifecycle.go`, `idle.go`, `memory.go`) | process per job, leases, memory pressure | acquire, release, retire, close | retirement races acquisition; shutdown waits for turns | a leased process lives; Close ends |
| bots and commitments (`bots`, `storage/sqlite/commitments.go`, `bot_commitment_*` views) | tasks a bot owes: status, threads, dependencies, question, wake state | open, update, ask, stop, resume, link, deliver, drop, wake | a turn's answer stages deliveries that later calls invalidate | a task closes as done only with its delivery; none is forgotten |
| routines (`loops`) | loops, runs, taken events, away hold | due, manual and triggered runs, begin, finish, skip, resume | runs outlive the process, their threads and each other | one begun run per routine; each event in one run |
| source queue (`sourcequeue`) | pending and processing maps in a file | mark, reserve, settle, release, recover stale | a source is marked while processed, reservations go stale | nothing written goes unprocessed |
| session events (`sessionevents`) | append-only log, bus, compaction | append, publish, project, compact | slow subscribers are dropped, compaction rewrites history | the projection survives compaction |
| push (`mobilepush`) | last alert per device and chat, live activities | process, deliver, track, refresh | send and record are separate | an alert is shown once |
| devices (`deviceauth`) | pairings, devices, tokens | create, poll, approve, reject, revoke | concurrent polls and decisions, expiry | a token only for an approved pairing, once |
| desktop connection (`src/frontend`: `main/connectionSession.ts`, `lib/connection.ts`) | the main process's snapshot and local startup; each window's attempt, credential and status | connect, disconnect, probe, register, pair, poll, commit, reject, hydrate | windows, requests, timeouts and revocations race; credentials are reissued | the session answers the last request; its credential stays with its backend; windows agree |
| thread feed (`lib/hooks/useSessionEvents.ts`, `useSessionHistory.ts`, `lib/sessionEvents.ts`) | cached page, cached live events, the stream | read, merge, flush, reconnect, reopen | two connections fill two caches of one text | the text reads as written, without a gap |
| composer (`Composer.tsx`, `useLiveSessionSend.ts`) | stored draft, the send a page follows | write, submit, restore, stop, leave | refusals come late, after edits, sends and page changes | no message the user could have back is lost |
| computer use (`main/computerRuntime.ts`, `lib/computerRepl.ts`) | one lease, its driver and action | begin, call, cancel, end, timeout | pages vanish while drivers are made | one script at a time, and the machine is freed |
| local backend (`main/backend.ts`) | child, pid file | start, reap, stop | the app dies, starts overlap, exits come late | no backend is lost sight of, an orphan is waited out before the port is looked at |
| everything else (connections, chat providers, memory, browser, canvas, HTTP, the views of `src/frontend`) | see `PROJECT.json` | | mostly I/O, parsing, rendering | not modelled |

How they meet: an HTTP request or another thread's message goes to the
**thread queue** (or, from the user, straight to `beginACPTurn`), which claims
the **row** and calls the ACP manager's `Send`; `Send` stores the turn and
starts a prompt call on the **job**; the job's end calls the server's
`finishTurn`, which ends the row's turn, delivers its result to the waiting
parents, finishes the **routine** run it did, may close the **commitments** its
answer delivers, and drains the queue.  At a start the store marks running
threads interrupted and the **recovery** sweep resumes or ends them, after which
routine runs and queued turns go on.

On the desktop, the main process starts the **local backend** and holds the
**connection** that its windows carry out.  A window that has one opens threads:
the **feed** reads a thread's page and follows its events, the **composer**
posts messages to the same thread, and a script the agent runs comes over a
socket to the page, which asks the main process for the **computer**.  The parts
share no state but the connection, which resets them all.

## 2. Plan

| order | module | what it is | status |
|---|---|---|---|
| 1 | `TurnRecovery`, `TaskDelivery` | one thread's turns across restarts; the abstract promise it implements | built, checked, proved |
| 2 | `ThreadQueue`, `MessageLine`, `AgentStart` | the row's read-modify-writes as separate steps, the session lock, queue order and edits, steers and `PendingSteer`, the drain; the abstract queue it implements; an agent's start with its unlocked save | built, checked; the safety of `ThreadQueue` and its refinement proved |
| 3 | `DesktopConnection`, `UserConnection` | the session all windows share, their attempts, registrations and polls; the abstract promise it implements | built, checked; its safety and its refinement proved |
| 4 | `ThreadFeed`, `ThreadComposer`, `ComputerUse`, `MachineLease`, `LocalBackend`, `MCFrontend` | four parts of the desktop app, checked together, and the abstract lease the computer implements | built, checked; the safety of all four and the refinement proved |
| 5 | an active turn: prompt calls that overlap, steers kept, dropped and handed off, agent runs, leases | would refine `TurnRecovery`'s one prompt call | not built |
| 6 | commitments, routine runs, source queue, push, pairing | their hazards are listed | not built |

`ThreadQueue` refines parts of `TurnRecovery`: `Claim` and `StartRefused` are
one step each there and several in `ThreadQueue`.  Abstract specifications:
`TaskDelivery` for `TurnRecovery`, `MessageLine` for `ThreadQueue`,
`UserConnection` for `DesktopConnection`, `MachineLease` for `ComputerUse`.

## 3. What is modelled

### TurnRecovery

One thread.  Durable variables are the row: `status`, `turn` (`threads.turn`
with the task it is for, its prompt's message and delivery stage, its retries)
and `queue`.  Volatile ones are the goroutines between a claim and `Send`'s
stored turn (`starters`), the job's turn with its current prompt call (`job`),
the turn end whose bookkeeping runs (`ending`, `jobState.finishing`) and the
recovery sweep (`sweep`, `resuming`, `snapshot`).  `held`, `delivered`,
`continued`, `ended` and `accepted` are history.

| code | action |
|---|---|
| `mutateSessionQueue`, a thread's message | `Submit` |
| `claimNextTurn`, `ClaimQueuedTurn` | `Claim` |
| `beginACPTurn` | `Reserve` |
| `Send`: `claimTurn` stores the turn and begins it under the job's lock | `StartTurn`, `Begin` |
| a start that fails: `restoreQueuedPrompt`, the stream's error path | `StartRefused` |
| `ErrClosed` in `runClaimedTurn` | `LeaveClaim` |
| `promptSending`, `promptTrackingConn.Send`, the agent, `Receive` | `MarkSending`, `Write`, `AgentTakes`, `AgentOutput`, `AgentRunOutput`, `Answer` |
| `completePromptCall`, `recordRetry`, `retryPrompt`, `failPromptCall` | `Complete`, `RecordRetry`, `RetryWaitEnds`, `CallFails` |
| `cancel`, `cancelStored` | `Stop`, `StopStored` |
| the server's `finishTurn` and `HandleACPTurnFinished` | `Finish`, `FinishFails` |
| `Close`, a crash, opening the store | `CloseBegin`, `CloseEnd`, `Crash`, `Boot` |
| `sessionrecovery.Resume`, `ResumeInterruptedTurn`, `FailInterruptedTurn` | `ResumeBegin`, `ResumeStart`, `ResumeFails`, `GiveUp` |

Abstractions worth knowing:

- `SetTurnPromptState` compares the turn's start time.  The model needs no
  time: only `Begin` stores a prompt record, and never while a turn is live.
- A turn's origin chain is the boolean `continues`: whether a continuation was
  ever confirmed.
- `Again` caps history counts at 2, which stands for "more than once".
- `StopStored` is one step, though the code loads and saves the row without the
  thread's lock.
- `Boot` is the marking of running threads together with the sweep's listing,
  which nothing can come between.  `CloseEnd` leaves out the second write of
  `interrupted`, which writes what is there.
- A try of the sweep holds the thread's lock (`LockFree`).  A send waiting
  for a finishing turn that needs that lock is ended by the try's timeout:
  `ResumeFails`.
- Left out: steers, attachments, goal continuations, routine runs, queued
  actions other than `/compact`, the queue's order.

Three constants say which environment is checked.  `Preempt`: the user writes
to or stops a thread whose turn is not live.  `AgentRuns`: the agent also
reports work it began on its own.  `StoreFails`: the bookkeeping of an ended
turn may fail.  Each of the first two, alone, breaks something the code says of
itself (section 5), so the main run leaves them out and the others add them.

### TaskDelivery

What the thread promises a sender, without any of the above: accepted once,
written to an agent at most once, continued only if the agent holds it, ended
with one result, and silent after that.  `KeepsPromise` is
`TaskDelivery!Spec` under the identity mapping of the history variables.

### ThreadQueue

One thread again, now without restarts and with every load and save of its row
apart.  `row` is what `SaveSession` writes as a whole: status, turn, queue and
`PendingSteer`.  `lock` is the thread's session lock, with the row its holder
loaded and changed and has yet to save.  `runner[m]` is the goroutine that
carries a message from the queue to the agent and how far it is, `job` the
agent's turn (`jobState.State`, `finishing`), `drains` the `drainQueueSoon` calls
to come.  `accepted`, `begun`, `withdrawn` and `parked` are history.

| code | action |
|---|---|
| `mutateSessionQueue`: append; reorder and edit; delete | `LoadAppend`, `LoadReorder`, `LoadDelete`, then `SaveQueue` |
| `generateAndSaveSessionTitle` | `LoadTitle`, `SaveQueue` |
| `QueueInternalTurn` | `EnqueueInternal` |
| `streamACPSession`, `beginACPTurn` | `LoadDirect`, `ClaimDirect` or `ClaimDirectRefused`, `DirectSteers`, `DirectFails` |
| `drainQueueSoon`, `claimNextTurn` | `Drain` |
| `Send`: an agent resumed; the turn claimed; refused | `ResumeAgent`, `StartTurn`, `StartRefused` |
| `restoreQueuedPrompt` | `LoadRestore`, `SaveRestore` |
| `claimSteeredQueuedPrompt` | `LoadSteer`, `SaveSteer` |
| `startSteeredQueuedPrompt` | `SteerAccepted`, `SteerUnsupported`, `SteerFails`, `CancelForSteer`, `MarkRunning` |
| `clearPendingSteerMessage` | `LoadClear`, `SaveClear`, `NothingToClear` |
| an agent's answer, a stop, a retired process | `TurnEnds`, `Stop`, `RetireAgent` |
| the server's `finishTurn` and the drain it ends with | `FinishTurn`, `FinishDrains` |

Abstractions worth knowing:

- The stored queue mixes hidden and public messages, but every reader splits it
  and every writer joins it again, so it is kept as its two lines.
- `claimNextTurn`, `finishTurn` and `QueueInternalTurn` are one step each under
  the lock: what they decide is decided again by the SQL transaction they end
  in (`ClaimQueuedTurn` refuses a running thread and a queue that changed).
- `ClaimTurn` of `beginACPTurn` stores an empty turn that the row's next
  `StartTurn` fills; the model shows it as its message's from the start.
- `CancelForSteer` does not wait for the turn it cancels: the code's wait ends
  after five seconds.
- A direct message that fails to start is not accepted: its sender is told.
- `ResumeAgent` saves nothing that the row does not hold; `AgentStart` is
  `ThreadQueue` with that save as the code makes it, `LoadForStart` and
  `SaveAfterStart` with anything else in between.
- `Steers` says whether the user steers queued messages.  Clients act only
  while fewer than `MaxDrains` drains are pending, which bounds `drains`.  Deliberate
  reorders and rewordings are counted in `edits`, up to `MaxEdits`.
- Left out: crashes (`TurnRecovery`), queued actions, goal continuations,
  routine runs, agent runs, attachments, the recipients of a turn.

### MessageLine

What the queue promises those who leave messages in it: two lines, each served
from its head, a reorder (counted) or a deletion only by the user, and a failed start that
costs a message nothing.  `KeepsOrder` is its specification with a claimed
message counted as the head of its line until its turn begins.

### DesktopConnection

Paths from here on are under `src/frontend/src` (renderer files under
`renderer/src`).  The main process holds `snap`, the session in force, with the
local startups (`flights`, `flight`, `gen`); every window has a renderer
(`win[w]`: the snapshot it last saw, its attempt, status and the credential its
requests carry) and an inbox of snapshots (`box`).  A call from a renderer to
the main process is synchronous and one step with the code around it.  Backends
issue credentials (`issued`), and accept one at a time from a device (`valid`).

| code | action |
|---|---|
| `connectRemote`, `startLocal`, `disconnectBackend`, `rememberConnection` | `ConnectRemote`, `StartLocal`, `Disconnect`, `Remember` |
| `connectRemote` and `restore`: health, `verify`, retries | `HealthAnswered`, `AccessAnswered`, `AccessHandled`, `ProbeLost` |
| `register` and the backend's side of it | `SendRegister`, `ServerRegisters`, `RegisterAnswered`, `RegisterTimesOut`, `LateRegister` |
| `pending`, `pair`, `schedulePoll` | `PairingClaimed`, `PairingHandled`, `PollMissed`, `PollAnswered` |
| `apiFetch`, `onApiAuthRejected` | `ApiRefused`, `ApiHandled` |
| `update`: begin, commit, reject; `deliver` | `Begun`, `Committed`, `Cleared`, `Deliver`, within the renderer's step |
| `local`, `issueLocal` | `LocalArrives`, `LocalWaited`, `FlightMoves`, `FlightFails`, `LocalReturns` |
| `attach`: navigation, closing; a document loads; `hydrate` | `Leave`, `Load`, `Receive` |
| the app quits and starts again | `Restart` |

Abstractions worth knowing:

- Backends without authentication are left out, and a root key is an invitation.
- A replaced attempt aborts its requests, so answers to its reads are dropped;
  what survives it is a registration already posted and the main process's
  answer about the local backend.
- Health and access polls are one step each; a pairing request is posted with
  the health answer that leads to it.
- `LocalCredentialKept` speaks of the local backend only: at a remote one a
  registration by invitation that is still in flight may replace the device's
  credential after the user connected with the remembered one.

### UserConnection

What the user is promised: no session is in force, or the one in force answers
the last request.  `ServesLastRequest` is its specification over two history
variables.

### ThreadFeed

An open thread's page (`history`, `fetch`), live events (`live`, `pending`) and
event stream (`stream`), against a server that stores a turn's events (`rows`),
replaces status and tool rows, compacts finished runs of text and counts a
`revision`.  A text is the sequence of its deltas, each named by its sequence
number, so a lost, doubled or misplaced delta shows.

| code | action |
|---|---|
| the server's side (`sessionevents`, `storage/sqlite`): events, compaction, signals, the page | `Reports`, `Compact`, `Signals`, `ServerReads` |
| `useSessionHistory` with `mergeLatestHistory`, and `useSessionEvents`' effects on the new page | `HistoryArrives` |
| `openEventStream`: `connect`, `reconnect`, `close` | `Connect`, `StreamFails`, part of `LeaveThread` |
| the stream's handler; the 50 ms flush | `Receive`, `Flush` |
| mounting and leaving; the page's cache time | `OpenThread`, `LeaveThread`, `Forget` |

Abstractions worth knowing:

- The page is whole, as if it overlapped every other; reading earlier pages and
  reads that fail are left out.
- A compaction is one batch: it puts some of the finished runs together and
  raises the revision, and the next batch takes others.  Each run it takes
  becomes one row; that the store takes eight rows of a thread at a time, so a
  long run stays several, is left out.
- The server replays and subscribes in one step.  A subscriber the bus drops for
  being slow is a stream that fails.
- A page that was read while a run of text was still growing holds that run as
  one event that later ones are appended to again when two such pages, or a page
  and a replay, are merged (`lib/sessionHistory.ts:5`): the text doubles.  The
  ghost `cut` marks those runs and `ReadsAsWritten` promises them
  completeness, not order.
- Signals, failures and leaves share the bound `MaxTurbulence`.

### ThreadComposer

The draft as it is stored, the sends (`sends`, with what the composer may still
take back), the send the page follows (`current`) and the exchange it shows.

| code | action |
|---|---|
| `setDraft` | `Type`, `Delete` |
| `submit` with `clearDraft`; `send` | `Submit`, `Post` |
| `readSessionMessageStream` | `Accepted`, `Fails`, `Finishes` |
| `restore`, in whichever of these ends a send unaccepted | `Rejected`, `Restored` |
| `send`'s `finally`; `recovered` | `Settles`, `Recovers` |
| `abort`; leaving the thread; coming back | `Abort`, `Leave`, `Open` |

Attachments and contexts travel with the text.  A message rejected after the
user wrote or sent another is not taken back (`rewritten`), and one whose
acknowledgement was lost is taken back though the server has it: both are what
the code does, and `NoMessageLost` says what remains true.

### ComputerUse

Pages with a script (`client`), their ordered calls to the main process
(`ipc`), and `ComputerRuntime`: the lease, each script's driver, raised aborts
and the action under way.

| code | action |
|---|---|
| `ComputerRepl.run`: begin, the script, end | `Run`, `BeginAnswered`, `Act`, `ScriptEnds`, `EndAnswered` |
| `Jaz.cancel`, a closed socket; the script's 60 s | `CancelScript`, `ScriptTimeout` |
| handlers of `computerControl.ts` calling `begin`, `call`, `cancel`, `end` | `Deliver` with `Begin`, `Call`, `Cancel`, `End` |
| `begin`'s driver and tools | `Available`, `Created`, `Begun` |
| `call`'s return, `close`, the lease's 65 s | `CallReturns`, `Close`, `LeaseTimeout` |
| navigation, a lost or destroyed page | `Gone` |

One action at a time is modelled and one page per window.  Quitting the app
cancels the lease like a lost page and is left out.  A driver is assumed to end
an action that is aborted.

### MachineLease

What the lease promises whoever sits at the machine: one script `holder` at a
time, each once; its actions (`acting`) reach a driver that lives (`ready`), one
after the other; once it is to give the machine up (`over`) it begins none, and
the machine is free when the last is done; its run is answered (`told`) when it
has the machine no more.  `ComputerUse` maps `over` to the scripts that had a
driver and whose lease is gone or closing.

### LocalBackend

The app's sessions, the child and the pid file, concurrent starts (`start[c]`)
and the backends, the user's own among them.

| code | action |
|---|---|
| `startLocalBackend`: `reapOrphan`, its wait and its deadline; `readHealth`, spawn, wait | `Start`, `Reaped`, `Outlived`, `Probe`, `Decide`, `Wait` |
| a backend's life; its exit seen | `Boots`, `Exits`, `ExitSeen` |
| a backend started by hand | `UserStarts` |
| `stopLocalBackend`, `terminateLocalBackend` | `Stop` |
| the app dies or quits and starts again | `Restart` |

`readHealth` finds a healthy backend or, when it answers late, nothing.
`SIGKILL` at the deadline has no action of its own: its effect is an `Exits` that
may come at any later time, before or after the probe.  Left out: spawns that
fail, the auth key in the answer, a pid used again, a pid file that cannot be
written.

`NoStaleBackend` is about the steps by which a start takes up what it found at
the port.  The comment at `main/backend.ts:102` wants none of them to adopt a
server with old code.  A start that does its own reaping, or begins after another
has, keeps that: what it told to end has ended, or outlived the three seconds it
was given.  What a start may still take up of an earlier session, and the
property excepts by name (`MayAnswer`), is

- a backend told to end in an earlier session, by its quit or by a start the
  app died in: it is no longer in the pid file, and nobody waits for it
  (`signalled` without `awaited`);
- one that outlived the wait of a start of this session, and so may have been
  killed and not yet be gone (taken out of `awaited`);
- one whose pid file was removed while it lived (`erased`), by the exit of a
  child that another has replaced, or by the quit of a session that never
  started a backend while one of an earlier session was still named;
- one another start is still waiting for (`Reaping`): `reapOrphan` removes the
  pid file before it waits, so a start that overlaps it finds no orphan to
  wait for.

The model reaches each of them.  Without the wait (`Reaped_Variant`) the start
itself finds the server it has just told to end, which is none of these.

## 4. Runs

The `turn_recovery` runs use two prompts, one retry of the schedule and two restarts
(`MaxRestarts = 2`).  Two prompts are enough for one to wait, be claimed or be
refused while the other runs or resumes; two restarts let a resumed turn be
interrupted again, which is where continuations, retries and `continues`
accumulate; the sweep's tries behave alike but for the last, so two cover the
code's three.

| run | shows |
|---|---|
| `turn_recovery_safety` | the type invariant, the safety invariants, the action properties and the refinement of `TaskDelivery`, with failed bookkeeping |
| `turn_recovery_preempt` | at most one delivery survives a user who acts during recovery and an agent that works on its own |
| `turn_recovery_liveness` | shutdowns end, interrupted turns are decided, unconfirmed prompts are told, under `FairSpec` |
| `turn_recovery_agent_runs`, `_give_up`, `_stop` | the divergences of section 5, one violated property each |
| `thread_queue_order` | three public messages and a hidden one, no steers: none lost or doubled, a live turn keeps its row, the queue implements `MessageLine`, a free thread goes on |
| `thread_queue_steers` | three public messages, steered or not: none lost or doubled, every `PendingSteer` has its goroutine |
| `thread_queue_restore`, `agent_start_stale` | the divergences of section 5 |
| `desktop_connection` | the session in force answers the last request (refinement of `UserConnection`), its credential stays with its backend, no window is stranded, a refusal ends only its session, and in the end the windows agree |
| `desktop_frontend` | text as written and without a gap, an open thread catches up; no message lost, what was submitted is sent; one script has the machine, keeps the terms of its lease (refinement of `MachineLease`), and it comes free; no backend lost sight of, none taken up that a start should have waited out |

Three messages let one run, one wait or be carried, and one be edited under
them; with one hidden message each line's order and the public line's
precedence show.  One pending drain is enough, since a drain reads the row when
it runs, and one reorder (`MaxEdits = 1`) shows whether any other change of the
order happens.  The runs do not check for deadlock: messages are used once, and a
thread whose messages are all answered for may rest.

`turn_recovery_safety` does not check for deadlock: a thread whose bookkeeping
failed stays running until a restart, and restarts are bounded.  The preempt run
does not combine `Preempt` with `StoreFails`: a user who overrides a turn whose
failed bookkeeping left no mark is a double fault in which a second prompt's
record can hide the first one's, and `AtMostOnceDelivery` fails.

`desktop_connection` has two windows, the local backend and a remote one.
Behaviours differ in what they may spend (`Bounds`, six combinations of
requests, navigations, revocations, lost or late answers, remembered sessions
and restarts), chosen at the start: all of them at once would be too large, and
each pair of disturbances that meets in the code is together in one.

`desktop_frontend` checks four modules that share no state.  Which one moves is
chosen at the start (`focus`), so the state space is the sum of theirs and not
the product, and no behaviour of a part is lost.  Four events make a run of text
of two deltas with a status and a tool's row or the end of the turn around it;
three sends are a rejected one, one sent after it, and one more; two pages with
two scripts contend for the machine; two starts, two backends and two sessions
are an orphan and its successor.

Fairness (`ServerFairness`) covers goroutines the server runs to completion
without anyone's help: the end of a prompt call once it is answered, once its
retry wait passes, or once Close has closed the agent's connection; `finishTurn`;
the rest of Close; the sweep.  The agent's answers, clients, and the starting of
turns have none: an agent may work for ever, and the properties do not say it
will not.

`ThreadQueue`'s `Fairness` covers the goroutines that hold the lock or carry a
message.  Those that wait for the lock have strong fairness: Go's mutex hands
itself to a waiter that has starved for a millisecond.  `Carry` is weakly fair
because each call it stands for has a timeout.  Clients, titles and agents have
none.  `FreeThreadMoves` excepts a thread that waits for the user (`parked`):
nothing drains a thread whose start failed.  It is checked without steers.

In the desktop runs `System` is weakly fair: what the main process, the server
and timers do unasked.  What the user does, faults, lost and late answers,
revocations, restarts, the end of an agent's turn or of a script, and
navigations are not.

Each property has a mutant: a definition next to the one it replaces, named
after it, that is wrong in a way the code could plausibly be
(`RetryWaitEnds_Resends`, `MarkSending_Late`, `Begin_Variant`, ...), under which TLC finds the
property violated.

## 5. Where the code and its words differ

- **Agent runs confirm prompts** (`turn_recovery_agent_runs`).  Any update that
  arrives while a prompt is being sent confirms it (`acp/protocol.go:145`),
  including one of work the agent began on its own, which `startAgentRun`
  leaves to the turn that holds the thread.  After a crash the recovery then
  continues a task that no agent holds; the documentation says only "primary
  turn output or a prompt response" confirms.
- **Giving up ends another turn** (`turn_recovery_give_up`).  The sweep lets go
  of the thread between its last try and `FailInterruptedTurn`, which ends
  whatever turn the row then has, one the user just began included.
- **A stop while a claimed turn starts** (`turn_recovery_stop`) empties the row
  but not the goroutine, which begins the turn afterwards.
- **A refused start takes the running turn's record** (`thread_queue_restore`).
  When two messages both find the thread free while its agent is away, one
  starts and the other's `Send` is refused; the refused one's failure path marks
  the row `error`, which clears the turn that runs.  That turn's end then
  delivers nothing.
- **An agent's start overwrites the queue** (`agent_start_stale`).
  `resumeLocked` (`acp/resume.go:157`) saves the row it loaded before the agent
  started, without the thread's lock: a message queued meanwhile is gone.

## 6. Proofs

`TurnRecovery_proofs` proves, for all sets of prompts, retry schedules, numbers
of tries and of restarts:

- `TypeCorrect`, with no assumption about users or agents;
- under `~Preempt`, `TasksConserved`, `RowKeepsUp`, `ResultsComeFromTheEnd` and
  `TurnsBeginFromTheRow`: what concerns who has the thread.  Without the
  assumption runs `turn_recovery_give_up` and `turn_recovery_stop` refute two of
  them;
- under `~Preempt \/ ~StoreFails`, `DeliveredOnce`, `PreparedIsSafe` and
  `UsedRetriesSurvive`: what concerns sending twice.  Users may stop interrupted
  turns, write over them and race the sweep, agents may work on their own; only
  the double fault of section 4 is left out.  (`turn_recovery_safety` checks
  `PreparedNeverWritten` and `RetriesSurvive` without such users; with them the
  theorems say it, and `turn_recovery_preempt` checks `AtMostOnceDelivery`);
- under that and `~AgentRuns`, `ContinuesHeld` and `DecidedTasksResume`.  Without
  the latter `turn_recovery_agent_runs` refutes the first;
- under `~Preempt` and `~AgentRuns`, `PromiseKept`: the thread implements
  `TaskDelivery`.

The invariant has layers, each of which needs less of the environment than one
invariant for everything would.  `IInv` is about who has the thread.  Its
`RowShape` ties the row's turn to its status; `OneWorker` says that at most one
of a starting goroutine, a running turn, an ending one and the sweep has the
thread, and that the row fits whichever it is; `TaskPlaces` locates each prompt,
and `JobShape` ties the running call to the row.  A user who acts on a thread
whose turn is not live breaks `OneWorker`, and much of what follows from it, but
not the promise to send once.  `SendInv` holds without it: a live call's row is
its own or was emptied (`CallShape`), the sweep's copy of an interrupted turn is
the row's or the row was emptied, and nobody else has begun to start anything
(`Untouched`), a prompt has one goroutine to start it and no turn beside that
one's claim (`Place`), and what a row or the sweep's copy says is unwritten is
(`Unwritten`).  Its one step that needs `OneWorker` is the failed bookkeeping of
an ended turn, which marks the row interrupted without the thread's lock: hence
`~Preempt \/ ~StoreFails` (`FailsAlone`).  `HeldInv` relates what a row would
continue to what the agent has taken in, and an agent's own work is what breaks
it.  `IdleJob` is a further, independent invariant.

Lemmas come in three groups: types (`...Type`), what an operator leaves in a
record's fields (`...Fields`), and for each layer one invariance lemma for each
of the three groups of actions (`StartingInv`, `CallingInv`, `RestartingInv`,
and `...Send`), with one step per action.  `PlacesEmptied`, `CallStep` and
`HeldStay` do at once the many steps that only empty the row or move the live
call on.  The assumptions are those `TurnRecovery` states of its constants:
the messages are distinct and the bounds are numbers.

`ThreadQueue_proofs` proves, for any messages and bounds, with steers and
without, the type invariant, `NoMessageLost` and `PendingSteerCarried`; and
`RowHoldsTurn` under `~Steers`, the assumption without which run
`thread_queue_restore` refutes it.  The row is saved as a whole some time after
it was loaded, so the invariant is about what the lock's holder still has in its
hands: `LockFits` says that the lines it is about to save differ from the stored
ones by its own change alone, and that its message has not moved on since;
`SteerFits` says the same of the pending steer.  `Conserved` is `NoMessageLost`
without counting: a message waits, is carried, was begun or was withdrawn, and
never two of these; `CountedOnce` turns it into the sum, from lines that repeat
nothing.  What the sequence operators do to such a line is proved once for each
(`LineAppend`, `LineTail`, `LineRemoveAt`, `LineInsertAt`, `LineReordered`).
For `RowHoldsTurn`, `TurnInv` adds that one message at most has the thread
claimed, with no turn running, and that a row loaded while the thread ran is
still saved as running; a claim and a start therefore find no one else there.

Its last part proves `KeepsOrder` under `~Steers`: the queue implements
`MessageLine`.  A line is mapped to what is claimed of it followed by
what is stored.  `TurnInv` leaves one claimed message at most, so the choice by
which the mapping orders the claimed ones has nothing to choose (`FrontNone`,
`FrontOne`).  `CarriersFit` says that a message that was claimed from a line, and
may have to go back there, goes back to its head, and that a message sent
directly is public, so it can count as the head of the public line while it is
started.  `LinesFit` is the core: the lines the lock's holder is about to save
are the stored ones but for exactly its own change.  From it each save is a step
of the line and each load none (`OrderNext`, with one lemma per group of
actions); what the mapping makes of an insertion, removal or reorder of stored
messages behind a claimed one is proved once for each (`AheadAppend`,
`InsertedFirst`, `RemovedBehind`, `ReorderedBehind`).

`DesktopConnection_proofs` proves, for any windows, backends and budgets of the
user and the environment, the type invariant, `CredentialStaysHome` and
`ServesLastRequest`: the session all windows share implements `UserConnection`.
The invariant `Sound` has a part for each thing the app keeps or has under way.
Its point is that work outlives the attempt it was begun for: a registration,
a `local()` call or an answer is for the backend and the request of the owner's
attempt if it still speaks for it (`Mine`), and whatever else it is for, it is
dropped.  `OwnerOK` then says that the only attempt main would commit, the one of
the revision it holds, is for the session's backend and the last request.  Every
action is reduced to a few shapes of a step (a window works on, the owner begins,
commits or ends a session, a window follows, leaves or loads a page, the app
restarts, or only work under way moves), `Shaped` says that these are all, and
each part of the invariant is shown for the shapes that can disturb it.

Its last part adds what the windows know of each other.  `Shared` says
that snapshots of one revision are one snapshot wherever they are (`Agreement`),
that an open window is in step with the session or has the snapshot in force in
its mail (`Informed`), and that a window uses what it has and no more (`Using`).
`NoWindowStranded` and `RefusalEndsOnlyItsSession` follow.  For
`LocalCredentialKept`, `LocalUse` says that a credential the session has, or may
come to have without another being issued (`InUse`), is the one the local backend
accepts (`Kept`), and that meanwhile no startup is issuing another and no call of
the session can ask for one (`Quiet`); `Startups` keeps the startups apart.

`LocalBackend_proofs` proves, for any callers, backends and sessions, its type
invariant and both safety properties.  `PidFileIsOwn` says that once a session
has begun a start the pid file names its child or nothing, because the first
start reaps before it probes; `AwaitedIsReaped` that a backend a start of this
session told to end, and that did not outlive its wait, has ended or is waited
for.  With `NoBackendLeaks` the two make every healthy backend one a start may
take up while none is left to reap (`HealthyMayAnswer`).  The invariant carries
that from the probe to the decision taken on it later, and `TakesUpFresh` reads
the action property off it.

`ThreadFeed_proofs` proves, for any number of events and disturbances
(`FeedBounds` says that both bounds are numbers, no more), the types of the
thread's state (`FeedTypes`), `ReadsAsWritten` and `ResumesWithoutGap`.  Neither
of the two is inductive: each is about one of two caches that five steps fill in
turn, and what the page and the live events show of a run of text is put
together anew at every step.  The invariant `FeedInv` is stated of the live
cache as it will be once the events under way to it are in (`FlushedOf`), which
`Receive` changes by one event and `Flush` does not change at all.  Its parts:

- `RecordOK`: stored rows of one run are deltas in their order, follow one
  another, and only the open run still grows;
- `PageOK`: the page covers every delta stored up to its newest event
  (`Covers`), and a run in it is over, complete and in order unless it is one of
  those in `cut`;
- `LiveOK`: a live event is newer than the page, and of its run it has every
  delta that the page has not reached, so the two leave no hole;
- `FetchOK`: a page that was read is no older than the one it is going to
  replace, and a first page no older than the live events;
- `StreamOK`, `WireOK`: everything up to the point the stream resumes from is
  shown or about to be, everything after it is on the wire once the stream is
  open, and the wire carries each run in order;
- `Identity`: a sequence number names one projection wherever it is known.

TLC checked it on an instance of four events before it was proved.  The
caches are computed by recursive functions (`Flushed` over the pending events,
`Whole` over the events of a projection).  The library's induction theorems take
an operator and cannot be instantiated, but `SetInduction` (a set that has 0,
and with each number the next, has all numbers) follows from its theorems about
injections of finite sets, and it is enough: `JoinExists` and
`MergeExists` show that the recursions define functions, and `JoinedText`,
`JoinedSorted` and `OneMoreFlushed` what these compute.  `Ordered` shows the same
of `InOrder`, which is defined by a choice.  One lemma per group of steps then
says what the step leaves of the parts it touches: `Grown` relates a record to
the one after a report or a compaction, and every part that reads the record
only is kept by any record that grew (`PageKept`, `LiveKept`, `FetchKept`,
`StreamKept`).

`ThreadComposer_proofs` proves the type invariant and `NoMessageLost` for any
number of texts, messages and departures.  The invariant adds
`LastIsRestorable`: only the last send can be one the user has not written over,
and while it is on its way the composer is empty and would take it back; and
`AcceptedIsTaken`: an acceptance is read only of a message the server has.  A
rejected send other than the last therefore changes nothing (`RejectedInv`).

`ComputerUse_proofs` proves the type invariant, `OneScriptControls` and
`KeepsLease` for any pages and scripts.  A step may give the machine away wrongly only if a call
arrives that its script should no longer have on its way, so the invariant is
about the calls: the one that asks for the machine comes before all others of
its script (`CallsInOrder`), nothing asks for it once the lease was given or the run
answered (`AskedOnce`), what a page does, asks and has is its own (`Separate`),
and a page that was told its lease ended has none and asks for none
(`EndsAreFinal`).  `QuietStep` covers at once the steps that begin no script,
give nobody the machine and answer no run; the three others have lemmas of their
own.  The order of one page's calls over Electron's IPC is assumed by the model,
and `CallsInOrder` rests on it.

`KeepsLease` needs more.  `call` accepts an action by the lease alone, and only
`perform` waits for the driver; the model has the action under way from its
acceptance.  That the driver lives by then rests on what the page was told.  `LeaseInv` adds that a script which has yet to ask has no
driver (`Unasked`), that the holder's driver is not closed (`HolderDriven`), and
that a page lets its script act, and has an action on its way, only once the
script's driver lived (`ActsOnDriver`).  Then `Deliver` takes the machine, acts
or gives it up, `Close` frees it, `EndAnswered` tells, and a page's own steps
are not seen (`StepsPromised`).

`MCFrontend_proofs` proves of the app of four parts, as `desktop_frontend` runs
it, that each part keeps to its own specification (`PartsKeepToThemselves`): a
step is of the part in focus and leaves the variables of the others.  The types
of the whole (`AppTypes`) and the safety properties and refinement of the four
(`PartsAreSafe`) follow from the theorems about the parts.

Model-checked only:

- the liveness properties (`EventuallyAgree`, `FreeThreadMoves`, `CatchesUp`,
  `MachineFreed`, `LeavingSends` and those of `turn_recovery_liveness`): the
  prover has no ENABLED.

## 7. Not modelled

See the components marked `not_modelled` in `PROJECT.json`, each with its
reason, and the hazards there whose `properties` are empty.  The largest gaps in
the backend are the commitments of bots, routine runs and the overlapping calls
of an active turn.  Of the desktop app, views, settings, the browser panel,
voice and notifications are left out: rendering and platform calls around
cached reads.  They are most of its lines.

Inside the modelled parts, these known cases have no run of their own: a start that fails
while a row loaded earlier is being saved leaves the thread shown as running
with nothing to end it (`server/server.go:538`), a stop between a steer's
handover and `clearPendingSteerMessage` skips the drain
(`server/turn_completion.go:109`), and a crash between a steer's save and its
handover loses the message (`server/queue.go:526`).
