------------------------ MODULE TurnRecovery_proofs -------------------------
(***************************************************************************)
(* Proofs about TurnRecovery, by layers of its inductive invariant:         *)
(*                                                                          *)
(*   - TypeInv holds for every value of the constants;                      *)
(*   - IInv, which relates the row to the one worker that has the thread,   *)
(*     holds as long as users leave an interrupted turn alone (~Preempt);   *)
(*   - SendInv, what keeps a prompt from being sent twice, holds also when  *)
(*     they do not, unless the bookkeeping of an ended turn fails as well   *)
(*     (~Preempt \/ ~StoreFails);                                           *)
(*   - HeldInv, what keeps a continuation from an agent without the task,   *)
(*     holds then for an agent that works on prompts only (~AgentRuns).     *)
(***************************************************************************)
EXTENDS TurnRecovery, TLAPS

----------------------------------------------------------------------------
(* The inductive invariant *)

\* The types, with what keeps the sweep's variables in theirs.
TypeInv ==
    /\ TypeOK
    /\ resuming => Trying
    /\ server # "up" => sweep = 0

\* What a turn can hold.
TurnShape(t) ==
    /\ t.stage = "none" => t = NoTurn
    /\ t.stage = "reserved" => t = Reserved
    /\ t.stage = "claimed" => t.task \in Prompts /\ t = Claimed(t.task)
    /\ t.stage \in {"prepared", "sending", "confirmed"} =>
           t.msg \in {Continue, Compact, t.task} \ {None}

\* What the row's turn can hold, and which statuses go with a turn.
RowShape ==
    /\ status \in {"idle", "error"} <=> turn.stage = "none"
    /\ TurnShape(turn)
    /\ turn.msg = Compact => turn.task = None

\* At most one of a starting goroutine, a running turn, an ending one and the
\* sweep has the thread, and the row's status and turn fit the one that has.
OneWorker ==
    /\ server = "down" => starters = {} /\ ~Live /\ ending = "none" /\ sweep = 0
    /\ starters # {} =>
           /\ status = "running" /\ Vacant /\ sweep = 0
           /\ \E s \in starters :
                  /\ starters = {s}
                  /\ \/ s.from = "queue" /\ s.msg \in Prompts /\ turn = Claimed(s.msg)
                     \/ s.from = "http" /\ turn = Reserved /\ s.msg \notin accepted
    /\ Live => status = "running" /\ ending = "none" /\ sweep = 0
    /\ ending # "none" => status = "running" /\ sweep = 0
    /\ sweep # 0 => status = "interrupted"
    /\ resuming => sweep \in 1..Tries /\ snapshot = turn /\ ~Unconfirmed(turn)

\* Where each prompt is, and whether its result is out.
TaskPlaces ==
    \A p \in Prompts :
        /\ p \in queue => p \in accepted /\ p # turn.task /\ ended[p] = 0
        /\ p = turn.task => p \in accepted /\ ended[p] = 0
        /\ p \in accepted => p \in queue \/ p = turn.task \/ ended[p] = 1
        /\ p \notin accepted => ended[p] = 0
        /\ ended[p] <= 1

\* How far the running turn's prompt call is, in the row.
JobShape ==
    Live =>
        /\ turn.task = job.task /\ turn.retries = job.retries
        /\ turn.stage = IF job.observed THEN "confirmed" ELSE IF job.sending THEN "sending" ELSE "prepared"
        /\ job.observed => job.sending
        /\ job.phase # "ready" => job.sending

IInv == TypeInv /\ RowShape /\ OneWorker /\ TaskPlaces /\ JobShape

----------------------------------------------------------------------------
(* Type correctness *)

\* The empty turn is a turn.
LEMMA NoTurnType == NoTurn \in Turns
  BY BoundsAreNatural DEF NoTurn, Turns, Stages

\* A turn at another stage is a turn.
LEMMA StagedType == ASSUME NEW t \in Turns, NEW x \in Stages PROVE [t EXCEPT !.stage = x] \in Turns
  BY DEF Turns

\* So is one given a message and a task.
LEMMA FilledType ==
  ASSUME NEW t \in Turns, NEW x \in Stages, NEW m \in Messages \union {None}, NEW task \in Prompts \union {None}
  PROVE  [t EXCEPT !.stage = x, !.msg = m, !.task = task] \in Turns
  BY DEF Turns

\* A reservation is a turn.
LEMMA ReservedType == Reserved \in Turns
  BY NoTurnType, StagedType DEF Reserved, Stages

\* A claim of a queued message is a turn.
LEMMA ClaimedType == ASSUME NEW p \in Prompts PROVE Claimed(p) \in Turns
  BY NoTurnType, FilledType DEF Claimed, Stages, Messages

\* A turn about to send a message is a turn.
LEMMA PreparedType ==
  ASSUME NEW m \in Messages \union {None}, NEW task \in Prompts \union {None}
  PROVE  Prepared(m, task) \in Turns
  BY NoTurnType, FilledType DEF Prepared, Stages

\* The idle job is a job.
LEMMA NoJobType == NoJob \in Jobs
  BY BoundsAreNatural DEF NoJob, Jobs, Phases, Replies

\* A recorded prompt state leaves a turn a turn.
LEMMA RecordedType ==
  ASSUME turn \in Turns, NEW x \in {"sending", "confirmed"}
  PROVE  Recorded(x) \in Turns
<1>1. turn.stage \in Stages
  BY DEF Turns
<1>2. (IF turn.stage = "confirmed" THEN turn.stage ELSE x) \in Stages
  BY <1>1 DEF Stages
<1> QED
  BY <1>2, StagedType DEF Recorded

\* What resumes a turn is a turn.
LEMMA ResumedType == ASSUME NEW t \in Turns PROVE Resumed(t) \in Turns
<1>1. /\ t.msg \in Messages \union {None} /\ t.task \in Prompts \union {None}
      /\ t.retries \in 0..MaxRetries /\ t.continues \in BOOLEAN
  BY DEF Turns
<1>2. CASE t.stage = "claimed"
  BY <1>1, <1>2, PreparedType DEF Resumed
<1>3. CASE t.stage # "claimed" /\ t.msg = Compact
  BY <1>1, <1>3, PreparedType DEF Resumed, Messages
<1>4. CASE t.stage # "claimed" /\ t.msg # Compact
  BY <1>1, <1>4 DEF Resumed, Turns, Stages, Messages
<1> QED
  BY <1>2, <1>3, <1>4

\* Counting keeps a count a count.
LEMMA AgainType ==
  ASSUME NEW f \in [Prompts -> 0..2], NEW p
  PROVE  [f EXCEPT ![p] = Again(@)] \in [Prompts -> 0..2]
<1>1. \A n \in 0..2 : Again(n) \in 0..2
  BY DEF Again
<1> QED
  BY <1>1

\* The types hold at the start.
LEMMA TypeInit == Init => TypeInv
<1> SUFFICES ASSUME Init PROVE TypeInv
  OBVIOUS
<1>1. delivered \in [Prompts -> 0..2] /\ ended \in [Prompts -> 0..2]
  BY DEF Init
<1>2. sweep \in 0..Tries + 1 /\ restarts \in 0..MaxRestarts
  BY BoundsAreNatural DEF Init
<1> QED
  BY <1>1, <1>2, NoTurnType, NoJobType DEF Init, TypeInv, TypeOK, Statuses, Endings

\* Beginning a turn keeps the types.
LEMMA BeginType ==
  ASSUME TypeOK, NEW t \in Turns, Begin(t)
  PROVE  turn' \in Turns /\ job' \in Jobs /\ accepted' \subseteq Prompts /\ status' \in Statuses
<1>1. /\ t.msg \in Messages \union {None} /\ t.task \in Prompts \union {None}
      /\ t.retries \in 0..MaxRetries
  BY DEF Turns
<1>2. job' \in Jobs
  BY <1>1, NoJobType DEF Begin, Jobs, Phases
<1> QED
  BY <1>2 DEF Begin, TypeOK, Statuses

\* Observing an update or an answer keeps the types.
LEMMA ObserveType ==
  ASSUME turn \in Turns, NEW j \in Jobs, Observe(j)
  PROVE  turn' \in Turns /\ job' \in Jobs
<1>1. [j EXCEPT !.observed = TRUE] \in Jobs
  BY DEF Jobs
<1> QED
  BY <1>1, RecordedType DEF Observe

\* Ending a prompt call for good keeps the types.
LEMMA EndJobType ==
  ASSUME NEW outcome \in Endings, EndJob(outcome)
  PROVE  job' \in Jobs /\ ending' \in Endings
  BY NoJobType DEF EndJob, Endings

\* Ending a turn keeps the types.
LEMMA EndTurnType ==
  ASSUME TypeOK, NEW newStatus \in Statuses, EndTurn(newStatus)
  PROVE  status' \in Statuses /\ turn' \in Turns /\ ended' \in [Prompts -> 0..2]
  BY NoTurnType, AgainType DEF EndTurn, TypeOK

\* Starting turns keeps the types.
LEMMA StartingType == TypeInv /\ Starting => TypeInv'
<1> SUFFICES ASSUME TypeInv, Starting PROVE TypeInv'
  OBVIOUS
<1> USE DEF TypeInv, TypeOK, Trying
<1>1. ASSUME NEW p \in Prompts, Submit(p) PROVE TypeInv'
  BY <1>1 DEF Submit, memory
<1>2. ASSUME NEW p \in Prompts, Claim(p) PROVE TypeInv'
  <2>1. turn' \in Turns
    BY <1>2, ClaimedType DEF Claim
  <2>2. starters' \subseteq Starters
    BY <1>2 DEF Claim, Starters
  <2> QED
    BY <1>2, <2>1, <2>2 DEF Claim, Statuses, history
<1>3. ASSUME NEW m \in Prompts \union {Compact}, Reserve(m) PROVE TypeInv'
  <2>1. turn' \in Turns
    BY <1>3, ReservedType DEF Reserve
  <2>2. starters' \subseteq Starters
    BY <1>3 DEF Reserve, Starters
  <2> QED
    BY <1>3, <2>1, <2>2 DEF Reserve, Statuses, history
<1>4. ASSUME NEW s \in starters, StartTurn(s) PROVE TypeInv'
  <2>1. s.msg \in Prompts \union {Compact}
    BY DEF Starters
  <2> DEFINE t == Prepared(s.msg, IF s.msg = Compact THEN None ELSE s.msg)
  <2>2. t \in Turns
    BY <2>1, PreparedType DEF Messages
  <2>3. Begin(t)
    BY <1>4 DEF StartTurn
  <2> HIDE DEF t
  <2> QED
    BY <1>4, <2>2, <2>3, BeginType DEF StartTurn
<1>5. ASSUME NEW s \in starters, StartRefused(s) PROVE TypeInv'
  <2>1. queue' \subseteq Prompts
    BY <1>5 DEF StartRefused, Starters
  <2> QED
    BY <1>5, <2>1, NoTurnType DEF StartRefused, Statuses, history
<1>6. ASSUME NEW s \in starters, LeaveClaim(s) PROVE TypeInv'
  BY <1>6 DEF LeaveClaim, row, history
<1> QED
  BY <1>1, <1>2, <1>3, <1>4, <1>5, <1>6 DEF Starting

\* Prompt calls and the end of turns keep the types.
LEMMA CallingType == TypeInv /\ Calling => TypeInv'
<1> SUFFICES ASSUME TypeInv, Calling PROVE TypeInv'
  OBVIOUS
<1> USE DEF TypeInv, TypeOK, Trying
<1>1. CASE MarkSending
  <2> DEFINE j == [job EXCEPT !.phase = "marked"]
             k == [job EXCEPT !.phase = "marked", !.sending = TRUE]
  <2>j. j \in Jobs /\ k \in Jobs
    BY DEF Jobs, Phases
  <2> HIDE DEF j, k
  <2>1. job' \in Jobs
    <3>1. job' = j \/ job' = k
      BY <1>1 DEF MarkSending, j, k
    <3> QED
      BY <3>1, <2>j
  <2>2. turn' \in Turns
    BY <1>1, RecordedType DEF MarkSending
  <2> QED
    BY <1>1, <2>1, <2>2 DEF MarkSending, history
<1>2. CASE Write
  <2>1. job' \in Jobs
    BY <1>2 DEF Write, Jobs, Phases
  <2>2. delivered' \in [Prompts -> 0..2]
    BY <1>2, AgainType DEF Write
  <2> QED
    BY <1>2, <2>1, <2>2 DEF Write, row
<1>3. CASE AgentTakes
  <2>1. job' \in Jobs
    BY <1>3 DEF AgentTakes, Jobs, Phases
  <2> QED
    BY <1>3, <2>1 DEF AgentTakes, row
<1>4. CASE AgentOutput
  BY <1>4, ObserveType DEF AgentOutput, history
<1>5. CASE AgentRunOutput
  BY <1>5, ObserveType DEF AgentRunOutput, history
<1>6. ASSUME NEW reply \in Replies \ {""}, Answer(reply) PROVE TypeInv'
  <2> DEFINE j == [job EXCEPT !.phase = "answered", !.reply = reply]
  <2>1. j \in Jobs
    BY DEF Jobs, Phases
  <2>2. Observe(j)
    BY <1>6 DEF Answer
  <2> HIDE DEF j
  <2> QED
    BY <1>6, <2>1, <2>2, ObserveType DEF Answer
<1>7. CASE Complete
  <2>1. job' \in Jobs /\ ending' \in Endings
    BY <1>7, EndJobType DEF Complete, Endings
  <2> QED
    BY <1>7, <2>1 DEF Complete, row, history
<1>8. CASE RecordRetry
  <2>1. job.retries + 1 \in 0..MaxRetries
    <3>1. job.retries \in 0..MaxRetries
      BY DEF Jobs
    <3>2. job.retries < MaxRetries
      BY <1>8 DEF RecordRetry, Retryable
    <3> QED
      BY <3>1, <3>2, BoundsAreNatural
  <2>2. job' \in Jobs /\ turn' \in Turns
    BY <1>8, <2>1 DEF RecordRetry, Jobs, Turns, Phases, Replies
  <2> QED
    BY <1>8, <2>2 DEF RecordRetry, history
<1>9. CASE RetryWaitEnds
  <2>1. job' \in Jobs /\ ending' \in Endings
    <3>1. [job EXCEPT !.phase = "ready", !.msg = Continue] \in Jobs
      BY DEF Jobs, Phases, Messages
    <3> QED
      BY <1>9, <3>1, EndJobType DEF RetryWaitEnds, Endings
  <2> QED
    BY <1>9, <2>1 DEF RetryWaitEnds, row, history
<1>10. CASE CallFails
  BY <1>10, EndJobType DEF CallFails, Endings, row, history
<1>11. CASE Stop
  <2>1. job' \in Jobs
    BY <1>11 DEF Stop, Jobs
  <2> QED
    BY <1>11, <2>1 DEF Stop, row, history
<1>12. CASE StopStored
  BY <1>12, NoTurnType DEF StopStored, Statuses, memory, history
<1>13. CASE Finish
  <2>1. status' \in Statuses /\ turn' \in Turns /\ ended' \in [Prompts -> 0..2]
    BY <1>13, EndTurnType DEF Finish, Statuses
  <2> QED
    BY <1>13, <2>1 DEF Finish, Endings
<1>14. CASE FinishFails
  BY <1>14 DEF FinishFails, Statuses, Endings, history
<1> QED
  BY <1>1, <1>2, <1>3, <1>4, <1>5, <1>6, <1>7, <1>8, <1>9, <1>10, <1>11, <1>12, <1>13, <1>14 DEF Calling

\* Restarts and the recovery sweep keep the types.
LEMMA RestartingType == TypeInv /\ Restarting => TypeInv'
<1> SUFFICES ASSUME TypeInv, Restarting PROVE TypeInv'
  OBVIOUS
<1> USE DEF TypeInv, TypeOK, Trying
<1>1. CASE CloseBegin
  <2>1. job' \in Jobs
    BY <1>1 DEF CloseBegin, Jobs
  <2>2. sweep' = 0 /\ restarts' = restarts + 1 /\ restarts < MaxRestarts
    BY <1>1 DEF CloseBegin
  <2>3. sweep' \in 0..Tries + 1 /\ restarts' \in 0..MaxRestarts
    BY <2>2, BoundsAreNatural
  <2> QED
    BY <1>1, <2>1, <2>2, <2>3, NoTurnType DEF CloseBegin, row, history
<1>2. CASE CloseEnd
  BY <1>2 DEF CloseEnd, row, history
<1>3. CASE Crash
  <2>1. sweep' \in 0..Tries + 1 /\ restarts' \in 0..MaxRestarts
    BY <1>3, BoundsAreNatural DEF Crash
  <2> QED
    BY <1>3, <2>1, NoTurnType, NoJobType DEF Crash, Endings, row, history
<1>4. CASE Boot
  <2>1. sweep' \in 0..Tries + 1
    BY <1>4, BoundsAreNatural DEF Boot
  <2> QED
    BY <1>4, <2>1, BoundsAreNatural DEF Boot, Statuses, history
<1>5. CASE ResumeBegin
  <2>1. sweep' \in 0..Tries + 1 /\ (resuming' => sweep' \in 1..Tries)
    BY <1>5, BoundsAreNatural DEF ResumeBegin
  <2>2. server = "up"
    BY <1>5, BoundsAreNatural DEF ResumeBegin
  <2> QED
    BY <1>5, <2>1, <2>2 DEF ResumeBegin, row, history
<1>6. CASE ResumeStart
  <2>1. Begin(Resumed(snapshot)) /\ Resumed(snapshot) \in Turns
    BY <1>6, ResumedType DEF ResumeStart
  <2>2. turn' \in Turns /\ job' \in Jobs /\ accepted' \subseteq Prompts /\ status' \in Statuses
    BY <2>1, BeginType
  <2>3. sweep' \in 0..Tries + 1
    BY <1>6, BoundsAreNatural DEF ResumeStart
  <2> QED
    BY <1>6, <2>2, <2>3, NoTurnType DEF ResumeStart
<1>7. CASE ResumeFails
  <2>1. sweep' \in 0..Tries + 1
    BY <1>7, BoundsAreNatural DEF ResumeFails
  <2>2. server = "up"
    BY <1>7, BoundsAreNatural DEF ResumeFails
  <2> QED
    BY <1>7, <2>1, <2>2, NoTurnType DEF ResumeFails, row, history
<1>8. CASE GiveUp
  <2>1. status' \in Statuses /\ turn' \in Turns /\ ended' \in [Prompts -> 0..2]
    BY <1>8, EndTurnType DEF GiveUp, Statuses
  <2>2. sweep' \in 0..Tries + 1 /\ ~resuming
    BY <1>8, BoundsAreNatural DEF GiveUp
  <2> QED
    BY <1>8, <2>1, <2>2 DEF GiveUp
<1> QED
  BY <1>1, <1>2, <1>3, <1>4, <1>5, <1>6, <1>7, <1>8 DEF Restarting

\* The types hold throughout.
LEMMA Types == Spec => []TypeInv
<1>1. TypeInv /\ [Next]_vars => TypeInv'
  <2>1. TypeInv /\ UNCHANGED vars => TypeInv'
    BY DEF TypeInv, TypeOK, Trying, vars, row, memory, history
  <2> QED
    BY <2>1, StartingType, CallingType, RestartingType DEF Next
<1> QED
  BY <1>1, TypeInit, PTL DEF Spec

\* Every state variable keeps its type, whatever the constants: a turn's
\* retries never outgrow the schedule (completePromptCall) and the sweep never
\* goes past its tries (sessionrecovery.Resume).
THEOREM TypeCorrect == Spec => []TypeOK
<1>1. TypeInv => TypeOK
  BY DEF TypeInv
<1> QED
  BY <1>1, Types, PTL

----------------------------------------------------------------------------
(* The fields of the records the actions build *)

\* What a reservation holds.
LEMMA ReservedFields == Reserved.stage = "reserved" /\ Reserved.msg = None /\ Reserved.task = None
  BY DEF Reserved, NoTurn

\* What a claim holds.
LEMMA ClaimedFields ==
  ASSUME NEW p
  PROVE  Claimed(p).stage = "claimed" /\ Claimed(p).msg = p /\ Claimed(p).task = p
  BY DEF Claimed, NoTurn

\* What a prepared turn holds.
LEMMA PreparedFields ==
  ASSUME NEW m, NEW task
  PROVE  /\ Prepared(m, task).stage = "prepared" /\ Prepared(m, task).msg = m
         /\ Prepared(m, task).task = task
  BY DEF Prepared, NoTurn

\* What recording a prompt state leaves of the turn.
LEMMA RecordedFields ==
  ASSUME turn \in Turns, NEW x
  PROVE  /\ Recorded(x).stage = IF turn.stage = "confirmed" THEN "confirmed" ELSE x
         /\ Recorded(x).msg = turn.msg /\ Recorded(x).task = turn.task
         /\ Recorded(x).retries = turn.retries
  BY DEF Recorded, Turns

\* The job of a turn that begins.
LEMMA BeginFields ==
  ASSUME NEW t, Begin(t)
  PROVE  /\ turn' = t /\ status' = "running"
         /\ job'.phase = "ready" /\ job'.msg = t.msg /\ job'.task = t.task /\ job'.retries = t.retries
         /\ job'.sending = FALSE /\ job'.observed = FALSE
  BY DEF Begin, NoJob

\* What an observation leaves of the job, and does to the row.
LEMMA ObserveFields ==
  ASSUME NEW j \in Jobs, Observe(j)
  PROVE  /\ job'.phase = j.phase /\ job'.msg = j.msg /\ job'.task = j.task /\ job'.retries = j.retries
         /\ job'.sending = j.sending
         /\ \/ job'.observed = TRUE /\ turn' = Recorded("confirmed")
            \/ job'.observed = j.observed /\ turn' = turn
<1>1. CASE turn' = Recorded("confirmed") /\ job' = [j EXCEPT !.observed = TRUE]
  BY <1>1 DEF Jobs
<1>2. CASE turn' = turn /\ job' = j
  BY <1>2
<1> QED
  BY <1>1, <1>2 DEF Observe

\* The turn that resumes t: same task, and the task's own prompt only where t
\* was about to send it, a continuation only where t was past that.
LEMMA ResumedShape ==
  ASSUME NEW t \in Turns, TurnShape(t)
  PROVE  /\ Resumed(t).stage = "prepared" /\ TurnShape(Resumed(t))
         /\ Resumed(t).task = IF t.msg = Compact THEN None ELSE t.task
         /\ t.msg # Compact => Resumed(t).retries = t.retries
         /\ Resumed(t).msg = Compact => Resumed(t).task = None
         /\ Resumed(t).msg \in Prompts => t.stage \in {"claimed", "prepared"} /\ t.msg = Resumed(t).msg
         /\ Resumed(t).msg = Continue /\ t.task # None =>
                t.msg = Continue \/ (t.stage \in {"sending", "confirmed"} /\ t.msg # Compact)
<1> USE MessagesDistinct DEF TurnShape
<1>1. CASE t.stage = "claimed"
  <2>1. t = Claimed(t.task) /\ t.msg = t.task /\ t.task \in Prompts /\ t.retries = 0
    BY <1>1, ClaimedFields DEF Claimed, NoTurn
  <2>2. Resumed(t) = Prepared(t.msg, t.task)
    BY <1>1, <2>1 DEF Resumed
  <2>3. Prepared(t.msg, t.task).retries = 0
    BY DEF Prepared, NoTurn
  <2> QED
    BY <1>1, <2>1, <2>2, <2>3, PreparedFields
<1>2. CASE t.stage # "claimed" /\ t.msg = Compact
  <2>1. Resumed(t) = Prepared(Compact, None)
    BY <1>2 DEF Resumed
  <2> QED
    BY <1>2, <2>1, PreparedFields
<1>3. CASE t.stage # "claimed" /\ t.msg # Compact
  <2>1. /\ Resumed(t).stage = "prepared" /\ Resumed(t).task = t.task /\ Resumed(t).retries = t.retries
        /\ Resumed(t).msg = IF t.stage = "prepared" THEN t.msg ELSE Continue
    BY <1>3 DEF Resumed
  <2>2. t.stage \in {"none", "reserved"} => t.task = None
    BY ReservedFields DEF NoTurn
  <2>3. t.stage \in {"none", "reserved", "prepared", "sending", "confirmed"}
    BY <1>3 DEF Turns, Stages
  <2> QED
    BY <1>3, <2>1, <2>2, <2>3
<1> QED
  BY <1>1, <1>2, <1>3

\* The sweep's tries count from one.
LEMMA ZeroIsNoTry == 0 \notin 1..Tries
  BY BoundsAreNatural

\* Starting turns keeps the invariant.
LEMMA StartingInv ==
  ASSUME ~Preempt, IInv, IInv => TypeInv', Starting
  PROVE  IInv'
<1> USE MessagesDistinct, BoundsAreNatural DEF IInv, RowShape, TurnShape, OneWorker, TaskPlaces, JobShape, Live, Vacant, row, memory, history, TypeInv, TypeOK
<1>1. ASSUME NEW p \in Prompts, Submit(p) PROVE IInv'
  BY <1>1 DEF Submit, Unused
<1>2. ASSUME NEW p \in Prompts, Claim(p) PROVE IInv'
  <2>1. turn = NoTurn /\ turn' = Claimed(p) /\ status' = "running" /\ queue' = queue \ {p}
    BY <1>2 DEF Claim
  <2>2. turn'.stage = "claimed" /\ turn'.msg = p /\ turn'.task = p /\ turn.task = None
    BY <2>1, ClaimedFields DEF NoTurn
  <2>3. RowShape'
    BY <2>1, <2>2
  <2>4. OneWorker'
    <3>1. starters = {} /\ Vacant /\ sweep = 0
      BY <1>2 DEF Claim, LockFree
    <3>2. starters' = {[from |-> "queue", msg |-> p]}
      BY <1>2, <3>1 DEF Claim
    <3> QED
      BY <1>2, <2>1, <3>1, <3>2 DEF Claim
  <2>5. TaskPlaces'
    BY <1>2, <2>1, <2>2 DEF Claim
  <2>6. JobShape'
    BY <1>2 DEF Claim
  <2> QED
    BY <2>3, <2>4, <2>5, <2>6
<1>3. ASSUME NEW m \in Prompts \union {Compact}, Reserve(m) PROVE IInv'
  <2>1. turn = NoTurn /\ turn' = Reserved /\ status' = "running"
    BY <1>3 DEF Reserve, Statuses
  <2>2. turn'.stage = "reserved" /\ turn'.msg = None /\ turn'.task = None /\ turn.task = None
    BY <2>1, ReservedFields DEF NoTurn
  <2>3. RowShape'
    BY <2>1, <2>2
  <2>4. OneWorker'
    BY <1>3, <2>1 DEF Reserve, LockFree, Unused
  <2>5. TaskPlaces' /\ JobShape'
    BY <1>3, <2>2 DEF Reserve
  <2> QED
    BY <2>3, <2>4, <2>5
<1>4. ASSUME NEW s \in starters, StartTurn(s) PROVE IInv'
  <2> DEFINE task == IF s.msg = Compact THEN None ELSE s.msg
             t == Prepared(s.msg, task)
  <2>1. /\ status = "running" /\ Vacant /\ sweep = 0 /\ starters = {s} /\ ~resuming
        /\ \/ s.msg \in Prompts /\ turn = Claimed(s.msg)
           \/ s.msg \in Prompts \union {Compact} /\ turn = Reserved /\ s.msg \notin accepted
    BY DEF Starters
  <2>2. Begin(t)
    BY <1>4 DEF StartTurn
  <2>3. t.stage = "prepared" /\ t.msg = s.msg /\ t.task = task
    BY PreparedFields
  <2> HIDE DEF t
  <2>4. turn.task \in {s.msg, None}
    BY <2>1, ClaimedFields, ReservedFields
  <2>5. /\ turn' = t /\ status' = "running"
        /\ job'.phase = "ready" /\ job'.msg = t.msg /\ job'.task = t.task /\ job'.retries = t.retries
        /\ job'.sending = FALSE /\ job'.observed = FALSE
    BY <2>2, BeginFields
  <2>6. /\ accepted' = accepted \union ({s.msg} \intersect Prompts)
        /\ UNCHANGED <<queue, sweep, resuming, ending, ended>> /\ starters' = {} /\ server = "up"
    BY <1>4, <2>1, <2>2, <2>3 DEF StartTurn, Begin
  <2>7. s.msg \in Prompts => ended[s.msg] = 0 /\ s.msg \notin queue
    BY <2>1, ClaimedFields
  <2>8. RowShape'
    BY <2>1, <2>3, <2>5
  <2>9. OneWorker'
    BY <1>4, <2>1, <2>5, <2>6 DEF StartTurn
  <2>10. TaskPlaces'
    <3>1. CASE s.msg = Compact
      <4>1. turn.task = None /\ accepted' = accepted /\ turn'.task = None
        BY <2>1, <2>3, <2>5, <2>6, <3>1, ReservedFields
      <4> QED
        BY <2>6, <4>1
    <3>2. CASE s.msg \in Prompts
      <4>1. accepted' = accepted \union {s.msg} /\ turn'.task = s.msg
        BY <2>3, <2>5, <2>6, <2>7, <3>2
      <4>2. turn.task = None \/ turn.task = s.msg
        BY <2>4
      <4>3. ASSUME NEW p \in Prompts, p # s.msg
            PROVE  (p \in accepted' <=> p \in accepted) /\ p # turn'.task /\ p # turn.task
        BY <4>1, <4>2, <4>3
      <4> HIDE DEF TypeOK, OneWorker, RowShape, JobShape
      <4> QED
        BY <2>6, <2>7, <3>2, <4>1, <4>3
    <3> QED
      BY <2>1, <3>1, <3>2
  <2>11. JobShape'
    BY <2>1, <2>3, <2>5, <2>6, <2>7
  <2> QED
    BY <2>8, <2>9, <2>10, <2>11
<1>5. ASSUME NEW s \in starters, StartRefused(s) PROVE IInv'
  <2>1. /\ status' = "error" /\ turn' = NoTurn /\ starters = {s} /\ starters' = {} /\ sweep = 0 /\ Vacant
        /\ UNCHANGED <<server, sweep, resuming, job, ending, ended, accepted>>
    BY <1>5 DEF StartRefused
  <2>2. turn'.task = None /\ turn'.stage = "none" /\ turn'.msg = None
    BY <2>1 DEF NoTurn
  <2>3. \/ turn.task = None /\ queue' = queue
        \/ turn.task = s.msg /\ turn.stage = "claimed" /\ turn.msg = s.msg /\ queue' = queue \union {s.msg}
    BY <1>5, ClaimedFields, ReservedFields DEF StartRefused
  <2>4. TaskPlaces'
    BY <2>1, <2>2, <2>3
  <2>5. RowShape' /\ OneWorker' /\ JobShape'
    BY <2>1, <2>2
  <2> QED
    BY <2>4, <2>5
<1>6. ASSUME NEW s \in starters, LeaveClaim(s) PROVE IInv'
  BY <1>6 DEF LeaveClaim
<1> QED
  BY <1>1, <1>2, <1>3, <1>4, <1>5, <1>6 DEF Starting

\* A turn that ends leaves the row as it was and only an ending behind it, and
\* that keeps the invariant.
LEMMA EndJobInv ==
  ASSUME NEW o \in Endings \ {"none"},
         IInv, IInv => TypeInv', Live, EndJob(o),
         UNCHANGED <<row, server, starters, sweep, resuming, snapshot, history>>
  PROVE  IInv'
<1>1. job' = NoJob /\ ~Live'
  BY DEF EndJob, NoJob, Live
<1>2. server # "down" /\ starters = {} /\ status = "running" /\ sweep = 0
  BY DEF IInv, OneWorker, Vacant
<1>3. ~resuming
  <2>1. resuming => sweep \in 1..Tries
    BY DEF IInv, OneWorker
  <2> QED
    BY <1>2, <2>1, ZeroIsNoTry
<1>4. RowShape'
  BY DEF IInv, RowShape, row
<1>5. OneWorker'
  BY <1>1, <1>2, <1>3 DEF OneWorker, row
<1>6. TaskPlaces'
  BY DEF IInv, TaskPlaces, row, history
<1>7. JobShape'
  BY <1>1 DEF JobShape
<1> QED
  BY <1>4, <1>5, <1>6, <1>7 DEF IInv

\* An update or an answer changes no more than the record of the prompt's
\* state, and that keeps the invariant.
LEMMA ObserveInv ==
  ASSUME IInv, IInv => TypeInv', Live, NEW j \in Jobs, Observe(j), j.phase # "none",
         j.phase # "ready" => job.sending,
         UNCHANGED <<status, queue, server, starters, sweep, resuming, snapshot, ending, ended, accepted>>,
         j.task = job.task, j.retries = job.retries, j.sending = job.sending, j.observed = job.observed
  PROVE  IInv'
<1>1. /\ job'.phase = j.phase /\ job'.task = job.task /\ job'.retries = job.retries /\ job'.sending = job.sending
      /\ \/ job'.observed = TRUE /\ turn' = Recorded("confirmed") /\ job.sending
         \/ job'.observed = job.observed /\ turn' = turn
  <2>1. CASE job.sending /\ turn' = Recorded("confirmed") /\ job' = [j EXCEPT !.observed = TRUE]
    BY <2>1 DEF Jobs
  <2>2. CASE turn' = turn /\ job' = j
    BY <2>2
  <2> QED
    BY <2>1, <2>2 DEF Observe
<1>2. turn \in Turns /\ Live' /\ sweep = 0 /\ status = "running" /\ ending = "none" /\ starters = {}
      /\ server # "down" /\ ~resuming
  <2>1. turn \in Turns /\ sweep = 0 /\ status = "running" /\ ending = "none" /\ starters = {} /\ server # "down"
    BY DEF IInv, TypeInv, TypeOK, OneWorker, Vacant
  <2> QED
    BY <1>1, <2>1, ZeroIsNoTry DEF IInv, OneWorker, Live
<1>3. turn.stage = IF job.observed THEN "confirmed" ELSE IF job.sending THEN "sending" ELSE "prepared"
  BY DEF IInv, JobShape
<1>4. /\ turn'.stage = IF job'.observed THEN "confirmed" ELSE IF job.sending THEN "sending" ELSE "prepared"
      /\ turn'.msg = turn.msg /\ turn'.task = turn.task /\ turn'.retries = turn.retries
  <2>1. CASE job'.observed = TRUE /\ turn' = Recorded("confirmed")
    BY <1>2, <2>1, RecordedFields
  <2>2. CASE job'.observed = job.observed /\ turn' = turn
    BY <1>3, <2>2
  <2> QED
    BY <1>1, <2>1, <2>2
<1>5. RowShape'
  <2>1. TurnShape(turn) /\ (turn.msg = Compact => turn.task = None)
    BY DEF IInv, RowShape
  <2> QED
    BY <1>2, <1>3, <1>4, <2>1 DEF RowShape, TurnShape
<1>6. OneWorker'
  BY <1>2 DEF OneWorker
<1>7. TaskPlaces'
  BY <1>4 DEF IInv, TaskPlaces
<1>8. JobShape'
  <2>1. turn.task = job.task /\ turn.retries = job.retries /\ (job.observed => job.sending)
    BY DEF IInv, JobShape
  <2> QED
    BY <1>1, <1>4, <2>1 DEF JobShape
<1> QED
  BY <1>5, <1>6, <1>7, <1>8 DEF IInv

\* Prompt calls and the end of turns keep the invariant.
LEMMA CallingInv ==
  ASSUME ~Preempt, IInv, IInv => TypeInv', Calling
  PROVE  IInv'
<1> USE MessagesDistinct, BoundsAreNatural DEF IInv, RowShape, TurnShape, OneWorker, TaskPlaces, JobShape, Live, Vacant, row, memory, history, TypeInv, TypeOK
<1>1. CASE MarkSending
  <2>1. /\ job'.phase = "marked" /\ job'.msg = job.msg /\ job'.task = job.task /\ job'.retries = job.retries
        /\ job'.sending = TRUE /\ job'.observed = job.observed
    <3>1. CASE job.observed
      <4>1. job' = [job EXCEPT !.phase = "marked"] /\ job.sending = TRUE
        BY <1>1, <3>1 DEF MarkSending, Jobs
      <4> QED
        BY <4>1, <3>1 DEF Jobs
    <3>2. CASE ~job.observed
      <4>1. job' = [job EXCEPT !.phase = "marked", !.sending = TRUE]
        BY <1>1, <3>2 DEF MarkSending
      <4> QED
        BY <4>1, <3>2 DEF Jobs
    <3> QED
      BY <3>1, <3>2
  <2>2. turn' = IF job.observed THEN turn ELSE Recorded("sending")
    BY <1>1 DEF MarkSending
  <2>3. /\ turn'.stage = IF job.observed THEN "confirmed" ELSE "sending"
        /\ turn'.msg = turn.msg /\ turn'.task = turn.task /\ turn'.retries = turn.retries
    BY <1>1, <2>2, RecordedFields DEF MarkSending
  <2>4. UNCHANGED <<status, queue, server, starters, sweep, resuming, snapshot, ending, ended, accepted>>
    BY <1>1 DEF MarkSending
  <2>5. RowShape'
    BY <1>1, <2>3, <2>4 DEF MarkSending
  <2>6. OneWorker'
    BY <1>1, <2>1, <2>3, <2>4 DEF MarkSending
  <2>7. TaskPlaces'
    BY <2>3, <2>4
  <2>8. JobShape'
    BY <1>1, <2>1, <2>3, <2>4 DEF MarkSending
  <2> QED
    BY <2>5, <2>6, <2>7, <2>8
<1>2. CASE Write
  <2>1. /\ job'.phase = "sent" /\ job'.task = job.task /\ job'.retries = job.retries
        /\ job'.sending = job.sending /\ job'.observed = job.observed
    BY <1>2 DEF Write, Jobs
  <2>2. RowShape' /\ OneWorker' /\ TaskPlaces'
    BY <1>2, <2>1 DEF Write
  <2>3. JobShape'
    BY <1>2, <2>1 DEF Write
  <2> QED
    BY <2>2, <2>3
<1>3. CASE AgentTakes
  <2>1. /\ job'.phase = "working" /\ job'.msg = job.msg /\ job'.task = job.task /\ job'.retries = job.retries
        /\ job'.sending = job.sending /\ job'.observed = job.observed
    BY <1>3 DEF AgentTakes, Jobs
  <2>2. RowShape' /\ OneWorker' /\ TaskPlaces'
    BY <1>3, <2>1 DEF AgentTakes
  <2>3. JobShape'
    BY <1>3, <2>1 DEF AgentTakes, Jobs
  <2> QED
    BY <2>2, <2>3
<1>4. CASE AgentOutput \/ AgentRunOutput
  <2>1. Live /\ Observe(job) /\ (job.phase # "ready" => job.sending)
        /\ UNCHANGED <<status, queue, server, starters, sweep, resuming, snapshot, ending, ended, accepted>>
    BY <1>4 DEF AgentOutput, AgentRunOutput
  <2> HIDE DEF IInv, RowShape, TurnShape, OneWorker, TaskPlaces, JobShape
  <2> QED
    BY <2>1, ObserveInv DEF IInv
<1>5. ASSUME NEW reply \in Replies \ {""}, Answer(reply) PROVE IInv'
  <2> DEFINE j == [job EXCEPT !.phase = "answered", !.reply = reply]
  <2>1. /\ j.phase = "answered" /\ j.msg = job.msg /\ j.task = job.task /\ j.retries = job.retries
        /\ j.sending = job.sending /\ j.observed = job.observed /\ j \in Jobs
    BY DEF Jobs, Phases
  <2>2. Observe(j) /\ Live /\ job.sending
        /\ UNCHANGED <<status, queue, server, starters, sweep, resuming, snapshot, ending, ended, accepted>>
    BY <1>5 DEF Answer
  <2> HIDE DEF j, IInv, RowShape, TurnShape, OneWorker, TaskPlaces, JobShape
  <2> QED
    BY <2>1, <2>2, ObserveInv DEF IInv
<1>6. CASE Complete
  <2>1. PICK o \in Endings \ {"none"} : EndJob(o)
    BY <1>6 DEF Complete, Endings
  <2> QED
    BY <1>6, <2>1, EndJobInv DEF Complete
<1>7. CASE RecordRetry
  <2>1. /\ job'.phase = "waiting" /\ job'.msg = job.msg /\ job'.task = job.task
        /\ job'.retries = job.retries + 1 /\ job'.sending = job.sending /\ job'.observed = job.observed
    BY <1>7 DEF RecordRetry, Jobs
  <2>2. /\ turn'.stage = turn.stage /\ turn'.msg = turn.msg /\ turn'.task = turn.task
        /\ turn'.retries = job.retries + 1
    BY <1>7 DEF RecordRetry, Turns
  <2>3. UNCHANGED <<status, queue, server, starters, sweep, resuming, snapshot, ending, ended, accepted>>
    BY <1>7 DEF RecordRetry, history
  <2>4. RowShape' /\ OneWorker'
    BY <1>7, <2>1, <2>2, <2>3 DEF RecordRetry
  <2>5. TaskPlaces'
    BY <2>2, <2>3
  <2>6. JobShape'
    BY <1>7, <2>1, <2>2, <2>3 DEF RecordRetry
  <2> QED
    BY <2>4, <2>5, <2>6
<1>8. CASE RetryWaitEnds
  <2>1. CASE job.stop # ""
    <3>1. /\ job' = NoJob /\ ending' # "none" /\ ending' \in Endings
          /\ UNCHANGED <<row, server, starters, sweep, resuming, snapshot, restarts, history>>
      BY <1>8, <2>1, EndJobType DEF RetryWaitEnds, EndJob, Endings
    <3>2. ~Live' /\ Live
      BY <1>8, <3>1 DEF NoJob, RetryWaitEnds
    <3> QED
      BY <3>1, <3>2
  <2>2. CASE job.stop = ""
    <3>1. job' = [job EXCEPT !.phase = "ready", !.msg = Continue] /\ job.phase = "waiting"
      BY <1>8, <2>2 DEF RetryWaitEnds
    <3>2. /\ job'.phase = "ready" /\ job'.msg = Continue /\ job'.task = job.task /\ job'.retries = job.retries
          /\ job'.sending = job.sending /\ job'.observed = job.observed
      BY <3>1 DEF Jobs
    <3>3. UNCHANGED <<row, server, starters, sweep, resuming, snapshot, ending, history>>
      BY <1>8, <2>2 DEF RetryWaitEnds
    <3>4. RowShape' /\ TaskPlaces'
      BY <3>3
    <3>5. OneWorker'
      BY <3>1, <3>2, <3>3
    <3>6. JobShape'
      BY <3>1, <3>2, <3>3
    <3> QED
      BY <3>4, <3>5, <3>6
  <2> QED
    BY <2>1, <2>2
<1>9. CASE CallFails
  BY <1>9, EndJobInv DEF CallFails, Endings
<1>10. CASE Stop
  BY <1>10 DEF Stop
<1>11. CASE Finish
  BY <1>11 DEF Finish, EndTurn, NoTurn, Again, LockFree
<1>12. CASE FinishFails
  BY <1>12 DEF FinishFails
<1> QED
  BY <1>1, <1>2, <1>3, <1>4, <1>5, <1>6, <1>7, <1>8, <1>9, <1>10, <1>11, <1>12 DEF Calling, StopStored

\* Restarts and the recovery sweep keep the invariant.
LEMMA RestartingInv ==
  ASSUME ~Preempt, IInv, IInv => TypeInv', Restarting
  PROVE  IInv'
<1> USE MessagesDistinct, BoundsAreNatural DEF IInv, RowShape, TurnShape, OneWorker, TaskPlaces, JobShape, Live, Vacant, row, memory, history, TypeInv, TypeOK
<1>1. CASE CloseBegin
  <2>1. /\ job'.phase = job.phase /\ job'.msg = job.msg /\ job'.task = job.task /\ job'.retries = job.retries
        /\ job'.sending = job.sending /\ job'.observed = job.observed
    BY <1>1 DEF CloseBegin, Jobs
  <2>2. UNCHANGED <<row, accepted, ended>>
    BY <1>1 DEF CloseBegin
  <2>3. RowShape'
    BY <2>2
  <2>4. TaskPlaces'
    BY <2>2
  <2>5. OneWorker'
    <3>1. /\ server' = "closing" /\ sweep' = 0 /\ ~resuming'
          /\ UNCHANGED <<starters, ending>>
      BY <1>1 DEF CloseBegin
    <3>2. Live' <=> Live
      BY <2>1
    <3> HIDE DEF IInv, RowShape, TaskPlaces, JobShape, TypeInv, TypeOK, Live
    <3> QED
      BY <2>2, <3>1, <3>2 DEF IInv
  <2>6. JobShape'
    BY <2>1, <2>2
  <2> QED
    BY <2>3, <2>4, <2>5, <2>6
<1>2. CASE CloseEnd
  <2>1. /\ UNCHANGED <<status, turn, queue, accepted, ended, job, ending, sweep, resuming, snapshot>>
        /\ starters' = {} /\ Vacant /\ server = "closing"
    BY <1>2 DEF CloseEnd
  <2>2. RowShape' /\ TaskPlaces'
    BY <2>1
  <2>3. JobShape'
    BY <2>1
  <2>4. OneWorker'
    <3> HIDE DEF RowShape, TaskPlaces, JobShape, TypeInv, TypeOK
    <3>1. sweep = 0
      BY <1>2 DEF CloseEnd, TypeInv
    <3> QED
      BY <2>1, <3>1
  <2> QED
    BY <2>2, <2>3, <2>4
<1>3. CASE Crash
  <2>1. /\ UNCHANGED <<status, turn, queue, accepted, ended>>
        /\ starters' = {} /\ sweep' = 0 /\ ~resuming' /\ ending' = "none"
    BY <1>3 DEF Crash
  <2>2. ~Live'
    BY <1>3 DEF Crash, NoJob
  <2>3. RowShape' /\ TaskPlaces'
    BY <2>1
  <2> HIDE DEF RowShape, TaskPlaces, TypeInv, TypeOK, Live
  <2>4. OneWorker' /\ JobShape'
    BY <2>1, <2>2
  <2> QED
    BY <2>3, <2>4
<1>4. CASE Boot
  BY <1>4 DEF Boot
<1>5. CASE ResumeBegin
  BY <1>5 DEF ResumeBegin, Trying, Unconfirmed
<1>6. CASE ResumeStart
  <2> DEFINE t == Resumed(turn)
  <2>1. Begin(t) /\ status = "interrupted" /\ ~Unconfirmed(turn) /\ ~Live /\ starters = {}
    BY <1>6 DEF ResumeStart, Begin
  <2>2. t.stage = "prepared" /\ TurnShape(t) /\ t.task = turn.task /\ (t.msg = Compact => t.task = None)
        /\ (t.msg \in Prompts => t.msg = turn.task)
    <3>1. turn \in Turns /\ TurnShape(turn) /\ (turn.msg = Compact => turn.task = None) /\ snapshot = turn
      BY <1>6 DEF ResumeStart
    <3> HIDE DEF TurnShape
    <3>2. t.stage = "prepared" /\ TurnShape(t) /\ t.task = turn.task /\ (t.msg = Compact => t.task = None)
      BY <3>1, ResumedShape
    <3> QED
      BY <3>2 DEF TurnShape
  <2>3. /\ turn' = t /\ status' = "running"
        /\ job'.phase = "ready" /\ job'.msg = t.msg /\ job'.task = t.task /\ job'.retries = t.retries
        /\ job'.sending = FALSE /\ job'.observed = FALSE
    BY <2>1, BeginFields
  <2>4. accepted' = accepted /\ UNCHANGED <<queue, starters, ending, ended>> /\ server' = "up"
    <3>1. accepted' = accepted \union ({t.msg} \intersect Prompts)
      BY <2>1 DEF Begin
    <3> HIDE DEF t
    <3>2. {t.msg} \intersect Prompts \subseteq accepted
      BY <2>2
    <3> QED
      BY <1>6, <2>1, <3>1, <3>2 DEF ResumeStart, Begin
  <2> HIDE DEF t
  <2>5. RowShape'
    BY <2>2, <2>3
  <2>6. OneWorker'
    BY <1>6, <2>1, <2>3, <2>4 DEF ResumeStart, Begin
  <2>7. TaskPlaces'
    BY <2>2, <2>3, <2>4
  <2>8. JobShape'
    BY <2>2, <2>3, <2>4
  <2> QED
    BY <2>5, <2>6, <2>7, <2>8
<1>7. CASE ResumeFails
  BY <1>7 DEF ResumeFails, NoTurn
<1>8. CASE GiveUp
  BY <1>8 DEF GiveUp, EndTurn, NoTurn, Again
<1> QED
  BY <1>1, <1>2, <1>3, <1>4, <1>5, <1>6, <1>7, <1>8 DEF Restarting

----------------------------------------------------------------------------
(* The invariant holds *)

\* A turn without a task is for none of the prompts.
LEMMA NoneIsNoPrompt == None \notin Prompts
  BY MessagesDistinct

\* What the empty job holds.
LEMMA NoJobFields == NoJob.phase = "none" /\ NoJob.task = None
  BY DEF NoJob

\* The thread starts idle, with nothing queued or ended.
LEMMA InitInv == Init => IInv
<1> SUFFICES ASSUME Init PROVE IInv
  OBVIOUS
<1>1. TypeInv
  BY TypeInit
<1>2. RowShape
  BY MessagesDistinct DEF Init, RowShape, TurnShape, NoTurn
<1>3. OneWorker
  BY DEF Init, OneWorker, Live, NoJob, NoTurn
<1>4. TaskPlaces
  <2>1. turn.task = None
    BY DEF Init, NoTurn
  <2>2. ASSUME NEW p \in Prompts
        PROVE  p # turn.task /\ p \notin queue /\ p \notin accepted
    BY <2>1, NoneIsNoPrompt DEF Init
  <2>3. ASSUME NEW p \in Prompts
        PROVE  ended[p] = 0 /\ ended[p] <= 1
    BY DEF Init
  <2> QED
    BY <2>2, <2>3, Zenon DEF TaskPlaces
<1>5. JobShape
  BY DEF Init, JobShape, Live, NoJob
<1> QED
  BY <1>1, <1>2, <1>3, <1>4, <1>5 DEF IInv

\* Every step keeps the invariant while nobody touches an interrupted turn.
LEMMA StepInv ==
  ASSUME ~Preempt, IInv, [Next]_vars
  PROVE  IInv'
<1>1. CASE Starting
  BY <1>1, StartingType, StartingInv DEF IInv
<1>2. CASE Calling
  BY <1>2, CallingType, CallingInv DEF IInv
<1>3. CASE Restarting
  BY <1>3, RestartingType, RestartingInv DEF IInv
<1>4. CASE UNCHANGED vars
  BY <1>4 DEF vars, row, memory, history, IInv, TypeInv, TypeOK, Trying, RowShape, TurnShape, OneWorker, Live, Vacant,
              TaskPlaces, JobShape
<1> QED
  BY <1>1, <1>2, <1>3, <1>4 DEF Next

\* The invariant holds throughout.
LEMMA Invariance == ASSUME ~Preempt PROVE Spec => []IInv
<1>1. Init => IInv
  BY InitInv
<1>2. IInv /\ [Next]_vars => IInv'
  BY StepInv
<1> QED
  BY <1>1, <1>2, PTL DEF Spec

\* Between turns the job carries nothing of the last one.
IdleJob == ~Live => job = NoJob

\* Every step keeps an idle job empty.
LEMMA IdleJobStep == ASSUME TypeInv, IdleJob, [Next]_vars PROVE IdleJob'
<1> USE DEF IdleJob, Live
<1>0. job \in Jobs
  BY DEF TypeInv, TypeOK
<1>1. CASE Starting
  <2>1. ASSUME NEW t, Begin(t) PROVE job'.phase = "ready"
    BY <2>1 DEF Begin, NoJob
  <2> QED
    BY <1>1, <2>1 DEF Starting, Submit, Claim, Reserve, StartTurn, StartRefused, LeaveClaim, memory
<1>2. CASE Calling
  <2>1. ASSUME NEW j \in Jobs, j.phase # "none", Observe(j) PROVE job'.phase # "none"
    BY <2>1, ObserveFields
  <2>2. CASE MarkSending \/ Write \/ AgentTakes \/ RecordRetry \/ Stop
    BY <1>0, <2>2 DEF MarkSending, Write, AgentTakes, RecordRetry, Stop, Jobs
  <2>3. CASE AgentOutput \/ AgentRunOutput
    BY <1>0, <2>1, <2>3 DEF AgentOutput, AgentRunOutput
  <2>4. ASSUME NEW reply \in Replies \ {""}, Answer(reply) PROVE job'.phase # "none"
    <3>1. [job EXCEPT !.phase = "answered", !.reply = reply] \in Jobs
      BY <1>0 DEF Jobs, Phases
    <3>2. [job EXCEPT !.phase = "answered", !.reply = reply].phase = "answered"
      BY <1>0 DEF Jobs
    <3> QED
      BY <2>1, <2>4, <3>1, <3>2 DEF Answer
  <2>5. CASE Complete \/ RetryWaitEnds \/ CallFails
    <3>1. job' = NoJob \/ job' = [job EXCEPT !.phase = "ready", !.msg = Continue]
      BY <2>5 DEF Complete, RetryWaitEnds, CallFails, EndJob
    <3> QED
      BY <1>0, <3>1 DEF Jobs
  <2>6. CASE StopStored \/ Finish \/ FinishFails
    BY <2>6 DEF StopStored, Finish, FinishFails, memory
  <2> QED
    BY <1>2, <2>2, <2>3, <2>4, <2>5, <2>6 DEF Calling
<1>3. CASE Restarting
  <2>1. ASSUME NEW t, Begin(t) PROVE job'.phase = "ready"
    BY <2>1 DEF Begin, NoJob
  <2>2. CASE CloseBegin
    BY <1>0, <2>2 DEF CloseBegin, Jobs
  <2> QED
    BY <1>3, <2>1, <2>2 DEF Restarting, CloseEnd, Crash, Boot, ResumeBegin, ResumeStart, ResumeFails, GiveUp
<1>4. CASE UNCHANGED vars
  BY <1>4 DEF vars, memory
<1> QED
  BY <1>1, <1>2, <1>3, <1>4 DEF Next

\* A job goes from idle to running only where a turn begins.
LEMMA BeginStep ==
  ASSUME TypeInv, [Next]_vars, ~Live, job'.phase # "none"
  PROVE  \E t : /\ Begin(t)
                /\ \/ \E s \in starters : t = Prepared(s.msg, IF s.msg = Compact THEN None ELSE s.msg)
                   \/ resuming /\ t = Resumed(snapshot)
<1>1. CASE Starting
  BY <1>1 DEF Starting, Submit, Claim, Reserve, StartTurn, StartRefused, LeaveClaim, memory, Live
<1>2. CASE Calling
  <2>1. CASE AgentRunOutput \/ Stop
    BY <2>1 DEF AgentRunOutput, Stop
  <2>2. CASE StopStored \/ Finish \/ FinishFails
    BY <2>2 DEF StopStored, Finish, FinishFails, memory, Live
  <2> QED
    BY <1>2, <2>1, <2>2 DEF Calling, MarkSending, Write, AgentTakes, AgentOutput, Answer, Complete, RecordRetry,
                            RetryWaitEnds, CallFails, Live
<1>3. CASE Restarting
  <2>1. CASE Crash
    BY <2>1, NoJobFields DEF Crash
  <2>2. CASE CloseBegin
    BY <2>2 DEF CloseBegin, Live
  <2>3. CASE ResumeStart
    BY <2>3 DEF ResumeStart
  <2>4. CASE CloseEnd \/ Boot \/ ResumeBegin \/ ResumeFails \/ GiveUp
    BY <2>4 DEF CloseEnd, Boot, ResumeBegin, ResumeFails, GiveUp, Live
  <2> QED
    BY <1>3, <2>1, <2>2, <2>3, <2>4 DEF Restarting
<1>4. CASE UNCHANGED vars
  BY <1>4 DEF vars, memory, Live
<1> QED
  BY <1>1, <1>2, <1>3, <1>4 DEF Next

\* So an idle job is empty throughout.
LEMMA IdleJobHolds == Spec => []IdleJob
<1>1. Init => IdleJob
  BY DEF Init, IdleJob
<1>2. TypeInv /\ IdleJob /\ [Next]_vars => IdleJob'
  BY IdleJobStep
<1> QED
  BY <1>1, <1>2, Types, PTL DEF Spec

----------------------------------------------------------------------------
(* A prompt is sent once, whatever users and agents do *)

\* A turn that is still to send its prompt is for a prompt never written.
Unwritten(t) == t.stage \in {"claimed", "prepared"} /\ t.msg \in Prompts => delivered[t.msg] = 0

\* A turn that a restart cut short has been touched by nobody since, but for a
\* user who stops it: no goroutine starts or runs a turn beside the sweep's try.
Untouched ==
    /\ server = "down" => starters = {} /\ Vacant
    /\ server = "up" /\ status = "interrupted" => starters = {} /\ Vacant
    /\ resuming => /\ server = "up" /\ starters = {} /\ Vacant
                   /\ (status = "interrupted" /\ snapshot = turn) \/ turn = NoTurn
                   /\ ~Unconfirmed(snapshot)
    /\ (Live /\ job.stop = "shutdown") \/ ending = "shutdown" => server = "closing"

\* The row of a running turn is that turn's, or emptied by someone else.
CallShape ==
    Live =>
        /\ \/ turn = NoTurn
           \/ /\ turn.stage \in {"prepared", "sending", "confirmed"}
              /\ turn.task = job.task /\ turn.retries = job.retries
              /\ job.sending => turn.stage # "prepared"
        /\ job.observed => job.sending
        /\ job.phase # "ready" => job.sending
        /\ job.msg \in {Continue, Compact, job.task} \ {None}
        /\ job.msg = Compact => job.task = None
        /\ job.msg \in Prompts /\ job.phase \in {"ready", "marked"} => delivered[job.msg] = 0

\* A turn for the prompt is stored, about to be resumed or runs.
Underway(p) == p = turn.task \/ (resuming /\ p = snapshot.task) \/ (Live /\ p = job.task)

\* A prompt that may still be written was not, and one goroutine at most has it
\* to start, with no turn underway but its own claim.
Place(p) ==
    /\ delivered[p] <= 1
    /\ p \notin accepted => delivered[p] = 0
    /\ p \in queue => p \in accepted /\ delivered[p] = 0
    /\ Underway(p) => p \in accepted \ queue
    /\ \A s \in starters : s.msg = p =>
          /\ p \notin queue /\ delivered[p] = 0 /\ ~(Live /\ p = job.task)
          /\ (s.from = "queue") <=> p \in accepted
          /\ p = turn.task => turn = Claimed(p)
    /\ \A s1, s2 \in starters : s1.msg = p /\ s2.msg = p => s1 = s2

Places == \A p \in Prompts : Place(p)

SendInv ==
    /\ TypeInv /\ TurnShape(turn) /\ TurnShape(snapshot)
    /\ Untouched /\ CallShape /\ Places
    /\ Unwritten(turn) /\ (resuming => Unwritten(snapshot))

\* The empty turn holds nothing.
LEMMA NoTurnFields ==
    /\ NoTurn.stage = "none" /\ NoTurn.msg = None /\ NoTurn.task = None /\ NoTurn.retries = 0
    /\ TurnShape(NoTurn) /\ Unwritten(NoTurn)
  BY DEF NoTurn, TurnShape, Unwritten

\* The thread starts with nothing to send.
LEMMA SendInit == Init => SendInv
<1> SUFFICES ASSUME Init PROVE SendInv
  OBVIOUS
<1>1. TypeInv
  BY TypeInit
<1>2. turn = NoTurn /\ snapshot = NoTurn /\ job = NoJob /\ ~Live /\ job.stop = "" /\ ~resuming /\ starters = {}
  BY DEF Init, Live, NoJob
<1>3. Untouched
  BY <1>2 DEF Init, Untouched, Vacant
<1>4. CallShape
  BY <1>2 DEF CallShape
<1>5. Places
  <2> SUFFICES ASSUME NEW p \in Prompts PROVE Place(p)
    BY DEF Places
  <2>1. p # turn.task /\ ~Underway(p)
    BY <1>2, NoTurnFields, NoneIsNoPrompt DEF Underway
  <2>2. delivered[p] = 0 /\ delivered[p] <= 1 /\ p \notin queue
    BY DEF Init
  <2> QED
    BY <1>2, <2>1, <2>2, Zenon DEF Place
<1> QED
  BY <1>1, <1>2, <1>3, <1>4, <1>5, NoTurnFields DEF SendInv

\* A turn that begins for a prompt nobody else has to send.
LEMMA BeginSend ==
  ASSUME SendInv, NEW t \in Turns, Begin(t), t.stage = "prepared", TurnShape(t),
         t.msg = Compact => t.task = None,
         Unwritten(t),
         t.task \in Prompts => /\ t.task \notin queue
                               /\ \A s \in starters' : s.msg # t.task
                               /\ t.msg # t.task => t.task \in accepted,
         starters' \subseteq starters, ~resuming',
         UNCHANGED <<server, queue, ending, delivered>>, snapshot' = snapshot \/ snapshot' = NoTurn,
         TypeInv'
  PROVE  SendInv'
<1> USE MessagesDistinct
<1>1. /\ turn' = t /\ status' = "running" /\ server = "up" /\ Vacant /\ ending = "none" /\ Live'
      /\ job'.phase = "ready" /\ job'.msg = t.msg /\ job'.task = t.task /\ job'.retries = t.retries
      /\ job'.sending = FALSE /\ job'.observed = FALSE /\ job'.stop = ""
  BY DEF Begin, NoJob, Live, Vacant
<1>2. accepted' = accepted \union ({t.msg} \intersect Prompts)
  BY DEF Begin
<1>3. TurnShape(turn)' /\ TurnShape(snapshot)' /\ Unwritten(turn)'
  BY <1>1, NoTurnFields DEF SendInv, TurnShape, Unwritten
<1>4. Untouched'
  BY <1>1 DEF Untouched
<1>5. t.msg \in {Continue, Compact, t.task} \ {None}
  BY DEF TurnShape
<1>6. CallShape'
  BY <1>1, <1>5 DEF CallShape, Unwritten
<1>7. Places'
  <2> SUFFICES ASSUME NEW p \in Prompts PROVE Place(p)'
    BY DEF Places
  <2>1. Place(p)
    BY DEF SendInv, Places
  <2>2. CASE p = t.task
    <3>1. p \in accepted' /\ p \notin queue'
      BY <1>2, <1>5, <2>2
    <3>2. \A s \in starters' : s.msg # p
      BY <2>2
    <3> QED
      BY <2>1, <3>1, <3>2 DEF Place
  <2>3. CASE p # t.task
    <3>1. p # t.msg /\ (p \in accepted' <=> p \in accepted)
      BY <1>2, <1>5, <2>3
    <3>2. ~Underway(p)'
      BY <1>1, <2>3 DEF Underway
    <3>3. \A s \in starters' : s.msg = p => p # turn'.task /\ ~(Live' /\ p = job'.task)
      BY <1>1, <2>3
    <3> QED
      BY <2>1, <3>1, <3>2, <3>3 DEF Place
  <2> QED
    BY <2>2, <2>3
<1> QED
  BY <1>3, <1>4, <1>6, <1>7 DEF SendInv

\* Nothing about the prompts changes but that fewer have a turn or a starter.
LEMMA PlacesStay ==
  ASSUME Places, UNCHANGED <<delivered, accepted, queue>>, starters' \subseteq starters,
         \A p \in Prompts : Underway(p)' => Underway(p),
         \A p \in Prompts : p = turn'.task => turn' = turn \/ \A s \in starters : s.msg # p,
         \A p \in Prompts : Live' /\ p = job'.task => Live /\ p = job.task
  PROVE  Places'
<1> SUFFICES ASSUME NEW p \in Prompts PROVE Place(p)'
  BY DEF Places
<1>1. Place(p)
  BY DEF Places
<1>2. ASSUME NEW s \in starters', s.msg = p
      PROVE  /\ p \notin queue' /\ delivered'[p] = 0 /\ ~(Live' /\ p = job'.task)
             /\ (s.from = "queue") <=> p \in accepted'
             /\ p = turn'.task => turn' = Claimed(p)
  BY <1>1, <1>2 DEF Place
<1> QED
  BY <1>1, <1>2 DEF Place

\* Emptying the row, or leaving it, gives no prompt a new turn.
LEMMA PlacesEmptied ==
  ASSUME Places, UNCHANGED <<delivered, accepted, queue>>, starters' \subseteq starters,
         turn' = turn \/ turn' = NoTurn,
         resuming' => resuming /\ snapshot' = snapshot,
         Live' => Live /\ job'.task = job.task
  PROVE  Places'
<1>1. \A p \in Prompts : p = turn'.task => turn' = turn
  BY NoTurnFields, NoneIsNoPrompt
<1>2. \A p \in Prompts : Underway(p)' => Underway(p)
  BY <1>1 DEF Underway
<1> QED
  BY <1>1, <1>2, PlacesStay

\* A step of the live turn's call leaves alone all but the call and the stage
\* and the retries its row records.
LEMMA CallStep ==
  ASSUME SendInv, TypeInv', Live, Live', job'.task = job.task,
         job'.stop = "shutdown" => job.stop = "shutdown",
         UNCHANGED <<status, queue, server, starters, resuming, snapshot, ending, delivered, accepted>>,
         \/ turn' = turn
         \/ /\ {turn.stage, turn'.stage} \subseteq {"prepared", "sending", "confirmed"}
            /\ turn'.msg = turn.msg /\ turn'.task = turn.task
            /\ turn'.stage = "prepared" => turn.stage = "prepared",
         CallShape'
  PROVE  SendInv'
<1>1. ~resuming
  BY DEF SendInv, Untouched, Vacant
<1>2. TurnShape(turn)' /\ TurnShape(snapshot)'
  <2>1. CASE turn' = turn
    BY <2>1 DEF SendInv, TurnShape
  <2>2. CASE turn' # turn
    BY <2>2 DEF SendInv, TurnShape
  <2> QED
    BY <2>1, <2>2
<1>3. Unwritten(turn)'
  BY DEF SendInv, Unwritten
<1>4. Untouched'
  BY <1>1 DEF SendInv, Untouched, Vacant
<1>5. Places'
  <2>1. turn.task = job.task \/ turn = NoTurn
    BY DEF SendInv, CallShape
  <2>2. turn'.task = turn.task
    OBVIOUS
  <2>3. \A p \in Prompts : Underway(p)' => Underway(p)
    BY <1>1, <2>2 DEF Underway
  <2>4. ASSUME NEW p \in Prompts, p = turn'.task PROVE \A s \in starters : s.msg # p
    BY <2>1, <2>2, <2>4, NoTurnFields, NoneIsNoPrompt DEF SendInv, Places, Place
  <2> QED
    BY <2>3, <2>4, PlacesStay DEF SendInv
<1> QED
  BY <1>1, <1>2, <1>3, <1>4, <1>5 DEF SendInv

\* A call that ends its turn leaves the row as it is.
LEMMA CallEndsSend ==
  ASSUME SendInv, TypeInv', Live, NEW outcome \in Endings \ {"shutdown"}, EndJob(outcome),
         UNCHANGED <<row, server, starters, resuming, snapshot, delivered, accepted>>
  PROVE  SendInv'
<1>1. ~resuming /\ UNCHANGED <<status, turn, queue>>
  BY DEF SendInv, Untouched, Vacant, row
<1>2. ~Live' /\ job'.stop = ""
  BY DEF EndJob, NoJob, Live
<1>3. TurnShape(turn)' /\ TurnShape(snapshot)' /\ Unwritten(turn)'
  BY <1>1 DEF SendInv, TurnShape, Unwritten
<1>4. ending' = "shutdown" => job.stop = "shutdown"
  BY DEF EndJob
<1>5. Untouched'
  BY <1>1, <1>2, <1>4 DEF SendInv, Untouched, Vacant
<1>6. Places'
  BY <1>1, <1>2, PlacesEmptied DEF SendInv
<1> QED
  BY <1>1, <1>2, <1>3, <1>5, <1>6 DEF SendInv, CallShape

\* Starting turns keeps prompts from being sent twice.
LEMMA StartingSend == ASSUME SendInv, TypeInv', Starting PROVE SendInv'
<1> USE MessagesDistinct
<1>1. ASSUME NEW p \in Prompts, Submit(p) PROVE SendInv'
  <2>1. /\ UNCHANGED <<status, turn, server, starters, resuming, snapshot, job, ending, delivered>>
        /\ queue' = queue \union {p} /\ accepted' = accepted \union {p} /\ Unused(p)
    BY <1>1 DEF Submit, memory
  <2>2. Places'
    <3> SUFFICES ASSUME NEW q \in Prompts PROVE Place(q)'
      BY DEF Places
    <3>1. Place(q) /\ (Underway(q)' <=> Underway(q)) /\ Live' = Live
      BY <2>1 DEF SendInv, Places, Underway, Live
    <3> QED
      BY <2>1, <3>1 DEF Place, Unused
  <2> QED
    BY <2>1, <2>2 DEF SendInv, TurnShape, Unwritten, Untouched, CallShape, Vacant, Live
<1>2. ASSUME NEW p \in Prompts, Claim(p) PROVE SendInv'
  <2>1. /\ UNCHANGED <<server, resuming, snapshot, job, ending, delivered, accepted>>
        /\ status' = "running" /\ turn' = Claimed(p) /\ queue' = queue \ {p} /\ p \in queue
        /\ ~resuming /\ ~Live /\ server # "down"
    BY <1>2 DEF Claim, LockFree, history
  <2>2. turn'.stage = "claimed" /\ turn'.msg = p /\ turn'.task = p
    BY <2>1, ClaimedFields
  <2>3. delivered[p] = 0 /\ p \in accepted /\ \A s \in starters : s.msg # p
    BY <2>1 DEF SendInv, Places, Place
  <2>4. Places'
    <3> SUFFICES ASSUME NEW q \in Prompts PROVE Place(q)'
      BY DEF Places
    <3>1. Place(q) /\ ~Live'
      BY <2>1 DEF SendInv, Places, Live
    <3>2. Underway(q)' => q = p
      BY <2>1, <2>2, <3>1 DEF Underway
    <3>3. ASSUME NEW s \in starters'
          PROVE  s \in starters \/ (s.msg = p /\ s.from = "queue")
      BY <1>2, <3>3 DEF Claim
    <3>4. \A s1, s2 \in starters' : s1.msg = q /\ s2.msg = q => s1 = s2
      BY <1>2, <2>3, <3>1 DEF Claim, Place
    <3>5. ASSUME NEW s \in starters', s.msg = q
          PROVE  /\ q \notin queue' /\ delivered'[q] = 0 /\ ~(Live' /\ q = job'.task)
                 /\ (s.from = "queue") <=> q \in accepted'
                 /\ q = turn'.task => turn' = Claimed(q)
      BY <2>1, <2>2, <2>3, <3>1, <3>3, <3>5 DEF Place
    <3> QED
      BY <2>1, <2>3, <3>1, <3>2, <3>4, <3>5 DEF Place
  <2>5. Unwritten(turn)' /\ TurnShape(turn)' /\ TurnShape(snapshot)'
    BY <2>1, <2>2, <2>3 DEF Unwritten, TurnShape, SendInv
  <2> QED
    BY <2>1, <2>4, <2>5 DEF SendInv, Untouched, CallShape, Live
<1>3. ASSUME NEW m \in Prompts \union {Compact}, Reserve(m) PROVE SendInv'
  <2>1. /\ UNCHANGED <<server, resuming, snapshot, job, ending, delivered, accepted, queue>>
        /\ status' = "running" /\ turn' = Reserved
        /\ ~resuming /\ ~Live /\ server # "down" /\ (m \in Prompts => Unused(m))
        /\ starters' = starters \union {[from |-> "http", msg |-> m]}
    BY <1>3 DEF Reserve, LockFree, history
  <2>2. Places'
    <3> SUFFICES ASSUME NEW q \in Prompts PROVE Place(q)'
      BY DEF Places
    <3>1. Place(q) /\ ~Live' /\ q # turn'.task
      BY <2>1, ReservedFields DEF SendInv, Places, Live
    <3>2. ~Underway(q)'
      BY <2>1, <3>1 DEF Underway
    <3>3. ASSUME NEW s \in starters'
          PROVE  s \in starters \/ (s.msg = m /\ s.from = "http")
      BY <2>1, <3>3
    <3>4. \A s1, s2 \in starters' : s1.msg = q /\ s2.msg = q => s1 = s2
      BY <2>1, <3>1 DEF Place, Unused
    <3>5. ASSUME NEW s \in starters', s.msg = q
          PROVE  /\ q \notin queue' /\ delivered'[q] = 0 /\ ~(Live' /\ q = job'.task)
                 /\ (s.from = "queue") <=> q \in accepted'
                 /\ q = turn'.task => turn' = Claimed(q)
      BY <2>1, <3>1, <3>3, <3>5 DEF Place, Unused
    <3> QED
      BY <2>1, <3>1, <3>2, <3>4, <3>5 DEF Place
  <2>3. Unwritten(turn)' /\ TurnShape(turn)' /\ TurnShape(snapshot)'
    BY <2>1, ReservedFields DEF Unwritten, TurnShape, SendInv
  <2> QED
    BY <2>1, <2>2, <2>3 DEF SendInv, Untouched, CallShape, Live
<1>4. ASSUME NEW s \in starters, StartTurn(s) PROVE SendInv'
  <2> DEFINE t == Prepared(s.msg, IF s.msg = Compact THEN None ELSE s.msg)
  <2>1. s.msg \in Prompts \union {Compact} /\ ~resuming
    BY DEF SendInv, TypeInv, TypeOK, Starters, Untouched
  <2>2. t \in Turns
    BY <2>1, PreparedType DEF Messages
  <2>3. t.stage = "prepared" /\ t.msg = s.msg /\ t.task = IF s.msg = Compact THEN None ELSE s.msg
    BY PreparedFields
  <2>4. /\ Begin(t) /\ starters' = starters \ {s}
        /\ UNCHANGED <<server, queue, resuming, snapshot, ending, delivered>>
    BY <1>4 DEF StartTurn, Begin
  <2> HIDE DEF t
  <2>5. TurnShape(t)
    BY <2>1, <2>3 DEF TurnShape
  <2>6. s.msg \in Prompts => /\ delivered[s.msg] = 0 /\ s.msg \notin queue
                             /\ \A r \in starters' : r.msg # s.msg
    BY <2>4 DEF SendInv, Places, Place
  <2>7. Unwritten(t)
    BY <2>3, <2>6 DEF Unwritten
  <2> QED
    BY <2>1, <2>2, <2>3, <2>4, <2>5, <2>6, <2>7, BeginSend
<1>5. ASSUME NEW s \in starters, StartRefused(s) PROVE SendInv'
  <2>1. /\ UNCHANGED <<server, resuming, snapshot, job, ending, delivered, accepted>>
        /\ status' = "error" /\ turn' = NoTurn /\ starters' = starters \ {s}
        /\ ~resuming /\ Live' = Live
    BY <1>5 DEF StartRefused, SendInv, Untouched, Live, history
  <2>2. Places'
    <3>1. CASE s.from = "http"
      BY <1>5, <2>1, <3>1, PlacesEmptied DEF StartRefused, SendInv
    <3>2. CASE s.from = "queue"
      <4> SUFFICES ASSUME NEW q \in Prompts PROVE Place(q)'
        BY DEF Places
      <4>1. Place(q) /\ q # turn'.task /\ queue' = queue \union {s.msg}
        BY <1>5, <2>1, <3>2, NoTurnFields DEF StartRefused, SendInv, Places
      <4>2. Underway(q)' => Underway(q) /\ Live /\ q = job.task
        BY <2>1, <4>1 DEF Underway
      <4> QED
        BY <2>1, <3>2, <4>1, <4>2 DEF Place
    <3> QED
      BY <1>5, <3>1, <3>2 DEF StartRefused
  <2>3. Unwritten(turn)' /\ TurnShape(turn)' /\ TurnShape(snapshot)'
    BY <2>1, NoTurnFields DEF Unwritten, TurnShape, SendInv
  <2> QED
    BY <2>1, <2>2, <2>3 DEF SendInv, Untouched, CallShape, Live
<1>6. ASSUME NEW s \in starters, LeaveClaim(s) PROVE SendInv'
  <2>1. /\ UNCHANGED <<status, turn, queue, server, resuming, snapshot, job, ending, delivered, accepted>>
        /\ starters' \subseteq starters /\ ~resuming /\ server = "closing" /\ Live' = Live
    BY <1>6 DEF LeaveClaim, SendInv, Untouched, Live, row, history
  <2>2. Places'
    BY <2>1, PlacesEmptied DEF SendInv
  <2> QED
    BY <2>1, <2>2 DEF SendInv, TurnShape, Unwritten, Untouched, CallShape, Live
<1> QED
  BY <1>1, <1>2, <1>3, <1>4, <1>5, <1>6 DEF Starting

\* An observation records the confirmation of a call that wrote its prompt.
LEMMA ObserveSend ==
  ASSUME SendInv, TypeInv', Live, NEW j \in Jobs, Observe(j),
         j.msg = job.msg, j.task = job.task, j.retries = job.retries, j.stop = job.stop,
         j.sending = job.sending, j.observed = job.observed,
         j.phase = job.phase \/ (job.phase \notin {"ready", "marked"} /\ j.phase = "answered"),
         UNCHANGED <<status, queue, server, starters, resuming, snapshot, ending, delivered, accepted>>
  PROVE  SendInv'
<1>1. /\ job'.phase = j.phase /\ job'.msg = j.msg /\ job'.task = j.task /\ job'.retries = j.retries
      /\ job'.sending = j.sending /\ job'.stop = j.stop
      /\ \/ turn' = turn /\ job'.observed = j.observed
         \/ job.sending /\ Recordable /\ turn' = Recorded("confirmed")
  <2>1. CASE job' = j
    BY <2>1 DEF Observe
  <2>2. CASE job' # j
    <3>1. job' = [j EXCEPT !.observed = TRUE] /\ job.sending /\ Recordable /\ turn' = Recorded("confirmed")
      BY <2>2 DEF Observe
    <3> QED
      BY <3>1 DEF Jobs
  <2> QED
    BY <2>1, <2>2
<1>2. Live' /\ turn \in Turns
  BY <1>1 DEF Live, SendInv, TypeInv, TypeOK
<1>3. CASE turn' = turn /\ job'.observed = j.observed
  <2>1. CallShape'
    BY <1>1, <1>2, <1>3 DEF SendInv, CallShape
  <2> QED
    BY <1>1, <1>2, <1>3, <2>1, CallStep
<1>4. CASE job.sending /\ Recordable /\ turn' = Recorded("confirmed")
  <2>1. /\ turn'.stage = "confirmed" /\ turn'.msg = turn.msg /\ turn'.task = turn.task
        /\ turn'.retries = turn.retries
    BY <1>2, <1>4, RecordedFields
  <2>2. turn.stage \in {"prepared", "sending", "confirmed"} /\ turn # NoTurn
    BY <1>4, NoTurnFields DEF Recordable
  <2>3. CallShape'
    BY <1>1, <1>2, <1>4, <2>1, <2>2 DEF SendInv, CallShape
  <2> QED
    BY <1>1, <1>2, <2>1, <2>2, <2>3, CallStep
<1> QED
  BY <1>1, <1>3, <1>4

\* Nothing but the row changes, which is emptied.
LEMMA RowEmptied ==
  ASSUME SendInv, TypeInv', turn' = NoTurn, status' \in {"idle", "error"},
         UNCHANGED <<queue, server, starters, resuming, snapshot, job, delivered, accepted>>,
         ending' = ending \/ (ending' = "none" /\ ~resuming)
  PROVE  SendInv'
<1>1. Places'
  BY PlacesEmptied DEF SendInv, Live
<1>2. Untouched'
  BY DEF SendInv, Untouched, Vacant, Live
<1> QED
  BY <1>1, <1>2, NoTurnFields DEF SendInv, TurnShape, Unwritten, CallShape, Live

\* The end of a turn is for the bookkeeping alone: it cannot fail while another
\* turn starts in the thread.
FailsAlone == StoreFails => OneWorker

\* Prompt calls and the end of turns send nothing twice.
LEMMA CallingSend == ASSUME SendInv, FailsAlone, TypeInv', Calling PROVE SendInv'
<1> USE MessagesDistinct
<1>t. turn \in Turns /\ job \in Jobs /\ ~(Live /\ resuming)
  BY DEF SendInv, TypeInv, TypeOK, Untouched, Vacant
<1>1. CASE MarkSending
  <2>1. /\ UNCHANGED <<status, queue, server, starters, resuming, snapshot, ending, delivered, accepted>>
        /\ job.phase = "ready" /\ Live
    BY <1>1 DEF MarkSending, Live, history
  <2>2. /\ job'.phase = "marked" /\ job'.msg = job.msg /\ job'.task = job.task /\ job'.retries = job.retries
        /\ job'.observed = job.observed /\ job'.stop = job.stop
        /\ job'.sending \/ (job'.observed /\ job'.sending = job.sending)
    BY <1>1, <1>t DEF MarkSending, Jobs
  <2>3. Live' /\ job'.sending
    BY <2>1, <2>2 DEF Live, SendInv, CallShape
  <2>4. CASE turn' = turn /\ job.observed
    <3>1. CallShape'
      BY <2>1, <2>2, <2>3, <2>4 DEF SendInv, CallShape
    <3> QED
      BY <2>1, <2>2, <2>3, <2>4, <3>1, CallStep
  <2>5. CASE Recordable /\ turn' = Recorded("sending")
    <3>1. /\ turn'.stage \in {"sending", "confirmed"} /\ turn'.msg = turn.msg /\ turn'.task = turn.task
          /\ turn'.retries = turn.retries
      BY <1>t, <2>5, RecordedFields
    <3>2. turn.stage \in {"prepared", "sending", "confirmed"} /\ turn # NoTurn
      BY <2>5, NoTurnFields DEF Recordable
    <3>3. CallShape'
      BY <2>1, <2>2, <2>3, <3>1, <3>2 DEF SendInv, CallShape
    <3> QED
      BY <2>1, <2>2, <2>3, <3>1, <3>2, <3>3, CallStep
  <2> QED
    BY <1>1, <2>4, <2>5 DEF MarkSending
<1>2. CASE Write
  <2>1. /\ UNCHANGED <<status, turn, queue, server, starters, resuming, snapshot, ending, accepted>>
        /\ job.phase = "marked" /\ Live /\ ~resuming
    BY <1>2, <1>t DEF Write, Live, row
  <2>2. /\ job'.phase = "sent" /\ job'.msg = job.msg /\ job'.task = job.task /\ job'.retries = job.retries
        /\ job'.observed = job.observed /\ job'.stop = job.stop /\ job'.sending = job.sending
    BY <1>2, <1>t DEF Write, Jobs
  <2>3. Live' /\ CallShape'
    BY <2>1, <2>2 DEF Live, SendInv, CallShape
  <2>4. ASSUME NEW p \in Prompts
        PROVE  /\ delivered'[p] = IF p = job.msg THEN 1 ELSE delivered[p]
               /\ p = job.msg => p = job.task
    <3>1. job.msg \in Prompts => delivered[job.msg] = 0 /\ job.msg = job.task
      BY <2>1 DEF SendInv, CallShape
    <3>2. delivered \in [Prompts -> 0..2]
      BY DEF SendInv, TypeInv, TypeOK
    <3> QED
      BY <1>2, <3>1, <3>2 DEF Write, Again
  <2>5. Places'
    <3> SUFFICES ASSUME NEW p \in Prompts PROVE Place(p)'
      BY DEF Places
    <3>1. Place(p) /\ (Underway(p)' <=> Underway(p)) /\ Live' = Live
      BY <2>1, <2>2, <2>3 DEF SendInv, Places, Underway
    <3>2. CASE p # job.msg
      BY <2>1, <2>2, <2>4, <3>1, <3>2 DEF Place
    <3>3. CASE p = job.msg
      <4>1. p = job.task /\ Underway(p) /\ delivered'[p] = 1 /\ delivered'[p] <= 1
        BY <2>1, <2>4, <3>3 DEF Underway
      <4>2. p \in accepted /\ p \notin queue /\ \A s \in starters : s.msg # p
        BY <2>1, <3>1, <4>1 DEF Place
      <4> QED
        BY <2>1, <3>1, <4>1, <4>2, Zenon DEF Place
    <3> QED
      BY <3>2, <3>3
  <2>6. Unwritten(turn)'
    BY <2>1, <2>4, NoTurnFields DEF Unwritten, SendInv, CallShape, TurnShape
  <2>7. Untouched' /\ TurnShape(turn)' /\ TurnShape(snapshot)'
    BY <2>1, <2>2, <2>3 DEF SendInv, Untouched, TurnShape, Vacant
  <2> QED
    BY <2>1, <2>3, <2>5, <2>6, <2>7 DEF SendInv
<1>3. CASE AgentTakes
  <2>1. /\ UNCHANGED <<status, turn, queue, server, starters, resuming, snapshot, ending, delivered, accepted>>
        /\ job.phase = "sent" /\ Live
    BY <1>3 DEF AgentTakes, Live, row
  <2>2. /\ job'.phase = "working" /\ job'.msg = job.msg /\ job'.task = job.task /\ job'.retries = job.retries
        /\ job'.observed = job.observed /\ job'.stop = job.stop /\ job'.sending = job.sending
    BY <1>3, <1>t DEF AgentTakes, Jobs
  <2>3. Live' /\ CallShape'
    BY <2>1, <2>2 DEF Live, SendInv, CallShape
  <2> QED
    BY <2>1, <2>2, <2>3, CallStep
<1>4. CASE AgentOutput
  BY <1>4, <1>t, ObserveSend DEF AgentOutput, Live, history
<1>5. CASE AgentRunOutput
  BY <1>5, <1>t, ObserveSend DEF AgentRunOutput, history
<1>6. ASSUME NEW reply \in Replies \ {""}, Answer(reply) PROVE SendInv'
  <2> DEFINE j == [job EXCEPT !.phase = "answered", !.reply = reply]
  <2>1. /\ j \in Jobs /\ j.phase = "answered" /\ j.msg = job.msg /\ j.task = job.task /\ j.retries = job.retries
        /\ j.sending = job.sending /\ j.observed = job.observed /\ j.stop = job.stop
    BY <1>t DEF Jobs, Phases
  <2>2. Observe(j) /\ Live /\ job.phase \notin {"ready", "marked"}
        /\ UNCHANGED <<status, queue, server, starters, resuming, snapshot, ending, delivered, accepted>>
    BY <1>6 DEF Answer, Live
  <2> HIDE DEF j
  <2> QED
    BY <2>1, <2>2, ObserveSend
<1>7. CASE Complete
  <2> DEFINE outcome == CASE job.reply = "ok" -> "idle" [] job.reply = "cancelled" -> "cancelled" [] OTHER -> "failed"
  <2>1. outcome \in Endings \ {"shutdown"}
    BY DEF Endings
  <2>2. EndJob(outcome) /\ Live
    BY <1>7 DEF Complete, Live
  <2> HIDE DEF outcome
  <2> QED
    BY <1>7, <2>1, <2>2, CallEndsSend DEF Complete, history
<1>8. CASE RecordRetry
  <2>1. /\ UNCHANGED <<status, queue, server, starters, resuming, snapshot, ending, delivered, accepted>>
        /\ job.phase = "answered" /\ Live /\ turn.stage # "none"
    BY <1>8 DEF RecordRetry, HoldsRow, Live, history
  <2>2. /\ job'.phase = "waiting" /\ job'.msg = job.msg /\ job'.task = job.task /\ job'.retries = job.retries + 1
        /\ job'.observed = job.observed /\ job'.stop = job.stop /\ job'.sending = job.sending
    BY <1>8, <1>t DEF RecordRetry, Jobs
  <2>3. /\ turn'.stage = turn.stage /\ turn'.msg = turn.msg /\ turn'.task = turn.task
        /\ turn'.retries = job.retries + 1
    BY <1>8, <1>t DEF RecordRetry, Turns
  <2>4. turn.stage \in {"prepared", "sending", "confirmed"}
    BY <2>1, NoTurnFields DEF SendInv, CallShape
  <2>5. Live' /\ CallShape'
    BY <2>1, <2>2, <2>3, <2>4, NoTurnFields DEF Live, SendInv, CallShape
  <2> QED
    BY <2>1, <2>2, <2>3, <2>4, <2>5, CallStep
<1>9. CASE RetryWaitEnds
  <2>1. /\ UNCHANGED <<status, turn, queue, server, starters, resuming, snapshot, delivered, accepted>>
        /\ job.phase = "waiting" /\ Live
    BY <1>9 DEF RetryWaitEnds, Live, row, history
  <2>2. CASE job.stop # ""
    BY <1>9, <2>1, <2>2, CallEndsSend DEF RetryWaitEnds, Endings, row
  <2>3. CASE job.stop = ""
    <3>1. /\ job'.phase = "ready" /\ job'.msg = Continue /\ job'.task = job.task /\ job'.retries = job.retries
          /\ job'.observed = job.observed /\ job'.stop = job.stop /\ job'.sending = job.sending
          /\ ending' = ending
      BY <1>9, <1>t, <2>3 DEF RetryWaitEnds, Jobs
    <3>2. Live' /\ CallShape'
      BY <2>1, <3>1 DEF Live, SendInv, CallShape
    <3> QED
      BY <2>1, <3>1, <3>2, CallStep
  <2> QED
    BY <2>2, <2>3
<1>10. CASE CallFails
  BY <1>10, CallEndsSend DEF CallFails, Live, Endings, history
<1>11. CASE Stop
  <2>1. /\ UNCHANGED <<status, turn, queue, server, starters, resuming, snapshot, ending, delivered, accepted>>
        /\ Live
    BY <1>11 DEF Stop, row, history
  <2>2. /\ job'.phase = job.phase /\ job'.msg = job.msg /\ job'.task = job.task /\ job'.retries = job.retries
        /\ job'.observed = job.observed /\ job'.stop = "user" /\ job'.sending = job.sending
    BY <1>11, <1>t DEF Stop, Jobs
  <2>3. Live' /\ CallShape'
    BY <2>1, <2>2 DEF Live, SendInv, CallShape
  <2> QED
    BY <2>1, <2>2, <2>3, CallStep
<1>12. CASE StopStored
  BY <1>12, RowEmptied DEF StopStored, memory, history
<1>13. CASE Finish
  <2>1. CASE ending = "shutdown"
    <3>1. /\ UNCHANGED <<turn, queue, server, starters, resuming, snapshot, job, delivered, accepted>>
          /\ server = "closing" /\ ~resuming /\ ending' = "none"
      BY <1>13, <2>1 DEF Finish, LockFree, SendInv, Untouched
    <3>2. Places'
      BY <3>1, PlacesEmptied DEF SendInv, Live
    <3> QED
      BY <3>1, <3>2 DEF SendInv, Untouched, TurnShape, Unwritten, CallShape, Live
  <2>2. CASE ending # "shutdown"
    BY <1>13, <2>2, RowEmptied DEF Finish, EndTurn, LockFree
  <2> QED
    BY <2>1, <2>2
<1>14. CASE FinishFails
  <2>1. /\ UNCHANGED <<turn, queue, server, starters, resuming, snapshot, job, delivered, accepted>>
        /\ ending # "none" /\ ending' = "none" /\ OneWorker
    BY <1>14 DEF FinishFails, FailsAlone, history
  <2>2. starters = {} /\ ~Live /\ ~resuming
    BY <2>1 DEF OneWorker, Vacant, SendInv, Untouched
  <2>3. Places'
    BY <2>1, <2>2, PlacesEmptied DEF SendInv, Live
  <2> QED
    BY <2>1, <2>2, <2>3 DEF SendInv, Untouched, TurnShape, Unwritten, CallShape, Live, Vacant
<1> QED
  BY <1>1, <1>2, <1>3, <1>4, <1>5, <1>6, <1>7, <1>8, <1>9, <1>10, <1>11, <1>12, <1>13, <1>14 DEF Calling

\* Restarts and the recovery sweep send nothing twice.
LEMMA RestartingSend == ASSUME SendInv, TypeInv', Restarting PROVE SendInv'
<1> USE MessagesDistinct
<1>t. turn \in Turns /\ job \in Jobs /\ ~(Live /\ resuming) /\ (server # "up" => sweep = 0) /\ (resuming => Trying)
  BY DEF SendInv, TypeInv, TypeOK, Untouched, Vacant
<1>1. CASE CloseBegin
  <2>1. /\ UNCHANGED <<status, turn, queue, starters, ending, delivered, accepted>>
        /\ server' = "closing" /\ ~resuming' /\ snapshot' = NoTurn
    BY <1>1 DEF CloseBegin, row, history
  <2>2. /\ job'.phase = job.phase /\ job'.msg = job.msg /\ job'.task = job.task /\ job'.retries = job.retries
        /\ job'.sending = job.sending /\ job'.observed = job.observed
    BY <1>1, <1>t DEF CloseBegin, Jobs
  <2>3. Places'
    BY <2>1, <2>2, PlacesEmptied DEF SendInv, Live
  <2> QED
    BY <2>1, <2>2, <2>3, NoTurnFields DEF SendInv, Untouched, TurnShape, Unwritten, CallShape, Live
<1>2. CASE CloseEnd
  <2>1. /\ UNCHANGED <<status, turn, queue, resuming, snapshot, job, ending, delivered, accepted>>
        /\ server' = "down" /\ starters' = {} /\ Vacant /\ ~resuming
    BY <1>2, <1>t, BoundsAreNatural DEF CloseEnd, Trying, row, history
  <2>2. Places'
    BY <2>1, PlacesEmptied DEF SendInv, Live
  <2> QED
    BY <2>1, <2>2 DEF SendInv, Untouched, TurnShape, Unwritten, CallShape, Live, Vacant
<1>3. CASE Crash
  <2>1. /\ UNCHANGED <<status, turn, queue, delivered, accepted>>
        /\ server' = "down" /\ starters' = {} /\ ~resuming' /\ snapshot' = NoTurn
        /\ ~Live' /\ job'.stop = "" /\ ending' = "none"
    BY <1>3 DEF Crash, Live, NoJob, row, history
  <2>2. Places'
    BY <2>1, PlacesEmptied DEF SendInv
  <2> QED
    BY <2>1, <2>2, NoTurnFields DEF SendInv, Untouched, TurnShape, Unwritten, CallShape, Vacant, Live
<1>4. CASE Boot
  <2>1. /\ UNCHANGED <<turn, queue, starters, resuming, snapshot, job, ending, delivered, accepted>>
        /\ server = "down" /\ server' = "up" /\ ~resuming
    BY <1>4, <1>t, BoundsAreNatural DEF Boot, Trying, history
  <2>2. starters = {} /\ Vacant
    BY <2>1 DEF SendInv, Untouched
  <2>3. Places'
    BY <2>1, PlacesEmptied DEF SendInv, Live
  <2> QED
    BY <2>1, <2>2, <2>3 DEF SendInv, Untouched, TurnShape, Unwritten, CallShape, Vacant, Live
<1>5. CASE ResumeBegin
  <2>1. /\ UNCHANGED <<status, turn, queue, server, starters, job, ending, delivered, accepted>>
        /\ server = "up"
    BY <1>5, <1>t, BoundsAreNatural DEF ResumeBegin, Trying, row, history
  <2>2. CASE UNCHANGED <<resuming, snapshot>>
    <3>1. Places'
      BY <2>1, <2>2, PlacesEmptied DEF SendInv, Live
    <3> QED
      BY <2>1, <2>2, <3>1 DEF SendInv, Untouched, TurnShape, Unwritten, CallShape, Vacant, Live
  <2>3. CASE status = "interrupted" /\ ~Unconfirmed(turn) /\ resuming' = TRUE /\ snapshot' = turn
    <3>1. starters = {} /\ Vacant
      BY <2>1, <2>3 DEF SendInv, Untouched
    <3>2. \A p \in Prompts : Underway(p)' => Underway(p)
      BY <2>1, <2>3 DEF Underway, Live
    <3>3. Places'
      BY <2>1, <3>2, PlacesStay DEF SendInv, Live
    <3>4. ~Unconfirmed(snapshot')
      BY <2>3
    <3>5. Untouched'
      BY <2>1, <2>3, <3>1, <3>4 DEF SendInv, Untouched, Vacant, Live, Unconfirmed
    <3> QED
      BY <2>1, <2>3, <3>3, <3>5 DEF SendInv, TurnShape, Unwritten, CallShape, Live
  <2> QED
    BY <1>5, <2>2, <2>3 DEF ResumeBegin
<1>6. CASE ResumeStart
  <2>1. /\ resuming /\ starters = {} /\ Begin(Resumed(snapshot)) /\ ~resuming' /\ snapshot' = NoTurn
        /\ UNCHANGED <<server, queue, starters, ending, delivered>>
        /\ snapshot \in Turns /\ TurnShape(snapshot) /\ Unwritten(snapshot)
    BY <1>6 DEF ResumeStart, Begin, SendInv, TypeInv, TypeOK, Untouched
  <2> DEFINE t == Resumed(snapshot)
  <2>2. /\ t.stage = "prepared" /\ TurnShape(t) /\ t \in Turns
        /\ t.task = IF snapshot.msg = Compact THEN None ELSE snapshot.task
        /\ t.msg = Compact => t.task = None
        /\ t.msg \in Prompts => snapshot.stage \in {"claimed", "prepared"} /\ snapshot.msg = t.msg
    BY <2>1, ResumedShape, ResumedType
  <2> HIDE DEF t
  <2>3. Unwritten(t)
    BY <2>1, <2>2 DEF Unwritten
  <2>4. t.task \in Prompts => t.task \in accepted \ queue
    BY <2>1, <2>2, NoneIsNoPrompt DEF SendInv, Places, Place, Underway
  <2>5. Begin(t)
    BY <2>1 DEF t
  <2> QED
    BY <2>1, <2>2, <2>3, <2>4, <2>5, BeginSend
<1>7. CASE ResumeFails
  <2>1. /\ UNCHANGED <<status, turn, queue, server, starters, job, ending, delivered, accepted>>
        /\ ~resuming' /\ snapshot' = NoTurn
    BY <1>7 DEF ResumeFails, row, history
  <2>2. Places'
    BY <2>1, PlacesEmptied DEF SendInv, Live
  <2> QED
    BY <2>1, <2>2, NoTurnFields DEF SendInv, Untouched, TurnShape, Unwritten, CallShape, Vacant, Live
<1>8. CASE GiveUp
  <2>1. UNCHANGED <<queue, server, starters, resuming, snapshot, job, ending, delivered, accepted>>
    BY <1>8 DEF GiveUp
  <2>2. CASE EndTurn("error")
    BY <2>1, <2>2, RowEmptied DEF EndTurn
  <2>3. CASE UNCHANGED <<status, turn>>
    <3>1. Places'
      BY <2>1, <2>3, PlacesEmptied DEF SendInv, Live
    <3> QED
      BY <2>1, <2>3, <3>1 DEF SendInv, Untouched, TurnShape, Unwritten, CallShape, Vacant, Live
  <2> QED
    BY <1>8, <2>2, <2>3 DEF GiveUp
<1> QED
  BY <1>1, <1>2, <1>3, <1>4, <1>5, <1>6, <1>7, <1>8 DEF Restarting

\* No step sends a prompt twice.
LEMMA SendStep ==
  ASSUME SendInv, FailsAlone, TypeInv', [Next]_vars
  PROVE  SendInv'
<1>1. CASE UNCHANGED vars
  <2>1. UNCHANGED <<status, turn, queue, server, starters, resuming, snapshot, job, ending, delivered, accepted>>
    BY <1>1 DEF vars, row, memory, history
  <2>2. Places'
    BY <2>1, PlacesEmptied DEF SendInv, Live
  <2> QED
    BY <2>1, <2>2 DEF SendInv, Untouched, TurnShape, Unwritten, CallShape, Vacant, Live
<1> QED
  BY <1>1, StartingSend, CallingSend, RestartingSend DEF Next

\* So no prompt is ever sent twice, unless two failures meet: the bookkeeping
\* of an ended turn fails while a turn the user began over an interrupted one
\* is starting.
LEMMA SendInvariance == ASSUME ~Preempt \/ ~StoreFails PROVE Spec => []SendInv
<1>1. SendInv /\ FailsAlone /\ TypeInv' /\ [Next]_vars => SendInv'
  BY SendStep
<1>2. Spec => []FailsAlone
  <2>1. CASE ~StoreFails
    <3>1. FailsAlone
      BY <2>1 DEF FailsAlone
    <3> QED
      BY <3>1, PTL
  <2>2. CASE ~Preempt
    <3>1. IInv => FailsAlone
      BY DEF IInv, FailsAlone
    <3> QED
      BY <2>2, <3>1, Invariance, PTL
  <2> QED
    BY <2>1, <2>2
<1> QED
  BY <1>1, <1>2, SendInit, Types, PTL DEF Spec

----------------------------------------------------------------------------
(* An agent that works on prompts only is told to continue what it holds *)

\* What a turn tells its agent to continue, or takes to be confirmed, the agent
\* holds.
HeldTurn(t) == t.task # None /\ (t.stage = "confirmed" \/ t.msg = Continue) => t.task \in held

\* So does the live call, and what an agent holds was written to it.
HeldInv ==
    /\ HeldTurn(turn) /\ (resuming => HeldTurn(snapshot))
    /\ \A p \in held : delivered[p] = 1
    /\ Live /\ job.task # None /\ (job.msg = Continue \/ job.phase \in {"working", "answered", "waiting"}) =>
           job.task \in held
    /\ Live /\ job.msg \in Prompts /\ job.phase \notin {"ready", "marked"} => delivered[job.msg] = 1

\* The empty turn tells nobody to continue.
LEMMA NoTurnHeld == HeldTurn(NoTurn)
  BY NoTurnFields DEF HeldTurn

\* A step of the row and the sweep that empties rows at most, and ends calls.
LEMMA HeldStay ==
  ASSUME HeldInv, UNCHANGED <<held, delivered>>,
         \/ turn' = turn \/ turn' = NoTurn
         \/ turn'.msg = turn.msg /\ turn'.task = turn.task /\ (turn'.stage = "confirmed" => turn.stage = "confirmed"),
         resuming' => (resuming /\ snapshot' = snapshot) \/ snapshot' = turn,
         Live' => /\ Live /\ job'.task = job.task /\ job'.msg = job.msg
                  /\ \/ job'.phase = job.phase
                     \/ {job'.phase, job.phase} \subseteq {"ready", "marked"}
                     \/ {job'.phase, job.phase} \subseteq {"working", "answered", "waiting"}
  PROVE  HeldInv'
<1>1. HeldTurn(turn)'
  <2>1. CASE turn' = turn
    BY <2>1 DEF HeldInv, HeldTurn
  <2>2. CASE turn' = NoTurn
    BY <2>2, NoTurnHeld, NoTurnFields DEF HeldTurn
  <2>3. CASE turn'.msg = turn.msg /\ turn'.task = turn.task /\ (turn'.stage = "confirmed" => turn.stage = "confirmed")
    BY <2>3 DEF HeldInv, HeldTurn
  <2> QED
    BY <2>1, <2>2, <2>3
<1>2. resuming' => HeldTurn(snapshot)'
  BY DEF HeldInv, HeldTurn
<1>3. Live' => /\ job'.task # None /\ (job'.msg = Continue \/ job'.phase \in {"working", "answered", "waiting"}) =>
                      job'.task \in held
               /\ job'.msg \in Prompts /\ job'.phase \notin {"ready", "marked"} => delivered[job'.msg] = 1
  BY DEF HeldInv
<1> QED
  BY <1>1, <1>2, <1>3 DEF HeldInv

\* A turn that begins continues only what its agent holds.
LEMMA BeginHeld ==
  ASSUME HeldInv, NEW t, Begin(t), HeldTurn(t), t.stage = "prepared", ~resuming', UNCHANGED <<held, delivered>>
  PROVE  HeldInv'
<1>1. turn' = t /\ job'.phase = "ready" /\ job'.msg = t.msg /\ job'.task = t.task
  BY BeginFields
<1> QED
  BY <1>1 DEF HeldInv, HeldTurn

\* What the call sent is held once the agent takes it in.
LEMMA TakenHeld ==
  ASSUME SendInv, HeldInv, Live, job.phase \in {"sent", "working"}
  PROVE  \A p \in held \union ({job.task} \intersect Prompts) : delivered[p] = 1
<1> SUFFICES ASSUME job.task \in Prompts PROVE delivered[job.task] = 1
  BY DEF HeldInv
<1>1. job.msg \in {Continue, Compact, job.task} /\ (job.msg = Compact => job.task = None)
  BY DEF SendInv, CallShape
<1>2. job.task # None
  BY NoneIsNoPrompt
<1> QED
  BY <1>1, <1>2 DEF HeldInv

\* An observation confirms a call whose agent holds the task.
LEMMA ObserveHeld ==
  ASSUME SendInv, HeldInv, Live, NEW j \in Jobs, Observe(j), j.task = job.task, j.msg = job.msg,
         j.phase \in {"working", "answered"}, job.phase \in {"sent", "working"},
         job.task \in Prompts => job.task \in held', held \subseteq held', \A p \in held' : delivered[p] = 1,
         UNCHANGED <<delivered, resuming, snapshot>>
  PROVE  HeldInv'
<1>1. /\ job'.phase = j.phase /\ job'.msg = j.msg /\ job'.task = j.task
      /\ turn' = turn \/ turn' = Recorded("confirmed")
  BY ObserveFields
<1>2. turn \in Turns /\ turn.task \in Prompts \union {None} /\ job.task \in Prompts \union {None}
  BY DEF SendInv, TypeInv, TypeOK, Turns, Jobs
<1>3. Live' /\ (job.task # None => job.task \in held')
  BY <1>1, <1>2 DEF Live
<1>4. turn.task = None \/ turn.task = job.task
  BY NoTurnFields DEF SendInv, CallShape
<1>5. HeldTurn(turn)'
  <2>1. CASE turn' = turn
    BY <2>1 DEF HeldInv, HeldTurn
  <2>2. CASE turn' = Recorded("confirmed")
    BY <1>2, <1>3, <1>4, <2>2, RecordedFields DEF HeldTurn
  <2> QED
    BY <1>1, <2>1, <2>2
<1>6. resuming' => HeldTurn(snapshot)'
  BY DEF HeldInv, HeldTurn
<1>7. job.msg \in Prompts => delivered[job.msg] = 1
  BY <1>1 DEF HeldInv
<1> QED
  BY <1>1, <1>3, <1>5, <1>6, <1>7 DEF HeldInv

\* Every step keeps what is held and what was told apart.
LEMMA HeldStep ==
  ASSUME ~AgentRuns, SendInv, HeldInv, [Next]_vars
  PROVE  HeldInv'
<1> USE MessagesDistinct
<1>t. turn \in Turns /\ job \in Jobs /\ ~(Live /\ resuming)
  BY DEF SendInv, TypeInv, TypeOK, Untouched, Vacant
<1>1. CASE Starting
  <2>1. ASSUME NEW p \in Prompts, Submit(p) PROVE HeldInv'
    BY <2>1, HeldStay DEF Submit, memory, Live
  <2>2. ASSUME NEW p \in Prompts, Claim(p) PROVE HeldInv'
    <3>1. HeldTurn(turn)'
      BY <2>2, ClaimedFields DEF Claim, HeldTurn
    <3> QED
      BY <2>2, <3>1 DEF Claim, history, HeldInv, HeldTurn, Live
  <2>3. ASSUME NEW m, Reserve(m) PROVE HeldInv'
    <3>1. HeldTurn(turn)'
      BY <2>3, ReservedFields DEF Reserve, HeldTurn
    <3> QED
      BY <2>3, <3>1 DEF Reserve, history, HeldInv, HeldTurn, Live
  <2>4. ASSUME NEW s \in starters, StartTurn(s) PROVE HeldInv'
    <3> DEFINE t == Prepared(s.msg, IF s.msg = Compact THEN None ELSE s.msg)
    <3>1. Begin(t) /\ ~resuming' /\ UNCHANGED <<held, delivered>>
      BY <2>4 DEF StartTurn, SendInv, Untouched
    <3>2. s.msg \in Prompts \union {Compact} /\ t.stage = "prepared" /\ t.msg = s.msg
      BY PreparedFields DEF SendInv, TypeInv, TypeOK, Starters
    <3> HIDE DEF t
    <3>3. HeldTurn(t)
      BY <3>2 DEF HeldTurn
    <3> QED
      BY <3>1, <3>2, <3>3, BeginHeld
  <2>5. ASSUME NEW s \in starters, StartRefused(s) PROVE HeldInv'
    BY <2>5, HeldStay DEF StartRefused, history, Live
  <2>6. ASSUME NEW s \in starters, LeaveClaim(s) PROVE HeldInv'
    BY <2>6, HeldStay DEF LeaveClaim, history, row, Live
  <2> QED
    BY <1>1, <2>1, <2>2, <2>3, <2>4, <2>5, <2>6 DEF Starting
<1>2. CASE Calling
  <2>1. CASE MarkSending
    <3>1. /\ job'.phase = "marked" /\ job'.msg = job.msg /\ job'.task = job.task /\ Live
          /\ UNCHANGED <<held, delivered, resuming, snapshot>>
      BY <1>t, <2>1 DEF MarkSending, Jobs, history, Live
    <3>2. turn' = turn \/ turn' = Recorded("sending")
      BY <2>1 DEF MarkSending
    <3>3. job.phase = "ready"
      BY <2>1 DEF MarkSending
    <3>4. \/ turn' = turn
          \/ turn'.msg = turn.msg /\ turn'.task = turn.task /\ (turn'.stage = "confirmed" => turn.stage = "confirmed")
      BY <1>t, <3>2, RecordedFields
    <3> QED
      BY <3>1, <3>3, <3>4, HeldStay
  <2>2. CASE Write
    <3>1. /\ job'.phase = "sent" /\ job'.msg = job.msg /\ job'.task = job.task /\ Live /\ job.phase = "marked"
          /\ UNCHANGED <<turn, held, resuming, snapshot>>
      BY <1>t, <2>2 DEF Write, Jobs, row, Live
    <3>2. job.msg \in Prompts => delivered[job.msg] = 0
      BY <3>1 DEF SendInv, CallShape
    <3>3. delivered \in [Prompts -> 0..2] /\ held \subseteq Prompts
      BY DEF SendInv, TypeInv, TypeOK
    <3>4. \A p \in Prompts : delivered'[p] = IF p = job.msg THEN 1 ELSE delivered[p]
      BY <2>2, <3>2, <3>3 DEF Write, Again
    <3> QED
      BY <3>1, <3>3, <3>4 DEF HeldInv, HeldTurn, Live
  <2>3. CASE AgentTakes
    <3>1. /\ job'.phase = "working" /\ job'.msg = job.msg /\ job'.task = job.task /\ Live /\ job.phase = "sent"
          /\ UNCHANGED <<turn, delivered, resuming, snapshot>> /\ held' = held \union ({job.task} \intersect Prompts)
      BY <1>t, <2>3 DEF AgentTakes, Jobs, row, Live
    <3>2. \A p \in held' : delivered[p] = 1
      BY <3>1, TakenHeld
    <3>3. job.task \in Prompts \union {None}
      BY <1>t DEF Jobs
    <3> QED
      BY <3>1, <3>2, <3>3 DEF HeldInv, HeldTurn, Live
  <2>4. CASE AgentOutput
    <3>1. /\ job.phase = "working" /\ Live /\ Observe(job) /\ UNCHANGED <<held, delivered, resuming, snapshot>>
      BY <2>4 DEF AgentOutput, Live, history
    <3>2. (job.task \in Prompts => job.task \in held') /\ \A p \in held' : delivered[p] = 1
      BY <3>1, NoneIsNoPrompt DEF HeldInv
    <3> QED
      BY <1>t, <3>1, <3>2, ObserveHeld
  <2>5. ASSUME NEW reply \in Replies \ {""}, Answer(reply) PROVE HeldInv'
    <3> DEFINE j == [job EXCEPT !.phase = "answered", !.reply = reply]
    <3>1. j \in Jobs /\ j.phase = "answered" /\ j.msg = job.msg /\ j.task = job.task
      BY <1>t DEF Jobs, Phases
    <3>2. /\ job.phase \in {"sent", "working"} /\ Live /\ Observe(j) /\ UNCHANGED <<delivered, resuming, snapshot>>
          /\ held' = held \union ({job.task} \intersect Prompts)
      BY <2>5 DEF Answer, Live
    <3> HIDE DEF j
    <3>3. \A p \in held' : delivered[p] = 1
      BY <3>2, TakenHeld
    <3> QED
      BY <3>1, <3>2, <3>3, ObserveHeld
  <2>6. CASE Complete \/ CallFails
    <3>0. job' = NoJob
      BY <2>6 DEF Complete, CallFails, EndJob
    <3>1. ~Live'
      BY <3>0, NoJobFields DEF Live
    <3> QED
      BY <2>6, <3>1, HeldStay DEF Complete, CallFails, row, history
  <2>7. CASE RecordRetry
    <3>1. /\ job'.phase = "waiting" /\ job'.msg = job.msg /\ job'.task = job.task /\ Live /\ job.phase = "answered"
          /\ UNCHANGED <<held, delivered, resuming, snapshot>>
      BY <1>t, <2>7 DEF RecordRetry, Jobs, history, Live
    <3>2. turn'.msg = turn.msg /\ turn'.task = turn.task /\ turn'.stage = turn.stage
      BY <1>t, <2>7 DEF RecordRetry, Turns
    <3> QED
      BY <3>1, <3>2, HeldStay
  <2>8. CASE RetryWaitEnds
    <3>1. UNCHANGED <<turn, held, delivered, resuming, snapshot>> /\ Live /\ job.phase = "waiting"
      BY <2>8 DEF RetryWaitEnds, row, history, Live
    <3>2. CASE ~Live'
      BY <3>1, <3>2, HeldStay
    <3>3. CASE Live'
      <4>0. job' = NoJob \/ job' = [job EXCEPT !.phase = "ready", !.msg = Continue]
        BY <2>8 DEF RetryWaitEnds, EndJob
      <4>1. job'.phase = "ready" /\ job'.msg = Continue /\ job'.task = job.task
        BY <1>t, <3>3, <4>0, NoJobFields DEF Live, Jobs
      <4> QED
        BY <3>1, <4>1 DEF HeldInv, HeldTurn
    <3> QED
      BY <3>2, <3>3
  <2>9. CASE Stop
    <3>1. job'.phase = job.phase /\ job'.msg = job.msg /\ job'.task = job.task
      BY <1>t, <2>9 DEF Stop, Jobs
    <3> QED
      BY <2>9, <3>1, HeldStay DEF Stop, row, history
  <2>10. CASE StopStored
    BY <2>10, HeldStay DEF StopStored, memory, history, Live
  <2>11. CASE Finish
    BY <2>11, HeldStay DEF Finish, EndTurn, Live
  <2>12. CASE FinishFails
    BY <2>12, HeldStay DEF FinishFails, Live, history
  <2> QED
    BY <1>2, <2>1, <2>2, <2>3, <2>4, <2>5, <2>6, <2>7, <2>8, <2>9, <2>10, <2>11, <2>12 DEF Calling, AgentRunOutput
<1>3. CASE Restarting
  <2>1. CASE CloseBegin
    <3>1. job'.phase = job.phase /\ job'.msg = job.msg /\ job'.task = job.task
      BY <1>t, <2>1 DEF CloseBegin, Jobs
    <3> QED
      BY <2>1, <3>1, HeldStay DEF CloseBegin, row, history, Live
  <2>2. CASE CloseEnd \/ Boot
    BY <2>2, HeldStay DEF CloseEnd, Boot, row, history, Live
  <2>3. CASE Crash
    BY <2>3, NoJobFields, HeldStay DEF Crash, row, history, Live
  <2>4. CASE ResumeBegin \/ ResumeFails
    BY <2>4, HeldStay DEF ResumeBegin, ResumeFails, row, history, Live
  <2>5. CASE ResumeStart
    <3>1. /\ resuming /\ Begin(Resumed(snapshot)) /\ ~resuming' /\ UNCHANGED <<held, delivered>>
          /\ snapshot \in Turns /\ TurnShape(snapshot) /\ HeldTurn(snapshot) /\ ~Unconfirmed(snapshot)
      BY <2>5 DEF ResumeStart, HeldInv, SendInv, TypeInv, TypeOK, Untouched
    <3> DEFINE t == Resumed(snapshot)
    <3>2. /\ t.stage = "prepared"
          /\ t.task = IF snapshot.msg = Compact THEN None ELSE snapshot.task
          /\ t.msg = Continue /\ snapshot.task # None =>
                 snapshot.msg = Continue \/ (snapshot.stage \in {"sending", "confirmed"} /\ snapshot.msg # Compact)
      BY <3>1, ResumedShape
    <3>3. Begin(t)
      BY <3>1
    <3> HIDE DEF t
    <3>4. HeldTurn(t)
      BY <3>1, <3>2 DEF HeldTurn, Unconfirmed
    <3> QED
      BY <3>1, <3>2, <3>3, <3>4, BeginHeld
  <2>6. CASE GiveUp
    BY <2>6, HeldStay DEF GiveUp, EndTurn, Live
  <2> QED
    BY <1>3, <2>1, <2>2, <2>3, <2>4, <2>5, <2>6 DEF Restarting
<1>4. CASE UNCHANGED vars
  BY <1>4, HeldStay DEF vars, row, memory, history, Live
<1> QED
  BY <1>1, <1>2, <1>3, <1>4 DEF Next

\* So what is continued is held throughout.
LEMMA HeldInvariance == ASSUME ~Preempt \/ ~StoreFails, ~AgentRuns PROVE Spec => []HeldInv
<1>1. Init => HeldInv
  <2> SUFFICES ASSUME Init PROVE HeldInv
    OBVIOUS
  <2>1. turn = NoTurn /\ ~resuming /\ held = {} /\ job = NoJob
    BY DEF Init
  <2> QED
    BY <2>1, NoTurnHeld, NoJobFields DEF HeldInv, Live
<1>2. SendInv /\ HeldInv /\ [Next]_vars => HeldInv'
  BY HeldStep
<1> QED
  BY <1>1, <1>2, SendInvariance, PTL DEF Spec

----------------------------------------------------------------------------
(* What it gives *)

\* No crash, shutdown, retry or resume writes a prompt to an agent twice, even
\* if users stop interrupted turns or write over them and the agent works on its
\* own (all but the one case SendInvariance leaves out).
THEOREM DeliveredOnce == ASSUME ~Preempt \/ ~StoreFails PROVE Spec => []AtMostOnceDelivery
<1>1. SendInv => AtMostOnceDelivery
  BY DEF SendInv, Places, Place, AtMostOnceDelivery
<1> QED
  BY <1>1, SendInvariance, PTL

\* A turn whose record still says claimed or prepared is safe to send: its
\* state is recorded before the prompt is written.
THEOREM PreparedIsSafe == ASSUME ~Preempt \/ ~StoreFails PROVE Spec => []PreparedNeverWritten
<1>1. SendInv => PreparedNeverWritten
  BY DEF SendInv, Unwritten, PreparedNeverWritten
<1> QED
  BY <1>1, SendInvariance, PTL

\* Only an agent that holds the task is told to continue it, whatever users do
\* to an interrupted turn; an agent that works on its own may confirm a prompt it
\* has not taken in, which the run turn_recovery_agent_runs shows.
THEOREM ContinuesHeld == ASSUME ~Preempt \/ ~StoreFails, ~AgentRuns PROVE Spec => []ContinuesOnlyHeldTask
<1>1. ASSUME HeldInv, IdleJob PROVE ContinuesOnlyHeldTask
  <2>1. job.task # None => Live
    BY <1>1, NoJobFields DEF IdleJob
  <2> QED
    BY <1>1, <2>1 DEF HeldInv, HeldTurn, ContinuesOnlyHeldTask
<1> QED
  BY <1>1, HeldInvariance, IdleJobHolds, PTL

\* An accepted prompt waits in the queue, has the thread's turn, or its one
\* result is out.
THEOREM TasksConserved == ASSUME ~Preempt PROVE Spec => []TaskConservation
<1>1. ASSUME IInv PROVE TaskConservation
  <2> SUFFICES ASSUME NEW p \in accepted
               PROVE  (IF p \in queue THEN 1 ELSE 0) + (IF turn.task = p THEN 1 ELSE 0) + ended[p] = 1
    BY DEF TaskConservation
  <2>1. p \in Prompts /\ ended[p] \in 0..2
    BY <1>1 DEF IInv, TypeInv, TypeOK
  <2>2. /\ p \in queue => p # turn.task /\ ended[p] = 0
        /\ p = turn.task => ended[p] = 0
        /\ p \in queue \/ p = turn.task \/ ended[p] = 1
    BY <1>1, <2>1 DEF IInv, TaskPlaces
  <2> QED
    BY <2>1, <2>2
<1> QED
  BY <1>1, Invariance, PTL

\* The row of a running turn holds what a restart needs.
THEOREM RowKeepsUp == ASSUME ~Preempt PROVE Spec => []RowFollowsJob
<1>1. IInv => RowFollowsJob
  BY DEF IInv, OneWorker, JobShape, RowFollowsJob
<1> QED
  BY <1>1, Invariance, PTL

\* A prompt whose turn runs has no result yet.
THEOREM ResultsComeFromTheEnd == ASSUME ~Preempt PROVE Spec => []NoResultWhileRunning
<1>1. ASSUME IInv, IdleJob PROVE NoResultWhileRunning
  <2> SUFFICES ASSUME NEW p \in Prompts, job.task = p PROVE ~(ended[p] > 0)
    BY DEF NoResultWhileRunning
  <2>1. Live
    BY <1>1, NoneIsNoPrompt, NoJobFields DEF IdleJob
  <2>2. turn.task = p
    BY <1>1, <2>1 DEF IInv, JobShape
  <2>3. ended[p] = 0
    BY <1>1, <2>2 DEF IInv, TaskPlaces
  <2> QED
    BY <2>3
<1> QED
  BY <1>1, Invariance, IdleJobHolds, PTL

----------------------------------------------------------------------------
(* What a step may do *)

\* A turn begins only from what the row holds.
THEOREM TurnsBeginFromTheRow == ASSUME ~Preempt PROVE Spec => BeginsWhatRowHolds
<1>1. ASSUME IInv, [Next]_vars, ~Live, job'.phase # "none"
      PROVE  turn.stage # "none" /\ (turn.task # None => turn.task = job'.task)
  <2>1. PICK t : /\ Begin(t)
                 /\ \/ \E s \in starters : t = Prepared(s.msg, IF s.msg = Compact THEN None ELSE s.msg)
                    \/ resuming /\ t = Resumed(snapshot)
    BY <1>1, BeginStep DEF IInv
  <2>2. job'.task = t.task
    BY <2>1, BeginFields
  <2>3. CASE \E s \in starters : t = Prepared(s.msg, IF s.msg = Compact THEN None ELSE s.msg)
    <3>1. PICK s \in starters : t = Prepared(s.msg, IF s.msg = Compact THEN None ELSE s.msg)
      BY <2>3
    <3>2. \/ s.from = "queue" /\ s.msg \in Prompts /\ turn = Claimed(s.msg)
          \/ turn = Reserved
      BY <1>1, <3>1 DEF IInv, OneWorker
    <3>3. CASE s.msg \in Prompts /\ turn = Claimed(s.msg)
      <4>1. s.msg # Compact
        BY <3>3, MessagesDistinct
      <4> QED
        BY <2>2, <3>1, <3>3, <4>1, ClaimedFields, PreparedFields
    <3>4. CASE turn = Reserved
      BY <3>4, ReservedFields
    <3> QED
      BY <3>2, <3>3, <3>4
  <2>4. CASE resuming /\ t = Resumed(snapshot)
    <3>1. snapshot = turn /\ turn.stage # "none"
      BY <1>1, <2>4 DEF IInv, OneWorker, RowShape
    <3>2. t.task = turn.task \/ turn.task = None
      BY <1>1, <2>4, <3>1, PreparedFields DEF IInv, RowShape, Resumed
    <3> QED
      BY <2>2, <3>1, <3>2
  <2> QED
    BY <2>1, <2>3, <2>4
<1>2. IInv /\ [Next]_vars => [~Live /\ job'.phase # "none" =>
          turn.stage # "none" /\ (turn.task # None => turn.task = job'.task)]_vars
  BY <1>1
<1> QED
  BY <1>2, Invariance, PTL DEF Spec, BeginsWhatRowHolds

\* A recovery starts no turn for a task whose delivery is undecided, whatever
\* users do to the interrupted turn meanwhile.
THEOREM DecidedTasksResume ==
  ASSUME ~Preempt \/ ~StoreFails, ~AgentRuns
  PROVE  Spec => ResumesOnlyDecidedTasks
<1>1. ASSUME SendInv, HeldInv, [Next]_vars, ~Live, job'.phase # "none", job'.task # None
      PROVE  \/ job'.msg = job'.task /\ delivered[job'.task] = 0
             \/ job'.msg = Continue /\ job'.task \in held
  <2>1. PICK t : /\ Begin(t)
                 /\ \/ \E s \in starters : t = Prepared(s.msg, IF s.msg = Compact THEN None ELSE s.msg)
                    \/ resuming /\ t = Resumed(snapshot)
    BY <1>1, BeginStep DEF SendInv
  <2>2. job'.task = t.task /\ job'.msg = t.msg /\ t.task # None
    BY <1>1, <2>1, BeginFields
  <2>3. CASE \E s \in starters : t = Prepared(s.msg, IF s.msg = Compact THEN None ELSE s.msg)
    <3>1. PICK s \in starters : t = Prepared(s.msg, IF s.msg = Compact THEN None ELSE s.msg)
      BY <2>3
    <3>2. s.msg \in Prompts /\ t.task = s.msg /\ t.msg = s.msg
      <4>1. s.msg \in Prompts \union {Compact}
        BY <1>1, <3>1 DEF SendInv, TypeInv, TypeOK, Starters
      <4> QED
        BY <2>2, <3>1, <4>1, PreparedFields
    <3>3. delivered[s.msg] = 0
      BY <1>1, <3>1, <3>2 DEF SendInv, Places, Place
    <3> QED
      BY <2>2, <3>2, <3>3
  <2>4. CASE resuming /\ t = Resumed(snapshot)
    <3>1. snapshot \in Turns /\ TurnShape(snapshot) /\ Unwritten(snapshot) /\ HeldTurn(snapshot)
          /\ ~Unconfirmed(snapshot)
      BY <1>1, <2>4 DEF SendInv, HeldInv, Untouched, TypeInv, TypeOK
    <3>2. /\ t.stage = "prepared" /\ TurnShape(t)
          /\ t.task = IF snapshot.msg = Compact THEN None ELSE snapshot.task
          /\ t.msg = Compact => t.task = None
          /\ t.msg \in Prompts => snapshot.stage \in {"claimed", "prepared"} /\ snapshot.msg = t.msg
          /\ t.msg = Continue /\ snapshot.task # None =>
                 snapshot.msg = Continue \/ (snapshot.stage \in {"sending", "confirmed"} /\ snapshot.msg # Compact)
      BY <2>4, <3>1, ResumedShape
    <3>3. t.msg \in {Continue, t.task} /\ t.task = snapshot.task /\ t.task \in Prompts
      BY <2>2, <3>1, <3>2 DEF TurnShape, Turns
    <3>4. t.msg = t.task => delivered[t.task] = 0
      BY <3>1, <3>2, <3>3 DEF Unwritten
    <3>5. t.msg = Continue => t.task \in held
      BY <2>2, <3>1, <3>2, <3>3 DEF HeldTurn, Unconfirmed
    <3> QED
      BY <2>2, <3>3, <3>4, <3>5
  <2> QED
    BY <2>1, <2>3, <2>4
<1>2. SendInv /\ HeldInv /\ [Next]_vars => [~Live /\ job'.phase # "none" /\ job'.task # None =>
          \/ job'.msg = job'.task /\ delivered[job'.task] = 0
          \/ job'.msg = Continue /\ job'.task \in held]_vars
  BY <1>1
<1> QED
  BY <1>2, SendInvariance, HeldInvariance, PTL DEF Spec, ResumesOnlyDecidedTasks

\* No step but the end of a task's turn gives back retries the task used, even
\* if users stop interrupted turns or write over them and the agent works on its
\* own.
THEOREM UsedRetriesSurvive == ASSUME ~Preempt \/ ~StoreFails PROVE Spec => RetriesSurvive
<1>1. ASSUME SendInv, [Next]_vars, turn.task # None, turn'.task = turn.task
      PROVE  turn'.retries >= turn.retries
  <2>0. /\ turn.retries \in 0..MaxRetries /\ MaxRetries \in Nat
        /\ turn \in Turns /\ turn.task \in Prompts /\ turn # NoTurn
    BY <1>1, BoundsAreNatural, NoTurnFields DEF SendInv, TypeInv, TypeOK, Turns
  <2>1. SUFFICES ASSUME turn' # turn PROVE turn'.retries >= turn.retries
    BY <2>0
  <2>2. CASE Starting
    <3>1. ASSUME NEW s \in starters, StartTurn(s) PROVE turn'.retries >= turn.retries
      <4>1. turn' = Prepared(s.msg, IF s.msg = Compact THEN None ELSE s.msg)
        BY <3>1 DEF StartTurn, Begin
      <4>2. turn'.retries = 0 /\ turn'.task = IF s.msg = Compact THEN None ELSE s.msg
        BY <4>1, PreparedFields DEF Prepared, NoTurn
      <4>3. turn = Claimed(turn.task)
        BY <1>1, <2>0, <4>2 DEF SendInv, Places, Place
      <4>4. turn.retries = 0
        BY <4>3 DEF Claimed, NoTurn
      <4> QED
        BY <4>2, <4>4
    <3>2. ASSUME NEW p \in Prompts, Claim(p) PROVE FALSE
      <4>1. turn'.task = p /\ p \in queue
        BY <3>2, ClaimedFields DEF Claim
      <4> QED
        BY <1>1, <2>0, <4>1 DEF SendInv, Places, Place, Underway
    <3>3. ASSUME NEW m, Reserve(m) PROVE FALSE
      BY <1>1, <3>3, ReservedFields DEF Reserve
    <3>4. ASSUME NEW s \in starters, StartRefused(s) PROVE FALSE
      BY <1>1, <3>4, NoTurnFields DEF StartRefused
    <3> QED
      BY <2>1, <2>2, <3>1, <3>2, <3>3, <3>4 DEF Starting, Submit, LeaveClaim, row
  <2>3. CASE Calling
    <3>1. ASSUME NEW x, turn' = Recorded(x) PROVE turn'.retries >= turn.retries
      BY <2>0, <3>1, RecordedFields
    <3>2. CASE RecordRetry
      <4>1. turn'.retries = job.retries + 1
        BY <2>0, <3>2 DEF RecordRetry, Turns
      <4>2. job.retries = turn.retries
        BY <1>1, <2>0, <3>2 DEF RecordRetry, SendInv, CallShape, Live
      <4> QED
        BY <2>0, <4>1, <4>2
    <3>3. CASE Finish
      BY <1>1, <2>1, <3>3, NoTurnFields DEF Finish, EndTurn
    <3>4. CASE StopStored
      BY <1>1, <3>4, NoTurnFields DEF StopStored
    <3> QED
      BY <2>1, <2>3, <3>1, <3>2, <3>3, <3>4 DEF Calling, MarkSending, Write, AgentTakes, AgentOutput, AgentRunOutput,
         Answer, Observe, Complete, RetryWaitEnds, CallFails, Stop, FinishFails, row
  <2>4. CASE Restarting
    <3>1. CASE ResumeStart
      <4>1. turn' = Resumed(snapshot) /\ snapshot = turn /\ TurnShape(turn)
        BY <1>1, <2>0, <3>1, BeginFields DEF ResumeStart, SendInv, Untouched
      <4>2. turn'.retries = turn.retries
        BY <1>1, <2>0, <4>1, ResumedShape
      <4> QED
        BY <2>0, <4>2
    <3>2. CASE GiveUp
      BY <1>1, <2>1, <3>2, NoTurnFields DEF GiveUp, EndTurn
    <3> QED
      BY <2>1, <2>4, <3>1, <3>2 DEF Restarting, CloseBegin, CloseEnd, Crash, Boot, ResumeBegin, ResumeFails, row
  <2> QED
    BY <1>1, <2>1, <2>2, <2>3, <2>4 DEF Next, vars, row
<1>2. SendInv /\ [Next]_vars => [turn.task # None /\ turn'.task = turn.task => turn'.retries >= turn.retries]_vars
  BY <1>1
<1> QED
  BY <1>2, SendInvariance, PTL DEF Spec, RetriesSurvive

----------------------------------------------------------------------------
(* The thread keeps its promise *)

\* The first time something happens is counted as once.
LEMMA AgainFromZero == Again(0) = 1
  BY DEF Again

\* Every step is one of TaskDelivery, or hidden from it.
LEMMA PromiseStep ==
  ASSUME ~Preempt, ~AgentRuns, IInv, SendInv, HeldInv, [Next]_vars
  PROVE  [Promise!Next]_(Promise!vars)
<1> USE DEF Promise!Open
<1>0. \A p \in Prompts : p = turn.task => p \in accepted /\ ended[p] = 0
  BY DEF IInv, TaskPlaces
<1>1. ASSUME NEW t \in Turns, Begin(t), UNCHANGED <<held, delivered, continued, ended>>
      PROVE  [Promise!Next]_(Promise!vars)
  <2>1. CASE t.msg \in Prompts /\ t.msg \notin accepted
    <3>1. Promise!Accept(t.msg)
      BY <1>1, <2>1 DEF Begin, Promise!Accept
    <3> QED
      BY <2>1, <3>1 DEF Promise!Next
  <2>2. CASE t.msg \notin Prompts \/ t.msg \in accepted
    <3>1. accepted' = accepted
      BY <1>1, <2>2 DEF Begin
    <3> QED
      BY <1>1, <3>1 DEF Promise!vars
  <2> QED
    BY <2>1, <2>2
<1>2. ASSUME NEW newStatus, EndTurn(newStatus), UNCHANGED <<accepted, held, delivered, continued>>
      PROVE  [Promise!Next]_(Promise!vars)
  <2>1. CASE turn.task = None
    BY <1>2, <2>1 DEF EndTurn, Promise!vars
  <2>2. CASE turn.task # None
    <3>1. turn.task \in Prompts
      BY <2>2 DEF IInv, TypeInv, TypeOK, Turns
    <3>2. ended' = [ended EXCEPT ![turn.task] = 1]
      <4>1. ended' = [ended EXCEPT ![turn.task] = Again(ended[turn.task])]
        BY <1>2, <2>2 DEF EndTurn
      <4>2. ended[turn.task] = 0
        BY <1>0, <3>1
      <4> QED
        BY <4>1, <4>2, AgainFromZero
    <3>3. Promise!End(turn.task)
      BY <1>0, <1>2, <3>1, <3>2 DEF Promise!End
    <3> QED
      BY <3>1, <3>3 DEF Promise!Next
  <2> QED
    BY <2>1, <2>2
<1>3. CASE Starting
  <2>1. ASSUME NEW p \in Prompts, Submit(p) PROVE [Promise!Next]_(Promise!vars)
    <3>1. Promise!Accept(p)
      BY <2>1 DEF Submit, Unused, Promise!Accept
    <3> QED
      BY <3>1 DEF Promise!Next
  <2>2. ASSUME NEW s \in starters, StartTurn(s) PROVE [Promise!Next]_(Promise!vars)
    <3>1. s.msg \in Prompts \union {Compact}
      BY DEF IInv, TypeInv, TypeOK, Starters
    <3> DEFINE t == Prepared(s.msg, IF s.msg = Compact THEN None ELSE s.msg)
    <3>2. t \in Turns
      BY <3>1, PreparedType DEF Messages
    <3>3. Begin(t) /\ UNCHANGED <<held, delivered, continued, ended>>
      BY <2>2 DEF StartTurn
    <3> HIDE DEF t
    <3> QED
      BY <1>1, <3>2, <3>3
  <2> QED
    BY <1>3, <2>1, <2>2 DEF Starting, Claim, Reserve, StartRefused, LeaveClaim, history, Promise!vars
<1>4. CASE Calling
  <2>1. CASE Write
    <3>1. job.phase = "marked" /\ Live
      BY <2>1 DEF Write, Live
    <3>2. /\ turn.task = job.task
          /\ job.msg \in Prompts => job.msg = job.task /\ delivered[job.msg] = 0
          /\ job.task # None /\ job.msg = Continue => job.task \in held
      BY <3>1, MessagesDistinct DEF IInv, JobShape, SendInv, CallShape, HeldInv
    <3>3. CASE job.msg \in Prompts
      <4>1. delivered' = [delivered EXCEPT ![job.msg] = 1] /\ UNCHANGED <<accepted, held, continued, ended>>
        <5>1. delivered' = [delivered EXCEPT ![job.msg] = Again(delivered[job.msg])]
          BY <2>1, <3>3 DEF Write
        <5>2. delivered[job.msg] = 0
          BY <3>2, <3>3
        <5>3. continued' = continued
          BY <2>1, <3>3, MessagesDistinct DEF Write
        <5>4. UNCHANGED <<accepted, held, ended>>
          BY <2>1 DEF Write
        <5> QED
          BY <5>1, <5>2, <5>3, <5>4, AgainFromZero
      <4>2. Promise!Deliver(job.msg)
        BY <1>0, <3>2, <3>3, <4>1 DEF Promise!Deliver
      <4> QED
        BY <3>3, <4>2 DEF Promise!Next
    <3>4. CASE job.msg = Continue /\ job.task \in Prompts
      <4>1. continued' = continued \union {job.task} /\ UNCHANGED <<accepted, held, delivered, ended>>
        BY <2>1, <3>4, MessagesDistinct DEF Write
      <4>2. Promise!ContinueTask(job.task)
        BY <1>0, <3>2, <3>4, <4>1, NoneIsNoPrompt DEF Promise!ContinueTask
      <4> QED
        BY <3>4, <4>2 DEF Promise!Next
    <3>5. CASE job.msg \notin Prompts /\ ~(job.msg = Continue /\ job.task \in Prompts)
      BY <2>1, <3>5 DEF Write, Promise!vars
    <3> QED
      BY <3>3, <3>4, <3>5
  <2>2. ASSUME NEW reply, AgentTakes \/ Answer(reply) PROVE [Promise!Next]_(Promise!vars)
    <3>1. job.phase \in {"sent", "working"} /\ Live
      BY <2>2 DEF AgentTakes, Answer, Live
    <3>2. held' = held \union ({job.task} \intersect Prompts) /\ UNCHANGED <<accepted, delivered, continued, ended>>
      BY <2>2 DEF AgentTakes, Answer
    <3>3. CASE job.task \in Prompts
      <4>1. turn.task = job.task /\ delivered[job.task] = 1
        BY <3>1, <3>3, TakenHeld DEF IInv, JobShape
      <4>2. Promise!Hold(job.task)
        BY <1>0, <3>2, <3>3, <4>1 DEF Promise!Hold
      <4> QED
        BY <3>3, <4>2 DEF Promise!Next
    <3>4. CASE job.task \notin Prompts
      BY <3>2, <3>4 DEF Promise!vars
    <3> QED
      BY <3>3, <3>4
  <2>3. CASE Finish
    BY <1>2, <2>3 DEF Finish, Promise!vars
  <2>4. CASE MarkSending \/ AgentOutput \/ AgentRunOutput \/ Complete \/ RecordRetry \/ RetryWaitEnds
             \/ CallFails \/ Stop \/ StopStored \/ FinishFails
    BY <2>4 DEF MarkSending, AgentOutput, AgentRunOutput, Complete, RecordRetry, RetryWaitEnds, CallFails, Stop,
                StopStored, FinishFails, history, Promise!vars
  <2> QED
    BY <1>4, <2>1, <2>2, <2>3, <2>4 DEF Calling
<1>5. CASE Restarting
  <2>1. CASE ResumeStart
    BY <1>1, <2>1, ResumedType DEF ResumeStart, IInv, TypeInv, TypeOK
  <2>2. CASE GiveUp
    <3>1. UNCHANGED <<accepted, held, delivered, continued>>
      BY <2>2 DEF GiveUp
    <3>2. EndTurn("error") \/ ended' = ended
      BY <2>2 DEF GiveUp
    <3> QED
      BY <1>2, <3>1, <3>2 DEF Promise!vars
  <2> QED
    BY <1>5, <2>1, <2>2 DEF Restarting, CloseBegin, CloseEnd, Crash, Boot, ResumeBegin, ResumeFails, history, Promise!vars
<1>6. CASE UNCHANGED vars
  BY <1>6 DEF vars, history, Promise!vars
<1> QED
  BY <1>3, <1>4, <1>5, <1>6 DEF Next

\* The thread implements TaskDelivery: each prompt is written at most once,
\* continued only when held, and ended with one result, after which it is silent.
THEOREM PromiseKept == ASSUME ~Preempt, ~AgentRuns PROVE Spec => KeepsPromise
<1>1. Init => Promise!Init
  BY DEF Init, Promise!Init
<1>2. IInv /\ SendInv /\ HeldInv /\ [Next]_vars => [Promise!Next]_(Promise!vars)
  BY PromiseStep
<1> QED
  BY <1>1, <1>2, Invariance, SendInvariance, HeldInvariance, PTL DEF Spec, KeepsPromise, Promise!Spec
=============================================================================
