--------------------------- MODULE LocalBackend ---------------------------
(***************************************************************************)
(* The backend the desktop app runs for itself (main/backend.ts): started  *)
(* when a window asks for it, unless a healthy one is there; stopped when  *)
(* the app quits or updates; and, when the app died without stopping it,   *)
(* found by the pid file and killed by the next session, so that no server *)
(* with old code is taken over.                                            *)
(*                                                                         *)
(* Several starts may be under way: windows ask for themselves and for the *)
(* connection they share.  A backend is the number of the spawn; one the   *)
(* user started has session UserSession.                                   *)
(***************************************************************************)
EXTENDS Naturals, Sequences

CONSTANTS Callers,     \* who may ask for the backend
          MaxBackends, \* backends ever started
          MaxSessions  \* sessions of the app

VARIABLES session,   \* the running session of the app
          child,     \* the backend this session holds, or None
          pidFile,   \* the backend the pid file names, or None
          start,     \* what each caller's start is doing
          backend,   \* the backends, in the order they were started
          signalled, \* ghost: the backends told to end
          awaited,   \* ghost: those of them a start of this session told to end,
                     \* but for those that outlived its wait
          erased     \* ghost: the backends alive when the pid file that named
                     \* them was removed and nothing told them to end

ghostVars == <<signalled, awaited, erased>>
vars == <<session, child, pidFile, start, backend, ghostVars>>

None == 0
UserSession == 0
Backends == 1..Len(backend)
Alive(i) == i \in Backends /\ backend[i].phase \in {"booting", "healthy"}
Healthy == {i \in Backends : backend[i].phase = "healthy"}

\* What a look at the port may bring: who is well there, or nothing in time.
Answers == Healthy \union {None}

Idle == [phase |-> "idle", backend |-> None]

Init ==
  /\ session = 1 /\ child = None /\ pidFile = None
  /\ start = [c \in Callers |-> Idle]
  /\ backend = <<>> /\ signalled = {} /\ awaited = {} /\ erased = {}

-----------------------------------------------------------------------------
(* A start *)

To(c, phase, i) == start' = [start EXCEPT ![c] = [phase |-> phase, backend |-> i]]

\* A start without a child first ends the backend an earlier session left,
\* and forgets it before it has ended.
Start(c) ==
  /\ start[c].phase \in {"idle", "answered"}
  /\ IF child = None /\ pidFile # None
     THEN /\ pidFile' = None
          /\ IF Alive(pidFile)
             THEN /\ To(c, "reaping", pidFile)
                  /\ signalled' = signalled \union {pidFile}
                  /\ awaited' = awaited \union {pidFile}
             ELSE To(c, "probing", None) /\ UNCHANGED <<signalled, awaited>>
     ELSE To(c, "probing", None) /\ UNCHANGED <<pidFile, signalled, awaited>>
  /\ UNCHANGED <<session, child, backend, erased>>

\* Mutant: nobody waits for it to end.
Reaped_Variant(c) ==
  /\ start[c].phase = "reaping"
  /\ To(c, "probing", None)
  /\ UNCHANGED <<session, child, pidFile, backend, ghostVars>>

\* It is waited for until it has ended.
Reaped(c) ==
  /\ start[c].phase = "reaping" /\ ~Alive(start[c].backend)
  /\ To(c, "probing", None)
  /\ UNCHANGED <<session, child, pidFile, backend, ghostVars>>

\* After three seconds it is killed, and waited for no more.
Outlived(c) ==
  /\ start[c].phase = "reaping" /\ Alive(start[c].backend)
  /\ To(c, "probing", None)
  /\ awaited' = awaited \ {start[c].backend}
  /\ UNCHANGED <<session, child, pidFile, backend, signalled, erased>>

\* Whatever holds the port says whether it is well.
Probe(c) ==
  /\ start[c].phase = "probing"
  /\ \E i \in Answers : To(c, "deciding", i)
  /\ UNCHANGED <<session, child, pidFile, backend, ghostVars>>

Spawned(by) ==
  /\ Len(backend) < MaxBackends
  /\ backend' = Append(backend, [session |-> by, phase |-> "booting"])

\* Mutant: whether there is a child is not looked at again after the probe.
Decide_Variant(c) ==
  /\ start[c].phase = "deciding"
  /\ IF start[c].backend # None
     THEN To(c, "answered", start[c].backend) /\ UNCHANGED <<backend, child, pidFile>>
     ELSE /\ To(c, "waiting", None)
          /\ Spawned(session)
          /\ child' = Len(backend) + 1
          /\ pidFile' = Len(backend) + 1
  /\ UNCHANGED <<session, ghostVars>>

\* A healthy backend is taken; without one and without a child one is started.
Decide(c) ==
  /\ start[c].phase = "deciding"
  /\ IF start[c].backend # None
     THEN To(c, "answered", start[c].backend) /\ UNCHANGED <<backend, child, pidFile>>
     ELSE /\ To(c, "waiting", None)
          /\ IF child = None
             THEN /\ Spawned(session)
                  /\ child' = Len(backend) + 1
                  /\ pidFile' = Len(backend) + 1
             ELSE UNCHANGED <<backend, child, pidFile>>
  /\ UNCHANGED <<session, ghostVars>>

\* It is waited for until it is well, the child is gone or time is up.
Wait(c) ==
  /\ start[c].phase = "waiting"
  /\ \E i \in Answers : To(c, "answered", i)
  /\ UNCHANGED <<session, child, pidFile, backend, ghostVars>>

-----------------------------------------------------------------------------
(* The backends *)

Becomes(i, phase) == backend' = [backend EXCEPT ![i].phase = phase]

\* A backend that has the port comes up; one that does not ends.
Boots(i) ==
  /\ backend[i].phase = "booting"
  /\ Becomes(i, IF Healthy = {} THEN "healthy" ELSE "exited")
  /\ UNCHANGED <<session, child, pidFile, start, ghostVars>>

Exits(i) ==
  /\ Alive(i)
  /\ Becomes(i, "exited")
  /\ UNCHANGED <<session, child, pidFile, start, ghostVars>>

\* The pid file goes, whichever backend it names.
Forgotten(ended) ==
  /\ pidFile' = None
  /\ erased' = IF Alive(pidFile) /\ pidFile # ended THEN erased \union {pidFile} ELSE erased

\* The app learns that a backend it started ended, and removes the pid file
\* even if it names another.
ExitSeen(i) ==
  /\ backend[i] = [session |-> session, phase |-> "exited"]
  /\ Becomes(i, "seen")
  /\ Forgotten(i)
  /\ child' = IF child = i THEN None ELSE child
  /\ UNCHANGED <<session, start, signalled, awaited>>

\* The user starts a backend by hand.
UserStarts ==
  /\ Spawned(UserSession)
  /\ UNCHANGED <<session, child, pidFile, start, ghostVars>>

-----------------------------------------------------------------------------
(* The app *)

\* The app stops its backend, and removes the pid file even if it has none;
\* a window may ask for a backend before the app is gone.
Stop ==
  /\ child # None \/ pidFile # None
  /\ signalled' = signalled \union ({child} \ {None})
  /\ child' = None /\ Forgotten(child)
  /\ UNCHANGED <<session, start, backend, awaited>>

\* The app is gone and comes back; what it had not stopped runs on.
Restart ==
  /\ session < MaxSessions
  /\ session' = session + 1
  /\ child' = None
  /\ start' = [c \in Callers |-> Idle]
  /\ awaited' = {}
  /\ UNCHANGED <<pidFile, backend, signalled, erased>>

-----------------------------------------------------------------------------
Next ==
  \/ \E c \in Callers : Start(c) \/ Reaped(c) \/ Outlived(c) \/ Probe(c) \/ Decide(c) \/ Wait(c)
  \/ \E i \in Backends : Boots(i) \/ Exits(i) \/ ExitSeen(i)
  \/ UserStarts \/ Stop \/ Restart

Spec == Init /\ [][Next]_vars

-----------------------------------------------------------------------------
(* Properties *)

\* The child and the pid file name a backend the app started.
TypeOK ==
  /\ session \in Nat \ {0}
  /\ backend \in Seq([session : UserSession..session,
                      phase : {"booting", "healthy", "exited", "seen"}])
  /\ {child, pidFile} \subseteq Backends \union {None}
  /\ \A i \in {child, pidFile} \ {None} : backend[i].session # UserSession
  /\ child # None => backend[child].session = session
  /\ start \in [Callers -> [phase : {"idle", "reaping", "probing", "deciding",
                                     "waiting", "answered"},
                            backend : Backends \union {None}]]
  /\ awaited \subseteq signalled /\ signalled \subseteq Backends /\ erased \subseteq Backends

\* The app loses sight of no backend it started: one that lives and was not
\* told to end is the child, and the pid file names it for the next session,
\* unless the exit of an earlier child, or a stop of a session that had not
\* started any, took the pid file away.
NoBackendLeaks ==
  \A i \in Backends :
    Alive(i) /\ backend[i].session # UserSession =>
      i \in {pidFile} \union signalled \union erased
        /\ (backend[i].session = session => i \in {child} \union signalled)

\* A start still waits for the backend to end.
Reaping(i) == \E c \in Callers : start[c] = [phase |-> "reaping", backend |-> i]

\* The backends a start may take up: the user's, this session's, one whose pid
\* file was lost, one told to end that no start of this session waited out, and
\* one another start is still waiting for.
MayAnswer(i) ==
  \/ backend[i].session \in {UserSession, session}
  \/ i \in erased
  \/ i \in signalled \ awaited
  \/ Reaping(i)

\* No start takes up a backend an earlier session of the app left behind and a
\* start of this session could find and end: every look at the port comes after
\* that backend ended or outlived the wait for it.  What it may find of earlier
\* sessions is one told to end by a quit or by a start the app died in, one
\* whose pid file was lost, and, when starts overlap, one whose end another is
\* still waiting for.
NoStaleBackend ==
  [][\A c \in Callers :
       LET i == start'[c].backend
       IN  i \notin {None, start[c].backend} /\ start'[c].phase # "reaping" => MayAnswer(i)]_vars
=============================================================================
