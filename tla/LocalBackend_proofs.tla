------------------------ MODULE LocalBackend_proofs ------------------------
(***************************************************************************)
(* Proofs about LocalBackend: for any callers and any number of backends   *)
(* and sessions, the app loses sight of no backend it started and no start *)
(* takes up one that an earlier session left behind and it could end.      *)
(***************************************************************************)
EXTENDS LocalBackend, SequenceTheorems, TLAPS

Phases == {"idle", "reaping", "probing", "deciding", "waiting", "answered"}

\* Once a session has begun a start, the pid file names its child or nothing:
\* what an earlier session left was reaped before the first probe.
PidFileIsOwn ==
  /\ child = None /\ (\E c \in Callers : start[c].phase # "idle") => pidFile = None
  /\ child # None => pidFile \in {None, child}

\* A backend this session told to end and still hopes to see end is waited for
\* as long as it lives.
AwaitedIsReaped == \A i \in awaited : Alive(i) => Reaping(i)

BackendInv == TypeOK /\ NoBackendLeaks /\ PidFileIsOwn /\ AwaitedIsReaped

-----------------------------------------------------------------------------
(* Lemmas *)

\* What a start does is a change of that start alone.
LEMMA ToChanges ==
  ASSUME TypeOK, NEW c \in Callers, NEW p \in Phases, NEW i \in Backends \union {None},
         To(c, p, i)
  PROVE  /\ start' \in [Callers -> [phase : Phases, backend : Backends \union {None}]]
         /\ start'[c] = [phase |-> p, backend |-> i]
         /\ \A d \in Callers : d # c => start'[d] = start[d]
  BY DEF TypeOK, To, Phases

\* A spawn keeps the backends there are.
LEMMA SpawnedGrows ==
  ASSUME TypeOK, NEW by \in UserSession..session, Spawned(by)
  PROVE  /\ backend' \in Seq([session : UserSession..session,
                              phase : {"booting", "healthy", "exited", "seen"}])
         /\ Len(backend) \in Nat /\ Backends' = 1..(Len(backend) + 1)
         /\ Backends = 1..Len(backend)
         /\ backend'[Len(backend) + 1] = [session |-> by, phase |-> "booting"]
         /\ \A i \in Backends : backend'[i] = backend[i]
<1> DEFINE R == [session : UserSession..session,
                 phase : {"booting", "healthy", "exited", "seen"}]
           new == [session |-> by, phase |-> "booting"]
<1>1. new \in R /\ backend \in Seq(R) /\ backend' = Append(backend, new)
  BY DEF TypeOK, Spawned
<1> HIDE DEF R, new
<1>2. /\ backend' \in Seq(R) /\ Len(backend) \in Nat
      /\ Len(backend') = Len(backend) + 1
      /\ backend'[Len(backend) + 1] = new
      /\ \A i \in 1..Len(backend) : backend'[i] = backend[i]
  BY <1>1
<1> QED
  BY <1>2 DEF R, new, Backends

\* A backend that changes its phase stays the backend it is.
LEMMA BecomesKeeps ==
  ASSUME TypeOK, NEW i \in Backends, NEW p \in {"booting", "healthy", "exited", "seen"},
         Becomes(i, p)
  PROVE  /\ backend' \in Seq([session : UserSession..session,
                              phase : {"booting", "healthy", "exited", "seen"}])
         /\ Backends' = Backends
         /\ backend'[i].phase = p
         /\ \A j \in Backends : backend'[j].session = backend[j].session
         /\ \A j \in Backends : j # i => backend'[j] = backend[j]
<1> DEFINE R == [session : UserSession..session,
                 phase : {"booting", "healthy", "exited", "seen"}]
           new == [backend[i] EXCEPT !.phase = p]
<1>1. backend \in Seq(R) /\ i \in 1..Len(backend)
  BY DEF TypeOK, Backends
<1>2. backend' = [backend EXCEPT ![i] = new]
  BY DEF Becomes
<1> HIDE DEF R
<1>3. backend[i] \in R
  BY <1>1
<1>4. new \in R /\ new.phase = p /\ new.session = backend[i].session
  BY <1>3 DEF R
<1> HIDE DEF new
<1>5. backend' \in Seq(R) /\ Len(backend') = Len(backend)
  BY <1>1, <1>2, <1>4, ExceptSeq
<1>6. \A j \in 1..Len(backend) : backend'[j] = IF j = i THEN new ELSE backend[j]
  BY <1>1, <1>2
<1> QED
  BY <1>1, <1>4, <1>5, <1>6 DEF R, Backends

\* A wait ends only with the backend's end, or with the backend given up, so
\* nothing else leaves an awaited backend alone.
LEMMA StaysReaped ==
  ASSUME AwaitedIsReaped, start' = start, awaited' \subseteq awaited,
         \A j \in awaited : Alive(j)' => Alive(j)
  PROVE  AwaitedIsReaped'
  BY DEF AwaitedIsReaped, Reaping

\* Once the session has begun a start, a healthy backend is one that a start
\* may take up.
LEMMA HealthyMayAnswer ==
  ASSUME BackendInv, NEW c \in Callers, start[c].phase # "idle", NEW i \in Healthy
  PROVE  MayAnswer(i)
<1>1. i \in Backends /\ Alive(i) /\ i # None
  BY DEF Healthy, Alive, Backends, None
<1>2. CASE backend[i].session = UserSession
  BY <1>2 DEF MayAnswer
<1>3. CASE backend[i].session # UserSession
  <2>1. i \in {pidFile} \union signalled \union erased
    BY <1>1, <1>3 DEF BackendInv, NoBackendLeaks
  <2>2. CASE i = pidFile
    <3>1. child = i
      BY <2>2, <1>1 DEF BackendInv, PidFileIsOwn
    <3> QED
      BY <3>1, <1>1 DEF BackendInv, TypeOK, MayAnswer
  <2>3. CASE i \in awaited
    BY <2>3, <1>1 DEF BackendInv, AwaitedIsReaped, MayAnswer
  <2> QED
    BY <2>1, <2>2, <2>3 DEF MayAnswer
<1> QED
  BY <1>2, <1>3

-----------------------------------------------------------------------------
(* The invariant is inductive *)

LEMMA BackendInit == Init => BackendInv
<1> SUFFICES ASSUME Init PROVE BackendInv
  OBVIOUS
<1>1. Backends = {} /\ backend \in Seq([session : UserSession..session,
                                        phase : {"booting", "healthy", "exited", "seen"}])
  BY DEF Init, Backends
<1>2. TypeOK
  BY <1>1 DEF Init, TypeOK, Idle, None, UserSession
<1> QED
  BY <1>1, <1>2 DEF Init, BackendInv, NoBackendLeaks, PidFileIsOwn, AwaitedIsReaped, Idle, None

\* A start that only moves on leaves every backend where it was; one that moves
\* on from a backend that lives has given it up.
LEMMA StartMoves ==
  ASSUME BackendInv, NEW c \in Callers, start[c].phase # "idle",
         NEW p \in Phases \ {"idle"}, NEW i \in Backends \union {None}, To(c, p, i),
         awaited' \subseteq awaited,
         start[c].phase = "reaping" /\ Alive(start[c].backend) => start[c].backend \notin awaited',
         UNCHANGED <<session, child, pidFile, backend, signalled, erased>>
  PROVE  BackendInv'
<1>1. /\ start' \in [Callers -> [phase : Phases, backend : Backends \union {None}]]
      /\ start'[c] = [phase |-> p, backend |-> i]
      /\ \A d \in Callers : d # c => start'[d] = start[d]
  BY ToChanges DEF BackendInv
<1>2. Backends' = Backends /\ \A j : Alive(j)' <=> Alive(j)
  BY DEF Backends, Alive
<1>3. TypeOK'
  BY <1>1, <1>2 DEF BackendInv, TypeOK, Phases
<1>4. NoBackendLeaks'
  BY <1>2 DEF BackendInv, NoBackendLeaks
<1>5. PidFileIsOwn'
  BY <1>1 DEF BackendInv, PidFileIsOwn
<1>6. AwaitedIsReaped'
  <2> SUFFICES ASSUME NEW j \in awaited', Alive(j) PROVE Reaping(j)'
    BY <1>2 DEF AwaitedIsReaped
  <2>1. PICK d \in Callers : start[d] = [phase |-> "reaping", backend |-> j]
    BY DEF BackendInv, AwaitedIsReaped, Reaping
  <2>2. d # c
    BY <2>1
  <2> QED
    BY <2>1, <2>2, <1>1 DEF Reaping
<1> QED
  BY <1>3, <1>4, <1>5, <1>6 DEF BackendInv

LEMMA StartHolds == ASSUME BackendInv, NEW c \in Callers, Start(c) PROVE BackendInv'
<1>1. Backends' = Backends /\ \A j : Alive(j)' <=> Alive(j)
  BY DEF Start, Backends, Alive
<1>2. PICK p \in {"reaping", "probing"}, i \in Backends \union {None} : To(c, p, i)
  BY DEF Start, BackendInv, TypeOK
<1>3. /\ start' \in [Callers -> [phase : Phases, backend : Backends \union {None}]]
      /\ start'[c] = [phase |-> p, backend |-> i]
      /\ \A d \in Callers : d # c => start'[d] = start[d]
  BY <1>2, ToChanges DEF BackendInv, Phases
<1>4. /\ signalled \subseteq signalled' /\ signalled' \subseteq Backends
      /\ awaited' \subseteq signalled'
      /\ pidFile' \in {pidFile, None} /\ (child = None => pidFile' = None)
      /\ pidFile' # pidFile /\ Alive(pidFile) => pidFile \in signalled'
  BY DEF Start, BackendInv, TypeOK, None
<1>5. TypeOK'
  BY <1>1, <1>3, <1>4 DEF Start, BackendInv, TypeOK, Phases
<1>6. NoBackendLeaks'
  BY <1>1, <1>4 DEF Start, BackendInv, NoBackendLeaks
<1>7. PidFileIsOwn'
  BY <1>4 DEF Start, BackendInv, PidFileIsOwn
<1>8. AwaitedIsReaped'
  <2> SUFFICES ASSUME NEW j \in awaited', Alive(j) PROVE Reaping(j)'
    BY <1>1 DEF AwaitedIsReaped
  <2>1. CASE j \in awaited
    <3>1. PICK d \in Callers : start[d] = [phase |-> "reaping", backend |-> j]
      BY <2>1 DEF BackendInv, AwaitedIsReaped, Reaping
    <3>2. d # c
      BY <3>1 DEF Start
    <3> QED
      BY <3>1, <3>2, <1>3 DEF Reaping
  <2>2. CASE j \notin awaited
    <3>1. To(c, "reaping", j)
      BY <2>2 DEF Start
    <3>2. start'[c] = [phase |-> "reaping", backend |-> j]
      BY <3>1 DEF To, BackendInv, TypeOK
    <3> QED
      BY <3>2 DEF Reaping
  <2> QED
    BY <2>1, <2>2
<1> QED
  BY <1>5, <1>6, <1>7, <1>8 DEF BackendInv

LEMMA DecideHolds == ASSUME BackendInv, NEW c \in Callers, Decide(c) PROVE BackendInv'
<1> start[c].phase = "deciding" /\ start[c].backend \in Backends \union {None}
  BY DEF Decide, BackendInv, TypeOK
<1>1. CASE start[c].backend # None
  <2>1. To(c, "answered", start[c].backend)
        /\ UNCHANGED <<session, child, pidFile, backend, ghostVars>>
    BY <1>1 DEF Decide
  <2> QED
    BY <2>1, StartMoves DEF Phases, ghostVars
<1>2. CASE start[c].backend = None /\ child # None
  <2>1. To(c, "waiting", None) /\ UNCHANGED <<session, child, pidFile, backend, ghostVars>>
    BY <1>2 DEF Decide
  <2> QED
    BY <2>1, StartMoves DEF Phases, ghostVars
<1>3. CASE start[c].backend = None /\ child = None
  <2> DEFINE new == Len(backend) + 1
  <2>1. /\ To(c, "waiting", None) /\ Spawned(session) /\ child' = new /\ pidFile' = new
        /\ UNCHANGED <<session, signalled, awaited, erased>>
    BY <1>3 DEF Decide, ghostVars
  <2>2. session \in UserSession..session /\ session # UserSession
    BY DEF BackendInv, TypeOK, UserSession
  <2>3. /\ backend' \in Seq([session : UserSession..session,
                              phase : {"booting", "healthy", "exited", "seen"}])
        /\ Len(backend) \in Nat /\ Backends' = 1..new
        /\ Backends = 1..Len(backend)
        /\ backend'[new] = [session |-> session, phase |-> "booting"]
        /\ \A i \in Backends : backend'[i] = backend[i]
    BY <2>1, <2>2, SpawnedGrows DEF BackendInv
  <2> HIDE DEF new
  <2>4. /\ start' \in [Callers -> [phase : Phases, backend : Backends \union {None}]]
        /\ start'[c] = [phase |-> "waiting", backend |-> None]
        /\ \A d \in Callers : d # c => start'[d] = start[d]
    BY <2>1, ToChanges DEF BackendInv, Phases
  <2>5. new \in Backends' /\ Backends \subseteq Backends' /\ new # None
        /\ Backends' = Backends \union {new}
    BY <2>3 DEF new, None
  <2>6. pidFile = None
    BY <1>3 DEF BackendInv, PidFileIsOwn
  <2>7. TypeOK'
    <3>1. start' \in [Callers -> [phase : Phases, backend : Backends' \union {None}]]
      BY <2>4, <2>5
    <3>2. awaited \subseteq signalled /\ signalled \subseteq Backends' /\ erased \subseteq Backends'
      BY <2>5 DEF BackendInv, TypeOK
    <3>3. session \in Nat \ {0} /\ {child', pidFile'} \subseteq Backends' \union {None}
      BY <2>1, <2>5 DEF BackendInv, TypeOK
    <3>4. backend'[child'].session = session /\ \A i \in {child', pidFile'} : i = new
      BY <2>1, <2>3
    <3> QED
      BY <2>1, <2>2, <2>3, <3>1, <3>2, <3>3, <3>4 DEF TypeOK, Phases
  <2>8. NoBackendLeaks'
    <3> SUFFICES ASSUME NEW i \in Backends', Alive(i)', backend'[i].session # UserSession
                 PROVE  /\ i \in {new} \union signalled \union erased
                        /\ backend'[i].session = session => i \in {new} \union signalled
      BY <2>1 DEF NoBackendLeaks
    <3>1. CASE i = new
      BY <3>1
    <3>2. CASE i \in Backends
      <4>1. Alive(i) /\ backend'[i] = backend[i]
        BY <3>2, <2>3 DEF Alive
      <4>2. i # None
        BY <3>2, <2>3 DEF None
      <4> QED
        BY <3>2, <4>1, <4>2, <2>6, <1>3 DEF BackendInv, NoBackendLeaks
    <3> QED
      BY <3>1, <3>2, <2>5
  <2>9. PidFileIsOwn'
    BY <2>1, <2>5 DEF PidFileIsOwn
  <2>10. AwaitedIsReaped'
    <3> SUFFICES ASSUME NEW j \in awaited, Alive(j)' PROVE Reaping(j)'
      BY <2>1 DEF AwaitedIsReaped
    <3>1. Alive(j)
      BY <2>3 DEF BackendInv, TypeOK, Alive
    <3>2. PICK d \in Callers : start[d] = [phase |-> "reaping", backend |-> j]
      BY <3>1 DEF BackendInv, AwaitedIsReaped, Reaping
    <3>3. d # c
      BY <3>2
    <3> QED
      BY <3>2, <3>3, <2>4 DEF Reaping
  <2> QED
    BY <2>7, <2>8, <2>9, <2>10 DEF BackendInv
<1> QED
  BY <1>1, <1>2, <1>3

\* A probe and a wait find what answers.
LEMMA FindHolds ==
  ASSUME BackendInv, NEW c \in Callers, start[c].phase \in {"probing", "waiting"},
         NEW p \in {"deciding", "answered"}, NEW i \in Answers, To(c, p, i),
         UNCHANGED <<session, child, pidFile, backend, ghostVars>>
  PROVE  BackendInv'
<1>1. i \in Backends \union {None}
  BY DEF Answers, Healthy
<1> QED
  BY <1>1, StartMoves DEF Phases, ghostVars

\* A backend that changes its phase and stays unseen by the app.
LEMMA PhaseHolds ==
  ASSUME BackendInv, NEW i \in Backends, NEW p \in {"healthy", "exited"}, Becomes(i, p),
         Alive(i), UNCHANGED <<session, child, pidFile, start, ghostVars>>
  PROVE  BackendInv'
<1>1. /\ backend' \in Seq([session : UserSession..session,
                            phase : {"booting", "healthy", "exited", "seen"}])
      /\ Backends' = Backends
      /\ backend'[i].phase = p
      /\ \A j \in Backends : backend'[j].session = backend[j].session
      /\ \A j \in Backends : j # i => backend'[j] = backend[j]
  BY BecomesKeeps DEF BackendInv
<1>2. \A j \in Backends : Alive(j)' => Alive(j)
  BY <1>1 DEF Alive
<1>3. TypeOK'
  BY <1>1 DEF BackendInv, TypeOK, ghostVars
<1>4. NoBackendLeaks'
  BY <1>1, <1>2 DEF BackendInv, NoBackendLeaks, ghostVars
<1>5. PidFileIsOwn'
  BY DEF BackendInv, PidFileIsOwn
<1>6. AwaitedIsReaped'
  BY <1>2, StaysReaped DEF BackendInv, TypeOK, ghostVars, Backends, Alive
<1> QED
  BY <1>3, <1>4, <1>5, <1>6 DEF BackendInv

LEMMA ExitSeenHolds == ASSUME BackendInv, NEW i \in Backends, ExitSeen(i) PROVE BackendInv'
<1>1. /\ backend' \in Seq([session : UserSession..session,
                            phase : {"booting", "healthy", "exited", "seen"}])
      /\ Backends' = Backends
      /\ backend'[i].phase = "seen"
      /\ \A j \in Backends : backend'[j].session = backend[j].session
      /\ \A j \in Backends : j # i => backend'[j] = backend[j]
  BY BecomesKeeps DEF ExitSeen, BackendInv
<1>2. \A j \in Backends : Alive(j)' => Alive(j) /\ j # i
  BY <1>1 DEF Alive
<1>3. /\ pidFile' = None
      /\ erased' = IF Alive(pidFile) /\ pidFile # i THEN erased \union {pidFile} ELSE erased
      /\ child' = IF child = i THEN None ELSE child
      /\ UNCHANGED <<session, start, signalled, awaited>>
  BY DEF ExitSeen, Forgotten
<1>4. erased \subseteq erased' /\ erased' \subseteq Backends
  BY <1>3 DEF BackendInv, TypeOK, Alive
<1>5. TypeOK'
  BY <1>1, <1>3, <1>4 DEF BackendInv, TypeOK
<1>6. NoBackendLeaks'
  <2> SUFFICES ASSUME NEW j \in Backends, Alive(j), j # i, backend[j].session # UserSession
               PROVE  /\ j \in {pidFile'} \union signalled \union erased'
                      /\ backend[j].session = session => j \in {child'} \union signalled
    BY <1>1, <1>2, <1>3 DEF NoBackendLeaks
  <2>1. /\ j \in {pidFile} \union signalled \union erased
        /\ backend[j].session = session => j \in {child} \union signalled
    BY DEF BackendInv, NoBackendLeaks
  <2>2. j = pidFile => j \in erased'
    BY <1>3
  <2> QED
    BY <2>1, <2>2, <1>3, <1>4
<1>7. PidFileIsOwn'
  BY <1>3 DEF PidFileIsOwn
<1>8. AwaitedIsReaped'
  BY <1>2, <1>3, StaysReaped DEF BackendInv, TypeOK
<1> QED
  BY <1>5, <1>6, <1>7, <1>8 DEF BackendInv

LEMMA UserStartsHolds == ASSUME BackendInv, UserStarts PROVE BackendInv'
<1> DEFINE new == Len(backend) + 1
<1>1. Spawned(UserSession) /\ UNCHANGED <<session, child, pidFile, start, signalled, awaited, erased>>
  BY DEF UserStarts, ghostVars
<1>2. UserSession \in UserSession..session
  BY DEF BackendInv, TypeOK, UserSession
<1>3. /\ backend' \in Seq([session : UserSession..session,
                            phase : {"booting", "healthy", "exited", "seen"}])
      /\ Len(backend) \in Nat /\ Backends' = 1..new
      /\ Backends = 1..Len(backend)
      /\ backend'[new] = [session |-> UserSession, phase |-> "booting"]
      /\ \A i \in Backends : backend'[i] = backend[i]
  BY <1>1, <1>2, SpawnedGrows DEF BackendInv
<1>4. Backends' = Backends \union {new}
  BY <1>3
<1> HIDE DEF new
<1>5. TypeOK'
  BY <1>1, <1>3, <1>4 DEF BackendInv, TypeOK
<1>6. NoBackendLeaks'
  <2> SUFFICES ASSUME NEW j \in Backends', Alive(j)', backend'[j].session # UserSession
               PROVE  /\ j \in {pidFile} \union signalled \union erased
                      /\ backend'[j].session = session => j \in {child} \union signalled
    BY <1>1 DEF NoBackendLeaks
  <2>1. j \in Backends
    BY <1>3, <1>4
  <2>2. backend'[j] = backend[j] /\ Alive(j)
    BY <2>1, <1>3 DEF Alive
  <2> QED
    BY <2>1, <2>2 DEF BackendInv, NoBackendLeaks
<1>7. PidFileIsOwn'
  BY <1>1 DEF BackendInv, PidFileIsOwn
<1>8. AwaitedIsReaped'
  <2>1. \A j \in awaited : Alive(j)' => Alive(j)
    BY <1>3 DEF BackendInv, TypeOK, Alive
  <2> QED
    BY <2>1, <1>1, StaysReaped DEF BackendInv
<1> QED
  BY <1>5, <1>6, <1>7, <1>8 DEF BackendInv

LEMMA StopHolds == ASSUME BackendInv, Stop PROVE BackendInv'
<1>1. /\ pidFile' = None /\ child' = None
      /\ signalled' = signalled \union ({child} \ {None})
      /\ erased' = IF Alive(pidFile) /\ pidFile # child THEN erased \union {pidFile} ELSE erased
      /\ UNCHANGED <<session, start, backend, awaited>>
  BY DEF Stop, Forgotten
<1>2. Backends' = Backends /\ \A j : Alive(j)' <=> Alive(j)
  BY <1>1 DEF Backends, Alive
<1>3. /\ signalled' \subseteq Backends /\ erased' \subseteq Backends
      /\ signalled \subseteq signalled' /\ erased \subseteq erased'
  BY <1>1 DEF BackendInv, TypeOK, Alive
<1>4. TypeOK'
  BY <1>1, <1>2, <1>3 DEF BackendInv, TypeOK
<1>5. NoBackendLeaks'
  <2> SUFFICES ASSUME NEW j \in Backends, Alive(j), backend[j].session # UserSession
               PROVE  /\ j \in {None} \union signalled' \union erased'
                      /\ backend[j].session = session => j \in {None} \union signalled'
    BY <1>1, <1>2 DEF NoBackendLeaks
  <2>1. /\ j \in {pidFile} \union signalled \union erased
        /\ backend[j].session = session => j \in {child} \union signalled
    BY DEF BackendInv, NoBackendLeaks
  <2>2. j = pidFile => j \in signalled' \union erased' \union {None}
    BY <1>1
  <2> QED
    BY <2>1, <2>2, <1>1, <1>3
<1>6. PidFileIsOwn'
  BY <1>1 DEF PidFileIsOwn
<1>7. AwaitedIsReaped'
  BY <1>1, <1>2, StaysReaped DEF BackendInv
<1> QED
  BY <1>4, <1>5, <1>6, <1>7 DEF BackendInv

LEMMA RestartHolds == ASSUME BackendInv, Restart PROVE BackendInv'
<1>1. /\ session' = session + 1 /\ child' = None
      /\ start' = [c \in Callers |-> Idle]
      /\ awaited' = {} /\ UNCHANGED <<pidFile, backend, signalled, erased>>
  BY DEF Restart
<1>2. Backends' = Backends /\ \A j : Alive(j)' <=> Alive(j)
  BY <1>1 DEF Backends, Alive
<1>3. session \in Nat \ {0} /\ session' \in Nat \ {0}
  BY <1>1 DEF BackendInv, TypeOK
<1>4. \A j \in Backends : backend[j].session \in UserSession..session
  <2> DEFINE R == [session : UserSession..session,
                   phase : {"booting", "healthy", "exited", "seen"}]
  <2>1. backend \in Seq(R)
    BY DEF BackendInv, TypeOK
  <2> HIDE DEF R
  <2>2. \A j \in 1..Len(backend) : backend[j] \in R
    BY <2>1
  <2> QED
    BY <2>2 DEF R, Backends
<1>5. backend \in Seq([session : UserSession..session',
                       phase : {"booting", "healthy", "exited", "seen"}])
  <2> DEFINE R == [session : UserSession..session,
                   phase : {"booting", "healthy", "exited", "seen"}]
             S == [session : UserSession..session',
                   phase : {"booting", "healthy", "exited", "seen"}]
  <2>1. backend \in Seq(R)
    BY DEF BackendInv, TypeOK
  <2>2. R \subseteq S
    BY <1>1, <1>3 DEF UserSession
  <2> HIDE DEF R, S
  <2>3. backend \in Seq(S)
    BY <2>1, <2>2
  <2> QED
    BY <2>3 DEF S
<1>6. TypeOK'
  BY <1>1, <1>2, <1>3, <1>5 DEF BackendInv, TypeOK, Idle
<1>7. NoBackendLeaks'
  <2> SUFFICES ASSUME NEW j \in Backends, Alive(j), backend[j].session # UserSession
               PROVE  /\ j \in {pidFile} \union signalled \union erased
                      /\ backend[j].session # session + 1
    BY <1>1, <1>2 DEF NoBackendLeaks
  <2>1. backend[j].session # session + 1
    BY <1>3, <1>4 DEF UserSession
  <2> QED
    BY <2>1 DEF BackendInv, NoBackendLeaks
<1>8. PidFileIsOwn' /\ AwaitedIsReaped'
  BY <1>1 DEF PidFileIsOwn, AwaitedIsReaped, Idle
<1> QED
  BY <1>6, <1>7, <1>8 DEF BackendInv

\* Every step keeps the invariant.
LEMMA StepHolds == BackendInv /\ [Next]_vars => BackendInv'
<1> SUFFICES ASSUME BackendInv, [Next]_vars PROVE BackendInv'
  OBVIOUS
<1>1. ASSUME NEW c \in Callers, Start(c) PROVE BackendInv'
  BY <1>1, StartHolds
<1>2. ASSUME NEW c \in Callers, Reaped(c) PROVE BackendInv'
  BY <1>2, StartMoves DEF Reaped, Phases, ghostVars
<1>10. ASSUME NEW c \in Callers, Outlived(c) PROVE BackendInv'
  BY <1>10, StartMoves DEF Outlived, Phases
<1>3. ASSUME NEW c \in Callers, Probe(c) PROVE BackendInv'
  BY <1>3, FindHolds DEF Probe
<1>4. ASSUME NEW c \in Callers, Decide(c) PROVE BackendInv'
  BY <1>4, DecideHolds
<1>5. ASSUME NEW c \in Callers, Wait(c) PROVE BackendInv'
  BY <1>5, FindHolds DEF Wait
<1>6. ASSUME NEW i \in Backends, Boots(i) PROVE BackendInv'
  BY <1>6, PhaseHolds DEF Boots, Alive
<1>7. ASSUME NEW i \in Backends, Exits(i) PROVE BackendInv'
  BY <1>7, PhaseHolds DEF Exits
<1>8. ASSUME NEW i \in Backends, ExitSeen(i) PROVE BackendInv'
  BY <1>8, ExitSeenHolds
<1>9. CASE UNCHANGED vars
  BY <1>9 DEF vars, ghostVars, BackendInv, TypeOK, NoBackendLeaks, PidFileIsOwn,
              AwaitedIsReaped, Reaping, Alive, Backends
<1> QED
  BY <1>1, <1>2, <1>3, <1>4, <1>5, <1>6, <1>7, <1>8, <1>9, <1>10,
     UserStartsHolds, StopHolds, RestartHolds DEF Next

LEMMA BackendInductive == Spec => []BackendInv
  BY BackendInit, StepHolds, PTL DEF Spec

\* A backend that a step newly names for a start, unless to wait for its end,
\* is one that a start may take up.
LEMMA TakesUpFresh ==
  ASSUME BackendInv, Next, NEW c \in Callers,
         start'[c].backend \notin {None, start[c].backend}, start'[c].phase # "reaping"
  PROVE  MayAnswer(start'[c].backend)
<1>1. start'[c] # start[c]
  OBVIOUS
<1>2. \A d \in Callers, p \in Phases, i \in Backends \union {None} :
        To(d, p, i) => d = c /\ start'[c] = [phase |-> p, backend |-> i]
  BY <1>1, ToChanges DEF BackendInv
<1>3. ASSUME NEW d \in Callers, start[d].phase \in {"probing", "waiting"},
             NEW p \in {"deciding", "answered"}, NEW i \in Answers, To(d, p, i)
      PROVE  MayAnswer(start'[c].backend)
  <2>1. i \in Backends \union {None}
    BY DEF Answers, Healthy
  <2>2. d = c /\ start'[c] = [phase |-> p, backend |-> i]
    BY <1>2, <1>3, <2>1 DEF Phases
  <2>3. i \in Healthy
    BY <2>2 DEF Answers
  <2> QED
    BY <1>3, <2>2, <2>3, HealthyMayAnswer
<1>4. ASSUME NEW d \in Callers, Probe(d) \/ Wait(d) PROVE MayAnswer(start'[c].backend)
  BY <1>3, <1>4 DEF Probe, Wait
<1>5. ASSUME NEW d \in Callers, Start(d) \/ Reaped(d) \/ Outlived(d) PROVE FALSE
  <2>1. PICK p \in {"reaping", "probing"}, i \in Backends \union {None} :
          To(d, p, i) /\ (p = "probing" => i = None)
    BY <1>5 DEF Start, Reaped, Outlived, BackendInv, TypeOK
  <2>2. p \in Phases
    BY DEF Phases
  <2>3. start'[c] = [phase |-> p, backend |-> i]
    BY <2>1, <2>2, <1>2
  <2> QED
    BY <2>1, <2>3
<1>6. ASSUME NEW d \in Callers, Decide(d) PROVE FALSE
  <2>1. start[d].backend \in Backends \union {None}
    BY DEF BackendInv, TypeOK
  <2>2. To(d, "answered", start[d].backend) \/ To(d, "waiting", None)
    BY <1>6 DEF Decide
  <2>3. "answered" \in Phases /\ "waiting" \in Phases
    BY DEF Phases
  <2>4. CASE To(d, "answered", start[d].backend)
    <3>1. d = c /\ start'[c] = [phase |-> "answered", backend |-> start[d].backend]
      BY <1>2, <2>1, <2>3, <2>4
    <3> QED
      BY <3>1
  <2>5. CASE To(d, "waiting", None)
    <3>1. start'[c] = [phase |-> "waiting", backend |-> None]
      BY <1>2, <2>3, <2>5
    <3> QED
      BY <3>1
  <2> QED
    BY <2>2, <2>4, <2>5
<1>7. ~UNCHANGED start /\ ~Restart
  BY DEF Restart, Idle
<1> QED
  BY <1>4, <1>5, <1>6, <1>7
     DEF Next, Boots, Exits, ExitSeen, UserStarts, Stop, vars

-----------------------------------------------------------------------------
(* Theorems *)

\* The child and the pid file always name backends the app started
\* (main/backend.ts: child, the pid file).
THEOREM BackendTypes == Spec => []TypeOK
<1>1. BackendInv => TypeOK
  BY DEF BackendInv
<1> QED
  BY <1>1, BackendInductive, PTL

\* The app loses sight of no backend it started, however starts, stops, exits
\* and restarts interleave (main/backend.ts: startLocalBackend rechecks the
\* child after every wait).
THEOREM BackendsAreKnown == Spec => []NoBackendLeaks
<1>1. BackendInv => NoBackendLeaks
  BY DEF BackendInv
<1> QED
  BY <1>1, BackendInductive, PTL

\* No start takes up a backend that an earlier session of the app left behind
\* and a start of this one could find and end: it is waited out before any look
\* at the port (main/backend.ts: reapOrphan, startLocalBackend).
THEOREM AnswersAreFresh == Spec => NoStaleBackend
<1> DEFINE Fresh == \A c \in Callers :
                      LET i == start'[c].backend
                      IN  i \notin {None, start[c].backend} /\ start'[c].phase # "reaping" =>
                            MayAnswer(i)
<1>1. BackendInv /\ [Next]_vars => [Fresh]_vars
  BY TakesUpFresh
<1> QED
  BY <1>1, BackendInductive, PTL DEF Spec, NoStaleBackend
=============================================================================
