---------------------------- MODULE DesktopConnection ----------------------------
(***************************************************************************)
(* The connection of the desktop app to one backend.  The Electron main    *)
(* process keeps the authoritative session snapshot and starts the local   *)
(* backend (main/connectionSession.ts).  Each window's renderer runs the   *)
(* connection attempts and holds the credential its requests carry         *)
(* (lib/connection.ts, lib/api/client.ts).  One window owns the session;   *)
(* the others follow it and may only report that a credential was refused. *)
(*                                                                         *)
(* A call of a renderer to the main process is synchronous, so it is one   *)
(* step with the code around it.  What is not synchronous is a step of its *)
(* own: a snapshot sent to a window, an answer of a backend, the local     *)
(* startup, a navigation.                                                  *)
(***************************************************************************)
EXTENDS Integers, Sequences, FiniteSets

CONSTANTS Window,      \* the windows of the app
          Main,        \* the one that owns the connection
          Local,       \* the origin of the backend on this machine
          Remote,      \* origins of other backends
          NoOrigin,    \* no origin
          Bounds       \* the bounds of the runs considered: how often the user asks, windows
                       \* leave, devices are revoked, something times out, a session is
                       \* remembered and the app restarts

Bound == [{"asks", "leaves", "revokes", "faults", "saves", "restarts"} -> Nat]

ASSUME ConnectionAssumption ==
    /\ Main \in Window
    /\ Local \notin Remote
    /\ NoOrigin \notin Remote \cup {Local}
    /\ Bounds \subseteq Bound

Origin  == Remote \cup {Local}
NoToken == [url |-> NoOrigin, n |-> 0]
Token   == [url : Origin, n : Nat \ {0}] \cup {NoToken}

VARIABLES
    valid,      \* valid[o]: the credential backend o accepts from this device, 0 if none
    issued,     \* issued[o]: credentials backend o has issued to it
    late,       \* late[o]: whether an abandoned registration may still reach, or reached, backend o
    snap,       \* the authoritative snapshot
    gen,        \* localGeneration
    flight,     \* localFlight: the generation of the local startup main waits for, 0 if none
    flights,    \* the local startups that are running, and the settled one main knows
    calls,      \* the local() calls of the owner that have not returned
    open,       \* open[w]: the window's document is loaded and has read the snapshot
    document,   \* the owner window's current document
    box,        \* box[w]: what the main process sent to window w
    win,        \* win[w]: the state of window w's renderer
    posts,      \* registrations the owner's renderer has in flight
    stored,     \* stored[o]: the remembered credential (localStorage)
    pref,       \* the launch preference
    asked,      \* ghost: how many times the user asked for a connection or its end
    served,     \* ghost: the request the session in force answers, 0 if none
    refused,    \* ghost: the credentials a backend has refused
    left        \* what remains of the bound of this run

backendVars == <<valid, issued, late>>
mainVars    == <<snap, gen, flight, flights, calls>>
diskVars    == <<stored, pref>>
ghostVars   == <<asked, served>>
vars == <<valid, issued, late, snap, gen, flight, flights, calls, open, document, box, win,
          posts, stored, pref, asked, served, refused, left>>

(***************************************************************************)
(* The authoritative snapshot and the operations of the main process on it *)
(***************************************************************************)
Snapshot == [rev : Nat, phase : {"initial", "pending", "connected", "blocked"},
             url : Origin \cup {NoOrigin}, token : Token, rem : BOOLEAN, localPending : BOOLEAN]

Initial == [rev |-> 0, phase |-> "initial", url |-> NoOrigin, token |-> NoToken,
            rem |-> FALSE, localPending |-> FALSE]

\* begin: a new attempt of the owner; a local startup under way is kept for the same origin.
KeepsLocal(url) == snap.localPending /\ url = Local
Begun(url) == [rev |-> snap.rev + 1, phase |-> "pending", url |-> url, token |-> NoToken,
               rem |-> FALSE, localPending |-> KeepsLocal(url)]
BegunGen(url) == IF KeepsLocal(url) THEN gen ELSE gen + 1

\* clear: no session any more, and any local startup is cancelled.
Cleared == [rev |-> snap.rev + 1, phase |-> "blocked", url |-> snap.url, token |-> NoToken,
            rem |-> FALSE, localPending |-> FALSE]

\* commit is accepted only for the attempt the snapshot stands for.
CommitAccepted(rev, url) == /\ rev = snap.rev
                            /\ snap.phase \in {"pending", "connected"}
                            /\ url = snap.url
Committed(token, rem) == [rev |-> snap.rev + 1, phase |-> "connected", url |-> snap.url,
                          token |-> token, rem |-> rem, localPending |-> FALSE]

\* Mutant: the refusal is not tied to the session it was reported under.
RejectAccepted_AnySession(rev) == snap.phase = "connected"

\* reject: any window may end the session it was refused under, and only that one.
RejectAccepted(rev) == rev = snap.rev /\ snap.phase = "connected"

\* change: every window but the caller is told, if its document has read the snapshot.
Deliver(b, sn, told) ==
    [w \in Window |-> IF open[w] /\ w \in told
                      THEN Append(b[w], [kind |-> "snapshot", snap |-> sn]) ELSE b[w]]

\* A local startup, by its generation.
Startup == [gen : Nat \ {0}, st : {"start", "health", "post", "posted", "ok", "failed"},
            token : Token]
Settled(g) == \A f \in flights : f.gen = g => f.st \in {"ok", "failed"}
\* flight.settled at a commit: a startup that has settled is forgotten.
FlightForgotten ==
    /\ flight' = IF Settled(flight) THEN 0 ELSE flight
    /\ flights' = IF Settled(flight) THEN {f \in flights : f.gen # flight} ELSE flights

(***************************************************************************)
(* A renderer                                                              *)
(***************************************************************************)
Step == {"off", "probe", "health", "access", "restoreHealth", "restoreAccess", "queue", "posting",
         "pair", "verify", "starting", "local", "live"}

NoAttempt == [pc |-> "off", url |-> NoOrigin, born |-> 0, rev |-> 0, cand |-> NoToken,
              rem |-> FALSE, ans |-> "none", want |-> 0]

Blank == [auth |-> Initial, att |-> NoAttempt, status |-> "checking", api |-> NoToken,
          bad |-> FALSE]

\* Mutant: an answer is taken by whatever attempt the window now makes.
Current_AnyAttempt(w, born) == win[w].att.pc # "off" /\ win[w].auth.rev = win[w].att.rev

\* current(value): this is still the attempt of the window, and of the session it knows.
Current(w, born) == /\ win[w].att.pc # "off"
                    /\ win[w].att.born = born
                    /\ win[w].auth.rev = win[w].att.rev

At(w, pc) == open[w] /\ win[w].att.pc = pc /\ Current(w, win[w].att.born)

\* invalidate: the attempt, the credential and every request that carries it are dropped.
Invalidated(x) == [x EXCEPT !.att = NoAttempt, !.api = NoToken, !.bad = FALSE]

Attempting(x, sn, url, pc, cand, rem, want) ==
    [Invalidated(x) EXCEPT
        !.auth = sn, !.status = "checking",
        !.att = [pc |-> pc, url |-> url, born |-> sn.rev, rev |-> sn.rev, cand |-> cand,
                 rem |-> rem, ans |-> "none", want |-> want]]

\* begin(url) of the owner, as the whole of a step that starts from mailbox b.
Begin(url, pc, cand, rem, want, b) ==
    /\ snap' = Begun(url)
    /\ gen' = BegunGen(url)
    /\ box' = Deliver(b, snap', Window \ {Main})
    /\ win' = [win EXCEPT ![Main] = Attempting(@, snap', url, pc, cand, rem, want)]
    /\ served' = 0

\* block: the owner clears the session; another window reports the one it was refused under.
Block(w, b) ==
    LET ends == w = Main \/ (win[w].auth.phase = "connected" /\ RejectAccepted(win[w].auth.rev))
        told == IF w = Main THEN Window \ {Main} ELSE Window
    IN  /\ snap' = IF ends THEN Cleared ELSE snap
        /\ gen' = IF ends THEN gen + 1 ELSE gen
        /\ served' = IF ends THEN 0 ELSE served
        /\ box' = IF ends THEN Deliver(b, snap', told) ELSE b
        /\ win' = [win EXCEPT ![w] = [Invalidated(@) EXCEPT
                      !.status = "disconnected",
                      !.auth = IF w = Main \/ win[w].auth.phase = "connected"
                               THEN snap' ELSE win[w].auth]]
        /\ pref' = IF w = Main THEN NoOrigin ELSE pref
        /\ UNCHANGED <<flight, flights>>

\* activate: the owner commits the candidate, then the window uses it.
Activate(w, cand, rem, want, b) ==
    LET x == win[w] IN
    IF w # Main
    THEN /\ win' = [win EXCEPT ![w].att.pc = "live", ![w].att.ans = "none",
                               ![w].api = cand, ![w].status = "connected", ![w].bad = FALSE]
         /\ box' = b
         /\ UNCHANGED <<snap, gen, flight, flights, served, pref>>
    ELSE IF CommitAccepted(x.att.rev, cand.url)
    THEN /\ snap' = Committed(cand, rem)
         /\ FlightForgotten
         /\ box' = Deliver(b, snap', Window \ {Main})
         /\ win' = [win EXCEPT ![Main] =
                      [x EXCEPT !.auth = snap', !.api = cand, !.status = "connected", !.bad = FALSE,
                                !.att.rev = snap'.rev, !.att.cand = cand, !.att.rem = rem,
                                !.att.pc = "live", !.att.ans = "none"]]
         /\ pref' = IF cand.url = Local THEN Local ELSE IF rem THEN cand.url ELSE NoOrigin
         /\ served' = want
         /\ UNCHANGED gen
    ELSE Block(Main, b)

(***************************************************************************)
(* The user, in the owner window                                           *)
(***************************************************************************)
Spend(what) == left[what] > 0 /\ left' = [left EXCEPT ![what] = @ - 1]

\* Mutant: the credential in memory is used for any backend.
Saved_AnyOrigin(o) == IF win[Main].api # NoToken THEN win[Main].api ELSE stored[o]

\* The credential in memory for the window's backend, else the remembered one.
Saved(o) == IF win[Main].api.url = o THEN win[Main].api ELSE stored[o]
SavedIsRemembered(o) ==
    IF win[Main].api.url = o
    THEN win[Main].auth.token = win[Main].api /\ win[Main].auth.rem
    ELSE stored[o] # NoToken

\* connectRemote with an invitation registers at once, otherwise it probes the backend first.
ConnectRemote(o, invited) ==
    /\ open[Main] /\ Spend("asks")
    /\ asked' = asked + 1
    /\ IF invited THEN Begin(o, "queue", NoToken, FALSE, asked', box)
                  ELSE Begin(o, "health", Saved(o), SavedIsRemembered(o), asked', box)
    /\ pref' = NoOrigin
    /\ UNCHANGED <<backendVars, flight, flights, calls, open, document, posts, stored, refused>>

\* startLocal: with a credential in memory the backend is only started, else main issues one.
StartsLocal(want, b) ==
    LET cached == IF win[Main].api.url = Local THEN win[Main].api ELSE NoToken IN
    /\ Begin(Local, IF cached = NoToken THEN "local" ELSE "starting", cached, FALSE, want, b)
    /\ calls' = IF cached = NoToken
                THEN calls \cup {[doc |-> document, rev |-> snap'.rev, gen |-> 0,
                                  st |-> "sent", want |-> want]}
                ELSE calls
    /\ pref' = NoOrigin

StartLocal ==
    /\ open[Main] /\ Spend("asks")
    /\ asked' = asked + 1
    /\ StartsLocal(asked', box)
    /\ UNCHANGED <<backendVars, flight, flights, open, document, posts, stored, refused>>

Disconnect ==
    /\ open[Main] /\ Spend("asks")
    /\ asked' = asked + 1
    /\ Block(Main, box)
    /\ UNCHANGED <<backendVars, calls, open, document, posts, stored, refused>>

\* rememberConnection: the credential in use is saved and the session committed as remembered.
Remember ==
    LET x == win[Main] IN
    /\ At(Main, "live") /\ x.status = "connected" /\ x.api.url \in Remote /\ Spend("saves")
    /\ snap.rev = x.att.rev
    /\ stored' = [stored EXCEPT ![x.api.url] = x.api]
    /\ snap' = Committed(x.api, TRUE)
    /\ FlightForgotten
    /\ box' = Deliver(box, snap', Window \ {Main})
    /\ win' = [win EXCEPT ![Main].auth = snap', ![Main].att.rev = snap'.rev, ![Main].att.rem = TRUE]
    /\ pref' = x.api.url
    /\ UNCHANGED <<backendVars, gen, calls, open, document, posts, asked, served, refused>>

(***************************************************************************)
(* An attempt                                                              *)
(***************************************************************************)
Goes(w, pc) == win' = [win EXCEPT ![w].att.pc = pc, ![w].att.ans = "none"]
attemptFrame == <<calls, open, document, posts, stored, asked, left>>
onlyWin == <<backendVars, mainVars, box, diskVars, served, refused, attemptFrame>>

\* The backend answers /health: with a credential it is checked, without one the device is
\* registered for approval, or, when a saved connection is restored, the attempt ends.
HealthAnswered(w) ==
    \/ /\ At(w, "health")
       /\ win' = [win EXCEPT ![w].att.pc = IF win[w].att.cand = NoToken
                                           THEN "pair" ELSE "access",
                             ![w].status = IF win[w].att.cand = NoToken
                                           THEN "pending_approval" ELSE @]
       /\ UNCHANGED onlyWin
    \/ /\ At(w, "restoreHealth") /\ stored[win[w].att.url] # NoToken
       /\ win' = [win EXCEPT ![w].att.pc = "restoreAccess",
                             ![w].att.cand = stored[win[w].att.url]]
       /\ UNCHANGED onlyWin
    \/ /\ \/ At(w, "probe")
          \/ At(w, "restoreHealth") /\ stored[win[w].att.url] = NoToken
       /\ Block(w, box)
       /\ UNCHANGED <<backendVars, refused, attemptFrame>>

\* The backend checks the candidate (/v1/auth/check); the answer is on its way.
AccessAnswered(w) ==
    LET a == win[w].att
        ok == valid[a.cand.url] = a.cand.n
    IN
    /\ \E pc \in {"access", "restoreAccess", "verify"} : At(w, pc)
    /\ a.ans = "none"
    /\ win' = [win EXCEPT ![w].att.ans = IF ok THEN "ok" ELSE "denied"]
    /\ refused' = IF ok THEN refused ELSE refused \cup {a.cand}
    /\ UNCHANGED <<backendVars, mainVars, box, diskVars, served, attemptFrame>>

AccessHandled(w) ==
    LET a == win[w].att IN
    /\ \E pc \in {"access", "restoreAccess", "verify"} : At(w, pc)
    /\ \/ a.ans = "ok" /\ Activate(w, a.cand, a.rem, a.want, box)
       \/ a.ans = "denied" /\ Block(w, box)
    /\ UNCHANGED <<backendVars, stored, asked, left, refused, calls, open, document, posts>>

\* Mutant: a verification that could not be answered is not tried again.
Retried_Never(pc) == IF pc = "verify" THEN "off" ELSE "restoreHealth"

\* Where an attempt begins again: a restored session with the backend's health.
Retried(pc) == IF pc = "verify" THEN pc ELSE "restoreHealth"

\* A probe fails for a reason that may pass: a restored or a verified session is tried again,
\* a new attempt ends.
ProbeLost(w) ==
    /\ Spend("faults")
    /\ \/ /\ \E pc \in {"restoreHealth", "restoreAccess", "verify"} :
                 At(w, pc) /\ win' = [win EXCEPT
                     ![w].att.pc = Retried(pc),
                     ![w].att.ans = "none",
                     ![w].status = IF pc = "restoreAccess" THEN @ ELSE "disconnected"]
          /\ UNCHANGED <<snap, gen, flight, flights, served, box, pref>>
       \/ /\ \E pc \in {"probe", "health", "access", "starting"} : At(w, pc)
          /\ Block(w, box)
    /\ UNCHANGED <<backendVars, stored, asked, refused, calls, open, document, posts>>

\* startLocalBackend returns for an attempt that already has a credential.
Started == At(Main, "starting") /\ Goes(Main, "verify") /\ UNCHANGED onlyWin

\* Mutant: a registration does not wait for the one before it.
IssuanceFree_Always == TRUE

\* serialized: registrations of a document are sent one after the other, and are not aborted
\* with the attempt that sent them.
IssuanceFree == posts = {}

\* register(invitation).
SendRegister ==
    LET a == win[Main].att IN
    /\ At(Main, "queue") /\ IssuanceFree
    /\ posts' = posts \cup {[born |-> a.born, url |-> a.url, st |-> "sent", token |-> NoToken, want |-> a.want]}
    /\ Goes(Main, "posting")
    /\ UNCHANGED <<backendVars, mainVars, box, diskVars, served, refused, calls, open, document,
                   asked, left>>

\* A new credential of the device replaces the one it had.
Issue(o) == /\ issued' = [issued EXCEPT ![o] = @ + 1]
            /\ valid' = [valid EXCEPT ![o] = issued'[o]]

\* The backend approves the device and issues a credential, or asks for an approval.
ServerRegisters(p) ==
    /\ p.st = "sent"
    /\ \/ /\ Issue(p.url)
          /\ posts' = (posts \ {p}) \cup {[p EXCEPT !.st = "issued",
                                            !.token = [url |-> p.url, n |-> issued'[p.url]]]}
       \/ posts' = (posts \ {p}) \cup {[p EXCEPT !.st = "approval"]} /\ UNCHANGED <<valid, issued>>
    /\ UNCHANGED <<late, mainVars, box, diskVars, served, refused, calls, open, document, win,
                   asked, left>>

RegisterAnswered(p) ==
    LET a == win[Main].att IN
    /\ p.st # "sent"
    /\ posts' = posts \ {p}
    /\ IF ~ Current(Main, p.born) THEN UNCHANGED win
       ELSE win' = [win EXCEPT
              ![Main].att.pc = IF p.st = "issued" THEN "verify" ELSE "pair",
              ![Main].att.ans = "none",
              ![Main].att.cand = p.token, ![Main].att.want = p.want,
              ![Main].status = IF p.st = "issued" THEN @ ELSE "pending_approval"]
    /\ UNCHANGED <<backendVars, mainVars, box, diskVars, served, refused, calls, open, document,
                   asked, left>>

\* The request times out; the backend may still process it.
RegisterTimesOut(p) ==
    /\ p.st = "sent" /\ Spend("faults")
    /\ posts' = posts \ {p}
    /\ \E reaches \in {late[p.url], "may"} : late' = [late EXCEPT ![p.url] = reaches]
    /\ IF Current(Main, p.born) THEN Block(Main, box)
       ELSE UNCHANGED <<win, snap, gen, flight, flights, box, pref, served>>
    /\ UNCHANGED <<valid, issued, stored, asked, refused, calls, open, document>>

LateRegister(o) ==
    /\ late[o] = "may" /\ Issue(o)
    /\ late' = [late EXCEPT ![o] = "did"]
    /\ UNCHANGED <<mainVars, box, diskVars, served, refused, attemptFrame, win>>

(* Pairing: the device polls until someone approves it; the poll that finds it approved issues. *)
PairingClaimed(w) ==
    LET o == win[w].att.url IN
    /\ At(w, "pair") /\ win[w].att.ans = "none"
    /\ Issue(o)
    /\ win' = [win EXCEPT ![w].att.ans = "ok", ![w].att.cand = [url |-> o, n |-> issued'[o]]]
    /\ UNCHANGED <<late, mainVars, box, diskVars, served, refused, attemptFrame>>

PairingHandled(w) ==
    /\ At(w, "pair")
    /\ \/ /\ win[w].att.ans = "ok" /\ Goes(w, "verify")
          /\ UNCHANGED onlyWin
       \/ /\ win[w].att.ans = "none" /\ Block(w, box)   \* rejected or expired
          /\ UNCHANGED <<backendVars, refused, attemptFrame>>

(***************************************************************************)
(* The session in use                                                      *)
(***************************************************************************)
\* An API request is answered 401 for the credential the window uses.
ApiRefused(w) ==
    LET t == win[w].api IN
    /\ open[w] /\ win[w].status \in {"connected", "reconnecting"} /\ t # NoToken /\ ~ win[w].bad
    /\ valid[t.url] # t.n
    /\ win' = [win EXCEPT ![w].bad = TRUE]
    /\ refused' = refused \cup {t}
    /\ UNCHANGED <<backendVars, mainVars, box, diskVars, served, attemptFrame>>

ApiHandled(w) ==
    /\ open[w] /\ win[w].bad
    /\ Block(w, box)
    /\ UNCHANGED <<backendVars, refused, attemptFrame>>

\* schedulePoll: one missed probe is tolerated, a second shows, a refusal ends the session.
PollMissed ==
    /\ At(Main, "live") /\ Spend("faults")
    /\ win' = [win EXCEPT ![Main].att.ans = "missed",
                          ![Main].status = IF win[Main].att.ans = "missed" THEN "reconnecting" ELSE @]
    /\ UNCHANGED <<backendVars, mainVars, box, diskVars, served, refused, calls, open, document,
                   posts, asked>>

PollAnswered ==
    LET x == win[Main] IN
    /\ At(Main, "live")
    /\ \/ /\ valid[x.att.cand.url] = x.att.cand.n /\ x.att.ans = "missed"
          /\ win' = [win EXCEPT ![Main].att.ans = "none", ![Main].status = "connected"]
          /\ UNCHANGED <<mainVars, box, pref, served, refused>>
       \/ /\ valid[x.att.cand.url] # x.att.cand.n
          /\ refused' = refused \cup {x.att.cand}
          /\ Block(Main, box)
          /\ UNCHANGED calls
    /\ UNCHANGED <<backendVars, stored, open, document, posts, asked, left>>

(***************************************************************************)
(* The local startup in the main process                                   *)
(***************************************************************************)
LocalReply(b, c, token) ==
    IF open[Main] /\ c.doc = document
    THEN [b EXCEPT ![Main] = Append(@, [kind |-> "local", born |-> c.rev, token |-> token,
                                        want |-> c.want])]
    ELSE b

FromOwner(c) == open[Main] /\ c.doc = document

\* Mutant: a startup of an older generation is not waited for.
OlderStartup_Ignored == FALSE

\* localFlight && localFlight.generation !== generation
OlderStartup == flight \notin {0, gen}

\* The call joins the startup of generation g, begun now if there is none.
Joins(c, g) ==
    /\ calls' = (calls \ {c}) \cup {[c EXCEPT !.gen = g, !.st = "joined"]}
    /\ flight' = g
    /\ flights' = IF \E f \in flights : f.gen = g THEN flights
                  ELSE {f \in flights : ~ Settled(f.gen)}
                       \cup {[gen |-> g, st |-> "start", token |-> NoToken]}

Refused(c) == /\ calls' = calls \ {c}
              /\ box' = LocalReply(box, c, NoToken)
              /\ UNCHANGED <<flight, flights>>

\* local(): the call joins the startup of its generation, and first waits for an older one.
LocalArrives(c) ==
    /\ c.st = "sent"
    /\ IF FromOwner(c) /\ snap.url = Local /\ snap.rev = c.rev /\ snap.phase = "pending"
       THEN /\ snap' = [snap EXCEPT !.localPending = TRUE]
            /\ IF OlderStartup
               THEN /\ calls' = (calls \ {c}) \cup {[c EXCEPT !.gen = gen, !.st = "waits"]}
                    /\ UNCHANGED <<flight, flights>>
               ELSE Joins(c, gen)
            /\ UNCHANGED box
       ELSE Refused(c) /\ UNCHANGED snap
    /\ UNCHANGED <<backendVars, gen, open, document, win, posts, diskVars, ghostVars, refused, left>>

\* The older startup has settled: its result is discarded and a new one begins.
LocalWaited(c) ==
    /\ c.st = "waits" /\ (flight = c.gen \/ Settled(flight))
    /\ IF FromOwner(c) /\ snap.rev = c.rev /\ gen = c.gen
       THEN Joins(c, gen) /\ UNCHANGED box
       ELSE Refused(c)
    /\ UNCHANGED <<backendVars, snap, gen, open, document, win, posts, diskVars, ghostVars,
                   refused, left>>

\* issueLocal: start the backend, check its health, register the device, check the credential.
\* A cancelled startup stops before it registers, never after.
FlightMoves(f) ==
    LET becomes(st, token) ==
            flights' = (flights \ {f}) \cup {[f EXCEPT !.st = st, !.token = token]}
    IN
    /\ \/ /\ f.st \in {"start", "health"}
          /\ becomes(IF f.gen # gen THEN "failed" ELSE IF f.st = "start" THEN "health" ELSE "post",
                     NoToken)
          /\ UNCHANGED <<valid, issued>>
       \/ /\ f.st = "post"
          /\ Issue(Local)
          /\ becomes("posted", [url |-> Local, n |-> issued'[Local]])
       \/ /\ f.st = "posted"
          /\ becomes(IF valid[Local] = f.token.n THEN "ok" ELSE "failed", f.token)
          /\ UNCHANGED <<valid, issued>>
    /\ UNCHANGED <<late, snap, gen, flight, calls, open, document, box, win, posts, diskVars,
                   ghostVars, refused, left>>

\* A step of the startup fails; a registration that timed out may still be processed.
FlightFails(f) ==
    /\ f.st \notin {"ok", "failed"} /\ Spend("faults")
    /\ flights' = (flights \ {f}) \cup {[f EXCEPT !.st = "failed"]}
    /\ \E reaches \in IF f.st = "post" THEN {late[Local], "may"} ELSE {late[Local]} :
           late' = [late EXCEPT ![Local] = reaches]
    /\ UNCHANGED <<valid, issued, snap, gen, flight, calls, open, document, box, win, posts,
                   diskVars, ghostVars, refused>>

\* The startup a call joined has settled; whatever began meanwhile, its generation is over.
LocalReturns(c) ==
    LET mine == FromOwner(c) /\ snap.rev = c.rev /\ gen = c.gen
        ok   == {f \in flights : f.gen = c.gen /\ f.st = "ok"}
    IN
    /\ c.st = "joined" /\ (Settled(c.gen) \/ flight # c.gen)
    /\ calls' = calls \ {c}
    /\ IF mine /\ ok = {}
       THEN /\ snap' = Cleared /\ gen' = gen + 1 /\ served' = 0
            /\ box' = LocalReply(Deliver(box, snap', Window), c, NoToken)
       ELSE /\ box' = LocalReply(box, c, IF mine THEN (CHOOSE f \in ok : TRUE).token ELSE NoToken)
            /\ UNCHANGED <<snap, gen, served>>
    /\ UNCHANGED <<backendVars, flight, flights, open, document, win, posts, diskVars, asked,
                   refused, left>>

(***************************************************************************)
(* What a window receives, and windows that come and go                    *)
(***************************************************************************)
\* Mutant: a snapshot the window knows of is dropped even when it has not acted on it.
Outdated_OrKnown(w, sn) == sn.rev <= win[w].auth.rev

\* A snapshot older than the one the window knows.
Outdated(w, sn) == sn.rev < win[w].auth.rev

\* hydrate(snapshot), from mailbox b: the window follows the main process.
Hydrate(w, sn, b) ==
    LET x == win[w]
        same == /\ sn.phase = "connected" /\ x.status = "connected" /\ x.att.pc # "off"
                /\ sn.token = x.api
        follows == [Invalidated(x) EXCEPT !.auth = sn]
        keeps == UNCHANGED <<snap, gen, served, calls>> /\ box' = b
    IN
    \/ /\ Outdated(w, sn)
       /\ keeps /\ UNCHANGED <<win, pref>>
    \/ /\ ~ Outdated(w, sn) /\ same
       /\ win' = [win EXCEPT ![w].auth = sn, ![w].att.rev = sn.rev]
       /\ keeps /\ UNCHANGED pref
    \/ /\ ~ Outdated(w, sn) /\ ~ same /\ sn.phase = "connected"
       /\ win' = [win EXCEPT ![w] = Attempting(x, sn, sn.url, "verify", sn.token, sn.rem, asked)]
       /\ keeps /\ UNCHANGED pref
    \/ /\ ~ Outdated(w, sn) /\ w = Main /\ sn.phase = "pending" /\ sn.localPending
       /\ StartsLocal(asked, b)
    \/ /\ ~ Outdated(w, sn) /\ sn.phase # "connected"
       /\ ~ (w = Main /\ sn.phase = "pending" /\ sn.localPending)
       /\ win' = [win EXCEPT ![w] = [follows EXCEPT
                      !.status = IF sn.phase \in {"pending", "initial"} THEN "checking"
                                 ELSE "disconnected"]]
       /\ pref' = IF w = Main /\ sn.phase = "blocked" THEN NoOrigin ELSE pref
       /\ keeps

Receive(w) ==
    /\ open[w] /\ box[w] # <<>>
    /\ LET m == Head(box[w])
           b == [box EXCEPT ![w] = Tail(@)]
       IN \/ /\ m.kind = "snapshot"
             /\ Hydrate(w, m.snap, b)
             /\ UNCHANGED <<flight, flights>>
          \/ /\ m.kind = "local" /\ ~ Current(Main, m.born)
             /\ box' = b
             /\ UNCHANGED <<win, snap, gen, flight, flights, served, pref, calls>>
          \/ /\ m.kind = "local" /\ Current(Main, m.born)
             /\ IF m.token = NoToken THEN Block(Main, b)
                ELSE Activate(Main, m.token, FALSE, m.want, b)
             /\ UNCHANGED calls
    /\ UNCHANGED <<backendVars, open, document, posts, stored, asked, refused, left>>

Abandoned(o) == \E p \in posts : p.url = o /\ p.st = "sent"

\* A navigation starts or the window closes: its document may no longer speak, and the
\* attempt of an owner that leaves is over unless main itself is starting the local backend.
Leave(w) ==
    /\ open[w] /\ Spend("leaves")
    /\ open' = [open EXCEPT ![w] = FALSE]
    /\ win' = [win EXCEPT ![w] = Blank]
    /\ document' = IF w = Main THEN document + 1 ELSE document
    /\ LET ends == w = Main /\ snap.phase = "pending" /\ ~ snap.localPending
           b == [box EXCEPT ![w] = <<>>]
       IN /\ snap' = IF ends THEN Cleared ELSE snap
          /\ gen' = IF ends THEN gen + 1 ELSE gen
          /\ served' = IF ends THEN 0 ELSE served
          /\ box' = IF ends THEN Deliver(b, snap', Window \ {w}) ELSE b
    /\ IF w # Main THEN UNCHANGED <<posts, late>>
       ELSE /\ posts' = {}
            /\ late' = [o \in Origin |-> IF Abandoned(o) THEN "may" ELSE late[o]]
    /\ UNCHANGED <<valid, issued, flight, flights, calls, diskVars, asked, refused>>

\* A document loads and reads the snapshot; the owner's first one follows the preference.
Load(w) ==
    /\ ~ open[w]
    /\ open' = [open EXCEPT ![w] = TRUE]
    /\ \/ /\ snap.phase # "initial"
          /\ Hydrate(w, snap, box)
          /\ UNCHANGED asked
       \/ /\ snap.phase = "initial" /\ w # Main
          /\ UNCHANGED <<win, snap, gen, served, box, pref, calls, asked>>
       \/ /\ snap.phase = "initial" /\ w = Main
          /\ asked' = asked + 1
          /\ \/ pref = Local /\ StartsLocal(asked', box)
             \/ /\ pref \in Remote
                /\ Begin(pref, "restoreHealth", NoToken, TRUE, asked', box)
                /\ UNCHANGED <<pref, calls>>
             \/ /\ pref = NoOrigin
                /\ Begin(Local, "probe", NoToken, FALSE, asked', box)
                /\ UNCHANGED <<pref, calls>>
    /\ UNCHANGED <<backendVars, flight, flights, document, posts, stored, refused, left>>

\* The app is restarted: only what is on disk survives.
Restart ==
    /\ Spend("restarts")
    /\ open' = [w \in Window |-> FALSE] /\ document' = document + 1
    /\ win' = [w \in Window |-> Blank] /\ box' = [w \in Window |-> <<>>]
    /\ snap' = Initial /\ gen' = 0 /\ flight' = 0 /\ flights' = {} /\ calls' = {} /\ posts' = {}
    /\ late' = [o \in Origin |-> IF Abandoned(o) \/ (o = Local /\ \E f \in flights : f.st = "post")
                                 THEN "may" ELSE late[o]]
    /\ served' = 0
    /\ UNCHANGED <<valid, issued, diskVars, asked, refused>>

\* The device is revoked at a backend.
Revoke(o) ==
    /\ valid[o] # 0 /\ Spend("revokes")
    /\ valid' = [valid EXCEPT ![o] = 0]
    /\ UNCHANGED <<issued, late, mainVars, open, document, box, win, posts, diskVars, ghostVars,
                   refused>>

Init ==
    /\ valid = [o \in Origin |-> 0] /\ issued = [o \in Origin |-> 0]
    /\ late = [o \in Origin |-> "no"]
    /\ snap = Initial /\ gen = 0 /\ flight = 0 /\ flights = {} /\ calls = {}
    /\ open = [w \in Window |-> FALSE] /\ document = 1
    /\ box = [w \in Window |-> <<>>] /\ win = [w \in Window |-> Blank] /\ posts = {}
    /\ stored = [o \in Origin |-> NoToken] /\ pref = NoOrigin
    /\ asked = 0 /\ served = 0 /\ refused = {} /\ left \in Bounds

User == \/ \E o \in Remote, invited \in BOOLEAN : ConnectRemote(o, invited)
        \/ StartLocal \/ Disconnect \/ Remember

\* What the program and the backends do on their own once asked.
System ==
    \/ \E w \in Window : \/ HealthAnswered(w) \/ AccessAnswered(w) \/ AccessHandled(w)
                          \/ ApiHandled(w) \/ Receive(w) \/ Load(w)
    \/ Started \/ SendRegister \/ PollAnswered
    \/ \E f \in flights : FlightMoves(f)
    \/ \E p \in posts : ServerRegisters(p) \/ RegisterAnswered(p)
    \/ \E c \in calls : LocalArrives(c) \/ LocalWaited(c) \/ LocalReturns(c)

Environment ==
    \/ \E w \in Window : ProbeLost(w) \/ PairingClaimed(w) \/ PairingHandled(w)
                          \/ ApiRefused(w) \/ Leave(w)
    \/ \E p \in posts : RegisterTimesOut(p)
    \/ \E o \in Origin : LateRegister(o) \/ Revoke(o)
    \/ PollMissed \/ Restart \/ \E f \in flights : FlightFails(f)

Next == User \/ System \/ Environment

Spec == Init /\ [][Next]_vars /\ WF_vars(System)

(***************************************************************************)
(* Properties                                                              *)
(***************************************************************************)
\* Types: tokens name the backend that issued them, an attempt is at a known step.
TypeOK ==
    /\ valid \in [Origin -> Nat] /\ issued \in [Origin -> Nat] /\ late \in [Origin -> {"no", "may", "did"}]
    /\ \A o \in Origin : valid[o] <= issued[o]
    /\ snap \in Snapshot /\ gen \in Nat /\ document \in Nat
    /\ flights \subseteq Startup /\ flight \in Nat
    /\ \A c \in calls : c.st \in {"sent", "waits", "joined"} /\ c.rev <= snap.rev
    /\ \A w \in Window : /\ win[w].auth \in Snapshot
                        /\ win[w].att.pc \in Step
                        /\ win[w].api \in Token /\ win[w].att.cand \in Token
                        /\ win[w].status \in {"checking", "connected", "reconnecting",
                                              "disconnected", "pending_approval"}
    /\ Cardinality(posts) <= 1
    /\ stored \in [Origin -> Token] /\ pref \in Origin \cup {NoOrigin}

\* What the user is promised: the session in force answers the last thing asked for.
Promise == INSTANCE UserConnection
ServesLastRequest == Promise!Spec

\* A credential goes only to the backend that issued it: a window that has one in use has it
\* for the backend of its session, and the session a window commits is for its own candidate.
CredentialStaysHome ==
    /\ snap.token # NoToken => snap.token.url = snap.url
    /\ \A w \in Window : win[w].att.pc # "off" /\ win[w].att.cand # NoToken
                           => win[w].att.cand.url = win[w].att.url

\* Every window is in step with the session or has what will bring it there: a window that
\* shows a connection uses the credential in force, and one that does not, while a session is
\* in force, is at work or has been told.
NoWindowStranded ==
    \A w \in Window : open[w] /\ box[w] = <<>> =>
        /\ win[w].status \in {"connected", "reconnecting"} =>
               snap.phase = "connected" /\ win[w].api = snap.token
        /\ snap.phase = "connected" => win[w].att.pc # "off"
        /\ w = Main /\ snap.phase = "pending" => win[w].att.pc # "off"

\* A refusal ends only the session whose credential was refused: a session another window,
\* or a late 401, brings down held a credential the backend has turned away.
RefusalEndsOnlyItsSession ==
    [][snap.phase = "connected" /\ snap'.phase = "blocked" /\ win'[Main] = win[Main]
       => snap.token \in refused]_vars

\* The app never invalidates its own local session: registrations with the local backend do
\* not overlap, so the credential in force is the last one issued unless the device was revoked
\* or a registration that had timed out was processed after all.
LocalCredentialKept ==
    snap.phase = "connected" /\ snap.url = Local
    => valid[Local] \in {0, snap.token.n} \/ late[Local] = "did"

\* Once the user and the environment rest, the owner has decided, and every window shows the
\* session that is in force.
EventuallyAgree ==
    <>[](/\ win[Main].status # "checking"
         /\ \A w \in Window :
               open[w] /\ (win[w].status \in {"connected", "reconnecting"} <=> snap.phase = "connected"))
=============================================================================
