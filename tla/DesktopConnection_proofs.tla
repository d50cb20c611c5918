------------------------ MODULE DesktopConnection_proofs ------------------------
(***************************************************************************)
(* Proofs about the desktop app's connection, for any windows, backends    *)
(* and bounds: types, credentials that stay with the backend that issued   *)
(* them, the promise to the user (UserConnection) that no request he has   *)
(* replaced ever comes into force, and what the windows know of the        *)
(* session they share.                                                     *)
(*                                                                         *)
(* The invariant says, besides types, what ties the work under way to the  *)
(* attempt it was begun for: a registration, a local() call and an answer  *)
(* that still speak for the owner's attempt have its backend and its       *)
(* request, and only the attempt of the revision the main process holds    *)
(* can be committed.                                                       *)
(***************************************************************************)
EXTENDS DesktopConnection, FiniteSetTheorems, TLAPS

(***************************************************************************)
(* What a snapshot, an attempt, a renderer and a message are               *)
(***************************************************************************)
\* A credential, if there is one, is of the backend at url.
Fits(t, url) == t # NoToken => t.url = url

\* A snapshot: it has a credential exactly when it is connected, and that of its own backend.
Session == {s \in Snapshot :
    /\ s.phase \in {"pending", "connected"} => s.url \in Origin
    /\ s.phase = "connected" => s.token.url = s.url
    /\ s.phase # "connected" => s.token = NoToken
    /\ s.localPending => s.phase = "pending"
    /\ s.phase = "initial" => s.url = NoOrigin
    /\ s.rev = 0 <=> s.phase = "initial"}

\* A device is registered, and a saved connection restored, only with a backend elsewhere.
AnyBackend == {"off", "probe", "starting", "local", "verify", "live"}

Attempt == {a \in [pc : Step, url : Origin \cup {NoOrigin}, born : Nat, rev : Nat, cand : Token,
                   rem : BOOLEAN, ans : {"none", "ok", "denied", "missed"}, want : Nat] :
                /\ a.pc # "off" => a.url \in Origin /\ Fits(a.cand, a.url)
                /\ a.pc \notin AnyBackend => a.url \in Remote}

Status == {"checking", "connected", "reconnecting", "disconnected", "pending_approval"}

\* A renderer uses the credential its attempt has shown to be good.
Renderer == {x \in [auth : Session, att : Attempt, status : Status, api : Token, bad : BOOLEAN] :
                x.att.pc = "live" => x.api = x.att.cand}

Call == [doc : Nat, rev : Nat, gen : Nat, st : {"sent", "waits", "joined"}, want : Nat]

Post == {p \in [born : Nat, url : Remote, st : {"sent", "issued", "approval"},
                token : Token, want : Nat] : Fits(p.token, p.url)}

LocalStartup == {f \in Startup : Fits(f.token, Local)}

News    == [kind : {"snapshot"}, snap : Session]
Reply   == {m \in [kind : {"local"}, born : Nat, token : Token, want : Nat] : Fits(m.token, Local)}
Message == News \cup Reply

\* What is in a mailbox.
Mail(s) == {s[i] : i \in 1..Len(s)}

Boxes == [Window -> Seq(Message)]

(***************************************************************************)
(* The invariant                                                           *)
(***************************************************************************)
BackendsOK ==
    /\ valid \in [Origin -> Nat] /\ issued \in [Origin -> Nat]
    /\ late \in [Origin -> {"no", "may", "did"}]
    /\ \A o \in Origin : valid[o] <= issued[o]

SnapOK == snap \in Session /\ gen \in Nat /\ (snap.rev > 0 => gen > 0)

FlightsOK == flight \in Nat /\ flights \subseteq LocalStartup

DiskOK == /\ stored \in [Origin -> Token] /\ pref \in Origin \cup {NoOrigin}
          /\ \A o \in Origin : Fits(stored[o], o)

AskedOK == /\ asked \in Nat /\ served \in {0, asked} /\ (snap.rev > 0 => asked > 0)
           /\ (open[Main] => asked > 0)
           /\ left \in Bound /\ document \in Nat /\ open \in [Window -> BOOLEAN]

\* A window knows no revision the main process has not had, and makes its attempt under the
\* revision it knows; a closed window has no state.
WindowsOK ==
    /\ win \in [Window -> Renderer]
    /\ \A w \in Window :
          /\ ~ open[w] => win[w] = Blank
          /\ win[w].auth.rev <= snap.rev
          /\ win[w].att.pc # "off" => /\ win[w].att.rev = win[w].auth.rev
                                      /\ win[w].att.born <= win[w].att.rev

\* The attempt main would commit is for the session's backend and the user's last request.
OwnerOK == win[Main].att.pc # "off" /\ win[Main].att.rev = snap.rev
               => win[Main].att.url = snap.url /\ win[Main].att.want = asked

\* The owner still makes the attempt that began at revision rev.
Mine(rev) == win[Main].att.pc # "off" /\ win[Main].att.born = rev

PostsOK ==
    /\ \A p, q \in posts : p = q
    /\ \A p \in posts :
          /\ p \in Post /\ open[Main] /\ p.born <= snap.rev
          /\ Mine(p.born) => /\ win[Main].att.url = p.url /\ win[Main].att.want = p.want
                             /\ win[Main].att.pc = "posting"

CallOK(c) ==
    /\ c \in Call /\ (c.st = "waits" => c.gen > 0)
    /\ c.rev <= snap.rev /\ (c.rev = snap.rev => snap.phase = "pending")
    /\ Mine(c.rev) => win[Main].att.want = c.want /\ win[Main].att.url = Local

CallsOK == \A c \in calls : CallOK(c)

\* The owner is only ever told that its session is over, and how its local() calls ended.
MailOK ==
    /\ box \in Boxes
    /\ \A w \in Window :
          /\ ~ open[w] => Mail(box[w]) = {}
          /\ w # Main => Mail(box[w]) \subseteq News
          /\ \A m \in Mail(box[w]) : m.kind = "snapshot" => m.snap.rev <= snap.rev
    /\ \A m \in Mail(box[Main]) :
          /\ m.kind = "snapshot" => m.snap.phase = "blocked"
          /\ m.kind = "local" => /\ m.born <= snap.rev
                                 /\ Mine(m.born) => /\ win[Main].att.want = m.want
                                                    /\ win[Main].att.url = Local

Sound == /\ BackendsOK /\ SnapOK /\ FlightsOK /\ DiskOK /\ AskedOK
         /\ WindowsOK /\ OwnerOK /\ PostsOK /\ CallsOK /\ MailOK

(***************************************************************************)
(* Snapshots                                                               *)
(***************************************************************************)
\* The origins are apart, and none is missing a credential of its own.
LEMMA Origins ==
    /\ Main \in Window /\ Local \in Origin /\ NoOrigin \notin Origin
    /\ NoToken \in Token /\ NoToken.url = NoOrigin /\ NoToken.n = 0
    /\ \A t \in Token : t.url \in Origin \cup {NoOrigin} /\ t.n \in Nat
    /\ \A t \in Token : t.url \in Origin => t # NoToken
    /\ \A t \in Token : t # NoToken => t.url \in Origin /\ t.n > 0
    /\ \A o \in Origin, n \in Nat \ {0} : [url |-> o, n |-> n] \in Token
BY ConnectionAssumption DEF Origin, Token, NoToken

\* A credential of a backend elsewhere is not one of the local backend.
LEMMA Elsewhere ==
    ASSUME NEW o \in Remote, NEW t, Fits(t, o) PROVE t.url # Local
BY Origins, ConnectionAssumption DEF Fits, Origin

\* The fields of a snapshot.
LEMMA SessionFields ==
    ASSUME NEW s \in Session
    PROVE  /\ s.rev \in Nat /\ s.phase \in {"initial", "pending", "connected", "blocked"}
           /\ s.url \in Origin \cup {NoOrigin} /\ s.token \in Token /\ s.rem \in BOOLEAN
           /\ s.localPending \in BOOLEAN /\ (s.localPending => s.phase = "pending")
           /\ s.phase \in {"pending", "connected"} => s.url \in Origin
           /\ s.phase = "connected" => s.token.url = s.url
           /\ s.phase # "connected" => s.token = NoToken
           /\ s.phase = "initial" => s.url = NoOrigin
           /\ s.rev = 0 <=> s.phase = "initial"
BY DEF Session, Snapshot

\* The snapshot before the first attempt.
LEMMA InitialSession == Initial \in Session
BY Origins DEF Session, Snapshot, Initial

\* The snapshot of a new attempt.
LEMMA BegunSession ==
    ASSUME SnapOK, NEW url \in Origin, NEW s, s = Begun(url)
    PROVE  /\ s \in Session /\ s.rev = snap.rev + 1 /\ s.phase = "pending" /\ s.url = url
           /\ s.token = NoToken /\ BegunGen(url) \in Nat /\ BegunGen(url) > 0
<1>1. snap.rev \in Nat /\ snap.localPending \in BOOLEAN /\ gen \in Nat
           /\ (snap.rev > 0 => gen > 0)
    BY SessionFields DEF SnapOK
<1>2. s = [rev |-> snap.rev + 1, phase |-> "pending", url |-> url, token |-> NoToken,
           rem |-> FALSE, localPending |-> KeepsLocal(url)]
    BY DEF Begun
<1>3. KeepsLocal(url) \in BOOLEAN
    BY <1>1 DEF KeepsLocal
<1>4. s \in Session /\ s.rev = snap.rev + 1 /\ s.phase = "pending" /\ s.url = url
           /\ s.token = NoToken
    BY <1>1, <1>2, <1>3, Origins DEF Session, Snapshot
<1>5. snap.localPending => snap.rev > 0
    BY <1>1, SessionFields DEF SnapOK
<1> QED BY <1>1, <1>4, <1>5 DEF BegunGen, KeepsLocal

\* The snapshot of a session that ends.
LEMMA ClearedSession ==
    ASSUME snap \in Session, NEW s, s = Cleared
    PROVE  /\ s \in Session /\ s.rev = snap.rev + 1 /\ s.phase = "blocked" /\ s.url = snap.url
           /\ s.token = NoToken
BY SessionFields, Origins DEF Cleared, Session, Snapshot

\* The snapshot of a session that is committed for a credential of its backend.
LEMMA CommittedSession ==
    ASSUME snap \in Session, NEW t \in Token, t.url = snap.url, snap.url \in Origin,
           NEW rem \in BOOLEAN, NEW s, s = Committed(t, rem)
    PROVE  /\ s \in Session /\ s.rev = snap.rev + 1 /\ s.phase = "connected" /\ s.url = snap.url
           /\ s.token = t /\ s.rem = rem
BY SessionFields, Origins DEF Committed, Session, Snapshot

\* The snapshot while the local backend starts.
LEMMA PendingSession ==
    ASSUME snap \in Session, snap.phase = "pending", NEW s, s = [snap EXCEPT !.localPending = TRUE]
    PROVE  /\ s \in Session /\ s.rev = snap.rev /\ s.phase = snap.phase /\ s.url = snap.url
           /\ s.token = snap.token
BY SessionFields DEF Session, Snapshot

(***************************************************************************)
(* Renderers                                                               *)
(***************************************************************************)
\* The fields of an attempt.
LEMMA AttemptFields ==
    ASSUME NEW a \in Attempt
    PROVE  /\ a.pc \in Step /\ a.url \in Origin \cup {NoOrigin} /\ a.born \in Nat /\ a.rev \in Nat
           /\ a.cand \in Token /\ a.rem \in BOOLEAN /\ a.want \in Nat
           /\ a.ans \in {"none", "ok", "denied", "missed"}
           /\ a.pc # "off" => a.url \in Origin /\ Fits(a.cand, a.url)
           /\ a.pc \notin AnyBackend => a.url \in Remote
BY DEF Attempt

\* The fields of a renderer.
LEMMA RendererFields ==
    ASSUME NEW x \in Renderer
    PROVE  /\ x.auth \in Session /\ x.att \in Attempt /\ x.status \in Status
           /\ x.api \in Token /\ x.bad \in BOOLEAN
           /\ x.att.pc = "live" => x.api = x.att.cand
BY DEF Renderer

\* No attempt, and a window that has just loaded.
LEMMA BlankRenderer ==
    /\ NoAttempt \in Attempt /\ NoAttempt.pc = "off"
    /\ Blank \in Renderer /\ Blank.att = NoAttempt /\ Blank.auth = Initial
    /\ Blank.status = "checking" /\ Blank.api = NoToken /\ Blank.bad = FALSE
BY InitialSession, Origins DEF NoAttempt, Attempt, AnyBackend, Step, Blank, Renderer, Status

\* An attempt that begins.
LEMMA NewAttempt ==
    ASSUME NEW url \in Origin, NEW pc \in Step \ {"off"}, NEW cand \in Token, Fits(cand, url),
           NEW rem \in BOOLEAN, NEW want \in Nat, NEW rev \in Nat,
           pc \notin AnyBackend => url \in Remote
    PROVE  [pc |-> pc, url |-> url, born |-> rev, rev |-> rev, cand |-> cand,
            rem |-> rem, ans |-> "none", want |-> want] \in Attempt
BY DEF Attempt, AnyBackend

\* One window's renderer changes.
LEMMA WindowChanges ==
    ASSUME NEW f \in [Window -> Renderer], NEW w \in Window, NEW y \in Renderer,
           NEW g, g = [f EXCEPT ![w] = y]
    PROVE  g \in [Window -> Renderer] /\ g[w] = y /\ \A v \in Window \ {w} : g[v] = f[v]
OBVIOUS

(***************************************************************************)
(* Mailboxes                                                               *)
(***************************************************************************)
\* An empty mailbox.
LEMMA MailEmpty == <<>> \in Seq(Message) /\ Mail(<<>>) = {}
BY DEF Mail

\* A message is sent.
LEMMA MailAppend ==
    ASSUME NEW s \in Seq(Message), NEW m \in Message, NEW r, r = Append(s, m)
    PROVE  r \in Seq(Message) /\ Mail(r) = Mail(s) \cup {m}
<1>1. /\ r \in Seq(Message) /\ Len(s) \in Nat /\ Len(r) = Len(s) + 1 /\ r[Len(s) + 1] = m
      /\ \A i \in 1..Len(s) : r[i] = s[i]
    OBVIOUS
<1>2. ASSUME NEW x \in Mail(r) PROVE x \in Mail(s) \cup {m}
    <2>1. PICK i \in 1..Len(r) : x = r[i]
        BY <1>2 DEF Mail
    <2> QED BY <1>1, <2>1 DEF Mail
<1>3. ASSUME NEW x \in Mail(s) PROVE x \in Mail(r)
    <2>1. PICK i \in 1..Len(s) : x = s[i]
        BY <1>3 DEF Mail
    <2>2. i \in 1..Len(r) /\ x = r[i]
        BY <1>1, <2>1
    <2> QED BY <2>2 DEF Mail
<1>4. m \in Mail(r)
    <2>1. Len(s) + 1 \in 1..Len(r)
        BY <1>1
    <2> QED BY <1>1, <2>1 DEF Mail
<1> QED BY <1>1, <1>2, <1>3, <1>4

\* The first message is received.
LEMMA MailTail ==
    ASSUME NEW s \in Seq(Message), s # <<>>, NEW r, r = Tail(s)
    PROVE  /\ r \in Seq(Message) /\ Head(s) \in Mail(s) /\ Head(s) \in Message
           /\ Mail(s) = Mail(r) \cup {Head(s)}
<1>1. /\ r \in Seq(Message) /\ Len(s) \in Nat \ {0} /\ Len(r) = Len(s) - 1
      /\ Head(s) = s[1] /\ Head(s) \in Message
      /\ \A i \in 1..Len(r) : r[i] = s[i + 1]
    OBVIOUS
<1>2. Head(s) \in Mail(s)
    <2>1. 1 \in 1..Len(s)
        BY <1>1
    <2> QED BY <1>1, <2>1 DEF Mail
<1>3. ASSUME NEW x \in Mail(r) PROVE x \in Mail(s)
    <2>1. PICK i \in 1..Len(r) : x = r[i]
        BY <1>3 DEF Mail
    <2>2. i + 1 \in 1..Len(s) /\ x = s[i + 1]
        BY <1>1, <2>1
    <2> QED BY <2>2 DEF Mail
<1>4. ASSUME NEW x \in Mail(s), x # Head(s) PROVE x \in Mail(r)
    <2>1. PICK i \in 1..Len(s) : x = s[i]
        BY <1>4 DEF Mail
    <2>2. i # 1 /\ i \in Nat
        BY <1>1, <1>4, <2>1
    <2>3. i - 1 \in 1..Len(r)
        BY <1>1, <2>1, <2>2
    <2>4. r[i - 1] = s[(i - 1) + 1] /\ (i - 1) + 1 = i
        BY <1>1, <2>2, <2>3
    <2> QED BY <2>1, <2>3, <2>4 DEF Mail
<1> QED BY <1>1, <1>2, <1>3, <1>4

\* A message of a mailbox is a message.
LEMMA MailMessages ==
    ASSUME NEW s \in Seq(Message) PROVE Mail(s) \subseteq Message
BY DEF Mail

\* A snapshot is sent to the windows told, if their documents have read one.
LEMMA MailDelivered ==
    ASSUME NEW b \in Boxes, NEW sn \in Session, NEW told, NEW d, d = Deliver(b, sn, told)
    PROVE  /\ d \in Boxes
           /\ \A v \in Window :
                 Mail(d[v]) = IF open[v] /\ v \in told
                              THEN Mail(b[v]) \cup {[kind |-> "snapshot", snap |-> sn]}
                              ELSE Mail(b[v])
<1>1. d = [w \in Window |-> IF open[w] /\ w \in told
                           THEN Append(b[w], [kind |-> "snapshot", snap |-> sn]) ELSE b[w]]
    BY DEF Deliver
<1>2. [kind |-> "snapshot", snap |-> sn] \in Message
    BY DEF Message, News
<1>3. ASSUME NEW v \in Window
      PROVE  /\ d[v] \in Seq(Message)
             /\ Mail(d[v]) = IF open[v] /\ v \in told
                              THEN Mail(b[v]) \cup {[kind |-> "snapshot", snap |-> sn]}
                              ELSE Mail(b[v])
    <2>1. b[v] \in Seq(Message)
        BY DEF Boxes
    <2>2. CASE open[v] /\ v \in told
        <3>1. d[v] = Append(b[v], [kind |-> "snapshot", snap |-> sn])
            BY <1>1, <2>2
        <3> QED BY <1>2, <2>1, <2>2, <3>1, MailAppend
    <2>3. CASE ~ (open[v] /\ v \in told)
        <3>1. d[v] = b[v]
            BY <1>1, <2>3
        <3> QED BY <2>1, <2>3, <3>1
    <2> QED BY <2>2, <2>3
<1>4. d \in Boxes
    BY <1>1, <1>3 DEF Boxes
<1> QED BY <1>3, <1>4

\* The answer of a local() call, if the document that made it is still the owner's.
LEMMA MailReplied ==
    ASSUME NEW b \in Boxes, NEW c \in Call, NEW t \in Token, Fits(t, Local),
           NEW d, d = LocalReply(b, c, t)
    PROVE  /\ d \in Boxes
           /\ \A v \in Window \ {Main} : d[v] = b[v]
           /\ \E m \in Reply :
                 /\ m.born = c.rev /\ m.token = t /\ m.want = c.want
                 /\ \/ open[Main] /\ Mail(d[Main]) = Mail(b[Main]) \cup {m}
                    \/ Mail(d[Main]) = Mail(b[Main])
<1>a. PICK m : m = [kind |-> "local", born |-> c.rev, token |-> t, want |-> c.want]
    OBVIOUS
<1>1. /\ m \in Reply /\ m \in Message /\ m.born = c.rev /\ m.token = t /\ m.want = c.want
    BY <1>a DEF Message, Reply, Call, Fits
<1>2. b[Main] \in Seq(Message) /\ Main \in Window
    BY Origins DEF Boxes
<1>3. CASE open[Main] /\ c.doc = document
    <2>1. d = [b EXCEPT ![Main] = Append(@, m)]
        BY <1>3, <1>a DEF LocalReply
    <2>2. Append(b[Main], m) \in Seq(Message) /\ Mail(Append(b[Main], m)) = Mail(b[Main]) \cup {m}
        BY <1>1, <1>2, MailAppend
    <2>3. d \in Boxes /\ d[Main] = Append(b[Main], m) /\ \A v \in Window \ {Main} : d[v] = b[v]
        BY <1>2, <2>1, <2>2 DEF Boxes
    <2> QED BY <1>1, <1>3, <2>2, <2>3
<1>4. CASE ~ (open[Main] /\ c.doc = document)
    BY <1>1, <1>4 DEF LocalReply
<1> QED BY <1>3, <1>4

(***************************************************************************)
(* Steps                                                                   *)
(***************************************************************************)
\* The snapshot is as it was, but for the startup under way, or a revision on.
SnapMoves ==
    /\ snap' \in Session
    /\ \/ snap'.rev = snap.rev + 1
       \/ /\ snap'.rev = snap.rev /\ snap'.phase = snap.phase /\ snap'.url = snap.url
          /\ snap'.token = snap.token

\* The owner makes no attempt, a newer one, or goes on with the one it made.
Continues ==
    \/ win'[Main].att.pc = "off"
    \/ win'[Main].att.born > snap.rev
    \/ /\ win[Main].att.pc # "off" /\ win'[Main].att.born = win[Main].att.born
       /\ win'[Main].att.want = win[Main].att.want /\ win'[Main].att.url = win[Main].att.url
       /\ win[Main].att.pc = "posting" => win'[Main].att.pc = "posting" \/ posts' = {}

\* Nothing is sent but the snapshot and the answers of local() calls, and to the owner only the
\* end of its session.
Sends ==
    /\ box' \in Boxes
    /\ \A v \in Window : \A m \in Mail(box'[v]) :
          \/ m \in Mail(box[v])
          \/ /\ m = [kind |-> "snapshot", snap |-> snap'] /\ open'[v]
             /\ v = Main => snap'.phase = "blocked"
          \/ /\ v = Main /\ m \in Reply /\ open'[v]
             /\ \E c \in calls : m.born = c.rev /\ m.want = c.want

\* A document that is gone has no mail.
Emptied == \A v \in Window : open[v] /\ ~ open'[v] => Mail(box'[v]) = {}

\* Such a step keeps what ties registrations, calls and answers to the owner's attempt.
LEMMA WorkKept ==
    ASSUME Sound, SnapMoves, Continues, Sends, Emptied, posts' # {} => open'[Main]
    PROVE  /\ MailOK' /\ (\A c \in calls : CallOK(c)')
           /\ posts' \subseteq posts => PostsOK'
           /\ calls' \subseteq calls => CallsOK'
<1>1. snap \in Session /\ snap.rev \in Nat /\ snap'.rev \in Nat /\ snap'.rev >= snap.rev
      /\ (snap'.rev = snap.rev => snap'.phase = snap.phase) /\ Main \in Window
    BY SessionFields, Origins DEF Sound, SnapOK, SnapMoves
<1>2. win[Main].att.born \in Nat
    BY <1>1, RendererFields, AttemptFields DEF Sound, WindowsOK
<1>3. ASSUME NEW r \in Nat, r <= snap.rev, Mine(r)'
      PROVE  /\ Mine(r) /\ win'[Main].att.want = win[Main].att.want
             /\ win'[Main].att.url = win[Main].att.url
             /\ win[Main].att.pc = "posting" => win'[Main].att.pc = "posting" \/ posts' = {}
    BY <1>1, <1>2, <1>3 DEF Continues, Mine
<1>4. ASSUME posts' \subseteq posts PROVE PostsOK'
    <2> USE <1>4
    <2>1. \A p, q \in posts' : p = q
        BY DEF Sound, PostsOK
    <2>2. ASSUME NEW p \in posts'
          PROVE  /\ p \in Post /\ open'[Main] /\ p.born <= snap'.rev
                 /\ Mine(p.born)' => /\ win'[Main].att.url = p.url /\ win'[Main].att.want = p.want
                                     /\ win'[Main].att.pc = "posting"
        <3>1. /\ p \in Post /\ p.born <= snap.rev
              /\ Mine(p.born) => /\ win[Main].att.url = p.url /\ win[Main].att.want = p.want
                                 /\ win[Main].att.pc = "posting"
            BY <2>2 DEF Sound, PostsOK
        <3>2. p.born \in Nat
            BY <3>1 DEF Post
        <3>3. Mine(p.born)' =>
                  /\ Mine(p.born) /\ win'[Main].att.want = win[Main].att.want
                  /\ win'[Main].att.url = win[Main].att.url
                  /\ win[Main].att.pc = "posting" => win'[Main].att.pc = "posting" \/ posts' = {}
            BY <1>3, <3>1, <3>2
        <3>4. posts' # {} /\ open'[Main]
            BY <2>2
        <3>5. p.born <= snap'.rev
            BY <1>1, <3>1, <3>2
        <3>6. ASSUME Mine(p.born)'
              PROVE  /\ win'[Main].att.url = p.url /\ win'[Main].att.want = p.want
                     /\ win'[Main].att.pc = "posting"
            <4>1. Mine(p.born)
                BY <3>3, <3>6
            <4>2. win'[Main].att.want = win[Main].att.want /\ win'[Main].att.url = win[Main].att.url
                BY <3>3, <3>6
            <4>3. win[Main].att.pc = "posting"
                BY <3>1, <4>1
            <4>4. win'[Main].att.pc = "posting"
                BY <3>3, <3>4, <3>6, <4>3
            <4> QED BY <3>1, <4>1, <4>2, <4>4
        <3> QED BY <3>1, <3>4, <3>5, <3>6
    <2> QED BY <2>1, <2>2 DEF PostsOK, Mine
<1>5. ASSUME NEW c \in calls PROVE CallOK(c)'
    <2>1. /\ c \in Call /\ (c.st = "waits" => c.gen > 0)
          /\ c.rev <= snap.rev /\ (c.rev = snap.rev => snap.phase = "pending")
          /\ Mine(c.rev) => win[Main].att.want = c.want /\ win[Main].att.url = Local
        BY DEF Sound, CallsOK, CallOK
    <2>2. c.rev \in Nat
        BY <2>1 DEF Call
    <2>3. Mine(c.rev)' => /\ Mine(c.rev) /\ win'[Main].att.want = win[Main].att.want
                          /\ win'[Main].att.url = win[Main].att.url
        BY <1>3, <2>1, <2>2
    <2>4. c.rev <= snap'.rev /\ (c.rev = snap'.rev => snap'.phase = "pending")
        BY <1>1, <2>1, <2>2
    <2>5. Mine(c.rev)' => win'[Main].att.want = c.want /\ win'[Main].att.url = Local
        BY <2>1, <2>3
    <2> QED BY <2>1, <2>4, <2>5 DEF CallOK, Mine
<1>6. MailOK'
    <2>1. ASSUME NEW v \in Window
          PROVE  /\ ~ open'[v] => Mail(box'[v]) = {}
                 /\ v # Main => Mail(box'[v]) \subseteq News
                 /\ \A m \in Mail(box'[v]) : m.kind = "snapshot" => m.snap.rev <= snap'.rev
        <3>1. /\ ~ open[v] => Mail(box[v]) = {}
              /\ v # Main => Mail(box[v]) \subseteq News
              /\ \A m \in Mail(box[v]) : m.kind = "snapshot" => m.snap.rev <= snap.rev
            BY DEF Sound, MailOK
        <3>2. \A m \in Mail(box[v]) : m.kind = "snapshot" => m.snap.rev \in Nat
            <4>1. Mail(box[v]) \subseteq Message
                BY MailMessages DEF Sound, MailOK, Boxes
            <4>2. \A m \in Message : m.kind = "snapshot" => m.snap \in Session
                BY DEF Message, News, Reply
            <4> QED BY <4>1, <4>2, SessionFields
        <3>3. [kind |-> "snapshot", snap |-> snap'] \in News
            BY DEF SnapMoves, News
        <3>4. \A m \in Mail(box'[v]) : m.kind = "snapshot" => m.snap.rev <= snap'.rev
            <4> SUFFICES ASSUME NEW m \in Mail(box'[v]), m.kind = "snapshot"
                         PROVE  m.snap.rev <= snap'.rev
                OBVIOUS
            <4>1. CASE m \in Mail(box[v])
                BY <1>1, <3>1, <3>2, <4>1
            <4>2. CASE m = [kind |-> "snapshot", snap |-> snap']
                BY <1>1, <4>2
            <4>3. CASE m \in Reply
                BY <4>3 DEF Reply
            <4> QED BY <4>1, <4>2, <4>3 DEF Sends
        <3>5. ~ open'[v] => Mail(box'[v]) = {}
            BY <3>1 DEF Sends, Emptied
        <3>6. v # Main => Mail(box'[v]) \subseteq News
            BY <3>1, <3>3 DEF Sends
        <3> QED BY <3>4, <3>5, <3>6
    <2>2. ASSUME NEW m \in Mail(box'[Main])
          PROVE  /\ m.kind = "snapshot" => m.snap.phase = "blocked"
                 /\ m.kind = "local" => /\ m.born <= snap'.rev
                                        /\ Mine(m.born)' => /\ win'[Main].att.want = m.want
                                                            /\ win'[Main].att.url = Local
        <3>1. CASE m \in Mail(box[Main])
            <4>1. /\ m.kind = "snapshot" => m.snap.phase = "blocked"
                  /\ m.kind = "local" => /\ m.born <= snap.rev
                                         /\ Mine(m.born) => /\ win[Main].att.want = m.want
                                                            /\ win[Main].att.url = Local
                BY <3>1 DEF Sound, MailOK
            <4>2. m \in Message
                BY <1>1, <3>1, MailMessages DEF Sound, MailOK, Boxes
            <4>3. m.kind = "local" => m.born \in Nat
                BY <4>2 DEF Message, News, Reply
            <4>4. m.kind = "local" /\ Mine(m.born)' =>
                       /\ Mine(m.born) /\ win'[Main].att.want = win[Main].att.want
                       /\ win'[Main].att.url = win[Main].att.url
                BY <1>3, <4>1, <4>3
            <4> QED BY <1>1, <4>1, <4>3, <4>4
        <3>2. CASE m = [kind |-> "snapshot", snap |-> snap'] /\ snap'.phase = "blocked"
            BY <3>2
        <3>3. ASSUME m \in Reply, NEW c \in calls, m.born = c.rev, m.want = c.want
              PROVE  /\ m.kind = "local" /\ m.born <= snap'.rev
                     /\ Mine(m.born)' => /\ win'[Main].att.want = m.want
                                         /\ win'[Main].att.url = Local
            <4>1. m.kind = "local"
                BY <3>3 DEF Reply
            <4> QED BY <1>5, <3>3, <4>1 DEF CallOK, Mine
        <3> QED BY <1>1, <2>2, <3>1, <3>2, <3>3 DEF Sends
    <2> QED BY <2>1, <2>2 DEF MailOK, Sends, Mine
<1>7. calls' \subseteq calls => CallsOK'
    BY <1>5 DEF CallsOK
<1> QED BY <1>4, <1>5, <1>6, <1>7

\* One window's renderer changes, and keeps what a window knows.
LEMMA WindowKept ==
    ASSUME Sound, SnapMoves, NEW w \in Window, NEW y \in Renderer, win' = [win EXCEPT ![w] = y],
           y.auth.rev <= snap'.rev,
           y.att.pc # "off" => y.att.rev = y.auth.rev /\ y.att.born <= y.att.rev,
           open'[w], \A v \in Window \ {w} : open'[v] = open[v]
    PROVE  /\ WindowsOK' /\ win' \in [Window -> Renderer]
           /\ win'[w] = y /\ \A v \in Window \ {w} : win'[v] = win[v]
<1>1. snap.rev \in Nat /\ snap'.rev \in Nat /\ snap'.rev >= snap.rev
    BY SessionFields DEF Sound, SnapOK, SnapMoves
<1>2. win \in [Window -> Renderer]
    BY DEF Sound, WindowsOK
<1>3. win' \in [Window -> Renderer] /\ win'[w] = y /\ \A v \in Window \ {w} : win'[v] = win[v]
    BY <1>2, WindowChanges
<1>4. ASSUME NEW v \in Window
      PROVE  /\ ~ open'[v] => win'[v] = Blank
             /\ win'[v].auth.rev <= snap'.rev
             /\ win'[v].att.pc # "off" => /\ win'[v].att.rev = win'[v].auth.rev
                                          /\ win'[v].att.born <= win'[v].att.rev
    <2>1. CASE v = w
        BY <1>3, <2>1
    <2>2. CASE v # w
        <3>1. /\ ~ open[v] => win[v] = Blank
              /\ win[v].auth.rev <= snap.rev
              /\ win[v].att.pc # "off" => /\ win[v].att.rev = win[v].auth.rev
                                          /\ win[v].att.born <= win[v].att.rev
            BY DEF Sound, WindowsOK
        <3>2. win[v].auth.rev \in Nat
            BY <1>2, RendererFields, SessionFields
        <3>3. win'[v] = win[v] /\ open'[v] = open[v]
            BY <1>3, <2>2
        <3>4. win[v].auth.rev <= snap'.rev
            BY <1>1, <3>1, <3>2
        <3> QED BY <3>1, <3>3, <3>4
    <2> QED BY <2>1, <2>2
<1> QED BY <1>3, <1>4 DEF WindowsOK

\* The snapshot is sent to other windows than the owner, from a mailbox that only lost messages.
LEMMA SendsDelivered ==
    ASSUME Sound, NEW b \in Boxes, \A v \in Window : Mail(b[v]) \subseteq Mail(box[v]),
           snap' \in Session, NEW told, Main \in told => snap'.phase = "blocked",
           \A v \in Window : v \in told => (open[v] => open'[v]),
           box' = Deliver(b, snap', told)
    PROVE  Sends
<1>1. /\ box' \in Boxes
      /\ \A v \in Window :
             Mail(box'[v]) = IF open[v] /\ v \in told
                             THEN Mail(b[v]) \cup {[kind |-> "snapshot", snap |-> snap']}
                             ELSE Mail(b[v])
    BY MailDelivered
<1>2. ASSUME NEW v \in Window, NEW m \in Mail(box'[v])
      PROVE  \/ m \in Mail(box[v])
             \/ /\ m = [kind |-> "snapshot", snap |-> snap'] /\ open'[v]
                /\ v = Main => snap'.phase = "blocked"
    <2>1. CASE open[v] /\ v \in told
        BY <1>1, <1>2, <2>1
    <2>2. CASE ~ (open[v] /\ v \in told)
        BY <1>1, <1>2, <2>2
    <2> QED BY <2>1, <2>2
<1> QED BY <1>1, <1>2 DEF Sends

\* The owner begins an attempt.
LEMMA Begins ==
    ASSUME Sound, NEW url \in Origin, NEW pc \in Step \ {"off", "live"}, NEW cand \in Token, Fits(cand, url),
           NEW rem \in BOOLEAN, asked' \in Nat, pc \notin AnyBackend => url \in Remote,
           NEW b \in Boxes, \A v \in Window : Mail(b[v]) \subseteq Mail(box[v]),
           snap' = Begun(url), gen' = BegunGen(url),
           box' = Deliver(b, snap', Window \ {Main}),
           win' = [win EXCEPT ![Main] = Attempting(@, snap', url, pc, cand, rem, asked')],
           open'[Main], \A v \in Window \ {Main} : open'[v] = open[v]
    PROVE  /\ SnapMoves /\ Continues /\ Sends /\ Emptied
           /\ SnapOK' /\ WindowsOK' /\ OwnerOK'
           /\ snap'.rev = snap.rev + 1 /\ snap'.phase = "pending" /\ snap'.url = url
           /\ snap'.token = NoToken
           /\ \A v \in Window \ {Main} : win'[v] = win[v]
           /\ win'[Main].auth = snap' /\ win'[Main].status = "checking"
           /\ win'[Main].api = NoToken /\ win'[Main].bad = FALSE
           /\ win'[Main].att.pc = pc /\ win'[Main].att.url = url
           /\ win'[Main].att.born = snap.rev + 1 /\ win'[Main].att.want = asked'
           /\ win'[Main].att.cand = cand
<1>0. Main \in Window /\ snap.rev \in Nat /\ SnapOK
    BY Origins, SessionFields DEF Sound, SnapOK
<1>1. /\ snap' \in Session /\ snap'.rev = snap.rev + 1 /\ snap'.phase = "pending" /\ snap'.url = url
      /\ snap'.token = NoToken /\ gen' \in Nat /\ gen' > 0
    BY <1>0, BegunSession
<1>2. win[Main] \in Renderer /\ win \in [Window -> Renderer]
    BY <1>0 DEF Sound, WindowsOK
<1> DEFINE new == [pc |-> pc, url |-> url, born |-> snap'.rev, rev |-> snap'.rev, cand |-> cand,
                   rem |-> rem, ans |-> "none", want |-> asked']
<1>a. new \in Attempt
    BY <1>0, <1>1, NewAttempt
<1>b. /\ new.pc = pc /\ new.url = url /\ new.born = snap'.rev /\ new.rev = snap'.rev
      /\ new.cand = cand /\ new.ans = "none" /\ new.want = asked'
    OBVIOUS
<1>c. win' = [win EXCEPT ![Main] =
                 [Invalidated(win[Main]) EXCEPT !.auth = snap', !.status = "checking", !.att = new]]
    BY DEF Attempting
<1> HIDE DEF new
<1>d. PICK y : y = [Invalidated(win[Main]) EXCEPT !.auth = snap', !.status = "checking", !.att = new]
    OBVIOUS
<1>e. /\ y \in Renderer /\ y.auth = snap' /\ y.status = "checking" /\ y.api = NoToken
      /\ y.bad = FALSE /\ y.att = new
    BY <1>1, <1>2, <1>a, <1>b, <1>d, Origins DEF Invalidated, Renderer, Status
<1>3. /\ y \in Renderer /\ y.auth = snap' /\ y.status = "checking" /\ y.api = NoToken
      /\ y.bad = FALSE
      /\ y.att.pc = pc /\ y.att.url = url /\ y.att.born = snap'.rev /\ y.att.rev = snap'.rev
      /\ y.att.cand = cand /\ y.att.ans = "none" /\ y.att.want = asked'
    BY <1>b, <1>e
<1>4. win' = [win EXCEPT ![Main] = y]
    BY <1>c, <1>d
<1>5. SnapMoves
    BY <1>1 DEF SnapMoves
<1>6. /\ WindowsOK' /\ win'[Main] = y /\ \A v \in Window \ {Main} : win'[v] = win[v]
    <2>1. y.auth.rev <= snap'.rev /\ y.att.rev = y.auth.rev /\ y.att.born <= y.att.rev
        BY <1>0, <1>1, <1>3
    <2> QED BY <1>0, <1>3, <1>4, <1>5, <2>1, WindowKept
<1>7. Continues
    BY <1>0, <1>1, <1>3, <1>6 DEF Continues
<1>8. OwnerOK'
    BY <1>1, <1>3, <1>6 DEF OwnerOK
<1>9. Sends
    BY <1>1, SendsDelivered
<1>10. Emptied /\ SnapOK'
    BY <1>1 DEF Emptied, SnapOK
<1> QED BY <1>1, <1>3, <1>5, <1>6, <1>7, <1>8, <1>9, <1>10

\* A new attempt goes on with the generation or begins the next.
LEMMA NewGeneration == ASSUME NEW url, gen' = BegunGen(url) PROVE gen' \in {gen, gen + 1}
BY DEF BegunGen

\* The session ends when the owner blocks, or a window that was refused under it does.
Ends(w) == w = Main \/ (win[w].auth.phase = "connected" /\ RejectAccepted(win[w].auth.rev))

\* A window blocks: its attempt is over, and the session it reports if it is the one in force.
LEMMA Blocks ==
    ASSUME Sound, NEW w \in Window, open[w], NEW b \in Boxes,
           \A v \in Window : Mail(b[v]) \subseteq Mail(box[v]),
           Block(w, b), open' = open, w = Main \/ asked' = asked
    PROVE  /\ SnapMoves /\ Continues /\ Sends /\ Emptied
           /\ SnapOK' /\ WindowsOK' /\ OwnerOK'
           /\ pref' \in {pref, NoOrigin} /\ served' \in {0, served} /\ (w = Main => served' = 0)
           /\ \/ /\ Ends(w) /\ snap' = Cleared /\ snap'.rev = snap.rev + 1 /\ snap'.phase = "blocked"
                 /\ gen' = gen + 1
                 /\ box' = Deliver(b, snap', IF w = Main THEN Window \ {Main} ELSE Window)
              \/ ~ Ends(w) /\ snap' = snap /\ gen' = gen /\ served' = served /\ box' = b
           /\ flight' = flight /\ flights' = flights
           /\ \A v \in Window \ {w} : win'[v] = win[v]
           /\ win'[w].att = NoAttempt /\ win'[w].api = NoToken /\ win'[w].bad = FALSE
           /\ win'[w].status = "disconnected"
           /\ win'[w].auth = IF w = Main \/ win[w].auth.phase = "connected" THEN snap'
                             ELSE win[w].auth
<1>0. Main \in Window /\ snap.rev \in Nat /\ snap \in Session /\ gen \in Nat
    BY Origins, SessionFields DEF Sound, SnapOK
<1>1. PICK c : c = Cleared
    OBVIOUS
<1>2. c \in Session /\ c.rev = snap.rev + 1 /\ c.phase = "blocked"
    BY <1>0, <1>1, ClearedSession
<1>3. /\ snap' = IF Ends(w) THEN c ELSE snap
      /\ gen' = IF Ends(w) THEN gen + 1 ELSE gen
      /\ served' = IF Ends(w) THEN 0 ELSE served
      /\ box' = IF Ends(w) THEN Deliver(b, snap', IF w = Main THEN Window \ {Main} ELSE Window)
                ELSE b
      /\ win' = [win EXCEPT ![w] = [Invalidated(@) EXCEPT
                      !.status = "disconnected",
                      !.auth = IF w = Main \/ win[w].auth.phase = "connected"
                               THEN snap' ELSE win[w].auth]]
      /\ pref' = IF w = Main THEN NoOrigin ELSE pref
      /\ flight' = flight /\ flights' = flights
    BY <1>1 DEF Block, Ends
<1>4. snap' \in Session
    BY <1>0, <1>2, <1>3
<1>5. win \in [Window -> Renderer] /\ win[w] \in Renderer /\ win[w].auth \in Session
    BY RendererFields DEF Sound, WindowsOK
<1>6. PICK sn \in Session : sn = IF w = Main \/ win[w].auth.phase = "connected" THEN snap'
                                 ELSE win[w].auth
    BY <1>4, <1>5
<1>7. PICK y : y = [Invalidated(win[w]) EXCEPT !.status = "disconnected", !.auth = sn]
    OBVIOUS
<1>8. /\ y \in Renderer /\ y.auth = sn /\ y.status = "disconnected" /\ y.api = NoToken
      /\ y.bad = FALSE /\ y.att = NoAttempt
    BY <1>5, <1>7, BlankRenderer, Origins DEF Renderer, Status, Invalidated
<1>9. win' = [win EXCEPT ![w] = y]
    BY <1>3, <1>6, <1>7
<1>10. SnapMoves
    BY <1>0, <1>2, <1>3, <1>4 DEF SnapMoves
<1>11. sn.rev <= snap'.rev
    <2>1. win[w].auth.rev <= snap.rev /\ win[w].auth.rev \in Nat
        BY <1>5, SessionFields DEF Sound, WindowsOK
    <2> QED BY <1>0, <1>2, <1>3, <1>6, <2>1
<1>12. WindowsOK' /\ win'[w] = y /\ \A v \in Window \ {w} : win'[v] = win[v]
    BY <1>8, <1>9, <1>10, <1>11, BlankRenderer, WindowKept
<1>13. Continues
    <2>1. CASE w = Main
        BY <1>8, <1>12, <2>1, BlankRenderer DEF Continues
    <2>2. CASE w # Main
        BY <1>0, <1>12, <2>2 DEF Continues
    <2> QED BY <2>1, <2>2
<1>14. OwnerOK'
    <2>1. CASE w = Main
        BY <1>8, <1>12, <2>1, BlankRenderer DEF OwnerOK
    <2>2. CASE w # Main
        <3>1. win'[Main] = win[Main] /\ asked' = asked
            BY <1>0, <1>12, <2>2
        <3>2. CASE snap' = snap
            BY <3>1, <3>2 DEF Sound, OwnerOK
        <3>3. CASE Ends(w)
            <4>1. win[Main].auth.rev <= snap.rev /\ win[Main].auth.rev \in Nat
                  /\ (win[Main].att.pc # "off" => win[Main].att.rev = win[Main].auth.rev)
                BY <1>0, <1>5, RendererFields, SessionFields DEF Sound, WindowsOK
            <4>a. snap'.rev = snap.rev + 1
                BY <1>2, <1>3, <3>3
            <4>b. win[Main].att.pc # "off" => win[Main].att.rev # snap'.rev
                BY <1>0, <4>1, <4>a
            <4>2. win'[Main].att.pc # "off" => win'[Main].att.rev # snap'.rev
                BY <3>1, <4>b
            <4> QED BY <4>2 DEF OwnerOK
        <3> QED BY <1>3, <3>2, <3>3
    <2> QED BY <2>1, <2>2
<1>15. Sends
    <2>1. CASE Ends(w)
        <3>1. snap'.phase = "blocked" /\ \A v \in Window : open[v] => open'[v]
            BY <1>2, <1>3, <2>1
        <3>2. box' = Deliver(b, snap', IF w = Main THEN Window \ {Main} ELSE Window)
            BY <1>3, <2>1
        <3> QED BY <1>4, <3>1, <3>2, SendsDelivered
    <2>2. CASE ~ Ends(w)
        BY <1>3, <2>2 DEF Sends
    <2> QED BY <2>1, <2>2
<1>16. Emptied /\ SnapOK'
    BY <1>0, <1>2, <1>3, <1>4 DEF Emptied, SnapOK, Sound
<1>17. /\ win'[w].att = NoAttempt /\ win'[w].api = NoToken /\ win'[w].bad = FALSE
       /\ win'[w].status = "disconnected"
       /\ win'[w].auth = IF w = Main \/ win[w].auth.phase = "connected" THEN snap'
                             ELSE win[w].auth
    BY <1>6, <1>8, <1>12
<1>18. \/ /\ Ends(w) /\ snap' = Cleared /\ snap'.rev = snap.rev + 1 /\ snap'.phase = "blocked"
          /\ gen' = gen + 1
          /\ box' = Deliver(b, snap', IF w = Main THEN Window \ {Main} ELSE Window)
       \/ ~ Ends(w) /\ snap' = snap /\ gen' = gen /\ served' = served /\ box' = b
    BY <1>1, <1>2, <1>3
<1>19. /\ pref' \in {pref, NoOrigin} /\ served' \in {0, served} /\ (w = Main => served' = 0)
       /\ flight' = flight /\ flights' = flights
    BY <1>3 DEF Ends
<1> QED BY <1>10, <1>12, <1>13, <1>14, <1>15, <1>16, <1>17, <1>18, <1>19

\* A renderer moves while the session stays as it is: a follower does what it likes, the owner
\* ends its attempt or goes on with it.
LEMMA RendererMoves ==
    ASSUME Sound, NEW w \in Window, NEW y \in Renderer, win' = [win EXCEPT ![w] = y],
           y.auth.rev <= snap.rev,
           y.att.pc # "off" => y.att.rev = y.auth.rev /\ y.att.born <= y.att.rev,
           \/ w # Main \/ y.att.pc = "off"
           \/ /\ win[w].att.pc # "off" /\ y.att.born = win[w].att.born /\ y.att.rev = win[w].att.rev
              /\ y.att.want = win[w].att.want /\ y.att.url = win[w].att.url
              /\ win[w].att.pc = "posting" => y.att.pc = "posting" \/ posts' = {},
           snap' = snap, gen' = gen, asked' = asked,
           open'[w], \A v \in Window \ {w} : open'[v] = open[v]
    PROVE  /\ SnapMoves /\ Continues /\ SnapOK' /\ WindowsOK' /\ OwnerOK'
           /\ win'[w] = y /\ \A v \in Window \ {w} : win'[v] = win[v]
<1>1. SnapMoves /\ SnapOK'
    BY DEF Sound, SnapOK, SnapMoves
<1>2. WindowsOK' /\ win'[w] = y /\ \A v \in Window \ {w} : win'[v] = win[v]
    <2>1. y.auth.rev <= snap'.rev
        OBVIOUS
    <2> QED BY <1>1, <2>1, WindowKept
<1>3. CASE w # Main
    <2>1. win'[Main] = win[Main]
        BY <1>2, <1>3, Origins
    <2> QED BY <1>1, <1>2, <2>1 DEF Continues, OwnerOK, Sound
<1>4. CASE w = Main
    <2>1. win'[Main] = y
        BY <1>2, <1>4
    <2>2. CASE y.att.pc = "off"
        BY <1>1, <1>2, <2>1, <2>2 DEF Continues, OwnerOK
    <2>3. CASE y.att.pc # "off"
        <3>1. /\ win[Main].att.pc # "off" /\ y.att.born = win[Main].att.born
              /\ y.att.rev = win[Main].att.rev
              /\ y.att.want = win[Main].att.want /\ y.att.url = win[Main].att.url
              /\ win[Main].att.pc = "posting" => y.att.pc = "posting" \/ posts' = {}
            BY <1>4, <2>3
        <3>2. Continues
            BY <2>1, <3>1 DEF Continues
        <3>3. OwnerOK'
            BY <2>1, <3>1 DEF OwnerOK, Sound
        <3> QED BY <1>1, <1>2, <3>2, <3>3
    <2> QED BY <2>2, <2>3
<1> QED BY <1>3, <1>4

\* The mail is left alone, or messages are taken from it.
LEMMA MailOnlyTaken ==
    ASSUME Sound, box' \in Boxes, \A v \in Window : Mail(box'[v]) \subseteq Mail(box[v])
    PROVE  Sends
BY DEF Sends

\* The owner commits a credential of its session's backend.
LEMMA Commits ==
    ASSUME Sound, open[Main], NEW t \in Token, NEW rem \in BOOLEAN, t.url = snap.url,
           snap.url \in Origin,
           win[Main].att.pc \notin {"off", "posting"}, win[Main].att.rev = snap.rev,
           NEW b \in Boxes, \A v \in Window : Mail(b[v]) \subseteq Mail(box[v]),
           snap' = Committed(t, rem), gen' = gen, box' = Deliver(b, snap', Window \ {Main}),
           NEW y \in Renderer, win' = [win EXCEPT ![Main] = y],
           y.auth = snap', y.att.pc = "live", y.att.rev = snap'.rev, y.att.born = win[Main].att.born,
           y.att.url = win[Main].att.url, y.att.want = win[Main].att.want,
           open' = open, asked' = asked
    PROVE  /\ SnapMoves /\ Continues /\ Sends /\ Emptied /\ SnapOK' /\ WindowsOK' /\ OwnerOK'
           /\ snap'.rev = snap.rev + 1 /\ snap'.phase = "connected" /\ snap'.url = snap.url
           /\ snap'.token = t
           /\ win'[Main] = y /\ \A v \in Window \ {Main} : win'[v] = win[v]
<1>1. /\ snap \in Session /\ snap.rev \in Nat /\ snap.rev > 0 /\ snap.url \in Origin
      /\ Main \in Window
    BY Origins, SessionFields DEF Sound, SnapOK
<1>2. /\ snap' \in Session /\ snap'.rev = snap.rev + 1 /\ snap'.phase = "connected"
      /\ snap'.url = snap.url /\ snap'.token = t
    BY <1>1, CommittedSession
<1>3. SnapMoves /\ SnapOK'
    BY <1>1, <1>2 DEF Sound, SnapOK, SnapMoves
<1>4. win[Main] \in Renderer /\ win[Main].att.born \in Nat /\ win[Main].att.born <= snap.rev
    <2>1. win[Main] \in Renderer
        BY <1>1 DEF Sound, WindowsOK
    <2> QED BY <1>1, <2>1, RendererFields, AttemptFields DEF Sound, WindowsOK
<1>5. WindowsOK' /\ win'[Main] = y /\ \A v \in Window \ {Main} : win'[v] = win[v]
    <2>1. y.auth.rev <= snap'.rev /\ y.att.rev = y.auth.rev /\ y.att.born <= y.att.rev
        BY <1>1, <1>2, <1>4
    <2> QED BY <1>1, <1>3, <2>1, WindowKept
<1>6. Continues
    BY <1>5 DEF Continues
<1>7. OwnerOK'
    BY <1>2, <1>5 DEF OwnerOK, Sound
<1>8. Sends
    <2>1. snap' \in Session /\ ~ (Main \in Window \ {Main}) /\ \A v \in Window : open[v] => open'[v]
        BY <1>2
    <2> QED BY <2>1, SendsDelivered
<1> QED BY <1>2, <1>3, <1>5, <1>6, <1>7, <1>8 DEF Emptied

(***************************************************************************)
(* What a step does: every action has one of these shapes                  *)
(***************************************************************************)
Others(w) == \A v \in Window \ {w} : win'[v] = win[v]

\* The windows that are told have the new snapshot in their mail; nothing else is sent, but that a
\* local() call ended in no credential.
Informs(told) ==
    /\ \A v \in told : open[v] => [kind |-> "snapshot", snap |-> snap'] \in Mail(box'[v])
    /\ \A v \in Window : \A m \in Mail(box'[v]) :
          \/ m \in Mail(box[v])
          \/ m.kind = "snapshot" /\ m.snap = snap'
          \/ m.kind = "local" /\ m.token = NoToken

\* The session as it was.
SameSession == snap' = snap /\ gen' = gen /\ asked' = asked /\ served' = served

\* Window w goes on with its attempt, or with the session it uses.
Works(w) ==
    /\ open[w] /\ open' = open /\ Others(w) /\ SameSession /\ box' = box
    /\ win[w].att.pc # "off" /\ win'[w].att.pc # "off"
    /\ win'[w].auth = win[w].auth /\ win'[w].att.url = win[w].att.url
    /\ win'[w].att.born = win[w].att.born /\ win'[w].att.rev = win[w].att.rev
    /\ win'[w].att.cand = win[w].att.cand \/ win'[w].att.cand.url # Local
    /\ \/ /\ win[w].att.pc # "live" /\ win'[w].att.pc # "live"
          /\ win'[w].api = win[w].api /\ win'[w].bad = win[w].bad
          /\ win'[w].status \in {"connected", "reconnecting"} => win'[w].status = win[w].status
       \/ /\ win[w].att.pc = "live" /\ win'[w].att.pc = "live"
          /\ win'[w].api = win[w].api /\ win'[w].att.cand = win[w].att.cand
          /\ win'[w].bad => win[w].bad \/ win[w].api \in refused'
       \/ /\ w # Main /\ win'[w].att.pc = "live"
          /\ win'[w].api = win[w].att.cand /\ win'[w].bad = FALSE
    /\ w # Main /\ win[w].att.pc \in {"verify", "live"} =>
          /\ win'[w].att.pc \in {"verify", "live"} /\ win'[w].att.cand = win[w].att.cand
          /\ win'[w].att.ans = "denied" => win[w].att.ans = "denied" \/ win[w].att.cand \in refused'

\* A backend refuses the credential window w uses.
Refuses(w) ==
    /\ open[w] /\ open' = open /\ Others(w) /\ SameSession /\ box' = box
    /\ win[w].status \in {"connected", "reconnecting"}
    /\ win'[w].auth = win[w].auth /\ win'[w].att = win[w].att /\ win'[w].status = win[w].status
    /\ win'[w].api = win[w].api /\ win[w].api \in refused'

\* Why a window that follows the owner stops: a refusal, when it is at a step it can be at.
Cause(w) == \/ win[w].bad \/ win[w].att.ans = "denied"
            \/ win[w].att.pc \notin {"off", "verify", "live"}

\* The attempt of window w is over, and with it the session if it was in force.
Stops(w) ==
    /\ open[w] /\ open' = open /\ Others(w) /\ (w = Main \/ Cause(w))
    /\ \/ asked' = asked /\ (w = Main => served' = 0)
       \/ asked' = asked + 1 /\ w = Main /\ served' = 0
    /\ \/ /\ Ends(w) /\ snap' = Cleared /\ snap'.rev = snap.rev + 1 /\ snap'.phase = "blocked"
          /\ served' = 0 /\ gen' = gen + 1
          /\ Informs(IF w = Main THEN Window \ {Main} ELSE Window)
       \/ ~ Ends(w) /\ snap' = snap /\ gen' = gen /\ served' = served /\ box' = box
    /\ win'[w].att = NoAttempt /\ win'[w].api = NoToken /\ win'[w].bad = FALSE
    /\ win'[w].status = "disconnected"
    /\ win'[w].auth = IF w = Main \/ win[w].auth.phase = "connected" THEN snap' ELSE win[w].auth

\* The owner begins an attempt, at the user's request or because its document follows one.
Asks ==
    /\ open'[Main] /\ (\A v \in Window \ {Main} : open'[v] = open[v]) /\ Others(Main)
    /\ asked' \in {asked, asked + 1} /\ served' = 0
    /\ snap'.rev = snap.rev + 1 /\ snap'.phase = "pending" /\ snap'.token = NoToken
    /\ Informs(Window \ {Main})
    /\ win'[Main].auth = snap' /\ win'[Main].status = "checking"
    /\ win'[Main].api = NoToken /\ win'[Main].bad = FALSE
    /\ win'[Main].att.pc \notin {"off", "live"} /\ win'[Main].att.born = snap.rev + 1
    /\ win'[Main].att.cand.url = Local => win'[Main].att.cand = win[Main].api
    /\ gen' \in {gen, gen + 1}

\* The owner's attempt has shown the credential to be good, or main's local startup has.
Shown(t) == \/ t = win[Main].att.cand
            \/ \E m \in Mail(box[Main]) : m.kind = "local" /\ m.born = win[Main].att.born /\ m.token = t

\* A session comes into force, or is remembered.
Takes ==
    /\ open[Main] /\ open' = open /\ Others(Main)
    /\ asked' = asked /\ served' \in {asked, served}
    /\ snap'.rev = snap.rev + 1 /\ snap'.phase = "connected" /\ snap'.url = snap.url
    /\ Informs(Window \ {Main})
    /\ win'[Main].auth = snap' /\ win'[Main].att.pc = "live"
    /\ win'[Main].api = snap'.token /\ win'[Main].att.cand = snap'.token
    /\ win'[Main].bad => win[Main].bad /\ win'[Main].api = win[Main].api
    /\ gen' = gen /\ win[Main].att.pc # "off" /\ win[Main].att.rev = snap.rev
    /\ win'[Main].att.born = win[Main].att.born
    /\ Shown(snap'.token)

\* Window w shows the snapshot sn.
Shows(w, sn) == /\ win'[w].auth.rev = sn.rev /\ win'[w].auth.phase = sn.phase
                /\ win'[w].auth.url = sn.url /\ win'[w].auth.token = sn.token

\* Window w follows the snapshot sn, that it has read as it loads or takes from its mail.
Follows(w, sn) ==
    /\ open'[w] /\ (\A v \in Window \ {w} : open'[v] = open[v]) /\ Others(w) /\ SameSession
    /\ \A v \in Window \ {w} : box'[v] = box[v]
    /\ \/ ~ open[w] /\ sn = snap /\ Mail(box'[w]) = Mail(box[w])
       \/ open[w] /\ \E m \in Mail(box[w]) : /\ m.kind = "snapshot" /\ m.snap = sn
                                             /\ Mail(box[w]) = Mail(box'[w]) \cup {m}
    /\ \/ Outdated(w, sn) /\ win'[w] = win[w]
       \/ /\ ~ Outdated(w, sn) /\ sn.phase = "connected" /\ win[w].status = "connected"
          /\ win[w].att.pc # "off" /\ sn.token = win[w].api /\ w # Main
          /\ Shows(w, sn) /\ win'[w].att.pc = win[w].att.pc
          /\ win'[w].att.cand = win[w].att.cand /\ win'[w].att.ans = win[w].att.ans
          /\ win'[w].status = "connected" /\ win'[w].api = win[w].api /\ win'[w].bad = win[w].bad
       \/ /\ ~ Outdated(w, sn) /\ sn.phase = "connected"
          /\ Shows(w, sn) /\ win'[w].att.pc = "verify" /\ win'[w].att.cand = sn.token
          /\ win'[w].att.ans = "none"
          /\ win'[w].status = "checking" /\ win'[w].api = NoToken /\ win'[w].bad = FALSE
       \/ /\ ~ Outdated(w, sn) /\ sn.phase # "connected"
          /\ ~ (w = Main /\ sn.phase = "pending" /\ sn.localPending)
          /\ Shows(w, sn) /\ win'[w].att = NoAttempt
          /\ win'[w].status \in {"checking", "disconnected"} /\ win'[w].api = NoToken
          /\ win'[w].bad = FALSE

\* Window w's document is gone; an attempt the owner still made is over, unless the main process
\* starts the local backend for it.
Leaves(w) ==
    /\ open[w] /\ ~ open'[w] /\ (\A v \in Window \ {w} : open'[v] = open[v]) /\ Others(w)
    /\ win'[w] = Blank /\ asked' = asked
    /\ \/ /\ w = Main /\ snap.phase = "pending" /\ snap' = Cleared /\ snap'.rev = snap.rev + 1
          /\ snap'.phase = "blocked" /\ gen' = gen + 1 /\ served' = 0 /\ Informs(Window \ {w})
       \/ /\ ~ (w = Main /\ snap.phase = "pending" /\ ~ snap.localPending)
          /\ snap' = snap /\ gen' = gen /\ served' = served
          /\ \A v \in Window \ {w} : box'[v] = box[v]

\* The app starts again.
Restarts ==
    /\ open' = [w \in Window |-> FALSE] /\ win' = [w \in Window |-> Blank]
    /\ box' = [w \in Window |-> <<>>] /\ snap' = Initial /\ gen' = 0 /\ served' = 0
    /\ asked' = asked /\ calls' = {} /\ posts' = {} /\ flights' = {} /\ flight' = 0

\* The message brings the credential of main's local startup: the call it answers has returned.
Returned(m) == \E c \in calls, f \in flights :
                   /\ c.rev = snap.rev /\ calls' = calls \ {c} /\ m.born = c.rev
                   /\ f.gen = gen /\ f.st = "ok" /\ m.token = f.token

\* The renderers are left alone, and what they have been sent; only a local() call may return.
Still ==
    /\ win' = win /\ open' = open /\ asked' = asked /\ served' = served /\ gen' = gen
    /\ snap' = snap \/ (snap.phase = "pending" /\ snap' = [snap EXCEPT !.localPending = TRUE])
    /\ \A v \in Window : \A m \in Message : m.kind = "snapshot" =>
           (m \in Mail(box'[v]) <=> m \in Mail(box[v]))
    /\ \A v \in Window : \A m \in Mail(box'[v]) :
          m \in Mail(box[v]) \/ (m.kind = "local" /\ (m.token = NoToken \/ Returned(m)))

\* The main process gives the session up.
GivesUp ==
    /\ win' = win /\ open' = open /\ asked' = asked /\ served' = 0
    /\ snap.phase = "pending" /\ snap' = Cleared /\ snap'.rev = snap.rev + 1
    /\ snap'.phase = "blocked" /\ gen' = gen + 1 /\ Informs(Window)

\* Bounds stay bounds as they are spent.
LEMMA Spending ==
    ASSUME left \in Bound,
           NEW what \in {"asks", "leaves", "revokes", "faults", "saves", "restarts"}, Spend(what)
    PROVE  left' \in Bound
BY DEF Spend, Bound

\* Requests are counted, and the session in force answers the last one or none.
LEMMA AskedKept ==
    ASSUME Sound, left' \in Bound, document' \in Nat, open' \in [Window -> BOOLEAN],
           open'[Main] => open[Main] \/ asked' > 0,
           snap' = snap \/ asked' > 0 \/ open[Main],
           \/ asked' = asked /\ served' \in {0, served, asked}
           \/ asked' = asked + 1 /\ served' = 0
    PROVE  AskedOK'
BY DEF Sound, AskedOK

\* The backends are left alone.
LEMMA BackendsKept == ASSUME Sound, UNCHANGED backendVars PROVE BackendsOK'
BY DEF Sound, BackendsOK, backendVars

\* The local startups are left alone.
LEMMA FlightsKept == ASSUME Sound, UNCHANGED <<flight, flights>> PROVE FlightsOK'
BY DEF Sound, FlightsOK

\* What is on disk is left alone, or the preference is forgotten.
LEMMA DiskKept == ASSUME Sound, stored' = stored, pref' \in {pref, NoOrigin} PROVE DiskOK'
BY DEF Sound, DiskOK

\* The invariant after a step, part by part.
LEMMA SoundParts ==
    ASSUME BackendsOK', SnapOK', FlightsOK', DiskOK', AskedOK', WindowsOK', OwnerOK', PostsOK',
           CallsOK', MailOK'
    PROVE  Sound'
BY DEF Sound

\* What is in the mail once a snapshot is sent.
LEMMA Delivering ==
    ASSUME NEW b \in Boxes, NEW sn \in Session, NEW told, NEW d, d = Deliver(b, sn, told)
    PROVE  \A v \in Window :
              /\ v \in told /\ open[v] => [kind |-> "snapshot", snap |-> sn] \in Mail(d[v])
              /\ \A m \in Mail(d[v]) : m \in Mail(b[v]) \/ m = [kind |-> "snapshot", snap |-> sn]
<1>1. \A v \in Window :
         Mail(d[v]) = IF open[v] /\ v \in told
                      THEN Mail(b[v]) \cup {[kind |-> "snapshot", snap |-> sn]} ELSE Mail(b[v])
    BY MailDelivered
<1> QED BY <1>1

\* The snapshot is sent, from a mailbox that only lost messages.
LEMMA Informing ==
    ASSUME NEW b \in Boxes, \A v \in Window : Mail(b[v]) \subseteq Mail(box[v]),
           snap' \in Session, NEW told \in SUBSET Window,
           box' = Deliver(b, snap', told)
    PROVE  Informs(told)
<1>1. \A v \in Window :
         /\ v \in told /\ open[v] => [kind |-> "snapshot", snap |-> snap'] \in Mail(box'[v])
         /\ \A m \in Mail(box'[v]) :
                m \in Mail(b[v]) \/ m = [kind |-> "snapshot", snap |-> snap']
    <2>1. PICK sn, d : sn = snap' /\ d = box'
        OBVIOUS
    <2>2. \A v \in Window :
              /\ v \in told /\ open[v] => [kind |-> "snapshot", snap |-> sn] \in Mail(d[v])
              /\ \A m \in Mail(d[v]) : m \in Mail(b[v]) \/ m = [kind |-> "snapshot", snap |-> sn]
        BY <2>1, Delivering
    <2> QED BY <2>1, <2>2
<1>2. ASSUME NEW v \in Window, NEW m \in Mail(box'[v])
      PROVE  m \in Mail(box[v]) \/ (m.kind = "snapshot" /\ m.snap = snap')
    BY <1>1, <1>2
<1> QED BY <1>1, <1>2 DEF Informs

\* A settled startup is forgotten, or stays.
LEMMA ForgottenFlights ==
    ASSUME Sound, FlightForgotten
    PROVE  FlightsOK' /\ flights' \subseteq flights
BY DEF Sound, FlightsOK, FlightForgotten

(***************************************************************************)
(* The user                                                                *)
(***************************************************************************)
\* Connecting to a backend.
LEMMA SoundConnectRemote ==
    ASSUME Sound, NEW o \in Remote, NEW invited \in BOOLEAN, ConnectRemote(o, invited)
    PROVE  Sound' /\ Asks
<1>0. o \in Origin /\ Main \in Window /\ asked \in Nat /\ asked' = asked + 1 /\ open[Main]
      /\ left \in Bound /\ box \in Boxes
    BY Origins DEF Sound, AskedOK, MailOK, ConnectRemote, Origin
<1>1. PICK pc \in {"queue", "health"}, cand \in Token, rem \in BOOLEAN :
          /\ Fits(cand, o)
          /\ snap' = Begun(o) /\ gen' = BegunGen(o)
          /\ box' = Deliver(box, snap', Window \ {Main})
          /\ win' = [win EXCEPT ![Main] = Attempting(@, snap', o, pc, cand, rem, asked')]
          /\ served' = 0
    <2>1. CASE invited
        BY <2>1, Origins DEF ConnectRemote, Begin, Fits
    <2>2. CASE ~ invited
        <3>1. Saved(o) \in Token /\ Fits(Saved(o), o)
            <4>1. win[Main].api \in Token /\ stored[o] \in Token /\ Fits(stored[o], o)
                BY <1>0, RendererFields DEF Sound, WindowsOK, DiskOK
            <4> QED BY <4>1 DEF Saved, Fits
        <3>2. SavedIsRemembered(o) \in BOOLEAN
            <4>1. win[Main].auth.rem \in BOOLEAN
                BY <1>0, RendererFields, SessionFields DEF Sound, WindowsOK
            <4> QED BY <4>1 DEF SavedIsRemembered
        <3>3. /\ snap' = Begun(o) /\ gen' = BegunGen(o)
              /\ box' = Deliver(box, snap', Window \ {Main})
              /\ win' = [win EXCEPT ![Main] = Attempting(@, snap', o, "health", Saved(o),
                                                         SavedIsRemembered(o), asked')]
              /\ served' = 0
            BY <2>2 DEF ConnectRemote, Begin
        <3> HIDE DEF Saved, SavedIsRemembered
        <3> QED BY <3>1, <3>2, <3>3
    <2> QED BY <2>1, <2>2
<1>2. /\ UNCHANGED <<backendVars, flight, flights, calls, open, document, posts, stored, refused>>
      /\ pref' = NoOrigin /\ Spend("asks")
    BY DEF ConnectRemote
<1>3. /\ SnapMoves /\ Continues /\ Sends /\ Emptied
      /\ SnapOK' /\ WindowsOK' /\ OwnerOK'
      /\ snap'.rev = snap.rev + 1 /\ snap'.phase = "pending" /\ snap'.token = NoToken
      /\ Others(Main)
      /\ win'[Main].auth = snap' /\ win'[Main].status = "checking"
      /\ win'[Main].api = NoToken /\ win'[Main].bad = FALSE
      /\ win'[Main].att.pc = pc /\ win'[Main].att.born = snap.rev + 1
      /\ win'[Main].att.cand = cand
    <2>1. /\ pc \in Step \ {"off", "live"} /\ asked' \in Nat /\ open'[Main]
          /\ (\A v \in Window \ {Main} : open'[v] = open[v])
          /\ \A v \in Window : Mail(box[v]) \subseteq Mail(box[v])
        BY <1>0, <1>2 DEF Step
    <2> QED BY <1>0, <1>1, <2>1, Begins DEF Others
<1>4. PostsOK' /\ CallsOK' /\ MailOK'
    BY <1>0, <1>2, <1>3, WorkKept
<1>5. AskedOK'
    BY <1>0, <1>1, <1>2, AskedKept, Spending DEF Sound, AskedOK
<1>6. Asks
    <2>1. Informs(Window \ {Main})
        BY <1>0, <1>1, <1>3, Informing DEF SnapMoves
    <2>2. cand.url # Local /\ gen' \in {gen, gen + 1}
        BY <1>1, NewGeneration, Elsewhere
    <2> QED BY <1>0, <1>1, <1>2, <1>3, <2>1, <2>2 DEF Asks
<1> QED BY <1>2, <1>3, <1>4, <1>5, <1>6, BackendsKept, FlightsKept, DiskKept, SoundParts

\* The owner starts the local backend, at the user's request or because its document follows.
LEMMA SoundStartsLocal ==
    ASSUME Sound, NEW want, want = asked', asked' \in {asked, asked + 1}, asked' > 0,
           StartsLocal(want, box), open' \in [Window -> BOOLEAN], open'[Main],
           \A v \in Window \ {Main} : open'[v] = open[v],
           UNCHANGED <<backendVars, flight, flights, document, posts, stored>>, left' \in Bound
    PROVE  Sound' /\ Asks
<1>0. /\ Local \in Origin /\ Main \in Window /\ asked \in Nat /\ asked' \in Nat /\ box \in Boxes
      /\ snap.rev \in Nat /\ document \in Nat
    BY Origins, SessionFields DEF Sound, AskedOK, MailOK, SnapOK
<1>1. PICK pc \in {"local", "starting"}, cand \in Token :
          /\ Fits(cand, Local) /\ (cand.url = Local => cand = win[Main].api)
          /\ snap' = Begun(Local) /\ gen' = BegunGen(Local)
          /\ box' = Deliver(box, snap', Window \ {Main})
          /\ win' = [win EXCEPT ![Main] = Attempting(@, snap', Local, pc, cand, FALSE, asked')]
          /\ served' = 0
    <2>1. PICK cached \in Token : /\ Fits(cached, Local)
                                  /\ cached.url = Local => cached = win[Main].api
                                  /\ cached = IF win[Main].api.url = Local THEN win[Main].api ELSE NoToken
        <3>1. win[Main].api \in Token
            BY <1>0, RendererFields DEF Sound, WindowsOK
        <3> QED BY <3>1, Origins DEF Fits
    <2>2. /\ snap' = Begun(Local) /\ gen' = BegunGen(Local)
          /\ box' = Deliver(box, snap', Window \ {Main})
          /\ win' = [win EXCEPT ![Main] = Attempting(@, snap', Local,
                        IF cached = NoToken THEN "local" ELSE "starting", cached, FALSE, asked')]
          /\ served' = 0
        BY <2>1 DEF StartsLocal, Begin
    <2>3. (IF cached = NoToken THEN "local" ELSE "starting") \in {"local", "starting"}
        OBVIOUS
    <2> QED BY <2>1, <2>2, <2>3
<1>2. /\ pref' = NoOrigin
      /\ \/ calls' = calls
         \/ calls' = calls \cup {[doc |-> document, rev |-> snap'.rev, gen |-> 0,
                                  st |-> "sent", want |-> asked']}
    BY DEF StartsLocal
<1>3. /\ SnapMoves /\ Continues /\ Sends /\ Emptied
      /\ SnapOK' /\ WindowsOK' /\ OwnerOK'
      /\ snap'.rev = snap.rev + 1 /\ snap'.phase = "pending" /\ snap'.token = NoToken
      /\ Others(Main)
      /\ win'[Main].auth = snap' /\ win'[Main].status = "checking"
      /\ win'[Main].api = NoToken /\ win'[Main].bad = FALSE
      /\ win'[Main].att.pc = pc /\ win'[Main].att.born = snap.rev + 1
      /\ win'[Main].att.want = asked' /\ win'[Main].att.url = Local
      /\ win'[Main].att.cand = cand
    <2>1. /\ pc \in Step \ {"off", "live"} /\ pc \in AnyBackend /\ FALSE \in BOOLEAN
          /\ \A v \in Window : Mail(box[v]) \subseteq Mail(box[v])
        BY DEF Step, AnyBackend
    <2> QED BY <1>0, <1>1, <2>1, Begins DEF Others
<1>4. PostsOK' /\ MailOK' /\ (\A c \in calls : CallOK(c)')
    BY <1>0, <1>3, WorkKept
<1>5. CallsOK'
    <2>1. ASSUME NEW c, c = [doc |-> document, rev |-> snap'.rev, gen |-> 0,
                             st |-> "sent", want |-> asked']
          PROVE  CallOK(c)'
        <3>1. c \in Call /\ c.st = "sent" /\ c.rev = snap'.rev /\ c.want = asked'
            BY <1>0, <1>3, <2>1 DEF Call
        <3>2. c.rev <= snap'.rev
            BY <1>0, <1>3, <3>1
        <3> QED BY <1>3, <3>1, <3>2 DEF CallOK, Mine
    <2> QED BY <1>2, <1>4, <2>1 DEF CallsOK
<1>6. AskedOK'
    BY <1>0, <1>1, AskedKept
<1>7. Asks
    <2>1. Informs(Window \ {Main})
        BY <1>0, <1>1, <1>3, Informing DEF SnapMoves
    <2>2. gen' \in {gen, gen + 1}
        BY <1>1, NewGeneration
    <2> QED BY <1>1, <1>3, <2>1, <2>2 DEF Asks
<1> QED BY <1>2, <1>3, <1>4, <1>5, <1>6, <1>7, BackendsKept, FlightsKept, DiskKept, SoundParts

\* The user starts the local backend.
LEMMA SoundStartLocal == ASSUME Sound, StartLocal PROVE Sound' /\ Asks
<1>1. /\ asked \in Nat /\ asked' = asked + 1 /\ open[Main] /\ left \in Bound
      /\ open \in [Window -> BOOLEAN] /\ Spend("asks")
      /\ UNCHANGED <<backendVars, flight, flights, open, document, posts, stored>>
    BY DEF Sound, AskedOK, StartLocal
<1>2. PICK want : want = asked' /\ StartsLocal(want, box)
    BY DEF StartLocal
<1>3. left' \in Bound
    BY <1>1, Spending
<1> QED BY <1>1, <1>2, <1>3, SoundStartsLocal

\* A window stops; registrations may be over, and the owner may have taken a message.
LEMMA StopsFrom ==
    ASSUME Sound, NEW w \in Window, open[w], w = Main \/ Cause(w), NEW b \in Boxes,
           \A v \in Window : Mail(b[v]) \subseteq Mail(box[v]), w = Main \/ b = box,
           Block(w, b), open' = open,
           asked' = asked \/ (w = Main /\ asked' = asked + 1),
           UNCHANGED <<calls, document, stored>>, posts' \subseteq posts, left' \in Bound
    PROVE  /\ SnapOK' /\ FlightsOK' /\ DiskOK' /\ AskedOK' /\ WindowsOK' /\ OwnerOK'
           /\ PostsOK' /\ CallsOK' /\ MailOK' /\ Stops(w)
<1>0. /\ asked \in Nat /\ Main \in Window /\ document \in Nat
      /\ open \in [Window -> BOOLEAN]
    BY Origins DEF Sound, AskedOK
<1>1. /\ SnapMoves /\ Continues /\ Sends /\ Emptied
      /\ SnapOK' /\ WindowsOK' /\ OwnerOK'
      /\ pref' \in {pref, NoOrigin} /\ served' \in {0, served} /\ (w = Main => served' = 0)
      /\ \/ /\ Ends(w) /\ snap' = Cleared /\ snap'.rev = snap.rev + 1 /\ snap'.phase = "blocked"
            /\ gen' = gen + 1
            /\ box' = Deliver(b, snap', IF w = Main THEN Window \ {Main} ELSE Window)
         \/ ~ Ends(w) /\ snap' = snap /\ gen' = gen /\ served' = served /\ box' = b
      /\ flight' = flight /\ flights' = flights
      /\ Others(w)
      /\ win'[w].att = NoAttempt /\ win'[w].api = NoToken /\ win'[w].bad = FALSE
      /\ win'[w].status = "disconnected"
      /\ win'[w].auth = IF w = Main \/ win[w].auth.phase = "connected" THEN snap'
                             ELSE win[w].auth
    BY <1>0, Blocks DEF Others
<1>2. PostsOK' /\ CallsOK' /\ MailOK'
    <2>1. posts' # {} => open'[Main]
        BY DEF Sound, PostsOK
    <2> QED BY <1>1, <2>1, WorkKept
<1>3. AskedOK'
    <2>1. CASE snap' = snap
        BY <1>0, <1>1, <2>1, AskedKept
    <2>2. CASE Ends(w)
        <3>1. asked' > 0 \/ open[Main]
            <4>1. CASE w = Main
                BY <4>1
            <4>2. CASE w # Main
                <5>1. snap.phase = "connected"
                    BY <2>2, <4>2 DEF Ends, RejectAccepted
                <5>2. snap.rev > 0
                    BY <5>1, SessionFields DEF Sound, SnapOK
                <5> QED BY <1>0, <4>2, <5>2 DEF Sound, AskedOK
            <4> QED BY <4>1, <4>2
        <3> QED BY <1>0, <1>1, <3>1, AskedKept
    <2> QED BY <1>1, <2>1, <2>2
<1>4. Stops(w)
    <2>1. CASE Ends(w)
        <3>1. box' = Deliver(b, snap', IF w = Main THEN Window \ {Main} ELSE Window)
              /\ (IF w = Main THEN Window \ {Main} ELSE Window) \in SUBSET Window
            BY <1>1, <2>1
        <3>2. Informs(IF w = Main THEN Window \ {Main} ELSE Window)
            BY <1>0, <1>1, <3>1, Informing DEF SnapMoves
        <3>3. served' = 0
            BY <2>1 DEF Block, Ends
        <3> QED BY <1>1, <2>1, <3>2, <3>3 DEF Stops
    <2>2. CASE ~ Ends(w)
        BY <1>1, <2>2 DEF Stops, Ends
    <2> QED BY <2>1, <2>2
<1> QED BY <1>1, <1>2, <1>3, <1>4, FlightsKept, DiskKept

\* A window stops at a step that takes nothing from its mail.
LEMMA StopsKept ==
    ASSUME Sound, NEW w \in Window, open[w], w = Main \/ Cause(w), Block(w, box), open' = open,
           asked' = asked \/ (w = Main /\ asked' = asked + 1),
           UNCHANGED <<calls, document, stored>>, posts' \subseteq posts, left' \in Bound
    PROVE  /\ SnapOK' /\ FlightsOK' /\ DiskOK' /\ AskedOK' /\ WindowsOK' /\ OwnerOK'
           /\ PostsOK' /\ CallsOK' /\ MailOK' /\ Stops(w)
<1>1. box \in Boxes /\ \A v \in Window : Mail(box[v]) \subseteq Mail(box[v])
    BY DEF Sound, MailOK
<1> QED BY <1>1, StopsFrom

\* The user disconnects.
LEMMA SoundDisconnect == ASSUME Sound, Disconnect PROVE Sound' /\ Stops(Main)
<1>1. /\ open[Main] /\ asked' = asked + 1 /\ Block(Main, box) /\ left \in Bound /\ Spend("asks")
      /\ UNCHANGED <<backendVars, calls, open, document, posts, stored, refused>>
      /\ Main \in Window
    BY Origins DEF Sound, AskedOK, Disconnect
<1>2. left' \in Bound
    BY <1>1, Spending
<1> QED BY <1>1, <1>2, BackendsKept, StopsKept, SoundParts

(***************************************************************************)
(* An attempt at work                                                      *)
(***************************************************************************)
\* A window that goes on with its attempt keeps the invariant.
LEMMA WorksKept ==
    ASSUME Sound, NEW w \in Window, open[w], NEW y \in Renderer, win' = [win EXCEPT ![w] = y],
           win[w].att.pc # "off", y.att.pc # "off", y.auth = win[w].auth,
           y.att.url = win[w].att.url, y.att.born = win[w].att.born, y.att.rev = win[w].att.rev,
           y.att.want = win[w].att.want,
           w # Main \/ win[w].att.pc # "posting" \/ posts' = {},
           UNCHANGED <<snap, gen, box, asked, served, open, document, flight, flights, calls,
                       stored, pref>>,
           left' \in Bound, posts' \subseteq posts
    PROVE  /\ SnapOK' /\ FlightsOK' /\ DiskOK' /\ AskedOK' /\ WindowsOK' /\ OwnerOK'
           /\ PostsOK' /\ CallsOK' /\ MailOK'
           /\ win'[w] = y /\ Others(w) /\ SameSession /\ box' = box /\ open' = open
<1>1. /\ win[w].auth.rev <= snap.rev /\ win[w].att.rev = win[w].auth.rev
      /\ win[w].att.born <= win[w].att.rev
    BY DEF Sound, WindowsOK
<1>2. y.auth.rev <= snap.rev /\ y.att.rev = y.auth.rev /\ y.att.born <= y.att.rev
    BY <1>1
<1>3. /\ SnapMoves /\ Continues /\ SnapOK' /\ WindowsOK' /\ OwnerOK'
      /\ win'[w] = y /\ Others(w)
    BY <1>2, RendererMoves DEF Others
<1>4. Sends /\ Emptied
    BY DEF Sends, Emptied, Sound, MailOK
<1>5. PostsOK' /\ CallsOK' /\ MailOK'
    <2>1. posts' # {} => open'[Main]
        BY DEF Sound, PostsOK
    <2> QED BY <1>3, <1>4, <2>1, WorkKept
<1>6. AskedOK'
    BY DEF Sound, AskedOK
<1> QED BY <1>3, <1>5, <1>6, FlightsKept, DiskKept DEF SameSession

\* The renderer and the attempt of a window at work.
LEMMA Working ==
    ASSUME Sound, NEW w \in Window, NEW pc \in Step \ {"off"}, At(w, pc)
    PROVE  /\ open[w] /\ win[w].att.pc = pc /\ pc # "off" /\ win[w].auth.rev = win[w].att.rev
           /\ win \in [Window -> Renderer] /\ win[w] \in Renderer /\ win[w].att \in Attempt
           /\ win[w].att.url \in Origin /\ win[w].att.cand \in Token
           /\ Fits(win[w].att.cand, win[w].att.url)
           /\ pc \notin AnyBackend => win[w].att.url \in Remote
<1>1. win \in [Window -> Renderer] /\ win[w] \in Renderer /\ win[w].att \in Attempt
    BY RendererFields DEF Sound, WindowsOK
<1> QED BY <1>1, AttemptFields DEF At, Current

\* The answer of a backend's health check.
LEMMA SoundHealthAnswered ==
    ASSUME Sound, NEW w \in Window, HealthAnswered(w) PROVE Sound' /\ (Works(w) \/ Stops(w))
<1>1. CASE /\ At(w, "health")
           /\ win' = [win EXCEPT ![w].att.pc = IF win[w].att.cand = NoToken
                                           THEN "pair" ELSE "access",
                             ![w].status = IF win[w].att.cand = NoToken
                                           THEN "pending_approval" ELSE @]
           /\ UNCHANGED onlyWin
    <2>1. /\ open[w] /\ win[w].att.pc = "health" /\ win \in [Window -> Renderer]
          /\ win[w] \in Renderer /\ win[w].att \in Attempt /\ win[w].att.url \in Remote
          /\ win[w].att.url \in Origin /\ Fits(win[w].att.cand, win[w].att.url)
        BY <1>1, Working DEF Step, AnyBackend
    <2>a. PICK pc \in {"pair", "access"}, status \in Status :
              /\ status \in {"pending_approval", win[w].status}
              /\ win' = [win EXCEPT ![w].att.pc = pc, ![w].status = status]
        <3>1. win[w].status \in Status
            BY <2>1, RendererFields
        <3>2. CASE win[w].att.cand = NoToken
            BY <1>1, <3>2 DEF Status
        <3>3. CASE win[w].att.cand # NoToken
            BY <1>1, <3>1, <3>3
        <3> QED BY <3>2, <3>3
    <2>2. PICK y : y = [win[w] EXCEPT !.att.pc = pc, !.status = status]
        OBVIOUS
    <2>3. win' = [win EXCEPT ![w] = y]
        BY <2>a, <2>1, <2>2
    <2>4. /\ y \in Renderer /\ y.auth = win[w].auth /\ y.api = win[w].api /\ y.bad = win[w].bad
          /\ y.att.pc = pc /\ y.att.url = win[w].att.url
          /\ y.att.born = win[w].att.born /\ y.att.rev = win[w].att.rev
          /\ y.att.want = win[w].att.want /\ y.att.cand = win[w].att.cand
          /\ y.status = status
        BY <2>1, <2>2, <2>a DEF Renderer, Attempt, Status, Step, AnyBackend
    <2>5. /\ SnapOK' /\ FlightsOK' /\ DiskOK' /\ AskedOK' /\ WindowsOK' /\ OwnerOK'
          /\ PostsOK' /\ CallsOK' /\ MailOK'
          /\ win'[w] = y /\ Others(w) /\ SameSession /\ box' = box /\ open' = open
        <3>1. /\ UNCHANGED <<snap, gen, box, asked, served, open, document, flight, flights, calls,
                             stored, pref>>
              /\ left' \in Bound /\ posts' \subseteq posts
            BY <1>1 DEF onlyWin, mainVars, diskVars, attemptFrame, Sound, AskedOK
        <3> QED BY <2>1, <2>3, <2>4, <3>1, WorksKept
    <2>6. Works(w)
        BY <2>1, <2>4, <2>5, <2>a DEF Works
    <2>7. UNCHANGED backendVars
        BY <1>1 DEF onlyWin
    <2> QED BY <2>5, <2>6, <2>7, BackendsKept, SoundParts
<1>2. CASE /\ At(w, "restoreHealth") /\ stored[win[w].att.url] # NoToken
           /\ win' = [win EXCEPT ![w].att.pc = "restoreAccess",
                                 ![w].att.cand = stored[win[w].att.url]]
           /\ UNCHANGED onlyWin
    <2>1. /\ open[w] /\ win[w].att.pc = "restoreHealth" /\ win \in [Window -> Renderer]
          /\ win[w] \in Renderer /\ win[w].att \in Attempt /\ win[w].att.url \in Remote
          /\ win[w].att.url \in Origin
        BY <1>2, Working DEF Step, AnyBackend
    <2>a. PICK t \in Token : t = stored[win[w].att.url] /\ Fits(t, win[w].att.url)
        BY <2>1 DEF Sound, DiskOK
    <2>2. PICK y : y = [win[w] EXCEPT !.att.pc = "restoreAccess", !.att.cand = t]
        OBVIOUS
    <2>3. win' = [win EXCEPT ![w] = y]
        BY <1>2, <2>1, <2>2, <2>a
    <2>4. /\ y \in Renderer /\ y.auth = win[w].auth /\ y.api = win[w].api /\ y.bad = win[w].bad
          /\ y.att.pc = "restoreAccess" /\ y.att.url = win[w].att.url
          /\ y.att.born = win[w].att.born /\ y.att.rev = win[w].att.rev
          /\ y.att.want = win[w].att.want /\ y.status = win[w].status /\ y.att.cand = t
        BY <2>1, <2>2, <2>a DEF Renderer, Attempt, Status, Step, AnyBackend
    <2>5. /\ SnapOK' /\ FlightsOK' /\ DiskOK' /\ AskedOK' /\ WindowsOK' /\ OwnerOK'
          /\ PostsOK' /\ CallsOK' /\ MailOK'
          /\ win'[w] = y /\ Others(w) /\ SameSession /\ box' = box /\ open' = open
        <3>1. /\ UNCHANGED <<snap, gen, box, asked, served, open, document, flight, flights, calls,
                             stored, pref>>
              /\ left' \in Bound /\ posts' \subseteq posts
            BY <1>2 DEF onlyWin, mainVars, diskVars, attemptFrame, Sound, AskedOK
        <3> QED BY <2>1, <2>3, <2>4, <3>1, WorksKept
    <2>b. t.url # Local
        BY <2>1, <2>a, Elsewhere
    <2>6. Works(w)
        BY <2>1, <2>b, <2>4, <2>5 DEF Works
    <2>7. UNCHANGED backendVars
        BY <1>2 DEF onlyWin
    <2> QED BY <2>5, <2>6, <2>7, BackendsKept, SoundParts
<1>3. CASE /\ \/ At(w, "probe")
              \/ At(w, "restoreHealth") /\ stored[win[w].att.url] = NoToken
           /\ Block(w, box)
           /\ UNCHANGED <<backendVars, refused, attemptFrame>>
    <2>1. open[w] /\ Cause(w)
        BY <1>3 DEF At, Cause
    <2>2. UNCHANGED <<backendVars, open, asked, calls, document, stored, left, posts>>
        BY <1>3 DEF attemptFrame
    <2>3. left' \in Bound /\ posts' \subseteq posts
        BY <2>2 DEF Sound, AskedOK
    <2> QED BY <1>3, <2>1, <2>2, <2>3, BackendsKept, StopsKept, SoundParts
<1> QED BY <1>1, <1>2, <1>3 DEF HealthAnswered

\* A backend's answer to the check of a credential.
LEMMA SoundAccessAnswered ==
    ASSUME Sound, NEW w \in Window, AccessAnswered(w) PROVE Sound' /\ Works(w)
<1>1. PICK pc \in {"access", "restoreAccess", "verify"} : At(w, pc)
    BY DEF AccessAnswered
<1>2. PICK ans \in {"ok", "denied"} :
          /\ win' = [win EXCEPT ![w].att.ans = ans]
          /\ refused' = IF ans = "ok" THEN refused ELSE refused \cup {win[w].att.cand}
    BY DEF AccessAnswered
<1>3. UNCHANGED <<backendVars, mainVars, box, diskVars, served, attemptFrame>>
    BY DEF AccessAnswered
<1>4. /\ open[w] /\ win[w].att.pc = pc /\ win \in [Window -> Renderer]
      /\ win[w] \in Renderer /\ win[w].att \in Attempt
    BY <1>1, Working DEF Step
<1>5. PICK y : y = [win[w] EXCEPT !.att.ans = ans]
    OBVIOUS
<1>6. win' = [win EXCEPT ![w] = y]
    BY <1>2, <1>4, <1>5
<1>7. /\ y \in Renderer /\ y.auth = win[w].auth /\ y.api = win[w].api /\ y.bad = win[w].bad
      /\ y.att.pc = win[w].att.pc /\ y.att.url = win[w].att.url
      /\ y.att.born = win[w].att.born /\ y.att.rev = win[w].att.rev
      /\ y.att.want = win[w].att.want /\ y.att.cand = win[w].att.cand
      /\ y.status = win[w].status /\ y.att.ans = ans
    BY <1>4, <1>5 DEF Renderer, Attempt
<1>8. /\ SnapOK' /\ FlightsOK' /\ DiskOK' /\ AskedOK' /\ WindowsOK' /\ OwnerOK'
      /\ PostsOK' /\ CallsOK' /\ MailOK'
      /\ win'[w] = y /\ Others(w) /\ SameSession /\ box' = box /\ open' = open
    <2>1. /\ UNCHANGED <<snap, gen, box, asked, served, open, document, flight, flights, calls,
                         stored, pref>>
          /\ left' \in Bound /\ posts' \subseteq posts
        BY <1>3 DEF mainVars, diskVars, attemptFrame, Sound, AskedOK
    <2> QED BY <1>4, <1>6, <1>7, <2>1, WorksKept
<1>9. Works(w)
    BY <1>2, <1>4, <1>7, <1>8 DEF Works
<1> QED BY <1>3, <1>8, <1>9, BackendsKept, SoundParts

\* The owner commits its candidate, and uses it.
LEMMA SoundCommitted ==
    ASSUME Sound, open[Main], NEW t \in Token, NEW rem \in BOOLEAN, t.url = snap.url,
           CommitAccepted(win[Main].att.rev, t.url), Shown(t),
           win[Main].att.pc \notin {"off", "posting"},
           NEW b \in Boxes, \A v \in Window : Mail(b[v]) \subseteq Mail(box[v]),
           snap' = Committed(t, rem), FlightForgotten, box' = Deliver(b, snap', Window \ {Main}),
           win' = [win EXCEPT ![Main] =
                      [win[Main] EXCEPT !.auth = snap', !.api = t, !.status = "connected", !.bad = FALSE,
                                !.att.rev = snap'.rev, !.att.cand = t, !.att.rem = rem,
                                !.att.pc = "live", !.att.ans = "none"]],
           pref' \in Origin \cup {NoOrigin}, served' = win[Main].att.want, gen' = gen,
           UNCHANGED <<backendVars, stored, asked, left, open, document, posts>>, calls' = calls
    PROVE  Sound' /\ Takes
<1>1. /\ win[Main] \in Renderer /\ win[Main].att \in Attempt /\ win \in [Window -> Renderer]
      /\ win[Main].att.pc # "off" /\ win[Main].att.rev = snap.rev
      /\ snap.phase \in {"pending", "connected"} /\ snap.rev \in Nat /\ snap.rev > 0
      /\ Main \in Window /\ snap \in Session /\ snap.url \in Origin
    BY RendererFields, SessionFields, Origins DEF Sound, WindowsOK, SnapOK, CommitAccepted
<1>2. win[Main].att.url = snap.url /\ win[Main].att.want = asked /\ asked > 0 /\ asked \in Nat
    BY <1>1 DEF Sound, OwnerOK, AskedOK
<1>3. snap' \in Session /\ snap'.rev \in Nat
    BY <1>1, CommittedSession, SessionFields
<1>4. PICK y : y = [win[Main] EXCEPT !.auth = snap', !.api = t, !.status = "connected", !.bad = FALSE,
                                !.att.rev = snap'.rev, !.att.cand = t, !.att.rem = rem,
                                !.att.pc = "live", !.att.ans = "none"]
    OBVIOUS
<1>5. win' = [win EXCEPT ![Main] = y]
    BY <1>4
<1>6. /\ y \in Renderer /\ y.auth = snap' /\ y.api = t /\ y.bad = FALSE
      /\ y.att.pc = "live" /\ y.att.url = win[Main].att.url
      /\ y.att.born = win[Main].att.born /\ y.att.rev = snap'.rev
      /\ y.att.want = win[Main].att.want /\ y.att.cand = t
    <2>1. win[Main] = [auth |-> win[Main].auth, att |-> win[Main].att, status |-> win[Main].status,
                       api |-> win[Main].api, bad |-> win[Main].bad]
        BY <1>1 DEF Renderer
    <2>2. PICK a : a = [win[Main].att EXCEPT !.rev = snap'.rev, !.cand = t, !.rem = rem,
                                             !.pc = "live", !.ans = "none"]
        OBVIOUS
    <2>3. y = [auth |-> snap', att |-> a, status |-> "connected", api |-> t, bad |-> FALSE]
        BY <1>4, <2>1, <2>2
    <2>4. /\ a \in Attempt /\ a.pc = "live" /\ a.url = win[Main].att.url /\ a.rev = snap'.rev
          /\ a.born = win[Main].att.born /\ a.want = win[Main].att.want /\ a.cand = t
        BY <1>1, <1>2, <1>3, <2>2 DEF Attempt, Step, AnyBackend, Fits
    <2> QED BY <1>3, <2>3, <2>4 DEF Renderer, Status
<1>7. /\ SnapMoves /\ Continues /\ Sends /\ Emptied /\ SnapOK' /\ WindowsOK' /\ OwnerOK'
      /\ snap'.rev = snap.rev + 1 /\ snap'.phase = "connected" /\ snap'.url = snap.url
      /\ snap'.token = t
      /\ win'[Main] = y /\ Others(Main)
    BY <1>1, <1>5, <1>6, Commits DEF Others
<1>8. PostsOK' /\ CallsOK' /\ MailOK'
    BY <1>7, WorkKept
<1>9. AskedOK'
    BY <1>2 DEF Sound, AskedOK
<1>10. Takes
    <2>1. Informs(Window \ {Main})
        BY <1>3, Informing
    <2>2. Shown(snap'.token)
        BY <1>7
    <2> QED BY <1>1, <1>2, <1>6, <1>7, <2>1, <2>2 DEF Takes
<1>11. DiskOK'
    BY DEF Sound, DiskOK
<1> QED BY <1>7, <1>8, <1>9, <1>10, <1>11, BackendsKept, ForgottenFlights, SoundParts

\* The window handles the answer of the check.
LEMMA SoundAccessHandled ==
    ASSUME Sound, NEW w \in Window, AccessHandled(w)
    PROVE  Sound' /\ (Works(w) \/ Stops(w) \/ (w = Main /\ Takes))
<1>1. PICK pc \in {"access", "restoreAccess", "verify"} : At(w, pc)
    BY DEF AccessHandled
<1>2. UNCHANGED <<backendVars, stored, asked, left, refused, calls, open, document, posts>>
    BY DEF AccessHandled
<1>3. /\ open[w] /\ win[w].att.pc = pc /\ win \in [Window -> Renderer]
      /\ win[w] \in Renderer /\ win[w].att \in Attempt /\ win[w].att.cand \in Token
      /\ win[w].att.rem \in BOOLEAN
    BY <1>1, Working, AttemptFields DEF Step
<1>4. left' \in Bound /\ posts' \subseteq posts /\ box \in Boxes /\ UNCHANGED <<asked, document, open>>
    BY <1>2 DEF Sound, AskedOK, MailOK
<1>5. CASE Block(w, box) /\ (w = Main \/ Cause(w))
    BY <1>2, <1>3, <1>4, <1>5, BackendsKept, StopsKept, SoundParts
<1>6. CASE w # Main /\ Activate(w, win[w].att.cand, win[w].att.rem, win[w].att.want, box)
    <2>1. /\ win' = [win EXCEPT ![w].att.pc = "live", ![w].att.ans = "none",
                                ![w].api = win[w].att.cand, ![w].status = "connected", ![w].bad = FALSE]
          /\ box' = box
          /\ UNCHANGED <<snap, gen, flight, flights, served, pref>>
        BY <1>6 DEF Activate
    <2>2. PICK y : y = [win[w] EXCEPT !.att.pc = "live", !.att.ans = "none",
                                !.api = win[w].att.cand, !.status = "connected", !.bad = FALSE]
        OBVIOUS
    <2>3. win' = [win EXCEPT ![w] = y]
        BY <1>3, <2>1, <2>2
    <2>4. /\ y \in Renderer /\ y.auth = win[w].auth /\ y.api = win[w].att.cand /\ y.bad = FALSE
          /\ y.att.pc = "live" /\ y.att.url = win[w].att.url
          /\ y.att.born = win[w].att.born /\ y.att.rev = win[w].att.rev
          /\ y.att.want = win[w].att.want /\ y.att.cand = win[w].att.cand
          /\ y.att.ans = "none"
        BY <1>3, <2>2 DEF Renderer, Attempt, Status, Step, AnyBackend
    <2>5. /\ SnapOK' /\ FlightsOK' /\ DiskOK' /\ AskedOK' /\ WindowsOK' /\ OwnerOK'
          /\ PostsOK' /\ CallsOK' /\ MailOK'
          /\ win'[w] = y /\ Others(w) /\ SameSession /\ box' = box /\ open' = open
        <3>1. /\ UNCHANGED <<snap, gen, box, asked, served, open, document, flight, flights, calls,
                             stored, pref>>
              /\ left' \in Bound /\ posts' \subseteq posts
            BY <1>2, <1>4, <2>1
        <3>2. win[w].att.pc # "off" /\ y.att.pc # "off" /\ (w # Main \/ win[w].att.pc # "posting")
            BY <1>3, <1>6, <2>4
        <3> QED BY <1>3, <2>3, <2>4, <3>1, <3>2, WorksKept
    <2>6. Works(w)
        BY <1>3, <1>6, <2>4, <2>5 DEF Works
    <2> QED BY <1>2, <2>5, <2>6, BackendsKept, SoundParts
<1>7. CASE w = Main /\ Activate(w, win[w].att.cand, win[w].att.rem, win[w].att.want, box)
    <2>1. CASE ~ CommitAccepted(win[Main].att.rev, win[Main].att.cand.url)
        <3>1. Block(w, box)
            BY <1>7, <2>1 DEF Activate
        <3> QED BY <1>5, <1>7, <3>1
    <2>2. CASE CommitAccepted(win[Main].att.rev, win[Main].att.cand.url)
        <3>0. PICK t \in Token, rem \in BOOLEAN : t = win[Main].att.cand /\ rem = win[Main].att.rem
            BY <1>3, <1>7
        <3>1. /\ snap' = Committed(t, rem) /\ FlightForgotten
              /\ box' = Deliver(box, snap', Window \ {Main})
              /\ win' = [win EXCEPT ![Main] =
                      [win[Main] EXCEPT !.auth = snap', !.api = t, !.status = "connected", !.bad = FALSE,
                                !.att.rev = snap'.rev, !.att.cand = t, !.att.rem = rem,
                                !.att.pc = "live", !.att.ans = "none"]]
              /\ pref' = IF t.url = Local THEN Local ELSE IF rem THEN t.url ELSE NoOrigin
              /\ served' = win[Main].att.want /\ gen' = gen
            BY <1>7, <2>2, <3>0 DEF Activate
        <3>2. /\ open[Main] /\ t.url = snap.url /\ CommitAccepted(win[Main].att.rev, t.url)
              /\ win[Main].att.pc \notin {"off", "posting"}
              /\ \A v \in Window : Mail(box[v]) \subseteq Mail(box[v])
            BY <1>3, <1>7, <2>2, <3>0 DEF CommitAccepted
        <3>3. pref' \in Origin \cup {NoOrigin}
            BY <3>0, <3>1, Origins
        <3>4. Shown(t)
            BY <3>0 DEF Shown
        <3> QED BY <1>2, <1>4, <1>7, <3>1, <3>2, <3>3, <3>4, SoundCommitted
    <2> QED BY <2>1, <2>2
<1> QED BY <1>5, <1>6, <1>7 DEF AccessHandled, Cause

\* A probe that fails for a reason that may pass.
LEMMA SoundProbeLost ==
    ASSUME Sound, NEW w \in Window, ProbeLost(w) PROVE Sound' /\ (Works(w) \/ Stops(w))
<1>1. UNCHANGED <<backendVars, stored, asked, refused, calls, open, document, posts>>
    BY DEF ProbeLost
<1>2. left' \in Bound /\ posts' \subseteq posts
    BY <1>1, Spending DEF ProbeLost, Sound, AskedOK
<1>3. ASSUME NEW pc \in {"restoreHealth", "restoreAccess", "verify"}, At(w, pc),
             win' = [win EXCEPT ![w].att.pc = Retried(pc), ![w].att.ans = "none",
                                ![w].status = IF pc = "restoreAccess" THEN @ ELSE "disconnected"],
             UNCHANGED <<snap, gen, flight, flights, served, box, pref>>
      PROVE  Sound' /\ Works(w)
    <2>1. /\ open[w] /\ win[w].att.pc = pc /\ win \in [Window -> Renderer]
          /\ win[w] \in Renderer /\ win[w].att \in Attempt
          /\ win[w].att.url \in Origin /\ Fits(win[w].att.cand, win[w].att.url)
          /\ pc \notin AnyBackend => win[w].att.url \in Remote
        BY <1>3, Working DEF Step
    <2>a. PICK qc \in {"verify", "restoreHealth"}, status \in Status :
              /\ qc = "restoreHealth" => win[w].att.url \in Remote
              /\ pc = "verify" => qc = "verify"
              /\ status \in {"disconnected", win[w].status}
              /\ win' = [win EXCEPT ![w].att.pc = qc, ![w].att.ans = "none", ![w].status = status]
        <3>1. win[w].status \in Status
            BY <2>1, RendererFields
        <3>2. CASE pc = "restoreAccess"
            BY <1>3, <2>1, <3>1, <3>2 DEF Retried, AnyBackend
        <3>3. CASE pc = "restoreHealth"
            BY <1>3, <2>1, <3>3 DEF Retried, AnyBackend, Status
        <3>4. CASE pc = "verify"
            BY <1>3, <3>4 DEF Retried, Status
        <3> QED BY <3>2, <3>3, <3>4
    <2>2. PICK y : y = [win[w] EXCEPT !.att.pc = qc, !.att.ans = "none", !.status = status]
        OBVIOUS
    <2>3. win' = [win EXCEPT ![w] = y]
        BY <2>a, <2>1, <2>2
    <2>4. /\ y \in Renderer /\ y.auth = win[w].auth /\ y.api = win[w].api /\ y.bad = win[w].bad
          /\ y.att.pc = qc /\ y.att.url = win[w].att.url
          /\ y.att.born = win[w].att.born /\ y.att.rev = win[w].att.rev
          /\ y.att.want = win[w].att.want /\ y.att.cand = win[w].att.cand
          /\ y.att.ans = "none" /\ y.status = status
        BY <2>1, <2>2, <2>a DEF Renderer, Attempt, Status, Step, AnyBackend
    <2>5. /\ SnapOK' /\ FlightsOK' /\ DiskOK' /\ AskedOK' /\ WindowsOK' /\ OwnerOK'
          /\ PostsOK' /\ CallsOK' /\ MailOK'
          /\ win'[w] = y /\ Others(w) /\ SameSession /\ box' = box /\ open' = open
        <3>1. UNCHANGED <<snap, gen, box, asked, served, open, document, flight, flights, calls,
                          stored, pref>>
            BY <1>1, <1>3
        <3>2. win[w].att.pc # "off" /\ y.att.pc # "off" /\ win[w].att.pc # "posting"
            BY <1>3, <2>1, <2>4, <2>a
        <3> QED BY <1>2, <2>1, <2>3, <2>4, <3>1, <3>2, WorksKept
    <2>6. Works(w)
        BY <1>3, <2>1, <2>4, <2>5, <2>a DEF Works
    <2> QED BY <1>1, <2>5, <2>6, BackendsKept, SoundParts
<1>4. ASSUME NEW pc \in {"probe", "health", "access", "starting"}, At(w, pc), Block(w, box)
      PROVE  Sound' /\ Stops(w)
    <2>1. open[w] /\ Cause(w)
        BY <1>4 DEF At, Cause
    <2> QED BY <1>1, <1>2, <1>4, <2>1, BackendsKept, StopsKept, SoundParts
<1>5. CASE \E pc \in {"restoreHealth", "restoreAccess", "verify"} :
              /\ At(w, pc)
              /\ win' = [win EXCEPT ![w].att.pc = Retried(pc), ![w].att.ans = "none",
                                ![w].status = IF pc = "restoreAccess" THEN @ ELSE "disconnected"]
              /\ UNCHANGED <<snap, gen, flight, flights, served, box, pref>>
    BY <1>3, <1>5
<1>6. CASE \E pc \in {"probe", "health", "access", "starting"} : At(w, pc) /\ Block(w, box)
    BY <1>4, <1>6
<1> QED BY <1>5, <1>6 DEF ProbeLost

\* A window whose attempt moves on by itself.
LEMMA SoundGoes ==
    ASSUME Sound, NEW w \in Window, NEW pc \in Step \ {"off", "live"}, NEW qc \in {"verify"},
           At(w, pc), pc # "posting", Goes(w, qc), UNCHANGED onlyWin
    PROVE  Sound' /\ Works(w)
<1>1. /\ open[w] /\ win[w].att.pc = pc /\ win \in [Window -> Renderer]
      /\ win[w] \in Renderer /\ win[w].att \in Attempt
      /\ win[w].att.url \in Origin /\ Fits(win[w].att.cand, win[w].att.url)
    BY Working DEF Step
<1>2. PICK y : y = [win[w] EXCEPT !.att.pc = qc, !.att.ans = "none"]
    OBVIOUS
<1>3. win' = [win EXCEPT ![w] = y]
    BY <1>1, <1>2 DEF Goes
<1>4. /\ y \in Renderer /\ y.auth = win[w].auth /\ y.api = win[w].api /\ y.bad = win[w].bad
      /\ y.att.pc = qc /\ y.att.url = win[w].att.url
      /\ y.att.born = win[w].att.born /\ y.att.rev = win[w].att.rev
      /\ y.att.want = win[w].att.want /\ y.att.cand = win[w].att.cand
      /\ y.att.ans = "none" /\ y.status = win[w].status
    BY <1>1, <1>2 DEF Renderer, Attempt, Step, AnyBackend
<1>5. /\ SnapOK' /\ FlightsOK' /\ DiskOK' /\ AskedOK' /\ WindowsOK' /\ OwnerOK'
      /\ PostsOK' /\ CallsOK' /\ MailOK'
      /\ win'[w] = y /\ Others(w) /\ SameSession /\ box' = box /\ open' = open
    <2>1. /\ UNCHANGED <<snap, gen, box, asked, served, open, document, flight, flights, calls,
                         stored, pref>>
          /\ left' \in Bound /\ posts' \subseteq posts
        BY DEF onlyWin, mainVars, diskVars, attemptFrame, Sound, AskedOK
    <2> QED BY <1>1, <1>3, <1>4, <2>1, WorksKept
<1>6. Works(w)
    BY <1>1, <1>4, <1>5 DEF Works
<1>7. UNCHANGED backendVars
    BY DEF onlyWin
<1> QED BY <1>5, <1>6, <1>7, BackendsKept, SoundParts

\* The local backend has started for an attempt that has a credential.
LEMMA SoundStarted == ASSUME Sound, Started PROVE Sound' /\ Works(Main)
BY SoundGoes, Origins DEF Started, Step

\* The session, the windows and their mail are left alone.
LEMMA StillKept ==
    ASSUME Sound, UNCHANGED <<snap, gen, asked, served, open, win, document, box>>, left' \in Bound
    PROVE  /\ SnapOK' /\ AskedOK' /\ WindowsOK' /\ OwnerOK' /\ MailOK' /\ Still
           /\ calls' = calls => CallsOK'
           /\ posts' \subseteq posts => PostsOK'
<1>1. SnapOK' /\ AskedOK' /\ WindowsOK' /\ OwnerOK' /\ Still
    BY DEF Sound, SnapOK, AskedOK, WindowsOK, OwnerOK, Still
<1>2. MailOK'
    BY DEF Sound, MailOK, Mine
<1>3. calls' = calls => CallsOK'
    BY DEF Sound, CallsOK, CallOK, Mine
<1>4. posts' \subseteq posts => PostsOK'
    BY DEF Sound, PostsOK, Mine
<1> QED BY <1>1, <1>2, <1>3, <1>4

(***************************************************************************)
(* Registrations                                                           *)
(***************************************************************************)
\* A backend issues a credential.
LEMMA Issues ==
    ASSUME Sound, NEW o \in Origin, Issue(o), late' \in [Origin -> {"no", "may", "did"}]
    PROVE  /\ BackendsOK' /\ issued'[o] = issued[o] + 1 /\ valid'[o] = issued'[o]
           /\ issued'[o] \in Nat \ {0} /\ [url |-> o, n |-> issued'[o]] \in Token
<1>1. /\ valid \in [Origin -> Nat] /\ issued \in [Origin -> Nat]
      /\ \A q \in Origin : valid[q] <= issued[q]
    BY DEF Sound, BackendsOK
<1>2. /\ issued' \in [Origin -> Nat] /\ issued'[o] = issued[o] + 1 /\ issued'[o] \in Nat \ {0}
      /\ \A q \in Origin \ {o} : issued'[q] = issued[q]
    BY <1>1 DEF Issue
<1>3. /\ valid' \in [Origin -> Nat] /\ valid'[o] = issued'[o]
      /\ \A q \in Origin \ {o} : valid'[q] = valid[q]
    BY <1>1, <1>2 DEF Issue
<1>4. \A q \in Origin : valid'[q] <= issued'[q]
    <2> SUFFICES ASSUME NEW q \in Origin PROVE valid'[q] <= issued'[q]
        OBVIOUS
    <2>1. issued'[q] \in Nat /\ valid'[q] \in Nat
        BY <1>2, <1>3
    <2>2. CASE q = o
        BY <1>3, <2>1, <2>2
    <2>3. CASE q # o
        BY <1>1, <1>2, <1>3, <2>3
    <2> QED BY <2>2, <2>3
<1> QED BY <1>2, <1>3, <1>4, Origins DEF BackendsOK

\* The owner's registration is sent.
LEMMA SoundSendRegister == ASSUME Sound, SendRegister PROVE Sound' /\ Works(Main)
<1>0. Main \in Window /\ At(Main, "queue") /\ posts = {}
    BY Origins DEF SendRegister, IssuanceFree
<1>1. /\ open[Main] /\ win[Main].att.pc = "queue" /\ win \in [Window -> Renderer]
      /\ win[Main] \in Renderer /\ win[Main].att \in Attempt
      /\ win[Main].att.url \in Remote /\ Fits(win[Main].att.cand, win[Main].att.url)
      /\ win[Main].att.url \in Origin
    BY <1>0, Working DEF Step, AnyBackend
<1>2. PICK y : y = [win[Main] EXCEPT !.att.pc = "posting", !.att.ans = "none"]
    OBVIOUS
<1>3. win' = [win EXCEPT ![Main] = y]
    BY <1>1, <1>2 DEF SendRegister, Goes
<1>4. /\ y \in Renderer /\ y.auth = win[Main].auth /\ y.api = win[Main].api /\ y.bad = win[Main].bad
      /\ y.att.pc = "posting" /\ y.att.url = win[Main].att.url
      /\ y.att.born = win[Main].att.born /\ y.att.rev = win[Main].att.rev
      /\ y.att.want = win[Main].att.want /\ y.att.cand = win[Main].att.cand
      /\ y.status = win[Main].status
    BY <1>1, <1>2 DEF Renderer, Attempt, Step, AnyBackend
<1>5. /\ UNCHANGED <<backendVars, snap, gen, flight, flights, calls, box, stored, pref, served,
                     open, document, asked>>
      /\ left' \in Bound
    BY DEF SendRegister, mainVars, diskVars, Sound, AskedOK
<1>6. /\ win[Main].auth.rev <= snap.rev /\ win[Main].att.rev = win[Main].auth.rev
      /\ win[Main].att.born <= win[Main].att.rev
    BY <1>0, <1>1 DEF Sound, WindowsOK
<1>7. /\ SnapMoves /\ Continues /\ SnapOK' /\ WindowsOK' /\ OwnerOK' /\ win'[Main] = y /\ Others(Main)
    <2>1. y.auth.rev <= snap.rev /\ y.att.rev = y.auth.rev /\ y.att.born <= y.att.rev
        BY <1>4, <1>6
    <2> QED BY <1>0, <1>1, <1>3, <1>4, <1>5, <2>1, RendererMoves DEF Others
<1>8. CallsOK' /\ MailOK'
    <2>1. Sends /\ Emptied
        BY <1>5 DEF Sends, Emptied, Sound, MailOK
    <2> QED BY <1>1, <1>5, <1>7, <2>1, WorkKept
<1>9. PostsOK'
    <2>1. PICK p : p = [born |-> win[Main].att.born, url |-> win[Main].att.url, st |-> "sent",
                        token |-> NoToken, want |-> win[Main].att.want]
        OBVIOUS
    <2>2. posts' = {p}
        BY <1>0, <2>1 DEF SendRegister
    <2>3. win[Main].att.born \in Nat /\ win[Main].att.want \in Nat
        BY <1>1, AttemptFields
    <2>4. /\ p \in Post /\ p.born = win[Main].att.born /\ p.url = win[Main].att.url
          /\ p.want = win[Main].att.want
        BY <1>1, <2>1, <2>3, Origins DEF Post, Fits
    <2>5. p.born <= snap'.rev
        <3>1. /\ win[Main].auth.rev \in Nat /\ snap.rev \in Nat
            BY <1>1, RendererFields, SessionFields DEF Sound, SnapOK
        <3> QED BY <1>5, <1>6, <2>3, <2>4, <3>1
    <2> QED BY <1>1, <1>4, <1>5, <1>7, <2>2, <2>4, <2>5 DEF PostsOK, Mine
<1>10. AskedOK'
    BY <1>5 DEF Sound, AskedOK
<1>11. Works(Main)
    BY <1>1, <1>4, <1>5, <1>7 DEF Works, SameSession
<1> QED BY <1>5, <1>7, <1>8, <1>9, <1>10, <1>11, BackendsKept, FlightsKept, DiskKept, SoundParts

\* The backend processes a registration.
LEMMA SoundServerRegisters ==
    ASSUME Sound, NEW p \in posts, ServerRegisters(p) PROVE Sound' /\ Still
<1>0. /\ p \in Post /\ posts = {p} /\ open[Main] /\ p.born <= snap.rev /\ p.url \in Remote
      /\ p.url \in Origin
      /\ Mine(p.born) => /\ win[Main].att.url = p.url /\ win[Main].att.want = p.want
                         /\ win[Main].att.pc = "posting"
    BY DEF Sound, PostsOK, Post, Origin
<1>1. /\ UNCHANGED <<snap, gen, flight, flights, calls, box, stored, pref, served,
                     open, document, asked, win, late>>
      /\ left' \in Bound
    BY DEF ServerRegisters, mainVars, diskVars, Sound, AskedOK
<1>2. PICK q : BackendsOK' /\ posts' = {q} /\ q \in Post /\ q.born = p.born /\ q.url = p.url
               /\ q.want = p.want
    <2>1. CASE /\ Issue(p.url)
               /\ posts' = (posts \ {p}) \cup {[p EXCEPT !.st = "issued",
                                            !.token = [url |-> p.url, n |-> issued'[p.url]]]}
        <3>1. PICK t \in Token : t = [url |-> p.url, n |-> issued'[p.url]] /\ t.url = p.url
            BY <1>0, <1>1, <2>1, Issues DEF Sound, BackendsOK
        <3>2. PICK q : q = [p EXCEPT !.st = "issued", !.token = t]
            OBVIOUS
        <3>3. q \in Post /\ q.born = p.born /\ q.url = p.url /\ q.want = p.want
            BY <1>0, <3>1, <3>2 DEF Post, Fits
        <3>4. posts' = {q}
            BY <1>0, <2>1, <3>1, <3>2
        <3>5. BackendsOK'
            BY <1>0, <1>1, <2>1, Issues DEF Sound, BackendsOK
        <3> QED BY <3>3, <3>4, <3>5
    <2>2. CASE posts' = (posts \ {p}) \cup {[p EXCEPT !.st = "approval"]} /\ UNCHANGED <<valid, issued>>
        <3>1. PICK q : q = [p EXCEPT !.st = "approval"]
            OBVIOUS
        <3>2. q \in Post /\ q.born = p.born /\ q.url = p.url /\ q.want = p.want
            BY <1>0, <3>1 DEF Post
        <3>3. posts' = {q}
            BY <1>0, <2>2, <3>1
        <3>4. BackendsOK'
            BY <1>1, <2>2, BackendsKept DEF backendVars
        <3> QED BY <3>2, <3>3, <3>4
    <2> QED BY <2>1, <2>2 DEF ServerRegisters
<1>3. SnapOK' /\ AskedOK' /\ WindowsOK' /\ OwnerOK' /\ MailOK' /\ Still /\ CallsOK'
    BY <1>1, StillKept
<1>4. PostsOK'
    BY <1>0, <1>1, <1>2 DEF PostsOK, Mine
<1> QED BY <1>1, <1>2, <1>3, <1>4, FlightsKept, DiskKept, SoundParts

\* The answer of a registration reaches the owner's renderer.
LEMMA SoundRegisterAnswered ==
    ASSUME Sound, NEW p \in posts, RegisterAnswered(p) PROVE Sound' /\ (Works(Main) \/ Still)
<1>0. /\ p \in Post /\ p.url \in Remote /\ p.token \in Token /\ Fits(p.token, p.url) /\ p.want \in Nat
      /\ open[Main] /\ Main \in Window
      /\ Mine(p.born) => /\ win[Main].att.url = p.url /\ win[Main].att.want = p.want
                         /\ win[Main].att.pc = "posting"
    BY Origins DEF Sound, PostsOK, Post
<1>1. /\ UNCHANGED <<snap, gen, flight, flights, calls, box, stored, pref, served,
                     open, document, asked>>
      /\ UNCHANGED backendVars
      /\ left' \in Bound
    BY DEF RegisterAnswered, mainVars, diskVars, Sound, AskedOK
<1>2. posts' = {}
    BY DEF Sound, PostsOK, RegisterAnswered
<1>3. CASE ~ Current(Main, p.born)
    <2>1. win' = win
        BY <1>3 DEF RegisterAnswered
    <2> QED BY <1>1, <1>2, <2>1, StillKept, BackendsKept, FlightsKept, DiskKept, SoundParts
<1>4. CASE Current(Main, p.born)
    <2>1. /\ win \in [Window -> Renderer] /\ win[Main] \in Renderer /\ win[Main].att \in Attempt
          /\ win[Main].att.url = p.url /\ win[Main].att.want = p.want
          /\ win[Main].att.pc = "posting"
        BY <1>0, <1>4, RendererFields DEF Current, Mine, Sound, WindowsOK
    <2>2. PICK pc \in {"verify", "pair"}, status \in Status :
              /\ status \in {win[Main].status, "pending_approval"}
              /\ win' = [win EXCEPT ![Main].att.pc = pc, ![Main].att.ans = "none",
                            ![Main].att.cand = p.token, ![Main].att.want = p.want,
                            ![Main].status = status]
        <3>1. win[Main].status \in Status
            BY <2>1, RendererFields
        <3>2. CASE p.st = "issued"
            BY <1>4, <3>1, <3>2 DEF RegisterAnswered
        <3>3. CASE p.st # "issued"
            BY <1>4, <3>3 DEF RegisterAnswered, Status
        <3> QED BY <3>2, <3>3
    <2>3. PICK y : y = [win[Main] EXCEPT !.att.pc = pc, !.att.ans = "none",
                            !.att.cand = p.token, !.att.want = p.want, !.status = status]
        OBVIOUS
    <2>4. win' = [win EXCEPT ![Main] = y]
        BY <2>1, <2>2, <2>3
    <2>5. /\ y \in Renderer /\ y.auth = win[Main].auth /\ y.api = win[Main].api
          /\ y.bad = win[Main].bad /\ y.att.pc = pc /\ y.att.url = win[Main].att.url
          /\ y.att.born = win[Main].att.born /\ y.att.rev = win[Main].att.rev
          /\ y.att.want = win[Main].att.want /\ y.att.ans = "none" /\ y.status = status
          /\ y.att.cand = p.token
        BY <1>0, <2>1, <2>2, <2>3 DEF Renderer, Attempt, Step, AnyBackend
    <2>6. /\ SnapOK' /\ FlightsOK' /\ DiskOK' /\ AskedOK' /\ WindowsOK' /\ OwnerOK'
          /\ PostsOK' /\ CallsOK' /\ MailOK'
          /\ win'[Main] = y /\ Others(Main) /\ SameSession /\ box' = box /\ open' = open
        <3>1. UNCHANGED <<snap, gen, box, asked, served, open, document, flight, flights, calls,
                          stored, pref>>
            BY <1>1
        <3>2. win[Main].att.pc # "off" /\ y.att.pc # "off" /\ posts' \subseteq posts
            BY <1>2, <2>1, <2>2, <2>5
        <3> QED BY <1>0, <1>1, <1>2, <2>1, <2>4, <2>5, <3>1, <3>2, WorksKept
    <2>a. p.token.url # Local
        <3>1. p.url \in Remote /\ Fits(p.token, p.url)
            BY <1>0 DEF Post
        <3> QED BY <3>1, Elsewhere
    <2>b. win'[Main].att.cand.url # Local
        BY <2>5, <2>6, <2>a
    <2>c. pc # "off" /\ pc # "live" /\ (status \in {"connected", "reconnecting"} => status = win[Main].status)
        BY <2>2
    <2>7. Works(Main)
        BY <1>0, <2>1, <2>5, <2>6, <2>b, <2>c DEF Works
    <2> QED BY <1>1, <2>6, <2>7, BackendsKept, SoundParts
<1> QED BY <1>3, <1>4

\* A registration times out.
LEMMA SoundRegisterTimesOut ==
    ASSUME Sound, NEW p \in posts, RegisterTimesOut(p) PROVE Sound' /\ (Stops(Main) \/ Still)
<1>0. p \in Post /\ p.url \in Origin /\ open[Main] /\ Main \in Window
    BY Origins DEF Sound, PostsOK, Post, Origin
<1>1. /\ UNCHANGED <<valid, issued, stored, asked, refused, calls, open, document>>
      /\ left' \in Bound /\ posts' \subseteq posts
    BY Spending DEF RegisterTimesOut, Sound, AskedOK
<1>2. BackendsOK'
    <2>1. late' \in [Origin -> {"no", "may", "did"}]
        BY <1>0 DEF Sound, BackendsOK, RegisterTimesOut
    <2> QED BY <1>1, <2>1 DEF Sound, BackendsOK
<1>3. CASE Block(Main, box)
    BY <1>0, <1>1, <1>2, <1>3, StopsKept, SoundParts
<1>4. CASE UNCHANGED <<win, snap, gen, flight, flights, box, pref, served>>
    BY <1>1, <1>2, <1>4, StillKept, FlightsKept, DiskKept, SoundParts
<1> QED BY <1>3, <1>4 DEF RegisterTimesOut

\* A registration that was given up is processed after all.
LEMMA SoundLateRegister ==
    ASSUME Sound, NEW o \in Origin, LateRegister(o) PROVE Sound' /\ Still
<1>1. /\ UNCHANGED <<snap, gen, flight, flights, calls, box, stored, pref, served,
                     open, document, asked, win, posts>>
      /\ left' \in Bound
    BY DEF LateRegister, mainVars, diskVars, attemptFrame, Sound, AskedOK
<1>2. late' \in [Origin -> {"no", "may", "did"}] /\ Issue(o)
    BY DEF LateRegister, Sound, BackendsOK
<1>3. BackendsOK'
    BY <1>2, Issues
<1> QED BY <1>1, <1>3, StillKept, FlightsKept, DiskKept, SoundParts

\* The device is revoked.
LEMMA SoundRevoke == ASSUME Sound, NEW o \in Origin, Revoke(o) PROVE Sound' /\ Still
<1>1. /\ UNCHANGED <<snap, gen, flight, flights, calls, box, stored, pref, served,
                     open, document, asked, win, posts>>
      /\ left' \in Bound
    BY Spending DEF Revoke, mainVars, diskVars, ghostVars, Sound, AskedOK
<1>2. /\ valid \in [Origin -> Nat] /\ valid' = [valid EXCEPT ![o] = 0]
      /\ issued' = issued /\ late' = late /\ issued \in [Origin -> Nat]
      /\ \A q \in Origin : valid[q] <= issued[q]
    BY DEF Revoke, Sound, BackendsOK
<1>3. valid' \in [Origin -> Nat] /\ valid'[o] = 0 /\ \A q \in Origin \ {o} : valid'[q] = valid[q]
    BY <1>2
<1>4. \A q \in Origin : valid'[q] <= issued'[q]
    <2>1. \A q \in Origin : issued[q] \in Nat
        BY <1>2
    <2> QED BY <1>2, <1>3, <2>1
<1>5. BackendsOK'
    BY <1>2, <1>3, <1>4 DEF BackendsOK, Sound
<1> QED BY <1>1, <1>5, StillKept, FlightsKept, DiskKept, SoundParts

\* The poll finds the device approved, and its credential issued.
LEMMA SoundPairingClaimed ==
    ASSUME Sound, NEW w \in Window, PairingClaimed(w) PROVE Sound' /\ Works(w)
<1>1. /\ open[w] /\ win[w].att.pc = "pair" /\ win \in [Window -> Renderer]
      /\ win[w] \in Renderer /\ win[w].att \in Attempt /\ win[w].att.url \in Remote
      /\ win[w].att.url \in Origin
    BY Working DEF PairingClaimed, Step, AnyBackend
<1>2. UNCHANGED <<late, mainVars, box, diskVars, served, refused, attemptFrame>>
    BY DEF PairingClaimed
<1>3. PICK o \in Origin : o = win[w].att.url
    BY <1>1
<1>4. Issue(o) /\ win' = [win EXCEPT ![w].att.ans = "ok",
                                     ![w].att.cand = [url |-> o, n |-> issued'[o]]]
    BY <1>3 DEF PairingClaimed
<1>5. BackendsOK' /\ [url |-> o, n |-> issued'[o]] \in Token
    BY <1>2, <1>4, Issues DEF Sound, BackendsOK
<1>6. PICK t \in Token : t = [url |-> o, n |-> issued'[o]] /\ t.url = o
    BY <1>5
<1>7. PICK y : y = [win[w] EXCEPT !.att.ans = "ok", !.att.cand = t]
    OBVIOUS
<1>8. win' = [win EXCEPT ![w] = y]
    BY <1>1, <1>4, <1>6, <1>7
<1>9. /\ y \in Renderer /\ y.auth = win[w].auth /\ y.api = win[w].api /\ y.bad = win[w].bad
      /\ y.att.pc = "pair" /\ y.att.url = win[w].att.url
      /\ y.att.born = win[w].att.born /\ y.att.rev = win[w].att.rev
      /\ y.att.want = win[w].att.want /\ y.status = win[w].status /\ y.att.ans = "ok"
      /\ y.att.cand = t
    BY <1>1, <1>3, <1>6, <1>7 DEF Renderer, Attempt, Fits
<1>10. /\ SnapOK' /\ FlightsOK' /\ DiskOK' /\ AskedOK' /\ WindowsOK' /\ OwnerOK'
      /\ PostsOK' /\ CallsOK' /\ MailOK'
      /\ win'[w] = y /\ Others(w) /\ SameSession /\ box' = box /\ open' = open
    <2>1. /\ UNCHANGED <<snap, gen, box, asked, served, open, document, flight, flights, calls,
                         stored, pref>>
          /\ left' \in Bound /\ posts' \subseteq posts
        BY <1>2 DEF mainVars, diskVars, attemptFrame, Sound, AskedOK
    <2> QED BY <1>1, <1>8, <1>9, <2>1, WorksKept
<1>a. t.url # Local
    BY <1>1, <1>3, <1>6, ConnectionAssumption
<1>11. Works(w)
    BY <1>1, <1>9, <1>10, <1>a DEF Works
<1> QED BY <1>5, <1>10, <1>11, SoundParts

\* The pairing is approved, or it is rejected or expires.
LEMMA SoundPairingHandled ==
    ASSUME Sound, NEW w \in Window, PairingHandled(w) PROVE Sound' /\ (Works(w) \/ Stops(w))
<1>1. CASE Goes(w, "verify") /\ UNCHANGED onlyWin
    BY <1>1, SoundGoes DEF PairingHandled, Step
<1>2. CASE Block(w, box) /\ UNCHANGED <<backendVars, refused, attemptFrame>>
    <2>1. open[w] /\ Cause(w)
        BY DEF PairingHandled, At, Cause
    <2>2. UNCHANGED <<backendVars, open, asked, calls, document, stored, left, posts>>
        BY <1>2 DEF attemptFrame
    <2>3. left' \in Bound /\ posts' \subseteq posts
        BY <2>2 DEF Sound, AskedOK
    <2> QED BY <1>2, <2>1, <2>2, <2>3, BackendsKept, StopsKept, SoundParts
<1> QED BY <1>1, <1>2 DEF PairingHandled

(***************************************************************************)
(* The session in use                                                      *)
(***************************************************************************)
\* A request is refused for the credential the window uses.
LEMMA SoundApiRefused == ASSUME Sound, NEW w \in Window, ApiRefused(w) PROVE Sound' /\ Refuses(w)
<1>1. /\ UNCHANGED <<snap, gen, flight, flights, calls, box, stored, pref, served,
                     open, document, asked, posts>>
      /\ UNCHANGED backendVars
      /\ left' \in Bound /\ open[w] /\ win[w].status \in {"connected", "reconnecting"}
      /\ refused' = refused \cup {win[w].api}
    BY DEF ApiRefused, mainVars, diskVars, attemptFrame, Sound, AskedOK
<1>2. win \in [Window -> Renderer] /\ win[w] \in Renderer
    BY DEF Sound, WindowsOK
<1>3. PICK y : y = [win[w] EXCEPT !.bad = TRUE]
    OBVIOUS
<1>4. win' = [win EXCEPT ![w] = y]
    BY <1>2, <1>3 DEF ApiRefused
<1>5. /\ y \in Renderer /\ y.auth = win[w].auth /\ y.att = win[w].att
      /\ y.status = win[w].status /\ y.api = win[w].api
    BY <1>2, <1>3 DEF Renderer
<1>6. /\ SnapMoves /\ Continues /\ SnapOK' /\ WindowsOK' /\ OwnerOK' /\ win'[w] = y /\ Others(w)
    <2>1. y.auth.rev <= snap.rev
          /\ (y.att.pc # "off" => y.att.rev = y.auth.rev /\ y.att.born <= y.att.rev)
        BY <1>5 DEF Sound, WindowsOK
    <2>2. /\ \/ w # Main \/ y.att.pc = "off"
             \/ /\ win[w].att.pc # "off" /\ y.att.born = win[w].att.born /\ y.att.rev = win[w].att.rev
                /\ y.att.want = win[w].att.want /\ y.att.url = win[w].att.url
                /\ win[w].att.pc = "posting" => y.att.pc = "posting" \/ posts' = {}
        BY <1>5
    <2>3. open'[w] /\ \A v \in Window \ {w} : open'[v] = open[v]
        BY <1>1
    <2>4. snap' = snap /\ gen' = gen /\ asked' = asked
        BY <1>1
    <2> QED BY <1>4, <1>5, <2>1, <2>2, <2>3, <2>4, RendererMoves DEF Others
<1>7. PostsOK' /\ CallsOK' /\ MailOK'
    <2>1. Sends /\ Emptied
        BY <1>1 DEF Sends, Emptied, Sound, MailOK
    <2>2. posts' # {} => open'[Main]
        BY <1>1 DEF Sound, PostsOK
    <2> QED BY <1>1, <1>6, <2>1, <2>2, WorkKept
<1>8. AskedOK'
    BY <1>1 DEF Sound, AskedOK
<1>9. Refuses(w)
    BY <1>1, <1>5, <1>6 DEF Refuses, SameSession
<1> QED BY <1>1, <1>6, <1>7, <1>8, <1>9, BackendsKept, FlightsKept, DiskKept, SoundParts

\* The window ends the session it was refused under.
LEMMA SoundApiHandled == ASSUME Sound, NEW w \in Window, ApiHandled(w) PROVE Sound' /\ Stops(w)
<1>1. /\ open[w] /\ Cause(w) /\ Block(w, box)
      /\ UNCHANGED <<backendVars, open, asked, calls, document, stored, left, posts>>
    BY DEF ApiHandled, Cause, attemptFrame
<1>2. left' \in Bound /\ posts' \subseteq posts
    BY <1>1 DEF Sound, AskedOK
<1> QED BY <1>1, <1>2, BackendsKept, StopsKept, SoundParts

\* The owner's renderer moves while its session is in use.
LEMMA LiveWorks ==
    ASSUME Sound, At(Main, "live"), NEW ans \in {"none", "missed"}, NEW status \in Status,
           win' = [win EXCEPT ![Main].att.ans = ans, ![Main].status = status],
           UNCHANGED <<backendVars, snap, gen, box, asked, served, open, document, flight, flights,
                       calls, stored, pref>>,
           left' \in Bound, posts' = posts
    PROVE  Sound' /\ Works(Main)
<1>1. /\ open[Main] /\ win[Main].att.pc = "live" /\ win \in [Window -> Renderer]
      /\ win[Main] \in Renderer /\ win[Main].att \in Attempt /\ Main \in Window
    BY Working, Origins DEF Step
<1>2. PICK y : y = [win[Main] EXCEPT !.att.ans = ans, !.status = status]
    OBVIOUS
<1>3. win' = [win EXCEPT ![Main] = y]
    BY <1>1, <1>2
<1>4. /\ y \in Renderer /\ y.auth = win[Main].auth /\ y.api = win[Main].api /\ y.bad = win[Main].bad
      /\ y.att.pc = "live" /\ y.att.url = win[Main].att.url
      /\ y.att.born = win[Main].att.born /\ y.att.rev = win[Main].att.rev
      /\ y.att.want = win[Main].att.want /\ y.att.cand = win[Main].att.cand
    BY <1>1, <1>2 DEF Renderer, Attempt
<1>5. /\ SnapOK' /\ FlightsOK' /\ DiskOK' /\ AskedOK' /\ WindowsOK' /\ OwnerOK'
      /\ PostsOK' /\ CallsOK' /\ MailOK'
      /\ win'[Main] = y /\ Others(Main) /\ SameSession /\ box' = box /\ open' = open
    <2>1. /\ UNCHANGED <<snap, gen, box, asked, served, open, document, flight, flights, calls,
                         stored, pref>>
          /\ posts' \subseteq posts
        OBVIOUS
    <2> QED BY <1>1, <1>3, <1>4, <2>1, WorksKept
<1>6. Works(Main)
    BY <1>1, <1>4, <1>5 DEF Works
<1> QED BY <1>5, <1>6, BackendsKept, SoundParts

\* A poll of the session is missed.
LEMMA SoundPollMissed == ASSUME Sound, PollMissed PROVE Sound' /\ Works(Main)
<1>1. /\ UNCHANGED <<backendVars, snap, gen, box, asked, served, open, document, flight, flights,
                     calls, stored, pref>>
      /\ left' \in Bound /\ posts' = posts
    BY Spending DEF PollMissed, mainVars, diskVars, Sound, AskedOK
<1>2. PICK status \in Status :
          win' = [win EXCEPT ![Main].att.ans = "missed", ![Main].status = status]
    <2>1. win[Main].status \in Status
        BY Origins, RendererFields DEF Sound, WindowsOK
    <2> QED BY <2>1 DEF PollMissed, Status
<1> QED BY <1>1, <1>2, LiveWorks DEF PollMissed

\* A poll is answered: the session is good, or its credential is refused.
LEMMA SoundPollAnswered ==
    ASSUME Sound, PollAnswered PROVE Sound' /\ (Works(Main) \/ Stops(Main))
<1>1. UNCHANGED <<backendVars, stored, open, document, posts, asked, left>> /\ At(Main, "live")
    BY DEF PollAnswered
<1>2. left' \in Bound /\ posts' \subseteq posts /\ open[Main] /\ Main \in Window
    BY <1>1, Origins DEF Sound, AskedOK, At
<1>3. CASE /\ win' = [win EXCEPT ![Main].att.ans = "none", ![Main].status = "connected"]
           /\ UNCHANGED <<mainVars, box, pref, served, refused>>
    BY <1>1, <1>2, <1>3, LiveWorks DEF mainVars, Status
<1>4. CASE Block(Main, box) /\ UNCHANGED calls
    BY <1>1, <1>2, <1>4, BackendsKept, StopsKept, SoundParts
<1> QED BY <1>3, <1>4 DEF PollAnswered

\* The session is remembered.
LEMMA SoundRemember == ASSUME Sound, Remember PROVE Sound' /\ Takes
<1>1. /\ At(Main, "live") /\ Main \in Window /\ win[Main].api.url \in Remote
      /\ snap.rev = win[Main].att.rev /\ FlightForgotten
      /\ UNCHANGED <<backendVars, gen, calls, open, document, posts, asked, served, refused>>
      /\ left' \in Bound /\ box \in Boxes
    BY Origins, Spending DEF Remember, Sound, AskedOK, MailOK
<1>2. /\ open[Main] /\ win[Main].att.pc = "live" /\ win \in [Window -> Renderer]
      /\ win[Main] \in Renderer /\ win[Main].att \in Attempt
      /\ Fits(win[Main].att.cand, win[Main].att.url)
    BY <1>1, Working DEF Step
<1>3. PICK t \in Token : t = win[Main].api /\ t.url \in Origin /\ t = win[Main].att.cand
    BY <1>1, <1>2, RendererFields DEF Origin
<1>4. t.url = snap.url /\ win[Main].att.url = snap.url /\ snap.url \in Origin
    <2>1. win[Main].att.url = snap.url
        BY <1>1, <1>2 DEF Sound, OwnerOK
    <2>2. t # NoToken
        BY <1>3, Origins
    <2> QED BY <1>2, <1>3, <2>1, <2>2 DEF Fits
<1>5. /\ snap' = Committed(t, TRUE) /\ box' = Deliver(box, snap', Window \ {Main})
      /\ stored' = [stored EXCEPT ![t.url] = t] /\ pref' = t.url
    BY <1>3 DEF Remember
<1>6. snap \in Session /\ snap' \in Session /\ snap'.rev \in Nat
    <2>1. snap \in Session
        BY DEF Sound, SnapOK
    <2> QED BY <1>4, <1>5, <2>1, CommittedSession, SessionFields
<1>7. PICK y : y = [win[Main] EXCEPT !.auth = snap', !.att.rev = snap'.rev, !.att.rem = TRUE]
    OBVIOUS
<1>8. win' = [win EXCEPT ![Main] = y]
    BY <1>2, <1>7 DEF Remember
<1>9. /\ y \in Renderer /\ y.auth = snap' /\ y.api = t /\ y.bad = win[Main].bad
      /\ y.att.pc = "live" /\ y.att.url = win[Main].att.url
      /\ y.att.born = win[Main].att.born /\ y.att.rev = snap'.rev
      /\ y.att.want = win[Main].att.want /\ y.att.cand = t
    BY <1>2, <1>3, <1>6, <1>7 DEF Renderer, Attempt
<1>10. /\ SnapMoves /\ Continues /\ Sends /\ Emptied /\ SnapOK' /\ WindowsOK' /\ OwnerOK'
       /\ snap'.rev = snap.rev + 1 /\ snap'.phase = "connected" /\ snap'.url = snap.url
       /\ snap'.token = t
       /\ win'[Main] = y /\ Others(Main)
    <2>1. win[Main].att.pc \notin {"off", "posting"} /\ win[Main].att.rev = snap.rev
          /\ TRUE \in BOOLEAN /\ gen' = gen /\ open' = open /\ asked' = asked
          /\ \A v \in Window : Mail(box[v]) \subseteq Mail(box[v])
        BY <1>1, <1>2
    <2> QED BY <1>1, <1>2, <1>4, <1>5, <1>8, <1>9, <2>1, Commits DEF Others
<1>11. PostsOK' /\ CallsOK' /\ MailOK'
    <2>1. posts' # {} => open'[Main]
        BY <1>1 DEF Sound, PostsOK
    <2> QED BY <1>1, <1>10, <2>1, WorkKept
<1>12. AskedOK'
    BY <1>1, <1>2 DEF Sound, AskedOK
<1>13. Takes
    <2>1. Informs(Window \ {Main})
        BY <1>1, <1>5, <1>6, Informing
    <2>2. Shown(snap'.token)
        BY <1>3, <1>10 DEF Shown
    <2> QED BY <1>1, <1>2, <1>9, <1>10, <1>3, <2>1, <2>2 DEF Takes
<1>14. DiskOK'
    BY <1>3, <1>5 DEF Sound, DiskOK, Fits
<1> QED BY <1>1, <1>10, <1>11, <1>12, <1>13, <1>14, BackendsKept, ForgottenFlights, SoundParts

(***************************************************************************)
(* The local startup in the main process                                   *)
(***************************************************************************)
\* The answer of a local() call is sent, after what was.
LEMMA Replies ==
    ASSUME Sound, NEW c \in calls, NEW t \in Token, Fits(t, Local), open' = open,
           NEW b \in Boxes,
           \A v \in Window : \A m \in Mail(b[v]) :
              \/ m \in Mail(box[v])
              \/ m = [kind |-> "snapshot", snap |-> snap'] /\ open[v] /\ snap'.phase = "blocked",
           box' = LocalReply(b, c, t)
    PROVE  /\ Sends
           /\ \A v \in Window : \A m \in Message : m.kind = "snapshot" =>
                  (m \in Mail(box'[v]) <=> m \in Mail(b[v]))
           /\ \A v \in Window : \A m \in Mail(box'[v]) :
                 \/ m \in Mail(b[v])
                 \/ m.kind = "local" /\ m.token = t /\ m.born = c.rev
<1>1. c \in Call /\ Main \in Window
    BY Origins DEF Sound, CallsOK, CallOK
<1>2. PICK r \in Reply :
         /\ box' \in Boxes
         /\ \A v \in Window \ {Main} : box'[v] = b[v]
         /\ r.born = c.rev /\ r.want = c.want /\ r.token = t
         /\ \/ open[Main] /\ Mail(box'[Main]) = Mail(b[Main]) \cup {r}
            \/ Mail(box'[Main]) = Mail(b[Main])
    <2>1. c \in Call
        BY <1>1
    <2>2. /\ box' \in Boxes
          /\ \A v \in Window \ {Main} : box'[v] = b[v]
          /\ \E m \in Reply :
                 /\ m.born = c.rev /\ m.token = t /\ m.want = c.want
                 /\ \/ open[Main] /\ Mail(box'[Main]) = Mail(b[Main]) \cup {m}
                    \/ Mail(box'[Main]) = Mail(b[Main])
        BY <2>1, MailReplied
    <2> QED BY <2>2
<1>3. r.kind = "local"
    BY DEF Reply
<1>5. ASSUME NEW v \in Window, NEW m \in Mail(box'[v])
      PROVE  \/ m \in Mail(b[v])
             \/ v = Main /\ m = r /\ open[Main]
    BY <1>2, <1>5
<1>6. Sends
    <2> SUFFICES ASSUME NEW v \in Window, NEW m \in Mail(box'[v])
                 PROVE  \/ m \in Mail(box[v])
                        \/ /\ m = [kind |-> "snapshot", snap |-> snap'] /\ open'[v]
                           /\ v = Main => snap'.phase = "blocked"
                        \/ /\ v = Main /\ m \in Reply /\ open'[v]
                           /\ \E d \in calls : m.born = d.rev /\ m.want = d.want
        BY <1>2 DEF Sends
    <2> QED BY <1>2, <1>3, <1>5
<1>7. ASSUME NEW v \in Window, NEW m \in Message, m.kind = "snapshot"
      PROVE  m \in Mail(box'[v]) <=> m \in Mail(b[v])
    BY <1>1, <1>2, <1>3, <1>7
<1> QED BY <1>2, <1>3, <1>5, <1>6, <1>7

\* The main process moves, and the renderers do not.
LEMMA MainMoves ==
    ASSUME Sound, UNCHANGED <<win, gen, asked, served, open, document, posts, left>>,
           snap' = snap \/ (snap.phase = "pending" /\ snap' = [snap EXCEPT !.localPending = TRUE]),
           Sends
    PROVE  /\ SnapOK' /\ AskedOK' /\ WindowsOK' /\ OwnerOK' /\ PostsOK' /\ MailOK'
           /\ \A c \in calls : CallOK(c)'
           /\ calls' \subseteq calls => CallsOK'
<1>1. snap \in Session
    BY DEF Sound, SnapOK
<1>2. /\ snap' \in Session /\ snap'.rev = snap.rev /\ snap'.phase = snap.phase
      /\ snap'.url = snap.url /\ snap'.token = snap.token
    BY <1>1, PendingSession
<1>3. SnapMoves /\ Continues
    BY <1>2 DEF SnapMoves, Continues
<1>4. SnapOK' /\ WindowsOK' /\ OwnerOK' /\ AskedOK'
    BY <1>2 DEF Sound, SnapOK, WindowsOK, OwnerOK, AskedOK
<1>5. posts' # {} => open'[Main]
    BY DEF Sound, PostsOK
<1>6. Emptied
    BY DEF Emptied
<1> QED BY <1>3, <1>4, <1>5, <1>6, WorkKept

\* The call joins the startup of its generation.
LEMMA Joined ==
    ASSUME Sound, NEW c \in calls, NEW g \in Nat \ {0}, Joins(c, g), \A d \in calls : CallOK(d)'
    PROVE  FlightsOK' /\ CallsOK'
<1>1. FlightsOK'
    <2>1. PICK f : f = [gen |-> g, st |-> "start", token |-> NoToken]
        OBVIOUS
    <2>2. f \in LocalStartup
        BY <2>1, Origins DEF LocalStartup, Startup, Fits
    <2>3. flights' \subseteq flights \cup {f}
        BY <2>1 DEF Joins
    <2> QED BY <2>2, <2>3 DEF Sound, FlightsOK, Joins
<1>2. CallsOK'
    <2>1. PICK d : d = [c EXCEPT !.gen = g, !.st = "joined"]
        OBVIOUS
    <2>2. CallOK(c)'
        OBVIOUS
    <2>3. d \in Call /\ d.rev = c.rev /\ d.want = c.want /\ d.st = "joined"
        BY <2>1, <2>2 DEF CallOK, Call
    <2>4. CallOK(d)'
        BY <2>2, <2>3 DEF CallOK, Mine
    <2>5. calls' \subseteq calls \cup {d}
        BY <2>1 DEF Joins
    <2> QED BY <2>4, <2>5 DEF CallsOK
<1> QED BY <1>1, <1>2

\* The call is answered at once.
LEMMA Rejected ==
    ASSUME Sound, NEW c \in calls, Refused(c), open' = open
    PROVE  /\ Sends /\ FlightsOK' /\ calls' \subseteq calls
           /\ \A v \in Window : \A m \in Message : m.kind = "snapshot" =>
                  (m \in Mail(box'[v]) <=> m \in Mail(box[v]))
           /\ \A v \in Window : \A m \in Mail(box'[v]) :
                 m \in Mail(box[v]) \/ (m.kind = "local" /\ m.token = NoToken)
<1>1. NoToken \in Token /\ Fits(NoToken, Local)
    BY Origins DEF Fits
<1>2. /\ box \in Boxes /\ box' = LocalReply(box, c, NoToken) /\ calls' \subseteq calls
      /\ UNCHANGED <<flight, flights>>
    BY DEF Refused, Sound, MailOK
<1>3. \A v \in Window : \A m \in Mail(box[v]) :
              \/ m \in Mail(box[v])
              \/ m = [kind |-> "snapshot", snap |-> snap'] /\ open[v] /\ snap'.phase = "blocked"
    OBVIOUS
<1> QED BY <1>1, <1>2, <1>3, Replies, FlightsKept

\* A local() call arrives.
LEMMA SoundLocalArrives ==
    ASSUME Sound, NEW c \in calls, LocalArrives(c) PROVE Sound' /\ Still
<1>1. UNCHANGED <<backendVars, gen, open, document, win, posts, stored, pref, asked, served, left>>
    BY DEF LocalArrives, diskVars, ghostVars
<1>2. CASE /\ snap.phase = "pending" /\ snap' = [snap EXCEPT !.localPending = TRUE]
           /\ \/ /\ calls' = (calls \ {c}) \cup {[c EXCEPT !.gen = gen, !.st = "waits"]}
                 /\ UNCHANGED <<flight, flights>>
              \/ Joins(c, gen)
           /\ UNCHANGED box
    <2>1. gen \in Nat \ {0}
        <3>1. snap.rev > 0 /\ gen \in Nat
            BY <1>2, SessionFields DEF Sound, SnapOK
        <3> QED BY <3>1 DEF Sound, SnapOK
    <2>2. Sends /\ Still
        BY <1>1, <1>2 DEF Sends, Still, Sound, MailOK
    <2>3. /\ SnapOK' /\ AskedOK' /\ WindowsOK' /\ OwnerOK' /\ PostsOK' /\ MailOK'
          /\ \A d \in calls : CallOK(d)'
        BY <1>1, <1>2, <2>2, MainMoves
    <2>4. FlightsOK' /\ CallsOK'
        <3>1. CASE Joins(c, gen)
            BY <2>1, <2>3, <3>1, Joined
        <3>2. CASE /\ calls' = (calls \ {c}) \cup {[c EXCEPT !.gen = gen, !.st = "waits"]}
                   /\ UNCHANGED <<flight, flights>>
            <4>1. PICK d : d = [c EXCEPT !.gen = gen, !.st = "waits"]
                OBVIOUS
            <4>2. CallOK(c)'
                BY <2>3
            <4>a. c \in Call
                BY <4>2 DEF CallOK
            <4>b. PICK g \in Nat \ {0} : g = gen
                BY <2>1
            <4>c. d = [c EXCEPT !.gen = g, !.st = "waits"]
                BY <4>1, <4>b
            <4>d. d \in Call /\ d.rev = c.rev /\ d.want = c.want /\ d.gen = g
                BY <4>a, <4>c DEF Call
            <4>3. d \in Call /\ d.rev = c.rev /\ d.want = c.want /\ d.gen > 0
                BY <4>d
            <4>4. CallOK(d)'
                BY <4>2, <4>3 DEF CallOK, Mine
            <4>5. calls' \subseteq calls \cup {d}
                BY <3>2, <4>1
            <4> QED BY <2>3, <3>2, <4>4, <4>5, FlightsKept DEF CallsOK
        <3> QED BY <1>2, <3>1, <3>2
    <2> QED BY <1>1, <2>2, <2>3, <2>4, BackendsKept, DiskKept, SoundParts
<1>3. CASE Refused(c) /\ UNCHANGED snap
    <2>1. /\ Sends /\ FlightsOK' /\ calls' \subseteq calls
          /\ \A v \in Window : \A m \in Message : m.kind = "snapshot" =>
                  (m \in Mail(box'[v]) <=> m \in Mail(box[v]))
          /\ \A v \in Window : \A m \in Mail(box'[v]) :
                 m \in Mail(box[v]) \/ (m.kind = "local" /\ m.token = NoToken)
        BY <1>1, <1>3, Rejected
    <2>2. /\ SnapOK' /\ AskedOK' /\ WindowsOK' /\ OwnerOK' /\ PostsOK' /\ MailOK' /\ CallsOK'
        BY <1>1, <1>3, <2>1, MainMoves
    <2>3. Still
        BY <1>1, <1>3, <2>1 DEF Still
    <2> QED BY <1>1, <2>1, <2>2, <2>3, BackendsKept, DiskKept, SoundParts
<1>4. \/ FromOwner(c) /\ snap.url = Local /\ snap.rev = c.rev /\ snap.phase = "pending"
      \/ ~ (FromOwner(c) /\ snap.url = Local /\ snap.rev = c.rev /\ snap.phase = "pending")
    OBVIOUS
<1> QED BY <1>2, <1>3, <1>4 DEF LocalArrives

\* The older startup a call waited for has settled.
LEMMA SoundLocalWaited ==
    ASSUME Sound, NEW c \in calls, LocalWaited(c) PROVE Sound' /\ Still
<1>1. UNCHANGED <<backendVars, snap, gen, open, document, win, posts, stored, pref, asked, served,
                  left>>
    BY DEF LocalWaited, diskVars, ghostVars
<1>2. CASE gen = c.gen /\ Joins(c, gen) /\ UNCHANGED box
    <2>1. gen \in Nat \ {0}
        BY <1>2 DEF LocalWaited, Sound, CallsOK, CallOK, SnapOK
    <2>2. Sends /\ Still
        BY <1>1, <1>2 DEF Sends, Still, Sound, MailOK
    <2>3. /\ SnapOK' /\ AskedOK' /\ WindowsOK' /\ OwnerOK' /\ PostsOK' /\ MailOK'
          /\ \A d \in calls : CallOK(d)'
        BY <1>1, <1>2, <2>2, MainMoves
    <2>4. FlightsOK' /\ CallsOK'
        BY <1>2, <2>1, <2>3, Joined
    <2> QED BY <1>1, <2>2, <2>3, <2>4, BackendsKept, DiskKept, SoundParts
<1>3. CASE Refused(c)
    <2>1. /\ Sends /\ FlightsOK' /\ calls' \subseteq calls
          /\ \A v \in Window : \A m \in Message : m.kind = "snapshot" =>
                  (m \in Mail(box'[v]) <=> m \in Mail(box[v]))
          /\ \A v \in Window : \A m \in Mail(box'[v]) :
                 m \in Mail(box[v]) \/ (m.kind = "local" /\ m.token = NoToken)
        BY <1>1, <1>3, Rejected
    <2>2. /\ SnapOK' /\ AskedOK' /\ WindowsOK' /\ OwnerOK' /\ PostsOK' /\ MailOK' /\ CallsOK'
        BY <1>1, <2>1, MainMoves
    <2>3. Still
        BY <1>1, <2>1 DEF Still
    <2> QED BY <1>1, <2>1, <2>2, <2>3, BackendsKept, DiskKept, SoundParts
<1> QED BY <1>2, <1>3 DEF LocalWaited

\* The local startup moves.
LEMMA SoundFlightMoves ==
    ASSUME Sound, NEW f \in flights, FlightMoves(f) PROVE Sound' /\ Still
<1>1. /\ UNCHANGED <<late, snap, gen, flight, calls, open, document, box, win, posts, stored, pref,
                     asked, served, left>>
      /\ left' \in Bound
    BY DEF FlightMoves, diskVars, ghostVars, Sound, AskedOK
<1>2. f \in LocalStartup /\ flights \subseteq LocalStartup /\ flight \in Nat
    BY DEF Sound, FlightsOK
<1>3. PICK st \in {"start", "health", "post", "posted", "ok", "failed"}, t \in Token :
          /\ Fits(t, Local) /\ BackendsOK'
          /\ flights' = (flights \ {f}) \cup {[f EXCEPT !.st = st, !.token = t]}
    <2>1. CASE /\ flights' = (flights \ {f}) \cup
                    {[f EXCEPT !.st = IF f.gen # gen THEN "failed"
                                      ELSE IF f.st = "start" THEN "health" ELSE "post",
                               !.token = NoToken]}
               /\ UNCHANGED <<valid, issued>>
        <3>1. BackendsOK'
            BY <1>1, <2>1, BackendsKept DEF backendVars
        <3>2. NoToken \in Token /\ Fits(NoToken, Local)
            BY Origins DEF Fits
        <3>3. (IF f.gen # gen THEN "failed" ELSE IF f.st = "start" THEN "health" ELSE "post")
                  \in {"start", "health", "post", "posted", "ok", "failed"}
            OBVIOUS
        <3> QED BY <2>1, <3>1, <3>2, <3>3
    <2>2. CASE /\ Issue(Local)
               /\ flights' = (flights \ {f}) \cup
                    {[f EXCEPT !.st = "posted", !.token = [url |-> Local, n |-> issued'[Local]]]}
        <3>1. Local \in Origin /\ late' \in [Origin -> {"no", "may", "did"}]
            BY <1>1, Origins DEF Sound, BackendsOK
        <3>2. PICK t \in Token : t = [url |-> Local, n |-> issued'[Local]] /\ t.url = Local
            BY <2>2, <3>1, Issues
        <3>3. BackendsOK' /\ Fits(t, Local)
            BY <2>2, <3>1, <3>2, Issues DEF Fits
        <3> QED BY <2>2, <3>2, <3>3
    <2>3. CASE /\ flights' = (flights \ {f}) \cup
                    {[f EXCEPT !.st = IF valid[Local] = f.token.n THEN "ok" ELSE "failed",
                               !.token = f.token]}
               /\ UNCHANGED <<valid, issued>>
        <3>1. BackendsOK'
            BY <1>1, <2>3, BackendsKept DEF backendVars
        <3>2. f.token \in Token /\ Fits(f.token, Local)
            BY <1>2 DEF LocalStartup, Startup
        <3>3. (IF valid[Local] = f.token.n THEN "ok" ELSE "failed")
                  \in {"start", "health", "post", "posted", "ok", "failed"}
            OBVIOUS
        <3> QED BY <2>3, <3>1, <3>2, <3>3
    <2> QED BY <2>1, <2>2, <2>3 DEF FlightMoves
<1>4. PICK g : g = [f EXCEPT !.st = st, !.token = t]
    OBVIOUS
<1>5. g \in LocalStartup
    BY <1>2, <1>3, <1>4 DEF LocalStartup, Startup
<1>6. FlightsOK'
    BY <1>1, <1>2, <1>3, <1>4, <1>5 DEF FlightsOK
<1> QED BY <1>1, <1>3, <1>6, StillKept, DiskKept, SoundParts

\* The local startup fails.
LEMMA SoundFlightFails ==
    ASSUME Sound, NEW f \in flights, FlightFails(f) PROVE Sound' /\ Still
<1>1. /\ UNCHANGED <<valid, issued, snap, gen, flight, calls, open, document, box, win, posts,
                     stored, pref, asked, served>>
      /\ left' \in Bound
    BY Spending DEF FlightFails, diskVars, ghostVars, Sound, AskedOK
<1>2. f \in LocalStartup /\ flights \subseteq LocalStartup /\ flight \in Nat
    BY DEF Sound, FlightsOK
<1>3. PICK g : g = [f EXCEPT !.st = "failed"]
    OBVIOUS
<1>4. g \in LocalStartup
    BY <1>2, <1>3 DEF LocalStartup, Startup
<1>5. flights' = (flights \ {f}) \cup {g}
    BY <1>3 DEF FlightFails
<1>6. FlightsOK'
    BY <1>1, <1>2, <1>4, <1>5 DEF FlightsOK
<1>7. BackendsOK'
    <2>1. late \in [Origin -> {"no", "may", "did"}] /\ late[Local] \in {"no", "may", "did"}
        BY Origins DEF Sound, BackendsOK
    <2>2. late' \in [Origin -> {"no", "may", "did"}]
        BY <2>1 DEF FlightFails
    <2> QED BY <1>1, <2>2 DEF Sound, BackendsOK
<1> QED BY <1>1, <1>6, <1>7, StillKept, DiskKept, SoundParts

\* The startup of a local() call has settled, and the call returns.
LEMMA SoundLocalReturns ==
    ASSUME Sound, NEW c \in calls, LocalReturns(c) PROVE Sound' /\ (Still \/ GivesUp)
<1>1. /\ UNCHANGED <<backendVars, flight, flights, open, document, win, posts, stored, pref, asked,
                     left>>
      /\ calls' \subseteq calls
    BY DEF LocalReturns, diskVars
<1>2. NoToken \in Token /\ Fits(NoToken, Local) /\ box \in Boxes
    BY Origins DEF Fits, Sound, MailOK
<1>3. ASSUME snap.rev = c.rev, snap' = Cleared, gen' = gen + 1, served' = 0,
             box' = LocalReply(Deliver(box, snap', Window), c, NoToken)
      PROVE  Sound' /\ GivesUp
    <2>1. /\ snap.phase = "pending" /\ snap \in Session /\ gen \in Nat /\ snap.rev \in Nat
        BY <1>3, SessionFields DEF Sound, CallsOK, CallOK, SnapOK
    <2>2. snap' \in Session /\ snap'.rev = snap.rev + 1 /\ snap'.phase = "blocked"
        BY <1>3, <2>1, ClearedSession
    <2>3. SnapMoves /\ Continues /\ SnapOK' /\ Emptied
        BY <1>1, <1>3, <2>1, <2>2 DEF SnapMoves, Continues, SnapOK, Emptied
    <2>4. PICK told, b : told = Window /\ b = Deliver(box, snap', told)
        OBVIOUS
    <2>5. b \in Boxes
          /\ \A v \in Window :
                 Mail(b[v]) = IF open[v] /\ v \in told
                              THEN Mail(box[v]) \cup {[kind |-> "snapshot", snap |-> snap']}
                              ELSE Mail(box[v])
        BY <1>2, <2>2, <2>4, MailDelivered
    <2>6. \A v \in Window : \A m \in Mail(b[v]) :
              \/ m \in Mail(box[v])
              \/ m = [kind |-> "snapshot", snap |-> snap'] /\ open[v] /\ snap'.phase = "blocked"
        BY <2>2, <2>4, <2>5
    <2>7. /\ Sends
          /\ \A v \in Window : \A m \in Message : m.kind = "snapshot" =>
                  (m \in Mail(box'[v]) <=> m \in Mail(b[v]))
          /\ \A v \in Window : \A m \in Mail(box'[v]) :
                 m \in Mail(b[v]) \/ (m.kind = "local" /\ m.token = NoToken)
        <3>1. box' = LocalReply(b, c, NoToken) /\ open' = open
            BY <1>1, <1>3, <2>4
        <3> QED BY <1>2, <2>5, <2>6, <3>1, Replies
    <2>8. Informs(Window)
        <3>a. PICK m : m = [kind |-> "snapshot", snap |-> snap']
            OBVIOUS
        <3>1. m \in Message /\ m.kind = "snapshot"
            BY <2>2, <3>a DEF Message, News
        <3>2. ASSUME NEW v \in Window, open[v] PROVE m \in Mail(box'[v])
            <4>1. m \in Mail(b[v])
                BY <2>4, <2>5, <3>a, <3>2
            <4> QED BY <2>7, <3>1, <4>1
        <3>3. ASSUME NEW v \in Window, NEW n \in Mail(box'[v])
              PROVE  \/ n \in Mail(box[v])
                     \/ n.kind = "snapshot" /\ n.snap = snap'
                     \/ n.kind = "local" /\ n.token = NoToken
            BY <2>6, <2>7, <3>3
        <3> QED BY <3>a, <3>2, <3>3 DEF Informs
    <2>9. WindowsOK' /\ OwnerOK'
        <3>1. ASSUME NEW v \in Window
              PROVE  /\ win[v].auth.rev \in Nat /\ win[v].auth.rev <= snap.rev
                     /\ win[v].auth.rev <= snap'.rev
                     /\ win[v].att.pc # "off" => win[v].att.rev = win[v].auth.rev
            <4>1. win[v] \in Renderer /\ win[v].auth.rev <= snap.rev
                  /\ (win[v].att.pc # "off" => win[v].att.rev = win[v].auth.rev)
                BY DEF Sound, WindowsOK
            <4>2. win[v].auth.rev \in Nat
                BY <4>1, RendererFields, SessionFields
            <4> QED BY <2>1, <2>2, <4>1, <4>2
        <3>2. WindowsOK'
            BY <1>1, <3>1 DEF Sound, WindowsOK
        <3>3. win[Main].att.pc # "off" => win[Main].att.rev # snap'.rev
            <4>1. Main \in Window
                BY Origins
            <4>2. /\ win[Main].auth.rev \in Nat /\ win[Main].auth.rev <= snap.rev
                  /\ win[Main].att.pc # "off" => win[Main].att.rev = win[Main].auth.rev
                BY <3>1, <4>1
            <4> QED BY <2>1, <2>2, <4>2
        <3> QED BY <1>1, <3>2, <3>3 DEF OwnerOK
    <2>10. PostsOK' /\ MailOK' /\ CallsOK'
        <3>1. posts' # {} => open'[Main]
            BY <1>1 DEF Sound, PostsOK
        <3> QED BY <1>1, <2>3, <2>7, <3>1, WorkKept
    <2>11. AskedOK'
        <3>1. asked > 0
            BY <2>1, SessionFields DEF Sound, AskedOK
        <3> QED BY <1>1, <1>3, <3>1 DEF Sound, AskedOK
    <2>12. GivesUp
        BY <1>1, <1>3, <2>1, <2>2, <2>8 DEF GivesUp
    <2> QED BY <1>1, <2>3, <2>9, <2>10, <2>11, <2>12, BackendsKept, FlightsKept, DiskKept, SoundParts
<1>4. ASSUME NEW t \in Token, Fits(t, Local), box' = LocalReply(box, c, t),
             UNCHANGED <<snap, gen, served>>,
             t = NoToken \/ \E f \in flights : /\ c.rev = snap.rev /\ f.gen = gen /\ f.st = "ok"
                                              /\ t = f.token
      PROVE  Sound' /\ Still
    <2>1. \A v \in Window : \A m \in Mail(box[v]) :
              \/ m \in Mail(box[v])
              \/ m = [kind |-> "snapshot", snap |-> snap'] /\ open[v] /\ snap'.phase = "blocked"
        OBVIOUS
    <2>2. /\ Sends
          /\ \A v \in Window : \A m \in Message : m.kind = "snapshot" =>
                  (m \in Mail(box'[v]) <=> m \in Mail(box[v]))
          /\ \A v \in Window : \A m \in Mail(box'[v]) :
                 m \in Mail(box[v]) \/ (m.kind = "local" /\ m.token = t /\ m.born = c.rev)
        BY <1>1, <1>2, <1>4, <2>1, Replies
    <2>3. SnapOK' /\ AskedOK' /\ WindowsOK' /\ OwnerOK' /\ PostsOK' /\ MailOK' /\ CallsOK'
        BY <1>1, <1>4, <2>2, MainMoves
    <2>a. ASSUME NEW v \in Window, NEW m \in Mail(box'[v])
          PROVE  m \in Mail(box[v]) \/ (m.kind = "local" /\ (m.token = NoToken \/ Returned(m)))
        <3>1. calls' = calls \ {c}
            BY DEF LocalReturns
        <3> QED BY <1>4, <2>2, <2>a, <3>1 DEF Returned
    <2>4. Still
        BY <1>1, <1>4, <2>2, <2>a DEF Still
    <2> QED BY <1>1, <2>3, <2>4, BackendsKept, FlightsKept, DiskKept, SoundParts
<1> DEFINE mine == FromOwner(c) /\ snap.rev = c.rev /\ gen = c.gen
           ok == {f \in flights : f.gen = c.gen /\ f.st = "ok"}
<1>5. CASE mine /\ ok = {}
    BY <1>3, <1>5 DEF LocalReturns
<1>6. CASE mine /\ ok # {}
    <2>1. PICK f \in ok : f = CHOOSE g \in ok : TRUE
        BY <1>6
    <2>2. f.token \in Token /\ Fits(f.token, Local)
        <3>1. f \in LocalStartup
            BY <2>1 DEF Sound, FlightsOK
        <3> QED BY <3>1 DEF LocalStartup, Startup
    <2>3. box' = LocalReply(box, c, f.token) /\ UNCHANGED <<snap, gen, served>>
        BY <1>6, <2>1 DEF LocalReturns
    <2>4. c.rev = snap.rev /\ f \in flights /\ f.gen = gen /\ f.st = "ok"
        BY <1>6, <2>1
    <2> QED BY <1>4, <2>2, <2>3, <2>4
<1>7. CASE ~ mine
    <2>1. box' = LocalReply(box, c, NoToken) /\ UNCHANGED <<snap, gen, served>>
        BY <1>7 DEF LocalReturns
    <2> QED BY <1>2, <1>4, <2>1
<1> QED BY <1>5, <1>6, <1>7

(***************************************************************************)
(* What a window receives, and windows that come and go                    *)
(***************************************************************************)
\* A window follows a snapshot: it was told, or its document has just loaded and read it.
LEMMA Hydrates ==
    ASSUME Sound, NEW w \in Window, NEW sn \in Session, sn.rev <= snap.rev,
           NEW b \in Boxes, \A v \in Window : Mail(b[v]) \subseteq Mail(box[v]),
           w = Main => sn.phase = "blocked" \/ (sn = snap /\ b = box /\ ~ open[Main]),
           w = Main => sn.phase # "initial", Hydrate(w, sn, b),
           open' \in [Window -> BOOLEAN], open'[w], \A v \in Window \ {w} : open'[v] = open[v],
           UNCHANGED <<backendVars, flight, flights, document, posts, stored, asked>>,
           left' \in Bound,
           \A v \in Window \ {w} : b[v] = box[v],
           \/ ~ open[w] /\ sn = snap /\ b = box
           \/ open[w] /\ \E m \in Mail(box[w]) : /\ m.kind = "snapshot" /\ m.snap = sn
                                                 /\ Mail(box[w]) = Mail(b[w]) \cup {m}
    PROVE  Sound' /\ (Follows(w, sn) \/ (w = Main /\ sn.phase = "pending" /\ Asks))
<1>0. /\ sn.rev \in Nat /\ snap.rev \in Nat /\ snap \in Session /\ asked \in Nat /\ document \in Nat
      /\ win \in [Window -> Renderer] /\ win[w] \in Renderer /\ win[w].auth.rev \in Nat
      /\ win[w].att \in Attempt
      /\ (w = Main => asked > 0) /\ (open'[Main] => asked > 0) /\ Main \in Window
    <2>1. win \in [Window -> Renderer] /\ win[w] \in Renderer
        BY DEF Sound, WindowsOK
    <2>2. sn.rev \in Nat /\ snap.rev \in Nat /\ snap \in Session /\ Main \in Window
        BY SessionFields, Origins DEF Sound, SnapOK
    <2>a. w = Main => asked > 0
        <3>1. w = Main => snap.rev > 0
            BY <2>2, SessionFields
        <3> QED BY <3>1 DEF Sound, AskedOK
    <2>3. (w = Main => asked > 0) /\ (open'[Main] => asked > 0)
        BY <2>2, <2>a DEF Sound, AskedOK
    <2> QED BY <2>1, <2>2, <2>3, RendererFields, SessionFields, Origins DEF Sound, AskedOK
<1>1. ASSUME UNCHANGED <<snap, gen, served, calls>>, box' = b, pref' \in {pref, NoOrigin},
             NEW y \in Renderer, win' = [win EXCEPT ![w] = y],
             y.auth.rev <= snap.rev,
             y.att.pc # "off" => y.att.rev = y.auth.rev /\ y.att.born <= y.att.rev,
             w # Main \/ y.att.pc = "off" \/ y = win[w]
      PROVE  Sound' /\ win'[w] = y /\ Others(w) /\ SameSession
    <2>1. /\ SnapMoves /\ Continues /\ SnapOK' /\ WindowsOK' /\ OwnerOK' /\ win'[w] = y
          /\ Others(w)
        <3>1. \/ w # Main \/ y.att.pc = "off"
              \/ /\ win[w].att.pc # "off" /\ y.att.born = win[w].att.born
                 /\ y.att.rev = win[w].att.rev
                 /\ y.att.want = win[w].att.want /\ y.att.url = win[w].att.url
                 /\ win[w].att.pc = "posting" => y.att.pc = "posting" \/ posts' = {}
            BY <1>1
        <3>2. snap' = snap /\ gen' = gen /\ asked' = asked
            BY <1>1
        <3> QED BY <1>1, <3>1, <3>2, RendererMoves DEF Others
    <2>2. Sends /\ Emptied
        BY <1>1, MailOnlyTaken DEF Emptied, Sound, MailOK
    <2>3. PostsOK' /\ MailOK' /\ CallsOK'
        <3>1. posts' # {} => open'[Main]
            <4>1. posts # {} => open[Main]
                BY DEF Sound, PostsOK
            <4> QED BY <1>0, <4>1
        <3> QED BY <1>1, <2>1, <2>2, <3>1, WorkKept
    <2>4. AskedOK'
        BY <1>0, <1>1 DEF Sound, AskedOK
    <2>5. SameSession
        BY <1>1 DEF SameSession
    <2> QED BY <1>1, <2>1, <2>3, <2>4, <2>5, BackendsKept, FlightsKept, DiskKept, SoundParts
<1>2. ASSUME w = Main, sn.phase # "blocked"
      PROVE  sn = snap /\ b = box /\ ~ open[Main] /\ win[w] = Blank /\ posts = {}
             /\ Mail(box[Main]) = {}
    BY <1>0, <1>2 DEF Sound, WindowsOK, PostsOK, MailOK
<1>3. CASE /\ Outdated(w, sn)
           /\ UNCHANGED <<snap, gen, served, calls>> /\ box' = b
           /\ UNCHANGED <<win, pref>>
    <2>1. PICK y \in Renderer : y = win[w] /\ win' = [win EXCEPT ![w] = y]
        BY <1>0, <1>3
    <2>2. y.auth.rev <= snap.rev
          /\ (y.att.pc # "off" => y.att.rev = y.auth.rev /\ y.att.born <= y.att.rev)
        BY <2>1 DEF Sound, WindowsOK
    <2>3. Sound' /\ win'[w] = y /\ Others(w) /\ SameSession
        BY <1>1, <1>3, <2>1, <2>2
    <2> QED BY <1>3, <2>1, <2>3 DEF Follows
<1>4. CASE /\ ~ Outdated(w, sn)
           /\ sn.phase = "connected" /\ win[w].status = "connected" /\ win[w].att.pc # "off"
           /\ sn.token = win[w].api
           /\ win' = [win EXCEPT ![w].auth = sn, ![w].att.rev = sn.rev]
           /\ UNCHANGED <<snap, gen, served, calls>> /\ box' = b /\ UNCHANGED pref
    <2>1. w # Main
        BY <1>2, <1>4, BlankRenderer
    <2>2. PICK y : y = [win[w] EXCEPT !.auth = sn, !.att.rev = sn.rev]
        OBVIOUS
    <2>3. win' = [win EXCEPT ![w] = y]
        BY <1>0, <1>4, <2>2
    <2>4. /\ y \in Renderer /\ y.auth = sn /\ y.att.pc = win[w].att.pc /\ y.att.rev = sn.rev
          /\ y.att.born = win[w].att.born /\ y.att.cand = win[w].att.cand
          /\ y.att.ans = win[w].att.ans /\ y.status = win[w].status /\ y.api = win[w].api
          /\ y.bad = win[w].bad
        BY <1>0, <2>2 DEF Renderer, Attempt
    <2>5. y.auth.rev <= snap.rev /\ y.att.rev = y.auth.rev /\ y.att.born <= y.att.rev
        <3>1. win[w].att.born <= win[w].att.rev /\ win[w].att.rev = win[w].auth.rev
            BY <1>4 DEF Sound, WindowsOK
        <3>2. win[w].auth.rev <= sn.rev
            BY <1>0, <1>4 DEF Outdated
        <3>3. win[w].att.born \in Nat
            BY <1>0, AttemptFields
        <3>4. win[w].att.born <= sn.rev
            BY <1>0, <3>1, <3>2, <3>3
        <3> QED BY <2>4, <3>4
    <2>6. Sound' /\ win'[w] = y /\ Others(w) /\ SameSession
        BY <1>1, <1>4, <2>1, <2>3, <2>4, <2>5
    <2>7. Shows(w, sn)
        BY <2>4, <2>6 DEF Shows
    <2> QED BY <1>4, <2>1, <2>4, <2>6, <2>7 DEF Follows
<1>5. CASE /\ ~ Outdated(w, sn) /\ sn.phase = "connected"
           /\ win' = [win EXCEPT ![w] = Attempting(win[w], sn, sn.url, "verify", sn.token, sn.rem,
                                                   asked)]
           /\ UNCHANGED <<snap, gen, served, calls>> /\ box' = b /\ UNCHANGED pref
    <2>1. /\ sn.url \in Origin /\ sn.token \in Token /\ Fits(sn.token, sn.url)
          /\ sn.rem \in BOOLEAN
        BY <1>5, SessionFields DEF Fits
    <2>2. PICK new : new = [pc |-> "verify", url |-> sn.url, born |-> sn.rev, rev |-> sn.rev,
                            cand |-> sn.token, rem |-> sn.rem, ans |-> "none", want |-> asked]
        OBVIOUS
    <2>3. /\ new \in Attempt /\ new.pc = "verify" /\ new.url = sn.url /\ new.born = sn.rev
          /\ new.rev = sn.rev /\ new.cand = sn.token /\ new.ans = "none" /\ new.want = asked
        BY <1>0, <2>1, <2>2 DEF Attempt, AnyBackend, Step
    <2>4. PICK y : y = [Invalidated(win[w]) EXCEPT !.auth = sn, !.status = "checking", !.att = new]
        OBVIOUS
    <2>5. win' = [win EXCEPT ![w] = y]
        BY <1>5, <2>2, <2>4 DEF Attempting
    <2>6. /\ y \in Renderer /\ y.auth = sn /\ y.status = "checking" /\ y.api = NoToken
          /\ y.bad = FALSE /\ y.att = new
        BY <1>0, <2>3, <2>4, Origins DEF Invalidated, Renderer, Status
    <2>7. y.auth.rev <= snap.rev /\ y.att.rev = y.auth.rev /\ y.att.born <= y.att.rev
        BY <1>0, <2>3, <2>6
    <2>8. CASE w # Main
        <3>1. Sound' /\ win'[w] = y /\ Others(w) /\ SameSession
            BY <1>1, <1>5, <2>5, <2>6, <2>7, <2>8
        <3>2. Shows(w, sn)
            BY <2>6, <3>1 DEF Shows
        <3> QED BY <1>5, <2>3, <2>6, <3>1, <3>2 DEF Follows
    <2>9. CASE w = Main
        <3>1. /\ sn = snap /\ b = box /\ ~ open[Main] /\ posts' = {} /\ Mail(box[Main]) = {}
              /\ snap' = snap /\ gen' = gen /\ asked' = asked /\ calls' = calls /\ box' = box
            BY <1>2, <1>5, <2>9
        <3>2. SnapMoves /\ SnapOK'
            BY <1>0, <3>1 DEF SnapMoves, Sound, SnapOK
        <3>3. WindowsOK' /\ win'[w] = y /\ Others(w)
            BY <2>5, <2>6, <2>7, <3>1, <3>2, WindowKept DEF Others
        <3>4. win'[Main].att = new
            BY <2>6, <2>9, <3>3
        <3>5. OwnerOK'
            BY <2>3, <3>1, <3>4 DEF OwnerOK
        <3>6. CallsOK'
            <4> SUFFICES ASSUME NEW c \in calls PROVE CallOK(c)'
                BY <3>1 DEF CallsOK
            <4>1. CallOK(c) /\ c.rev # snap.rev
                BY <1>5, <3>1 DEF Sound, CallsOK, CallOK
            <4>2. ~ Mine(c.rev)'
                BY <2>3, <3>1, <3>4, <4>1 DEF Mine
            <4> QED BY <3>1, <4>1, <4>2 DEF CallOK
        <3>7. MailOK'
            <4>1. MailOK /\ box' = box /\ snap' = snap /\ Mail(box'[Main]) = {}
                BY <3>1 DEF Sound
            <4>2. \A v \in Window : ~ open'[v] => Mail(box'[v]) = {}
                BY <2>9, <4>1 DEF MailOK
            <4> QED BY <4>1, <4>2 DEF MailOK
        <3>8. PostsOK' /\ AskedOK'
            BY <1>0, <1>5, <3>1 DEF PostsOK, Sound, AskedOK
        <3>9. Shows(w, sn)
            BY <2>6, <3>3 DEF Shows
        <3>10. SameSession
            BY <1>5, <3>1 DEF SameSession
        <3>11. Follows(w, sn)
            BY <1>5, <2>3, <2>6, <3>1, <3>3, <3>9, <3>10 DEF Follows
        <3> QED BY <1>5, <3>2, <3>3, <3>5, <3>6, <3>7, <3>8, <3>11, BackendsKept, FlightsKept,
                   DiskKept, SoundParts
    <2> QED BY <2>8, <2>9
<1>6. CASE w = Main /\ sn.phase = "pending" /\ StartsLocal(asked, b)
    <2>1. PICK want : want = asked' /\ asked' = asked /\ StartsLocal(want, box)
        BY <1>2, <1>6
    <2> QED BY <1>0, <1>6, <2>1, SoundStartsLocal
<1>7. CASE /\ ~ Outdated(w, sn) /\ sn.phase # "connected"
           /\ ~ (w = Main /\ sn.phase = "pending" /\ sn.localPending)
           /\ win' = [win EXCEPT ![w] = [[Invalidated(win[w]) EXCEPT !.auth = sn] EXCEPT
                      !.status = IF sn.phase \in {"pending", "initial"} THEN "checking"
                                 ELSE "disconnected"]]
           /\ pref' = IF w = Main /\ sn.phase = "blocked" THEN NoOrigin ELSE pref
           /\ UNCHANGED <<snap, gen, served, calls>> /\ box' = b
    <2>1. PICK status : status = IF sn.phase \in {"pending", "initial"} THEN "checking"
                                 ELSE "disconnected"
        OBVIOUS
    <2>2. status \in {"checking", "disconnected"} /\ status \in Status
        BY <2>1 DEF Status
    <2>3. PICK y : y = [[Invalidated(win[w]) EXCEPT !.auth = sn] EXCEPT !.status = status]
        OBVIOUS
    <2>4. win' = [win EXCEPT ![w] = y]
        BY <1>7, <2>1, <2>3
    <2>5. /\ y \in Renderer /\ y.auth = sn /\ y.status = status /\ y.api = NoToken
          /\ y.bad = FALSE /\ y.att = NoAttempt /\ y.att.pc = "off"
        BY <1>0, <2>2, <2>3, BlankRenderer, Origins DEF Invalidated, Renderer
    <2>6. Sound' /\ win'[w] = y /\ Others(w) /\ SameSession
        BY <1>1, <1>7, <2>4, <2>5
    <2>7. Shows(w, sn)
        BY <2>5, <2>6 DEF Shows
    <2> QED BY <1>7, <2>2, <2>5, <2>6, <2>7 DEF Follows
<1> QED BY <1>3, <1>4, <1>5, <1>6, <1>7 DEF Hydrate

\* A message is received.
LEMMA SoundReceive ==
    ASSUME Sound, NEW w \in Window, Receive(w)
    PROVE  Sound' /\ \/ \E sn \in Session : Follows(w, sn)
                     \/ Still \/ Stops(Main) \/ Takes
<1>0. /\ open[w] /\ box[w] # <<>> /\ box \in Boxes /\ open \in [Window -> BOOLEAN]
      /\ UNCHANGED <<backendVars, open, document, posts, stored, asked, refused, left>>
      /\ left' \in Bound /\ asked \in Nat /\ Main \in Window
    BY Origins DEF Receive, Sound, MailOK, AskedOK
<1>1. PICK m, b : m = Head(box[w]) /\ b = [box EXCEPT ![w] = Tail(@)]
    OBVIOUS
<1>2. /\ b \in Boxes /\ m \in Mail(box[w]) /\ m \in Message
      /\ Mail(box[w]) = Mail(b[w]) \cup {m}
      /\ \A v \in Window \ {w} : b[v] = box[v]
    <2>1. box[w] \in Seq(Message) /\ Tail(box[w]) \in Seq(Message)
        BY <1>0, MailTail DEF Boxes
    <2>2. b \in Boxes /\ b[w] = Tail(box[w]) /\ \A v \in Window \ {w} : b[v] = box[v]
        BY <1>0, <1>1, <2>1 DEF Boxes
    <2> QED BY <1>0, <1>1, <2>1, <2>2, MailTail
<1>3. \A v \in Window : Mail(b[v]) \subseteq Mail(box[v])
    BY <1>2
<1>4. CASE m.kind = "snapshot" /\ Hydrate(w, m.snap, b) /\ UNCHANGED <<flight, flights>>
    <2>1. m.snap \in Session /\ m.snap.rev <= snap.rev
        BY <1>2, <1>4 DEF Message, News, Reply, Sound, MailOK
    <2>2. w = Main => m.snap.phase = "blocked"
        BY <1>2, <1>4 DEF Sound, MailOK
    <2>3. w = Main => m.snap.phase # "initial"
        BY <2>2
    <2>5. Sound' /\ Follows(w, m.snap)
        <3>1. PICK sn \in Session : sn = m.snap
            BY <2>1
        <3>2. /\ Hydrate(w, sn, b) /\ sn.rev <= snap.rev /\ (w = Main => sn.phase = "blocked")
              /\ open'[w] /\ \A v \in Window \ {w} : open'[v] = open[v]
              /\ \E n \in Mail(box[w]) : /\ n.kind = "snapshot" /\ n.snap = sn
                                         /\ Mail(box[w]) = Mail(b[w]) \cup {n}
            BY <1>0, <1>2, <1>4, <2>1, <2>2, <3>1
        <3>3. /\ w = Main => sn.phase = "blocked" \/ (sn = snap /\ b = box /\ ~ open[Main])
              /\ \/ ~ open[w] /\ sn = snap /\ b = box
                 \/ open[w] /\ \E n \in Mail(box[w]) : /\ n.kind = "snapshot" /\ n.snap = sn
                                                 /\ Mail(box[w]) = Mail(b[w]) \cup {n}
              /\ w = Main => sn.phase # "initial"
            BY <1>0, <3>2
        <3>4. Sound' /\ (Follows(w, sn) \/ (w = Main /\ sn.phase = "pending" /\ Asks))
            BY <1>0, <1>2, <1>3, <1>4, <3>1, <3>2, <3>3, Hydrates
        <3> QED BY <3>1, <3>2, <3>4
    <2> QED BY <2>1, <2>5
<1>5. CASE /\ m.kind = "local" /\ box' = b
           /\ UNCHANGED <<win, snap, gen, flight, flights, served, pref, calls>>
    <2>1. Sends
        BY <1>2, <1>3, <1>5 DEF Sends
    <2>2. SnapOK' /\ AskedOK' /\ WindowsOK' /\ OwnerOK' /\ PostsOK' /\ MailOK' /\ CallsOK'
        BY <1>0, <1>5, <2>1, MainMoves
    <2>3. Still
        <3>1. ASSUME NEW v \in Window, NEW n \in Message, n.kind = "snapshot"
              PROVE  n \in Mail(box'[v]) <=> n \in Mail(box[v])
            BY <1>2, <1>5, <3>1
        <3>2. \A v \in Window : \A n \in Mail(box'[v]) : n \in Mail(box[v])
            BY <1>3, <1>5
        <3> QED BY <1>0, <1>5, <3>1, <3>2 DEF Still
    <2> QED BY <1>0, <1>5, <2>2, <2>3, BackendsKept, FlightsKept, DiskKept, SoundParts
<1>6. CASE /\ m.kind = "local" /\ Current(Main, m.born)
           /\ IF m.token = NoToken THEN Block(Main, b)
              ELSE Activate(Main, m.token, FALSE, m.want, b)
           /\ UNCHANGED calls
    <2>1. w = Main /\ open[Main]
        BY <1>0, <1>2, <1>6 DEF Sound, MailOK, News
    <2>2. CASE Block(Main, b)
        <3>1. posts' \subseteq posts /\ calls' = calls
            BY <1>0, <1>6
        <3> QED BY <1>0, <1>2, <1>3, <2>1, <2>2, <3>1, BackendsKept, StopsFrom, SoundParts
    <2>3. CASE /\ CommitAccepted(win[Main].att.rev, m.token.url) /\ m.token # NoToken
               /\ Activate(Main, m.token, FALSE, m.want, b)
        <3>1. /\ m.token \in Token /\ win[Main].att.want = m.want /\ win[Main].att.url = Local
              /\ win[Main].att.pc # "off"
            <4>1. m \in Reply
                BY <1>2, <1>6 DEF Message, News
            <4> QED BY <1>2, <1>6, <2>1, <4>1 DEF Reply, Current, Mine, Sound, MailOK
        <3>2. PICK t \in Token, rem \in BOOLEAN : t = m.token /\ rem = FALSE
            BY <3>1
        <3>3. /\ snap' = Committed(t, rem) /\ FlightForgotten
              /\ box' = Deliver(b, snap', Window \ {Main})
              /\ win' = [win EXCEPT ![Main] =
                      [win[Main] EXCEPT !.auth = snap', !.api = t, !.status = "connected", !.bad = FALSE,
                                !.att.rev = snap'.rev, !.att.cand = t, !.att.rem = rem,
                                !.att.pc = "live", !.att.ans = "none"]]
              /\ pref' = IF t.url = Local THEN Local ELSE IF rem THEN t.url ELSE NoOrigin
              /\ served' = win[Main].att.want /\ gen' = gen
            BY <2>3, <3>1, <3>2 DEF Activate
        <3>4. t.url = snap.url /\ CommitAccepted(win[Main].att.rev, t.url)
            BY <2>3, <3>2 DEF CommitAccepted
        <3>5. win[Main].att.pc \notin {"off", "posting"}
            <4>1. win[Main].att \in Attempt
                BY <1>0, RendererFields DEF Sound, WindowsOK
            <4> QED BY <3>1, <4>1, AttemptFields, ConnectionAssumption DEF AnyBackend
        <3>6. pref' \in Origin \cup {NoOrigin}
            BY <3>2, <3>3, Origins
        <3>7. Shown(t)
            BY <1>2, <1>6, <2>1, <3>2 DEF Shown, Current
        <3> QED BY <1>0, <1>2, <1>3, <1>6, <2>1, <3>2, <3>3, <3>4, <3>5, <3>6, <3>7, SoundCommitted
    <2>4. CASE ~ CommitAccepted(win[Main].att.rev, m.token.url) /\ m.token # NoToken
        <3>1. Block(Main, b)
            BY <1>6, <2>4 DEF Activate
        <3> QED BY <2>2, <3>1
    <2> QED BY <1>6, <2>2, <2>3, <2>4
<1> QED BY <1>1, <1>4, <1>5, <1>6 DEF Receive

\* A window's document is gone.
LEMMA SoundLeave == ASSUME Sound, NEW w \in Window, Leave(w) PROVE Sound' /\ Leaves(w)
<1>0. /\ open[w] /\ Main \in Window /\ open \in [Window -> BOOLEAN] /\ asked \in Nat
      /\ open' = [open EXCEPT ![w] = FALSE] /\ open' \in [Window -> BOOLEAN]
      /\ ~ open'[w] /\ (\A v \in Window \ {w} : open'[v] = open[v])
      /\ win \in [Window -> Renderer] /\ box \in Boxes /\ left' \in Bound
      /\ snap \in Session /\ gen \in Nat /\ snap.rev \in Nat /\ document' \in Nat
      /\ UNCHANGED <<valid, issued, flight, flights, calls, stored, pref, asked>>
    BY Origins, SessionFields, Spending
    DEF Leave, Sound, AskedOK, WindowsOK, MailOK, SnapOK, diskVars
<1>1. /\ win' \in [Window -> Renderer] /\ win'[w] = Blank /\ Others(w)
    <2>1. win' = [win EXCEPT ![w] = Blank] /\ Blank \in Renderer
        BY BlankRenderer DEF Leave
    <2> QED BY <1>0, <2>1, WindowChanges DEF Others
<1>2. PICK b : b = [box EXCEPT ![w] = <<>>]
    OBVIOUS
<1>3. /\ b \in Boxes /\ Mail(b[w]) = {} /\ \A v \in Window \ {w} : b[v] = box[v]
    <2>1. b \in Boxes /\ b[w] = <<>> /\ \A v \in Window \ {w} : b[v] = box[v]
        BY <1>0, <1>2, MailEmpty DEF Boxes
    <2> QED BY <2>1, MailEmpty
<1>4. PICK ends \in BOOLEAN : ends <=> w = Main /\ snap.phase = "pending" /\ ~ snap.localPending
    OBVIOUS
<1>5. /\ snap' = IF ends THEN Cleared ELSE snap
      /\ gen' = IF ends THEN gen + 1 ELSE gen
      /\ served' = IF ends THEN 0 ELSE served
      /\ box' = IF ends THEN Deliver(b, snap', Window \ {w}) ELSE b
    BY <1>2, <1>4 DEF Leave
<1>6. /\ snap' \in Session
      /\ ends => snap'.rev = snap.rev + 1 /\ snap'.phase = "blocked"
      /\ ~ ends => snap' = snap
    BY <1>0, <1>5, ClearedSession
<1>7. SnapMoves /\ SnapOK'
    BY <1>0, <1>5, <1>6 DEF SnapMoves, SnapOK, Sound
<1>8. Continues
    <2>1. w = Main => win'[Main].att.pc = "off"
        BY <1>1, BlankRenderer
    <2>2. w # Main => win'[Main] = win[Main]
        BY <1>0, <1>1 DEF Others
    <2> QED BY <2>1, <2>2 DEF Continues
<1>9. Sends /\ Emptied /\ Mail(box'[w]) = {}
    <2>1. CASE ends
        <3>1. PICK told : told = Window \ {w} /\ box' = Deliver(b, snap', told)
            BY <1>5, <2>1
        <3>2. /\ box' \in Boxes
              /\ \A v \in Window :
                     Mail(box'[v]) = IF open[v] /\ v \in told
                                     THEN Mail(b[v]) \cup {[kind |-> "snapshot", snap |-> snap']}
                                     ELSE Mail(b[v])
            <4>1. PICK sn, d : sn \in Session /\ sn = snap' /\ d = box' /\ d = Deliver(b, sn, told)
                BY <1>6, <3>1
            <4>2. /\ d \in Boxes
                  /\ \A v \in Window :
                         Mail(d[v]) = IF open[v] /\ v \in told
                                      THEN Mail(b[v]) \cup {[kind |-> "snapshot", snap |-> sn]}
                                      ELSE Mail(b[v])
                BY <1>3, <4>1, MailDelivered
            <4> QED BY <4>1, <4>2
        <3>3. \A v \in Window : Mail(b[v]) \subseteq Mail(box[v])
            BY <1>3
        <3>4. Mail(box'[w]) = {}
            BY <1>3, <3>1, <3>2
        <3>5. Sends
            <4>1. Main \notin told /\ \A v \in Window : v \in told => (open[v] => open'[v])
                BY <1>0, <1>4, <2>1, <3>1
            <4> QED BY <1>3, <1>6, <3>1, <3>3, <4>1, SendsDelivered
        <3> QED BY <1>0, <3>4, <3>5 DEF Emptied
    <2>2. CASE ~ ends
        <3>1. box' = b
            BY <1>5, <2>2
        <3>2. \A v \in Window : Mail(b[v]) \subseteq Mail(box[v])
            BY <1>3
        <3> QED BY <1>0, <1>3, <3>1, <3>2, MailOnlyTaken DEF Emptied
    <2> QED BY <2>1, <2>2
<1>10. WindowsOK'
    <2>1. ASSUME NEW v \in Window
          PROVE  /\ ~ open'[v] => win'[v] = Blank
                 /\ win'[v].auth.rev <= snap'.rev
                 /\ win'[v].att.pc # "off" => /\ win'[v].att.rev = win'[v].auth.rev
                                              /\ win'[v].att.born <= win'[v].att.rev
        <3>1. CASE v = w
            <4>1. win'[v] = Blank /\ Blank.auth.rev = 0 /\ Blank.att.pc = "off"
                BY <1>1, <3>1, BlankRenderer DEF Initial
            <4>2. snap'.rev \in Nat
                BY <1>6, SessionFields
            <4> QED BY <4>1, <4>2
        <3>2. CASE v # w
            <4>1. win'[v] = win[v] /\ open'[v] = open[v] /\ win[v] \in Renderer
                BY <1>0, <1>1, <3>2 DEF Others
            <4>2. win[v].auth.rev \in Nat /\ win[v].auth.rev <= snap.rev
                BY <4>1, RendererFields, SessionFields DEF Sound, WindowsOK
            <4>3. win[v].auth.rev <= snap'.rev
                BY <1>0, <1>6, <4>2
            <4> QED BY <4>1, <4>3 DEF Sound, WindowsOK
        <3> QED BY <3>1, <3>2
    <2> QED BY <1>1, <2>1 DEF WindowsOK
<1>11. OwnerOK'
    <2>1. CASE w = Main
        BY <1>1, <2>1, BlankRenderer DEF OwnerOK
    <2>2. CASE w # Main
        <3>1. win'[Main] = win[Main] /\ snap' = snap /\ asked' = asked
            BY <1>0, <1>1, <1>4, <1>6, <2>2 DEF Others
        <3> QED BY <3>1 DEF OwnerOK, Sound
    <2> QED BY <2>1, <2>2
<1>12. PostsOK' /\ MailOK' /\ CallsOK'
    <2>1. posts' \subseteq posts /\ (w = Main => posts' = {})
        BY DEF Leave
    <2>2. posts' # {} => open'[Main]
        BY <1>0, <2>1 DEF Sound, PostsOK
    <2> QED BY <1>0, <1>7, <1>8, <1>9, <2>1, <2>2, WorkKept
<1>13. AskedOK'
    <2>1. open'[Main] => open[Main]
        BY <1>0
    <2>2. snap' = snap \/ open[Main]
        BY <1>0, <1>4, <1>6
    <2>3. asked' = asked /\ served' \in {0, served, asked}
        BY <1>0, <1>5
    <2> QED BY <1>0, <2>1, <2>2, <2>3, AskedKept
<1>14. BackendsOK'
    <2>1. late' \in [Origin -> {"no", "may", "did"}]
        <3>1. late \in [Origin -> {"no", "may", "did"}]
            BY DEF Sound, BackendsOK
        <3>2. late' = late \/ late' = [o \in Origin |-> IF Abandoned(o) THEN "may" ELSE late[o]]
            BY DEF Leave
        <3> QED BY <3>1, <3>2
    <2> QED BY <1>0, <2>1 DEF Sound, BackendsOK
<1>15. Leaves(w)
    <2>1. CASE ends
        <3>1. Informs(Window \ {w})
            <4>1. PICK told \in SUBSET Window : told = Window \ {w} /\ box' = Deliver(b, snap', told)
                BY <1>5, <2>1
            <4> QED BY <1>3, <1>6, <4>1, Informing
        <3> QED BY <1>0, <1>1, <1>4, <1>5, <1>6, <2>1, <3>1 DEF Leaves
    <2>2. CASE ~ ends
        BY <1>0, <1>1, <1>3, <1>4, <1>5, <1>6, <2>2 DEF Leaves
    <2> QED BY <2>1, <2>2
<1> QED BY <1>0, <1>7, <1>10, <1>11, <1>12, <1>13, <1>14, <1>15, FlightsKept, DiskKept, SoundParts

\* The owner begins an attempt, at the user's request or because its document follows one.
LEMMA BeginAsks ==
    ASSUME Sound, NEW url \in Origin, NEW pc \in Step \ {"off", "live"}, NEW cand \in Token,
           Fits(cand, url), cand.url # Local,
           NEW rem \in BOOLEAN, pc \notin AnyBackend => url \in Remote,
           snap' = Begun(url), gen' = BegunGen(url),
           box' = Deliver(box, snap', Window \ {Main}),
           win' = [win EXCEPT ![Main] = Attempting(@, snap', url, pc, cand, rem, asked')],
           served' = 0,
           asked' \in {asked, asked + 1}, asked' > 0,
           open' \in [Window -> BOOLEAN], open'[Main],
           \A v \in Window \ {Main} : open'[v] = open[v],
           UNCHANGED <<backendVars, flight, flights, calls, document, posts, stored>>,
           left' \in Bound, pref' \in {pref, NoOrigin}
    PROVE  Sound' /\ Asks
<1>0. /\ Main \in Window /\ asked \in Nat /\ asked' \in Nat /\ box \in Boxes /\ document \in Nat
    BY Origins DEF Sound, AskedOK, MailOK
<1>1. /\ SnapMoves /\ Continues /\ Sends /\ Emptied
      /\ SnapOK' /\ WindowsOK' /\ OwnerOK'
      /\ snap'.rev = snap.rev + 1 /\ snap'.phase = "pending" /\ snap'.token = NoToken
      /\ Others(Main)
      /\ win'[Main].auth = snap' /\ win'[Main].status = "checking"
      /\ win'[Main].api = NoToken /\ win'[Main].bad = FALSE
      /\ win'[Main].att.pc = pc /\ win'[Main].att.born = snap.rev + 1
      /\ win'[Main].att.cand = cand
    <2>1. \A v \in Window : Mail(box[v]) \subseteq Mail(box[v])
        OBVIOUS
    <2> QED BY <1>0, <2>1, Begins DEF Others
<1>2. PostsOK' /\ CallsOK' /\ MailOK'
    BY <1>0, <1>1, WorkKept
<1>3. AskedOK'
    BY <1>0, AskedKept
<1>4. Asks
    <2>1. Informs(Window \ {Main})
        BY <1>0, <1>1, Informing DEF SnapMoves
    <2>2. gen' \in {gen, gen + 1}
        BY NewGeneration
    <2> QED BY <1>1, <2>1, <2>2 DEF Asks
<1> QED BY <1>1, <1>2, <1>3, <1>4, BackendsKept, FlightsKept, DiskKept, SoundParts

\* A document loads.
LEMMA SoundLoad ==
    ASSUME Sound, NEW w \in Window, Load(w)
    PROVE  Sound' /\ (Follows(w, snap) \/ (w = Main /\ Asks))
<1>0. /\ ~ open[w] /\ Main \in Window /\ asked \in Nat /\ box \in Boxes
      /\ open' \in [Window -> BOOLEAN] /\ open'[w] /\ (\A v \in Window \ {w} : open'[v] = open[v])
      /\ UNCHANGED <<backendVars, flight, flights, document, posts, stored, refused, left>>
      /\ left' \in Bound /\ snap \in Session /\ snap.rev \in Nat
      /\ \A v \in Window : Mail(box[v]) \subseteq Mail(box[v])
    BY Origins, SessionFields DEF Load, Sound, AskedOK, MailOK, SnapOK
<1>1. CASE snap.phase # "initial" /\ Hydrate(w, snap, box) /\ UNCHANGED asked
    <2>1. PICK sn, b : sn = snap /\ b = box
        OBVIOUS
    <2>2. /\ sn \in Session /\ b \in Boxes /\ sn.rev <= snap.rev
          /\ w = Main => sn.phase = "blocked" \/ (sn = snap /\ b = box /\ ~ open[Main])
          /\ w = Main => sn.phase # "initial"
          /\ Hydrate(w, sn, b) /\ asked' = asked
          /\ \A v \in Window \ {w} : b[v] = box[v]
          /\ \A v \in Window : Mail(b[v]) \subseteq Mail(box[v])
        BY <1>0, <1>1, <2>1
    <2> QED BY <1>0, <1>1, <2>1, <2>2, Hydrates
<1>2. CASE snap.phase = "initial" /\ w # Main
           /\ UNCHANGED <<win, snap, gen, served, box, pref, calls, asked>>
    <2>1. SnapOK' /\ AskedOK' /\ OwnerOK'
        BY <1>0, <1>2 DEF Sound, SnapOK, AskedOK, OwnerOK
    <2>2. WindowsOK' /\ win[w] = Blank
        BY <1>0, <1>2 DEF Sound, WindowsOK
    <2>3. MailOK' /\ PostsOK' /\ CallsOK'
        <3>1. MailOK'
            BY <1>0, <1>2 DEF Sound, MailOK, Mine
        <3>2. PostsOK' /\ CallsOK'
            BY <1>0, <1>2 DEF Sound, PostsOK, CallsOK, CallOK, Mine
        <3> QED BY <3>1, <3>2
    <2>4. Follows(w, snap)
        <3>1. /\ win'[w] = Blank /\ Blank.auth.rev = 0 /\ Blank.auth.phase = "initial"
              /\ Blank.auth.url = NoOrigin /\ Blank.auth.token = NoToken
            BY <1>2, <2>2, BlankRenderer DEF Initial
        <3>2. snap.rev = 0 /\ snap.url = NoOrigin /\ snap.token = NoToken
            BY <1>0, <1>2, SessionFields
        <3>3. Shows(w, snap) /\ ~ Outdated(w, snap)
            BY <1>2, <2>2, <3>1, <3>2 DEF Shows, Outdated
        <3>4. /\ win'[w].att = NoAttempt /\ win'[w].status = "checking" /\ win'[w].api = NoToken
              /\ win'[w].bad = FALSE
            BY <3>1, BlankRenderer
        <3>5. Others(w) /\ SameSession
            BY <1>2 DEF Others, SameSession
        <3> QED BY <1>0, <1>2, <3>3, <3>4, <3>5 DEF Follows
    <2> QED BY <1>0, <1>2, <2>1, <2>2, <2>3, <2>4, BackendsKept, FlightsKept, DiskKept, SoundParts
<1>3. CASE w = Main /\ asked' = asked + 1 /\ StartsLocal(asked', box)
    <2>1. PICK want : want = asked' /\ StartsLocal(want, box)
        BY <1>3
    <2>2. asked' > 0
        BY <1>0, <1>3
    <2> QED BY <1>0, <1>3, <2>1, <2>2, SoundStartsLocal
<1>4. CASE /\ w = Main /\ asked' = asked + 1 /\ pref \in Remote
           /\ Begin(pref, "restoreHealth", NoToken, TRUE, asked', box) /\ UNCHANGED <<pref, calls>>
    <2>1. PICK url, pc, cand, rem :
              url = pref /\ pc = "restoreHealth" /\ cand = NoToken /\ rem = TRUE
        OBVIOUS
    <2>2. /\ url \in Origin /\ url \in Remote /\ pc \in Step \ {"off", "live"}
          /\ cand \in Token /\ Fits(cand, url) /\ rem \in BOOLEAN /\ asked' > 0
          /\ cand.url # Local
        BY <1>0, <1>4, <2>1, Origins DEF Origin, Step, Fits
    <2>3. /\ snap' = Begun(url) /\ gen' = BegunGen(url)
          /\ box' = Deliver(box, snap', Window \ {Main})
          /\ win' = [win EXCEPT ![Main] = Attempting(@, snap', url, pc, cand, rem, asked')]
          /\ served' = 0
        BY <1>4, <2>1 DEF Begin
    <2> QED BY <1>0, <1>4, <2>2, <2>3, BeginAsks
<1>5. CASE /\ w = Main /\ asked' = asked + 1
           /\ Begin(Local, "probe", NoToken, FALSE, asked', box) /\ UNCHANGED <<pref, calls>>
    <2>1. PICK url, pc, cand, rem :
              url = Local /\ pc = "probe" /\ cand = NoToken /\ rem = FALSE
        OBVIOUS
    <2>a. url \in Origin /\ cand \in Token /\ Fits(cand, url) /\ cand.url # Local
        BY <2>1, Origins DEF Fits
    <2>b. pc \in AnyBackend /\ pc \in Step \ {"off", "live"} /\ rem \in BOOLEAN
        BY <2>1 DEF AnyBackend, Step
    <2>c. asked' > 0
        BY <1>0, <1>5
    <2>2. /\ url \in Origin /\ pc \in AnyBackend /\ pc \in Step \ {"off", "live"}
          /\ cand \in Token /\ Fits(cand, url) /\ rem \in BOOLEAN /\ asked' > 0
          /\ cand.url # Local
        BY <2>a, <2>b, <2>c
    <2>3. /\ snap' = Begun(url) /\ gen' = BegunGen(url)
          /\ box' = Deliver(box, snap', Window \ {Main})
          /\ win' = [win EXCEPT ![Main] = Attempting(@, snap', url, pc, cand, rem, asked')]
          /\ served' = 0
        BY <1>5, <2>1 DEF Begin
    <2> QED BY <1>0, <1>5, <2>2, <2>3, BeginAsks
<1> QED BY <1>1, <1>2, <1>3, <1>4, <1>5 DEF Load

\* The first state of the app's session, whatever is on disk.
LEMMA SoundReset ==
    ASSUME open' = [w \in Window |-> FALSE], win' = [w \in Window |-> Blank],
           box' = [w \in Window |-> <<>>], snap' = Initial, gen' = 0, flight' = 0,
           flights' = {}, calls' = {}, posts' = {}
    PROVE  SnapOK' /\ FlightsOK' /\ WindowsOK' /\ OwnerOK' /\ PostsOK' /\ CallsOK' /\ MailOK'
<1>1. Initial \in Session /\ Initial.rev = 0 /\ Initial.phase = "initial"
    BY InitialSession DEF Initial
<1>2. SnapOK' /\ FlightsOK' /\ PostsOK' /\ CallsOK'
    BY <1>1 DEF SnapOK, FlightsOK, PostsOK, CallsOK
<1>3. WindowsOK' /\ OwnerOK'
    BY <1>1, BlankRenderer, Origins DEF WindowsOK, OwnerOK
<1>4. MailOK'
    <2>1. box' \in Boxes /\ \A v \in Window : Mail(box'[v]) = {}
        BY MailEmpty DEF Boxes
    <2> QED BY <2>1, Origins DEF MailOK
<1> QED BY <1>2, <1>3, <1>4

\* The app starts again.
LEMMA SoundRestart == ASSUME Sound, Restart PROVE Sound' /\ Restarts
<1>1. Restarts
    BY DEF Restart, Restarts
<1>2. SnapOK' /\ FlightsOK' /\ WindowsOK' /\ OwnerOK' /\ PostsOK' /\ CallsOK' /\ MailOK'
    BY <1>1, SoundReset DEF Restarts
<1>3. BackendsOK'
    <2>1. late \in [Origin -> {"no", "may", "did"}] /\ UNCHANGED <<valid, issued>>
        BY DEF Sound, BackendsOK, Restart
    <2>2. late' \in [Origin -> {"no", "may", "did"}]
        BY <2>1 DEF Restart
    <2> QED BY <2>1, <2>2 DEF Sound, BackendsOK
<1>4. AskedOK'
    <2>1. /\ asked \in Nat /\ asked' = asked /\ served' = 0 /\ document \in Nat
          /\ document' = document + 1 /\ left' \in Bound
        BY Spending DEF Sound, AskedOK, Restart
    <2>2. /\ snap'.rev = 0 /\ open' \in [Window -> BOOLEAN] /\ ~ open'[Main]
        BY <1>1, Origins DEF Restarts, Initial
    <2> QED BY <2>1, <2>2 DEF AskedOK
<1>5. DiskOK'
    BY DiskKept DEF Restart, diskVars
<1> QED BY <1>1, <1>2, <1>3, <1>4, <1>5, SoundParts

(***************************************************************************)
(* The invariant holds, and every step has one of the shapes               *)
(***************************************************************************)
LEMMA SoundInit == ASSUME Init PROVE Sound
<1>1. Initial \in Session /\ Initial.rev = 0 /\ Initial.phase = "initial"
    BY InitialSession DEF Initial
<1>2. SnapOK /\ FlightsOK /\ PostsOK /\ CallsOK
    BY <1>1 DEF Init, SnapOK, FlightsOK, PostsOK, CallsOK
<1>3. WindowsOK /\ OwnerOK
    BY <1>1, BlankRenderer, Origins DEF Init, WindowsOK, OwnerOK
<1>4. MailOK
    <2>1. box \in Boxes /\ \A v \in Window : Mail(box[v]) = {}
        BY MailEmpty DEF Init, Boxes
    <2> QED BY <2>1, Origins DEF MailOK
<1>5. AskedOK
    BY <1>1, Origins, ConnectionAssumption DEF Init, AskedOK
<1>6. BackendsOK
    BY DEF Init, BackendsOK
<1>7. DiskOK
    BY Origins DEF Init, DiskOK, Fits
<1> QED BY <1>2, <1>3, <1>4, <1>5, <1>6, <1>7 DEF Sound

Shaped ==
    \/ \E w \in Window : \/ Works(w) \/ Refuses(w) \/ Stops(w) \/ Leaves(w)
                         \/ \E sn \in Session : Follows(w, sn)
    \/ Asks \/ Takes \/ Still \/ GivesUp \/ Restarts

\* What the user does.
LEMMA SoundUser == ASSUME Sound, User PROVE Sound' /\ Shaped
<1>0. Main \in Window
    BY Origins
<1>1. ASSUME NEW o \in Remote, NEW invited \in BOOLEAN, ConnectRemote(o, invited)
      PROVE  Sound' /\ Shaped
    BY <1>1, SoundConnectRemote DEF Shaped
<1>2. CASE StartLocal
    BY <1>2, SoundStartLocal DEF Shaped
<1>3. CASE Disconnect
    BY <1>0, <1>3, SoundDisconnect DEF Shaped
<1>4. CASE Remember
    BY <1>4, SoundRemember DEF Shaped
<1> QED BY <1>1, <1>2, <1>3, <1>4 DEF User

\* What the program and the backends do.
LEMMA SoundSystem == ASSUME Sound, System PROVE Sound' /\ Shaped
<1>0. Main \in Window /\ snap \in Session
    BY Origins DEF Sound, SnapOK
<1>1. ASSUME NEW w \in Window, HealthAnswered(w) PROVE Sound' /\ Shaped
    BY <1>1, SoundHealthAnswered DEF Shaped
<1>2. ASSUME NEW w \in Window, AccessAnswered(w) PROVE Sound' /\ Shaped
    BY <1>2, SoundAccessAnswered DEF Shaped
<1>3. ASSUME NEW w \in Window, AccessHandled(w) PROVE Sound' /\ Shaped
    BY <1>3, SoundAccessHandled DEF Shaped
<1>4. ASSUME NEW w \in Window, ApiHandled(w) PROVE Sound' /\ Shaped
    BY <1>4, SoundApiHandled DEF Shaped
<1>5. ASSUME NEW w \in Window, Receive(w) PROVE Sound' /\ Shaped
    BY <1>0, <1>5, SoundReceive DEF Shaped
<1>6. ASSUME NEW w \in Window, Load(w) PROVE Sound' /\ Shaped
    BY <1>0, <1>6, SoundLoad DEF Shaped
<1>7. CASE Started
    BY <1>0, <1>7, SoundStarted DEF Shaped
<1>8. CASE SendRegister
    BY <1>0, <1>8, SoundSendRegister DEF Shaped
<1>9. CASE PollAnswered
    BY <1>0, <1>9, SoundPollAnswered DEF Shaped
<1>10. ASSUME NEW f \in flights, FlightMoves(f) PROVE Sound' /\ Shaped
    BY <1>10, SoundFlightMoves DEF Shaped
<1>11. ASSUME NEW p \in posts, ServerRegisters(p) PROVE Sound' /\ Shaped
    BY <1>11, SoundServerRegisters DEF Shaped
<1>12. ASSUME NEW p \in posts, RegisterAnswered(p) PROVE Sound' /\ Shaped
    BY <1>0, <1>12, SoundRegisterAnswered DEF Shaped
<1>13. ASSUME NEW c \in calls, LocalArrives(c) PROVE Sound' /\ Shaped
    BY <1>13, SoundLocalArrives DEF Shaped
<1>14. ASSUME NEW c \in calls, LocalWaited(c) PROVE Sound' /\ Shaped
    BY <1>14, SoundLocalWaited DEF Shaped
<1>15. ASSUME NEW c \in calls, LocalReturns(c) PROVE Sound' /\ Shaped
    BY <1>15, SoundLocalReturns DEF Shaped
<1> QED BY <1>1, <1>2, <1>3, <1>4, <1>5, <1>6, <1>7, <1>8, <1>9, <1>10, <1>11, <1>12, <1>13,
           <1>14, <1>15 DEF System

\* What can go wrong.
LEMMA SoundEnvironment == ASSUME Sound, Environment PROVE Sound' /\ Shaped
<1>0. Main \in Window
    BY Origins
<1>1. ASSUME NEW w \in Window, ProbeLost(w) PROVE Sound' /\ Shaped
    BY <1>1, SoundProbeLost DEF Shaped
<1>2. ASSUME NEW w \in Window, PairingClaimed(w) PROVE Sound' /\ Shaped
    BY <1>2, SoundPairingClaimed DEF Shaped
<1>3. ASSUME NEW w \in Window, PairingHandled(w) PROVE Sound' /\ Shaped
    BY <1>3, SoundPairingHandled DEF Shaped
<1>4. ASSUME NEW w \in Window, ApiRefused(w) PROVE Sound' /\ Shaped
    BY <1>4, SoundApiRefused DEF Shaped
<1>5. ASSUME NEW w \in Window, Leave(w) PROVE Sound' /\ Shaped
    BY <1>5, SoundLeave DEF Shaped
<1>6. ASSUME NEW p \in posts, RegisterTimesOut(p) PROVE Sound' /\ Shaped
    BY <1>0, <1>6, SoundRegisterTimesOut DEF Shaped
<1>7. ASSUME NEW o \in Origin, LateRegister(o) PROVE Sound' /\ Shaped
    BY <1>7, SoundLateRegister DEF Shaped
<1>8. ASSUME NEW o \in Origin, Revoke(o) PROVE Sound' /\ Shaped
    BY <1>8, SoundRevoke DEF Shaped
<1>9. CASE PollMissed
    BY <1>0, <1>9, SoundPollMissed DEF Shaped
<1>10. CASE Restart
    BY <1>10, SoundRestart DEF Shaped
<1>11. ASSUME NEW f \in flights, FlightFails(f) PROVE Sound' /\ Shaped
    BY <1>11, SoundFlightFails DEF Shaped
<1> QED BY <1>1, <1>2, <1>3, <1>4, <1>5, <1>6, <1>7, <1>8, <1>9, <1>10, <1>11 DEF Environment

\* Any step.
LEMMA SoundNext == ASSUME Sound, [Next]_vars PROVE Sound' /\ Shaped
<1>1. CASE Next
    BY <1>1, SoundUser, SoundSystem, SoundEnvironment DEF Next
<1>2. CASE UNCHANGED vars
    <2>1. Sound'
        <3>1. BackendsOK' /\ SnapOK' /\ FlightsOK' /\ DiskOK' /\ AskedOK'
            BY <1>2 DEF vars, Sound, BackendsOK, SnapOK, FlightsOK, DiskOK, AskedOK
        <3>2. WindowsOK' /\ OwnerOK' /\ PostsOK'
            BY <1>2 DEF vars, Sound, WindowsOK, OwnerOK, PostsOK, Mine
        <3>3. CallsOK' /\ MailOK'
            BY <1>2 DEF vars, Sound, CallsOK, CallOK, MailOK, Mine
        <3> QED BY <3>1, <3>2, <3>3, SoundParts
    <2>2. Still
        BY <1>2 DEF vars, Still
    <2> QED BY <2>1, <2>2 DEF Shaped
<1> QED BY <1>1, <1>2

(***************************************************************************)
(* Theorems                                                                *)
(***************************************************************************)
\* The invariant holds in every reachable state of every instance.
THEOREM Soundness == Spec => []Sound
BY SoundInit, SoundNext, PTL DEF Spec

\* What the parts of the invariant say of types.
LEMMA SoundTypes == ASSUME Sound PROVE TypeOK
<1>1. /\ valid \in [Origin -> Nat] /\ issued \in [Origin -> Nat]
      /\ late \in [Origin -> {"no", "may", "did"}]
      /\ \A o \in Origin : valid[o] <= issued[o]
    BY DEF Sound, BackendsOK
<1>2. snap \in Snapshot /\ gen \in Nat /\ document \in Nat
    BY DEF Sound, SnapOK, AskedOK, Session
<1>3. flights \subseteq Startup /\ flight \in Nat
    BY DEF Sound, FlightsOK, LocalStartup
<1>4. \A c \in calls : c.st \in {"sent", "waits", "joined"} /\ c.rev <= snap.rev
    BY DEF Sound, CallsOK, CallOK, Call
<1>5. ASSUME NEW w \in Window
      PROVE  /\ win[w].auth \in Snapshot
             /\ win[w].att.pc \in Step
             /\ win[w].api \in Token /\ win[w].att.cand \in Token
             /\ win[w].status \in {"checking", "connected", "reconnecting",
                                   "disconnected", "pending_approval"}
    <2>1. win[w] \in Renderer
        BY DEF Sound, WindowsOK
    <2> QED BY <2>1, RendererFields, AttemptFields DEF Session, Status
<1>6. Cardinality(posts) <= 1
    <2>1. CASE posts = {}
        BY <2>1, FS_EmptySet
    <2>2. CASE posts # {}
        <3>1. PICK p \in posts : TRUE
            BY <2>2
        <3>2. posts = {p}
            BY <3>1 DEF Sound, PostsOK
        <3> QED BY <3>2, FS_Singleton
    <2> QED BY <2>1, <2>2
<1>7. stored \in [Origin -> Token] /\ pref \in Origin \cup {NoOrigin}
    BY DEF Sound, DiskOK
<1> QED BY <1>1, <1>2, <1>3, <1>4, <1>5, <1>6, <1>7 DEF TypeOK

\* Every variable keeps to its type: a credential names the backend that issued it, an attempt is
\* at a step of the code, and a document has one registration in flight at most.
THEOREM TypeCorrect == Spec => []TypeOK
BY Soundness, SoundTypes, PTL

\* A credential goes only to the backend that issued it: no window makes an attempt with the
\* credential of another backend, and no session is committed for one.
THEOREM CredentialsStayHome == Spec => []CredentialStaysHome
<1>1. ASSUME Sound PROVE CredentialStaysHome
    <2>1. snap.token # NoToken => snap.token.url = snap.url
        BY <1>1, SessionFields DEF Sound, SnapOK
    <2>2. ASSUME NEW w \in Window, win[w].att.pc # "off", win[w].att.cand # NoToken
          PROVE  win[w].att.cand.url = win[w].att.url
        <3>1. win[w] \in Renderer
            BY <1>1 DEF Sound, WindowsOK
        <3> QED BY <2>2, <3>1, RendererFields, AttemptFields DEF Fits
    <2> QED BY <2>1, <2>2 DEF CredentialStaysHome
<1> QED BY <1>1, Soundness, PTL

\* What each shape is to the user: his request, the session that answers it, or its end.
LEMMA Serving ==
    ASSUME Sound, Sound', Shaped PROVE [Promise!Next]_<<asked, served>>
<1>0. /\ asked \in Nat /\ served \in {0, asked} /\ asked' \in Nat /\ served' \in {0, asked'}
      /\ (open[Main] => asked > 0)
    BY DEF Sound, AskedOK
<1>1. ASSUME NEW w \in Window, Works(w) \/ Refuses(w) PROVE asked' = asked /\ served' = served
    BY <1>1 DEF Works, Refuses, SameSession
<1>2. ASSUME NEW w \in Window, NEW sn \in Session, Follows(w, sn)
      PROVE  asked' = asked /\ served' = served
    BY <1>2 DEF Follows, SameSession
<1>3. ASSUME NEW w \in Window, Stops(w)
      PROVE  \/ asked' = asked /\ served' \in {0, served}
             \/ asked' = asked + 1 /\ served' = 0
    BY <1>3 DEF Stops
<1>4. ASSUME NEW w \in Window, Leaves(w) PROVE asked' = asked /\ served' \in {0, served}
    BY <1>4 DEF Leaves
<1>5. Asks => asked' \in {asked, asked + 1} /\ served' = 0
    BY DEF Asks
<1>6. Takes => asked' = asked /\ served' \in {asked, served} /\ asked > 0
    BY <1>0 DEF Takes
<1>7. Still \/ GivesUp \/ Restarts => asked' = asked /\ served' \in {0, served}
    BY DEF Still, GivesUp, Restarts
<1>8. \/ asked' = asked /\ served' \in {0, served}
      \/ asked' = asked + 1 /\ served' = 0
      \/ asked' = asked /\ served' = asked /\ asked > 0
    BY <1>1, <1>2, <1>3, <1>4, <1>5, <1>6, <1>7 DEF Shaped
<1> QED BY <1>0, <1>8 DEF Promise!Next, Promise!Ask, Promise!Serve, Promise!Drop

\* The connection implements the promise to the user: at any time the session in force answers
\* his last request, and one he has replaced never comes into force.
THEOREM ServesTheLastRequest == Spec => ServesLastRequest
<1>1. Init => Promise!Init
    BY DEF Init, Promise!Init
<1>2. Sound /\ Sound' /\ [Next]_vars => [Promise!Next]_<<asked, served>>
    BY SoundNext, Serving
<1> QED BY <1>1, <1>2, Soundness, PTL DEF Spec, ServesLastRequest, Promise!Spec

(***************************************************************************)
(* The windows and the session they share                                  *)
(*                                                                         *)
(* No window is stranded, a refusal ends only the session it was reported  *)
(* under, and the app never makes the credential of its own local session  *)
(* invalid.  The first two rest on the agreement of everything the windows *)
(* know or have been sent: snapshots of one revision are one snapshot, and *)
(* a window that is not in step with the session has the snapshot in force *)
(* in its mail.                                                            *)
(***************************************************************************)
\* A snapshot of the revision in force is the snapshot in force.
Agrees(s) == s.rev = snap.rev => /\ s.phase = snap.phase /\ s.url = snap.url
                                 /\ s.token = snap.token

Agreement == \A w \in Window : /\ Agrees(win[w].auth)
                               /\ \A m \in Mail(box[w]) : m.kind = "snapshot" => Agrees(m.snap)

\* The window knows the session in force and does what it must for it.
InStep(w) == /\ win[w].auth.rev = snap.rev
             /\ win[w].auth.phase = "connected" \/ (w = Main /\ win[w].auth.phase = "pending")
                    => win[w].att.pc # "off"

\* The snapshot in force is in the window's mail.
Told(w) == \E m \in Mail(box[w]) : m.kind = "snapshot" /\ m.snap.rev = snap.rev

Informed == \A w \in Window : open[w] => InStep(w) \/ Told(w)

\* What a window shows is what it does, and a window that follows the owner only ever verifies and
\* uses the credential of the session it knows.
Uses(w) ==
    LET x == win[w] IN
    /\ x.status \in {"connected", "reconnecting"} => x.att.pc = "live"
    /\ x.att.pc = "live" => x.api = x.auth.token /\ x.auth.phase = "connected"
    /\ x.att.pc # "live" => x.api = NoToken /\ ~ x.bad
    /\ w # Main /\ x.att.pc # "off" => /\ x.att.pc \in {"verify", "live"}
                                       /\ x.att.cand = x.auth.token /\ x.auth.phase = "connected"
    /\ x.bad => x.api \in refused
    /\ w # Main /\ x.att.ans = "denied" => x.att.pc # "off" /\ x.att.cand \in refused

Using == \A w \in Window : Uses(w)

\* While no document of the owner is there, only main's own local startup can be pending.
Handed == ~ open[Main] /\ snap.phase = "pending" => snap.localPending

Shared == Agreement /\ Informed /\ Using /\ Handed

\* A refusal is never forgotten.
LEMMA Refusals == ASSUME [Next]_vars PROVE refused \subseteq refused'
<1>1. ASSUME NEW o \in Remote, NEW invited \in BOOLEAN, ConnectRemote(o, invited)
      PROVE  refused \subseteq refused'
    BY <1>1 DEF ConnectRemote
<1>2. CASE StartLocal \/ Disconnect \/ Remember
    BY <1>2 DEF StartLocal, Disconnect, Remember
<1>3. ASSUME NEW w \in Window,
             HealthAnswered(w) \/ AccessAnswered(w) \/ AccessHandled(w) \/ ApiHandled(w)
      PROVE  refused \subseteq refused'
    BY <1>3 DEF HealthAnswered, AccessAnswered, AccessHandled, ApiHandled, onlyWin
<1>4. ASSUME NEW w \in Window, Receive(w) \/ Load(w) \/ Leave(w) PROVE refused \subseteq refused'
    BY <1>4 DEF Receive, Load, Leave
<1>5. ASSUME NEW w \in Window, ProbeLost(w) \/ PairingClaimed(w) \/ PairingHandled(w) \/ ApiRefused(w)
      PROVE  refused \subseteq refused'
    BY <1>5 DEF ProbeLost, PairingClaimed, PairingHandled, ApiRefused, onlyWin
<1>6. CASE Started \/ SendRegister \/ PollAnswered \/ PollMissed \/ Restart
    BY <1>6 DEF Started, SendRegister, PollAnswered, PollMissed, Restart, onlyWin
<1>7. ASSUME NEW p \in posts, ServerRegisters(p) \/ RegisterAnswered(p) \/ RegisterTimesOut(p)
      PROVE  refused \subseteq refused'
    BY <1>7 DEF ServerRegisters, RegisterAnswered, RegisterTimesOut
<1>8. ASSUME NEW f \in flights, FlightMoves(f) \/ FlightFails(f) PROVE refused \subseteq refused'
    BY <1>8 DEF FlightMoves, FlightFails
<1>9. ASSUME NEW c \in calls, LocalArrives(c) \/ LocalWaited(c) \/ LocalReturns(c)
      PROVE  refused \subseteq refused'
    BY <1>9 DEF LocalArrives, LocalWaited, LocalReturns
<1>10. ASSUME NEW o \in Origin, LateRegister(o) \/ Revoke(o) PROVE refused \subseteq refused'
    BY <1>10 DEF LateRegister, Revoke
<1>11. CASE UNCHANGED vars
    BY <1>11 DEF vars
<1> QED BY <1>1, <1>2, <1>3, <1>4, <1>5, <1>6, <1>7, <1>8, <1>9, <1>10, <1>11
        DEF Next, User, System, Environment

(***************************************************************************)
(* What a window uses                                                      *)
(***************************************************************************)
\* A renderer that makes no attempt uses nothing.
LEMMA IdleUses ==
    ASSUME NEW w \in Window, win'[w].att = NoAttempt, win'[w].api = NoToken, win'[w].bad = FALSE,
           win'[w].status \in {"checking", "disconnected"}
    PROVE  Uses(w)'
BY BlankRenderer DEF Uses, NoAttempt

\* A window that is left alone uses what it used.
LEMMA SameUses ==
    ASSUME NEW w \in Window, Uses(w), win'[w] = win[w], refused \subseteq refused'
    PROVE  Uses(w)'
BY DEF Uses

\* A window that goes on with its attempt.
LEMMA WorkUses ==
    ASSUME Sound, NEW w \in Window, Uses(w), Works(w), refused \subseteq refused' PROVE Uses(w)'
<1>1. win[w] \in Renderer /\ win[w].att.pc = "live" => win[w].api = win[w].att.cand
    BY DEF Sound, WindowsOK, Renderer
<1>2. CASE /\ win[w].att.pc # "live" /\ win'[w].att.pc # "live"
           /\ win'[w].api = win[w].api /\ win'[w].bad = win[w].bad
           /\ win'[w].status \in {"connected", "reconnecting"} => win'[w].status = win[w].status
    BY <1>2 DEF Works, Uses
<1>3. CASE /\ win[w].att.pc = "live" /\ win'[w].att.pc = "live"
           /\ win'[w].api = win[w].api /\ win'[w].att.cand = win[w].att.cand
           /\ win'[w].bad => win[w].bad \/ win[w].api \in refused'
    BY <1>3 DEF Works, Uses
<1>4. CASE /\ w # Main /\ win'[w].att.pc = "live"
           /\ win'[w].api = win[w].att.cand /\ win'[w].bad = FALSE
    BY <1>4 DEF Works, Uses
<1> QED BY <1>2, <1>3, <1>4 DEF Works

\* A window that follows a snapshot.
LEMMA FollowUses ==
    ASSUME Sound, NEW w \in Window, Uses(w), NEW sn \in Session, Follows(w, sn),
           refused \subseteq refused'
    PROVE  Uses(w)'
<1>1. win[w] \in Renderer /\ (win[w].att.pc = "live" => win[w].api = win[w].att.cand)
    BY DEF Sound, WindowsOK, Renderer
<1>2. CASE win'[w] = win[w]
    BY <1>2, SameUses
<1>3. CASE /\ sn.phase = "connected" /\ win[w].status = "connected"
           /\ win[w].att.pc # "off" /\ sn.token = win[w].api /\ w # Main
           /\ Shows(w, sn) /\ win'[w].att.pc = win[w].att.pc
           /\ win'[w].att.cand = win[w].att.cand /\ win'[w].att.ans = win[w].att.ans
           /\ win'[w].status = "connected" /\ win'[w].api = win[w].api /\ win'[w].bad = win[w].bad
    BY <1>1, <1>3 DEF Uses, Shows
<1>4. CASE /\ sn.phase = "connected"
           /\ Shows(w, sn) /\ win'[w].att.pc = "verify" /\ win'[w].att.cand = sn.token
           /\ win'[w].att.ans = "none"
           /\ win'[w].status = "checking" /\ win'[w].api = NoToken /\ win'[w].bad = FALSE
    BY <1>4 DEF Uses, Shows
<1>5. CASE /\ win'[w].att = NoAttempt
           /\ win'[w].status \in {"checking", "disconnected"} /\ win'[w].api = NoToken
           /\ win'[w].bad = FALSE
    BY <1>5, IdleUses
<1> QED BY <1>2, <1>3, <1>4, <1>5 DEF Follows

\* Every step keeps what the windows use.
LEMMA UsingKept ==
    ASSUME Sound, Using, Shaped, refused \subseteq refused' PROVE Using'
<1>0. Main \in Window
    BY Origins
<1>1. ASSUME NEW w \in Window, Others(w), Uses(w)' PROVE Using'
    <2> SUFFICES ASSUME NEW v \in Window PROVE Uses(v)'
        BY DEF Using
    <2>1. CASE v = w
        BY <1>1, <2>1
    <2>2. CASE v # w
        BY <1>1, <2>2, SameUses DEF Others, Using
    <2> QED BY <2>1, <2>2
<1>2. ASSUME NEW w \in Window, Works(w) PROVE Using'
    BY <1>1, <1>2, WorkUses DEF Using, Works
<1>3. ASSUME NEW w \in Window, Refuses(w) PROVE Using'
    <2>1. Uses(w)
        BY DEF Using
    <2>2. Uses(w)'
        BY <1>3, <2>1 DEF Refuses, Uses
    <2> QED BY <1>1, <1>3, <2>2 DEF Refuses
<1>4. ASSUME NEW w \in Window, Stops(w) PROVE Using'
    BY <1>1, <1>4, IdleUses DEF Stops
<1>5. ASSUME NEW w \in Window, Leaves(w) PROVE Using'
    BY <1>1, <1>5, IdleUses, BlankRenderer DEF Leaves
<1>6. ASSUME NEW w \in Window, NEW sn \in Session, Follows(w, sn) PROVE Using'
    BY <1>1, <1>6, FollowUses DEF Using, Follows
<1>7. CASE Asks
    <2>1. Uses(Main)'
        BY <1>7 DEF Asks, Uses
    <2> QED BY <1>0, <1>1, <1>7, <2>1 DEF Asks
<1>8. CASE Takes
    <2>1. Uses(Main)
        BY <1>0 DEF Using
    <2>2. Uses(Main)'
        BY <1>8, <2>1 DEF Takes, Uses
    <2> QED BY <1>0, <1>1, <1>8, <2>2 DEF Takes
<1>9. CASE Still \/ GivesUp
    BY <1>9, SameUses DEF Using, Still, GivesUp
<1>10. CASE Restarts
    BY <1>10, IdleUses, BlankRenderer DEF Using, Restarts
<1> QED BY <1>2, <1>3, <1>4, <1>5, <1>6, <1>7, <1>8, <1>9, <1>10 DEF Shaped

(***************************************************************************)
(* What the windows know                                                   *)
(***************************************************************************)
\* The session is as it was, but for the startup under way, or a revision on.
Advances == \/ snap'.rev = snap.rev + 1
            \/ /\ snap'.rev = snap.rev /\ snap'.phase = snap.phase /\ snap'.url = snap.url
               /\ snap'.token = snap.token

\* No snapshot is sent but the one in force.
Mailed == \A v \in Window : \A m \in Mail(box'[v]) :
              m.kind = "snapshot" => m \in Mail(box[v]) \/ m.snap = snap'

\* Every step but a restart is of this kind.
LEMMA Moving == ASSUME Sound, Sound', Shaped PROVE Restarts \/ (Advances /\ Mailed)
<1>1. ASSUME NEW w \in Window, Works(w) \/ Refuses(w) PROVE Advances /\ Mailed
    BY <1>1 DEF Works, Refuses, SameSession, Advances, Mailed
<1>2. ASSUME NEW w \in Window, Stops(w) PROVE Advances /\ Mailed
    BY <1>2 DEF Stops, Advances, Mailed, Informs
<1>3. ASSUME NEW w \in Window, Leaves(w) PROVE Advances /\ Mailed
    <2>1. Mail(box'[w]) = {}
        BY <1>3 DEF Leaves, Sound, MailOK
    <2> QED BY <1>3, <2>1 DEF Leaves, Advances, Mailed, Informs
<1>4. ASSUME NEW w \in Window, NEW sn \in Session, Follows(w, sn) PROVE Advances /\ Mailed
    BY <1>4 DEF Follows, SameSession, Advances, Mailed
<1>5. CASE Asks \/ Takes \/ GivesUp
    BY <1>5 DEF Asks, Takes, GivesUp, Advances, Mailed, Informs
<1>6. CASE Still
    <2>1. Mailed
        <3>1. \A v \in Window : Mail(box'[v]) \subseteq Message
            BY MailMessages DEF Sound, MailOK, Boxes
        <3> QED BY <1>6, <3>1 DEF Still, Mailed
    <2>2. Advances
        BY <1>6, PendingSession DEF Still, Sound, SnapOK, Advances
    <2> QED BY <2>1, <2>2
<1> QED BY <1>1, <1>2, <1>3, <1>4, <1>5, <1>6 DEF Shaped

\* A snapshot that agrees with the session goes on agreeing with it.
LEMMA Agreeing ==
    ASSUME Sound, Advances, NEW s \in Session, s.rev <= snap.rev, Agrees(s)
    PROVE  s.rev = snap'.rev => /\ s.phase = snap'.phase /\ s.url = snap'.url
                                /\ s.token = snap'.token
<1>1. snap.rev \in Nat /\ s.rev \in Nat
    BY SessionFields DEF Sound, SnapOK
<1> QED BY <1>1 DEF Advances, Agrees

\* The snapshots in the mail agree with the session.
LEMMA MailAgrees ==
    ASSUME Sound, Sound', Agreement, Advances, Mailed, NEW w \in Window, NEW m \in Mail(box'[w]),
           m.kind = "snapshot"
    PROVE  m.snap.rev = snap'.rev => /\ m.snap.phase = snap'.phase /\ m.snap.url = snap'.url
                                     /\ m.snap.token = snap'.token
<1>1. CASE m \in Mail(box[w])
    <2>1. m \in Message
        BY <1>1, MailMessages DEF Sound, MailOK, Boxes
    <2>2. m.snap \in Session
        BY <2>1 DEF Message, News, Reply
    <2>3. m.snap.rev <= snap.rev /\ Agrees(m.snap)
        BY <1>1 DEF Sound, MailOK, Agreement
    <2> QED BY <2>2, <2>3, Agreeing
<1>2. CASE m.snap = snap'
    BY <1>2
<1> QED BY <1>1, <1>2 DEF Mailed

\* What a window knows after a step: what it knew, the session in force, or what it has read.
LEMMA Knowing ==
    ASSUME Sound, Shaped, ~ Restarts, NEW v \in Window
    PROVE  \/ win'[v].auth = win[v].auth
           \/ win'[v].auth = snap'
           \/ win'[v].auth = Initial
           \/ \E sn \in Session : Follows(v, sn) /\ Shows(v, sn)
<1>0. Main \in Window
    BY Origins
<1>1. ASSUME NEW w \in Window, Works(w) \/ Refuses(w) PROVE win'[v].auth = win[v].auth
    BY <1>1 DEF Works, Refuses, Others
<1>2. ASSUME NEW w \in Window, Stops(w) PROVE win'[v].auth = win[v].auth \/ win'[v].auth = snap'
    BY <1>2 DEF Stops, Others
<1>3. ASSUME NEW w \in Window, Leaves(w) PROVE win'[v].auth = win[v].auth \/ win'[v].auth = Initial
    BY <1>3, BlankRenderer DEF Leaves, Others
<1>4. ASSUME NEW w \in Window, NEW sn \in Session, Follows(w, sn)
      PROVE  win'[v].auth = win[v].auth \/ (Follows(v, sn) /\ Shows(v, sn))
    <2>1. CASE v = w
        <3>1. win'[w] = win[w] \/ Shows(w, sn)
            BY <1>4 DEF Follows
        <3> QED BY <1>4, <2>1, <3>1
    <2>2. CASE v # w
        BY <1>4, <2>2 DEF Follows, Others
    <2> QED BY <2>1, <2>2
<1>5. CASE Asks \/ Takes
    BY <1>0, <1>5 DEF Asks, Takes, Others
<1>6. CASE Still \/ GivesUp
    BY <1>6 DEF Still, GivesUp
<1> QED BY <1>1, <1>2, <1>3, <1>4, <1>5, <1>6 DEF Shaped

\* A snapshot a window reads agrees with the session.
LEMMA Reading ==
    ASSUME Sound, Agreement, NEW w \in Window, NEW sn \in Session, Follows(w, sn)
    PROVE  sn.rev <= snap.rev /\ Agrees(sn)
<1>1. CASE sn = snap
    BY <1>1, SessionFields DEF Agrees
<1>2. ASSUME NEW m \in Mail(box[w]), m.kind = "snapshot", m.snap = sn
      PROVE  sn.rev <= snap.rev /\ Agrees(sn)
    BY <1>2 DEF Sound, MailOK, Agreement
<1> QED BY <1>1, <1>2 DEF Follows

\* Every step keeps the agreement.
LEMMA AgreementKept == ASSUME Sound, Sound', Shaped, Agreement PROVE Agreement'
<1>1. CASE Restarts
    <2>1. \A w \in Window : win'[w].auth = Initial /\ Mail(box'[w]) = {}
        BY <1>1, BlankRenderer, MailEmpty DEF Restarts
    <2>2. snap' = Initial
        BY <1>1 DEF Restarts
    <2> QED BY <2>1, <2>2 DEF Agreement, Agrees
<1>2. CASE ~ Restarts
    <2>1. Advances /\ Mailed
        BY <1>2, Moving
    <2>2. ASSUME NEW w \in Window
          PROVE  win'[w].auth.rev = snap'.rev => /\ win'[w].auth.phase = snap'.phase
                                                 /\ win'[w].auth.url = snap'.url
                                                 /\ win'[w].auth.token = snap'.token
        <3>1. CASE win'[w].auth = win[w].auth
            <4>1. /\ win[w].auth \in Session /\ win[w].auth.rev <= snap.rev
                  /\ Agrees(win[w].auth)
                BY RendererFields DEF Sound, WindowsOK, Agreement
            <4> QED BY <2>1, <3>1, <4>1, Agreeing
        <3>2. CASE win'[w].auth = snap'
            BY <3>2
        <3>3. CASE win'[w].auth = Initial
            <4>1. snap'.rev = 0 => /\ snap'.phase = "initial" /\ snap'.url = NoOrigin
                                   /\ snap'.token = NoToken
                BY SessionFields DEF Sound, SnapOK
            <4> QED BY <3>3, <4>1 DEF Initial
        <3>4. ASSUME NEW sn \in Session, Follows(w, sn), Shows(w, sn)
              PROVE  win'[w].auth.rev = snap'.rev => /\ win'[w].auth.phase = snap'.phase
                                                     /\ win'[w].auth.url = snap'.url
                                                     /\ win'[w].auth.token = snap'.token
            <4>1. sn.rev <= snap.rev /\ Agrees(sn)
                BY <3>4, Reading
            <4>2. sn.rev = snap'.rev => /\ sn.phase = snap'.phase /\ sn.url = snap'.url
                                        /\ sn.token = snap'.token
                BY <2>1, <4>1, Agreeing
            <4> QED BY <3>4, <4>2 DEF Shows
        <3> QED BY <1>2, <3>1, <3>2, <3>3, <3>4, Knowing
    <2>3. \A w \in Window : \A m \in Mail(box'[w]) : m.kind = "snapshot" =>
              (m.snap.rev = snap'.rev => /\ m.snap.phase = snap'.phase /\ m.snap.url = snap'.url
                                         /\ m.snap.token = snap'.token)
        BY <2>1, MailAgrees
    <2> QED BY <2>2, <2>3 DEF Agreement, Agrees
<1> QED BY <1>1, <1>2

\* A window that is told has the session in force in its mail.
LEMMA InformedBy ==
    ASSUME NEW told, Informs(told), NEW v \in told, open[v] PROVE Told(v)'
BY DEF Informs, Told

\* A window that knows no more and has lost no mail is as informed as it was.
LEMMA SameInformed ==
    ASSUME NEW v \in Window, InStep(v) \/ Told(v), snap' = snap, win'[v] = win[v],
           box'[v] = box[v]
    PROVE  InStep(v)' \/ Told(v)'
BY DEF InStep, Told

\* The window that stops: it reports the session in force, or it does not know it.
LEMMA StopInformed ==
    ASSUME Sound, Agreement, NEW w \in Window, Stops(w), InStep(w) \/ Told(w)
    PROVE  InStep(w)' \/ Told(w)'
<1>1. win'[w].att.pc = "off"
    BY BlankRenderer DEF Stops
<1>2. CASE Ends(w) /\ snap'.phase = "blocked"
           /\ Informs(IF w = Main THEN Window \ {Main} ELSE Window)
    <2>1. CASE w = Main
        BY <1>1, <1>2, <2>1 DEF Stops, InStep
    <2>2. CASE w # Main
        BY <1>2, <2>2, InformedBy DEF Stops
    <2> QED BY <2>1, <2>2
<1>3. CASE ~ Ends(w) /\ snap' = snap /\ box' = box
    <2>1. w # Main /\ win'[w].auth = IF win[w].auth.phase = "connected" THEN snap' ELSE win[w].auth
        BY <1>3 DEF Stops, Ends
    <2>2. CASE Told(w)
        BY <1>3, <2>2 DEF Told
    <2>3. CASE InStep(w)
        <3>1. win[w].auth.rev = snap.rev /\ win[w].auth.phase = snap.phase
            BY <2>3 DEF InStep, Agreement, Agrees
        <3>2. win[w].auth.phase # "connected"
            BY <1>3, <3>1 DEF Ends, RejectAccepted
        <3> QED BY <1>3, <2>1, <3>1, <3>2 DEF InStep
    <2> QED BY <2>2, <2>3
<1> QED BY <1>2, <1>3 DEF Stops

\* The window that follows a snapshot: it is the one in force, or that one is still in its mail.
LEMMA FollowInformed ==
    ASSUME Sound, Agreement, Handed, NEW w \in Window, NEW sn \in Session, Follows(w, sn),
           open[w] => InStep(w) \/ Told(w)
    PROVE  InStep(w)' \/ Told(w)'
<1>0. /\ snap' = snap /\ snap.rev \in Nat /\ sn.rev \in Nat /\ sn.rev <= snap.rev /\ Agrees(sn)
      /\ win[w].auth.rev \in Nat /\ win[w].auth.rev <= snap.rev
    BY Reading, SessionFields, RendererFields DEF Follows, SameSession, Sound, SnapOK, WindowsOK
<1>1. ~ open[w] => sn = snap /\ ~ Outdated(w, sn)
    <2>1. ~ open[w] => sn = snap
        BY DEF Follows
    <2> QED BY <1>0, <2>1 DEF Outdated
<1>2. CASE sn.rev # snap.rev
    <2>1. open[w] /\ sn.rev < snap.rev
        BY <1>0, <1>1, <1>2
    <2>2. PICK m \in Mail(box[w]) : /\ m.kind = "snapshot" /\ m.snap = sn
                                    /\ Mail(box[w]) = Mail(box'[w]) \cup {m}
        BY <2>1 DEF Follows
    <2>3. CASE Told(w)
        <3>1. PICK n \in Mail(box[w]) : n.kind = "snapshot" /\ n.snap.rev = snap.rev
            BY <2>3 DEF Told
        <3>2. n # m
            BY <1>2, <2>2, <3>1
        <3> QED BY <1>0, <2>2, <3>1, <3>2 DEF Told
    <2>4. CASE InStep(w)
        <3>1. Outdated(w, sn)
            BY <2>1, <2>4 DEF InStep, Outdated
        <3>2. win'[w] = win[w]
            BY <3>1 DEF Follows
        <3> QED BY <1>0, <2>4, <3>2 DEF InStep
    <2> QED BY <2>1, <2>3, <2>4
<1>3. CASE sn.rev = snap.rev
    <2>1. ~ Outdated(w, sn)
        BY <1>0, <1>3 DEF Outdated
    <2>2. CASE sn.phase = "connected" /\ Shows(w, sn) /\ win'[w].att.pc # "off"
        BY <1>0, <1>3, <2>2 DEF InStep, Shows
    <2>3. CASE /\ sn.phase # "connected" /\ ~ (w = Main /\ sn.phase = "pending" /\ sn.localPending)
               /\ Shows(w, sn)
        <3>1. ~ (w = Main /\ sn.phase = "pending")
            <4>1. CASE open[w]
                <5>1. PICK m \in Mail(box[w]) : m.kind = "snapshot" /\ m.snap = sn
                    BY <4>1 DEF Follows
                <5> QED BY <5>1 DEF Sound, MailOK
            <4>2. CASE ~ open[w]
                BY <1>1, <2>3, <4>2 DEF Handed
            <4> QED BY <4>1, <4>2
        <3> QED BY <1>0, <1>3, <2>3, <3>1 DEF InStep, Shows
    <2> QED BY <2>1, <2>2, <2>3 DEF Follows
<1> QED BY <1>2, <1>3

\* Every step keeps the windows informed.
LEMMA InformedKept ==
    ASSUME Sound, Sound', Shaped, Agreement, Informed, Handed PROVE Informed'
<1>0. Main \in Window
    BY Origins
<1>1. ASSUME NEW w \in Window, Works(w) \/ Refuses(w), NEW v \in Window, open'[v]
      PROVE  InStep(v)' \/ Told(v)'
    <2>1. open[v] /\ snap' = snap /\ box' = box
        BY <1>1 DEF Works, Refuses, SameSession
    <2>2. win'[v].auth = win[v].auth /\ (win[v].att.pc # "off" => win'[v].att.pc # "off")
        BY <1>1 DEF Works, Refuses, Others
    <2> QED BY <2>1, <2>2 DEF Informed, InStep, Told
<1>2. ASSUME NEW w \in Window, Stops(w), NEW v \in Window, open'[v]
      PROVE  InStep(v)' \/ Told(v)'
    <2>1. open[v] /\ open[w] /\ (InStep(v) \/ Told(v)) /\ (InStep(w) \/ Told(w))
        BY <1>2 DEF Stops, Informed
    <2>2. CASE v = w
        BY <1>2, <2>1, <2>2, StopInformed
    <2>3. CASE v # w
        <3>1. CASE Informs(IF w = Main THEN Window \ {Main} ELSE Window)
            BY <2>1, <2>3, <3>1, InformedBy
        <3>2. CASE snap' = snap /\ box' = box
            BY <1>2, <2>1, <2>3, <3>2, SameInformed DEF Stops, Others
        <3> QED BY <1>2, <3>1, <3>2 DEF Stops
    <2> QED BY <2>2, <2>3
<1>3. ASSUME NEW w \in Window, Leaves(w), NEW v \in Window, open'[v]
      PROVE  InStep(v)' \/ Told(v)'
    <2>1. v # w /\ open[v] /\ (InStep(v) \/ Told(v)) /\ win'[v] = win[v]
        BY <1>3 DEF Leaves, Informed, Others
    <2>2. CASE Informs(Window \ {w})
        BY <2>1, <2>2, InformedBy
    <2>3. CASE snap' = snap /\ \A u \in Window \ {w} : box'[u] = box[u]
        BY <2>1, <2>3, SameInformed
    <2> QED BY <1>3, <2>2, <2>3 DEF Leaves
<1>4. ASSUME NEW w \in Window, NEW sn \in Session, Follows(w, sn), NEW v \in Window, open'[v]
      PROVE  InStep(v)' \/ Told(v)'
    <2>1. CASE v = w
        BY <1>4, <2>1, FollowInformed DEF Informed
    <2>2. CASE v # w
        <3>1. /\ open[v] /\ snap' = snap /\ win'[v] = win[v] /\ box'[v] = box[v]
            BY <1>4, <2>2 DEF Follows, SameSession, Others
        <3> QED BY <3>1, SameInformed DEF Informed
    <2> QED BY <2>1, <2>2
<1>5. ASSUME Asks \/ Takes, NEW v \in Window, open'[v] PROVE InStep(v)' \/ Told(v)'
    <2>1. CASE v = Main
        BY <1>5, <2>1 DEF Asks, Takes, InStep
    <2>2. CASE v # Main
        <3>1. open[v] /\ Informs(Window \ {Main})
            BY <1>5, <2>2 DEF Asks, Takes
        <3> QED BY <2>2, <3>1, InformedBy
    <2> QED BY <2>1, <2>2
<1>6. ASSUME Still, NEW v \in Window, open'[v] PROVE InStep(v)' \/ Told(v)'
    <2>1. /\ open[v] /\ win'[v] = win[v] /\ snap'.rev = snap.rev
        BY <1>6, PendingSession DEF Still, Sound, SnapOK
    <2>2. Told(v) => Told(v)'
        <3>1. Mail(box[v]) \subseteq Message
            BY MailMessages DEF Sound, MailOK, Boxes
        <3> QED BY <1>6, <2>1, <3>1 DEF Still, Told
    <2> QED BY <2>1, <2>2 DEF Informed, InStep
<1>7. ASSUME GivesUp, NEW v \in Window, open'[v] PROVE InStep(v)' \/ Told(v)'
    BY <1>7, InformedBy DEF GivesUp
<1>8. ASSUME Restarts, NEW v \in Window PROVE ~ open'[v]
    BY <1>8 DEF Restarts
<1> QED BY <1>1, <1>2, <1>3, <1>4, <1>5, <1>6, <1>7, <1>8 DEF Shaped, Informed

\* Every step keeps the promise of main to a document that is not there.
LEMMA HandedKept == ASSUME Sound, Shaped, Handed PROVE Handed'
<1>0. Main \in Window
    BY Origins
<1>1. ASSUME NEW w \in Window, Works(w) \/ Refuses(w) \/ Stops(w) PROVE Handed'
    BY <1>1 DEF Works, Refuses, Stops, SameSession, Handed
<1>2. ASSUME NEW w \in Window, Leaves(w) PROVE Handed'
    BY <1>0, <1>2 DEF Leaves, Handed
<1>3. ASSUME NEW w \in Window, NEW sn \in Session, Follows(w, sn) PROVE Handed'
    BY <1>0, <1>3 DEF Follows, SameSession, Handed
<1>4. CASE Asks \/ Takes \/ GivesUp
    BY <1>4 DEF Asks, Takes, GivesUp, Handed
<1>5. CASE Still
    <2>1. snap' = snap \/ (snap'.localPending /\ snap'.phase = snap.phase)
        BY <1>5 DEF Still, Sound, SnapOK, Session, Snapshot
    <2> QED BY <1>5, <2>1 DEF Still, Handed
<1>6. CASE Restarts
    BY <1>6 DEF Restarts, Handed, Initial
<1> QED BY <1>1, <1>2, <1>3, <1>4, <1>5, <1>6 DEF Shaped

\* In the first state nothing is known, sent or used.
LEMMA SharedInit == ASSUME Init PROVE Shared
<1>1. \A w \in Window : win[w] = Blank /\ Mail(box[w]) = {} /\ ~ open[w]
    BY MailEmpty DEF Init
<1>2. Agreement
    BY <1>1, BlankRenderer DEF Init, Agreement, Agrees
<1>3. Informed /\ Handed
    BY <1>1 DEF Init, Informed, Handed, Initial
<1>4. Using
    BY <1>1, BlankRenderer DEF Using, Uses, NoAttempt
<1> QED BY <1>2, <1>3, <1>4 DEF Shared

\* Any step keeps it.
LEMMA SharedNext == ASSUME Sound, Shared, [Next]_vars PROVE Shared'
<1>1. Sound' /\ Shaped
    BY SoundNext
<1>2. refused \subseteq refused'
    BY Refusals
<1> QED BY <1>1, <1>2, AgreementKept, InformedKept, UsingKept, HandedKept DEF Shared

(***************************************************************************)
(* No window is stranded, and a refusal ends its own session               *)
(***************************************************************************)
\* Every window knows the session in force, or has it in its mail, in every reachable state of
\* every instance.
THEOREM SessionShared == Spec => []Shared
BY SoundInit, SoundNext, SharedInit, SharedNext, PTL DEF Spec

\* No window is stranded: one that has read its mail and shows a connection uses the credential
\* in force, and one that shows none while a session is in force is at work on it.
THEOREM WindowsAreNotStranded == Spec => []NoWindowStranded
<1>1. ASSUME Sound, Shared PROVE NoWindowStranded
    <2> SUFFICES ASSUME NEW w \in Window, open[w], box[w] = <<>>
                 PROVE  /\ win[w].status \in {"connected", "reconnecting"} =>
                               snap.phase = "connected" /\ win[w].api = snap.token
                        /\ snap.phase = "connected" => win[w].att.pc # "off"
                        /\ w = Main /\ snap.phase = "pending" => win[w].att.pc # "off"
        BY DEF NoWindowStranded
    <2>1. ~ Told(w)
        BY MailEmpty DEF Told
    <2>2. InStep(w)
        BY <1>1, <2>1 DEF Shared, Informed
    <2>3. win[w].auth.phase = snap.phase /\ win[w].auth.token = snap.token
        BY <1>1, <2>2 DEF InStep, Shared, Agreement, Agrees
    <2> QED BY <1>1, <2>2, <2>3 DEF InStep, Shared, Using, Uses
<1> QED BY <1>1, Soundness, SessionShared, PTL

\* The window that brings a session down without the owner does so for its credential.
LEMMA RefusedSession ==
    ASSUME Sound, Sound', Shared, Shaped, snap.phase = "connected", snap'.phase = "blocked",
           win'[Main] = win[Main]
    PROVE  snap.token \in refused
<1>0. /\ Main \in Window /\ snap.rev \in Nat
      /\ win[Main].auth.rev <= snap.rev /\ win[Main].auth.rev \in Nat
    BY Origins, SessionFields, RendererFields DEF Sound, SnapOK, WindowsOK
<1>1. ASSUME NEW w \in Window, Stops(w) PROVE snap.token \in refused
    <2>1. Ends(w) /\ snap'.rev = snap.rev + 1
        BY <1>1 DEF Stops
    <2>2. w # Main
        BY <1>0, <1>1, <2>1 DEF Stops
    <2>3. win[w].auth.rev = snap.rev /\ Cause(w)
        BY <1>1, <2>1, <2>2 DEF Ends, RejectAccepted, Stops
    <2>4. win[w].auth.token = snap.token
        BY <2>3 DEF Shared, Agreement, Agrees
    <2>5. CASE win[w].bad
        BY <2>4, <2>5 DEF Shared, Using, Uses
    <2>6. CASE win[w].att.ans = "denied"
        BY <2>2, <2>4, <2>6 DEF Shared, Using, Uses
    <2> QED BY <2>2, <2>3, <2>5, <2>6 DEF Cause, Shared, Using, Uses
<1>2. ASSUME NEW w \in Window, Works(w) \/ Refuses(w) \/ Leaves(w) PROVE FALSE
    BY <1>2 DEF Works, Refuses, Leaves, SameSession
<1>3. ASSUME NEW w \in Window, NEW sn \in Session, Follows(w, sn) PROVE FALSE
    BY <1>3 DEF Follows, SameSession
<1>4. ~ Asks /\ ~ Takes /\ ~ GivesUp
    BY DEF Asks, Takes, GivesUp
<1>5. ~ Still /\ ~ Restarts
    BY DEF Still, Restarts, Initial
<1> QED BY <1>1, <1>2, <1>3, <1>4, <1>5 DEF Shaped

\* A refusal ends only the session whose credential was refused: a session that is brought down
\* while the owner does nothing held a credential its backend has turned away.
THEOREM RefusalsEndTheirSession == Spec => RefusalEndsOnlyItsSession
<1>1. ASSUME Sound, Sound', Shared, [Next]_vars
      PROVE  [snap.phase = "connected" /\ snap'.phase = "blocked" /\ win'[Main] = win[Main]
              => snap.token \in refused]_vars
    BY <1>1, SoundNext, RefusedSession
<1> QED BY <1>1, Soundness, SessionShared, PTL DEF Spec, RefusalEndsOnlyItsSession

(***************************************************************************)
(* The credential of the local backend                                     *)
(***************************************************************************)
\* The local backend accepts the credential, has been told to accept none, or has issued another
\* for a registration the app had given up.
Kept(t) == valid[Local] \in {0, t.n} \/ late[Local] = "did"

\* The owner may still act on an answer to the call of revision rev.
Due(rev) == rev = snap.rev \/ (Mine(rev) /\ win[Main].att.rev = snap.rev)

\* The session in force has the local credential t, or may come to have it without another being
\* issued.
InUse(t) ==
    /\ t.url = Local
    /\ \/ t = snap.token
       \/ t = win[Main].api
       \/ win[Main].att.pc # "off" /\ win[Main].att.rev = snap.rev /\ t = win[Main].att.cand
       \/ \E m \in Mail(box[Main]) : m.kind = "local" /\ m.token = t /\ Due(m.born)

\* One startup at most runs, and none is of a generation to come.
Startups ==
    /\ \A f \in flights : /\ f.gen <= gen
                          /\ f.gen = gen \/ f.st \notin {"ok", "failed"} => f.gen = flight
    /\ \A f, g \in flights : f.gen = g.gen => f = g
    /\ \A c, d \in calls : c.rev = d.rev => c = d

\* No credential is issued while one may still be used.
Quiet == (\A f \in flights : f.st \in {"ok", "failed"}) /\ (\A c \in calls : c.rev # snap.rev)

LocalUse ==
    /\ \A t \in Token : InUse(t) => Kept(t) /\ Quiet
    /\ \A f \in flights : f.gen = gen /\ f.st \in {"posted", "ok"}
                             => f.token.url = Local /\ Kept(f.token)

\* What the invariant of the session says of revisions.
LEMMA Revisions ==
    ASSUME Sound
    PROVE  /\ Main \in Window /\ snap \in Session /\ snap.rev \in Nat /\ gen \in Nat
           /\ win[Main] \in Renderer /\ win[Main].att \in Attempt
           /\ win[Main].att.rev \in Nat /\ win[Main].att.born \in Nat
           /\ win[Main].att.pc # "off" => win[Main].att.rev <= snap.rev
           /\ \A m \in Mail(box[Main]) : m.kind = "local" => m.born \in Nat /\ m.born <= snap.rev
           /\ ~ open[Main] => Mail(box[Main]) = {} /\ win[Main] = Blank
           /\ \A c \in calls : c.rev \in Nat /\ c.rev <= snap.rev
<1>1. Main \in Window /\ snap \in Session /\ gen \in Nat
    BY Origins DEF Sound, SnapOK
<1>2. win[Main] \in Renderer
    BY <1>1 DEF Sound, WindowsOK
<1>3. /\ win[Main].att \in Attempt /\ win[Main].att.rev \in Nat /\ win[Main].att.born \in Nat
      /\ win[Main].att.pc # "off" => win[Main].att.rev <= snap.rev
    BY <1>1, <1>2, RendererFields, AttemptFields DEF Sound, WindowsOK
<1>4. ASSUME NEW m \in Mail(box[Main]), m.kind = "local" PROVE m.born \in Nat /\ m.born <= snap.rev
    <2>1. m \in Message
        BY <1>1, MailMessages DEF Sound, MailOK, Boxes
    <2> QED BY <1>4, <2>1 DEF Message, News, Reply, Sound, MailOK
<1>5. ~ open[Main] => Mail(box[Main]) = {} /\ win[Main] = Blank
    BY <1>1 DEF Sound, MailOK, WindowsOK
<1>6. \A c \in calls : c.rev \in Nat /\ c.rev <= snap.rev
    BY DEF Sound, CallsOK, CallOK, Call
<1> QED BY <1>1, <1>2, <1>3, <1>4, <1>5, <1>6, SessionFields

\* Once the revision moves on, only what the owner itself holds is still in use.
LEMMA UseMovesOn ==
    ASSUME Sound, snap'.rev = snap.rev + 1, NEW t \in Token, InUse(t)',
           \A m \in Mail(box'[Main]) : \/ m \in Mail(box[Main]) \/ m.kind = "snapshot"
                                       \/ m.kind = "local" /\ m.token = NoToken
    PROVE  \/ t = snap'.token \/ t = win'[Main].api
           \/ /\ win'[Main].att.pc # "off" /\ win'[Main].att.rev = snap'.rev
              /\ t = win'[Main].att.cand
           \/ \E m \in Mail(box[Main]) :
                 /\ m.kind = "local" /\ m.token = t /\ win'[Main].att.pc # "off"
                 /\ win'[Main].att.born = m.born /\ win'[Main].att.rev = snap'.rev
<1>1. t # NoToken
    BY Origins DEF InUse
<1>2. ASSUME NEW m \in Mail(box'[Main]), m.kind = "local", m.token = t, Due(m.born)'
      PROVE  /\ m \in Mail(box[Main]) /\ win'[Main].att.pc # "off"
             /\ win'[Main].att.born = m.born /\ win'[Main].att.rev = snap'.rev
    <2>1. m \in Mail(box[Main])
        BY <1>1, <1>2
    <2>2. m.born # snap'.rev
        BY <1>2, <2>1, Revisions
    <2> QED BY <1>2, <2>1, <2>2 DEF Due, Mine
<1> QED BY <1>2 DEF InUse

\* Nothing comes into use but the credential of a local() call that returns.
LEMMA UseShaped ==
    ASSUME Sound, Sound', Shaped, NEW t \in Token, InUse(t)'
    PROVE  InUse(t) \/ \E m \in Mail(box'[Main]) : m.token = t /\ Returned(m)
<1>0. Main \in Window /\ t.url = Local /\ t # NoToken /\ NoToken.url # Local
    BY Origins DEF InUse
<1>1. ASSUME NEW w \in Window, Works(w) PROVE InUse(t)
    <2>1. snap' = snap /\ box' = box
        BY <1>1 DEF Works, SameSession
    <2>2. CASE w # Main
        <3>1. win'[Main] = win[Main]
            BY <1>0, <1>1, <2>2 DEF Works, Others
        <3> QED BY <2>1, <3>1 DEF InUse, Due, Mine
    <2>3. CASE w = Main
        <3>1. /\ win'[Main].api = win[Main].api /\ win[Main].att.pc # "off"
              /\ win'[Main].att.rev = win[Main].att.rev /\ win'[Main].att.born = win[Main].att.born
              /\ win'[Main].att.cand = win[Main].att.cand \/ win'[Main].att.cand.url # Local
            BY <1>1, <2>3 DEF Works
        <3> QED BY <1>0, <2>1, <3>1 DEF InUse, Due, Mine
    <2> QED BY <2>2, <2>3
<1>2. ASSUME NEW w \in Window, Refuses(w) PROVE InUse(t)
    <2>1. snap' = snap /\ box' = box /\ win'[Main].att = win[Main].att
          /\ win'[Main].api = win[Main].api
        BY <1>0, <1>2 DEF Refuses, SameSession, Others
    <2> QED BY <2>1 DEF InUse, Due, Mine
<1>3. ASSUME NEW w \in Window, Stops(w) PROVE InUse(t)
    <2>1. CASE ~ Ends(w)
        <3>1. snap' = snap /\ box' = box /\ win'[Main] = win[Main]
            BY <1>0, <1>3, <2>1 DEF Stops, Ends, Others
        <3> QED BY <3>1 DEF InUse, Due, Mine
    <2>2. CASE Ends(w)
        <3>1. /\ snap'.rev = snap.rev + 1 /\ snap'.token = NoToken
              /\ \A m \in Mail(box'[Main]) : \/ m \in Mail(box[Main]) \/ m.kind = "snapshot"
                                             \/ m.kind = "local" /\ m.token = NoToken
            BY <1>0, <1>3, <2>2 DEF Stops, Informs, Cleared
        <3>2. \/ win'[Main] = win[Main]
              \/ win'[Main].api = NoToken /\ win'[Main].att.pc = "off"
            BY <1>0, <1>3, BlankRenderer DEF Stops, Others
        <3>3. win[Main].att.pc # "off" => win[Main].att.rev # snap'.rev
            BY <3>1, Revisions
        <3>4. t = win'[Main].api /\ win'[Main] = win[Main]
            BY <1>0, <3>1, <3>2, <3>3, UseMovesOn
        <3> QED BY <1>0, <3>4 DEF InUse
    <2> QED BY <2>1, <2>2
<1>4. ASSUME NEW w \in Window, Leaves(w) PROVE InUse(t)
    <2>1. CASE w = Main
        <3>1. win'[Main].api = NoToken /\ win'[Main].att.pc = "off" /\ Mail(box'[Main]) = {}
            BY <1>0, <1>4, <2>1, BlankRenderer DEF Leaves, Sound, MailOK
        <3>2. snap' = snap \/ snap'.token = NoToken
            BY <1>4 DEF Leaves, Cleared
        <3> QED BY <1>0, <3>1, <3>2 DEF InUse
    <2>2. CASE w # Main
        <3>1. snap' = snap /\ box'[Main] = box[Main] /\ win'[Main] = win[Main]
            BY <1>0, <1>4, <2>2 DEF Leaves, Others
        <3> QED BY <3>1 DEF InUse, Due, Mine
    <2> QED BY <2>1, <2>2
<1>5. ASSUME NEW w \in Window, NEW sn \in Session, Follows(w, sn) PROVE InUse(t)
    <2>1. snap' = snap
        BY <1>5 DEF Follows, SameSession
    <2>2. CASE w # Main
        <3>1. box'[Main] = box[Main] /\ win'[Main] = win[Main]
            BY <1>0, <1>5, <2>2 DEF Follows, Others
        <3> QED BY <2>1, <3>1 DEF InUse, Due, Mine
    <2>3. CASE w = Main
        <3>1. Mail(box'[Main]) \subseteq Mail(box[Main])
            BY <1>5, <2>3 DEF Follows
        <3>2. CASE win'[Main] = win[Main]
            BY <2>1, <3>1, <3>2 DEF InUse, Due, Mine
        <3>3. CASE win'[Main].att = NoAttempt /\ win'[Main].api = NoToken
            <4>1. win'[Main].att.pc = "off"
                BY <3>3, BlankRenderer
            <4> QED BY <1>0, <2>1, <3>1, <3>3, <4>1 DEF InUse, Due, Mine
        <3>4. CASE sn.phase = "connected" /\ win'[Main].att.cand = sn.token /\ win'[Main].api = NoToken
            <4>1. ~ open[Main] /\ sn = snap
                BY <1>5, <2>3, <3>4 DEF Follows, Sound, MailOK
            <4>2. Mail(box'[Main]) = {}
                BY <3>1, <4>1, Revisions
            <4> QED BY <1>0, <2>1, <3>4, <4>1, <4>2 DEF InUse
        <3> QED BY <1>5, <2>3, <3>2, <3>3, <3>4 DEF Follows
    <2> QED BY <2>2, <2>3
<1>6. CASE Asks
    <2>1. /\ snap'.rev = snap.rev + 1 /\ snap'.token = NoToken /\ win'[Main].api = NoToken
          /\ win'[Main].att.born = snap.rev + 1
          /\ win'[Main].att.cand.url = Local => win'[Main].att.cand = win[Main].api
          /\ \A m \in Mail(box'[Main]) : \/ m \in Mail(box[Main]) \/ m.kind = "snapshot"
                                         \/ m.kind = "local" /\ m.token = NoToken
        BY <1>0, <1>6 DEF Asks, Informs
    <2>2. \A m \in Mail(box[Main]) : m.kind = "local" => m.born # snap.rev + 1
        BY Revisions
    <2>3. t = win'[Main].att.cand
        BY <1>0, <2>1, <2>2, UseMovesOn
    <2> QED BY <1>0, <2>1, <2>3 DEF InUse
<1>7. CASE Takes
    <2>1. /\ snap'.rev = snap.rev + 1 /\ win'[Main].api = snap'.token
          /\ win'[Main].att.cand = snap'.token /\ win'[Main].att.born = win[Main].att.born
          /\ win[Main].att.pc # "off" /\ win[Main].att.rev = snap.rev /\ Shown(snap'.token)
          /\ \A m \in Mail(box'[Main]) : \/ m \in Mail(box[Main]) \/ m.kind = "snapshot"
                                         \/ m.kind = "local" /\ m.token = NoToken
        BY <1>0, <1>7 DEF Takes, Informs
    <2>2. CASE t = snap'.token
        BY <1>0, <2>1, <2>2 DEF Shown, InUse, Due, Mine
    <2>3. CASE t # snap'.token
        <3>1. PICK m \in Mail(box[Main]) : /\ m.kind = "local" /\ m.token = t
                                           /\ win'[Main].att.born = m.born
            BY <2>1, <2>3, UseMovesOn
        <3> QED BY <1>0, <2>1, <3>1 DEF InUse, Due, Mine
    <2> QED BY <2>2, <2>3
<1>8. CASE Still
    <2>1. /\ win' = win /\ snap'.rev = snap.rev /\ snap'.token = snap.token
        BY <1>8, PendingSession DEF Still, Sound, SnapOK
    <2>2. \A m \in Mail(box'[Main]) :
              m \in Mail(box[Main]) \/ (m.kind = "local" /\ (m.token = NoToken \/ Returned(m)))
        BY <1>0, <1>8 DEF Still
    <2>3. CASE \E m \in Mail(box'[Main]) : m.kind = "local" /\ m.token = t /\ Due(m.born)'
        BY <1>0, <2>1, <2>2, <2>3 DEF InUse, Due, Mine
    <2>4. CASE ~ \E m \in Mail(box'[Main]) : m.kind = "local" /\ m.token = t /\ Due(m.born)'
        BY <2>1, <2>4 DEF InUse
    <2> QED BY <2>3, <2>4
<1>9. CASE GivesUp
    <2>1. /\ snap'.rev = snap.rev + 1 /\ snap'.token = NoToken /\ win' = win
          /\ \A m \in Mail(box'[Main]) : \/ m \in Mail(box[Main]) \/ m.kind = "snapshot"
                                         \/ m.kind = "local" /\ m.token = NoToken
        BY <1>0, <1>9 DEF GivesUp, Informs, Cleared
    <2>2. win[Main].att.pc # "off" => win[Main].att.rev # snap'.rev
        BY <2>1, Revisions
    <2>3. t = win[Main].api
        BY <1>0, <2>1, <2>2, UseMovesOn
    <2> QED BY <1>0, <2>3 DEF InUse
<1>10. CASE Restarts
    <2>1. /\ snap'.token = NoToken /\ win'[Main].api = NoToken /\ win'[Main].att.pc = "off"
          /\ Mail(box'[Main]) = {}
        BY <1>0, <1>10, BlankRenderer, MailEmpty DEF Restarts, Initial
    <2> QED BY <1>0, <2>1 DEF InUse
<1> QED BY <1>1, <1>2, <1>3, <1>4, <1>5, <1>6, <1>7, <1>8, <1>9, <1>10 DEF Shaped

\* What the local backend accepts stays as it is.
Untouched == valid'[Local] = valid[Local] /\ late'[Local] = late[Local]

\* No local credential is replaced.
Spares == \A t \in Token : Kept(t) => Kept(t)'

\* No local startup begins or moves, and no local() call is made.
Gentle == /\ Spares /\ calls' \subseteq calls
          /\ \/ flight' = flight /\ flights' = flights
             \/ FlightForgotten

\* Generations and revisions are counted up, but for a restart.
LEMMA Counting ==
    ASSUME Sound, Shaped, ~ Restarts
    PROVE  gen' \in {gen, gen + 1} /\ snap'.rev \in {snap.rev, snap.rev + 1}
<1>1. ASSUME NEW w \in Window, Works(w) \/ Refuses(w) \/ Stops(w) \/ Leaves(w)
      PROVE  gen' \in {gen, gen + 1} /\ snap'.rev \in {snap.rev, snap.rev + 1}
    BY <1>1 DEF Works, Refuses, Stops, Leaves, SameSession
<1>2. ASSUME NEW w \in Window, NEW sn \in Session, Follows(w, sn)
      PROVE  gen' \in {gen, gen + 1} /\ snap'.rev \in {snap.rev, snap.rev + 1}
    BY <1>2 DEF Follows, SameSession
<1>3. CASE Asks \/ Takes \/ GivesUp
    BY <1>3 DEF Asks, Takes, GivesUp
<1>4. CASE Still
    BY <1>4, PendingSession DEF Still, Sound, SnapOK
<1> QED BY <1>1, <1>2, <1>3, <1>4 DEF Shaped

\* The startups main knows are those it knew, or fewer.
LEMMA StartupsKept ==
    ASSUME Sound, Startups, gen' \in {gen, gen + 1}, Gentle PROVE Startups'
<1>0. gen \in Nat /\ \A f \in flights : f.gen \in Nat
    BY DEF Sound, SnapOK, FlightsOK, LocalStartup, Startup
<1>1. flights' \subseteq flights
    BY DEF Gentle, FlightForgotten
<1>2. ASSUME NEW f \in flights'
      PROVE  f.gen <= gen' /\ (f.gen = gen' \/ f.st \notin {"ok", "failed"} => f.gen = flight')
    <2>1. /\ f \in flights /\ f.gen <= gen /\ f.gen \in Nat
          /\ f.gen = gen \/ f.st \notin {"ok", "failed"} => f.gen = flight
        BY <1>0, <1>1, <1>2 DEF Startups
    <2>2. f.gen <= gen' /\ (f.gen = gen' => f.gen = gen)
        BY <1>0, <2>1
    <2>3. CASE flight' = flight
        BY <2>1, <2>2, <2>3
    <2>4. CASE Settled(flight) /\ flights' = {g \in flights : g.gen # flight}
        BY <2>1, <2>2, <2>4, <1>2 DEF Settled
    <2> QED BY <2>3, <2>4 DEF Gentle, FlightForgotten
<1> QED BY <1>1, <1>2 DEF Startups, Gentle

\* Such a step keeps what is in use.
LEMMA UseKept ==
    ASSUME Sound, Sound', Startups, LocalUse, Shaped, ~ Restarts, Gentle PROVE LocalUse'
<1>0. /\ gen \in Nat /\ snap.rev \in Nat /\ gen' \in {gen, gen + 1}
      /\ snap'.rev \in {snap.rev, snap.rev + 1}
    BY Revisions, Counting
<1>1. flights' \subseteq flights /\ calls' \subseteq calls
    BY DEF Gentle, FlightForgotten
<1>a. \A f \in flights : f.token \in Token
    BY DEF Sound, FlightsOK, LocalStartup, Startup
<1>2. ASSUME NEW t \in Token, InUse(t)' PROVE Kept(t)' /\ Quiet'
    <2>1. CASE InUse(t)
        <3>1. Kept(t)' /\ Quiet
            BY <2>1 DEF LocalUse, Gentle, Spares
        <3>2. \A c \in calls : c.rev \in Nat /\ c.rev <= snap.rev
            BY Revisions
        <3>3. ASSUME NEW c \in calls' PROVE c.rev # snap'.rev
            BY <1>0, <1>1, <3>1, <3>2 DEF Quiet
        <3> QED BY <1>1, <3>1, <3>3 DEF Quiet
    <2>2. ASSUME NEW m \in Mail(box'[Main]), m.token = t, Returned(m), ~ InUse(t)
          PROVE  Kept(t)' /\ Quiet'
        <3>1. PICK c \in calls, f \in flights :
                  /\ c.rev = snap.rev /\ calls' = calls \ {c} /\ m.born = c.rev
                  /\ f.gen = gen /\ f.st = "ok" /\ t = f.token
            BY <2>2 DEF Returned
        <3>2. Kept(t)'
            BY <3>1 DEF LocalUse, Gentle, Spares
        <3>3. ASSUME NEW g \in flights' PROVE g.st \in {"ok", "failed"}
            BY <1>1, <3>1, <3>3 DEF Startups
        <3>4. ASSUME NEW d \in calls' PROVE d.rev # snap'.rev
            <4>1. d \in calls /\ d # c /\ d.rev \in Nat /\ d.rev <= snap.rev
                BY <3>1, <3>4, Revisions
            <4>2. d.rev # snap.rev
                BY <3>1, <4>1 DEF Startups
            <4> QED BY <1>0, <4>1, <4>2
        <3> QED BY <3>2, <3>3, <3>4 DEF Quiet
    <2> QED BY <1>2, <2>1, <2>2, UseShaped
<1>3. ASSUME NEW f \in flights', f.gen = gen', f.st \in {"posted", "ok"}
      PROVE  f.token.url = Local /\ Kept(f.token)'
    <2>1. f \in flights /\ f.gen <= gen
        BY <1>1, <1>3 DEF Startups
    <2>2. f.gen = gen
        BY <1>0, <1>3, <2>1
    <2> QED BY <1>3, <1>a, <2>1, <2>2 DEF LocalUse, Gentle, Spares
<1> QED BY <1>2, <1>3 DEF LocalUse

\* After a restart nothing is in use.
LEMMA RestartUse == ASSUME Restarts PROVE Startups' /\ LocalUse'
<1>1. /\ snap'.token = NoToken /\ win'[Main].api = NoToken /\ win'[Main].att.pc = "off"
      /\ Mail(box'[Main]) = {} /\ flights' = {} /\ calls' = {}
    BY Origins, BlankRenderer, MailEmpty DEF Restarts, Initial
<1>2. \A t \in Token : ~ InUse(t)'
    BY <1>1, Origins DEF InUse
<1> QED BY <1>1, <1>2 DEF LocalUse, Startups

\* While the renderers and their mail are left alone, nothing comes into use.
LEMMA SameUse ==
    ASSUME win' = win, box' = box, snap'.rev = snap.rev, snap'.token = snap.token,
           NEW t, InUse(t)'
    PROVE  InUse(t)
BY DEF InUse, Due, Mine

\* A local() call of the attempt waits or joins a startup: nothing is in use yet.
LEMMA JoinUse ==
    ASSUME Sound, Startups, LocalUse, NEW c \in calls, c.rev = snap.rev, gen > 0,
           win' = win, box' = box, snap'.rev = snap.rev, snap'.token = snap.token,
           gen' = gen, Untouched, NEW d, d.rev = c.rev, calls' = (calls \ {c}) \cup {d},
           \/ flight' = flight /\ flights' = flights
           \/ /\ flight \in {0, gen} \/ Settled(flight)
              /\ flight' = gen
              /\ \/ flights' = flights
                 \/ /\ \A f \in flights : f.gen # gen
                    /\ flights' = {f \in flights : ~ Settled(f.gen)}
                                   \cup {[gen |-> gen, st |-> "start", token |-> NoToken]}
    PROVE  Startups' /\ LocalUse'
<1>0. /\ \A t \in Token : ~ InUse(t)'
      /\ \A f \in flights : f.gen \in Nat \ {0} /\ f.token \in Token
    <2>1. \A t \in Token : ~ InUse(t)
        BY DEF LocalUse, Quiet
    <2> QED BY <2>1, SameUse DEF Sound, FlightsOK, LocalStartup, Startup
<1>1. \A a, b \in calls' : a.rev = b.rev => a = b
    BY DEF Startups
<1>2. ASSUME NEW f \in flights'
      PROVE  f.gen <= gen /\ (f.gen = gen \/ f.st \notin {"ok", "failed"} => f.gen = flight')
    <2>1. ASSUME f \in flights
          PROVE  f.gen <= gen /\ (f.gen = gen \/ f.st \notin {"ok", "failed"} => f.gen = flight')
        <3>1. /\ f.gen <= gen /\ f.gen # 0
              /\ f.gen = gen \/ f.st \notin {"ok", "failed"} => f.gen = flight
            BY <1>0, <2>1 DEF Startups
        <3>2. Settled(flight) /\ f.gen = flight => f.st \in {"ok", "failed"}
            BY <2>1 DEF Settled
        <3> QED BY <3>1, <3>2
    <2>2. CASE f = [gen |-> gen, st |-> "start", token |-> NoToken] /\ flight' = gen
        <3>1. gen \in Nat
            BY DEF Sound, SnapOK
        <3> QED BY <2>2, <3>1
    <2> QED BY <1>2, <2>1, <2>2
<1>3. \A f, g \in flights' : f.gen = g.gen => f = g
    BY DEF Startups
<1>4. ASSUME NEW f \in flights', f.gen = gen, f.st \in {"posted", "ok"}
      PROVE  f.token.url = Local /\ Kept(f.token)'
    <2>1. f \in flights
        BY <1>4
    <2> QED BY <1>4, <2>1 DEF LocalUse, Kept, Untouched
<1> QED BY <1>0, <1>1, <1>2, <1>3, <1>4 DEF Startups, LocalUse

\* A startup that runs moves: nothing is in use yet, and no other is of the generation.
LEMMA MoveUse ==
    ASSUME Sound, Startups, LocalUse, NEW f \in flights, f.st \notin {"ok", "failed"},
           win' = win, box' = box, snap' = snap, gen' = gen, flight' = flight, calls' = calls,
           NEW g, g.gen = f.gen, flights' = (flights \ {f}) \cup {g},
           g.gen = gen /\ g.st \in {"posted", "ok"} => g.token.url = Local /\ Kept(g.token)'
    PROVE  Startups' /\ LocalUse'
<1>1. \A t \in Token : ~ InUse(t)'
    <2>1. \A t \in Token : ~ InUse(t)
        BY DEF LocalUse, Quiet
    <2> QED BY <2>1, SameUse
<1>2. f.gen <= gen /\ f.gen = flight
    BY DEF Startups
<1>3. Startups'
    BY <1>2 DEF Startups
<1>4. ASSUME NEW h \in flights', h.gen = gen, h.st \in {"posted", "ok"}
      PROVE  h.token.url = Local /\ Kept(h.token)'
    <2>1. h \in flights => h = f
        BY <1>2, <1>4 DEF Startups
    <2> QED BY <1>4, <2>1
<1> QED BY <1>1, <1>3, <1>4 DEF LocalUse

\* The owner asks main for a credential: it holds none.
LEMMA StartUse ==
    ASSUME Sound, Sound', Startups, LocalUse, Asks, win'[Main].att.cand = NoToken,
           UNCHANGED <<flight, flights>>, Untouched,
           NEW d, d.rev = snap'.rev, calls' = calls \cup {d}
    PROVE  Startups' /\ LocalUse'
<1>0. /\ Main \in Window /\ gen \in Nat /\ gen' \in {gen, gen + 1} /\ snap.rev \in Nat
      /\ snap'.rev = snap.rev + 1 /\ snap'.token = NoToken /\ win'[Main].api = NoToken
      /\ win'[Main].att.born = snap.rev + 1
      /\ \A m \in Mail(box'[Main]) : \/ m \in Mail(box[Main]) \/ m.kind = "snapshot"
                                     \/ m.kind = "local" /\ m.token = NoToken
    BY Revisions DEF Asks, Informs
<1>1. \A t \in Token : ~ InUse(t)'
    <2>1. \A m \in Mail(box[Main]) : m.kind = "local" => m.born # snap.rev + 1
        BY Revisions
    <2> SUFFICES ASSUME NEW t \in Token, InUse(t)' PROVE FALSE
        OBVIOUS
    <2>2. t # NoToken
        BY Origins DEF InUse
    <2> QED BY <1>0, <2>1, <2>2, UseMovesOn
<1>2. \A c \in calls : c.rev # d.rev
    BY <1>0, Revisions
<1>3. ASSUME NEW f \in flights
      PROVE  f.gen <= gen /\ f.gen <= gen' /\ (f.gen = gen' => f.gen = gen)
    <2>1. f.gen \in Nat /\ f.gen <= gen
        BY DEF Startups, Sound, FlightsOK, LocalStartup, Startup
    <2> QED BY <1>0, <2>1
<1>4. Startups'
    BY <1>2, <1>3 DEF Startups
<1>5. ASSUME NEW f \in flights', f.gen = gen', f.st \in {"posted", "ok"}
      PROVE  f.token.url = Local /\ Kept(f.token)'
    BY <1>3, <1>5 DEF LocalUse, Kept, Untouched
<1> QED BY <1>1, <1>4, <1>5 DEF LocalUse

\* What is accepted stays accepted, when nothing is issued.
LEMMA UntouchedSpares == ASSUME Untouched PROVE Spares
BY DEF Untouched, Spares, Kept

\* Another backend issues a credential.
LEMMA IssuedElsewhere ==
    ASSUME Sound, NEW o \in Remote, Issue(o), late'[Local] = late[Local] PROVE Untouched
<1>1. o # Local /\ valid \in [Origin -> Nat] /\ Local \in Origin
    BY Origins, ConnectionAssumption DEF Sound, BackendsOK
<1> QED BY <1>1 DEF Issue, Untouched

\* A window that stops leaves the local startups alone, and one that activates may forget one.
LEMMA Attending ==
    ASSUME NEW w, NEW b,
           Block(w, b) \/ \E cand, rem, want : Activate(w, cand, rem, want, b)
    PROVE  (flight' = flight /\ flights' = flights) \/ FlightForgotten
<1>1. CASE Block(w, b)
    BY <1>1 DEF Block
<1>2. ASSUME NEW cand, NEW rem, NEW want, Activate(w, cand, rem, want, b)
      PROVE  (flight' = flight /\ flights' = flights) \/ FlightForgotten
    <2>1. CASE w # Main
        BY <1>2, <2>1 DEF Activate
    <2>2. CASE w = Main /\ CommitAccepted(win[w].att.rev, cand.url)
        BY <1>2, <2>2 DEF Activate
    <2>3. CASE w = Main /\ ~ CommitAccepted(win[w].att.rev, cand.url)
        <3>1. Block(Main, b)
            BY <1>2, <2>3 DEF Activate
        <3> QED BY <3>1 DEF Block
    <2> QED BY <2>1, <2>2, <2>3
<1> QED BY <1>1, <1>2

\* The owner starts the local backend, from any mailbox.
LEMMA StartsUse ==
    ASSUME Sound, Sound', Startups, LocalUse, Shaped, NEW want, NEW b, StartsLocal(want, b),
           UNCHANGED <<backendVars, flight, flights>>, Asks
    PROVE  Startups' /\ LocalUse'
<1>1. Untouched /\ Main \in Window /\ win \in [Window -> Renderer]
    BY Origins DEF Untouched, backendVars, Sound, WindowsOK
<1>2. CASE calls' = calls
    <2>1. ~ Restarts /\ gen' \in {gen, gen + 1}
        BY DEF Asks, Restarts, Initial
    <2> QED BY <1>1, <1>2, <2>1, UntouchedSpares, StartupsKept, UseKept DEF Gentle
<1>3. CASE calls' # calls
    <2>1. PICK d : d = [doc |-> document, rev |-> snap'.rev, gen |-> 0, st |-> "sent",
                        want |-> want]
        OBVIOUS
    <2>2. PICK cached : cached = IF win[Main].api.url = Local THEN win[Main].api ELSE NoToken
        OBVIOUS
    <2>3. /\ cached = NoToken /\ calls' = calls \cup {d} /\ d.rev = snap'.rev
          /\ win' = [win EXCEPT ![Main] = Attempting(@, snap', Local, "local", NoToken, FALSE, want)]
        BY <1>3, <2>1, <2>2 DEF StartsLocal, Begin
    <2>4. win'[Main] = Attempting(win[Main], snap', Local, "local", NoToken, FALSE, want)
        BY <1>1, <2>3
    <2>5. win[Main] = [auth |-> win[Main].auth, att |-> win[Main].att, status |-> win[Main].status,
                       api |-> win[Main].api, bad |-> win[Main].bad]
        BY <1>1 DEF Renderer
    <2>6. win'[Main].att.cand = NoToken
        BY <2>4, <2>5 DEF Attempting, Invalidated
    <2> QED BY <1>1, <2>3, <2>6, StartUse
<1> QED BY <1>2, <1>3

\* What the user does.
LEMMA UserUse ==
    ASSUME Sound, Sound', Startups, LocalUse, Shaped, User
    PROVE  Gentle \/ (Startups' /\ LocalUse')
<1>1. ASSUME NEW o \in Remote, NEW invited \in BOOLEAN, ConnectRemote(o, invited) PROVE Gentle
    BY <1>1, UntouchedSpares DEF ConnectRemote, Gentle, Untouched, backendVars
<1>2. CASE StartLocal
    <2>1. PICK want : StartsLocal(want, box)
        BY <1>2 DEF StartLocal
    <2> QED BY <1>2, <2>1, SoundStartLocal, StartsUse DEF StartLocal
<1>3. CASE Disconnect
    BY <1>3, UntouchedSpares, Attending DEF Disconnect, Gentle, Untouched, backendVars
<1>4. CASE Remember
    BY <1>4, UntouchedSpares DEF Remember, Gentle, Untouched, backendVars
<1> QED BY <1>1, <1>2, <1>3, <1>4 DEF User

\* What a window does with an attempt or with the session it uses.
LEMMA AttemptUse ==
    ASSUME Sound, NEW w \in Window,
           \/ HealthAnswered(w) \/ AccessAnswered(w) \/ AccessHandled(w) \/ ApiHandled(w)
           \/ ProbeLost(w) \/ PairingClaimed(w) \/ PairingHandled(w) \/ ApiRefused(w)
           \/ Started \/ SendRegister \/ PollAnswered \/ PollMissed
    PROVE  Gentle
<1>1. CASE HealthAnswered(w)
    BY <1>1, UntouchedSpares, Attending
       DEF HealthAnswered, Gentle, Untouched, backendVars, onlyWin, mainVars, attemptFrame
<1>2. CASE AccessAnswered(w) \/ ApiRefused(w)
    BY <1>2, UntouchedSpares
       DEF AccessAnswered, ApiRefused, Gentle, Untouched, backendVars, mainVars
<1>3. CASE AccessHandled(w) \/ ApiHandled(w)
    BY <1>3, UntouchedSpares, Attending
       DEF AccessHandled, ApiHandled, Gentle, Untouched, backendVars, attemptFrame
<1>4. CASE ProbeLost(w) \/ PairingHandled(w)
    BY <1>4, UntouchedSpares, Attending
       DEF ProbeLost, PairingHandled, Gentle, Untouched, backendVars, onlyWin, mainVars, attemptFrame
<1>5. CASE PairingClaimed(w)
    <2>1. win[w].att.url \in Remote
        BY <1>5, Working DEF PairingClaimed, Step, AnyBackend
    <2>2. Untouched
        BY <1>5, <2>1, IssuedElsewhere DEF PairingClaimed
    <2> QED BY <1>5, <2>2, UntouchedSpares DEF PairingClaimed, Gentle, mainVars
<1>6. CASE Started \/ SendRegister \/ PollMissed
    BY <1>6, UntouchedSpares
       DEF Started, SendRegister, PollMissed, Gentle, Untouched, backendVars, onlyWin, mainVars
<1>7. CASE PollAnswered
    BY <1>7, UntouchedSpares, Attending DEF PollAnswered, Gentle, Untouched, backendVars, mainVars
<1> QED BY <1>1, <1>2, <1>3, <1>4, <1>5, <1>6, <1>7

\* What becomes of a registration, and what the backends do.
LEMMA BackendUse ==
    ASSUME Sound,
           \/ \E p \in posts : ServerRegisters(p) \/ RegisterAnswered(p) \/ RegisterTimesOut(p)
           \/ \E o \in Origin : LateRegister(o) \/ Revoke(o)
    PROVE  Gentle
<1>0. Local \in Origin /\ late \in [Origin -> {"no", "may", "did"}] /\ valid \in [Origin -> Nat]
    BY Origins DEF Sound, BackendsOK
<1>1. ASSUME NEW p \in posts, ServerRegisters(p) PROVE Gentle
    <2>1. p.url \in Remote
        BY DEF Sound, PostsOK, Post
    <2>2. Untouched
        BY <1>1, <2>1, IssuedElsewhere DEF ServerRegisters, Untouched
    <2> QED BY <1>1, <2>2, UntouchedSpares DEF ServerRegisters, Gentle, mainVars
<1>2. ASSUME NEW p \in posts, RegisterAnswered(p) PROVE Gentle
    BY <1>2, UntouchedSpares DEF RegisterAnswered, Gentle, Untouched, backendVars, mainVars
<1>3. ASSUME NEW p \in posts, RegisterTimesOut(p) PROVE Gentle
    <2>1. p.url # Local
        BY ConnectionAssumption DEF Sound, PostsOK, Post
    <2>2. Untouched
        BY <1>0, <1>3, <2>1 DEF RegisterTimesOut, Untouched
    <2> QED BY <1>3, <2>2, UntouchedSpares, Attending DEF RegisterTimesOut, Gentle
<1>4. ASSUME NEW o \in Origin, LateRegister(o) PROVE Gentle
    <2>1. CASE o = Local
        <3>1. late'[Local] = "did"
            BY <1>0, <1>4, <2>1 DEF LateRegister
        <3> QED BY <1>4, <3>1 DEF LateRegister, Gentle, Spares, Kept, mainVars
    <2>2. CASE o # Local
        <3>1. o \in Remote /\ late'[Local] = late[Local]
            BY <1>0, <1>4, <2>2 DEF LateRegister, Origin
        <3>2. Untouched
            BY <1>4, <3>1, IssuedElsewhere DEF LateRegister
        <3> QED BY <1>4, <3>2, UntouchedSpares DEF LateRegister, Gentle, mainVars
    <2> QED BY <2>1, <2>2
<1>5. ASSUME NEW o \in Origin, Revoke(o) PROVE Gentle
    <2>1. valid'[Local] \in {0, valid[Local]} /\ late' = late
        BY <1>0, <1>5 DEF Revoke
    <2> QED BY <1>5, <2>1 DEF Revoke, Gentle, Spares, Kept, mainVars
<1> QED BY <1>1, <1>2, <1>3, <1>4, <1>5

\* What a window receives or reads, and windows that leave.
LEMMA WindowUse ==
    ASSUME Sound, Sound', Startups, LocalUse, Shaped, NEW w \in Window,
           Receive(w) \/ Load(w) \/ Leave(w)
    PROVE  Gentle \/ (Startups' /\ LocalUse')
<1>0. Main \in Window /\ box \in Boxes
    BY Origins DEF Sound, MailOK
<1>1. CASE Receive(w)
    <2>1. PICK m, b : m = Head(box[w]) /\ b = [box EXCEPT ![w] = Tail(@)]
        OBVIOUS
    <2>2. UNCHANGED backendVars /\ box[w] # <<>>
        BY <1>1 DEF Receive
    <2>3. CASE m.kind = "snapshot" /\ Hydrate(w, m.snap, b) /\ UNCHANGED <<flight, flights>>
        <3>1. m \in Mail(box[w])
            BY <1>0, <2>1, <2>2, MailTail DEF Boxes
        <3>2. ~ (w = Main /\ m.snap.phase = "pending")
            BY <2>3, <3>1 DEF Sound, MailOK
        <3>3. calls' = calls
            BY <2>3, <3>2 DEF Hydrate
        <3> QED BY <2>2, <2>3, <3>3, UntouchedSpares DEF Gentle, Untouched, backendVars
    <2>4. CASE /\ m.kind = "local" /\ calls' = calls
               /\ \/ UNCHANGED <<flight, flights>>
                  \/ Block(Main, b) \/ Activate(Main, m.token, FALSE, m.want, b)
        BY <2>2, <2>4, UntouchedSpares, Attending DEF Gentle, Untouched, backendVars
    <2>5. \/ m.kind = "snapshot" /\ Hydrate(w, m.snap, b) /\ UNCHANGED <<flight, flights>>
          \/ /\ m.kind = "local" /\ calls' = calls
             /\ \/ UNCHANGED <<flight, flights>>
                \/ Block(Main, b) \/ Activate(Main, m.token, FALSE, m.want, b)
        BY <1>1, <2>1 DEF Receive
    <2> QED BY <2>3, <2>4, <2>5
<1>2. CASE Load(w)
    <2>0. UNCHANGED <<backendVars, flight, flights>>
        BY <1>2 DEF Load
    <2>1. CASE calls' = calls
        BY <2>0, <2>1, UntouchedSpares DEF Gentle, Untouched, backendVars
    <2>2. CASE calls' # calls
        <3>1. /\ w = Main /\ ~ open[Main] /\ open'[Main]
              /\ \E want : StartsLocal(want, box)
            <4>1. Main \in Window /\ ~ open[w] /\ open'[w]
                BY <1>0, <1>2 DEF Load, Sound, AskedOK
            <4> QED BY <1>2, <2>2, <4>1 DEF Load, Hydrate
        <3>2. PICK want : StartsLocal(want, box)
            BY <3>1
        <3>3. Asks
            <4>1. ASSUME NEW sn \in Session, Follows(w, sn) PROVE FALSE
                <5>1. snap'.rev = snap.rev
                    BY <4>1 DEF Follows, SameSession
                <5>2. snap'.rev = snap.rev + 1 /\ snap.rev \in Nat
                    BY <3>2, Revisions DEF StartsLocal, Begin, Begun
                <5> QED BY <5>1, <5>2
            <4> QED BY <1>2, <4>1, SoundLoad, Revisions
        <3> QED BY <2>0, <3>2, <3>3, StartsUse
    <2> QED BY <2>1, <2>2
<1>3. CASE Leave(w)
    <2>1. late'[Local] = late[Local]
        <3>1. ~ Abandoned(Local) /\ Local \in Origin
            BY Origins, ConnectionAssumption DEF Abandoned, Sound, PostsOK, Post
        <3> QED BY <1>3, <3>1 DEF Leave
    <2> QED BY <1>3, <2>1, UntouchedSpares DEF Leave, Gentle, Untouched
<1> QED BY <1>1, <1>2, <1>3

\* A local() call arrives, waits or returns.
LEMMA CallUse ==
    ASSUME Sound, Sound', Startups, LocalUse, Shaped, NEW c \in calls,
           LocalArrives(c) \/ LocalWaited(c) \/ LocalReturns(c)
    PROVE  Gentle \/ (Startups' /\ LocalUse')
<1>0. snap \in Session /\ (snap.phase = "pending" => gen > 0)
    BY SessionFields DEF Sound, SnapOK
<1>1. CASE LocalReturns(c)
    BY <1>1, UntouchedSpares DEF LocalReturns, Gentle, Untouched, backendVars
<1>2. CASE (LocalArrives(c) \/ LocalWaited(c)) /\ Refused(c)
    BY <1>2, UntouchedSpares
       DEF LocalArrives, LocalWaited, Refused, Gentle, Untouched, backendVars
<1>3. ASSUME LocalArrives(c) \/ LocalWaited(c), ~ Refused(c), NEW d, d.rev = c.rev,
             calls' = (calls \ {c}) \cup {d},
             \/ flight' = flight /\ flights' = flights
             \/ Joins(c, gen) /\ (flight \in {0, gen} \/ Settled(flight))
      PROVE  Startups' /\ LocalUse'
    <2>1. c.rev = snap.rev /\ snap.phase = "pending"
        BY <1>3 DEF LocalArrives, LocalWaited, Sound, CallsOK, CallOK
    <2>2. snap'.rev = snap.rev /\ snap'.token = snap.token
        BY <1>0, <1>3, <2>1, PendingSession DEF LocalArrives, LocalWaited
    <2>3. win' = win /\ box' = box /\ gen' = gen /\ Untouched
        BY <1>3 DEF LocalArrives, LocalWaited, Untouched, backendVars
    <2>4. \/ flight' = flight /\ flights' = flights
          \/ /\ flight \in {0, gen} \/ Settled(flight)
             /\ flight' = gen
             /\ \/ flights' = flights
                \/ /\ \A f \in flights : f.gen # gen
                   /\ flights' = {f \in flights : ~ Settled(f.gen)}
                                   \cup {[gen |-> gen, st |-> "start", token |-> NoToken]}
        BY <1>3 DEF Joins
    <2> QED BY <1>0, <1>3, <2>1, <2>2, <2>3, <2>4, JoinUse
<1>4. ASSUME NEW st, NEW d, d = [c EXCEPT !.gen = gen, !.st = st] PROVE d.rev = c.rev
    <2>1. c \in Call
        BY DEF Sound, CallsOK, CallOK
    <2> QED BY <1>4, <2>1 DEF Call
<1>5. CASE LocalArrives(c) /\ ~ Refused(c)
    <2>1. CASE OlderStartup
        <3>1. PICK d : d = [c EXCEPT !.gen = gen, !.st = "waits"]
            OBVIOUS
        <3>2. calls' = (calls \ {c}) \cup {d} /\ flight' = flight /\ flights' = flights
            BY <1>5, <2>1, <3>1 DEF LocalArrives
        <3> QED BY <1>3, <1>4, <1>5, <3>1, <3>2
    <2>2. CASE ~ OlderStartup
        <3>1. PICK d : d = [c EXCEPT !.gen = gen, !.st = "joined"]
            OBVIOUS
        <3>2. Joins(c, gen) /\ calls' = (calls \ {c}) \cup {d}
            BY <1>5, <2>2, <3>1 DEF LocalArrives, Joins
        <3>3. flight \in {0, gen}
            BY <2>2 DEF OlderStartup
        <3> QED BY <1>3, <1>4, <1>5, <3>1, <3>2, <3>3
    <2> QED BY <2>1, <2>2
<1>6. CASE LocalWaited(c) /\ ~ Refused(c)
    <2>1. PICK d : d = [c EXCEPT !.gen = gen, !.st = "joined"]
        OBVIOUS
    <2>2. gen = c.gen /\ Joins(c, gen) /\ calls' = (calls \ {c}) \cup {d}
        BY <1>6, <2>1 DEF LocalWaited, Joins
    <2>3. flight \in {0, gen} \/ Settled(flight)
        BY <1>6, <2>2 DEF LocalWaited
    <2> QED BY <1>3, <1>4, <1>6, <2>1, <2>2, <2>3
<1> QED BY <1>1, <1>2, <1>5, <1>6

\* The local startup moves or fails.
LEMMA FlightUse ==
    ASSUME Sound, Sound', Startups, LocalUse, NEW f \in flights, FlightMoves(f) \/ FlightFails(f)
    PROVE  Startups' /\ LocalUse'
<1>0. /\ f \in LocalStartup /\ Local \in Origin /\ NoToken \in Token
      /\ f.gen \in Nat \ {0} /\ f.st \in {"start", "health", "post", "posted", "ok", "failed"}
    BY Origins DEF Sound, FlightsOK, LocalStartup, Startup
<1>1. /\ win' = win /\ box' = box /\ snap' = snap /\ gen' = gen /\ flight' = flight
      /\ calls' = calls
    BY DEF FlightMoves, FlightFails
<1>3. CASE FlightFails(f)
    <2>1. PICK g : g = [f EXCEPT !.st = "failed"]
        OBVIOUS
    <2>2. g.gen = f.gen /\ g.st = "failed"
        BY <1>0, <2>1 DEF LocalStartup, Startup
    <2>3. f.st \notin {"ok", "failed"} /\ flights' = (flights \ {f}) \cup {g}
        BY <1>3, <2>1 DEF FlightFails
    <2> QED BY <1>1, <2>2, <2>3, MoveUse
<1>4. CASE FlightMoves(f) /\ f.st \in {"start", "health"}
    <2>1. PICK st \in {"failed", "health", "post"} :
              flights' = (flights \ {f}) \cup {[f EXCEPT !.st = st, !.token = NoToken]}
        BY <1>4 DEF FlightMoves
    <2>2. PICK g : g = [f EXCEPT !.st = st, !.token = NoToken]
        OBVIOUS
    <2>3. g.gen = f.gen /\ g.st \notin {"posted", "ok"}
        BY <1>0, <2>2 DEF LocalStartup, Startup
    <2>4. f.st \notin {"ok", "failed"} /\ flights' = (flights \ {f}) \cup {g}
        BY <1>4, <2>1, <2>2
    <2> QED BY <1>1, <2>3, <2>4, MoveUse
<1>5. CASE FlightMoves(f) /\ f.st = "post"
    <2>1. PICK t : t = [url |-> Local, n |-> issued'[Local]]
        OBVIOUS
    <2>2. Issue(Local) /\ flights' = (flights \ {f}) \cup {[f EXCEPT !.st = "posted", !.token = t]}
        BY <1>5, <2>1 DEF FlightMoves
    <2>3. t.url = Local /\ t.n = issued'[Local] /\ valid'[Local] = issued'[Local]
        BY <1>0, <2>1, <2>2 DEF Issue, Sound, BackendsOK
    <2>4. PICK g : g = [f EXCEPT !.st = "posted", !.token = t]
        OBVIOUS
    <2>5. g.gen = f.gen /\ g.token = t
        BY <1>0, <2>4 DEF LocalStartup, Startup
    <2>6. g.token.url = Local /\ Kept(g.token)'
        BY <2>3, <2>5 DEF Kept
    <2>7. f.st \notin {"ok", "failed"} /\ flights' = (flights \ {f}) \cup {g}
        BY <1>5, <2>2, <2>4
    <2> QED BY <1>1, <2>5, <2>6, <2>7, MoveUse
<1>6. CASE FlightMoves(f) /\ f.st = "posted"
    <2>1. PICK st \in {"ok", "failed"} :
              flights' = (flights \ {f}) \cup {[f EXCEPT !.st = st, !.token = f.token]}
        BY <1>6 DEF FlightMoves
    <2>2. PICK g : g = [f EXCEPT !.st = st, !.token = f.token]
        OBVIOUS
    <2>3. g.gen = f.gen /\ g.st = st /\ g.token = f.token
        BY <1>0, <2>2 DEF LocalStartup, Startup
    <2>4. UNCHANGED <<valid, late>>
        BY <1>6 DEF FlightMoves
    <2>5. g.gen = gen => g.token.url = Local /\ Kept(g.token)'
        BY <1>6, <2>3, <2>4 DEF LocalUse, Kept
    <2>6. f.st \notin {"ok", "failed"} /\ flights' = (flights \ {f}) \cup {g}
        BY <1>6, <2>1, <2>2
    <2> QED BY <1>1, <2>3, <2>5, <2>6, MoveUse
<1> QED BY <1>3, <1>4, <1>5, <1>6 DEF FlightMoves

\* Any step keeps what is in use.
LEMMA LocalUseNext ==
    ASSUME Sound, Startups, LocalUse, [Next]_vars PROVE Startups' /\ LocalUse'
<1>0. Sound' /\ Shaped
    BY SoundNext
<1>1. CASE Restart
    BY <1>1, SoundRestart, RestartUse
<1>2. CASE Restarts
    BY <1>2, RestartUse
<1>3. ASSUME Gentle, ~ Restarts PROVE Startups' /\ LocalUse'
    BY <1>0, <1>3, Counting, StartupsKept, UseKept
<1>4. CASE User
    BY <1>0, <1>2, <1>3, <1>4, UserUse
<1>5. ASSUME NEW w \in Window, Receive(w) \/ Load(w) \/ Leave(w) PROVE Startups' /\ LocalUse'
    BY <1>0, <1>2, <1>3, <1>5, WindowUse
<1>6. ASSUME NEW c \in calls, LocalArrives(c) \/ LocalWaited(c) \/ LocalReturns(c)
      PROVE  Startups' /\ LocalUse'
    BY <1>0, <1>2, <1>3, <1>6, CallUse
<1>7. ASSUME NEW f \in flights, FlightMoves(f) \/ FlightFails(f) PROVE Startups' /\ LocalUse'
    BY <1>0, <1>7, FlightUse
<1>8. ASSUME \/ \E p \in posts : ServerRegisters(p) \/ RegisterAnswered(p) \/ RegisterTimesOut(p)
             \/ \E o \in Origin : LateRegister(o) \/ Revoke(o)
      PROVE  Startups' /\ LocalUse'
    BY <1>2, <1>3, <1>8, BackendUse
<1>9. ASSUME NEW w \in Window,
             \/ HealthAnswered(w) \/ AccessAnswered(w) \/ AccessHandled(w) \/ ApiHandled(w)
             \/ ProbeLost(w) \/ PairingClaimed(w) \/ PairingHandled(w) \/ ApiRefused(w)
             \/ Started \/ SendRegister \/ PollAnswered \/ PollMissed
      PROVE  Startups' /\ LocalUse'
    BY <1>2, <1>3, <1>9, AttemptUse
<1>10. CASE UNCHANGED vars
    <2>1. Gentle
        BY <1>10, UntouchedSpares DEF vars, Gentle, Untouched
    <2> QED BY <1>2, <1>3, <2>1
<1>11. Main \in Window
    BY Origins
<1> QED BY <1>1, <1>4, <1>5, <1>6, <1>7, <1>8, <1>9, <1>10, <1>11 DEF Next, System, Environment

\* The app never makes the credential of its own local session invalid: it is the last one the
\* local backend issued, unless the device was revoked or a registration that the app had given
\* up was processed after all; for any windows, backends and bounds.
THEOREM LocalCredentialStays == Spec => []LocalCredentialKept
<1>1. ASSUME Init PROVE Startups /\ LocalUse
    <2>1. /\ snap.token = NoToken /\ win[Main].api = NoToken /\ win[Main].att.pc = "off"
          /\ Mail(box[Main]) = {} /\ flights = {} /\ calls = {}
        BY <1>1, Origins, BlankRenderer, MailEmpty DEF Init, Initial
    <2>2. \A t \in Token : ~ InUse(t)
        BY <2>1, Origins DEF InUse
    <2> QED BY <2>1, <2>2 DEF LocalUse, Startups
<1>2. ASSUME Sound, LocalUse PROVE LocalCredentialKept
    <2> SUFFICES ASSUME snap.phase = "connected", snap.url = Local
                 PROVE  valid[Local] \in {0, snap.token.n} \/ late[Local] = "did"
        BY DEF LocalCredentialKept
    <2>1. snap.token \in Token /\ snap.token.url = Local
        BY <1>2, Revisions, SessionFields
    <2>2. InUse(snap.token)
        BY <2>1 DEF InUse
    <2> QED BY <1>2, <2>1, <2>2 DEF LocalUse, Kept
<1> QED BY <1>1, <1>2, Soundness, LocalUseNext, PTL DEF Spec
=============================================================================
