------------------------- MODULE ComputerUse_proofs -------------------------
(***************************************************************************)
(* Proofs about ComputerUse: for any pages and scripts, whatever is        *)
(* cancelled, times out or is left in between, one script at a time        *)
(* controls the machine, and none whose run was answered; the machine's    *)
(* lease keeps the promise of MachineLease.                                *)
(***************************************************************************)
EXTENDS ComputerUse, SequenceTheorems, TLAPS

-----------------------------------------------------------------------------
(* The calls on their way from a page *)

Places(q) == 1..Len(q)
Ids(q) == {q[k][2] : k \in Places(q)}
Begins(q) == {q[k][2] : k \in {j \in Places(q) : q[j][1] = "begin"}}

\* The first call for a script asks for the machine, and none after it does.
BeginsFirst(q) ==
  \A j, k \in Places(q) : q[k][1] = "begin" /\ q[j][2] = q[k][2] => k <= j

LEMMA OnAppend ==
  ASSUME NEW T, NEW q \in Seq(T), NEW m \in T
  PROVE  /\ Ids(Append(q, m)) = Ids(q) \union {m[2]}
         /\ Begins(Append(q, m)) =
              IF m[1] = "begin" THEN Begins(q) \union {m[2]} ELSE Begins(q)
         /\ BeginsFirst(q) /\ (m[1] = "begin" => m[2] \notin Ids(q)) =>
              BeginsFirst(Append(q, m))
<1> DEFINE n == Len(q)
           r == Append(q, m)
<1>1. /\ n \in Nat /\ Len(r) = n + 1 /\ r[n + 1] = m
      /\ \A k \in 1..n : r[k] = q[k]
  BY AppendProperties
<1> HIDE DEF r, n
<1>2. Places(r) = Places(q) \union {n + 1} /\ Places(q) = 1..n
  BY <1>1 DEF Places, n
<1>3. Ids(r) = Ids(q) \union {m[2]}
  BY <1>1, <1>2 DEF Ids
<1>4. Begins(r) = IF m[1] = "begin" THEN Begins(q) \union {m[2]} ELSE Begins(q)
  BY <1>1, <1>2 DEF Begins
<1>5. ASSUME BeginsFirst(q), m[1] = "begin" => m[2] \notin Ids(q)
      PROVE  BeginsFirst(r)
  <2> SUFFICES ASSUME NEW j \in Places(r), NEW k \in Places(r),
                      r[k][1] = "begin", r[j][2] = r[k][2]
               PROVE  k <= j
    BY DEF BeginsFirst
  <2>1. CASE j \in 1..n /\ k \in 1..n
    BY <2>1, <1>1, <1>2, <1>5 DEF BeginsFirst
  <2>2. CASE j \in 1..n /\ k = n + 1
    BY <2>2, <1>1, <1>2, <1>5 DEF Ids
  <2>3. CASE j = n + 1
    BY <2>3, <1>1, <1>2
  <2> QED
    BY <1>2, <2>1, <2>2, <2>3
<1> QED
  BY <1>3, <1>4, <1>5 DEF r

LEMMA OnTail ==
  ASSUME NEW T, NEW q \in Seq(T), q # <<>>
  PROVE  /\ Head(q) \in T /\ Tail(q) \in Seq(T)
         /\ Ids(Tail(q)) \subseteq Ids(q) /\ Head(q)[2] \in Ids(q)
         /\ Begins(Tail(q)) \subseteq Begins(q)
         /\ Head(q)[1] = "begin" => Head(q)[2] \in Begins(q)
         /\ BeginsFirst(q) => BeginsFirst(Tail(q)) /\ Head(q)[2] \notin Begins(Tail(q))
<1> DEFINE n == Len(q)
           r == Tail(q)
<1>1. /\ n \in Nat \ {0} /\ Len(r) = n - 1 /\ Head(q) = q[1] /\ q[1] \in T /\ r \in Seq(T)
      /\ \A k \in 1..(n - 1) : r[k] = q[k + 1]
  BY EmptySeq, HeadTailProperties, ElementOfSeq
<1> HIDE DEF r, n
<1>2. Places(r) = 1..(n - 1) /\ Places(q) = 1..n /\ 1 \in 1..n
      /\ \A k \in 1..(n - 1) : k + 1 \in 1..n
  BY <1>1 DEF Places, n
<1>3. Ids(r) \subseteq Ids(q) /\ q[1][2] \in Ids(q)
  <2>1. ASSUME NEW k \in Places(r) PROVE r[k][2] \in Ids(q)
    <3>1. k + 1 \in Places(q) /\ r[k] = q[k + 1]
      BY <1>1, <1>2
    <3> QED
      BY <3>1 DEF Ids
  <2>2. q[1][2] \in Ids(q)
    BY <1>2 DEF Ids
  <2> QED
    BY <2>1, <2>2 DEF Ids
<1>4. Begins(r) \subseteq Begins(q) /\ (q[1][1] = "begin" => q[1][2] \in Begins(q))
  <2>1. ASSUME NEW k \in Places(r), r[k][1] = "begin" PROVE r[k][2] \in Begins(q)
    <3>1. k + 1 \in Places(q) /\ r[k] = q[k + 1]
      BY <1>1, <1>2
    <3> QED
      BY <2>1, <3>1 DEF Begins
  <2>2. q[1][1] = "begin" => q[1][2] \in Begins(q)
    BY <1>2 DEF Begins
  <2> QED
    BY <2>1, <2>2 DEF Begins
<1>5. ASSUME BeginsFirst(q) PROVE BeginsFirst(r) /\ q[1][2] \notin Begins(r)
  <2>1. BeginsFirst(r)
    <3> SUFFICES ASSUME NEW j \in 1..(n - 1), NEW k \in 1..(n - 1),
                        r[k][1] = "begin", r[j][2] = r[k][2]
                 PROVE  k <= j
      BY <1>2 DEF BeginsFirst
    <3>1. k + 1 <= j + 1
      BY <1>1, <1>2, <1>5 DEF BeginsFirst
    <3> QED
      BY <3>1, <1>1
  <2>2. ASSUME NEW k \in 1..(n - 1), r[k][1] = "begin", r[k][2] = q[1][2] PROVE FALSE
    <3>1. k + 1 <= 1
      BY <2>2, <1>1, <1>2, <1>5 DEF BeginsFirst
    <3> QED
      BY <3>1, <1>1
  <2> QED
    BY <2>1, <2>2, <1>2 DEF Begins
<1> QED
  BY <1>1, <1>3, <1>4, <1>5 DEF r

LEMMA BeginsAreIds == \A q : Begins(q) \subseteq Ids(q)
  BY DEF Begins, Ids

-----------------------------------------------------------------------------
(* The inductive invariant *)

\* A script's calls come in their order, so nothing asks for the machine again
\* once a script had it, has it, or was told that it has not.
CallsInOrder == \A c \in Clients : BeginsFirst(ipc[c])

\* What a page is doing, what it asked for and what it has, is its own.
Belongs(c) ==
  Ids(ipc[c]) \union {client[c].id} \union (IF lease.owner = c THEN {lease.id} ELSE {})
Separate == \A c, d \in Clients : c # d => Belongs(c) \cap Belongs(d) \subseteq {NoScript}

\* A page that was told its lease ended has none and asks for none.
EndedBy(c) == client[c].phase = "ending" /\ client[c].reply = "ended"
EndsAreFinal ==
  \A c \in Clients :
    EndedBy(c) => lease.id # client[c].id /\ client[c].id \notin Begins(ipc[c])

AskedOnce ==
  \A c \in Clients :
    lease.id \notin Begins(ipc[c]) /\ Begins(ipc[c]) \cap answered = {}

LeaseIsOpen == (lease.id \notin answered) /\ (lease.closing => lease.id # NoScript)

MachineInv ==
  /\ ComputerTypeOK /\ OneScriptControls
  /\ CallsInOrder /\ Separate /\ EndsAreFinal /\ AskedOnce /\ LeaseIsOpen

Active(i) == i \in calls \/ driver[i] \in {"checking", "creating", "live"}

\* What the type says, for the leaves that need no more of it.
LEMMA MachineTypeNow ==
  ASSUME ComputerTypeOK
  PROVE  /\ scripts \in Nat /\ scripts <= MaxScripts
         /\ client \in [Clients -> Pages] /\ ipc \in [Clients -> Seq(Messages)]
         /\ lease \in Leases /\ (lease.id # NoScript => lease.owner \in Clients)
         /\ driver \in [Scripts -> DriverStates]
         /\ \A c \in Clients : client[c].id = NoScript <=> client[c].phase = "idle"
         /\ aborted \union calls \union answered \subseteq 1..scripts
  BY DEF ComputerTypeOK

LEMMA IdsAreRun ==
  ASSUME ComputerTypeOK, NEW c \in Clients
  PROVE  /\ ipc[c] \in Seq(Messages)
         /\ Ids(ipc[c]) \subseteq 1..scripts /\ client[c].id \in 0..scripts
         /\ lease.id \in 0..scripts
<1>1. ipc[c] \in Seq(Messages) /\ client[c] \in Pages /\ lease \in Leases
  BY MachineTypeNow
<1>2. \A k \in Places(ipc[c]) : ipc[c][k] \in Messages
  BY <1>1, ElementOfSeq DEF Places
<1>3. \A k \in Places(ipc[c]) : ipc[c][k][2] \in 1..scripts
  BY <1>2 DEF Messages
<1> QED
  BY <1>1, <1>3 DEF Ids, Pages, Leases

LEMMA IdsAreScripts ==
  ASSUME MachineInv, NEW c \in Clients, NEW id \in Ids(ipc[c])
  PROVE  id \in 1..scripts /\ id \in Nat /\ id # NoScript /\ id \in Scripts
<1>1. id \in 1..scripts /\ scripts \in Nat /\ scripts <= MaxScripts
  BY IdsAreRun, MachineTypeNow DEF MachineInv
<1> QED
  BY <1>1, MaxScriptsAssumption DEF NoScript, Scripts

\* A step that begins no script, gives nobody the machine and answers no run.
LEMMA QuietStep ==
  ASSUME MachineInv, UNCHANGED <<scripts, answered>>,
         client' \in [Clients -> Pages], ipc' \in [Clients -> Seq(Messages)],
         lease' \in Leases, driver' \in [Scripts -> DriverStates],
         (aborted \union calls)' \subseteq 1..scripts,
         \A c \in Clients : client'[c].id = NoScript <=> client'[c].phase = "idle",
         \A c \in Clients : client'[c].id \in {client[c].id, NoScript},
         lease'.id \in {lease.id, NoScript},
         lease'.id # NoScript => lease'.owner = lease.owner,
         lease'.closing => lease'.id # NoScript,
         \A c \in Clients : /\ Ids(ipc'[c]) \subseteq Ids(ipc[c]) \union {client[c].id}
                            /\ Begins(ipc'[c]) \subseteq Begins(ipc[c])
                            /\ BeginsFirst(ipc'[c]),
         \A c \in Clients :
           client'[c].phase = "ending" /\ client'[c].reply = "ended" =>
             \/ EndedBy(c)
             \/ lease'.id # client[c].id /\ client[c].id \notin Begins(ipc'[c]),
         \A i \in Scripts :
           i \in calls' \/ driver'[i] \in {"checking", "creating", "live"} => lease'.id = i
  PROVE  MachineInv'
<1>1. ComputerTypeOK'
  <2>1. (aborted \union calls \union answered)' \subseteq 1..scripts
    BY DEF MachineInv, ComputerTypeOK
  <2>2. Pages' = Pages /\ Leases' = Leases /\ Messages' = Messages
    BY DEF Pages, Leases, Messages
  <2>3. lease'.id # NoScript => lease'.owner \in Clients
    BY MachineTypeNow DEF MachineInv
  <2>4. scripts \in 0..MaxScripts
    BY DEF MachineInv, ComputerTypeOK
  <2> QED
    BY <2>1, <2>2, <2>3, <2>4 DEF ComputerTypeOK
<1>2. OneScriptControls'
  BY DEF MachineInv, OneScriptControls, LeaseIsOpen, Scripts, NoScript
<1>3. CallsInOrder'
  BY DEF CallsInOrder
<1>4. Separate'
  <2>1. ASSUME NEW c \in Clients PROVE Belongs(c)' \subseteq Belongs(c) \union {NoScript}
    BY <2>1 DEF Belongs
  <2> QED
    BY <2>1 DEF MachineInv, Separate
<1>5. EndsAreFinal'
  <2> SUFFICES ASSUME NEW c \in Clients, EndedBy(c)'
               PROVE  lease'.id # client'[c].id /\ client'[c].id \notin Begins(ipc'[c])
    BY DEF EndsAreFinal
  <2>1. client'[c].phase = "ending" /\ client'[c].reply = "ended"
    BY DEF EndedBy
  <2>2. client'[c].id = client[c].id /\ client[c].id # NoScript
    BY <2>1
  <2>3. EndedBy(c) => lease.id # client[c].id /\ client[c].id \notin Begins(ipc[c])
    BY DEF MachineInv, EndsAreFinal
  <2> QED
    BY <2>1, <2>2, <2>3
<1>6. AskedOnce'
  <2> SUFFICES ASSUME NEW c \in Clients
               PROVE  lease'.id \notin Begins(ipc'[c]) /\ Begins(ipc'[c]) \cap answered = {}
    BY DEF AskedOnce
  <2>1. NoScript \notin Begins(ipc[c])
    BY IdsAreRun, BeginsAreIds, MachineTypeNow DEF MachineInv, NoScript
  <2> QED
    BY <2>1 DEF MachineInv, AskedOnce
<1>7. LeaseIsOpen'
  <2>1. NoScript \notin answered
    BY MachineTypeNow DEF MachineInv, NoScript
  <2> QED
    BY <2>1 DEF MachineInv, LeaseIsOpen
<1> QED
  BY <1>1, <1>2, <1>3, <1>4, <1>5, <1>6, <1>7 DEF MachineInv

-----------------------------------------------------------------------------
(* The page's steps *)

LEMMA MachineInit == ComputerInit => MachineInv
<1> SUFFICES ASSUME ComputerInit PROVE MachineInv
  OBVIOUS
<1>1. /\ scripts = 0 /\ lease = NoLease /\ aborted = {} /\ calls = {} /\ answered = {}
      /\ \A c \in Clients : client[c] = NoClient /\ ipc[c] = <<>>
      /\ \A i \in Scripts : driver[i] = "none"
  BY DEF ComputerInit
<1>2. ComputerTypeOK
  <2>1. client \in [Clients -> Pages]
    BY DEF ComputerInit, Pages, NoClient, NoScript
  <2>2. ipc \in [Clients -> Seq(Messages)]
    BY DEF ComputerInit
  <2>3. lease \in Leases /\ lease.id = NoScript
    BY <1>1 DEF Leases, NoLease, NoScript
  <2>4. driver \in [Scripts -> DriverStates]
    BY DEF ComputerInit, DriverStates
  <2>5. \A c \in Clients : client[c].id = NoScript <=> client[c].phase = "idle"
    BY <1>1 DEF NoClient
  <2> QED
    BY <1>1, <2>1, <2>2, <2>3, <2>4, <2>5, MaxScriptsAssumption DEF ComputerTypeOK
<1>3. \A c \in Clients : Ids(ipc[c]) = {} /\ Begins(ipc[c]) = {} /\ BeginsFirst(ipc[c])
  <2>1. Places(<<>>) = {}
    BY DEF Places
  <2> QED
    BY <1>1, <2>1 DEF Ids, Begins, BeginsFirst
<1>4. OneScriptControls
  BY <1>1 DEF OneScriptControls
<1>5. CallsInOrder /\ Separate /\ EndsAreFinal /\ AskedOnce /\ LeaseIsOpen
  BY <1>1, <1>3
  DEF CallsInOrder, Separate, Belongs, EndsAreFinal, EndedBy, AskedOnce, LeaseIsOpen, NoClient, NoLease
<1> QED
  BY <1>2, <1>4, <1>5 DEF MachineInv

\* What a call of the page adds to those on their way.
LEMMA SentAdds ==
  ASSUME MachineInv, NEW c \in Clients, client[c].id # NoScript,
         NEW m \in {"call", "cancel", "end"}, Sent(c, m)
  PROVE  /\ ipc' \in [Clients -> Seq(Messages)]
         /\ \A d \in Clients : /\ Ids(ipc'[d]) \subseteq Ids(ipc[d]) \union {client[d].id}
                               /\ Begins(ipc'[d]) \subseteq Begins(ipc[d])
                               /\ BeginsFirst(ipc'[d])
<1> DEFINE call == <<m, client[c].id>>
           q == Append(ipc[c], call)
<1>1. /\ ipc \in [Clients -> Seq(Messages)] /\ BeginsFirst(ipc[c])
      /\ \A d \in Clients : BeginsFirst(ipc[d])
  BY DEF MachineInv, ComputerTypeOK, CallsInOrder
<1>2. client[c].id \in 1..scripts
  BY IdsAreRun, MachineTypeNow DEF MachineInv, NoScript
<1>3. call \in Messages /\ call[1] = m /\ call[2] = client[c].id /\ m # "begin"
  BY <1>2 DEF Messages
<1>4. ipc' = [ipc EXCEPT ![c] = q]
  BY DEF Sent
<1> HIDE DEF call
<1>5. /\ q \in Seq(Messages) /\ Ids(q) = Ids(ipc[c]) \union {client[c].id}
      /\ Begins(q) = Begins(ipc[c]) /\ BeginsFirst(q)
  BY <1>1, <1>3, OnAppend, AppendProperties
<1> HIDE DEF q
<1> QED
  BY <1>1, <1>4, <1>5

\* Calls that stay on their way stay as they were.
LEMMA KeptCalls ==
  ASSUME MachineInv, UNCHANGED ipc
  PROVE  /\ ipc' \in [Clients -> Seq(Messages)]
         /\ \A d \in Clients : /\ Ids(ipc'[d]) \subseteq Ids(ipc[d]) \union {client[d].id}
                               /\ Begins(ipc'[d]) \subseteq Begins(ipc[d])
                               /\ BeginsFirst(ipc'[d])
  BY DEF MachineInv, ComputerTypeOK, CallsInOrder

\* A page that goes on with its script, and may call the main process.
LEMMA PageStep ==
  ASSUME MachineInv, NEW c \in Clients, client[c].id # NoScript,
         NEW page \in Pages, page.id = client[c].id, page.phase # "idle",
         page.phase = "ending" /\ page.reply = "ended" => EndedBy(c),
         client' = [client EXCEPT ![c] = page],
         UNCHANGED ipc \/ \E m \in {"call", "cancel", "end"} : Sent(c, m),
         UNCHANGED <<scripts, mainVars, answered>>
  PROVE  MachineInv'
<1>1. /\ ipc' \in [Clients -> Seq(Messages)]
      /\ \A d \in Clients : /\ Ids(ipc'[d]) \subseteq Ids(ipc[d]) \union {client[d].id}
                            /\ Begins(ipc'[d]) \subseteq Begins(ipc[d])
                            /\ BeginsFirst(ipc'[d])
  BY SentAdds, KeptCalls
<1>2. UNCHANGED <<scripts, answered, lease, driver, aborted, calls>>
  BY DEF mainVars
<1>3. client \in [Clients -> Pages]
  BY MachineTypeNow DEF MachineInv
<1>4. client' \in [Clients -> Pages] /\ client'[c] = page
      /\ \A d \in Clients : d # c => client'[d] = client[d]
  BY <1>3
<1>5. /\ \A d \in Clients : client'[d].id = NoScript <=> client'[d].phase = "idle"
      /\ \A d \in Clients : client'[d].id \in {client[d].id, NoScript}
      /\ \A d \in Clients : client'[d].phase = "ending" /\ client'[d].reply = "ended" => EndedBy(d)
  BY <1>4, MachineTypeNow DEF MachineInv, EndedBy
<1>6. /\ lease' \in Leases /\ driver' \in [Scripts -> DriverStates]
      /\ (aborted \union calls)' \subseteq 1..scripts
      /\ lease'.id = lease.id /\ lease'.owner = lease.owner
      /\ lease'.closing => lease'.id # NoScript
  BY <1>2, MachineTypeNow DEF MachineInv, LeaseIsOpen
<1>7. \A i \in Scripts :
        i \in calls' \/ driver'[i] \in {"checking", "creating", "live"} => lease'.id = i
  BY <1>2 DEF MachineInv, OneScriptControls
<1> QED
  BY <1>1, <1>2, <1>4, <1>5, <1>6, <1>7, QuietStep

\* What a change of a page leaves of it.
LEMMA PageFields ==
  ASSUME NEW r \in Pages
  PROVE  /\ [r EXCEPT !.cancelled = TRUE] \in Pages
         /\ [r EXCEPT !.cancelled = TRUE].id = r.id
         /\ [r EXCEPT !.cancelled = TRUE].phase = r.phase
         /\ [r EXCEPT !.cancelled = TRUE].reply = r.reply
         /\ [r EXCEPT !.acting = TRUE] \in Pages
         /\ [r EXCEPT !.acting = TRUE].id = r.id
         /\ [r EXCEPT !.acting = TRUE].phase = r.phase
         /\ [r EXCEPT !.acting = TRUE].reply = r.reply
  BY DEF Pages

LEMMA EndingInv ==
  ASSUME MachineInv, NEW c \in Clients, client[c].id # NoScript, Ending(c),
         UNCHANGED <<scripts, mainVars, answered>>
  PROVE  MachineInv'
<1> DEFINE page == [client[c] EXCEPT !.phase = "ending", !.reply = "none", !.acting = FALSE]
<1>1. client[c] \in Pages /\ client \in [Clients -> Pages]
  BY MachineTypeNow DEF MachineInv
<1>2. page \in Pages /\ page.id = client[c].id /\ page.phase = "ending" /\ page.reply = "none"
  BY <1>1 DEF Pages
<1>3. client' = [client EXCEPT ![c] = page]
  BY <1>1 DEF Ending
<1>4. Sent(c, "end")
  BY DEF Ending
<1> HIDE DEF page
<1> QED
  BY <1>2, <1>3, <1>4, PageStep

\* A page with something to do has a script.
LEMMA BusyHasScript ==
  ASSUME MachineInv, NEW c \in Clients, client[c].phase # "idle"
  PROVE  client[c].id # NoScript /\ client[c] \in Pages /\ client \in [Clients -> Pages]
  BY MachineTypeNow DEF MachineInv

LEMMA BeginAnsweredInv == ASSUME MachineInv, NEW c \in Clients, BeginAnswered(c) PROVE MachineInv'
<1>1. client[c].phase = "beginning" /\ UNCHANGED <<scripts, mainVars, answered>>
  BY DEF BeginAnswered
<1>2. client[c].id # NoScript /\ client[c] \in Pages /\ client \in [Clients -> Pages]
  BY <1>1, BusyHasScript
<1>3. CASE Ending(c)
  BY <1>1, <1>2, <1>3, EndingInv
<1>4. CASE ~Ending(c)
  <2> DEFINE page == [client[c] EXCEPT !.phase = "running", !.reply = "none"]
  <2>1. page \in Pages /\ page.id = client[c].id /\ page.phase = "running"
    BY <1>2 DEF Pages
  <2>2. client' = [client EXCEPT ![c] = page] /\ UNCHANGED ipc
    BY <1>2, <1>4 DEF BeginAnswered
  <2> HIDE DEF page
  <2> QED
    BY <1>1, <1>2, <2>1, <2>2, PageStep
<1> QED
  BY <1>3, <1>4

LEMMA ActInv == ASSUME MachineInv, NEW c \in Clients, Act(c) PROVE MachineInv'
<1> DEFINE page == [client[c] EXCEPT !.acting = TRUE]
<1>1. client[c].id # NoScript /\ client[c] \in Pages /\ client \in [Clients -> Pages]
      /\ client[c].phase = "running"
  BY BusyHasScript DEF Act
<1>2. client' = [client EXCEPT ![c] = page]
  BY <1>1 DEF Act
<1>3. page \in Pages /\ page.id = client[c].id /\ page.phase = "running"
  BY <1>1, PageFields
<1>4. Sent(c, "call") /\ UNCHANGED <<scripts, mainVars, answered>>
  BY DEF Act
<1> HIDE DEF page
<1> QED
  BY <1>1, <1>2, <1>3, <1>4, PageStep

LEMMA ScriptEndsInv == ASSUME MachineInv, NEW c \in Clients, ScriptEnds(c) PROVE MachineInv'
<1>1. client[c].phase = "running" /\ Ending(c) /\ UNCHANGED <<scripts, mainVars, answered>>
  BY DEF ScriptEnds
<1> QED
  BY <1>1, BusyHasScript, EndingInv

LEMMA CancelledInv ==
  ASSUME MachineInv, NEW c \in Clients, client[c].phase # "idle",
         client' = [client EXCEPT ![c].cancelled = TRUE],
         UNCHANGED ipc \/ Sent(c, "cancel"),
         UNCHANGED <<scripts, mainVars, answered>>
  PROVE  MachineInv'
<1> DEFINE page == [client[c] EXCEPT !.cancelled = TRUE]
<1>1. client[c].id # NoScript /\ client[c] \in Pages /\ client \in [Clients -> Pages]
  BY BusyHasScript
<1>2. client' = [client EXCEPT ![c] = page]
  BY <1>1
<1>3. /\ page \in Pages /\ page.id = client[c].id /\ page.phase = client[c].phase
      /\ page.reply = client[c].reply
  BY <1>1, PageFields
<1> HIDE DEF page
<1>4. page.phase = "ending" /\ page.reply = "ended" => EndedBy(c)
  BY <1>3 DEF EndedBy
<1> QED
  BY <1>1, <1>2, <1>3, <1>4, PageStep

LEMMA CancelScriptInv == ASSUME MachineInv, NEW c \in Clients, CancelScript(c) PROVE MachineInv'
  BY CancelledInv DEF CancelScript

LEMMA ScriptTimeoutInv == ASSUME MachineInv, NEW c \in Clients, ScriptTimeout(c) PROVE MachineInv'
  BY CancelledInv DEF ScriptTimeout

-----------------------------------------------------------------------------
(* The steps of the main process that give nobody the machine *)

\* A page is told something, or not.
LEMMA RepliedKeeps ==
  ASSUME MachineInv, NEW c \in Clients, NEW id, NEW reply \in {"none", "ok", "failed", "ended"},
         Replied(c, id, reply)
  PROVE  /\ client' \in [Clients -> Pages]
         /\ \A d \in Clients : client'[d].id = client[d].id /\ client'[d].phase = client[d].phase
         /\ \A d \in Clients :
              client'[d].phase = "ending" /\ client'[d].reply = "ended" =>
                EndedBy(d) \/ (d = c /\ client[c].id = id /\ reply = "ended")
<1>1. client \in [Clients -> Pages]
  BY MachineTypeNow DEF MachineInv
<1>2. CASE client[c].id = id
  <2> DEFINE page == [client[c] EXCEPT !.reply = reply]
  <2>1. client' = [client EXCEPT ![c] = page]
    BY <1>1, <1>2 DEF Replied
  <2>2. page \in Pages /\ page.id = client[c].id /\ page.phase = client[c].phase
        /\ page.reply = reply
    BY <1>1 DEF Pages
  <2> HIDE DEF page
  <2> QED
    BY <1>1, <1>2, <2>1, <2>2 DEF EndedBy
<1>3. CASE client[c].id # id
  BY <1>1, <1>3 DEF Replied, EndedBy
<1> QED
  BY <1>2, <1>3

LEMMA UnchangedClient ==
  ASSUME MachineInv, UNCHANGED client
  PROVE  /\ client' \in [Clients -> Pages]
         /\ \A d \in Clients : client'[d].id = client[d].id /\ client'[d].phase = client[d].phase
         /\ \A d \in Clients :
              client'[d].phase = "ending" /\ client'[d].reply = "ended" => EndedBy(d)
  BY MachineTypeNow DEF MachineInv, EndedBy

\* A page learns that its action ended.
LEMMA ActingEnds ==
  ASSUME MachineInv, NEW S, client' = [c \in Clients |->
            IF c \in S THEN [client[c] EXCEPT !.acting = FALSE] ELSE client[c]]
  PROVE  /\ client' \in [Clients -> Pages]
         /\ \A d \in Clients : client'[d].id = client[d].id /\ client'[d].phase = client[d].phase
         /\ \A d \in Clients :
              client'[d].phase = "ending" /\ client'[d].reply = "ended" => EndedBy(d)
<1>1. client \in [Clients -> Pages]
  BY MachineTypeNow DEF MachineInv
<1>2. ASSUME NEW d \in Clients
      PROVE  /\ client'[d] \in Pages /\ client'[d].id = client[d].id
             /\ client'[d].phase = client[d].phase /\ client'[d].reply = client[d].reply
  <2>1. client[d] \in Pages
    BY <1>1
  <2>2. CASE d \in S
    <3>1. client'[d] = [client[d] EXCEPT !.acting = FALSE]
      BY <2>2
    <3> QED
      BY <2>1, <3>1 DEF Pages
  <2>3. CASE d \notin S
    BY <2>1, <2>3
  <2> QED
    BY <2>2, <2>3
<1> QED
  BY <1>2 DEF EndedBy

\* A call is taken off its way.
LEMMA TakenCalls ==
  ASSUME MachineInv, NEW c \in Clients, ipc[c] # <<>>, ipc' = [ipc EXCEPT ![c] = Tail(@)]
  PROVE  /\ ipc' \in [Clients -> Seq(Messages)]
         /\ \A d \in Clients : /\ Ids(ipc'[d]) \subseteq Ids(ipc[d]) \union {client[d].id}
                               /\ Begins(ipc'[d]) \subseteq Begins(ipc[d])
                               /\ BeginsFirst(ipc'[d])
         /\ Head(ipc[c]) \in Messages /\ Head(ipc[c])[2] \in Ids(ipc[c])
         /\ Head(ipc[c])[1] = "begin" => Head(ipc[c])[2] \in Begins(ipc[c])
         /\ Head(ipc[c])[2] \notin Begins(ipc'[c])
<1> DEFINE q == ipc[c]
           r == Tail(q)
<1>1. /\ ipc \in [Clients -> Seq(Messages)] /\ BeginsFirst(q) /\ q # <<>>
      /\ \A d \in Clients : BeginsFirst(ipc[d])
  BY DEF MachineInv, ComputerTypeOK, CallsInOrder
<1>2. ipc' = [ipc EXCEPT ![c] = r]
  OBVIOUS
<1>3. /\ Head(q) \in Messages /\ r \in Seq(Messages)
      /\ Ids(r) \subseteq Ids(q) /\ Head(q)[2] \in Ids(q)
      /\ Begins(r) \subseteq Begins(q)
      /\ Head(q)[1] = "begin" => Head(q)[2] \in Begins(q)
      /\ BeginsFirst(r) /\ Head(q)[2] \notin Begins(r)
  BY <1>1, OnTail
<1> HIDE DEF r
<1> QED
  BY <1>1, <1>2, <1>3

\* A script that asks for the machine is asking for itself alone.
LEMMA OwnCall ==
  ASSUME MachineInv, NEW c \in Clients, NEW id \in Ids(ipc[c]), NEW d \in Clients, d # c
  PROVE  /\ id # client[d].id /\ id \notin Ids(ipc[d])
         /\ lease.owner = d => lease.id # id
<1>1. id # NoScript
  BY IdsAreScripts
<1>2. id \in Belongs(c) /\ Belongs(c) \cap Belongs(d) \subseteq {NoScript}
  BY DEF MachineInv, Separate, Belongs
<1> QED
  BY <1>1, <1>2 DEF Belongs

\* What the main process does with the lease, its driver and the calls.
LEMMA MainStep ==
  ASSUME MachineInv, UNCHANGED <<scripts, answered>>,
         client' \in [Clients -> Pages],
         \A d \in Clients : client'[d].id = client[d].id /\ client'[d].phase = client[d].phase,
         ipc' \in [Clients -> Seq(Messages)],
         \A d \in Clients : /\ Ids(ipc'[d]) \subseteq Ids(ipc[d]) \union {client[d].id}
                            /\ Begins(ipc'[d]) \subseteq Begins(ipc[d])
                            /\ BeginsFirst(ipc'[d]),
         \A d \in Clients :
           client'[d].phase = "ending" /\ client'[d].reply = "ended" =>
             \/ EndedBy(d)
             \/ lease.id # client[d].id /\ client[d].id \notin Begins(ipc'[d]),
         lease' \in Leases, lease'.id = lease.id, lease'.owner = lease.owner,
         lease'.closing => lease.closing \/ lease.id # NoScript,
         driver' \in [Scripts -> DriverStates],
         aborted' \subseteq aborted \union {lease.id} \/ aborted' = aborted,
         aborted' \subseteq 1..scripts, calls' \subseteq 1..scripts,
         \A i \in Scripts :
           i \in calls' \/ driver'[i] \in {"checking", "creating", "live"} =>
             Active(i) \/ i = lease.id
  PROVE  MachineInv'
<1>1. \A i \in Scripts :
        i \in calls' \/ driver'[i] \in {"checking", "creating", "live"} => lease'.id = i
  BY DEF MachineInv, OneScriptControls, Active
<1>2. lease'.closing => lease'.id # NoScript
  BY DEF MachineInv, LeaseIsOpen
<1>3. \A d \in Clients : client'[d].id = NoScript <=> client'[d].phase = "idle"
  BY MachineTypeNow DEF MachineInv
<1>4. (aborted \union calls)' \subseteq 1..scripts
  OBVIOUS
<1> QED
  BY <1>1, <1>2, <1>3, <1>4, QuietStep

\* The lease closes.
LEMMA ClosingKeeps ==
  ASSUME MachineInv, Closing
  PROVE  lease' \in Leases /\ lease'.id = lease.id /\ lease'.owner = lease.owner
  BY MachineTypeNow DEF MachineInv, Closing, Leases

LEMMA CallInv ==
  ASSUME MachineInv, NEW c \in Clients, ipc[c] # <<>>, ipc' = [ipc EXCEPT ![c] = Tail(@)],
         Call(c, Head(ipc[c])[2]), UNCHANGED <<scripts, answered>>
  PROVE  MachineInv'
<1> DEFINE id == Head(ipc[c])[2]
<1>1. UNCHANGED <<lease, driver, aborted>> /\ calls \subseteq 1..scripts
      /\ aborted \subseteq 1..scripts /\ lease \in Leases /\ driver \in [Scripts -> DriverStates]
      /\ client \in [Clients -> Pages]
  BY MachineTypeNow DEF MachineInv, Call
<1>2. id \in 1..scripts
  BY TakenCalls, IdsAreScripts
<1>3. calls' = calls \/ (calls' = calls \union {id} /\ lease.id = id)
  BY DEF Call, Owned
<1>4. /\ client' \in [Clients -> Pages]
      /\ \A d \in Clients : client'[d].id = client[d].id /\ client'[d].phase = client[d].phase
      /\ \A d \in Clients : client'[d].phase = "ending" /\ client'[d].reply = "ended" => EndedBy(d)
  <2>1. CASE UNCHANGED client
    BY <2>1, UnchangedClient
  <2>2. CASE client' = [client EXCEPT ![c].acting = FALSE]
    <3>1. client' = [d \in Clients |->
            IF d \in {c} THEN [client[d] EXCEPT !.acting = FALSE] ELSE client[d]]
      BY <1>1, <2>2
    <3> QED
      BY <3>1, ActingEnds
  <2> QED
    BY <2>1, <2>2 DEF Call
<1>5. \A i \in Scripts :
        i \in calls' \/ driver'[i] \in {"checking", "creating", "live"} =>
          Active(i) \/ i = lease.id
  BY <1>1, <1>3 DEF Active
<1> HIDE DEF id
<1> QED
  BY <1>1, <1>2, <1>3, <1>4, <1>5, TakenCalls, MainStep

LEMMA CancelInv ==
  ASSUME MachineInv, NEW c \in Clients, ipc[c] # <<>>, ipc' = [ipc EXCEPT ![c] = Tail(@)],
         Cancel(c, Head(ipc[c])[2]), UNCHANGED <<scripts, answered>>
  PROVE  MachineInv'
<1> DEFINE id == Head(ipc[c])[2]
<1>1. /\ UNCHANGED <<client, driver, calls>> /\ calls \subseteq 1..scripts
      /\ aborted \subseteq 1..scripts /\ lease \in Leases /\ driver \in [Scripts -> DriverStates]
  BY MachineTypeNow DEF MachineInv, Cancel
<1>2. id \in 1..scripts /\ id # NoScript
  BY TakenCalls, IdsAreScripts
<1>3. /\ lease' \in Leases /\ lease'.id = lease.id /\ lease'.owner = lease.owner
      /\ lease'.closing => lease.closing \/ lease.id # NoScript
      /\ aborted' = aborted \/ (aborted' = aborted \union {lease.id} /\ lease.id = id)
  BY <1>1, <1>2, ClosingKeeps DEF Cancel, Owned
<1>4. \A i \in Scripts :
        i \in calls' \/ driver'[i] \in {"checking", "creating", "live"} =>
          Active(i) \/ i = lease.id
  BY <1>1 DEF Active
<1> HIDE DEF id
<1> QED
  BY <1>1, <1>2, <1>3, <1>4, UnchangedClient, TakenCalls, MainStep

\* A page is told that its lease ended only when it has none, and has asked
\* for none.
LEMMA EndInv ==
  ASSUME MachineInv, NEW c \in Clients, ipc[c] # <<>>, ipc' = [ipc EXCEPT ![c] = Tail(@)],
         End(c, Head(ipc[c])[2]), UNCHANGED <<scripts, answered>>
  PROVE  MachineInv'
<1> DEFINE id == Head(ipc[c])[2]
<1>1. /\ UNCHANGED <<driver, aborted, calls>> /\ calls \subseteq 1..scripts
      /\ aborted \subseteq 1..scripts /\ lease \in Leases /\ driver \in [Scripts -> DriverStates]
      /\ lease.id # NoScript => lease.owner \in Clients
  BY MachineTypeNow DEF MachineInv, End
<1>2. id \in 1..scripts /\ id # NoScript /\ id \in Ids(ipc[c]) /\ id \notin Begins(ipc'[c])
  BY TakenCalls, IdsAreScripts
<1>3. \A i \in Scripts :
        i \in calls' \/ driver'[i] \in {"checking", "creating", "live"} =>
          Active(i) \/ i = lease.id
  BY <1>1 DEF Active
<1>4. CASE Owned(c, id)
  <2>1. lease' = [lease EXCEPT !.closing = TRUE, !.awaited = TRUE] /\ UNCHANGED client
    BY <1>4 DEF End
  <2>2. lease' \in Leases /\ lease'.id = lease.id /\ lease'.owner = lease.owner
    BY <1>1, <2>1 DEF Leases
  <2>3. lease.id # NoScript
    BY <1>2, <1>4 DEF Owned
  <2> HIDE DEF id
  <2> QED
    BY <1>1, <1>2, <1>3, <2>1, <2>2, <2>3, UnchangedClient, TakenCalls, MainStep
<1>5. CASE ~Owned(c, id)
  <2>1. Replied(c, id, "ended") /\ UNCHANGED lease
    BY <1>5 DEF End
  <2>2. lease.id # id
    BY <1>1, <1>2, <1>5, OwnCall DEF Owned
  <2>3. /\ client' \in [Clients -> Pages]
        /\ \A d \in Clients : client'[d].id = client[d].id /\ client'[d].phase = client[d].phase
        /\ \A d \in Clients :
             client'[d].phase = "ending" /\ client'[d].reply = "ended" =>
               EndedBy(d) \/ (d = c /\ client[c].id = id)
    BY <2>1, RepliedKeeps
  <2>4. \A d \in Clients :
          client'[d].phase = "ending" /\ client'[d].reply = "ended" =>
            \/ EndedBy(d)
            \/ lease.id # client[d].id /\ client[d].id \notin Begins(ipc'[d])
    BY <1>2, <2>2, <2>3
  <2> HIDE DEF id
  <2> QED
    BY <1>1, <1>2, <1>3, <2>1, <2>3, <2>4, TakenCalls, MainStep
<1> QED
  BY <1>4, <1>5

\* An active script has a driver or a call under way, which only the lease's has.
LEMMA DriverStep ==
  ASSUME MachineInv, NEW id, NEW state \in DriverStates,
         driver' = [driver EXCEPT ![id] = state],
         driver[id] \in {"checking", "creating", "live"}, UNCHANGED calls
  PROVE  /\ driver' \in [Scripts -> DriverStates]
         /\ \A i \in Scripts :
              i \in calls' \/ driver'[i] \in {"checking", "creating", "live"} => Active(i)
<1>1. driver \in [Scripts -> DriverStates]
  BY MachineTypeNow DEF MachineInv
<1>2. driver' \in [Scripts -> DriverStates]
      /\ \A i \in Scripts : driver'[i] = IF i = id THEN state ELSE driver[i]
  BY <1>1
<1> QED
  BY <1>2 DEF Active

\* A driver gets on, well or not.
LEMMA DriverInv ==
  ASSUME MachineInv, NEW id, NEW yes \in BOOLEAN, Available(id, yes) \/ Created(id, yes)
  PROVE  MachineInv'
<1>1. PICK state \in DriverStates : driver' = [driver EXCEPT ![id] = state]
  BY DEF Available, Created, DriverStates
<1>2. /\ UNCHANGED <<client, ipc, scripts, lease, aborted, calls, answered>>
      /\ driver[id] \in {"checking", "creating", "live"}
  BY DEF Available, Created
<1>3. /\ driver' \in [Scripts -> DriverStates]
      /\ \A i \in Scripts :
           i \in calls' \/ driver'[i] \in {"checking", "creating", "live"} => Active(i)
  BY <1>1, <1>2, DriverStep
<1>4. lease \in Leases /\ aborted \subseteq 1..scripts /\ calls \subseteq 1..scripts
  BY MachineTypeNow DEF MachineInv
<1> QED
  BY <1>2, <1>3, <1>4, KeptCalls, UnchangedClient, MainStep

LEMMA BegunInv == ASSUME MachineInv, NEW listed \in BOOLEAN, Begun(listed) PROVE MachineInv'
<1>1. /\ lease \in Leases /\ lease.id # NoScript /\ lease.owner \in Clients
      /\ aborted \subseteq 1..scripts /\ calls \subseteq 1..scripts
      /\ driver \in [Scripts -> DriverStates]
      /\ UNCHANGED <<ipc, scripts, driver, aborted, calls, answered>>
  BY MachineTypeNow DEF MachineInv, Begun
<1>2. lease' \in Leases /\ lease'.id = lease.id /\ lease'.owner = lease.owner
  BY <1>1 DEF Begun, Leases
<1>3. UNCHANGED client \/ Replied(lease.owner, lease.id, "ok")
  BY DEF Begun
<1>4. /\ client' \in [Clients -> Pages]
      /\ \A d \in Clients : client'[d].id = client[d].id /\ client'[d].phase = client[d].phase
      /\ \A d \in Clients : client'[d].phase = "ending" /\ client'[d].reply = "ended" => EndedBy(d)
  BY <1>1, <1>3, UnchangedClient, RepliedKeeps
<1>5. \A i \in Scripts :
        i \in calls' \/ driver'[i] \in {"checking", "creating", "live"} => Active(i)
  BY <1>1 DEF Active
<1> QED
  BY <1>1, <1>2, <1>4, <1>5, KeptCalls, MainStep

LEMMA CallReturnsInv == ASSUME MachineInv, NEW id, CallReturns(id) PROVE MachineInv'
<1> DEFINE S == {c \in Clients : client[c].id = id /\ client[c].phase = "running"}
<1>1. /\ lease \in Leases /\ aborted \subseteq 1..scripts /\ calls \subseteq 1..scripts
      /\ driver \in [Scripts -> DriverStates]
      /\ UNCHANGED <<ipc, scripts, lease, driver, aborted, answered>>
      /\ calls' \subseteq calls
  BY MachineTypeNow DEF MachineInv, CallReturns
<1>2. client' = [c \in Clients |->
            IF c \in S THEN [client[c] EXCEPT !.acting = FALSE] ELSE client[c]]
  BY DEF CallReturns
<1> HIDE DEF S
<1>3. /\ client' \in [Clients -> Pages]
      /\ \A d \in Clients : client'[d].id = client[d].id /\ client'[d].phase = client[d].phase
      /\ \A d \in Clients : client'[d].phase = "ending" /\ client'[d].reply = "ended" => EndedBy(d)
  BY <1>2, ActingEnds
<1>4. \A i \in Scripts :
        i \in calls' \/ driver'[i] \in {"checking", "creating", "live"} => Active(i)
  BY <1>1 DEF Active
<1> QED
  BY <1>1, <1>3, <1>4, KeptCalls, MainStep

LEMMA LeaseTimeoutInv == ASSUME MachineInv, LeaseTimeout PROVE MachineInv'
<1>1. /\ lease.id # NoScript /\ lease.id \in 1..scripts /\ Closing
      /\ aborted \subseteq 1..scripts /\ calls \subseteq 1..scripts
      /\ driver \in [Scripts -> DriverStates]
      /\ UNCHANGED <<client, ipc, scripts, driver, calls, answered>>
      /\ aborted' = aborted \union {lease.id}
  BY MachineTypeNow DEF MachineInv, LeaseTimeout, Leases, NoScript
<1>2. \A i \in Scripts :
        i \in calls' \/ driver'[i] \in {"checking", "creating", "live"} => Active(i)
  BY <1>1 DEF Active
<1> QED
  BY <1>1, <1>2, ClosingKeeps, KeptCalls, UnchangedClient, MainStep

\* A page that is gone has nothing to do, and its lease closes.
LEMMA GoneInv == ASSUME MachineInv, NEW c \in Clients, Gone(c) PROVE MachineInv'
<1>1. /\ client \in [Clients -> Pages] /\ lease \in Leases /\ lease.id \in 0..scripts
      /\ aborted \subseteq 1..scripts /\ calls \subseteq 1..scripts
      /\ driver \in [Scripts -> DriverStates] /\ scripts \in Nat
      /\ \A d \in Clients : client[d].id = NoScript <=> client[d].phase = "idle"
  BY MachineTypeNow DEF MachineInv, Leases
<1>2. NoClient \in Pages /\ NoClient.id = NoScript /\ NoClient.phase = "idle"
  BY <1>1 DEF NoClient, Pages, NoScript
<1>3. client' = [client EXCEPT ![c] = NoClient]
      /\ UNCHANGED <<ipc, scripts, driver, calls, answered>>
  BY DEF Gone
<1>4. /\ client' \in [Clients -> Pages]
      /\ \A d \in Clients : client'[d] = IF d = c THEN NoClient ELSE client[d]
  BY <1>1, <1>2, <1>3
<1>5. /\ \A d \in Clients : client'[d].id = NoScript <=> client'[d].phase = "idle"
      /\ \A d \in Clients : client'[d].id \in {client[d].id, NoScript}
      /\ \A d \in Clients : client'[d].phase = "ending" /\ client'[d].reply = "ended" => EndedBy(d)
  BY <1>1, <1>2, <1>4 DEF EndedBy
<1>6. /\ lease' \in Leases /\ lease'.id = lease.id /\ lease'.owner = lease.owner
      /\ lease'.closing => lease.closing \/ lease.id # NoScript
      /\ aborted' = aborted \/ (aborted' = aborted \union {lease.id} /\ lease.id # NoScript)
  BY <1>1, ClosingKeeps DEF Gone
<1>7. (aborted \union calls)' \subseteq 1..scripts
  <2>1. lease.id # NoScript => lease.id \in 1..scripts
    BY <1>1 DEF NoScript
  <2>2. aborted' \subseteq 1..scripts /\ calls' \subseteq 1..scripts
    BY <1>1, <1>3, <1>6, <2>1
  <2> QED
    BY <2>2
<1>8. lease'.closing => lease'.id # NoScript
  BY <1>6 DEF MachineInv, LeaseIsOpen
<1>9. \A i \in Scripts :
        i \in calls' \/ driver'[i] \in {"checking", "creating", "live"} => lease'.id = i
  BY <1>3, <1>6 DEF MachineInv, OneScriptControls
<1> QED
  BY <1>1, <1>3, <1>4, <1>5, <1>6, <1>7, <1>8, <1>9, KeptCalls, QuietStep

\* The machine is free again; whoever is told so has asked for it no more.
LEMMA CloseInv == ASSUME MachineInv, Close PROVE MachineInv'
<1>1. /\ lease.closing /\ lease.id # NoScript /\ lease.id \notin calls
      /\ lease.owner \in Clients /\ lease.id \in 1..scripts /\ scripts \in Nat
      /\ aborted \subseteq 1..scripts /\ calls \subseteq 1..scripts
      /\ lease' = NoLease /\ driver' = [driver EXCEPT ![lease.id] = "closed"]
      /\ UNCHANGED <<ipc, scripts, aborted, calls, answered>>
  BY MachineTypeNow DEF MachineInv, LeaseIsOpen, Close, Leases, NoScript
<1>2. /\ driver' \in [Scripts -> DriverStates]
      /\ \A i \in Scripts : driver'[i] = IF i = lease.id THEN "closed" ELSE driver[i]
  BY <1>1, MachineTypeNow DEF MachineInv, DriverStates
<1>3. \A i \in Scripts :
        i \in calls' \/ driver'[i] \in {"checking", "creating", "live"} => FALSE
  BY <1>1, <1>2 DEF MachineInv, OneScriptControls
<1>4. lease' \in Leases /\ lease'.id = NoScript /\ ~lease'.closing
  BY <1>1 DEF NoLease, Leases, NoScript
<1>5. \/ UNCHANGED client
      \/ \E reply \in {"ended", "failed"} : Replied(lease.owner, lease.id, reply)
  BY DEF Close
<1>6. /\ client' \in [Clients -> Pages]
      /\ \A d \in Clients : client'[d].id = client[d].id /\ client'[d].phase = client[d].phase
      /\ \A d \in Clients :
           client'[d].phase = "ending" /\ client'[d].reply = "ended" =>
             EndedBy(d) \/ client[d].id = lease.id
  <2>1. CASE UNCHANGED client
    BY <2>1, UnchangedClient
  <2>2. ASSUME NEW reply \in {"ended", "failed"}, Replied(lease.owner, lease.id, reply)
        PROVE  <1>6
    BY <2>2, <1>1, RepliedKeeps
  <2> QED
    BY <1>5, <2>1, <2>2
<1>7. \A d \in Clients :
        client'[d].phase = "ending" /\ client'[d].reply = "ended" =>
          \/ EndedBy(d)
          \/ lease'.id # client[d].id /\ client[d].id \notin Begins(ipc'[d])
  BY <1>1, <1>4, <1>6 DEF MachineInv, AskedOnce
<1>8. \A d \in Clients : client'[d].id = NoScript <=> client'[d].phase = "idle"
  BY <1>6, MachineTypeNow DEF MachineInv
<1> QED
  BY <1>1, <1>2, <1>3, <1>4, <1>6, <1>7, <1>8, KeptCalls, QuietStep

-----------------------------------------------------------------------------
(* The steps that begin a script, give it the machine and answer it *)

LEMMA NewPage ==
  ASSUME NEW n, NEW p, p = [NoClient EXCEPT !.phase = "beginning", !.id = n]
  PROVE  p = [phase |-> "beginning", id |-> n, cancelled |-> FALSE, reply |-> "none",
              acting |-> FALSE]
  BY DEF NoClient

\* A new script asks for the machine: nobody has heard of it.
LEMMA RunInv == ASSUME MachineInv, NEW c \in Clients, Run(c) PROVE MachineInv'
<1> DEFINE n == scripts + 1
           call == <<"begin", n>>
           page == [NoClient EXCEPT !.phase = "beginning", !.id = n]
           q == Append(ipc[c], call)
<1>1. /\ client[c].phase = "idle" /\ scripts' = n /\ n <= MaxScripts
      /\ UNCHANGED <<lease, driver, aborted, calls, answered>>
      /\ client' = [client EXCEPT ![c] = page] /\ ipc' = [ipc EXCEPT ![c] = q]
  <2>1. scripts < MaxScripts /\ scripts \in Nat
    BY MachineTypeNow DEF MachineInv, Run
  <2>2. n <= MaxScripts
    BY <2>1, MaxScriptsAssumption
  <2> QED
    BY <2>2 DEF Run, mainVars
<1>2. /\ scripts \in Nat /\ n \in 1..n /\ n # NoScript
      /\ client \in [Clients -> Pages] /\ ipc \in [Clients -> Seq(Messages)]
      /\ lease \in Leases /\ lease.id \in 0..scripts /\ driver \in [Scripts -> DriverStates]
      /\ aborted \union calls \union answered \subseteq 1..scripts
      /\ n \notin answered /\ n # lease.id
  BY MachineTypeNow DEF MachineInv, Leases, NoScript
<1>3. page \in Pages' /\ page.id = n /\ page.phase = "beginning"
  <2>1. n \in 0..scripts'
    BY <1>1, <1>2
  <2> HIDE DEF n
  <2>2. page = [phase |-> "beginning", id |-> n, cancelled |-> FALSE, reply |-> "none",
                acting |-> FALSE]
    BY NewPage
  <2> HIDE DEF page
  <2> QED
    BY <2>1, <2>2 DEF Pages
<1>4. Pages \subseteq Pages' /\ Leases \subseteq Leases' /\ Messages \subseteq Messages'
  BY <1>1, <1>2 DEF Pages, Leases, Messages
<1>5. call \in Messages' /\ call[1] = "begin" /\ call[2] = n
  BY <1>1, <1>2 DEF Messages
<1>6. \A d \in Clients : /\ n \notin Ids(ipc[d]) /\ n # client[d].id
                         /\ Ids(ipc[d]) \subseteq 1..scripts
  BY <1>2, IdsAreRun DEF MachineInv
<1>7. \A d \in Clients : ipc[d] \in Seq(Messages') /\ BeginsFirst(ipc[d])
  BY <1>2, <1>4, SeqMonotonic DEF MachineInv, CallsInOrder
<1> HIDE DEF call
<1>8. /\ q \in Seq(Messages') /\ BeginsFirst(q)
      /\ Ids(q) = Ids(ipc[c]) \union {n} /\ Begins(q) = Begins(ipc[c]) \union {n}
  BY <1>5, <1>6, <1>7, OnAppend, AppendProperties
<1> HIDE DEF q, page, n
<1>9. /\ client'[c] = page /\ ipc'[c] = q
      /\ \A d \in Clients : d # c => client'[d] = client[d] /\ ipc'[d] = ipc[d]
      /\ client' \in [Clients -> Pages'] /\ ipc' \in [Clients -> Seq(Messages')]
  BY <1>1, <1>2, <1>3, <1>4, <1>7, <1>8
<1>10. ComputerTypeOK'
  <2>1. scripts' \in 0..MaxScripts /\ 1..scripts \subseteq 1..scripts'
    BY <1>1, <1>2, MaxScriptsAssumption DEF n
  <2>2. \A d \in Clients : client'[d].id = NoScript <=> client'[d].phase = "idle"
    BY <1>2, <1>3, <1>9, MachineTypeNow DEF MachineInv
  <2>3. lease' \in Leases' /\ (lease'.id # NoScript => lease'.owner \in Clients)
    BY <1>1, <1>2, <1>4, MachineTypeNow DEF MachineInv
  <2>4. (aborted \union calls \union answered)' \subseteq 1..scripts'
    BY <1>1, <1>2, <2>1
  <2> QED
    BY <1>1, <1>2, <1>9, <2>1, <2>2, <2>3, <2>4 DEF ComputerTypeOK
<1>11. OneScriptControls'
  BY <1>1 DEF MachineInv, OneScriptControls
<1>12. CallsInOrder'
  BY <1>7, <1>8, <1>9 DEF CallsInOrder
<1>13. Separate'
  <2>1. Belongs(c)' \subseteq Belongs(c) \union {n}
    BY <1>1, <1>3, <1>8, <1>9 DEF Belongs
  <2>2. \A d \in Clients : d # c => Belongs(d)' = Belongs(d)
    BY <1>1, <1>9 DEF Belongs
  <2>3. \A d \in Clients : n \notin Belongs(d)
    BY <1>2, <1>6 DEF Belongs
  <2> QED
    BY <2>1, <2>2, <2>3 DEF MachineInv, Separate
<1>14. EndsAreFinal'
  BY <1>1, <1>3, <1>9 DEF MachineInv, EndsAreFinal, EndedBy
<1>15. AskedOnce'
  BY <1>1, <1>2, <1>8, <1>9 DEF MachineInv, AskedOnce
<1>16. LeaseIsOpen'
  BY <1>1 DEF MachineInv, LeaseIsOpen
<1> QED
  BY <1>10, <1>11, <1>12, <1>13, <1>14, <1>15, <1>16 DEF MachineInv

\* A script whose run is answered has no lease and asks for none.
LEMMA EndAnsweredInv == ASSUME MachineInv, NEW c \in Clients, EndAnswered(c) PROVE MachineInv'
<1> DEFINE id == client[c].id
<1>1. /\ EndedBy(c) /\ answered' = answered \union {id}
      /\ client' = [client EXCEPT ![c] = NoClient]
      /\ UNCHANGED <<ipc, scripts, lease, driver, aborted, calls>>
  BY DEF EndAnswered, EndedBy, mainVars
<1>2. /\ scripts \in 0..MaxScripts /\ scripts \in Nat
      /\ client \in [Clients -> Pages] /\ ipc \in [Clients -> Seq(Messages)]
      /\ lease \in Leases /\ driver \in [Scripts -> DriverStates]
      /\ \A d \in Clients : client[d].id = NoScript <=> client[d].phase = "idle"
      /\ aborted \union calls \union answered \subseteq 1..scripts
  BY MachineTypeNow DEF MachineInv, ComputerTypeOK
<1>3. id \in 1..scripts /\ id # NoScript
  BY <1>1, <1>2 DEF EndedBy, Pages, NoScript
<1>4. NoClient \in Pages /\ NoClient.id = NoScript /\ NoClient.phase = "idle"
  BY <1>2 DEF NoClient, Pages, NoScript
<1>5. \A d \in Clients : client'[d] = IF d = c THEN NoClient ELSE client[d]
  BY <1>1, <1>2
<1>6. lease.id # id /\ id \notin Begins(ipc[c])
  BY <1>1 DEF MachineInv, EndsAreFinal
<1>7. \A d \in Clients : id \notin Begins(ipc[d])
  <2>1. \A d \in Clients : d # c => id \notin Ids(ipc[d])
    BY <1>3 DEF MachineInv, Separate, Belongs
  <2> QED
    BY <1>6, <2>1, BeginsAreIds
<1> HIDE DEF id
<1>8. ComputerTypeOK'
  <2>1. Pages' = Pages /\ Leases' = Leases /\ Messages' = Messages
    BY <1>1 DEF Pages, Leases, Messages
  <2>2. client' \in [Clients -> Pages]
        /\ \A d \in Clients : client'[d].id = NoScript <=> client'[d].phase = "idle"
    BY <1>1, <1>2, <1>4, <1>5
  <2>3. lease.id # NoScript => lease.owner \in Clients
    BY MachineTypeNow DEF MachineInv
  <2>4. (aborted \union calls \union answered)' \subseteq 1..scripts
    BY <1>1, <1>2, <1>3
  <2> QED
    BY <1>1, <1>2, <2>1, <2>2, <2>3, <2>4 DEF ComputerTypeOK
<1>9. OneScriptControls'
  BY <1>1, <1>6 DEF MachineInv, OneScriptControls
<1>10. CallsInOrder'
  BY <1>1 DEF MachineInv, CallsInOrder
<1>11. Separate'
  <2>1. ASSUME NEW d \in Clients PROVE Belongs(d)' \subseteq Belongs(d) \union {NoScript}
    BY <1>1, <1>4, <1>5 DEF Belongs
  <2> QED
    BY <2>1 DEF MachineInv, Separate
<1>12. EndsAreFinal'
  BY <1>1, <1>4, <1>5 DEF MachineInv, EndsAreFinal, EndedBy
<1>13. AskedOnce'
  BY <1>1, <1>7 DEF MachineInv, AskedOnce
<1>14. LeaseIsOpen'
  BY <1>1, <1>6 DEF MachineInv, LeaseIsOpen
<1> QED
  BY <1>8, <1>9, <1>10, <1>11, <1>12, <1>13, <1>14 DEF MachineInv

\* The machine, if it is free, goes to a script that has not had it.
LEMMA BeginInv ==
  ASSUME MachineInv, NEW c \in Clients, ipc[c] # <<>>, ipc' = [ipc EXCEPT ![c] = Tail(@)],
         Head(ipc[c])[1] = "begin", Begin(c, Head(ipc[c])[2]),
         UNCHANGED <<scripts, answered>>
  PROVE  MachineInv'
<1> DEFINE id == Head(ipc[c])[2]
<1>1. /\ lease \in Leases /\ driver \in [Scripts -> DriverStates] /\ scripts \in Nat
      /\ aborted \subseteq 1..scripts /\ calls \subseteq 1..scripts
      /\ answered \subseteq 1..scripts /\ scripts \in 0..MaxScripts
      /\ UNCHANGED <<aborted, calls>>
      /\ lease.id # NoScript => lease.owner \in Clients
  BY MachineTypeNow DEF MachineInv, ComputerTypeOK, Begin
<1>2. /\ id \in 1..scripts /\ id # NoScript /\ id \in Scripts
      /\ id \in Ids(ipc[c]) /\ id \in Begins(ipc[c]) /\ id \notin Begins(ipc'[c])
      /\ ipc' \in [Clients -> Seq(Messages)]
      /\ \A d \in Clients : /\ Ids(ipc'[d]) \subseteq Ids(ipc[d]) \union {client[d].id}
                            /\ Begins(ipc'[d]) \subseteq Begins(ipc[d])
                            /\ BeginsFirst(ipc'[d])
  BY TakenCalls, IdsAreScripts
<1>3. CASE lease.id # NoScript
  <2>1. Replied(c, id, "failed") /\ UNCHANGED <<lease, driver>>
    BY <1>3 DEF Begin
  <2>2. /\ client' \in [Clients -> Pages]
        /\ \A d \in Clients : client'[d].id = client[d].id /\ client'[d].phase = client[d].phase
        /\ \A d \in Clients : client'[d].phase = "ending" /\ client'[d].reply = "ended" => EndedBy(d)
    BY <2>1, RepliedKeeps
  <2>3. \A i \in Scripts :
          i \in calls' \/ driver'[i] \in {"checking", "creating", "live"} => Active(i)
    BY <1>1, <2>1 DEF Active
  <2> HIDE DEF id
  <2> QED
    BY <1>1, <1>2, <2>1, <2>2, <2>3, MainStep
<1>4. CASE lease.id = NoScript
  <2>1. /\ lease' = [NoLease EXCEPT !.id = id, !.owner = c]
        /\ driver' = [driver EXCEPT ![id] = "checking"] /\ UNCHANGED client
    BY <1>4 DEF Begin
  <2> HIDE DEF id
  <2>2. /\ lease' \in Leases /\ lease'.id = id /\ lease'.owner = c /\ ~lease'.closing
    <3>1. id \in 0..scripts
      BY <1>1, <1>2
    <3>2. lease' = [id |-> id, owner |-> c, begun |-> FALSE, closing |-> FALSE,
                    awaited |-> FALSE]
      BY <2>1 DEF NoLease
    <3> QED
      BY <3>1, <3>2 DEF Leases
  <2>3. driver' \in [Scripts -> DriverStates]
        /\ \A i \in Scripts : driver'[i] = IF i = id THEN "checking" ELSE driver[i]
    BY <1>1, <1>2, <2>1 DEF DriverStates
  <2>4. id \notin answered
    BY <1>2 DEF MachineInv, AskedOnce
  <2>5. \A d \in Clients : d # c => id # client[d].id /\ id \notin Ids(ipc[d])
    BY <1>2, OwnCall
  <2>6. ComputerTypeOK'
    <3>1. Pages' = Pages /\ Leases' = Leases /\ Messages' = Messages
      BY DEF Pages, Leases, Messages
    <3>2. client' \in [Clients -> Pages]
          /\ \A d \in Clients : client'[d].id = NoScript <=> client'[d].phase = "idle"
      BY <2>1, MachineTypeNow DEF MachineInv
    <3>3. (aborted \union calls \union answered)' \subseteq 1..scripts
      BY <1>1
    <3> QED
      BY <1>1, <1>2, <2>2, <2>3, <3>1, <3>2, <3>3 DEF ComputerTypeOK
  <2>7. OneScriptControls'
    <3>1. \A i \in Scripts : i # NoScript
      BY DEF Scripts, NoScript
    <3>2. \A i \in Scripts : i \notin calls /\ driver[i] \notin {"checking", "creating", "live"}
      BY <1>4, <3>1 DEF MachineInv, OneScriptControls
    <3> QED
      BY <1>1, <2>2, <2>3, <2>4, <3>2 DEF OneScriptControls
  <2>8. CallsInOrder'
    BY <1>2 DEF CallsInOrder
  <2>9. Separate'
    <3>1. ASSUME NEW d \in Clients PROVE Belongs(d)' \subseteq Belongs(d)
      BY <1>2, <2>1, <2>2 DEF Belongs
    <3> QED
      BY <3>1 DEF MachineInv, Separate
  <2>10. EndsAreFinal'
    <3> SUFFICES ASSUME NEW d \in Clients, EndedBy(d)
                 PROVE  id # client[d].id /\ client[d].id \notin Begins(ipc'[d])
      BY <2>1, <2>2 DEF EndsAreFinal, EndedBy
    <3>1. client[d].id \notin Begins(ipc[d])
      BY DEF MachineInv, EndsAreFinal
    <3> QED
      BY <1>2, <2>5, <3>1
  <2>11. AskedOnce'
    <3> SUFFICES ASSUME NEW d \in Clients
                 PROVE  id \notin Begins(ipc'[d]) /\ Begins(ipc'[d]) \cap answered = {}
      BY <2>2 DEF AskedOnce
    <3>1. id \notin Begins(ipc'[d])
      BY <1>2, <2>5, BeginsAreIds
    <3> QED
      BY <1>2, <3>1 DEF MachineInv, AskedOnce
  <2>12. LeaseIsOpen'
    BY <2>2, <2>4 DEF LeaseIsOpen
  <2> QED
    BY <2>6, <2>7, <2>8, <2>9, <2>10, <2>11, <2>12 DEF MachineInv
<1> QED
  BY <1>3, <1>4

LEMMA DeliverInv == ASSUME MachineInv, NEW c \in Clients, Deliver(c) PROVE MachineInv'
<1>1. /\ ipc[c] # <<>> /\ ipc' = [ipc EXCEPT ![c] = Tail(@)]
      /\ UNCHANGED <<scripts, answered>>
  BY DEF Deliver
<1>2. \/ Head(ipc[c])[1] = "begin" /\ Begin(c, Head(ipc[c])[2])
      \/ Call(c, Head(ipc[c])[2])
      \/ Cancel(c, Head(ipc[c])[2])
      \/ End(c, Head(ipc[c])[2])
  BY DEF Deliver
<1> QED
  BY <1>1, <1>2, BeginInv, CallInv, CancelInv, EndInv

LEMMA MachineStutter == ASSUME MachineInv, UNCHANGED computerVars PROVE MachineInv'
<1>1. UNCHANGED <<client, ipc, scripts, lease, driver, aborted, calls, answered>>
  BY DEF computerVars, mainVars
<1>2. /\ lease \in Leases /\ aborted \subseteq 1..scripts /\ calls \subseteq 1..scripts
      /\ driver \in [Scripts -> DriverStates]
  BY MachineTypeNow DEF MachineInv
<1>3. \A i \in Scripts :
        i \in calls' \/ driver'[i] \in {"checking", "creating", "live"} => Active(i)
  BY <1>1 DEF Active
<1> QED
  BY <1>1, <1>2, <1>3, KeptCalls, UnchangedClient, MainStep

LEMMA MachineNext == MachineInv /\ [ComputerNext]_computerVars => MachineInv'
<1> SUFFICES ASSUME MachineInv, [ComputerNext]_computerVars PROVE MachineInv'
  OBVIOUS
<1>1. ASSUME NEW c \in Clients,
             \/ Run(c) \/ BeginAnswered(c) \/ Act(c) \/ ScriptEnds(c) \/ CancelScript(c)
             \/ ScriptTimeout(c) \/ EndAnswered(c) \/ Deliver(c) \/ Gone(c)
      PROVE  MachineInv'
  BY <1>1, RunInv, BeginAnsweredInv, ActInv, ScriptEndsInv, CancelScriptInv,
     ScriptTimeoutInv, EndAnsweredInv, DeliverInv, GoneInv
<1>2. ASSUME NEW id, NEW yes \in BOOLEAN, Available(id, yes) \/ Created(id, yes) PROVE MachineInv'
  BY <1>2, DriverInv
<1>3. ASSUME NEW id, CallReturns(id) PROVE MachineInv'
  BY <1>3, CallReturnsInv
<1>4. ASSUME NEW listed \in BOOLEAN, Begun(listed) PROVE MachineInv'
  BY <1>4, BegunInv
<1>5. ASSUME Close \/ LeaseTimeout PROVE MachineInv'
  BY <1>5, CloseInv, LeaseTimeoutInv
<1>6. ASSUME UNCHANGED computerVars PROVE MachineInv'
  BY <1>6, MachineStutter
<1> QED
  BY <1>1, <1>2, <1>3, <1>4, <1>5, <1>6 DEF ComputerNext, ComputerSystem

-----------------------------------------------------------------------------
(* The theorems *)

\* Whatever is called, cancelled or left, the books of the main process name
\* only scripts that were run, for an open page (ComputerRuntime).
THEOREM MachineTypes == ComputerSpec => []ComputerTypeOK
<1>1. ComputerInit => MachineInv
  BY MachineInit
<1>2. MachineInv /\ [ComputerNext]_computerVars => MachineInv'
  BY MachineNext
<1>3. MachineInv => ComputerTypeOK
  BY DEF MachineInv
<1> QED
  BY <1>1, <1>2, <1>3, PTL DEF ComputerSpec

\* For any pages and scripts, and whatever is cancelled, times out or goes in
\* between, a driver that lives and an action under way are the lease's, and
\* nothing acts for a script whose run was answered (ComputerRuntime.begin,
\* call, end and close).
THEOREM OneControls == ComputerSpec => []OneScriptControls
<1>1. ComputerInit => MachineInv
  BY MachineInit
<1>2. MachineInv /\ [ComputerNext]_computerVars => MachineInv'
  BY MachineNext
<1>3. MachineInv => OneScriptControls
  BY DEF MachineInv
<1> QED
  BY <1>1, <1>2, <1>3, PTL DEF ComputerSpec

-----------------------------------------------------------------------------
(* The machine's lease *)

\* The scripts that a page's calls under way act for.
Acts(q) == {q[k][2] : k \in {j \in Places(q) : q[j][1] = "call"}}

LEMMA ActsAppend ==
  ASSUME NEW T, NEW q \in Seq(T), NEW m \in T
  PROVE  Acts(Append(q, m)) = IF m[1] = "call" THEN Acts(q) \union {m[2]} ELSE Acts(q)
<1> DEFINE n == Len(q)
           r == Append(q, m)
<1>1. /\ n \in Nat /\ Len(r) = n + 1 /\ r[n + 1] = m
      /\ \A k \in 1..n : r[k] = q[k]
  BY AppendProperties
<1> HIDE DEF r, n
<1>2. Places(r) = Places(q) \union {n + 1} /\ Places(q) = 1..n
  BY <1>1 DEF Places, n
<1>3. Acts(r) = IF m[1] = "call" THEN Acts(q) \union {m[2]} ELSE Acts(q)
  BY <1>1, <1>2 DEF Acts
<1> QED
  BY <1>3 DEF r

LEMMA ActsTail ==
  ASSUME NEW T, NEW q \in Seq(T), q # <<>>
  PROVE  /\ Acts(Tail(q)) \subseteq Acts(q)
         /\ Head(q)[1] = "call" => Head(q)[2] \in Acts(q)
<1> DEFINE n == Len(q)
           r == Tail(q)
<1>1. /\ n \in Nat \ {0} /\ Len(r) = n - 1 /\ Head(q) = q[1]
      /\ \A k \in 1..(n - 1) : r[k] = q[k + 1]
  BY EmptySeq, HeadTailProperties
<1> HIDE DEF r, n
<1>2. Places(r) = 1..(n - 1) /\ Places(q) = 1..n /\ 1 \in 1..n
      /\ \A k \in 1..(n - 1) : k + 1 \in 1..n
  BY <1>1 DEF Places, n
<1>3. ASSUME NEW k \in Places(r), r[k][1] = "call" PROVE r[k][2] \in Acts(q)
  <2>1. k + 1 \in Places(q) /\ r[k] = q[k + 1]
    BY <1>1, <1>2
  <2> QED
    BY <1>3, <2>1 DEF Acts
<1>4. q[1][1] = "call" => q[1][2] \in Acts(q)
  BY <1>2 DEF Acts
<1> QED
  BY <1>1, <1>3, <1>4 DEF Acts, r

Unused == {i \in Scripts : driver[i] = "none"}
Working == {i \in Scripts : driver[i] \in {"live", "closed"}}

\* A script that has not been given the machine has no driver.
Unasked ==
  /\ (scripts + 1)..MaxScripts \subseteq Unused
  /\ \A c \in Clients : Begins(ipc[c]) \subseteq Unused

\* The driver of the script that has the machine is not closed.
HolderDriven ==
  lease.id # NoScript =>
    lease.id \in Scripts /\ driver[lease.id] \in {"checking", "creating", "live", "failed"}

\* A page lets its script act, and has an action on its way, only once the
\* script's driver lived.
GoesOn(c) == client[c].reply = "ok" \/ client[c].phase = "running"
ActsOnDriver ==
  \A c \in Clients :
    /\ GoesOn(c) => client[c].id \in Working
    /\ Acts(ipc[c]) \subseteq Working

LeaseInv == MachineInv /\ Unasked /\ HolderDriven /\ ActsOnDriver

LEMMA LeaseInit == ComputerInit => LeaseInv
<1> SUFFICES ASSUME ComputerInit PROVE LeaseInv
  OBVIOUS
<1>1. MachineInv
  BY MachineInit
<1>2. /\ scripts = 0 /\ lease.id = NoScript /\ MaxScripts \in Nat
      /\ \A c \in Clients : client[c] = NoClient /\ ipc[c] = <<>>
      /\ \A i \in Scripts : driver[i] = "none"
  BY MaxScriptsAssumption DEF ComputerInit, NoLease
<1>3. \A c \in Clients : Begins(ipc[c]) = {} /\ Acts(ipc[c]) = {}
  <2>1. Places(<<>>) = {}
    BY DEF Places
  <2> QED
    BY <1>2, <2>1 DEF Begins, Acts
<1>4. Unasked
  <2>1. Unused = Scripts
    BY <1>2 DEF Unused
  <2>2. (scripts + 1)..MaxScripts \subseteq Scripts
    BY <1>2 DEF Scripts
  <2> QED
    BY <1>3, <2>1, <2>2 DEF Unasked
<1>5. HolderDriven /\ ActsOnDriver
  BY <1>2, <1>3 DEF HolderDriven, ActsOnDriver, GoesOn, NoClient
<1> QED
  BY <1>1, <1>4, <1>5 DEF LeaseInv

\* A step that leaves the drivers alone and gives nobody the machine.
LEMMA SameDrivers ==
  ASSUME LeaseInv, MachineInv', UNCHANGED <<driver, scripts>>,
         lease'.id \in {lease.id, NoScript},
         \A c \in Clients :
           /\ Begins(ipc'[c]) \subseteq Begins(ipc[c])
           /\ Acts(ipc'[c]) \subseteq Acts(ipc[c]) \union Working
           /\ GoesOn(c)' => client'[c].id \in Working
  PROVE  LeaseInv'
<1>1. Unused' = Unused /\ Working' = Working
  BY DEF Unused, Working
<1>2. Unasked'
  BY <1>1 DEF LeaseInv, Unasked
<1>3. HolderDriven'
  BY DEF LeaseInv, HolderDriven
<1>4. ActsOnDriver'
  BY <1>1 DEF LeaseInv, ActsOnDriver
<1> QED
  BY <1>2, <1>3, <1>4 DEF LeaseInv

\* What a page's call adds to those on their way.
LEMMA SentActs ==
  ASSUME MachineInv, NEW c \in Clients, NEW m \in {"call", "cancel", "end"},
         client[c].id # NoScript, Sent(c, m)
  PROVE  \A d \in Clients :
           /\ Begins(ipc'[d]) \subseteq Begins(ipc[d])
           /\ Acts(ipc'[d]) \subseteq
                Acts(ipc[d]) \union (IF m = "call" THEN {client[c].id} ELSE {})
<1> DEFINE call == <<m, client[c].id>>
           q == Append(ipc[c], call)
<1>1. ipc \in [Clients -> Seq(Messages)]
  BY DEF MachineInv, ComputerTypeOK
<1>2. client[c].id \in 1..scripts
  BY IdsAreRun, MachineTypeNow DEF MachineInv, NoScript
<1>3. call \in Messages /\ call[1] = m /\ call[2] = client[c].id
  BY <1>2 DEF Messages
<1>4. ipc' = [ipc EXCEPT ![c] = q]
  BY DEF Sent
<1> HIDE DEF call
<1>5. Acts(q) = IF m = "call" THEN Acts(ipc[c]) \union {client[c].id} ELSE Acts(ipc[c])
  BY <1>1, <1>3, ActsAppend
<1>6. \A d \in Clients : Begins(ipc'[d]) \subseteq Begins(ipc[d])
  BY SentAdds
<1> HIDE DEF q
<1>7. \A d \in Clients : ipc'[d] = IF d = c THEN q ELSE ipc[d]
  BY <1>1, <1>4
<1> QED
  BY <1>5, <1>6, <1>7

\* A page that goes on with its script.
LEMMA PageLease ==
  ASSUME LeaseInv, MachineInv', NEW c \in Clients, client[c].id # NoScript,
         NEW page, client' = [client EXCEPT ![c] = page],
         page.id = client[c].id, page.reply = "ok" \/ page.phase = "running" => GoesOn(c),
         \/ UNCHANGED ipc
         \/ \E m \in {"cancel", "end"} : Sent(c, m)
         \/ GoesOn(c) /\ Sent(c, "call"),
         UNCHANGED <<scripts, mainVars, answered>>
  PROVE  LeaseInv'
<1>1. client \in [Clients -> Pages] /\ MachineInv /\ UNCHANGED <<driver, lease>>
  BY MachineTypeNow DEF LeaseInv, MachineInv, mainVars
<1>2. \A d \in Clients : client'[d] = IF d = c THEN page ELSE client[d]
  BY <1>1
<1>3. \A d \in Clients : GoesOn(d)' => client'[d].id \in Working
  BY <1>2 DEF GoesOn, LeaseInv, ActsOnDriver
<1>4. GoesOn(c) => client[c].id \in Working
  BY DEF LeaseInv, ActsOnDriver
<1>5. \A d \in Clients : /\ Begins(ipc'[d]) \subseteq Begins(ipc[d])
                         /\ Acts(ipc'[d]) \subseteq Acts(ipc[d]) \union Working
  BY <1>1, <1>4, SentActs
<1> QED
  BY <1>1, <1>3, <1>5, SameDrivers

LEMMA EndingLease ==
  ASSUME LeaseInv, MachineInv', NEW c \in Clients, client[c].id # NoScript, Ending(c),
         UNCHANGED <<scripts, mainVars, answered>>
  PROVE  LeaseInv'
<1> DEFINE page == [client[c] EXCEPT !.phase = "ending", !.reply = "none", !.acting = FALSE]
<1>1. client[c] \in Pages /\ client \in [Clients -> Pages]
  BY MachineTypeNow DEF LeaseInv, MachineInv
<1>2. page.id = client[c].id /\ page.phase = "ending" /\ page.reply = "none"
  BY <1>1 DEF Pages
<1>3. client' = [client EXCEPT ![c] = page] /\ Sent(c, "end")
  BY <1>1 DEF Ending
<1> HIDE DEF page
<1> QED
  BY <1>2, <1>3, PageLease

LEMMA BeginAnsweredLease ==
  ASSUME LeaseInv, MachineInv', NEW c \in Clients, BeginAnswered(c) PROVE LeaseInv'
<1>1. client[c].phase = "beginning" /\ UNCHANGED <<scripts, mainVars, answered>>
  BY DEF BeginAnswered
<1>2. client[c].id # NoScript /\ client[c] \in Pages /\ client \in [Clients -> Pages]
  BY <1>1, BusyHasScript DEF LeaseInv
<1>3. CASE Ending(c)
  BY <1>1, <1>2, <1>3, EndingLease
<1>4. CASE ~Ending(c)
  <2> DEFINE page == [client[c] EXCEPT !.phase = "running", !.reply = "none"]
  <2>1. page.id = client[c].id
    BY <1>2 DEF Pages
  <2>2. client' = [client EXCEPT ![c] = page] /\ UNCHANGED ipc /\ GoesOn(c)
    BY <1>2, <1>4 DEF BeginAnswered, GoesOn
  <2> HIDE DEF page
  <2> QED
    BY <1>1, <1>2, <2>1, <2>2, PageLease
<1> QED
  BY <1>3, <1>4

LEMMA ActLease == ASSUME LeaseInv, MachineInv', NEW c \in Clients, Act(c) PROVE LeaseInv'
<1> DEFINE page == [client[c] EXCEPT !.acting = TRUE]
<1>1. client[c].id # NoScript /\ client[c] \in Pages /\ client \in [Clients -> Pages]
      /\ GoesOn(c)
  BY BusyHasScript DEF Act, LeaseInv, GoesOn
<1>2. client' = [client EXCEPT ![c] = page]
  BY <1>1 DEF Act
<1>3. page.id = client[c].id
  BY <1>1, PageFields
<1>4. Sent(c, "call") /\ UNCHANGED <<scripts, mainVars, answered>>
  BY DEF Act
<1> HIDE DEF page
<1> QED
  BY <1>1, <1>2, <1>3, <1>4, PageLease

LEMMA ScriptEndsLease ==
  ASSUME LeaseInv, MachineInv', NEW c \in Clients, ScriptEnds(c) PROVE LeaseInv'
<1>1. client[c].phase = "running" /\ Ending(c) /\ UNCHANGED <<scripts, mainVars, answered>>
  BY DEF ScriptEnds
<1> QED
  BY <1>1, BusyHasScript, EndingLease DEF LeaseInv

LEMMA CancelledLease ==
  ASSUME LeaseInv, MachineInv', NEW c \in Clients, CancelScript(c) \/ ScriptTimeout(c)
  PROVE  LeaseInv'
<1> DEFINE page == [client[c] EXCEPT !.cancelled = TRUE]
<1>1. client[c].id # NoScript /\ client[c] \in Pages /\ client \in [Clients -> Pages]
  BY BusyHasScript DEF LeaseInv, CancelScript, ScriptTimeout
<1>2. client' = [client EXCEPT ![c] = page] /\ UNCHANGED <<scripts, mainVars, answered>>
      /\ (UNCHANGED ipc \/ Sent(c, "cancel"))
  BY <1>1 DEF CancelScript, ScriptTimeout
<1>3. page.id = client[c].id /\ page.phase = client[c].phase /\ page.reply = client[c].reply
  BY <1>1, PageFields
<1> HIDE DEF page
<1>4. page.reply = "ok" \/ page.phase = "running" => GoesOn(c)
  BY <1>3 DEF GoesOn
<1> QED
  BY <1>1, <1>2, <1>3, <1>4, PageLease
\* A page is told something: it goes on if it did, or is told that it may.
LEMMA RepliedLease ==
  ASSUME MachineInv, NEW c \in Clients, NEW id, NEW reply, Replied(c, id, reply)
  PROVE  \A d \in Clients :
           /\ client'[d].id = client[d].id
           /\ GoesOn(d)' => GoesOn(d) \/ (reply = "ok" /\ client[d].id = id)
<1>1. client \in [Clients -> Pages]
  BY MachineTypeNow DEF MachineInv
<1>2. CASE client[c].id = id
  <2> DEFINE page == [client[c] EXCEPT !.reply = reply]
  <2>1. client[c] \in Pages /\ client' = [client EXCEPT ![c] = page]
    BY <1>1, <1>2 DEF Replied
  <2>2. page.id = client[c].id /\ page.phase = client[c].phase /\ page.reply = reply
    BY <2>1 DEF Pages
  <2> HIDE DEF page
  <2>3. \A d \in Clients : client'[d] = IF d = c THEN page ELSE client[d]
    BY <1>1, <2>1
  <2> QED
    BY <1>2, <2>2, <2>3 DEF GoesOn
<1>3. CASE client[c].id # id
  BY <1>3 DEF Replied, GoesOn
<1> QED
  BY <1>2, <1>3

\* An action returns to the pages of S.
LEMMA ActingLease ==
  ASSUME MachineInv, NEW S,
         client' = [c \in Clients |-> IF c \in S THEN [client[c] EXCEPT !.acting = FALSE]
                                                 ELSE client[c]]
  PROVE  \A d \in Clients : client'[d].id = client[d].id /\ (GoesOn(d)' => GoesOn(d))
<1>1. client \in [Clients -> Pages]
  BY MachineTypeNow DEF MachineInv
<1>2. ASSUME NEW r \in Pages
      PROVE  /\ [r EXCEPT !.acting = FALSE].id = r.id
             /\ [r EXCEPT !.acting = FALSE].phase = r.phase
             /\ [r EXCEPT !.acting = FALSE].reply = r.reply
  BY DEF Pages
<1>3. \A d \in Clients : /\ client[d] \in Pages
                         /\ client'[d] = IF d \in S THEN [client[d] EXCEPT !.acting = FALSE]
                                                    ELSE client[d]
  BY <1>1
<1>4. \A d \in Clients : /\ client'[d].id = client[d].id /\ client'[d].phase = client[d].phase
                         /\ client'[d].reply = client[d].reply
  BY <1>2, <1>3
<1> QED
  BY <1>4 DEF GoesOn

\* A call is taken off its way.
LEMMA TakenActs ==
  ASSUME MachineInv, NEW c \in Clients, ipc[c] # <<>>, ipc' = [ipc EXCEPT ![c] = Tail(@)]
  PROVE  /\ \A d \in Clients : Begins(ipc'[d]) \subseteq Begins(ipc[d])
         /\ \A d \in Clients : Acts(ipc'[d]) \subseteq Acts(ipc[d])
         /\ Head(ipc[c])[1] = "call" => Head(ipc[c])[2] \in Acts(ipc[c])
<1>1. ipc \in [Clients -> Seq(Messages)]
  BY DEF MachineInv, ComputerTypeOK
<1>2. \A d \in Clients : ipc'[d] = IF d = c THEN Tail(ipc[c]) ELSE ipc[d]
  BY <1>1
<1>3. /\ Acts(Tail(ipc[c])) \subseteq Acts(ipc[c])
      /\ Head(ipc[c])[1] = "call" => Head(ipc[c])[2] \in Acts(ipc[c])
  BY <1>1, ActsTail
<1> QED
  BY <1>2, <1>3, TakenCalls

\* A step of the main process after which no page goes on that did not.
LEMMA MainLease ==
  ASSUME LeaseInv, MachineInv', UNCHANGED <<driver, scripts>>,
         lease'.id \in {lease.id, NoScript},
         UNCHANGED ipc \/ \E c \in Clients : ipc[c] # <<>> /\ ipc' = [ipc EXCEPT ![c] = Tail(@)],
         \A d \in Clients : client'[d].id = client[d].id /\ (GoesOn(d)' => GoesOn(d))
  PROVE  LeaseInv'
<1>1. MachineInv
  BY DEF LeaseInv
<1>2. \A d \in Clients : /\ Begins(ipc'[d]) \subseteq Begins(ipc[d])
                         /\ Acts(ipc'[d]) \subseteq Acts(ipc[d]) \union Working
  BY <1>1, TakenActs
<1>3. \A d \in Clients : GoesOn(d)' => client'[d].id \in Working
  BY DEF LeaseInv, ActsOnDriver
<1> QED
  BY <1>2, <1>3, SameDrivers

LEMMA SameClient == UNCHANGED client =>
  \A d \in Clients : client'[d].id = client[d].id /\ (GoesOn(d)' => GoesOn(d))
  BY DEF GoesOn

LEMMA CallLease ==
  ASSUME LeaseInv, MachineInv', NEW c \in Clients, ipc[c] # <<>>,
         ipc' = [ipc EXCEPT ![c] = Tail(@)], NEW id, Call(c, id), UNCHANGED <<scripts, answered>>
  PROVE  LeaseInv'
<1>1. UNCHANGED <<lease, driver>> /\ client \in [Clients -> Pages] /\ MachineInv
  BY MachineTypeNow DEF MachineInv, LeaseInv, Call
<1>2. CASE UNCHANGED client
  BY <1>1, <1>2, SameClient, MainLease
<1>3. CASE client' = [client EXCEPT ![c].acting = FALSE]
  <2>1. client' = [d \in Clients |->
          IF d \in {c} THEN [client[d] EXCEPT !.acting = FALSE] ELSE client[d]]
    BY <1>1, <1>3
  <2>2. \A d \in Clients : client'[d].id = client[d].id /\ (GoesOn(d)' => GoesOn(d))
    BY <1>1, <2>1, ActingLease
  <2> QED
    BY <1>1, <2>2, MainLease
<1> QED
  BY <1>2, <1>3 DEF Call

LEMMA CancelLease ==
  ASSUME LeaseInv, MachineInv', NEW c \in Clients, ipc[c] # <<>>,
         ipc' = [ipc EXCEPT ![c] = Tail(@)], NEW id, Cancel(c, id), UNCHANGED <<scripts, answered>>
  PROVE  LeaseInv'
<1>1. UNCHANGED <<client, driver>> /\ MachineInv
  BY DEF Cancel, LeaseInv
<1>2. lease'.id = lease.id
  BY <1>1, ClosingKeeps DEF Cancel
<1> QED
  BY <1>1, <1>2, SameClient, MainLease

LEMMA EndLease ==
  ASSUME LeaseInv, MachineInv', NEW c \in Clients, ipc[c] # <<>>,
         ipc' = [ipc EXCEPT ![c] = Tail(@)], NEW id, End(c, id), UNCHANGED <<scripts, answered>>
  PROVE  LeaseInv'
<1>1. UNCHANGED driver /\ MachineInv /\ lease \in Leases
  BY MachineTypeNow DEF End, LeaseInv, MachineInv
<1>2. lease'.id = lease.id
  BY <1>1 DEF End, Leases
<1>3. \A d \in Clients : client'[d].id = client[d].id /\ (GoesOn(d)' => GoesOn(d))
  BY <1>1, SameClient, RepliedLease DEF End
<1> QED
  BY <1>1, <1>2, <1>3, MainLease

\* The driver of a script that asks for the machine is made.
LEMMA BeginLease ==
  ASSUME LeaseInv, MachineInv', NEW c \in Clients, ipc[c] # <<>>,
         ipc' = [ipc EXCEPT ![c] = Tail(@)], Head(ipc[c])[1] = "begin",
         Begin(c, Head(ipc[c])[2]), UNCHANGED <<scripts, answered>>
  PROVE  LeaseInv'
<1> DEFINE id == Head(ipc[c])[2]
<1>1. /\ MachineInv /\ driver \in [Scripts -> DriverStates] /\ lease \in Leases
      /\ id \in 1..scripts /\ id \in Scripts /\ id # NoScript /\ id \in Begins(ipc[c])
      /\ id \notin Begins(ipc'[c])
  BY MachineTypeNow, TakenCalls, IdsAreScripts DEF MachineInv, LeaseInv
<1>2. CASE lease.id # NoScript
  <2>1. Replied(c, id, "failed") /\ UNCHANGED <<lease, driver>>
    BY <1>2 DEF Begin
  <2>2. \A d \in Clients : client'[d].id = client[d].id /\ (GoesOn(d)' => GoesOn(d))
    BY <1>1, <2>1, RepliedLease
  <2> QED
    BY <2>1, <2>2, MainLease
<1>3. CASE lease.id = NoScript
  <2>1. /\ lease'.id = id /\ UNCHANGED client
        /\ \A i \in Scripts : driver'[i] = IF i = id THEN "checking" ELSE driver[i]
    BY <1>1, <1>3 DEF Begin, NoLease
  <2>2. driver[id] = "none"
    BY <1>1 DEF LeaseInv, Unasked, Unused
  <2>3. Working' = Working /\ Unused \ {id} \subseteq Unused'
    BY <2>1, <2>2 DEF Working, Unused
  <2>4. \A d \in Clients : id \notin Begins(ipc'[d])
    <3> HIDE DEF id
    <3>0. id \in Ids(ipc[c])
      BY <1>1, BeginsAreIds
    <3>1. \A d \in Clients : d # c => id \notin Ids(ipc[d])
      BY <1>1, <3>0, OwnCall
    <3>2. \A d \in Clients : Begins(ipc'[d]) \subseteq Begins(ipc[d])
      BY <1>1, TakenCalls
    <3> QED
      BY <1>1, <3>1, <3>2, BeginsAreIds
  <2>5. Unasked'
    <3>1. id \notin (scripts + 1)..MaxScripts
      BY <1>1, MachineTypeNow DEF MachineInv
    <3>2. \A d \in Clients : Begins(ipc'[d]) \subseteq Begins(ipc[d])
      BY <1>1, TakenCalls
    <3> HIDE DEF id
    <3> QED
      BY <2>3, <2>4, <3>1, <3>2 DEF LeaseInv, Unasked
  <2>6. HolderDriven'
    BY <1>1, <2>1 DEF HolderDriven
  <2>7. ActsOnDriver'
    BY <1>1, <2>1, <2>3, TakenActs DEF LeaseInv, ActsOnDriver, GoesOn
  <2> QED
    BY <2>5, <2>6, <2>7 DEF LeaseInv
<1> QED
  BY <1>2, <1>3

LEMMA DeliverLease ==
  ASSUME LeaseInv, MachineInv', NEW c \in Clients, Deliver(c) PROVE LeaseInv'
<1>1. /\ ipc[c] # <<>> /\ ipc' = [ipc EXCEPT ![c] = Tail(@)]
      /\ UNCHANGED <<scripts, answered>>
  BY DEF Deliver
<1>2. \/ Head(ipc[c])[1] = "begin" /\ Begin(c, Head(ipc[c])[2])
      \/ Call(c, Head(ipc[c])[2])
      \/ Cancel(c, Head(ipc[c])[2])
      \/ End(c, Head(ipc[c])[2])
  BY DEF Deliver
<1> QED
  BY <1>1, <1>2, BeginLease, CallLease, CancelLease, EndLease

\* A driver that is being made lives in the end or does not.
LEMMA DriverLease ==
  ASSUME LeaseInv, MachineInv', NEW id \in Scripts, NEW yes \in BOOLEAN,
         Available(id, yes) \/ Created(id, yes)
  PROVE  LeaseInv'
<1>1. PICK state \in {"creating", "failed", "live"} : driver' = [driver EXCEPT ![id] = state]
  BY DEF Available, Created
<1>2. /\ UNCHANGED <<client, ipc, scripts, lease>> /\ driver[id] \in {"checking", "creating"}
      /\ driver \in [Scripts -> DriverStates]
  BY MachineTypeNow DEF Available, Created, LeaseInv, MachineInv
<1>3. \A i \in Scripts : driver'[i] = IF i = id THEN state ELSE driver[i]
  BY <1>1, <1>2
<1>4. Unused' = Unused /\ Working \subseteq Working'
  BY <1>2, <1>3 DEF Unused, Working
<1>5. Unasked'
  BY <1>2, <1>4 DEF LeaseInv, Unasked
<1>6. HolderDriven'
  BY <1>2, <1>3 DEF LeaseInv, HolderDriven
<1>7. ActsOnDriver'
  BY <1>2, <1>4 DEF LeaseInv, ActsOnDriver, GoesOn
<1> QED
  BY <1>5, <1>6, <1>7 DEF LeaseInv

\* A script is told to go on when its driver lives.
LEMMA BegunLease ==
  ASSUME LeaseInv, MachineInv', NEW listed \in BOOLEAN, Begun(listed) PROVE LeaseInv'
<1>1. /\ MachineInv /\ lease \in Leases /\ lease.id # NoScript /\ lease.owner \in Clients
      /\ lease.id \in Scripts
      /\ UNCHANGED <<ipc, scripts, driver, aborted, calls, answered>>
  BY MachineTypeNow DEF MachineInv, LeaseInv, HolderDriven, Begun
<1>2. lease'.id = lease.id
  BY <1>1 DEF Begun, Leases
<1>3. CASE UNCHANGED client
  BY <1>1, <1>2, <1>3, SameClient, MainLease
<1>4. CASE driver[lease.id] = "live" /\ Replied(lease.owner, lease.id, "ok")
  <2>1. lease.id \in Working
    BY <1>1, <1>4 DEF Working
  <2>2. \A d \in Clients : GoesOn(d)' => client'[d].id \in Working
    BY <1>1, <1>4, <2>1, RepliedLease DEF LeaseInv, ActsOnDriver
  <2> QED
    BY <1>1, <1>2, <2>2, SameDrivers
<1> QED
  BY <1>3, <1>4 DEF Begun

LEMMA CallReturnsLease ==
  ASSUME LeaseInv, MachineInv', NEW id, CallReturns(id) PROVE LeaseInv'
<1> DEFINE S == {c \in Clients : client[c].id = id /\ client[c].phase = "running"}
<1>1. client' = [c \in Clients |->
            IF c \in S THEN [client[c] EXCEPT !.acting = FALSE] ELSE client[c]]
  BY DEF CallReturns
<1> HIDE DEF S
<1>2. \A d \in Clients : client'[d].id = client[d].id /\ (GoesOn(d)' => GoesOn(d))
  BY <1>1, ActingLease DEF LeaseInv
<1> QED
  BY <1>2, MainLease DEF CallReturns

LEMMA TimeoutLease == ASSUME LeaseInv, MachineInv', LeaseTimeout PROVE LeaseInv'
<1>1. UNCHANGED <<client, ipc, scripts, driver>> /\ Closing /\ MachineInv
  BY DEF LeaseTimeout, LeaseInv
<1>2. lease'.id = lease.id
  BY <1>1, ClosingKeeps
<1> QED
  BY <1>1, <1>2, SameClient, MainLease

\* A page that is left, or whose run was answered, does not go on.
LEMMA LeftLease ==
  ASSUME LeaseInv, MachineInv', NEW c \in Clients, Gone(c) \/ EndAnswered(c) PROVE LeaseInv'
<1>1. /\ UNCHANGED <<ipc, scripts, driver>> /\ MachineInv
      /\ client' = [client EXCEPT ![c] = NoClient] /\ client \in [Clients -> Pages]
  BY MachineTypeNow DEF LeaseInv, MachineInv, Gone, EndAnswered, mainVars
<1>2. lease'.id = lease.id
  BY <1>1, ClosingKeeps DEF Gone, EndAnswered, mainVars
<1>3. \A d \in Clients : GoesOn(d)' => client'[d].id \in Working
  <2>1. \A d \in Clients : client'[d] = IF d = c THEN NoClient ELSE client[d]
    BY <1>1
  <2> QED
    BY <2>1 DEF LeaseInv, ActsOnDriver, GoesOn, NoClient
<1> QED
  BY <1>1, <1>2, <1>3, SameDrivers

\* The driver of the lease is closed, or there was none.
LEMMA CloseLease == ASSUME LeaseInv, MachineInv', Close PROVE LeaseInv'
<1>1. /\ MachineInv /\ lease.id # NoScript /\ lease.owner \in Clients
      /\ driver \in [Scripts -> DriverStates]
      /\ lease' = NoLease /\ driver' = [driver EXCEPT ![lease.id] = "closed"]
      /\ driver[lease.id] \in {"live", "failed"}
      /\ UNCHANGED <<ipc, scripts, aborted, calls, answered>>
  BY MachineTypeNow DEF LeaseInv, MachineInv, LeaseIsOpen, Close
<1>2. /\ \A i \in Scripts : driver'[i] = IF i = lease.id THEN "closed" ELSE driver[i]
      /\ lease.id \in Scripts
  BY <1>1 DEF LeaseInv, HolderDriven
<1>3. Unused' = Unused /\ Working \subseteq Working'
  BY <1>1, <1>2 DEF Unused, Working
<1>4. \/ UNCHANGED client
      \/ \E reply \in {"ended", "failed"} : Replied(lease.owner, lease.id, reply)
  BY DEF Close
<1>5. \A d \in Clients : client'[d].id = client[d].id /\ (GoesOn(d)' => GoesOn(d))
  BY <1>1, <1>4, SameClient, RepliedLease
<1>6. Unasked'
  BY <1>1, <1>3 DEF LeaseInv, Unasked
<1>7. HolderDriven'
  BY <1>1 DEF HolderDriven, NoLease
<1>8. ActsOnDriver'
  BY <1>1, <1>3, <1>5 DEF LeaseInv, ActsOnDriver
<1> QED
  BY <1>6, <1>7, <1>8 DEF LeaseInv

\* A new script has no driver and asks for one.
LEMMA RunLease == ASSUME LeaseInv, MachineInv', NEW c \in Clients, Run(c) PROVE LeaseInv'
<1> DEFINE n == scripts + 1
           call == <<"begin", n>>
           page == [NoClient EXCEPT !.phase = "beginning", !.id = n]
           q == Append(ipc[c], call)
<1>1. /\ scripts' = n /\ scripts < MaxScripts /\ scripts \in Nat /\ MaxScripts \in Nat
      /\ MachineInv /\ UNCHANGED <<lease, driver, aborted, calls, answered>>
      /\ client' = [client EXCEPT ![c] = page] /\ ipc' = [ipc EXCEPT ![c] = q]
      /\ client \in [Clients -> Pages] /\ ipc \in [Clients -> Seq(Messages)]
  BY MachineTypeNow, MaxScriptsAssumption DEF LeaseInv, MachineInv, Run, mainVars
<1>2. page.phase = "beginning" /\ page.reply = "none"
  BY DEF NoClient
<1>3. ipc[c] \in Seq(Messages \union {call}) /\ call \in Messages \union {call}
      /\ call[1] = "begin" /\ call[2] = n
  BY <1>1, SeqMonotonic
<1> HIDE DEF call
<1>4. Acts(q) = Acts(ipc[c]) /\ Begins(q) = Begins(ipc[c]) \union {n}
  BY <1>3, ActsAppend, OnAppend
<1> HIDE DEF q, page
<1>5. \A d \in Clients : /\ client'[d] = IF d = c THEN page ELSE client[d]
                         /\ ipc'[d] = IF d = c THEN q ELSE ipc[d]
  BY <1>1
<1>6. Unused' = Unused /\ Working' = Working /\ n \in Unused
  <2>1. n \in (scripts + 1)..MaxScripts
    BY <1>1
  <2> QED
    BY <1>1, <2>1 DEF LeaseInv, Unasked, Unused, Working
<1>7. Unasked'
  <2>1. (scripts' + 1)..MaxScripts \subseteq (scripts + 1)..MaxScripts
    BY <1>1
  <2>2. \A d \in Clients : Begins(ipc'[d]) \subseteq Begins(ipc[d]) \union {n}
    BY <1>4, <1>5
  <2> HIDE DEF n
  <2> QED
    BY <1>6, <2>1, <2>2 DEF LeaseInv, Unasked
<1>8. HolderDriven'
  BY <1>1 DEF LeaseInv, HolderDriven
<1>9. ActsOnDriver'
  BY <1>2, <1>4, <1>5, <1>6 DEF LeaseInv, ActsOnDriver, GoesOn
<1> QED
  BY <1>7, <1>8, <1>9 DEF LeaseInv

LEMMA StutterLease == ASSUME LeaseInv, MachineInv', UNCHANGED computerVars PROVE LeaseInv'
<1>1. UNCHANGED <<client, ipc, scripts, lease, driver>>
  BY DEF computerVars, mainVars
<1> QED
  BY <1>1, SameClient, MainLease

LEMMA LeaseNext == LeaseInv /\ [ComputerNext]_computerVars => LeaseInv'
<1> SUFFICES ASSUME LeaseInv, [ComputerNext]_computerVars PROVE LeaseInv'
  OBVIOUS
<1>1. MachineInv'
  BY MachineNext DEF LeaseInv
<1>2. ASSUME NEW c \in Clients,
             \/ Run(c) \/ BeginAnswered(c) \/ Act(c) \/ ScriptEnds(c) \/ CancelScript(c)
             \/ ScriptTimeout(c) \/ EndAnswered(c) \/ Deliver(c) \/ Gone(c)
      PROVE  LeaseInv'
  BY <1>1, <1>2, RunLease, BeginAnsweredLease, ActLease, ScriptEndsLease, CancelledLease,
     LeftLease, DeliverLease
<1>3. ASSUME NEW id \in Scripts, NEW yes \in BOOLEAN, Available(id, yes) \/ Created(id, yes)
      PROVE  LeaseInv'
  BY <1>1, <1>3, DriverLease
<1>4. ASSUME NEW id, CallReturns(id) PROVE LeaseInv'
  BY <1>1, <1>4, CallReturnsLease
<1>5. ASSUME NEW listed \in BOOLEAN, Begun(listed) PROVE LeaseInv'
  BY <1>1, <1>5, BegunLease
<1>6. ASSUME Close \/ LeaseTimeout PROVE LeaseInv'
  BY <1>1, <1>6, CloseLease, TimeoutLease
<1>7. ASSUME UNCHANGED computerVars PROVE LeaseInv'
  BY <1>1, <1>7, StutterLease
<1> QED
  BY <1>2, <1>3, <1>4, <1>5, <1>6, <1>7 DEF ComputerNext, ComputerSystem
-----------------------------------------------------------------------------
(* Every step is one the lease promises, or none *)

Ready == {i \in Scripts : driver[i] = "live"}
Over == {i \in Scripts : driver[i] # "none" /\ (lease.id # i \/ lease.closing)}

LEMMA NothingSeen ==
  ASSUME UNCHANGED <<lease, driver, calls, answered>>
  PROVE  UNCHANGED Machine!leaseVars
  BY DEF Machine!leaseVars

\* A lease that stays, and closes or stays as it is.
LEMMA LeaseCloses ==
  ASSUME LeaseInv, UNCHANGED <<driver, calls, answered>>, lease'.id = lease.id,
         lease.id # NoScript, lease'.closing
  PROVE  Machine!Next
<1>1. lease.id \in Scripts /\ driver[lease.id] # "none"
  BY DEF LeaseInv, HolderDriven
<1>2. Over' = Over \union {lease.id} /\ Ready' = Ready
  BY <1>1 DEF Over, Ready
<1>3. Machine!GiveUp
  BY <1>2 DEF Machine!GiveUp, Over, Ready
<1> QED
  BY <1>3 DEF Machine!Next

LEMMA LeaseStays ==
  ASSUME UNCHANGED <<driver, calls, answered>>, lease'.id = lease.id,
         lease'.closing = lease.closing
  PROVE  UNCHANGED Machine!leaseVars
  BY DEF Machine!leaseVars

\* Nothing acts but for the script that has the machine.
LEMMA HolderActs ==
  ASSUME LeaseInv
  PROVE  /\ calls \subseteq Scripts /\ \A i \in calls : i = lease.id
         /\ Ready \subseteq {lease.id}
<1>1. calls \subseteq Scripts
  BY MachineTypeNow, MaxScriptsAssumption DEF LeaseInv, MachineInv, Scripts
<1> QED
  BY <1>1 DEF LeaseInv, MachineInv, OneScriptControls, Ready

LEMMA BeginTakes ==
  ASSUME LeaseInv, NEW c \in Clients, ipc[c] # <<>>, ipc' = [ipc EXCEPT ![c] = Tail(@)],
         Head(ipc[c])[1] = "begin", Begin(c, Head(ipc[c])[2]), UNCHANGED <<scripts, answered>>
  PROVE  Machine!Next \/ UNCHANGED Machine!leaseVars
<1> DEFINE id == Head(ipc[c])[2]
<1>1. /\ MachineInv /\ driver \in [Scripts -> DriverStates]
      /\ id \in Scripts /\ id # NoScript /\ id \in Begins(ipc[c])
  BY MachineTypeNow, TakenCalls, IdsAreScripts DEF MachineInv, LeaseInv
<1>2. CASE lease.id # NoScript
  BY <1>2, NothingSeen DEF Begin
<1>3. CASE lease.id = NoScript
  <2>1. /\ lease'.id = id /\ lease'.closing = FALSE /\ UNCHANGED calls
        /\ \A i \in Scripts : driver'[i] = IF i = id THEN "checking" ELSE driver[i]
    BY <1>1, <1>3 DEF Begin, NoLease
  <2>2. driver[id] = "none" /\ id \notin answered
    BY <1>1 DEF LeaseInv, Unasked, Unused, MachineInv, AskedOnce
  <2> HIDE DEF id
  <2>3. Ready' = Ready
    BY <2>1, <2>2 DEF Ready
  <2>4. id \notin Over /\ Over' = Over
    <3>1. \A i \in Scripts : i # NoScript
      BY MaxScriptsAssumption DEF Scripts, NoScript
    <3> QED
      BY <1>1, <1>3, <2>1, <2>2, <3>1 DEF Over
  <2>5. Machine!Take(id)
    BY <1>3, <2>1, <2>2, <2>3, <2>4 DEF Machine!Take, Over, Ready
  <2> QED
    BY <1>1, <2>5 DEF Machine!Next
<1> QED
  BY <1>2, <1>3

\* An action reaches the driver of the script that has the machine, and keeps it.
LEMMA CallActs ==
  ASSUME LeaseInv, NEW c \in Clients, ipc[c] # <<>>, Head(ipc[c])[1] = "call",
         ipc' = [ipc EXCEPT ![c] = Tail(@)], Call(c, Head(ipc[c])[2]), UNCHANGED answered
  PROVE  Machine!Next \/ UNCHANGED Machine!leaseVars
<1> DEFINE id == Head(ipc[c])[2]
<1>1. UNCHANGED <<lease, driver>>
  BY DEF Call
<1>2. CASE UNCHANGED calls
  BY <1>1, <1>2, NothingSeen
<1>3. CASE ~UNCHANGED calls
  <2>1. /\ lease.id = id /\ id \notin calls /\ ~lease.closing /\ calls' = calls \union {id}
    BY <1>3 DEF Call, Owned
  <2>2. id \in Working
    BY TakenActs DEF LeaseInv, ActsOnDriver
  <2> HIDE DEF id
  <2>3. id # NoScript
    BY <2>2, MaxScriptsAssumption DEF Working, Scripts, NoScript
  <2>4. id \in Ready /\ id \notin Over
    BY <2>1, <2>2, <2>3 DEF LeaseInv, HolderDriven, Working, Ready, Over
  <2>5. calls = {} /\ calls' = {id}
    BY <2>1, HolderActs
  <2>6. Machine!Act
    BY <1>1, <2>1, <2>4, <2>5 DEF Machine!Act, Ready, Over
  <2> QED
    BY <2>6 DEF Machine!Next
<1> QED
  BY <1>2, <1>3

LEMMA CancelGivesUp ==
  ASSUME LeaseInv, NEW c \in Clients, ipc[c] # <<>>, ipc' = [ipc EXCEPT ![c] = Tail(@)],
         Cancel(c, Head(ipc[c])[2]), UNCHANGED answered
  PROVE  Machine!Next \/ UNCHANGED Machine!leaseVars
<1>1. MachineInv /\ lease \in Leases /\ UNCHANGED <<driver, calls>>
  BY MachineTypeNow DEF LeaseInv, MachineInv, Cancel
<1>2. Head(ipc[c])[2] # NoScript
  BY <1>1, TakenCalls, IdsAreScripts
<1>3. CASE UNCHANGED lease
  BY <1>1, <1>3, NothingSeen
<1>4. CASE Closing /\ lease.id # NoScript
  <2>1. lease'.id = lease.id /\ lease'.closing
    BY <1>1, <1>4 DEF Closing, Leases
  <2> QED
    BY <1>1, <1>4, <2>1, LeaseCloses
<1> QED
  BY <1>2, <1>3, <1>4 DEF Cancel, Owned

LEMMA EndGivesUp ==
  ASSUME LeaseInv, NEW c \in Clients, ipc[c] # <<>>, ipc' = [ipc EXCEPT ![c] = Tail(@)],
         End(c, Head(ipc[c])[2]), UNCHANGED answered
  PROVE  Machine!Next \/ UNCHANGED Machine!leaseVars
<1>1. MachineInv /\ lease \in Leases /\ UNCHANGED <<driver, calls>>
  BY MachineTypeNow DEF LeaseInv, MachineInv, End
<1>2. Head(ipc[c])[2] # NoScript
  BY <1>1, TakenCalls, IdsAreScripts
<1>3. CASE UNCHANGED lease
  BY <1>1, <1>3, NothingSeen
<1>4. CASE lease.id # NoScript /\ lease' = [lease EXCEPT !.closing = TRUE, !.awaited = TRUE]
  <2>1. lease'.id = lease.id /\ lease'.closing
    BY <1>1, <1>4 DEF Leases
  <2> QED
    BY <1>1, <1>4, <2>1, LeaseCloses
<1> QED
  BY <1>2, <1>3, <1>4 DEF End, Owned

LEMMA DeliverPromised ==
  ASSUME LeaseInv, NEW c \in Clients, Deliver(c)
  PROVE  Machine!Next \/ UNCHANGED Machine!leaseVars
<1>1. /\ ipc[c] # <<>> /\ ipc' = [ipc EXCEPT ![c] = Tail(@)]
      /\ UNCHANGED <<scripts, answered>>
  BY DEF Deliver
<1>2. \/ Head(ipc[c])[1] = "begin" /\ Begin(c, Head(ipc[c])[2])
      \/ Head(ipc[c])[1] = "call" /\ Call(c, Head(ipc[c])[2])
      \/ Cancel(c, Head(ipc[c])[2])
      \/ End(c, Head(ipc[c])[2])
  BY DEF Deliver
<1> QED
  BY <1>1, <1>2, BeginTakes, CallActs, CancelGivesUp, EndGivesUp

\* A driver lives only for the script that has the machine.
LEMMA DriverPromised ==
  ASSUME LeaseInv, NEW id \in Scripts, NEW yes \in BOOLEAN, Available(id, yes) \/ Created(id, yes)
  PROVE  Machine!Next \/ UNCHANGED Machine!leaseVars
<1>1. PICK state \in {"creating", "failed", "live"} : driver' = [driver EXCEPT ![id] = state]
  BY DEF Available, Created
<1>2. /\ UNCHANGED <<lease, calls, answered>> /\ driver[id] \in {"checking", "creating"}
      /\ driver \in [Scripts -> DriverStates]
  BY MachineTypeNow DEF Available, Created, LeaseInv, MachineInv
<1>3. \A i \in Scripts : driver'[i] = IF i = id THEN state ELSE driver[i]
  BY <1>1, <1>2
<1>4. lease.id = id /\ id # NoScript
  BY <1>2, MaxScriptsAssumption DEF LeaseInv, MachineInv, OneScriptControls, Scripts, NoScript
<1>5. Over' = Over
  BY <1>2, <1>3 DEF Over
<1>6. CASE state = "live"
  <2>1. Ready' = Ready \union {id}
    BY <1>3, <1>6 DEF Ready
  <2>2. Machine!DriverStarts
    BY <1>2, <1>4, <1>5, <2>1 DEF Machine!DriverStarts, Ready, Over
  <2> QED
    BY <2>2 DEF Machine!Next
<1>7. CASE state # "live"
  <2>1. Ready' = Ready
    BY <1>2, <1>3, <1>7 DEF Ready
  <2> QED
    BY <1>2, <1>5, <2>1 DEF Machine!leaseVars, Ready, Over
<1> QED
  BY <1>6, <1>7

LEMMA BegunPromised ==
  ASSUME LeaseInv, NEW listed \in BOOLEAN, Begun(listed)
  PROVE  Machine!Next \/ UNCHANGED Machine!leaseVars
<1>1. lease \in Leases /\ lease.id # NoScript /\ UNCHANGED <<driver, calls, answered>>
  BY MachineTypeNow DEF LeaseInv, MachineInv, Begun
<1>2. CASE lease' = [lease EXCEPT !.begun = TRUE]
  BY <1>1, <1>2, LeaseStays DEF Leases
<1>3. CASE lease' = [lease EXCEPT !.begun = TRUE, !.closing = TRUE]
  <2>1. lease'.id = lease.id /\ lease'.closing
    BY <1>1, <1>3 DEF Leases
  <2> QED
    BY <1>1, <2>1, LeaseCloses
<1> QED
  BY <1>2, <1>3 DEF Begun

LEMMA CallReturnsPromised ==
  ASSUME LeaseInv, NEW id, CallReturns(id) PROVE Machine!Next
<1>1. calls' = calls \ {id} /\ id \in calls /\ UNCHANGED <<lease, driver, answered>>
  BY DEF CallReturns
<1>2. calls' = {}
  BY <1>1, HolderActs
<1>3. Machine!ActionEnds
  BY <1>1, <1>2 DEF Machine!ActionEnds
<1> QED
  BY <1>3 DEF Machine!Next

LEMMA TimeoutGivesUp == ASSUME LeaseInv, LeaseTimeout PROVE Machine!Next
<1>1. UNCHANGED <<driver, calls, answered>> /\ Closing /\ lease.id # NoScript /\ lease \in Leases
  BY MachineTypeNow DEF LeaseTimeout, LeaseInv, MachineInv
<1>2. lease'.id = lease.id /\ lease'.closing
  BY <1>1 DEF Closing, Leases
<1> QED
  BY <1>1, <1>2, LeaseCloses

LEMMA GoneGivesUp ==
  ASSUME LeaseInv, NEW c \in Clients, Gone(c)
  PROVE  Machine!Next \/ UNCHANGED Machine!leaseVars
<1>1. UNCHANGED <<driver, calls, answered>> /\ lease \in Leases
  BY MachineTypeNow DEF Gone, LeaseInv, MachineInv
<1>2. CASE UNCHANGED lease
  BY <1>1, <1>2, NothingSeen
<1>3. CASE Closing /\ lease.id # NoScript
  <2>1. lease'.id = lease.id /\ lease'.closing
    BY <1>1, <1>3 DEF Closing, Leases
  <2> QED
    BY <1>1, <1>3, <2>1, LeaseCloses
<1> QED
  BY <1>2, <1>3 DEF Gone

\* The machine is free again when the last action is over and the driver closed.
LEMMA CloseFrees == ASSUME LeaseInv, Close PROVE Machine!Next
<1>1. /\ lease.closing /\ lease.id # NoScript /\ lease.id \notin calls
      /\ driver \in [Scripts -> DriverStates]
      /\ lease' = NoLease /\ driver' = [driver EXCEPT ![lease.id] = "closed"]
      /\ UNCHANGED <<calls, answered>>
  BY MachineTypeNow DEF LeaseInv, MachineInv, LeaseIsOpen, Close
<1>2. /\ \A i \in Scripts : driver'[i] = IF i = lease.id THEN "closed" ELSE driver[i]
      /\ lease.id \in Scripts /\ driver[lease.id] # "none" /\ lease'.id = NoScript
  BY <1>1 DEF LeaseInv, HolderDriven, NoLease
<1>3. \A i \in Scripts : i # NoScript
  BY MaxScriptsAssumption DEF Scripts, NoScript
<1>4. Ready' = Ready \ {lease.id}
  BY <1>2 DEF Ready
<1>5. Over' = Over /\ lease.id \in Over
  BY <1>1, <1>2, <1>3 DEF Over
<1>6. calls = {}
  BY <1>1, HolderActs
<1>7. Machine!Free
  BY <1>1, <1>2, <1>4, <1>5, <1>6 DEF Machine!Free, Ready, Over
<1> QED
  BY <1>7 DEF Machine!Next

\* A run is answered when its script has the machine no more.
LEMMA EndAnsweredTells == ASSUME LeaseInv, NEW c \in Clients, EndAnswered(c) PROVE Machine!Next
<1>1. /\ EndedBy(c) /\ answered' = answered \union {client[c].id}
      /\ UNCHANGED <<lease, driver, calls>>
  BY DEF EndAnswered, EndedBy, mainVars
<1>2. client[c].id # lease.id
  BY <1>1 DEF LeaseInv, MachineInv, EndsAreFinal
<1>3. client[c].id \in Scripts
  <2>1. client[c].id \in 0..scripts /\ client[c].id # NoScript /\ scripts \in Nat
        /\ scripts <= MaxScripts
    BY <1>1, IdsAreRun, MachineTypeNow DEF LeaseInv, MachineInv, EndedBy
  <2> QED
    BY <2>1, MaxScriptsAssumption DEF Scripts, NoScript
<1>4. Machine!Tell(client[c].id)
  BY <1>1, <1>2 DEF Machine!Tell
<1> QED
  BY <1>3, <1>4 DEF Machine!Next

LEMMA PageUnseen ==
  ASSUME NEW c \in Clients,
         \/ Run(c) \/ BeginAnswered(c) \/ Act(c) \/ ScriptEnds(c) \/ CancelScript(c)
         \/ ScriptTimeout(c)
  PROVE  UNCHANGED Machine!leaseVars
<1>1. UNCHANGED <<lease, driver, calls, answered>>
  BY DEF Run, BeginAnswered, Act, ScriptEnds, CancelScript, ScriptTimeout, mainVars
<1> QED
  BY <1>1, NothingSeen

LEMMA StepsPromised ==
  LeaseInv /\ [ComputerNext]_computerVars => [Machine!Next]_(Machine!leaseVars)
<1> DEFINE Promised == Machine!Next \/ UNCHANGED Machine!leaseVars
<1> SUFFICES ASSUME LeaseInv, [ComputerNext]_computerVars PROVE Promised
  OBVIOUS
<1>1. ASSUME NEW c \in Clients,
             \/ Run(c) \/ BeginAnswered(c) \/ Act(c) \/ ScriptEnds(c) \/ CancelScript(c)
             \/ ScriptTimeout(c) \/ EndAnswered(c) \/ Deliver(c) \/ Gone(c)
      PROVE  Promised
  BY <1>1, PageUnseen, EndAnsweredTells, DeliverPromised, GoneGivesUp
<1>2. ASSUME NEW id \in Scripts, NEW yes \in BOOLEAN, Available(id, yes) \/ Created(id, yes)
      PROVE  Promised
  BY <1>2, DriverPromised
<1>3. ASSUME NEW id, CallReturns(id) PROVE Promised
  BY <1>3, CallReturnsPromised
<1>4. ASSUME NEW listed \in BOOLEAN, Begun(listed) PROVE Promised
  BY <1>4, BegunPromised
<1>5. ASSUME Close \/ LeaseTimeout PROVE Promised
  BY <1>5, CloseFrees, TimeoutGivesUp
<1>6. ASSUME UNCHANGED computerVars PROVE Promised
  BY <1>6, NothingSeen DEF computerVars, mainVars
<1> HIDE DEF Promised
<1> QED
  BY <1>1, <1>2, <1>3, <1>4, <1>5, <1>6 DEF ComputerNext, ComputerSystem

\* For any pages and scripts, the lease of the machine keeps what MachineLease
\* promises: a script has the machine once, its actions reach a driver that
\* lives, one at a time, none is begun once the lease is ended, cancelled or
\* timed out, and its run is answered when it has the machine no more
\* (ComputerRuntime.begin, call, cancel, end and close).
THEOREM LeaseIsKept == ComputerSpec => KeepsLease
<1>1. ComputerInit => Machine!Init
  BY MaxScriptsAssumption DEF ComputerInit, NoLease, Machine!Init
<1>2. ComputerInit => LeaseInv
  BY LeaseInit
<1>3. LeaseInv /\ [ComputerNext]_computerVars => LeaseInv'
  BY LeaseNext
<1>4. LeaseInv /\ [ComputerNext]_computerVars => [Machine!Next]_(Machine!leaseVars)
  BY StepsPromised
<1> QED
  BY <1>1, <1>2, <1>3, <1>4, PTL DEF ComputerSpec, KeepsLease, Machine!Spec
=============================================================================
