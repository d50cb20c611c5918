---------------------------- MODULE MessageLine ----------------------------
(***************************************************************************)
(* What a thread's queue promises whoever leaves a message in it, without   *)
(* the row, the lock, the goroutines and the agent's turns that keep it     *)
(* (server/queue.go): a message waits in its line until it is started or    *)
(* withdrawn, each line is served from its head, a reorder is the user's    *)
(* own, and a start that fails costs the message nothing.                   *)
(***************************************************************************)
EXTENDS SequencesExt

CONSTANTS Public, Internal

VARIABLES
    public, internal,   \* the lines
    started, withdrawn,
    edits               \* how often the user reordered

vars == <<public, internal, started, withdrawn, edits>>

Init == public = <<>> /\ internal = <<>> /\ started = {} /\ withdrawn = {} /\ edits = 0

Waiting == Range(public) \union Range(internal)

Fresh(m) == m \notin started \union withdrawn \union Waiting

AcceptPublic(m) ==
    /\ Fresh(m)
    /\ public' = Append(public, m)
    /\ UNCHANGED <<internal, started, withdrawn, edits>>

AcceptInternal(m) ==
    /\ Fresh(m)
    /\ internal' = Append(internal, m)
    /\ UNCHANGED <<public, started, withdrawn, edits>>

\* A message that finds the thread free starts without waiting.
StartAtOnce(m) ==
    /\ Fresh(m)
    /\ started' = started \union {m}
    /\ UNCHANGED <<public, internal, withdrawn, edits>>

StartPublic ==
    /\ public # <<>>
    /\ started' = started \union {Head(public)}
    /\ public' = Tail(public)
    /\ UNCHANGED <<internal, withdrawn, edits>>

StartInternal ==
    /\ internal # <<>>
    /\ started' = started \union {Head(internal)}
    /\ internal' = Tail(internal)
    /\ UNCHANGED <<public, withdrawn, edits>>

Withdraw ==
    /\ \E i \in DOMAIN public :
          /\ public' = RemoveAt(public, i)
          /\ withdrawn' = withdrawn \union {public[i]}
    /\ UNCHANGED <<internal, started, edits>>

Reorder ==
    /\ public' \in SetToSeqs(Range(public))
    /\ edits' = edits + 1
    /\ UNCHANGED <<internal, started, withdrawn>>

Next ==
    \/ \E m \in Public : AcceptPublic(m) \/ StartAtOnce(m)
    \/ \E m \in Internal : AcceptInternal(m)
    \/ StartPublic \/ StartInternal \/ Withdraw \/ Reorder

Spec == Init /\ [][Next]_vars
=============================================================================
